------------------------- MODULE MCGracefulShutdown -------------------------
(* Instances of GracefulShutdown for TLC.                                   *)
EXTENDS GracefulShutdown, FiniteSetsExt

CONSTANTS w1, w2, h1, h2, h3, a, b, c, chat, other

OneThread == [r \in Runs |-> chat]

NoFaults == [k \in FaultKinds |-> 0]
OneUpset == [NoFaults EXCEPT !["drop"] = 1, !["crash"] = 1, !["mongo"] = 1]

Spent == MapThenSumSet(LAMBDA k : Budget[k] - left[k], FaultKinds)
Again == IF \E i \in Signals : i > 1 /\ stop[i].at # "none" THEN 1 ELSE 0

(* Bound: two runs and a planned stop, or one run with a fault or a second    *)
(* signal.                                                                    *)
Bound == /\ Spent + Again <= 1
         /\ Spent + Again = 1 => \A r \in Runs \ {a} : status[r] = "none"

BoundedSpec == ShutdownInit /\ [][ShutdownNext /\ Bound']_allVars
                            /\ ShutdownFairness
=============================================================================
