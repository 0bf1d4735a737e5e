--------------------------- MODULE MCRunDispatch ---------------------------
(* Instances of RunDispatch for TLC: small sets of model values and the     *)
(* fault budgets of the runs.                                               *)
EXTENDS RunDispatch

CONSTANTS w1, w2, h1, h2, h3, h4, a, b, c, chat, other

OneThread == [r \in Runs |-> chat]
TwoThreads == [r \in Runs |-> IF r = c THEN other ELSE chat]

NoFaults == [k \in FaultKinds |-> 0]
OneCrash == [NoFaults EXCEPT !["crash"] = 1]
OneDrop == [NoFaults EXCEPT !["drop"] = 1]
OneOfEach == [k \in FaultKinds |-> 1]

Struck == {k \in FaultKinds : left[k] < Budget[k]}
Cancelled == cancelling # {} \/ \E r \in Runs : status[r] = "cancelled"

\* Bound: one fault of any kind; a cancellation is of the only run, and beside
\* it there is a lost connection or a failing database operation at most.
OneFault == /\ Cardinality(Struck) <= 1
            /\ Cancelled => /\ Struck \subseteq {"drop", "mongo"}
                            /\ \A r \in Runs \ {a} : status[r] = "none"

Interchangeable == Permutations(Slots)
=============================================================================
