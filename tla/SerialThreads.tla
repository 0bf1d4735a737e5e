--------------------------- MODULE SerialThreads ---------------------------
(***************************************************************************)
(* What the dispatch of runs promises its users, without queues, locks or  *)
(* workers: a submitted run waits, becomes active when no run of its       *)
(* thread is active, and is settled once it has a terminal status and no   *)
(* worker executes it.  A waiting run may be settled without ever being    *)
(* active (it was cancelled).                                              *)
(***************************************************************************)
CONSTANTS Runs, Threads, ThreadOf

VARIABLE phase

Phases == {"absent", "waiting", "active", "settled"}

Busy(t) == \E r \in Runs : ThreadOf[r] = t /\ phase[r] = "active"

Submit(r) == /\ phase[r] = "absent"
             /\ phase' = [phase EXCEPT ![r] = "waiting"]

Start(r) == /\ phase[r] = "waiting"
            /\ ~Busy(ThreadOf[r])
            /\ phase' = [phase EXCEPT ![r] = "active"]

Drop(r) == /\ phase[r] = "waiting"
           /\ phase' = [phase EXCEPT ![r] = "settled"]

Complete(r) == /\ phase[r] = "active"
               /\ phase' = [phase EXCEPT ![r] = "settled"]

Init == phase = [r \in Runs |-> "absent"]

Next == \E r \in Runs : Submit(r) \/ Start(r) \/ Drop(r) \/ Complete(r)

\* One active run per thread, and none that is active or settled again.
Safety == Init /\ [][Next]_phase

\* A run waits for the runs of its thread that overtook it, hence the strong
\* fairness of Start; there are finitely many runs.
Spec == /\ Safety
        /\ \A r \in Runs : SF_phase(Start(r)) /\ WF_phase(Complete(r))
=============================================================================
