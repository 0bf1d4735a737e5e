----------------------------- MODULE MCRunLoop -----------------------------
(* Instances of RunLoop for TLC: the executions are interchangeable model   *)
(* values, the budgets say which upsets a run allows.                       *)
EXTENDS RunLoop

CONSTANTS x1, x2, x3

NoUpsets == [k \in UpsetKinds |-> 0]
AllUpsets == [k \in UpsetKinds |-> 1]

Suffered(k) == Budget[k] - left[k]

\* Bound: a run that is reset while it is executed has two executions, one
\* more upset, an error, and ends within its first two turns.
SlowBound ==
  Suffered("slow") > 0 =>
    /\ Suffered("crash") + Suffered("timeout") + Suffered("cancel") = 0
    /\ exec[x3].pc = "new"
    /\ \A x \in Executions : exec[x].turn < 2

BoundedSpec == Init /\ [][Next /\ SlowBound']_vars /\ Fairness
=============================================================================
