----------------------------- MODULE MCLoadTest ----------------------------
(* Instances of LoadTest for TLC.                                           *)
EXTENDS LoadTest

CONSTANTS a1, a2, b1, p, ann, bob, host, page

\* Both users share the harness's address; somebody else has a page open.
Addresses == [r \in Requests |-> IF r = p THEN page ELSE host]
Firsts == [u \in Users |-> IF u = ann THEN a1 ELSE b1]
Seconds == [u \in Users |-> IF u = ann THEN a2 ELSE None]

(* Bound: the more faults, the less time passes.                            *)
Bound == now + 2 * (Faults - left) <= MaxNow
BoundedSpec == LoadInit /\ [][LoadNext /\ Bound']_load /\ WF_load(LoadProgress)
=============================================================================
