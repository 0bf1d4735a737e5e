--------------------------- MODULE MCSandboxPool ---------------------------
(* Instances of SandboxPool for TLC.                                        *)
EXTENDS SandboxPool, TLC

CONSTANTS w1, w2, a, b, c1, c2, c3, c4, c5

OneOfEach == [k \in FaultKinds |-> 1]
\* Bound: one fault, of any kind.
BoundedSpec == Init /\ [][Next /\ (left # Budget => left' = left)]_vars

Interchangeable == Permutations(Boxes) \cup Permutations(Runs)
                     \cup Permutations(Workers)
=============================================================================
