--------------------------- MODULE MCEventStream ---------------------------
(* Instances of EventStream for TLC.                                        *)
EXTENDS EventStream

NoFaults == [k \in FaultKinds |-> 0]
RedisGone == [NoFaults EXCEPT !["redis"] = 1]
OneOfEach == [k \in FaultKinds |-> 1]
=============================================================================
