---------------------- MODULE MCLockFreeRingBufferHist ----------------------
(***************************************************************************)
(* The ring buffer with its history, two producers and two consumers.      *)
(***************************************************************************)
EXTENDS LockFreeRingBufferHist

CONSTANTS p1, p2, c1, c2, x1, x2

TwoProducers == {p1, p2}
TwoConsumers == {c1, c2}
TwoItems == {x1, x2}
OneEach == [t \in TwoProducers |-> IF t = p1 THEN {x1} ELSE {x2}]
=============================================================================
