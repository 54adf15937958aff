--------------------------- MODULE MCWaitTimeout ----------------------------
(* Three callers whose time-outs differ, and two for the progress checks *)
EXTENDS WaitTimeout

CONSTANTS c1, c2, c3

Three == {c1, c2, c3}
Two == {c1, c2}
One == {c1}
DelaysOfThree == [c \in Three |-> CASE c = c1 -> 0 [] c = c2 -> 1 [] c = c3 -> 2]
DelaysOfTwo == [c \in Two |-> IF c = c1 THEN 1 ELSE 3]
=============================================================================
