----------------------------- MODULE MCBlobCache -----------------------------
(***************************************************************************)
(* Two calls in one process, one in another, and one in a third process    *)
(* that may only read.                                                     *)
(***************************************************************************)
EXTENDS BlobCache, TLC

CONSTANTS p1, p2, p3, c1, c2, c3, c4

Owner == [c \in {c1, c2, c3, c4} |-> IF c \in {c1, c2} THEN p1 ELSE IF c = c3 THEN p2 ELSE p3]
SameProcess == Permutations({c1, c2})
=============================================================================
