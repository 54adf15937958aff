---------------------------- MODULE MCAsyncValue ----------------------------
(***************************************************************************)
(* Three threads that make four calls of andThen on one value, and a chain *)
(* of two indirect values.                                                 *)
(***************************************************************************)
EXTENDS AsyncValue, TLC

CONSTANTS v1, v2, v3, c1, c2, c3, c4

\* c1 and c2 own their references; c4 is called by the thread of c3.
Race == [
    values |-> {v1}, failing |-> {}, target |-> [v \in {} |-> v],
    on |-> [c \in {c1, c2, c3, c4} |-> v1], owning |-> {c1, c2},
    after |-> [c \in {c1, c2, c3, c4} |-> IF c = c4 THEN c3 ELSE Null]]

\* v3 is resolved to v2 and v2 to v1, which fails.
FailingChain == [
    values |-> {v1, v2, v3}, failing |-> {v1}, target |-> (v2 :> v1 @@ v3 :> v2),
    on |-> c1 :> v3, owning |-> {c1}, after |-> c1 :> Null]

RaceAndChain == {Race, FailingChain}
EveryProc == {v1, v2, v3, c1, c2, c3, c4}
=============================================================================
