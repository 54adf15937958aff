----------------------- MODULE MCDisaggregatedServing -----------------------
(***************************************************************************)
(* Two requests: one with a prefix to load, one without.                   *)
(***************************************************************************)
EXTENDS DisaggregatedServing

CONSTANTS r1, r2

Both(x, y) == [r \in {r1, r2} |-> IF r = r1 THEN x ELSE y]

\* Clients cancel; there are blocks for one request at a time.
Cancelling == [
    order |-> <<r1, r2>>, need |-> Both(2, 2), cached |-> Both(1, 0), tokens |-> Both(2, 2), more |-> Both(0, 0),
    constrained |-> {}, slow |-> {}, cancellable |-> {r1, r2}, ttl |-> FALSE, overlap |-> TRUE,
    crashes |-> 0, numBlocks |-> 3, maxBatch |-> 2]

\* Prefill crashes once; requests expire.
Crashing == [
    order |-> <<r1, r2>>, need |-> Both(2, 1), cached |-> Both(1, 0), tokens |-> Both(2, 2), more |-> Both(0, 0),
    constrained |-> {}, slow |-> {}, cancellable |-> {r2}, ttl |-> TRUE, overlap |-> FALSE,
    crashes |-> 1, numBlocks |-> 2, maxBatch |-> 2]

\* A request with a grammar, which may be cancelled while it is built, and one without;
\* there are no blocks for both to generate at once.
Gating == [
    order |-> <<r1, r2>>, need |-> Both(1, 1), cached |-> Both(0, 0), tokens |-> Both(3, 3), more |-> Both(1, 1),
    constrained |-> {r1}, slow |-> {r1}, cancellable |-> {r1}, ttl |-> FALSE, overlap |-> FALSE,
    crashes |-> 0, numBlocks |-> 3, maxBatch |-> 2]

\* The grammar is there in time; there are blocks for one of them to generate.
Tight == [Gating EXCEPT !.slow = {}, !.numBlocks = 2]

\* A request that is done with its first token
Short == [Gating EXCEPT !.tokens = Both(2, 1), !.maxBatch = 1]

Scenarios == {Cancelling, [Cancelling EXCEPT !.numBlocks = 5], Crashing, Gating, Tight, Short}
OnlyCancelling == {Cancelling}
OnlyGating == {Gating}
=============================================================================
