----------------------------- MODULE BlockPool ------------------------------
(***************************************************************************)
(* max/python/max/pipelines/kv_cache/paged_kv_cache/block_pool.py and the  *)
(* free list of block_utils.py: the blocks of one replica, as a record and *)
(* the functions that change it.  A block that is free may still be in the *)
(* prefix cache until it is allocated again.                               *)
(*                                                                         *)
(* kv is the device memory: for every slot of a block the tokens up to and *)
(* including the one whose keys and values it holds.  What a block holds   *)
(* when it is neither referenced nor cached does not matter, and is the    *)
(* empty sequence.  ok records whether the asserts of the code have held.  *)
(***************************************************************************)
EXTENDS Integers, Sequences, FiniteSets, SequencesExt

CONSTANTS NumBlocks, BlockSize

ASSUME PoolAssumption == NumBlocks \in Nat \ {0} /\ BlockSize \in Nat \ {0}

Blocks == 1 .. NumBlocks

\* The placeholder of dummy requests, which is never freed
NullBlock == NumBlocks + 1

\* A hash stands for the tokens it is computed from; an uncommitted block has none.
NoHash == <<>>
Garbage == [i \in 1 .. BlockSize |-> <<>>]

NewPool ==
    [free  |-> [i \in 1 .. NumBlocks |-> i],
     ref   |-> [b \in Blocks |-> 0],
     hash  |-> [b \in Blocks |-> NoHash],
     cache |-> <<>>,
     kv    |-> [b \in Blocks |-> Garbage],
     ok    |-> TRUE]

\* Mutant: a free block stays in the free list.
Touch_StaysFree(p, b) == [p EXCEPT !.ref[b] = @ + 1]

Touch(p, b) ==
    [p EXCEPT !.free = IF p.ref[b] = 0 THEN Remove(@, b) ELSE @,
              !.ref[b] = @ + 1]

FreeBlock(p, b) ==
    IF b = NullBlock THEN p
    ELSE [p EXCEPT !.ref[b] = @ - 1,
                   !.free = IF p.ref[b] = 1 THEN Append(@, b) ELSE @,
                   !.kv[b] = IF p.ref[b] = 1 /\ p.hash[b] = NoHash THEN Garbage ELSE @,
                   !.ok = @ /\ p.ref[b] > 0]

CommitIntoPrefixCache(p, h, b) ==
    [p EXCEPT !.hash[b] = h,
              !.cache = [k \in DOMAIN @ \cup {h} |-> IF k = h THEN b ELSE p.cache[k]],
              !.ok = @ /\ p.hash[b] = NoHash /\ h \notin DOMAIN p.cache]

\* Mutant: the cache keeps the block.
UncommitBlock_Kept(p, b) == [p EXCEPT !.hash[b] = NoHash]

UncommitBlock(p, b) ==
    IF p.hash[b] \notin DOMAIN p.cache THEN p
    ELSE
    [p EXCEPT !.hash[b] = NoHash,
              !.cache = Restrict(@, DOMAIN @ \ {p.hash[b]})]

\* The least recently used block, out of the prefix cache if it is there
AllocBlock(p) ==
    LET b == Head(p.free)
        q == IF p.hash[b] = NoHash THEN p ELSE UncommitBlock(p, b)
    IN  [q EXCEPT !.free = Tail(@), !.ref[b] = @ + 1, !.kv[b] = Garbage,
                  !.ok = @ /\ p.ref[b] = 0 /\ q.hash[b] = NoHash]

\* Mutant: the own block is not given back.
GetOrCommit_Leaks(p, h, b) ==
    IF h \notin DOMAIN p.cache THEN [pool |-> CommitIntoPrefixCache(p, h, b), block |-> b]
    ELSE IF p.cache[h] = b THEN [pool |-> p, block |-> b]
    ELSE [pool |-> Touch(p, p.cache[h]), block |-> p.cache[h]]

\* get_or_commit_into_prefix_cache: the pool, and the block to use from now on
GetOrCommit(p, h, b) ==
    IF h \notin DOMAIN p.cache THEN [pool |-> CommitIntoPrefixCache(p, h, b), block |-> b]
    ELSE IF p.cache[h] = b THEN [pool |-> p, block |-> b]
    ELSE [pool |-> FreeBlock([Touch(p, p.cache[h]) EXCEPT !.ok = @ /\ p.hash[b] = NoHash], b),
          block |-> p.cache[h]]

\* reset_prefix_cache
PurgeCache(p) ==
    [p EXCEPT !.hash = [b \in Blocks |-> IF p.ref[b] = 0 THEN NoHash ELSE @[b]],
              !.cache = Restrict(@, {h \in DOMAIN @ : p.ref[p.cache[h]] > 0}),
              !.kv = [b \in Blocks |-> IF p.ref[b] = 0 THEN Garbage ELSE @[b]]]

=============================================================================
