---------------------------- MODULE BlockManager ----------------------------
(***************************************************************************)
(* .../paged_kv_cache/block_manager.py and the alloc, step and release of  *)
(* cache_manager.py, as the scheduler and the text generation pipeline     *)
(* call them: requests are claimed on a replica and given blocks, a batch  *)
(* of those that got them is run, each writing the keys and values of its  *)
(* next tokens, and each of the batch is then stepped, which commits its   *)
(* full blocks into the prefix cache.  A request may be released between   *)
(* batches, and come back as a new prompt.                                 *)
(***************************************************************************)
EXTENDS BlockPool, FiniteSetsExt

CONSTANTS
    Requests,
    Dummies,        \* padding requests
    NumReplicas,
    Prompt,         \* Prompt[r]: the tokens of request r
    Sampled,        \* tokens a model may generate
    MaxLength,      \* bound on the tokens of a request, which is then done
    MaxClaims,      \* bound on how often requests are claimed
    CrossReplicaCopy

Replicas == 1 .. NumReplicas
Unclaimed == 0

ASSUME ManagerAssumption ==
    /\ NumReplicas \in Nat \ {0} /\ CrossReplicaCopy \in BOOLEAN
    /\ \A r \in Requests : Len(Prompt[r]) \in 1 .. MaxLength
    /\ Requests \cap Dummies = {}

VARIABLES
    pools,      \* per replica: its BlockPool
    req,        \* per request: its claim and its context
    phase,      \* per request: "idle", "ready" to run, or "ran" and to be stepped
    claims,     \* how often requests were claimed
    ok          \* whether the asserts of the manager have held

vars == <<pools, req, phase, claims, ok>>

\* A request's blocks, the number of its tokens committed, and its token window
NewRequest(tokens) ==
    [replica |-> Unclaimed, blocks |-> <<>>, committed |-> 0,
     tokens |-> tokens, processed |-> 0]

NoRequest == NewRequest(<<>>)

Init ==
    /\ pools = [i \in Replicas |-> NewPool]
    /\ req = [r \in Requests \cup Dummies |->
                IF r \in Requests THEN NewRequest(Prompt[r]) ELSE NoRequest]
    /\ phase = [r \in Requests |-> "idle"]
    /\ claims = 0
    /\ ok = TRUE

ActiveLength(q) == Len(q.tokens) - q.processed

\* compute_block_hashes: the last token is not hashed.
Hashes(q) == [i \in 1 .. (Len(q.tokens) - 1) \div BlockSize |-> SubSeq(q.tokens, 1, i * BlockSize)]

CeilDiv(a, b) == (a + b - 1) \div b

-----------------------------------------------------------------------------
(* alloc *)

\* One round of the loop of _get_full_blocks_from_device_prefix_cache on replica i:
\* use the local block, or allocate one to copy another replica's to, or stop.
Hit(i, s, h) ==
    LET pool == s.pools[i]
        holders == {j \in Replicas \ {i} : h \in DOMAIN s.pools[j].cache}
    IN  IF s.stop THEN s
        ELSE IF h \in DOMAIN pool.cache
        THEN [s EXCEPT !.pools[i] = Touch(pool, pool.cache[h]),
                       !.blocks = Append(@, pool.cache[h])]
        ELSE IF CrossReplicaCopy /\ holders # {} /\ pool.free # <<>>
        THEN LET j == Min(holders) IN
             [s EXCEPT !.pools[i] = AllocBlock(pool),
                       !.blocks = Append(@, Head(pool.free)),
                       !.copies = Append(@, [hash |-> h, dst |-> Head(pool.free), from |-> j,
                                             src |-> s.pools[j].cache[h]])]
        ELSE [s EXCEPT !.stop = TRUE]

\* Mutant: the copied blocks are not filled.
CopyAndCommit_NoCopy(i, ps, c) ==
    [ps EXCEPT ![i] = CommitIntoPrefixCache(@, c.hash, c.dst)]

CopyAndCommit(i, ps, c) ==
    [ps EXCEPT ![i] = CommitIntoPrefixCache([@ EXCEPT !.kv[c.dst] = ps[c.from].kv[c.src]],
                                            c.hash, c.dst)]

\* get_full_blocks_from_prefix_cache: the pools and the blocks that continue the
\* committed prefix of q
GetFullBlocks(ps, q) ==
    LET i == q.replica
        s == FoldLeft(LAMBDA t, h : Hit(i, t, h),
                      [pools |-> ps, blocks |-> <<>>, copies |-> <<>>, stop |-> FALSE],
                      SubSeq(Hashes(q), q.committed \div BlockSize + 1, Len(Hashes(q))))
    IN  [pools |-> FoldLeft(LAMBDA t, c : CopyAndCommit(i, t, c), s.pools, s.copies),
         blocks |-> s.blocks]

FreeAll(pool, blocks) == FoldLeft(LAMBDA t, b : FreeBlock(t, b), pool, blocks)

\* release_uncommitted_blocks, from the last block on
ReleaseUncommitted(ps, q) ==
    LET n == q.committed \div BlockSize IN
    [pools |-> [ps EXCEPT ![q.replica] = FreeAll(@, Reverse(SubSeq(q.blocks, n + 1, Len(q.blocks))))],
     req |-> [q EXCEPT !.blocks = SubSeq(@, 1, n), !.processed = q.committed]]

\* reuse_blocks_from_prefix_cache: also the number of tokens skipped
Reuse(ps, q) ==
    LET hits == GetFullBlocks(ps, q)
        s == ReleaseUncommitted(hits.pools, q)
        committed == q.committed + Len(hits.blocks) * BlockSize
    IN  IF ActiveLength(q) = 1 \/ hits.blocks = <<>>
        THEN [pools |-> ps, req |-> q, skipped |-> 0]
        ELSE [pools |-> s.pools,
              req |-> [s.req EXCEPT !.blocks = @ \o hits.blocks, !.committed = committed,
                                    !.processed = committed],
              skipped |-> committed - s.req.processed]

\* _compute_seq_len, without speculative decoding
SeqLen(q) == q.processed + ActiveLength(q)

NumBlocksToAllocate(q) == Max({0, CeilDiv(SeqLen(q), BlockSize) - Len(q.blocks)})

\* allocate_new_blocks raises InsufficientBlocksError.
Insufficient(ps, q) ==
    \/ Len(q.tokens) > NumBlocks * BlockSize
    \/ NumBlocksToAllocate(q) > Len(ps[q.replica].free)

AllocateNew(ps, q) ==
    LET n == NumBlocksToAllocate(q)
        free == ps[q.replica].free
    IN  [pools |-> [ps EXCEPT ![q.replica] =
                      FoldLeft(LAMBDA t, b : AllocBlock(t), @, SubSeq(free, 1, n))],
         req |-> [q EXCEPT !.blocks = @ \o SubSeq(free, 1, n)]]

\* Mutant: the committed index is not taken back.
Rollback_KeepsCommitted(ps, q, skipped) ==
    IF skipped = 0 THEN [pools |-> ps, req |-> q]
    ELSE LET n == (q.committed - skipped) \div BlockSize IN
         [pools |-> [ps EXCEPT ![q.replica] =
                       FreeAll(@, Reverse(SubSeq(q.blocks, n + 1, Len(q.blocks))))],
          req |-> [q EXCEPT !.blocks = SubSeq(@, 1, n), !.processed = q.committed - skipped]]

\* rollback_prefix_reuse
Rollback(ps, q, skipped) ==
    IF skipped = 0 THEN [pools |-> ps, req |-> q]
    ELSE ReleaseUncommitted(ps, [q EXCEPT !.committed = @ - skipped])

-----------------------------------------------------------------------------
(* The scheduler: between batches *)

Scheduling == \A r \in Requests : phase[r] # "ran"

Claim(r, i) ==
    /\ Scheduling /\ req[r].replica = Unclaimed /\ claims < MaxClaims
    /\ req' = [req EXCEPT ![r].replica = i]
    /\ claims' = claims + 1
    /\ UNCHANGED <<pools, phase, ok>>

Alloc(r) ==
    LET reused == Reuse(pools, req[r])
        new == AllocateNew(reused.pools, reused.req)
        back == Rollback(reused.pools, reused.req, reused.skipped)
    IN
    /\ Scheduling /\ req[r].replica # Unclaimed /\ phase[r] = "idle"
    /\ Len(req[r].tokens) < MaxLength
    /\ ok' = (ok /\ ActiveLength(reused.req) >= 1
                 /\ reused.req.processed <= Len(reused.req.blocks) * BlockSize)
    /\ \/ /\ ~Insufficient(reused.pools, reused.req)
          /\ pools' = new.pools
          /\ req' = [req EXCEPT ![r] = new.req]
          /\ phase' = [phase EXCEPT ![r] = "ready"]
       \/ /\ Insufficient(reused.pools, reused.req)
          /\ pools' = back.pools
          /\ req' = [req EXCEPT ![r] = back.req]
          /\ UNCHANGED phase
    /\ UNCHANGED claims

\* Mutant: the blocks are freed first to last.
Release_InOrder(r) ==
    /\ Scheduling /\ req[r].replica # Unclaimed
    /\ pools' = [pools EXCEPT ![req[r].replica] = FreeAll(@, req[r].blocks)]
    /\ req' = [req EXCEPT ![r] = NewRequest(@.tokens)]
    /\ phase' = [phase EXCEPT ![r] = "idle"]
    /\ UNCHANGED <<claims, ok>>

\* The last block first.  The context is reset: all its tokens are a new prompt.
Release(r) ==
    /\ Scheduling /\ req[r].replica # Unclaimed
    /\ pools' = [pools EXCEPT ![req[r].replica] = FreeAll(@, Reverse(req[r].blocks))]
    /\ req' = [req EXCEPT ![r] = NewRequest(@.tokens)]
    /\ phase' = [phase EXCEPT ![r] = "idle"]
    /\ UNCHANGED <<claims, ok>>

ResetPrefixCache ==
    /\ Scheduling
    /\ pools' = [i \in Replicas |-> PurgeCache(pools[i])]
    /\ UNCHANGED <<req, phase, claims, ok>>

\* The requests of the batch on replica i
Ready(i) == {r \in Requests : phase[r] = "ready" /\ req[r].replica = i}

\* pad_batch of dp_padding.py: a replica whose batch is shorter than another's
AllocDummy(d, i) ==
    /\ Scheduling /\ req[d].replica = Unclaimed
    /\ \A r \in Requests : phase[r] = "ready" => ActiveLength(req[r]) = 1
    /\ \E j \in Replicas : Cardinality(Ready(i)) < Cardinality(Ready(j))
    /\ req' = [req EXCEPT ![d].replica = i, ![d].blocks = <<NullBlock>>]
    /\ UNCHANGED <<pools, phase, claims, ok>>

ReleaseDummy(d) ==
    /\ Scheduling /\ req[d].replica # Unclaimed
    /\ pools' = [pools EXCEPT ![req[d].replica] = FreeAll(@, Reverse(req[d].blocks))]
    /\ req' = [req EXCEPT ![d] = NoRequest]
    /\ UNCHANGED <<phase, claims, ok>>

-----------------------------------------------------------------------------
(* The pipeline: a batch *)

\* The device writes what the next n tokens of q need.
Written(kv, q, n) ==
    [b \in Blocks |-> [s \in 1 .. BlockSize |->
        LET written == {p \in q.processed + 1 .. q.processed + n :
                          /\ q.blocks[(p - 1) \div BlockSize + 1] = b
                          /\ s = ((p - 1) % BlockSize) + 1}
        IN  IF written = {} THEN kv[b][s] ELSE SubSeq(q.tokens, 1, Max(written))]]

\* Run a request: a chunk of its active tokens, or all of them, which yields a token.
Run(r, n) ==
    LET q == req[r] IN
    /\ phase[r] = "ready" /\ n \in 1 .. ActiveLength(q)
    /\ pools' = [pools EXCEPT ![q.replica].kv = Written(@, q, n)]
    /\ \/ /\ n < ActiveLength(q)
          /\ req' = [req EXCEPT ![r].processed = @ + n]
       \/ /\ n = ActiveLength(q)
          /\ \E t \in Sampled :
               req' = [req EXCEPT ![r].processed = @ + n,
                                  ![r].tokens = Append(@, t)]
    /\ phase' = [phase EXCEPT ![r] = "ran"]
    /\ UNCHANGED <<claims, ok>>

\* One round of the loop of commit_to_prefix_cache
CommitBlock(s, k) ==
    LET got == GetOrCommit(s.pool, Hashes(s.req)[k], s.req.blocks[k]) IN
    [pool |-> got.pool, req |-> [s.req EXCEPT !.blocks[k] = got.block]]

\* commit_to_prefix_cache: the blocks that are full
Committed(pool, q) ==
    LET n == q.processed \div BlockSize
        from == q.committed \div BlockSize
        s == FoldLeft(CommitBlock, [pool |-> pool, req |-> q],
                      [k \in 1 .. n - from |-> from + k])
    IN  [s EXCEPT !.req.committed = n * BlockSize]

\* The batch is stepped when all of it has run.
Step(r) ==
    LET s == Committed(pools[req[r].replica], req[r]) IN
    /\ phase[r] = "ran" /\ \A o \in Requests : phase[o] # "ready"
    /\ pools' = [pools EXCEPT ![req[r].replica] = s.pool]
    /\ req' = [req EXCEPT ![r] = s.req]
    /\ phase' = [phase EXCEPT ![r] = "idle"]
    /\ UNCHANGED <<claims, ok>>

Next ==
    \/ \E r \in Requests : \/ \E i \in Replicas : Claim(r, i)
                           \/ Alloc(r) \/ Release(r) \/ Step(r)
                           \/ \E n \in 1 .. MaxLength : Run(r, n)
    \/ \E d \in Dummies : ReleaseDummy(d) \/ \E i \in Replicas : AllocDummy(d, i)
    \/ ResetPrefixCache

Spec == Init /\ [][Next]_vars

-----------------------------------------------------------------------------
(* Properties *)

\* Every block is counted: it is referenced as often as requests list it, and it is
\* in the free list, once, exactly when none does.  Nothing leaks, however requests
\* come, fail to be allocated, share blocks and go.
BlocksAccounted ==
    \A i \in Replicas : \A b \in Blocks :
        /\ pools[i].ref[b] = Cardinality({<<r, k>> \in Requests \X (1 .. NumBlocks) :
              req[r].replica = i /\ k \in DOMAIN req[r].blocks /\ req[r].blocks[k] = b})
        /\ Cardinality({k \in DOMAIN pools[i].free : pools[i].free[k] = b})
             = IF pools[i].ref[b] = 0 THEN 1 ELSE 0

\* The keys and values a request has are those of its own tokens: no block it holds
\* was given to another, overwritten or matched wrongly, and a copied one was filled.
RequestsReadTheirOwn ==
    \A r \in Requests : \A p \in 1 .. req[r].processed :
        pools[req[r].replica].kv[req[r].blocks[(p - 1) \div BlockSize + 1]][((p - 1) % BlockSize) + 1]
            = SubSeq(req[r].tokens, 1, p)

\* "Check that all blocks in the prefix cache are committed", and that they hold what
\* their hash says.
CacheIsTrue ==
    \A i \in Replicas :
        /\ \A h \in DOMAIN pools[i].cache :
             /\ pools[i].hash[pools[i].cache[h]] = h
             /\ \A s \in 1 .. BlockSize :
                  pools[i].kv[pools[i].cache[h]][s] = SubSeq(h, 1, Len(h) - BlockSize + s)
        /\ \A b \in Blocks : pools[i].hash[b] # NoHash => pools[i].hash[b] \in DOMAIN pools[i].cache

\* Blocks are evicted from the tail of a chain of blocks, so the cache never holds
\* one that no lookup can reach.
CacheIsReachable ==
    \A i \in Replicas : \A h \in DOMAIN pools[i].cache :
        Len(h) > BlockSize => SubSeq(h, 1, Len(h) - BlockSize) \in DOMAIN pools[i].cache

\* The asserts hold, and a request that runs has room for its tokens.
AssertsHold ==
    /\ ok /\ \A i \in Replicas : pools[i].ok
    /\ \A r \in Requests : phase[r] = "ready" => SeqLen(req[r]) <= Len(req[r].blocks) * BlockSize

\* "The request is left as it was before the call, so the caller can release or retry
\* it": of alloc, when it raises InsufficientBlocksError after it has spliced cached
\* blocks into the request.
LeftAsItWas ==
    [][\A r \in Requests :
         /\ phase[r] = "idle" /\ phase'[r] = "idle"
         /\ req[r].replica # Unclaimed /\ req'[r].replica # Unclaimed
         => req'[r] = req[r]]_vars
=============================================================================
