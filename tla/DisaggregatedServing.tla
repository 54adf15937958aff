------------------------ MODULE DisaggregatedServing ------------------------
(***************************************************************************)
(* max/serve/scheduler: decode_scheduler.py and prefill_scheduler.py, with *)
(* the batch constructor and the KV transfer engine as they use them.  A   *)
(* decode worker admits requests, reserves blocks of its KV cache for them *)
(* and sends them to a prefill worker, which computes the keys and values  *)
(* of the prompt, writes them into those blocks over the network, and      *)
(* replies with the first token.  The decode worker generates the rest.    *)
(*                                                                         *)
(* Each worker is a single thread.  Clients may cancel, requests may       *)
(* expire, grammars are built by other threads, and the prefill worker may *)
(* crash and restart.                                                      *)
(***************************************************************************)
EXTENDS Integers, Sequences, FiniteSets, SequencesExt

CONSTANTS Requests, Nobody, Setups

\* The setup of a behaviour: "order" in which requests arrive, "need" and "cached" the
\* number of blocks of each prompt and of those an onload fills, "tokens" to generate and
\* the "more" blocks they take, "constrained" the requests with a grammar and "slow" those
\* whose grammar takes time or is bad, "cancellable", "ttl" and "overlap" whether requests
\* expire and prefill overlaps batches, "crashes", "numBlocks", "maxBatch".
VARIABLE setup

Blocks == 1 .. setup.numBlocks
Constrained == setup.constrained

ASSUME ServingAssumption ==
    /\ Nobody \notin Requests
    /\ \A s \in Setups :
         /\ ToSet(s.order) = Requests /\ Len(s.order) = Cardinality(Requests)
         /\ s.constrained \cup s.cancellable \subseteq Requests /\ s.slow \subseteq s.constrained
         /\ {s.ttl, s.overlap} \subseteq BOOLEAN
         /\ {s.crashes, s.numBlocks, s.maxBatch} \subseteq Nat /\ s.maxBatch > 0
         /\ \A r \in Requests : /\ s.cached[r] \in Nat /\ s.tokens[r] \in Nat \ {0}
                                /\ s.need[r] \in Nat /\ s.need[r] > s.cached[r] /\ s.more[r] \in Nat
                                /\ s.need[r] + s.more[r] <= s.numBlocks

VARIABLES
    (* decode *)
    dpc,          \* the stage of run_iteration
    pending,      \* request_queue and pending_reqs
    requests,     \* requests: phase, cancelled, and whether the TTL has passed
    prefillReqs,  \* prefill_reqs_per_replica, of the one replica
    ce, tg,       \* the queues of the batch constructor
    gated,        \* _grammar_pending
    failed,       \* _grammar_failed
    build,        \* the grammar build of a request, if it has one
    unclaimed,    \* history: the requests dropped by the gate as if they had no blocks
    blocks,       \* the blocks a request has claimed, those of the onload first
    kv,           \* per block: the request whose keys and values it holds
    (* between the workers *)
    writes,       \* onloads and transfers under way
    landed,       \* requests whose transfer the decode engine was notified of
    inbox,        \* messages to prefill
    outbox,       \* messages to decode
    engines,      \* who has sent or been sent what: see Init
    (* prefill *)
    pce,          \* its requests, with the blocks to write to
    firstToken,   \* _pending_first_token
    active,       \* active_transfers
    pcancelled,   \* outstanding_cancelled_requests
    pkv,          \* the requests with blocks of its own cache
    crashes,
    (* clients *)
    cancels,      \* per request: "no" cancel, "sent", or "taken" from cancel_queue
    out           \* the results a client was sent

batches == <<ce, tg, gated, failed, build, unclaimed>>
prefill == <<pce, firstToken, active, pcancelled, pkv, crashes>>
network == <<inbox, outbox, engines>>
vars == <<setup, dpc, pending, requests, prefillReqs, batches, blocks, kv, writes, landed,
          network, prefill, cancels, out>>

\* engines: decode has sent its metadata (remote_endpoints), prefill has connected to
\* it, decode has connected to prefill
Init ==
    /\ setup \in Setups
    /\ dpc = "replies" /\ pending = setup.order
    /\ requests = <<>> /\ prefillReqs = 0
    /\ ce = <<>> /\ tg = <<>> /\ gated = {} /\ failed = {} /\ unclaimed = {}
    /\ build = [r \in Requests |-> "none"]
    /\ blocks = [r \in Requests |-> <<>>]
    /\ kv = [b \in Blocks |-> Nobody]
    /\ writes = {} /\ landed = {}
    /\ inbox = <<>> /\ outbox = <<>>
    /\ engines = [sent |-> FALSE, prefill |-> FALSE, decode |-> FALSE]
    /\ pce = <<>> /\ firstToken = <<>> /\ active = {} /\ pcancelled = {} /\ pkv = {}
    /\ crashes = 0
    /\ cancels = [r \in Requests |-> "no"]
    /\ out = [r \in Requests |-> <<>>]

\* The blocks that nobody holds if requests hold the blocks bs
FreeOf(bs) == Blocks \ UNION {ToSet(bs[r]) : r \in Requests}
Free == FreeOf(blocks)

\* How pressure_pct, the share of blocks in use, compares with 90 percent
Pressure == 100 * (setup.numBlocks - Cardinality(Free)) - 90 * setup.numBlocks

\* The blocks r needs for its next step: once a token is out, generation takes more.
BlocksFor(r) == setup.need[r] + IF out[r] = <<>> THEN 0 ELSE setup.more[r]

\* kv_cache.alloc: r keeps its blocks and takes the first free ones it lacks, if there are.
Fits(bs, r) == BlocksFor(r) <= Len(bs[r]) + Cardinality(FreeOf(bs))
Alloc(bs, r) ==
    [bs EXCEPT ![r] = @ \o SubSeq(SetToSortSeq(FreeOf(bs), <), 1, BlocksFor(r) - Len(@))]

Without(s, S) == SelectSeq(s, LAMBDA r : r \notin S)
TellAll(S, what) == [r \in Requests |-> IF r \in S THEN Append(out[r], what) ELSE out[r]]
Released(S) == [r \in Requests |-> IF r \in S THEN <<>> ELSE blocks[r]]
NoBuild(S) == [r \in Requests |-> IF r \in S THEN "none" ELSE build[r]]

\* Take the requests in S out of "requests".
Forget(S) ==
    /\ requests' = Restrict(requests, DOMAIN requests \ S)
    /\ prefillReqs' = prefillReqs - Cardinality(S)

OnloadDone(r) == \A w \in writes : ~(w.kind = "onload" /\ w.req = r)
Ended(r) == out[r] # <<>> /\ Last(out[r]) # "token"
CancelMessage(r) == [type |-> "cancel", req |-> r]

-----------------------------------------------------------------------------
(* Decode: the stages of run_iteration, in their order *)

\* handle_transfer_engine_response
HandleMetadata ==
    /\ Head(outbox).type = "metadata"
    /\ engines' = [engines EXCEPT !.decode = TRUE]
    /\ UNCHANGED <<requests, out>>

\* Mutant: a cancelled request is taken for a live one.
HandlePrefillResponse_Cancelled ==
    LET r == Head(outbox).req IN
    /\ Head(outbox).type = "response"
    /\ \/ r \notin DOMAIN requests /\ UNCHANGED <<requests, out>>
       \/ /\ r \in DOMAIN requests
          /\ requests' = [requests EXCEPT ![r].phase = "TRANSFERRING", ![r].expired = FALSE]
          /\ out' = IF r \in Constrained THEN out
                    ELSE TellAll({r}, IF setup.tokens[r] = 1 THEN "done" ELSE "token")
    /\ UNCHANGED engines

\* The first token goes to the client, unless it was cancelled or the token has to be
\* sampled again under its grammar.
HandlePrefillResponse ==
    LET r == Head(outbox).req IN
    /\ Head(outbox).type = "response"
    /\ \/ r \notin DOMAIN requests /\ UNCHANGED <<requests, out>>
       \/ /\ r \in DOMAIN requests
          /\ requests' = [requests EXCEPT ![r].phase = "TRANSFERRING", ![r].expired = FALSE]
          /\ out' = IF requests[r].cancelled \/ r \in Constrained THEN out
                    ELSE TellAll({r}, IF setup.tokens[r] = 1 THEN "done" ELSE "token")
    /\ UNCHANGED engines

RecvReply ==
    /\ dpc = "replies" /\ outbox # <<>>
    /\ outbox' = Tail(outbox)
    /\ HandleMetadata \/ HandlePrefillResponse
    /\ UNCHANGED <<setup, dpc, pending, prefillReqs, batches, blocks, kv, writes, landed, inbox,
                   prefill, cancels>>

\* No reply has arrived, though some may be on their way.
RepliesDone ==
    /\ dpc = "replies" /\ dpc' = "evict"
    /\ UNCHANGED <<setup, pending, requests, prefillReqs, batches, blocks, kv, writes, landed,
                   network, prefill, cancels, out>>

\* _evict_expired_requests.  The notification of a transfer not complete yet is left to
\* arrive later.
EvictExpiredRequests ==
    LET expired == {r \in DOMAIN requests : requests[r].expired}
        live == {r \in expired : ~requests[r].cancelled}
    IN
    /\ dpc = "evict" /\ dpc' = "reserve"
    /\ Forget(expired)
    /\ landed' = landed \ {r \in expired : requests[r].phase = "TRANSFERRING"}
    /\ build' = NoBuild(expired)
    /\ blocks' = Released(expired)
    /\ inbox' = inbox \o [i \in 1 .. Cardinality(live) |-> CancelMessage(SetToSeq(live)[i])]
    /\ out' = TellAll(live, "cancelled")
    /\ UNCHANGED <<setup, pending, ce, tg, gated, failed, unclaimed, kv, writes, outbox, engines,
                   prefill, cancels>>

MayAdmit ==
    pending # <<>> /\ Len(tg) + Cardinality(DOMAIN requests) < setup.maxBatch /\ Pressure < 0

\* Mutant: the decode engine introduces itself after the request.
SendPrefillRequest_MetadataLast(r, bs) ==
    /\ inbox' = inbox
        \o <<[type |-> "request", req |-> r, dst |-> SubSeq(bs, setup.cached[r] + 1, Len(bs))]>>
        \o (IF engines.sent THEN <<>> ELSE <<[type |-> "metadata"]>>)
    /\ engines' = [engines EXCEPT !.sent = TRUE]

\* send_prefill_request: the blocks decode has cached already are not to be written.
SendPrefillRequest(r, bs) ==
    /\ inbox' = inbox \o (IF engines.sent THEN <<>> ELSE <<[type |-> "metadata"]>>)
        \o <<[type |-> "request", req |-> r, dst |-> SubSeq(bs, setup.cached[r] + 1, Len(bs))]>>
    /\ engines' = [engines EXCEPT !.sent = TRUE]

\* One round of the loop of reserve_memory_and_send_to_prefill that succeeds.
Admit ==
    LET r == Head(pending)
        bs == Alloc(blocks, r)[r]
    IN
    /\ dpc = "reserve" /\ MayAdmit /\ Fits(blocks, r)
    /\ pending' = Tail(pending)
    /\ blocks' = Alloc(blocks, r)
    /\ writes' = writes \cup IF setup.cached[r] = 0 THEN {}
                             ELSE {[kind |-> "onload", req |-> r, dst |-> SubSeq(bs, 1, setup.cached[r])]}
    /\ prefillReqs' = prefillReqs + 1
    /\ build' = [build EXCEPT ![r] = IF r \in setup.slow THEN "building"
                                     ELSE IF r \in Constrained THEN "built" ELSE @]
    /\ requests' = [q \in DOMAIN requests \cup {r} |->
                      IF q = r THEN [phase |-> "AWAITING_PREFILL", cancelled |-> FALSE, expired |-> FALSE]
                      ELSE requests[q]]
    /\ SendPrefillRequest(r, bs)
    /\ UNCHANGED <<setup, dpc, ce, tg, gated, failed, unclaimed, kv, landed, outbox, prefill, cancels, out>>

\* The loop ends; a request whose blocks cannot be allocated stays at the front.
ReserveDone ==
    /\ dpc = "reserve" /\ dpc' = "cancel"
    /\ MayAdmit => ~Fits(blocks, Head(pending))
    /\ UNCHANGED <<setup, pending, requests, prefillReqs, batches, blocks, kv, writes, landed,
                   network, prefill, cancels, out>>

\* TextBatchConstructor.contains
InBatches(r) == r \in ToSet(ce) \cup ToSet(tg) \cup gated

\* Mutant: the blocks of a request in a queue are left as they are, too.
ReleaseFromBatches_KeepsBlocks(r) ==
    /\ ce' = Without(ce, {r}) /\ tg' = Without(tg, {r}) /\ gated' = gated \ {r}
    /\ unclaimed' = unclaimed \cup (gated \cap {r})
    /\ build' = NoBuild({r})
    /\ UNCHANGED <<blocks, failed>>

\* release_request.  A request held back for its grammar is taken to have no blocks.
ReleaseFromBatches(r) ==
    /\ ce' = Without(ce, {r}) /\ tg' = Without(tg, {r}) /\ gated' = gated \ {r}
    /\ blocks' = Released({r} \ gated) /\ unclaimed' = unclaimed \cup (gated \cap {r})
    /\ build' = NoBuild({r})
    /\ UNCHANGED failed

\* A request that waits for prefill and whose onload has landed is released at once.
ReleaseNow(r) ==
    /\ Forget({r})
    /\ blocks' = Released({r}) /\ build' = NoBuild({r})

\* _handle_cancelled_requests, for one request.  Nothing happens if it is still pending.
HandleCancelled(r) ==
    /\ dpc = "cancel" /\ cancels[r] = "sent"
    /\ cancels' = [cancels EXCEPT ![r] = "taken"]
    /\ \/ /\ InBatches(r)
          /\ ReleaseFromBatches(r)
          /\ out' = TellAll({r}, "cancelled")
          /\ UNCHANGED <<requests, prefillReqs, inbox>>
       \/ /\ ~InBatches(r) /\ r \notin DOMAIN requests
          /\ UNCHANGED <<requests, prefillReqs, batches, blocks, inbox, out>>
       \/ /\ r \in DOMAIN requests
          /\ \/ /\ requests[r].phase = "TRANSFERRING" \/ ~OnloadDone(r)
                /\ requests' = [requests EXCEPT ![r].cancelled = TRUE]
                /\ UNCHANGED <<prefillReqs, build, blocks>>
             \/ /\ requests[r].phase = "AWAITING_PREFILL" /\ OnloadDone(r)
                /\ ReleaseNow(r)
          /\ inbox' = Append(inbox, CancelMessage(r))
          /\ out' = TellAll({r}, "cancelled")
          /\ UNCHANGED <<ce, tg, gated, failed, unclaimed>>
    /\ UNCHANGED <<setup, dpc, pending, kv, writes, landed, outbox, engines, prefill>>

CancelsDone ==
    /\ dpc = "cancel" /\ dpc' = "settle"
    /\ \A r \in Requests : cancels[r] # "sent"
    /\ UNCHANGED <<setup, pending, requests, prefillReqs, batches, blocks, kv, writes, landed,
                   network, prefill, cancels, out>>

\* Mutant: the onload is not waited for.
Settled_NoOnload(r) ==
    IF requests[r].phase = "TRANSFERRING" THEN r \in landed ELSE requests[r].cancelled

\* Mutant: a cancelled request waits for its response.
Settled_NeedsResponse(r) ==
    OnloadDone(r) /\ requests[r].phase = "TRANSFERRING" /\ r \in landed

\* Every write that is known of has landed.
Settled(r) ==
    /\ OnloadDone(r)
    /\ IF requests[r].phase = "TRANSFERRING" THEN r \in landed ELSE requests[r].cancelled

\* check_for_completed_transfers and enqueue_new_request: requests join a queue of the
\* batch constructor, or wait there for their grammar.  Polling for notifications raises
\* KeyError if they are of an engine that is not known.
CheckForCompletedTransfers ==
    LET ready == {r \in DOMAIN requests : Settled(r)}
        kept == {r \in ready : ~requests[r].cancelled}
        sampleAgain == kept \cap Constrained
    IN
    /\ dpc = "settle" /\ dpc' = "batch"
    /\ landed # {} /\ (\E r \in DOMAIN requests : OnloadDone(r) /\ requests[r].phase = "TRANSFERRING")
         => engines.decode
    /\ Forget(ready)
    /\ landed' = landed \ {r \in ready : requests[r].phase = "TRANSFERRING"}
    /\ blocks' = Released(ready \ kept)
    /\ tg' = tg \o SetToSeq(kept \ Constrained)
    /\ ce' = ce \o SetToSeq({r \in sampleAgain : build[r] = "built"})
    /\ gated' = gated \cup {r \in sampleAgain : build[r] = "building"}
    /\ failed' = failed \cup {r \in sampleAgain : build[r] = "bad"}
    /\ unclaimed' = unclaimed \cup failed'
    /\ build' = NoBuild({r \in ready : r \notin gated'})
    /\ UNCHANGED <<setup, pending, kv, writes, network, prefill, cancels, out>>

\* Requests whose grammar build is over are promoted or fail.
Ready == {r \in gated : build[r] # "building"}
Lost == failed \cup {r \in Ready : build[r] = "bad"}
Queued == ce \o SetToSeq(Ready \ Lost)

\* A batch under construction: its requests in order, the queues and blocks so far, whether
\* it is full, and whether the lack of blocks is fatal
NewBatch == [batch |-> <<>>, ce |-> Queued, tg |-> tg, blocks |-> blocks, full |-> FALSE, fatal |-> FALSE]
Joined(s, r) == [s EXCEPT !.batch = Append(@, r), !.ce = Without(@, {r}), !.blocks = Alloc(@, r)]

AnythingInflight == DOMAIN requests # {} \/ \E w \in writes : w.kind = "onload"

\* One round of _add_ce_requests.  A request for which there are no blocks goes back to
\* the front of the queue without those it had.
AddCe(s, r) ==
    IF s.full \/ Len(s.batch) + Len(s.tg) >= setup.maxBatch THEN [s EXCEPT !.full = TRUE]
    ELSE IF Fits(s.blocks, r) THEN Joined(s, r)
    ELSE [s EXCEPT !.full = TRUE, !.blocks[r] = <<>>,
                   !.fatal = s.tg = <<>> /\ s.batch = <<>> /\ ~AnythingInflight]

\* _preempt_request: r starts again with a prefill of its own.
Preempt(s, r) ==
    [s EXCEPT !.tg = Without(@, {r}), !.ce = <<r>> \o Without(@, {r}), !.blocks[r] = <<>>]

\* Those who give up their blocks for r, in this order: the requests behind it in the
\* batch, the newest first, then what _preempt_ce_block_holder finds
Victims(s, r) ==
    Reverse(SubSeq(s.tg, Len(s.batch) + 2, Len(s.tg)))
    \o Reverse(SelectSeq(s.ce, LAMBDA q : s.blocks[q] # <<>>))

\* One round of _add_tg_requests.  The batch ends before a request for which there are no
\* blocks.
AddTg(s, r) ==
    LET made == FoldLeft(LAMBDA u, q : IF Fits(u.blocks, r) THEN u ELSE Preempt(u, q), s, Victims(s, r))
    IN  IF s.full \/ Len(s.batch) >= setup.maxBatch \/ r \notin ToSet(s.tg) THEN s
        ELSE IF Fits(made.blocks, r) THEN Joined(made, r)
        ELSE [made EXCEPT !.full = TRUE, !.fatal = s.batch = <<>> /\ ~AnythingInflight]

\* _identify_priority: prefills go first unless they would compete for scarce blocks.
PrefillsFirst == Queued # <<>> /\ (tg = <<>> \/ Pressure <= 0)

\* _construct_replica_batch: generation goes on if no prefill can.
ConstructBatch ==
    LET prefills == IF PrefillsFirst THEN FoldLeft(AddCe, NewBatch, Queued) ELSE NewBatch
    IN  IF prefills.batch # <<>> \/ prefills.fatal THEN prefills
        ELSE FoldLeft(AddTg, [prefills EXCEPT !.full = FALSE], tg)

\* execute, advance_requests, and the results of schedule: a token for each request of
\* the batch, which fills the blocks it was given.  Those that are done are released.
\* Those that lost their grammar fail.
Execute(s) ==
    LET done == {r \in ToSet(s.batch) : Len(out[r]) + 1 >= setup.tokens[r]} IN
    /\ ce' = s.ce
    /\ tg' = Without(s.tg \o Without(s.batch, ToSet(s.tg)), done)
    /\ blocks' = [r \in Requests |-> IF r \in done THEN <<>> ELSE s.blocks[r]]
    /\ kv' = [b \in Blocks |->
                LET new == {r \in ToSet(s.batch) : b \in ToSet(s.blocks[r]) \ ToSet(blocks[r])}
                IN  IF new = {} THEN kv[b] ELSE CHOOSE r \in new : TRUE]
    /\ out' = [r \in Requests |->
                 IF r \in Lost THEN Append(out[r], "failed")
                 ELSE IF r \in ToSet(s.batch) THEN Append(out[r], IF r \in done THEN "done" ELSE "token")
                 ELSE out[r]]

\* construct_batch, take_grammar_failed and schedule.  A lack of blocks that is fatal ends
\* the worker, which takes no step any more.
RunBatch ==
    /\ dpc = "batch" /\ dpc' = "replies"
    /\ \E s \in {ConstructBatch} : ~s.fatal /\ Execute(s)
    /\ gated' = gated \ Ready /\ failed' = {} /\ build' = NoBuild(Ready)
    /\ unclaimed' = unclaimed \cup Lost
    /\ UNCHANGED <<setup, pending, requests, prefillReqs, writes, landed, network, prefill, cancels>>

Decode ==
    \/ RecvReply \/ RepliesDone \/ EvictExpiredRequests \/ Admit \/ ReserveDone
    \/ (\E r \in Requests : HandleCancelled(r)) \/ CancelsDone
    \/ CheckForCompletedTransfers \/ RunBatch

-----------------------------------------------------------------------------
(* Prefill: what an iteration does, in any order.  Messages and completions come at any
   time between, so its order makes no difference. *)

decode == <<setup, dpc, pending, requests, prefillReqs, batches, blocks, kv, landed, cancels, out>>

\* handle_cancel_request, handle_transfer_engine_request, handle_prefill_request
RecvRequest ==
    LET m == Head(inbox) IN
    /\ inbox # <<>> /\ inbox' = Tail(inbox)
    /\ \/ /\ m.type = "cancel"
          /\ pcancelled' = pcancelled \cup {m.req}
          /\ UNCHANGED <<pce, outbox, engines>>
       \/ /\ m.type = "metadata"
          /\ engines' = [engines EXCEPT !.prefill = TRUE]
          /\ outbox' = IF engines.prefill THEN outbox ELSE Append(outbox, [type |-> "metadata"])
          /\ UNCHANGED <<pce, pcancelled>>
       \/ /\ m.type = "request"
          /\ pce' = Append(pce, [req |-> m.req, dst |-> m.dst])
          /\ UNCHANGED <<pcancelled, outbox, engines>>
    /\ UNCHANGED <<decode, writes, firstToken, active, pkv, crashes>>

\* cleanup_active_transfers, for one transfer
CleanupTransfer(r) ==
    /\ r \in active /\ \A w \in writes : ~(w.kind = "transfer" /\ w.req = r)
    /\ active' = active \ {r}
    /\ pkv' = pkv \ {r}
    /\ UNCHANGED <<decode, writes, network, pce, firstToken, pcancelled, crashes>>

\* initiate_transfer_and_send_reply, for a sequence of requests
InitiateTransfers(s) ==
    LET go == SelectSeq(s, LAMBDA q : q.req \notin pcancelled)
        dropped == {q.req : q \in ToSet(s)} \cap pcancelled
    IN
    /\ pcancelled' = pcancelled \ dropped
    /\ writes' = writes \cup {[kind |-> "transfer", req |-> q.req, dst |-> q.dst] : q \in ToSet(go)}
    /\ active' = active \cup {q.req : q \in ToSet(go)}
    /\ outbox' = outbox \o [i \in DOMAIN go |-> [type |-> "response", req |-> go[i].req]]
    /\ pkv' = (pkv \cup {q.req : q \in ToSet(firstToken' \o go)}) \ dropped

\* The worker stops and starts again: what it had read is lost, and so is what it had
\* not sent.  Its transfers stop.
Restart ==
    /\ \E i \in 0 .. Len(inbox) : inbox' = SubSeq(inbox, i + 1, Len(inbox))
    /\ \E i \in 0 .. Len(outbox) : outbox' = SubSeq(outbox, 1, i)
    /\ engines' = [engines EXCEPT !.prefill = FALSE]
    /\ pce' = <<>> /\ firstToken' = <<>> /\ active' = {} /\ pcancelled' = {} /\ pkv' = {}
    /\ writes' = {w \in writes : w.kind = "onload"}

\* construct_batch and schedule: the first n requests are prefilled.  With overlap their
\* first tokens are there after the next batch, which may be empty.
PrefillBatch(n) ==
    LET batch == SubSeq(pce, 1, n)
        resolved == IF setup.overlap THEN firstToken ELSE batch
    IN
    /\ n = 0 => firstToken # <<>>
    /\ \/ /\ engines.prefill \/ \A q \in ToSet(resolved) : q.req \in pcancelled
          /\ pce' = SubSeq(pce, n + 1, Len(pce))
          /\ firstToken' = IF setup.overlap THEN batch ELSE <<>>
          /\ InitiateTransfers(resolved)
          /\ UNCHANGED <<inbox, engines>>
       \/ /\ ~engines.prefill /\ \E q \in ToSet(resolved) : q.req \notin pcancelled
          /\ Restart   \* KeyError: the decode engine is not known
    /\ UNCHANGED <<decode, crashes>>

Prefill ==
    \/ RecvRequest \/ (\E r \in Requests : CleanupTransfer(r))
    \/ \E n \in 0 .. Len(pce) : PrefillBatch(n)

-----------------------------------------------------------------------------
(* The rest of the system *)

Crash ==
    /\ crashes < setup.crashes /\ crashes' = crashes + 1
    /\ Restart
    /\ UNCHANGED decode

\* An onload or a transfer arrives; the decode engine is notified of a transfer.
Land(w) ==
    /\ w \in writes /\ writes' = writes \ {w}
    /\ kv' = [b \in Blocks |-> IF b \in ToSet(w.dst) THEN w.req ELSE kv[b]]
    /\ landed' = IF w.kind = "transfer" THEN landed \cup {w.req} ELSE landed
    /\ UNCHANGED <<setup, dpc, pending, requests, prefillReqs, batches, blocks, network, prefill,
                   cancels, out>>

\* A slow grammar is built, or turns out to be bad.
FinishBuild(r) ==
    /\ build[r] = "building"
    /\ \E b \in {"built", "bad"} : build' = [build EXCEPT ![r] = b]
    /\ UNCHANGED <<setup, dpc, pending, requests, prefillReqs, ce, tg, gated, failed, unclaimed,
                   blocks, kv, writes, landed, network, prefill, cancels, out>>

\* A request has been in its phase for decode_request_ttl_s.
Expire(r) ==
    /\ setup.ttl /\ r \in DOMAIN requests /\ ~requests[r].expired
    /\ requests' = [requests EXCEPT ![r].expired = TRUE]
    /\ UNCHANGED <<setup, dpc, pending, prefillReqs, batches, blocks, kv, writes, landed, network,
                   prefill, cancels, out>>

\* A client cancels a request whose end it has not seen.
ClientCancels(r) ==
    /\ r \in setup.cancellable /\ cancels[r] = "no" /\ ~Ended(r)
    /\ cancels' = [cancels EXCEPT ![r] = "sent"]
    /\ UNCHANGED <<setup, dpc, pending, requests, prefillReqs, batches, blocks, kv, writes, landed,
                   network, prefill, out>>

Next ==
    \/ Decode \/ Prefill \/ Crash
    \/ \E w \in writes : Land(w)
    \/ \E r \in Requests : FinishBuild(r) \/ Expire(r) \/ ClientCancels(r)

Spec == Init /\ [][Next]_vars

\* Both workers go on iterating and receive what they are sent, writes arrive unless
\* prefill crashes, builds finish and time passes.
FairSpec ==
    /\ Spec
    /\ WF_vars(Decode) /\ SF_vars(RecvReply)
    /\ WF_vars(RecvRequest) /\ WF_vars(\E n \in 0 .. Len(pce) : PrefillBatch(n))
    /\ WF_vars(\E w \in writes : Land(w))
    /\ \A r \in Requests : WF_vars(CleanupTransfer(r)) /\ WF_vars(FinishBuild(r)) /\ WF_vars(Expire(r))

-----------------------------------------------------------------------------
(* Properties *)

\* A request that is in a queue for generation reads its own keys and values: its onload
\* and its transfer have landed and nothing was written over them since.  The one
\* exception is a late transfer for a request that was cancelled or has expired, whose
\* blocks were given away before: see NoWriteToFreeBlocks.
DecodesOwnKV ==
    \A r \in ToSet(tg) \cup ToSet(ce) : \A b \in ToSet(blocks[r]) :
        kv[b] = r \/ (kv[b] # Nobody /\ "cancelled" \in ToSet(out[kv[b]]))

\* Where decode has a request
Places(r) ==
    <<r \in ToSet(pending), r \in DOMAIN requests, r \in ToSet(ce), r \in ToSet(tg),
      r \in gated, r \in failed>>
Managed(r) == \E i \in DOMAIN Places(r) : Places(r)[i]

\* No request is lost and no block leaks: a request is in one place at a time, holds
\* blocks nobody else holds, keeps them only while decode has a use for them, and
\* prefill_reqs_per_replica counts those at prefill, whatever cancels, expiries and
\* completions fall together.  The exception is the requests the gate has dropped, while
\* their build was under way or because it failed: see NothingWasClaimed.
Accounted ==
    /\ prefillReqs = Cardinality(DOMAIN requests)
    /\ \A r \in Requests :
         /\ \A i, j \in DOMAIN Places(r) : Places(r)[i] /\ Places(r)[j] => i = j
         /\ blocks[r] # <<>> => ~Places(r)[1] /\ (Managed(r) \/ r \in unclaimed)
         /\ \A q \in Requests \ {r} : ToSet(blocks[q]) \cap ToSet(blocks[r]) = {}

\* "Client already got SchedulerResult.cancelled() -- don't also emit a generation
\* result": a client is told the end of its request once, and nothing after it.  A
\* request done with its first token is generated for once more, and is excepted.
OneEnding ==
    \A r \in Requests : setup.tokens[r] > 1 =>
        \A i \in 1 .. Len(out[r]) - 1 : out[r][i] = "token"

\* Every request ends, though prefill may crash, if requests expire.
EveryRequestEnds == \A r \in Requests : <>Ended(r)

\* In the end neither worker holds blocks, but for those of the requests the gate dropped.
AllReturned == <>[](pkv = {} /\ \A r \in Requests \ unclaimed : blocks[r] = <<>>)

\* "Nothing was claimed for the request (it was never bound), so only the pipeline needs
\* releasing": a request the gate has dropped leaves no blocks behind.
NothingWasClaimed == \A r \in unclaimed : blocks[r] # <<>> => Managed(r)

\* "Onload landed and no transfer is in flight yet, so nothing is writing to these
\* blocks -- safe to release immediately": a write under way is to blocks that its
\* request still holds.
NoWriteToFreeBlocks ==
    \A w \in writes : ToSet(w.dst) \subseteq ToSet(blocks[w.req])
=============================================================================
