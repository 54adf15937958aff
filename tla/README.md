# Models of the Modular platform's concurrent core

TLA+ modules for the parts of this repository whose correctness depends on
interleavings, sharing, faults and long sequences of calls: the lock-free ring buffer,
the thread pool, the futures and the timer of AsyncRT, the paged KV cache and the
disaggregated prefill and decode workers of the serving stack, and the compilation cache
on disk. TLC checks them on small instances; TLAPS proves the safety of the ring buffer,
its refinement of a FIFO queue, and the main invariants of the timer, the futures and the
cache for every instance.

## The system and what is modelled

`AsyncRT/` is the C++ runtime: a work queue of threads (`WorkQueue.h`,
`ThreadPoolWorkQueue.cpp`) runs work items, whose results are reference-counted
futures with waiters (`AsyncValue`). The pool gives each worker a ring buffer for the
items meant for it (`LockFreeRingBuffer.h`). `Mojo/lib/CompilerRT/AsyncRT.cpp` exports
this to Mojo programs, among it a wait with a timeout built on `TimerHeap`. `max/python`
holds the serving stack: API server, worker process, schedulers, pipelines, and the KV
cache managers that share the blocks of device memory between requests. With
disaggregated serving a prefill worker computes the keys and values of a prompt and
writes them over the network into blocks a decode worker has reserved. `Mojo/lib`,
`max/kernels` and `max/python/max/graph` are compilers and numerical code; `Cache/` is
the compilation cache; `rust_kv/` the host and disk tiers of the KV cache.

| Part | Modules | Status |
|---|---|---|
| `LockFreeRingBuffer` | `LockFreeRingBuffer`, `FifoQueue`, `LockFreeRingBufferHist` | modelled; proved in `LockFreeRingBufferProofs`, `LockFreeRingBufferRefinement`, `LockFreeRingBufferHistProofs` |
| `ThreadPoolWorkQueue` | `ThreadPoolWorkQueue` | modelled |
| `AsyncValue` | `AsyncValue` | modelled; two invariants proved in `AsyncValueProofs` |
| `TimerHeap`, `Wait_Timeout` | `TimerHeap`, `WaitTimeout` | modelled, of `AsyncRT.cpp` only this call; safety proved in `WaitTimeoutProofs` |
| `BlockPool`, `BlockManager` | `BlockPool`, `BlockManager` | pool modelled, manager without speculative decoding |
| prefill and decode schedulers, batch constructor, grammar gate, transfer engine | `DisaggregatedServing` | as a decode and a prefill worker use them |
| `BlobCache` | `BlobCache` | synchronous calls; proved in `BlobCacheProofs` |
| everything else | | see "Not modelled" |

`MC*` modules instantiate these for TLC. `PROJECT.json` maps each definition to its
lines and lists the hazards that led to the properties.

## The modules and the code

**LockFreeRingBuffer.** One action per atomic access of `enqueue` and `dequeue`. `cur`,
`seen` and `held` are the locals, `pc` the point of the call. `compare_exchange_weak`
may fail spuriously. Indices are below `Word`, which stands for 2^64: the subtraction
of the tests is modulo `Word`, and no claim goes past it, as the code asserts. `FifoQueue` is the
abstract queue: a call takes effect in one step. An enqueue does so when it publishes,
a dequeue when it claims; `IsFifoQueue` is that refinement. `LockFreeRingBufferHist`
adds what a dequeue has seen of the buffer, to state when it may return nothing.

**ThreadPoolWorkQueue.** Each thread has a stack of frames: client code, an activation
of `runItemsImpl` (for the worker loop, an `await`, or the drain of `shutdown`), or the
waiter of an await. Every access to shared memory is an action, from the looks at the
local list, the ring and the shared queue over `markSuspended`, the pumps of spill queue
and overflow list and the last look to the semaphore; in `addTask` the enqueue, the
choice of a suspended worker and the post; and in `await` the look at all values, then one
step for each value it registers with, at which a value that has become ready meanwhile
decrements the count on the spot. (The look is one step since a value stays ready.) What tasks and threads call is the constant
`Script`. The ring appears as the FIFO queue that the ring model refines, with the
refusals it shows; the shared queue gives out any item and may fail to. The fences of
`markSuspended` and `addTask` are taken to work: accesses are sequentially consistent.

**AsyncValue.** The tagged word (state and waiter list), the payload area shared by the
inline waiter and the value, the list nodes with their slots, and the reference counts.
Producers emplace or resolve, clients register a waiter with `andThen`; each atomic
access is an action. `Target` says what an indirect value resolves to.

**TimerHeap and WaitTimeout.** The heap's thread (`run`), `push`, `cancel` and `stop`
under the mutex, time as a counter, condition variables with spurious wake-ups.
`WaitTimeout` adds the callers: the deadline, the completion and the cancel race for one
chain. The heap algorithms of the standard library are modelled by their contracts: given
the heap they require, `push_heap` and `pop_heap` leave any heap of the elements, and given
anything else any order of them, so that a cancel that spoils the heap shows later too.

**BlockPool and BlockManager.** `BlockPool` has the pool of a replica as a record and
its methods as functions of it. `BlockManager` has requests that are claimed, allocated,
run and stepped as the scheduler and the text generation pipeline do it: allocation and
release happen between batches, and a batch is stepped once all of it has run. A hash
stands for the tokens hashed; a slot of device memory holds the tokens whose keys and
values it holds, so that reading the wrong block shows. Released requests may come back
with all their tokens as prompt, which is what preemption does. The asserts of the code
are recorded in `ok`. The null block of padding requests is there; the drafts of
speculative decoding, the placeholder tokens of the overlap pipeline, the device buffers
and the metrics are not.

**DisaggregatedServing.** A decode worker goes through the stages of `run_iteration`
(`dpc`): replies, expiry, admission, cancels, the requests whose onload and transfer are
in, and the batch. A prefill worker receives requests, runs batches, starts transfers and
replies. Between them are ordered channels,
and writes into the blocks of the decode worker (`writes`) that land at any time: the
onload of a cached prefix and the transfer of the rest. `kv` says whose keys and values a
block holds. Clients cancel, requests expire, grammars are built by another thread and may
fail, and prefill may crash, which loses its requests and its connections. The batch
constructor appears with its queues, its gate, its order of admission, and what it does
when generation lacks a block: the newest requests of the batch are preempted, then queued
requests that hold blocks, and if that is not enough the batch ends before the request.
When nothing else runs or is in flight the lack is fatal, and the model's worker stops.
Worth knowing of the code:

- a request held back for its grammar has claimed blocks in the decode worker, but is
  released or failed as if it had none, though the comments at
  `text_batch_constructor.py:917` and `947` say that nothing was claimed. `unclaimed`
  remembers these requests; `disagg_gate_leak` shows that their blocks are lost, and the
  two properties about blocks speak of all other requests;
- `_is_anything_inflight` does not count a request that is held back, though the blocks it
  holds will be free once its grammar is there: with too few blocks left for the others the
  worker takes the lack for fatal. The setups have blocks enough, or grammars in time;
- a request that is done with its first token is generated for once more by the decode
  worker, though `prefill_scheduler.py:355` says that done contexts "produce no further TG
  steps on the decode pod"; the property about endings excepts it;
- a cancel of a request that is still pending is dropped, and the request runs to its end;
- after a restart of prefill the metadata of the decode engine is not sent again: its
  requests end because they expire. `decode_request_ttl_s` has no default; without it only
  the stall watchdog ends them, which ends the process;
- `PrefillFailure` is handled but never sent, as a prefill worker has no grammar gate.

**BlobCache.** Processes call insert and find on one key, through the in-memory backend
and the file they share; every access to the file system is an action, the lock file of
LLVM among them. Processes crash, disks are full, waits for the lock time out, another
version prunes the directory, and the power may fail, which tears a file whose contents
were not yet on disk. A writer that waited for the lock does not own it: it writes the
file again, though `BlobCache.cpp:483` says "it will never be written again". This is
harmless, as a key has one blob and the write ends in a rename. A file torn by a power
loss is never replaced, since it counts as present; find reports it as corrupted.

## The runs

| Run | Checks |
|---|---|
| `ring_mpmc` | two producers and one or two consumers on two slots: order of the counters, exclusive slots, no item lost, indices settled when idle, owners of an index get their turn, the refinement of `FifoQueue`; with one consumer, as in the pool, nothing is returned only if the buffer was empty |
| `pool` | a foreign thread awaits tasks of two workers that share one suspended bit, or a donating main thread awaits a task that awaits, with a shutdown, or rings and queues refuse: items conserved, affinity kept, no item waits with those that could run it asleep, the counts of awaits exact, no await ends early, all awaits and the shutdown return |
| `pool_undrained` | **violated**: an item in a worker's ring is left at shutdown |
| `pool_stranded` | **violated**: a foreign thread's waiter is left on the main thread's local list |
| `av` | four registrations race one emplacement, or a chain of indirect values ends in an error: no waiter lost or run twice, payload and nodes intact, nothing accessed after destruction, indirect values hold concrete ones, waiters run, everything is reclaimed |
| `timer_races` | three calls on a heap that may be stopped: heap order, one emplacement, right results, no entry left; calls and `stop` return |
| `timer_late` | **violated**: an earlier deadline waits for a later one |
| `kv_blocks` | three requests, two with a common prefix, and a padding request on two replicas of four blocks: every block accounted for, the prefix cache true and reachable, each request reads its own keys and values, no assertion fails, a failed `alloc` leaves the request alone |
| `disagg` | two requests under cancels, a crash of prefill, expiry, grammars and preemption: generation reads only its own keys and values, requests, counts and blocks agree, a client hears one ending, every request ends, all blocks come back |
| `disagg_late_write` | **violated**: the transfer of a cancelled request writes to blocks that are free or somebody else's |
| `disagg_gate_leak` | **violated**: the blocks of a request dropped while it waits for its grammar stay claimed |
| `cache` | four calls in three processes, one of them read-only, with crashes, a prune and a power loss: a find returns the whole blob or fails for a reason, what was inserted stays |

The violated properties quote the comment or document they state; the findings in
`PROJECT.json` give the behaviour.

**Bounds.** Two slots and two threads of each kind are the least at which claims
overtake each other and indices wrap around the buffer; `Word` bounds the indices, at
least at twice the size. Two workers (one of them the main thread where it donates) and
scripts of one to four tasks give a sleeper and an adder of every kind, an await within a
task, and rings and queues at their limits. Four clients on nodes of two slots give an
inline waiter, a full node and a second one. Three calls on the heap give a root and two
entries below it; the value of one of them (`MayBeReady`) may become ready, which is
enough for a cancel that moves an entry to the root. Blocks of two tokens, prompts of four
and five and `MaxClaims` claims give shared, partly filled, evicted and re-committed
blocks. Two requests of one or two blocks in a cache of two to five give a second request
that gets the blocks of the first, or generation that lacks one and finds it with a newer
request, with a queued one, or not at all; the setups of
`MCDisaggregatedServing` put cancels, a crash with expiry, and grammars in behaviours
of their own, since together they are too many states, so that a crash in the middle of a
grammar build is not checked. Four calls in three processes give an owner of the lock, a waiter
that goes on without it and a reader.

**Fairness.** Weak fairness of each thread's steps: the scheduler runs every runnable
thread. Of the ring only the steps of a thread that owns an index are fair; nobody need
call. Strong fairness stands where a thread competes or is bounded by a count the model
leaves out: in the pool, the end of the busy-wait, which the code bounds by a number of
rounds, and the dequeue from the shared queue, which may fail while others use it but not
for ever; with the timer, its callers, which compete for the mutex. Time passes. Tasks
end, and nothing is said of a value that never becomes ready. `ClientsFinish` speaks of
queues that do not refuse without cause (`QueuesMayRefuse = FALSE`).
`SharedWorkIsSeen` speaks of a main thread that does not donate: one that does may
leave its await with its suspended bit set, which the next `addTask` then takes for a
sleeper.
In `disagg` both workers loop, messages are received, writes land, grammar builds and
transfers end, and what may expire does. The receipt of a reply is strongly fair: the
decode worker looks for replies once in each iteration. Nobody need cancel and nothing
need crash. `cache` states safety only: calls stop where their process dies.

## What is proved

All theorems hold for every value of the constants that meets the assumptions of their
module; TLC evaluates these assumptions in the runs, and checked each inductive invariant
before it was proved. One step per action shows that the invariant is kept.

**Ring buffer** (`LockFreeRingBufferProofs`): for any sets of producers and consumers, any
size and any larger `Word`, `CountersStayOrdered`, `SlotAccessIsExclusive`, `NoItemIsLost`
and `SettlesWhenIdle`. None is inductive alone. The order of the counters needs that a
thread about to claim has seen values that were right when it read them and can only have
become more cautious since. The exclusion needs that claimed indices are distinct and lie
between `consumed` and `writeIndex`, a window of at most the size, so that no two map to
one slot. The contents of the slots need to be tied to the indices between `readIndex` and
`published` and to the owners in flight. The invariant is the conjunction of these.

**Refinement** (`LockFreeRingBufferRefinement`): `ImplementsFifo`. The abstract queue is
the sequence of slots from `readIndex` to `published`. From the invariants above, a publish
appends the item of its owner, a claim of a consumer removes the head, and every other
step leaves the sequence alone.

**Single consumer** (`LockFreeRingBufferHistProofs`): `RefusesOnlyWhenEmpty`. While one
consumer is active nobody else moves `readIndex`: the `published` it has read is past
`readIndex` unless the buffer was empty during the call, and its second read of `readIndex`
finds what the first did.

**Timer** (`WaitTimeoutProofs`): `RootStaysEarliest`, `EmplacesOnce`, `ResultsAreRight` and
`LeavesNothingBehind`, for any callers and deadlines. The invariant ties the array to the
callers: each entry belongs to a caller that waits or is about to cancel, no two to one
caller, and its chain has not been emplaced; a chain is emplaced only after its deadline or
once its caller is done. Lemmas say that what the heap algorithms leave is a rearrangement
of what they were given. That no entry expires before the root needs the order of the whole
array: each call of a heap algorithm must find what it requires, and an entry that expired
before the root, at the least index of such, would have a parent that does too.

**Futures** (`AsyncValueProofs`): `PayloadStaysIntact` and `ResolvesToConcrete`, for any
values, clients, chains and node sizes. The payload area is safe because the state says
who may touch it: one thread initializes the inline waiter while the state is
`kInitializing`, and the producer goes ahead only from a state that this thread has left or
that nobody can enter again. For indirect values the invariant adds that one is resolved
before it becomes ready, and only once its target is, so that a chain collapses to the
value at its end.

**Cache** (`BlobCacheProofs`): `FindsWhole` and `InsertsKept`, for any processes and calls.
Before a prune or a power loss the file only goes from absent to whole, so that a call that
has seen it may rely on it; after a power loss a torn file is kept from a find by its hash
alone, and no call that compared it before has survived.

Only model-checked: all liveness, which is out of the prover's reach; the thread pool; of
the futures, the waiter lists and the reference counts, whose invariants range over lists
of any length; the block manager and the disaggregated workers, whose operations fold over
sequences and would need induction over data, which the prover cannot do.

## Not modelled

`PROJECT.json` lists every part with the reason. In short:

- Most of the repository's half a million lines are compilers, kernels, the graph API and
  model definitions: sequential transformations and numerical code without a small state
  space. The modules cover a fraction of a percent of all lines; they cover the code in
  which several actors share state.
- `ConcurrentQueue`, `Semaphore`, the sockets between workers and the lock file of LLVM
  are used by what they promise. Device construction and allocators have hardly any
  protocol, and the API server is I/O.
- `SingleThreadWorkQueue`, `DelegateThreadPoolWorkQueue` and `ForkJoin` repeat patterns of
  the thread pool or poll; there is no abstract work queue that all of them refine.
- The Jenga block manager, its cordoned onloads and the tier connector need a model of
  their own. The onloads appear in `DisaggregatedServing` as writes that land later.
- Of serving: speculative drafts, chunked prefill and token budgets, LoRA, several replicas
  and endpoints, overlapping batches at decode, a second cancel of one request, and the
  stall watchdog.
- Of the block manager: `assert_runtime_invariants`, which runs only with runtime checks
  enabled.
- Of the cache: the asynchronous calls, which run the synchronous ones as tasks.
- Weak memory: atomics and fences are taken as the code's comments intend.
