------------------------- MODULE LockFreeRingBuffer -------------------------
(***************************************************************************)
(* AsyncRT/include/AsyncRT/Support/LockFreeRingBuffer.h: a ring of slots   *)
(* shared by any number of enqueuing and dequeuing threads and guarded by  *)
(* four atomic counters.  Every load, compare-and-swap and store of a      *)
(* counter, and every access to a slot, is a step of its own.              *)
(***************************************************************************)
EXTENDS Integers

CONSTANTS
    Producers,   \* threads that call enqueue
    Consumers,   \* threads that call dequeue
    Items,       \* the objects stored
    NoItem,      \* a value-initialised ItemType
    Size,        \* the number of slots
    Word         \* the counters are unsigned and below Word (2^64)

\* The constructor rounds the requested size up to a power of two.
ASSUME SizeAssumption ==
    /\ Size \in Nat \ {0}
    /\ Word \in Nat /\ Size < Word
    /\ NoItem \notin Items
    /\ Producers \cap Consumers = {}

VARIABLES
    readIndex, writeIndex, consumed, published,   \* the atomics
    buffer,      \* the slots
    pc,          \* where each thread is in its call
    cur,         \* its curWriteIndex or curReadIndex
    seen,        \* the value of consumed or published its last test used, 0
                 \* where that value is dead
    held         \* the item it is enqueuing, or has taken out

atomics == <<readIndex, writeIndex, consumed, published>>
locals == <<cur, seen, held>>
vars == <<readIndex, writeIndex, consumed, published, buffer, pc, cur, seen, held>>

Threads == Producers \cup Consumers
Index == 0 .. Word - 1
Slots == 0 .. Size - 1

\* index & (size - 1), size being a power of two
Slot(i) == i % Size

\* uint64_t subtraction of counters
Minus(a, b) == IF a >= b THEN a - b ELSE a - b + Word

Init ==
    /\ readIndex = 0 /\ writeIndex = 0 /\ consumed = 0 /\ published = 0
    /\ buffer = [s \in Slots |-> NoItem]
    /\ pc = [t \in Threads |-> "idle"]
    /\ cur = [t \in Threads |-> 0]
    /\ seen = [t \in Threads |-> 0]
    /\ held = [t \in Threads |-> NoItem]

Goto(t, l) == pc' = [pc EXCEPT ![t] = l]
SetCur(t, i) == cur' = [cur EXCEPT ![t] = i]
SetSeen(t, i) == seen' = [seen EXCEPT ![t] = i]
SetHeld(t, x) == held' = [held EXCEPT ![t] = x]

\* The call returns and its locals are gone.
Return(t) ==
    /\ Goto(t, "idle")
    /\ SetCur(t, 0) /\ SetSeen(t, 0) /\ SetHeld(t, NoItem)

-----------------------------------------------------------------------------
(* enqueue *)

EnqLoadConsumed(t, x) ==
    /\ pc[t] = "idle"
    /\ SetHeld(t, x)
    /\ SetSeen(t, consumed)
    /\ Goto(t, "loadWrite")
    /\ UNCHANGED <<atomics, buffer, cur>>

\* Mutants of the tests, claims and waits below are marked by their names.
LooksFull_OffByOne(i, c) == Minus(i, c) > Size

\* The buffer looks full: the call returns false and the caller keeps its item.
LooksFull(i, c) == Minus(i, c) >= Size

\* The test of an index i against a value c of consumed, both just loaded
EnqTest(t, i, c) ==
    \/ /\ LooksFull(i, c)
       /\ Return(t)
    \/ /\ ~LooksFull(i, c)
       /\ Goto(t, "casWrite")
       /\ SetCur(t, i) /\ SetSeen(t, c)
       /\ UNCHANGED held

EnqLoadWrite(t) ==
    /\ pc[t] = "loadWrite"
    /\ EnqTest(t, writeIndex, seen[t])
    /\ UNCHANGED <<atomics, buffer>>

\* The bound on curWriteIndex is the one asserted in debug builds.
EnqClaim(t) ==
    /\ pc[t] = "casWrite"
    /\ writeIndex = cur[t]
    /\ writeIndex < Word - 1
    /\ writeIndex' = writeIndex + 1
    /\ SetSeen(t, 0)
    /\ Goto(t, "write")
    /\ UNCHANGED <<readIndex, consumed, published, buffer, cur, held>>

\* compare_exchange_weak fails, spuriously or not, and reloads curWriteIndex.
EnqClaimFails(t) ==
    /\ pc[t] = "casWrite"
    /\ SetCur(t, writeIndex)
    /\ SetSeen(t, 0)
    /\ Goto(t, "recheckWrite")
    /\ UNCHANGED <<atomics, buffer, held>>

EnqRecheck_Dropped(t) ==
    /\ pc[t] = "recheckWrite"
    /\ Goto(t, "casWrite")
    /\ UNCHANGED <<atomics, buffer, locals>>

EnqRecheck(t) ==
    /\ pc[t] = "recheckWrite"
    /\ EnqTest(t, cur[t], consumed)
    /\ UNCHANGED <<atomics, buffer>>

EnqWrite_ReloadsIndex(t) ==
    /\ pc[t] = "write"
    /\ buffer' = [buffer EXCEPT ![Slot(writeIndex - 1)] = held[t]]
    /\ Goto(t, "awaitPublish")
    /\ UNCHANGED <<atomics, locals>>

EnqWrite(t) ==
    /\ pc[t] = "write"
    /\ buffer' = [buffer EXCEPT ![Slot(cur[t])] = held[t]]
    /\ Goto(t, "awaitPublish")
    /\ UNCHANGED <<atomics, locals>>

EnqAwait_Skipped(t) ==
    /\ pc[t] = "awaitPublish"
    /\ Goto(t, "publish")
    /\ UNCHANGED <<atomics, buffer, locals>>

EnqAwait(t) ==
    /\ pc[t] = "awaitPublish"
    /\ published = cur[t]
    /\ Goto(t, "publish")
    /\ UNCHANGED <<atomics, buffer, locals>>

EnqPublish_StoresIndex(t) ==
    /\ pc[t] = "publish"
    /\ published' = cur[t]
    /\ Return(t)
    /\ UNCHANGED <<readIndex, writeIndex, consumed, buffer>>

EnqPublish(t) ==
    /\ pc[t] = "publish"
    /\ published' = cur[t] + 1
    /\ Return(t)
    /\ UNCHANGED <<readIndex, writeIndex, consumed, buffer>>

-----------------------------------------------------------------------------
(* dequeue *)

DeqLoadPublished(t) ==
    /\ pc[t] = "idle"
    /\ SetSeen(t, published)
    /\ Goto(t, "loadRead")
    /\ UNCHANGED <<atomics, buffer, cur, held>>

LooksEmpty_OffByOne(i, p) == p <= i + 1

\* The buffer looks empty: the call returns a value-initialised item.
LooksEmpty(i, p) == p <= i

\* The test of an index i against a value p of published, both just loaded
DeqTest(t, i, p) ==
    \/ /\ LooksEmpty(i, p)
       /\ Return(t)
    \/ /\ ~LooksEmpty(i, p)
       /\ Goto(t, "casRead")
       /\ SetCur(t, i) /\ SetSeen(t, p)
       /\ UNCHANGED held

DeqLoadRead(t) ==
    /\ pc[t] = "loadRead"
    /\ DeqTest(t, readIndex, seen[t])
    /\ UNCHANGED <<atomics, buffer>>

DeqClaim(t) ==
    /\ pc[t] = "casRead"
    /\ readIndex = cur[t]
    /\ readIndex' = readIndex + 1
    /\ SetSeen(t, 0)
    /\ Goto(t, "take")
    /\ UNCHANGED <<writeIndex, consumed, published, buffer, cur, held>>

DeqClaimFails(t) ==
    /\ pc[t] = "casRead"
    /\ SetCur(t, readIndex)
    /\ SetSeen(t, 0)
    /\ Goto(t, "recheckRead")
    /\ UNCHANGED <<atomics, buffer, held>>

DeqRecheck(t) ==
    /\ pc[t] = "recheckRead"
    /\ DeqTest(t, cur[t], published)
    /\ UNCHANGED <<atomics, buffer>>

\* Moving out of the slot leaves a moved-from item behind.
DeqTake(t) ==
    /\ pc[t] = "take"
    /\ SetHeld(t, buffer[Slot(cur[t])])
    /\ buffer' = [buffer EXCEPT ![Slot(cur[t])] = NoItem]
    /\ Goto(t, "awaitConsume")
    /\ UNCHANGED <<atomics, cur, seen>>

DeqAwait_Skipped(t) ==
    /\ pc[t] = "awaitConsume"
    /\ Goto(t, "consume")
    /\ UNCHANGED <<atomics, buffer, locals>>

DeqAwait(t) ==
    /\ pc[t] = "awaitConsume"
    /\ consumed = cur[t]
    /\ Goto(t, "consume")
    /\ UNCHANGED <<atomics, buffer, locals>>

DeqConsume(t) ==
    /\ pc[t] = "consume"
    /\ consumed' = cur[t] + 1
    /\ Return(t)
    /\ UNCHANGED <<readIndex, writeIndex, published, buffer>>

-----------------------------------------------------------------------------

\* The steps of a thread that owns a slot: no other thread can make them.
EnqOwner(t) == EnqWrite(t) \/ EnqAwait(t) \/ EnqPublish(t)
DeqOwner(t) == DeqTake(t) \/ DeqAwait(t) \/ DeqConsume(t)

Next ==
    \/ \E t \in Producers :
         \/ \E x \in Items : EnqLoadConsumed(t, x)
         \/ EnqLoadWrite(t) \/ EnqClaim(t) \/ EnqClaimFails(t)
         \/ EnqRecheck(t) \/ EnqOwner(t)
    \/ \E t \in Consumers :
         \/ DeqLoadPublished(t) \/ DeqLoadRead(t) \/ DeqClaim(t)
         \/ DeqClaimFails(t) \/ DeqRecheck(t) \/ DeqOwner(t)

Spec == Init /\ [][Next]_vars

\* A thread that owns a slot is never blocked by the scheduler for ever.
Fairness ==
    /\ \A t \in Producers : WF_vars(EnqOwner(t))
    /\ \A t \in Consumers : WF_vars(DeqOwner(t))

FairSpec == Spec /\ Fairness

-----------------------------------------------------------------------------
(* Properties *)

EnqLabels == {"idle", "loadWrite", "casWrite", "recheckWrite", "write",
              "awaitPublish", "publish"}
DeqLabels == {"idle", "loadRead", "casRead", "recheckRead", "take",
              "awaitConsume", "consume"}

\* Every counter stays a 64-bit index, every slot and local holds an item or
\* nothing, and each thread is at a point of the call it makes.
TypeOK ==
    /\ readIndex \in Index /\ writeIndex \in Index
    /\ consumed \in Index /\ published \in Index
    /\ buffer \in [Slots -> Items \cup {NoItem}]
    /\ pc \in [Threads -> EnqLabels \cup DeqLabels]
    /\ \A t \in Producers : pc[t] \in EnqLabels
    /\ \A t \in Consumers : pc[t] \in DeqLabels
    /\ cur \in [Threads -> Index]
    /\ seen \in [Threads -> Index]
    /\ held \in [Threads -> Items \cup {NoItem}]

\* The four counters stay in the order the class comment describes: published
\* follows writeIndex, consumed follows readIndex, nothing is read before it is
\* published, and no more than Size indices are claimed and not consumed.
CountersOrdered ==
    /\ consumed <= readIndex
    /\ readIndex <= published
    /\ published <= writeIndex
    /\ writeIndex <= consumed + Size

\* The threads that have claimed an index and access its slot
Writing(t) == pc[t] = "write"
Taking(t) == pc[t] = "take"

\* The comments at both claims: whoever claims an index has its slot to itself;
\* no other thread writes or takes from the slot at the same time.
SlotsExclusive ==
    \A t, u \in Threads :
        /\ t # u
        /\ Writing(t) \/ Taking(t)
        /\ Writing(u) \/ Taking(u)
        => Slot(cur[t]) # Slot(cur[u])

\* A write never lands on an unconsumed item, and a claimed slot holds an item
\* when it is taken (the two guarantees the comments at the claims state).
NoLostItem ==
    \A t \in Threads :
        /\ Writing(t) => buffer[Slot(cur[t])] = NoItem
        /\ Taking(t) => buffer[Slot(cur[t])] # NoItem

\* Once no call is in flight every claimed index has been published or consumed,
\* so the destructor's test readIndex = writeIndex says the buffer is empty.
SettledWhenIdle ==
    (\A t \in Threads : pc[t] = "idle")
        => /\ writeIndex = published
           /\ readIndex = consumed
           /\ \A s \in Slots :
                buffer[s] # NoItem <=> \E i \in readIndex .. writeIndex - 1 : s = Slot(i)

\* Waiting for the turn to publish or to consume ends: the owners of earlier
\* indices never wait for a later one.
OwnersFinish ==
    /\ \A t \in Producers : pc[t] = "write" ~> pc[t] = "idle"
    /\ \A t \in Consumers : pc[t] = "take" ~> pc[t] = "idle"

-----------------------------------------------------------------------------
(* Refinement: an enqueue takes effect when it publishes, a dequeue when it *)
(* claims its index.                                                        *)

AbstractQueue == [i \in 1 .. published - readIndex |-> buffer[Slot(readIndex + i - 1)]]

AbstractCall(t) ==
    IF pc[t] = "idle" THEN [op |-> "idle", item |-> NoItem]
    ELSE IF pc[t] \in EnqLabels THEN [op |-> "enqueue", item |-> held[t]]
    ELSE IF pc[t] \in {"loadRead", "casRead", "recheckRead"} THEN [op |-> "dequeue", item |-> NoItem]
    ELSE [op |-> "return", item |-> IF pc[t] = "take" THEN buffer[Slot(cur[t])] ELSE held[t]]

Fifo == INSTANCE FifoQueue
            WITH queue <- AbstractQueue, call <- [t \in Threads |-> AbstractCall(t)]

\* The ring buffer is a bounded FIFO queue: each successful enqueue appends one
\* item, each successful dequeue returns the oldest one, exactly once, in one
\* instant of the call, whatever the interleaving of the calls' steps.
IsFifoQueue == Fifo!FifoSpec
=============================================================================
