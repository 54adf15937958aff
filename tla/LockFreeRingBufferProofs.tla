---------------------- MODULE LockFreeRingBufferProofs ----------------------
(***************************************************************************)
(* Proofs about the ring buffer for any number of producers, consumers,    *)
(* items and slots.                                                        *)
(***************************************************************************)
EXTENDS LockFreeRingBuffer, TLAPS

\* A thread owns an index from its claim until it publishes or consumes it.
EnqOwns(t) == pc[t] \in {"write", "awaitPublish", "publish"}
DeqOwns(t) == pc[t] \in {"take", "awaitConsume", "consume"}

\* What a thread knows of the counters at each point of its call
LocalsCurrent ==
    \A t \in Threads :
        /\ pc[t] = "loadWrite" => seen[t] <= consumed
        /\ pc[t] = "casWrite" => seen[t] <= consumed /\ ~LooksFull(cur[t], seen[t])
        /\ pc[t] = "loadRead" => seen[t] <= published
        /\ pc[t] = "casRead" => seen[t] <= published /\ ~LooksEmpty(cur[t], seen[t])
        /\ EnqOwns(t) => published <= cur[t] /\ cur[t] < writeIndex
        /\ pc[t] = "publish" => published = cur[t]
        /\ DeqOwns(t) => consumed <= cur[t] /\ cur[t] < readIndex
        /\ pc[t] = "consume" => consumed = cur[t]

\* No index has two owners of a kind.
OwnersDistinct ==
    \A t, u \in Threads :
        /\ t # u /\ EnqOwns(t) /\ EnqOwns(u) => cur[t] # cur[u]
        /\ t # u /\ DeqOwns(t) /\ DeqOwns(u) => cur[t] # cur[u]

\* Every claimed index that is not yet published, or not yet consumed, has one.
OwnersExist ==
    /\ \A i \in published .. writeIndex - 1 : \E t \in Threads : EnqOwns(t) /\ cur[t] = i
    /\ \A i \in consumed .. readIndex - 1 : \E t \in Threads : DeqOwns(t) /\ cur[t] = i

\* What the slots hold: items where they are published or being taken, nothing
\* where they are free, being written, or taken and not yet consumed.
SlotsHold ==
    /\ \A i \in readIndex .. published - 1 : buffer[Slot(i)] # NoItem
    /\ \A i \in writeIndex .. consumed + Size - 1 : buffer[Slot(i)] = NoItem
    /\ \A t \in Threads :
        /\ pc[t] \in EnqLabels \ {"idle"} => held[t] # NoItem
        /\ pc[t] = "write" => buffer[Slot(cur[t])] = NoItem
        /\ pc[t] \in {"awaitPublish", "publish"} => buffer[Slot(cur[t])] = held[t]
        /\ pc[t] = "take" => buffer[Slot(cur[t])] # NoItem
        /\ pc[t] \in {"awaitConsume", "consume"} => buffer[Slot(cur[t])] = NoItem

\* The inductive invariant on counters and ownership
CounterInv == TypeOK /\ CountersOrdered /\ LocalsCurrent /\ OwnersDistinct

-----------------------------------------------------------------------------

\* Slots of indices less than Size apart are different: index & (size - 1)
\* does not wrap within a window of Size indices.
LEMMA SlotInjective ==
    ASSUME NEW i \in Nat, NEW j \in Nat, i < j, j < i + Size
    PROVE  Slot(i) # Slot(j)
<1> DEFINE qi == i \div Size
           qj == j \div Size
<1>1. Size \in Nat /\ Size > 0
  BY SizeAssumption
<1>2. /\ qi \in Nat /\ qj \in Nat
      /\ i = Size * qi + (i % Size)
      /\ j = Size * qj + (j % Size)
  BY <1>1
<1>3. SUFFICES ASSUME i % Size = j % Size PROVE FALSE
  BY DEF Slot
<1>4. j - i = Size * (qj - qi)
  BY <1>1, <1>2, <1>3
<1>5. CASE qj <= qi
  <2>1. qj - qi <= 0 /\ qj - qi \in Int
    BY <1>2, <1>5
  <2>2. Size * (qj - qi) <= 0
    BY <1>1, <2>1
  <2> QED BY <1>4, <2>2
<1>6. CASE qj > qi
  <2>1. qj - qi >= 1 /\ qj - qi \in Int
    BY <1>2, <1>6
  <2>2. Size * (qj - qi) >= Size
    BY <1>1, <2>1
  <2> QED BY <1>4, <2>2, <1>1
<1> QED BY <1>2, <1>5, <1>6

\* The same, whichever index is the larger.
LEMMA SlotsDiffer ==
    ASSUME NEW i \in Nat, NEW j \in Nat, i # j, i < j + Size, j < i + Size
    PROVE  Slot(i) # Slot(j)
BY SlotInjective, SizeAssumption

\* A number has one remainder.
LEMMA RemainderUnique ==
    ASSUME NEW a \in Int, NEW b \in Int, NEW r \in 0 .. Size - 1, NEW s \in 0 .. Size - 1,
           Size * a + r = Size * b + s
    PROVE  r = s
<1>1. Size \in Nat /\ Size > 0
  BY SizeAssumption
<1>2. Size * (a - b) = s - r
  BY <1>1
<1>3. CASE a - b >= 1
  <2>1. Size * (a - b) >= Size
    BY <1>1, <1>3
  <2> QED BY <1>1, <1>2, <2>1
<1>4. CASE a - b <= -1
  <2>1. Size * (a - b) <= -Size
    BY <1>1, <1>4
  <2> QED BY <1>1, <1>2, <2>1
<1>5. CASE a = b
  BY <1>1, <1>5
<1> QED BY <1>3, <1>4, <1>5

\* Indices Size apart share a slot.
LEMMA SlotPeriodic ==
    ASSUME NEW i \in Nat
    PROVE  Slot(i + Size) = Slot(i)
<1> DEFINE q == i \div Size
           p == (i + Size) \div Size
<1>1. Size \in Nat /\ Size > 0
  BY SizeAssumption
<1>2. q \in Int /\ i % Size \in 0 .. Size - 1 /\ i = Size * q + (i % Size)
  BY <1>1
<1>3. /\ p \in Int /\ (i + Size) % Size \in 0 .. Size - 1
      /\ i + Size = Size * p + ((i + Size) % Size)
  BY <1>1
<1>4. Size * (q + 1) + (i % Size) = Size * p + ((i + Size) % Size)
  BY <1>1, <1>2, <1>3
<1> HIDE DEF q, p
<1>5. i % Size = (i + Size) % Size
  BY <1>2, <1>3, <1>4, RemainderUnique
<1> QED BY <1>5 DEF Slot

\* Every index has a slot.
LEMMA SlotInRange ==
    ASSUME NEW i \in Nat
    PROVE  Slot(i) \in Slots
BY SizeAssumption DEF Slot, Slots

-----------------------------------------------------------------------------

\* CounterInv holds of the empty buffer,
LEMMA InitCounterInv == Init => CounterInv
BY SizeAssumption
   DEF Init, CounterInv, TypeOK, CountersOrdered, LocalsCurrent, OwnersDistinct, EnqOwns,
       DeqOwns, Index, Slots, Threads, EnqLabels, DeqLabels

\* Every step of an enqueue keeps the counters ordered and the owners distinct.
LEMMA EnqueueCounterInv ==
    ASSUME CounterInv, NEW t \in Producers
    PROVE  /\ \A x \in Items : EnqLoadConsumed(t, x) => CounterInv'
           /\ EnqLoadWrite(t) => CounterInv'
           /\ EnqClaim(t) => CounterInv'
           /\ EnqClaimFails(t) => CounterInv'
           /\ EnqRecheck(t) => CounterInv'
           /\ EnqOwner(t) => CounterInv'
<1> USE SizeAssumption
        DEF CounterInv, TypeOK, CountersOrdered, LocalsCurrent, OwnersDistinct, EnqOwns,
            DeqOwns, Index, Threads, EnqLabels, DeqLabels, Goto, SetCur, SetSeen, SetHeld,
            Return, atomics, locals
<1>1. ASSUME NEW x \in Items, EnqLoadConsumed(t, x) PROVE CounterInv'
  BY <1>1 DEF EnqLoadConsumed
<1>2. ASSUME EnqLoadWrite(t) PROVE CounterInv'
  BY <1>2 DEF EnqLoadWrite, EnqTest
<1>3. ASSUME EnqClaim(t) PROVE CounterInv'
  BY <1>3 DEF EnqClaim, LooksFull, Minus
<1>4. ASSUME EnqClaimFails(t) PROVE CounterInv'
  BY <1>4 DEF EnqClaimFails
<1>5. ASSUME EnqRecheck(t) PROVE CounterInv'
  BY <1>5 DEF EnqRecheck, EnqTest
<1>6. ASSUME EnqWrite(t) PROVE CounterInv'
  BY <1>6, SlotInRange DEF EnqWrite
<1>7. ASSUME EnqAwait(t) PROVE CounterInv'
  BY <1>7 DEF EnqAwait
<1>8. ASSUME EnqPublish(t) PROVE CounterInv'
  BY <1>8 DEF EnqPublish
<1> QED BY <1>1, <1>2, <1>3, <1>4, <1>5, <1>6, <1>7, <1>8 DEF EnqOwner

\* Every step of a dequeue does too.
LEMMA DequeueCounterInv ==
    ASSUME CounterInv, NEW t \in Consumers
    PROVE  /\ DeqLoadPublished(t) => CounterInv'
           /\ DeqLoadRead(t) => CounterInv'
           /\ DeqClaim(t) => CounterInv'
           /\ DeqClaimFails(t) => CounterInv'
           /\ DeqRecheck(t) => CounterInv'
           /\ DeqOwner(t) => CounterInv'
<1> USE SizeAssumption
        DEF CounterInv, TypeOK, CountersOrdered, LocalsCurrent, OwnersDistinct, EnqOwns,
            DeqOwns, Index, Threads, EnqLabels, DeqLabels, Goto, SetCur, SetSeen, SetHeld,
            Return, atomics, locals
<1>1. ASSUME DeqLoadPublished(t) PROVE CounterInv'
  BY <1>1 DEF DeqLoadPublished
<1>2. ASSUME DeqLoadRead(t) PROVE CounterInv'
  BY <1>2 DEF DeqLoadRead, DeqTest
<1>3. ASSUME DeqClaim(t) PROVE CounterInv'
  BY <1>3 DEF DeqClaim, LooksEmpty
<1>4. ASSUME DeqClaimFails(t) PROVE CounterInv'
  BY <1>4 DEF DeqClaimFails
<1>5. ASSUME DeqRecheck(t) PROVE CounterInv'
  BY <1>5 DEF DeqRecheck, DeqTest
<1>6. ASSUME DeqTake(t) PROVE CounterInv'
  BY <1>6, SlotInRange DEF DeqTake
<1>7. ASSUME DeqAwait(t) PROVE CounterInv'
  BY <1>7 DEF DeqAwait
<1>8. ASSUME DeqConsume(t) PROVE CounterInv'
  BY <1>8 DEF DeqConsume
<1> QED BY <1>1, <1>2, <1>3, <1>4, <1>5, <1>6, <1>7, <1>8 DEF DeqOwner

\* is kept by every step,
LEMMA NextCounterInv == CounterInv /\ [Next]_vars => CounterInv'
<1> SUFFICES ASSUME CounterInv, [Next]_vars PROVE CounterInv'
  OBVIOUS
<1>1. CASE Next
  BY <1>1, EnqueueCounterInv, DequeueCounterInv DEF Next
<1>2. CASE UNCHANGED vars
  BY <1>2 DEF CounterInv, TypeOK, CountersOrdered, LocalsCurrent, OwnersDistinct, EnqOwns,
       DeqOwns, LooksFull, LooksEmpty, Minus, vars
<1> QED BY <1>1, <1>2

\* and so always holds.
LEMMA CounterInvHolds == Spec => []CounterInv
BY InitCounterInv, NextCounterInv, PTL DEF Spec

\* The counters, slots and locals keep their types: in particular no counter
\* wraps, given the bound on writeIndex that debug builds assert.
THEOREM TypeCorrect == Spec => []TypeOK
BY CounterInvHolds, PTL DEF CounterInv

\* consumed <= readIndex <= published <= writeIndex <= consumed + Size at every
\* step of any number of concurrent enqueues and dequeues, although each call
\* tests counters it read in separate loads.
THEOREM CountersStayOrdered == Spec => []CountersOrdered
BY CounterInvHolds, PTL DEF CounterInv

\* Two threads never access one slot at the same time.
THEOREM SlotAccessIsExclusive == Spec => []SlotsExclusive
<1>1. CounterInv => SlotsExclusive
  <2> SUFFICES ASSUME CounterInv, NEW t \in Threads, NEW u \in Threads, t # u,
                      Writing(t) \/ Taking(t), Writing(u) \/ Taking(u)
               PROVE  Slot(cur[t]) # Slot(cur[u])
    BY DEF SlotsExclusive
  <2>1. /\ cur[t] \in Nat /\ cur[u] \in Nat /\ Size \in Nat
        /\ cur[t] # cur[u]
        /\ cur[t] < cur[u] + Size
        /\ cur[u] < cur[t] + Size
    BY SizeAssumption
       DEF CounterInv, TypeOK, CountersOrdered, LocalsCurrent, OwnersDistinct, EnqOwns, DeqOwns,
           Writing, Taking, Index
  <2> QED BY <2>1, SlotInjective
<1> QED BY <1>1, CounterInvHolds, PTL

-----------------------------------------------------------------------------
(* What the slots hold *)

RingInv == CounterInv /\ OwnersExist /\ SlotsHold

\* RingInv holds of the empty buffer.
LEMMA InitRingInv == Init => RingInv
<1> SUFFICES ASSUME Init PROVE RingInv
  OBVIOUS
<1>1. CounterInv
  BY InitCounterInv
<1>2. OwnersExist
  BY DEF Init, OwnersExist
<1>3. SlotsHold
  BY SlotInRange, SizeAssumption DEF Init, SlotsHold, EnqLabels, Threads
<1> QED BY <1>1, <1>2, <1>3 DEF RingInv

\* Ownership after a step of thread t that neither claims nor releases an index
LEMMA EnqueueOwnersExist ==
    ASSUME RingInv, NEW t \in Producers
    PROVE  /\ \A x \in Items : EnqLoadConsumed(t, x) => OwnersExist'
           /\ EnqLoadWrite(t) => OwnersExist'
           /\ EnqClaim(t) => OwnersExist'
           /\ EnqClaimFails(t) => OwnersExist'
           /\ EnqRecheck(t) => OwnersExist'
           /\ EnqOwner(t) => OwnersExist'
<1> USE SizeAssumption
        DEF RingInv, CounterInv, TypeOK, CountersOrdered, LocalsCurrent, OwnersExist, EnqOwns,
            DeqOwns, Index, Threads, EnqLabels, DeqLabels, Goto, SetCur, SetSeen, SetHeld,
            Return, atomics, locals
<1>1. ASSUME NEW x \in Items, EnqLoadConsumed(t, x) PROVE OwnersExist'
  BY <1>1 DEF EnqLoadConsumed
<1>2. ASSUME EnqLoadWrite(t) PROVE OwnersExist'
  BY <1>2 DEF EnqLoadWrite, EnqTest
<1>3. ASSUME EnqClaim(t) PROVE OwnersExist'
  BY <1>3 DEF EnqClaim
<1>4. ASSUME EnqClaimFails(t) PROVE OwnersExist'
  BY <1>4 DEF EnqClaimFails
<1>5. ASSUME EnqRecheck(t) PROVE OwnersExist'
  BY <1>5 DEF EnqRecheck, EnqTest
<1>6. ASSUME EnqWrite(t) PROVE OwnersExist'
  BY <1>6 DEF EnqWrite
<1>7. ASSUME EnqAwait(t) PROVE OwnersExist'
  BY <1>7 DEF EnqAwait
<1>8. ASSUME EnqPublish(t) PROVE OwnersExist'
  BY <1>8 DEF EnqPublish
<1> QED BY <1>1, <1>2, <1>3, <1>4, <1>5, <1>6, <1>7, <1>8 DEF EnqOwner

\* Every index claimed by a dequeue keeps its owner until it is consumed.
LEMMA DequeueOwnersExist ==
    ASSUME RingInv, NEW t \in Consumers
    PROVE  /\ DeqLoadPublished(t) => OwnersExist'
           /\ DeqLoadRead(t) => OwnersExist'
           /\ DeqClaim(t) => OwnersExist'
           /\ DeqClaimFails(t) => OwnersExist'
           /\ DeqRecheck(t) => OwnersExist'
           /\ DeqOwner(t) => OwnersExist'
<1> USE SizeAssumption
        DEF RingInv, CounterInv, TypeOK, CountersOrdered, LocalsCurrent, OwnersExist, EnqOwns,
            DeqOwns, Index, Threads, EnqLabels, DeqLabels, Goto, SetCur, SetSeen, SetHeld,
            Return, atomics, locals
<1>1. ASSUME DeqLoadPublished(t) PROVE OwnersExist'
  BY <1>1 DEF DeqLoadPublished
<1>2. ASSUME DeqLoadRead(t) PROVE OwnersExist'
  BY <1>2 DEF DeqLoadRead, DeqTest
<1>3. ASSUME DeqClaim(t) PROVE OwnersExist'
  BY <1>3 DEF DeqClaim
<1>4. ASSUME DeqClaimFails(t) PROVE OwnersExist'
  BY <1>4 DEF DeqClaimFails
<1>5. ASSUME DeqRecheck(t) PROVE OwnersExist'
  BY <1>5 DEF DeqRecheck, DeqTest
<1>6. ASSUME DeqTake(t) PROVE OwnersExist'
  BY <1>6 DEF DeqTake
<1>7. ASSUME DeqAwait(t) PROVE OwnersExist'
  BY <1>7 DEF DeqAwait
<1>8. ASSUME DeqConsume(t) PROVE OwnersExist'
  BY <1>8 DEF DeqConsume
<1> QED BY <1>1, <1>2, <1>3, <1>4, <1>5, <1>6, <1>7, <1>8 DEF DeqOwner

\* A write or a take changes one slot: no other index of the window has it.
LEMMA EnqWriteSlotsHold ==
    ASSUME RingInv, NEW t \in Producers, EnqWrite(t)
    PROVE  SlotsHold'
<1> USE SizeAssumption
        DEF RingInv, CounterInv, TypeOK, CountersOrdered, LocalsCurrent, OwnersDistinct,
            SlotsHold, EnqOwns, DeqOwns, Index, Threads, EnqLabels, DeqLabels, Goto, SetCur,
            SetSeen, SetHeld, Return, atomics, locals
<1>1. /\ cur[t] \in Nat /\ Slot(cur[t]) \in Slots
      /\ published <= cur[t] /\ cur[t] < writeIndex
      /\ held[t] # NoItem
      /\ buffer' = [buffer EXCEPT ![Slot(cur[t])] = held[t]]
      /\ pc' = [pc EXCEPT ![t] = "awaitPublish"]
      /\ UNCHANGED <<atomics, locals>>
  BY SlotInRange DEF EnqWrite
<1>2. \A i \in Nat : i # cur[t] /\ consumed <= i /\ i < consumed + Size
                      => buffer'[Slot(i)] = buffer[Slot(i)]
  BY <1>1, SlotsDiffer, SlotInRange
<1>3. buffer'[Slot(cur[t])] = held[t]
  BY <1>1
<1>4. (\A i \in readIndex .. published - 1 : buffer[Slot(i)] # NoItem)'
  BY <1>1, <1>2
<1>5. (\A i \in writeIndex .. consumed + Size - 1 : buffer[Slot(i)] = NoItem)'
  BY <1>1, <1>2
<1>6. ASSUME NEW u \in Threads, u # t, EnqOwns(u) \/ DeqOwns(u)
      PROVE  buffer'[Slot(cur[u])] = buffer[Slot(cur[u])]
  <2>1. cur[u] \in Nat /\ consumed <= cur[u] /\ cur[u] < consumed + Size
    BY <1>6
  <2>2. cur[u] # cur[t]
    BY <1>1, <1>6 DEF EnqWrite, DeqTake
  <2> QED BY <1>2, <2>1, <2>2
<1> QED BY <1>1, <1>3, <1>4, <1>5, <1>6

\* Emptying a claimed slot leaves the items of the other slots alone.
LEMMA DeqTakeSlotsHold ==
    ASSUME RingInv, NEW t \in Consumers, DeqTake(t)
    PROVE  SlotsHold'
<1> USE SizeAssumption
        DEF RingInv, CounterInv, TypeOK, CountersOrdered, LocalsCurrent, OwnersDistinct,
            SlotsHold, EnqOwns, DeqOwns, Index, Threads, EnqLabels, DeqLabels, Goto, SetCur,
            SetSeen, SetHeld, Return, atomics, locals
<1>1. /\ cur[t] \in Nat /\ Slot(cur[t]) \in Slots
      /\ consumed <= cur[t] /\ cur[t] < readIndex
      /\ buffer' = [buffer EXCEPT ![Slot(cur[t])] = NoItem]
      /\ held' = [held EXCEPT ![t] = buffer[Slot(cur[t])]]
      /\ pc' = [pc EXCEPT ![t] = "awaitConsume"]
      /\ UNCHANGED <<atomics, cur, seen>>
  BY SlotInRange DEF DeqTake
<1>2. \A i \in Nat : i # cur[t] /\ consumed <= i /\ i < consumed + Size
                      => buffer'[Slot(i)] = buffer[Slot(i)]
  BY <1>1, SlotsDiffer, SlotInRange
<1>3. buffer'[Slot(cur[t])] = NoItem
  BY <1>1
<1>4. (\A i \in readIndex .. published - 1 : buffer[Slot(i)] # NoItem)'
  BY <1>1, <1>2
<1>5. (\A i \in writeIndex .. consumed + Size - 1 : buffer[Slot(i)] = NoItem)'
  BY <1>1, <1>2
<1>6. ASSUME NEW u \in Threads, u # t, EnqOwns(u) \/ DeqOwns(u)
      PROVE  buffer'[Slot(cur[u])] = buffer[Slot(cur[u])]
  <2>1. cur[u] \in Nat /\ consumed <= cur[u] /\ cur[u] < consumed + Size
    BY <1>6
  <2>2. cur[u] # cur[t]
    BY <1>1, <1>6 DEF EnqWrite, DeqTake
  <2> QED BY <1>2, <2>1, <2>2
<1> QED BY <1>1, <1>3, <1>4, <1>5, <1>6

\* No step of an enqueue breaks what the slots hold.
LEMMA EnqueueSlotsHold ==
    ASSUME RingInv, NEW t \in Producers
    PROVE  /\ \A x \in Items : EnqLoadConsumed(t, x) => SlotsHold'
           /\ EnqLoadWrite(t) => SlotsHold'
           /\ EnqClaim(t) => SlotsHold'
           /\ EnqClaimFails(t) => SlotsHold'
           /\ EnqRecheck(t) => SlotsHold'
           /\ EnqOwner(t) => SlotsHold'
<1> USE SizeAssumption
        DEF RingInv, CounterInv, TypeOK, CountersOrdered, LocalsCurrent, OwnersDistinct,
            SlotsHold, EnqOwns, DeqOwns, Index, Threads, EnqLabels, DeqLabels, Goto, SetCur,
            SetSeen, SetHeld, Return, atomics, locals
<1>1. ASSUME NEW x \in Items, EnqLoadConsumed(t, x) PROVE SlotsHold'
  BY <1>1 DEF EnqLoadConsumed
<1>2. ASSUME EnqLoadWrite(t) PROVE SlotsHold'
  BY <1>2 DEF EnqLoadWrite, EnqTest
<1>3. ASSUME EnqClaim(t) PROVE SlotsHold'
  BY <1>3 DEF EnqClaim, LooksFull, Minus
<1>4. ASSUME EnqClaimFails(t) PROVE SlotsHold'
  BY <1>4 DEF EnqClaimFails
<1>5. ASSUME EnqRecheck(t) PROVE SlotsHold'
  BY <1>5 DEF EnqRecheck, EnqTest
<1>6. ASSUME EnqAwait(t) PROVE SlotsHold'
  BY <1>6 DEF EnqAwait
<1>7. ASSUME EnqPublish(t) PROVE SlotsHold'
  <2>1. /\ published \in Nat /\ cur[t] = published /\ published' = published + 1
        /\ held[t] # NoItem /\ buffer[Slot(published)] = held[t]
        /\ UNCHANGED <<readIndex, writeIndex, consumed, buffer>>
    BY <1>7 DEF EnqPublish
  <2>2. (\A i \in readIndex .. published - 1 : buffer[Slot(i)] # NoItem)'
    BY <2>1
  <2>3. (\A i \in writeIndex .. consumed + Size - 1 : buffer[Slot(i)] = NoItem)'
    BY <2>1
  <2> QED BY <1>7, <2>2, <2>3 DEF EnqPublish
<1> QED BY <1>1, <1>2, <1>3, <1>4, <1>5, <1>6, <1>7, EnqWriteSlotsHold DEF EnqOwner

\* No step of a dequeue does.
LEMMA DequeueSlotsHold ==
    ASSUME RingInv, NEW t \in Consumers
    PROVE  /\ DeqLoadPublished(t) => SlotsHold'
           /\ DeqLoadRead(t) => SlotsHold'
           /\ DeqClaim(t) => SlotsHold'
           /\ DeqClaimFails(t) => SlotsHold'
           /\ DeqRecheck(t) => SlotsHold'
           /\ DeqOwner(t) => SlotsHold'
<1> USE SizeAssumption
        DEF RingInv, CounterInv, TypeOK, CountersOrdered, LocalsCurrent, OwnersDistinct,
            SlotsHold, EnqOwns, DeqOwns, Index, Threads, EnqLabels, DeqLabels, Goto, SetCur,
            SetSeen, SetHeld, Return, atomics, locals
<1>1. ASSUME DeqLoadPublished(t) PROVE SlotsHold'
  BY <1>1 DEF DeqLoadPublished
<1>2. ASSUME DeqLoadRead(t) PROVE SlotsHold'
  BY <1>2 DEF DeqLoadRead, DeqTest
<1>3. ASSUME DeqClaim(t) PROVE SlotsHold'
  BY <1>3 DEF DeqClaim, LooksEmpty
<1>4. ASSUME DeqClaimFails(t) PROVE SlotsHold'
  BY <1>4 DEF DeqClaimFails
<1>5. ASSUME DeqRecheck(t) PROVE SlotsHold'
  BY <1>5 DEF DeqRecheck, DeqTest
<1>6. ASSUME DeqAwait(t) PROVE SlotsHold'
  BY <1>6 DEF DeqAwait
<1>7. ASSUME DeqConsume(t) PROVE SlotsHold'
  <2>1. /\ consumed \in Nat /\ cur[t] = consumed /\ consumed' = consumed + 1
        /\ buffer[Slot(consumed)] = NoItem
        /\ UNCHANGED <<readIndex, writeIndex, published, buffer>>
    BY <1>7 DEF DeqConsume
  <2>2. buffer[Slot(consumed + Size)] = NoItem
    BY <2>1, SlotPeriodic
  <2>3. (\A i \in writeIndex .. consumed + Size - 1 : buffer[Slot(i)] = NoItem)'
    BY <2>1, <2>2
  <2>4. (\A i \in readIndex .. published - 1 : buffer[Slot(i)] # NoItem)'
    BY <2>1
  <2> QED BY <1>7, <2>3, <2>4 DEF DeqConsume
<1> QED BY <1>1, <1>2, <1>3, <1>4, <1>5, <1>6, <1>7, DeqTakeSlotsHold DEF DeqOwner

\* RingInv is kept by every step,
LEMMA NextRingInv == RingInv /\ [Next]_vars => RingInv'
<1> SUFFICES ASSUME RingInv, [Next]_vars PROVE RingInv'
  OBVIOUS
<1>1. CounterInv'
  BY NextCounterInv DEF RingInv
<1>2. CASE Next
  <2>1. OwnersExist'
    BY <1>2, EnqueueOwnersExist, DequeueOwnersExist DEF Next
  <2>2. SlotsHold'
    BY <1>2, EnqueueSlotsHold, DequeueSlotsHold DEF Next
  <2> QED BY <1>1, <2>1, <2>2 DEF RingInv
<1>3. CASE UNCHANGED vars
  BY <1>1, <1>3 DEF RingInv, OwnersExist, SlotsHold, EnqOwns, DeqOwns, vars
<1> QED BY <1>2, <1>3

\* and so always holds.
LEMMA RingInvHolds == Spec => []RingInv
BY InitRingInv, NextRingInv, PTL DEF Spec

\* No enqueue overwrites an item that has not been taken, and no dequeue takes
\* from a slot that has not been written.
THEOREM NoItemIsLost == Spec => []NoLostItem
<1>1. RingInv => NoLostItem
  BY DEF RingInv, SlotsHold, NoLostItem, Writing, Taking
<1> QED BY <1>1, RingInvHolds, PTL

\* Size consecutive indices use every slot.
LEMMA SlotSurjective ==
    ASSUME NEW c \in Nat, NEW s \in Slots
    PROVE  \E i \in c .. c + Size - 1 : Slot(i) = s
<1> DEFINE q == c \div Size
           r == c % Size
           k == IF s >= r THEN q ELSE q + 1
           i == Size * k + s
           p == i \div Size
<1>1. Size \in Nat /\ Size > 0 /\ s \in 0 .. Size - 1
  BY SizeAssumption DEF Slots
<1>2. q \in Nat /\ r \in 0 .. Size - 1 /\ c = Size * q + r
  BY <1>1
<1>3. k \in Nat /\ i \in c .. c + Size - 1
  BY <1>1, <1>2
<1>4. p \in Int /\ i % Size \in 0 .. Size - 1 /\ i = Size * p + (i % Size)
  BY <1>1, <1>3
<1>5. Size * k + s = Size * p + (i % Size)
  BY <1>4
<1>6. k \in Int
  BY <1>3
<1> HIDE DEF k, p
<1>7. s = i % Size
  BY <1>1, <1>4, <1>5, <1>6, RemainderUnique
<1> QED BY <1>3, <1>7 DEF Slot

\* With no call in flight nothing is claimed and unsettled, and the slots hold
\* exactly the items between readIndex and writeIndex.
THEOREM SettlesWhenIdle == Spec => []SettledWhenIdle
<1>1. RingInv => SettledWhenIdle
  <2> SUFFICES ASSUME RingInv, \A t \in Threads : pc[t] = "idle"
               PROVE  /\ writeIndex = published
                      /\ readIndex = consumed
                      /\ \A s \in Slots :
                           buffer[s] # NoItem
                             <=> \E i \in readIndex .. writeIndex - 1 : s = Slot(i)
    BY DEF SettledWhenIdle
  <2>1. writeIndex = published /\ readIndex = consumed
    BY DEF RingInv, OwnersExist, EnqOwns, DeqOwns, CounterInv, CountersOrdered, TypeOK, Index
  <2>2. ASSUME NEW s \in Slots, buffer[s] # NoItem
        PROVE  \E i \in readIndex .. writeIndex - 1 : s = Slot(i)
    <3>1. consumed \in Nat /\ writeIndex \in Nat /\ Size \in Nat /\ readIndex = consumed
      BY <2>1, SizeAssumption DEF RingInv, CounterInv, TypeOK, Index
    <3>2. PICK i \in consumed .. consumed + Size - 1 : Slot(i) = s
      BY <3>1, SlotSurjective
    <3>3. i < writeIndex
      BY <2>2, <3>1, <3>2 DEF RingInv, SlotsHold
    <3> QED BY <3>1, <3>2, <3>3
  <2>3. ASSUME NEW s \in Slots, NEW i \in readIndex .. writeIndex - 1, s = Slot(i)
        PROVE  buffer[s] # NoItem
    BY <2>1, <2>3 DEF RingInv, SlotsHold
  <2> QED BY <2>1, <2>2, <2>3
<1> QED BY <1>1, RingInvHolds, PTL

=============================================================================
