-------------------- MODULE LockFreeRingBufferRefinement --------------------
(***************************************************************************)
(* The proof that the ring buffer implements FifoQueue: an enqueue takes   *)
(* effect when it publishes, a dequeue when it claims its index.           *)
(***************************************************************************)
EXTENDS LockFreeRingBufferProofs, SequenceTheorems

Values == Items \cup {NoItem}
AbstractCalls == [t \in Threads |-> AbstractCall(t)]

-----------------------------------------------------------------------------
(* The queue that the slots between readIndex and published stand for *)

\* A function on 1 .. n is a sequence of length n.
LEMMA FunctionIsSeq ==
    ASSUME NEW S, NEW n \in Nat, NEW f \in [1 .. n -> S]
    PROVE  f \in Seq(S) /\ Len(f) = n
<1>1. f \in Seq(S)
  BY SeqDef
<1>2. Len(f) \in Nat /\ DOMAIN f = 1 .. Len(f)
  BY <1>1, LenProperties
<1>3. 1 .. Len(f) = 1 .. n
  BY <1>2
<1>4. Len(f) = n
  BY <1>2, <1>3
<1> QED BY <1>1, <1>4

\* What the invariant says of the counters and the slots, for the proofs below
LEMMA Counters ==
    ASSUME RingInv
    PROVE  /\ readIndex \in Nat /\ published \in Nat /\ writeIndex \in Nat /\ consumed \in Nat
           /\ Size \in Nat /\ Size > 0
           /\ consumed <= readIndex /\ readIndex <= published /\ published <= writeIndex
           /\ writeIndex <= consumed + Size
           /\ buffer \in [Slots -> Values]
BY SizeAssumption DEF RingInv, CounterInv, TypeOK, CountersOrdered, Index, Values

\* The queue is a sequence of the items between the two ends.
LEMMA QueueType ==
    ASSUME RingInv
    PROVE  /\ AbstractQueue \in Seq(Values)
           /\ Len(AbstractQueue) = published - readIndex
           /\ \A i \in 1 .. published - readIndex : AbstractQueue[i] = buffer[Slot(readIndex + i - 1)]
<1>1. published - readIndex \in Nat
  BY Counters
<1>2. \A i \in 1 .. published - readIndex : buffer[Slot(readIndex + i - 1)] \in Values
  BY Counters, SlotInRange
<1>3. AbstractQueue \in [1 .. published - readIndex -> Values]
  BY <1>2 DEF AbstractQueue
<1>4. AbstractQueue \in Seq(Values) /\ Len(AbstractQueue) = published - readIndex
  BY <1>1, <1>3, FunctionIsSeq
<1> QED BY <1>4 DEF AbstractQueue

\* Steps that move neither end and leave the published slots alone keep the queue.
LEMMA QueueKept ==
    ASSUME RingInv, UNCHANGED <<readIndex, published>>,
           \A i \in readIndex .. published - 1 : buffer'[Slot(i)] = buffer[Slot(i)]
    PROVE  AbstractQueue' = AbstractQueue
<1>1. \A i \in 1 .. published - readIndex : readIndex + i - 1 \in readIndex .. published - 1
  BY Counters
<1> QED BY <1>1 DEF AbstractQueue

-----------------------------------------------------------------------------
(* The abstract calls *)

\* A thread's abstract call depends on its label, its item and the slot it takes from only.
LEMMA CallKept ==
    ASSUME NEW u \in Threads, pc'[u] = pc[u], held'[u] = held[u],
           pc[u] = "take" => buffer'[Slot(cur'[u])] = buffer[Slot(cur[u])]
    PROVE  AbstractCall(u)' = AbstractCall(u)
BY DEF AbstractCall

\* A step of t that leaves the calls of others alone changes its call only.
LEMMA CallsChange ==
    ASSUME NEW t \in Threads, NEW c, AbstractCall(t)' = c,
           \A u \in Threads : u # t => AbstractCall(u)' = AbstractCall(u)
    PROVE  AbstractCalls' = [AbstractCalls EXCEPT ![t] = c]
BY DEF AbstractCalls

\* The same, for a step that leaves the slots alone.
LEMMA OthersKept ==
    ASSUME RingInv, NEW t \in Threads, UNCHANGED buffer,
           NEW p, pc' = [pc EXCEPT ![t] = p],
           \A u \in Threads : u # t => held'[u] = held[u] /\ cur'[u] = cur[u]
    PROVE  \A u \in Threads : u # t => AbstractCall(u)' = AbstractCall(u)
<1> SUFFICES ASSUME NEW u \in Threads, u # t PROVE AbstractCall(u)' = AbstractCall(u)
  OBVIOUS
<1>1. pc'[u] = pc[u]
  BY DEF RingInv, CounterInv, TypeOK
<1> QED BY <1>1, CallKept
-----------------------------------------------------------------------------
(* Steps of an enqueue *)

\* What the invariant says of a producer.
LEMMA EnqueueTypes ==
    ASSUME RingInv, NEW t \in Producers
    PROVE  /\ t \in Threads /\ t \in DOMAIN pc /\ t \in DOMAIN held /\ t \in DOMAIN cur
           /\ pc[t] \in EnqLabels
BY DEF RingInv, CounterInv, TypeOK, Threads

\* A step within the call stutters.
LEMMA EnqueueStutters ==
    ASSUME RingInv, NEW t \in Producers, pc[t] # "idle", UNCHANGED <<atomics, buffer, held>> \/ EnqClaim(t),
           NEW p \in EnqLabels \ {"idle"}, pc' = [pc EXCEPT ![t] = p],
           \A u \in Threads : u # t => cur'[u] = cur[u]
    PROVE  UNCHANGED <<AbstractQueue, AbstractCalls>>
<1>1. UNCHANGED <<readIndex, published, buffer, held>>
  BY DEF EnqClaim, atomics
<1>2. AbstractQueue' = AbstractQueue
  BY <1>1, QueueKept
<1>3. \A u \in Threads : u # t => AbstractCall(u)' = AbstractCall(u)
  BY <1>1, OthersKept, EnqueueTypes
<1>4. AbstractCall(t)' = AbstractCall(t)
  BY <1>1, EnqueueTypes DEF AbstractCall
<1> QED BY <1>2, <1>3, <1>4 DEF AbstractCalls

\* The first load of an enqueue is the call.
LEMMA EnqueueStarts ==
    ASSUME RingInv, NEW t \in Producers, NEW x \in Items, EnqLoadConsumed(t, x)
    PROVE  Fifo!FifoCallEnqueue(t, x)
<1>1. /\ UNCHANGED <<readIndex, published, buffer, cur>> /\ pc[t] = "idle"
      /\ pc' = [pc EXCEPT ![t] = "loadWrite"] /\ held' = [held EXCEPT ![t] = x]
  BY DEF EnqLoadConsumed, Goto, SetHeld, atomics
<1>2. AbstractQueue' = AbstractQueue
  BY <1>1, QueueKept
<1>3. \A u \in Threads : u # t => held'[u] = held[u] /\ cur'[u] = cur[u]
  BY <1>1, EnqueueTypes DEF RingInv, CounterInv, TypeOK
<1>4. \A u \in Threads : u # t => AbstractCall(u)' = AbstractCall(u)
  BY <1>1, <1>3, OthersKept, EnqueueTypes
<1>5. /\ AbstractCall(t) = [op |-> "idle", item |-> NoItem]
      /\ AbstractCall(t)' = [op |-> "enqueue", item |-> x]
  BY <1>1, EnqueueTypes DEF AbstractCall, EnqLabels
<1>6. AbstractCalls' = [AbstractCalls EXCEPT ![t] = [op |-> "enqueue", item |-> x]]
  BY <1>4, <1>5, CallsChange, EnqueueTypes
<1>7. AbstractCalls[t] = [op |-> "idle", item |-> NoItem]
  BY <1>5, EnqueueTypes DEF AbstractCalls
<1> QED BY <1>2, <1>6, <1>7 DEF AbstractCalls, Fifo!FifoCallEnqueue, Fifo!Idle

\* A call that returns without having claimed an index was refused.
LEMMA Refused ==
    ASSUME RingInv, NEW t \in Threads, Return(t), UNCHANGED <<atomics, buffer>>,
           pc[t] \in {"loadWrite", "recheckWrite", "loadRead", "recheckRead"}
    PROVE  Fifo!FifoRefuse(t)
<1>1. /\ UNCHANGED <<readIndex, published, buffer>> /\ pc' = [pc EXCEPT ![t] = "idle"]
      /\ \A u \in Threads : u # t => held'[u] = held[u] /\ cur'[u] = cur[u]
      /\ pc'[t] = "idle"
  BY DEF Return, Goto, SetHeld, SetCur, atomics, RingInv, CounterInv, TypeOK
<1>2. AbstractQueue' = AbstractQueue
  BY <1>1, QueueKept
<1>3. \A u \in Threads : u # t => AbstractCall(u)' = AbstractCall(u)
  BY <1>1, OthersKept
<1>4. AbstractCall(t).op \in {"enqueue", "dequeue"}
  BY DEF AbstractCall, EnqLabels
<1>5. AbstractCall(t)' = [op |-> "idle", item |-> NoItem]
  BY <1>1 DEF AbstractCall
<1>6. AbstractCalls' = [AbstractCalls EXCEPT ![t] = [op |-> "idle", item |-> NoItem]]
  BY <1>3, <1>5, CallsChange
<1>7. AbstractCalls[t].op \in {"enqueue", "dequeue"}
  BY <1>4 DEF AbstractCalls
<1> QED BY <1>2, <1>6, <1>7 DEF AbstractCalls, Fifo!FifoRefuse, Fifo!Idle

\* Writing a claimed slot changes nothing: the slot is not published, and nobody takes
\* from it.
LEMMA WriteStutters ==
    ASSUME RingInv, NEW t \in Producers, EnqWrite(t)
    PROVE  UNCHANGED <<AbstractQueue, AbstractCalls>>
<1>1. /\ UNCHANGED <<readIndex, published, held, cur>> /\ pc[t] = "write"
      /\ pc' = [pc EXCEPT ![t] = "awaitPublish"]
      /\ buffer' = [buffer EXCEPT ![Slot(cur[t])] = held[t]]
      /\ cur[t] \in Nat /\ published <= cur[t] /\ cur[t] < writeIndex
  BY EnqueueTypes DEF EnqWrite, Goto, atomics, locals, RingInv, CounterInv, TypeOK, LocalsCurrent, EnqOwns, Index
<1>2. \A i \in Nat : i # cur[t] /\ consumed <= i /\ i < consumed + Size
                      => buffer'[Slot(i)] = buffer[Slot(i)]
  BY <1>1, Counters, SlotsDiffer, SlotInRange
<1>3. AbstractQueue' = AbstractQueue
  BY <1>1, <1>2, Counters, QueueKept
<1>4. ASSUME NEW u \in Threads, u # t PROVE AbstractCall(u)' = AbstractCall(u)
  <2>1. pc'[u] = pc[u] /\ held'[u] = held[u] /\ cur'[u] = cur[u]
    BY <1>1, <1>4 DEF RingInv, CounterInv, TypeOK
  <2>2. pc[u] = "take" => cur[u] \in Nat /\ consumed <= cur[u] /\ cur[u] < readIndex
    BY DEF RingInv, CounterInv, TypeOK, LocalsCurrent, DeqOwns, Index
  <2>3. pc[u] = "take" => buffer'[Slot(cur'[u])] = buffer[Slot(cur[u])]
    BY <1>1, <1>2, <2>1, <2>2, Counters
  <2> QED BY <2>1, <2>3, CallKept
<1>5. AbstractCall(t)' = AbstractCall(t)
  BY <1>1, EnqueueTypes DEF AbstractCall, EnqLabels
<1> QED BY <1>3, <1>4, <1>5 DEF AbstractCalls

\* Publishing appends the item: its slot is the next one, and there is room because no
\* more than Size indices are claimed and not consumed.
LEMMA PublishEnqueues ==
    ASSUME RingInv, NEW t \in Producers, EnqPublish(t)
    PROVE  Fifo!FifoEnqueue(t)
<1>1. /\ UNCHANGED <<readIndex, writeIndex, consumed, buffer>> /\ pc[t] = "publish"
      /\ pc' = [pc EXCEPT ![t] = "idle"] /\ pc'[t] = "idle"
      /\ published' = published + 1 /\ cur[t] = published /\ published < writeIndex
      /\ buffer[Slot(published)] = held[t]
      /\ held[t] \in Values
      /\ \A u \in Threads : u # t => held'[u] = held[u] /\ cur'[u] = cur[u]
  BY EnqueueTypes
     DEF EnqPublish, Return, Goto, SetHeld, SetCur, RingInv, CounterInv, TypeOK, LocalsCurrent,
         SlotsHold, EnqOwns, Values
<1> DEFINE n == published - readIndex
<1>2. n \in Nat /\ n < Size /\ published' - readIndex' = n + 1
  BY <1>1, Counters
<1>3. \A i \in 1 .. n + 1 : readIndex + i - 1 \in Nat /\ buffer[Slot(readIndex + i - 1)] \in Values
  BY <1>2, Counters, SlotInRange
<1>4. AbstractQueue' = [i \in 1 .. n + 1 |-> buffer[Slot(readIndex + i - 1)]]
  BY <1>1, <1>2 DEF AbstractQueue
<1>5. AbstractQueue' \in Seq(Values) /\ Len(AbstractQueue') = n + 1
  BY <1>2, <1>3, <1>4, FunctionIsSeq
<1>6. /\ AbstractQueue \in Seq(Values) /\ Len(AbstractQueue) = n
      /\ \A i \in 1 .. n : AbstractQueue[i] = buffer[Slot(readIndex + i - 1)]
  BY QueueType
<1>7. AbstractQueue' = Append(AbstractQueue, held[t])
  <2> DEFINE q == Append(AbstractQueue, held[t])
  <2>1. /\ q \in Seq(Values) /\ Len(q) = n + 1
        /\ \A i \in 1 .. n : q[i] = AbstractQueue[i]
        /\ q[n + 1] = held[t]
    BY <1>1, <1>6, AppendProperties
  <2>2. readIndex + (n + 1) - 1 = published
    BY Counters
  <2>3. \A i \in 1 .. n + 1 : (AbstractQueue')[i] = q[i]
    BY <1>1, <1>2, <1>4, <1>6, <2>1, <2>2
  <2>4. /\ Len(AbstractQueue') = Len(q)
        /\ \A i \in 1 .. Len(AbstractQueue') : (AbstractQueue')[i] = q[i]
    BY <1>5, <2>1, <2>3
  <2> HIDE DEF q
  <2>5. AbstractQueue' = q
    BY <1>5, <2>1, <2>4, SeqEqual
  <2> QED BY <2>5 DEF q
<1>8. \A u \in Threads : u # t => AbstractCall(u)' = AbstractCall(u)
  BY <1>1, OthersKept, EnqueueTypes
<1>9. /\ AbstractCall(t) = [op |-> "enqueue", item |-> held[t]]
      /\ AbstractCall(t)' = [op |-> "idle", item |-> NoItem]
  BY <1>1 DEF AbstractCall, EnqLabels
<1>10. AbstractCalls' = [AbstractCalls EXCEPT ![t] = [op |-> "idle", item |-> NoItem]]
  BY <1>8, <1>9, CallsChange, EnqueueTypes
<1>11. AbstractCalls[t] = [op |-> "enqueue", item |-> held[t]]
  BY <1>9, EnqueueTypes DEF AbstractCalls
<1>12. AbstractCalls[t].op = "enqueue" /\ AbstractCalls[t].item = held[t]
  BY <1>11
<1>13. Len(AbstractQueue) < Size
  BY <1>2, <1>6
<1> QED BY <1>7, <1>10, <1>12, <1>13 DEF AbstractCalls, Fifo!FifoEnqueue, Fifo!Idle

\* Every step of an enqueue is a step of the queue, or none.
LEMMA EnqueueImplements ==
    ASSUME RingInv, NEW t \in Producers
    PROVE  /\ EnqLoadWrite(t) => Fifo!FifoRefuse(t) \/ UNCHANGED <<AbstractQueue, AbstractCalls>>
           /\ EnqClaim(t) => UNCHANGED <<AbstractQueue, AbstractCalls>>
           /\ EnqClaimFails(t) => UNCHANGED <<AbstractQueue, AbstractCalls>>
           /\ EnqRecheck(t) => Fifo!FifoRefuse(t) \/ UNCHANGED <<AbstractQueue, AbstractCalls>>
           /\ EnqAwait(t) => UNCHANGED <<AbstractQueue, AbstractCalls>>
<1>0. t \in Threads /\ \A u \in Threads : u # t => [cur EXCEPT ![t] = writeIndex][u] = cur[u]
  BY EnqueueTypes DEF RingInv, CounterInv, TypeOK
<1>1. ASSUME EnqLoadWrite(t), ~Return(t) PROVE UNCHANGED <<AbstractQueue, AbstractCalls>>
  <2>1. /\ pc[t] = "loadWrite" /\ pc' = [pc EXCEPT ![t] = "casWrite"]
        /\ cur' = [cur EXCEPT ![t] = writeIndex] /\ UNCHANGED <<atomics, buffer, held>>
    BY <1>1 DEF EnqLoadWrite, EnqTest, Goto, SetCur
  <2> QED BY <1>0, <2>1, EnqueueStutters DEF EnqLabels
<1>2. ASSUME EnqClaim(t) PROVE UNCHANGED <<AbstractQueue, AbstractCalls>>
  BY <1>2, EnqueueStutters DEF EnqClaim, Goto, EnqLabels
<1>3. ASSUME EnqClaimFails(t) PROVE UNCHANGED <<AbstractQueue, AbstractCalls>>
  BY <1>0, <1>3, EnqueueStutters DEF EnqClaimFails, Goto, SetCur, EnqLabels
<1>4. ASSUME EnqRecheck(t), ~Return(t) PROVE UNCHANGED <<AbstractQueue, AbstractCalls>>
  <2>1. /\ pc[t] = "recheckWrite" /\ pc' = [pc EXCEPT ![t] = "casWrite"]
        /\ cur' = [cur EXCEPT ![t] = cur[t]] /\ UNCHANGED <<atomics, buffer, held>>
    BY <1>4 DEF EnqRecheck, EnqTest, Goto, SetCur
  <2>2. \A u \in Threads : u # t => cur'[u] = cur[u]
    BY <2>1 DEF RingInv, CounterInv, TypeOK
  <2> QED BY <2>1, <2>2, EnqueueStutters DEF EnqLabels
<1>5. ASSUME EnqAwait(t) PROVE UNCHANGED <<AbstractQueue, AbstractCalls>>
  BY <1>5, EnqueueStutters DEF EnqAwait, Goto, EnqLabels, locals
<1>6. ASSUME EnqLoadWrite(t) \/ EnqRecheck(t), Return(t) PROVE Fifo!FifoRefuse(t)
  BY <1>0, <1>6, Refused DEF EnqLoadWrite, EnqRecheck
<1> QED BY <1>1, <1>2, <1>3, <1>4, <1>5, <1>6

-----------------------------------------------------------------------------
(* Steps of a dequeue *)

\* What the invariant says of a consumer.
LEMMA DequeueTypes ==
    ASSUME RingInv, NEW t \in Consumers
    PROVE  /\ t \in Threads /\ t \in DOMAIN pc /\ t \in DOMAIN held /\ t \in DOMAIN cur
           /\ pc[t] \in DeqLabels
BY DEF RingInv, CounterInv, TypeOK, Threads

\* A step that neither takes effect nor returns stutters.
LEMMA DequeueStutters ==
    ASSUME RingInv, NEW t \in Consumers, UNCHANGED <<atomics, buffer, held>>,
           NEW p, pc' = [pc EXCEPT ![t] = p],
           \/ {pc[t], p} \subseteq {"loadRead", "casRead", "recheckRead"}
           \/ {pc[t], p} \subseteq {"awaitConsume", "consume"},
           \A u \in Threads : u # t => cur'[u] = cur[u]
    PROVE  UNCHANGED <<AbstractQueue, AbstractCalls>>
<1>1. UNCHANGED <<readIndex, published, buffer, held>>
  BY DEF atomics
<1>2. AbstractQueue' = AbstractQueue
  BY <1>1, QueueKept
<1>3. \A u \in Threads : u # t => AbstractCall(u)' = AbstractCall(u)
  BY <1>1, OthersKept, DequeueTypes
<1>4. AbstractCall(t)' = AbstractCall(t)
  BY <1>1, DequeueTypes DEF AbstractCall, EnqLabels
<1> QED BY <1>2, <1>3, <1>4 DEF AbstractCalls

\* The first load of a dequeue is the call.
LEMMA DequeueStarts ==
    ASSUME RingInv, NEW t \in Consumers, DeqLoadPublished(t)
    PROVE  Fifo!FifoCallDequeue(t)
<1>1. /\ UNCHANGED <<readIndex, published, buffer, cur, held>> /\ pc[t] = "idle"
      /\ pc' = [pc EXCEPT ![t] = "loadRead"] /\ pc'[t] = "loadRead"
  BY DequeueTypes DEF DeqLoadPublished, Goto, atomics
<1>2. AbstractQueue' = AbstractQueue
  BY <1>1, QueueKept
<1>3. \A u \in Threads : u # t => AbstractCall(u)' = AbstractCall(u)
  BY <1>1, OthersKept, DequeueTypes
<1>4. /\ AbstractCall(t) = [op |-> "idle", item |-> NoItem]
      /\ AbstractCall(t)' = [op |-> "dequeue", item |-> NoItem]
  BY <1>1 DEF AbstractCall, EnqLabels
<1>5. AbstractCalls' = [AbstractCalls EXCEPT ![t] = [op |-> "dequeue", item |-> NoItem]]
  BY <1>3, <1>4, CallsChange, DequeueTypes
<1>6. AbstractCalls[t] = [op |-> "idle", item |-> NoItem]
  BY <1>4, DequeueTypes DEF AbstractCalls
<1> QED BY <1>2, <1>5, <1>6 DEF AbstractCalls, Fifo!FifoCallDequeue, Fifo!Idle

\* Claiming an index takes the oldest item: readIndex has not moved since the test found
\* something published there.
LEMMA ClaimDequeues ==
    ASSUME RingInv, NEW t \in Consumers, DeqClaim(t)
    PROVE  Fifo!FifoDequeue(t)
<1>1. /\ UNCHANGED <<writeIndex, consumed, published, buffer, cur, held>> /\ pc[t] = "casRead"
      /\ pc' = [pc EXCEPT ![t] = "take"] /\ pc'[t] = "take"
      /\ readIndex' = readIndex + 1 /\ cur[t] = readIndex
  BY DequeueTypes DEF DeqClaim, Goto
<1>2. readIndex < published
  BY <1>1, DequeueTypes, Counters
     DEF RingInv, CounterInv, LocalsCurrent, LooksEmpty, TypeOK, Index
<1> DEFINE n == published - readIndex
<1>3. n \in Nat /\ n > 0 /\ published' - readIndex' = n - 1 /\ n - 1 \in Nat
  BY <1>1, <1>2, Counters
<1>4. /\ AbstractQueue \in Seq(Values) /\ Len(AbstractQueue) = n
      /\ \A i \in 1 .. n : AbstractQueue[i] = buffer[Slot(readIndex + i - 1)]
  BY QueueType
<1>5. AbstractQueue # <<>>
  BY <1>3, <1>4
<1>6. \A i \in 1 .. n - 1 : readIndex + 1 + i - 1 \in Nat /\ buffer[Slot(readIndex + 1 + i - 1)] \in Values
  BY <1>3, Counters, SlotInRange
<1>7. AbstractQueue' = [i \in 1 .. n - 1 |-> buffer[Slot(readIndex + 1 + i - 1)]]
  BY <1>1, <1>3 DEF AbstractQueue
<1>8. AbstractQueue' \in Seq(Values) /\ Len(AbstractQueue') = n - 1
  <2>1. AbstractQueue' \in [1 .. n - 1 -> Values]
    BY <1>6, <1>7
  <2> HIDE DEF n
  <2> QED BY <1>3, <2>1, FunctionIsSeq
<1>9. AbstractQueue' = Tail(AbstractQueue)
  <2> DEFINE q == Tail(AbstractQueue)
  <2>1. /\ q \in Seq(Values) /\ Len(q) = n - 1
        /\ \A i \in 1 .. n - 1 : q[i] = AbstractQueue[i + 1]
    BY <1>4, <1>5, HeadTailProperties
  <2>2. ASSUME NEW i \in 1 .. n - 1 PROVE (AbstractQueue')[i] = q[i]
    <3>1. i + 1 \in 1 .. n /\ readIndex + 1 + i - 1 = readIndex + (i + 1) - 1
      BY <1>3, Counters
    <3>2. q[i] = buffer[Slot(readIndex + (i + 1) - 1)]
      BY <1>4, <2>1, <3>1
    <3> QED BY <1>7, <3>1, <3>2
  <2>3. /\ Len(AbstractQueue') = Len(q)
        /\ \A i \in 1 .. Len(AbstractQueue') : (AbstractQueue')[i] = q[i]
    BY <1>8, <2>1, <2>2
  <2> HIDE DEF q
  <2>4. AbstractQueue' = q
    BY <1>8, <2>1, <2>3, SeqEqual
  <2> QED BY <2>4 DEF q
<1>10. Head(AbstractQueue) = buffer[Slot(readIndex)]
  <2>1. Head(AbstractQueue) = AbstractQueue[1]
    OBVIOUS
  <2>2. 1 \in 1 .. n /\ readIndex + 1 - 1 = readIndex
    BY <1>3, Counters
  <2> QED BY <1>4, <2>1, <2>2
<1>11. \A u \in Threads : u # t => AbstractCall(u)' = AbstractCall(u)
  BY <1>1, OthersKept, DequeueTypes
<1>12. /\ AbstractCall(t) = [op |-> "dequeue", item |-> NoItem]
       /\ AbstractCall(t)' = [op |-> "return", item |-> Head(AbstractQueue)]
  BY <1>1, <1>10 DEF AbstractCall, EnqLabels
<1>13. AbstractCalls' = [AbstractCalls EXCEPT ![t] = [op |-> "return", item |-> Head(AbstractQueue)]]
  BY <1>11, <1>12, CallsChange, DequeueTypes
<1>14. AbstractCalls[t].op = "dequeue"
  BY <1>12, DequeueTypes DEF AbstractCalls
<1> QED BY <1>5, <1>9, <1>13, <1>14 DEF AbstractCalls, Fifo!FifoDequeue

\* Moving the item out of a claimed slot changes nothing: the slot is before readIndex,
\* and nobody else takes from it.
LEMMA TakeStutters ==
    ASSUME RingInv, NEW t \in Consumers, DeqTake(t)
    PROVE  UNCHANGED <<AbstractQueue, AbstractCalls>>
<1>1. /\ UNCHANGED <<readIndex, published, cur>> /\ pc[t] = "take"
      /\ pc' = [pc EXCEPT ![t] = "awaitConsume"] /\ pc'[t] = "awaitConsume"
      /\ held' = [held EXCEPT ![t] = buffer[Slot(cur[t])]] /\ held'[t] = buffer[Slot(cur[t])]
      /\ buffer' = [buffer EXCEPT ![Slot(cur[t])] = NoItem]
      /\ cur[t] \in Nat /\ consumed <= cur[t] /\ cur[t] < readIndex
  BY DequeueTypes
     DEF DeqTake, Goto, SetHeld, atomics, RingInv, CounterInv, TypeOK, LocalsCurrent, DeqOwns, Index
<1>2. \A i \in Nat : i # cur[t] /\ consumed <= i /\ i < consumed + Size
                      => buffer'[Slot(i)] = buffer[Slot(i)]
  BY <1>1, Counters, SlotsDiffer, SlotInRange
<1>3. AbstractQueue' = AbstractQueue
  BY <1>1, <1>2, Counters, QueueKept
<1>4. ASSUME NEW u \in Threads, u # t PROVE AbstractCall(u)' = AbstractCall(u)
  <2>1. pc'[u] = pc[u] /\ held'[u] = held[u] /\ cur'[u] = cur[u]
    BY <1>1, <1>4 DEF RingInv, CounterInv, TypeOK
  <2>2. pc[u] = "take" => /\ cur[u] \in Nat /\ consumed <= cur[u] /\ cur[u] < readIndex
                          /\ cur[u] # cur[t]
    BY <1>1, <1>4, DequeueTypes
       DEF RingInv, CounterInv, TypeOK, LocalsCurrent, OwnersDistinct, DeqOwns, Index
  <2>3. pc[u] = "take" => buffer'[Slot(cur'[u])] = buffer[Slot(cur[u])]
    BY <1>1, <1>2, <2>1, <2>2, Counters
  <2> QED BY <2>1, <2>3, CallKept
<1>5. AbstractCall(t)' = AbstractCall(t)
  BY <1>1 DEF AbstractCall, EnqLabels
<1> QED BY <1>3, <1>4, <1>5 DEF AbstractCalls

\* Marking the index consumed returns the item.
LEMMA ConsumeReturns ==
    ASSUME RingInv, NEW t \in Consumers, DeqConsume(t)
    PROVE  Fifo!FifoReturnItem(t)
<1>1. /\ UNCHANGED <<readIndex, published, buffer>> /\ pc[t] = "consume"
      /\ pc' = [pc EXCEPT ![t] = "idle"] /\ pc'[t] = "idle"
      /\ \A u \in Threads : u # t => held'[u] = held[u] /\ cur'[u] = cur[u]
  BY DequeueTypes DEF DeqConsume, Return, Goto, SetHeld, SetCur, RingInv, CounterInv, TypeOK
<1>2. AbstractQueue' = AbstractQueue
  BY <1>1, QueueKept
<1>3. \A u \in Threads : u # t => AbstractCall(u)' = AbstractCall(u)
  BY <1>1, OthersKept, DequeueTypes
<1>4. /\ AbstractCall(t).op = "return"
      /\ AbstractCall(t)' = [op |-> "idle", item |-> NoItem]
  BY <1>1 DEF AbstractCall, EnqLabels
<1>5. AbstractCalls' = [AbstractCalls EXCEPT ![t] = [op |-> "idle", item |-> NoItem]]
  BY <1>3, <1>4, CallsChange, DequeueTypes
<1>6. AbstractCalls[t].op = "return"
  BY <1>4, DequeueTypes DEF AbstractCalls
<1> QED BY <1>2, <1>5, <1>6 DEF AbstractCalls, Fifo!FifoReturnItem, Fifo!Idle

\* Every other step of a dequeue is a refusal, or no step of the queue.
LEMMA DequeueImplements ==
    ASSUME RingInv, NEW t \in Consumers
    PROVE  /\ DeqLoadRead(t) => Fifo!FifoRefuse(t) \/ UNCHANGED <<AbstractQueue, AbstractCalls>>
           /\ DeqClaimFails(t) => UNCHANGED <<AbstractQueue, AbstractCalls>>
           /\ DeqRecheck(t) => Fifo!FifoRefuse(t) \/ UNCHANGED <<AbstractQueue, AbstractCalls>>
           /\ DeqAwait(t) => UNCHANGED <<AbstractQueue, AbstractCalls>>
<1>0. t \in Threads /\ \A u \in Threads, i \in Nat : u # t => [cur EXCEPT ![t] = i][u] = cur[u]
  BY DequeueTypes DEF RingInv, CounterInv, TypeOK
<1>1. ASSUME DeqLoadRead(t), ~Return(t) PROVE UNCHANGED <<AbstractQueue, AbstractCalls>>
  <2>1. /\ pc[t] = "loadRead" /\ pc' = [pc EXCEPT ![t] = "casRead"]
        /\ cur' = [cur EXCEPT ![t] = readIndex] /\ UNCHANGED <<atomics, buffer, held>>
    BY <1>1 DEF DeqLoadRead, DeqTest, Goto, SetCur
  <2> QED BY <1>0, <2>1, Counters, DequeueStutters
<1>2. ASSUME DeqClaimFails(t) PROVE UNCHANGED <<AbstractQueue, AbstractCalls>>
  BY <1>0, <1>2, Counters, DequeueStutters DEF DeqClaimFails, Goto, SetCur
<1>3. ASSUME DeqRecheck(t), ~Return(t) PROVE UNCHANGED <<AbstractQueue, AbstractCalls>>
  <2>1. /\ pc[t] = "recheckRead" /\ pc' = [pc EXCEPT ![t] = "casRead"]
        /\ cur' = [cur EXCEPT ![t] = cur[t]] /\ UNCHANGED <<atomics, buffer, held>>
    BY <1>3 DEF DeqRecheck, DeqTest, Goto, SetCur
  <2>2. \A u \in Threads : u # t => cur'[u] = cur[u]
    BY <2>1 DEF RingInv, CounterInv, TypeOK
  <2> QED BY <2>1, <2>2, DequeueStutters
<1>4. ASSUME DeqAwait(t) PROVE UNCHANGED <<AbstractQueue, AbstractCalls>>
  BY <1>4, DequeueStutters DEF DeqAwait, Goto, locals
<1>5. ASSUME DeqLoadRead(t) \/ DeqRecheck(t), Return(t) PROVE Fifo!FifoRefuse(t)
  BY <1>0, <1>5, Refused DEF DeqLoadRead, DeqRecheck
<1> QED BY <1>1, <1>2, <1>3, <1>4, <1>5

-----------------------------------------------------------------------------
(* The refinement *)

\* The empty ring, with no call in progress, is the empty queue.
LEMMA InitImplements == Init => Fifo!FifoInit
<1> SUFFICES ASSUME Init PROVE Fifo!FifoInit
  OBVIOUS
<1>1. RingInv
  BY InitRingInv
<1>2. Len(AbstractQueue) = 0 /\ AbstractQueue \in Seq(Values)
  BY <1>1, QueueType DEF Init
<1>3. AbstractQueue = <<>>
  BY <1>2, EmptySeq
<1>4. \A t \in Threads : AbstractCall(t) = [op |-> "idle", item |-> NoItem]
  BY DEF Init, AbstractCall
<1> QED BY <1>3, <1>4 DEF Fifo!FifoInit, Fifo!Idle, Fifo!Threads, Threads

\* Every step of the ring is a step of the queue, or none.
LEMMA NextImplements == RingInv /\ [Next]_vars => [Fifo!FifoNext]_(Fifo!fifoVars)
<1> SUFFICES ASSUME RingInv, [Next]_vars
             PROVE  Fifo!FifoNext \/ UNCHANGED <<AbstractQueue, AbstractCalls>>
  BY DEF AbstractCalls, Fifo!fifoVars
<1>1. ASSUME NEW t \in Producers, NEW x \in Items, EnqLoadConsumed(t, x) PROVE Fifo!FifoNext
  BY <1>1, EnqueueStarts DEF Fifo!FifoNext
<1>2. ASSUME NEW t \in Producers, EnqOwner(t)
      PROVE  Fifo!FifoNext \/ UNCHANGED <<AbstractQueue, AbstractCalls>>
  BY <1>2, EnqueueImplements, WriteStutters, PublishEnqueues DEF EnqOwner, Fifo!FifoNext
<1>3. ASSUME NEW t \in Producers,
             EnqLoadWrite(t) \/ EnqClaim(t) \/ EnqClaimFails(t) \/ EnqRecheck(t)
      PROVE  Fifo!FifoNext \/ UNCHANGED <<AbstractQueue, AbstractCalls>>
  BY <1>3, EnqueueImplements DEF Fifo!FifoNext
<1>4. ASSUME NEW t \in Consumers, DeqLoadPublished(t) \/ DeqClaim(t) PROVE Fifo!FifoNext
  BY <1>4, DequeueStarts, ClaimDequeues DEF Fifo!FifoNext
<1>5. ASSUME NEW t \in Consumers, DeqOwner(t)
      PROVE  Fifo!FifoNext \/ UNCHANGED <<AbstractQueue, AbstractCalls>>
  BY <1>5, DequeueImplements, TakeStutters, ConsumeReturns DEF DeqOwner, Fifo!FifoNext
<1>6. ASSUME NEW t \in Consumers, DeqLoadRead(t) \/ DeqClaimFails(t) \/ DeqRecheck(t)
      PROVE  Fifo!FifoNext \/ UNCHANGED <<AbstractQueue, AbstractCalls>>
  BY <1>6, DequeueImplements DEF Fifo!FifoNext
<1>7. ASSUME UNCHANGED vars PROVE UNCHANGED <<AbstractQueue, AbstractCalls>>
  BY <1>7 DEF vars, atomics, locals, AbstractQueue, AbstractCalls, AbstractCall
<1> QED BY <1>1, <1>2, <1>3, <1>4, <1>5, <1>6, <1>7 DEF Next

\* With any number of threads and any size, the lock-free buffer behaves as a bounded
\* FIFO queue whose calls take effect in one instant each: items come out in the order in
\* which they were published, once each, and an item is added only when there is room.
THEOREM ImplementsFifo == Spec => IsFifoQueue
BY InitImplements, NextImplements, RingInvHolds, PTL DEF Spec, IsFifoQueue, Fifo!FifoSpec
=============================================================================
