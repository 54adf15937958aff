----------------------------- MODULE FifoQueue -----------------------------
(***************************************************************************)
(* What AsyncRT's LockFreeRingBuffer promises its callers: a bounded FIFO  *)
(* queue on which each call takes effect in one instant between the call   *)
(* and its return.  A call may also be refused (enqueue returns false,     *)
(* dequeue a value-initialised item); when a refusal is legitimate is the  *)
(* subject of LockFreeRingBufferHist.                                      *)
(***************************************************************************)
EXTENDS Naturals, Sequences

CONSTANTS Producers, Consumers, Items, Size, NoItem

VARIABLES
    queue,    \* the items enqueued and not yet dequeued, oldest first
    call      \* the state of each thread's current call

fifoVars == <<queue, call>>

Threads == Producers \cup Consumers

Idle == [op |-> "idle", item |-> NoItem]

FifoInit ==
    /\ queue = <<>>
    /\ call = [t \in Threads |-> Idle]

FifoCallEnqueue(t, x) ==
    /\ call[t] = Idle
    /\ call' = [call EXCEPT ![t] = [op |-> "enqueue", item |-> x]]
    /\ UNCHANGED queue

FifoEnqueue(t) ==
    /\ call[t].op = "enqueue"
    /\ Len(queue) < Size
    /\ queue' = Append(queue, call[t].item)
    /\ call' = [call EXCEPT ![t] = Idle]

FifoCallDequeue(t) ==
    /\ call[t] = Idle
    /\ call' = [call EXCEPT ![t] = [op |-> "dequeue", item |-> NoItem]]
    /\ UNCHANGED queue

\* The instant at which the dequeue takes the oldest item.
FifoDequeue(t) ==
    /\ call[t].op = "dequeue"
    /\ queue # <<>>
    /\ queue' = Tail(queue)
    /\ call' = [call EXCEPT ![t] = [op |-> "return", item |-> Head(queue)]]

FifoReturnItem(t) ==
    /\ call[t].op = "return"
    /\ call' = [call EXCEPT ![t] = Idle]
    /\ UNCHANGED queue

FifoRefuse(t) ==
    /\ call[t].op \in {"enqueue", "dequeue"}
    /\ call' = [call EXCEPT ![t] = Idle]
    /\ UNCHANGED queue

FifoNext ==
    \/ \E t \in Producers :
         \/ \E x \in Items : FifoCallEnqueue(t, x)
         \/ FifoEnqueue(t)
         \/ FifoRefuse(t)
    \/ \E t \in Consumers :
         \/ FifoCallDequeue(t)
         \/ FifoDequeue(t)
         \/ FifoReturnItem(t)
         \/ FifoRefuse(t)

FifoSpec == FifoInit /\ [][FifoNext]_fifoVars
=============================================================================
