------------------------ MODULE ThreadPoolWorkQueue ------------------------
(***************************************************************************)
(* AsyncRT/lib/Runtime/ThreadPoolWorkQueue.cpp: worker threads, an         *)
(* optional donating main thread and foreign threads share a pool of work  *)
(* queues.  A worker runs items until it finds none, marks itself          *)
(* suspended, looks once more and sleeps on its semaphore; addTask makes   *)
(* an item available and then wakes a suspended worker.                    *)
(*                                                                         *)
(* What client code does is given by Script: the calls each task, and each *)
(* thread outside the pool, makes in order.  A task's value becomes ready  *)
(* when the task ends, and the waiters of the value become local items of  *)
(* the thread that ran it.  Every access to shared memory is a step.  How  *)
(* the pool was constructed, and what uses it, never changes.              *)
(***************************************************************************)
EXTENDS Integers, Sequences, SequencesExt, FiniteSets, FiniteSetsExt

CONSTANTS
    NumWorkers,  \* workers, the main thread included if it donates
    Foreign,     \* threads that only call addTask and await
    Tasks,
    Setups       \* the pools considered, and the client code of each

VARIABLE setup   \* the pool at hand

MainWillDonate == setup.donate      \* worker 0 is the thread that created the queue
Script == setup.script              \* Script[x]: the calls task x, or thread x, makes
RingSize == setup.ringSize          \* capacity of an affinity ring
GroupSize == setup.groupSize        \* workers per suspended bit, 2^multicastFactor
QueuesMayRefuse == setup.mayRefuse  \* taskList out of memory, ring refusing though not full

WorkerIDs == 0 .. NumWorkers - 1
Threads == WorkerIDs \cup Foreign
Group(w) == w \div GroupSize

\* The calls a script is made of
AddTask(x, id) == [op |-> "addTask", task |-> x, id |-> id, on |-> <<>>]
AddLocalTask(x) == [op |-> "addLocalTask", task |-> x, id |-> -1, on |-> <<>>]
Await(s) == [op |-> "await", task |-> "none", id |-> -1, on |-> s]
Shutdown == [op |-> "shutdown", task |-> "none", id |-> -1, on |-> <<>>]

\* The threads that run a script of their own rather than the worker loop
Clients == Foreign \cup (IF MainWillDonate THEN {0} ELSE {})

ASSUME PoolAssumption ==
    /\ NumWorkers \in Nat \ {0}
    /\ \A s \in Setups :
         /\ s.ringSize \in Nat \ {0} /\ s.groupSize \in Nat \ {0}
         /\ s.donate \in BOOLEAN /\ s.mayRefuse \in BOOLEAN
         /\ \A x \in DOMAIN s.script : \A i \in DOMAIN s.script[x] :
              s.script[x][i].id \in WorkerIDs \cup {-1}

VARIABLES
    stack,             \* each thread's frames, innermost first
    localTaskList,     \* per worker: items not yet run, in order
    affinityTaskList,  \* per worker: the ring, as the FIFO it implements
    localSpillQueue,   \* per worker
    taskList,          \* the concurrent queue: any item may come out next
    overflowTaskList,
    suspendedThreads,  \* the groups whose bit is set
    sema,              \* tokens of each worker's semaphore, and of the
                       \* semaphore a foreign thread awaits on
    doneFlag,
    ready,             \* the tasks whose value is ready
    waiters,           \* per task: the awaits its value will notify, in order
    numRemaining       \* per thread: the counts of its nested awaits

queues == <<localTaskList, affinityTaskList, localSpillQueue, taskList, overflowTaskList>>
awaits == <<ready, waiters, numRemaining>>
vars == <<setup, stack, queues, suspendedThreads, sema, doneFlag, awaits>>

\* Frames: the code of a task or client, the waiter of an await, or an
\* activation of runItemsImpl for a worker thread, an await or the drain at
\* shutdown.  An await is named by its thread and its nesting there.
CodeFrame(x) == [kind |-> "code", pc |-> "code", who |-> x, rest |-> Script[x], arg |-> {}]
WaiterFrame(a) == [kind |-> "waiter", pc |-> "notify", who |-> a, rest |-> <<>>, arg |-> {}]
LoopFrame(kind) == [kind |-> kind, pc |-> "top", who |-> "none", rest |-> <<>>, arg |-> {}]

Init ==
    /\ setup \in Setups
    /\ stack = [t \in Threads |->
         <<IF t \in Clients THEN CodeFrame(t) ELSE LoopFrame("worker")>>]
    /\ localTaskList = [w \in WorkerIDs |-> <<>>]
    /\ affinityTaskList = [w \in WorkerIDs |-> <<>>]
    /\ localSpillQueue = [w \in WorkerIDs |-> <<>>]
    /\ taskList = {} /\ overflowTaskList = {}
    /\ suspendedThreads = {}
    /\ sema = [t \in Threads |-> 0]
    /\ doneFlag = FALSE
    /\ ready = {}
    /\ waiters = [x \in Tasks |-> <<>>]
    /\ numRemaining = [t \in Threads |-> <<>>]

Running(t) == stack[t] # <<>>
Frame(t) == Head(stack[t])
At(t, l) == Running(t) /\ Frame(t).pc = l

SetFrame(t, f) == stack' = [stack EXCEPT ![t] = <<f>> \o Tail(@)]
Goto(t, l) == SetFrame(t, [Frame(t) EXCEPT !.pc = l])
Call(t, f, g) == stack' = [stack EXCEPT ![t] = <<g, f>> \o Tail(@)]
Return(t) == stack' = [stack EXCEPT ![t] = Tail(@)]

-----------------------------------------------------------------------------
(* runItemsImpl *)

\* Mutant: an await ends with one value to go.
EarlyStop_OffByOne(t) == Frame(t).kind = "await" /\ Last(numRemaining[t]) <= 1

EarlyStop(t) == Frame(t).kind = "await" /\ Last(numRemaining[t]) = 0

LateStop(t) == Frame(t).kind = "worker" /\ doneFlag

\* Leave the loop; an await also gives up its count.
LeaveLoop(t) ==
    /\ Return(t)
    /\ numRemaining' = IF Frame(t).kind = "await"
                       THEN [numRemaining EXCEPT ![t] = Front(@)] ELSE numRemaining
    /\ UNCHANGED <<queues, suspendedThreads, sema, doneFlag, ready, waiters>>

\* doWork: run an item on this thread, then go on at l.
DoWork(t, x, l) ==
    Call(t, [Frame(t) EXCEPT !.pc = l], IF x \in Tasks THEN CodeFrame(x) ELSE WaiterFrame(x))

RunTop(t) == At(t, "top") /\ EarlyStop(t) /\ LeaveLoop(t)

\* Run the local items, without another look at the stop condition, until there
\* are none.  Only this thread accesses the list.
RunLocal(t) ==
    /\ At(t, "local") \/ (At(t, "top") /\ ~EarlyStop(t))
    /\ \/ /\ localTaskList[t] # <<>>
          /\ DoWork(t, Head(localTaskList[t]), "local")
          /\ localTaskList' = [localTaskList EXCEPT ![t] = Tail(@)]
       \/ /\ localTaskList[t] = <<>>
          /\ Goto(t, "affinity")
          /\ UNCHANGED localTaskList
    /\ UNCHANGED <<affinityTaskList, localSpillQueue, taskList, overflowTaskList>>
    /\ UNCHANGED <<suspendedThreads, sema, doneFlag, awaits>>

\* A dequeue from the own ring at point l, going on at next if it is empty
RunAffinity(t, l, next) ==
    /\ At(t, l)
    /\ \/ /\ affinityTaskList[t] # <<>>
          /\ DoWork(t, Head(affinityTaskList[t]), "top")
          /\ affinityTaskList' = [affinityTaskList EXCEPT ![t] = Tail(@)]
       \/ /\ affinityTaskList[t] = <<>>
          /\ Goto(t, next)
          /\ UNCHANGED affinityTaskList
    /\ UNCHANGED <<localTaskList, localSpillQueue, taskList, overflowTaskList>>
    /\ UNCHANGED <<suspendedThreads, sema, doneFlag, awaits>>

\* A try_dequeue from the shared queue.  It can fail on a queue that is not
\* empty while another thread is in a try_dequeue, or has failed in one and not
\* yet taken its claim back: at the points before and after one.
GlobalMiss(t) ==
    \/ taskList = {}
    \/ \E u \in Threads \ {t} :
          \E l \in {"global", "spinGlobal", "lastGlobal", "spinAffinity", "spinStop", "lastSize"} :
            At(u, l)

TakeGlobal(t, l) ==
    /\ At(t, l)
    /\ \E x \in taskList : /\ DoWork(t, x, "top")
                           /\ taskList' = taskList \ {x}
    /\ UNCHANGED <<localTaskList, affinityTaskList, localSpillQueue, overflowTaskList>>
    /\ UNCHANGED <<suspendedThreads, sema, doneFlag, awaits>>

MissGlobal(t, l, next) ==
    /\ At(t, l)
    /\ GlobalMiss(t)
    /\ Goto(t, next)
    /\ UNCHANGED <<queues, suspendedThreads, sema, doneFlag, awaits>>

RunGlobal(t, l, next) == TakeGlobal(t, l) \/ MissGlobal(t, l, next)

\* Out of work: the drain at shutdown returns, the other loops spin.
RunDrained(t) == At(t, "global") /\ Frame(t).kind = "drain" /\ GlobalMiss(t) /\ LeaveLoop(t)
RunIdle(t) == Running(t) /\ Frame(t).kind # "drain" /\ MissGlobal(t, "global", "spinAffinity")

\* The stop conditions end the spinning; so does the busy-wait time, after at
\* least one look at them.
SpinStop(t) ==
    /\ At(t, "spinStop")
    /\ EarlyStop(t) \/ LateStop(t)
    /\ LeaveLoop(t)

SpinOn(t, l) ==
    /\ At(t, "spinStop")
    /\ ~EarlyStop(t) /\ ~LateStop(t)
    /\ Goto(t, l)
    /\ UNCHANGED <<queues, suspendedThreads, sema, doneFlag, awaits>>

MarkSuspended(t) ==
    /\ At(t, "mark")
    /\ suspendedThreads' = suspendedThreads \cup {Group(t)}
    /\ Goto(t, "spill")
    /\ UNCHANGED <<queues, sema, doneFlag, awaits>>

\* Mutant: the spill queue is pumped into the shared queue.
PumpSpill_ToTaskList(t) ==
    /\ At(t, "spill")
    /\ taskList' = taskList \cup Range(localSpillQueue[t])
    /\ localSpillQueue' = [localSpillQueue EXCEPT ![t] = <<>>]
    /\ Goto(t, IF localSpillQueue[t] # <<>> THEN "top" ELSE "overflow")
    /\ UNCHANGED <<localTaskList, affinityTaskList, overflowTaskList>>
    /\ UNCHANGED <<suspendedThreads, sema, doneFlag, awaits>>

\* Mutant: the pump leaves the items in the spill queue.
PumpSpill_Kept(t) ==
    /\ At(t, "spill")
    /\ localTaskList' = [localTaskList EXCEPT ![t] = @ \o Reverse(localSpillQueue[t])]
    /\ UNCHANGED localSpillQueue
    /\ Goto(t, IF localSpillQueue[t] # <<>> THEN "top" ELSE "overflow")
    /\ UNCHANGED <<affinityTaskList, taskList, overflowTaskList>>
    /\ UNCHANGED <<suspendedThreads, sema, doneFlag, awaits>>

PumpSpill(t) ==
    /\ At(t, "spill")
    /\ localTaskList' = [localTaskList EXCEPT ![t] = @ \o Reverse(localSpillQueue[t])]
    /\ localSpillQueue' = [localSpillQueue EXCEPT ![t] = <<>>]
    /\ Goto(t, IF localSpillQueue[t] # <<>> THEN "top" ELSE "overflow")
    /\ UNCHANGED <<affinityTaskList, taskList, overflowTaskList>>
    /\ UNCHANGED <<suspendedThreads, sema, doneFlag, awaits>>

\* The pump stops at the first item taskList refuses.
PumpOverflow(t) ==
    /\ At(t, "overflow")
    /\ \E moved \in SUBSET overflowTaskList :
         /\ moved = overflowTaskList \/ QueuesMayRefuse
         /\ taskList' = taskList \cup moved
         /\ overflowTaskList' = overflowTaskList \ moved
    /\ Goto(t, IF overflowTaskList # {} THEN "top" ELSE "lastAffinity")
    /\ UNCHANGED <<localTaskList, affinityTaskList, localSpillQueue>>
    /\ UNCHANGED <<suspendedThreads, sema, doneFlag, awaits>>

\* A worker sleeps only when a failed try_dequeue and a zero size agree, or a
\* stop condition holds.
RunLastSize(t) ==
    /\ At(t, "lastSize")
    /\ Goto(t, IF taskList = {} \/ EarlyStop(t) \/ LateStop(t) THEN "lastStop" ELSE "lastGlobal")
    /\ UNCHANGED <<queues, suspendedThreads, sema, doneFlag, awaits>>

RunLastStop(t) ==
    /\ At(t, "lastStop")
    /\ \/ EarlyStop(t) /\ LeaveLoop(t)
       \/ /\ ~EarlyStop(t)
          /\ Goto(t, "sleep")
          /\ UNCHANGED <<queues, suspendedThreads, sema, doneFlag, awaits>>

\* sema.wait() returns; the loop goes round again even if asked to stop.
WakeUp(t) ==
    /\ At(t, "sleep")
    /\ sema[t] > 0
    /\ sema' = [sema EXCEPT ![t] = @ - 1]
    /\ Goto(t, "top")
    /\ UNCHANGED <<queues, suspendedThreads, doneFlag, awaits>>

RunItems(t) ==
    \/ RunTop(t) \/ RunLocal(t)
    \/ RunAffinity(t, "affinity", "global") \/ TakeGlobal(t, "global")
    \/ RunDrained(t) \/ RunIdle(t)
    \/ RunAffinity(t, "spinAffinity", "spinGlobal") \/ RunGlobal(t, "spinGlobal", "spinStop")
    \/ SpinStop(t) \/ SpinOn(t, "spinAffinity") \/ SpinOn(t, "mark")
    \/ MarkSuspended(t) \/ PumpSpill(t) \/ PumpOverflow(t)
    \/ RunAffinity(t, "lastAffinity", "lastGlobal") \/ RunGlobal(t, "lastGlobal", "lastSize")
    \/ RunLastSize(t) \/ RunLastStop(t) \/ WakeUp(t)

-----------------------------------------------------------------------------
(* addTask, addLocalTask *)

\* The call the code of thread t is making
InCode(t, l) == At(t, l) /\ Frame(t).rest # <<>>
Op(t) == Head(Frame(t).rest)
NextCall(t) == [Frame(t) EXCEPT !.pc = "code", !.rest = Tail(@), !.arg = {}]

IsAdd(t) == Op(t).op = "addTask" \/ (Op(t).op = "addLocalTask" /\ t \in Foreign)

\* taskId >= 0: into the worker's ring, or refused by it
AddToRing(t) ==
    LET w == Op(t).id IN
    /\ InCode(t, "code") /\ IsAdd(t) /\ w >= 0
    /\ \/ /\ Len(affinityTaskList[w]) < RingSize
          /\ affinityTaskList' = [affinityTaskList EXCEPT ![w] = Append(@, Op(t).task)]
          /\ Goto(t, "wake")
       \/ /\ Len(affinityTaskList[w]) = RingSize \/ QueuesMayRefuse
          /\ Goto(t, "addSpill")
          /\ UNCHANGED affinityTaskList
    /\ UNCHANGED <<localTaskList, localSpillQueue, taskList, overflowTaskList>>
    /\ UNCHANGED <<suspendedThreads, sema, doneFlag, awaits>>

\* Mutant: no wake-up after the spill queue.
AddToSpill_NoWake(t) ==
    LET w == Op(t).id IN
    /\ At(t, "addSpill")
    /\ localSpillQueue' = [localSpillQueue EXCEPT ![w] = Append(@, Op(t).task)]
    /\ SetFrame(t, NextCall(t))
    /\ UNCHANGED <<localTaskList, affinityTaskList, taskList, overflowTaskList>>
    /\ UNCHANGED <<suspendedThreads, sema, doneFlag, awaits>>

AddToSpill(t) ==
    LET w == Op(t).id IN
    /\ At(t, "addSpill")
    /\ localSpillQueue' = [localSpillQueue EXCEPT ![w] = Append(@, Op(t).task)]
    /\ Goto(t, "wake")
    /\ UNCHANGED <<localTaskList, affinityTaskList, taskList, overflowTaskList>>
    /\ UNCHANGED <<suspendedThreads, sema, doneFlag, awaits>>

\* taskId < 0: into the shared queue, or refused by it
AddToTaskList(t) ==
    /\ InCode(t, "code") /\ IsAdd(t) /\ Op(t).id < 0
    /\ \/ /\ taskList' = taskList \cup {Op(t).task}
          /\ Goto(t, "wake")
       \/ /\ QueuesMayRefuse
          /\ Goto(t, "addOverflow")
          /\ UNCHANGED taskList
    /\ UNCHANGED <<localTaskList, affinityTaskList, localSpillQueue, overflowTaskList>>
    /\ UNCHANGED <<suspendedThreads, sema, doneFlag, awaits>>

\* Mutant: no wake-up after the overflow list.
AddToOverflow_NoWake(t) ==
    /\ At(t, "addOverflow")
    /\ overflowTaskList' = overflowTaskList \cup {Op(t).task}
    /\ SetFrame(t, NextCall(t))
    /\ UNCHANGED <<localTaskList, affinityTaskList, localSpillQueue, taskList>>
    /\ UNCHANGED <<suspendedThreads, sema, doneFlag, awaits>>

AddToOverflow(t) ==
    /\ At(t, "addOverflow")
    /\ overflowTaskList' = overflowTaskList \cup {Op(t).task}
    /\ Goto(t, "wake")
    /\ UNCHANGED <<localTaskList, affinityTaskList, localSpillQueue, taskList>>
    /\ UNCHANGED <<suspendedThreads, sema, doneFlag, awaits>>

\* Take the suspended bit of a group and go on to post its semaphores.
TakeSuspended(t, g, posts) ==
    /\ suspendedThreads' = suspendedThreads \ {g}
    /\ SetFrame(t, [Frame(t) EXCEPT !.pc = "post", !.arg = posts])

NothingToWake(t) == SetFrame(t, NextCall(t)) /\ UNCHANGED suspendedThreads

\* wakeSuspendedWorker, or an unconditional post where a bit is shared
WakeSuspendedWorker(t) ==
    LET w == Op(t).id IN
    /\ At(t, "wake") /\ w >= 0
    /\ \/ /\ GroupSize = 1 /\ w \in suspendedThreads
          /\ TakeSuspended(t, w, {w})
       \/ /\ GroupSize = 1 /\ w \notin suspendedThreads
          /\ NothingToWake(t)
       \/ /\ GroupSize > 1
          /\ SetFrame(t, [Frame(t) EXCEPT !.pc = "post", !.arg = {w}])
          /\ UNCHANGED suspendedThreads
    /\ UNCHANGED <<queues, sema, doneFlag, awaits>>

\* takeAnySuspendedThread takes the lowest bit set.
WakeOneSuspendedWorker(t) ==
    /\ At(t, "wake") /\ Op(t).id < 0
    /\ \/ /\ suspendedThreads # {}
          /\ LET g == Min(suspendedThreads)
             IN  TakeSuspended(t, g, {w \in WorkerIDs : Group(w) = g})
       \/ suspendedThreads = {} /\ NothingToWake(t)
    /\ UNCHANGED <<queues, sema, doneFlag, awaits>>

\* The posts of a call, in order of workers
Post(t) ==
    /\ At(t, "post")
    /\ LET w == Min(Frame(t).arg) IN
         /\ sema' = [sema EXCEPT ![w] = @ + 1]
         /\ SetFrame(t, IF Frame(t).arg = {w} THEN NextCall(t)
                        ELSE [Frame(t) EXCEPT !.arg = @ \ {w}])
    /\ UNCHANGED <<queues, suspendedThreads, doneFlag, awaits>>

AddToLocal(t) ==
    /\ InCode(t, "code") /\ Op(t).op = "addLocalTask" /\ t \in WorkerIDs
    /\ localTaskList' = [localTaskList EXCEPT ![t] = Append(@, Op(t).task)]
    /\ SetFrame(t, NextCall(t))
    /\ UNCHANGED <<affinityTaskList, localSpillQueue, taskList, overflowTaskList>>
    /\ UNCHANGED <<suspendedThreads, sema, doneFlag, awaits>>

Add(t) ==
    \/ AddToRing(t) \/ AddToSpill(t) \/ AddToTaskList(t) \/ AddToOverflow(t)
    \/ WakeSuspendedWorker(t) \/ WakeOneSuspendedWorker(t) \/ Post(t) \/ AddToLocal(t)

-----------------------------------------------------------------------------
(* await, and the values it waits for *)

\* Mutant: only the values that are not ready are counted.
AwaitValues_CountsMissing(t) ==
    /\ InCode(t, "code") /\ Op(t).op = "await"
    /\ \/ /\ Range(Op(t).on) \subseteq ready
          /\ SetFrame(t, NextCall(t))
          /\ UNCHANGED numRemaining
       \/ /\ ~(Range(Op(t).on) \subseteq ready)
          /\ numRemaining' = [numRemaining EXCEPT ![t] = Append(@, Cardinality(Range(Op(t).on) \ ready))]
          /\ SetFrame(t, [Frame(t) EXCEPT !.pc = "register", !.arg = DOMAIN Op(t).on])
    /\ UNCHANGED <<queues, suspendedThreads, sema, doneFlag, ready, waiters>>

\* Return if all values are ready.  A value stays ready, so that the last look tells of all.
AwaitValues(t) ==
    /\ InCode(t, "code") /\ Op(t).op = "await"
    /\ \/ /\ Range(Op(t).on) \subseteq ready
          /\ SetFrame(t, NextCall(t))
          /\ UNCHANGED numRemaining
       \/ /\ ~(Range(Op(t).on) \subseteq ready)
          /\ numRemaining' = [numRemaining EXCEPT ![t] = Append(@, Len(Op(t).on))]
          /\ SetFrame(t, [Frame(t) EXCEPT !.pc = "register", !.arg = DOMAIN Op(t).on])
    /\ UNCHANGED <<queues, suspendedThreads, sema, doneFlag, ready, waiters>>

\* The value is dealt with: go on with the next, or wait for all of them, a worker by
\* running items.
Registered(t) ==
    LET rest == Frame(t).arg \ {Min(Frame(t).arg)} IN
    IF rest # {} THEN SetFrame(t, [Frame(t) EXCEPT !.pc = "register", !.arg = rest])
    ELSE IF t \in WorkerIDs THEN Call(t, NextCall(t), LoopFrame("await"))
    ELSE Goto(t, "foreignWait")

\* andThenSync, for one value after the other: it will notify this await, the innermost of
\* its thread.  For a value that has become ready the waiter runs here and now.
Register(t) ==
    /\ At(t, "register")
    /\ LET x == Op(t).on[Min(Frame(t).arg)]
           n == Len(numRemaining[t])
       IN
       \/ /\ x \notin ready
          /\ waiters' = [waiters EXCEPT ![x] = Append(@, <<t, n>>)]
          /\ Registered(t)
          /\ UNCHANGED numRemaining
       \/ /\ x \in ready
          /\ numRemaining' = [numRemaining EXCEPT ![t][n] = @ - 1]
          /\ IF numRemaining[t][n] = 1 THEN Goto(t, "registerPost") ELSE Registered(t)
          /\ UNCHANGED waiters
    /\ UNCHANGED <<queues, suspendedThreads, sema, doneFlag, ready>>

\* The last value was ready, and the others have notified: post the own semaphore.
RegisterPost(t) ==
    /\ At(t, "registerPost")
    /\ sema' = [sema EXCEPT ![t] = @ + 1]
    /\ Registered(t)
    /\ UNCHANGED <<queues, suspendedThreads, doneFlag, awaits>>

ForeignWakeUp(t) ==
    /\ At(t, "foreignWait")
    /\ sema[t] > 0
    /\ sema' = [sema EXCEPT ![t] = @ - 1]
    /\ numRemaining' = [numRemaining EXCEPT ![t] = Front(@)]
    /\ SetFrame(t, NextCall(t))
    /\ UNCHANGED <<queues, suspendedThreads, doneFlag, ready, waiters>>

\* A task ends by making its value ready, which takes the value's waiters and
\* schedules them on this thread.
Emplace(t) ==
    /\ At(t, "code") /\ Frame(t).rest = <<>> /\ Frame(t).who \in Tasks
    /\ LET x == Frame(t).who IN
         /\ ready' = ready \cup {x}
         /\ localTaskList' = [localTaskList EXCEPT ![t] = @ \o waiters[x]]
         /\ waiters' = [waiters EXCEPT ![x] = <<>>]
    /\ Return(t)
    /\ UNCHANGED <<affinityTaskList, localSpillQueue, taskList, overflowTaskList>>
    /\ UNCHANGED <<suspendedThreads, sema, doneFlag, numRemaining>>

\* An await's waiter: decrement its count and, at zero, post its semaphore.
Notify(t) ==
    /\ At(t, "notify")
    /\ LET a == Frame(t).who IN
         /\ numRemaining' = [numRemaining EXCEPT ![a[1]][a[2]] = @ - 1]
         /\ IF numRemaining[a[1]][a[2]] = 1 THEN Goto(t, "notifyPost") ELSE Return(t)
    /\ UNCHANGED <<queues, suspendedThreads, sema, doneFlag, ready, waiters>>

NotifyPost(t) ==
    /\ At(t, "notifyPost")
    /\ sema' = [sema EXCEPT ![Frame(t).who[1]] = @ + 1]
    /\ Return(t)
    /\ UNCHANGED <<queues, suspendedThreads, doneFlag, awaits>>

AwaitSteps(t) ==
    \/ AwaitValues(t) \/ Register(t) \/ RegisterPost(t) \/ ForeignWakeUp(t)
    \/ Emplace(t) \/ Notify(t) \/ NotifyPost(t)

-----------------------------------------------------------------------------
(* shutdown *)

\* The main thread first drains what it finds.
ShutdownDrain(t) ==
    /\ InCode(t, "code") /\ Op(t).op = "shutdown"
    /\ IF t \in WorkerIDs
       THEN Call(t, [Frame(t) EXCEPT !.pc = "setDone"], LoopFrame("drain"))
       ELSE Goto(t, "setDone")
    /\ UNCHANGED <<queues, suspendedThreads, sema, doneFlag, awaits>>

\* Mutant: the last worker gets no post.
SetDone_OffByOne(t) ==
    /\ At(t, "setDone")
    /\ doneFlag' = TRUE
    /\ SetFrame(t, [Frame(t) EXCEPT !.pc = "postAll", !.arg = 0 .. NumWorkers - 2])
    /\ UNCHANGED <<queues, suspendedThreads, sema, awaits>>

SetDone(t) ==
    /\ At(t, "setDone")
    /\ doneFlag' = TRUE
    /\ SetFrame(t, [Frame(t) EXCEPT !.pc = "postAll", !.arg = WorkerIDs])
    /\ UNCHANGED <<queues, suspendedThreads, sema, awaits>>

PostAll(t) ==
    /\ At(t, "postAll")
    /\ \/ /\ Frame(t).arg # {}
          /\ LET w == Min(Frame(t).arg) IN
               /\ sema' = [sema EXCEPT ![w] = @ + 1]
               /\ SetFrame(t, [Frame(t) EXCEPT !.arg = @ \ {w}])
          /\ UNCHANGED suspendedThreads
       \/ /\ Frame(t).arg = {}
          /\ suspendedThreads' = {}
          /\ Goto(t, "join")
          /\ UNCHANGED sema
    /\ UNCHANGED <<queues, doneFlag, awaits>>

Join(t) ==
    /\ At(t, "join")
    /\ \A w \in WorkerIDs \ Clients : ~Running(w)
    /\ SetFrame(t, NextCall(t))
    /\ UNCHANGED <<queues, suspendedThreads, sema, doneFlag, awaits>>

ShutdownSteps(t) == ShutdownDrain(t) \/ SetDone(t) \/ PostAll(t) \/ Join(t)

-----------------------------------------------------------------------------

Step(t) ==
    /\ UNCHANGED setup
    /\ RunItems(t) \/ Add(t) \/ AwaitSteps(t) \/ ShutdownSteps(t)

Next == \E t \in Threads : Step(t)

Spec == Init /\ [][Next]_vars

\* Threads are scheduled, the busy wait is bounded, and a try_dequeue does not
\* fail for ever on a queue that is not empty.
Fairness ==
    \A t \in Threads :
        /\ WF_vars(Step(t))
        /\ SF_vars(UNCHANGED setup /\ SpinOn(t, "mark"))
        /\ SF_vars(UNCHANGED setup /\ TakeGlobal(t, "lastGlobal"))

FairSpec == Spec /\ Fairness

-----------------------------------------------------------------------------
(* Properties *)

\* The code frames of a thread, and the calls the code in frame f has completed
CodeFrames(t) == {f \in Range(stack[t]) : f.kind = "code"}
Completed(f) == {Script[f.who][i] : i \in 1 .. Len(Script[f.who]) - Len(f.rest)}

\* The items of the calls completed so far
Added ==
    {c.task : c \in {c \in UNION {UNION {Completed(f) : f \in CodeFrames(t)} : t \in Threads}
                               \cup UNION {Range(Script[x]) : x \in ready}
                     : c.op \in {"addTask", "addLocalTask"}}}

\* Where an item is: in a queue, or in the frame that runs it
InSeqs(x, q, name) ==
    UNION {{<<name, w, i>> : i \in {i \in DOMAIN q[w] : q[w][i] = x}} : w \in WorkerIDs}
RunningIn(x) ==
    UNION {{<<"run", t, i>> : i \in {i \in DOMAIN stack[t] : stack[t][i].who = x}} : t \in Threads}
Places(x) ==
    InSeqs(x, localTaskList, "local") \cup InSeqs(x, affinityTaskList, "affinity")
    \cup InSeqs(x, localSpillQueue, "spill") \cup RunningIn(x)
    \cup {<<"global">> : y \in taskList \cap {x}}
    \cup {<<"overflow">> : y \in overflowTaskList \cap {x}}

\* Moving items between the ring, the spill queue, the overflow list, the shared
\* queue and the local lists neither loses nor repeats one: an item added is
\* waiting in one place, or being run by one thread, or done.
ItemsConserved ==
    /\ \A x \in Tasks : Cardinality(Places(x)) <= 1
    /\ \A x \in Added : x \in ready \/ Places(x) # {}
    /\ \A x \in ready : Places(x) \subseteq RunningIn(x)

\* "enabling cache-friendly execution": an item added with a taskId is run by that
\* worker, whether it went through the ring or the spill queue.
AffinityKept ==
    \A t \in Threads, x \in Tasks :
        /\ \E f \in Range(stack[t]) : f.who = x
        => \A y \in Tasks \cup Clients : \A i \in DOMAIN Script[y] :
             Script[y][i].task = x /\ Script[y][i].id >= 0 => Script[y][i].id = t

Asleep(w) == At(w, "sleep") /\ sema[w] = 0

\* A thread between making an item available and its wake-up
Adding(t) == At(t, "wake") \/ At(t, "post")

\* A thread that is running items, as opposed to the main thread in its own code
Donating(w) == Running(w) /\ (w \in Clients => Len(stack[w]) > 1)

\* "At least one side must observe the other, or the task sits in the queue with
\* nobody awake to run it": with every addTask complete, a shared item has some
\* worker awake, or about to be, to pick it up.  (A donating main thread may leave its
\* await with its suspended bit set, which swallows a wake-up.)
SharedWorkIsSeen ==
    /\ ~MainWillDonate
    /\ taskList \cup overflowTaskList # {}
    /\ \A t \in Threads : ~Adding(t)
    /\ ~doneFlag
    => \E w \in WorkerIDs : Donating(w) /\ ~Asleep(w)

\* The same for items only one worker can run, in its ring or its spill queue.
AffinityWorkIsSeen ==
    \A w \in WorkerIDs :
        /\ affinityTaskList[w] \o localSpillQueue[w] \o localTaskList[w] # <<>>
        /\ \A t \in Threads : ~(At(t, "wake") /\ Op(t).id = w) /\ ~(At(t, "post") /\ w \in Frame(t).arg)
        => ~Asleep(w)

\* "exited await loop without all values being ready": code that is past an await
\* finds all its values ready, although nested awaits of one worker share a
\* semaphore with the wake-ups of addTask.
AwaitsHonoured ==
    \A t \in Threads : \A i \in DOMAIN stack[t] :
        /\ stack[t][i].kind = "code"
        /\ i > 1 => stack[t][i - 1].kind # "await"
        => \A c \in Completed(stack[t][i]) : Range(c.on) \subseteq ready

\* Where the waiter of await a is while it is still to run: kept by a value,
\* scheduled on a thread, or about to decrement the count
ToNotify(a) ==
    {<<"kept", x>> : x \in {x \in Tasks : a \in Range(waiters[x])}}
    \cup InSeqs(a, localTaskList, "local")
    \cup {<<"due", t>> : t \in {t \in Threads : At(t, "notify") /\ Frame(t).who = a}}

\* The values that await n of thread t, if it is the one being registered, has not dealt with
Unregistered(t, n) ==
    IF n # Len(numRemaining[t]) THEN {}
    ELSE IF At(t, "register") THEN Frame(t).arg
    ELSE IF At(t, "registerPost") THEN Frame(t).arg \ {Min(Frame(t).arg)}
    ELSE {}

\* An await's numRemaining, which its waiters decrement through a reference into its stack
\* frame, is the number of values still to be registered and of waiters still to run, though
\* values become ready while it registers: it reaches zero with the last of them, and no
\* waiter outlives the frame.
AwaitCountsExact ==
    \A t \in Threads : \A n \in 1 .. Len(numRemaining[t]) + 1 :
        Cardinality(ToNotify(<<t, n>>)) + Cardinality(Unregistered(t, n)) =
            IF n <= Len(numRemaining[t]) THEN numRemaining[t][n] ELSE 0

\* shutdown() has returned: the destructors may run.
HasShutDown(t) ==
    At(t, "code") /\ Frame(t).rest = <<>> /\ Shutdown \in Completed(Frame(t))

\* shutdown "Drains remaining work items": the destructors' assertions that no
\* queue holds an item when the work queue is destroyed.
DrainedAtShutdown ==
    (\E t \in Clients : HasShutDown(t)) => \A x \in Added : x \in ready

\* Every await of a client returns, and so does its shutdown, unless the queues refuse
\* items for ever.
ClientsFinish ==
    <>(QueuesMayRefuse \/ \A t \in Clients : At(t, "code") /\ Frame(t).rest = <<>>)

\* "Returns when the given values are ready": an await of a foreign thread ends once
\* they are.
AwaitReturns ==
    \A t \in Foreign : (At(t, "foreignWait") /\ Range(Op(t).on) \subseteq ready) ~> ~At(t, "foreignWait")
=============================================================================
