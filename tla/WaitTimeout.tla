---------------------------- MODULE WaitTimeout -----------------------------
(***************************************************************************)
(* KGEN_CompilerRT_AsyncRT_Wait_Timeout of Mojo/lib/CompilerRT/AsyncRT.cpp *)
(* and the TimerHeap its callers share.  Each caller waits for a chain     *)
(* `done`, which may become ready at any time or never, or for the chain   *)
(* `expired` it pushes to the heap: the waiter of whichever comes first    *)
(* emplaces `either`, which it awaits.                                     *)
(***************************************************************************)
EXTENDS TimerHeap

CONSTANTS
    Delays,     \* Delays[c]: the time-out of caller c
    MayBeReady, \* the callers whose chain may become ready
    MayStop     \* whether the heap is destroyed

ASSUME WaitAssumption ==
    Delays \in [Chains -> 0 .. MaxClock] /\ MayBeReady \subseteq Chains /\ MayStop \in BOOLEAN

VARIABLES
    pc,
    deadline,   \* per caller: its expiration
    done,       \* the callers whose chain is ready
    ran,        \* per caller: which of its two waiters have run
    first,      \* per caller: the flag `emplaced` its waiters share
    either,     \* per caller: how often `either` was emplaced
    result

callerVars == <<pc, deadline, done, ran, first, either, result>>
vars == <<clock, heapVars, callerVars>>

Init ==
    /\ HeapInit /\ clock = 0
    /\ pc = [c \in Chains |-> "call"]
    /\ deadline = [c \in Chains |-> 0]
    /\ done = {}
    /\ ran = [c \in Chains |-> {}]
    /\ first = [c \in Chains |-> FALSE]
    /\ either = [c \in Chains |-> 0]
    /\ result = [c \in Chains |-> "none"]

Goto(c, l) == pc' = [pc EXCEPT ![c] = l]

\* The expiration is computed before the mutex is taken.
Call(c) ==
    /\ pc[c] = "call" /\ running /\ clock + Delays[c] <= MaxClock
    /\ deadline' = [deadline EXCEPT ![c] = clock + Delays[c]]
    /\ Goto(c, "push")
    /\ UNCHANGED <<clock, heapVars, done, ran, first, either, result>>

PushExpired(c) ==
    /\ pc[c] = "push"
    /\ Push(c, deadline[c])
    /\ Goto(c, "await")
    /\ UNCHANGED <<clock, deadline, done, ran, first, either, result>>

Complete(c) ==
    /\ c \in MayBeReady \ done
    /\ done' = done \cup {c}
    /\ UNCHANGED <<clock, heapVars, pc, deadline, ran, first, either, result>>

\* The waiters can run once they are registered and their chain is ready.
Ready(c) ==
    {w \in {"done", "expired"} : IF w = "done" THEN c \in done ELSE emplaced[c] > 0} \ ran[c]

RunWaiter(c) ==
    \E w \in Ready(c) :
      /\ pc[c] \in {"await", "cancel", "returned"}
      /\ ran' = [ran EXCEPT ![c] = @ \cup {w}]
      /\ either' = [either EXCEPT ![c] = IF first[c] THEN @ ELSE @ + 1]
      /\ first' = [first EXCEPT ![c] = TRUE]
      /\ UNCHANGED <<clock, heapVars, pc, deadline, done, result>>

Awake(c) ==
    /\ pc[c] = "await" /\ either[c] > 0
    /\ \/ c \in done /\ Goto(c, "cancel") /\ UNCHANGED result
       \/ /\ c \notin done /\ Goto(c, "returned")
          /\ result' = [result EXCEPT ![c] = "timeout"]
    /\ UNCHANGED <<clock, heapVars, deadline, done, ran, first, either>>

CancelExpired(c) ==
    /\ pc[c] = "cancel"
    /\ Cancel(c)
    /\ Goto(c, "returned")
    /\ result' = [result EXCEPT ![c] = "ready"]
    /\ UNCHANGED <<clock, deadline, done, ran, first, either>>

StopHeap == MayStop /\ Stop /\ UNCHANGED <<clock, callerVars>>
RunHeap == Run /\ UNCHANGED <<clock, callerVars>>

\* Callers that are punctual push their entry before its deadline.
Advance ==
    /\ Punctual => \A c \in Chains : pc[c] # "push"
    /\ Tick /\ UNCHANGED callerVars

Caller(c) ==
    PushExpired(c) \/ RunWaiter(c) \/ Awake(c) \/ CancelExpired(c)

Next ==
    \/ \E c \in Chains : Call(c) \/ Caller(c) \/ Complete(c)
    \/ StopHeap \/ RunHeap
    \/ SpuriousWake /\ UNCHANGED <<clock, callerVars>>
    \/ Advance

Spec == Init /\ [][Next]_vars

\* Threads are scheduled and time passes; nobody need call, and `done` may never be
\* ready.
FairSpec ==
    /\ Spec
    /\ WF_vars(RunHeap) /\ WF_vars(Advance)
    /\ \A c \in Chains : SF_vars(Caller(c))

-----------------------------------------------------------------------------
(* Properties *)

\* A chain is emplaced once, though its deadline, a cancel and its completion race:
\* "cannot construct a ready AsyncValue".
EmplacedOnce == \A c \in Chains : emplaced[c] <= 1 /\ either[c] <= 1

\* "True is returned if the value is ready, false is a timeout occurred."
ResultIsRight ==
    \A c \in Chains :
        /\ result[c] = "ready" => c \in done
        /\ result[c] = "timeout" => clock >= deadline[c]

\* The shared heap keeps no entry of a call that has returned.
NothingLeftBehind ==
    \A c \in Chains : pc[c] = "returned" => \A i \in DOMAIN entries : entries[i].expired # c

\* "Blocks until the given chain is ready, or the given deadline is hit": every call
\* returns while the heap is there.
CallsReturn == \A c \in Chains : pc[c] = "push" ~> (pc[c] = "returned" \/ ~running)

\* stop joins the thread: it exits.
StopReturns == ~running ~> thread = "exited"
=============================================================================
