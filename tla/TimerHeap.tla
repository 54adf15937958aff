----------------------------- MODULE TimerHeap ------------------------------
(***************************************************************************)
(* AsyncRT/lib/Runtime/TimerHeap.cpp: chains that a thread of the heap     *)
(* emplaces when their deadline has passed.  The mutex is held throughout  *)
(* push, cancel and the first part of stop, so each is one step; the       *)
(* thread holds it except while it waits on the condition variable.  The   *)
(* algorithms of std are modelled by their contracts: what they establish  *)
(* if they are given what they require, and any order if they are not.     *)
(***************************************************************************)
EXTENDS Integers, Sequences, FiniteSets, SequencesExt

CONSTANTS
    Chains,
    MaxClock,   \* bound on the clock
    Punctual    \* whether the thread is always scheduled before the clock advances

ASSUME TimerAssumption == MaxClock \in Nat /\ Punctual \in BOOLEAN

VARIABLES
    clock,
    entries,    \* the vector of [expiration, expired] entries
    running,
    thread,     \* where the heap's thread is
    until,      \* the end of its timed wait
    notified,   \* whether the condition variable was notified since it began to wait
    emplaced    \* per chain: how often the heap emplaced it

heapVars == <<entries, running, thread, until, notified, emplaced>>

HeapInit ==
    /\ entries = <<>> /\ running = TRUE
    /\ thread = "locked" /\ until = 0 /\ notified = FALSE
    /\ emplaced = [c \in Chains |-> 0]

\* A heap of std: no entry expires before its parent in the tree.
IsHeap(s) == \A i \in 2 .. Len(s) : s[i \div 2].expiration <= s[i].expiration

\* The orders of the elements of s, and those that are heaps
Orders(s) == {[i \in DOMAIN s |-> s[f[i]]] : f \in Bijection(DOMAIN s, DOMAIN s)}
Heaps(s) == {h \in Orders(s) : IsHeap(h)}

\* make_heap requires nothing.
MakeHeap(s) == Heaps(s)

\* push_heap requires a heap but for the last element, which it sifts up.
PushHeap(s) == IF IsHeap(Front(s)) THEN Heaps(s) ELSE Orders(s)

\* pop_heap requires a heap: its first element is put last, behind a heap of the others.
PopHeap(s) ==
    IF IsHeap(s) THEN {Append(h, Head(s)) : h \in Heaps(Tail(s))} ELSE Orders(s)

Unlocked == thread # "locked"

\* notify_one has an effect only on a thread that waits.
Notify == notified' = (notified \/ thread \in {"wait", "waitFor"})

-----------------------------------------------------------------------------

\* Mutant: the thread is never told of an entry.
Push_NoNotify(c, expiration) ==
    /\ Unlocked
    /\ entries' \in PushHeap(Append(entries, [expiration |-> expiration, expired |-> c]))
    /\ UNCHANGED notified
    /\ UNCHANGED <<running, thread, until, emplaced>>

Push(c, expiration) ==
    /\ Unlocked
    /\ entries' \in PushHeap(Append(entries, [expiration |-> expiration, expired |-> c]))
    /\ IF entries = <<>> \/ Head(entries).expiration > expiration
       THEN Notify ELSE UNCHANGED notified
    /\ UNCHANGED <<running, thread, until, emplaced>>

\* The vector without its i-th entry, the last put in its place
SwapOut(s, i) == Front([s EXCEPT ![i] = Last(s)])

\* Mutant: the heap is not restored after the swap.
Cancel_NoReheap(c) ==
    /\ Unlocked
    /\ \/ /\ \A i \in DOMAIN entries : entries[i].expired # c
          /\ UNCHANGED <<entries, emplaced>>
       \/ \E i \in DOMAIN entries :
            /\ entries[i].expired = c
            /\ emplaced' = [emplaced EXCEPT ![c] = @ + 1]
            /\ entries' = SwapOut(entries, i)
    /\ UNCHANGED <<running, thread, until, notified>>

\* Mutant: the chain is emplaced although its entry may be gone.
Cancel_Always(c) ==
    /\ Unlocked
    /\ \/ /\ \A i \in DOMAIN entries : entries[i].expired # c
          /\ emplaced' = [emplaced EXCEPT ![c] = @ + 1]
          /\ UNCHANGED entries
       \/ \E i \in DOMAIN entries :
            /\ entries[i].expired = c
            /\ emplaced' = [emplaced EXCEPT ![c] = @ + 1]
            /\ entries' \in MakeHeap(SwapOut(entries, i))
    /\ UNCHANGED <<running, thread, until, notified>>

\* Mutant: the entry is kept.
Cancel_Keeps(c) ==
    /\ Unlocked
    /\ UNCHANGED heapVars

\* A chain is pushed once, so it has at most one entry.  The heap is made again unless
\* the entry was the last.
Cancel(c) ==
    /\ Unlocked
    /\ \/ /\ \A i \in DOMAIN entries : entries[i].expired # c
          /\ UNCHANGED <<entries, emplaced>>
       \/ \E i \in DOMAIN entries :
            /\ entries[i].expired = c
            /\ emplaced' = [emplaced EXCEPT ![c] = @ + 1]
            /\ IF i < Len(entries) THEN entries' \in MakeHeap(SwapOut(entries, i))
               ELSE entries' = Front(entries)
    /\ UNCHANGED <<running, thread, until, notified>>

\* Mutant: the thread is not woken.
Stop_NoNotify ==
    /\ Unlocked /\ running
    /\ running' = FALSE
    /\ UNCHANGED notified
    /\ UNCHANGED <<entries, thread, until, emplaced>>

\* stop, up to the join
Stop ==
    /\ Unlocked /\ running
    /\ running' = FALSE
    /\ Notify
    /\ UNCHANGED <<entries, thread, until, emplaced>>

-----------------------------------------------------------------------------
(* run *)

Exit ==
    /\ thread = "locked" /\ ~running
    /\ thread' = "exited"
    /\ UNCHANGED <<entries, running, until, notified, emplaced>>

Wait ==
    /\ thread = "locked" /\ running /\ entries = <<>>
    /\ thread' = "wait" /\ notified' = FALSE
    /\ UNCHANGED <<entries, running, until, emplaced>>

\* Mutant: the root is triggered whatever its deadline.
Trigger_Early ==
    /\ thread = "locked" /\ running /\ entries # <<>>
    /\ emplaced' = [emplaced EXCEPT ![Head(entries).expired] = @ + 1]
    /\ entries' \in {Front(h) : h \in PopHeap(entries)}
    /\ UNCHANGED <<running, thread, until, notified>>

Trigger ==
    /\ thread = "locked" /\ running /\ entries # <<>>
    /\ clock >= Head(entries).expiration
    /\ emplaced' = [emplaced EXCEPT ![Head(entries).expired] = @ + 1]
    /\ entries' \in {Front(h) : h \in PopHeap(entries)}
    /\ UNCHANGED <<running, thread, until, notified>>

WaitFor ==
    /\ thread = "locked" /\ running /\ entries # <<>>
    /\ clock < Head(entries).expiration
    /\ thread' = "waitFor" /\ until' = Head(entries).expiration /\ notified' = FALSE
    /\ UNCHANGED <<entries, running, emplaced>>

TimedOut == thread = "waitFor" /\ clock >= until

\* A wait ends if its predicate holds, the timed one also when its time is over.  A
\* thread that is woken otherwise waits on.
WaitIsOver ==
    \/ thread = "wait" /\ (~running \/ entries # <<>>)
    \/ thread = "waitFor" /\ (~running \/ clock >= until)

Wake ==
    /\ notified \/ TimedOut
    /\ thread' = IF WaitIsOver THEN "locked" ELSE thread
    /\ notified' = FALSE
    /\ UNCHANGED <<entries, running, until, emplaced>>

\* The condition variable may also wake it for no reason.
SpuriousWake ==
    /\ WaitIsOver
    /\ thread' = "locked" /\ notified' = FALSE
    /\ UNCHANGED <<entries, running, until, emplaced>>

Run == Exit \/ Wait \/ Trigger \/ WaitFor \/ Wake

\* The thread has nothing to do before it is notified or its time is over.
Asleep == Unlocked /\ ~notified /\ ~TimedOut

Tick ==
    /\ clock < MaxClock
    /\ Punctual => Asleep
    /\ clock' = clock + 1
    /\ UNCHANGED heapVars

-----------------------------------------------------------------------------

\* No entry expires before the first, the only one the thread looks at: it neither
\* triggers another first nor sleeps past a deadline it was told of, whichever entries
\* were swapped out by a cancel between the push_heap and pop_heap that rely on order.
RootIsEarliest == \A i \in DOMAIN entries : Head(entries).expiration <= entries[i].expiration

\* "Wait until this point, or we are signalled": a thread that is scheduled in time
\* triggers every chain at its deadline.
TriggeredOnTime ==
    running => \A i \in DOMAIN entries : entries[i].expiration >= clock
=============================================================================
