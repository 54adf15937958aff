----------------------------- MODULE AsyncValue -----------------------------
(***************************************************************************)
(* AsyncRT/lib/Runtime/AsyncValue.cpp and AsyncRT/Runtime/AsyncValue.h:    *)
(* values that become ready once, the waiters registered on them, and      *)
(* indirect values that are resolved to another value.  The waiter list    *)
(* and the state are one atomic word.  The first waiter is kept where the  *)
(* payload will be, later ones in list nodes of Slots entries.             *)
(*                                                                         *)
(* Each client calls andThen once on one value.  Each concrete value has a *)
(* thread that emplaces it or sets it to an error, each indirect value one *)
(* that resolves it to its target.  Every atomic access is a step.         *)
(***************************************************************************)
EXTENDS Integers, Sequences, FiniteSets, FiniteSetsExt

CONSTANTS
    Setups,     \* what the threads may be set to do
    AllProcs,   \* the processes of every setup
    Slots,      \* entries of a list node: 4 in the code
    Null

\* The setup of a behaviour: "on" gives the value each client waits for, "after" the
\* client whose call precedes in the same thread, if any, "owning" the clients whose
\* reference is moved into the waiter, "target" what each indirect value is resolved
\* to, "failing" the concrete values that become an error.
VARIABLE setup

Values == setup.values
Target == setup.target
Indirect == DOMAIN Target
Failing == setup.failing
On == setup.on
Clients == DOMAIN On
Owning == setup.owning

Procs == Clients \cup Values
Waiters == Clients \cup Indirect

\* The value a waiter is registered on
Awaited(p) == IF p \in Clients THEN On[p] ELSE Target[p]

ASSUME AsyncValueAssumption ==
    /\ Slots \in Nat \ {0, 1} /\ Null # "value" /\ Null \notin AllProcs /\ "value" \notin AllProcs
    /\ \A s \in Setups :
         LET cs == DOMAIN s.on IN
         /\ cs \cup s.values \subseteq AllProcs /\ cs \cap s.values = {}
         /\ DOMAIN s.target \subseteq s.values /\ s.failing \subseteq s.values \ DOMAIN s.target
         /\ s.owning \subseteq cs /\ s.after \in [cs -> cs \cup {Null}]
         /\ s.target \in [DOMAIN s.target -> s.values] /\ s.on \in [cs -> s.values]

\* The states, numbered as in the code: 1 + n for n valid entries in the first
\* node of the list
kUnconstructed == 0
kInitializing == 1
kValid(n) == 1 + n
kAvailable == Slots + 2
kError == Slots + 3

IsReady(s) == s \in {kAvailable, kError}
HasInlineWaiter(s) == s \in kValid(1) .. kValid(Slots)
NumValid(s) == s - kInitializing

VARIABLES
    word,       \* per value: waitersAndState
    payload,    \* per value: the inline waiter, "value", or Null if there is none
    resolved,   \* per indirect value: the value it holds
    refcount,
    destroyed,  \* the values deallocated
    slots,      \* per waiter: the entries of the list node it allocated
    next,       \* per waiter: the next node of that node
    freed,      \* the list nodes deallocated
    pc,
    old,        \* per process: the word last read, or the word taken from the value
    extra,      \* per value: the inline waiter its producer moved aside
    pending,    \* per process: the dropRef calls under way
    runs        \* how often each waiter was run, or scheduled to run

memory == <<payload, resolved, slots, next, freed>>
counts == <<refcount, destroyed>>
vars == <<setup, word, memory, counts, pc, old, extra, pending, runs>>

\* The initial word, and that of a process that needs none
Unread == [state |-> kUnconstructed, head |-> Null]

\* One reference for the producer, one for each client and each resolver
Init ==
    /\ setup \in Setups
    /\ word = [v \in Values |-> Unread]
    /\ payload = [v \in Values |-> Null]
    /\ resolved = [v \in Indirect |-> Null]
    /\ refcount = [v \in Values |-> 1 + Cardinality({p \in Waiters : Awaited(p) = v})]
    /\ destroyed = {}
    /\ slots = [p \in Waiters |-> [i \in 1 .. Slots |-> Null]]
    /\ next = [p \in Waiters |-> Null]
    /\ freed = {}
    /\ pc = [p \in Procs |-> IF p \in Clients THEN "andThen"
                             ELSE IF p \in Indirect THEN "resolve" ELSE "prepare"]
    /\ old = [p \in Procs |-> Unread]
    /\ extra = [v \in Values |-> Null]
    /\ pending = [p \in Procs |-> <<>>]
    /\ runs = [p \in Waiters |-> 0]

\* A call of dropRef, which first loads the count
DropOf(v) == [value |-> v, loaded |-> FALSE]

\* A process takes no step of its own before its dropRef calls return.
At(p, l) == pc[p] = l /\ pending[p] = <<>>
Goto(p, l) == pc' = [pc EXCEPT ![p] = l]

\* Run or schedule the waiters in S, process p going on at l.  The waiter of an
\* indirect value resolves it.  A waiter that owns a reference then drops it, and
\* so does a client that runs its own.
RunWaiters(S, p, l) ==
    /\ runs' = [q \in Waiters |-> runs[q] + IF q \in S THEN 1 ELSE 0]
    /\ pc' = [q \in Procs |-> IF q \in S \cap Indirect THEN "resolve"
                              ELSE IF q = p THEN l ELSE pc[q]]
    /\ pending' = [q \in Procs |-> IF q \in S \cap Clients \cap (Owning \cup {p})
                                   THEN <<DropOf(On[q])>> ELSE pending[q]]

-----------------------------------------------------------------------------
(* andThen *)

\* Mutant: the reference moved into the waiter is dropped as well.
Registered_DropsMoved(p) ==
    /\ Goto(p, "registered")
    /\ pending' = IF p \in Clients
                  THEN [pending EXCEPT ![p] = <<DropOf(On[p])>>] ELSE pending
    /\ old' = [old EXCEPT ![p] = Unread]

\* andThen returns with the waiter registered; a client that kept its reference
\* drops it.
Registered(p) ==
    /\ Goto(p, "registered")
    /\ pending' = IF p \in Clients \ Owning
                  THEN [pending EXCEPT ![p] = <<DropOf(On[p])>>] ELSE pending
    /\ old' = [old EXCEPT ![p] = Unread]

\* andThen runs the waiter, or schedules it, and returns.
RunOwn(p) == RunWaiters({p}, p, "registered") /\ old' = [old EXCEPT ![p] = Unread]

AndThen(p) ==
    LET w == word[Awaited(p)] IN
    /\ At(p, "andThen")
    /\ \/ IsReady(w.state) /\ RunOwn(p)
       \/ /\ ~IsReady(w.state)
          /\ old' = [old EXCEPT ![p] = w]
          /\ Goto(p, IF w.state = kUnconstructed THEN "claimInline" ELSE "try")
          /\ UNCHANGED <<runs, pending>>
    /\ UNCHANGED <<word, memory, counts, extra>>

\* A compare/exchange on the word of the awaited value: it succeeds if the word is
\* as read, else the word is read again.
Exchanged(p, new) ==
    /\ word[Awaited(p)] = old[p]
    /\ word' = [word EXCEPT ![Awaited(p)] = new]

Reread(p) ==
    /\ word[Awaited(p)] # old[p]
    /\ old' = [old EXCEPT ![p] = word[Awaited(p)]]
    /\ UNCHANGED word

\* moveState from kUnconstructed
ClaimInline(p) ==
    /\ At(p, "claimInline")
    /\ \/ /\ Exchanged(p, [old[p] EXCEPT !.state = kInitializing])
          /\ Goto(p, "construct")
          /\ UNCHANGED old
       \/ Reread(p) /\ Goto(p, "try")
    /\ UNCHANGED <<memory, counts, extra, pending, runs>>

ConstructInline(p) ==
    /\ At(p, "construct")
    /\ payload' = [payload EXCEPT ![Awaited(p)] = p]
    /\ Goto(p, "publish")
    /\ UNCHANGED <<word, resolved, slots, next, freed, counts, old, extra, pending, runs>>

\* fetch_add(4)
PublishInline(p) ==
    /\ At(p, "publish")
    /\ word' = [word EXCEPT ![Awaited(p)].state = @ + Slots]
    /\ Registered(p)
    /\ UNCHANGED <<memory, counts, extra, runs>>

\* Another thread is initializing the inline waiter: read again.
SpinInitializing(p) ==
    /\ At(p, "try") /\ old[p].state = kInitializing
    /\ old' = [old EXCEPT ![p] = word[Awaited(p)]]
    /\ UNCHANGED <<word, memory, counts, pc, extra, pending, runs>>

RunNow(p) ==
    /\ At(p, "try") /\ IsReady(old[p].state)
    /\ RunOwn(p)
    /\ UNCHANGED <<word, memory, counts, extra>>

\* Claim the next entry of the first node.
ClaimSlot(p) ==
    /\ At(p, "try") /\ HasInlineWaiter(old[p].state) /\ NumValid(old[p].state) < Slots
    /\ \/ /\ Exchanged(p, [old[p] EXCEPT !.state = @ + 1])
          /\ Goto(p, "set")
          /\ UNCHANGED old
       \/ Reread(p) /\ UNCHANGED pc
    /\ UNCHANGED <<memory, counts, extra, pending, runs>>

SetWaiter(p) ==
    /\ At(p, "set")
    /\ slots' = [slots EXCEPT ![old[p].head][NumValid(old[p].state) + 1] = p]
    /\ Registered(p)
    /\ UNCHANGED <<word, payload, resolved, next, freed, counts, extra, runs>>

\* Put a new node with this waiter in front of the list.  If the value has become
\* ready instead, schedule the waiter.
InstallNode(p) ==
    /\ At(p, "try") /\ old[p].state = kValid(Slots)
    /\ \/ /\ Exchanged(p, [state |-> kValid(1), head |-> p])
          /\ slots' = [slots EXCEPT ![p][1] = p]
          /\ next' = [next EXCEPT ![p] = old[p].head]
          /\ Registered(p)
       \/ /\ Reread(p)
          /\ Goto(p, IF IsReady(word[Awaited(p)].state) THEN "later" ELSE "try")
          /\ UNCHANGED <<slots, next, pending>>
    /\ UNCHANGED <<payload, resolved, freed, counts, extra, runs>>

\* Mutant: the waiter is deleted with the node.
RunLater_Dropped(p) ==
    /\ At(p, "later")
    /\ Registered(p)
    /\ UNCHANGED <<word, memory, counts, extra, runs>>

RunLater(p) ==
    /\ At(p, "later")
    /\ RunOwn(p)
    /\ UNCHANGED <<word, memory, counts, extra>>

Register(p) ==
    \/ AndThen(p) \/ ClaimInline(p) \/ ConstructInline(p) \/ PublishInline(p)
    \/ SpinInitializing(p) \/ RunNow(p) \/ ClaimSlot(p) \/ SetWaiter(p) \/ InstallNode(p)
    \/ RunLater(p)

-----------------------------------------------------------------------------
(* emplaceAndDecRef, setToErrorAndDecRef, resolveIndirectAndDecRef *)

\* Mutant: the value holds the intermediate indirect value.
Collapse_Not(v, t) == resolved' = [resolved EXCEPT ![v] = t] /\ UNCHANGED <<refcount, pending>>

\* The target is indirect itself: hold the value it holds instead.
Collapse(v, t) ==
    /\ resolved' = [resolved EXCEPT ![v] = resolved[t]]
    /\ refcount' = [refcount EXCEPT ![resolved[t]] = @ + 1]
    /\ pending' = [pending EXCEPT ![v] = <<DropOf(t)>>]

\* resolveIndirectAndDecRef: wait for the target, or take what it holds.
Resolve(v) ==
    LET t == Target[v] IN
    /\ At(v, "resolve")
    /\ \/ /\ ~IsReady(word[t].state)
          /\ Goto(v, "andThen")
          /\ UNCHANGED <<resolved, refcount, pending>>
       \/ /\ IsReady(word[t].state)
          /\ Goto(v, "prepare")
          /\ \/ /\ t \notin Indirect
                /\ resolved' = [resolved EXCEPT ![v] = t]
                /\ UNCHANGED <<refcount, pending>>
             \/ t \in Indirect /\ Collapse(v, t)
    /\ UNCHANGED <<word, payload, slots, next, freed, destroyed, old, extra, runs>>

\* Mutant: an inline waiter being initialized is taken for one that is there.
RemoveAnyInlineWaiter_NoSpin(v) ==
    /\ At(v, "prepare")
    /\ \/ /\ word[v].state = kUnconstructed
          /\ word' = [word EXCEPT ![v].state = kValid(Slots)]
          /\ UNCHANGED <<payload, extra>>
       \/ /\ word[v].state # kUnconstructed
          /\ extra' = [extra EXCEPT ![v] = payload[v]]
          /\ payload' = [payload EXCEPT ![v] = Null]
          /\ UNCHANGED word
    /\ Goto(v, "emplace")
    /\ UNCHANGED <<resolved, slots, next, freed, counts, old, pending, runs>>

\* removeAnyInlineWaiter: no inline waiter can be added from here on.
RemoveAnyInlineWaiter(v) ==
    /\ At(v, "prepare")
    /\ \/ /\ word[v].state = kUnconstructed
          /\ word' = [word EXCEPT ![v].state = kValid(Slots)]
          /\ UNCHANGED <<payload, extra>>
       \/ /\ HasInlineWaiter(word[v].state)
          /\ extra' = [extra EXCEPT ![v] = payload[v]]
          /\ payload' = [payload EXCEPT ![v] = Null]
          /\ UNCHANGED word
    /\ Goto(v, "emplace")
    /\ UNCHANGED <<resolved, slots, next, freed, counts, old, pending, runs>>

Emplace(v) ==
    /\ At(v, "emplace")
    /\ payload' = [payload EXCEPT ![v] = "value"]
    /\ Goto(v, "exchange")
    /\ UNCHANGED <<word, resolved, slots, next, freed, counts, old, extra, pending, runs>>

\* The state a value becomes ready with: the one its target was found in
ReadyState(v) ==
    IF v \in Indirect THEN word[Target[v]].state
    ELSE IF v \in Failing THEN kError ELSE kAvailable

NotifyReady(v) ==
    /\ At(v, "exchange")
    /\ old' = [old EXCEPT ![v] = word[v]]
    /\ word' = [word EXCEPT ![v] = [state |-> ReadyState(v), head |-> Null]]
    /\ pending' = [pending EXCEPT ![v] = <<DropOf(v)>>]
    /\ Goto(v, "extra")
    /\ UNCHANGED <<memory, counts, extra, runs>>

RunInlineWaiter(v) ==
    /\ At(v, "extra")
    /\ RunWaiters({extra[v]} \ {Null}, v, "first")
    /\ extra' = [extra EXCEPT ![v] = Null]
    /\ UNCHANGED <<word, memory, counts, old>>

\* runWaitersAndDeallocate, one node: its first waiter, ...
RunFirst(v) ==
    LET node == old[v].head IN
    /\ At(v, "first")
    /\ \/ /\ node = Null
          /\ Goto(v, "done")
          /\ old' = [old EXCEPT ![v] = Unread]
          /\ UNCHANGED <<runs, pending>>
       \/ node # Null /\ RunWaiters({slots[node][1]}, v, "rest") /\ UNCHANGED old
    /\ UNCHANGED <<word, memory, counts, extra>>

\* Mutant: the node is not waited for.
RestOf_NoSpin(v) == {slots[old[v].head][i] : i \in 2 .. NumValid(old[v].state)} \ {Null}

\* The other valid entries of the node
RestOf(v) == {slots[old[v].head][i] : i \in 2 .. NumValid(old[v].state)}

\* Mutant: the count of the first node is kept for the next.
NextNode_SameCount(v) == [old[v] EXCEPT !.head = next[old[v].head]]

\* All entries of the next node are valid.
NextNode(v) == [state |-> kValid(Slots), head |-> next[old[v].head]]

\* ... then the others, once they are initialized.
RunRest(v) ==
    /\ At(v, "rest")
    /\ Null \notin RestOf(v)
    /\ RunWaiters(RestOf(v), v, "first")
    /\ freed' = freed \cup {old[v].head}
    /\ old' = [old EXCEPT ![v] = NextNode(v)]
    /\ UNCHANGED <<word, payload, resolved, slots, next, counts, extra>>

Produce(v) ==
    \/ RemoveAnyInlineWaiter(v) \/ Emplace(v) \/ NotifyReady(v)
    \/ RunInlineWaiter(v) \/ RunFirst(v) \/ RunRest(v)

-----------------------------------------------------------------------------
(* dropRef *)

\* Mutant: the reference an indirect value holds is kept.
Destroy_NoCascade(p, v) ==
    /\ destroyed' = destroyed \cup {v}
    /\ pending' = [pending EXCEPT ![p] = Tail(@)]

\* Destroying an indirect value drops the reference it holds.
Destroy(p, v) ==
    /\ destroyed' = destroyed \cup {v}
    /\ pending' = [pending EXCEPT ![p] =
         (IF v \in Indirect THEN <<DropOf(resolved[v])>> ELSE <<>>) \o Tail(@)]

\* The load: the last reference needs no decrement.
DropLoad(p) ==
    /\ pending[p] # <<>> /\ ~Head(pending[p]).loaded
    /\ LET v == Head(pending[p]).value IN
         \/ refcount[v] = 1 /\ Destroy(p, v)
         \/ /\ refcount[v] # 1
            /\ pending' = [pending EXCEPT ![p][1].loaded = TRUE]
            /\ UNCHANGED destroyed
    /\ UNCHANGED <<word, memory, refcount, pc, old, extra, runs>>

\* The decrement, which may find it has become the last
DropSub(p) ==
    /\ pending[p] # <<>> /\ Head(pending[p]).loaded
    /\ LET v == Head(pending[p]).value IN
         /\ refcount' = [refcount EXCEPT ![v] = @ - 1]
         /\ \/ refcount[v] = 1 /\ Destroy(p, v)
            \/ /\ refcount[v] # 1
               /\ pending' = [pending EXCEPT ![p] = Tail(@)]
               /\ UNCHANGED destroyed
    /\ UNCHANGED <<word, memory, pc, old, extra, runs>>

-----------------------------------------------------------------------------

\* A thread makes its calls one after the other.
HasTurn(p) ==
    p \in Clients /\ setup.after[p] # Null =>
        pc[setup.after[p]] = "registered" /\ pending[setup.after[p]] = <<>>

Step(p) ==
    /\ UNCHANGED setup
    /\ p \in Procs
    /\ \/ p \in Waiters /\ HasTurn(p) /\ Register(p)
       \/ p \in Indirect /\ Resolve(p)
       \/ p \in Values /\ Produce(p)
       \/ DropLoad(p) \/ DropSub(p)

Next == \E p \in AllProcs : Step(p)

Spec == Init /\ [][Next]_vars

\* Every thread is scheduled; tasks of the work queue run.
FairSpec == Spec /\ \A p \in AllProcs : WF_vars(Step(p))

-----------------------------------------------------------------------------
(* Properties *)

\* The nodes of the list that starts at node h
Chain(h) ==
    LET nth[n \in 0 .. Cardinality(Waiters)] ==
          IF n = 0 THEN h ELSE IF nth[n - 1] = Null THEN Null ELSE next[nth[n - 1]]
    IN  {nth[n] : n \in 0 .. Cardinality(Waiters)} \ {Null}

\* The producer of v has taken the waiters and is running them.
Notifying(v) == pc[v] \in {"extra", "first", "rest"}

\* The list nodes a value, or the producer that took its list, can reach
Nodes(v) == Chain(word[v].head) \cup IF Notifying(v) THEN Chain(old[v].head) ELSE {}

\* The payload area holds a waiter or the value, never one over the other: what is
\* emplaced stays, and an inline waiter is moved aside before.
PayloadIntact ==
    \A v \in Values :
        /\ IsReady(word[v].state) => payload[v] = "value"
        /\ pc[v] = "emplace" => payload[v] = Null

\* Between registration and its run a waiter is kept where the producer will find
\* it: it runs once, and only when the value is ready.
WaitersKept ==
    \A p \in Waiters :
        LET v == Awaited(p) IN
        /\ runs[p] <= 1
        /\ runs[p] = 1 => IsReady(word[v].state)
        /\ pc[p] = "registered" /\ runs[p] = 0 =>
             \/ payload[v] = p
             \/ extra[v] = p
             \/ \E n \in Nodes(v) : p \in {slots[n][i] : i \in 1 .. Slots}

\* A thread that has claimed an entry of a list node finds the node there, whatever
\* the producer has done with the list in the meantime.
NodesAlive ==
    /\ \A v \in Values : Nodes(v) \cap freed = {}
    /\ \A p \in Waiters : pc[p] = "set" => old[p].head \notin freed

\* "only static methods from here on": a value is not destroyed while a thread may
\* still access it, though its waiter may own the reference that thread came with,
\* nor before it is ready.
AliveWhenAccessed ==
    /\ \A v \in destroyed : IsReady(word[v].state)
    /\ \A p \in Waiters :
         pc[p] \in {"andThen", "claimInline", "construct", "publish", "try", "later", "resolve"} =>
            Awaited(p) \notin destroyed
    /\ \A v \in Values : pc[v] \in {"prepare", "emplace", "exchange"} => v \notin destroyed
    /\ \A p \in Procs : \A i \in DOMAIN pending[p] : pending[p][i].value \notin destroyed
    /\ \A v \in Indirect \ destroyed : resolved[v] # Null => resolved[v] \notin destroyed

\* "there can be at most one IndirectAsyncValue here": a resolved value holds a
\* concrete one, which is ready, and is ready in the same way, errors included.
ResolvedToConcrete ==
    \A v \in Indirect : resolved[v] # Null =>
        /\ resolved[v] \in Values \ Indirect
        /\ IsReady(word[resolved[v]].state)
        /\ IsReady(word[v].state) => word[v].state = word[resolved[v]].state

\* Every value becomes ready and every client's waiter runs, those behind a chain of
\* indirect values included.
WaitersRun ==
    <>((\A v \in Values : IsReady(word[v].state)) /\ (\A c \in Clients : runs[c] = 1))

\* With all references dropped, no value and no list node is left behind.
Reclaimed ==
    <>[](destroyed = Values /\ \A p \in Waiters : slots[p][1] = p => p \in freed)
=============================================================================
