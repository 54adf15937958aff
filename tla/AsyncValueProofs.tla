-------------------------- MODULE AsyncValueProofs --------------------------
(***************************************************************************)
(* Proofs about AsyncValue, for any values, clients, chains of indirect    *)
(* values and node sizes.                                                  *)
(***************************************************************************)
EXTENDS AsyncValue, TLAPS

Heads == Waiters \cup {Null}
Words == [state : 0 .. Slots + 3, head : Heads]
Labels == {"andThen", "claimInline", "construct", "publish", "try", "set", "later", "registered",
           "resolve", "prepare", "emplace", "exchange", "extra", "first", "rest", "done"}

TypeInv ==
    /\ setup \in Setups
    /\ word \in [Values -> Words] /\ old \in [Procs -> Words] /\ next \in [Waiters -> Heads]
    /\ pc \in [Procs -> Labels]
    /\ payload \in [Values -> Waiters \cup {Null, "value"}]
    /\ resolved \in [Indirect -> Values \cup {Null}]
    /\ \A v \in Values : pc[v] = "rest" => old[v].head # Null

\* The thread that initializes the inline waiter is the only one to do so, and nobody
\* moves the state on before it has.
Initializes(p) == pc[p] \in {"construct", "publish"}
InlineInv ==
    /\ \A p \in Waiters :
         /\ pc[p] = "claimInline" => old[p].state = kUnconstructed
         /\ Initializes(p) => word[Awaited(p)].state = kInitializing
    /\ \A p, q \in Waiters : Initializes(p) /\ Initializes(q) /\ Awaited(p) = Awaited(q) => p = q

\* The producer finds the payload area free, and the state is not that of a value that
\* is ready, or of one whose inline waiter is being initialized.
PayloadInv ==
    \A v \in Values :
        /\ word[v].state = kUnconstructed => payload[v] = Null
        /\ pc[v] \in {"emplace", "exchange"} => HasInlineWaiter(word[v].state)
        /\ pc[v] = "emplace" => payload[v] = Null
        /\ pc[v] = "exchange" => payload[v] = "value"
        /\ IsReady(word[v].state) => payload[v] = "value"

\* The concrete value at the end of the chain that starts with the target of v
HeldBy(v) == IF Target[v] \in Indirect THEN resolved[Target[v]] ELSE Target[v]

\* An indirect value is resolved when its target is ready, before it is itself.
ResolvedInv ==
    \A v \in Indirect :
        /\ resolved[v] # Null =>
             /\ resolved[v] = HeldBy(v) /\ resolved[v] \in Values \ Indirect
             /\ IsReady(word[Target[v]].state) /\ IsReady(word[resolved[v]].state)
        /\ pc[v] \in {"prepare", "emplace", "exchange"} => resolved[v] # Null
        /\ IsReady(word[v].state) => resolved[v] # Null /\ word[v].state = word[resolved[v]].state

\* The inductive invariant
AInv == TypeInv /\ InlineInv /\ PayloadInv /\ ResolvedInv

-----------------------------------------------------------------------------

\* What the setups are assumed to be
LEMMA SetupFacts ==
    ASSUME setup \in Setups
    PROVE  /\ Clients \cap Values = {} /\ Indirect \subseteq Values
           /\ Null \notin Procs /\ "value" \notin Procs /\ Null # "value"
           /\ Waiters \subseteq Procs /\ Values \subseteq Procs
           /\ \A v \in Indirect : Target[v] \in Values
           /\ \A p \in Waiters : Awaited(p) \in Values
BY AsyncValueAssumption DEF Clients, Values, Indirect, Target, On, Waiters, Procs, Awaited

\* The setup never changes.
LEMMA SetupKept ==
    ASSUME UNCHANGED setup
    PROVE  /\ Values' = Values /\ Indirect' = Indirect /\ Clients' = Clients
           /\ Waiters' = Waiters /\ Procs' = Procs /\ Target' = Target
           /\ Heads' = Heads /\ Words' = Words
           /\ \A p : Awaited(p)' = Awaited(p)
BY DEF Values, Indirect, Clients, Waiters, Procs, Target, On, Awaited, Heads, Words

\* The numbers of the states
LEMMA StateFacts ==
    /\ Slots \in Nat /\ Slots >= 2
    /\ \A s : IsReady(s) <=> s = Slots + 2 \/ s = Slots + 3
    /\ \A s \in Int : HasInlineWaiter(s) <=> 2 <= s /\ s <= Slots + 1
BY AsyncValueAssumption
   DEF IsReady, HasInlineWaiter, kValid, kAvailable, kError

\* Nobody has called.
LEMMA InitAInv == Init => AInv
<1> SUFFICES ASSUME Init PROVE AInv
  OBVIOUS
<1>1. setup \in Setups
  BY DEF Init
<1>2. Unread \in Words
  BY StateFacts DEF Unread, Words, Heads, kUnconstructed
<1>3. TypeInv
  BY <1>1, <1>2, SetupFacts DEF Init, TypeInv, Labels, Heads
<1>4. InlineInv
  BY <1>1, SetupFacts DEF Init, InlineInv, Initializes
<1>5. ~IsReady(kUnconstructed)
  BY StateFacts DEF kUnconstructed
<1>6. PayloadInv
  BY <1>1, <1>5, SetupFacts DEF Init, PayloadInv, Unread
<1>7. ResolvedInv
  BY <1>1, <1>5, SetupFacts DEF Init, ResolvedInv, Unread
<1> QED BY <1>3, <1>4, <1>6, <1>7 DEF AInv

-----------------------------------------------------------------------------
(* Steps *)

\* Labels at which a thread claims nothing of the invariant, but for TypeInv
Quiet == {"andThen", "try", "set", "later", "registered", "resolve", "extra", "first", "rest", "done"}

\* Process q goes on as before, or to a quiet label, or finds the word unconstructed.
GoesOn(q) ==
    \/ pc'[q] = pc[q] /\ old'[q] = old[q]
    \/ pc'[q] \in Quiet
    \/ pc'[q] = "claimInline" /\ old'[q].state = kUnconstructed

\* Steps that change no value keep the invariant.
LEMMA QuietStep ==
    ASSUME AInv, TypeInv', UNCHANGED <<setup, word, payload, resolved>>, \A q \in Procs : GoesOn(q)
    PROVE  AInv'
<1> USE DEF AInv
<1>1. setup \in Setups
  BY DEF TypeInv
<1>2. InlineInv'
  BY <1>1, SetupFacts, SetupKept DEF InlineInv, Initializes, GoesOn, Quiet
<1>3. PayloadInv'
  BY <1>1, SetupFacts, SetupKept DEF PayloadInv, GoesOn, Quiet
<1>4. ResolvedInv'
  <2>1. \A v \in Indirect : HeldBy(v)' = HeldBy(v)
    BY SetupKept DEF HeldBy
  <2> QED BY <1>1, <2>1, SetupFacts, SetupKept DEF ResolvedInv, GoesOn, Quiet
<1> QED BY <1>2, <1>3, <1>4

\* Steps that move the word of a value that is not ready, to a word that is not.
LEMMA WordStep ==
    ASSUME AInv, TypeInv', InlineInv', UNCHANGED <<setup, payload, resolved>>,
           NEW v \in Values, NEW w \in Words, word' = [word EXCEPT ![v] = w],
           ~IsReady(word[v].state), ~IsReady(w.state), w.state # kUnconstructed,
           HasInlineWaiter(word[v].state) => HasInlineWaiter(w.state),
           \A q \in Values : \/ GoesOn(q)
                             \/ pc'[q] \in {"construct"}
                             \/ /\ q = v /\ pc[q] = "prepare" /\ pc'[q] = "emplace" /\ payload[q] = Null
                                /\ HasInlineWaiter(w.state)
    PROVE  AInv'
<1> USE DEF AInv
<1>1. setup \in Setups
  BY DEF TypeInv
<1>2. word'[v] = w /\ \A u \in Values : u # v => word'[u] = word[u]
  BY DEF TypeInv
<1>3. PayloadInv'
  BY <1>1, <1>2, SetupFacts, SetupKept DEF PayloadInv, GoesOn, Quiet
<1>4. ResolvedInv'
  <2>1. \A u \in Indirect : HeldBy(u)' = HeldBy(u)
    BY SetupKept DEF HeldBy
  <2>2. \A u \in Values : IsReady(word[u].state) => word'[u] = word[u]
    BY <1>2
  <2>3. \A u \in Values : IsReady(word'[u].state) => word'[u] = word[u]
    BY <1>2
  <2>4. ASSUME NEW u \in Indirect
        PROVE  /\ resolved[u] # Null =>
                    /\ resolved[u] = HeldBy(u) /\ resolved[u] \in Values \ Indirect
                    /\ IsReady(word'[Target[u]].state) /\ IsReady(word'[resolved[u]].state)
               /\ pc'[u] \in {"prepare", "emplace", "exchange"} => resolved[u] # Null
               /\ IsReady(word'[u].state) => resolved[u] # Null /\ word'[u].state = word'[resolved[u]].state
    BY <1>1, <2>2, <2>3, SetupFacts DEF ResolvedInv, GoesOn, Quiet
  <2> QED BY <2>1, <2>4, SetupKept DEF ResolvedInv
<1> QED BY <1>3, <1>4

\* A step of p that changes no value, and sets at most other processes to resolve.
LEMMA QuietMove ==
    ASSUME AInv, UNCHANGED <<setup, word, payload, resolved, next>>, NEW p \in Procs,
           old' \in [Procs -> Words], pc' \in [Procs -> Labels],
           \A q \in Procs \ {p} : old'[q] = old[q] /\ (pc'[q] = pc[q] \/ pc'[q] = "resolve"),
           pc'[p] \in Quiet \/ (pc'[p] = "claimInline" /\ old'[p].state = kUnconstructed),
           pc'[p] = "rest" => old'[p].head # Null
    PROVE  AInv'
<1>1. setup \in Setups
  BY DEF AInv, TypeInv
<1>2. TypeInv'
  BY <1>1, SetupFacts, SetupKept DEF AInv, TypeInv
<1>3. \A q \in Procs : GoesOn(q)
  BY DEF GoesOn, Quiet
<1> QED BY <1>2, <1>3, QuietStep

\* So do the steps that run waiters.
LEMMA RunStep ==
    ASSUME AInv, UNCHANGED <<setup, word, payload, resolved, next>>, NEW p \in Procs, NEW S,
           NEW l \in Quiet, RunWaiters(S, p, l), NEW w \in Words,
           old' = old \/ old' = [old EXCEPT ![p] = w],
           l = "rest" => old' = old /\ old[p].head # Null
    PROVE  AInv'
<1>1. old' \in [Procs -> Words]
  BY DEF AInv, TypeInv
<1>2. pc' = [q \in Procs |-> IF q \in S \cap Indirect THEN "resolve" ELSE IF q = p THEN l ELSE pc[q]]
  BY DEF RunWaiters
<1>3. pc' \in [Procs -> Labels]
  BY <1>2 DEF AInv, TypeInv, Labels, Quiet
<1>4. \A q \in Procs \ {p} : old'[q] = old[q] /\ (pc'[q] = pc[q] \/ pc'[q] = "resolve")
  BY <1>2 DEF AInv, TypeInv
<1>5. pc'[p] \in Quiet /\ (pc'[p] = "rest" => l = "rest")
  BY <1>2 DEF Quiet
<1> QED BY <1>1, <1>3, <1>4, <1>5, QuietMove

\* A step of andThen that moves the word of the awaited value, nobody else initializing its
\* inline waiter.
LEMMA ExchangeStep ==
    ASSUME AInv, UNCHANGED <<setup, payload, resolved>>, NEW p \in Waiters, NEW w \in Words,
           NEW l \in {"construct", "set", "registered"}, pc' = [pc EXCEPT ![p] = l],
           word' = [word EXCEPT ![Awaited(p)] = w], next' \in [Waiters -> Heads],
           old' \in [Procs -> Words], \A q \in Procs \ {p} : old'[q] = old[q],
           word[Awaited(p)].state # kInitializing \/ Initializes(p),
           ~IsReady(word[Awaited(p)].state), ~IsReady(w.state), w.state # kUnconstructed,
           HasInlineWaiter(word[Awaited(p)].state) => HasInlineWaiter(w.state),
           l = "construct" => w.state = kInitializing
    PROVE  AInv'
<1>0. setup \in Setups /\ p \in Procs /\ Awaited(p) \in Values
  BY SetupFacts DEF AInv, TypeInv
<1>1. /\ pc' \in [Procs -> Labels] /\ pc'[p] = l /\ \A q \in Procs \ {p} : pc'[q] = pc[q]
  BY <1>0 DEF AInv, TypeInv, Labels
<1>2. /\ word' \in [Values -> Words] /\ word'[Awaited(p)] = w
      /\ \A u \in Values \ {Awaited(p)} : word'[u] = word[u]
  BY <1>0 DEF AInv, TypeInv
<1>3. TypeInv'
  BY <1>0, <1>1, <1>2, SetupFacts, SetupKept DEF AInv, TypeInv
<1>4. InlineInv'
  <2>1. \A q \in Waiters \ {p} : Initializes(q) => Awaited(q) # Awaited(p)
    BY DEF AInv, InlineInv
  <2>2. \A q \in Waiters \ {p} : /\ pc'[q] = pc[q] /\ old'[q] = old[q] /\ Awaited(q) \in Values
                               /\ (Initializes(q)' <=> Initializes(q))
    BY <1>0, <1>1, SetupFacts DEF Initializes
  <2>3. ASSUME NEW q \in Waiters
        PROVE  /\ pc'[q] = "claimInline" => old'[q].state = kUnconstructed
               /\ pc'[q] \in {"construct", "publish"} => word'[Awaited(q)].state = kInitializing
    BY <1>1, <1>2, <2>1, <2>2 DEF AInv, InlineInv, Initializes
  <2>4. ASSUME NEW q \in Waiters, NEW r \in Waiters, Initializes(q)', Initializes(r)', Awaited(q) = Awaited(r)
        PROVE  q = r
    BY <2>1, <2>2, <2>4 DEF AInv, InlineInv
  <2>5. /\ Waiters' = Waiters /\ kUnconstructed' = kUnconstructed /\ kInitializing' = kInitializing
        /\ \A q \in Waiters : Awaited(q)' = Awaited(q)
    BY SetupKept DEF kUnconstructed, kInitializing
  <2>6. (\A q \in Waiters : /\ pc[q] = "claimInline" => old[q].state = kUnconstructed
                            /\ Initializes(q) => word[Awaited(q)].state = kInitializing)'
    BY <2>3, <2>5, Zenon DEF Initializes
  <2>7. (\A q, r \in Waiters : Initializes(q) /\ Initializes(r) /\ Awaited(q) = Awaited(r) => q = r)'
    BY <2>4, <2>5 DEF Initializes
  <2> QED BY <2>6, <2>7 DEF InlineInv
<1>5. \A q \in Values : GoesOn(q) \/ pc'[q] = "construct"
  BY <1>0, <1>1, SetupFacts DEF GoesOn, Quiet
<1> QED BY <1>0, <1>3, <1>4, <1>5, WordStep

\* Every step of andThen keeps the invariant.
LEMMA RegisterAInv ==
    ASSUME AInv, UNCHANGED setup, NEW p \in Waiters, Register(p)
    PROVE  AInv'
<1> DEFINE v == Awaited(p)
<1>0. /\ setup \in Setups /\ p \in Procs /\ v \in Values /\ Unread \in Words
      /\ old[p] \in Words /\ word[v] \in Words
  BY SetupFacts, StateFacts DEF AInv, TypeInv, Unread, Words, Heads, kUnconstructed
<1>1. /\ pc \in [Procs -> Labels] /\ old \in [Procs -> Words] /\ word \in [Values -> Words]
  BY DEF AInv, TypeInv
<1> HIDE DEF v
<1>2. ASSUME NEW l \in Quiet \ {"rest"}, NEW w \in Words, Goto(p, l), old' = [old EXCEPT ![p] = w],
             UNCHANGED <<word, payload, resolved, next>>
      PROVE  AInv'
  <2>1. pc' \in [Procs -> Labels] /\ pc'[p] = l /\ \A q \in Procs \ {p} : pc'[q] = pc[q]
    BY <1>0, <1>1, <1>2 DEF Goto, Labels, Quiet
  <2>2. old' \in [Procs -> Words] /\ \A q \in Procs \ {p} : old'[q] = old[q]
    BY <1>0, <1>1, <1>2
  <2> QED BY <1>0, <1>2, <2>1, <2>2, QuietMove
<1>3. ASSUME RunOwn(p), UNCHANGED <<word, payload, resolved, next>> PROVE AInv'
  BY <1>0, <1>3, RunStep DEF RunOwn, Quiet
<1>4. ASSUME AndThen(p) PROVE AInv'
  <2>1. CASE IsReady(word[v].state)
    BY <1>3, <1>4, <2>1 DEF AndThen, v, memory
  <2>2. CASE ~IsReady(word[v].state) /\ word[v].state # kUnconstructed
    BY <1>0, <1>2, <1>4, <2>2 DEF AndThen, v, memory, Quiet
  <2>3. CASE ~IsReady(word[v].state) /\ word[v].state = kUnconstructed
    <3>1. /\ pc' = [pc EXCEPT ![p] = "claimInline"] /\ old' = [old EXCEPT ![p] = word[v]]
          /\ UNCHANGED <<word, payload, resolved, next>>
      BY <1>4, <2>3 DEF AndThen, v, memory, Goto
    <3>2. pc' \in [Procs -> Labels] /\ old' \in [Procs -> Words]
      BY <1>0, <1>1, <3>1 DEF Labels
    <3>3. /\ pc'[p] = "claimInline" /\ old'[p].state = kUnconstructed
          /\ \A q \in Procs \ {p} : pc'[q] = pc[q] /\ old'[q] = old[q]
      BY <1>0, <1>1, <2>3, <3>1
    <3> QED BY <1>0, <3>1, <3>2, <3>3, QuietMove
  <2> QED BY <2>1, <2>2, <2>3
<1>5. ASSUME Reread(p), UNCHANGED <<payload, resolved, next>>,
             Goto(p, "try") \/ Goto(p, "later") \/ (UNCHANGED pc /\ pc[p] = "try")
      PROVE  AInv'
  <2>1. old' = [old EXCEPT ![p] = word[v]] /\ UNCHANGED word
    BY <1>5 DEF Reread, v
  <2>2. Goto(p, "try") \/ Goto(p, "later")
    BY <1>0, <1>1, <1>5 DEF Goto
  <2> QED BY <1>0, <1>2, <1>5, <2>1, <2>2 DEF Quiet
<1>6. ASSUME SpinInitializing(p) PROVE AInv'
  <2>1. Goto(p, "try") /\ old' = [old EXCEPT ![p] = word[v]] /\ UNCHANGED <<word, payload, resolved, next>>
    BY <1>0, <1>1, <1>6 DEF SpinInitializing, At, Goto, memory, v
  <2> QED BY <1>0, <1>2, <2>1 DEF Quiet
<1>7. ASSUME RunNow(p) \/ RunLater(p) PROVE AInv'
  BY <1>3, <1>7 DEF RunNow, RunLater, memory
<1>8. ASSUME SetWaiter(p) PROVE AInv'
  BY <1>0, <1>2, <1>8 DEF SetWaiter, Registered, Quiet
<1>9. ASSUME ClaimInline(p) PROVE AInv'
  <2>1. CASE Exchanged(p, [old[p] EXCEPT !.state = kInitializing]) /\ Goto(p, "construct") /\ UNCHANGED old
    <3> DEFINE w == [old[p] EXCEPT !.state = kInitializing]
    <3>1. word[v].state = kUnconstructed
      BY <1>9, <2>1 DEF Exchanged, ClaimInline, At, AInv, InlineInv, v
    <3>2. w \in Words /\ w.state = kInitializing
      BY <1>0, StateFacts DEF Words, kInitializing
    <3>3. /\ ~IsReady(word[v].state) /\ ~IsReady(w.state) /\ w.state # kUnconstructed
          /\ ~HasInlineWaiter(word[v].state) /\ word[v].state # kInitializing
      BY <3>1, <3>2, StateFacts DEF kUnconstructed, kInitializing
    <3>4. /\ word' = [word EXCEPT ![v] = w] /\ UNCHANGED <<payload, resolved, next>>
          /\ pc' = [pc EXCEPT ![p] = "construct"]
      BY <1>9, <2>1 DEF Exchanged, ClaimInline, Goto, memory, v
    <3>5. next' \in [Waiters -> Heads] /\ old' \in [Procs -> Words] /\ \A q \in Procs \ {p} : old'[q] = old[q]
      BY <2>1, <3>4 DEF AInv, TypeInv
    <3> HIDE DEF w
    <3> QED BY <3>2, <3>3, <3>4, <3>5, ExchangeStep DEF v
  <2>2. CASE Reread(p) /\ Goto(p, "try")
    BY <1>5, <1>9, <2>2 DEF ClaimInline, memory
  <2> QED BY <1>9, <2>1, <2>2 DEF ClaimInline
<1>10. ASSUME ConstructInline(p) PROVE AInv'
  <2>1. /\ pc' = [pc EXCEPT ![p] = "publish"] /\ payload' = [payload EXCEPT ![v] = p]
        /\ UNCHANGED <<word, resolved, next, old>> /\ Initializes(p)
    BY <1>10 DEF ConstructInline, At, Goto, Initializes, v
  <2>2. pc' \in [Procs -> Labels] /\ pc'[p] = "publish" /\ \A q \in Procs \ {p} : pc'[q] = pc[q]
    BY <1>0, <1>1, <2>1 DEF Labels
  <2>3. /\ payload' \in [Values -> Waiters \cup {Null, "value"}]
        /\ \A u \in Values \ {v} : payload'[u] = payload[u]
    BY <1>0, <2>1 DEF AInv, TypeInv
  <2>4. TypeInv'
    BY <1>0, <2>1, <2>2, <2>3, SetupFacts, SetupKept DEF AInv, TypeInv
  <2>5. /\ ~IsReady(word[v].state) /\ ~HasInlineWaiter(word[v].state)
        /\ word[v].state # kUnconstructed
    BY <2>1, StateFacts DEF AInv, InlineInv, v, kInitializing, kUnconstructed
  <2>6. InlineInv'
    <3>1. \A q \in Waiters : (Initializes(q)' => Initializes(q)) /\ (pc'[q] = "claimInline" => pc[q] = "claimInline")
      BY <1>0, <2>1, <2>2, SetupFacts DEF Initializes
    <3> QED BY <2>1, <3>1, SetupKept DEF AInv, InlineInv
  <2>7. PayloadInv'
    <3>1. \A u \in Values : pc'[u] \in {"emplace", "exchange"} => pc'[u] = pc[u]
      BY <1>0, <2>2, SetupFacts
    <3> QED BY <1>0, <2>1, <2>3, <2>5, <3>1, SetupKept DEF AInv, PayloadInv
  <2>8. ResolvedInv'
    <3>1. \A u \in Indirect : pc'[u] \in {"prepare", "emplace", "exchange"} => pc'[u] = pc[u]
      BY <1>0, <2>2, SetupFacts
    <3>2. \A u \in Indirect : HeldBy(u)' = HeldBy(u)
      BY <2>1, SetupKept DEF HeldBy
    <3> QED BY <2>1, <3>1, <3>2, SetupKept DEF AInv, ResolvedInv
  <2> QED BY <2>4, <2>6, <2>7, <2>8 DEF AInv
<1>11. ASSUME PublishInline(p) PROVE AInv'
  <2> DEFINE w == [word[v] EXCEPT !.state = @ + Slots]
  <2>1. Initializes(p) /\ word[v].state = kInitializing
    BY <1>11 DEF PublishInline, At, AInv, InlineInv, Initializes, v
  <2>2. w \in Words /\ w.state = Slots + 1
    BY <1>0, <2>1, StateFacts DEF Words, kInitializing
  <2>3. /\ ~IsReady(word[v].state) /\ ~IsReady(w.state) /\ w.state # kUnconstructed
        /\ HasInlineWaiter(w.state)
    BY <2>1, <2>2, StateFacts DEF kUnconstructed, kInitializing
  <2>4. /\ word' = [word EXCEPT ![v] = w] /\ UNCHANGED <<payload, resolved, next>>
        /\ pc' = [pc EXCEPT ![p] = "registered"] /\ old' = [old EXCEPT ![p] = Unread]
    BY <1>11 DEF PublishInline, Registered, Goto, memory, v
  <2>5. next' \in [Waiters -> Heads] /\ old' \in [Procs -> Words] /\ \A q \in Procs \ {p} : old'[q] = old[q]
    BY <1>0, <1>1, <2>4 DEF AInv, TypeInv
  <2> HIDE DEF w
  <2> QED BY <2>1, <2>2, <2>3, <2>4, <2>5, ExchangeStep DEF v
<1>12. ASSUME ClaimSlot(p) PROVE AInv'
  <2>1. CASE Exchanged(p, [old[p] EXCEPT !.state = @ + 1]) /\ Goto(p, "set") /\ UNCHANGED old
    <3> DEFINE w == [old[p] EXCEPT !.state = @ + 1]
    <3>1. /\ word[v] = old[p] /\ HasInlineWaiter(old[p].state) /\ old[p].state < Slots + 1
          /\ old[p].state \in Nat
      BY <1>0, <1>12, <2>1, StateFacts DEF Exchanged, ClaimSlot, NumValid, kInitializing, Words, v
    <3>2. w \in Words /\ w.state = old[p].state + 1
      BY <1>0, <3>1, StateFacts DEF Words
    <3>3. /\ ~IsReady(word[v].state) /\ ~IsReady(w.state) /\ w.state # kUnconstructed
          /\ HasInlineWaiter(w.state) /\ word[v].state # kInitializing
      BY <3>1, <3>2, StateFacts DEF kUnconstructed, kInitializing
    <3>4. /\ word' = [word EXCEPT ![v] = w] /\ UNCHANGED <<payload, resolved, next>>
          /\ pc' = [pc EXCEPT ![p] = "set"]
      BY <1>12, <2>1 DEF Exchanged, ClaimSlot, Goto, memory, v
    <3>5. next' \in [Waiters -> Heads] /\ old' \in [Procs -> Words] /\ \A q \in Procs \ {p} : old'[q] = old[q]
      BY <2>1, <3>4 DEF AInv, TypeInv
    <3> HIDE DEF w
    <3> QED BY <3>2, <3>3, <3>4, <3>5, ExchangeStep DEF v
  <2>2. CASE Reread(p) /\ UNCHANGED pc
    BY <1>5, <1>12, <2>2 DEF ClaimSlot, At, memory
  <2> QED BY <1>12, <2>1, <2>2 DEF ClaimSlot
<1>13. ASSUME InstallNode(p) PROVE AInv'
  <2>1. CASE Reread(p) /\ Goto(p, IF IsReady(word[v].state) THEN "later" ELSE "try") /\ UNCHANGED next
    BY <1>5, <1>13, <2>1 DEF InstallNode
  <2>2. CASE /\ Exchanged(p, [state |-> kValid(1), head |-> p])
             /\ next' = [next EXCEPT ![p] = old[p].head] /\ Registered(p)
    <3> DEFINE w == [state |-> kValid(1), head |-> p]
    <3>1. word[v].state = Slots + 1
      BY <1>13, <2>2, StateFacts DEF Exchanged, InstallNode, kValid, v
    <3>2. w \in Words /\ w.state = 2
      BY StateFacts DEF Words, Heads, kValid
    <3>3. /\ ~IsReady(word[v].state) /\ ~IsReady(w.state) /\ w.state # kUnconstructed
          /\ HasInlineWaiter(w.state) /\ word[v].state # kInitializing
      BY <3>1, <3>2, StateFacts DEF kUnconstructed, kInitializing
    <3>4. /\ word' = [word EXCEPT ![v] = w] /\ UNCHANGED <<payload, resolved>>
          /\ pc' = [pc EXCEPT ![p] = "registered"] /\ old' = [old EXCEPT ![p] = Unread]
      BY <1>13, <2>2 DEF Exchanged, InstallNode, Registered, Goto, v
    <3>5. next' \in [Waiters -> Heads] /\ old' \in [Procs -> Words] /\ \A q \in Procs \ {p} : old'[q] = old[q]
      BY <1>0, <1>1, <2>2, <3>4 DEF AInv, TypeInv, Words
    <3> HIDE DEF w
    <3> QED BY <3>2, <3>3, <3>4, <3>5, ExchangeStep DEF v
  <2> QED BY <1>13, <2>1, <2>2 DEF InstallNode, v
<1> QED BY <1>4, <1>6, <1>7, <1>8, <1>9, <1>10, <1>11, <1>12, <1>13 DEF Register

\* Every step of dropRef, which changes no value but its count, keeps the invariant.
LEMMA DropAInv ==
    ASSUME AInv, UNCHANGED setup, NEW p \in Procs, DropLoad(p) \/ DropSub(p)
    PROVE  AInv'
<1>1. UNCHANGED <<word, payload, resolved, next, pc, old>>
  BY DEF DropLoad, DropSub, memory
<1>2. TypeInv'
  BY <1>1, SetupKept DEF AInv, TypeInv
<1> QED BY <1>1, <1>2, QuietStep DEF GoesOn

\* Resolving an indirect value keeps the invariant: what its target holds is known.
LEMMA ResolveAInv ==
    ASSUME AInv, UNCHANGED setup, NEW v \in Indirect, Resolve(v)
    PROVE  AInv'
<1> DEFINE t == Target[v]
<1>0. /\ setup \in Setups /\ v \in Procs /\ v \in Values /\ t \in Values
      /\ pc \in [Procs -> Labels] /\ old \in [Procs -> Words]
      /\ UNCHANGED <<word, payload, next, old>>
  BY SetupFacts DEF AInv, TypeInv, Resolve
<1> HIDE DEF t
<1>1. CASE Goto(v, "andThen") /\ UNCHANGED resolved
  <2>1. pc' \in [Procs -> Labels] /\ pc'[v] = "andThen" /\ \A q \in Procs \ {v} : pc'[q] = pc[q]
    BY <1>0, <1>1 DEF Goto, Labels
  <2> QED BY <1>0, <1>1, <2>1, QuietMove DEF Quiet
<1>2. CASE IsReady(word[t].state) /\ Goto(v, "prepare") /\ resolved' = [resolved EXCEPT ![v] = HeldBy(v)]
  <2>1. pc' \in [Procs -> Labels] /\ pc'[v] = "prepare" /\ \A q \in Procs \ {v} : pc'[q] = pc[q]
    BY <1>0, <1>2 DEF Goto, Labels
  <2>2. /\ HeldBy(v) \in Values \ Indirect /\ HeldBy(v) # Null
        /\ IsReady(word[HeldBy(v)].state)
    BY <1>0, <1>2, SetupFacts DEF AInv, ResolvedInv, HeldBy, t
  <2>3. /\ resolved' \in [Indirect -> Values \cup {Null}] /\ resolved'[v] = HeldBy(v)
        /\ \A u \in Indirect \ {v} : resolved'[u] = resolved[u]
    BY <1>2, <2>2 DEF AInv, TypeInv
  <2>4. resolved[v] # Null => resolved' = resolved
    BY <1>2 DEF AInv, TypeInv, ResolvedInv
  <2>5. TypeInv'
    BY <1>0, <2>1, <2>3, SetupFacts, SetupKept DEF AInv, TypeInv
  <2>6. InlineInv'
    <3>1. \A q \in Waiters : (Initializes(q)' => Initializes(q)) /\ (pc'[q] = "claimInline" => pc[q] = "claimInline")
      BY <1>0, <2>1, SetupFacts DEF Initializes
    <3> QED BY <1>0, <3>1, SetupKept DEF AInv, InlineInv
  <2>7. PayloadInv'
    <3>1. \A u \in Values : pc'[u] \in {"emplace", "exchange"} => pc'[u] = pc[u]
      BY <1>0, <2>1, SetupFacts
    <3> QED BY <1>0, <3>1, SetupKept DEF AInv, PayloadInv
  <2>8. ResolvedInv'
    <3>1. ASSUME NEW u \in Indirect, resolved'[u] # Null
          PROVE  HeldBy(u)' = HeldBy(u) /\ resolved'[u] = HeldBy(u)
      <4>1. Target[u] \in Indirect => resolved[Target[u]] # Null
        <5>1. CASE u = v
          BY <1>0, <1>2, <5>1 DEF AInv, ResolvedInv, t
        <5>2. CASE u # v
          BY <2>3, <3>1, <5>2, SetupFacts, <1>0 DEF AInv, ResolvedInv, HeldBy
        <5> QED BY <5>1, <5>2
      <4>2. Target[u] \in Indirect => resolved'[Target[u]] = resolved[Target[u]]
        BY <2>3, <2>4, <4>1
      <4>3. HeldBy(u)' = HeldBy(u)
        BY <4>2, SetupKept DEF HeldBy
      <4>4. resolved'[u] = HeldBy(u)
        BY <2>3, <3>1 DEF AInv, ResolvedInv
      <4> QED BY <4>3, <4>4
    <3>2. \A u \in Indirect : pc'[u] \in {"prepare", "emplace", "exchange"} => resolved'[u] # Null
      BY <1>0, <2>1, <2>2, <2>3, SetupFacts DEF AInv, ResolvedInv
    <3>3. \A u \in Indirect : IsReady(word[u].state) =>
            resolved'[u] # Null /\ word[u].state = word[resolved'[u]].state
      BY <2>3, <2>4 DEF AInv, ResolvedInv
    <3>4. \A u \in Indirect : resolved'[u] # Null =>
            /\ resolved'[u] \in Values \ Indirect
            /\ IsReady(word[Target[u]].state) /\ IsReady(word[resolved'[u]].state)
      BY <1>2, <2>2, <2>3 DEF AInv, ResolvedInv, t
    <3> QED BY <1>0, <3>1, <3>2, <3>3, <3>4, SetupKept DEF ResolvedInv
  <2> QED BY <2>5, <2>6, <2>7, <2>8 DEF AInv
<1> QED BY <1>1, <1>2 DEF Resolve, Collapse, HeldBy, t

\* The producer moves the inline waiter aside, or puts the value in its place: nobody else
\* has anything to do with the payload area of a value that has an inline waiter.
LEMMA PayloadStep ==
    ASSUME AInv, UNCHANGED <<setup, word, resolved, next, old>>, NEW v \in Values,
           NEW x \in {Null, "value"}, payload' = [payload EXCEPT ![v] = x],
           NEW l, pc' = [pc EXCEPT ![v] = l], HasInlineWaiter(word[v].state),
           \/ pc[v] = "prepare" /\ l = "emplace" /\ x = Null
           \/ pc[v] = "emplace" /\ l = "exchange" /\ x = "value"
    PROVE  AInv'
<1>0. setup \in Setups /\ v \in Procs
  BY SetupFacts DEF AInv, TypeInv
<1>1. pc' \in [Procs -> Labels] /\ pc'[v] = l /\ \A q \in Procs \ {v} : pc'[q] = pc[q]
  BY <1>0 DEF AInv, TypeInv, Labels
<1>2. /\ payload' \in [Values -> Waiters \cup {Null, "value"}] /\ payload'[v] = x
      /\ \A u \in Values \ {v} : payload'[u] = payload[u]
  BY DEF AInv, TypeInv
<1>3. TypeInv'
  BY <1>0, <1>1, <1>2, SetupFacts, SetupKept DEF AInv, TypeInv
<1>4. InlineInv'
  <2>1. \A q \in Waiters : (Initializes(q)' => Initializes(q)) /\ (pc'[q] = "claimInline" => pc[q] = "claimInline")
    BY <1>0, <1>1, SetupFacts DEF Initializes
  <2> QED BY <2>1, SetupKept DEF AInv, InlineInv
<1>5. ~IsReady(word[v].state) /\ word[v].state # kUnconstructed
  BY StateFacts DEF AInv, TypeInv, Words, kUnconstructed
<1>6. PayloadInv'
  BY <1>0, <1>1, <1>2, <1>5, SetupFacts, SetupKept DEF AInv, PayloadInv
<1>7. ResolvedInv'
  <2>1. \A u \in Indirect : pc'[u] \in {"prepare", "emplace", "exchange"} =>
                             pc[u] \in {"prepare", "emplace", "exchange"}
    BY <1>0, <1>1, SetupFacts
  <2>2. \A u \in Indirect : HeldBy(u)' = HeldBy(u)
    BY SetupKept DEF HeldBy
  <2> QED BY <2>1, <2>2, SetupKept DEF AInv, ResolvedInv
<1> QED BY <1>3, <1>4, <1>6, <1>7 DEF AInv

\* Nobody initializes an inline waiter, or tries to, who did not before.
InlineMove ==
    \A q \in Waiters :
        /\ Initializes(q)' => Initializes(q) /\ word'[Awaited(q)] = word[Awaited(q)]
        /\ pc'[q] = "claimInline" => pc[q] = "claimInline" /\ old'[q] = old[q]

\* Such a step keeps InlineInv.
LEMMA InlineKept ==
    ASSUME InlineInv, UNCHANGED setup,
           InlineMove
    PROVE  InlineInv'
<1>1. ASSUME NEW q \in Waiters
      PROVE  /\ pc'[q] = "claimInline" => old'[q].state = kUnconstructed
             /\ Initializes(q)' => word'[Awaited(q)].state = kInitializing
  BY DEF InlineInv, InlineMove
<1>2. ASSUME NEW q \in Waiters, NEW r \in Waiters, Initializes(q)', Initializes(r)', Awaited(q) = Awaited(r)
      PROVE  q = r
  BY <1>2 DEF InlineInv, InlineMove
<1>3. /\ Waiters' = Waiters /\ kUnconstructed' = kUnconstructed /\ kInitializing' = kInitializing
      /\ \A q \in Waiters : Awaited(q)' = Awaited(q)
  BY SetupKept DEF kUnconstructed, kInitializing
<1>4. (\A q \in Waiters : /\ pc[q] = "claimInline" => old[q].state = kUnconstructed
                          /\ Initializes(q) => word[Awaited(q)].state = kInitializing)'
  BY <1>1, <1>3, Zenon
<1>5. (\A q, r \in Waiters : Initializes(q) /\ Initializes(r) /\ Awaited(q) = Awaited(r) => q = r)'
  BY <1>2, <1>3, Zenon
<1> QED BY <1>4, <1>5 DEF InlineInv

\* A step of the producer is one, if the inline waiter is not being initialized.
LEMMA ProducerMove ==
    ASSUME AInv, NEW v \in Values, word[v].state # kInitializing, pc'[v] \in {"emplace", "extra"},
           \A q \in Procs \ {v} : pc'[q] = pc[q] /\ old'[q] = old[q],
           \A u \in Values \ {v} : word'[u] = word[u]
    PROVE  InlineMove
<1>0. setup \in Setups
  BY DEF AInv, TypeInv
<1>1. ASSUME NEW q \in Waiters, Initializes(q)'
      PROVE  Initializes(q) /\ word'[Awaited(q)] = word[Awaited(q)]
  <2>1. q # v
    BY <1>1 DEF Initializes
  <2>2. pc'[q] = pc[q] /\ Awaited(q) \in Values
    BY <1>0, <2>1, SetupFacts
  <2>3. Initializes(q)
    BY <1>1, <2>2 DEF Initializes
  <2>4. word[Awaited(q)].state = kInitializing
    BY <2>3 DEF AInv, InlineInv
  <2>5. Awaited(q) # v
    BY <2>4
  <2> QED BY <2>2, <2>3, <2>5
<1>2. ASSUME NEW q \in Waiters, pc'[q] = "claimInline"
      PROVE  pc[q] = "claimInline" /\ old'[q] = old[q]
  BY <1>0, <1>2, SetupFacts
<1> QED BY <1>1, <1>2 DEF InlineMove

\* A value becomes ready with its payload in place, and an indirect one as its target did.
LEMMA NotifyReadyAInv ==
    ASSUME AInv, UNCHANGED setup, NEW v \in Values, NotifyReady(v)
    PROVE  AInv'
<1> DEFINE w == [state |-> ReadyState(v), head |-> Null]
<1>0. setup \in Setups /\ v \in Procs /\ word[v] \in Words
  BY SetupFacts DEF AInv, TypeInv
<1>1. /\ pc[v] = "exchange" /\ pc' = [pc EXCEPT ![v] = "extra"] /\ old' = [old EXCEPT ![v] = word[v]]
      /\ word' = [word EXCEPT ![v] = w] /\ UNCHANGED <<payload, resolved, next>>
  BY DEF NotifyReady, At, Goto, memory
<1>2. /\ HasInlineWaiter(word[v].state) /\ payload[v] = "value"
      /\ v \in Indirect => resolved[v] # Null
  BY <1>1 DEF AInv, PayloadInv, ResolvedInv
<1>3. word[v].state # kInitializing /\ ~IsReady(word[v].state)
  BY <1>0, <1>2, StateFacts DEF Words, kInitializing
<1>4. IsReady(w.state)
  BY <1>2 DEF ReadyState, AInv, ResolvedInv, IsReady
<1>5. w \in Words /\ w.state # kUnconstructed
  BY <1>4, StateFacts DEF Words, Heads, kUnconstructed
<1>6. v \in Indirect => w.state = word[resolved[v]].state
  BY <1>2, SetupFacts DEF ReadyState, AInv, ResolvedInv, HeldBy
<1> HIDE DEF w
<1>7. pc' \in [Procs -> Labels] /\ pc'[v] = "extra" /\ \A q \in Procs \ {v} : pc'[q] = pc[q]
  BY <1>0, <1>1 DEF AInv, TypeInv, Labels
<1>8. word' \in [Values -> Words] /\ word'[v] = w /\ \A u \in Values \ {v} : word'[u] = word[u]
  BY <1>1, <1>5 DEF AInv, TypeInv
<1>9. old' \in [Procs -> Words] /\ \A q \in Procs \ {v} : old'[q] = old[q]
  BY <1>0, <1>1 DEF AInv, TypeInv
<1>10. TypeInv'
  BY <1>0, <1>1, <1>7, <1>8, <1>9, SetupFacts, SetupKept DEF AInv, TypeInv
<1>11. InlineInv'
  <2>1. InlineMove
    BY <1>3, <1>7, <1>8, <1>9, ProducerMove
  <2> QED BY <2>1, InlineKept DEF AInv
<1>12. PayloadInv'
  BY <1>0, <1>1, <1>2, <1>5, <1>7, <1>8, SetupFacts, SetupKept DEF AInv, PayloadInv
<1>13. ResolvedInv'
  <2>1. \A u \in Indirect : HeldBy(u)' = HeldBy(u)
    BY <1>1, SetupKept DEF HeldBy
  <2>2. \A u \in Values : IsReady(word[u].state) => word'[u] = word[u]
    BY <1>3, <1>8
  <2>3. ASSUME NEW u \in Indirect
        PROVE  /\ resolved[u] # Null =>
                    /\ resolved[u] = HeldBy(u) /\ resolved[u] \in Values \ Indirect
                    /\ IsReady(word'[Target[u]].state) /\ IsReady(word'[resolved[u]].state)
               /\ pc'[u] \in {"prepare", "emplace", "exchange"} => resolved[u] # Null
    BY <1>0, <1>7, <2>2, SetupFacts DEF AInv, ResolvedInv
  <2>4. ASSUME NEW u \in Indirect, IsReady(word'[u].state)
        PROVE  resolved[u] # Null /\ word'[u].state = word'[resolved[u]].state
    <3>1. CASE u = v
      BY <1>2, <1>6, <1>8, <2>2, <3>1 DEF AInv, ResolvedInv
    <3>2. CASE u # v
      BY <1>0, <1>8, <2>2, <2>4, <3>2, SetupFacts DEF AInv, ResolvedInv
    <3> QED BY <3>1, <3>2
  <2> QED BY <1>1, <2>1, <2>3, <2>4, SetupKept DEF ResolvedInv
<1> QED BY <1>10, <1>11, <1>12, <1>13 DEF AInv

\* Every step of emplaceAndDecRef and setToErrorAndDecRef keeps the invariant.
LEMMA ProduceAInv ==
    ASSUME AInv, UNCHANGED setup, NEW v \in Values, Produce(v)
    PROVE  AInv'
<1>0. /\ setup \in Setups /\ v \in Procs /\ old[v] \in Words /\ word[v] \in Words /\ Unread \in Words
  BY SetupFacts, StateFacts DEF AInv, TypeInv, Unread, Words, Heads, kUnconstructed
<1>1. ASSUME RemoveAnyInlineWaiter(v) PROVE AInv'
  <2>1. /\ pc[v] = "prepare" /\ pc' = [pc EXCEPT ![v] = "emplace"]
        /\ UNCHANGED <<resolved, next, old>>
    BY <1>1 DEF RemoveAnyInlineWaiter, At, Goto
  <2>2. CASE /\ word[v].state = kUnconstructed
             /\ word' = [word EXCEPT ![v].state = kValid(Slots)] /\ UNCHANGED payload
    <3> DEFINE w == [word[v] EXCEPT !.state = kValid(Slots)]
    <3>1. w \in Words /\ w.state = Slots + 1
      BY <1>0, StateFacts DEF Words, kValid
    <3>2. /\ ~IsReady(word[v].state) /\ ~IsReady(w.state) /\ w.state # kUnconstructed
          /\ HasInlineWaiter(w.state) /\ payload[v] = Null /\ word[v].state # kInitializing
      BY <2>2, <3>1, StateFacts DEF kUnconstructed, kInitializing, AInv, PayloadInv
    <3>3. word' = [word EXCEPT ![v] = w]
      BY <2>2
    <3> HIDE DEF w
    <3>4. pc' \in [Procs -> Labels] /\ pc'[v] = "emplace" /\ \A q \in Procs \ {v} : pc'[q] = pc[q]
      BY <1>0, <2>1 DEF AInv, TypeInv, Labels
    <3>5. word' \in [Values -> Words] /\ \A u \in Values \ {v} : word'[u] = word[u]
      BY <3>1, <3>3 DEF AInv, TypeInv
    <3>6. TypeInv'
      BY <1>0, <2>1, <2>2, <3>4, <3>5, SetupFacts, SetupKept DEF AInv, TypeInv
    <3>7. InlineMove
      BY <2>1, <3>2, <3>4, <3>5, ProducerMove
    <3>8. InlineInv'
      BY <3>7, InlineKept DEF AInv
    <3>9. \A q \in Values : GoesOn(q) \/ (q = v /\ pc'[q] = "emplace")
      BY <1>0, <2>1, <3>4, SetupFacts DEF GoesOn
    <3> QED BY <2>1, <2>2, <3>1, <3>2, <3>3, <3>6, <3>8, <3>9, WordStep
  <2>3. CASE /\ HasInlineWaiter(word[v].state) /\ payload' = [payload EXCEPT ![v] = Null]
             /\ UNCHANGED word
    BY <2>1, <2>3, PayloadStep
  <2> QED BY <1>1, <2>2, <2>3 DEF RemoveAnyInlineWaiter
<1>2. ASSUME Emplace(v) PROVE AInv'
  <2>1. /\ pc[v] = "emplace" /\ pc' = [pc EXCEPT ![v] = "exchange"] /\ payload' = [payload EXCEPT ![v] = "value"]
        /\ UNCHANGED <<word, resolved, next, old>>
    BY <1>2 DEF Emplace, At, Goto
  <2>2. HasInlineWaiter(word[v].state)
    BY <2>1 DEF AInv, PayloadInv
  <2> QED BY <2>1, <2>2, PayloadStep
<1>3. ASSUME RunInlineWaiter(v) PROVE AInv'
  <2>1. /\ UNCHANGED <<word, payload, resolved, next, old>> /\ RunWaiters({extra[v]} \ {Null}, v, "first")
    BY <1>3 DEF RunInlineWaiter, memory
  <2> QED BY <1>0, <2>1, RunStep DEF Quiet
<1>4. ASSUME RunFirst(v) PROVE AInv'
  <2>1. UNCHANGED <<word, payload, resolved, next>>
    BY <1>4 DEF RunFirst, memory
  <2>2. CASE Goto(v, "done") /\ old' = [old EXCEPT ![v] = Unread]
    <3>1. pc' \in [Procs -> Labels] /\ pc'[v] = "done" /\ \A q \in Procs \ {v} : pc'[q] = pc[q]
      BY <1>0, <2>2 DEF Goto, Labels, AInv, TypeInv
    <3>2. old' \in [Procs -> Words] /\ \A q \in Procs \ {v} : old'[q] = old[q]
      BY <1>0, <2>2 DEF AInv, TypeInv
    <3> QED BY <1>0, <2>1, <3>1, <3>2, QuietMove DEF Quiet
  <2>3. CASE old[v].head # Null /\ RunWaiters({slots[old[v].head][1]}, v, "rest") /\ UNCHANGED old
    BY <1>0, <2>1, <2>3, RunStep DEF Quiet
  <2> QED BY <1>4, <2>2, <2>3 DEF RunFirst
<1>5. ASSUME RunRest(v) PROVE AInv'
  <2>1. /\ UNCHANGED <<word, payload, resolved, next>> /\ pc[v] = "rest"
        /\ RunWaiters(RestOf(v), v, "first") /\ old' = [old EXCEPT ![v] = NextNode(v)]
    BY <1>5 DEF RunRest, At
  <2>2. old[v].head \in Waiters
    BY <1>0, <2>1 DEF AInv, TypeInv, Words, Heads
  <2>3. NextNode(v) \in Words
    BY <2>2, StateFacts DEF AInv, TypeInv, NextNode, Words, kValid
  <2> QED BY <1>0, <2>1, <2>3, RunStep DEF Quiet
<1> QED BY <1>1, <1>2, <1>3, <1>4, <1>5, NotifyReadyAInv DEF Produce

-----------------------------------------------------------------------------

\* Every step keeps the invariant.
LEMMA NextAInv == AInv /\ [Next]_vars => AInv'
<1> SUFFICES ASSUME AInv, [Next]_vars PROVE AInv'
  OBVIOUS
<1>1. CASE UNCHANGED vars
  <2>1. UNCHANGED <<setup, word, payload, resolved, next, pc, old>>
    BY <1>1 DEF vars, memory
  <2>2. TypeInv'
    BY <2>1, SetupKept DEF AInv, TypeInv
  <2> QED BY <2>1, <2>2, QuietStep DEF GoesOn
<1>2. ASSUME NEW p \in AllProcs, Step(p) PROVE AInv'
  BY <1>2, RegisterAInv, ResolveAInv, ProduceAInv, DropAInv DEF Step
<1> QED BY <1>1, <1>2 DEF Next

\* The invariant holds throughout.
LEMMA AInvHolds == Spec => []AInv
BY InitAInv, NextAInv, PTL DEF Spec

\* However many threads call andThen while a value is emplaced, its payload area never
\* holds two things at once: the producer constructs the value after the inline waiter was
\* moved out, no thread constructs a waiter after that, and the value stays.
THEOREM PayloadStaysIntact == Spec => []PayloadIntact
<1>1. AInv => PayloadIntact
  BY DEF AInv, PayloadInv, PayloadIntact
<1> QED BY <1>1, AInvHolds, PTL

\* However long a chain of indirect values is and in whichever order they are resolved, each
\* ends up holding the concrete value at its end, ready, in the same state.
THEOREM ResolvesToConcrete == Spec => []ResolvedToConcrete
<1>1. AInv => ResolvedToConcrete
  BY DEF AInv, ResolvedInv, ResolvedToConcrete
<1> QED BY <1>1, AInvHolds, PTL
=============================================================================
