-------------------- MODULE LockFreeRingBufferHistProofs --------------------
(***************************************************************************)
(* The proof that the dequeue of a single consumer, as in the thread pool, *)
(* returns nothing only for a reason.                                      *)
(***************************************************************************)
EXTENDS LockFreeRingBufferHist, LockFreeRingBufferProofs

\* Nobody but the single consumer moves readIndex: what it read of it stays true, and
\* what it read of published was more than that, unless the buffer was empty.
ConsumerInv(t) ==
    /\ pc[t] # "idle" /\ Empty => t \in wasEmpty
    /\ pc[t] = "loadRead" => t \in wasEmpty \/ seen[t] > readIndex
    /\ pc[t] = "recheckRead" => cur[t] = readIndex

\* The inductive invariant
HistInv ==
    /\ RingInv /\ active \subseteq Consumers /\ refused = {}
    /\ \A t \in Consumers \ active : pc[t] = "idle"
    /\ Single => \A t \in active : ConsumerInv(t)

\* No call has begun.
LEMMA InitHistInv == HistInit => HistInv
<1> SUFFICES ASSUME HistInit PROVE HistInv
  OBVIOUS
<1>1. active \subseteq Consumers
  BY HistAssumption DEF HistInit
<1>2. RingInv /\ refused = {}
  BY InitRingInv DEF HistInit
<1>3. \A t \in Consumers : pc[t] = "idle"
  BY DEF HistInit, Init, Threads
<1> QED BY <1>1, <1>2, <1>3 DEF HistInv, ConsumerInv

\* What a step of the single consumer t, or of a producer, may do to it
LEMMA ConsumerStep ==
    ASSUME RingInv, Next, NEW t \in Consumers, \A u \in Consumers \ {t} : pc'[u] = "idle" /\ pc[u] = "idle"
    PROVE  \/ UNCHANGED readIndex /\ pc'[t] = pc[t] /\ cur'[t] = cur[t] /\ seen'[t] = seen[t]
           \/ DeqLoadPublished(t) \/ DeqLoadRead(t) \/ DeqClaim(t) \/ DeqClaimFails(t) \/ DeqRecheck(t)
           \/ DeqOwner(t)
<1> USE DEF RingInv, CounterInv, TypeOK, Threads
<1>1. ASSUME NEW u \in Producers, NEW x \in Items, EnqLoadConsumed(u, x)
      PROVE  UNCHANGED readIndex /\ pc'[t] = pc[t] /\ cur'[t] = cur[t] /\ seen'[t] = seen[t]
  BY <1>1, SizeAssumption DEF EnqLoadConsumed, Goto, SetSeen, atomics
<1>2. ASSUME NEW u \in Producers,
             EnqLoadWrite(u) \/ EnqClaim(u) \/ EnqClaimFails(u) \/ EnqRecheck(u) \/ EnqOwner(u)
      PROVE  UNCHANGED readIndex /\ pc'[t] = pc[t] /\ cur'[t] = cur[t] /\ seen'[t] = seen[t]
  BY <1>2, SizeAssumption
     DEF EnqLoadWrite, EnqClaim, EnqClaimFails, EnqRecheck, EnqOwner, EnqWrite, EnqAwait, EnqPublish,
         EnqTest, Return, Goto, SetSeen, SetCur, atomics, locals
<1>3. ASSUME NEW u \in Consumers, u # t,
             \/ DeqLoadPublished(u) \/ DeqLoadRead(u) \/ DeqClaim(u) \/ DeqClaimFails(u)
             \/ DeqRecheck(u) \/ DeqOwner(u)
      PROVE  FALSE
  BY <1>3 DEF DeqLoadPublished, DeqLoadRead, DeqClaim, DeqClaimFails, DeqRecheck, DeqOwner, DeqTake,
         DeqAwait, DeqConsume, Goto
<1> QED BY <1>1, <1>2, <1>3 DEF Next

\* Every step keeps the invariant.
LEMMA NextHistInv == HistInv /\ [HistNext]_<<vars, histVars>> => HistInv'
<1> SUFFICES ASSUME HistInv, [HistNext]_<<vars, histVars>> PROVE HistInv'
  OBVIOUS
<1>1. CASE UNCHANGED <<vars, histVars>>
  <2>1. RingInv'
    BY <1>1, NextRingInv DEF HistInv
  <2> QED BY <1>1, <2>1 DEF HistInv, ConsumerInv, Empty, Single, vars, histVars
<1>2. CASE HistNext
  <2>1. RingInv' /\ RingInv /\ active' = active /\ Next
    BY <1>2, NextRingInv DEF HistInv, HistNext
  <2>2. (\A t \in Consumers \ active : pc[t] = "idle")' /\ active' \subseteq Consumers
    BY <1>2, <2>1 DEF HistInv, HistNext
  <2>3. CASE ~Single
    BY <1>2, <2>1, <2>2, <2>3 DEF HistInv, HistNext, Single
  <2>4. CASE Single
    <3>1. PICK t \in Consumers : active = {t}
      BY <2>4 DEF Single
    <3>2. \A u \in Consumers \ {t} : pc'[u] = "idle" /\ pc[u] = "idle"
      BY <2>1, <2>2, <3>1 DEF HistInv
    <3>3. ConsumerInv(t)
      BY <2>4, <3>1 DEF HistInv
    <3>4. /\ t \in wasEmpty' <=> pc'[t] # "idle" /\ (Empty' \/ Empty \/ (pc[t] # "idle" /\ t \in wasEmpty))
          /\ t \in refused' <=> RefusedNow(t) /\ t \notin wasEmpty
          /\ refused' \subseteq {t}
      BY <1>2, <2>4, <3>1 DEF HistNext
    <3>5. /\ readIndex \in Nat /\ published \in Nat /\ readIndex <= published
          /\ readIndex' \in Nat /\ published' \in Nat /\ readIndex' <= published'
          /\ seen[t] \in Nat /\ cur[t] \in Nat
          /\ t \in DOMAIN pc /\ t \in DOMAIN cur /\ t \in DOMAIN seen
      BY <2>1 DEF RingInv, CounterInv, TypeOK, CountersOrdered, Index, Threads
    <3>6. \/ UNCHANGED readIndex /\ pc'[t] = pc[t] /\ cur'[t] = cur[t] /\ seen'[t] = seen[t]
          \/ DeqLoadPublished(t) \/ DeqLoadRead(t) \/ DeqClaim(t) \/ DeqClaimFails(t) \/ DeqRecheck(t)
          \/ DeqOwner(t)
      BY <2>1, <3>2, ConsumerStep
    <3>7. ConsumerInv(t)' /\ t \notin refused'
      <4> USE <3>3, <3>4, <3>5 DEF ConsumerInv, Empty, RefusedNow
      <4>1. CASE UNCHANGED readIndex /\ pc'[t] = pc[t] /\ cur'[t] = cur[t] /\ seen'[t] = seen[t]
        BY <4>1
      <4>2. CASE DeqLoadPublished(t)
        BY <4>2 DEF DeqLoadPublished, Goto, SetSeen, atomics
      <4>3. CASE DeqLoadRead(t)
        BY <4>3 DEF DeqLoadRead, DeqTest, LooksEmpty, Return, Goto, atomics
      <4>4. CASE DeqClaim(t)
        BY <4>4 DEF DeqClaim, Goto
      <4>5. CASE DeqClaimFails(t)
        BY <4>5 DEF DeqClaimFails, Goto, SetCur, atomics
      <4>6. CASE DeqRecheck(t)
        BY <4>6 DEF DeqRecheck, DeqTest, LooksEmpty, Return, Goto, atomics
      <4>7. CASE DeqOwner(t)
        BY <4>7 DEF DeqOwner, DeqTake, DeqAwait, DeqConsume, Return, Goto, atomics
      <4> QED BY <3>6, <4>1, <4>2, <4>3, <4>4, <4>5, <4>6, <4>7
    <3> QED BY <2>1, <2>2, <3>1, <3>4, <3>7 DEF HistInv
  <2> QED BY <2>3, <2>4
<1> QED BY <1>1, <1>2

\* With any number of producers and any size, the dequeue of a single consumer returns
\* nothing only if nothing was published at some instant of the call.
THEOREM RefusesOnlyWhenEmpty == HistSpec => []RefusedOnlyWhenEmpty
<1>1. HistInv => RefusedOnlyWhenEmpty
  BY DEF HistInv, RefusedOnlyWhenEmpty
<1> QED BY <1>1, InitHistInv, NextHistInv, PTL DEF HistSpec
=============================================================================
