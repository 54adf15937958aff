-------------------------- MODULE WaitTimeoutProofs --------------------------
(***************************************************************************)
(* Proofs about WaitTimeout and the TimerHeap, for any callers, time-outs  *)
(* and bound on the clock.                                                 *)
(***************************************************************************)
EXTENDS WaitTimeout, SequenceTheorems, WellFoundedInduction, TLAPS

Entries == [expiration : Nat, expired : Chains]
OneEntryEach(s) == \A i, j \in DOMAIN s : s[i].expired = s[j].expired => i = j

TypeInv ==
    /\ clock \in Nat /\ entries \in Seq(Entries) /\ emplaced \in [Chains -> Nat]
    /\ pc \in [Chains -> {"call", "push", "await", "cancel", "returned"}]
    /\ deadline \in [Chains -> Nat] /\ done \subseteq Chains
    /\ first \in [Chains -> BOOLEAN] /\ either \in [Chains -> Nat]
    /\ result \in [Chains -> {"none", "ready", "timeout"}]

\* The vector is a heap, which push_heap and pop_heap require and which is what they
\* leave.  A chain has at most one entry, and only between its push and its return; it has
\* not been emplaced then.
EntryInv ==
    /\ IsHeap(entries) /\ OneEntryEach(entries)
    /\ \A i \in DOMAIN entries :
         /\ emplaced[entries[i].expired] = 0
         /\ entries[i].expiration = deadline[entries[i].expired]
         /\ pc[entries[i].expired] \in {"await", "cancel"}

\* A chain is emplaced because its deadline has passed or because the caller is done;
\* `either` is emplaced by the waiter that sets the flag.
CallerInv ==
    \A c \in Chains :
        /\ emplaced[c] <= 1
        /\ emplaced[c] > 0 => c \in done \/ clock >= deadline[c]
        /\ pc[c] \in {"call", "push"} => emplaced[c] = 0
        /\ pc[c] = "cancel" => c \in done
        /\ pc[c] # "returned" => result[c] = "none"
        /\ first[c] => either[c] = 1 /\ (c \in done \/ emplaced[c] > 0)
        /\ ~first[c] => either[c] = 0
        /\ result[c] = "ready" => c \in done
        /\ result[c] = "timeout" => clock >= deadline[c]

\* The inductive invariant
TInv == TypeInv /\ EntryInv /\ CallerInv

-----------------------------------------------------------------------------
(* The vector *)

\* A function on 1 .. n is a sequence of length n.
LEMMA FunctionIsSeq ==
    ASSUME NEW S, NEW n \in Nat, NEW f \in [1 .. n -> S]
    PROVE  f \in Seq(S) /\ Len(f) = n
<1>1. f \in Seq(S)
  BY SeqDef, Zenon
<1>2. Len(f) \in Nat /\ DOMAIN f = 1 .. Len(f)
  BY <1>1, LenProperties, Zenon
<1>3. 1 .. Len(f) = 1 .. n
  BY <1>2, Zenon
<1>4. Len(f) = n
  BY <1>2, <1>3
<1> QED BY <1>1, <1>4, Zenon

\* Entries are of chains.
LEMMA EntryOfChain ==
    ASSUME NEW s \in Seq(Entries), NEW i \in DOMAIN s
    PROVE  s[i].expired \in Chains
<1>1. s[i] \in Entries
  BY LenProperties, ElementOfSeq, Zenon
<1> QED BY <1>1, Zenon DEF Entries

\* Restoring the heap only moves entries.
LEMMA HeapsRearrange ==
    ASSUME NEW s \in Seq(Entries), OneEntryEach(s), NEW h \in Heaps(s)
    PROVE  /\ h \in Seq(Entries) /\ IsHeap(h) /\ OneEntryEach(h)
           /\ \A i \in DOMAIN h : \E j \in DOMAIN s : h[i] = s[j]
<1>1. PICK f \in Bijection(DOMAIN s, DOMAIN s) : h = [i \in DOMAIN s |-> s[f[i]]]
  BY Zenon DEF Heaps, Orders
<1>2. IsHeap(h)
  BY Zenon DEF Heaps
<1>3. f \in [DOMAIN s -> DOMAIN s] /\ \A a, b \in DOMAIN s : f[a] = f[b] => a = b
  BY <1>1, Zenon DEF Bijection, Injection, IsInjective
<1>4. DOMAIN s = 1 .. Len(s) /\ Len(s) \in Nat /\ \A i \in DOMAIN s : s[i] \in Entries
  BY LenProperties, ElementOfSeq, Zenon
<1>5. h \in [1 .. Len(s) -> Entries]
  BY <1>1, <1>3, <1>4, Zenon
<1>6. h \in Seq(Entries)
  BY <1>4, <1>5, FunctionIsSeq, Zenon
<1>7. OneEntryEach(h)
  BY <1>1, <1>3 DEF OneEntryEach
<1> QED BY <1>1, <1>2, <1>3, <1>6, <1>7, Zenon

\* A push adds the one entry of its chain.
LEMMA AppendAdds ==
    ASSUME NEW s \in Seq(Entries), OneEntryEach(s), NEW e \in Entries,
           \A i \in DOMAIN s : s[i].expired # e.expired
    PROVE  /\ Append(s, e) \in Seq(Entries) /\ OneEntryEach(Append(s, e))
           /\ \A i \in DOMAIN Append(s, e) :
                Append(s, e)[i] = e \/ \E j \in DOMAIN s : Append(s, e)[i] = s[j]
<1>1. /\ Append(s, e) \in Seq(Entries) /\ Len(Append(s, e)) = Len(s) + 1
      /\ \A i \in 1 .. Len(s) : Append(s, e)[i] = s[i]
      /\ Append(s, e)[Len(s) + 1] = e
  BY AppendProperties, Zenon
<1>2. /\ DOMAIN s = 1 .. Len(s) /\ Len(s) \in Nat
      /\ DOMAIN Append(s, e) = 1 .. Len(s) + 1
  BY <1>1, LenProperties, Zenon
<1>3. \A i \in DOMAIN Append(s, e) : i \in DOMAIN s \/ i = Len(s) + 1
  BY <1>2
<1> QED BY <1>1, <1>2, <1>3, Zenon DEF OneEntryEach

\* A trigger removes the first entry.
LEMMA TailRemoves ==
    ASSUME NEW s \in Seq(Entries), OneEntryEach(s), s # <<>>
    PROVE  /\ Tail(s) \in Seq(Entries) /\ OneEntryEach(Tail(s))
           /\ 1 \in DOMAIN s /\ Head(s) = s[1]
           /\ \A i \in DOMAIN Tail(s) : \E j \in DOMAIN s : j # 1 /\ Tail(s)[i] = s[j]
<1>1. /\ Tail(s) \in Seq(Entries) /\ Len(Tail(s)) = Len(s) - 1
      /\ \A i \in 1 .. Len(Tail(s)) : Tail(s)[i] = s[i + 1]
  BY HeadTailProperties, Zenon
<1>2. DOMAIN s = 1 .. Len(s) /\ Len(s) \in Nat /\ Len(s) > 0 /\ DOMAIN Tail(s) = 1 .. Len(s) - 1
  BY <1>1, LenProperties, EmptySeq
<1>3. Head(s) = s[1]
  OBVIOUS
<1>4. \A i \in DOMAIN Tail(s) : i + 1 \in DOMAIN s /\ i + 1 # 1 /\ Tail(s)[i] = s[i + 1]
  BY <1>1, <1>2
<1>5. OneEntryEach(Tail(s))
  BY <1>2, <1>4 DEF OneEntryEach
<1> QED BY <1>1, <1>2, <1>3, <1>4, <1>5

\* A push restores a heap that was one before.
LEMMA PushKeepsHeap ==
    ASSUME NEW s \in Seq(Entries), IsHeap(s), NEW e \in Entries
    PROVE  PushHeap(Append(s, e)) = Heaps(Append(s, e))
<1>1. Append(s, e) \in Seq(Entries) /\ Len(Append(s, e)) = Len(s) + 1
  BY AppendProperties, Zenon
<1>2. Front(Append(s, e)) = s
  BY <1>1 DEF Front
<1> QED BY <1>2, Zenon DEF PushHeap

\* pop_heap and pop_back leave a heap of the other entries.
LEMMA PopKeepsHeap ==
    ASSUME NEW s \in Seq(Entries), OneEntryEach(s), IsHeap(s), s # <<>>, NEW p \in PopHeap(s)
    PROVE  Front(p) \in Heaps(Tail(s))
<1>1. PICK h \in Heaps(Tail(s)) : p = Append(h, Head(s))
  BY Zenon DEF PopHeap
<1>2. Tail(s) \in Seq(Entries) /\ OneEntryEach(Tail(s)) /\ Head(s) = s[1] /\ 1 \in DOMAIN s
  BY TailRemoves, Zenon
<1>3. h \in Seq(Entries) /\ Head(s) \in Entries
  <2>1. h \in Seq(Entries)
    BY <1>2, HeapsRearrange, Zenon
  <2>2. DOMAIN s = 1 .. Len(s)
    BY LenProperties, Zenon
  <2>3. s[1] \in Entries
    BY <1>2, <2>2, ElementOfSeq, Zenon
  <2> QED BY <1>2, <2>1, <2>3, Zenon
<1>4. p \in Seq(Entries) /\ Len(p) = Len(h) + 1
  BY <1>1, <1>3, AppendProperties, Zenon
<1>5. Front(p) = h
  BY <1>1, <1>3, <1>4 DEF Front
<1> QED BY <1>5, Zenon

\* In a heap no entry expires before the first: else the least index of one that does
\* would have a parent that does.
LEMMA HeapRootFirst ==
    ASSUME NEW s \in Seq(Entries), IsHeap(s), NEW k \in DOMAIN s
    PROVE  s[1].expiration <= s[k].expiration
<1> DEFINE early == {i \in DOMAIN s : s[i].expiration < s[1].expiration}
<1>1. DOMAIN s = 1 .. Len(s) /\ Len(s) \in Nat /\ \A i \in DOMAIN s : s[i] \in Entries
  BY LenProperties, ElementOfSeq, Zenon
<1>2. \A i \in DOMAIN s : s[i].expiration \in Nat
  BY <1>1, Zenon DEF Entries
<1>3. 1 \in DOMAIN s
  BY <1>1
<1>4. early = {}
  <2> SUFFICES ASSUME early # {} PROVE FALSE
    OBVIOUS
  <2>1. early \subseteq Nat
    BY <1>1
  <2>2. PICK i \in early : \A j \in early : ~(<<j, i>> \in OpToRel(<, Nat))
    BY <2>1, NatLessThanWellFounded, WFMin, Zenon
  <2>3. \A j \in early : i <= j
    <3> SUFFICES ASSUME NEW j \in early PROVE i <= j
      OBVIOUS
    <3>1. i \in Nat /\ j \in Nat
      BY <2>1, Zenon
    <3>2. ~(j < i)
      BY <2>2, <3>1, Zenon DEF OpToRel
    <3> QED BY <3>1, <3>2
  <2>4. i \in 2 .. Len(s) /\ i \div 2 \in DOMAIN s /\ i \div 2 < i
    <3>1. i \in DOMAIN s /\ s[i].expiration < s[1].expiration
      BY Zenon
    <3>2. i # 1
      BY <1>2, <1>3, <3>1
    <3>3. i \in 1 .. Len(s)
      BY <1>1, <3>1, Zenon
    <3>4. i \in 2 .. Len(s) /\ i \div 2 \in 1 .. Len(s) /\ i \div 2 < i
      BY <1>1, <3>2, <3>3
    <3> QED BY <1>1, <3>4, Zenon
  <2>5. s[i \div 2].expiration <= s[i].expiration
    BY <2>4, Zenon DEF IsHeap
  <2>6. s[i \div 2].expiration < s[1].expiration
    BY <1>2, <1>3, <2>4, <2>5
  <2> QED BY <2>1, <2>3, <2>4, <2>6
<1> QED BY <1>2, <1>3, <1>4

\* A cancel removes the entry it finds, and keeps the others.
LEMMA SwapOutRemoves ==
    ASSUME NEW s \in Seq(Entries), OneEntryEach(s), NEW k \in DOMAIN s
    PROVE  /\ SwapOut(s, k) \in Seq(Entries) /\ OneEntryEach(SwapOut(s, k))
           /\ \A i \in DOMAIN SwapOut(s, k) : \E j \in DOMAIN s : j # k /\ SwapOut(s, k)[i] = s[j]
<1> DEFINE r == [s EXCEPT ![k] = Last(s)]
           n == Len(s)
<1>1. DOMAIN s = 1 .. n /\ n \in Nat /\ n > 0 /\ k \in 1 .. n
  BY LenProperties
<1>2. Last(s) = s[n] /\ s[n] \in Entries
  BY <1>1, ElementOfSeq DEF Last
<1>3. r \in Seq(Entries) /\ Len(r) = n
  BY <1>1, <1>2, ExceptSeq
<1>4. \A i \in 1 .. n : r[i] = IF i = k THEN s[n] ELSE s[i]
  BY <1>1, <1>2, Zenon
<1>5. SwapOut(s, k) = SubSeq(r, 1, n - 1)
  BY <1>3, Zenon DEF SwapOut, Front
<1> HIDE DEF r
<1>6. /\ SubSeq(r, 1, n - 1) \in Seq(Entries) /\ Len(SubSeq(r, 1, n - 1)) = n - 1
      /\ \A i \in 1 .. n - 1 : SubSeq(r, 1, n - 1)[i] = r[i]
  BY <1>1, <1>3
<1>7. DOMAIN SwapOut(s, k) = 1 .. n - 1 /\ \A i \in 1 .. n - 1 : SwapOut(s, k)[i] = r[i]
  BY <1>1, <1>5, <1>6, LenProperties, Zenon
<1> HIDE DEF n
<1>8. \A i \in 1 .. n - 1 : i \in 1 .. n /\ i # n
  <2>1. n \in Nat
    BY <1>1, Zenon
  <2> QED BY <2>1
<1>9. OneEntryEach(SwapOut(s, k))
  BY <1>1, <1>4, <1>7, <1>8 DEF OneEntryEach
<1>10. \A i \in DOMAIN SwapOut(s, k) : \E j \in DOMAIN s : j # k /\ SwapOut(s, k)[i] = s[j]
  BY <1>1, <1>4, <1>7, <1>8
<1> QED BY <1>5, <1>6, <1>9, <1>10, Zenon

\* Cancelling the last entry leaves the others where they are, a heap as before.
LEMMA FrontRemoves ==
    ASSUME NEW s \in Seq(Entries), OneEntryEach(s), IsHeap(s), s # <<>>
    PROVE  /\ Front(s) \in Seq(Entries) /\ OneEntryEach(Front(s)) /\ IsHeap(Front(s))
           /\ \A i \in DOMAIN Front(s) : \E j \in DOMAIN s : j # Len(s) /\ Front(s)[i] = s[j]
<1> DEFINE n == Len(s)
<1>1. DOMAIN s = 1 .. n /\ n \in Nat /\ n > 0
  BY LenProperties, EmptySeq
<1>2. /\ Front(s) \in Seq(Entries) /\ Len(Front(s)) = n - 1
      /\ \A i \in 1 .. n - 1 : Front(s)[i] = s[i]
  BY <1>1 DEF Front
<1>3. DOMAIN Front(s) = 1 .. n - 1
  BY <1>2, LenProperties, Zenon
<1> HIDE DEF n
<1>4. /\ \A i \in 1 .. n - 1 : i \in 1 .. n /\ i # n
      /\ \A i \in 2 .. n - 1 : i \in 1 .. n - 1 /\ i \in 2 .. n /\ i \div 2 \in 1 .. n - 1
  <2>1. n \in Nat
    BY <1>1, Zenon
  <2> QED BY <2>1
<1>5. IsHeap(Front(s))
  <2>1. \A i \in 2 .. n : s[i \div 2].expiration <= s[i].expiration
    BY Zenon DEF IsHeap, n
  <2>2. ASSUME NEW i \in 2 .. n - 1
        PROVE  Front(s)[i \div 2].expiration <= Front(s)[i].expiration
    <3>1. Front(s)[i] = s[i] /\ Front(s)[i \div 2] = s[i \div 2]
      BY <1>2, <1>4, Zenon
    <3> QED BY <1>4, <2>1, <3>1, Zenon
  <2> QED BY <1>2, <2>2, Zenon DEF IsHeap
<1> QED BY <1>1, <1>2, <1>3, <1>4, <1>5, Zenon DEF OneEntryEach, n

-----------------------------------------------------------------------------
(* The invariant *)

\* Nobody has called.
LEMMA InitTInv == Init => TInv
<1> SUFFICES ASSUME Init PROVE TInv
  BY Zenon
<1>1. entries \in Seq(Entries) /\ Len(entries) = 0 /\ DOMAIN entries = {}
  BY DEF Init, HeapInit
<1>2. TypeInv
  BY <1>1, Zenon DEF Init, HeapInit, TypeInv
<1>3. EntryInv
  BY <1>1 DEF EntryInv, IsHeap, OneEntryEach
<1>4. CallerInv
  BY DEF Init, HeapInit, CallerInv
<1> QED BY <1>2, <1>3, <1>4, Zenon DEF TInv

\* Emplacing the chain of entry k and removing the entry keeps the invariant, if the
\* deadline has passed or the caller is done.
LEMMA EmplaceTInv ==
    ASSUME TInv, NEW c \in Chains, NEW k \in DOMAIN entries, entries[k].expired = c,
           c \in done \/ clock >= deadline[c],
           emplaced' = [emplaced EXCEPT ![c] = @ + 1],
           entries' \in Seq(Entries), IsHeap(entries'), OneEntryEach(entries'),
           \A i \in DOMAIN entries' : \E j \in DOMAIN entries : j # k /\ entries'[i] = entries[j],
           UNCHANGED <<clock, deadline, done, first, either>>,
           \/ UNCHANGED <<pc, result>>
           \/ /\ pc[c] = "cancel" /\ pc' = [pc EXCEPT ![c] = "returned"]
              /\ result' = [result EXCEPT ![c] = "ready"]
    PROVE  TInv'
<1> USE DEF TInv
<1>1. emplaced[c] = 0 /\ pc[c] \in {"await", "cancel"}
  BY Zenon DEF EntryInv
<1>2. TypeInv'
  <2>1. pc' \in [Chains -> {"call", "push", "await", "cancel", "returned"}]
    BY Zenon DEF TypeInv
  <2>2. result' \in [Chains -> {"none", "ready", "timeout"}]
    BY Zenon DEF TypeInv
  <2>3. emplaced' \in [Chains -> Nat]
    BY DEF TypeInv
  <2> QED BY <2>1, <2>2, <2>3, Zenon DEF TypeInv
<1>3. ASSUME NEW i \in DOMAIN entries'
      PROVE  /\ emplaced'[entries'[i].expired] = 0
             /\ entries'[i].expiration = deadline'[entries'[i].expired]
             /\ pc'[entries'[i].expired] \in {"await", "cancel"}
  <2>1. PICK j \in DOMAIN entries : j # k /\ entries'[i] = entries[j]
    BY Zenon
  <2>2. entries[j].expired # c /\ entries[j].expired \in Chains
    <3>1. entries[j].expired \in Chains
      BY EntryOfChain, Zenon DEF TypeInv
    <3>2. entries[j].expired # entries[k].expired
      BY <2>1, Zenon DEF EntryInv, OneEntryEach
    <3> QED BY <3>1, <3>2, Zenon
  <2>3. /\ emplaced[entries[j].expired] = 0
        /\ entries[j].expiration = deadline[entries[j].expired]
        /\ pc[entries[j].expired] \in {"await", "cancel"}
    BY <2>1, Zenon DEF EntryInv
  <2> QED BY <2>1, <2>2, <2>3 DEF TypeInv
<1>4. EntryInv'
  BY <1>3, Zenon DEF EntryInv
<1>5. CallerInv'
  BY <1>1 DEF CallerInv, TypeInv
<1> QED BY <1>2, <1>4, <1>5, Zenon
\* Every step of a caller keeps the invariant.
LEMMA CallerTInv ==
    ASSUME TInv, NEW c \in Chains
    PROVE  /\ Call(c) => TInv'
           /\ PushExpired(c) => TInv'
           /\ RunWaiter(c) => TInv'
           /\ Awake(c) => TInv'
           /\ CancelExpired(c) => TInv'
           /\ Complete(c) => TInv'
<1> USE DEF TInv
<1>0. \A i \in DOMAIN entries : entries[i].expired \in Chains
  BY EntryOfChain, Zenon DEF TypeInv
<1>1. ASSUME Call(c) PROVE TInv'
  <2>1. TypeInv'
    <3>1. clock + Delays[c] \in Nat
      BY WaitAssumption, TimerAssumption DEF TypeInv
    <3>2. deadline' \in [Chains -> Nat]
      BY <1>1, <3>1, Zenon DEF Call, TypeInv
    <3> QED BY <1>1, <3>2, Zenon DEF Call, Goto, heapVars, TypeInv
  <2>2. EntryInv'
    BY <1>0, <1>1, Zenon DEF Call, Goto, heapVars, EntryInv, TypeInv
  <2>3. CallerInv'
    BY <1>1 DEF Call, Goto, heapVars, CallerInv, TypeInv
  <2> QED BY <2>1, <2>2, <2>3, Zenon
<1>2. ASSUME PushExpired(c) PROVE TInv'
  <2> DEFINE e == [expiration |-> deadline[c], expired |-> c]
  <2>1. /\ pc[c] = "push" /\ entries' \in Heaps(Append(entries, e)) /\ emplaced[c] = 0
        /\ pc' = [pc EXCEPT ![c] = "await"]
        /\ UNCHANGED <<clock, emplaced, deadline, done, first, either, result>>
    <3>1. pc[c] = "push" /\ entries' \in PushHeap(Append(entries, e))
      BY <1>2, Zenon DEF PushExpired, Push
    <3>2. entries \in Seq(Entries) /\ IsHeap(entries) /\ e \in Entries
      BY Zenon DEF TypeInv, EntryInv, Entries
    <3> QED BY <1>2, <3>1, <3>2, PushKeepsHeap, Zenon DEF PushExpired, Push, Goto, CallerInv
  <2>2. e \in Entries /\ e.expired = c /\ e.expiration = deadline[c]
    BY Zenon DEF Entries, TypeInv
  <2>3. \A i \in DOMAIN entries : entries[i].expired # c
    BY <2>1, Zenon DEF EntryInv
  <2> HIDE DEF e
  <2>4. entries \in Seq(Entries) /\ OneEntryEach(entries)
    BY Zenon DEF TypeInv, EntryInv
  <2>5. /\ Append(entries, e) \in Seq(Entries) /\ OneEntryEach(Append(entries, e))
        /\ \A i \in DOMAIN Append(entries, e) :
             Append(entries, e)[i] = e \/ \E j \in DOMAIN entries : Append(entries, e)[i] = entries[j]
    BY <2>2, <2>3, <2>4, AppendAdds, Zenon
  <2>6. /\ entries' \in Seq(Entries) /\ IsHeap(entries') /\ OneEntryEach(entries')
        /\ \A i \in DOMAIN entries' : entries'[i] = e \/ \E j \in DOMAIN entries : entries'[i] = entries[j]
    <3>1. /\ entries' \in Seq(Entries) /\ IsHeap(entries') /\ OneEntryEach(entries')
          /\ \A i \in DOMAIN entries' : \E k \in DOMAIN Append(entries, e) : entries'[i] = Append(entries, e)[k]
      BY <2>1, <2>5, HeapsRearrange, Zenon
    <3> QED BY <2>5, <3>1, Zenon
  <2>7. TypeInv'
    BY <2>1, <2>6, Zenon DEF TypeInv
  <2>8. ASSUME NEW i \in DOMAIN entries'
        PROVE  /\ emplaced'[entries'[i].expired] = 0
               /\ entries'[i].expiration = deadline'[entries'[i].expired]
               /\ pc'[entries'[i].expired] \in {"await", "cancel"}
    <3>1. CASE entries'[i] = e
      BY <2>1, <2>2, <3>1, Zenon DEF TypeInv
    <3>2. ASSUME NEW j \in DOMAIN entries, entries'[i] = entries[j]
          PROVE  /\ emplaced'[entries'[i].expired] = 0
                 /\ entries'[i].expiration = deadline'[entries'[i].expired]
                 /\ pc'[entries'[i].expired] \in {"await", "cancel"}
      BY <1>0, <2>1, <2>3, <3>2, Zenon DEF EntryInv, TypeInv
    <3> QED BY <2>6, <3>1, <3>2, Zenon
  <2>9. EntryInv'
    BY <2>6, <2>8, Zenon DEF EntryInv
  <2>10. CallerInv'
    BY <2>1, Zenon DEF CallerInv, TypeInv
  <2> QED BY <2>7, <2>9, <2>10, Zenon
<1>3. ASSUME RunWaiter(c) PROVE TInv'
  <2>1. PICK w \in Ready(c) : TRUE
    BY <1>3, Zenon DEF RunWaiter
  <2>2. c \in done \/ emplaced[c] > 0
    BY <2>1, Zenon DEF Ready
  <2>3. /\ either' = [either EXCEPT ![c] = IF first[c] THEN @ ELSE @ + 1]
        /\ first' = [first EXCEPT ![c] = TRUE]
        /\ UNCHANGED <<clock, entries, emplaced, pc, deadline, done, result>>
    BY <1>3, Zenon DEF RunWaiter, heapVars
  <2>4. either' \in [Chains -> Nat]
    BY <2>3 DEF TypeInv
  <2>5. first' \in [Chains -> BOOLEAN]
    BY <2>3, Zenon DEF TypeInv
  <2>6. first'[c] /\ \A d \in Chains : d # c => first'[d] = first[d]
    BY <2>3, Zenon DEF TypeInv
  <2>7. TypeInv'
    BY <2>3, <2>4, <2>5, Zenon DEF TypeInv
  <2>8. EntryInv'
    BY <2>3, Zenon DEF EntryInv
  <2>9. CallerInv'
    BY <2>2, <2>3, <2>6 DEF CallerInv, TypeInv
  <2> QED BY <2>7, <2>8, <2>9, Zenon
<1>4. ASSUME Awake(c) PROVE TInv'
  <2>1. /\ pc[c] = "await" /\ either[c] > 0
        /\ UNCHANGED <<clock, entries, emplaced, deadline, done, first, either>>
    BY <1>4, Zenon DEF Awake, heapVars
  <2>2. c \in done \/ emplaced[c] > 0
    BY <2>1 DEF CallerInv
  <2>3. CASE c \in done
    <3>1. pc' = [pc EXCEPT ![c] = "cancel"] /\ UNCHANGED result
      BY <1>4, <2>3, Zenon DEF Awake, Goto
    <3>2. TypeInv'
      BY <2>1, <3>1, Zenon DEF TypeInv
    <3>3. EntryInv'
      BY <1>0, <2>1, <3>1, Zenon DEF EntryInv, TypeInv
    <3>4. CallerInv'
      BY <2>1, <2>3, <3>1, Zenon DEF CallerInv, TypeInv
    <3> QED BY <3>2, <3>3, <3>4, Zenon
  <2>4. CASE c \notin done
    <3>1. pc' = [pc EXCEPT ![c] = "returned"] /\ result' = [result EXCEPT ![c] = "timeout"]
      BY <1>4, <2>4, Zenon DEF Awake, Goto
    <3>2. TypeInv'
      BY <2>1, <3>1, Zenon DEF TypeInv
    <3>3. \A i \in DOMAIN entries : entries[i].expired # c
      BY <2>2, <2>4 DEF EntryInv, TypeInv
    <3>4. EntryInv'
      BY <1>0, <2>1, <3>1, <3>3, Zenon DEF EntryInv, TypeInv
    <3>5. CallerInv'
      BY <2>1, <2>2, <2>4, <3>1, Zenon DEF CallerInv, TypeInv
    <3> QED BY <3>2, <3>4, <3>5, Zenon
  <2> QED BY <2>3, <2>4, Zenon
<1>5. ASSUME CancelExpired(c) PROVE TInv'
  <2>1. /\ pc[c] = "cancel" /\ c \in done /\ pc' = [pc EXCEPT ![c] = "returned"]
        /\ result' = [result EXCEPT ![c] = "ready"]
        /\ UNCHANGED <<clock, deadline, done, first, either>>
    BY <1>5, Zenon DEF CancelExpired, Goto, CallerInv
  <2>2. CASE (\A i \in DOMAIN entries : entries[i].expired # c) /\ UNCHANGED <<entries, emplaced>>
    <3>1. TypeInv'
      BY <2>1, <2>2, Zenon DEF TypeInv
    <3>2. EntryInv'
      BY <1>0, <2>1, <2>2, Zenon DEF EntryInv, TypeInv
    <3>3. CallerInv'
      BY <2>1, <2>2, Zenon DEF CallerInv, TypeInv
    <3> QED BY <3>1, <3>2, <3>3, Zenon
  <2>3. ASSUME NEW k \in DOMAIN entries, entries[k].expired = c,
               emplaced' = [emplaced EXCEPT ![c] = @ + 1],
               IF k < Len(entries) THEN entries' \in MakeHeap(SwapOut(entries, k))
               ELSE entries' = Front(entries)
        PROVE  TInv'
    <3>1. entries \in Seq(Entries) /\ OneEntryEach(entries) /\ IsHeap(entries)
      BY Zenon DEF TypeInv, EntryInv
    <3>2. /\ entries' \in Seq(Entries) /\ IsHeap(entries') /\ OneEntryEach(entries')
          /\ \A i \in DOMAIN entries' : \E j \in DOMAIN entries : j # k /\ entries'[i] = entries[j]
      <4>1. CASE k < Len(entries)
        <5>1. entries' \in Heaps(SwapOut(entries, k))
          BY <2>3, <4>1, Zenon DEF MakeHeap
        <5>2. /\ SwapOut(entries, k) \in Seq(Entries) /\ OneEntryEach(SwapOut(entries, k))
              /\ \A i \in DOMAIN SwapOut(entries, k) :
                   \E j \in DOMAIN entries : j # k /\ SwapOut(entries, k)[i] = entries[j]
          BY <3>1, SwapOutRemoves, Zenon
        <5>3. /\ entries' \in Seq(Entries) /\ IsHeap(entries') /\ OneEntryEach(entries')
              /\ \A i \in DOMAIN entries' :
                   \E j \in DOMAIN SwapOut(entries, k) : entries'[i] = SwapOut(entries, k)[j]
          BY <5>1, <5>2, HeapsRearrange, Zenon
        <5> QED BY <5>2, <5>3, Zenon
      <4>2. CASE ~(k < Len(entries))
        <5>1. k = Len(entries) /\ entries # <<>>
          BY <3>1, <4>2, LenProperties
        <5>2. entries' = Front(entries)
          BY <2>3, <4>2, Zenon
        <5> QED BY <3>1, <5>1, <5>2, FrontRemoves, Zenon
      <4> QED BY <4>1, <4>2, Zenon
    <3> QED BY <2>1, <2>3, <3>2, EmplaceTInv, Zenon
  <2> QED BY <1>5, <2>2, <2>3, Zenon DEF CancelExpired, Cancel
<1>6. ASSUME Complete(c) PROVE TInv'
  <2>1. done' = done \cup {c} /\ UNCHANGED <<clock, entries, emplaced, pc, deadline, first, either, result>>
    BY <1>6, Zenon DEF Complete, heapVars
  <2>2. TypeInv'
    BY <2>1, Zenon DEF TypeInv
  <2>3. EntryInv'
    BY <2>1, Zenon DEF EntryInv
  <2>4. CallerInv'
    BY <2>1, Zenon DEF CallerInv
  <2> QED BY <2>2, <2>3, <2>4, Zenon
<1> QED BY <1>1, <1>2, <1>3, <1>4, <1>5, <1>6, Zenon

\* So does a trigger of the heap's thread, because the root's deadline has passed.
LEMMA TriggerTInv ==
    ASSUME TInv, Trigger, UNCHANGED <<clock, callerVars>>
    PROVE  TInv'
<1> DEFINE c == entries[1].expired
<1>1. entries \in Seq(Entries) /\ OneEntryEach(entries) /\ IsHeap(entries) /\ entries # <<>>
  BY Zenon DEF TInv, TypeInv, EntryInv, Trigger
<1>2. /\ Tail(entries) \in Seq(Entries) /\ OneEntryEach(Tail(entries))
      /\ 1 \in DOMAIN entries /\ Head(entries) = entries[1]
      /\ \A i \in DOMAIN Tail(entries) : \E j \in DOMAIN entries : j # 1 /\ Tail(entries)[i] = entries[j]
  BY <1>1, TailRemoves, Zenon
<1>3. /\ entries' \in Heaps(Tail(entries)) /\ emplaced' = [emplaced EXCEPT ![c] = @ + 1]
      /\ clock >= entries[1].expiration
  <2>1. PICK p \in PopHeap(entries) : entries' = Front(p)
    BY Zenon DEF Trigger
  <2>2. Front(p) \in Heaps(Tail(entries))
    BY <1>1, PopKeepsHeap, Zenon
  <2> QED BY <1>2, <2>1, <2>2, Zenon DEF Trigger
<1>4. c \in Chains
  BY <1>1, <1>2, EntryOfChain, Zenon
<1>5. clock >= deadline[c]
  BY <1>2, <1>3, Zenon DEF TInv, EntryInv
<1>6. /\ entries' \in Seq(Entries) /\ IsHeap(entries') /\ OneEntryEach(entries')
      /\ \A i \in DOMAIN entries' : \E j \in DOMAIN Tail(entries) : entries'[i] = Tail(entries)[j]
  BY <1>2, <1>3, HeapsRearrange, Zenon
<1>7. \A i \in DOMAIN entries' : \E j \in DOMAIN entries : j # 1 /\ entries'[i] = entries[j]
  BY <1>2, <1>6
<1>8. UNCHANGED <<clock, deadline, done, first, either, pc, result>>
  BY Zenon DEF callerVars
<1> HIDE DEF c
<1> QED BY <1>2, <1>3, <1>4, <1>5, <1>6, <1>7, <1>8, EmplaceTInv, Zenon DEF c

\* Every step keeps the invariant; those not named above change none of its variables
\* but the clock.
LEMMA NextTInv == TInv /\ [Next]_vars => TInv'
<1> SUFFICES ASSUME TInv, [Next]_vars PROVE TInv'
  BY Zenon
<1>1. ASSUME NEW c \in Chains, Call(c) \/ Caller(c) \/ Complete(c) PROVE TInv'
  BY <1>1, CallerTInv, Zenon DEF Caller
<1>2. ASSUME Trigger, UNCHANGED <<clock, callerVars>> PROVE TInv'
  BY <1>2, TriggerTInv, Zenon
<1>3. ASSUME UNCHANGED <<entries, emplaced, callerVars>>, clock' \in Nat, clock' >= clock PROVE TInv'
  <2>1. TypeInv'
    BY <1>3, Zenon DEF TInv, TypeInv, callerVars
  <2>2. EntryInv'
    BY <1>3, Zenon DEF TInv, EntryInv, callerVars
  <2>3. CallerInv'
    BY <1>3 DEF TInv, TypeInv, CallerInv, callerVars
  <2> QED BY <2>1, <2>2, <2>3, Zenon DEF TInv
<1>4. clock \in Nat
  BY Zenon DEF TInv, TypeInv
<1>5. ASSUME Advance PROVE TInv'
  BY <1>3, <1>4, <1>5 DEF Advance, Tick, heapVars
<1>6. ASSUME StopHeap \/ (SpuriousWake /\ UNCHANGED <<clock, callerVars>>) PROVE TInv'
  BY <1>3, <1>4, <1>6 DEF StopHeap, Stop, SpuriousWake
<1>7. ASSUME RunHeap, ~Trigger PROVE TInv'
  BY <1>3, <1>4, <1>7 DEF RunHeap, Run, Exit, Wait, WaitFor, Wake
<1>8. ASSUME UNCHANGED vars PROVE TInv'
  BY <1>3, <1>4, <1>8 DEF vars, heapVars
<1> QED BY <1>1, <1>2, <1>5, <1>6, <1>7, <1>8, Zenon DEF Next, RunHeap

\* TInv always holds.
LEMMA TInvHolds == Spec => []TInv
BY InitTInv, NextTInv, PTL DEF Spec

-----------------------------------------------------------------------------

\* No entry expires before the one the thread looks at, whichever entries are pushed,
\* triggered and cancelled: every call of push_heap and pop_heap finds the heap it
\* requires, and the root of a heap is its least.
THEOREM RootStaysEarliest == Spec => []RootIsEarliest
<1>1. TInv => RootIsEarliest
  <2> SUFFICES ASSUME TInv, NEW i \in DOMAIN entries
               PROVE  Head(entries).expiration <= entries[i].expiration
    BY Zenon DEF RootIsEarliest
  <2>1. entries \in Seq(Entries) /\ IsHeap(entries)
    BY Zenon DEF TInv, TypeInv, EntryInv
  <2>2. entries # <<>> /\ Head(entries) = entries[1]
    BY <2>1
  <2> QED BY <2>1, <2>2, HeapRootFirst, Zenon
<1> QED BY <1>1, TInvHolds, PTL

\* No chain is emplaced twice, though its deadline, its cancel and its completion race.
THEOREM EmplacesOnce == Spec => []EmplacedOnce
<1>1. TInv => EmplacedOnce
  <2> SUFFICES ASSUME TInv, NEW c \in Chains PROVE emplaced[c] <= 1 /\ either[c] <= 1
    BY Zenon DEF EmplacedOnce
  <2>1. either[c] = 0 \/ either[c] = 1
    BY Zenon DEF TInv, CallerInv
  <2> QED BY <2>1 DEF TInv, CallerInv
<1> QED BY <1>1, TInvHolds, PTL

\* A call says "ready" only if the value is, and "timeout" only after its deadline.
THEOREM ResultsAreRight == Spec => []ResultIsRight
<1>1. TInv => ResultIsRight
  BY Zenon DEF TInv, CallerInv, ResultIsRight
<1> QED BY <1>1, TInvHolds, PTL

\* A call that has returned has no entry, whether it timed out or cancelled.
THEOREM LeavesNothingBehind == Spec => []NothingLeftBehind
<1>1. TInv => NothingLeftBehind
  BY Zenon DEF TInv, EntryInv, NothingLeftBehind
<1> QED BY <1>1, TInvHolds, PTL
=============================================================================
