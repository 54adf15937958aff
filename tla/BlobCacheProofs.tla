--------------------------- MODULE BlobCacheProofs ---------------------------
(***************************************************************************)
(* Proofs about BlobCache, for any numbers of processes and calls.         *)
(***************************************************************************)
EXTENDS BlobCache, TLAPS

Undisturbed == ~pruned /\ ~powerLost

\* The inductive invariant.  Before a prune or a power loss the file only goes from
\* "none" to "whole", so that a call that has seen it may rely on it.  After a power
\* loss a torn file is kept from a find by its hash alone, and no call that compared it
\* before has survived.
IInv ==
    /\ TypeOK /\ FoundIsWhole /\ InsertedIsKept
    /\ ~powerLost => file # "torn"
    /\ pruning => pruned
    /\ \A c \in Calls :
         /\ result[c] # "torn"
         /\ pc[c] = "start" => result[c] = "none"
         /\ proc[ProcOf[c]] = "new" => pc[c] = "start"
         /\ At(c, "read") => file # "torn"
         /\ Undisturbed /\ pc[c] = "unlock" => file = "whole"
         /\ Undisturbed /\ op[c] = "find" =>
              /\ pc[c] \in {"verify", "read", "contains"} => file = "whole"
              /\ pc[c] \notin {"mkdir", "lock", "wait", "open", "rename", "unlock"}

USE DEF Undisturbed, Labels, Results

\* Initially the file is not there and nobody has called.
LEMMA InitIInv == Init => IInv
<1> SUFFICES ASSUME Init PROVE IInv
  OBVIOUS
<1>1. TypeOK
  BY CacheAssumption DEF Init, TypeOK
<1>2. \A c \in Calls : pc[c] = "start" /\ op[c] = "none" /\ result[c] = "none"
  BY DEF Init
<1>3. file = "none" /\ ~stored /\ ~pruning
  BY DEF Init
<1> QED
  BY <1>1, <1>2, <1>3 DEF IInv, FoundIsWhole, InsertedIsKept, At

\* A call only ever makes the file whole, and relies on it only after it has seen it.
LEMMA CallIInv == ASSUME IInv, NEW c \in Calls, Call(c) PROVE IInv'
<1> USE CacheAssumption DEF IInv, TypeOK, FoundIsWhole, InsertedIsKept, At, Running, Goto, Return,
        InsertReturns, Fails, calls, disk, faults
<1>1. CASE StartInsert(c)
  <2>1. TypeOK'
    BY <1>1 DEF StartInsert
  <2>2. QED
    BY <1>1, <2>1 DEF StartInsert
<1>2. CASE Contains(c)
  <2>1. CASE file # "none" \/ ProcOf[c] \in ReadOnly
    <3>1. TypeOK'
      <4>1. pc' \in [Calls -> Labels]
        BY <1>2, <2>1 DEF Contains
      <4>2. result' \in [Calls -> Results]
        BY <1>2, <2>1 DEF Contains
      <4>3. stored' \in BOOLEAN
        BY <1>2, <2>1 DEF Contains
      <4> QED
        BY <1>2, <4>1, <4>2, <4>3 DEF Contains
    <3>2. QED
      BY <1>2, <2>1, <3>1 DEF Contains
  <2>2. CASE ~(file # "none" \/ ProcOf[c] \in ReadOnly)
    BY <1>2, <2>2 DEF Contains
  <2> QED
    BY <2>1, <2>2
<1>3. CASE MakeDirectory(c)
  BY <1>3 DEF MakeDirectory
<1>4. CASE TryLock(c)
  BY <1>4 DEF TryLock
<1>5. CASE WaitForUnlock(c)
  BY <1>5 DEF WaitForUnlock, WaitSuccess
<1>6. CASE WriteTemp(c)
  BY <1>6 DEF WriteTemp, Unlocked
<1>7. CASE Rename(c)
  BY <1>7 DEF Rename, Unlocked
<1>8. CASE Unlock(c)
  BY <1>8 DEF Unlock, Unlocked
<1>9. CASE StartFind(c)
  <2>1. TypeOK'
    BY <1>9 DEF StartFind
  <2>2. QED
    BY <1>9, <2>1 DEF StartFind
<1>10. CASE Exists(c)
  BY <1>10 DEF Exists
<1>11. CASE Verify(c)
  BY <1>11 DEF Verify, Valid
<1>12. CASE Read(c)
  BY <1>12 DEF Read
<1> QED
  BY <1>1, <1>2, <1>3, <1>4, <1>5, <1>6, <1>7, <1>8, <1>9, <1>10, <1>11, <1>12 DEF Call

\* Crashes leave the file alone; a power loss or a prune excuses what it does to it.
LEMMA FaultIInv ==
    ASSUME IInv,
           (\E p \in Procs : Crash(p)) \/ PowerLoss \/ StartPruning \/ PruneEntry \/ PruneDirectory
    PROVE  IInv'
<1> USE CacheAssumption DEF IInv, TypeOK, FoundIsWhole, InsertedIsKept, At, Running, calls, disk, faults
<1>1. ASSUME NEW p \in Procs, Crash(p) PROVE IInv'
  <2>1. pc' \in [Calls -> Labels] /\ \A c \in Calls : pc'[c] \in {pc[c], "killed"}
    BY <1>1 DEF Crash, Kill
  <2>2. proc' \in [Procs -> {"new", "running", "dead"}] /\ memory' \subseteq Procs
    BY <1>1 DEF Crash
  <2>3. \A c \in Calls : proc'[ProcOf[c]] \in {"new", "running"} =>
          proc'[ProcOf[c]] = proc[ProcOf[c]] /\ pc'[c] = pc[c]
    BY <1>1 DEF Crash, Kill
  <2> QED
    BY <1>1, <2>1, <2>2, <2>3 DEF Crash
<1>2. CASE PowerLoss
  <2>1. pc' \in [Calls -> Labels] /\ \A c \in Calls : pc'[c] \in {pc[c], "killed"}
    BY <1>2 DEF PowerLoss, Kill
  <2>2. proc' \in [Procs -> {"new", "running", "dead"}] /\ memory' \subseteq Procs
    BY <1>2 DEF PowerLoss
  <2>3. \A c \in Calls : proc'[ProcOf[c]] # "running"
    BY <1>2 DEF PowerLoss
  <2>4. \A c \in Calls : proc'[ProcOf[c]] = "new" => proc[ProcOf[c]] = "new" /\ pc'[c] = pc[c]
    BY <1>2 DEF PowerLoss, Kill
  <2>5. file' \in {"none", "whole", "torn"} /\ powerLost' /\ UNCHANGED <<op, result, dir, lock, temps, pruned, stored>>
        /\ pruning' = FALSE
    BY <1>2 DEF PowerLoss
  <2>6. TypeOK'
    BY <2>1, <2>2, <2>5
  <2>7. \A c \in Calls : /\ pc'[c] = "start" => result'[c] = "none"
                         /\ proc'[ProcOf[c]] = "new" => pc'[c] = "start"
    BY <2>1, <2>4, <2>5
  <2> QED
    BY <2>3, <2>5, <2>6, <2>7
<1>3. CASE StartPruning
  BY <1>3 DEF StartPruning
<1>4. CASE PruneEntry
  <2>1. CASE file # "none" /\ file' = "none" /\ UNCHANGED <<lock, temps>>
    BY <1>4, <2>1 DEF PruneEntry
  <2>2. CASE lock # NoCall /\ lock' = NoCall /\ UNCHANGED <<file, temps>>
    BY <1>4, <2>2 DEF PruneEntry
  <2>3. CASE \E c \in temps : temps' = temps \ {c} /\ UNCHANGED <<file, lock>>
    BY <1>4, <2>3 DEF PruneEntry
  <2> QED
    BY <1>4, <2>1, <2>2, <2>3 DEF PruneEntry
<1>5. CASE PruneDirectory
  BY <1>5 DEF PruneDirectory
<1> QED
  BY <1>1, <1>2, <1>3, <1>4, <1>5

\* The invariant holds in every reachable state.
THEOREM Invariance == Spec => []IInv
<1>1. IInv /\ [Next]_vars => IInv'
  <2> SUFFICES ASSUME IInv, [Next]_vars PROVE IInv'
    OBVIOUS
  <2>1. CASE UNCHANGED vars
    BY <2>1 DEF vars, calls, disk, faults, IInv, TypeOK, FoundIsWhole, InsertedIsKept, At, Running
  <2>2. CASE Next
    BY <2>2, CallIInv, FaultIInv DEF Next
  <2> QED
    BY <2>1, <2>2
<1> QED
  BY InitIInv, <1>1, PTL DEF Spec

\* findSync never returns a blob that is not whole, and fails only after a prune or a
\* power loss, whatever writers without the lock and crashes do.
THEOREM FindsWhole == Spec => []FoundIsWhole
<1>1. IInv => FoundIsWhole
  BY DEF IInv
<1> QED
  BY Invariance, <1>1, PTL

\* A blob that insertSync reported as stored stays in its file until a prune or a power
\* loss.
THEOREM InsertsKept == Spec => []InsertedIsKept
<1>1. IInv => InsertedIsKept
  BY DEF IInv
<1> QED
  BY Invariance, <1>1, PTL
=============================================================================
