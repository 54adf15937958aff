------------------------------ MODULE BlobCache ------------------------------
(***************************************************************************)
(* Cache/lib/BlobCache.cpp and the locked writes of Support/               *)
(* FileSystemExtras.cpp: the chain of an in-memory backend and a           *)
(* filesystem backend that processes share, for one key.  Keys have        *)
(* nothing in common but their directory, and the blob of a key is always  *)
(* the same: the key is a hash of what the blob is made from.              *)
(*                                                                         *)
(* Every access to the file system is a step.  Processes may crash, the    *)
(* machine may lose power, disks may be full, and a process of another     *)
(* version may prune the directory.                                        *)
(***************************************************************************)
EXTENDS Naturals, FiniteSets

CONSTANTS
    Procs, Calls,     \* processes, and the calls of insert and find
    ProcOf,           \* the process of a call
    ReadOnly,         \* processes that may not write to the directory
    NoCall

ASSUME CacheAssumption ==
    /\ ProcOf \in [Calls -> Procs] /\ ReadOnly \subseteq Procs /\ NoCall \notin Calls

VARIABLES
    proc,       \* per process: "new", "running" or "dead"
    memory,     \* processes with the blob in the in-memory backend
    pc, op,     \* per call: where it is, and "insert" or "find"
    result,     \* per call: "ok", "miss", "error", or the file it read
    dir,        \* whether the directory exists
    file,       \* the file of the key: "none", "whole", or "torn" by a power loss
    lock,       \* the call whose lock file exists
    temps,      \* calls whose temporary file exists
    pruning,    \* whether another version is pruning
    pruned, powerLost,  \* whether it has begun to, and whether the power was lost
    stored      \* whether an insert of a process that may write has succeeded

calls == <<pc, op, result>>
disk == <<dir, file, lock, temps>>
faults == <<pruning, pruned, powerLost>>
vars == <<proc, memory, calls, disk, faults, stored>>

Init ==
    /\ proc = [p \in Procs |-> "new"] /\ memory = {}
    /\ pc = [c \in Calls |-> "start"]
    /\ op = [c \in Calls |-> "none"] /\ result = [c \in Calls |-> "none"]
    /\ dir = FALSE /\ file = "none" /\ lock = NoCall /\ temps = {}
    /\ pruning = FALSE /\ pruned = FALSE /\ powerLost = FALSE /\ stored = FALSE

Running(c) == proc[ProcOf[c]] = "running"
At(c, label) == Running(c) /\ pc[c] = label
Goto(c, label) == pc' = [pc EXCEPT ![c] = label]

\* The call returns.
Return(c, r) ==
    /\ Goto(c, "returned")
    /\ result' = [result EXCEPT ![c] = r]
    /\ stored' = (stored \/ (r = "ok" /\ ProcOf[c] \notin ReadOnly))

\* The insert into the filesystem backend is over.  A find that has inserted what it
\* found now returns that.
InsertReturns(c) == Return(c, IF op[c] = "insert" THEN "ok" ELSE result[c])
Fails(c) == Return(c, "error")

-----------------------------------------------------------------------------
(* insertSync *)

\* insertSync of the in-memory backend, which goes on to its delegate.
StartInsert(c) ==
    /\ pc[c] = "start" /\ proc[ProcOf[c]] # "dead"
    /\ proc' = [proc EXCEPT ![ProcOf[c]] = "running"]
    /\ op' = [op EXCEPT ![c] = "insert"]
    /\ memory' = memory \cup {ProcOf[c]}
    /\ Goto(c, "contains")
    /\ UNCHANGED <<result, disk, faults, stored>>

\* insertSyncImpl: what is there is not written again; nothing is written if the
\* directory is read-only.
Contains(c) ==
    /\ At(c, "contains")
    /\ IF file # "none" \/ ProcOf[c] \in ReadOnly
       THEN InsertReturns(c)
       ELSE Goto(c, "mkdir") /\ UNCHANGED <<result, stored>>
    /\ UNCHANGED <<proc, memory, op, disk, faults>>

\* create_directories and getAvailableDiskSpace
MakeDirectory(c) ==
    /\ At(c, "mkdir")
    /\ dir' = TRUE
    /\ \/ Goto(c, "lock") /\ UNCHANGED <<result, stored>>
       \/ Fails(c)
    /\ UNCHANGED <<proc, memory, op, file, lock, temps, faults>>

\* LockFileManager::tryLock: the lock of a dead process is taken over.  Without the
\* directory it fails, which is retried for a while.
TryLock(c) ==
    /\ At(c, "lock")
    /\ \/ /\ dir /\ (lock # NoCall => ~Running(lock))
          /\ lock' = c
          /\ Goto(c, "open") /\ UNCHANGED <<result, stored>>
       \/ /\ dir /\ lock # NoCall /\ Running(lock)
          /\ Goto(c, "wait") /\ UNCHANGED <<lock, result, stored>>
       \/ ~dir /\ Fails(c) /\ UNCHANGED lock
    /\ UNCHANGED <<proc, memory, op, dir, file, temps, faults>>

\* Mutant: the other process is taken to have written the file.
WaitSuccess_Skips(c) == InsertReturns(c)

\* "We now have the lock file, and can proceed": the call goes on, without the lock.
WaitSuccess(c) == Goto(c, "open") /\ UNCHANGED <<result, stored>>

\* waitForUnlockFor: the lock is gone, its owner has died, or it took too long.
WaitForUnlock(c) ==
    /\ At(c, "wait")
    /\ \/ lock = NoCall /\ WaitSuccess(c)
       \/ lock # NoCall /\ ~Running(lock) /\ Goto(c, "lock") /\ UNCHANGED <<result, stored>>
       \/ lock # NoCall /\ Running(lock) /\ Fails(c)
    /\ UNCHANGED <<proc, memory, op, disk, faults>>

\* The destructor of the LockFileManager
Unlocked(c) == lock' = IF lock = c THEN NoCall ELSE lock

\* writeToOutput opens a temporary file next to the file and writes the blob and its
\* hash.  It fails without the directory, or without space.
WriteTemp(c) ==
    /\ At(c, "open")
    /\ \/ /\ dir /\ temps' = temps \cup {c}
          /\ Goto(c, "rename") /\ UNCHANGED <<lock, result, stored>>
       \/ Fails(c) /\ Unlocked(c) /\ UNCHANGED temps
    /\ UNCHANGED <<proc, memory, op, dir, file, faults>>

\* It renames the temporary file, unless that was pruned.
Rename(c) ==
    /\ At(c, "rename")
    /\ \/ /\ c \in temps
          /\ temps' = temps \ {c} /\ file' = "whole"
          /\ Goto(c, "unlock") /\ UNCHANGED <<lock, result, stored>>
       \/ /\ c \notin temps
          /\ Fails(c) /\ Unlocked(c) /\ UNCHANGED <<temps, file>>
    /\ UNCHANGED <<proc, memory, op, dir, faults>>

Unlock(c) ==
    /\ At(c, "unlock")
    /\ Unlocked(c)
    /\ InsertReturns(c)
    /\ UNCHANGED <<proc, memory, op, dir, file, temps, faults>>

-----------------------------------------------------------------------------
(* findSync *)

\* findSync of the in-memory backend: if it has nothing, its delegate is asked.
StartFind(c) ==
    /\ pc[c] = "start" /\ proc[ProcOf[c]] # "dead"
    /\ proc' = [proc EXCEPT ![ProcOf[c]] = "running"]
    /\ op' = [op EXCEPT ![c] = "find"]
    /\ IF ProcOf[c] \in memory
       THEN Return(c, "whole")
       ELSE Goto(c, "exists") /\ UNCHANGED <<result, stored>>
    /\ UNCHANGED <<memory, disk, faults>>

\* findSyncImpl looks whether the file is there, reads it and checks its hash, and reads
\* it again without the hash.
Exists(c) ==
    /\ At(c, "exists")
    /\ IF file = "none" THEN Return(c, "miss") ELSE Goto(c, "verify") /\ UNCHANGED <<result, stored>>
    /\ UNCHANGED <<proc, memory, op, disk, faults>>

\* Mutant: the hash is not compared.
Valid_Any == file # "none"

\* The stored and the computed hash are the same.
Valid == file = "whole"

Verify(c) ==
    /\ At(c, "verify")
    /\ IF Valid THEN Goto(c, "read") /\ UNCHANGED <<result, stored>> ELSE Fails(c)
    /\ UNCHANGED <<proc, memory, op, disk, faults>>

\* What was found is inserted into this backend, and so into its delegate again.
Read(c) ==
    /\ At(c, "read")
    /\ \/ /\ file = "none" /\ Fails(c) /\ UNCHANGED memory
       \/ /\ file # "none"
          /\ result' = [result EXCEPT ![c] = file]
          /\ memory' = memory \cup {ProcOf[c]}
          /\ Goto(c, "contains") /\ UNCHANGED stored
    /\ UNCHANGED <<proc, op, disk, faults>>

-----------------------------------------------------------------------------
(* Faults *)

\* The calls of a process that dies are over.
Kill(p, c) == IF ProcOf[c] = p /\ proc[p] = "running" THEN "killed" ELSE pc[c]

\* A process dies; its lock and its temporary files stay.
Crash(p) ==
    /\ proc[p] = "running"
    /\ proc' = [proc EXCEPT ![p] = "dead"]
    /\ memory' = memory \ {p}
    /\ pc' = [c \in Calls |-> Kill(p, c)]
    /\ UNCHANGED <<op, result, disk, faults, stored>>

\* All running processes die.  Nothing is synced before the rename, so that a file may
\* have lost contents.
PowerLoss ==
    /\ ~powerLost /\ powerLost' = TRUE
    /\ proc' = [p \in Procs |-> IF proc[p] = "running" THEN "dead" ELSE proc[p]]
    /\ memory' = {}
    /\ pc' = [c \in Calls |-> Kill(ProcOf[c], c)]
    /\ \/ UNCHANGED file
       \/ file = "whole" /\ file' = "torn"
    /\ pruning' = FALSE
    /\ UNCHANGED <<op, result, dir, lock, temps, pruned, stored>>

\* getVersionedFilesystemBackend of another version with the same suffix: remove_all
\* removes the entries of the directory one by one, and then the directory, if no new
\* entry was made meanwhile.
StartPruning ==
    /\ dir /\ ~pruned
    /\ pruning' = TRUE /\ pruned' = TRUE
    /\ UNCHANGED <<proc, memory, calls, disk, powerLost, stored>>

PruneEntry ==
    /\ pruning
    /\ \/ file # "none" /\ file' = "none" /\ UNCHANGED <<lock, temps>>
       \/ lock # NoCall /\ lock' = NoCall /\ UNCHANGED <<file, temps>>
       \/ \E c \in temps : temps' = temps \ {c} /\ UNCHANGED <<file, lock>>
    /\ UNCHANGED <<proc, memory, calls, dir, faults, stored>>

PruneDirectory ==
    /\ pruning /\ pruning' = FALSE
    /\ dir' = (file # "none" \/ lock # NoCall \/ temps # {})
    /\ UNCHANGED <<proc, memory, calls, file, lock, temps, pruned, powerLost, stored>>

Call(c) ==
    \/ StartInsert(c) \/ Contains(c) \/ MakeDirectory(c) \/ TryLock(c) \/ WaitForUnlock(c)
    \/ WriteTemp(c) \/ Rename(c) \/ Unlock(c)
    \/ StartFind(c) \/ Exists(c) \/ Verify(c) \/ Read(c)

Next ==
    \/ \E c \in Calls : Call(c)
    \/ \E p \in Procs : Crash(p)
    \/ PowerLoss \/ StartPruning \/ PruneEntry \/ PruneDirectory

Spec == Init /\ [][Next]_vars

-----------------------------------------------------------------------------
(* Properties *)

Labels == {"start", "contains", "mkdir", "lock", "wait", "open", "rename", "unlock",
           "exists", "verify", "read", "returned", "killed"}
Results == {"none", "ok", "miss", "error", "whole", "torn"}

TypeOK ==
    /\ proc \in [Procs -> {"new", "running", "dead"}] /\ memory \subseteq Procs
    /\ pc \in [Calls -> Labels]
    /\ op \in [Calls -> {"none", "insert", "find"}]
    /\ result \in [Calls -> Results]
    /\ dir \in BOOLEAN /\ file \in {"none", "whole", "torn"}
    /\ lock \in Calls \cup {NoCall} /\ temps \subseteq Calls
    /\ pruning \in BOOLEAN /\ pruned \in BOOLEAN /\ powerLost \in BOOLEAN /\ stored \in BOOLEAN

\* "We can safely read it without a lock": what a find returns is the whole blob, though
\* writers that waited for the lock do not hold it and may write at the same time,
\* crash, and lose power; and a find fails only if the directory was pruned or the
\* power lost.
FoundIsWhole ==
    \A c \in Calls : op[c] = "find" =>
        /\ result[c] # "torn"
        /\ result[c] = "error" => pruned \/ powerLost

\* Once an insert has succeeded the file is there, whole, for every process, until it
\* is pruned or the power is lost: an insert that finds the lock taken does not rely on
\* an owner that may fail.
InsertedIsKept == stored /\ ~pruned /\ ~powerLost => file = "whole"
=============================================================================
