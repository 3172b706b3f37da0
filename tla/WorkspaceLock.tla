--------------------------- MODULE WorkspaceLock ---------------------------
(***************************************************************************)
(* The lock file .palari/locks/workspace.json.lock (store.py,              *)
(* _acquire_workspace_lock and _release_workspace_lock), one action per    *)
(* system call.  The file is created with O_EXCL, its owner's pid and      *)
(* token are written afterwards through the descriptor, and a lock judged  *)
(* stale is removed by path: what is judged and what is removed need not   *)
(* be the same file.  A process that runs one command after another is     *)
(* one element of Proc; the pid in a file is that of a live process or     *)
(* Dead.  Nothing is assumed about who runs beside whom or how fast: the   *)
(* history variables racers, late and broken say when the file of a live   *)
(* process was taken from it, and why, and the properties what holds until *)
(* then.                                                                   *)
(***************************************************************************)
EXTENDS Integers

CONSTANTS
    Proc,
    NoFile,           \* no lock file
    Dead,             \* the pid of a process that is gone
    Nobody,
    MaxCrashes        \* bound on deaths

ASSUME LockAssumption ==
    /\ Dead \notin Proc /\ Nobody \notin Proc
    /\ MaxCrashes \in Nat

VARIABLES
    file,     \* the file at the lock path
    step,     \* next system call of each process
    old,      \* the mtime a process got from stat is past the 30 seconds
    racers,   \* the processes that judge a lock file which is not the one
              \* they looked at first any more
    late,     \* a live creator has let 30 seconds pass before it wrote its pid
    broken,   \* "no", or how a process removed the file of a live one: it had
              \* judged another file ("raced") or this one ("slow")
    crashes

history == <<racers, late, broken>>
lockVars == <<file, step, old, history, crashes>>

(* aged: its mtime is more than STALE_WORKSPACE_LOCK_SECONDS ago.          *)
LockFile == [creator: Proc \cup {Dead}, written: BOOLEAN, aged: BOOLEAN]

ASSUME NoFileAssumption == NoFile \notin LockFile

LockSteps ==
    {"idle", "create", "stat", "readPid", "remove", "recreate", "write",
     "inside", "readToken", "unlink"}

(* Between the stat of a lock file and what becomes of it.                 *)
Judging(p) == step[p] \in {"readPid", "remove"}

Live(f) == f # NoFile /\ f.creator # Dead

Go(p, s) == step' = [step EXCEPT ![p] = s]

LockInit ==
    /\ file = NoFile
    /\ step = [p \in Proc |-> "idle"]
    /\ old = [p \in Proc |-> FALSE]
    /\ racers = {} /\ late = FALSE /\ broken = "no"
    /\ crashes = 0

-----------------------------------------------------------------------------
(* _acquire_workspace_lock *)

Want(p) ==
    /\ step[p] = "idle"
    /\ Go(p, "create")
    /\ UNCHANGED <<file, old, history, crashes>>

(* Faulty: whoever creates the file, it is nobody's.                       *)
NewUnownedFile(p) == [creator |-> Nobody, written |-> FALSE, aged |-> FALSE]

NewFile(p) == [creator |-> p, written |-> FALSE, aged |-> FALSE]

(* Whoever judges by now, judges another file.                             *)
Create(p) ==
    /\ file' = NewFile(p)
    /\ racers' = {q \in Proc : Judging(q)}
    /\ Go(p, "write")
    /\ UNCHANGED <<late, broken>>

(* Faulty: opens the file without O_EXCL.                                  *)
CreateOrOpenFile(p) ==
    /\ step[p] = "create"
    /\ Create(p)
    /\ UNCHANGED <<old, crashes>>

CreateFile(p) ==
    /\ step[p] = "create"
    /\ IF file = NoFile THEN Create(p)
       ELSE Go(p, "stat") /\ UNCHANGED <<file, history>>
    /\ UNCHANGED <<old, crashes>>

(* _workspace_lock_is_stale: a file that is gone by now counts as stale.   *)
StatFile(p) ==
    /\ step[p] = "stat"
    /\ IF file = NoFile
       THEN Go(p, "remove") /\ UNCHANGED old
       ELSE Go(p, "readPid") /\ old' = [old EXCEPT ![p] = file.aged]
    /\ UNCHANGED <<file, history, crashes>>

(* A pid decides; without one (no file any more, or nothing written in it  *)
(* yet) the age does, by the mtime seen before.                            *)
HasPid == file # NoFile /\ file.written

(* Faulty: the age alone decides.                                          *)
StaleByAge(p) == old[p]

(* Faulty: a file without a pid is never stale.                            *)
StaleOnlyByPid(p) == HasPid /\ file.creator = Dead

JudgedStale(p) == IF HasPid THEN file.creator = Dead ELSE old[p]

ReadPid(p) ==
    /\ step[p] = "readPid"
    /\ IF JudgedStale(p) THEN Go(p, "remove") /\ UNCHANGED racers
       ELSE Go(p, "idle") /\ racers' = racers \ {p}
    /\ old' = [old EXCEPT ![p] = FALSE]
    /\ UNCHANGED <<file, late, broken, crashes>>

RemoveFile(p) ==
    /\ step[p] = "remove"
    /\ file' = NoFile
    /\ Go(p, "recreate")
    /\ broken' = IF broken = "no" /\ Live(file)
                 THEN IF p \in racers THEN "raced" ELSE "slow"
                 ELSE broken
    /\ racers' = racers \ {p}
    /\ UNCHANGED <<old, late, crashes>>

(* Faulty: the second creation does without O_EXCL.                        *)
RecreateOrOpenFile(p) ==
    /\ step[p] = "recreate"
    /\ Create(p)
    /\ UNCHANGED <<old, crashes>>

RecreateFile(p) ==
    /\ step[p] = "recreate"
    /\ IF file = NoFile THEN Create(p)
       ELSE Go(p, "idle") /\ UNCHANGED <<file, history>>
    /\ UNCHANGED <<old, crashes>>

(* Faulty: pid and token never reach the file.                            *)
WriteNothing(p) ==
    /\ step[p] = "write"
    /\ Go(p, "inside")
    /\ UNCHANGED <<file, old, history, crashes>>

(* pid and token go to the descriptor: if the path names another file by   *)
(* now, that one is not touched.                                           *)
WriteOwner(p) ==
    /\ step[p] = "write"
    /\ file' = IF file # NoFile /\ file.creator = p
               THEN [creator |-> p, written |-> TRUE, aged |-> FALSE]
               ELSE file
    /\ Go(p, "inside")
    /\ UNCHANGED <<old, history, crashes>>

-----------------------------------------------------------------------------
(* _release_workspace_lock *)

Finish(p) ==
    /\ step[p] = "inside"
    /\ Go(p, "readToken")
    /\ UNCHANGED <<file, old, history, crashes>>

(* A missing file is accepted; another token, or none, is an error, and    *)
(* the file is left where it is.                                           *)
ReadToken(p) ==
    /\ step[p] = "readToken"
    /\ Go(p, IF HasPid /\ file.creator = p THEN "unlink" ELSE "idle")
    /\ UNCHANGED <<file, old, history, crashes>>

UnlinkFile(p) ==
    /\ step[p] = "unlink"
    /\ file' = NoFile
    /\ Go(p, "idle")
    /\ UNCHANGED <<old, history, crashes>>

-----------------------------------------------------------------------------
Die(p) ==
    /\ crashes < MaxCrashes
    /\ step[p] # "idle"
    /\ crashes' = crashes + 1
    /\ file' = IF file # NoFile /\ file.creator = p
               THEN [file EXCEPT !.creator = Dead] ELSE file
    /\ racers' = racers \ {p}
    /\ old' = [old EXCEPT ![p] = FALSE]
    /\ Go(p, "idle")
    /\ UNCHANGED <<late, broken>>

(* 30 seconds pass.                                                        *)
Age ==
    /\ file # NoFile => ~file.aged
    /\ file' = IF file = NoFile THEN file ELSE [file EXCEPT !.aged = TRUE]
    /\ old' = [p \in Proc |-> old[p] \/ step[p] = "readPid"]
    /\ <<file, old>>' # <<file, old>>
    /\ late' = (late \/ (Live(file) /\ ~file.written))
    /\ UNCHANGED <<step, racers, broken, crashes>>

Take(p) ==
    \/ CreateFile(p) \/ StatFile(p) \/ ReadPid(p) \/ RemoveFile(p)
    \/ RecreateFile(p) \/ WriteOwner(p)

Give(p) == Finish(p) \/ ReadToken(p) \/ UnlinkFile(p)

LockNext ==
    \/ \E p \in Proc : Want(p) \/ Take(p) \/ Give(p) \/ Die(p)
    \/ Age

LockSpec == LockInit /\ [][LockNext]_lockVars

-----------------------------------------------------------------------------
LockTypeOK ==
    /\ file \in LockFile \cup {NoFile}
    /\ step \in [Proc -> LockSteps]
    /\ old \in [Proc -> BOOLEAN]
    /\ racers \subseteq Proc /\ late \in BOOLEAN /\ broken \in {"no", "raced", "slow"}
    /\ crashes \in Nat

(* The write section of a process is from the return of acquire to the     *)
(* unlink of its lock.                                                     *)
Inside(p) == step[p] \in {"inside", "readToken", "unlink"}

(* "Workspace writes are one-writer-at-a-time."                            *)
OneWriter == \A p, q \in Proc : Inside(p) /\ Inside(q) => p = q

(* Two processes are inside only after one of them, or a third, removed    *)
(* the lock file of a live process: no interleaving of creations, pid      *)
(* writes, releases, deaths and ageing does it without that                *)
(* (_acquire_workspace_lock, _remove_workspace_lock).                      *)
OneWriterUntilBroken == broken = "no" => OneWriter

(* Until then a process inside has its own pid and token in the file, so   *)
(* its release ("workspace lock ownership changed") fails only if its lock *)
(* was taken from it (_release_workspace_lock).                            *)
OwnsFileUntilBroken ==
    broken = "no" =>
       \A p \in Proc : Inside(p) => file # NoFile /\ file.creator = p /\ file.written

(* A live process loses its lock to one that judged this very file only if *)
(* 30 seconds passed before it wrote its pid; otherwise the file judged    *)
(* and the file removed are different ones (_workspace_lock_is_stale).     *)
OnlyLateOwnersAreJudged == broken = "slow" => late

(* No owner was late: what then breaks the lock is the race.               *)
InTime == ~late

(* The lock file implements the mutex until it is broken.                  *)
Mutex == INSTANCE WriterMutex WITH
    writer <- IF broken = "no" /\ \E p \in Proc : Inside(p)
              THEN CHOOSE p \in Proc : Inside(p) ELSE Nobody,
    broken <- broken # "no"

ImplementsMutex == Mutex!MutexSpec

(* A live process does not stop between two system calls, time passes, and *)
(* a process that wants the lock comes back for it ("retry shortly").      *)
LockFairness ==
    /\ \A p \in Proc : SF_lockVars(Want(p)) /\ SF_lockVars(Take(p)) /\ WF_lockVars(Give(p))
    /\ WF_lockVars(Age)

FairLockSpec == LockSpec /\ LockFairness

(* The lock a process left by dying is reclaimed, whether it died before   *)
(* or after writing its pid.                                               *)
Orphaned == file # NoFile /\ file.creator = Dead

OrphanIsReclaimed == Orphaned ~> ~Orphaned
=============================================================================
