------------------------ MODULE WorkspaceLockProofs ------------------------
(***************************************************************************)
(* The lock file excludes two writers, for any number of processes and     *)
(* however they are interleaved, suspended and killed, until one of them   *)
(* removes the file of a live one; and it says what such a removal takes.  *)
(* Nothing is assumed about contention or speed.                           *)
(***************************************************************************)
EXTENDS WorkspaceLock, TLAPS

(* From the creation of its file to the removal, a process holds the lock. *)
Holds(p) == step[p] = "write" \/ Inside(p)

(* The file names its holder.                                              *)
HolderInFile ==
    broken = "no" =>
       \A p \in Proc : Holds(p) => /\ file # NoFile /\ file.creator = p
                                   /\ Inside(p) => file.written

(* Where a live process could be taken for gone, one was late to write its *)
(* pid: if its file has no pid and is old, ...                             *)
AgedIsLate == Live(file) /\ ~file.written /\ file.aged => late

(* ... or was old for a process that will next look for the pid in it, ... *)
OldIsLate ==
    \A p \in Proc :
       step[p] = "readPid" /\ p \notin racers /\ old[p] /\ Live(file) /\ ~file.written => late

(* ... or is about to be removed by a process that looked at no other.     *)
RemovedIsLate ==
    \A p \in Proc : step[p] = "remove" /\ p \notin racers /\ Live(file) => late

LockInv ==
    /\ LockTypeOK /\ HolderInFile
    /\ AgedIsLate /\ OldIsLate /\ RemovedIsLate /\ OnlyLateOwnersAreJudged

LEMMA FileIs ==
    ASSUME LockTypeOK, file # NoFile
    PROVE  file \in LockFile
  BY DEF LockTypeOK

LEMMA NewFileIs ==
    ASSUME NEW p \in Proc
    PROVE  /\ NewFile(p) \in LockFile /\ NewFile(p) # NoFile /\ Live(NewFile(p))
           /\ NewFile(p).creator = p /\ ~NewFile(p).written /\ ~NewFile(p).aged
  <1>1. NewFile(p) \in LockFile
    BY DEF NewFile, LockFile
  <1>2. NewFile(p) # NoFile
    BY <1>1, NoFileAssumption
  <1> QED BY <1>1, <1>2, LockAssumption DEF NewFile, Live

(* Where a step s takes process p.                                         *)
LEMMA StepIs ==
    ASSUME LockTypeOK, NEW p \in Proc, NEW s, Go(p, s)
    PROVE  /\ step'[p] = s
           /\ \A q \in Proc \ {p} : step'[q] = step[q]
  BY DEF LockTypeOK, Go

(* Nobody held the lock that could be created; all who judge are racers.   *)
LEMMA CreateKeeps ==
    ASSUME LockInv, NEW p \in Proc, step[p] \in {"create", "recreate"}, file = NoFile,
           Create(p), UNCHANGED <<old, crashes>>
    PROVE  LockInv'
  <1>1. PICK f : f = NewFile(p)
    OBVIOUS
  <1>2. file' = f /\ racers' = {q \in Proc : Judging(q)} /\ late' = late /\ broken' = broken
    BY <1>1 DEF Create
  <1>3. f \in LockFile /\ f # NoFile /\ f.creator = p /\ ~f.written /\ ~f.aged
    BY <1>1, NewFileIs
  <1>4. step'[p] = "write" /\ \A q \in Proc \ {p} : step'[q] = step[q]
    BY StepIs DEF LockInv, Create
  <1>5. LockTypeOK'
    BY <1>2, <1>3 DEF LockInv, LockTypeOK, Create, Go, LockSteps
  <1>6. HolderInFile'
    BY <1>2, <1>3, <1>4 DEF LockInv, HolderInFile, Holds, Inside
  <1>7. AgedIsLate' /\ OnlyLateOwnersAreJudged'
    BY <1>2, <1>3 DEF LockInv, AgedIsLate, OnlyLateOwnersAreJudged
  <1>8. \A q \in Proc : step'[q] \in {"readPid", "remove"} => q \in racers'
    BY <1>2, <1>4 DEF Judging
  <1> QED
    BY <1>5, <1>6, <1>7, <1>8 DEF LockInv, OldIsLate, RemovedIsLate

(* A step to s of a process that leaves the file, and everybody else's     *)
(* judgement of it, alone, and does not come to hold the lock by it.       *)
LEMMA QuietKeeps ==
    ASSUME LockInv, NEW p \in Proc, NEW s \in LockSteps, Go(p, s),
           UNCHANGED <<file, late, broken, crashes>>,
           racers' \in {racers, racers \ {p}}, s # "remove", p \in racers' \/ s # "readPid",
           old' \in [Proc -> BOOLEAN], \A q \in Proc \ {p} : old'[q] = old[q],
           s = "write" => step[p] = "write",
           s \in {"inside", "readToken", "unlink"} => Inside(p)
    PROVE  LockInv'
  <1>1. step'[p] = s /\ \A q \in Proc \ {p} : step'[q] = step[q]
    BY StepIs DEF LockInv
  <1>2. \A q \in Proc \ {p} : q \in racers' <=> q \in racers
    OBVIOUS
  <1>3. LockTypeOK'
    BY DEF LockInv, LockTypeOK, Go
  <1>4. HolderInFile'
    BY <1>1 DEF LockInv, HolderInFile, Holds, Inside
  <1>5. AgedIsLate' /\ OnlyLateOwnersAreJudged'
    BY DEF LockInv, AgedIsLate, OnlyLateOwnersAreJudged
  <1>6. OldIsLate'
    BY <1>1, <1>2 DEF LockInv, OldIsLate
  <1>7. RemovedIsLate'
    BY <1>1, <1>2 DEF LockInv, RemovedIsLate
  <1> QED BY <1>3, <1>4, <1>5, <1>6, <1>7 DEF LockInv

LEMMA StatKeeps ==
    ASSUME LockInv, NEW p \in Proc, StatFile(p)
    PROVE  LockInv'
  <1>1. UNCHANGED <<file, racers, late, broken, crashes>>
    BY DEF StatFile, history
  <1>2. PICK s \in {"remove", "readPid"} :
           /\ Go(p, s)
           /\ s = "remove" => file = NoFile
           /\ s = "readPid" => file # NoFile /\ old' = [old EXCEPT ![p] = file.aged]
           /\ s = "remove" => old' = old
    BY DEF StatFile
  <1>3. step'[p] = s /\ \A q \in Proc \ {p} : step'[q] = step[q]
    BY <1>2, StepIs DEF LockInv
  <1>4. old' \in [Proc -> BOOLEAN] /\ \A q \in Proc \ {p} : old'[q] = old[q]
    BY <1>2, FileIs DEF LockInv, LockTypeOK, LockFile
  <1>5. LockTypeOK'
    BY <1>1, <1>2, <1>4 DEF LockInv, LockTypeOK, Go, LockSteps
  <1>6. HolderInFile'
    BY <1>1, <1>2, <1>3 DEF LockInv, HolderInFile, Holds, Inside
  <1>7. AgedIsLate' /\ OnlyLateOwnersAreJudged'
    BY <1>1 DEF LockInv, AgedIsLate, OnlyLateOwnersAreJudged
  <1>8. s = "readPid" => old'[p] = file.aged
    BY <1>2 DEF LockInv, LockTypeOK
  <1>9. OldIsLate'
    BY <1>1, <1>2, <1>3, <1>4, <1>8 DEF LockInv, OldIsLate, AgedIsLate
  <1>10. RemovedIsLate'
    BY <1>1, <1>2, <1>3 DEF LockInv, RemovedIsLate, Live
  <1> QED BY <1>5, <1>6, <1>7, <1>9, <1>10 DEF LockInv

(* A file that is judged stale, and is the one looked at, is nobody's or   *)
(* its creator was late.                                                   *)
LEMMA ReadPidKeeps ==
    ASSUME LockInv, NEW p \in Proc, ReadPid(p)
    PROVE  LockInv'
  <1>1. old' \in [Proc -> BOOLEAN] /\ \A q \in Proc \ {p} : old'[q] = old[q]
    BY DEF ReadPid, LockInv, LockTypeOK
  <1>2. CASE ~JudgedStale(p)
    BY <1>1, <1>2, QuietKeeps DEF ReadPid, LockSteps
  <1>3. CASE JudgedStale(p)
    <2>1. Go(p, "remove") /\ UNCHANGED <<file, racers, late, broken, crashes>>
      BY <1>3 DEF ReadPid
    <2>2. step'[p] = "remove" /\ \A q \in Proc \ {p} : step'[q] = step[q]
      BY <2>1, StepIs DEF LockInv
    <2>3. LockTypeOK'
      BY <1>1, <2>1 DEF LockInv, LockTypeOK, Go, LockSteps
    <2>4. HolderInFile'
      BY <2>1, <2>2 DEF ReadPid, LockInv, HolderInFile, Holds, Inside
    <2>5. AgedIsLate' /\ OnlyLateOwnersAreJudged'
      BY <2>1 DEF LockInv, AgedIsLate, OnlyLateOwnersAreJudged
    <2>6. OldIsLate'
      BY <1>1, <2>1, <2>2 DEF LockInv, OldIsLate
    <2>7. p \notin racers /\ Live(file) => late
      BY <1>3 DEF ReadPid, JudgedStale, HasPid, Live, LockInv, OldIsLate
    <2>8. RemovedIsLate'
      BY <2>1, <2>2, <2>7 DEF LockInv, RemovedIsLate
    <2> QED BY <2>3, <2>4, <2>5, <2>6, <2>8 DEF LockInv
  <1> QED BY <1>2, <1>3

(* Who removes the file of a live process breaks the lock; otherwise       *)
(* nobody held it.                                                         *)
LEMMA RemoveKeeps ==
    ASSUME LockInv, NEW p \in Proc, RemoveFile(p)
    PROVE  LockInv'
  <1>1. /\ file' = NoFile /\ racers' = racers \ {p} /\ UNCHANGED <<old, late, crashes>>
        /\ step[p] = "remove"
    BY DEF RemoveFile
  <1>2. step'[p] = "recreate" /\ \A q \in Proc \ {p} : step'[q] = step[q]
    BY StepIs DEF LockInv, RemoveFile
  <1>3. broken' = IF broken = "no" /\ Live(file)
                  THEN IF p \in racers THEN "raced" ELSE "slow" ELSE broken
    BY DEF RemoveFile
  <1>4. LockTypeOK'
    BY <1>1, <1>3 DEF LockInv, LockTypeOK, RemoveFile, Go, LockSteps
  <1>5. HolderInFile'
    <2>1. CASE broken' = "no"
      <3>1. broken = "no" /\ ~Live(file)
        BY <1>3, <2>1
      <3>2. \A q \in Proc : ~Holds(q)
        BY <3>1, LockAssumption DEF LockInv, HolderInFile, Live
      <3> QED BY <1>2, <3>2 DEF HolderInFile, Holds, Inside
    <2> QED BY <2>1 DEF HolderInFile
  <1>6. OnlyLateOwnersAreJudged'
    BY <1>1, <1>3 DEF LockInv, RemovedIsLate, OnlyLateOwnersAreJudged
  <1>7. ~Live(file)'
    BY <1>1 DEF Live
  <1> QED
    BY <1>4, <1>5, <1>6, <1>7 DEF LockInv, AgedIsLate, OldIsLate, RemovedIsLate

LEMMA WriteKeeps ==
    ASSUME LockInv, NEW p \in Proc, WriteOwner(p)
    PROVE  LockInv'
  <1>1. UNCHANGED <<old, racers, late, broken, crashes>> /\ step[p] = "write"
    BY DEF WriteOwner, history
  <1>2. step'[p] = "inside" /\ \A q \in Proc \ {p} : step'[q] = step[q]
    BY StepIs DEF LockInv, WriteOwner
  <1>3. CASE file # NoFile /\ file.creator = p
    <2>1. PICK f : f = [creator |-> p, written |-> TRUE, aged |-> FALSE]
      OBVIOUS
    <2>2. file' = f /\ f \in LockFile /\ f.creator = p /\ f.written
      BY <1>3, <2>1 DEF WriteOwner, LockFile
    <2>3. f # NoFile
      BY <2>2, NoFileAssumption
    <2>4. LockTypeOK'
      BY <1>1, <2>2 DEF LockInv, LockTypeOK, WriteOwner, Go, LockSteps
    <2>5. HolderInFile'
      BY <1>1, <1>2, <1>3, <2>2, <2>3 DEF LockInv, HolderInFile, Holds, Inside
    <2>6. AgedIsLate' /\ OldIsLate' /\ OnlyLateOwnersAreJudged'
      BY <1>1, <2>2 DEF LockInv, AgedIsLate, OldIsLate, OnlyLateOwnersAreJudged
    <2>7. Live(file)
      BY <1>3, LockAssumption DEF Live
    <2>8. RemovedIsLate'
      BY <1>1, <1>2, <2>7 DEF LockInv, RemovedIsLate
    <2> QED BY <2>4, <2>5, <2>6, <2>8 DEF LockInv
  <1>4. CASE ~(file # NoFile /\ file.creator = p)
    <2>1. file' = file /\ broken # "no"
      BY <1>1, <1>4 DEF WriteOwner, LockInv, HolderInFile, Holds
    <2>2. LockTypeOK'
      BY <1>1, <2>1 DEF LockInv, LockTypeOK, WriteOwner, Go, LockSteps
    <2>3. HolderInFile'
      BY <1>1, <2>1 DEF HolderInFile
    <2>4. AgedIsLate' /\ OldIsLate' /\ RemovedIsLate' /\ OnlyLateOwnersAreJudged'
      BY <1>1, <1>2, <2>1
         DEF LockInv, AgedIsLate, OldIsLate, RemovedIsLate, OnlyLateOwnersAreJudged
    <2> QED BY <2>2, <2>3, <2>4 DEF LockInv
  <1> QED BY <1>3, <1>4

LEMMA UnlinkKeeps ==
    ASSUME LockInv, NEW p \in Proc, UnlinkFile(p)
    PROVE  LockInv'
  <1>1. /\ file' = NoFile /\ UNCHANGED <<old, racers, late, broken, crashes>>
        /\ Inside(p)
    BY DEF UnlinkFile, history, Inside
  <1>2. step'[p] = "idle" /\ \A q \in Proc \ {p} : step'[q] = step[q]
    BY StepIs DEF LockInv, UnlinkFile
  <1>3. LockTypeOK'
    BY <1>1 DEF LockInv, LockTypeOK, UnlinkFile, Go, LockSteps
  <1>4. HolderInFile'
    BY <1>1, <1>2 DEF LockInv, HolderInFile, Holds, Inside
  <1>5. ~Live(file)'
    BY <1>1 DEF Live
  <1> QED
    BY <1>1, <1>3, <1>4, <1>5
       DEF LockInv, AgedIsLate, OldIsLate, RemovedIsLate, OnlyLateOwnersAreJudged

LEMMA DieKeeps ==
    ASSUME LockInv, NEW p \in Proc, Die(p)
    PROVE  LockInv'
  <1>1. /\ UNCHANGED <<late, broken>> /\ racers' = racers \ {p}
        /\ old' = [old EXCEPT ![p] = FALSE] /\ crashes' = crashes + 1
    BY DEF Die
  <1>2. step'[p] = "idle" /\ \A q \in Proc \ {p} : step'[q] = step[q]
    BY StepIs DEF LockInv, Die
  <1>3. CASE file = NoFile \/ file.creator # p
    <2>1. file' = file
      BY <1>3 DEF Die
    <2>2. LockTypeOK'
      BY <1>1, <2>1 DEF LockInv, LockTypeOK, Die, Go, LockSteps
    <2>3. HolderInFile'
      BY <1>1, <1>2, <2>1 DEF LockInv, HolderInFile, Holds, Inside
    <2>4. \A q \in Proc \ {p} : old'[q] = old[q]
      BY <1>1 DEF LockInv, LockTypeOK
    <2>5. AgedIsLate' /\ OldIsLate' /\ RemovedIsLate' /\ OnlyLateOwnersAreJudged'
      BY <1>1, <1>2, <2>1, <2>4
         DEF LockInv, AgedIsLate, OldIsLate, RemovedIsLate, OnlyLateOwnersAreJudged
    <2> QED BY <2>2, <2>3, <2>5 DEF LockInv
  <1>4. CASE file # NoFile /\ file.creator = p
    <2>1. file' = [file EXCEPT !.creator = Dead] /\ file \in LockFile
      BY <1>4, FileIs DEF Die, LockInv
    <2>2. file' \in LockFile /\ file'.creator = Dead
      BY <2>1 DEF LockFile
    <2>3. LockTypeOK'
      BY <1>1, <2>2 DEF LockInv, LockTypeOK, Die, Go, LockSteps
    <2>4. broken = "no" => \A q \in Proc \ {p} : ~Holds(q)
      BY <1>4 DEF LockInv, HolderInFile
    <2>5. HolderInFile'
      BY <1>1, <1>2, <2>4 DEF HolderInFile, Holds, Inside
    <2>6. ~Live(file)'
      BY <2>2 DEF Live
    <2>7. OnlyLateOwnersAreJudged'
      BY <1>1 DEF LockInv, OnlyLateOwnersAreJudged
    <2> QED
      BY <2>3, <2>5, <2>6, <2>7 DEF LockInv, AgedIsLate, OldIsLate, RemovedIsLate
  <1> QED BY <1>3, <1>4

(* A file without a pid that gets old makes its creator late.              *)
LEMMA AgeKeeps ==
    ASSUME LockInv, Age
    PROVE  LockInv'
  <1>1. /\ UNCHANGED <<step, racers, broken, crashes>>
        /\ old' = [p \in Proc |-> old[p] \/ step[p] = "readPid"]
        /\ late' = (late \/ (Live(file) /\ ~file.written))
    BY DEF Age
  <1>2. CASE file = NoFile
    <2>1. file' = NoFile
      BY <1>2 DEF Age
    <2>2. LockTypeOK'
      BY <1>1, <2>1 DEF LockInv, LockTypeOK
    <2>3. HolderInFile'
      BY <1>1, <1>2, <2>1 DEF LockInv, HolderInFile, Holds, Inside
    <2> QED
      BY <1>1, <2>1, <2>2, <2>3
         DEF LockInv, AgedIsLate, OldIsLate, RemovedIsLate, OnlyLateOwnersAreJudged, Live
  <1>3. CASE file # NoFile
    <2>1. file' = [file EXCEPT !.aged = TRUE] /\ file \in LockFile
      BY <1>3, FileIs DEF Age, LockInv
    <2>2. file' \in LockFile /\ file'.creator = file.creator /\ file'.written = file.written
      BY <2>1 DEF LockFile
    <2>3. file' # NoFile
      BY <2>2, NoFileAssumption
    <2>4. LockTypeOK'
      BY <1>1, <2>2 DEF LockInv, LockTypeOK
    <2>5. HolderInFile'
      BY <1>1, <2>2, <2>3 DEF LockInv, HolderInFile, Holds, Inside
    <2>6. Live(file)' <=> Live(file)
      BY <1>3, <2>2, <2>3 DEF Live
    <2> QED
      BY <1>1, <2>2, <2>4, <2>5, <2>6
         DEF LockInv, AgedIsLate, OldIsLate, RemovedIsLate, OnlyLateOwnersAreJudged
  <1> QED BY <1>2, <1>3

LEMMA ProcessKeeps ==
    ASSUME LockInv, NEW p \in Proc, Want(p) \/ Take(p) \/ Give(p) \/ Die(p)
    PROVE  LockInv'
  <1>1. racers \in {racers, racers \ {p}} /\ old \in [Proc -> BOOLEAN]
    BY DEF LockInv, LockTypeOK
  <1>2. CASE Want(p)
    BY <1>1, <1>2, QuietKeeps DEF Want, history, LockSteps
  <1>3. CASE CreateFile(p) \/ RecreateFile(p)
    <2>1. CASE file = NoFile
      BY <1>3, <2>1, CreateKeeps DEF CreateFile, RecreateFile
    <2>2. CASE file # NoFile
      BY <1>1, <1>3, <2>2, QuietKeeps DEF CreateFile, RecreateFile, history, LockSteps
    <2> QED BY <2>1, <2>2
  <1>4. CASE Finish(p) \/ ReadToken(p)
    BY <1>1, <1>4, QuietKeeps DEF Finish, ReadToken, history, LockSteps, Inside
  <1> QED
    BY <1>2, <1>3, <1>4, StatKeeps, ReadPidKeeps, RemoveKeeps, WriteKeeps, UnlinkKeeps, DieKeeps
       DEF Take, Give

(* The invariant holds throughout.                                         *)
LEMMA LockStepKeeps == LockInv /\ [LockNext]_lockVars => LockInv'
  <1> SUFFICES ASSUME LockInv, [LockNext]_lockVars
               PROVE  LockInv'
    OBVIOUS
  <1>1. CASE UNCHANGED lockVars
    BY <1>1 DEF lockVars, history, LockInv, LockTypeOK, HolderInFile, Holds, Inside, AgedIsLate,
       OldIsLate, RemovedIsLate, OnlyLateOwnersAreJudged, Live
  <1> QED BY <1>1, ProcessKeeps, AgeKeeps DEF LockNext

LEMMA AlwaysLockInv == LockSpec => []LockInv
  <1>1. LockInit => LockInv
    <2> SUFFICES ASSUME LockInit
                 PROVE  LockInv
      OBVIOUS
    <2>1. LockTypeOK
      BY LockAssumption DEF LockInit, LockTypeOK, LockSteps
    <2>2. ~Live(file) /\ broken = "no" /\ \A p \in Proc : ~Holds(p)
      BY DEF LockInit, Live, Holds, Inside
    <2> QED
      BY <2>1, <2>2
         DEF LockInv, HolderInFile, AgedIsLate, OldIsLate, RemovedIsLate, OnlyLateOwnersAreJudged
  <1> QED BY <1>1, LockStepKeeps, PTL DEF LockSpec

LEMMA HolderIsInFile ==
    ASSUME HolderInFile
    PROVE  OneWriterUntilBroken /\ OwnsFileUntilBroken
  BY DEF HolderInFile, OneWriterUntilBroken, OneWriter, OwnsFileUntilBroken, Holds

-----------------------------------------------------------------------------
(* The path names no file or one that somebody created whole, and every    *)
(* process is between two system calls (_acquire_workspace_lock).          *)
THEOREM LockTypesCorrect == LockSpec => []LockTypeOK
  BY AlwaysLockInv, PTL DEF LockInv

(* "Workspace writes are one-writer-at-a-time" until the file of a live    *)
(* process is removed, for any number of processes that contend, stop or   *)
(* die anywhere (_acquire_workspace_lock, _remove_workspace_lock).         *)
THEOREM MutualExclusion == LockSpec => []OneWriterUntilBroken
  <1>1. LockInv => OneWriterUntilBroken
    BY HolderIsInFile DEF LockInv
  <1> QED BY <1>1, AlwaysLockInv, PTL

(* Until then releasing a lock does not fail: the file is there and has    *)
(* the token of the process that releases it (_release_workspace_lock).    *)
THEOREM LockStaysOwned == LockSpec => []OwnsFileUntilBroken
  <1>1. LockInv => OwnsFileUntilBroken
    BY HolderIsInFile DEF LockInv
  <1> QED BY <1>1, AlwaysLockInv, PTL

(* A live process loses its lock only to a process that judged another     *)
(* file, or after 30 seconds without a pid (_workspace_lock_is_stale).     *)
THEOREM LossNeedsRaceOrDelay == LockSpec => []OnlyLateOwnersAreJudged
  BY AlwaysLockInv, PTL DEF LockInv

-----------------------------------------------------------------------------
(* The refinement *)

(* The abstract writer is the process that is inside.                      *)
Writer == IF broken = "no" /\ \E p \in Proc : Inside(p)
          THEN CHOOSE p \in Proc : Inside(p) ELSE Nobody

(* A process inside is the writer.                                         *)
LEMMA WriterIsInside ==
    ASSUME LockInv, broken = "no", NEW p \in Proc, Inside(p)
    PROVE  Writer = p
  <1>1. OneWriter
    BY HolderIsInFile DEF LockInv, OneWriterUntilBroken
  <1>2. (CHOOSE q \in Proc : Inside(q)) \in {q \in Proc : Inside(q)}
    OBVIOUS
  <1> QED BY <1>1, <1>2 DEF Writer, OneWriter

(* When all are outside, nobody is the writer.                             *)
LEMMA WriterIsNobody ==
    ASSUME \A p \in Proc : ~Inside(p)
    PROVE  Writer = Nobody
  BY DEF Writer

(* The same after a step.                                                  *)
LEMMA NextWriterIsInside ==
    ASSUME LockInv', broken' = "no", NEW p \in Proc, Inside(p)'
    PROVE  Writer' = p
  <1>1. OneWriter'
    BY DEF LockInv, HolderInFile, OneWriter, Holds
  <1>2. (CHOOSE q \in Proc : Inside(q)') \in {q \in Proc : Inside(q)'}
    OBVIOUS
  <1> QED BY <1>1, <1>2 DEF Writer, OneWriter

(* As long as the lock is not broken, one process at a time goes in or out.*)
LEMMA WriterMoves ==
    ASSUME LockInv, LockInv', broken = "no", broken' = "no", [LockNext]_lockVars
    PROVE  \/ \E p \in Proc : Writer = Nobody /\ Writer' = p
           \/ \E p \in Proc : Writer = p /\ Writer' = Nobody
           \/ Writer' = Writer
  <1>1. ASSUME \A q \in Proc : Inside(q)' <=> Inside(q)
        PROVE  Writer' = Writer
    <2>1. CASE \E p \in Proc : Inside(p)
      BY <1>1, <2>1, WriterIsInside, NextWriterIsInside
    <2>2. CASE \A p \in Proc : ~Inside(p)
      BY <1>1, <2>2 DEF Writer
    <2> QED BY <2>1, <2>2
  <1>2. ASSUME NEW p \in Proc, WriteOwner(p)
        PROVE  Writer = Nobody /\ Writer' = p
    <2>1. step[p] = "write" /\ step'[p] = "inside"
      BY <1>2, StepIs DEF WriteOwner, LockInv
    <2>2. \A q \in Proc : ~Inside(q)
      BY <2>1 DEF LockInv, HolderInFile, Holds, Inside
    <2>3. Inside(p)'
      BY <2>1 DEF Inside
    <2> QED BY <2>2, <2>3, WriterIsNobody, NextWriterIsInside
  <1>3. ASSUME NEW p \in Proc, Inside(p), Go(p, "idle")
        PROVE  Writer = p /\ Writer' = Nobody
    <2>1. Writer = p
      BY <1>3, WriterIsInside
    <2>2. step'[p] = "idle" /\ \A q \in Proc \ {p} : step'[q] = step[q] /\ ~Inside(q)
      BY <1>3, StepIs DEF LockInv, HolderInFile, Holds
    <2>3. \A q \in Proc : ~Inside(q)'
      BY <2>2 DEF Inside
    <2> QED BY <2>1, <2>3 DEF Writer
  <1>4. ASSUME NEW p \in Proc, NEW s \in LockSteps, Go(p, s),
               Inside(p) <=> s \in {"inside", "readToken", "unlink"}
        PROVE  Writer' = Writer
    <2>1. step'[p] = s /\ \A q \in Proc \ {p} : step'[q] = step[q]
      BY <1>4, StepIs DEF LockInv
    <2>2. \A q \in Proc : Inside(q)' <=> Inside(q)
      BY <1>4, <2>1 DEF Inside
    <2> QED BY <1>1, <2>2
  <1>5. CASE UNCHANGED lockVars \/ Age
    BY <1>1, <1>5 DEF lockVars, Age, Inside
  <1>6. ASSUME NEW p \in Proc, Want(p) \/ Take(p) \/ Give(p) \/ Die(p)
        PROVE  \/ \E q \in Proc : Writer = Nobody /\ Writer' = q
               \/ \E q \in Proc : Writer = q /\ Writer' = Nobody
               \/ Writer' = Writer
    <2>1. CASE WriteOwner(p)
      BY <1>2, <2>1
    <2>2. CASE UnlinkFile(p) \/ (Die(p) /\ Inside(p))
      BY <1>3, <2>2 DEF UnlinkFile, Die, Inside
    <2>3. CASE ReadToken(p)
      <3>1. HasPid /\ file.creator = p
        BY <2>3 DEF ReadToken, HasPid, LockInv, HolderInFile, Holds, Inside
      <3>2. Go(p, "unlink") /\ Inside(p)
        BY <2>3, <3>1 DEF ReadToken, Inside
      <3> QED BY <1>4, <3>2 DEF LockSteps
    <2>4. CASE \/ Want(p) \/ CreateFile(p) \/ StatFile(p) \/ ReadPid(p) \/ RemoveFile(p)
               \/ RecreateFile(p) \/ Finish(p) \/ (Die(p) /\ ~Inside(p))
      <3>1. PICK s \in LockSteps :
               Go(p, s) /\ (Inside(p) <=> s \in {"inside", "readToken", "unlink"})
        BY <2>4 DEF Want, CreateFile, StatFile, ReadPid, RemoveFile, RecreateFile, Create,
           Finish, Die, Inside, LockSteps
      <3> QED BY <1>4, <3>1
    <2> QED BY <1>6, <2>1, <2>2, <2>3, <2>4 DEF Take, Give
  <1> QED BY <1>5, <1>6 DEF LockNext

(* What is broken stays so.                                                *)
LEMMA BrokenStays ==
    ASSUME broken # "no", [LockNext]_lockVars
    PROVE  broken' = broken
  BY DEF LockNext, lockVars, history, Want, Take, Give, Die, Age, CreateFile, Create, StatFile,
     ReadPid, RemoveFile, RecreateFile, WriteOwner, Finish, ReadToken, UnlinkFile

(* The lock file implements the mutex the commands rely on, as long as it  *)
(* is one (workspace_write_lock).                                          *)
THEOREM LockImplementsMutex == LockSpec => ImplementsMutex
  <1>1. LockInit => Mutex!MutexInit
    BY DEF LockInit, Mutex!MutexInit, Inside
  <1>2. ASSUME LockInv, LockInv', [LockNext]_lockVars
        PROVE  [Mutex!MutexNext]_<<Writer, broken # "no">>
    <2>1. CASE broken # "no"
      <3>1. broken' = broken
        BY <1>2, <2>1, BrokenStays
      <3> QED BY <2>1, <3>1 DEF Writer
    <2>2. CASE broken = "no" /\ broken' # "no"
      <3>1. Writer' = Nobody
        BY <2>2 DEF Writer
      <3> QED BY <2>2, <3>1 DEF Mutex!MutexNext, Mutex!Break, Writer
    <2>3. CASE broken = "no" /\ broken' = "no"
      BY <1>2, <2>3, WriterMoves DEF Writer, Mutex!MutexNext, Mutex!Enter, Mutex!Leave
    <2> QED BY <2>1, <2>2, <2>3
  <1>3. LockInv /\ LockInv' /\ [LockNext]_lockVars => [Mutex!MutexNext]_<<Writer, broken # "no">>
    BY <1>2
  <1> QED BY <1>1, <1>3, AlwaysLockInv, PTL
      DEF LockSpec, ImplementsMutex, Mutex!MutexSpec, Writer
=============================================================================
