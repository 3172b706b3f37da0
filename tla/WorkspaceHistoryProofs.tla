----------------------- MODULE WorkspaceHistoryProofs -----------------------
(***************************************************************************)
(* WorkspaceStore implements WorkspaceHistory, loses no update and hides   *)
(* no divergence, for any instance in which transactions are recovered     *)
(* under the writer lock and no hand edit falls inside a write section.    *)
(***************************************************************************)
EXTENDS WorkspaceStoreProofs

ChecksHold == {"read", "transact", "recover", "prepare", "prewrite", "abort", "apply"}

(* What a command has found out about workspace.json still holds.          *)
Holds(c, current) ==
    /\ c.step \in {"ready", "check"} /\ c.kind = "create" => c.loaded = NoData
    /\ c.step \in ChecksHold /\ c.kind # "checkpoint" => current = c.loaded
    /\ c.step \in ChecksHold \ {"read"} => current = c.request.before
    /\ c.step = "commit" => current = c.request.after
    /\ c.step = "ready" /\ c.kind = "advance" =>
           c.loaded \in {c.prepared.before, c.prepared.after}
    /\ c.step = "advanceRecover" => c.loaded \in {c.prepared.before, c.prepared.after}
    /\ c.step = "terminal" => current = c.out.state

(* Sound, together with what holds of workspace.json.                      *)
Placed == Sound /\ \A p \in Proc : Holds(proc[p], workspace)

(* In one step p moves to c, and only the holder of the lock writes.       *)
LEMMA MovePlaced ==
    ASSUME Placed, Sound', NEW p \in Proc, NEW c, proc' = [proc EXCEPT ![p] = c],
           Holds(c, workspace'),
           workspace' = workspace \/ proc[p].step \in LockedSteps
    PROVE  Placed'
  <1>1. /\ proc \in [Proc -> Process]
        /\ \A q \in Proc : proc[q].step \in LockedSteps <=> lock = q
    BY DEF Placed, Sound, LockHeld, Typed, TypeOK
  <1>2. \A q \in Proc : proc'[q] = IF q = p THEN c ELSE proc[q]
    BY <1>1
  <1>3. ASSUME NEW q \in Proc PROVE Holds(proc'[q], workspace')
    <2>1. CASE q = p
      BY <1>2, <2>1
    <2>2. CASE q # p /\ workspace' = workspace
      BY <1>2, <2>2 DEF Placed
    <2>3. CASE q # p /\ proc[p].step \in LockedSteps
      <3>1. proc[q].step \notin LockedSteps /\ Holds(proc[q], workspace)
        BY <1>1, <2>3 DEF Placed
      <3> QED BY <1>2, <2>3, <3>1 DEF Holds, ChecksHold, LockedSteps
    <2> QED BY <2>1, <2>2, <2>3
  <1> QED BY <1>3 DEF Placed

(* A command that leaves the write section, or ends, holds nothing.        *)
LEMMA LeavePlaced ==
    ASSUME Placed, Sound', NEW p \in Proc, UNCHANGED workspace,
           GoTo(p, "release") \/ Stop(p)
    PROVE  Placed'
  <1> DEFINE c == IF Stop(p) THEN Idle ELSE [proc[p] EXCEPT !.step = "release"]
  <1>1. proc[p] \in Process
    BY DEF Placed, Sound, Typed, TypeOK
  <1>2. c.step \in {"idle", "release"} /\ proc' = [proc EXCEPT ![p] = c]
    BY <1>1 DEF GoTo, Stop, Process, Idle
  <1> HIDE DEF c
  <1>3. Holds(c, workspace')
    BY <1>2 DEF Holds, ChecksHold
  <1> QED BY <1>2, <1>3, MovePlaced

(* What holds of one process in a placed state.                            *)
LEMMA PlacedFacts ==
    ASSUME Placed, NEW p \in Proc
    PROVE  /\ Sound /\ proc \in [Proc -> Process] /\ proc[p] \in Process
           /\ LocalsTyped(proc[p]) /\ ReliesOn(proc[p], journal)
           /\ Holds(proc[p], workspace)
           /\ journal \in JournalState /\ JournalSound(journal)
  BY SoundFacts DEF Placed

(* Starting a command keeps Placed.                                        *)
LEMMA StartPlaced ==
    ASSUME Placed, Sound', NEW p \in Proc, StartCommand(p), PackRecoverers = {}
    PROVE  Placed'
  <1> USE PlacedFacts
  <1>1. CASE Load(p)
    <2>1. PICK q : Begin(p, "write", workspace, q)
      BY <1>1 DEF Load
    <2> DEFINE c == [Idle EXCEPT !.step = "ready", !.kind = "write",
                                 !.loaded = workspace, !.request = q]
    <2>2. c.step = "ready" /\ c.kind = "write"
      BY DEF Idle
    <2>3. proc' = [proc EXCEPT ![p] = c] /\ UNCHANGED workspace
      BY <2>1 DEF Begin
    <2> HIDE DEF c
    <2>4. Holds(c, workspace')
      BY <2>2 DEF Holds, ChecksHold
    <2> QED BY <2>3, <2>4, MovePlaced
  <1>2. CASE Create(p)
    <2>1. PICK q : Begin(p, "create", NoData, q)
      BY <1>2 DEF Create
    <2> DEFINE c == [Idle EXCEPT !.step = "ready", !.kind = "create",
                                 !.loaded = NoData, !.request = q]
    <2>2. c.step = "ready" /\ c.kind = "create" /\ c.loaded = NoData
      BY DEF Idle
    <2>3. proc' = [proc EXCEPT ![p] = c] /\ UNCHANGED workspace
      BY <2>1 DEF Begin
    <2> HIDE DEF c
    <2>4. Holds(c, workspace')
      BY <2>2 DEF Holds, ChecksHold
    <2> QED BY <2>3, <2>4, MovePlaced
  <1>3. ASSUME NEW kind \in {"recover", "checkpoint"}, StartHistory(p, kind)
        PROVE  Placed'
    <2> DEFINE c == [proc[p] EXCEPT !.step = "ready", !.kind = kind]
    <2>1. c.step = "ready" /\ c.kind = kind
      BY DEF Process
    <2>2. proc' = [proc EXCEPT ![p] = c] /\ UNCHANGED workspace
      BY <1>3 DEF StartHistory
    <2> HIDE DEF c
    <2>3. Holds(c, workspace')
      BY <2>1 DEF Holds, ChecksHold
    <2> QED BY <2>2, <2>3, MovePlaced
  <1>4. CASE StartAdvance(p)
    <2> DEFINE c == [proc[p] EXCEPT !.step = "ready", !.kind = "advance",
                                    !.loaded = workspace,
                                    !.prepared = journal.pending]
    <2>1. /\ c.step = "ready" /\ c.kind = "advance" /\ c.prepared = journal.pending
          /\ c.loaded = workspace
      BY DEF Process
    <2>2. proc' = [proc EXCEPT ![p] = c] /\ UNCHANGED workspace
      BY <1>4 DEF StartAdvance
    <2>3. workspace \in {journal.pending.before, journal.pending.after}
      BY <1>4 DEF StartAdvance, Position
    <2> HIDE DEF c
    <2>4. Holds(c, workspace')
      BY <2>1, <2>3 DEF Holds, ChecksHold
    <2> QED BY <2>2, <2>4, MovePlaced
  <1>5. CASE StartPackRecovery(p)
    BY <1>5 DEF StartPackRecovery
  <1> QED BY <1>1, <1>2, <1>3, <1>4, <1>5 DEF StartCommand, StartRecover, StartCheckpoint

(* Taking the lock, checking and reading the file keep Placed.             *)
LEMMA EnterPlaced ==
    ASSUME Placed, Sound', NEW p \in Proc,
           \/ Acquire(p) \/ AcquireFails(p) \/ Release(p)
           \/ CheckUnchanged(p) \/ ReadBefore(p) \/ Checkpoint(p)
    PROVE  Placed'
  <1> USE PlacedFacts
  <1>1. CASE Acquire(p)
    <2> DEFINE next == FirstLockedStep(proc[p].kind)
               c == [proc[p] EXCEPT !.step = next]
    <2>1. proc[p].kind \in Kinds \ {"pack"} /\ At(p, "ready")
      BY <1>1 DEF Acquire, At, Process, LocalsTyped
    <2>2. /\ next \in {"check", "historyCheckpoint", "historyRecover", "advanceRecover"}
          /\ next = "advanceRecover" => proc[p].kind = "advance"
      BY <2>1 DEF FirstLockedStep, Kinds
    <2>3. proc' = [proc EXCEPT ![p] = c] /\ UNCHANGED workspace
      BY <1>1 DEF Acquire, GoTo
    <2> HIDE DEF next
    <2>4. /\ c.step = next /\ c.kind = proc[p].kind /\ c.prepared = proc[p].prepared
          /\ c.loaded = proc[p].loaded
      BY DEF Process
    <2> HIDE DEF c
    <2>5. Holds(c, workspace')
      BY <2>1, <2>2, <2>4 DEF Holds, ChecksHold, At
    <2> QED BY <2>3, <2>5, MovePlaced
  <1>2. CASE AcquireFails(p) \/ Release(p)
    BY <1>2, LeavePlaced DEF AcquireFails, Release
  <1>3. CASE CheckUnchanged(p)
    <2> DEFINE next == IF proc[p].kind = "create" THEN "transact" ELSE "read"
               c == [proc[p] EXCEPT !.step = next]
    <2>1. At(p, "check") /\ UNCHANGED workspace
      BY <1>3 DEF CheckUnchanged
    <2>2. \/ GoTo(p, "release")
          \/ workspace = proc[p].loaded /\ proc' = [proc EXCEPT ![p] = c]
      BY <1>3 DEF CheckUnchanged, GoTo
    <2>3. /\ c.step = next /\ c.kind = proc[p].kind /\ c.request = proc[p].request
          /\ c.loaded = proc[p].loaded
      BY DEF Process
    <2>4. /\ proc[p].kind # "checkpoint"
          /\ proc[p].kind = "create" => /\ proc[p].loaded = NoData
                                        /\ proc[p].request.before = NoData
      BY <2>1 DEF Holds, ReliesOn, RequestSound, WritingSteps, At
    <2> HIDE DEF c
    <2>5. CASE workspace = proc[p].loaded /\ proc' = [proc EXCEPT ![p] = c]
      <3>1. Holds(c, workspace')
        BY <2>1, <2>3, <2>4, <2>5 DEF Holds, ChecksHold
      <3> QED BY <2>1, <2>5, <3>1, MovePlaced
    <2> QED BY <2>1, <2>2, <2>5, LeavePlaced
  <1>4. CASE ReadBefore(p)
    <2> DEFINE q == [proc[p].request EXCEPT !.before = workspace]
               c == [proc[p] EXCEPT !.step = "transact", !.request = q]
    <2>1. At(p, "read") /\ UNCHANGED workspace
      BY <1>4 DEF ReadBefore
    <2>2. proc[p].request \in Request /\ proc[p].kind = "write"
      BY <2>1 DEF At, LocalsTyped, WritingSteps, ReliesOn
    <2>3. GoTo(p, "release") \/ proc' = [proc EXCEPT ![p] = c]
      BY <1>4 DEF ReadBefore, Process
    <2>4. q.before = workspace
      BY <2>2 DEF Request
    <2> HIDE DEF q
    <2>5. /\ c.step = "transact" /\ c.kind = "write" /\ c.request = q
          /\ c.loaded = proc[p].loaded
      BY <2>2 DEF Process
    <2> HIDE DEF c
    <2>6. Holds(c, workspace')
      BY <2>1, <2>2, <2>4, <2>5 DEF Holds, ChecksHold, At
    <2> QED BY <2>1, <2>3, <2>6, LeavePlaced, MovePlaced
  <1>5. CASE Checkpoint(p)
    <2>1. At(p, "historyCheckpoint") /\ UNCHANGED workspace
      BY <1>5 DEF Checkpoint
    <2>2. CASE BreakToRecord(journal, workspace)
      <3>1. PICK meta \in Meta :
               proc' = [proc EXCEPT ![p].step = "transact",
                          ![p].request = [before |-> workspace,
                                          after |-> workspace, meta |-> meta,
                                          event |-> "checkpoint",
                                          coverage |-> "continuity-break"]]
        BY <1>5, <2>2 DEF Checkpoint
      <3> DEFINE q == [before |-> workspace, after |-> workspace, meta |-> meta,
                       event |-> "checkpoint", coverage |-> "continuity-break"]
                 c == [proc[p] EXCEPT !.step = "transact", !.request = q]
      <3>2. proc' = [proc EXCEPT ![p] = c]
        BY <3>1
      <3>3. q.before = workspace
        OBVIOUS
      <3> HIDE DEF q
      <3>4. c.step = "transact" /\ c.kind = proc[p].kind /\ c.request = q
        BY DEF Process
      <3> HIDE DEF c
      <3>5. proc[p].kind = "checkpoint"
        BY <2>1 DEF ReliesOn, At
      <3>6. Holds(c, workspace')
        BY <2>1, <3>3, <3>4, <3>5 DEF Holds, ChecksHold
      <3> QED BY <2>1, <3>2, <3>6, MovePlaced
    <2> QED BY <1>5, <2>1, <2>2, LeavePlaced DEF Checkpoint
  <1> QED BY <1>1, <1>2, <1>3, <1>4, <1>5

(* A step of transact that leaves the file alone keeps Placed.             *)
LEMMA TransactPlaced ==
    ASSUME Placed, Sound', NEW p \in Proc,
           \/ Transact(p) \/ CommitPending(p) \/ AppendPrepare(p)
           \/ PrewritePasses(p) \/ PrewriteRejects(p)
    PROVE  Placed'
  <1> USE PlacedFacts
  <1>1. ASSUME NEW c, proc' = [proc EXCEPT ![p] = c], UNCHANGED workspace,
               c.kind = proc[p].kind, c.loaded = proc[p].loaded,
               c.request = proc[p].request, c.step \in ChecksHold \ {"read"},
               proc[p].step \in ChecksHold \ {"read"}
        PROVE  Placed'
    <2>1. Holds(c, workspace')
      BY <1>1 DEF Holds, ChecksHold
    <2> QED BY <1>1, <2>1, MovePlaced
  <1>2. ASSUME NEW step \in ChecksHold \ {"read"}, GoTo(p, step),
               UNCHANGED workspace, proc[p].step \in ChecksHold \ {"read"}
        PROVE  Placed'
    <2> DEFINE c == [proc[p] EXCEPT !.step = step]
    <2>1. proc' = [proc EXCEPT ![p] = c]
      BY <1>2 DEF GoTo
    <2>2. /\ c.kind = proc[p].kind /\ c.loaded = proc[p].loaded
          /\ c.request = proc[p].request /\ c.step = step
      BY DEF Process
    <2> HIDE DEF c
    <2> QED BY <1>1, <1>2, <2>1, <2>2
  <1>3. CASE Transact(p)
    <2> DEFINE d(out) == [proc[p] EXCEPT !.step = "recover",
                            !.prepared = journal.pending, !.out = out]
               e(step, r) == [proc[p] EXCEPT !.step = step, !.prepared = r,
                                             !.count = journal.count]
    <2>1. At(p, "transact") /\ UNCHANGED workspace
      BY <1>3 DEF Transact
    <2>2. \/ proc' = [proc EXCEPT ![p] = d(CommitRecord(journal.pending,
                                              journal.count, journal.head))]
          \/ proc' = [proc EXCEPT ![p] = e("prewrite", journal.pending)]
          \/ proc' = [proc EXCEPT ![p] = e("prepare",
                                          Prepared(journal, proc[p].request))]
          \/ GoTo(p, "release")
      BY <1>3 DEF Transact
    <2>3. ASSUME NEW out, proc' = [proc EXCEPT ![p] = d(out)]
          PROVE  Placed'
      <3>1. /\ d(out).kind = proc[p].kind /\ d(out).loaded = proc[p].loaded
            /\ d(out).request = proc[p].request /\ d(out).step = "recover"
        BY DEF Process
      <3> HIDE DEF d
      <3> QED BY <1>1, <2>1, <2>3, <3>1 DEF At, ChecksHold
    <2>4. ASSUME NEW step \in {"prewrite", "prepare"}, NEW r,
                 proc' = [proc EXCEPT ![p] = e(step, r)]
          PROVE  Placed'
      <3>1. /\ e(step, r).kind = proc[p].kind /\ e(step, r).loaded = proc[p].loaded
            /\ e(step, r).request = proc[p].request /\ e(step, r).step = step
        BY DEF Process
      <3> HIDE DEF e
      <3> QED BY <1>1, <2>1, <2>4, <3>1 DEF At, ChecksHold
    <2> HIDE DEF d, e
    <2> QED BY <2>1, <2>2, <2>3, <2>4, LeavePlaced
  <1>4. CASE CommitPending(p)
    <2>1. At(p, "recover") /\ UNCHANGED workspace
      BY <1>4 DEF CommitPending
    <2>2. GoTo(p, "release") \/ GoTo(p, "transact")
      BY <1>4 DEF CommitPending, GoTo
    <2> QED BY <1>2, <2>1, <2>2, LeavePlaced DEF At, ChecksHold
  <1>5. CASE AppendPrepare(p)
    <2> DEFINE c == [proc[p] EXCEPT !.step = "prewrite", !.count = proc[p].count + 1]
    <2>1. /\ proc' = [proc EXCEPT ![p] = c] /\ UNCHANGED workspace
          /\ At(p, "prepare")
      BY <1>5 DEF AppendPrepare
    <2>2. /\ c.kind = proc[p].kind /\ c.loaded = proc[p].loaded
          /\ c.request = proc[p].request /\ c.step = "prewrite"
      BY DEF Process
    <2> HIDE DEF c
    <2> QED BY <1>1, <2>1, <2>2 DEF At, ChecksHold
  <1>6. CASE PrewritePasses(p)
    BY <1>2, <1>6 DEF PrewritePasses, At, ChecksHold
  <1>7. CASE PrewriteRejects(p)
    BY <1>2, <1>7, LeavePlaced DEF PrewriteRejects, At, ChecksHold
  <1> QED BY <1>3, <1>4, <1>5, <1>6, <1>7

(* The replacement and the decisions of the recoveries keep Placed.        *)
LEMMA DecidePlaced ==
    ASSUME Placed, Sound', NEW p \in Proc,
           Apply(p) \/ HistoryRecover(p) \/ AdvanceRecover(p)
    PROVE  Placed'
  <1> USE PlacedFacts
  <1>1. CASE Apply(p)
    <2> DEFINE c == [proc[p] EXCEPT !.step = "commit"]
    <2>1. At(p, "apply") /\ proc' = [proc EXCEPT ![p] = c]
      BY <1>1 DEF Apply, GoTo
    <2>2. c.step = "commit" /\ c.request = proc[p].request
      BY DEF Process
    <2>3. workspace' = proc[p].request.after
      <3>1. CASE proc[p].kind = "checkpoint"
        <4>1. /\ workspace = proc[p].request.before
              /\ proc[p].request.before = proc[p].request.after
          BY <2>1, <3>1 DEF At, Holds, ChecksHold, ReliesOn, RequestSound, WritingSteps,
               PreparedSteps
        <4> QED BY <1>1, <3>1, <4>1 DEF Apply
      <3> QED BY <1>1, <3>1 DEF Apply
    <2> HIDE DEF c
    <2>4. Holds(c, workspace')
      BY <2>2, <2>3 DEF Holds, ChecksHold
    <2>5. proc[p].step \in LockedSteps
      BY <2>1 DEF At, LockedSteps
    <2> QED BY <2>1, <2>4, <2>5, MovePlaced
  <1>2. ASSUME NEW out, proc' = [proc EXCEPT ![p].step = "terminal", ![p].out = out],
               UNCHANGED workspace, workspace = out.state
        PROVE  Placed'
    <2> DEFINE c == [proc[p] EXCEPT !.step = "terminal", !.out = out]
    <2>1. c.step = "terminal" /\ c.out = out
      BY DEF Process
    <2>2. proc' = [proc EXCEPT ![p] = c]
      BY <1>2
    <2> HIDE DEF c
    <2>3. Holds(c, workspace')
      BY <1>2, <2>1 DEF Holds, ChecksHold
    <2> QED BY <1>2, <2>2, <2>3, MovePlaced
  <1>3. ASSUME MustCommitPending(journal, workspace)
        PROVE  CommitRecord(journal.pending, journal.count, journal.head).state = workspace
    BY <1>3 DEF MustCommitPending, CommitRecord
  <1>4. CASE HistoryRecover(p)
    <2>1. CASE Readable(journal) /\ MustCommitPending(journal, workspace)
      BY <1>2, <1>3, <1>4, <2>1 DEF HistoryRecover
    <2> QED BY <1>4, <2>1, LeavePlaced DEF HistoryRecover
  <1>5. CASE AdvanceRecover(p)
    <2>1. CASE /\ Readable(journal)
               /\ journal.pending = proc[p].prepared
               /\ workspace = proc[p].loaded
      <3>1. /\ journal.pending \in Prepare
            /\ workspace \in {journal.pending.before, journal.pending.after}
        BY <1>5, <2>1 DEF AdvanceRecover, At, Holds, LocalsTyped
      <3>2. journal.pending # NoRecord
        BY <3>1, NoRecordAssumption
      <3>3. AdvanceTerminal(journal, workspace).state = workspace
        BY <1>3, <3>1, <3>2 DEF AdvanceTerminal, MustCommitPending, AbortRecord
      <3> QED BY <1>2, <1>5, <2>1, <3>3 DEF AdvanceRecover
    <2> QED BY <1>5, <2>1, LeavePlaced DEF AdvanceRecover
  <1> QED BY <1>1, <1>4, <1>5

(* Placed is inductive.                                                    *)
LEMMA PlacedStep ==
    ASSUME PackRecoverers = {}, EditDuringWrite = FALSE
    PROVE  Placed /\ [StoreNext]_storeVars => Placed'
  <1> SUFFICES ASSUME Placed, [StoreNext]_storeVars PROVE Placed'
    OBVIOUS
  <1>1. Sound'
    BY SoundStep DEF Placed
  <1>2. ASSUME NEW p \in Proc, StartCommand(p) PROVE Placed'
    BY <1>1, <1>2, StartPlaced
  <1>3. ASSUME NEW p \in Proc, Failure(p) PROVE Placed'
    BY <1>1, <1>3, LeavePlaced DEF Failure, AppendFails, PackAppendFails, ApplyFails, Crash
  <1>4. ASSUME NEW p \in Proc, Step(p) PROVE Placed'
    <2>1. ASSUME AppendAbort(p) \/ AppendCommit(p) \/ AppendTerminal(p)
                   \/ AppendPackTerminal(p)
          PROVE  Placed'
      BY <1>1, <2>1, LeavePlaced DEF AppendAbort, AppendCommit, AppendTerminal,
           AppendPackTerminal
    <2> QED BY <1>1, <1>4, <2>1, EnterPlaced, TransactPlaced, DecidePlaced DEF Step
  <1>5. CASE Edit
    <2>1. \A p \in Proc : proc[p].step \notin LockedSteps
      BY <1>5 DEF Edit
    <2> QED BY <1>1, <1>5, <2>1 DEF Edit, Placed, Holds, ChecksHold, LockedSteps
  <1>6. CASE UNCHANGED storeVars
    BY <1>1, <1>6 DEF storeVars, Placed
  <1> QED BY <1>2, <1>3, <1>4, <1>5, <1>6 DEF StoreNext

(* The invariant holds where the system starts.                            *)
LEMMA PlacedInit == StoreInit => Placed
  BY SoundInit DEF StoreInit, Placed, Holds, ChecksHold, Idle

-----------------------------------------------------------------------------
(* The three things an append by the holder of the lock can do.            *)
Announces(s, t, current) ==
    /\ s.pending = NoRecord /\ t.pending # NoRecord
    /\ t.pending.after \in Data
    /\ t.replay = s.replay /\ t.breaks = s.breaks
    /\ IF t.pending.coverage = "continuity-break"
       THEN current = t.pending.after /\ current # s.replay
       ELSE current = s.replay

Confirms(s, t, current) ==
    /\ s.pending # NoRecord /\ t.pending = NoRecord
    /\ current = s.pending.after
    /\ t.replay = s.pending.after
    /\ t.breaks = IF s.pending.coverage = "continuity-break"
                  THEN s.breaks + 1 ELSE s.breaks

Withdraws(s, t, current) ==
    /\ s.pending # NoRecord /\ t.pending = NoRecord
    /\ s.pending.coverage # "continuity-break"
    /\ current = s.replay
    /\ t.replay = s.replay /\ t.breaks = s.breaks

Appends(s, t, current) ==
    Announces(s, t, current) \/ Confirms(s, t, current) \/ Withdraws(s, t, current)

(* Committing the pending transaction confirms what was put in place.      *)
LEMMA CommitConfirms ==
    ASSUME NEW s \in JournalState, s.damage = "none", s.pending # NoRecord,
           NEW t, t = Scanned(s, CommitRecord(s.pending, s.count, s.head))
    PROVE  Confirms(s, t, s.pending.after)
  <1> DEFINE breaks == IF s.pending.coverage = "continuity-break"
                       THEN s.breaks + 1 ELSE s.breaks
  <1>1. t = [s EXCEPT !.pending = NoRecord, !.replay = s.pending.after,
                      !.breaks = breaks, !.committed = s.committed + 1,
                      !.exists = TRUE, !.head = s.count + 1, !.count = s.count + 1]
    BY ScannedCommit
  <1> HIDE DEF breaks
  <1>2. t.pending = NoRecord /\ t.replay = s.pending.after /\ t.breaks = breaks
    BY <1>1 DEF JournalState
  <1> QED BY <1>2 DEF Confirms, breaks

(* Aborting it withdraws the proposal.                                     *)
LEMMA AbortWithdraws ==
    ASSUME NEW s \in JournalState, JournalSound(s), s.damage = "none",
           s.pending # NoRecord, s.pending.meta \in Abortable,
           NEW t, t = Scanned(s, AbortRecord(s.pending, s.count, s.head))
    PROVE  /\ Withdraws(s, t, s.pending.before)
           /\ s.pending.before = s.replay
  <1>1. /\ t.pending = NoRecord /\ t.replay = s.replay /\ t.breaks = s.breaks
    BY ScannedAbort DEF JournalState
  <1>2. s.pending.coverage # "continuity-break" /\ s.pending.before = s.replay
    BY DEF JournalSound, PendingSound, LaterPrepareAllowed
  <1> QED BY <1>1, <1>2 DEF Withdraws

(* The record a command is about to append does one of the three.          *)
LEMMA AppendingAppends ==
    ASSUME Placed, NEW p \in Proc,
           proc[p].step \in {"prepare", "abort", "commit", "recover", "terminal"}
    PROVE  Appends(journal, Scanned(journal, Appending(p)), workspace)
  <1> USE PlacedFacts
  <1>1. CASE At(p, "prepare")
    <2>1. /\ journal.damage = "none" /\ CanPrepare(journal, proc[p].request)
          /\ proc[p].prepared = Prepared(journal, proc[p].request)
          /\ proc[p].prepared \in Prepare
          /\ proc[p].request \in Request /\ RequestSound(proc[p])
          /\ proc[p].kind = "checkpoint" => proc[p].request.before # journal.replay
          /\ workspace = proc[p].request.before
      BY <1>1 DEF At, ReliesOn, LocalsTyped, WritingSteps, PreparedSteps, Holds, ChecksHold
    <2>2. Appending(p) = proc[p].prepared
      BY <1>1 DEF Appending, At
    <2>3. ASSUME NEW r, r = proc[p].prepared, NEW t, t = Scanned(journal, r)
          PROVE  Announces(journal, t, workspace)
      <3>1. /\ JournalSound(t) /\ t.pending = r
            /\ t.replay = journal.replay /\ t.breaks = journal.breaks
            /\ r.before = proc[p].request.before /\ r.after = proc[p].request.after
            /\ r.coverage = proc[p].request.coverage
        BY <2>1, <2>3, PrepareAppended
      <3>2. r \in Prepare /\ r # NoRecord /\ r.after \in Data
        BY <2>1, <2>3, NoRecordAssumption DEF Prepare
      <3>3. journal.pending = NoRecord
        BY <2>1 DEF CanPrepare
      <3>4. CASE r.coverage = "continuity-break"
        <4>1. proc[p].kind = "checkpoint"
          BY <2>1, <3>1, <3>4 DEF RequestSound
        <4> QED BY <2>1, <3>1, <3>2, <3>3, <3>4, <4>1 DEF Announces, RequestSound
      <3>5. CASE r.coverage # "continuity-break"
        <4>1. workspace = journal.replay
          BY <2>1, <3>1, <3>5 DEF CanPrepare, StartsHistory, JournalSound
        <4> QED BY <3>1, <3>2, <3>3, <3>5, <4>1 DEF Announces
      <3> QED BY <3>4, <3>5
    <2> QED BY <2>2, <2>3 DEF Appends
  <1>2. CASE proc[p].step \in {"abort", "commit"}
    <2>1. /\ journal.damage = "none" /\ journal.pending = proc[p].prepared
          /\ proc[p].prepared \in Prepare /\ proc[p].count = journal.count
          /\ proc[p].prepared.before = proc[p].request.before
          /\ proc[p].prepared.after = proc[p].request.after
          /\ proc[p].prepared.meta = proc[p].request.meta
      BY <1>2 DEF ReliesOn, LocalsTyped, PreparedSteps
    <2>2. journal.pending # NoRecord
      BY <2>1, NoRecordAssumption
    <2>3. RecordDigest(proc[p].prepared) = journal.head
      BY <2>1, <2>2 DEF RecordDigest, JournalSound, PendingSound
    <2>4. CASE At(p, "commit")
      <3>1. Appending(p) = CommitRecord(journal.pending, journal.count, journal.head)
        BY <2>1, <2>3, <2>4 DEF Appending, At
      <3>2. workspace = journal.pending.after
        BY <2>1, <2>4 DEF Holds, At
      <3> QED BY <2>1, <2>2, <3>1, <3>2, CommitConfirms DEF Appends
    <2>5. CASE At(p, "abort")
      <3>1. Appending(p) = AbortRecord(journal.pending, journal.count, journal.head)
        BY <2>1, <2>3, <2>5 DEF Appending, At
      <3>2. /\ journal.pending.meta \in Abortable
            /\ workspace = journal.pending.before
        BY <2>1, <2>5 DEF ReliesOn, At, Abortable, Holds, ChecksHold
      <3> QED BY <2>1, <2>2, <3>1, <3>2, AbortWithdraws DEF Appends
    <2> QED BY <1>2, <2>4, <2>5 DEF At
  <1>3. CASE proc[p].step \in {"recover", "terminal"}
    <2>1. journal.damage = "none" /\ journal.pending # NoRecord
      BY <1>3 DEF ReliesOn, PreparedSteps
    <2>2. Appending(p) = proc[p].out
      BY <1>3 DEF Appending, At
    <2>3. CASE /\ proc[p].out = CommitRecord(journal.pending, journal.count, journal.head)
               /\ workspace = journal.pending.after
      BY <2>1, <2>2, <2>3, CommitConfirms DEF Appends
    <2>4. CASE /\ proc[p].out = AbortRecord(journal.pending, journal.count, journal.head)
               /\ journal.pending.meta \in Advance
               /\ workspace = journal.pending.before
      <3>1. journal.pending.meta \in Abortable
        BY <2>4 DEF Abortable
      <3> QED BY <2>1, <2>2, <2>4, <3>1, AbortWithdraws DEF Appends
    <2>5. CASE At(p, "terminal")
      <3>1. workspace = proc[p].out.state
        BY <2>5 DEF Holds, At
      <3>2. /\ CommitRecord(journal.pending, journal.count, journal.head).state
                  = journal.pending.after
            /\ AbortRecord(journal.pending, journal.count, journal.head).state
                  = journal.pending.before
        BY DEF CommitRecord, AbortRecord
      <3> QED BY <2>3, <2>4, <2>5, <3>1, <3>2 DEF ReliesOn, At
    <2>6. CASE At(p, "recover")
      <3>1. workspace = journal.pending.after
        BY <2>6 DEF ReliesOn, Holds, ChecksHold, At
      <3> QED BY <2>3, <2>6, <3>1 DEF ReliesOn, At
    <2> QED BY <1>3, <2>5, <2>6 DEF At
  <1> QED BY <1>1, <1>2, <1>3 DEF At

(* Every step of the store is an edit, a replacement by the pending        *)
(* content, an append that does one of the three, or changes neither the   *)
(* file nor what the scan of the journal says of it.                       *)
LEMMA StepCases ==
    ASSUME PackRecoverers = {}, Placed, [StoreNext]_storeVars
    PROVE  \/ /\ UNCHANGED journal
              /\ workspace' \in Digest /\ edits' = edits + 1
           \/ /\ UNCHANGED <<journal, edits>>
              /\ journal.pending # NoRecord
              /\ workspace' = journal.pending.after
              /\ workspace # workspace' =>
                     journal.pending.coverage # "continuity-break"
           \/ /\ UNCHANGED <<workspace, edits>>
              /\ Appends(journal, journal', workspace)
           \/ /\ UNCHANGED <<workspace, edits>>
              /\ journal'.pending = journal.pending
              /\ journal'.replay = journal.replay
              /\ journal'.breaks = journal.breaks
  <1> USE PlacedFacts
  <1> DEFINE Quiet == /\ UNCHANGED <<workspace, edits>>
                      /\ journal'.pending = journal.pending
                      /\ journal'.replay = journal.replay
                      /\ journal'.breaks = journal.breaks
             Appended == /\ UNCHANGED <<workspace, edits>>
                         /\ Appends(journal, journal', workspace)
  <1>1. CASE Edit
    BY <1>1 DEF Edit
  <1>2. ASSUME NEW p \in Proc, Apply(p)
        PROVE  /\ UNCHANGED <<journal, edits>>
               /\ journal.pending # NoRecord
               /\ workspace' = journal.pending.after
               /\ workspace # workspace' =>
                      journal.pending.coverage # "continuity-break"
    <2>1. /\ journal.pending = proc[p].prepared
          /\ proc[p].prepared \in Prepare
          /\ proc[p].prepared.after = proc[p].request.after
          /\ proc[p].prepared.coverage = proc[p].request.coverage
          /\ workspace = proc[p].request.before
          /\ RequestSound(proc[p])
      BY <1>2 DEF Apply, At, ReliesOn, LocalsTyped, PreparedSteps, WritingSteps,
           Holds, ChecksHold
    <2>2. journal.pending # NoRecord
      BY <2>1, NoRecordAssumption
    <2> QED BY <1>2, <2>1, <2>2 DEF Apply, RequestSound
  <1>3. ASSUME NEW p \in Proc,
               \/ CommitPending(p) \/ AppendPrepare(p) \/ AppendAbort(p)
               \/ AppendCommit(p) \/ AppendTerminal(p)
        PROVE  Appended
    <2>1. /\ journal' = Scanned(journal, Appending(p)) /\ UNCHANGED <<workspace, edits>>
          /\ proc[p].step \in {"prepare", "abort", "commit", "recover", "terminal"}
      BY <1>3 DEF CommitPending, AppendPrepare, AppendAbort, AppendCommit,
           AppendTerminal, At, Appending
    <2> QED BY <2>1, AppendingAppends
  <1>4. ASSUME NEW p \in Proc, AppendFails(p)
        PROVE  Appended \/ Quiet
    <2>1. /\ journal' \in Interrupted(journal, Appending(p))
          /\ UNCHANGED <<workspace, edits>>
          /\ proc[p].step \in {"prepare", "abort", "commit", "recover", "terminal"}
      BY <1>4 DEF AppendFails
    <2>2. CASE journal' = Scanned(journal, Appending(p))
      BY <2>1, <2>2, AppendingAppends
    <2>3. CASE journal' # Scanned(journal, Appending(p))
      BY <2>1, <2>3 DEF Interrupted, JournalState
    <2> QED BY <2>2, <2>3
  <1>5. CASE UNCHANGED storeVars
    BY <1>5 DEF storeVars
  <1>6. ASSUME NEW p \in Proc,
               \/ StartCommand(p) \/ Acquire(p) \/ AcquireFails(p) \/ Release(p)
               \/ CheckUnchanged(p) \/ ReadBefore(p) \/ Checkpoint(p) \/ Transact(p)
               \/ PrewriteRejects(p) \/ PrewritePasses(p) \/ HistoryRecover(p)
               \/ AdvanceRecover(p) \/ ApplyFails(p) \/ Crash(p)
        PROVE  UNCHANGED <<workspace, edits, journal>>
    BY <1>6 DEF StartCommand, Load, Create, Begin, StartCheckpoint, StartRecover,
         StartHistory, StartAdvance, StartPackRecovery, Acquire, AcquireFails,
         Release, CheckUnchanged, ReadBefore, Checkpoint, Transact, PrewriteRejects,
         PrewritePasses, HistoryRecover, AdvanceRecover, ApplyFails, Crash
  <1>7. ASSUME NEW p \in Proc
        PROVE  ~AppendPackTerminal(p) /\ ~PackAppendFails(p)
    BY DEF AppendPackTerminal, PackAppendFails, At, Sound, LockHeld
  <1>8. CASE \E p \in Proc : StartCommand(p) \/ Step(p) \/ Failure(p)
    <2>1. PICK p \in Proc : StartCommand(p) \/ Step(p) \/ Failure(p)
      BY <1>8
    <2>2. CASE Apply(p)
      BY <1>2, <2>2
    <2>3. CASE AppendFails(p)
      BY <1>4, <2>3
    <2>4. CASE \/ CommitPending(p) \/ AppendPrepare(p) \/ AppendAbort(p)
               \/ AppendCommit(p) \/ AppendTerminal(p)
      BY <1>3, <2>4
    <2>5. CASE \/ StartCommand(p) \/ Acquire(p) \/ AcquireFails(p) \/ Release(p)
               \/ CheckUnchanged(p) \/ ReadBefore(p) \/ Checkpoint(p) \/ Transact(p)
               \/ PrewriteRejects(p) \/ PrewritePasses(p) \/ HistoryRecover(p)
               \/ AdvanceRecover(p) \/ ApplyFails(p) \/ Crash(p)
      BY <1>6, <2>5
    <2> HIDE DEF Quiet, Appended
    <2> QED BY <1>7, <2>1, <2>2, <2>3, <2>4, <2>5 DEF Step, Failure
  <1> QED BY <1>1, <1>5, <1>8 DEF StoreNext

(* The workspace and its journal go through the abstract history: content  *)
(* is proposed, put in place and confirmed in this order, whoever crashes  *)
(* and whoever recovers.                                                   *)
THEOREM StoreImplementsHistory ==
    ASSUME PackRecoverers = {}, EditDuringWrite = FALSE
    PROVE  StoreSpec => ImplementsHistory
  <1>1. StoreInit => History!HistoryInit
    BY DEF StoreInit, EmptyState, History!HistoryInit
  <1>2. Placed /\ [StoreNext]_storeVars => [History!HistoryNext]_(History!historyVars)
    <2> SUFFICES ASSUME Placed, [StoreNext]_storeVars
                 PROVE  History!HistoryNext \/ UNCHANGED History!historyVars
      OBVIOUS
    <2>1. journal \in JournalState
      BY DEF Placed, Sound, Typed, TypeOK
    <2>2. journal.pending # NoRecord =>
             journal.pending.after \in Data /\ journal.pending.after # NoRecord
      BY <2>1, NoRecordAssumption DEF JournalState, Prepare
    <2>3. CASE /\ UNCHANGED journal
               /\ workspace' \in Digest /\ edits' = edits + 1
      BY <2>3 DEF History!HistoryNext, History!Disturb, Digest
    <2>4. CASE /\ UNCHANGED <<journal, edits>>
               /\ journal.pending # NoRecord
               /\ workspace' = journal.pending.after
      BY <2>2, <2>4 DEF History!HistoryNext, History!PutInPlace
    <2>5. CASE /\ UNCHANGED <<workspace, edits>>
               /\ Announces(journal, journal', workspace)
      <3> DEFINE d == journal'.pending.after
      <3>1. d \in Data /\ History!Propose(d)
        BY <2>5 DEF Announces, History!Propose
      <3> QED BY <3>1 DEF History!HistoryNext
    <2>6. CASE /\ UNCHANGED <<workspace, edits>>
               /\ Confirms(journal, journal', workspace)
      BY <2>2, <2>6 DEF Confirms, History!HistoryNext, History!Confirm
    <2>7. CASE /\ UNCHANGED <<workspace, edits>>
               /\ Withdraws(journal, journal', workspace)
      BY <2>2, <2>7 DEF Withdraws, History!HistoryNext, History!Withdraw
    <2>8. CASE /\ UNCHANGED <<workspace, edits>>
               /\ journal'.pending = journal.pending
               /\ journal'.replay = journal.replay
               /\ journal'.breaks = journal.breaks
      BY <2>8 DEF History!historyVars
    <2> QED BY <2>3, <2>4, <2>5, <2>6, <2>7, <2>8, StepCases DEF Appends
  <1> QED BY <1>1, <1>2, PlacedInit, PlacedStep, PTL
          DEF StoreSpec, ImplementsHistory, History!HistorySpec

(* A divergence of the workspace from its committed history ends only with *)
(* another edit or a recorded continuity break.                            *)
THEOREM DivergenceIsNeverHidden ==
    ASSUME PackRecoverers = {}, EditDuringWrite = FALSE
    PROVE  StoreSpec => DivergenceStaysVisible
  <1> DEFINE Visible == Diverged /\ ~Diverged' =>
                           edits' > edits \/ journal'.breaks > journal.breaks
  <1>1. Placed /\ [StoreNext]_storeVars => [Visible]_storeVars
    <2> SUFFICES ASSUME Placed, [StoreNext]_storeVars, Diverged, ~Diverged'
                 PROVE  edits' > edits \/ journal'.breaks > journal.breaks
      OBVIOUS
    <2>1. journal.breaks \in Nat /\ edits \in Nat
      BY DEF Placed, Sound, Typed, TypeOK, JournalState
    <2>2. CASE edits' = edits + 1
      BY <2>1, <2>2
    <2>3. CASE /\ UNCHANGED <<journal, edits>>
               /\ journal.pending # NoRecord
               /\ workspace' = journal.pending.after
               /\ workspace # workspace' =>
                      journal.pending.coverage # "continuity-break"
      BY <2>3 DEF Diverged
    <2>4. CASE /\ UNCHANGED <<workspace, edits>>
               /\ Announces(journal, journal', workspace)
      BY <2>4 DEF Announces, Diverged
    <2>5. CASE /\ UNCHANGED <<workspace, edits>>
               /\ Confirms(journal, journal', workspace)
      BY <2>1, <2>5 DEF Confirms, Diverged
    <2>6. CASE /\ UNCHANGED <<workspace, edits>>
               /\ Withdraws(journal, journal', workspace)
      BY <2>6 DEF Withdraws, Diverged
    <2>7. CASE /\ UNCHANGED <<workspace, edits>>
               /\ journal'.pending = journal.pending
               /\ journal'.replay = journal.replay
               /\ journal'.breaks = journal.breaks
      BY <2>7 DEF Diverged
    <2> QED BY <2>2, <2>3, <2>4, <2>5, <2>6, <2>7, StepCases DEF Appends
  <1> QED BY <1>1, PlacedInit, PlacedStep, PTL DEF StoreSpec, DivergenceStaysVisible

(* The content a command replaces is the one it loaded, however long it    *)
(* computed before it took the lock.                                       *)
THEOREM NoUpdateIsLost ==
    ASSUME PackRecoverers = {}, EditDuringWrite = FALSE
    PROVE  StoreSpec => NoLostUpdate
  <1> DEFINE Kept == \A p \in Proc :
               At(p, "apply") /\ At(p, "commit")' /\ proc[p].kind # "checkpoint" =>
                   workspace = proc[p].loaded
  <1>1. Placed => [Kept]_storeVars
    BY DEF Placed, Holds, ChecksHold, At
  <1> QED BY <1>1, PlacedInit, PlacedStep, PTL DEF StoreSpec, NoLostUpdate

-----------------------------------------------------------------------------
(* Until somebody edits the workspace, no continuity break is in the       *)
(* journal, pending in it, or about to be.                                 *)
Unbroken ==
    edits = 0 =>
        /\ journal.breaks = 0
        /\ journal.pending # NoRecord => journal.pending.coverage # "continuity-break"
        /\ \/ workspace = journal.replay
           \/ /\ journal.pending # NoRecord
              /\ workspace = journal.pending.after

(* Without edits no step opens a gap or records a continuity break.        *)
LEMMA UnbrokenStep ==
    ASSUME PackRecoverers = {}, EditDuringWrite = FALSE
    PROVE  Placed /\ Unbroken /\ [StoreNext]_storeVars => Unbroken'
  <1> SUFFICES ASSUME Placed, Unbroken, [StoreNext]_storeVars, edits' = 0
               PROVE  Unbroken'
    BY DEF Unbroken
  <1>1. edits \in Nat
    BY DEF Placed, Sound, Typed, TypeOK
  <1>2. CASE edits' = edits + 1
    BY <1>1, <1>2
  <1>3. CASE /\ UNCHANGED <<journal, edits>>
             /\ journal.pending # NoRecord
             /\ workspace' = journal.pending.after
    BY <1>3 DEF Unbroken
  <1>4. CASE /\ UNCHANGED <<workspace, edits>>
             /\ Announces(journal, journal', workspace)
    BY <1>4 DEF Announces, Unbroken
  <1>5. CASE /\ UNCHANGED <<workspace, edits>>
             /\ Confirms(journal, journal', workspace)
    BY <1>5 DEF Confirms, Unbroken
  <1>6. CASE /\ UNCHANGED <<workspace, edits>>
             /\ Withdraws(journal, journal', workspace)
    BY <1>6 DEF Withdraws, Unbroken
  <1>7. CASE /\ UNCHANGED <<workspace, edits>>
             /\ journal'.pending = journal.pending
             /\ journal'.replay = journal.replay
             /\ journal'.breaks = journal.breaks
    BY <1>7 DEF Unbroken
  <1> QED BY <1>2, <1>3, <1>4, <1>5, <1>6, <1>7, StepCases DEF Appends

(* Crashes, failed calls and recoveries leave the workspace at one side of *)
(* the pending transaction, or at the committed content.                   *)
THEOREM ReplacementIsBracketed ==
    ASSUME PackRecoverers = {}, EditDuringWrite = FALSE
    PROVE  StoreSpec => []Bracketed
  <1>1. StoreInit => Unbroken
    BY DEF StoreInit, EmptyState, Unbroken
  <1>2. Unbroken => Bracketed
    BY DEF Unbroken, Bracketed
  <1> QED BY <1>1, <1>2, PlacedInit, PlacedStep, UnbrokenStep, PTL DEF StoreSpec
=============================================================================
