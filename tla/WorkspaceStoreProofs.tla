------------------------ MODULE WorkspaceStoreProofs ------------------------
(***************************************************************************)
(* Theorems about WorkspaceStore, for any processes, contents, identities  *)
(* and bounds.  Typed is the type invariant with what each program point   *)
(* says of the local variables; Sound is the inductive invariant behind    *)
(* the safety theorems, which assume that nobody recovers a transaction    *)
(* without the writer lock.                                                *)
(***************************************************************************)
EXTENDS WorkspaceStore, TLAPS

-----------------------------------------------------------------------------
(* Types *)

(* The program points at which transact holds a prepared record.           *)
PreparedSteps == {"recover", "prepare", "prewrite", "abort", "apply", "commit"}

(* The program points of write_store, a first write or a checkpoint.       *)
WritingSteps == {"check", "read", "transact"} \cup PreparedSteps

LocalsTyped(c) ==
    /\ c.step = "ready" => c.kind # "pack"
    /\ c.step = "ready" /\ c.kind \in {"write", "create"} => c.request \in Request
    /\ c.step = "ready" /\ c.kind = "advance" => c.prepared \in Prepare
    /\ c.step = "advanceRecover" => c.prepared \in Prepare
    /\ c.step \in WritingSteps => c.request \in Request
    /\ c.step \in PreparedSteps => c.prepared \in Prepare
    /\ c.step \in {"recover", "terminal", "packTerminal"} => c.out \in Terminal

Typed == TypeOK /\ \A p \in Proc : LocalsTyped(proc[p])

(* The commit and abort records of a prepare are terminal records.         *)
LEMMA TerminalTypes ==
    ASSUME NEW r \in Prepare, NEW seq \in Nat, NEW prev \in Nat
    PROVE  /\ CommitRecord(r, seq, prev) \in Terminal
           /\ AbortRecord(r, seq, prev) \in Terminal
           /\ RecordDigest(r) \in Nat
  BY DEF Prepare, Terminal, CommitRecord, AbortRecord, TxOf, TransactionId,
         RecordDigest, Digest

(* Appending any record to a journal gives a journal.                      *)
LEMMA ScannedType ==
    ASSUME NEW s \in JournalState, NEW r \in Prepare \cup Terminal
    PROVE  Scanned(s, r) \in JournalState
  <1>1. CASE s.damage # "none"
    BY <1>1 DEF Scanned
  <1>2. CASE s.damage = "none" /\ ~RecordAllowed(s, r)
    BY <1>2 DEF Scanned, JournalState
  <1>3. CASE s.damage = "none" /\ RecordAllowed(s, r)
    <2>1. Advanced(s, r) \in JournalState
      <3>1. CASE r \in Prepare
        BY <3>1 DEF Advanced, WithPrepare, Prepare, JournalState
      <3>2. CASE r \in Terminal
        <4>1. s.pending \in Prepare
          <5>1. r.type # "prepare"
            BY <3>2 DEF Terminal
          <5> QED BY <1>3, <5>1 DEF RecordAllowed, TerminalAllowed, JournalState
        <4>2. WithCommit(s) \in JournalState
          <5>1. s.pending.after \in Digest
            BY <4>1 DEF Prepare, Digest
          <5>2. /\ s.committed + 1 \in Nat
                /\ (IF s.pending.coverage = "continuity-break"
                    THEN s.breaks + 1 ELSE s.breaks) \in Nat
            BY DEF JournalState
          <5>3. ASSUME NEW d \in Digest, NEW m \in Nat, NEW n \in Nat
                PROVE  [s EXCEPT !.replay = d, !.breaks = m, !.pending = NoRecord,
                                 !.committed = n] \in JournalState
            BY DEF JournalState
          <5> QED BY <5>1, <5>2, <5>3, Zenon DEF WithCommit
        <4>3. WithAbort(s) \in JournalState
          <5>1. s.aborted + 1 \in Nat
            BY DEF JournalState
          <5>2. ASSUME NEW n \in Nat
                PROVE  [s EXCEPT !.pending = NoRecord, !.aborted = n] \in JournalState
            BY DEF JournalState
          <5> QED BY <5>1, <5>2, Zenon DEF WithAbort
        <4> QED BY <3>2, <4>2, <4>3 DEF Advanced, Terminal
      <3> QED BY <3>1, <3>2
    <2>2. RecordDigest(r) \in Nat
      BY DEF RecordDigest, Prepare, Terminal
    <2>3. Scanned(s, r) = [Advanced(s, r) EXCEPT !.exists = TRUE,
                             !.head = RecordDigest(r), !.count = s.count + 1]
      BY <1>3 DEF Scanned
    <2>4. s.count + 1 \in Nat
      BY DEF JournalState
    <2>5. ASSUME NEW a \in JournalState, NEW h \in Nat, NEW n \in Nat
          PROVE  [a EXCEPT !.exists = TRUE, !.head = h, !.count = n] \in JournalState
      BY DEF JournalState
    <2>6. [Advanced(s, r) EXCEPT !.exists = TRUE, !.head = RecordDigest(r),
                                 !.count = s.count + 1] \in JournalState
      BY <2>1, <2>2, <2>4, <2>5, Zenon
    <2> QED BY <2>3, <2>6, Zenon
  <1> QED BY <1>1, <1>2, <1>3

(* So does an append that is cut short.                                    *)
LEMMA InterruptedType ==
    ASSUME NEW s \in JournalState, NEW r \in Prepare \cup Terminal,
           NEW t \in Interrupted(s, r)
    PROVE  t \in JournalState
  <1>1. Scanned(s, r) \in JournalState
    BY ScannedType
  <1> QED BY <1>1 DEF Interrupted, JournalState

(* transact prepares a record, whatever it is asked for.                   *)
LEMMA PreparedType ==
    ASSUME NEW s \in JournalState, NEW q \in Request
    PROVE  Prepared(s, q) \in Prepare
  BY DEF Prepared, Prepare, Request, JournalState, Digest

(* Everybody's program counter and local variables have their types.       *)
ProcTyped ==
    /\ proc \in [Proc -> Process]
    /\ \A p \in Proc : LocalsTyped(proc[p])

(* One process moves to a well-typed state.                                *)
LEMMA MoveTyped ==
    ASSUME ProcTyped, NEW p \in Proc, NEW c \in Process, LocalsTyped(c),
           proc' = [proc EXCEPT ![p] = c]
    PROVE  ProcTyped'
  <1>1. proc' \in [Proc -> Process]
    BY DEF ProcTyped
  <1>2. \A q \in Proc : proc'[q] = IF q = p THEN c ELSE proc[q]
    BY DEF ProcTyped
  <1>3. \A q \in Proc : LocalsTyped(proc'[q])
    BY <1>2 DEF ProcTyped
  <1> QED BY <1>1, <1>3 DEF ProcTyped

(* One process goes to another program point that its variables suit.      *)
LEMMA GoToTyped ==
    ASSUME ProcTyped, NEW p \in Proc, NEW step \in Steps, GoTo(p, step),
           step = "ready" => At(p, "ready"),
           step \in WritingSteps => proc[p].request \in Request,
           step \in PreparedSteps \cup {"advanceRecover"} =>
               proc[p].prepared \in Prepare,
           step \in {"recover", "terminal", "packTerminal"} =>
               proc[p].out \in Terminal
    PROVE  ProcTyped'
  <1> DEFINE c == [proc[p] EXCEPT !.step = step]
  <1>1. proc[p] \in Process /\ LocalsTyped(proc[p])
    BY DEF ProcTyped
  <1>2. /\ c \in Process
        /\ c.step = step /\ c.kind = proc[p].kind
        /\ c.request = proc[p].request /\ c.prepared = proc[p].prepared
        /\ c.out = proc[p].out
    BY <1>1 DEF Process
  <1>3. LocalsTyped(c)
    BY <1>1, <1>2 DEF LocalsTyped, At
  <1>4. proc' = [proc EXCEPT ![p] = c]
    BY DEF GoTo, ProcTyped
  <1> HIDE DEF c
  <1> QED BY <1>2, <1>3, <1>4, MoveTyped

(* One process ends its command.                                           *)
LEMMA StopTyped ==
    ASSUME ProcTyped, NEW p \in Proc, Stop(p)
    PROVE  ProcTyped'
  <1>1. Idle \in Process
    BY DEF Idle, Process, Steps, Kinds, Digest
  <1>2. LocalsTyped(Idle)
    BY DEF Idle, LocalsTyped, WritingSteps, PreparedSteps
  <1> QED BY <1>1, <1>2, MoveTyped DEF Stop

(* The records a process may be about to append have the right types.      *)
LEMMA AppendingType ==
    ASSUME ProcTyped, NEW p \in Proc,
           proc[p].step \in {"prepare", "abort", "commit", "recover", "terminal",
                             "packTerminal"}
    PROVE  Appending(p) \in Prepare \cup Terminal
  <1>1. proc[p] \in Process /\ LocalsTyped(proc[p])
    BY DEF ProcTyped
  <1>2. CASE At(p, "prepare")
    BY <1>1, <1>2 DEF Appending, At, LocalsTyped, PreparedSteps
  <1>3. CASE proc[p].step \in {"abort", "commit"}
    <2>1. proc[p].prepared \in Prepare /\ proc[p].count \in Nat
      BY <1>1, <1>3 DEF LocalsTyped, PreparedSteps, Process
    <2> QED BY <1>3, <2>1, TerminalTypes DEF Appending, At
  <1>4. CASE proc[p].step \in {"recover", "terminal", "packTerminal"}
    BY <1>1, <1>4 DEF Appending, At, LocalsTyped
  <1> QED BY <1>2, <1>3, <1>4 DEF At

(* Starting a command keeps the types.                                     *)
LEMMA StartTyped ==
    ASSUME Typed, NEW p \in Proc, StartCommand(p)
    PROVE  ProcTyped'
  <1>1. ProcTyped /\ proc[p] \in Process /\ LocalsTyped(proc[p])
    BY DEF Typed, TypeOK, ProcTyped
  <1>2. ASSUME NEW kind \in {"write", "create"}, NEW loaded \in Digest,
               NEW request \in Request, Begin(p, kind, loaded, request)
        PROVE  ProcTyped'
    <2> DEFINE c == [Idle EXCEPT !.step = "ready", !.kind = kind,
                                 !.loaded = loaded, !.request = request]
    <2>1. c \in Process
      BY DEF Idle, Process, Steps, Kinds
    <2>2. LocalsTyped(c)
      BY DEF Idle, LocalsTyped, WritingSteps, PreparedSteps
    <2> QED BY <1>1, <1>2, <2>1, <2>2, MoveTyped DEF Begin
  <1>3. CASE Load(p)
    <2>1. PICK after \in Data, meta \in Meta :
             Begin(p, "write", workspace,
                [before |-> NoData, after |-> after, meta |-> meta,
                 event |-> "mutation", coverage |-> "continuous"])
      BY <1>3 DEF Load
    <2>2. [before |-> NoData, after |-> after, meta |-> meta,
           event |-> "mutation", coverage |-> "continuous"] \in Request
      BY DEF Request, Digest, EventKinds, CoverageModes
    <2> QED BY <1>2, <2>1, <2>2 DEF Typed, TypeOK
  <1>4. CASE Create(p)
    <2>1. PICK after \in Data, meta \in Meta :
             Begin(p, "create", NoData,
                [before |-> NoData, after |-> after, meta |-> meta,
                 event |-> "checkpoint", coverage |-> "complete"])
      BY <1>4 DEF Create
    <2>2. [before |-> NoData, after |-> after, meta |-> meta,
           event |-> "checkpoint", coverage |-> "complete"] \in Request
      BY DEF Request, Digest, EventKinds, CoverageModes
    <2>3. NoData \in Digest
      BY DEF Digest
    <2> QED BY <1>2, <2>1, <2>2, <2>3
  <1>5. ASSUME NEW kind \in {"recover", "checkpoint"}, StartHistory(p, kind)
        PROVE  ProcTyped'
    <2> DEFINE c == [proc[p] EXCEPT !.step = "ready", !.kind = kind]
    <2>1. c \in Process /\ c.step = "ready" /\ c.kind = kind
      BY <1>1 DEF Process, Steps, Kinds
    <2>2. LocalsTyped(c)
      BY <2>1 DEF LocalsTyped, WritingSteps, PreparedSteps
    <2>3. proc' = [proc EXCEPT ![p] = c]
      BY <1>1, <1>5 DEF StartHistory, ProcTyped
    <2> HIDE DEF c
    <2> QED BY <1>1, <2>1, <2>2, <2>3, MoveTyped
  <1>6. CASE StartAdvance(p)
    <2> DEFINE c == [proc[p] EXCEPT !.step = "ready", !.kind = "advance",
                                    !.loaded = workspace,
                                    !.prepared = journal.pending]
    <2>1. workspace \in Digest /\ journal.pending \in Prepare
      BY <1>6 DEF Typed, TypeOK, JournalState, StartAdvance
    <2>2. /\ c \in Process /\ c.step = "ready" /\ c.kind = "advance"
          /\ c.prepared \in Prepare
      BY <1>1, <2>1 DEF Process, Steps, Kinds
    <2>3. LocalsTyped(c)
      BY <2>2 DEF LocalsTyped, WritingSteps, PreparedSteps
    <2>4. proc' = [proc EXCEPT ![p] = c]
      BY <1>1, <1>6 DEF StartAdvance, ProcTyped
    <2> HIDE DEF c
    <2> QED BY <1>1, <2>2, <2>3, <2>4, MoveTyped
  <1>7. CASE StartPackRecovery(p)
    <2> DEFINE out == CommitRecord(journal.pending, journal.count, journal.head)
               c == [proc[p] EXCEPT !.step = "packTerminal", !.kind = "pack",
                                    !.out = out]
    <2>1. journal.pending \in Prepare /\ journal.count \in Nat /\ journal.head \in Nat
      BY <1>7 DEF StartPackRecovery, Typed, TypeOK, JournalState
    <2>2. out \in Terminal
      BY <2>1, TerminalTypes
    <2>3. proc' = [proc EXCEPT ![p] = c]
      BY <1>1, <1>7 DEF StartPackRecovery, ProcTyped
    <2> HIDE DEF out
    <2>4. c \in Process /\ c.step = "packTerminal" /\ c.out = out
      BY <1>1, <2>2 DEF Process, Steps, Kinds
    <2>5. LocalsTyped(c)
      BY <2>2, <2>4 DEF LocalsTyped, WritingSteps, PreparedSteps
    <2> HIDE DEF c
    <2> QED BY <1>1, <2>3, <2>4, <2>5, MoveTyped
  <1> QED BY <1>3, <1>4, <1>5, <1>6, <1>7 DEF StartCommand, StartRecover, StartCheckpoint

(* A step that only goes on, or ends the command, keeps the types.         *)
LEMMA GoingOnTyped ==
    ASSUME Typed, NEW p \in Proc,
           \/ Acquire(p) \/ AcquireFails(p) \/ Release(p) \/ CheckUnchanged(p)
           \/ PrewriteRejects(p) \/ PrewritePasses(p)
           \/ Apply(p) \/ AppendCommit(p) \/ AppendAbort(p)
           \/ AppendTerminal(p) \/ AppendPackTerminal(p) \/ CommitPending(p)
    PROVE  ProcTyped'
  <1>1. ProcTyped /\ proc[p] \in Process /\ LocalsTyped(proc[p])
    BY DEF Typed, TypeOK, ProcTyped
  <1>2. CASE Acquire(p)
    <2>1. proc[p].kind \in Kinds \ {"pack"} /\ At(p, "ready")
      BY <1>1, <1>2 DEF Acquire, At, Process, LocalsTyped
    <2> DEFINE next == FirstLockedStep(proc[p].kind)
    <2>2. /\ next \in {"check", "historyCheckpoint", "historyRecover", "advanceRecover"}
          /\ next = "check" => proc[p].kind \in {"write", "create"}
          /\ next = "advanceRecover" => proc[p].kind = "advance"
      BY <2>1 DEF FirstLockedStep, Kinds
    <2>3. /\ next = "check" => proc[p].request \in Request
          /\ next = "advanceRecover" => proc[p].prepared \in Prepare
      BY <1>1, <2>1, <2>2 DEF LocalsTyped, At
    <2>4. GoTo(p, next)
      BY <1>2 DEF Acquire
    <2> HIDE DEF next
    <2> QED BY <1>1, <2>2, <2>3, <2>4, GoToTyped
            DEF Steps, LockedSteps, WritingSteps, PreparedSteps
  <1>3. CASE AcquireFails(p) \/ Release(p) \/ AppendPackTerminal(p)
    BY <1>1, <1>3, StopTyped DEF AcquireFails, Release, AppendPackTerminal
  <1>4. ASSUME NEW step \in {"release", "read", "transact"}, GoTo(p, step),
               proc[p].step \in {"check", "recover", "prepare", "apply", "commit",
                                 "abort", "terminal"},
               step # "release" => proc[p].step # "terminal"
        PROVE  ProcTyped'
    <2>1. step # "release" => proc[p].request \in Request
      BY <1>1, <1>4 DEF LocalsTyped, WritingSteps, PreparedSteps
    <2> QED BY <1>1, <1>4, <2>1, GoToTyped
            DEF Steps, LockedSteps, WritingSteps, PreparedSteps
  <1>5. CASE CheckUnchanged(p)
    BY <1>4, <1>5 DEF CheckUnchanged, At
  <1>6. ASSUME NEW step \in {"abort", "apply", "commit"}, GoTo(p, step),
               proc[p].step \in {"prewrite", "apply"}
        PROVE  ProcTyped'
    <2>1. proc[p].request \in Request /\ proc[p].prepared \in Prepare
      BY <1>1, <1>6 DEF LocalsTyped, WritingSteps, PreparedSteps
    <2> QED BY <1>1, <1>6, <2>1, GoToTyped
            DEF Steps, LockedSteps, WritingSteps, PreparedSteps
  <1>7. CASE PrewriteRejects(p)
    BY <1>4, <1>6, <1>7 DEF PrewriteRejects, At
  <1>8. CASE PrewritePasses(p) \/ Apply(p)
    BY <1>6, <1>8 DEF PrewritePasses, Apply, At
  <1>9. CASE AppendCommit(p) \/ AppendAbort(p) \/ AppendTerminal(p)
    BY <1>4, <1>9 DEF AppendCommit, AppendAbort, AppendTerminal, At
  <1>10. CASE CommitPending(p)
    <2> DEFINE next == IF Repeats(proc[p].prepared, proc[p].request)
                       THEN "release" ELSE "transact"
    <2>1. GoTo(p, next) /\ next \in {"release", "transact"} /\ At(p, "recover")
      BY <1>10 DEF CommitPending, GoTo
    <2> HIDE DEF next
    <2> QED BY <1>4, <2>1 DEF At
  <1> QED BY <1>2, <1>3, <1>5, <1>7, <1>8, <1>9, <1>10

(* A step that stores something in the local variables keeps the types.    *)
LEMMA StoringTyped ==
    ASSUME Typed, NEW p \in Proc,
           \/ ReadBefore(p) \/ Checkpoint(p) \/ Transact(p) \/ AppendPrepare(p)
           \/ HistoryRecover(p) \/ AdvanceRecover(p)
    PROVE  ProcTyped'
  <1>1. ProcTyped /\ proc[p] \in Process /\ LocalsTyped(proc[p])
    BY DEF Typed, TypeOK, ProcTyped
  <1>2. /\ workspace \in Digest /\ journal \in JournalState
        /\ journal.count \in Nat /\ journal.head \in Nat
        /\ journal.pending \in Prepare \cup {NoRecord}
    BY DEF Typed, TypeOK, JournalState
  <1>3. ASSUME GoTo(p, "release") PROVE ProcTyped'
    BY <1>1, <1>3, GoToTyped DEF Steps, LockedSteps, WritingSteps, PreparedSteps
  <1>4. CASE ReadBefore(p)
    <2> DEFINE q == [proc[p].request EXCEPT !.before = workspace]
               c == [proc[p] EXCEPT !.step = "transact", !.request = q]
    <2>1. proc[p].request \in Request
      BY <1>1, <1>4 DEF ReadBefore, At, LocalsTyped, WritingSteps
    <2>2. q \in Request
      BY <1>2, <2>1 DEF Request
    <2>3. proc' = [proc EXCEPT ![p] = c] \/ GoTo(p, "release")
      BY <1>1, <1>4 DEF ReadBefore, ProcTyped, Process
    <2> HIDE DEF q
    <2>4. c \in Process /\ c.step = "transact" /\ c.request = q
      BY <1>1, <2>2 DEF Process, Steps, LockedSteps
    <2>5. LocalsTyped(c)
      BY <2>2, <2>4 DEF LocalsTyped, WritingSteps, PreparedSteps
    <2> HIDE DEF c
    <2> QED BY <1>1, <1>3, <2>3, <2>4, <2>5, MoveTyped
  <1>5. CASE Checkpoint(p)
    <2>1. CASE BreakToRecord(journal, workspace)
      <3>1. PICK meta \in Meta :
               proc' = [proc EXCEPT ![p].step = "transact",
                          ![p].request = [before |-> workspace,
                                          after |-> workspace, meta |-> meta,
                                          event |-> "checkpoint",
                                          coverage |-> "continuity-break"]]
        BY <1>5, <2>1 DEF Checkpoint
      <3> DEFINE q == [before |-> workspace, after |-> workspace, meta |-> meta,
                       event |-> "checkpoint", coverage |-> "continuity-break"]
                 c == [proc[p] EXCEPT !.step = "transact", !.request = q]
      <3>2. workspace \in Data
        BY <1>2, <2>1 DEF BreakToRecord, Digest
      <3>3. q \in Request
        BY <1>2, <3>2 DEF Request, EventKinds, CoverageModes
      <3>4. proc' = [proc EXCEPT ![p] = c]
        BY <1>1, <3>1 DEF ProcTyped
      <3> HIDE DEF q
      <3>5. c \in Process /\ c.step = "transact" /\ c.request = q
        BY <1>1, <3>3 DEF Process, Steps, LockedSteps
      <3>6. LocalsTyped(c)
        BY <3>3, <3>5 DEF LocalsTyped, WritingSteps, PreparedSteps
      <3> HIDE DEF c
      <3> QED BY <1>1, <3>4, <3>5, <3>6, MoveTyped
    <2> QED BY <1>3, <1>5, <2>1 DEF Checkpoint
  <1>6. ASSUME NEW out \in Terminal,
               proc' = [proc EXCEPT ![p].step = "terminal", ![p].out = out]
        PROVE  ProcTyped'
    <2> DEFINE c == [proc[p] EXCEPT !.step = "terminal", !.out = out]
    <2>1. c \in Process /\ c.step = "terminal" /\ c.out = out
      BY <1>1, <1>6 DEF Process, Steps, LockedSteps
    <2>2. LocalsTyped(c)
      BY <1>6, <2>1 DEF LocalsTyped, WritingSteps, PreparedSteps
    <2>3. proc' = [proc EXCEPT ![p] = c]
      BY <1>1, <1>6 DEF ProcTyped
    <2> HIDE DEF c
    <2> QED BY <1>1, <2>1, <2>2, <2>3, MoveTyped
  <1>7. CASE HistoryRecover(p)
    <2>1. CASE Readable(journal) /\ MustCommitPending(journal, workspace)
      <3>1. CommitRecord(journal.pending, journal.count, journal.head) \in Terminal
        BY <1>2, <2>1, TerminalTypes DEF MustCommitPending
      <3> QED BY <1>6, <1>7, <2>1, <3>1 DEF HistoryRecover
    <2> QED BY <1>3, <1>7, <2>1 DEF HistoryRecover
  <1>8. CASE AdvanceRecover(p)
    <2>1. CASE /\ Readable(journal)
               /\ journal.pending = proc[p].prepared
               /\ workspace = proc[p].loaded
      <3>1. journal.pending \in Prepare
        BY <1>1, <1>8, <2>1 DEF AdvanceRecover, At, LocalsTyped
      <3>2. AdvanceTerminal(journal, workspace) \in Terminal
        BY <1>2, <3>1, TerminalTypes DEF AdvanceTerminal
      <3> QED BY <1>6, <1>8, <2>1, <3>2 DEF AdvanceRecover
    <2> QED BY <1>3, <1>8, <2>1 DEF AdvanceRecover
  <1>9. CASE AppendPrepare(p)
    <2> DEFINE c == [proc[p] EXCEPT !.step = "prewrite", !.count = proc[p].count + 1]
    <2>1. proc[p].count + 1 \in Nat
      BY <1>1 DEF Process
    <2>2. /\ c \in Process /\ c.step = "prewrite"
          /\ c.request = proc[p].request /\ c.prepared = proc[p].prepared
      BY <1>1, <2>1 DEF Process, Steps, LockedSteps
    <2>3. proc[p].request \in Request /\ proc[p].prepared \in Prepare
      BY <1>1, <1>9 DEF AppendPrepare, At, LocalsTyped, WritingSteps, PreparedSteps
    <2>4. LocalsTyped(c)
      BY <2>2, <2>3 DEF LocalsTyped
    <2>5. proc' = [proc EXCEPT ![p] = c]
      BY <1>1, <1>9 DEF AppendPrepare, ProcTyped
    <2> HIDE DEF c
    <2> QED BY <1>1, <2>2, <2>4, <2>5, MoveTyped
  <1>10. CASE Transact(p)
    <2> DEFINE q == proc[p].request
               d == [proc[p] EXCEPT !.step = "recover", !.prepared = journal.pending,
                       !.out = CommitRecord(journal.pending, journal.count, journal.head)]
               e(step, r) == [proc[p] EXCEPT !.step = step, !.prepared = r,
                                             !.count = journal.count]
    <2>1. q \in Request
      BY <1>1, <1>10 DEF Transact, At, LocalsTyped, WritingSteps
    <2>2. CASE MustCommitPending(journal, q.before) /\ proc' = [proc EXCEPT ![p] = d]
      <3> DEFINE out == CommitRecord(journal.pending, journal.count, journal.head)
      <3>1. journal.pending \in Prepare
        BY <1>2, <2>2 DEF MustCommitPending
      <3>2. out \in Terminal
        BY <1>2, <3>1, TerminalTypes
      <3> HIDE DEF out
      <3>3. /\ d \in Process /\ d.step = "recover" /\ d.out = out
            /\ d.request = q /\ d.prepared = journal.pending
        BY <1>1, <3>1, <3>2 DEF Process, Steps, LockedSteps, out
      <3>4. LocalsTyped(d)
        BY <2>1, <3>1, <3>2, <3>3 DEF LocalsTyped
      <3> HIDE DEF d
      <3> QED BY <1>1, <2>2, <3>3, <3>4, MoveTyped
    <2>3. ASSUME NEW step \in {"prepare", "prewrite"}, NEW r \in Prepare,
                 proc' = [proc EXCEPT ![p] = e(step, r)]
          PROVE  ProcTyped'
      <3>1. /\ e(step, r) \in Process /\ e(step, r).step = step
            /\ e(step, r).request = q /\ e(step, r).prepared = r
        BY <1>1, <1>2, <2>3 DEF Process, Steps, LockedSteps
      <3>2. LocalsTyped(e(step, r))
        BY <2>1, <2>3, <3>1 DEF LocalsTyped
      <3> HIDE DEF e
      <3> QED BY <1>1, <2>3, <3>1, <3>2, MoveTyped
    <2>4. CASE CanResume(journal, q)
                 /\ proc' = [proc EXCEPT ![p] = e("prewrite", journal.pending)]
      <3>1. journal.pending \in Prepare
        BY <1>2, <2>4 DEF CanResume
      <3> QED BY <2>3, <2>4, <3>1
    <2>5. CASE proc' = [proc EXCEPT ![p] = e("prepare", Prepared(journal, q))]
      <3>1. Prepared(journal, q) \in Prepare
        BY <1>2, <2>1, PreparedType
      <3> QED BY <2>3, <2>5, <3>1
    <2>6. \/ MustCommitPending(journal, q.before) /\ proc' = [proc EXCEPT ![p] = d]
          \/ CanResume(journal, q)
               /\ proc' = [proc EXCEPT ![p] = e("prewrite", journal.pending)]
          \/ proc' = [proc EXCEPT ![p] = e("prepare", Prepared(journal, q))]
          \/ GoTo(p, "release")
      BY <1>1, <1>10 DEF Transact, ProcTyped
    <2> HIDE DEF d, e, q
    <2> QED BY <1>3, <2>2, <2>4, <2>5, <2>6
  <1> QED BY <1>4, <1>5, <1>7, <1>8, <1>9, <1>10

(* A failure, too, leaves well-typed processes.                            *)
LEMMA FailureTyped ==
    ASSUME Typed, NEW p \in Proc, Failure(p)
    PROVE  ProcTyped'
  <1>1. ProcTyped
    BY DEF Typed, TypeOK, ProcTyped
  <1>2. CASE AppendFails(p) \/ ApplyFails(p)
    <2>1. GoTo(p, "release")
      BY <1>2 DEF AppendFails, ApplyFails
    <2> QED BY <1>1, <2>1, GoToTyped DEF Steps, LockedSteps, WritingSteps, PreparedSteps
  <1>3. CASE PackAppendFails(p) \/ Crash(p)
    BY <1>1, <1>3, StopTyped DEF PackAppendFails, Crash
  <1> QED BY <1>2, <1>3 DEF Failure

(* What a step does to the shared variables keeps their types.             *)
LEMMA SharedTyped ==
    ASSUME Typed, NEW p \in Proc, StartCommand(p) \/ Step(p) \/ Failure(p)
    PROVE  /\ workspace' \in Digest
           /\ journal' \in JournalState
           /\ lock' \in Proc \cup {Free, Stale}
           /\ faults' \in Nat
           /\ edits' \in Nat
  <1>1. ProcTyped /\ proc[p] \in Process /\ LocalsTyped(proc[p])
    BY DEF Typed, TypeOK, ProcTyped
  <1>2. TypeOK
    BY DEF Typed
  <1>3. ASSUME NEW r \in Prepare \cup Terminal
        PROVE  Scanned(journal, r) \in JournalState
    BY <1>2, ScannedType DEF TypeOK
  <1>4. CASE StartCommand(p)
    BY <1>2, <1>4 DEF StartCommand, Load, Create, StartCheckpoint, StartRecover,
         StartHistory, StartAdvance, StartPackRecovery, Begin, TypeOK
  <1>5. CASE \/ AcquireFails(p) \/ CheckUnchanged(p) \/ ReadBefore(p) \/ Checkpoint(p)
             \/ Transact(p) \/ PrewriteRejects(p) \/ PrewritePasses(p)
             \/ HistoryRecover(p) \/ AdvanceRecover(p)
    BY <1>2, <1>5 DEF AcquireFails, CheckUnchanged, ReadBefore, Checkpoint, Transact,
         PrewriteRejects, PrewritePasses, HistoryRecover, AdvanceRecover, TypeOK
  <1>6. CASE Acquire(p) \/ Release(p)
    BY <1>2, <1>6 DEF Acquire, Release, TypeOK
  <1>7. CASE AppendPrepare(p)
    <2>1. proc[p].prepared \in Prepare
      BY <1>1, <1>7 DEF AppendPrepare, At, LocalsTyped, PreparedSteps
    <2> QED BY <1>2, <1>3, <1>7, <2>1 DEF AppendPrepare, TypeOK
  <1>8. CASE AppendAbort(p) \/ AppendCommit(p)
    <2>1. proc[p].prepared \in Prepare /\ proc[p].count \in Nat
      BY <1>1, <1>8 DEF AppendAbort, AppendCommit, At, LocalsTyped, PreparedSteps, Process
    <2> QED BY <1>2, <1>3, <1>8, <2>1, TerminalTypes DEF AppendAbort, AppendCommit, TypeOK
  <1>9. CASE CommitPending(p) \/ AppendTerminal(p) \/ AppendPackTerminal(p)
    <2>1. proc[p].out \in Terminal
      BY <1>1, <1>9 DEF CommitPending, AppendTerminal, AppendPackTerminal, At, LocalsTyped
    <2> QED BY <1>2, <1>3, <1>9, <2>1
            DEF CommitPending, AppendTerminal, AppendPackTerminal, TypeOK
  <1>10. CASE Apply(p)
    <2>1. proc[p].request.after \in Digest
      BY <1>1, <1>10 DEF Apply, At, LocalsTyped, WritingSteps, PreparedSteps, Request, Digest
    <2> QED BY <1>2, <1>10, <2>1 DEF Apply, TypeOK
  <1>11. CASE AppendFails(p)
    <2>1. Appending(p) \in Prepare \cup Terminal
      BY <1>1, <1>11, AppendingType DEF AppendFails
    <2> QED BY <1>2, <1>11, <2>1, InterruptedType DEF AppendFails, Fault, TypeOK
  <1>12. CASE PackAppendFails(p)
    <2>1. proc[p].out \in Terminal
      BY <1>1, <1>12 DEF PackAppendFails, At, LocalsTyped
    <2> QED BY <1>2, <1>12, <2>1, InterruptedType DEF PackAppendFails, Fault, TypeOK
  <1>13. CASE ApplyFails(p) \/ Crash(p)
    BY <1>2, <1>13 DEF ApplyFails, Crash, Fault, TypeOK
  <1> QED BY <1>4, <1>5, <1>6, <1>7, <1>8, <1>9, <1>10, <1>11, <1>12, <1>13
          DEF Step, Failure

(* Every step keeps Typed.                                                 *)
LEMMA TypedStep == Typed /\ [StoreNext]_storeVars => Typed'
  <1> SUFFICES ASSUME Typed, [StoreNext]_storeVars PROVE Typed'
    OBVIOUS
  <1>1. ASSUME NEW p \in Proc, StartCommand(p) \/ Step(p) \/ Failure(p)
        PROVE  Typed'
    <2>1. ProcTyped'
      BY <1>1, StartTyped, GoingOnTyped, StoringTyped, FailureTyped DEF Step
    <2> QED BY <1>1, <2>1, SharedTyped DEF Typed, TypeOK, ProcTyped
  <1>2. CASE Edit
    BY <1>2 DEF Edit, Typed, TypeOK
  <1>3. CASE UNCHANGED storeVars
    BY <1>3 DEF storeVars, Typed, TypeOK
  <1> QED BY <1>1, <1>2, <1>3 DEF StoreNext

(* The types hold where the system starts.                                 *)
LEMMA TypedInit == StoreInit => Typed
  <1>1. EmptyState \in JournalState
    BY DEF EmptyState, JournalState, Digest
  <1>2. Idle \in Process
    BY DEF Idle, Process, Steps, Kinds, Digest
  <1>3. LocalsTyped(Idle)
    BY DEF Idle, LocalsTyped, WritingSteps, PreparedSteps
  <1> QED BY <1>1, <1>2, <1>3 DEF StoreInit, Typed, TypeOK, Digest

(* Every variable has its type in every reachable state: no interleaving,  *)
(* crash, torn append or hand edit makes a command hold, or append,        *)
(* something that is not a record.                                         *)
THEOREM TypeCorrect == StoreSpec => []TypeOK
  <1>1. Typed => TypeOK
    BY DEF Typed
  <1> QED BY <1>1, TypedInit, TypedStep, PTL DEF StoreSpec

-----------------------------------------------------------------------------
(* The inductive invariant.  It holds when the approval pack path is not   *)
(* taken: with it, a second process appends while the holder of the writer *)
(* lock relies on the journal it has scanned.                              *)

(* Only the holder of the lock is inside the write section.                *)
LockHeld ==
    \A p \in Proc : /\ proc[p].step # "packTerminal"
                    /\ proc[p].step \in LockedSteps <=> lock = p

(* Identities that an abort can carry: approvals and advance transactions. *)
Abortable == Guarded \cup Advance

(* The last record is the pending prepare, allowed where it stands; the    *)
(* first one and a continuity break are never aborted.                     *)
PendingSound(s) ==
    /\ s.pending.seq + 1 = s.count
    /\ \/ /\ s.pending.seq = 0
          /\ FirstPrepareAllowed(s.pending)
          /\ s.replay = NoData
          /\ s.pending.meta \notin Abortable
       \/ /\ s.committed > 0
          /\ LaterPrepareAllowed(s, s.pending)
    /\ s.pending.coverage = "continuity-break" => s.pending.meta \notin Abortable

JournalSound(s) ==
    /\ s.damage # "rejected"
    /\ s.head = s.count
    /\ ~s.exists => s.count = 0
    /\ s.count = 0 => s.pending = NoRecord /\ s.replay = NoData
    /\ s.committed > 0 => s.replay # NoData
    /\ s.count > 0 /\ s.pending = NoRecord => s.committed > 0
    /\ s.pending # NoRecord => PendingSound(s)

(* The arguments of transact fit the command that passes them.             *)
RequestSound(c) ==
    CASE c.kind = "write" ->
           /\ c.request.event = "mutation"
           /\ c.request.coverage = "continuous"
           /\ c.step \in {"transact"} \cup PreparedSteps => c.request.before # NoData
      [] c.kind = "create" ->
           /\ c.request.event = "checkpoint"
           /\ c.request.coverage = "complete"
           /\ c.request.before = NoData
           /\ c.request.meta \notin Abortable
      [] c.kind = "checkpoint" ->
           /\ c.request.event = "checkpoint"
           /\ c.request.coverage = "continuity-break"
           /\ c.request.before = c.request.after
           /\ c.request.meta \notin Abortable
      [] OTHER -> FALSE

(* What a command has found out about the journal s and still relies on.   *)
ReliesOn(c, s) ==
    /\ c.step = "ready" /\ c.kind \in {"write", "create"} => RequestSound(c)
    /\ c.step \in WritingSteps => RequestSound(c)
    /\ c.step = "check" => c.kind # "checkpoint"
    /\ c.step = "read" => c.kind = "write"
    /\ c.step = "historyCheckpoint" => c.kind = "checkpoint"
    /\ c.step = "ready" /\ c.kind = "advance" => c.prepared.meta \in Advance
    /\ c.step = "advanceRecover" => c.prepared.meta \in Advance
    /\ c.step \in {"transact", "prepare"} /\ c.kind = "checkpoint" =>
           s.pending = NoRecord /\ c.request.before # s.replay
    /\ c.step \in PreparedSteps \cup {"terminal"} => s.damage = "none"
    /\ c.step \in {"recover", "terminal"} => s.pending # NoRecord
    /\ c.step = "recover" =>
           /\ c.kind # "checkpoint"
           /\ c.prepared = s.pending
           /\ c.request.before = s.pending.after
           /\ c.out = CommitRecord(s.pending, s.count, s.head)
    /\ c.step = "terminal" =>
           \/ c.out = CommitRecord(s.pending, s.count, s.head)
           \/ /\ c.out = AbortRecord(s.pending, s.count, s.head)
              /\ s.pending.meta \in Advance
    /\ c.step = "prepare" =>
           CanPrepare(s, c.request) /\ c.prepared = Prepared(s, c.request)
    /\ c.step \in {"prepare", "prewrite", "abort", "apply", "commit"} =>
           c.count = s.count
    /\ c.step \in {"prewrite", "abort", "apply", "commit"} =>
           /\ s.pending = c.prepared
           /\ c.prepared.before = c.request.before
           /\ c.prepared.after = c.request.after
           /\ c.prepared.meta = c.request.meta
           /\ c.prepared.coverage = c.request.coverage
    /\ c.step = "abort" => c.request.meta \in Guarded

Sound ==
    /\ Typed
    /\ LockHeld
    /\ JournalSound(journal)
    /\ \A p \in Proc : ReliesOn(proc[p], journal)

(* What the scan makes of a record it allows.                              *)
LEMMA ScannedPrepare ==
    ASSUME NEW s \in JournalState, s.damage = "none", NEW r \in Prepare,
           RecordAllowed(s, r)
    PROVE  Scanned(s, r) = [s EXCEPT !.pending = r, !.exists = TRUE,
                                     !.head = s.count + 1, !.count = s.count + 1]
  <1>1. RecordDigest(r) = s.count + 1
    BY DEF RecordAllowed, RecordDigest
  <1>2. Advanced(s, r) = [s EXCEPT !.pending = r]
    BY DEF Advanced, WithPrepare, Prepare
  <1>3. Scanned(s, r) = [Advanced(s, r) EXCEPT !.exists = TRUE,
                             !.head = RecordDigest(r), !.count = s.count + 1]
    BY DEF Scanned
  <1> QED BY <1>1, <1>2, <1>3 DEF JournalState

(* A commit record that names the pending prepare is accepted by the scan.   *)
LEMMA ScannedCommit ==
    ASSUME NEW s \in JournalState, s.damage = "none", s.pending # NoRecord
    PROVE  Scanned(s, CommitRecord(s.pending, s.count, s.head)) =
               [s EXCEPT !.pending = NoRecord, !.replay = s.pending.after,
                         !.breaks = IF s.pending.coverage = "continuity-break"
                                    THEN s.breaks + 1 ELSE s.breaks,
                         !.committed = s.committed + 1,
                         !.exists = TRUE, !.head = s.count + 1,
                         !.count = s.count + 1]
  <1> DEFINE r == CommitRecord(s.pending, s.count, s.head)
  <1>1. /\ r.type = "commit" /\ r.seq = s.count /\ r.prev = s.head
        /\ r.of = RecordDigest(s.pending) /\ r.tx = TxOf(s.pending)
        /\ r.state = s.pending.after
    BY DEF CommitRecord
  <1> HIDE DEF r
  <1>2. RecordAllowed(s, r)
    BY <1>1 DEF RecordAllowed, TerminalAllowed
  <1>3. RecordDigest(r) = s.count + 1
    BY <1>1 DEF RecordDigest
  <1>4. Advanced(s, r) = WithCommit(s)
    BY <1>1 DEF Advanced
  <1>5. Scanned(s, r) = [WithCommit(s) EXCEPT !.exists = TRUE,
                             !.head = s.count + 1, !.count = s.count + 1]
    BY <1>2, <1>3, <1>4 DEF Scanned
  <1>6. WithCommit(s) =
          [s EXCEPT !.pending = NoRecord, !.replay = s.pending.after,
                    !.breaks = IF s.pending.coverage = "continuity-break"
                               THEN s.breaks + 1 ELSE s.breaks,
                    !.committed = s.committed + 1]
    BY DEF WithCommit, JournalState
  <1> QED BY <1>5, <1>6 DEF r, JournalState

(* So is an abort record.                                                  *)
LEMMA ScannedAbort ==
    ASSUME NEW s \in JournalState, s.damage = "none", s.pending # NoRecord
    PROVE  Scanned(s, AbortRecord(s.pending, s.count, s.head)) =
               [s EXCEPT !.pending = NoRecord, !.aborted = s.aborted + 1,
                         !.exists = TRUE, !.head = s.count + 1,
                         !.count = s.count + 1]
  <1> DEFINE r == AbortRecord(s.pending, s.count, s.head)
  <1>1. /\ r.type = "abort" /\ r.seq = s.count /\ r.prev = s.head
        /\ r.of = RecordDigest(s.pending) /\ r.tx = TxOf(s.pending)
        /\ r.state = s.pending.before
    BY DEF AbortRecord
  <1> HIDE DEF r
  <1>2. RecordAllowed(s, r)
    BY <1>1 DEF RecordAllowed, TerminalAllowed
  <1>3. RecordDigest(r) = s.count + 1
    BY <1>1 DEF RecordDigest
  <1>4. Advanced(s, r) = WithAbort(s)
    BY <1>1 DEF Advanced
  <1>5. Scanned(s, r) = [WithAbort(s) EXCEPT !.exists = TRUE,
                             !.head = s.count + 1, !.count = s.count + 1]
    BY <1>2, <1>3, <1>4 DEF Scanned
  <1> QED BY <1>5 DEF r, WithAbort, JournalState

(* Appending the record that transact prepares to the journal it was       *)
(* prepared for gives a sound journal with that transaction pending.       *)
LEMMA PrepareAppended ==
    ASSUME NEW s \in JournalState, JournalSound(s), s.damage = "none",
           NEW c \in Process, c.request \in Request, RequestSound(c),
           c.kind = "checkpoint" => c.request.before # s.replay,
           CanPrepare(s, c.request),
           NEW r, r = Prepared(s, c.request),
           NEW t, t = Scanned(s, r)
    PROVE  /\ JournalSound(t)
           /\ t.damage = "none" /\ t.pending = r /\ t.count = s.count + 1
           /\ t.replay = s.replay /\ t.breaks = s.breaks
           /\ r.before = c.request.before /\ r.after = c.request.after
           /\ r.meta = c.request.meta /\ r.coverage = c.request.coverage
  <1> DEFINE q == c.request
  <1>1. /\ s.pending = NoRecord /\ DeltaBaseExists(s, q) /\ s.count \in Nat
        /\ s.head = s.count
    BY DEF CanPrepare, JournalState, JournalSound
  <1>2. r = [type |-> "prepare", seq |-> s.count, prev |-> s.head,
             event |-> q.event, coverage |-> q.coverage,
             expected |-> IF s.count = 0 THEN NoData ELSE s.replay,
             before |-> IF s.count = 0 THEN NoData ELSE q.before,
             after |-> q.after, meta |-> q.meta]
    BY <1>1 DEF Prepared
  <1>3. r \in Prepare /\ r # NoRecord
    <2>1. r \in Prepare
      BY PreparedType
    <2> QED BY <2>1, NoRecordAssumption
  <1>4. /\ r.type = "prepare" /\ r.seq = s.count /\ r.prev = s.head
        /\ r.event = q.event /\ r.coverage = q.coverage
        /\ r.after = q.after /\ r.meta = q.meta
        /\ s.count = 0 => r.expected = NoData /\ r.before = NoData
        /\ s.count # 0 => r.expected = s.replay /\ r.before = q.before
    BY <1>2
  <1>5. s.count = 0 => /\ FirstPrepareAllowed(r) /\ r.before = q.before
                       /\ s.replay = NoData /\ r.meta \notin Abortable
    BY <1>4 DEF CanPrepare, StartsHistory, FirstPrepareAllowed, JournalSound,
                RequestSound
  <1>6. s.count # 0 => LaterPrepareAllowed(s, r) /\ s.committed > 0
    BY <1>1, <1>4 DEF CanPrepare, LaterPrepareAllowed, JournalSound, RequestSound
  <1>7. RecordAllowed(s, r)
    BY <1>1, <1>4, <1>5, <1>6 DEF RecordAllowed, PrepareAllowed, DeltaBaseExists
  <1>8. t = [s EXCEPT !.pending = r, !.exists = TRUE,
                      !.head = s.count + 1, !.count = s.count + 1]
    BY <1>3, <1>7, ScannedPrepare
  <1>9. /\ t.pending = r /\ t.exists /\ t.head = s.count + 1 /\ t.count = s.count + 1
        /\ t.replay = s.replay /\ t.committed = s.committed /\ t.damage = "none"
        /\ t.breaks = s.breaks
    BY <1>8 DEF JournalState
  <1>10. r.coverage = "continuity-break" => r.meta \notin Abortable
    BY <1>4 DEF RequestSound
  <1>11. PendingSound(t)
    BY <1>1, <1>4, <1>5, <1>6, <1>9, <1>10 DEF PendingSound, LaterPrepareAllowed
  <1>12. JournalSound(t)
    BY <1>1, <1>3, <1>9, <1>11 DEF JournalSound
  <1> QED BY <1>4, <1>5, <1>9, <1>12

(* Appending the commit of the pending transaction gives a sound journal.  *)
LEMMA CommitAppended ==
    ASSUME NEW s \in JournalState, JournalSound(s), s.damage = "none",
           s.pending # NoRecord,
           NEW t, t = Scanned(s, CommitRecord(s.pending, s.count, s.head))
    PROVE  JournalSound(t)
  <1>1. s.pending \in Prepare /\ s.count \in Nat /\ s.committed \in Nat
    BY DEF JournalState
  <1>2. /\ t.pending = NoRecord /\ t.replay = s.pending.after
        /\ t.committed = s.committed + 1 /\ t.exists /\ t.head = s.count + 1
        /\ t.count = s.count + 1 /\ t.damage = "none"
    <2> DEFINE breaks == IF s.pending.coverage = "continuity-break"
                         THEN s.breaks + 1 ELSE s.breaks
    <2>1. t = [s EXCEPT !.pending = NoRecord, !.replay = s.pending.after,
                        !.breaks = breaks, !.committed = s.committed + 1,
                        !.exists = TRUE, !.head = s.count + 1,
                        !.count = s.count + 1]
      BY ScannedCommit
    <2> HIDE DEF breaks
    <2> QED BY <2>1 DEF JournalState
  <1>3. s.pending.after # NoData
    BY <1>1, NoDataAssumption DEF Prepare
  <1> QED BY <1>1, <1>2, <1>3 DEF JournalSound

(* So does the abort of one that may be aborted.                           *)
LEMMA AbortAppended ==
    ASSUME NEW s \in JournalState, JournalSound(s), s.damage = "none",
           s.pending # NoRecord, s.pending.meta \in Abortable,
           NEW t, t = Scanned(s, AbortRecord(s.pending, s.count, s.head))
    PROVE  JournalSound(t)
  <1>1. s.count \in Nat /\ s.committed > 0
    BY DEF JournalState, JournalSound, PendingSound
  <1>2. /\ t.pending = NoRecord /\ t.replay = s.replay
        /\ t.committed = s.committed /\ t.exists /\ t.head = s.count + 1
        /\ t.count = s.count + 1 /\ t.damage = "none"
    BY ScannedAbort DEF JournalState
  <1> QED BY <1>1, <1>2 DEF JournalSound

(* An append that is cut short leaves a sound journal if the whole record  *)
(* would have.                                                             *)
LEMMA InterruptedSound ==
    ASSUME NEW s \in JournalState, JournalSound(s), NEW r, JournalSound(Scanned(s, r)),
           NEW t \in Interrupted(s, r)
    PROVE  JournalSound(t)
  <1>1. CASE t = Scanned(s, r)
    BY <1>1
  <1>2. CASE t # Scanned(s, r)
    <2>1. /\ t.head = s.head /\ t.count = s.count /\ t.pending = s.pending
          /\ t.replay = s.replay /\ t.committed = s.committed /\ t.exists
          /\ t.damage # "rejected"
      BY <1>2 DEF Interrupted, JournalState, JournalSound
    <2>2. s.pending # NoRecord => PendingSound(t)
      BY <2>1 DEF JournalSound, PendingSound, LaterPrepareAllowed
    <2> QED BY <2>1, <2>2 DEF JournalSound
  <1> QED BY <1>1, <1>2

(* Outside the write section a command relies on no state of the journal.  *)
LEMMA OutsideRelies ==
    ASSUME NEW c, NEW s, NEW t, ReliesOn(c, s),
           c.step \in Steps \ (LockedSteps \cup {"packTerminal"})
    PROVE  ReliesOn(c, t)
  BY DEF ReliesOn, Steps, LockedSteps, WritingSteps, PreparedSteps

(* In one step p moves to c, and only the holder of the lock appends.      *)
LEMMA MoveSound ==
    ASSUME Sound, Typed', NEW p \in Proc, NEW c,
           proc' = [proc EXCEPT ![p] = c],
           c.step # "packTerminal",
           JournalSound(journal'), ReliesOn(c, journal'),
           journal' = journal \/ proc[p].step \in LockedSteps,
           \/ /\ lock' = lock
              /\ c.step \in LockedSteps <=> proc[p].step \in LockedSteps
           \/ lock \in {Free, Stale} /\ lock' = p /\ c.step \in LockedSteps
           \/ /\ proc[p].step \in LockedSteps
              /\ lock' \in {Free, Stale} /\ c.step \notin LockedSteps
    PROVE  Sound'
  <1>1. proc \in [Proc -> Process] /\ Free \notin Proc /\ Stale \notin Proc
    BY StoreAssumption DEF Sound, Typed, TypeOK
  <1>2. \A q \in Proc : proc'[q] = IF q = p THEN c ELSE proc[q]
    BY <1>1
  <1>3. LockHeld'
    BY <1>1, <1>2 DEF LockHeld, Sound
  <1>4. ASSUME NEW q \in Proc PROVE ReliesOn(proc'[q], journal')
    <2>1. CASE q = p
      BY <1>2, <2>1
    <2>2. CASE q # p /\ journal' = journal
      BY <1>2, <2>2 DEF Sound
    <2>3. CASE q # p /\ proc[p].step \in LockedSteps
      <3>1. proc[q].step \in Steps \ (LockedSteps \cup {"packTerminal"})
        BY <1>1, <2>3 DEF Sound, LockHeld, Process
      <3> QED BY <1>2, <2>3, <3>1, OutsideRelies DEF Sound
    <2> QED BY <2>1, <2>2, <2>3
  <1> QED BY <1>3, <1>4 DEF Sound

(* What holds of one process in a sound state.                             *)
LEMMA SoundFacts ==
    ASSUME Sound, NEW p \in Proc
    PROVE  /\ proc \in [Proc -> Process] /\ proc[p] \in Process
           /\ LocalsTyped(proc[p]) /\ ReliesOn(proc[p], journal)
           /\ journal \in JournalState /\ JournalSound(journal)
           /\ workspace \in Digest /\ ProcTyped
  BY DEF Sound, Typed, TypeOK, ProcTyped

(* A command inside the write section gives up, leaving a sound journal.   *)
LEMMA LeaveSound ==
    ASSUME Sound, Typed', NEW p \in Proc, proc[p].step \in LockedSteps,
           GoTo(p, "release"), lock' = lock, JournalSound(journal')
    PROVE  Sound'
  <1> DEFINE c == [proc[p] EXCEPT !.step = "release"]
  <1>1. c.step = "release" /\ proc' = [proc EXCEPT ![p] = c]
    BY SoundFacts DEF GoTo, Process
  <1> HIDE DEF c
  <1>2. ReliesOn(c, journal')
    BY <1>1 DEF ReliesOn, WritingSteps, PreparedSteps
  <1> QED BY <1>1, <1>2, MoveSound DEF LockedSteps

(* A command ends.                                                         *)
LEMMA StopSound ==
    ASSUME Sound, Typed', NEW p \in Proc, Stop(p), UNCHANGED journal,
           \/ lock' = lock /\ proc[p].step \notin LockedSteps
           \/ lock' \in {Free, Stale} /\ proc[p].step \in LockedSteps
    PROVE  Sound'
  <1>1. Idle.step = "idle"
    BY DEF Idle
  <1>2. ReliesOn(Idle, journal')
    BY <1>1 DEF ReliesOn, WritingSteps, PreparedSteps
  <1> QED BY <1>1, <1>2, MoveSound, SoundFacts DEF LockedSteps, Stop

(* Starting a command keeps Sound.                                         *)
LEMMA StartSound ==
    ASSUME Sound, Typed', NEW p \in Proc, StartCommand(p), PackRecoverers = {}
    PROVE  Sound'
  <1> USE SoundFacts
  <1>1. ASSUME NEW c, proc' = [proc EXCEPT ![p] = c], c.step = "ready",
               At(p, "idle"), UNCHANGED <<journal, lock>>, ReliesOn(c, journal)
        PROVE  Sound'
    BY <1>1, MoveSound DEF At, LockedSteps
  <1>2. CASE Load(p)
    <2>1. PICK after \in Data, meta \in Meta :
             Begin(p, "write", workspace,
                [before |-> NoData, after |-> after, meta |-> meta,
                 event |-> "mutation", coverage |-> "continuous"])
      BY <1>2 DEF Load
    <2> DEFINE q == [before |-> NoData, after |-> after, meta |-> meta,
                     event |-> "mutation", coverage |-> "continuous"]
               c == [Idle EXCEPT !.step = "ready", !.kind = "write",
                                 !.loaded = workspace, !.request = q]
    <2>2. c.step = "ready" /\ c.kind = "write" /\ c.request = q
      BY DEF Idle
    <2>3. RequestSound(c)
      BY <2>2 DEF RequestSound, PreparedSteps
    <2>4. /\ proc' = [proc EXCEPT ![p] = c] /\ At(p, "idle")
          /\ UNCHANGED <<journal, lock>>
      BY <2>1 DEF Begin
    <2> HIDE DEF c
    <2>5. ReliesOn(c, journal)
      BY <2>2, <2>3 DEF ReliesOn, WritingSteps, PreparedSteps
    <2> QED BY <1>1, <2>2, <2>4, <2>5
  <1>3. CASE Create(p)
    <2>1. PICK after \in Data, meta \in Meta \ (Guarded \cup Advance) :
             Begin(p, "create", NoData,
                [before |-> NoData, after |-> after, meta |-> meta,
                 event |-> "checkpoint", coverage |-> "complete"])
      BY <1>3 DEF Create
    <2> DEFINE q == [before |-> NoData, after |-> after, meta |-> meta,
                     event |-> "checkpoint", coverage |-> "complete"]
               c == [Idle EXCEPT !.step = "ready", !.kind = "create",
                                 !.loaded = NoData, !.request = q]
    <2>2. c.step = "ready" /\ c.kind = "create" /\ c.request = q
      BY DEF Idle
    <2>3. RequestSound(c)
      BY <2>1, <2>2 DEF RequestSound, Abortable
    <2>4. /\ proc' = [proc EXCEPT ![p] = c] /\ At(p, "idle")
          /\ UNCHANGED <<journal, lock>>
      BY <2>1 DEF Begin
    <2> HIDE DEF c
    <2>5. ReliesOn(c, journal)
      BY <2>2, <2>3 DEF ReliesOn, WritingSteps, PreparedSteps
    <2> QED BY <1>1, <2>2, <2>4, <2>5
  <1>4. ASSUME NEW kind \in {"recover", "checkpoint"}, StartHistory(p, kind)
        PROVE  Sound'
    <2> DEFINE c == [proc[p] EXCEPT !.step = "ready", !.kind = kind]
    <2>1. c.step = "ready" /\ c.kind = kind
      BY DEF Process
    <2>2. proc' = [proc EXCEPT ![p] = c]
      BY <1>4 DEF StartHistory
    <2> HIDE DEF c
    <2>3. ReliesOn(c, journal)
      BY <2>1 DEF ReliesOn, WritingSteps, PreparedSteps
    <2> QED BY <1>1, <1>4, <2>1, <2>2, <2>3 DEF StartHistory
  <1>5. CASE StartAdvance(p)
    <2> DEFINE c == [proc[p] EXCEPT !.step = "ready", !.kind = "advance",
                                    !.loaded = workspace,
                                    !.prepared = journal.pending]
    <2>1. c.step = "ready" /\ c.kind = "advance" /\ c.prepared = journal.pending
      BY DEF Process
    <2>2. proc' = [proc EXCEPT ![p] = c]
      BY <1>5 DEF StartAdvance
    <2> HIDE DEF c
    <2>3. ReliesOn(c, journal)
      BY <1>5, <2>1 DEF ReliesOn, WritingSteps, PreparedSteps, StartAdvance
    <2> QED BY <1>1, <1>5, <2>1, <2>2, <2>3 DEF StartAdvance
  <1>6. CASE StartPackRecovery(p)
    BY <1>6 DEF StartPackRecovery
  <1> QED BY <1>2, <1>3, <1>4, <1>5, <1>6 DEF StartCommand, StartRecover, StartCheckpoint

(* Taking the lock, checking the file and reading it keep Sound.           *)
LEMMA EnterSound ==
    ASSUME Sound, Typed', NEW p \in Proc,
           \/ Acquire(p) \/ AcquireFails(p) \/ Release(p)
           \/ CheckUnchanged(p) \/ ReadBefore(p) \/ Checkpoint(p)
    PROVE  Sound'
  <1> USE SoundFacts
  <1>1. CASE Acquire(p)
    <2> DEFINE next == FirstLockedStep(proc[p].kind)
               c == [proc[p] EXCEPT !.step = next]
    <2>1. proc[p].kind \in Kinds \ {"pack"} /\ At(p, "ready")
      BY <1>1 DEF Acquire, At, Process, LocalsTyped
    <2>2. /\ next \in {"check", "historyCheckpoint", "historyRecover", "advanceRecover"}
          /\ next = "check" => proc[p].kind \in {"write", "create"}
          /\ next = "advanceRecover" => proc[p].kind = "advance"
          /\ next = "historyCheckpoint" => proc[p].kind = "checkpoint"
      BY <2>1 DEF FirstLockedStep, Kinds
    <2> HIDE DEF next
    <2>3. /\ c.step = next /\ c.kind = proc[p].kind /\ c.request = proc[p].request
          /\ c.prepared = proc[p].prepared
      BY DEF Process
    <2>4. proc' = [proc EXCEPT ![p] = c]
      BY <1>1 DEF Acquire, GoTo, next
    <2> HIDE DEF c
    <2>5. next = "check" => RequestSound(c)
      BY <2>1, <2>2, <2>3 DEF ReliesOn, RequestSound, At, PreparedSteps
    <2>6. ReliesOn(c, journal)
      BY <2>1, <2>2, <2>3, <2>5 DEF ReliesOn, At, WritingSteps, PreparedSteps
    <2>7. UNCHANGED journal /\ lock \in {Free, Stale} /\ lock' = p
      BY <1>1 DEF Acquire
    <2>8. c.step \in LockedSteps
      BY <2>2, <2>3 DEF LockedSteps
    <2>9. c.step # "packTerminal" /\ JournalSound(journal') /\ ReliesOn(c, journal')
      BY <2>2, <2>3, <2>6, <2>7
    <2> QED BY <2>4, <2>7, <2>8, <2>9, MoveSound
  <1>2. CASE AcquireFails(p)
    BY <1>2, StopSound DEF AcquireFails, At, LockedSteps
  <1>3. CASE Release(p)
    BY <1>3, StopSound DEF Release, At, LockedSteps
  <1>4. ASSUME GoTo(p, "release"), UNCHANGED <<journal, lock>>,
               proc[p].step \in LockedSteps
        PROVE  Sound'
    BY <1>4, LeaveSound
  <1>5. CASE CheckUnchanged(p)
    <2> DEFINE next == IF proc[p].kind = "create" THEN "transact" ELSE "read"
               c == [proc[p] EXCEPT !.step = next]
    <2>1. At(p, "check") /\ UNCHANGED <<journal, lock>>
      BY <1>5 DEF CheckUnchanged
    <2>2. GoTo(p, "release") \/ proc' = [proc EXCEPT ![p] = c]
      BY <1>5 DEF CheckUnchanged, GoTo
    <2>3. /\ c.step = next /\ c.kind = proc[p].kind /\ c.request = proc[p].request
          /\ c.prepared = proc[p].prepared
      BY DEF Process
    <2>4. RequestSound(proc[p]) /\ proc[p].kind # "checkpoint"
      BY <2>1 DEF ReliesOn, At, WritingSteps
    <2>5. c.step \in LockedSteps /\ c.step # "packTerminal"
      BY <2>3 DEF LockedSteps
    <2> HIDE DEF c
    <2>6. RequestSound(c)
      BY <2>3, <2>4 DEF RequestSound, PreparedSteps
    <2>7. proc[p].kind \in {"write", "create"}
      BY <2>4 DEF RequestSound
    <2>8. ReliesOn(c, journal)
      BY <2>3, <2>6, <2>7 DEF ReliesOn, WritingSteps, PreparedSteps
    <2>9. proc[p].step \in LockedSteps
      BY <2>1 DEF At, LockedSteps
    <2>10. CASE proc' = [proc EXCEPT ![p] = c]
      BY <2>1, <2>5, <2>8, <2>9, <2>10, MoveSound
    <2> QED BY <1>4, <2>1, <2>2, <2>9, <2>10
  <1>6. CASE ReadBefore(p)
    <2> DEFINE q == [proc[p].request EXCEPT !.before = workspace]
               c == [proc[p] EXCEPT !.step = "transact", !.request = q]
    <2>1. At(p, "read") /\ UNCHANGED <<journal, lock>>
      BY <1>6 DEF ReadBefore
    <2>2. proc[p].request \in Request
      BY <2>1 DEF At, LocalsTyped, WritingSteps
    <2>3. \/ GoTo(p, "release")
          \/ workspace # NoData /\ proc' = [proc EXCEPT ![p] = c]
      BY <1>6 DEF ReadBefore, Process
    <2>4. RequestSound(proc[p]) /\ proc[p].kind = "write"
      BY <2>1 DEF ReliesOn, At, WritingSteps
    <2>5. /\ q.before = workspace /\ q.event = proc[p].request.event
          /\ q.coverage = proc[p].request.coverage
      BY <2>2 DEF Request
    <2> HIDE DEF q
    <2>6. c.step = "transact" /\ c.kind = "write" /\ c.request = q
      BY <2>4 DEF Process
    <2> HIDE DEF c
    <2>7. workspace # NoData => RequestSound(c)
      BY <2>4, <2>5, <2>6 DEF RequestSound
    <2>8. workspace # NoData => ReliesOn(c, journal)
      BY <2>6, <2>7 DEF ReliesOn, WritingSteps, PreparedSteps
    <2>9. /\ proc[p].step \in LockedSteps /\ c.step \in LockedSteps
          /\ c.step # "packTerminal"
      BY <2>1, <2>6 DEF At, LockedSteps
    <2>10. CASE workspace # NoData /\ proc' = [proc EXCEPT ![p] = c]
      BY <2>1, <2>8, <2>9, <2>10, MoveSound
    <2> QED BY <1>4, <2>1, <2>3, <2>9, <2>10
  <1>7. CASE Checkpoint(p)
    <2>1. /\ At(p, "historyCheckpoint") /\ UNCHANGED <<journal, lock>>
          /\ proc[p].step \in LockedSteps
      BY <1>7 DEF Checkpoint, At, LockedSteps
    <2>2. CASE BreakToRecord(journal, workspace)
      <3>1. PICK meta \in Meta \ (Guarded \cup Advance) :
               proc' = [proc EXCEPT ![p].step = "transact",
                          ![p].request = [before |-> workspace,
                                          after |-> workspace, meta |-> meta,
                                          event |-> "checkpoint",
                                          coverage |-> "continuity-break"]]
        BY <1>7, <2>2 DEF Checkpoint
      <3> DEFINE q == [before |-> workspace, after |-> workspace, meta |-> meta,
                       event |-> "checkpoint", coverage |-> "continuity-break"]
                 c == [proc[p] EXCEPT !.step = "transact", !.request = q]
      <3>2. proc' = [proc EXCEPT ![p] = c]
        BY <3>1
      <3>3. /\ q.before = workspace /\ q.after = workspace /\ q.event = "checkpoint"
            /\ q.coverage = "continuity-break" /\ q.meta \notin Abortable
        BY <3>1 DEF Abortable
      <3> HIDE DEF q
      <3>4. c.step = "transact" /\ c.kind = proc[p].kind /\ c.request = q
        BY DEF Process
      <3> HIDE DEF c
      <3>5. c.kind = "checkpoint"
        BY <2>1, <3>4 DEF ReliesOn, At
      <3>6. RequestSound(c)
        BY <3>3, <3>4, <3>5 DEF RequestSound
      <3>7. ReliesOn(c, journal)
        BY <2>2, <3>3, <3>4, <3>5, <3>6
           DEF ReliesOn, WritingSteps, PreparedSteps, BreakToRecord
      <3>8. c.step \in LockedSteps /\ c.step # "packTerminal"
        BY <3>4 DEF LockedSteps
      <3> QED BY <2>1, <3>2, <3>7, <3>8, MoveSound
    <2> QED BY <1>4, <1>7, <2>1, <2>2 DEF Checkpoint
  <1> QED BY <1>1, <1>2, <1>3, <1>5, <1>6, <1>7

(* What transact decides fits the journal it has scanned.                  *)
LEMMA TransactSound ==
    ASSUME Sound, Typed', NEW p \in Proc, Transact(p)
    PROVE  Sound'
  <1> USE SoundFacts
  <1> DEFINE q == proc[p].request
             out == CommitRecord(journal.pending, journal.count, journal.head)
             d == [proc[p] EXCEPT !.step = "recover", !.prepared = journal.pending,
                                  !.out = out]
             e(step, r) == [proc[p] EXCEPT !.step = step, !.prepared = r,
                                           !.count = journal.count]
  <1>1. /\ At(p, "transact") /\ UNCHANGED <<journal, lock>>
        /\ proc[p].step \in LockedSteps
    BY DEF Transact, At, LockedSteps
  <1>2. /\ RequestSound(proc[p]) /\ q \in Request
        /\ proc[p].kind = "checkpoint" =>
               journal.pending = NoRecord /\ q.before # journal.replay
    BY <1>1 DEF ReliesOn, LocalsTyped, At, WritingSteps
  <1>3. Readable(journal) => journal.damage = "none"
    BY DEF Readable
  <1>4. \/ Readable(journal) /\ MustCommitPending(journal, q.before)
              /\ proc' = [proc EXCEPT ![p] = d]
        \/ Readable(journal) /\ CanResume(journal, q)
              /\ proc' = [proc EXCEPT ![p] = e("prewrite", journal.pending)]
        \/ Readable(journal) /\ CanPrepare(journal, q)
              /\ proc' = [proc EXCEPT ![p] = e("prepare", Prepared(journal, q))]
        \/ GoTo(p, "release")
    BY DEF Transact
  <1>5. /\ d.step = "recover" /\ d.kind = proc[p].kind /\ d.request = q
        /\ d.prepared = journal.pending /\ d.out = out
    BY DEF Process
  <1>6. ASSUME NEW step, NEW r
        PROVE  /\ e(step, r).step = step /\ e(step, r).kind = proc[p].kind
               /\ e(step, r).request = q /\ e(step, r).prepared = r
               /\ e(step, r).count = journal.count
    BY DEF Process
  <1> HIDE DEF d, e
  <1>7. ASSUME NEW c, proc' = [proc EXCEPT ![p] = c], ReliesOn(c, journal),
               c.step \in {"recover", "prepare", "prewrite"}
        PROVE  Sound'
    BY <1>1, <1>7, MoveSound DEF LockedSteps
  <1>8. ASSUME NEW c, c.kind = proc[p].kind, c.request = q,
               c.step \in PreparedSteps
        PROVE  RequestSound(c)
    BY <1>1, <1>2, <1>8 DEF RequestSound, At
  <1>9. CASE /\ Readable(journal) /\ MustCommitPending(journal, q.before)
             /\ proc' = [proc EXCEPT ![p] = d]
    <2>1. /\ journal.pending # NoRecord /\ proc[p].kind # "checkpoint"
          /\ q.before = journal.pending.after
      BY <1>2, <1>9 DEF MustCommitPending
    <2>2. RequestSound(d)
      BY <1>5, <1>8 DEF PreparedSteps
    <2>3. ReliesOn(d, journal)
      BY <1>3, <1>5, <1>9, <2>1, <2>2 DEF ReliesOn, WritingSteps, PreparedSteps
    <2> QED BY <1>5, <1>7, <1>9, <2>3
  <1>10. CASE /\ Readable(journal) /\ CanResume(journal, q)
              /\ proc' = [proc EXCEPT ![p] = e("prewrite", journal.pending)]
    <2> DEFINE c == e("prewrite", journal.pending)
    <2>1. /\ journal.pending \in Prepare /\ journal.pending # NoRecord
          /\ journal.pending.before = q.before
          /\ TxOf(Prepared(journal, q)) = TxOf(journal.pending)
      BY <1>10 DEF CanResume, JournalState
    <2>2. /\ journal.pending.after = q.after /\ journal.pending.meta = q.meta
          /\ journal.pending.coverage = q.coverage
      BY <2>1 DEF TxOf, Prepared
    <2>3. /\ c.step = "prewrite" /\ c.kind = proc[p].kind /\ c.request = q
          /\ c.prepared = journal.pending /\ c.count = journal.count
      BY <1>6
    <2> HIDE DEF c
    <2>4. RequestSound(c)
      BY <1>8, <2>3 DEF PreparedSteps
    <2>5. ReliesOn(c, journal)
      BY <1>2, <1>3, <1>10, <2>1, <2>2, <2>3, <2>4
         DEF ReliesOn, WritingSteps, PreparedSteps
    <2> QED BY <1>7, <1>10, <2>3, <2>5 DEF c
  <1>11. CASE /\ Readable(journal) /\ CanPrepare(journal, q)
              /\ proc' = [proc EXCEPT ![p] = e("prepare", Prepared(journal, q))]
    <2> DEFINE c == e("prepare", Prepared(journal, q))
    <2>1. /\ c.step = "prepare" /\ c.kind = proc[p].kind /\ c.request = q
          /\ c.prepared = Prepared(journal, q) /\ c.count = journal.count
      BY <1>6
    <2> HIDE DEF c
    <2>2. RequestSound(c)
      BY <1>8, <2>1 DEF PreparedSteps
    <2>3. ReliesOn(c, journal)
      BY <1>2, <1>3, <1>11, <2>1, <2>2 DEF ReliesOn, WritingSteps, PreparedSteps
    <2> QED BY <1>7, <1>11, <2>1, <2>3 DEF c
  <1>12. CASE GoTo(p, "release")
    BY <1>1, <1>12, LeaveSound
  <1> QED BY <1>4, <1>9, <1>10, <1>11, <1>12

(* The record a command is about to append keeps the journal sound.        *)
LEMMA AppendingSound ==
    ASSUME Sound, NEW p \in Proc,
           proc[p].step \in {"prepare", "abort", "commit", "recover", "terminal"}
    PROVE  JournalSound(Scanned(journal, Appending(p)))
  <1> USE SoundFacts
  <1>1. CASE At(p, "prepare")
    <2>1. /\ journal.damage = "none" /\ CanPrepare(journal, proc[p].request)
          /\ proc[p].prepared = Prepared(journal, proc[p].request)
          /\ proc[p].request \in Request /\ RequestSound(proc[p])
          /\ proc[p].kind = "checkpoint" => proc[p].request.before # journal.replay
      BY <1>1 DEF At, ReliesOn, LocalsTyped, WritingSteps, PreparedSteps
    <2>2. Appending(p) = proc[p].prepared
      BY <1>1 DEF Appending, At
    <2>3. ASSUME NEW r, r = proc[p].prepared, NEW t, t = Scanned(journal, r)
          PROVE  JournalSound(t)
      BY <2>1, <2>3, PrepareAppended
    <2> QED BY <2>2, <2>3
  <1>2. CASE proc[p].step \in {"abort", "commit"}
    <2>1. /\ journal.damage = "none" /\ journal.pending = proc[p].prepared
          /\ proc[p].prepared \in Prepare /\ proc[p].count = journal.count
      BY <1>2 DEF ReliesOn, LocalsTyped, PreparedSteps
    <2>2. journal.pending # NoRecord
      BY <2>1, NoRecordAssumption
    <2>3. RecordDigest(proc[p].prepared) = journal.head
      BY <2>1, <2>2 DEF RecordDigest, JournalSound, PendingSound
    <2>4. CASE At(p, "commit")
      <3>1. Appending(p) = CommitRecord(journal.pending, journal.count, journal.head)
        BY <2>1, <2>3, <2>4 DEF Appending, At
      <3> QED BY <2>1, <2>2, <3>1, CommitAppended
    <2>5. CASE At(p, "abort")
      <3>1. Appending(p) = AbortRecord(journal.pending, journal.count, journal.head)
        BY <2>1, <2>3, <2>5 DEF Appending, At
      <3>2. journal.pending.meta \in Abortable
        BY <2>1, <2>5 DEF ReliesOn, At, Abortable
      <3> QED BY <2>1, <2>2, <3>1, <3>2, AbortAppended
    <2> QED BY <1>2, <2>4, <2>5 DEF At
  <1>3. CASE proc[p].step \in {"recover", "terminal"}
    <2>1. journal.damage = "none" /\ journal.pending # NoRecord
      BY <1>3 DEF ReliesOn, PreparedSteps
    <2>2. Appending(p) = proc[p].out
      BY <1>3 DEF Appending, At
    <2>3. CASE proc[p].out = CommitRecord(journal.pending, journal.count, journal.head)
      BY <2>1, <2>2, <2>3, CommitAppended
    <2>4. CASE /\ proc[p].out = AbortRecord(journal.pending, journal.count, journal.head)
               /\ journal.pending.meta \in Advance
      BY <2>1, <2>2, <2>4, AbortAppended DEF Abortable
    <2> QED BY <1>3, <2>3, <2>4 DEF ReliesOn
  <1> QED BY <1>1, <1>2, <1>3 DEF At

(* Appending a record keeps Sound.                                         *)
LEMMA AppendSound ==
    ASSUME Sound, Typed', NEW p \in Proc,
           \/ CommitPending(p) \/ AppendPrepare(p) \/ AppendAbort(p)
           \/ AppendCommit(p) \/ AppendTerminal(p)
    PROVE  Sound'
  <1> USE SoundFacts
  <1>1. CASE AppendAbort(p) \/ AppendCommit(p) \/ AppendTerminal(p)
    <2>1. /\ journal' = Scanned(journal, Appending(p)) /\ lock' = lock
          /\ GoTo(p, "release")
          /\ proc[p].step \in {"abort", "commit", "terminal"}
      BY <1>1 DEF AppendAbort, AppendCommit, AppendTerminal, At, Appending
    <2>2. JournalSound(journal')
      BY <2>1, AppendingSound
    <2> QED BY <2>1, <2>2, LeaveSound DEF LockedSteps
  <1>2. CASE CommitPending(p)
    <2> DEFINE next == IF Repeats(proc[p].prepared, proc[p].request)
                       THEN "release" ELSE "transact"
               c == [proc[p] EXCEPT !.step = next]
    <2>1. /\ At(p, "recover") /\ journal' = Scanned(journal, Appending(p))
          /\ lock' = lock /\ proc' = [proc EXCEPT ![p] = c]
      BY <1>2 DEF CommitPending, Appending, At
    <2>2. JournalSound(journal')
      BY <2>1, AppendingSound DEF At
    <2>3. RequestSound(proc[p]) /\ proc[p].kind # "checkpoint"
      BY <2>1 DEF At, ReliesOn, WritingSteps, PreparedSteps
    <2>4. /\ c.step = next /\ c.kind = proc[p].kind /\ c.request = proc[p].request
          /\ c.step \in {"release", "transact"}
      BY DEF Process
    <2> HIDE DEF next, c
    <2>5. RequestSound(c)
      BY <2>1, <2>3, <2>4 DEF RequestSound, PreparedSteps, At
    <2>6. ReliesOn(c, journal')
      BY <2>3, <2>4, <2>5 DEF ReliesOn, WritingSteps, PreparedSteps
    <2>7. proc[p].step \in LockedSteps /\ c.step \in LockedSteps /\ c.step # "packTerminal"
      BY <2>1, <2>4 DEF At, LockedSteps
    <2> QED BY <2>1, <2>2, <2>6, <2>7, MoveSound
  <1>3. CASE AppendPrepare(p)
    <2> DEFINE c == [proc[p] EXCEPT !.step = "prewrite", !.count = proc[p].count + 1]
    <2>1. /\ At(p, "prepare") /\ journal' = Scanned(journal, proc[p].prepared)
          /\ lock' = lock /\ proc' = [proc EXCEPT ![p] = c]
      BY <1>3 DEF AppendPrepare
    <2>2. /\ journal.damage = "none" /\ CanPrepare(journal, proc[p].request)
          /\ proc[p].prepared = Prepared(journal, proc[p].request)
          /\ proc[p].request \in Request /\ RequestSound(proc[p])
          /\ proc[p].kind = "checkpoint" => proc[p].request.before # journal.replay
          /\ proc[p].count = journal.count
      BY <2>1 DEF At, ReliesOn, LocalsTyped, WritingSteps, PreparedSteps
    <2>3. ASSUME NEW r, r = proc[p].prepared, NEW t, t = Scanned(journal, r)
          PROVE  /\ JournalSound(t)
                 /\ t.damage = "none" /\ t.pending = r
                 /\ t.count = journal.count + 1
                 /\ r.before = proc[p].request.before
                 /\ r.after = proc[p].request.after
                 /\ r.meta = proc[p].request.meta
                 /\ r.coverage = proc[p].request.coverage
      BY <2>2, <2>3, PrepareAppended
    <2>4. /\ journal'.pending = proc[p].prepared
          /\ journal'.count = journal.count + 1
          /\ journal'.damage = "none"
      BY <2>1, <2>3
    <2>5. /\ c.step = "prewrite" /\ c.kind = proc[p].kind
          /\ c.request = proc[p].request /\ c.prepared = proc[p].prepared
          /\ c.count = proc[p].count + 1
      BY DEF Process
    <2> HIDE DEF c
    <2>6. RequestSound(c)
      BY <2>1, <2>2, <2>5 DEF RequestSound, PreparedSteps, At
    <2>7. ReliesOn(c, journal')
      BY <2>1, <2>2, <2>3, <2>4, <2>5, <2>6 DEF ReliesOn, WritingSteps, PreparedSteps
    <2>8. proc[p].step \in LockedSteps /\ c.step \in LockedSteps /\ c.step # "packTerminal"
      BY <2>1, <2>5 DEF At, LockedSteps
    <2>9. JournalSound(journal')
      BY <2>1, <2>3
    <2> QED BY <2>1, <2>7, <2>8, <2>9, MoveSound
  <1> QED BY <1>1, <1>2, <1>3

(* The prewrite check, the replacement and the decisions of the recoveries *)
(* keep Sound.                                                             *)
LEMMA DecideSound ==
    ASSUME Sound, Typed', NEW p \in Proc,
           \/ PrewriteRejects(p) \/ PrewritePasses(p) \/ Apply(p)
           \/ HistoryRecover(p) \/ AdvanceRecover(p)
    PROVE  Sound'
  <1> USE SoundFacts
  <1>1. ASSUME GoTo(p, "release"), UNCHANGED <<journal, lock>>,
               proc[p].step \in LockedSteps
        PROVE  Sound'
    BY <1>1, LeaveSound
  <1>2. ASSUME NEW step \in {"abort", "apply", "commit"}, GoTo(p, step),
               UNCHANGED <<journal, lock>>, proc[p].step \in {"prewrite", "apply"},
               step = "abort" => proc[p].request.meta \in Guarded
        PROVE  Sound'
    <2> DEFINE c == [proc[p] EXCEPT !.step = step]
    <2>1. proc' = [proc EXCEPT ![p] = c]
      BY <1>2 DEF GoTo
    <2>2. /\ c.step = step /\ c.kind = proc[p].kind /\ c.request = proc[p].request
          /\ c.prepared = proc[p].prepared /\ c.count = proc[p].count
      BY DEF Process
    <2> HIDE DEF c
    <2>3. RequestSound(c)
      BY <1>2, <2>2 DEF RequestSound, ReliesOn, WritingSteps, PreparedSteps
    <2>4. ReliesOn(c, journal)
      BY <1>2, <2>2, <2>3 DEF ReliesOn, WritingSteps, PreparedSteps
    <2>5. proc[p].step \in LockedSteps /\ c.step \in LockedSteps /\ c.step # "packTerminal"
      BY <1>2, <2>2 DEF LockedSteps
    <2> QED BY <1>2, <2>1, <2>4, <2>5, MoveSound
  <1>3. CASE PrewriteRejects(p)
    BY <1>1, <1>2, <1>3 DEF PrewriteRejects, At, LockedSteps
  <1>4. CASE PrewritePasses(p) \/ Apply(p)
    BY <1>2, <1>4 DEF PrewritePasses, Apply, At
  <1>5. ASSUME NEW out, proc' = [proc EXCEPT ![p].step = "terminal", ![p].out = out],
               UNCHANGED <<journal, lock>>, proc[p].step \in LockedSteps,
               journal.damage = "none", journal.pending # NoRecord,
               \/ out = CommitRecord(journal.pending, journal.count, journal.head)
               \/ /\ out = AbortRecord(journal.pending, journal.count, journal.head)
                  /\ journal.pending.meta \in Advance
        PROVE  Sound'
    <2> DEFINE c == [proc[p] EXCEPT !.step = "terminal", !.out = out]
    <2>1. proc' = [proc EXCEPT ![p] = c]
      BY <1>5
    <2>2. c.step = "terminal" /\ c.out = out
      BY DEF Process
    <2> HIDE DEF c
    <2>3. ReliesOn(c, journal)
      BY <1>5, <2>2 DEF ReliesOn, WritingSteps, PreparedSteps
    <2>4. c.step \in LockedSteps /\ c.step # "packTerminal"
      BY <2>2 DEF LockedSteps
    <2> QED BY <1>5, <2>1, <2>3, <2>4, MoveSound
  <1>6. CASE HistoryRecover(p)
    <2>1. UNCHANGED <<journal, lock>> /\ proc[p].step \in LockedSteps
      BY <1>6 DEF HistoryRecover, At, LockedSteps
    <2>2. CASE Readable(journal) /\ MustCommitPending(journal, workspace)
      BY <1>5, <1>6, <2>1, <2>2 DEF HistoryRecover, Readable, MustCommitPending
    <2> QED BY <1>1, <1>6, <2>1, <2>2 DEF HistoryRecover
  <1>7. CASE AdvanceRecover(p)
    <2>1. /\ UNCHANGED <<journal, lock>> /\ proc[p].step \in LockedSteps
          /\ At(p, "advanceRecover")
      BY <1>7 DEF AdvanceRecover, At, LockedSteps
    <2>2. CASE /\ Readable(journal)
               /\ journal.pending = proc[p].prepared
               /\ workspace = proc[p].loaded
      <3>1. /\ journal.pending \in Prepare /\ journal.pending.meta \in Advance
            /\ journal.damage = "none"
        BY <2>1, <2>2 DEF LocalsTyped, ReliesOn, At, Readable
      <3>2. journal.pending # NoRecord
        BY <3>1, NoRecordAssumption
      <3> QED BY <1>5, <1>7, <2>1, <2>2, <3>1, <3>2 DEF AdvanceRecover, AdvanceTerminal
    <2> QED BY <1>1, <1>7, <2>1, <2>2 DEF AdvanceRecover
  <1> QED BY <1>3, <1>4, <1>6, <1>7

(* So does every failure.                                                  *)
LEMMA FailureSound ==
    ASSUME Sound, Typed', NEW p \in Proc, Failure(p)
    PROVE  Sound'
  <1> USE SoundFacts
  <1>1. CASE AppendFails(p)
    <2>1. /\ GoTo(p, "release") /\ lock' = lock
          /\ journal' \in Interrupted(journal, Appending(p))
          /\ proc[p].step \in {"prepare", "abort", "commit", "recover", "terminal"}
      BY <1>1 DEF AppendFails
    <2>2. JournalSound(journal')
      BY <2>1, AppendingSound, InterruptedSound
    <2> QED BY <2>1, <2>2, LeaveSound DEF LockedSteps
  <1>2. CASE PackAppendFails(p)
    BY <1>2 DEF PackAppendFails, At, Sound, LockHeld
  <1>3. CASE ApplyFails(p)
    BY <1>3, LeaveSound DEF ApplyFails, At, LockedSteps
  <1>4. CASE Crash(p)
    <2>1. proc[p].step \in LockedSteps <=> lock = p
      BY DEF Sound, LockHeld
    <2> QED BY <1>4, <2>1, StopSound DEF Crash
  <1> QED BY <1>1, <1>2, <1>3, <1>4 DEF Failure

(* Sound is inductive.                                                     *)
LEMMA SoundStep ==
    ASSUME PackRecoverers = {}
    PROVE  Sound /\ [StoreNext]_storeVars => Sound'
  <1> SUFFICES ASSUME Sound, [StoreNext]_storeVars PROVE Sound'
    OBVIOUS
  <1>1. Typed'
    BY TypedStep DEF Sound
  <1>2. ASSUME NEW p \in Proc, StartCommand(p) \/ Step(p) \/ Failure(p)
        PROVE  Sound'
    <2>1. CASE StartCommand(p)
      BY <1>1, <2>1, StartSound
    <2>2. CASE Step(p)
      <3>1. ~AppendPackTerminal(p)
        BY DEF AppendPackTerminal, At, Sound, LockHeld
      <3> QED BY <1>1, <2>2, <3>1, EnterSound, TransactSound, AppendSound, DecideSound
              DEF Step
    <2>3. CASE Failure(p)
      BY <1>1, <2>3, FailureSound
    <2> QED BY <1>2, <2>1, <2>2, <2>3
  <1>3. CASE Edit
    BY <1>1, <1>3 DEF Edit, Sound, LockHeld
  <1>4. CASE UNCHANGED storeVars
    BY <1>1, <1>4 DEF storeVars, Sound, LockHeld
  <1> QED BY <1>2, <1>3, <1>4 DEF StoreNext

(* The invariant holds where the system starts.                            *)
LEMMA SoundInit == StoreInit => Sound
  <1> SUFFICES ASSUME StoreInit PROVE Sound
    OBVIOUS
  <1>1. \A p \in Proc : proc[p].step = "idle"
    BY DEF StoreInit, Idle
  <1>2. LockHeld
    BY <1>1, StoreAssumption DEF StoreInit, LockHeld, LockedSteps
  <1>3. JournalSound(journal)
    BY DEF StoreInit, EmptyState, JournalSound
  <1>4. \A p \in Proc : ReliesOn(proc[p], journal)
    BY <1>1 DEF ReliesOn, WritingSteps, PreparedSteps
  <1> QED BY <1>2, <1>3, <1>4, TypedInit DEF Sound

(* Whatever stops where, the journal that commands under the writer lock   *)
(* write is one that every later command can read.                         *)
THEOREM HistoryStaysReadable ==
    ASSUME PackRecoverers = {}
    PROVE  StoreSpec => []JournalReadsBack
  <1>1. Sound => JournalReadsBack
    BY DEF Sound, JournalSound, JournalReadsBack, Readable, Typed, TypeOK, JournalState
  <1> QED BY <1>1, SoundInit, SoundStep, PTL DEF StoreSpec

(* workspace.json is only ever replaced by the content of the transaction  *)
(* pending in a readable journal, if every recovery takes the writer lock: *)
(* apply_pack_decision's, which does not, can close the transaction of a   *)
(* writer that is about to replace the file.                               *)
THEOREM WritesAreAnnounced ==
    ASSUME PackRecoverers = {}
    PROVE  StoreSpec => WriteAhead
  <1> DEFINE Announced ==
               workspace' # workspace /\ edits' = edits =>
                  /\ Readable(journal)
                  /\ journal.pending # NoRecord
                  /\ workspace' = journal.pending.after
  <1>1. Sound /\ [StoreNext]_storeVars => [Announced]_storeVars
    <2> SUFFICES ASSUME Sound, StoreNext, workspace' # workspace, edits' = edits
                 PROVE  /\ Readable(journal)
                        /\ journal.pending # NoRecord
                        /\ workspace' = journal.pending.after
      OBVIOUS
    <2>1. ~Edit
      BY DEF Edit, Sound, Typed, TypeOK
    <2>2. PICK p \in Proc : Apply(p)
      BY <2>1 DEF StoreNext, StartCommand, Step, Failure, Load, Create, Begin,
           StartCheckpoint, StartRecover, StartHistory, StartAdvance,
           StartPackRecovery, Acquire, AcquireFails, Release, CheckUnchanged,
           ReadBefore, Checkpoint, Transact, CommitPending, PrewriteRejects,
           AppendPrepare, PrewritePasses, AppendAbort, AppendCommit,
           HistoryRecover, AdvanceRecover, AppendTerminal, AppendPackTerminal,
           AppendFails, PackAppendFails, ApplyFails, Crash
    <2>3. /\ journal.pending = proc[p].prepared
          /\ proc[p].prepared \in Prepare
          /\ proc[p].prepared.after = proc[p].request.after
          /\ journal.damage = "none"
      BY <2>2, SoundFacts DEF Apply, At, ReliesOn, LocalsTyped, PreparedSteps
    <2>4. journal.pending # NoRecord
      BY <2>3, NoRecordAssumption
    <2>5. Readable(journal)
      BY <2>3, <2>4, SoundFacts DEF Readable, JournalSound, JournalState
    <2> QED BY <2>2, <2>3, <2>4, <2>5 DEF Apply
  <1> QED BY <1>1, SoundInit, SoundStep, PTL DEF StoreSpec, WriteAhead
=============================================================================
