-------------------------- MODULE WorkspaceStore --------------------------
(***************************************************************************)
(* Commands that change workspace.json: write_store (store.py) around      *)
(* transact (governance_journal.py), and the three ways a pending          *)
(* transaction is recovered (`history --recover`, `agent advance`, and the *)
(* approval pack path of approval_packs.py).  Each command is a process;   *)
(* an action is the code between two points where another process, a crash *)
(* or a hand edit of workspace.json can come between.                      *)
(*                                                                         *)
(* The writer lock is the one WorkspaceLock implements when no two         *)
(* processes reclaim it at once: lock is the process whose pid and token   *)
(* are in the file, Free when there is no file, Stale when that process is *)
(* dead.                                                                   *)
(***************************************************************************)
EXTENDS GovernanceJournal

CONSTANTS
    Proc,              \* processes that run Palari commands
    Free, Stale,       \* no lock file; a lock file naming a dead process
    Guarded,           \* identities of approvals, written with a prewrite_check
    Advance,           \* identities of agent-advance proof transactions
    PackRecoverers,    \* processes that may take the approval pack recovery path
    EditDuringWrite,   \* whether a hand edit may fall inside a write section
    MaxRecords,        \* bound: no command starts on a longer journal
    MaxFaults,         \* bound on crashes and failed system calls
    MaxEdits           \* bound on hand edits

ASSUME StoreAssumption ==
    /\ Free \notin Proc /\ Stale \notin Proc /\ Free # Stale
    /\ Guarded \subseteq Meta /\ Advance \subseteq Meta
    /\ PackRecoverers \subseteq Proc
    /\ EditDuringWrite \in BOOLEAN
    /\ MaxRecords \in Nat /\ MaxFaults \in Nat /\ MaxEdits \in Nat

VARIABLES
    workspace,   \* content of workspace.json, NoData when it does not exist
    journal,     \* scan state of the journal file
    lock,        \* .palari/locks/workspace.json.lock
    proc,        \* what each process is doing, and its local variables
    faults, edits

storeVars == <<workspace, journal, lock, proc, faults, edits>>

-----------------------------------------------------------------------------
(* Processes *)

(* Program points inside `with workspace_write_lock` or between the        *)
(* acquire and the release of write_store.                                 *)
LockedSteps ==
    {"check", "read", "transact", "recover", "prepare", "prewrite", "abort",
     "apply", "commit", "historyRecover", "historyCheckpoint",
     "advanceRecover", "terminal", "release"}

Steps == {"idle", "ready", "packTerminal"} \cup LockedSteps

Kinds == {"write", "create", "checkpoint", "recover", "advance", "pack"}

Process ==
    [step: Steps, kind: Kinds,
     loaded: Digest,                   \* loaded_hash of the store
     request: Request \cup {NoRecord}, \* arguments of transact
     prepared: Prepare \cup {NoRecord},
     count: Nat,                       \* state.record_count of transact
     out: Terminal \cup {NoRecord}]    \* the terminal record of a recovery

Idle ==
    [step |-> "idle", kind |-> "write", loaded |-> NoData,
     request |-> NoRecord, prepared |-> NoRecord, count |-> 0,
     out |-> NoRecord]

At(p, step) == proc[p].step = step
GoTo(p, step) == proc' = [proc EXCEPT ![p].step = step]
Stop(p) == proc' = [proc EXCEPT ![p] = Idle]

StoreInit ==
    /\ workspace = NoData
    /\ journal = EmptyState
    /\ lock = Free
    /\ proc = [p \in Proc |-> Idle]
    /\ faults = 0
    /\ edits = 0

-----------------------------------------------------------------------------
(* Starting a command *)

Begin(p, kind, loaded, request) ==
    /\ At(p, "idle")
    /\ journal.count < MaxRecords
    /\ proc' = [proc EXCEPT ![p] = [Idle EXCEPT !.step = "ready", !.kind = kind,
                                                !.loaded = loaded,
                                                !.request = request]]
    /\ UNCHANGED <<workspace, journal, lock, faults, edits>>

(* load_store, then the command computes the data it wants written.  Any   *)
(* command may be started, so one that crashed may also be tried again.    *)
Load(p) ==
    /\ workspace # NoData
    /\ \E after \in Data, meta \in Meta :
          Begin(p, "write", workspace,
                [before |-> NoData, after |-> after, meta |-> meta,
                 event |-> "mutation", coverage |-> "continuous"])

(* The first write of a new workspace: no store was loaded, and neither a  *)
(* prewrite_check nor agent advance is involved.                           *)
Create(p) ==
    \E after \in Data, meta \in Meta \ (Guarded \cup Advance) :
        Begin(p, "create", NoData,
              [before |-> NoData, after |-> after, meta |-> meta,
               event |-> "checkpoint", coverage |-> "complete"])

(* `history --recover` and `history --checkpoint --acknowledge-break`.     *)
(* They write only what a fault or an edit left to repair, so MaxRecords   *)
(* does not limit them.                                                    *)
StartHistory(p, kind) ==
    /\ At(p, "idle")
    /\ proc' = [proc EXCEPT ![p].step = "ready", ![p].kind = kind]
    /\ UNCHANGED <<workspace, journal, lock, faults, edits>>

StartRecover(p) == StartHistory(p, "recover")
StartCheckpoint(p) == StartHistory(p, "checkpoint")

(* `agent advance` finds its own transaction pending and remembers the     *)
(* exact state it verified; everything up to the lock runs without it.     *)
StartAdvance(p) ==
    /\ At(p, "idle")
    /\ Readable(journal)
    /\ journal.pending # NoRecord
    /\ journal.pending.meta \in Advance
    /\ Position(journal, workspace) # "diverged"
    /\ proc' = [proc EXCEPT ![p].step = "ready", ![p].kind = "advance",
                            ![p].loaded = workspace,
                            ![p].prepared = journal.pending]
    /\ UNCHANGED <<workspace, journal, lock, faults, edits>>

(* apply_pack_decision finds a transaction pending whose workspace is not  *)
(* at "before" and calls recover_pending, without the writer lock.  Past   *)
(* the diverged case, which raises, the record to append is the commit.    *)
StartPackRecovery(p) ==
    /\ p \in PackRecoverers
    /\ At(p, "idle")
    /\ workspace # NoData
    /\ Readable(journal)
    /\ journal.pending # NoRecord
    /\ Position(journal, workspace) # "before"
    /\ MustCommitPending(journal, workspace)
    /\ proc' = [proc EXCEPT ![p].step = "packTerminal", ![p].kind = "pack",
                            ![p].out = CommitRecord(journal.pending,
                                                    journal.count, journal.head)]
    /\ UNCHANGED <<workspace, journal, lock, faults, edits>>

-----------------------------------------------------------------------------
(* The writer lock *)

FirstLockedStep(kind) ==
    CASE kind \in {"write", "create"} -> "check"
      [] kind = "checkpoint" -> "historyCheckpoint"
      [] kind = "recover" -> "historyRecover"
      [] kind = "advance" -> "advanceRecover"

Acquire(p) ==
    /\ At(p, "ready")
    /\ lock \in {Free, Stale}
    /\ lock' = p
    /\ GoTo(p, FirstLockedStep(proc[p].kind))
    /\ UNCHANGED <<workspace, journal, faults, edits>>

(* "workspace write is already in progress; retry shortly" *)
AcquireFails(p) ==
    /\ At(p, "ready")
    /\ lock \notin {Free, Stale}
    /\ Stop(p)
    /\ UNCHANGED <<workspace, journal, lock, faults, edits>>

Release(p) ==
    /\ At(p, "release")
    /\ lock' = Free
    /\ Stop(p)
    /\ UNCHANGED <<workspace, journal, faults, edits>>

-----------------------------------------------------------------------------
(* write_store up to transact *)

(* Faulty: trusts what was loaded before the lock was taken.               *)
CheckNothing(p) ==
    /\ At(p, "check")
    /\ GoTo(p, IF proc[p].kind = "create" THEN "transact" ELSE "read")
    /\ UNCHANGED <<workspace, journal, lock, faults, edits>>

(* Faulty: raises before the try whose finally releases the lock.          *)
CheckOutsideTry(p) ==
    /\ At(p, "check")
    /\ IF workspace # proc[p].loaded THEN Stop(p)
       ELSE GoTo(p, IF proc[p].kind = "create" THEN "transact" ELSE "read")
    /\ UNCHANGED <<workspace, journal, lock, faults, edits>>

(* _assert_workspace_file_unchanged; loaded is NoData for a create, which  *)
(* then passes no before_data on.                                          *)
CheckUnchanged(p) ==
    /\ At(p, "check")
    /\ IF workspace # proc[p].loaded THEN GoTo(p, "release")
       ELSE IF proc[p].kind = "create" THEN GoTo(p, "transact")
       ELSE GoTo(p, "read")
    /\ UNCHANGED <<workspace, journal, lock, faults, edits>>

(* before_data is read from the file a second time.                        *)
ReadBefore(p) ==
    /\ At(p, "read")
    /\ IF workspace = NoData THEN GoTo(p, "release")
       ELSE proc' = [proc EXCEPT ![p].step = "transact",
                                 ![p].request.before = workspace]
    /\ UNCHANGED <<workspace, journal, lock, faults, edits>>

(* _checkpoint_workspace_journal with the break acknowledged.              *)
Checkpoint(p) ==
    /\ At(p, "historyCheckpoint")
    /\ IF BreakToRecord(journal, workspace)
       THEN \E meta \in Meta \ (Guarded \cup Advance) :
               proc' = [proc EXCEPT ![p].step = "transact",
                          ![p].request = [before |-> workspace,
                                          after |-> workspace, meta |-> meta,
                                          event |-> "checkpoint",
                                          coverage |-> "continuity-break"]]
       ELSE GoTo(p, "release")
    /\ UNCHANGED <<workspace, journal, lock, faults, edits>>

-----------------------------------------------------------------------------
(* transact *)

(* Scan the journal and decide.  After the pending transaction has been    *)
(* committed the scan is repeated, as in the code.                         *)
Transact(p) ==
    LET q == proc[p].request IN
    /\ At(p, "transact")
    /\ \/ /\ Readable(journal)
          /\ MustCommitPending(journal, q.before)
          /\ proc' = [proc EXCEPT ![p].step = "recover",
                        ![p].prepared = journal.pending,
                        ![p].out = CommitRecord(journal.pending,
                                                journal.count, journal.head)]
       \/ /\ Readable(journal)
          /\ ~MustCommitPending(journal, q.before)
          /\ CanResume(journal, q)
          /\ proc' = [proc EXCEPT ![p].step = "prewrite",
                        ![p].prepared = journal.pending,
                        ![p].count = journal.count]
       \/ /\ Readable(journal)
          /\ CanPrepare(journal, q)
          /\ proc' = [proc EXCEPT ![p].step = "prepare",
                        ![p].prepared = Prepared(journal, q),
                        ![p].count = journal.count]
       \/ /\ \/ ~Readable(journal)
             \/ /\ ~MustCommitPending(journal, q.before)
                /\ ~CanResume(journal, q)
                /\ ~CanPrepare(journal, q)
          /\ GoTo(p, "release")
    /\ UNCHANGED <<workspace, journal, lock, faults, edits>>

(* recover_pending called by transact.  A request that is the transaction  *)
(* just committed is done; any other goes on from a fresh scan.            *)
CommitPending(p) ==
    /\ At(p, "recover")
    /\ journal' = Scanned(journal, proc[p].out)
    /\ proc' = [proc EXCEPT ![p].step =
                  IF Repeats(proc[p].prepared, proc[p].request)
                  THEN "release" ELSE "transact"]
    /\ UNCHANGED <<workspace, lock, faults, edits>>

(* A prewrite_check runs before the prepare is appended, and a second time *)
(* before the replacement, where a rejection appends an abort.             *)
PrewriteRejects(p) ==
    /\ proc[p].step \in {"prepare", "prewrite"}
    /\ proc[p].request.meta \in Guarded
    /\ GoTo(p, IF At(p, "prepare") THEN "release" ELSE "abort")
    /\ UNCHANGED <<workspace, journal, lock, faults, edits>>

(* Faulty: forgets state.record_count += 1.                                *)
AppendPrepareUncounted(p) ==
    /\ At(p, "prepare")
    /\ journal' = Scanned(journal, proc[p].prepared)
    /\ GoTo(p, "prewrite")
    /\ UNCHANGED <<workspace, lock, faults, edits>>

AppendPrepare(p) ==
    /\ At(p, "prepare")
    /\ journal' = Scanned(journal, proc[p].prepared)
    /\ proc' = [proc EXCEPT ![p].step = "prewrite", ![p].count = @ + 1]
    /\ UNCHANGED <<workspace, lock, faults, edits>>

PrewritePasses(p) ==
    /\ At(p, "prewrite")
    /\ GoTo(p, "apply")
    /\ UNCHANGED <<workspace, journal, lock, faults, edits>>

AppendAbort(p) ==
    /\ At(p, "abort")
    /\ journal' = Scanned(journal,
                          AbortRecord(proc[p].prepared, proc[p].count,
                                      RecordDigest(proc[p].prepared)))
    /\ GoTo(p, "release")
    /\ UNCHANGED <<workspace, lock, faults, edits>>

(* _atomic_replace_text; a continuity-break checkpoint applies nothing.    *)
Apply(p) ==
    /\ At(p, "apply")
    /\ workspace' = IF proc[p].kind = "checkpoint" THEN workspace
                    ELSE proc[p].request.after
    /\ GoTo(p, "commit")
    /\ UNCHANGED <<journal, lock, faults, edits>>

AppendCommit(p) ==
    /\ At(p, "commit")
    /\ journal' = Scanned(journal,
                          CommitRecord(proc[p].prepared, proc[p].count,
                                       RecordDigest(proc[p].prepared)))
    /\ GoTo(p, "release")
    /\ UNCHANGED <<workspace, lock, faults, edits>>

-----------------------------------------------------------------------------
(* Recovery *)

(* `history --recover` runs recover_pending with action "auto": it commits *)
(* a transaction whose workspace was replaced and leaves any other alone.  *)
HistoryRecover(p) ==
    /\ At(p, "historyRecover")
    /\ IF Readable(journal) /\ MustCommitPending(journal, workspace)
       THEN proc' = [proc EXCEPT ![p].step = "terminal",
                       ![p].out = CommitRecord(journal.pending,
                                               journal.count, journal.head)]
       ELSE GoTo(p, "release")
    /\ UNCHANGED <<workspace, journal, lock, faults, edits>>

(* recover_workspace_journal_if_current: the pending transaction and the   *)
(* workspace must still be the ones verified.                              *)
AdvanceRecover(p) ==
    /\ At(p, "advanceRecover")
    /\ IF /\ Readable(journal)
          /\ journal.pending = proc[p].prepared
          /\ workspace = proc[p].loaded
       THEN proc' = [proc EXCEPT ![p].step = "terminal",
                       ![p].out = AdvanceTerminal(journal, workspace)]
       ELSE GoTo(p, "release")
    /\ UNCHANGED <<workspace, journal, lock, faults, edits>>

AppendTerminal(p) ==
    /\ At(p, "terminal")
    /\ journal' = Scanned(journal, proc[p].out)
    /\ GoTo(p, "release")
    /\ UNCHANGED <<workspace, lock, faults, edits>>

(* The approval pack path loads the store again and goes on as a write.    *)
AppendPackTerminal(p) ==
    /\ At(p, "packTerminal")
    /\ journal' = Scanned(journal, proc[p].out)
    /\ Stop(p)
    /\ UNCHANGED <<workspace, lock, faults, edits>>

-----------------------------------------------------------------------------
(* Faults *)

Fault == faults < MaxFaults /\ faults' = faults + 1

(* The record a process is about to append. *)
Appending(p) ==
    CASE At(p, "prepare") -> proc[p].prepared
      [] At(p, "abort") -> AbortRecord(proc[p].prepared, proc[p].count,
                                       RecordDigest(proc[p].prepared))
      [] At(p, "commit") -> CommitRecord(proc[p].prepared, proc[p].count,
                                         RecordDigest(proc[p].prepared))
      [] OTHER -> proc[p].out

(* An append that a full disk, a failed fsync or the end of the process    *)
(* cuts short.  The command reports it and releases the lock.              *)
AppendFails(p) ==
    /\ Fault
    /\ proc[p].step \in {"prepare", "abort", "commit", "recover", "terminal"}
    /\ journal' \in Interrupted(journal, Appending(p))
    /\ GoTo(p, "release")
    /\ UNCHANGED <<workspace, lock, edits>>

PackAppendFails(p) ==
    /\ Fault
    /\ At(p, "packTerminal")
    /\ journal' \in Interrupted(journal, proc[p].out)
    /\ Stop(p)
    /\ UNCHANGED <<workspace, lock, edits>>

(* The temporary file cannot be written: nothing is replaced, and the      *)
(* prepare stays pending.                                                  *)
ApplyFails(p) ==
    /\ Fault
    /\ At(p, "apply")
    /\ GoTo(p, "release")
    /\ UNCHANGED <<workspace, journal, lock, edits>>

(* The process dies between two steps and its lock file stays.             *)
Crash(p) ==
    /\ Fault
    /\ ~At(p, "idle")
    /\ Stop(p)
    /\ lock' = IF lock = p THEN Stale ELSE lock
    /\ UNCHANGED <<workspace, journal, edits>>

(* Somebody edits workspace.json by hand, checks out another version of    *)
(* it, or removes it.                                                      *)
Edit ==
    /\ edits < MaxEdits
    /\ EditDuringWrite \/ \A p \in Proc : proc[p].step \notin LockedSteps
    /\ workspace' \in Digest \ {workspace}
    /\ edits' = edits + 1
    /\ UNCHANGED <<journal, lock, proc, faults>>

-----------------------------------------------------------------------------
StartCommand(p) ==
    \/ Load(p) \/ Create(p) \/ StartCheckpoint(p) \/ StartRecover(p)
    \/ StartAdvance(p) \/ StartPackRecovery(p)

(* What a running command does next. *)
Step(p) ==
    \/ Acquire(p) \/ AcquireFails(p) \/ Release(p)
    \/ CheckUnchanged(p) \/ ReadBefore(p) \/ Checkpoint(p)
    \/ Transact(p) \/ CommitPending(p) \/ PrewriteRejects(p)
    \/ AppendPrepare(p) \/ PrewritePasses(p) \/ AppendAbort(p)
    \/ Apply(p) \/ AppendCommit(p)
    \/ HistoryRecover(p) \/ AdvanceRecover(p) \/ AppendTerminal(p)
    \/ AppendPackTerminal(p)

Failure(p) ==
    AppendFails(p) \/ PackAppendFails(p) \/ ApplyFails(p) \/ Crash(p)

StoreNext ==
    \/ \E p \in Proc : StartCommand(p) \/ Step(p) \/ Failure(p)
    \/ Edit

StoreSpec == StoreInit /\ [][StoreNext]_storeVars

-----------------------------------------------------------------------------
(* Type invariant. *)
TypeOK ==
    /\ workspace \in Digest
    /\ journal \in JournalState
    /\ lock \in Proc \cup {Free, Stale}
    /\ proc \in [Proc -> Process]
    /\ faults \in Nat
    /\ edits \in Nat

(* No line a command appends is one that the scan rejects, and no journal  *)
(* with a complete line is without a checkpoint: short of a torn line, the *)
(* history Palari writes is a history Palari can read back.                *)
JournalReadsBack ==
    /\ journal.damage # "rejected"
    /\ journal.damage = "none" /\ journal.count > 0 => Readable(journal)

(* The journal brackets the replacement of workspace.json: as long as      *)
(* nobody edits it by hand, its content is the committed projection, or    *)
(* one side of the one pending transaction, whatever process stopped       *)
(* where; and no continuity break is ever recorded.                        *)
Bracketed ==
    edits = 0 =>
        /\ workspace = journal.replay
           \/ /\ journal.pending # NoRecord
              /\ workspace = journal.pending.after
        /\ journal.breaks = 0

(* A command replaces workspace.json only with the content of the pending  *)
(* transaction of a journal it can read: never without history, on a       *)
(* corrupt one, or for a transaction another command prepared differently. *)
WriteAhead ==
    [][workspace' # workspace /\ edits' = edits =>
          /\ Readable(journal)
          /\ journal.pending # NoRecord
          /\ workspace' = journal.pending.after]_storeVars

(* No update is lost: the content a command replaces is the one it loaded  *)
(* before it took the lock, or none when it creates the workspace.         *)
NoLostUpdate ==
    [][\A p \in Proc :
          At(p, "apply") /\ At(p, "commit")' /\ proc[p].kind # "checkpoint" =>
              workspace = proc[p].loaded]_storeVars

(* Store, lock and journal implement the abstract history.                 *)
History == INSTANCE WorkspaceHistory WITH
    file <- workspace,
    committed <- journal.replay,
    proposed <- IF journal.pending = NoRecord THEN NoRecord
                ELSE journal.pending.after,
    NoProposal <- NoRecord

ImplementsHistory == History!HistorySpec

(* Once the workspace has left the committed history, only another edit or *)
(* a recorded continuity break ends that: no write and no recovery makes   *)
(* the divergence disappear from the report.                               *)
Diverged ==
    /\ workspace # journal.replay
    /\ \/ journal.pending = NoRecord
       \/ journal.pending.coverage = "continuity-break"

DivergenceStaysVisible ==
    [][Diverged /\ ~Diverged' =>
          edits' > edits \/ journal'.breaks > journal.breaks]_storeVars

-----------------------------------------------------------------------------
(* Fairness.  A running command goes on to its end.  That somebody runs a  *)
(* given command again and again until it gets the lock is an assumption   *)
(* about the operator, made where a property speaks of that command.       *)
CommandsEnd == \A p \in Proc : WF_storeVars(Step(p))

Insist(p, kind) ==
    SF_storeVars(Acquire(p) /\ proc[p].kind = kind)

OperatorInsists ==
    \A p \in Proc :
        /\ SF_storeVars(StartRecover(p)) /\ Insist(p, "recover")
        /\ SF_storeVars(StartCheckpoint(p)) /\ Insist(p, "checkpoint")

FairSpec == StoreSpec /\ CommandsEnd /\ OperatorInsists

(* Every command that takes the writer lock gives it back or dies.         *)
LockIsReleased == \A p \in Proc : (lock = p) ~> (lock # p)

PendingCommit ==
    /\ journal.damage = "none"
    /\ journal.pending # NoRecord
    /\ workspace = journal.pending.after

(* A replacement whose commit marker is missing does not stay without it.  *)
PendingCommitIsResolved == PendingCommit ~> ~PendingCommit

PendingPrepare ==
    /\ journal.damage = "none"
    /\ journal.pending # NoRecord
    /\ workspace = journal.pending.before

(* A transaction that was prepared and did not touch the workspace does    *)
(* not stay pending while `history --recover` is run: "`--recover`         *)
(* resolves a prepared local transaction when safe", and every other write *)
(* is refused with "abort it through history recovery".                    *)
PendingPrepareIsResolved == PendingPrepare ~> ~PendingPrepare

(* A workspace edited by hand becomes writable again, if the break is      *)
(* acknowledged and nobody edits on.                                       *)
Unacknowledged ==
    Diverged /\ workspace # NoData /\ journal.exists /\ Readable(journal)

DivergenceIsResolved == Unacknowledged ~> ~Unacknowledged
=============================================================================
