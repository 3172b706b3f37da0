------------------------- MODULE GovernanceJournal -------------------------
(***************************************************************************)
(* The tamper-evident history .palari/governance-journal.v2.jsonl          *)
(* (governance_journal.py).  The file only ever grows by whole or torn     *)
(* lines, and every reader folds it from the start with _scan_v2_records,  *)
(* so the file is represented by the state that scan computes, and         *)
(* appending a record is one more iteration of the scan loop (Scanned).    *)
(*                                                                         *)
(* A workspace and its digest are one value of Data (SHA-256 is taken to   *)
(* be collision free).  The digest of a record is its 1-based position:    *)
(* two records with the same sequence number cannot both be accepted, so   *)
(* a position names a record of a readable file.  A delta is represented   *)
(* by its base (the field expected) and its result (the field after).      *)
(***************************************************************************)
EXTENDS Integers

CONSTANTS
    Data,      \* the contents workspace.json can have
    NoData,    \* the digest None: there is no workspace.json
    Meta,      \* mutation identities: command, actor, action, objects, reason
    NoRecord   \* no record, no request

ASSUME NoDataAssumption == NoData \notin Data

Digest == Data \cup {NoData}
EventKinds == {"mutation", "checkpoint", "restoration"}
CoverageModes == {"complete", "continuous", "continuity-break"}

(* What the transaction_id hashes: everything but sequence and timestamp.  *)
TransactionId ==
    [prev: Nat, event: EventKinds, coverage: CoverageModes,
     expected: Digest, before: Digest, after: Data, meta: Meta]

Prepare ==
    [type: {"prepare"}, seq: Nat, prev: Nat, event: EventKinds,
     coverage: CoverageModes, expected: Digest, before: Digest, after: Data,
     meta: Meta]

(* of is prepared_record_digest; state is after_workspace_digest of a      *)
(* commit and before_workspace_digest of an abort.                         *)
Terminal ==
    [type: {"commit", "abort"}, seq: Nat, prev: Nat, of: Nat,
     tx: TransactionId, state: Digest]

(* What a caller of transact asks for.                                     *)
Request ==
    [before: Digest, after: Data, meta: Meta, event: EventKinds,
     coverage: CoverageModes]

ASSUME NoRecordAssumption ==
    NoRecord \notin Prepare \cup Terminal \cup Request \cup Data

JournalState ==
    [exists: BOOLEAN,      \* the file has been created
     count: Nat,           \* complete records in it
     head: Nat,            \* digest of the last one, 0 for None
     replay: Digest,       \* digest of the committed projection
     pending: Prepare \cup {NoRecord},
     committed: Nat, aborted: Nat, breaks: Nat,
     damage: {"none", "truncated", "rejected"}]

EmptyState ==
    [exists |-> FALSE, count |-> 0, head |-> 0, replay |-> NoData,
     pending |-> NoRecord, committed |-> 0, aborted |-> 0, breaks |-> 0,
     damage |-> "none"]

-----------------------------------------------------------------------------
(* Records *)

RecordDigest(r) == r.seq + 1

TxOf(r) ==
    [prev |-> r.prev, event |-> r.event, coverage |-> r.coverage,
     expected |-> r.expected, before |-> r.before, after |-> r.after,
     meta |-> r.meta]

CommitRecord(prepared, seq, prev) ==
    [type |-> "commit", seq |-> seq, prev |-> prev,
     of |-> RecordDigest(prepared), tx |-> TxOf(prepared),
     state |-> prepared.after]

AbortRecord(prepared, seq, prev) ==
    [type |-> "abort", seq |-> seq, prev |-> prev,
     of |-> RecordDigest(prepared), tx |-> TxOf(prepared),
     state |-> prepared.before]

-----------------------------------------------------------------------------
(* The scan loop *)

FirstPrepareAllowed(r) ==
    /\ r.event = "checkpoint"
    /\ r.coverage = "complete"
    /\ r.expected = NoData
    /\ r.before = NoData

LaterPrepareAllowed(s, r) ==
    /\ r.expected = s.replay
    /\ \/ /\ r.coverage = "continuity-break"
          /\ r.event = "checkpoint"
          /\ r.before # s.replay
          /\ r.before = r.after
       \/ /\ r.coverage = "continuous"
          /\ r.before = s.replay

PrepareAllowed(s, r) ==
    /\ s.pending = NoRecord
    /\ r.event # "checkpoint" => s.replay # NoData
    /\ IF s.count = 0 THEN FirstPrepareAllowed(r) ELSE LaterPrepareAllowed(s, r)

TerminalAllowed(s, r) ==
    /\ s.pending # NoRecord
    /\ r.tx = TxOf(s.pending)
    /\ r.of = RecordDigest(s.pending)
    /\ r.state = IF r.type = "commit" THEN s.pending.after ELSE s.pending.before

RecordAllowed(s, r) ==
    /\ r.seq = s.count
    /\ r.prev = s.head
    /\ IF r.type = "prepare" THEN PrepareAllowed(s, r) ELSE TerminalAllowed(s, r)

WithPrepare(s, r) == [s EXCEPT !.pending = r]

WithCommit(s) ==
    [s EXCEPT !.replay = s.pending.after,
              !.breaks = IF s.pending.coverage = "continuity-break"
                         THEN s.breaks + 1 ELSE s.breaks,
              !.pending = NoRecord,
              !.committed = s.committed + 1]

WithAbort(s) == [s EXCEPT !.pending = NoRecord, !.aborted = s.aborted + 1]

Advanced(s, r) ==
    CASE r.type = "prepare" -> WithPrepare(s, r)
      [] r.type = "commit"  -> WithCommit(s)
      [] r.type = "abort"   -> WithAbort(s)

(* The scan state once record r is the last line of the file.  A line the  *)
(* scan rejects, and a torn one, make every later scan fail.               *)
Scanned(s, r) ==
    IF s.damage # "none" THEN s
    ELSE IF ~RecordAllowed(s, r) THEN [s EXCEPT !.damage = "rejected"]
    ELSE [Advanced(s, r) EXCEPT !.exists = TRUE, !.head = RecordDigest(r),
                                !.count = s.count + 1]

(* _active_state raises unless the scan succeeds; no file is an empty      *)
(* state, an empty file or one whose only checkpoint was aborted is not.   *)
Readable(s) ==
    /\ s.damage = "none"
    /\ s.exists => /\ s.count > 0
                   /\ s.committed > 0 \/ s.pending # NoRecord

(* What append_record_fsync can leave behind when it does not return: the  *)
(* file created but nothing written, a torn line, or the whole line with   *)
(* an fsync that failed or never ran.                                      *)
Interrupted(s, r) ==
    {[s EXCEPT !.exists = TRUE],
     [s EXCEPT !.exists = TRUE,
               !.damage = IF @ = "none" THEN "truncated" ELSE @],
     Scanned(s, r)}

-----------------------------------------------------------------------------
(* Reports (_state_report) *)

Position(s, current) ==
    IF current = s.pending.before THEN "before"
    ELSE IF current = s.pending.after THEN "after"
    ELSE "diverged"

-----------------------------------------------------------------------------
(* Decisions of transact and recover_pending, before anything is written.  *)

StartsHistory(q) ==
    q.event = "checkpoint" /\ q.coverage = "complete" /\ q.before = NoData

(* Faulty: commits whatever is pending without looking at the workspace.   *)
MustCommitAny(s, current) == s.pending # NoRecord

(* Faulty: tests the "before" side first.                                  *)
MustCommitBeforeFirst(s, current) ==
    /\ s.pending # NoRecord
    /\ current # s.pending.before
    /\ current = s.pending.after

(* The pending transaction already replaced the workspace: only its commit *)
(* marker is missing.                                                      *)
MustCommitPending(s, current) ==
    s.pending # NoRecord /\ current = s.pending.after

(* The request is the pending transaction itself, tried again.             *)
Repeats(prepared, q) == q.after = q.before /\ q.meta = prepared.meta

Prepared(s, q) ==
    [type |-> "prepare", seq |-> s.count,
     prev |-> IF s.pending # NoRecord THEN s.pending.prev ELSE s.head,
     event |-> q.event, coverage |-> q.coverage,
     expected |-> IF s.count = 0 THEN NoData
                  ELSE IF s.pending # NoRecord THEN s.pending.expected
                  ELSE s.replay,
     before |-> IF s.count = 0 THEN NoData
                ELSE IF s.pending # NoRecord THEN s.pending.before
                ELSE q.before,
     after |-> q.after, meta |-> q.meta]

(* A mutation needs a replayable projection to take the delta from.        *)
DeltaBaseExists(s, q) == q.event = "checkpoint" \/ s.replay # NoData

(* Faulty: does not compare the workspace with the committed projection.   *)
CanPrepareDiverged(s, q) ==
    /\ s.pending = NoRecord
    /\ DeltaBaseExists(s, q)
    /\ s.count = 0 => StartsHistory(q)

(* Faulty: has no exception for a continuity break.                        *)
CanPrepareUnbroken(s, q) ==
    /\ s.pending = NoRecord
    /\ DeltaBaseExists(s, q)
    /\ IF s.count = 0 THEN StartsHistory(q) ELSE q.before = s.replay

CanPrepare(s, q) ==
    /\ s.pending = NoRecord
    /\ DeltaBaseExists(s, q)
    /\ IF s.count = 0 THEN StartsHistory(q)
       ELSE IF q.coverage = "continuity-break" THEN q.event = "checkpoint"
       ELSE q.before = s.replay

(* Faulty: resumes the pending transaction for any mutation.               *)
CanResumeAny(s, q) ==
    /\ s.pending # NoRecord
    /\ q.before = s.pending.before
    /\ DeltaBaseExists(s, q)

CanResume(s, q) ==
    /\ s.pending # NoRecord
    /\ q.before = s.pending.before
    /\ q.before # s.pending.after
    /\ DeltaBaseExists(s, q)
    /\ TxOf(Prepared(s, q)) = TxOf(s.pending)

(* Faulty: does not look for the workspace file.                           *)
BreakOfNothing(s, current) ==
    s.exists /\ Readable(s) /\ s.pending = NoRecord /\ current # s.replay

(* Faulty: records a break whether or not the workspace diverged.          *)
BreakAlways(s, current) ==
    current # NoData /\ s.exists /\ Readable(s) /\ s.pending = NoRecord

(* A break that _checkpoint_workspace_journal has to record.               *)
BreakToRecord(s, current) ==
    /\ current # NoData
    /\ s.exists
    /\ Readable(s)
    /\ s.pending = NoRecord
    /\ current # s.replay

(* Faulty: aborts a transaction that already replaced the workspace.       *)
AdvanceAborts(s, current) == AbortRecord(s.pending, s.count, s.head)

(* What agent advance appends: "auto" commits what was applied, "abort"    *)
(* cancels what was not.                                                   *)
AdvanceTerminal(s, current) ==
    IF MustCommitPending(s, current)
    THEN CommitRecord(s.pending, s.count, s.head)
    ELSE AbortRecord(s.pending, s.count, s.head)

=============================================================================
