# A TLA+ model of Palari Company OS

Palari Company OS is a local, file-backed control plane for work done by AI
agents. There is no server and no daemon: every command is a short-lived
process that reads `workspace.json`, decides, and writes. Two commands can run
at once, each can die between any two system calls, people edit the files by
hand, and Git and Linear change underneath. This directory models the program,
checks it with TLC and proves its central properties with TLAPS.

File names below are relative to `src/palari_company_os/`.

## 1. The system

### State on disk

| State | File | Written by |
|---|---|---|
| the workspace: work items, attempts, evidence, reviews, decisions, receipts, plans, outbox | `workspace.json` | `store.write_store`, by atomic replacement |
| tamper-evident history | `.palari/governance-journal.v2.jsonl` | `governance_journal.append_record_fsync`, append only |
| writer lock | `.palari/locks/workspace.json.lock` | `store._acquire_workspace_lock` |
| claims of agents on work | `.palari/claims/<work>.json`, `.lock`, `.baseline` | `agent_runtime`, `agent_parking` |
| leases shared by the worktrees of a repository | Git refs `refs/palari/leases/*`, `refs/palari/claims/*` | `agent_runtime` (compare-and-swap with `git update-ref`) |
| deliveries received from Linear | `.palari/linear-events.jsonl` | `linear_webhook` |

### Components, their operations and what makes them correct

| Component | Operations | Hard part | Correct when |
|---|---|---|---|
| Writer lock (`store.py`) | acquire, judge stale, reclaim, release | two processes reclaim at once; the owner dies before or after writing its pid | at most one writer; a dead owner's lock is reclaimed |
| Store (`store.py`) | load, check unchanged, replace | the content was computed before the lock was taken; hand edits | no update is lost; retired work is immutable |
| Journal (`governance_journal.py`) | scan, transact, recover, checkpoint, value deltas | a crash between prepare, replacement and commit; torn lines; recovery by another command | the journal can always be read back and replayed, and brackets every replacement |
| Claims and leases (`agent_runtime.py`, `agent_parking.py`) | start, start next, check, release, park, resume | several worktrees, a lease that runs out, a crash that leaves a claim lock | at most one live claim per work item, ownership cannot be taken over silently, no lease outlives its owner unaccounted |
| Kernel (`governance_kernel.py`, `pcaw_workspace_projection.py`) | evaluate a case, propose a decision | which records are current, what each of them binds | a verdict rests on the exact current proof |
| Lifecycle (`authoring.py`, `validation.py`, `transition_checks.py`, `read_models.py`, `authority_plan.py`) | prove, review, decide, complete, retire | order of evidence, review, decision; several actors; a repository that moves | no acceptance without current evidence and the required humans |
| Agent advance (`agent_advance.py`, `governance_convergence.py`) | plan, converge, reconcile proof, resume | verification takes minutes without the lock | only the verified state is recorded, a retry does not record twice |
| Approval (`approval_packs.py`, `simple_approval.py`) | build pack, present, decide, repeat | what a human saw against what is on disk when the decision is written | a decision binds what was presented |
| Outbox and Linear (`integrations.py`, `linear_adapter.py`, `linear_webhook.py`) | plan, decide, enqueue, cancel, send; import, sync, adopt; deliveries | an external call between load and write; deliveries duplicated or out of order | nothing is sent without approval; an item is recorded as sent once |
| I/O | parser, output, MCP server, mission control, hooks, demo | none of TLC's business | not modelled |

Governed commands meet in one place: they load the workspace, compute, and
call `write_store`, which takes the writer lock, checks that the file is still
the one loaded, and hands the replacement to `transact`. `transact` appends a
prepare record, replaces the file, and appends a commit record. Everything else
trusts that this path is a serial, durable, readable history, so the models come
in two layers:

* the *write path*, system call by system call: `WorkspaceLock`,
  `WorkspaceStore`, `AgentClaims`, `AgentParking`. Here a workspace is an opaque
  value;
* what is *in* the workspace: `WorkLifecycle` with `ApprovalPacks` and
  `InterruptedWrites`, and `LinearDelivery` over `IntegrationOutbox`. Here the
  write is one step that succeeds only if the workspace is still the one that
  was read (`NoLostUpdate` of the first layer), except that
  `InterruptedWrites` splits it again where a process dies inside.

## 2. Modules

| Module | Models | Variables |
|---|---|---|
| `GovernanceJournal` | records, the scan loop, the decisions of `transact` and `recover_pending` | none (operators over the scan state) |
| `ValueDelta` | the delta of two contents and its replay | none |
| `WorkspaceStore` | `write_store` around `transact`, `history --recover`, `history --checkpoint`, the recoveries of agent advance and of approval packs, crashes, failed system calls, hand edits | `workspace`, `journal`, `lock`, `proc`, `faults`, `edits` |
| `WorkspaceHistory` | abstract: propose, put in place, confirm or withdraw | `file`, `committed`, `proposed` |
| `WorkspaceLock` | the lock file, one action per system call | `file`, `step`, `old`, `crashes`; the history `racers`, `late`, `broken` |
| `WriterMutex` | abstract: one writer, until the lock is broken | `writer`, `broken` |
| `AgentClaims` | `start_agent`, `release_agent`: claim files, claim locks, the lease and the witness in Git refs | `lease`, `witness`, `claims`, `locks`, `baseline`, `ws`, `head`, `step`, `run`, `minted`, `expired`, `faults` |
| `AgentParking` | `park_agent` and its resumption, over `AgentClaims` | the same |
| `GovernanceKernel` | `evaluate_governance_case` and the proposals around it | none (operators over a case) |
| `WorkRecords` | which records are current, what evidence and reviews bind, the case of a work item | none (operators over workspace, repository, journal) |
| `WorkValidation` | `validate_workspace_contract`, the immutability of retired work | none |
| `WorkTransitions` | authority plan, lifecycle view, task brief, transition checks | none |
| `WorkLifecycle` | start, advance, refresh, record, review, decide, converge, complete; commits, checkouts, hand edits | `store`, `git`, `journal`, `baseline`, `claim`, `plan`, `edits` |
| `ApprovalPacks` | packs and `approve`, over `WorkLifecycle` | and `offer` |
| `InterruptedWrites` | a death inside the write section and who takes it up, over `ApprovalPacks` | and `pending` |
| `IntegrationOutbox` | plans, decisions, outbox items | `ws` |
| `LinearDelivery` | plans for Linear, send, import, sync, adoption, webhook, over `IntegrationOutbox` | and `linear`, `calls`, `sender`, `reader`, `thread`, `events`, `logged` |
| `ExternalWrites` | abstract: ask, decide, queue, write, end | `phase`, `permits`, `pending`, `writes` |
| `MCWorkspaceStore`, `MCAgentClaims`, `MCGovernedWork`, `MCLinearDelivery` | instances, bounds, symmetry and views for TLC | |
| `WorkspaceStoreProofs`, `WorkspaceHistoryProofs`, `WorkspaceLockProofs`, `AgentClaimsProofs`, `ValueDeltaProofs`, `OutboxProofs`, `InterruptedWritesProofs`, `GovernedWorkProofs` | theorems | |

### GovernanceJournal and ValueDelta

The journal file only grows, and every reader folds it from the first line with
`_scan_v2_records`. The file is therefore represented by the result of that
fold: `Scanned(s, r)` is the scan state after one more line `r`. A line the scan
would reject sets `damage = "rejected"`, a line without its newline sets
`damage = "truncated"`; both are final, because every later scan stops there.

Abstractions: a workspace is a value of `Data` and is its own digest (SHA-256 is
taken to be free of collisions); the digest of a record is its position, since a
readable file has one record per position; a delta is given by its base and its
result. `transaction_id` hashes everything but sequence number and timestamp, so
`TransactionId` is the record of exactly those fields: this decides when a
command tried again resumes its pending transaction.

That a delta may be given by its base and its result is what `ValueDelta` is
about. A JSON value is a function from the paths in it to `Object` or to a value
that the code compares and replaces whole (a scalar or a list, with its type;
floats are refused, so equality is exact). `ValueDelta(before, after)` is the
set of changes `_value_delta` collects; `Canonical` and `Applicable` are the
checks of `_validate_value_delta` and `_apply_value_delta`. The theorems of
`ValueDeltaProofs` say that the delta of two documents passes both, that
replaying it gives the content after, and that the scan, which computes the
delta again and refuses a different one, therefore accepts it.

### WorkspaceStore

One process per command. Its program points lie where something else can come
between: after the load, after each append, between append and replacement. The
code from one point to the next reads and writes nothing that a process without
the lock may change, except where the action says so.

| Action | Code |
|---|---|
| `Load`, `Create` | `load_store` and the computation of the new content |
| `Acquire`, `AcquireFails`, `Release` | `_acquire_workspace_lock`, `_release_workspace_lock` (abstractly: see `WorkspaceLock`) |
| `CheckUnchanged`, `ReadBefore` | `_assert_workspace_file_unchanged`, `_load_current_raw` |
| `Transact` | scan and decision of `transact`: commit the pending transaction, resume it, prepare, or raise |
| `CommitPending` | `recover_pending` called by `transact` |
| `PrewriteRejects`, `PrewritePasses`, `AppendAbort` | the two runs of `prewrite_check` |
| `AppendPrepare`, `Apply`, `AppendCommit` | the three durable steps |
| `HistoryRecover`, `Checkpoint` | the `history` command |
| `StartAdvance`, `AdvanceRecover` | `_recover_pending_advance`, `recover_workspace_journal_if_current` |
| `StartPackRecovery`, `AppendPackTerminal` | the recovery inside `apply_pack_decision`, which takes no lock |
| `AppendFails`, `ApplyFails`, `Crash` | a failed write or fsync with any prefix on disk; a failed replacement; death |
| `Edit` | a person, an editor, `git checkout` |

### WorkspaceLock

One action per system call: `O_EXCL` create, `stat`, read of the pid, `unlink`,
second create, write of pid and token, read of the token, `unlink`. A file is
identified by who created it. Nothing is assumed about who runs beside whom or
how fast, so the lock is not always a mutex (finding 1). The module says exactly
when it ceases to be one, with three history variables that no action reads for
what it does to the file:

* `broken` says whether a process has removed the lock file of a live one, and
  how: it had judged another file by then (`"raced"`), or this very one
  (`"slow"`);
* `racers` are the processes between the `stat` of a lock file and what they do
  about it, when the file at the path has been replaced since;
* `late`: 30 seconds have passed between a live creator's `O_EXCL` create and
  its writing of the pid.

`OneWriterUntilBroken` and `OwnsFileUntilBroken` hold until `broken`;
`OnlyLateOwnersAreJudged` says that a lock which is not raced for is broken only
for a late creator. `WorkspaceStore` takes the lock for a mutex, as `WriterMutex`
describes it before it breaks; what two writers do to each other after that is
not modelled.

### AgentClaims and AgentParking

One work item, in one Git repository with several worktrees. A worktree has its
own workspace, claim file, claim lock and baseline; the lease and the witness
are refs that all worktrees share. Every action is one read or one write of
something another process can change; the record `run[p]` holds the local
variables that a later step still uses.

| Action | Code |
|---|---|
| `Start`, `Examine`, `Refuse` | claim lock, `_current_start_packet`, the worktree's own claim, baseline and snapshot |
| `Scan` | `_foreign_registered_claim`, one worktree at a time |
| `ReadLease`, `AcquireLease`, `LoseCas` | the loop of `_claim_git_lease`: read the ref, `git update-ref` with the value read, up to four times |
| `Enter` | the writer lock, `_final_start_revalidation` and the snapshot checks |
| `ReadWitness`, `SetWitness` | `_create_git_witness` |
| `WriteBaseline`, `WriteClaim` | the files |
| `Abandon`, `RevokeLease` | `except Exception`: `_release_git_lease` of the lease just acquired |
| `Release`, `ReadClaim`, `DropLease`, `Unlink` | `release_agent` |
| `Park`, `ParkCheck`, `ParkWrite`, `ParkConfirm`, `LockToRelease` | `park_agent`, then `release_agent` with the expected claim |
| `Resume` | `_resume_parked_release` |
| `Expire`, `MoveHead`, `WriteWorkspace` | time, Git, other commands |
| `Interrupt`, `Crash` | Control-C (`finally` runs, `except Exception` does not), death |

Abstractions. A lease is its number. The blob it stands for contains the session
and the expiry in seconds, so a start gets a new number, or, restarted within
the second, that of its own claim (`NumbersFor`). Expiry is an event per
lease, because leases have lengths of their own. A workspace is its version and
the claim its parking names; that a packet or a scope changed is the
nondeterministic `Refuse` or `Abandon`, as is a failing system call. The writer
lock is held in `WriteSteps`. The work item is in execute mode; what
`start_next_agent` selects, the text of packets and the comparison of authority
bindings are not modelled.

### GovernanceKernel, WorkRecords, WorkValidation, WorkTransitions

These are operators. `GovernanceKernel` takes a case, a record with one work
item's contract, records and observations, and returns the verdict: the error
codes of scope, receipt, evidence, review, quorum and acceptance, the outcome of
each property, the derived state, and the humans whose current decision counts.
`Evaluate` composes the properties in the order of `evaluate_governance_case`,
each resting on the ones before it; error codes keep their names.

`WorkRecords` makes the case: which attempt, receipt, evidence and review are
current, what is observed again (`EvidenceVerified` reads the files and Git,
`EvidenceStored` only the records), and what a stored hash pins down. Records are
appended and never rewritten, except an attempt and a contract, so a hash of
another record is its id, while a review keeps the attempt state and the contract
it saw. The binding of an acceptance includes the review only if there is one:
without a review, an approval does not bind the contract, and the model says so
too. `WorkValidation` is the set of rules `write_store` refuses a workspace by,
and `RetiredKept`, the comparison with the workspace before. `WorkTransitions`
has the questions commands ask first; two of them (the lifecycle view and the
kernel) look at different evidence, which is where finding 5 comes from.

### WorkLifecycle

`store` is the workspace, `git` the commits, the checked-out head and the working
tree, `baseline` and `claim` the files of `AgentClaims`, of which a command only
asks whether they still describe the present. A long command is two steps with
its local variables in `plan` between them: the first reads and verifies, the
second checks what the code checks again and writes.

| Action | Code |
|---|---|
| `Edit`, `Commit`, `Checkout` | people and Git |
| `Start`, `Release` | `start_agent` (what a claim binds), `release_agent` |
| `Advance`, `Refresh`, `Record`, `Abandon` | `advance_agent`: brief, preflight over the commits since the baseline, verification; the refresh after an aligned commit; `reconcile_agent_proof` with the checks before its write; an agent that dies with its plan |
| `Converge`, `Complete` | `converge_work_item`: the observation, and the completion with the acceptance it projects |
| `Finish`, `Resume` | what an advance does once its proof is on record, at once or when it is repeated: `Conclude` completes work of low risk and releases the claim of any other, after the same preflight |
| `Review` | `create_review_receipt` |
| `Decide` | `create_human_decision`, a single decision beside the packs |
| `EditContract`, `RaiseRisk`, `Depend`, `Leave`, `Retire` | hand edits of the workspace: the contract, its risk, its dependencies, a person who leaves, retirement |
| `Checkpoint` | `history --checkpoint` after a hand edit |

Faithful details that are easy to get wrong: the projection check uses the net
`git diff` from base to head while preflight and refresh look at every commit,
so a change that is undone later counts for the second only; convergence
considers the latest qualified decision's human only; completed work is locked
by validation, not by a status check; the receipt of an advance names its
outputs as undo references too, that of a refresh none, and the kernel holds
both to the contract. `create_human_decision` calls itself a setup path: the
public commands decide through packs and `approve` (next section), after the
same transition check. It is kept as an action because convergence completes
work on decisions that were there before it, however they came. Restrictions:
`Start` requires a clean tree; there is one workbench and one Palari, which may
read all sources; the clock is the latest instant on record.

### ApprovalPacks and InterruptedWrites

`Ask` shows a pack of work items to a human, who decides on the pack as shown:
`offer` is what was shown. A pack binds the bytes of the workspace and the head
of the journal, so it stands only while nothing has been written (`Stands`).
`DecidePack` judges members in any order in which dependencies come first (the
code takes the one of these in which ids are sorted), `Approve` is the pack of one
(`simple_approval.py`), `PrewriteCurrent` is the check that `transact` runs
inside the write section, and `WritePack` writes decisions, acceptances and the
completions they allow. The replay of a stored pack and deferrals are left out.

`DieWriting` lets the process of any planned write die inside its section, with
the workspace on either side of the open transaction. `SupplyMarker` is what
`transact` and `history --recover` do for the far side. `Recover` and
`Recovered` are agent advance taking up its own proof: it verifies first,
without the lock, and checks again before it settles the journal. `Repeat` is a
human repeating a pack or an approval: `RepeatApproval` accepts only the exact
one decision, one acceptance and one completion. No command repeats any other
write, and nobody edits by hand while a transaction is open (a bound; what
happens then is in `store_recovery`).

### IntegrationOutbox, LinearDelivery and ExternalWrites

The workspace is the record `ws`; every command is one step, `Save`, which
writes what validates (`Valid` has the rules of `validation.py` about plans,
items and proposals). A send is three steps, because Linear is called between
load and write: `LoadItem`, `Call` (Linear carries the write out and the answer
may be lost) or `CallFails`, and `SettleItem`, which `write_store` refuses when
anybody wrote in between; `Forget` is that refusal or a death, and the item
stays queued. `calls` is a history: what Linear carried out, for which item,
with which issue, and whether the outbox recorded it. A read is `Fetch` and then
`Import` or `SyncIssue`; a delivery is `Receive` (the log is read), `SyncEvent`,
`LogEvent`, each with nothing held in between, in as many threads as deliveries
arrive. Issues of Linear have revisions; events are sent any number of times and
in any order.

Abstractions: a rendered payload is its kind, the issue it is about and, for a
comment, the status it quotes; signatures, GraphQL and the block parser are left
out; a generic preview is refused at the send before anything is called;
integrations disabled and proposals rejected by hand are left out.

`ExternalWrites` is the promise to someone who approves writes to another
system: asked, decided, queued, and then written by holders of a permit that was
given while it was queued; what has ended stays as it ended, and `sent` needs a
write. It allows more than one write: the code cannot know whether a lost answer
was a success.

## 3. Runs

| Run | Instance | Shows |
|---|---|---|
| `store_concurrent` | 2 processes, 3 contents, 3 kinds of commands, commands start on journals of up to 4 records, 2 faults, 1 edit | safety of store and journal, refinement of `WorkspaceHistory` |
| `store_recovery` | 1 process, 2 contents, 2 faults, 1 edit that may fall inside a write, pack recovery allowed | liveness of recovery |
| `writer_lock` | 3 processes, 2 deaths, every interleaving | mutual exclusion and ownership until a live process loses its lock, the two ways it can, reclaiming, refinement of `WriterMutex` |
| `lock_race` | 2 processes, no deaths, no late creator | finding 1 |
| `pack_recovery` | 2 processes, no faults, no edits | finding 2 |
| `pending_prepare` | 1 process | finding 3 |
| `claims` | 2 processes, 2 worktrees, 2 Palaris, 2 leases, 2 commits, 1 other write per worktree, 1 crash or Control-C at any step | no leaked lease; one claim-start commit for all worktrees; a claim ends by expiry or by its owner; only the winner of the lease writes anything durable; parking releases what it recorded, and records once |
| `claims_restart` | 1 process, 1 worktree | finding 4 |
| `governed_work` | four behaviours: a risky work item, a light one, one that needs two people, two in a pack; 3 commits, hand edits, a death inside a write | completion by quorum, on proof, in dependency order and while the files are what was proved; attempts within bounds; acceptances rest on decisions; packs write what was shown; retired work is frozen; an open transaction excludes all other writes |
| `ready_work` | the risky work item | finding 5 |
| `delivery` | 2 senders, 1 reader, 1 webhook handler, 2 plans, 2 issues, 3 calls, 2 work items | calls were approved, one call is recorded, a link is to the issue its work's own recorded creation made or its proposal is about, refinement of `ExternalWrites` |
| `webhook_duplicate` | 2 webhook handlers, 1 issue with 3 revisions | finding 6 |

Bounds of the write path. Three contents are enough to tell before, after and a
foreign edit apart. The identities (`Meta`) are one of each class the code
distinguishes: an ordinary command, one with a `prewrite_check` (`Guarded`), and
agent advance (`Advance`). `MaxRecords` bounds the length of a journal on which a
command may start, not what it appends; five records hold a committed creation, a
transaction with a crash, its recovery and another transaction. Two faults allow
a crash during recovery from a crash. Recovery commands are not bounded by
`MaxRecords`, so fairness is never met by running out of room.
Three processes in `writer_lock` are an owner, a judge and a newcomer.
Two leases are a claim and its competitor or a claim and its renewal; the
theorems hold for any number. Two worktrees are an owner's and a foreign one,
and with two commits overlapping first starts disagree about the claim-start
commit. One fault is enough to leave a lease, a witness or an orphaned lock
behind at each step; `OneDisturbance` leaves faults and a second commit out of
the behaviours in which other commands write the workspace.

Bounds of the lifecycle. A behaviour of `governed_work` has one or two open work
items, and the others were abandoned before it began, so each item has a policy
of its own: review and a human; proof alone; two humans; two members of a pack,
of which the second may be made to depend on the first by an edit. The risky
item has two attempts and two reviews, which is what a rejection and a second
try take; three commits with three contents hold work, rework and a return to
the earlier commit. `BehaviourBound` (in `MCGovernedWork`) says for each
behaviour what is of interest in it. `PinnedView` identifies states that differ
only in what a claim, plan or offer pinned, once that is no longer the present
workspace: it is refused whatever it was, and no command brings a workspace
back. The humans are symmetric. A human rejects as a member of a pack only:
`Choices` leaves rejection out of single decisions, where it would triple the
states. Every file of a contract is to be modified; an intent to create or
delete is in `IntentMet` and in `CompletionRestsOnProof`, which holds for any
contract.

Bounds of the delivery. `DeliveryBound` makes a behaviour one of three: two
senders on one plan; two pushes of one work item; one plan, one sender and what
Linear sends. Three calls are a lost answer, its repetition and the call of the
other sender. `StaleView` does for senders what `PinnedView` does for plans.

Deadlock is checked in the runs of the write path: a process that finds an
orphaned claim lock ends its command, and expiry or another command remains
possible. In `governed_work` and `delivery` (and the two findings about them) it
is not: people may stop, and with the bounds on commits, calls and plans used up
nothing needs to happen.

Fairness. `CommandsEnd`: a running command goes on (weak fairness of `Step`);
a crash may end it. `OperatorInsists`: the operator runs `history --recover` and
`history --checkpoint` again until they get the lock (strong fairness, because
the lock is taken and given back by others); these two are assumptions about
people, needed for any liveness of a system without a daemon, and no other
command is assumed to be run. In `LockFairness` a live process does not stop
between two system calls (weak for release, strong for acquisition, which others
can disturb), it comes back for the lock, and time passes. No fairness is
assumed of reviewers, of Linear or of agents, so the lifecycle and the delivery
have no liveness properties: nothing in the code makes them go on.

## 4. Findings

1. *Two writers without a crash or a delay* (`lock_race`, `OneWriter`). A lock released
   between the failed create and the `stat` counts as stale
   (`store.py:318`), and the judge then unlinks whatever file is at the path.
   `docs/agent/contracts-and-invariants.md:12`: "Workspace writes are
   one-writer-at-a-time."
2. *A journal that no scan accepts* (`pack_recovery`, `JournalReadsBack`).
   `approval_packs.py:714` appends a commit marker without the lock, next to the
   writer that is about to append the same one.
3. *`history --recover` leaves a prepared transaction pending*
   (`pending_prepare`, `PendingPrepareIsResolved`).
   `docs/product/command-reference.md:210` says it resolves one, and the error
   message of `governance_journal.py:829` sends the operator there.
4. *A failed restart takes the claim down* (`claims_restart`,
   `RestartVerifiesFirst`). A start on one's own active claim swaps the lease
   before it compares the claim's projection snapshot with the workspace; after
   any write since the claim the comparison fails and the `except` clause deletes
   the renewed lease, so the unexpired claim can be neither continued nor
   released. `docs/product/security.md:94`: the binding is "checked before
   restart lease acquisition and again before claim persistence".
5. *A completion announced and then refused for good* (`ready_work`,
   `ReadyMeansCompletable`). Convergence reports that proof and authority allow
   completion (`governance_convergence.py:360`), but the completion attaches the
   latest receipt of the work item rather than that of its current attempt
   (`authoring.py:657`). When a newer commit was sent back and an older one was
   proved, reviewed and accepted after it, the two differ, and each retry of the
   completion is refused. The behaviour was repeated on the program.
6. *A duplicate delivery writes older content over newer* (`webhook_duplicate`,
   `DuplicateChangesNothing`). Two handlers read the event log before either has
   appended to it (`linear_webhook.py:205`), and nothing compares the time of an
   event with what is recorded. `docs/product/linear-operating-loop.md:158`:
   "Duplicate delivery does not change workspace records."

Observed and not stated as properties: an edit by hand between the second read
and the replacement is lost without a trace; an edit while a transaction is
pending is a dead end for both `history` options; a torn line has no repair;
interrupted reviews, decisions, completions and refreshes stay open on the near
side of their transaction, because no command repeats them.

## 5. Proofs

All theorems hold for every value of the sets (`Proc`, `Data`, `Meta`,
`Worktree`, `Palari`, `Commit`, `Key`, `Work`, `Path`, `Human`, `Sender`, `Reader`, `Thread`) and
of the bounds.

| Theorem | States | Assumes |
|---|---|---|
| `TypeCorrect` | `StoreSpec => []TypeOK` | |
| `WritesAreAnnounced` | `StoreSpec => WriteAhead` | `PackRecoverers = {}` |
| `HistoryStaysReadable` | `StoreSpec => []JournalReadsBack` | the same |
| `StoreImplementsHistory` | `StoreSpec => ImplementsHistory` | and `EditDuringWrite = FALSE` |
| `DivergenceIsNeverHidden`, `NoUpdateIsLost`, `ReplacementIsBracketed` | the other safety properties | the same two |
| `LockTypesCorrect` | `LockSpec => []LockTypeOK` | |
| `MutualExclusion`, `LockStaysOwned` | `LockSpec => []OneWriterUntilBroken`, `[]OwnsFileUntilBroken` | |
| `LossNeedsRaceOrDelay` | `LockSpec => []OnlyLateOwnersAreJudged` | |
| `LockImplementsMutex` | `LockSpec => ImplementsMutex` | |
| `ClaimTypesCorrect` | `ParkingSpec => []ClaimsTypeOK` | |
| `LeasesAreAccountedFor` | `ParkingSpec => []NoLeakedLease` | |
| `ClaimEndsByItsOwner` | `ParkingSpec => EndsOnlyByItsOwner` | |
| `WritesUnderLease`, `OneStartCommit` | `ParkingSpec => PersistsUnderLease`, `[]OneClaimStart` | |
| `RecordIsWrittenOnce`, `ParkingReleasesItsClaim` | `ParkingSpec => ParkedOnce`, `ReleasesWhatItParked` | |
| `DeltaIsCanonical`, `DeltaIsApplicable` | the delta of two documents passes both checks | `IsDocument` of both |
| `ReplayRestoresAfter` | replaying the delta on the content before gives the content after | the same |
| `DeltaTellsContentsApart`, `ScanAcceptsDelta` | two contents have different deltas from one base; the scan's recomputation agrees | the same |
| `OpenTransactionIsAlone` | `InterruptedSpec => OnlyTheOpenWrites` | |
| `RetiredWorkIsFrozen` | `InterruptedSpec => RetiredWorkFrozen` | |
| `AlwaysWithinRules` | `InterruptedSpec => []WithinRules(store)`: the workspace keeps the rules a write is checked against | |
| `DependenciesComeFirst` | `InterruptedSpec => []DependenciesFirst` | |
| `AlwaysGoverned` | `InterruptedSpec => []GovernedInv`, the inductive invariant of governed work | |
| `RecordsAreWellPlaced` | `InterruptedSpec => []LifecycleTypeOK` | |
| `CompletionNeedsQuorum` | `InterruptedSpec => []CompletedByQuorum` | |
| `CompletionRestsOnProof` | `InterruptedSpec => []CompletedOnProof` | |
| `ProofsStayInBounds` | `InterruptedSpec => []AttemptsStayInBounds` | |
| `AcceptancesRestOnDecisions` | `InterruptedSpec => []AcceptancesRest` | |
| `CompletionsSeeTheWork` | `InterruptedSpec => CompletionSeesTheWork` | |
| `PacksWriteWhatWasShown` | `InterruptedSpec => PackWritesWhatWasShown` | |
| `DeliveryTypesCorrect` | `Spec => []DeliveryTypeOK` of `LinearDelivery` | |
| `CallsAreApproved` | `Spec => []CallsWereApproved` | |
| `SendsAreRecordedOnce` | `Spec => []OneCallIsRecorded` | |
| `LinksStayOwn` | `Spec => []LinksAreOwn` | |
| `OutboxKeepsPromise` | `Spec => ImplementsExternalWrites` | |

Beside these, each module names in its `...Assumption` what it takes of its
constants, and TLC evaluates them in every run. They say what the constants are
(`RecordsAssumption`: finitely many work items, humans and paths, approvers are
humans and no Palari is one; `PacksAssumption`: a selection is a set of work
items; `OutboxAssumption`, `LinearAssumption`: who may decide, bounds are
numbers), or that no work starts completed (`LifecycleAssumption`: a draft has no
records, and the rules refuse completed work without them).

`PackRecoverers = {}` says that every recovery takes the writer lock; it excludes
the lockless one of finding 2.
`EditDuringWrite = FALSE` says that nobody edits `workspace.json` while a command
holds the lock: `write_store` reads the file twice and replaces it later, and
nothing can protect an edit in between. Neither is a convenience: without the
first the theorems are false (run `pack_recovery`), without the second an edit
moves the file under a command that has already checked it.

The argument for the store has three layers, each an inductive invariant that
uses the one before.

* `Typed`: types, of the local variables at each program point too. The content
  of a pending prepare has to be known to be in `Data` before anything can be
  said about a replacement.
* `Sound`: a process inside the write section is the one in `lock`
  (`LockHeld`), so no other process can append; the journal is consistent with
  itself (`JournalSound`: count and head agree, a pending prepare was allowed
  when it was appended); and what a process has in its local variables still
  describes the journal (`ReliesOn`: the prepare it is about to append is
  allowed, the transaction it is about to apply is the pending one, its record
  count is the journal's). `JournalReadsBack` alone is not inductive: that the
  next record is accepted depends on these locals.
* `Placed`: where the workspace is relative to the pending transaction at each
  point of the command that holds the lock (`Holds`), which gives the refinement
  step by step.

For the lock, `LockInv` adds to the types that until it is broken the file names
its holder (`HolderInFile`, which leaves room for one holder), and follows a
live creator's delay to where it does harm: a file that is old and without a pid
(`AgedIsLate`), whose age was seen by a process that will look for the pid next
(`OldIsLate`), and that is about to be removed by a process which looked at no
other file (`RemovedIsLate`). Whoever looked at another file is in `racers`,
which is what finding 1 needs. The refinement maps a broken lock to a broken
`WriterMutex`, and no step mends it (`BrokenStays`).

For claims, `EndsOnlyByItsOwner` is not inductive because a lease outlives the
step that read it: a start that has read the ref swaps it later, and a release
that has read a claim file deletes the lease later. `ClaimsInv` says what such a
process may rely on:

* `Exclusive`: one process per claim lock, so a worktree's claim file is changed
  by one command at a time;
* `NumbersAgree`, `SessionsAgree`: wherever a lease number is named (the ref, a
  claim file, a local variable) it belongs to one session, and a session to one
  worktree and one Palari. A renewal within the same second reuses a number but
  never for another session;
* `OwnClaim`: while a start runs, an active claim in its worktree is its own
  Palari's;
* `ReplacesItsOwn`: the lease a start is about to swap is none, has expired, or
  belongs to its own session. Together with the compare-and-swap this is why a
  foreign claim survives;
* `HasLease`: between the swap and the last write the ref is the start's, or its
  lease has expired.

`OneClaimStart` adds `FromOldest` (a baseline is written from the oldest entry of
the witness, which is final). `NoLeakedLease` needs `Accounted` about the starts
between: one that reuses the number of its own claim still finds that number in
the claim file (so giving the lease back unused leaves it with an owner), one that
has swapped the lease finds no other live lease in its claim file (so replacing
the file orphans none), and a release about to unlink a claim has seen its lease
go. For parking, `ParkingInv` relates the version a
parking has read to the workspace: if it is unchanged at the write, no record has
appeared, and from the write on the record names the claim being released.
Steps are first reduced to three kinds of local effect (`Effect`, `Takes`,
`Examine`) and, for each shared variable, to the actions that change it
(`Changes`); the invariant is proved over these.

For deltas, the paths at which the descent stops are what matters. `FirstStepOut`
(by the least length at which a path leaves the common objects) shows that every
path on which the documents differ lies at or below exactly one change; changes
are disjoint because each hangs from a common object and is none itself; and a
path below no change is in both documents with the same value (`Unchanged`). The
equality of functions in `ReplayRestoresAfter` is then pointwise.

For governed work, `OnOneSide` says that an open transaction keeps the journal
pending and the workspace on one of its sides. Every step is then one of three
(`Moves`): it leaves the workspace alone, it writes over a current journal what
`RetiredKept` allows, or it is an edit by hand. Neither of the last two can happen
while a transaction is open, and the death of a process, its recovery and the
repeated request write one of the two sides, the far one after the same comparison.
`OpenTransactionIsAlone` and `RetiredWorkIsFrozen` follow without a look at what
packs and convergence write.

What completed work rests on needs that look. Two facts hold of every workspace
on the disk.

* `WithinRules`: it was written within the rules of `write_store` at some state of
  the repository, because every write, every side of a transaction and every hand
  edit of the model is. The state may be gone: commits stay, but the head and the
  files move on. `DependenciesFirst` needs no more.
* `Sound`: its records are whole (`Shaped`, `Listed`: an id is a place), refer to
  records of the same work (`Related`: also that nobody approves what he reviewed,
  that whoever accepts decided before, and once for each work), and are `Grounded`
  in commits. A stored hash is compared with the files when it is recorded, and
  files change; what stays true is that the head of the evidence is a commit whose
  tree has these hashes and that no commit of a claimed range leaves the contract.

`Sound` alone is not inductive, because a workspace is written some time after it
was computed. `GovernedInv` therefore says `Sound` of the disk, of the workspace
in the plan of every command under way (`PlanSound`, with what a planned proof
says of its commits) and of both sides of an open transaction (`Sides`), and adds
the shape of the repository (`Repo`: the line of a commit holds the first commit
and itself, and nothing later), of an offer and of the counted edits. TLC found no
violation of `GovernedInv`, nor of `ShownInv` below, on the instance of
`governed_work` before they were proved; the run does not keep them, since the
theorems say more.
Its proof goes by what a write adds: a proof (`NewProof`), judgements
(`NewJudgement`), the completion of one work item (`Completing`) or an edit by
hand. What a pack writes is a fold over its members; a least member at which it
would stop being sound has a sound one before it (`ExecutedSound`).

`CompletedByQuorum` then compares two counts. The kernel counts humans whose latest
decision about the current proof approves it, in the case it builds; the property
counts what stands on record. `MatchIs` says that a decision which matches the case
of work whose records are sound names its exact current attempt, evidence and
review; `QualifiedStand` that the decisions the kernel qualifies stand; and
`FewerPeople` that fewer people cannot come out of more decisions.

The other two theorems are about single steps: what a command looks at when it
plans, and what is written later.

* `CompletionsSeeTheWork`: every plan that completes work comes from a case without
  errors, hence one whose journal replays and whose evidence was compared with the
  files on the disk (`ReadySees`); `Sound` says the same hashes are those of the
  head's tree (`ProofSees`). The later members of a pack are
  judged in a workspace beside the one on the disk, which has the same contracts,
  attempts and evidence (`Beside`, `ExecutedSeen`), so what was seen of theirs is
  seen of the disk.
* `PacksWriteWhatWasShown`: what the approval of a pack adds is about members offered
  without errors, and names the proof current then. `ShownInv` says so of every plan
  (`Shown`) and of an open transaction (`Approving`), whose process is gone. Before
  the write, and before an interrupted one is repeated, the offer has to stand again
  (`PrewriteCurrent`); if it does, each member is what a new look at the store and
  the files shows, without errors again (`FaultlessMember`, `StandingWritten`).

For the delivery, a call outlives the workspace it was loaded from: the payload
goes out after the load, while plans are decided, issues imported and other items
sent. The invariants say what survives that.

* `Sound`: the workspace has its types and no reference dangles; every
  command writes such a workspace from such a workspace and keeps every item with
  its plan and its payload (`Written`); none but the end of a send makes an item
  sent, and nothing takes that back (`Moved`).
* `Holds`: what a sender loaded is still in the outbox, as the same item of the
  same plan with the same payload. `CallsKnown` says the same of every call
  Linear carried out. `CallsAreApproved` follows, since a workspace is only
  written when its queued and sent items belong to approved plans (`Valid`).
* `CallsHeld`: the call a sender has made is open, is of the item it loaded
  queued, and is in no other sender's hands. Two senders may have called for one
  item, but the write of the second is refused because the workspace is not the
  one it loaded. At the write that records an outcome the item is still queued,
  hence no call of it was recorded before (`RecordedOnce`).
* `Owned`: the issue of a link is the one that Linear made in a recorded call of a
  create item of that work (`Made`), or that of the proposal adopted as it. It is
  not about links alone: that nothing takes a link's reason away needs that no
  proposal goes or is adopted twice (`AdoptionsKept`), that an open proposal is
  nobody's work, and that a recorded call stays recorded with its issue
  (`RecordsKept`, `MadeGrows`). A sender knows the issue from its own call (`Held`),
  so the write that links it is the one that records it (`SettleLinks`); whatever
  else is written links to nothing new (`OwnedStill`).

For the refinement of `ExternalWrites`, a request is a plan, its permits are the
senders that hold its queued item and have not called, and its unrecorded writes
are those that have. The abstract specification counts them, so `PromiseInv` adds
to `OutboxInv` that only finitely many senders are at work, however many there
are, and that plans are bounded. A step of one sender changes one of these sets by
one element (`Gains`, `Loses`) and a command changes the phase of one request
(`Shifts`, `PhaseOf`); every other step leaves the promise alone. That a permit is
used only while its request is queued, or has ended since, is `Holds`.

Only model-checked: liveness (`DivergenceIsResolved`, `LockIsReleased`,
`OrphanIsReclaimed`, `PendingCommitIsResolved`: fairness and ENABLED are outside the
prover's reach). Assumed: no collisions of SHA-256, `os.replace` is atomic, an
fsynced line is durable.

## 6. Not modelled

* Path policy: pure functions on single path names; the models take the set of
  allowed paths and whether a path is in it.
* Sessions, isolation, file changes: making worktrees and reading Git's output.
  What they find is `StartCommits` (`AgentClaims`) and `Touched`
  (`WorkLifecycle`).
* Hooks: they read the claim and answer allow or deny, and change no state.
* PCAW: a document format, its canonical encoding and its validation, without
  state; what of the projection the kernel compares is in `WorkRecords`.
* Onboarding, the MCP server, mission control, guides, the command line:
  templates, request loops and presentation.
* Of modelled components: what `start_next_agent` selects; running a verification
  command and hashing its output; the replay of stored packs and deferrals;
  goals, sources and the shapes of fields in validation; signed attestations.

## 7. What could come next

The replay of stored packs; `start_next_agent`.
