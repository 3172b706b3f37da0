---------------------------- MODULE AgentClaims ----------------------------
(***************************************************************************)
(* The claim of one work item in one Git repository (agent_runtime.py,     *)
(* start_agent and release_agent).  Every worktree has its own files: the  *)
(* workspace, .palari/claims/WORK.json, its .lock and its .baseline.  The  *)
(* repository they share has two refs: the lease, which points to a blob   *)
(* that names the session, and the witness of the commit on which work     *)
(* first started.  One action is one read or one write of something        *)
(* another process can change.                                             *)
(*                                                                         *)
(* A lease is identified by a number (its blob's oid in the code); the     *)
(* claim written under it has the same number and the same expiry.         *)
(***************************************************************************)
EXTENDS Naturals

CONSTANTS
    Proc, Worktree, Palari,
    Commit,           \* what HEAD of a worktree may be
    NoClaim, NoCommit, Nowhere, Nobody,
    MaxLeases,        \* bound on starts
    MaxWrites,        \* bound on writes of other commands, per worktree
    MaxFaults         \* bound on crashes and interrupts

ASSUME ClaimsAssumption ==
    /\ NoCommit \notin Commit /\ Nowhere \notin Worktree /\ Nobody \notin Palari
    /\ MaxLeases \in Nat /\ MaxWrites \in Nat /\ MaxFaults \in Nat

VARIABLES
    lease,      \* the ref refs/palari/leases/WORK
    witness,    \* the ref refs/palari/claims/WORK and its oldest reflog entry
    claims,     \* the claim file of each worktree
    locks,      \* the lock file next to it
    baseline,   \* the commit in its .baseline
    ws,         \* the workspace file: how often it was written, and the claim
                \* that the parking of the work item names
    head,       \* HEAD
    step,       \* the next step of each process
    run,        \* the local variables of its command
    minted,     \* number of leases made
    expired,    \* the leases past their lease_expires_at
    faults

shared == <<lease, witness>>
local == <<claims, locks, baseline>>
outside == <<ws, head>>
progress == <<step, run>>
claimVars == <<shared, local, outside, progress, minted, expired, faults>>

Claim == [lease : Nat \ {0}, session : Nat \ {0}, by : Palari, snap : Nat]

ASSUME NoClaimAssumption == NoClaim \notin Claim

NoLease == [number |-> 0, session |-> 0]

NoWitness == [ref |-> NoCommit, oldest |-> NoCommit]

Active(c) == c # NoClaim /\ c.lease \notin expired

LeaseActive == lease # NoLease /\ lease.number \notin expired

(* git_lease_error: the claim names the lease the repository has.          *)
Leased(c) == c # NoClaim /\ lease.number = c.lease

(* The work item is blocked, so its packet is not ready.                   *)
Parked(w) == ws[w].parked # NoClaim

WitnessHolds(c) == witness = [ref |-> c, oldest |-> c]

-----------------------------------------------------------------------------
(* Commands and their local variables *)

StartSteps ==
    {"examine", "scan", "cas", "enter", "readWitness",
     "setWitness", "writeBaseline", "writeClaim", "revoke"}
ReleaseSteps == {"readClaim", "dropLease", "unlink"}
ParkSteps == {"parkCheck", "parkWrite", "parkConfirm"}
LockedSteps == StartSteps \cup ReleaseSteps \cup {"unlock"}
Steps == {"idle", "lock"} \cup LockedSteps \cup ParkSteps

(* The steps at which start holds the lock of the workspace file.          *)
WriteSteps == {"readWitness", "setWitness", "writeBaseline", "writeClaim"}

Command ==
    [cmd : {"none", "start", "release", "park"},
     at : Worktree \cup {Nowhere}, as : Palari \cup {Nobody},
     number : Nat, session : Nat,
     snap : Nat,                           \* projection snapshot of the claim
     seen : Nat,                           \* workspace version it has read
     renews : BOOLEAN,                     \* its own claim was active
     base : Commit \cup {NoCommit},        \* claim-start commit
     fresh : BOOLEAN,                      \* no .baseline yet
     head : Commit \cup {NoCommit},
     todo : SUBSET Worktree,               \* worktrees not yet inspected
     expect : Nat,                         \* lease read before update-ref
     claim : Claim \cup {NoClaim},         \* claim to release
     want : Claim \cup {NoClaim},          \* the only claim it may release
     strict : BOOLEAN, lenient : BOOLEAN]

Idle ==
    [cmd |-> "none", at |-> Nowhere, as |-> Nobody,
     number |-> 0, session |-> 0, snap |-> 0, seen |-> 0, renews |-> FALSE,
     base |-> NoCommit, fresh |-> FALSE, head |-> NoCommit, todo |-> {},
     expect |-> 0, claim |-> NoClaim, want |-> NoClaim,
     strict |-> FALSE, lenient |-> FALSE]

At(p, s) == step[p] = s

Go(p, s) == step' = [step EXCEPT ![p] = s]

Goto(p, s) == Go(p, s) /\ UNCHANGED run

Stop(p) == Go(p, "idle") /\ run' = [run EXCEPT ![p] = Idle]

(* Goes to the `finally` that removes the lock file.                       *)
Leave(p) ==
    /\ Go(p, "unlock")
    /\ run' = [run EXCEPT ![p] = [Idle EXCEPT !.at = run[p].at]]

(* O_EXCL on the lock file of the claim.  It is never taken for stale; a   *)
(* command that does not get it ends.                                      *)
LockClaim(w) ==
    /\ locks[w] = "free"
    /\ locks' = [locks EXCEPT ![w] = "held"]

Begin(p, cmd, s, w, a) ==
    /\ At(p, "idle")
    /\ LockClaim(w)
    /\ Go(p, s)
    /\ run' = [run EXCEPT ![p] = [Idle EXCEPT !.cmd = cmd, !.at = w, !.as = a]]

ClaimsInit ==
    /\ lease = NoLease /\ witness = NoWitness
    /\ claims = [w \in Worktree |-> NoClaim]
    /\ locks = [w \in Worktree |-> "free"]
    /\ baseline = [w \in Worktree |-> NoCommit]
    /\ ws = [w \in Worktree |-> [version |-> 0, parked |-> NoClaim]]
    /\ head \in [Worktree -> Commit]
    /\ step = [p \in Proc |-> "idle"]
    /\ run = [p \in Proc |-> Idle]
    /\ minted = 0 /\ expired = {} /\ faults = 0

Unlock(p) ==
    /\ At(p, "unlock")
    /\ locks' = [locks EXCEPT ![run[p].at] = "free"]
    /\ Stop(p)
    /\ UNCHANGED <<shared, claims, baseline, outside, minted, expired, faults>>

-----------------------------------------------------------------------------
(* start_agent *)

Start(p, w, a) ==
    /\ minted < MaxLeases
    /\ ~Parked(w)
    /\ Begin(p, "start", "examine", w, a)
    /\ UNCHANGED <<shared, claims, baseline, outside, minted, expired, faults>>

(* HEAD, or, for an isolated worktree, the verified claim-start commit of  *)
(* the worktree it was made from.                                          *)
StartCommits(w) ==
    {head[w]} \cup
      {baseline[o] : o \in {x \in Worktree : baseline[x] # NoCommit
                                             /\ WitnessHolds(baseline[x])}}

Startable(p) ==
    LET w == run[p].at IN
    /\ ~Parked(w)
    /\ Active(claims[w]) => claims[w].by = run[p].as
    /\ baseline[w] # NoCommit => WitnessHolds(baseline[w])

(* Faulty: takes the session from the repository's lease.                  *)
SessionOfLease(c, n) == IF Active(c) THEN c.session ELSE lease.session

(* A start of an active claim continues its session.                       *)
SessionFor(c, n) == IF Active(c) THEN c.session ELSE n

(* The new lease.  Its blob has times in seconds: restarted in the same     *)
(* second, a claim gets the same one again.                                *)
NumbersFor(c) == {minted + 1} \cup IF Active(c) THEN {c.lease} ELSE {}

(* The packet, the worktree's own claim, its baseline and its snapshot.    *)
Examine(p) ==
    LET w == run[p].at
        c == claims[w]
    IN /\ At(p, "examine")
       /\ minted < MaxLeases
       /\ Startable(p)
       /\ \E n \in NumbersFor(c),
            b \in IF baseline[w] # NoCommit THEN {baseline[w]} ELSE StartCommits(w) :
            /\ minted' = IF n > minted THEN n ELSE minted
            /\ run' = [run EXCEPT ![p] =
                 [Idle EXCEPT !.cmd = "start", !.at = w, !.as = run[p].as,
                              !.number = n, !.session = SessionFor(c, n),
                              !.renews = Active(c),
                              !.snap = IF Active(c) THEN c.snap ELSE ws[w].version,
                              !.seen = ws[w].version,
                              !.base = b, !.fresh = (baseline[w] = NoCommit),
                              !.head = head[w], !.todo = Worktree \ {w}]]
       /\ Go(p, "scan")
       /\ UNCHANGED <<shared, local, outside, expired, faults>>

(* One of the errors before the lease: another Palari's claim, a changed   *)
(* packet, contract or authority, a witness that does not match.           *)
Refuse(p) ==
    /\ At(p, "examine")
    /\ Leave(p)
    /\ UNCHANGED <<shared, local, outside, minted, expired, faults>>

(* _foreign_registered_claim, one worktree at a time.                      *)
Scan(p, o) ==
    /\ At(p, "scan")
    /\ o \in run[p].todo
    /\ IF Active(claims[o])
         THEN Leave(p)
         ELSE run' = [run EXCEPT ![p].todo = @ \ {o}] /\ UNCHANGED step
    /\ UNCHANGED <<shared, local, outside, minted, expired, faults>>

(* Faulty: does not look at the session.                                   *)
AnyLease(p) == TRUE

(* No live lease of another session.                                       *)
LeaseIsFree(p) == LeaseActive => lease.session = run[p].session

ReadLease(p) ==
    /\ At(p, "scan") /\ run[p].todo = {}
    /\ IF LeaseIsFree(p)
         THEN Go(p, "cas") /\ run' = [run EXCEPT ![p].expect = lease.number]
         ELSE Leave(p)
    /\ UNCHANGED <<shared, local, outside, minted, expired, faults>>

(* Faulty: update-ref without the old value.                               *)
Overwrites(p) == TRUE

(* update-ref with the old value that was read.                            *)
CasSucceeds(p) == lease.number = run[p].expect

AcquireLease(p) ==
    /\ At(p, "cas")
    /\ CasSucceeds(p)
    /\ lease' = [number |-> run[p].number, session |-> run[p].session]
    /\ Goto(p, "enter")
    /\ UNCHANGED <<witness, local, outside, minted, expired, faults>>

(* Tries again, or gives up after the fourth time.                         *)
LoseCas(p) ==
    /\ At(p, "cas")
    /\ ~CasSucceeds(p)
    /\ Goto(p, "scan") \/ Leave(p)
    /\ UNCHANGED <<shared, local, outside, minted, expired, faults>>

(* _final_start_revalidation and the checks after it.                      *)
StillCurrent(p) ==
    LET w == run[p].at IN
    /\ ~Parked(w)
    /\ ws[w].version = run[p].snap
    /\ run[p].renews \/ head[w] = run[p].head
    /\ run[p].fresh \/ WitnessHolds(run[p].base)

Enter(p) ==
    /\ At(p, "enter")
    /\ StillCurrent(p)
    /\ Go(p, IF run[p].fresh THEN "readWitness" ELSE "writeClaim")
    /\ run' = [run EXCEPT ![p] =
                 [Idle EXCEPT !.at = run[p].at, !.as = run[p].as,
                              !.number = run[p].number, !.session = run[p].session,
                              !.snap = run[p].snap, !.base = run[p].base]]
    /\ UNCHANGED <<shared, local, outside, minted, expired, faults>>

(* _create_git_witness reads the ref, and creates it without an old value. *)
ReadWitness(p) ==
    /\ At(p, "readWitness")
    /\ \/ witness.ref = NoCommit /\ Goto(p, "setWitness")
       \/ WitnessHolds(run[p].base) /\ Goto(p, "writeBaseline")
    /\ UNCHANGED <<shared, local, outside, minted, expired, faults>>

WitnessAfter(b) ==
    [ref |-> b, oldest |-> IF witness.oldest = NoCommit THEN b ELSE witness.oldest]

(* Faulty: does not compare the oldest entry of the reflog.                *)
AnyOrigin(b) == TRUE

(* _git_witness_history_error of the ref just written.                     *)
IsOrigin(b) == WitnessAfter(b).oldest = b

SetWitness(p) ==
    /\ At(p, "setWitness")
    /\ witness' = WitnessAfter(run[p].base)
    /\ Goto(p, IF IsOrigin(run[p].base) THEN "writeBaseline" ELSE "revoke")
    /\ UNCHANGED <<lease, local, outside, minted, expired, faults>>

WriteBaseline(p) ==
    /\ At(p, "writeBaseline")
    /\ baseline' = [baseline EXCEPT ![run[p].at] = run[p].base]
    /\ Goto(p, "writeClaim")
    /\ UNCHANGED <<shared, claims, locks, outside, minted, expired, faults>>

(* The claim file; the packet and the contract it names are written first. *)
WriteClaim(p) ==
    /\ At(p, "writeClaim")
    /\ claims' = [claims EXCEPT ![run[p].at] =
                    [lease |-> run[p].number, session |-> run[p].session,
                     by |-> run[p].as, snap |-> run[p].snap]]
    /\ Leave(p)
    /\ UNCHANGED <<shared, locks, baseline, outside, minted, expired, faults>>

(* Faulty: leaves the lease to its expiry.                                 *)
FailAtOnce(p) == Leave(p)

FailAndRevoke(p) == Goto(p, "revoke")

(* Any exception after the lease was acquired.                             *)
Abandon(p) ==
    /\ step[p] \in {"enter"} \cup WriteSteps
    /\ FailAndRevoke(p)
    /\ UNCHANGED <<shared, local, outside, minted, expired, faults>>

(* Faulty: deletes whatever lease there is.                                *)
DropsAny(n) == TRUE

(* _release_git_lease compares the oid, and update-ref -d compares it again. *)
DropsLease(n) == lease.number = n

RevokeLease(p) ==
    /\ At(p, "revoke")
    /\ lease' = IF DropsLease(run[p].number) THEN NoLease ELSE lease
    /\ Leave(p)
    /\ UNCHANGED <<witness, local, outside, minted, expired, faults>>

StartStep(p) ==
    \/ Examine(p) \/ Refuse(p) \/ ReadLease(p) \/ AcquireLease(p) \/ LoseCas(p)
    \/ Enter(p) \/ ReadWitness(p) \/ SetWitness(p) \/ WriteBaseline(p)
    \/ WriteClaim(p) \/ Abandon(p) \/ RevokeLease(p)
    \/ \E o \in Worktree : Scan(p, o)

-----------------------------------------------------------------------------
(* release_agent *)

Release(p, w, a) ==
    /\ Begin(p, "release", "readClaim", w, a)
    /\ UNCHANGED <<shared, claims, baseline, outside, minted, expired, faults>>

(* The release at the end of a parking.                                    *)
LockToRelease(p) ==
    /\ At(p, "lock")
    /\ LockClaim(run[p].at)
    /\ Goto(p, "readClaim")
    /\ UNCHANGED <<shared, claims, baseline, outside, minted, expired, faults>>

ReleaseRefused(p) ==
    /\ At(p, "lock")
    /\ locks[run[p].at] # "free"
    /\ Stop(p)
    /\ UNCHANGED <<shared, local, outside, minted, expired, faults>>

(* _assert_release_claim_unchanged, when the caller expects a claim.       *)
Releasable(p, c) ==
    /\ c # NoClaim /\ c.by = run[p].as
    /\ run[p].want \in {NoClaim, c}

ReadClaim(p) ==
    LET c == claims[run[p].at] IN
    /\ At(p, "readClaim")
    /\ IF Releasable(p, c)
         THEN /\ Go(p, "dropLease")
              /\ run' = [run EXCEPT ![p] =
                           [Idle EXCEPT !.cmd = run[p].cmd, !.at = run[p].at,
                                        !.as = run[p].as, !.claim = c,
                                        !.strict = Active(c), !.lenient = run[p].lenient]]
         ELSE Leave(p)
    /\ UNCHANGED <<shared, local, outside, minted, expired, faults>>

(* An expired claim may have lost its lease to another session; a resumed  *)
(* parking may have deleted it before.                                     *)
MayLackLease(p) == ~run[p].strict \/ (run[p].lenient /\ lease = NoLease)

DropLease(p) ==
    /\ At(p, "dropLease")
    /\ IF DropsLease(run[p].claim.lease)
         THEN lease' = NoLease /\ Goto(p, "unlink")
         ELSE lease' = lease /\ IF MayLackLease(p) THEN Goto(p, "unlink") ELSE Leave(p)
    /\ UNCHANGED <<witness, local, outside, minted, expired, faults>>

Unlink(p) ==
    LET w == run[p].at IN
    /\ At(p, "unlink")
    /\ claims' = IF claims[w] = run[p].claim THEN [claims EXCEPT ![w] = NoClaim] ELSE claims
    /\ Leave(p)
    /\ UNCHANGED <<shared, locks, baseline, outside, minted, expired, faults>>

ReleaseStep(p) ==
    LockToRelease(p) \/ ReleaseRefused(p) \/ ReadClaim(p) \/ DropLease(p) \/ Unlink(p)

-----------------------------------------------------------------------------
(* What happens around a command *)

(* lease_expires_at passes; leases have lengths of their own.              *)
Expire(n) ==
    /\ n \in 1..minted \ expired
    /\ expired' = expired \cup {n}
    /\ UNCHANGED <<shared, local, outside, progress, minted, faults>>

(* Somebody commits, or checks out another commit.                         *)
MoveHead(w, c) ==
    /\ c # head[w]
    /\ head' = [head EXCEPT ![w] = c]
    /\ UNCHANGED <<shared, local, ws, progress, minted, expired, faults>>

WorkspaceLocked(w) == \E p \in Proc : run[p].at = w /\ step[p] \in WriteSteps

(* Another command writes the workspace, nothing of this work item.        *)
WriteWorkspace(w) ==
    /\ ws[w].version < MaxWrites
    /\ ~WorkspaceLocked(w)
    /\ ws' = [ws EXCEPT ![w].version = @ + 1]
    /\ UNCHANGED <<shared, local, head, progress, minted, expired, faults>>

(* Control-C: `finally` runs, `except Exception` does not.                 *)
Interrupt(p) ==
    /\ faults < MaxFaults
    /\ step[p] \in LockedSteps \ {"unlock"}
    /\ Leave(p)
    /\ faults' = faults + 1
    /\ UNCHANGED <<shared, local, outside, minted, expired>>

(* The process dies.  A lock file it created stays.                        *)
Crash(p) ==
    /\ faults < MaxFaults
    /\ ~At(p, "idle")
    /\ locks' = IF step[p] \in LockedSteps
                  THEN [locks EXCEPT ![run[p].at] = "orphan"] ELSE locks
    /\ Stop(p)
    /\ faults' = faults + 1
    /\ UNCHANGED <<shared, claims, baseline, outside, minted, expired>>

Around ==
    \/ \E n \in 1..minted : Expire(n)
    \/ \E w \in Worktree : WriteWorkspace(w) \/ \E c \in Commit : MoveHead(w, c)
    \/ \E p \in Proc : Interrupt(p) \/ Crash(p)

ClaimsNext ==
    \/ \E p \in Proc :
         \/ StartStep(p) \/ ReleaseStep(p) \/ Unlock(p)
         \/ \E w \in Worktree, a \in Palari : Start(p, w, a) \/ Release(p, w, a)
    \/ Around

ClaimsSpec == ClaimsInit /\ [][ClaimsNext]_claimVars
-----------------------------------------------------------------------------
(* Properties *)

(* The claim check passes in this worktree: the claim has not expired and  *)
(* the repository's lease is its own.                                      *)
Held(w) == Active(claims[w]) /\ Leased(claims[w])

(* Types of every variable, the local ones of commands included.           *)
ClaimsTypeOK ==
    /\ lease \in [number : Nat, session : Nat]
    /\ witness \in [ref : Commit \cup {NoCommit}, oldest : Commit \cup {NoCommit}]
    /\ claims \in [Worktree -> Claim \cup {NoClaim}]
    /\ locks \in [Worktree -> {"free", "held", "orphan"}]
    /\ baseline \in [Worktree -> Commit \cup {NoCommit}]
    /\ ws \in [Worktree -> [version : Nat, parked : Claim \cup {NoClaim}]]
    /\ head \in [Worktree -> Commit]
    /\ step \in [Proc -> Steps] /\ run \in [Proc -> Command]
    /\ minted \in Nat /\ faults \in Nat
    /\ expired \subseteq 1..minted

Ends(w) == Held(w) /\ ~Held(w)'

OwnerActs(w) ==
    \E p \in Proc : step'[p] # step[p] /\ run[p].at = w /\ run[p].as = claims[w].by

(* A claim that can be used ends in two ways: its lease expires, or its own *)
(* Palari runs a command in its own worktree.  No other worktree and no    *)
(* other Palari can take it away, whatever they start, release, lose or    *)
(* leave behind (_claim_git_lease, _release_git_lease).                    *)
EndsOnlyByItsOwner ==
    [][\A w \in Worktree :
         Ends(w) => claims[w].lease \in expired' \/ OwnerActs(w)]_claimVars

(* What survives a start, the witness, the baseline and the claim, is      *)
(* written by the session that has the lease, or had it until it expired;  *)
(* "a competing worktree must win the repository-shared lease before it    *)
(* can create any durable local baseline or shared witness" (start_agent). *)
PersistsUnderLease ==
    [][\A p \in Proc :
         step[p] \in WriteSteps /\ <<witness, baseline, claims>>' # <<witness, baseline, claims>>
           /\ step'[p] # step[p] =>
             lease.number = run[p].number \/ run[p].number \in expired]_claimVars

(* All worktrees measure the work from one commit, the first in the        *)
(* reflog of the witness, and restarting does not move it: later changes   *)
(* cannot pass as older ones.  Also if two first starts overlap because    *)
(* the lease of one ran out.                                               *)
OneClaimStart ==
    \A w \in Worktree : baseline[w] # NoCommit => baseline[w] = witness.oldest

(* A restart of an active claim takes the lease only if its projection     *)
(* snapshot still matched the workspace it examined: "exact live-          *)
(* projection digests, and projection-snapshot binding are checked before  *)
(* restart lease acquisition" (docs/product/security.md:94).               *)
RestartVerifiesFirst ==
    [][\A p \in Proc :
         At(p, "cas") /\ lease' # lease /\ step'[p] # step[p] /\ run[p].renews =>
           run[p].seen = run[p].snap]_claimVars

(* A live lease belongs to a start in progress or to a claim a worktree    *)
(* has: a start that fails does not keep the work item from others until   *)
(* its lease expires.  Interrupts and crashes do.                          *)
NoLeakedLease ==
    faults = 0 /\ LeaseActive =>
      \/ \E w \in Worktree : Leased(claims[w])
      \/ \E p \in Proc : run[p].number = lease.number
=============================================================================
