------------------------- MODULE AgentClaimsProofs -------------------------
(***************************************************************************)
(* Claims and parking, for every number of processes, worktrees, Palaris   *)
(* and commits, and without any bound.                                     *)
(***************************************************************************)
EXTENDS AgentParking, TLAPS

(* A start that has chosen its number and its session.                     *)
StartedSteps == StartSteps \ {"examine"}

(* The local variables that step s uses.                                   *)
LocalOK(s, r) ==
    /\ s # "idle" => r.at \in Worktree
    /\ s \in StartSteps \cup ReleaseSteps \cup ParkSteps \cup {"lock"} => r.as \in Palari
    /\ s \in StartedSteps => r.number # 0 /\ r.session # 0 /\ r.base \in Commit
    /\ r.number # 0 => s \in StartedSteps
    /\ s \in {"dropLease", "unlink"} => r.claim # NoClaim
    /\ r.claim # NoClaim => r.claim.by = r.as /\ s \in {"dropLease", "unlink"}

Locals == \A p \in Proc : LocalOK(step[p], run[p])

(* A claim lock is held by one process.                                    *)
Exclusive ==
    \A p \in Proc : step[p] \in LockedSteps =>
      /\ locks[run[p].at] # "free"
      /\ \A q \in Proc : step[q] \in LockedSteps /\ run[q].at = run[p].at => q = p

(* Session s was given lease n.                                            *)
Named(n, s) ==
    /\ n # 0
    /\ \/ lease.number = n /\ lease.session = s
       \/ \E w \in Worktree : /\ claims[w] # NoClaim
                             /\ claims[w].lease = n /\ claims[w].session = s
       \/ \E p \in Proc : run[p].number = n /\ run[p].session = s
       \/ \E p \in Proc : /\ run[p].claim # NoClaim
                         /\ run[p].claim.lease = n /\ run[p].claim.session = s

(* Session s belongs to Palari a in worktree w.                            *)
Owned(s, w, a) ==
    \/ claims[w] # NoClaim /\ claims[w].session = s /\ claims[w].by = a
    \/ \E p \in Proc : /\ run[p].number # 0 /\ run[p].session = s
                       /\ run[p].at = w /\ run[p].as = a
    \/ \E p \in Proc : /\ run[p].claim # NoClaim /\ run[p].claim.session = s
                       /\ run[p].at = w /\ run[p].claim.by = a

(* A lease has one session, and none is in use before it is made.          *)
NumbersAgree ==
    \A n, s \in Nat : Named(n, s) =>
      /\ n \in 1..minted
      /\ \A t \in Nat : Named(n, t) => t = s

(* A session has one worktree and one Palari.                              *)
SessionsAgree ==
    \A s \in Nat, w \in Worktree, a \in Palari : Owned(s, w, a) =>
      /\ s \in 1..minted
      /\ \A v \in Worktree, b \in Palari : Owned(s, v, b) => v = w /\ b = a

(* While a start runs, an active claim in its worktree is its Palari's.    *)
OwnClaim ==
    \A p \in Proc : step[p] \in StartedSteps /\ Active(claims[run[p].at]) =>
      claims[run[p].at].by = run[p].as

(* The lease that a start is about to replace is none, expired or its own. *)
ReplacesItsOwn ==
    \A p \in Proc : step[p] = "cas" =>
      /\ run[p].expect \in 0..minted
      /\ \/ run[p].expect \in {0} \cup expired
         \/ \A s \in Nat : Named(run[p].expect, s) => s = run[p].session

LeasedSteps == {"enter", "revoke"} \cup WriteSteps

HasLease ==
    \A p \in Proc : step[p] \in LeasedSteps =>
      lease.number = run[p].number \/ run[p].number \in expired

ClaimsInv ==
    /\ ClaimsTypeOK /\ Locals /\ Exclusive
    /\ NumbersAgree /\ SessionsAgree
    /\ OwnClaim /\ ReplacesItsOwn /\ HasLease

(* A baseline is only written for the oldest entry of the witness.         *)
FromOldest ==
    \A p \in Proc : step[p] = "writeBaseline" =>
      run[p].base = witness.oldest /\ witness.oldest # NoCommit

(* What a parking knows of the record, which is written once.              *)
ParkingInv ==
    \A p \in Proc :
      /\ step[p] \in {"parkCheck", "parkWrite"} => run[p].want # NoClaim
      /\ step[p] = "parkWrite" =>
           /\ run[p].seen <= ws[run[p].at].version
           /\ ws[run[p].at].version = run[p].seen => ~Parked(run[p].at)
      /\ step[p] = "parkConfirm" \/ (run[p].cmd = "park" /\ step[p] \in {"lock", "readClaim"}) =>
           run[p].want # NoClaim /\ ws[run[p].at].parked = run[p].want
      /\ run[p].cmd = "park" /\ step[p] \in {"dropLease", "unlink"} =>
           ws[run[p].at].parked = run[p].claim
-----------------------------------------------------------------------------
(* Types *)

(* One process gets other local variables.                                 *)
LEMMA RunAgain ==
    ASSUME run \in [Proc -> Command], NEW p \in Proc, NEW r \in Command,
           run' = [run EXCEPT ![p] = r]
    PROVE  run' \in [Proc -> Command]
  OBVIOUS

(* One process goes to another step.                                       *)
LEMMA StepAgain ==
    ASSUME step \in [Proc -> Steps], NEW p \in Proc, NEW s \in Steps, Go(p, s)
    PROVE  step' \in [Proc -> Steps]
  BY DEF Go

(* The local variables of an idle process.                                 *)
LEMMA IdleIsTyped == Idle \in Command
  BY DEF Idle, Command

(* The local variables of a process that only has to unlock.               *)
LEMMA LeftIsTyped ==
    ASSUME NEW w \in Worktree
    PROVE  [Idle EXCEPT !.at = w] \in Command
  BY DEF Idle, Command

(* The local variables of a command that begins.                           *)
LEMMA BegunIsTyped ==
    ASSUME NEW w \in Worktree, NEW a \in Palari, NEW c \in {"start", "release", "park"}
    PROVE  [Idle EXCEPT !.cmd = c, !.at = w, !.as = a] \in Command
  BY DEF Idle, Command

(* The local variables of a start that has chosen its session.             *)
LEMMA ExaminedIsTyped ==
    ASSUME NEW w \in Worktree, NEW a \in Palari, NEW n \in Nat, NEW s \in Nat,
           NEW x \in BOOLEAN, NEW d \in Nat, NEW e \in Nat, NEW b \in Commit,
           NEW f \in BOOLEAN, NEW h \in Commit, NEW t \in SUBSET Worktree
    PROVE  [Idle EXCEPT !.cmd = "start", !.at = w, !.as = a,
                        !.number = n, !.session = s, !.renews = x,
                        !.snap = d, !.seen = e, !.base = b, !.fresh = f,
                        !.head = h, !.todo = t] \in Command
  BY DEF Idle, Command

-----------------------------------------------------------------------------
(* The local effect of a step *)

(* Process p goes to step s with local variables r.                        *)
Moves(p, s, r) ==
    /\ step' = [step EXCEPT ![p] = s]
    /\ run' = [run EXCEPT ![p] = r]

(* r identifies no start and no claim that run[p] or the claim file of its *)
(* worktree did not.                                                       *)
NothingNew(p, r) ==
    /\ \/ r.number = 0
       \/ /\ r.number = run[p].number /\ r.session = run[p].session
          /\ r.at = run[p].at /\ r.as = run[p].as
    /\ \/ r.claim = NoClaim
       \/ r.claim \in {run[p].claim, claims[run[p].at]} /\ r.at = run[p].at

(* p keeps the claim lock it had, or has none.                             *)
KeepsLock(p, s, r) ==
    s \in LockedSteps => step[p] \in LockedSteps /\ r.at = run[p].at

(* Step s suits local variables r.                                         *)
Typed(s, r) == s \in Steps /\ r \in Command /\ LocalOK(s, r)

USE DEF Typed

(* A process that moves to a typed state keeps the types.                  *)
LEMMA MovedTypes ==
    ASSUME ClaimsTypeOK, Locals, NEW p \in Proc, NEW s, NEW r, Typed(s, r), Moves(p, s, r)
    PROVE  /\ step' \in [Proc -> Steps] /\ run' \in [Proc -> Command]
           /\ Locals'
  BY DEF ClaimsTypeOK, Locals, Moves

(* Going on changes no local variable.                                     *)
LEMMA GotoMoves ==
    ASSUME ClaimsTypeOK, NEW p \in Proc, NEW s, Goto(p, s)
    PROVE  Moves(p, s, run[p]) /\ NothingNew(p, run[p])
  BY DEF ClaimsTypeOK, Goto, Go, Moves, NothingNew

(* An idle process knows nothing and holds nothing.                        *)
LEMMA IdleIs ==
    /\ Typed("idle", Idle)
    /\ \A p : NothingNew(p, Idle) /\ KeepsLock(p, "idle", Idle)
  BY IdleIsTyped DEF Idle, LocalOK, StartSteps, StartedSteps, ReleaseSteps, ParkSteps, NothingNew, KeepsLock,
     LockedSteps, Steps

(* A command that stops is idle.                                           *)
LEMMA StopMoves ==
    ASSUME NEW p \in Proc, Stop(p)
    PROVE  Moves(p, "idle", Idle)
  BY DEF Stop, Go, Moves

(* A command that leaves keeps only its lock.                              *)
LEMMA LeaveMoves ==
    ASSUME ClaimsTypeOK, Locals, NEW p \in Proc, step[p] \in LockedSteps, Leave(p)
    PROVE  \E r : /\ Moves(p, "unlock", r) /\ Typed("unlock", r)
                 /\ NothingNew(p, r) /\ KeepsLock(p, "unlock", r)
  <1> DEFINE r == [Idle EXCEPT !.at = run[p].at]
  <1>1. run[p].at \in Worktree
    BY DEF Locals, LocalOK, LockedSteps, StartSteps, ReleaseSteps
  <1>2. r.at = run[p].at /\ r.number = 0 /\ r.claim = NoClaim
    BY DEF Idle
  <1>3. r \in Command
    BY <1>1, LeftIsTyped
  <1>4. Typed("unlock", r)
    BY <1>1, <1>2, <1>3 DEF LocalOK, StartSteps, StartedSteps, ReleaseSteps, ParkSteps, Steps, LockedSteps
  <1>5. Moves(p, "unlock", r)
    BY DEF Leave, Go, Moves
  <1> HIDE DEF r
  <1> QED
    BY <1>2, <1>4, <1>5 DEF NothingNew, KeepsLock

(* What every step but the beginning of a command, the taking of a lock    *)
(* and the choice of a number does to the process that takes it.           *)
Effect(p) ==
    \E s, r : /\ Moves(p, s, r) /\ Typed(s, r)
              /\ NothingNew(p, r) /\ KeepsLock(p, s, r)

(* A command that stops does so like any step.                             *)
LEMMA StopEffect ==
    ASSUME NEW p \in Proc, Stop(p)
    PROVE  Effect(p)
  BY StopMoves, IdleIs DEF Effect

(* So does one that leaves.                                                *)
LEMMA LeaveEffect ==
    ASSUME ClaimsTypeOK, Locals, NEW p \in Proc, step[p] \in LockedSteps, Leave(p)
    PROVE  Effect(p)
  BY LeaveMoves DEF Effect

(* So does one that goes on within its command.                            *)
LEMMA GotoEffect ==
    ASSUME ClaimsTypeOK, Locals, NEW p \in Proc, NEW s, Goto(p, s),
           \/ step[p] \in StartedSteps /\ s \in StartedSteps
           \/ step[p] = "dropLease" /\ s = "unlink"
           \/ step[p] = "parkWrite" /\ s = "parkConfirm"
           \/ step[p] = "parkConfirm" /\ s = "lock"
    PROVE  Effect(p)
  <1>1. Moves(p, s, run[p]) /\ NothingNew(p, run[p])
    BY GotoMoves
  <1>2. run[p] \in Command
    BY DEF ClaimsTypeOK
  <1>3. s \in Steps
    BY DEF Steps, StartedSteps, LockedSteps, ParkSteps, ReleaseSteps
  <1>4. LocalOK(s, run[p])
    BY DEF Locals, LocalOK, StartedSteps, StartSteps, ParkSteps, ReleaseSteps
  <1>5. KeepsLock(p, s, run[p])
    BY DEF KeepsLock, LockedSteps, StartSteps, StartedSteps, ParkSteps, ReleaseSteps
  <1> QED
    BY <1>1, <1>2, <1>3, <1>4, <1>5 DEF Effect

(* A start that has looked at one more worktree.                           *)
LEMMA ScanEffect ==
    ASSUME ClaimsTypeOK, Locals, NEW p \in Proc, NEW o \in Worktree, Scan(p, o)
    PROVE  Effect(p)
  <1>1. CASE Active(claims[o])
    BY <1>1, LeaveEffect DEF Scan, At, LockedSteps, StartSteps
  <1>2. CASE ~Active(claims[o])
    <2> DEFINE r == [run[p] EXCEPT !.todo = @ \ {o}]
    <2>1. run[p] \in Command
      BY DEF ClaimsTypeOK
    <2>2. r \in Command
      BY <2>1 DEF Command
    <2>3. step' = [step EXCEPT ![p] = "scan"]
      BY <1>2 DEF Scan, At, ClaimsTypeOK
    <2>4. run' = [run EXCEPT ![p] = r]
      BY <1>2 DEF Scan
    <2>5. /\ r.at = run[p].at /\ r.as = run[p].as /\ r.number = run[p].number
          /\ r.session = run[p].session /\ r.base = run[p].base /\ r.claim = run[p].claim
      BY <2>1 DEF Command
    <2>6. step[p] = "scan"
      BY DEF Scan, At
    <2> HIDE DEF r
    <2>7. LocalOK("scan", r)
      BY <2>5, <2>6 DEF Locals, LocalOK
    <2>8. NothingNew(p, r) /\ KeepsLock(p, "scan", r)
      BY <2>5, <2>6 DEF NothingNew, KeepsLock
    <2> QED
      BY <2>2, <2>3, <2>4, <2>7, <2>8 DEF Effect, Moves, Steps, LockedSteps, StartSteps
  <1> QED
    BY <1>1, <1>2

(* A start that has read the lease.                                        *)
LEMMA ReadLeaseEffect ==
    ASSUME ClaimsTypeOK, Locals, NEW p \in Proc, ReadLease(p)
    PROVE  Effect(p)
  <1>1. CASE ~LeaseIsFree(p)
    BY <1>1, LeaveEffect DEF ReadLease, At, LockedSteps, StartSteps
  <1>2. CASE LeaseIsFree(p)
    <2> DEFINE r == [run[p] EXCEPT !.expect = lease.number]
    <2>1. run[p] \in Command /\ lease.number \in Nat
      BY DEF ClaimsTypeOK
    <2>2. r \in Command
      BY <2>1 DEF Command
    <2>3. Moves(p, "cas", r)
      BY <1>2 DEF ReadLease, Go, Moves
    <2>4. /\ r.at = run[p].at /\ r.as = run[p].as /\ r.number = run[p].number
          /\ r.session = run[p].session /\ r.base = run[p].base /\ r.claim = run[p].claim
      BY <2>1 DEF Command
    <2>5. step[p] = "scan"
      BY DEF ReadLease, At
    <2> HIDE DEF r
    <2>6. LocalOK("cas", r)
      BY <2>4, <2>5 DEF Locals, LocalOK, StartSteps, StartedSteps, ReleaseSteps, ParkSteps
    <2>7. NothingNew(p, r) /\ KeepsLock(p, "cas", r)
      BY <2>4, <2>5 DEF NothingNew, KeepsLock, LockedSteps, StartSteps
    <2> QED
      BY <2>2, <2>3, <2>6, <2>7 DEF Effect, Steps, LockedSteps, StartSteps
  <1> QED
    BY <1>1, <1>2

(* A start that enters the writer lock.                                    *)
LEMMA EnterEffect ==
    ASSUME ClaimsTypeOK, Locals, NEW p \in Proc, Enter(p)
    PROVE  Effect(p)
  <1> DEFINE r == [Idle EXCEPT !.at = run[p].at, !.as = run[p].as,
                               !.number = run[p].number, !.session = run[p].session,
                               !.snap = run[p].snap, !.base = run[p].base]
             s == IF run[p].fresh THEN "readWitness" ELSE "writeClaim"
  <1>1. run[p] \in Command /\ step[p] = "enter"
    BY DEF ClaimsTypeOK, Enter, At
  <1>2. r \in Command
    <2>1. /\ run[p].at \in Worktree \cup {Nowhere} /\ run[p].as \in Palari \cup {Nobody}
          /\ run[p].number \in Nat /\ run[p].session \in Nat /\ run[p].snap \in Nat
          /\ run[p].base \in Commit \cup {NoCommit}
      BY <1>1 DEF Command
    <2> QED
      BY <2>1 DEF Command, Idle
  <1>3. Moves(p, s, r)
    BY DEF Enter, Go, Moves
  <1>4. /\ r.at = run[p].at /\ r.as = run[p].as /\ r.number = run[p].number
        /\ r.session = run[p].session /\ r.base = run[p].base /\ r.claim = NoClaim
    BY DEF Idle
  <1>5. s \in {"readWitness", "writeClaim"}
    OBVIOUS
  <1> HIDE DEF r, s
  <1>6. LocalOK(s, r)
    BY <1>1, <1>4, <1>5 DEF Locals, LocalOK, StartSteps, StartedSteps, ReleaseSteps, ParkSteps
  <1>7. NothingNew(p, r) /\ KeepsLock(p, s, r)
    BY <1>1, <1>4 DEF NothingNew, KeepsLock, LockedSteps, StartSteps
  <1> QED
    BY <1>2, <1>3, <1>5, <1>6, <1>7 DEF Effect, Steps, LockedSteps, StartSteps

(* Every step of a start but Examine is an Effect.                         *)
LEMMA StartEffect ==
    ASSUME ClaimsTypeOK, Locals, NEW p \in Proc, StartStep(p)
    PROVE  Examine(p) \/ Effect(p)
  <1>1. CASE Refuse(p)
    BY <1>1, LeaveEffect DEF Refuse, At, LockedSteps, StartSteps
  <1>2. CASE AcquireLease(p)
    BY <1>2, GotoEffect DEF AcquireLease, At, StartedSteps, StartSteps
  <1>3. CASE LoseCas(p)
    BY <1>3, GotoEffect, LeaveEffect DEF LoseCas, At, StartedSteps, LockedSteps, StartSteps
  <1>4. CASE ReadWitness(p)
    BY <1>4, GotoEffect DEF ReadWitness, At, StartedSteps, StartSteps
  <1>5. CASE SetWitness(p)
    BY <1>5, GotoEffect DEF SetWitness, At, StartedSteps, StartSteps
  <1>6. CASE WriteBaseline(p)
    BY <1>6, GotoEffect DEF WriteBaseline, At, StartedSteps, StartSteps
  <1>7. CASE WriteClaim(p)
    BY <1>7, LeaveEffect DEF WriteClaim, At, LockedSteps, StartSteps
  <1>8. CASE Abandon(p)
    BY <1>8, GotoEffect DEF Abandon, FailAndRevoke, WriteSteps, StartedSteps, StartSteps
  <1>9. CASE RevokeLease(p)
    BY <1>9, LeaveEffect DEF RevokeLease, At, LockedSteps, StartSteps
  <1> QED
    BY <1>1, <1>2, <1>3, <1>4, <1>5, <1>6, <1>7, <1>8, <1>9,
       ScanEffect, ReadLeaseEffect, EnterEffect DEF StartStep

(* A release that has read its claim.                                      *)
LEMMA ReadClaimEffect ==
    ASSUME ClaimsTypeOK, Locals, NEW p \in Proc, ReadClaim(p)
    PROVE  Effect(p)
  <1> DEFINE c == claims[run[p].at]
             r == [Idle EXCEPT !.cmd = run[p].cmd, !.at = run[p].at,
                               !.as = run[p].as, !.claim = c,
                               !.strict = Active(c), !.lenient = run[p].lenient]
  <1>1. run[p] \in Command /\ step[p] = "readClaim"
    BY DEF ClaimsTypeOK, ReadClaim, At
  <1>2. run[p].at \in Worktree /\ run[p].as \in Palari
    BY <1>1 DEF Locals, LocalOK, ReleaseSteps
  <1>3. CASE ~Releasable(p, c)
    BY <1>1, <1>3, LeaveEffect DEF ReadClaim, LockedSteps, ReleaseSteps
  <1>4. CASE Releasable(p, c)
    <2>1. c \in Claim
      BY <1>2, <1>4 DEF ClaimsTypeOK, Releasable
    <2>2. Active(c) \in BOOLEAN
      BY DEF Active
    <2>. HIDE DEF c
    <2>9. /\ run[p].cmd \in {"none", "start", "release", "park"}
          /\ run[p].lenient \in BOOLEAN
      BY <1>1 DEF Command
    <2>3. r \in Command
      <3>1. \A x \in BOOLEAN :
              [Idle EXCEPT !.cmd = run[p].cmd, !.at = run[p].at,
                           !.as = run[p].as, !.claim = c,
                           !.strict = x, !.lenient = run[p].lenient] \in Command
        BY <1>2, <2>1, <2>9 DEF Command, Idle
      <3> QED
        BY <2>2, <3>1
    <2>. USE DEF c
    <2>4. Moves(p, "dropLease", r)
      BY <1>4 DEF ReadClaim, Go, Moves
    <2>5. r.at = run[p].at /\ r.as = run[p].as /\ r.number = 0 /\ r.claim = c
      BY DEF Idle
    <2>6. c # NoClaim /\ c.by = run[p].as
      BY <1>4 DEF Releasable
    <2> HIDE DEF r
    <2>7. LocalOK("dropLease", r)
      BY <1>2, <2>5, <2>6 DEF LocalOK, StartSteps, StartedSteps
    <2>8. NothingNew(p, r) /\ KeepsLock(p, "dropLease", r)
      BY <1>1, <2>5 DEF NothingNew, KeepsLock, LockedSteps, ReleaseSteps
    <2> QED
      BY <2>3, <2>4, <2>7, <2>8 DEF Effect, Steps, LockedSteps, ReleaseSteps
  <1> QED
    BY <1>3, <1>4

(* Every step of a release that does not take the lock is an Effect.       *)
LEMMA ReleaseEffect ==
    ASSUME ClaimsTypeOK, Locals, NEW p \in Proc, ReleaseStep(p)
    PROVE  LockToRelease(p) \/ Effect(p)
  <1>1. CASE ReleaseRefused(p)
    BY <1>1, StopEffect DEF ReleaseRefused
  <1>2. CASE DropLease(p)
    BY <1>2, GotoEffect, LeaveEffect DEF DropLease, At, LockedSteps, ReleaseSteps
  <1>3. CASE Unlink(p)
    BY <1>3, LeaveEffect DEF Unlink, At, LockedSteps, ReleaseSteps
  <1> QED
    BY <1>1, <1>2, <1>3, ReadClaimEffect DEF ReleaseStep

(* Beginning or resuming a parking.                                        *)
LEMMA ParkEffect ==
    ASSUME ClaimsTypeOK, Locals, NEW p \in Proc, NEW w \in Worktree, NEW a \in Palari,
           Park(p, w, a) \/ Resume(p, w, a)
    PROVE  Effect(p)
  <1>1. claims[w] \in Claim
    BY DEF ClaimsTypeOK, Park, Resume, OwnedClaim
  <1>2. step[p] = "idle"
    BY DEF Park, Resume, At
  <1>3. CASE Park(p, w, a)
    <2> DEFINE r == [Idle EXCEPT !.cmd = "park", !.at = w, !.as = a, !.want = claims[w]]
    <2>1. r \in Command
      BY <1>1 DEF Command, Idle
    <2>2. r.at = w /\ r.as = a /\ r.number = 0 /\ r.claim = NoClaim
      BY DEF Idle
    <2>3. Moves(p, "parkCheck", r)
      BY <1>3 DEF Park, Go, Moves
    <2> HIDE DEF r
    <2>4. LocalOK("parkCheck", r) /\ NothingNew(p, r) /\ KeepsLock(p, "parkCheck", r)
      BY <2>2 DEF LocalOK, NothingNew, KeepsLock, StartSteps, StartedSteps, LockedSteps, ReleaseSteps
    <2> QED
      BY <2>1, <2>3, <2>4 DEF Effect, Steps, ParkSteps
  <1>4. CASE Resume(p, w, a)
    <2> DEFINE r == [Idle EXCEPT !.cmd = "park", !.at = w, !.as = a,
                                 !.want = claims[w], !.lenient = TRUE]
    <2>1. r \in Command
      BY <1>1 DEF Command, Idle
    <2>2. r.at = w /\ r.as = a /\ r.number = 0 /\ r.claim = NoClaim
      BY DEF Idle
    <2>3. Moves(p, "lock", r)
      BY <1>4 DEF Resume, Go, Moves
    <2> HIDE DEF r
    <2>4. LocalOK("lock", r) /\ NothingNew(p, r) /\ KeepsLock(p, "lock", r)
      BY <2>2 DEF LocalOK, NothingNew, KeepsLock, StartSteps, StartedSteps, LockedSteps, ReleaseSteps
    <2> QED
      BY <2>1, <2>3, <2>4 DEF Effect, Steps
  <1> QED
    BY <1>3, <1>4

(* A parking that has checked its claim.                                   *)
LEMMA ParkCheckEffect ==
    ASSUME ClaimsTypeOK, Locals, NEW p \in Proc, ParkCheck(p)
    PROVE  Effect(p)
  <1> DEFINE r == [run[p] EXCEPT !.seen = ws[run[p].at].version]
  <1>1. run[p] \in Command /\ step[p] = "parkCheck"
    BY DEF ClaimsTypeOK, ParkCheck, At
  <1>2. run[p].at \in Worktree /\ run[p].as \in Palari
    BY <1>1 DEF Locals, LocalOK, ParkSteps
  <1>3. ws[run[p].at].version \in Nat
    BY <1>2 DEF ClaimsTypeOK
  <1>4. r \in Command
    BY <1>1, <1>3 DEF Command
  <1>5. /\ r.at = run[p].at /\ r.as = run[p].as /\ r.number = run[p].number
        /\ r.session = run[p].session /\ r.claim = run[p].claim
    BY <1>1 DEF Command
  <1>6. Stop(p) \/ Moves(p, "parkWrite", r)
    BY DEF ParkCheck, Go, Moves
  <1> HIDE DEF r
  <1>7. LocalOK("parkWrite", r) /\ NothingNew(p, r) /\ KeepsLock(p, "parkWrite", r)
    BY <1>1, <1>2, <1>5
       DEF Locals, LocalOK, NothingNew, KeepsLock, StartSteps, StartedSteps, LockedSteps, ReleaseSteps
  <1> QED
    BY <1>4, <1>6, <1>7, StopEffect DEF Effect, Steps, ParkSteps

(* Every step of a parking is an Effect.                                   *)
LEMMA ParkStepEffect ==
    ASSUME ClaimsTypeOK, Locals, NEW p \in Proc, ParkStep(p)
    PROVE  Effect(p)
  <1>1. CASE ParkWrite(p)
    BY <1>1, GotoEffect DEF ParkWrite, At
  <1>2. CASE ParkFails(p)
    BY <1>2, StopEffect DEF ParkFails
  <1>3. CASE ParkConfirm(p)
    BY <1>3, GotoEffect, StopEffect DEF ParkConfirm, ReleaseParked, At
  <1> QED
    BY <1>1, <1>2, <1>3, ParkCheckEffect DEF ParkStep

(* The beginning of a command and the taking of a claim lock.              *)
Takes(p) ==
    \E s, r : /\ Moves(p, s, r) /\ Typed(s, r) /\ NothingNew(p, r)
              /\ s \in LockedSteps /\ LockClaim(r.at)
              /\ UNCHANGED <<shared, claims, baseline, outside, minted, expired, faults>>

(* Start and release begin with the claim lock.                            *)
LEMMA BeginTakes ==
    ASSUME NEW p \in Proc, NEW w \in Worktree, NEW a \in Palari,
           Start(p, w, a) \/ Release(p, w, a)
    PROVE  Takes(p)
  <1> DEFINE r(cmd) == [Idle EXCEPT !.cmd = cmd, !.at = w, !.as = a]
  <1>1. \A cmd \in {"start", "release"} :
          /\ r(cmd) \in Command /\ r(cmd).at = w /\ r(cmd).as = a
          /\ r(cmd).number = 0 /\ r(cmd).claim = NoClaim
    BY BegunIsTyped DEF Idle
  <1>2. CASE Start(p, w, a)
    <2>1. Moves(p, "examine", r("start")) /\ LockClaim(w)
      BY <1>2 DEF Start, Begin, Go, Moves
    <2>2. LocalOK("examine", r("start")) /\ NothingNew(p, r("start"))
      BY <1>1 DEF LocalOK, NothingNew, StartedSteps
    <2> HIDE DEF r
    <2> QED
      BY <1>1, <1>2, <2>1, <2>2 DEF Takes, Start, Steps, LockedSteps, StartSteps
  <1>3. CASE Release(p, w, a)
    <2>1. Moves(p, "readClaim", r("release")) /\ LockClaim(w)
      BY <1>3 DEF Release, Begin, Go, Moves
    <2>2. LocalOK("readClaim", r("release")) /\ NothingNew(p, r("release"))
      BY <1>1 DEF LocalOK, NothingNew, StartSteps, StartedSteps
    <2> HIDE DEF r
    <2> QED
      BY <1>1, <1>3, <2>1, <2>2 DEF Takes, Release, Steps, LockedSteps, ReleaseSteps
  <1> QED
    BY <1>2, <1>3

(* A parking takes the claim lock before it releases.                      *)
LEMMA LockTakes ==
    ASSUME ClaimsTypeOK, Locals, NEW p \in Proc, LockToRelease(p)
    PROVE  Takes(p)
  <1>1. Moves(p, "readClaim", run[p]) /\ NothingNew(p, run[p]) /\ step[p] = "lock"
    BY GotoMoves DEF LockToRelease, At
  <1>2. run[p] \in Command /\ LocalOK("readClaim", run[p])
    BY <1>1 DEF ClaimsTypeOK, Locals, LocalOK, StartSteps, StartedSteps
  <1> QED
    BY <1>1, <1>2 DEF Takes, LockToRelease, Steps, LockedSteps, ReleaseSteps

(* An interrupted or dead process holds nothing more than before.          *)
LEMMA FaultEffect ==
    ASSUME ClaimsTypeOK, Locals, NEW p \in Proc, Unlock(p) \/ Interrupt(p) \/ Crash(p)
    PROVE  Effect(p)
  BY LeaveEffect, StopEffect DEF Unlock, Interrupt, Crash

(* Every step is one of the three kinds, or moves no process.              *)
LEMMA Effects ==
    ASSUME ClaimsTypeOK, Locals, ParkingNext
    PROVE  \/ \E p \in Proc : Effect(p) \/ Takes(p) \/ Examine(p)
           \/ UNCHANGED progress
  <1>1. CASE \E p \in Proc : StartStep(p) \/ ReleaseStep(p) \/ Unlock(p)
    BY <1>1, StartEffect, ReleaseEffect, LockTakes, FaultEffect
  <1>2. CASE \E p \in Proc, w \in Worktree, a \in Palari : Start(p, w, a) \/ Release(p, w, a)
    BY <1>2, BeginTakes
  <1>3. CASE Around
    BY <1>3, FaultEffect DEF Around, Expire, WriteWorkspace, MoveHead
  <1>4. CASE \E p \in Proc : ParkStep(p)
    BY <1>4, ParkStepEffect
  <1>5. CASE \E p \in Proc, w \in Worktree, a \in Palari : Park(p, w, a) \/ Resume(p, w, a)
    BY <1>5, ParkEffect
  <1> QED
    BY <1>1, <1>2, <1>3, <1>4, <1>5 DEF ParkingNext, ClaimsNext

-----------------------------------------------------------------------------
(* What start reads and chooses                                            *)

(* Being active is a Boolean, for the backends.                            *)
LEMMA ActiveIs == \A c : Active(c) \in BOOLEAN
  BY DEF Active

(* Examine chooses a new number or session, or continues its own active    *)
(* claim.                                                                  *)
LEMMA ExamineMoves ==
    ASSUME ClaimsTypeOK, Locals, NEW p \in Proc, Examine(p)
    PROVE  LET c == claims[run[p].at] IN
           /\ run[p].at \in Worktree /\ step[p] = "examine"
           /\ Active(c) => c.by = run[p].as
           /\ minted' \in Nat /\ minted' >= minted
           /\ \E r : /\ Moves(p, "scan", r) /\ Typed("scan", r)
                     /\ r.at = run[p].at /\ r.as = run[p].as /\ r.claim = NoClaim
                     /\ r.number \in NumbersFor(c) /\ r.session = SessionFor(c, r.number)
                     /\ minted' = IF r.number > minted THEN r.number ELSE minted
  <1> DEFINE w == run[p].at
             c == claims[w]
             r(n, b, x, f) ==
               [Idle EXCEPT !.cmd = "start", !.at = w, !.as = run[p].as,
                            !.number = n, !.session = SessionFor(c, n),
                            !.renews = x,
                            !.snap = IF Active(c) THEN c.snap ELSE ws[w].version,
                            !.seen = ws[w].version,
                            !.base = b, !.fresh = f,
                            !.head = head[w], !.todo = Worktree \ {w}]
  <1>1. step[p] = "examine" /\ w \in Worktree /\ run[p].as \in Palari
    BY DEF Examine, At, Locals, LocalOK, StartSteps
  <1>2. Active(c) => c.by = run[p].as
    BY DEF Examine, Startable
  <1>3. Active(c) => c \in Claim
    BY <1>1 DEF Active, ClaimsTypeOK
  <1>4. PICK n \in NumbersFor(c),
             b \in IF baseline[w] # NoCommit THEN {baseline[w]} ELSE StartCommits(w) :
          /\ minted' = IF n > minted THEN n ELSE minted
          /\ run' = [run EXCEPT ![p] = r(n, b, Active(c), baseline[w] = NoCommit)]
    BY DEF Examine
  <1>5. minted \in Nat /\ minted + 1 \in Nat /\ minted + 1 # 0
    BY DEF ClaimsTypeOK
  <1>6. n \in Nat \ {0} /\ (n \in Nat => minted' \in Nat /\ minted' >= minted)
    BY <1>3, <1>4, <1>5 DEF NumbersFor, Claim
  <1>7. SessionFor(c, n) \in Nat \ {0}
    BY <1>3, <1>6 DEF SessionFor, Claim
  <1>8. b \in Commit
    BY <1>1 DEF ClaimsTypeOK, StartCommits
  <1>9. /\ (IF Active(c) THEN c.snap ELSE ws[w].version) \in Nat
        /\ ws[w].version \in Nat /\ head[w] \in Commit
    BY <1>1, <1>3 DEF ClaimsTypeOK, Claim
  <1> HIDE DEF c, w
  <1>10. \A x, f \in BOOLEAN :
           /\ r(n, b, x, f) \in Command
           /\ r(n, b, x, f).at = w /\ r(n, b, x, f).as = run[p].as
           /\ r(n, b, x, f).claim = NoClaim /\ r(n, b, x, f).number = n
           /\ r(n, b, x, f).session = SessionFor(c, n) /\ r(n, b, x, f).base = b
    <2> TAKE x, f \in BOOLEAN
    <2> DEFINE d == IF Active(c) THEN c.snap ELSE ws[w].version
    <2>1. /\ d \in Nat /\ ws[w].version \in Nat /\ head[w] \in Commit
          /\ Worktree \ {w} \in SUBSET Worktree /\ SessionFor(c, n) \in Nat
      BY <1>7, <1>9
    <2> HIDE DEF d
    <2>2. [Idle EXCEPT !.cmd = "start", !.at = w, !.as = run[p].as,
                       !.number = n, !.session = SessionFor(c, n),
                       !.renews = x, !.snap = d, !.seen = ws[w].version,
                       !.base = b, !.fresh = f,
                       !.head = head[w], !.todo = Worktree \ {w}] \in Command
      BY <1>1, <1>6, <1>8, <2>1 DEF Command, Idle
    <2> QED
      BY <2>2 DEF Idle, d
  <1>11. PICK x \in BOOLEAN, f \in BOOLEAN :
           x = Active(c) /\ f = (baseline[w] = NoCommit)
    BY ActiveIs
  <1> DEFINE t == r(n, b, x, f)
  <1>12. run' = [run EXCEPT ![p] = t] /\ step' = [step EXCEPT ![p] = "scan"]
    BY <1>4, <1>11 DEF Examine, Go, c, w
  <1>13. /\ t \in Command /\ t.at = w /\ t.as = run[p].as /\ t.claim = NoClaim
         /\ t.number = n /\ t.session = SessionFor(c, n) /\ t.base = b
    <2> HIDE DEF r
    <2> QED
      BY <1>10
  <1> HIDE DEF t, r
  <1>14. Typed("scan", t)
    BY <1>1, <1>6, <1>7, <1>8, <1>13
       DEF LocalOK, StartSteps, StartedSteps, ReleaseSteps, ParkSteps, Steps, LockedSteps
  <1>15. Moves(p, "scan", t)
    BY <1>12 DEF Moves
  <1> QED
    BY <1>1, <1>2, <1>4, <1>6, <1>13, <1>14, <1>15 DEF c, w

-----------------------------------------------------------------------------
(* Which action changes which variable *)

Changes ==
    /\ lease' = lease \/ \E p \in Proc : AcquireLease(p) \/ RevokeLease(p) \/ DropLease(p)
    /\ witness' = witness \/ \E p \in Proc : SetWitness(p)
    /\ claims' = claims \/ \E p \in Proc : WriteClaim(p) \/ Unlink(p)
    /\ baseline' = baseline \/ \E p \in Proc : WriteBaseline(p)
    /\ ws' = ws \/ (\E p \in Proc : ParkWrite(p)) \/ (\E w \in Worktree : WriteWorkspace(w))
    /\ head' = head \/ \E w \in Worktree, c \in Commit : MoveHead(w, c)
    /\ minted' = minted \/ \E p \in Proc : Examine(p)
    /\ expired' = expired \/ \E n \in 1..minted : Expire(n)
    /\ faults' \in {faults, faults + 1}
    /\ \/ locks' = locks
       \/ \E p \in Proc, w \in Worktree, a \in Palari : Start(p, w, a) \/ Release(p, w, a)
       \/ \E p \in Proc : LockToRelease(p) \/ Unlock(p) \/ Crash(p)

(* What a start does to the shared state.                                  *)
LEMMA StartChanges ==
    ASSUME NEW p \in Proc, StartStep(p)
    PROVE  Changes
  <1>1. CASE Examine(p)
    BY <1>1 DEF Changes, Examine, shared, local, outside
  <1>2. CASE \/ Refuse(p) \/ ReadLease(p) \/ LoseCas(p) \/ Enter(p) \/ ReadWitness(p)
             \/ Abandon(p) \/ \E o \in Worktree : Scan(p, o)
    BY <1>2 DEF Changes, Refuse, ReadLease, LoseCas, Enter, ReadWitness, Abandon, Scan,
                shared, local, outside
  <1>3. CASE AcquireLease(p)
    BY <1>3 DEF Changes, AcquireLease, local, outside
  <1>4. CASE SetWitness(p)
    BY <1>4 DEF Changes, SetWitness, local, outside
  <1>5. CASE WriteBaseline(p)
    BY <1>5 DEF Changes, WriteBaseline, shared, outside
  <1>6. CASE WriteClaim(p)
    BY <1>6 DEF Changes, WriteClaim, shared, outside
  <1>7. CASE RevokeLease(p)
    BY <1>7 DEF Changes, RevokeLease, local, outside
  <1> QED
    BY <1>1, <1>2, <1>3, <1>4, <1>5, <1>6, <1>7 DEF StartStep

(* What a release does to the shared state.                                *)
LEMMA ReleaseChanges ==
    ASSUME NEW p \in Proc,
           \/ ReleaseStep(p) \/ Unlock(p)
           \/ \E w \in Worktree, a \in Palari : Start(p, w, a) \/ Release(p, w, a)
    PROVE  Changes
  <1>1. CASE ReleaseRefused(p) \/ ReadClaim(p)
    BY <1>1 DEF Changes, ReleaseRefused, ReadClaim, shared, local, outside
  <1>2. CASE LockToRelease(p)
    BY <1>2 DEF Changes, LockToRelease, shared, outside
  <1>3. CASE DropLease(p)
    BY <1>3 DEF Changes, DropLease, local, outside
  <1>4. CASE Unlink(p)
    BY <1>4 DEF Changes, Unlink, shared, outside
  <1>5. CASE Unlock(p)
    BY <1>5 DEF Changes, Unlock, shared, outside
  <1>6. CASE \E w \in Worktree, a \in Palari : Start(p, w, a) \/ Release(p, w, a)
    BY <1>6 DEF Changes, Start, Release, shared, outside
  <1> QED
    BY <1>1, <1>2, <1>3, <1>4, <1>5, <1>6 DEF ReleaseStep

(* What expiry, Git, other commands and faults do to the shared state.     *)
LEMMA AroundChanges ==
    ASSUME Around
    PROVE  Changes
  <1>1. CASE \E n \in 1..minted : Expire(n)
    BY <1>1 DEF Changes, Expire, shared, local, outside
  <1>2. CASE \E w \in Worktree : WriteWorkspace(w)
    BY <1>2 DEF Changes, WriteWorkspace, shared, local
  <1>3. CASE \E w \in Worktree, c \in Commit : MoveHead(w, c)
    BY <1>3 DEF Changes, MoveHead, shared, local
  <1>4. CASE \E p \in Proc : Interrupt(p)
    BY <1>4 DEF Changes, Interrupt, shared, local, outside
  <1>5. CASE \E p \in Proc : Crash(p)
    BY <1>5 DEF Changes, Crash, shared, outside
  <1> QED
    BY <1>1, <1>2, <1>3, <1>4, <1>5 DEF Around

(* What a parking does to the shared state.                                *)
LEMMA ParkChanges ==
    ASSUME NEW p \in Proc,
           \/ ParkStep(p)
           \/ \E w \in Worktree, a \in Palari : Park(p, w, a) \/ Resume(p, w, a)
    PROVE  Changes
  <1>1. CASE ParkCheck(p) \/ ParkFails(p) \/ ParkConfirm(p)
    BY <1>1 DEF Changes, ParkCheck, ParkFails, ParkConfirm, shared, local, outside
  <1>2. CASE ParkWrite(p)
    BY <1>2 DEF Changes, ParkWrite, shared, local
  <1>3. CASE \E w \in Worktree, a \in Palari : Park(p, w, a) \/ Resume(p, w, a)
    BY <1>3 DEF Changes, Park, Resume, shared, local, outside
  <1> QED
    BY <1>1, <1>2, <1>3 DEF ParkStep

(* Every step does one of these changes, and no other.                     *)
LEMMA NextChanges ==
    ASSUME ParkingNext
    PROVE  Changes
  BY StartChanges, ReleaseChanges, AroundChanges, ParkChanges DEF ParkingNext, ClaimsNext

-----------------------------------------------------------------------------
(* Types are kept *)

(* Types of the steps and the local variables.                             *)
LEMMA RunTypes ==
    ASSUME ClaimsTypeOK, Locals, ParkingNext
    PROVE  step' \in [Proc -> Steps] /\ run' \in [Proc -> Command] /\ Locals'
  <1>1. CASE \E p \in Proc : Effect(p) \/ Takes(p)
    BY <1>1, MovedTypes DEF Effect, Takes
  <1>2. CASE \E p \in Proc : Examine(p)
    BY <1>2, ExamineMoves, MovedTypes
  <1>3. CASE UNCHANGED progress
    BY <1>3 DEF progress, ClaimsTypeOK, Locals
  <1> QED
    BY <1>1, <1>2, <1>3, Effects

(* Type of the lease ref.                                                  *)
LEMMA LeaseTypes ==
    ASSUME ClaimsTypeOK, Changes
    PROVE  lease' \in [number : Nat, session : Nat]
  <1>1. ASSUME NEW p \in Proc, AcquireLease(p) PROVE lease' \in [number : Nat, session : Nat]
    <2>1. run[p].number \in Nat /\ run[p].session \in Nat
      BY DEF ClaimsTypeOK, Command
    <2> QED
      BY <1>1, <2>1 DEF AcquireLease
  <1> QED
    BY <1>1 DEF Changes, RevokeLease, DropLease, NoLease, ClaimsTypeOK

(* What a start writes is a claim.                                         *)
LEMMA WrittenClaim ==
    ASSUME ClaimsTypeOK, Locals, NEW p \in Proc, WriteClaim(p)
    PROVE  [lease |-> run[p].number, session |-> run[p].session,
            by |-> run[p].as, snap |-> run[p].snap] \in Claim
  <1>1. step[p] = "writeClaim" /\ run[p] \in Command
    BY DEF WriteClaim, At, ClaimsTypeOK
  <1>2. run[p].number \in Nat \ {0} /\ run[p].session \in Nat \ {0} /\ run[p].snap \in Nat
    BY <1>1 DEF Command, Locals, LocalOK, StartedSteps, StartSteps
  <1>3. run[p].as \in Palari
    BY <1>1 DEF Locals, LocalOK, StartSteps
  <1> QED
    BY <1>2, <1>3 DEF Claim

(* Types of the claim files, the locks, the witness and the baselines.     *)
LEMMA FileTypes ==
    ASSUME ClaimsTypeOK, Locals, Changes
    PROVE  /\ claims' \in [Worktree -> Claim \cup {NoClaim}]
           /\ locks' \in [Worktree -> {"free", "held", "orphan"}]
           /\ witness' \in [ref : Commit \cup {NoCommit}, oldest : Commit \cup {NoCommit}]
           /\ baseline' \in [Worktree -> Commit \cup {NoCommit}]
           /\ head' \in [Worktree -> Commit]
  <1>1. claims' \in [Worktree -> Claim \cup {NoClaim}]
    <2>1. ASSUME NEW p \in Proc, WriteClaim(p)
          PROVE  claims' \in [Worktree -> Claim \cup {NoClaim}]
      <3> DEFINE c == [lease |-> run[p].number, session |-> run[p].session,
                       by |-> run[p].as, snap |-> run[p].snap]
      <3>1. c \in Claim
        BY <2>1, WrittenClaim
      <3>2. claims' = [claims EXCEPT ![run[p].at] = c]
        BY <2>1 DEF WriteClaim
      <3> HIDE DEF c
      <3> QED
        BY <3>1, <3>2 DEF ClaimsTypeOK
    <2>2. ASSUME NEW p \in Proc, Unlink(p)
          PROVE  claims' \in [Worktree -> Claim \cup {NoClaim}]
      BY <2>2 DEF Unlink, ClaimsTypeOK
    <2> QED
      BY <2>1, <2>2 DEF Changes, ClaimsTypeOK
  <1>2. locks' \in [Worktree -> {"free", "held", "orphan"}]
    <2>1. locks \in [Worktree -> {"free", "held", "orphan"}]
      BY DEF ClaimsTypeOK
    <2>2. CASE locks' = locks
      BY <2>1, <2>2
    <2>3. CASE \E p \in Proc, w \in Worktree, a \in Palari : Start(p, w, a) \/ Release(p, w, a)
      BY <2>1, <2>3 DEF Start, Release, Begin, LockClaim
    <2>4. CASE \E p \in Proc : LockToRelease(p) \/ Unlock(p) \/ Crash(p)
      BY <2>1, <2>4 DEF LockToRelease, LockClaim, Unlock, Crash
    <2> QED
      BY <2>2, <2>3, <2>4 DEF Changes
  <1>3. \A p \in Proc : run[p].base \in Commit \cup {NoCommit}
    BY DEF ClaimsTypeOK, Command
  <1>4. witness' \in [ref : Commit \cup {NoCommit}, oldest : Commit \cup {NoCommit}]
    BY <1>3 DEF Changes, SetWitness, WitnessAfter, ClaimsTypeOK
  <1>5. baseline' \in [Worktree -> Commit \cup {NoCommit}]
    BY <1>3 DEF Changes, WriteBaseline, ClaimsTypeOK
  <1>6. head' \in [Worktree -> Commit]
    BY DEF Changes, MoveHead, ClaimsTypeOK
  <1> QED
    BY <1>1, <1>2, <1>4, <1>5, <1>6

(* Type of the workspaces.                                                 *)
LEMMA WorkspaceTypes ==
    ASSUME ClaimsTypeOK, Locals, Changes
    PROVE  ws' \in [Worktree -> [version : Nat, parked : Claim \cup {NoClaim}]]
  <1>1. \A w \in Worktree : /\ ws[w].version + 1 \in Nat
                            /\ ws[w].parked \in Claim \cup {NoClaim}
    BY DEF ClaimsTypeOK
  <1>2. ASSUME NEW p \in Proc, ParkWrite(p)
        PROVE  ws' \in [Worktree -> [version : Nat, parked : Claim \cup {NoClaim}]]
    <2>1. run[p].at \in Worktree /\ run[p].want \in Claim \cup {NoClaim}
      BY <1>2 DEF ParkWrite, At, Locals, LocalOK, ClaimsTypeOK, Command
    <2>2. [version |-> ws[run[p].at].version + 1, parked |-> run[p].want]
            \in [version : Nat, parked : Claim \cup {NoClaim}]
      BY <1>1, <2>1
    <2> QED
      BY <1>2, <2>1, <2>2 DEF ParkWrite, ClaimsTypeOK
  <1>3. ASSUME NEW w \in Worktree, WriteWorkspace(w)
        PROVE  ws' \in [Worktree -> [version : Nat, parked : Claim \cup {NoClaim}]]
    <2>1. ws[w] \in [version : Nat, parked : Claim \cup {NoClaim}]
      BY DEF ClaimsTypeOK
    <2> DEFINE v == ws[w].version + 1
    <2>2. v \in Nat
      BY <1>1
    <2>3. ws' = [ws EXCEPT ![w] = [ws[w] EXCEPT !.version = v]]
      BY <1>3 DEF WriteWorkspace
    <2> HIDE DEF v
    <2>4. [ws[w] EXCEPT !.version = v] \in [version : Nat, parked : Claim \cup {NoClaim}]
      BY <2>1, <2>2
    <2> QED
      BY <2>3, <2>4 DEF ClaimsTypeOK
  <1> QED
    BY <1>2, <1>3 DEF Changes, ClaimsTypeOK

(* The counters only grow.                                                 *)
LEMMA CounterTypes ==
    ASSUME ClaimsTypeOK, Locals, Changes
    PROVE  /\ minted' \in Nat /\ minted' >= minted /\ faults' \in Nat
           /\ expired' \subseteq 1..minted' /\ expired \subseteq expired'
  <1>1. minted' \in Nat /\ minted' >= minted
    BY ExamineMoves DEF Changes, ClaimsTypeOK
  <1>2. faults' \in Nat
    BY DEF Changes, ClaimsTypeOK
  <1>3. expired \subseteq expired' /\ expired' \subseteq 1..minted
    BY DEF Changes, Expire, ClaimsTypeOK
  <1>4. 1..minted \subseteq 1..minted'
    BY <1>1 DEF ClaimsTypeOK
  <1> QED
    BY <1>1, <1>2, <1>3, <1>4

(* Every step keeps the types.                                             *)
LEMMA TypesKept ==
    ASSUME ClaimsTypeOK, Locals, ParkingNext
    PROVE  ClaimsTypeOK' /\ Locals'
  BY NextChanges, RunTypes, LeaseTypes, FileTypes, WorkspaceTypes, CounterTypes, Zenon
     DEF ClaimsTypeOK

-----------------------------------------------------------------------------
(* One holder of a claim lock *)

(* p gives up the lock it has, if any, and ends.                           *)
GivesUp(p) ==
    /\ Moves(p, "idle", Idle)
    /\ \A w \in Worktree :
         locks'[w] # locks[w] => step[p] \in LockedSteps /\ w = run[p].at

(* Who may change a lock file: a process that takes it or gives it up.     *)
LEMMA LockEffects ==
    ASSUME ClaimsTypeOK, Locals, ParkingNext
    PROVE  \/ \E p \in Proc : Takes(p) \/ GivesUp(p)
           \/ /\ locks' = locks
              /\ \/ \E p \in Proc : Effect(p) \/ Examine(p)
                 \/ UNCHANGED progress
  <1>1. CASE \E p \in Proc, w \in Worktree, a \in Palari : Start(p, w, a) \/ Release(p, w, a)
    BY <1>1, BeginTakes
  <1>2. CASE \E p \in Proc : LockToRelease(p)
    BY <1>2, LockTakes
  <1>3. ASSUME NEW p \in Proc, Unlock(p)
        PROVE  GivesUp(p)
    BY <1>3, StopMoves DEF Unlock, GivesUp, At, LockedSteps, ClaimsTypeOK
  <1>4. ASSUME NEW p \in Proc, Crash(p)
        PROVE  GivesUp(p)
    BY <1>4, StopMoves DEF Crash, GivesUp, ClaimsTypeOK
  <1>5. CASE locks' = locks
    BY <1>5, Effects
  <1> QED
    BY <1>1, <1>2, <1>3, <1>4, <1>5, NextChanges DEF Changes

(* A claim lock stays with one process.                                    *)
LEMMA ExclusiveKept ==
    ASSUME ClaimsTypeOK, Locals, Exclusive, ParkingNext
    PROVE  Exclusive'
  <1> USE DEF ClaimsTypeOK
  <1>1. \A q \in Proc : step[q] \in LockedSteps => run[q].at \in Worktree
    BY DEF Locals, LocalOK, LockedSteps, StartSteps, ReleaseSteps
  <1>2. ASSUME NEW p \in Proc, Takes(p)
        PROVE  Exclusive'
    <2>1. PICK s, r : Moves(p, s, r) /\ Typed(s, r) /\ s \in LockedSteps /\ LockClaim(r.at)
      BY <1>2 DEF Takes
    <2>2. r.at \in Worktree
      BY <2>1 DEF LocalOK, LockedSteps, StartSteps, ReleaseSteps
    <2>3. /\ locks[r.at] = "free" /\ locks'[r.at] = "held"
          /\ \A w \in Worktree : w # r.at => locks'[w] = locks[w]
      BY <2>1, <2>2 DEF LockClaim
    <2>4. /\ step'[p] = s /\ run'[p] = r
          /\ \A q \in Proc : q # p => step'[q] = step[q] /\ run'[q] = run[q]
      BY <2>1 DEF Moves
    <2>5. \A q \in Proc : step[q] \in LockedSteps => run[q].at # r.at
      BY <2>3 DEF Exclusive
    <2> QED
      BY <1>1, <2>1, <2>2, <2>3, <2>4, <2>5 DEF Exclusive
  <1>3. ASSUME NEW p \in Proc, GivesUp(p)
        PROVE  Exclusive'
    <2>1. /\ step'[p] = "idle"
          /\ \A q \in Proc : q # p => step'[q] = step[q] /\ run'[q] = run[q]
      BY <1>3 DEF GivesUp, Moves
    <2>2. "idle" \notin LockedSteps
      BY DEF LockedSteps, StartSteps, ReleaseSteps
    <2> QED
      BY <1>1, <1>3, <2>1, <2>2 DEF Exclusive, GivesUp
  <1>4. ASSUME NEW p \in Proc, locks' = locks, Effect(p) \/ Examine(p)
        PROVE  Exclusive'
    <2>1. \E s, r : Moves(p, s, r) /\ KeepsLock(p, s, r)
      BY <1>4, ExamineMoves DEF Effect, KeepsLock, LockedSteps, StartSteps
    <2> QED
      BY <1>4, <2>1 DEF Moves, KeepsLock, Exclusive
  <1>5. CASE locks' = locks /\ UNCHANGED progress
    BY <1>5 DEF Exclusive, progress
  <1> QED
    BY <1>2, <1>3, <1>4, <1>5, LockEffects

-----------------------------------------------------------------------------
(* Leases, sessions and who has them *)

(* No action but Examine makes a lease number or a session.                *)
Remembers ==
    /\ \A n, s \in Nat : Named(n, s)' => Named(n, s)
    /\ \A s \in Nat, w \in Worktree, a \in Palari : Owned(s, w, a)' => Owned(s, w, a)

(* Where the next lease comes from.                                        *)
LEMMA LeaseFrom ==
    ASSUME ClaimsTypeOK, Locals, Changes
    PROVE  \/ lease' \in {lease, NoLease}
           \/ \E p \in Proc : lease' = [number |-> run[p].number, session |-> run[p].session]
  BY DEF Changes, AcquireLease, RevokeLease, DropLease

(* Where the next claim file comes from.                                   *)
LEMMA ClaimsFrom ==
    ASSUME ClaimsTypeOK, Locals, Changes, NEW w \in Worktree
    PROVE  \/ claims'[w] \in {claims[w], NoClaim}
           \/ \E p \in Proc :
                /\ run[p].number # 0 /\ run[p].at = w
                /\ claims'[w].lease = run[p].number /\ claims'[w].session = run[p].session
                /\ claims'[w].by = run[p].as
  <1>1. ASSUME NEW p \in Proc, WriteClaim(p), claims'[w] # claims[w]
        PROVE  /\ run[p].number # 0 /\ run[p].at = w
               /\ claims'[w].lease = run[p].number /\ claims'[w].session = run[p].session
               /\ claims'[w].by = run[p].as
    <2>1. run[p].number # 0
      BY <1>1 DEF WriteClaim, At, Locals, LocalOK, StartedSteps, StartSteps
    <2> QED
      BY <1>1, <2>1 DEF WriteClaim, ClaimsTypeOK
  <1> QED
    BY <1>1 DEF Changes, Unlink, ClaimsTypeOK

(* Where the next local variables of a moving process come from.           *)
LEMMA RunFrom ==
    ASSUME ClaimsTypeOK, Locals, NEW p \in Proc, Effect(p) \/ Takes(p)
    PROVE  \A q \in Proc :
             /\ \/ run'[q].number = 0
                \/ /\ run'[q].number = run[q].number /\ run'[q].session = run[q].session
                   /\ run'[q].at = run[q].at /\ run'[q].as = run[q].as
             /\ \/ run'[q].claim = NoClaim
                \/ /\ run'[q].claim \in {run[q].claim, claims[run[q].at]}
                   /\ run'[q].at = run[q].at
  BY DEF Effect, Takes, Moves, NothingNew, ClaimsTypeOK

(* The same for every process.                                             *)
LEMMA RunFromAll ==
    ASSUME ClaimsTypeOK, Locals, Locals',
           (\E p \in Proc : Effect(p) \/ Takes(p)) \/ UNCHANGED progress,
           NEW q \in Proc
    PROVE  /\ \/ run'[q].number = 0
              \/ /\ run'[q].number = run[q].number /\ run'[q].session = run[q].session
                 /\ run'[q].at = run[q].at /\ run'[q].as = run[q].as
           /\ \/ run'[q].claim = NoClaim
              \/ run'[q].claim = run[q].claim /\ run'[q].at = run[q].at
              \/ /\ run[q].at \in Worktree /\ run'[q].at = run[q].at
                 /\ run'[q].claim = claims[run[q].at]
  <1>1. run'[q].claim # NoClaim => run'[q].at \in Worktree
    BY DEF Locals, LocalOK
  <1>2. CASE \E p \in Proc : Effect(p) \/ Takes(p)
    BY <1>1, <1>2, RunFrom
  <1>3. CASE UNCHANGED progress
    BY <1>3 DEF progress
  <1> QED
    BY <1>2, <1>3

(* Nothing in the next state names a lease that this one does not, unless  *)
(* a start examines.                                                       *)
LEMMA Remembered ==
    ASSUME ClaimsTypeOK, Locals, Locals', Changes,
           (\E p \in Proc : Effect(p) \/ Takes(p)) \/ UNCHANGED progress
    PROVE  Remembers
  <1>1. ASSUME NEW n \in Nat, NEW s \in Nat, Named(n, s)'
        PROVE  Named(n, s)
    <2>1. n # 0
      BY <1>1 DEF Named
    <2>2. CASE lease'.number = n /\ lease'.session = s
      BY <2>1, <2>2, LeaseFrom DEF Named, NoLease
    <2>3. CASE \E w \in Worktree : /\ claims'[w] # NoClaim
                                  /\ claims'[w].lease = n /\ claims'[w].session = s
      BY <2>1, <2>3, ClaimsFrom DEF Named
    <2>4. CASE \E p \in Proc : run'[p].number = n /\ run'[p].session = s
      BY <2>1, <2>4, RunFromAll DEF Named
    <2>5. CASE \E p \in Proc : /\ run'[p].claim # NoClaim
                              /\ run'[p].claim.lease = n /\ run'[p].claim.session = s
      BY <2>1, <2>5, RunFromAll DEF Named
    <2> QED
      BY <1>1, <2>2, <2>3, <2>4, <2>5 DEF Named
  <1>2. ASSUME NEW s \in Nat, NEW w \in Worktree, NEW a \in Palari, Owned(s, w, a)'
        PROVE  Owned(s, w, a)
    <2>1. CASE claims'[w] # NoClaim /\ claims'[w].session = s /\ claims'[w].by = a
      BY <2>1, ClaimsFrom DEF Owned
    <2>2. CASE \E p \in Proc : /\ run'[p].number # 0 /\ run'[p].session = s
                              /\ run'[p].at = w /\ run'[p].as = a
      BY <2>2, RunFromAll DEF Owned
    <2>3. CASE \E p \in Proc : /\ run'[p].claim # NoClaim /\ run'[p].claim.session = s
                              /\ run'[p].at = w /\ run'[p].claim.by = a
      BY <2>3, RunFromAll DEF Owned
    <2> QED
      BY <1>2, <2>1, <2>2, <2>3 DEF Owned
  <1> QED
    BY <1>1, <1>2 DEF Remembers

(* So the numbers and the sessions go on agreeing,                         *)
LEMMA AgreeWhenRemembered ==
    ASSUME ClaimsTypeOK, NumbersAgree, SessionsAgree, Remembers,
           minted' \in Nat, minted' >= minted
    PROVE  NumbersAgree' /\ SessionsAgree'
  <1>1. 1..minted \subseteq 1..minted'
    BY DEF ClaimsTypeOK
  <1> QED
    BY <1>1 DEF NumbersAgree, SessionsAgree, Remembers

(* What Examine adds: a number and a session that are new, or those of the *)
(* active claim.                                                           *)
LEMMA ExamineAdds ==
    ASSUME ClaimsTypeOK, Locals, NumbersAgree, SessionsAgree, NEW p \in Proc, Examine(p)
    PROVE  \E k, t \in 1..(minted + 1), v \in Worktree, b \in Palari :
             /\ minted' \in {minted, minted + 1}
             /\ k = minted + 1 \/ Named(k, t)
             /\ k = minted + 1 \/ t = minted + 1 => minted' = minted + 1
             /\ t = minted + 1 \/ Owned(t, v, b)
             /\ \A n, s \in Nat : Named(n, s)' => Named(n, s) \/ (n = k /\ s = t)
             /\ \A s \in Nat, w \in Worktree, a \in Palari :
                  Owned(s, w, a)' => Owned(s, w, a) \/ (s = t /\ w = v /\ a = b)
  <1> DEFINE v == run[p].at
             c == claims[v]
             b == run[p].as
  <1>1. PICK r : /\ Moves(p, "scan", r) /\ Typed("scan", r)
                 /\ r.at = v /\ r.as = b /\ r.claim = NoClaim
                 /\ r.number \in NumbersFor(c) /\ r.session = SessionFor(c, r.number)
                 /\ minted' = IF r.number > minted THEN r.number ELSE minted
    BY ExamineMoves
  <1>2. v \in Worktree /\ step[p] = "examine" /\ (Active(c) => c.by = b)
    BY ExamineMoves
  <1>3. b \in Palari
    BY <1>2 DEF Locals, LocalOK, StartSteps
  <1>4. Active(c) => c \in Claim /\ c # NoClaim
    BY <1>2 DEF Active, ClaimsTypeOK
  <1>5. minted \in Nat /\ 1..minted \subseteq 1..(minted + 1) /\ minted + 1 \in 1..(minted + 1)
        /\ \A i \in 1..minted : i \in Nat /\ ~(i > minted) /\ i # minted + 1
    BY DEF ClaimsTypeOK
  <1>6. ASSUME Active(c)
        PROVE  /\ Named(c.lease, c.session) /\ Owned(c.session, v, b)
               /\ c.lease \in 1..minted /\ c.session \in 1..minted
    <2>1. c.lease \in Nat \ {0} /\ c.session \in Nat
      BY <1>4, <1>6 DEF Claim
    <2>2. Named(c.lease, c.session)
      BY <1>2, <1>4, <1>6, <2>1 DEF Named
    <2>3. Owned(c.session, v, b)
      BY <1>2, <1>4, <1>6 DEF Owned
    <2> QED
      BY <1>2, <1>3, <2>1, <2>2, <2>3 DEF NumbersAgree, SessionsAgree
  <1> DEFINE Chosen(k, t) ==
               /\ k \in 1..(minted + 1) /\ t \in 1..(minted + 1)
               /\ minted' \in {minted, minted + 1}
               /\ k = minted + 1 \/ Named(k, t)
               /\ k = minted + 1 \/ t = minted + 1 => minted' = minted + 1
               /\ t = minted + 1 \/ Owned(t, v, b)
  <1>7. ASSUME Active(c) PROVE Chosen(r.number, r.session)
    <2>1. r.number \in {minted + 1, c.lease} /\ r.session = c.session
      BY <1>1, <1>7 DEF NumbersFor, SessionFor
    <2>2. r.number = minted + 1 => minted' = minted + 1
      BY <1>1, <1>5
    <2>3. r.number # minted + 1 => minted' = minted
      BY <1>1, <1>5, <1>6, <1>7, <2>1
    <2> HIDE DEF c, v, b
    <2> QED
      BY <1>5, <1>6, <1>7, <2>1, <2>2, <2>3
  <1>8. ASSUME ~Active(c) PROVE Chosen(r.number, r.session)
    <2>1. r.number = minted + 1 /\ r.session = minted + 1
      BY <1>1, <1>8 DEF NumbersFor, SessionFor
    <2>2. minted' = minted + 1
      BY <1>1, <1>5, <2>1
    <2> QED
      BY <1>5, <2>1, <2>2
  <1>9. /\ lease' = lease /\ claims' = claims
        /\ run'[p] = r /\ \A q \in Proc : q # p => run'[q] = run[q]
    BY <1>1 DEF Examine, shared, local, Moves, ClaimsTypeOK
  <1>10. \A n, s \in Nat : Named(n, s)' => Named(n, s) \/ (n = r.number /\ s = r.session)
    BY <1>1, <1>9 DEF Named
  <1>11. \A s \in Nat, w \in Worktree, a \in Palari :
           Owned(s, w, a)' => Owned(s, w, a) \/ (s = r.session /\ w = v /\ a = b)
    BY <1>1, <1>9 DEF Owned
  <1> QED
    <2> HIDE DEF c, v, b
    <2>1. Chosen(r.number, r.session)
      BY <1>7, <1>8
    <2> QED
      BY <1>2, <1>3, <1>10, <1>11, <2>1 DEF v, b

(* also when a start examines.                                             *)
LEMMA AgreeWhenExamined ==
    ASSUME ClaimsTypeOK, Locals, NumbersAgree, SessionsAgree, NEW p \in Proc, Examine(p)
    PROVE  NumbersAgree' /\ SessionsAgree'
  <1>1. PICK k \in 1..(minted + 1), t \in 1..(minted + 1), v \in Worktree, b \in Palari :
             /\ minted' \in {minted, minted + 1}
             /\ k = minted + 1 \/ Named(k, t)
             /\ k = minted + 1 \/ t = minted + 1 => minted' = minted + 1
             /\ t = minted + 1 \/ Owned(t, v, b)
             /\ \A n, s \in Nat : Named(n, s)' => Named(n, s) \/ (n = k /\ s = t)
             /\ \A s \in Nat, w \in Worktree, a \in Palari :
                  Owned(s, w, a)' => Owned(s, w, a) \/ (s = t /\ w = v /\ a = b)
    BY ExamineAdds
  <1>2. /\ minted \in Nat /\ minted + 1 \notin 1..minted
        /\ k \in Nat /\ t \in Nat /\ 1..minted \subseteq 1..minted'
        /\ k # minted + 1 => k \in 1..minted
        /\ t # minted + 1 => t \in 1..minted
        /\ minted' = minted + 1 => k \in 1..minted' /\ t \in 1..minted'
    BY <1>1 DEF ClaimsTypeOK
  <1>3. NumbersAgree'
    <2>1. \A n, s \in Nat : Named(n, s)' => n \in 1..minted'
      BY <1>1, <1>2 DEF NumbersAgree
    <2>2. \A n, s, u \in Nat : Named(n, s)' /\ Named(n, u)' => s = u
      BY <1>1, <1>2 DEF NumbersAgree
    <2> QED
      BY <2>1, <2>2 DEF NumbersAgree
  <1>4. SessionsAgree'
    <2>1. \A s \in Nat, w \in Worktree, a \in Palari : Owned(s, w, a)' => s \in 1..minted'
      BY <1>1, <1>2 DEF SessionsAgree
    <2>2. \A s \in Nat, w, x \in Worktree, a, d \in Palari :
            Owned(s, w, a)' /\ Owned(s, x, d)' => w = x /\ a = d
      BY <1>1, <1>2 DEF SessionsAgree
    <2> QED
      BY <2>1, <2>2 DEF SessionsAgree
  <1> QED
    BY <1>3, <1>4

(* Every step keeps the agreement.                                         *)
LEMMA AgreementKept ==
    ASSUME ClaimsTypeOK, Locals, NumbersAgree, SessionsAgree, ParkingNext
    PROVE  NumbersAgree' /\ SessionsAgree'
  BY NextChanges, TypesKept, CounterTypes, Effects, Remembered, AgreeWhenRemembered, AgreeWhenExamined

-----------------------------------------------------------------------------
(* A process moves by its own actions *)

Acts(p) ==
    \/ StartStep(p) \/ ReleaseStep(p) \/ ParkStep(p)
    \/ Unlock(p) \/ Interrupt(p) \/ Crash(p)
    \/ \E w \in Worktree, a \in Palari :
         Start(p, w, a) \/ Release(p, w, a) \/ Park(p, w, a) \/ Resume(p, w, a)

Stays(p) == step'[p] = step[p] /\ run'[p] = run[p]

(* An action of p moves p.                                                 *)
LEMMA ActsMoves ==
    ASSUME ClaimsTypeOK, Locals, NEW p \in Proc, Acts(p)
    PROVE  \E s, r : Moves(p, s, r)
  <1>1. Effect(p) \/ Takes(p) \/ Examine(p)
    BY StartEffect, ReleaseEffect, LockTakes, FaultEffect, BeginTakes, ParkEffect, ParkStepEffect
       DEF Acts
  <1> QED
    BY <1>1, ExamineMoves DEF Effect, Takes

(* A process moves by its own actions only.                                *)
LEMMA OneActs ==
    ASSUME ClaimsTypeOK, Locals, ParkingNext, NEW q \in Proc
    PROVE  Stays(q) \/ Acts(q)
  <1>1. CASE \E p \in Proc : Acts(p)
    BY <1>1, ActsMoves DEF Moves, Stays, ClaimsTypeOK
  <1>2. CASE UNCHANGED progress
    BY <1>2 DEF progress, Stays
  <1>3. (\E p \in Proc : Acts(p)) \/ UNCHANGED progress
    <2>1. CASE Around
      BY <2>1 DEF Around, Acts, Expire, WriteWorkspace, MoveHead
    <2> QED
      BY <2>1 DEF ParkingNext, ClaimsNext, Acts
  <1> QED
    BY <1>1, <1>2, <1>3

(* The steps a command of each kind goes to.                               *)
LEMMA StepsOfStart ==
    ASSUME ClaimsTypeOK, NEW p \in Proc, StartStep(p)
    PROVE  /\ step'[p] = "cas" => ReadLease(p)
           /\ step'[p] = "enter" => AcquireLease(p)
           /\ step'[p] \in WriteSteps \cup {"revoke"} => step[p] \in WriteSteps \cup {"enter"}
           /\ step'[p] = "writeBaseline" => ReadWitness(p) \/ SetWitness(p)
           /\ step'[p] \notin {"lock", "dropLease", "unlink", "readClaim"} \cup ParkSteps
  <1> USE DEF ClaimsTypeOK, Go, Goto, Leave, At, WriteSteps, ParkSteps
  <1>1. CASE Examine(p) \/ Refuse(p)
    <2>1. Go(p, "scan") \/ Go(p, "unlock")
      BY <1>1 DEF Examine, Refuse
    <2> QED
      BY <2>1
  <1>2. CASE \E o \in Worktree : Scan(p, o)
    BY <1>2 DEF Scan
  <1>3. CASE ReadLease(p)
    BY <1>3 DEF ReadLease
  <1>4. CASE AcquireLease(p)
    BY <1>4 DEF AcquireLease
  <1>5. CASE LoseCas(p)
    BY <1>5 DEF LoseCas
  <1>6. CASE Enter(p)
    BY <1>6 DEF Enter
  <1>7. CASE ReadWitness(p)
    BY <1>7 DEF ReadWitness
  <1>8. CASE SetWitness(p)
    BY <1>8 DEF SetWitness
  <1>9. CASE WriteBaseline(p) \/ WriteClaim(p)
    BY <1>9 DEF WriteBaseline, WriteClaim
  <1>10. CASE Abandon(p)
    BY <1>10 DEF Abandon, FailAndRevoke
  <1>11. CASE RevokeLease(p)
    BY <1>11 DEF RevokeLease
  <1> QED
    BY <1>1, <1>2, <1>3, <1>4, <1>5, <1>6, <1>7, <1>8, <1>9, <1>10, <1>11 DEF StartStep

(* No other command gets to a step of a start.                             *)
LEMMA StepsOfOthers ==
    ASSUME ClaimsTypeOK, NEW p \in Proc, Acts(p), ~StartStep(p)
    PROVE  step'[p] \notin StartedSteps
  <1> USE DEF ClaimsTypeOK, Go, Goto, Leave, Stop, Begin, At, StartedSteps, StartSteps
  <1>1. CASE Unlock(p) \/ Interrupt(p) \/ Crash(p)
    BY <1>1 DEF Unlock, Interrupt, Crash
  <1>2. CASE ReleaseStep(p)
    BY <1>2 DEF ReleaseStep, LockToRelease, ReleaseRefused, ReadClaim, DropLease, Unlink
  <1>3. CASE ParkStep(p)
    BY <1>3 DEF ParkStep, ParkCheck, ParkWrite, ParkFails, ParkConfirm, ReleaseParked
  <1>4. ASSUME NEW w \in Worktree, NEW a \in Palari,
               Start(p, w, a) \/ Release(p, w, a) \/ Park(p, w, a) \/ Resume(p, w, a)
        PROVE  step'[p] \notin StartedSteps
    <2>1. \E s \in {"examine", "readClaim", "parkCheck", "lock"} : Go(p, s)
      BY <1>4 DEF Start, Release, Park, Resume
    <2> QED
      BY <2>1
  <1> QED
    BY <1>1, <1>2, <1>3, <1>4 DEF Acts

(* A start keeps its number, its session, its worktree and its Palari.     *)
LEMMA StartedStays ==
    ASSUME ClaimsTypeOK, Locals, ParkingNext, NEW p \in Proc, step'[p] \in StartedSteps
    PROVE  \/ Examine(p)
           \/ /\ step[p] \in StartedSteps
              /\ run'[p].number = run[p].number /\ run'[p].session = run[p].session
              /\ run'[p].at = run[p].at /\ run'[p].as = run[p].as
  <1>1. CASE Stays(p)
    BY <1>1 DEF Stays
  <1>2. CASE Acts(p)
    <2>1. Examine(p) \/ Effect(p)
      BY <1>2, StepsOfOthers, StartEffect
    <2>2. CASE Effect(p)
      BY <2>2 DEF Effect, Moves, NothingNew, LocalOK, Locals, ClaimsTypeOK
    <2> QED
      BY <2>1, <2>2
  <1> QED
    BY <1>1, <1>2, OneActs

-----------------------------------------------------------------------------
(* Who may take a live lease away *)

(* A lease that was given is never given to another session.               *)
LEMMA OldNames ==
    ASSUME ClaimsTypeOK, Locals, NumbersAgree, SessionsAgree, ParkingNext
    PROVE  \A n \in 1..minted, s \in Nat : Named(n, s)' => Named(n, s)
  <1>1. CASE \E p \in Proc : Examine(p)
    <2>1. PICK k, t \in 1..(minted + 1) :
             /\ k = minted + 1 \/ Named(k, t)
             /\ \A n, s \in Nat : Named(n, s)' => Named(n, s) \/ (n = k /\ s = t)
      BY <1>1, ExamineAdds
    <2>2. minted \in Nat /\ minted + 1 \notin 1..minted /\ 1..minted \subseteq Nat
      BY DEF ClaimsTypeOK
    <2> QED
      BY <2>1, <2>2
  <1>2. CASE ~ \E p \in Proc : Examine(p)
    <2>1. Remembers
      BY <1>2, NextChanges, TypesKept, Effects, Remembered
    <2>2. 1..minted \subseteq Nat
      BY DEF ClaimsTypeOK
    <2> QED
      BY <2>1, <2>2 DEF Remembers
  <1> QED
    BY <1>1, <1>2

(* The lease in the ref was given to its session.                          *)
LEMMA LeaseIsNamed ==
    ASSUME ClaimsTypeOK, lease.number # 0
    PROVE  /\ lease.number \in Nat /\ lease.session \in Nat
           /\ Named(lease.number, lease.session)
  BY DEF ClaimsTypeOK, Named

(* The lease of a start was given to its session, and that session to its  *)
(* worktree and Palari.                                                    *)
LEMMA StartIsNamed ==
    ASSUME ClaimsTypeOK, Locals, NEW p \in Proc, step[p] \in StartedSteps
    PROVE  /\ run[p].number \in Nat \ {0} /\ run[p].session \in Nat
           /\ run[p].at \in Worktree /\ run[p].as \in Palari
           /\ Named(run[p].number, run[p].session)
           /\ Owned(run[p].session, run[p].at, run[p].as)
  <1>1. /\ run[p].number # 0 /\ run[p].at \in Worktree /\ run[p].as \in Palari
    BY DEF Locals, LocalOK, StartedSteps, StartSteps
  <1>2. run[p].number \in Nat /\ run[p].session \in Nat
    BY DEF ClaimsTypeOK, Command
  <1> QED
    BY <1>1, <1>2 DEF Named, Owned

(* So was the claim that a release has read.                               *)
LEMMA ReadClaimIsNamed ==
    ASSUME ClaimsTypeOK, Locals, NEW p \in Proc, step[p] \in {"dropLease", "unlink"}
    PROVE  /\ run[p].claim.lease \in Nat \ {0} /\ run[p].claim.session \in Nat
           /\ run[p].at \in Worktree /\ run[p].as \in Palari
           /\ run[p].claim.by = run[p].as /\ run[p].claim \in Claim
           /\ Named(run[p].claim.lease, run[p].claim.session)
           /\ Owned(run[p].claim.session, run[p].at, run[p].as)
  <1>1. /\ run[p].claim # NoClaim /\ run[p].claim.by = run[p].as
        /\ run[p].at \in Worktree /\ run[p].as \in Palari
    BY DEF Locals, LocalOK, ReleaseSteps
  <1>2. run[p].claim \in Claim
    BY <1>1 DEF ClaimsTypeOK, Command
  <1>3. run[p].claim.lease \in Nat \ {0} /\ run[p].claim.session \in Nat
    BY <1>2 DEF Claim
  <1> QED
    BY <1>1, <1>2, <1>3 DEF Named, Owned

(* Only its own Palari, from its own worktree, replaces or deletes a lease *)
(* that has not expired.                                                   *)
LEMMA LeaseChanger ==
    ASSUME ClaimsInv, Changes, lease' # lease,
           lease.number # 0, lease.number \notin expired,
           NEW w \in Worktree, NEW a \in Palari, Owned(lease.session, w, a)
    PROVE  \E q \in Proc : /\ run[q].at = w /\ run[q].as = a
                           /\ AcquireLease(q) \/ RevokeLease(q) \/ DropLease(q)
  <1> USE DEF ClaimsInv
  <1>1. /\ lease.number \in Nat /\ lease.session \in Nat
        /\ Named(lease.number, lease.session)
    BY LeaseIsNamed
  <1>2. ASSUME NEW q \in Proc, AcquireLease(q)
        PROVE  run[q].at = w /\ run[q].as = a
    <2>1. step[q] = "cas" /\ lease.number = run[q].expect
      BY <1>2 DEF AcquireLease, At, CasSucceeds
    <2>2. lease.session = run[q].session
      BY <1>1, <2>1 DEF ReplacesItsOwn
    <2>3. step[q] \in StartedSteps
      BY <2>1 DEF StartedSteps, StartSteps
    <2> QED
      BY <1>1, <2>2, <2>3, StartIsNamed DEF SessionsAgree
  <1>3. ASSUME NEW q \in Proc, RevokeLease(q)
        PROVE  run[q].at = w /\ run[q].as = a
    <2>1. step[q] \in StartedSteps /\ lease.number = run[q].number
      BY <1>3 DEF RevokeLease, At, DropsLease, StartedSteps, StartSteps
    <2>2. lease.session = run[q].session
      BY <1>1, <2>1, StartIsNamed DEF NumbersAgree
    <2> QED
      BY <1>1, <2>1, <2>2, StartIsNamed DEF SessionsAgree
  <1>4. ASSUME NEW q \in Proc, DropLease(q)
        PROVE  run[q].at = w /\ run[q].as = a
    <2>1. step[q] = "dropLease" /\ lease.number = run[q].claim.lease
      BY <1>4 DEF DropLease, At, DropsLease
    <2>2. lease.session = run[q].claim.session
      BY <1>1, <2>1, ReadClaimIsNamed DEF NumbersAgree
    <2> QED
      BY <1>1, <2>1, <2>2, ReadClaimIsNamed DEF SessionsAgree
  <1> QED
    BY <1>2, <1>3, <1>4 DEF Changes

-----------------------------------------------------------------------------
(* The invariant is kept *)

(* A start goes on owning the active claim of its worktree.                *)
LEMMA OwnClaimKept ==
    ASSUME ClaimsInv, ParkingNext
    PROVE  OwnClaim'
  <1> USE DEF ClaimsInv
  <1> SUFFICES ASSUME NEW p \in Proc, step'[p] \in StartedSteps,
                      Active(claims[run[p].at])'
               PROVE  claims'[run'[p].at].by = run'[p].as
    BY DEF OwnClaim
  <1>1. Locals /\ Changes /\ expired \subseteq expired'
    BY NextChanges, CounterTypes
  <1>2. CASE Examine(p)
    <2>1. claims' = claims /\ run'[p].at = run[p].at /\ run'[p].as = run[p].as
          /\ expired' = expired
      BY <1>2, ExamineMoves DEF Examine, local, Moves, ClaimsTypeOK
    <2> QED
      BY <1>2, <2>1, ExamineMoves DEF Active
  <1>3. CASE /\ step[p] \in StartedSteps
             /\ run'[p].at = run[p].at /\ run'[p].as = run[p].as
    <2> DEFINE w == run[p].at
    <2>1. w \in Worktree
      BY <1>3, StartIsNamed
    <2>2. CASE claims'[w] = claims[w]
      BY <1>1, <1>3, <2>2 DEF OwnClaim, Active
    <2>3. ASSUME NEW q \in Proc, run[q].number # 0, run[q].at = w, claims'[w].by = run[q].as
          PROVE  claims'[w].by = run[p].as
      <3>1. step[q] \in LockedSteps /\ step[p] \in LockedSteps
        BY <1>3, <2>3 DEF Locals, LocalOK, StartedSteps, LockedSteps
      <3> QED
        BY <2>3, <3>1 DEF Exclusive
    <2>4. claims'[w] # NoClaim
      BY <1>3 DEF Active
    <2> QED
      BY <1>1, <1>3, <2>1, <2>2, <2>3, <2>4, ClaimsFrom
  <1> QED
    BY <1>2, <1>3, StartedStays

(* The lease to be replaced stays none, expired or its own.                *)
LEMMA ReplacesKept ==
    ASSUME ClaimsInv, ParkingNext
    PROVE  ReplacesItsOwn'
  <1> USE DEF ClaimsInv
  <1> SUFFICES ASSUME NEW p \in Proc, step'[p] = "cas"
               PROVE  /\ run'[p].expect \in 0..minted'
                      /\ \/ run'[p].expect \in {0} \cup expired'
                         \/ \A s \in Nat : Named(run[p].expect, s)' => s = run'[p].session
    BY DEF ReplacesItsOwn
  <1>1. /\ minted \in Nat /\ minted' \in Nat /\ minted' >= minted /\ expired \subseteq expired'
        /\ 0..minted \subseteq 0..minted'
    BY NextChanges, CounterTypes DEF ClaimsTypeOK
  <1>2. CASE Stays(p)
    <2>1. step[p] = "cas" /\ run'[p] = run[p]
      BY <1>2 DEF Stays
    <2>2. run[p].expect \in 0..minted
      BY <2>1 DEF ReplacesItsOwn
    <2>3. run[p].expect # 0 => \A s \in Nat : Named(run[p].expect, s)' => Named(run[p].expect, s)
      BY <1>1, <2>1, <2>2, OldNames
    <2> QED
      BY <1>1, <2>1, <2>2, <2>3 DEF ReplacesItsOwn
  <1>3. CASE ReadLease(p)
    <2>1. /\ run'[p].expect = lease.number /\ run'[p].session = run[p].session
          /\ lease' = lease /\ LeaseIsFree(p)
      BY <1>3 DEF ReadLease, Leave, Go, shared, ClaimsTypeOK, Command
    <2>2. lease.number \in 0..minted
      BY <1>1, LeaseIsNamed DEF NumbersAgree
    <2>3. CASE lease.number \in {0} \cup expired
      BY <1>1, <2>1, <2>2, <2>3
    <2>4. CASE lease.number \notin {0} \cup expired
      <3>1. lease.session = run[p].session
        BY <2>1, <2>4 DEF LeaseIsFree, LeaseActive, NoLease
      <3>2. Named(lease.number, lease.session) /\ lease.number \in 1..minted
        BY <1>1, <2>4, LeaseIsNamed DEF NumbersAgree
      <3>3. \A n, s \in Nat : n = lease.number /\ Named(n, s)' => s = lease.session
        BY <2>4, <3>2, OldNames, LeaseIsNamed DEF NumbersAgree
      <3> QED
        BY <1>1, <2>1, <2>2, <2>4, <3>1, <3>3, LeaseIsNamed
    <2> QED
      BY <2>3, <2>4
  <1> QED
    BY <1>2, <1>3, OneActs, StepsOfOthers, StepsOfStart DEF StartedSteps, StartSteps

(* The winner of the lease keeps it until it expires or is given up.       *)
LEMMA HasLeaseKept ==
    ASSUME ClaimsInv, ParkingNext
    PROVE  HasLease'
  <1> USE DEF ClaimsInv
  <1> SUFFICES ASSUME NEW p \in Proc, step'[p] \in LeasedSteps
               PROVE  lease'.number = run'[p].number \/ run'[p].number \in expired'
    BY DEF HasLease
  <1>1. Changes /\ expired \subseteq expired'
    BY NextChanges, CounterTypes
  <1>2. CASE AcquireLease(p)
    BY <1>2 DEF AcquireLease, Goto
  <1>3. CASE ~AcquireLease(p)
    <2>1. step[p] \in LeasedSteps
      BY <1>3, OneActs, StepsOfOthers, StepsOfStart
         DEF Stays, LeasedSteps, WriteSteps, StartedSteps, StartSteps
    <2>2. step[p] \in StartedSteps /\ step'[p] \in StartedSteps /\ step[p] \in LockedSteps
          /\ step[p] \notin {"examine", "scan", "cas"}
      BY <2>1 DEF LeasedSteps, WriteSteps, StartedSteps, StartSteps, LockedSteps
    <2>3. run'[p].number = run[p].number
      BY <2>2, StartedStays DEF Examine, At
    <2>4. CASE lease' = lease \/ run[p].number \in expired
      BY <1>1, <2>1, <2>3, <2>4 DEF HasLease
    <2>5. CASE lease' # lease /\ run[p].number \notin expired
      <3>1. lease.number = run[p].number /\ lease.number # 0
        BY <2>1, <2>2, <2>5, StartIsNamed DEF HasLease
      <3>2. lease.session = run[p].session
        BY <2>2, <3>1, StartIsNamed, LeaseIsNamed DEF NumbersAgree
      <3>3. PICK q \in Proc : /\ run[q].at = run[p].at
                              /\ AcquireLease(q) \/ RevokeLease(q) \/ DropLease(q)
        BY <1>1, <2>2, <2>5, <3>1, <3>2, StartIsNamed, LeaseChanger
      <3>4. step[q] \in LockedSteps
        BY <3>3 DEF AcquireLease, RevokeLease, DropLease, At, LockedSteps, StartSteps, ReleaseSteps
      <3>5. q = p
        BY <2>2, <3>3, <3>4 DEF Exclusive
      <3>6. RevokeLease(p)
        BY <1>3, <2>2, <3>3, <3>5 DEF DropLease, At, StartedSteps, StartSteps
      <3> QED
        BY <3>6 DEF RevokeLease, Leave, Go, LeasedSteps, WriteSteps, ClaimsTypeOK
    <2> QED
      BY <2>4, <2>5
  <1> QED
    BY <1>2, <1>3

(* Every step keeps the invariant.                                         *)
LEMMA ClaimsInvKept ==
    ASSUME ClaimsInv, ParkingNext
    PROVE  ClaimsInv'
  BY TypesKept, ExclusiveKept, AgreementKept, OwnClaimKept, ReplacesKept, HasLeaseKept
     DEF ClaimsInv

(* It holds before the first command.                                      *)
LEMMA InitialInv == ClaimsInit => ClaimsInv
  <1> SUFFICES ASSUME ClaimsInit PROVE ClaimsInv
    OBVIOUS
  <1> USE DEF ClaimsInit
  <1>1. ClaimsTypeOK
    BY IdleIsTyped, ClaimsAssumption
       DEF ClaimsTypeOK, NoLease, NoWitness, Steps
  <1>2. Idle.at = Nowhere /\ Idle.number = 0 /\ Idle.claim = NoClaim
    BY DEF Idle
  <1>3. Locals
    BY <1>2 DEF Locals, LocalOK, StartSteps, StartedSteps, ReleaseSteps, ParkSteps
  <1>4. Exclusive /\ OwnClaim /\ ReplacesItsOwn /\ HasLease
    BY DEF Exclusive, OwnClaim, ReplacesItsOwn, HasLease, LeasedSteps, WriteSteps,
           LockedSteps, StartSteps, StartedSteps, ReleaseSteps
  <1>5. NumbersAgree /\ SessionsAgree
    BY <1>2 DEF NumbersAgree, SessionsAgree, Named, Owned, NoLease
  <1> QED
    BY <1>1, <1>3, <1>4, <1>5 DEF ClaimsInv

(* Stuttering keeps it.                                                    *)
LEMMA ClaimsInvStutters ==
    ASSUME ClaimsInv, UNCHANGED claimVars
    PROVE  ClaimsInv'
  <1> USE DEF ClaimsInv, claimVars, shared, local, outside, progress
  <1>1. ClaimsTypeOK' /\ Locals'
    BY DEF ClaimsTypeOK, Locals
  <1>2. Exclusive' /\ ReplacesItsOwn'
    BY DEF Exclusive, ReplacesItsOwn, Named
  <1>3. OwnClaim' /\ HasLease'
    BY DEF OwnClaim, HasLease, Active
  <1>4. minted' = minted /\ \A n, s : Named(n, s)' <=> Named(n, s)
    BY DEF Named
  <1>5. \A s, w, a : Owned(s, w, a)' <=> Owned(s, w, a)
    BY DEF Owned
  <1>6. NumbersAgree'
    BY <1>4 DEF NumbersAgree
  <1>7. SessionsAgree'
    BY <1>4, <1>5 DEF SessionsAgree
  <1> QED
    BY <1>1, <1>2, <1>3, <1>6, <1>7

(* Claims, leases and the steps of every command agree, as ClaimsInv       *)
(* says.                                                                   *)
THEOREM ClaimsInvariant == ParkingSpec => []ClaimsInv
  <1>1. ClaimsInv /\ [ParkingNext]_claimVars => ClaimsInv'
    BY ClaimsInvKept, ClaimsInvStutters
  <1> QED
    BY InitialInv, <1>1, PTL DEF ParkingSpec

(* Every variable keeps its type, at each step of each command.            *)
THEOREM ClaimTypesCorrect == ParkingSpec => []ClaimsTypeOK
  <1>1. ClaimsInv => ClaimsTypeOK
    BY DEF ClaimsInv
  <1> QED
    BY ClaimsInvariant, <1>1, PTL

-----------------------------------------------------------------------------
(* Unless it expired, a claim is ended by a process of its own Palari in   *)
(* its own worktree.                                                       *)
LEMMA EndingStep ==
    ASSUME ClaimsInv, ParkingNext, NEW w \in Worktree, Held(w), ~Held(w)',
           claims[w].lease \notin expired'
    PROVE  \E p \in Proc : /\ step'[p] # step[p]
                           /\ run[p].at = w /\ run[p].as = claims[w].by
  <1> USE DEF ClaimsInv
  <1>1. /\ claims[w] \in Claim /\ claims[w] # NoClaim /\ lease.number = claims[w].lease
        /\ claims[w].lease \notin expired
    BY DEF Held, Active, Leased, ClaimsTypeOK
  <1>2. /\ claims[w].lease \in Nat \ {0} /\ claims[w].session \in Nat /\ claims[w].by \in Palari
    BY <1>1 DEF Claim
  <1>3. CASE lease' # lease
    <2>1. lease.session = claims[w].session
      BY <1>1, <1>2, LeaseIsNamed DEF Named, NumbersAgree
    <2>2. Owned(lease.session, w, claims[w].by)
      BY <1>1, <2>1 DEF Owned
    <2>3. PICK q \in Proc : /\ run[q].at = w /\ run[q].as = claims[w].by
                            /\ AcquireLease(q) \/ RevokeLease(q) \/ DropLease(q)
      BY <1>1, <1>2, <1>3, <2>2, NextChanges, LeaseChanger
    <2>4. step'[q] # step[q]
      BY <2>3 DEF AcquireLease, RevokeLease, DropLease, At, Goto, Leave, Go, ClaimsTypeOK
    <2> QED
      BY <2>3, <2>4
  <1>4. CASE claims'[w] # claims[w]
    <2>1. ASSUME NEW q \in Proc, WriteClaim(q)
          PROVE  step'[q] # step[q] /\ run[q].at = w /\ run[q].as = claims[w].by
      <3>1. step[q] \in StartedSteps /\ step'[q] # step[q] /\ run[q].at = w
        BY <1>4, <2>1 DEF WriteClaim, At, Leave, Go, StartedSteps, StartSteps, ClaimsTypeOK
      <3> QED
        BY <3>1 DEF OwnClaim, Held
    <2>2. ASSUME NEW q \in Proc, Unlink(q)
          PROVE  step'[q] # step[q] /\ run[q].at = w /\ run[q].as = claims[w].by
      <3>1. step[q] = "unlink" /\ step'[q] # step[q] /\ run[q].at = w /\ claims[w] = run[q].claim
        BY <1>4, <2>2 DEF Unlink, At, Leave, Go, ClaimsTypeOK
      <3> QED
        BY <3>1, ReadClaimIsNamed
    <2> QED
      BY <1>4, <2>1, <2>2, NextChanges DEF Changes
  <1>5. CASE lease' = lease /\ claims'[w] = claims[w]
    BY <1>1, <1>5 DEF Held, Active, Leased
  <1> QED
    BY <1>3, <1>4, <1>5

(* A claim that can be used ends by expiry or by its own Palari in its     *)
(* own worktree, whatever the others do, wherever they stop.               *)
THEOREM ClaimEndsByItsOwner == ParkingSpec => EndsOnlyByItsOwner
  <1>1. ASSUME ClaimsInv, [ParkingNext]_claimVars
        PROVE  [\A w \in Worktree :
                  Ends(w) => claims[w].lease \in expired' \/ OwnerActs(w)]_claimVars
    BY <1>1, EndingStep DEF Ends, OwnerActs
  <1> QED
    BY ClaimsInvariant, <1>1, PTL DEF ParkingSpec, EndsOnlyByItsOwner

(* Nothing durable is written without the lease, or before it was lost to  *)
(* its expiry.                                                             *)
THEOREM WritesUnderLease == ParkingSpec => PersistsUnderLease
  <1>1. ASSUME ClaimsInv
        PROVE  \A p \in Proc : step[p] \in WriteSteps =>
                 lease.number = run[p].number \/ run[p].number \in expired
    BY <1>1 DEF ClaimsInv, HasLease, LeasedSteps
  <1>2. ASSUME ClaimsInv, [ParkingNext]_claimVars
        PROVE  [\A p \in Proc :
                 step[p] \in WriteSteps /\ <<witness, baseline, claims>>' # <<witness, baseline, claims>>
                   /\ step'[p] # step[p] =>
                     lease.number = run[p].number \/ run[p].number \in expired]_claimVars
    BY <1>1, <1>2
  <1> QED
    BY ClaimsInvariant, <1>2, PTL DEF ParkingSpec, PersistsUnderLease

-----------------------------------------------------------------------------
(* One claim-start commit *)

(* The oldest entry of the witness is final.                               *)
LEMMA OldestStays ==
    ASSUME ClaimsInv, Changes, witness.oldest # NoCommit
    PROVE  witness'.oldest = witness.oldest
  BY DEF Changes, SetWitness, WitnessAfter

(* A baseline goes on being taken from it.                                 *)
LEMMA FromOldestKept ==
    ASSUME ClaimsInv, FromOldest, ParkingNext
    PROVE  FromOldest'
  <1> SUFFICES ASSUME NEW p \in Proc, step'[p] = "writeBaseline"
               PROVE  run'[p].base = witness'.oldest /\ witness'.oldest # NoCommit
    BY DEF FromOldest
  <1> USE DEF ClaimsInv
  <1>1. CASE Stays(p)
    BY <1>1, NextChanges, OldestStays DEF Stays, FromOldest
  <1>2. CASE ReadWitness(p) \/ SetWitness(p)
    <2>1. run[p].base \in Commit /\ run[p].base # NoCommit
      BY <1>2, ClaimsAssumption DEF ReadWitness, SetWitness, At, Locals, LocalOK, StartedSteps, StartSteps
    <2>2. CASE ReadWitness(p)
      BY <2>1, <2>2 DEF ReadWitness, Goto, Go, WitnessHolds, shared, ClaimsTypeOK
    <2>3. CASE SetWitness(p)
      BY <2>1, <2>3 DEF SetWitness, Goto, Go, IsOrigin, ClaimsTypeOK
    <2> QED
      BY <1>2, <2>2, <2>3
  <1> QED
    BY <1>1, <1>2, OneActs, StepsOfOthers, StepsOfStart DEF StartedSteps, StartSteps

(* So every step keeps the claim-start commit.                             *)
LEMMA OneClaimStartKept ==
    ASSUME ClaimsInv, FromOldest, OneClaimStart, ParkingNext
    PROVE  OneClaimStart'
  <1> SUFFICES ASSUME NEW w \in Worktree, baseline'[w] # NoCommit
               PROVE  baseline'[w] = witness'.oldest
    BY DEF OneClaimStart
  <1>1. CASE baseline'[w] = baseline[w]
    BY <1>1, NextChanges, OldestStays DEF OneClaimStart
  <1>2. ASSUME NEW p \in Proc, WriteBaseline(p), baseline'[w] # baseline[w]
        PROVE  baseline'[w] = witness'.oldest
    BY <1>2 DEF WriteBaseline, At, FromOldest, shared, ClaimsInv, ClaimsTypeOK
  <1> QED
    BY <1>1, <1>2, NextChanges DEF Changes

(* Every baseline is the oldest entry of the witness.                      *)
THEOREM OneStartCommit == ParkingSpec => []OneClaimStart
  <1>1. ClaimsInit => FromOldest /\ OneClaimStart
    BY DEF ClaimsInit, FromOldest, OneClaimStart
  <1>2. ClaimsInv /\ FromOldest /\ OneClaimStart /\ [ParkingNext]_claimVars
          => (FromOldest /\ OneClaimStart)'
    BY FromOldestKept, OneClaimStartKept
       DEF FromOldest, OneClaimStart, claimVars, shared, local, progress
  <1> QED
    BY ClaimsInvariant, <1>1, <1>2, PTL DEF ParkingSpec

-----------------------------------------------------------------------------
(* Parking *)

(* The steps a parking goes to.                                            *)
LEMMA StepsOfParking ==
    ASSUME ClaimsTypeOK, NEW p \in Proc, Acts(p), ~StartStep(p)
    PROVE  /\ step'[p] = "parkCheck" =>
                \E w \in Worktree, a \in Palari : Park(p, w, a)
           /\ step'[p] = "parkWrite" => ParkCheck(p)
           /\ step'[p] = "parkConfirm" => ParkWrite(p)
           /\ step'[p] = "lock" =>
                ParkConfirm(p) \/ \E w \in Worktree, a \in Palari : Resume(p, w, a)
           /\ step'[p] = "readClaim" /\ run'[p].cmd = "park" => LockToRelease(p)
           /\ step'[p] = "dropLease" => ReadClaim(p)
           /\ step'[p] = "unlink" => DropLease(p)
  <1> USE DEF ClaimsTypeOK, Go, Goto, Leave, Stop, Begin, At
  <1>1. CASE Unlock(p) \/ Interrupt(p) \/ Crash(p)
    BY <1>1 DEF Unlock, Interrupt, Crash
  <1>2. CASE ReleaseStep(p)
    BY <1>2 DEF ReleaseStep, LockToRelease, ReleaseRefused, ReadClaim, DropLease, Unlink
  <1>3. CASE ParkStep(p)
    BY <1>3 DEF ParkStep, ParkCheck, ParkWrite, ParkFails, ParkConfirm, ReleaseParked
  <1>4. CASE \E w \in Worktree, a \in Palari : Park(p, w, a) \/ Resume(p, w, a)
    BY <1>4 DEF Park, Resume
  <1>5. CASE \E w \in Worktree, a \in Palari : Start(p, w, a)
    BY <1>5 DEF Start
  <1>6. CASE \E w \in Worktree, a \in Palari : Release(p, w, a)
    BY <1>6 DEF Release, Idle
  <1> QED
    BY <1>1, <1>2, <1>3, <1>4, <1>5, <1>6 DEF Acts

(* A record stays, and every write counts.                                 *)
LEMMA RecordStays ==
    ASSUME ClaimsInv, ParkingInv, Changes, NEW w \in Worktree
    PROVE  /\ Parked(w) => ws'[w].parked = ws[w].parked
           /\ ws'[w].version >= ws[w].version
           /\ ws'[w].version = ws[w].version => ws'[w].parked = ws[w].parked
  <1> USE DEF ClaimsInv
  <1>1. ws[w].version \in Nat /\ ws[w].version + 1 > ws[w].version
        /\ ws[w].version + 1 # ws[w].version /\ ws[w].version + 1 >= ws[w].version
        /\ ws[w].version >= ws[w].version
    BY DEF ClaimsTypeOK
  <1>2. ASSUME NEW p \in Proc, ParkWrite(p), ws'[w] # ws[w]
        PROVE  ~Parked(w) /\ ws'[w].version = ws[w].version + 1
    BY <1>2 DEF ParkWrite, MayParkWrite, At, ParkingInv, ClaimsTypeOK
  <1>3. ASSUME NEW v \in Worktree, WriteWorkspace(v), ws'[w] # ws[w]
        PROVE  ws'[w].version = ws[w].version + 1 /\ ws'[w].parked = ws[w].parked
    BY <1>3 DEF WriteWorkspace, ClaimsTypeOK
  <1> QED
    BY <1>1, <1>2, <1>3 DEF Changes

(* Before the record is written.                                           *)
LEMMA BeforeParkWriteKept ==
    ASSUME ClaimsInv, ParkingInv, ParkingNext, NEW p \in Proc,
           step'[p] \in {"parkCheck", "parkWrite"}
    PROVE  /\ run'[p].want # NoClaim
           /\ step'[p] = "parkWrite" =>
                /\ run'[p].seen <= ws'[run'[p].at].version
                /\ ws'[run'[p].at].version = run'[p].seen => ~Parked(run[p].at)'
  <1> USE DEF ClaimsInv
  <1>1. ClaimsTypeOK' /\ Changes
    BY TypesKept, NextChanges
  <1>2. CASE Stays(p)
    <2>1. run[p].at \in Worktree /\ run[p].want # NoClaim
      BY <1>2 DEF Stays, Locals, LocalOK, ParkingInv
    <2>2. /\ ws[run[p].at].version \in Nat /\ ws'[run[p].at].version \in Nat
          /\ run[p].seen \in Nat
      BY <1>1, <2>1 DEF ClaimsTypeOK, Command
    <2> QED
      BY <1>1, <1>2, <2>1, <2>2, RecordStays DEF Stays, ParkingInv, Parked
  <1>3. ASSUME NEW w \in Worktree, NEW a \in Palari, Park(p, w, a), step'[p] = "parkCheck"
        PROVE  run'[p].want # NoClaim
    BY <1>3 DEF Park, OwnedClaim, ClaimsTypeOK
  <1>4. CASE ParkCheck(p) /\ step'[p] = "parkWrite"
    <2>1. run[p] \in Command /\ step[p] = "parkCheck"
      BY <1>4 DEF ParkCheck, At, ClaimsTypeOK
    <2>2. run[p].at \in Worktree /\ run[p].want # NoClaim
      BY <2>1 DEF Locals, LocalOK, ParkingInv
    <2>3. /\ ~Parked(run[p].at) /\ ws' = ws
          /\ run' = [run EXCEPT ![p].seen = ws[run[p].at].version]
      BY <1>4 DEF ParkCheck, Stop, Go, outside, ClaimsTypeOK
    <2>4. /\ run'[p].seen = ws[run[p].at].version /\ run'[p].at = run[p].at
          /\ run'[p].want = run[p].want
      BY <2>1, <2>3 DEF ClaimsTypeOK, Command
    <2>5. ws[run[p].at].version <= ws[run[p].at].version
      BY <2>2 DEF ClaimsTypeOK
    <2> QED
      BY <2>2, <2>3, <2>4, <2>5 DEF Parked
  <1> QED
    BY <1>2, <1>3, <1>4, OneActs, StepsOfStart, StepsOfParking DEF ParkSteps

(* The parking of p depends on its record.                                 *)
Bound(p) == step[p] = "parkConfirm" \/ (run[p].cmd = "park" /\ step[p] \in {"lock", "readClaim"})

(* Between the record and the release.                                     *)
LEMMA AfterParkWriteKept ==
    ASSUME ClaimsInv, ParkingInv, ParkingNext, NEW p \in Proc, Bound(p)'
    PROVE  run'[p].want # NoClaim /\ ws'[run'[p].at].parked = run'[p].want
  <1> USE DEF ClaimsInv
  <1>1. Changes
    BY NextChanges
  <1>2. CASE Stays(p)
    BY <1>1, <1>2, RecordStays DEF Stays, Bound, ParkingInv, Parked, Locals, LocalOK
  <1>3. CASE ParkWrite(p)
    <2>1. run[p].at \in Worktree /\ run[p].want # NoClaim
      BY <1>3 DEF ParkWrite, At, Locals, LocalOK, ParkingInv
    <2> QED
      BY <1>3, <2>1 DEF ParkWrite, Goto, ClaimsTypeOK
  <1>4. CASE ParkConfirm(p) \/ LockToRelease(p)
    BY <1>4 DEF ParkConfirm, LockToRelease, ReleaseParked, Stop, Goto, Go, At, Bound, ParkingInv,
                outside, Idle, ClaimsTypeOK
  <1>5. ASSUME NEW w \in Worktree, NEW a \in Palari, Resume(p, w, a)
        PROVE  run'[p].want # NoClaim /\ ws'[run'[p].at].parked = run'[p].want
    BY <1>5 DEF Resume, BoundTo, OwnedClaim, outside, Idle, ClaimsTypeOK
  <1> QED
    BY <1>2, <1>3, <1>4, <1>5, OneActs, StepsOfStart, StepsOfParking DEF Bound, ParkSteps

(* The claim to be released is the recorded one.                           *)
LEMMA ReleasedClaimKept ==
    ASSUME ClaimsInv, ParkingInv, ParkingNext, NEW p \in Proc,
           run'[p].cmd = "park", step'[p] \in {"dropLease", "unlink"}
    PROVE  ws'[run'[p].at].parked = run'[p].claim
  <1> USE DEF ClaimsInv
  <1>1. Changes
    BY NextChanges
  <1>2. CASE Stays(p)
    BY <1>1, <1>2, RecordStays DEF Stays, ParkingInv, Parked, Locals, LocalOK
  <1>3. CASE ReadClaim(p) /\ step'[p] = "dropLease"
    <2>1. /\ run'[p].claim = claims[run[p].at] /\ run'[p].cmd = run[p].cmd
          /\ run'[p].at = run[p].at /\ Releasable(p, claims[run[p].at])
          /\ ws' = ws /\ step[p] = "readClaim"
      <3>1. Releasable(p, claims[run[p].at])
        BY <1>3 DEF ReadClaim, Leave, Go, ClaimsTypeOK
      <3>2. run'[p] = [Idle EXCEPT !.cmd = run[p].cmd, !.at = run[p].at, !.as = run[p].as,
                                   !.claim = claims[run[p].at],
                                   !.strict = Active(claims[run[p].at]),
                                   !.lenient = run[p].lenient]
        BY <1>3, <3>1 DEF ReadClaim, ClaimsTypeOK
      <3>3. ws' = ws /\ step[p] = "readClaim"
        BY <1>3 DEF ReadClaim, At, outside
      <3> QED
        BY <3>1, <3>2, <3>3 DEF Idle
    <2> QED
      BY <2>1 DEF ParkingInv, Releasable
  <1>4. CASE DropLease(p) /\ step'[p] = "unlink"
    BY <1>4 DEF DropLease, Goto, Go, Leave, At, outside, ParkingInv, ClaimsTypeOK
  <1> QED
    BY <1>2, <1>3, <1>4, OneActs, StepsOfStart, StepsOfParking DEF ParkSteps

(* Every step keeps what a parking knows.                                  *)
LEMMA ParkingInvKept ==
    ASSUME ClaimsInv, ParkingInv, ParkingNext
    PROVE  ParkingInv'
  BY BeforeParkWriteKept, AfterParkWriteKept, ReleasedClaimKept DEF ParkingInv, Bound

(* Parking knows the record it wrote, as ParkingInv says.                  *)
THEOREM ParkingInvariant == ParkingSpec => []ParkingInv
  <1>1. ClaimsInit => ParkingInv
    BY DEF ClaimsInit, ParkingInv, Idle
  <1>2. ClaimsInv /\ ParkingInv /\ [ParkingNext]_claimVars => ParkingInv'
    BY ParkingInvKept DEF ParkingInv, Parked, claimVars, outside, progress
  <1> QED
    BY ClaimsInvariant, <1>1, <1>2, PTL DEF ParkingSpec

(* The first record of a parking stays.                                    *)
THEOREM RecordIsWrittenOnce == ParkingSpec => ParkedOnce
  <1>1. ASSUME ClaimsInv, ParkingInv, [ParkingNext]_claimVars
        PROVE  [\A w \in Worktree : Parked(w) => ws'[w].parked = ws[w].parked]_claimVars
    BY <1>1, NextChanges, RecordStays
  <1> QED
    BY ClaimsInvariant, ParkingInvariant, <1>1, PTL DEF ParkingSpec, ParkedOnce

(* One process moves at a time.                                            *)
LEMMA OneMoves ==
    ASSUME ClaimsTypeOK, Locals, ParkingNext, NEW p \in Proc, NEW q \in Proc,
           step'[p] # step[p], step'[q] # step[q]
    PROVE  p = q
  <1>1. Acts(p)
    BY OneActs DEF Stays
  <1> QED
    BY <1>1, ActsMoves DEF Moves, ClaimsTypeOK

(* Parking releases the claim its record names.                            *)
THEOREM ParkingReleasesItsClaim == ParkingSpec => ReleasesWhatItParked
  <1>1. ASSUME ClaimsInv, ParkingInv, ParkingNext, NEW p \in Proc,
               At(p, "unlink"), run[p].cmd = "park", step'[p] # step[p],
               NEW w \in Worktree, claims'[w] # claims[w]
        PROVE  ws[w].parked = claims[w]
    <2>1. PICK q \in Proc : WriteClaim(q) \/ Unlink(q)
      BY <1>1, NextChanges DEF Changes
    <2>2. step'[q] # step[q]
      BY <1>1, <2>1 DEF WriteClaim, Unlink, Leave, Go, At, ClaimsInv, ClaimsTypeOK
    <2>3. q = p
      BY <1>1, <2>2, OneMoves DEF ClaimsInv
    <2>4. Unlink(p)
      BY <1>1, <2>1, <2>3 DEF WriteClaim, At
    <2>5. w = run[p].at /\ claims[w] = run[p].claim
      BY <1>1, <2>4 DEF Unlink, ClaimsInv, ClaimsTypeOK
    <2> QED
      BY <1>1, <2>5 DEF ParkingInv, At
  <1>2. ASSUME ClaimsInv, ParkingInv, [ParkingNext]_claimVars
        PROVE  [\A p \in Proc : At(p, "unlink") /\ run[p].cmd = "park" /\ step'[p] # step[p] =>
                  \A w \in Worktree : claims'[w] # claims[w] => ws[w].parked = claims[w]]_claimVars
    BY <1>1, <1>2
  <1> QED
    BY ClaimsInvariant, ParkingInvariant, <1>2, PTL DEF ParkingSpec, ReleasesWhatItParked
-----------------------------------------------------------------------------
(* No lease is left behind *)

(* What keeps a lease from being forgotten: a start that has not swapped   *)
(* it yet has its number only as a renewal; a start that has the lease     *)
(* replaces no other claim of it; and a claim file is removed after its    *)
(* lease.                                                                  *)
Accounted ==
    /\ lease.number = 0 => lease = NoLease
    /\ \A p \in Proc :
         /\ step[p] \in {"scan", "cas"} /\ lease.number = run[p].number =>
              Leased(claims[run[p].at])
         /\ step[p] \in LeasedSteps /\ Leased(claims[run[p].at]) =>
              lease.number = run[p].number
         /\ step[p] = "unlink" => lease.number # run[p].claim.lease

(* The steps that lead to a scan.                                          *)
LEMMA StepsToScan ==
    ASSUME ClaimsTypeOK, NEW p \in Proc, StartStep(p), step'[p] = "scan"
    PROVE  Examine(p) \/ step[p] \in {"scan", "cas"}
  BY DEF StartStep, Refuse, Scan, ReadLease, AcquireLease, LoseCas, Enter, ReadWitness, SetWitness,
         WriteBaseline, WriteClaim, Abandon, FailAndRevoke, RevokeLease,
         Go, Goto, Leave, At, WriteSteps, ClaimsTypeOK

(* The ways in which a start loses its number.                             *)
LEMMA LeavesStart ==
    ASSUME ClaimsTypeOK, Locals, ParkingNext, NEW p \in Proc,
           step[p] \in StartedSteps, step'[p] \notin StartedSteps
    PROVE  \/ step[p] \in {"scan", "cas"} /\ UNCHANGED <<shared, local>>
           \/ WriteClaim(p) \/ RevokeLease(p)
           \/ faults' = faults + 1
  <1> USE DEF At, StartedSteps, StartSteps
  <1>1. Acts(p)
    BY OneActs DEF Stays
  <1>2. CASE StartStep(p)
    <2>1. CASE (\E o \in Worktree : Scan(p, o)) \/ ReadLease(p) \/ LoseCas(p)
      BY <2>1 DEF Scan, ReadLease, LoseCas
    <2>2. CASE Examine(p) \/ Refuse(p)
      BY <2>2, ExamineMoves DEF Refuse
    <2>3. CASE AcquireLease(p)
      BY <2>3 DEF AcquireLease, Goto, Go, ClaimsTypeOK
    <2>4. CASE Enter(p)
      BY <2>4 DEF Enter, Go, ClaimsTypeOK
    <2>5. CASE ReadWitness(p)
      BY <2>5 DEF ReadWitness, Goto, Go, ClaimsTypeOK
    <2>6. CASE SetWitness(p)
      BY <2>6 DEF SetWitness, Goto, Go, ClaimsTypeOK
    <2>7. CASE WriteBaseline(p) \/ Abandon(p)
      BY <2>7 DEF WriteBaseline, Abandon, FailAndRevoke, Goto, Go, ClaimsTypeOK
    <2> QED
      BY <1>2, <2>1, <2>2, <2>3, <2>4, <2>5, <2>6, <2>7 DEF StartStep
  <1>3. CASE ReleaseStep(p) \/ ParkStep(p) \/ Unlock(p)
    BY <1>3 DEF ReleaseStep, LockToRelease, ReleaseRefused, ReadClaim, DropLease, Unlink,
                ParkStep, ParkCheck, ParkWrite, ParkFails, ParkConfirm, Unlock
  <1>4. CASE Interrupt(p) \/ Crash(p)
    BY <1>4 DEF Interrupt, Crash
  <1>5. ASSUME NEW w \in Worktree, NEW a \in Palari,
               Start(p, w, a) \/ Release(p, w, a) \/ Park(p, w, a) \/ Resume(p, w, a)
        PROVE  FALSE
    BY <1>5 DEF Start, Release, Park, Resume, Begin
  <1> QED
    BY <1>1, <1>2, <1>3, <1>4, <1>5 DEF Acts

(* A lease of worktree w comes back only by a start in w.                  *)
LEMMA LeaseReturns ==
    ASSUME ClaimsInv, Changes, NEW s \in Nat, NEW w \in Worktree, NEW a \in Palari,
           lease'.number # 0, Named(lease'.number, s), Owned(s, w, a)
    PROVE  lease' = lease \/ \E q \in Proc : AcquireLease(q) /\ run[q].at = w
  <1> USE DEF ClaimsInv
  <1>1. ASSUME NEW q \in Proc, AcquireLease(q)
        PROVE  run[q].at = w
    <2>1. step[q] \in StartedSteps /\ lease'.number = run[q].number
      BY <1>1 DEF AcquireLease, At, StartedSteps, StartSteps
    <2>2. run[q].session = s
      BY <2>1, StartIsNamed DEF NumbersAgree
    <2> QED
      BY <2>1, <2>2, StartIsNamed DEF SessionsAgree
  <1>2. ASSUME NEW q \in Proc, RevokeLease(q) \/ DropLease(q)
        PROVE  lease' = lease
    BY <1>2 DEF RevokeLease, DropLease, NoLease
  <1> QED
    BY <1>1, <1>2 DEF Changes

(* A start writes a claim file.                                            *)
LEMMA FileWritten ==
    ASSUME ClaimsTypeOK, Locals, NEW p \in Proc, WriteClaim(p)
    PROVE  claims'[run[p].at] # NoClaim
  <1> DEFINE c == [lease |-> run[p].number, session |-> run[p].session,
                   by |-> run[p].as, snap |-> run[p].snap]
  <1>1. c # NoClaim
    BY WrittenClaim, NoClaimAssumption
  <1>2. claims' = [claims EXCEPT ![run[p].at] = c]
    BY DEF WriteClaim
  <1>3. run[p].at \in Worktree
    BY DEF WriteClaim, At, Locals, LocalOK
  <1> HIDE DEF c
  <1> QED
    BY <1>1, <1>2, <1>3 DEF ClaimsTypeOK

(* While p has the claim lock, only p changes the claim file.              *)
LEMMA FileIsLocked ==
    ASSUME ClaimsInv, Changes, NEW p \in Proc, step[p] \in LockedSteps
    PROVE  claims'[run[p].at] = claims[run[p].at] \/ WriteClaim(p) \/ Unlink(p)
  <1>1. ASSUME NEW q \in Proc, WriteClaim(q) \/ Unlink(q), q # p
        PROVE  claims'[run[p].at] = claims[run[p].at]
    <2>1. step[q] \in LockedSteps
      BY <1>1 DEF WriteClaim, Unlink, At, LockedSteps, StartSteps, ReleaseSteps
    <2>2. run[q].at # run[p].at
      BY <1>1, <2>1 DEF Exclusive, ClaimsInv
    <2>3. claims \in [Worktree -> Claim \cup {NoClaim}]
      BY DEF ClaimsInv, ClaimsTypeOK
    <2>4. \/ claims' = claims
          \/ claims' = [claims EXCEPT ![run[q].at] = claims'[run[q].at]]
      BY <1>1, <2>3 DEF WriteClaim, Unlink
    <2>5. run[p].at \in Worktree
      BY DEF ClaimsInv, Locals, LocalOK, LockedSteps, StartSteps, ReleaseSteps
    <2> QED
      BY <2>2, <2>3, <2>4, <2>5
  <1> QED
    BY <1>1 DEF Changes

(* And only p brings a lease of its worktree back.                         *)
LEMMA LeaseIsLocked ==
    ASSUME ClaimsInv, Changes, NEW p \in Proc, step[p] \in LockedSteps, run[p].at \in Worktree,
           NEW s \in Nat, NEW a \in Palari,
           lease'.number # 0, Named(lease'.number, s), Owned(s, run[p].at, a)
    PROVE  lease' = lease \/ AcquireLease(p)
  <1>1. ASSUME NEW q \in Proc, AcquireLease(q), run[q].at = run[p].at
        PROVE  q = p
    <2>1. step[q] \in LockedSteps
      BY <1>1 DEF AcquireLease, At, LockedSteps, StartSteps
    <2> QED
      BY <1>1, <2>1 DEF Exclusive, ClaimsInv
  <1> QED
    BY <1>1, LeaseReturns

(* A start has the number of the lease before the swap only as a renewal.  *)
LEMMA RenewalKept ==
    ASSUME ClaimsInv, Accounted, ParkingNext, NEW p \in Proc,
           step'[p] \in {"scan", "cas"}, lease'.number = run'[p].number
    PROVE  Leased(claims[run[p].at])'
  <1> USE DEF ClaimsInv
  <1>1. Changes
    BY NextChanges
  <1>2. CASE Examine(p)
    <2> DEFINE c == claims[run[p].at]
    <2>1. /\ run[p].at \in Worktree /\ run'[p].at = run[p].at
          /\ run'[p].number \in NumbersFor(c) /\ run'[p].number # 0
      BY <1>2, ExamineMoves DEF Moves, LocalOK, StartedSteps, StartSteps, ClaimsTypeOK
    <2>2. lease' = lease /\ claims' = claims
      BY <1>2 DEF Examine, shared, local
    <2>3. lease.number \in 1..minted /\ lease.number # minted + 1
      BY <2>1, <2>2, LeaseIsNamed DEF NumbersAgree, ClaimsTypeOK
    <2> QED
      BY <2>1, <2>2, <2>3, ActiveIs DEF NumbersFor, Leased, Active
  <1>3. CASE ~Examine(p)
    <2>1. /\ step[p] \in StartedSteps /\ step[p] \in {"scan", "cas"}
          /\ run'[p].number = run[p].number /\ run'[p].at = run[p].at
      <3>1. step'[p] \in StartedSteps
        BY DEF StartedSteps, StartSteps
      <3>2. step[p] \in {"scan", "cas"}
        BY <1>3, <3>1, OneActs, StepsOfOthers, StepsOfStart, StepsToScan DEF Stays, ReadLease, At
      <3> QED
        BY <1>3, <3>1, <3>2, StartedStays
    <2>2. step[p] \in LockedSteps
      BY <2>1 DEF LockedSteps, StartSteps
    <2>3. ~AcquireLease(p) /\ ~WriteClaim(p) /\ ~Unlink(p)
      BY <2>1 DEF AcquireLease, WriteClaim, Unlink, At, Goto, Go, ClaimsTypeOK
    <2>4. lease' = lease
      BY <1>1, <2>1, <2>2, <2>3, StartIsNamed, LeaseIsLocked
    <2>5. claims'[run[p].at] = claims[run[p].at]
      BY <1>1, <2>2, <2>3, FileIsLocked
    <2> QED
      BY <2>1, <2>4, <2>5 DEF Accounted, Leased
  <1> QED
    BY <1>2, <1>3

(* A start that has the lease finds no claim of another live lease.        *)
LEMMA ReplacedKept ==
    ASSUME ClaimsInv, Accounted, ParkingNext, NEW p \in Proc,
           step'[p] \in LeasedSteps, Leased(claims[run[p].at])'
    PROVE  lease'.number = run'[p].number
  <1> USE DEF ClaimsInv
  <1>1. Changes
    BY NextChanges
  <1>2. CASE AcquireLease(p)
    BY <1>2 DEF AcquireLease, Goto
  <1>3. CASE ~AcquireLease(p)
    <2>1. step[p] \in LeasedSteps
      BY <1>3, OneActs, StepsOfOthers, StepsOfStart
         DEF Stays, LeasedSteps, WriteSteps, StartedSteps, StartSteps
    <2>2. step[p] \in StartedSteps /\ step'[p] \in StartedSteps /\ step[p] \in LockedSteps
          /\ step[p] \notin {"examine", "unlink"}
      BY <2>1 DEF LeasedSteps, WriteSteps, StartedSteps, StartSteps, LockedSteps
    <2>3. /\ run'[p].number = run[p].number /\ run'[p].at = run[p].at /\ run[p].at \in Worktree
      BY <2>2, StartedStays, StartIsNamed, ExamineMoves
    <2>4. ~WriteClaim(p) /\ ~Unlink(p)
      BY <2>2 DEF WriteClaim, Unlink, At, Leave, Go, StartedSteps, StartSteps, ClaimsTypeOK
    <2> DEFINE c == claims[run[p].at]
    <2>5. claims'[run[p].at] = c /\ c # NoClaim /\ lease'.number = c.lease
      BY <1>1, <2>2, <2>3, <2>4, FileIsLocked DEF Leased
    <2>6. c \in Claim /\ c.lease \in Nat \ {0} /\ c.session \in Nat /\ c.by \in Palari
      BY <2>3, <2>5 DEF ClaimsTypeOK, Claim
    <2>7. Named(c.lease, c.session) /\ Owned(c.session, run[p].at, c.by)
      BY <2>3, <2>5, <2>6 DEF Named, Owned
    <2>8. lease' = lease
      BY <1>1, <1>3, <2>2, <2>3, <2>5, <2>6, <2>7, LeaseIsLocked
    <2> QED
      BY <2>1, <2>3, <2>5, <2>8 DEF Accounted, Leased
  <1> QED
    BY <1>2, <1>3

(* The lease of a claim that is about to be removed stays away.            *)
LEMMA RemovedKept ==
    ASSUME ClaimsInv, Accounted, ParkingNext, NEW p \in Proc, step'[p] = "unlink"
    PROVE  lease'.number # run'[p].claim.lease
  <1> USE DEF ClaimsInv
  <1>1. CASE Stays(p)
    <2>1. step[p] = "unlink" /\ run'[p] = run[p] /\ step[p] \in LockedSteps
      BY <1>1 DEF Stays, LockedSteps, ReleaseSteps
    <2>2. ~AcquireLease(p)
      BY <2>1 DEF AcquireLease, At
    <2>3. lease'.number = run[p].claim.lease => lease' = lease
      BY <2>1, <2>2, NextChanges, ReadClaimIsNamed, LeaseIsLocked
    <2> QED
      BY <2>1, <2>3 DEF Accounted
  <1>2. CASE DropLease(p)
    <2>1. step[p] = "dropLease" /\ run' = run
      BY <1>2 DEF DropLease, At, Goto, Leave, Go, ClaimsTypeOK
    <2>2. lease' = NoLease \/ (lease' = lease /\ lease.number # run[p].claim.lease)
      BY <1>2 DEF DropLease, DropsLease
    <2> QED
      BY <2>1, <2>2, ReadClaimIsNamed DEF NoLease
  <1>3. Stays(p) \/ Acts(p)
    BY OneActs
  <1>4. CASE Acts(p) /\ ~StartStep(p)
    BY <1>2, <1>4, StepsOfParking
  <1>5. CASE StartStep(p)
    BY <1>5, StepsOfStart
  <1> QED
    BY <1>1, <1>3, <1>4, <1>5

(* Every step keeps leases accounted for.                                  *)
LEMMA AccountedKept ==
    ASSUME ClaimsInv, Accounted, ParkingNext
    PROVE  Accounted'
  <1>1. lease'.number = 0 => lease' = NoLease
    <2>1. ASSUME NEW p \in Proc, AcquireLease(p)
          PROVE  lease'.number # 0
      <3>1. step[p] \in StartedSteps /\ lease'.number = run[p].number
        BY <2>1 DEF AcquireLease, At, StartedSteps, StartSteps
      <3> QED
        BY <3>1, StartIsNamed DEF ClaimsInv
    <2> QED
      BY <2>1, NextChanges DEF Changes, RevokeLease, DropLease, Accounted
  <1> QED
    BY <1>1, RenewalKept, ReplacedKept, RemovedKept DEF Accounted

(* A claim file of the live lease stays, or is renewed with it.            *)
LEMMA HolderStays ==
    ASSUME ClaimsInv, Accounted, ParkingNext, lease' = lease,
           NEW w \in Worktree, Leased(claims[w])
    PROVE  Leased(claims[w])'
  <1> USE DEF ClaimsInv
  <1>1. ASSUME NEW q \in Proc, WriteClaim(q), run[q].at = w
        PROVE  Leased(claims[w])'
    <2>1. step[q] \in LeasedSteps
      BY <1>1 DEF WriteClaim, At, LeasedSteps, WriteSteps
    <2>2. lease.number = run[q].number
      BY <1>1, <2>1 DEF Accounted
    <2>3. claims'[w].lease = run[q].number
      BY <1>1 DEF WriteClaim, ClaimsTypeOK
    <2>4. claims'[w] # NoClaim
      BY <1>1, FileWritten
    <2> QED
      BY <2>2, <2>3, <2>4 DEF Leased
  <1>2. ASSUME NEW q \in Proc, Unlink(q)
        PROVE  claims'[w] = claims[w]
    BY <1>2 DEF Unlink, At, Accounted, Leased, ClaimsTypeOK
  <1>3. ASSUME NEW q \in Proc, WriteClaim(q), run[q].at # w
        PROVE  claims'[w] = claims[w]
    BY <1>3 DEF WriteClaim, ClaimsTypeOK
  <1> QED
    BY <1>1, <1>2, <1>3, NextChanges DEF Changes, Leased

(* Without faults, a step that leaves the lease leaves its holder.         *)
LEMMA NoLeakedLeaseKept ==
    ASSUME ClaimsInv, Accounted, NoLeakedLease, ParkingNext
    PROVE  NoLeakedLease'
  <1> USE DEF ClaimsInv
  <1> SUFFICES ASSUME faults' = 0, LeaseActive'
               PROVE  \/ \E w \in Worktree : Leased(claims[w])'
                      \/ \E p \in Proc : run'[p].number = lease'.number
    BY DEF NoLeakedLease
  <1>1. Changes /\ expired \subseteq expired' /\ Accounted'
    BY NextChanges, CounterTypes, AccountedKept
  <1>2. faults = 0 /\ faults' # faults + 1
    BY <1>1 DEF Changes, ClaimsTypeOK
  <1>3. lease'.number # 0
    BY <1>1 DEF Accounted, LeaseActive
  <1>4. CASE lease' # lease
    BY <1>1, <1>3, <1>4 DEF Changes, AcquireLease, RevokeLease, DropLease, Goto, NoLease
  <1>5. CASE lease' = lease
    <2>1. LeaseActive
      BY <1>1, <1>5 DEF LeaseActive
    <2>2. CASE \E w \in Worktree : Leased(claims[w])
      BY <1>5, <2>2, HolderStays
    <2>3. ASSUME NEW p \in Proc, run[p].number = lease.number
          PROVE  \/ \E w \in Worktree : Leased(claims[w])'
                 \/ \E q \in Proc : run'[q].number = lease'.number
      <3>1. step[p] \in StartedSteps /\ run[p].at \in Worktree
        BY <1>3, <1>5, <2>3 DEF Locals, LocalOK, StartedSteps, StartSteps
      <3>2. CASE step'[p] \in StartedSteps
        BY <1>5, <2>3, <3>1, <3>2, StartedStays, ExamineMoves DEF StartedSteps
      <3>3. CASE step[p] \in {"scan", "cas"}
        BY <1>5, <2>3, <3>1, <3>3, HolderStays DEF Accounted
      <3>4. CASE WriteClaim(p)
        <4>1. claims'[run[p].at].lease = run[p].number
          BY <3>1, <3>4 DEF WriteClaim, ClaimsTypeOK
        <4>2. claims'[run[p].at] # NoClaim
          BY <3>4, FileWritten
        <4> QED
          BY <1>5, <2>3, <3>1, <4>1, <4>2 DEF Leased
      <3>5. CASE RevokeLease(p)
        BY <1>3, <2>3, <3>5 DEF RevokeLease, DropsLease, NoLease
      <3> QED
        BY <1>2, <3>1, <3>2, <3>3, <3>4, <3>5, LeavesStart
    <2> QED
      BY <1>2, <2>1, <2>2, <2>3 DEF NoLeakedLease
  <1> QED
    BY <1>4, <1>5

(* Until something crashes, a live lease is a start's or a claim's.        *)
THEOREM LeasesAreAccountedFor == ParkingSpec => []NoLeakedLease
  <1>1. ClaimsInit => Accounted /\ NoLeakedLease
    BY DEF ClaimsInit, Accounted, NoLeakedLease, LeaseActive, LeasedSteps, WriteSteps
  <1>2. ClaimsInv /\ Accounted /\ NoLeakedLease /\ [ParkingNext]_claimVars
          => (Accounted /\ NoLeakedLease)'
    <2>1. ASSUME Accounted, NoLeakedLease, UNCHANGED claimVars
          PROVE  Accounted' /\ NoLeakedLease'
      BY <2>1 DEF Accounted, NoLeakedLease, LeaseActive, Leased, claimVars, shared, local, progress
    <2> QED
      BY <2>1, AccountedKept, NoLeakedLeaseKept
  <1> QED
    BY ClaimsInvariant, <1>1, <1>2, PTL DEF ParkingSpec
=============================================================================
