--------------------------- MODULE AgentParking ---------------------------
(***************************************************************************)
(* Parking (agent_parking.py, park_agent): the reason why work stopped is  *)
(* written to the workspace as a blocked attempt bound to the claim, then  *)
(* that claim is released.  A parking that was interrupted in between is   *)
(* resumed by the same command.  The journal under write_store is          *)
(* WorkspaceStore's.                                                       *)
(***************************************************************************)
EXTENDS AgentClaims

(* _owned_claim.  After a durable attempt the lease may be gone.           *)
OwnedClaim(c, a, resumed) ==
    /\ c # NoClaim /\ c.by = a
    /\ Leased(c) \/ (resumed /\ lease = NoLease)

(* The first parking of this claim: reads the claim, then the workspace.   *)
Park(p, w, a) ==
    LET c == claims[w] IN
    /\ At(p, "idle")
    /\ ~Parked(w) /\ OwnedClaim(c, a, FALSE) /\ Active(c)
    /\ Go(p, "parkCheck")
    /\ run' = [run EXCEPT ![p] =
                 [Idle EXCEPT !.cmd = "park", !.at = w, !.as = a, !.want = c]]
    /\ UNCHANGED <<shared, local, outside, minted, expired, faults>>

(* claim_check of the claim that is there now, on a reloaded workspace.    *)
ParkCheck(p) ==
    LET w == run[p].at IN
    /\ At(p, "parkCheck")
    /\ IF ~Parked(w) /\ OwnedClaim(claims[w], run[p].as, FALSE) /\ Active(claims[w])
         THEN Go(p, "parkWrite") /\ run' = [run EXCEPT ![p].seen = ws[w].version]
         ELSE Stop(p)
    /\ UNCHANGED <<shared, local, outside, minted, expired, faults>>

(* Faulty: writes what it computed from an older workspace.                *)
MayParkWriteAny(p) == ~WorkspaceLocked(run[p].at)

(* write_store: under the workspace lock, if nobody wrote since the load.  *)
MayParkWrite(p) ==
    LET w == run[p].at IN ~WorkspaceLocked(w) /\ ws[w].version = run[p].seen

ParkWrite(p) ==
    /\ At(p, "parkWrite")
    /\ MayParkWrite(p)
    /\ ws' = [ws EXCEPT ![run[p].at] = [version |-> @.version + 1, parked |-> run[p].want]]
    /\ Goto(p, "parkConfirm")
    /\ UNCHANGED <<shared, local, head, minted, expired, faults>>

(* The lock is taken, the workspace has changed, or the write fails.       *)
ParkFails(p) ==
    /\ At(p, "parkWrite")
    /\ Stop(p)
    /\ UNCHANGED <<shared, local, outside, minted, expired, faults>>

(* Faulty: releases without naming the claim it parked.                    *)
ReleaseAny(p) == Go(p, "lock") /\ run' = [run EXCEPT ![p].want = NoClaim]

ReleaseParked(p) == Goto(p, "lock")

(* If the repository changed meanwhile, the claim stays for inspection.    *)
ParkConfirm(p) ==
    /\ At(p, "parkConfirm")
    /\ ReleaseParked(p) \/ Stop(p)
    /\ UNCHANGED <<shared, local, outside, minted, expired, faults>>

(* Faulty: any claim of the same session will do.                          *)
SameSession(parked, c) == parked.session = c.session

(* The attempt names this claim, its lease included.                       *)
BoundTo(parked, c) == parked = c

(* _resume_parked_release.  It refuses if the repository has changed.      *)
Resume(p, w, a) ==
    LET c == claims[w] IN
    /\ At(p, "idle")
    /\ Parked(w) /\ OwnedClaim(c, a, TRUE)
    /\ BoundTo(ws[w].parked, c)
    /\ Go(p, "lock")
    /\ run' = [run EXCEPT ![p] =
                 [Idle EXCEPT !.cmd = "park", !.at = w, !.as = a,
                              !.want = c, !.lenient = TRUE]]
    /\ UNCHANGED <<shared, local, outside, minted, expired, faults>>

ParkStep(p) == ParkCheck(p) \/ ParkWrite(p) \/ ParkFails(p) \/ ParkConfirm(p)

ParkingNext ==
    \/ ClaimsNext
    \/ \E p \in Proc :
         \/ ParkStep(p)
         \/ \E w \in Worktree, a \in Palari : Park(p, w, a) \/ Resume(p, w, a)

ParkingSpec == ClaimsInit /\ [][ParkingNext]_claimVars

-----------------------------------------------------------------------------
(* Parking takes away exactly the claim its durable record names, after    *)
(* the record was written: never the claim of a session that was renewed   *)
(* or started between the record and the release, also when it is resumed. *)
ReleasesWhatItParked ==
    [][\A p \in Proc : At(p, "unlink") /\ run[p].cmd = "park" /\ step'[p] # step[p] =>
         \A w \in Worktree : claims'[w] # claims[w] => ws[w].parked = claims[w]]_claimVars

(* The record of the first parking stays: two parkings that overlap, or    *)
(* one that is repeated, do not write a second one.                        *)
ParkedOnce ==
    [][\A w \in Worktree : Parked(w) => ws'[w].parked = ws[w].parked]_claimVars
=============================================================================
