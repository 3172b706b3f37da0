-------------------------- MODULE InterruptedWrites --------------------------
(***************************************************************************)
(* A process may die inside the write section, after its transaction is    *)
(* prepared in the journal and before the commit marker.  The workspace is *)
(* then on one of the two sides of the transaction, every other write is   *)
(* refused, and what happens next depends on whose transaction it is: agent*)
(* advance settles its own proof and starts again, an approval is repeated *)
(* exactly or given up, and no command knows how to repeat any other       *)
(* (WorkspaceStore has the steps of the section; here it is one).          *)
(* Reviews, single decisions and refreshed proofs that are interrupted     *)
(* stay open like an interrupted completion.                               *)
(***************************************************************************)
EXTENDS ApprovalPacks

VARIABLES
    pending         \* <<>> or the transaction that is prepared and not terminated

allVars == <<store, git, journal, baseline, claim, plan, edits, offer, pending>>

(* The request is what the process meant to do; new, what it meant to      *)
(* write.                                                                  *)
Interrupted(request, new) ==
    /\ journal = "current"
    /\ Writable(store, new, git)
    /\ pending' = <<[request |-> request, before |-> store, after |-> new]>>
    /\ store' \in {store, new}
    /\ journal' = "pending"
    /\ plan' = <<>>
    /\ UNCHANGED <<git, baseline, claim, edits, offer>>

DieRecording(p, new) == RecordAllowed(p, new) /\ Interrupted(p, new)

DieWriting ==
    \/ HasProofPlan /\ DieRecording(The(plan), Reconciled(store, The(plan)))
    \/ /\ Has(plan) /\ The(plan).kind \in {"complete", "pack"}
       /\ store = The(plan).seen
       /\ The(plan).kind = "pack" => PrewriteCurrent(The(plan))
       /\ Interrupted(The(plan), The(plan).new)

Terminated ==
    /\ journal' = "current" /\ pending' = <<>>
    /\ UNCHANGED <<git, baseline, claim, plan, edits, offer>>

(* The workspace is on the far side: the missing marker is supplied, by    *)
(* history --recover or by whoever writes next.                            *)
SupplyMarker ==
    /\ Has(pending) /\ store = The(pending).after
    /\ UNCHANGED store
    /\ Terminated

-----------------------------------------------------------------------------
(* agent advance takes up an open transaction when it is the proof that it *)
(* would record itself: _pending_advance_recovery_error.                   *)

AttemptOf(t) == t.after.attempts[t.after.work[t.request.work].current]
ReceiptOf(t) == t.after.receipts[Keyed(t.before.receipts, t.request)]
EvidenceOf(t) == t.after.evidence[Keyed(t.before.evidence, t.request)]

Kept(before, after) == \A i \in DOMAIN before : i \in DOMAIN after /\ after[i] = before[i]

(* One attempt, receipt and evidence of this work, and its current attempt;*)
(* what was on record stays as it is.                                      *)
OnlyBoundRecordsChanged(t) ==
    LET w == t.request.work
    IN  /\ t.after = [t.before EXCEPT !.work[w].current = AttemptOf(t).id,
                                      !.attempts = t.after.attempts,
                                      !.receipts = t.after.receipts,
                                      !.evidence = t.after.evidence]
        /\ \A k \in {"attempts", "receipts", "evidence"} :
              /\ Kept(t.before[k], t.after[k])
              /\ Len(t.after[k]) <= Len(t.before[k]) + 1

TimesBound(t) ==
    \A k \in {"attempts", "receipts", "evidence"} :
       \A i \in DOMAIN t.after[k] \ DOMAIN t.before[k] : t.after[k][i].at = git.commits[git.head].at

ProofBound(t) ==
    LET w == t.request.work
        first == The(baseline[w]).commit
    IN  /\ AttemptOf(t).id = AttemptIndex(t.before, t.request)
        /\ AttemptOf(t).base = first /\ AttemptOf(t).head = git.head /\ AttemptOf(t).clean
        /\ AttemptOf(t).changed = Touched(git, first, git.head)
        /\ ReceiptOf(t).attempt = AttemptOf(t).id /\ ReceiptOf(t).outputs = AttemptOf(t).changed
        /\ ReceiptOf(t).undo = ReceiptOf(t).outputs
        /\ EvidenceOf(t).attempt = AttemptOf(t).id /\ EvidenceOf(t).head = git.head
        /\ EvidenceOf(t).status = "passed"

IsOwnProof(t) ==
    /\ OnlyBoundRecordsChanged(t)
    /\ ProofBound(t) /\ TimesBound(t)
    /\ EvidenceVerified(t.after, git, EvidenceOf(t))

(* _resume_preflight, with the authority of the workspace before.          *)
MayRecover(w) == Has(claim[w]) /\ PreflightOk(w)

(* Verification runs again before anything is recovered.                   *)
Recover ==
    /\ plan = <<>> /\ Has(pending) /\ The(pending).request.kind = "advance"
    /\ LET t == The(pending)
       IN  /\ MayRecover(t.request.work) /\ IsOwnProof(t)
           /\ plan' = <<[kind |-> "recover", work |-> t.request.work, transaction |-> t, head |-> git.head]>>
    /\ UNCHANGED <<store, git, journal, baseline, claim, edits, offer, pending>>

(* _recheck_recovery_state.                                                *)
StillToRecover(p) ==
    /\ pending = <<p.transaction>> /\ git.head = p.head
    /\ MayRecover(p.work) /\ IsOwnProof(p.transaction)

(* The proof on the far side gets its marker; on the near side it is       *)
(* aborted, and the command starts again.                                  *)
Recovered ==
    /\ Has(plan) /\ The(plan).kind = "recover"
    /\ StillToRecover(The(plan))
    /\ plan' = <<>> /\ journal' = "current" /\ pending' = <<>>
    /\ UNCHANGED <<store, git, baseline, claim, edits, offer>>

-----------------------------------------------------------------------------
(* A human repeats the request.                                            *)

(* Mutant: what was prepared is written without another look.              *)
ResumeTrusting(t) == store' = t.after

(* The last check before the replacement aborts what no longer stands.     *)
ResumeOrAbort(t) == IF PrewriteCurrent(t.request) THEN store' = t.after ELSE UNCHANGED store

Repeat ==
    /\ plan = <<>>
    /\ Has(pending) /\ The(pending).request.kind = "pack"
    /\ store = The(pending).before
    /\ Writable(store, The(pending).after, git)
    /\ ResumeOrAbort(The(pending))
    /\ Terminated

(* apply_pack_decision takes the prepared workspace and its metadata as    *)
(* they are.                                                               *)
RepeatPack == Repeat /\ Cardinality(DOMAIN The(pending).request.offer.pack.members) > 1

(* approve goes there only with what it would write itself: one decision,  *)
(* the acceptance that says the same, and the completion of its work       *)
(* (_validate_pending_delta, _validate_decision_acceptance).               *)
SaysTheSame(d, a) ==
    /\ d.decision = "accepted" /\ d.mode = "approval-pack"
    /\ a.work = d.work /\ a.human = d.human /\ a.decision = d.id
    /\ a.head = d.head /\ a.evidence = d.evidence /\ a.review = d.review

CompletesOne(t) ==
    LET d == t.after.decisions[Len(t.after.decisions)]
        a == t.after.acceptances[Len(t.after.acceptances)]
    IN  /\ t.after.acceptances # <<>> /\ SaysTheSame(d, a)
        /\ t.after = [t.before EXCEPT !.decisions = Append(@, d), !.acceptances = Append(@, a),
                                      !.work[d.work].status = "completed"]

RepeatApproval == Repeat /\ CompletesOne(The(pending))

-----------------------------------------------------------------------------
InterruptedInit == PackInit /\ pending = <<>>

(* Nobody edits the workspace by hand while a transaction is open (a bound:*)
(* it would then be on neither side, and nothing is recovered).            *)
Undisturbed == PackNext /\ UNCHANGED pending /\ (Has(pending) => UNCHANGED journal)

InterruptedNext ==
    \/ Undisturbed \/ DieWriting \/ SupplyMarker
    \/ Recover \/ Recovered
    \/ RepeatPack \/ RepeatApproval

InterruptedSpec == InterruptedInit /\ [][InterruptedNext]_allVars

-----------------------------------------------------------------------------
(* Whether its process wrote it, died over it or repeated it later, what a *)
(* pack writes is what its human was shown, of files that still are what   *)
(* they were (_assert_pack_prewrite_current).                              *)
PackWritesWhatWasShown ==
    [][WrittenAsShown(IF Has(plan) THEN The(plan) ELSE The(pending).request)]_allVars

(* While a transaction is open, only its own sides are ever written        *)
(* (transact).                                                             *)
OnlyTheOpenWrites ==
    [][Has(pending) => store' \in {The(pending).before, The(pending).after}]_allVars
=============================================================================
