-------------------------- MODULE WorkTransitions --------------------------
(***************************************************************************)
(* What the commands ask before they change a work item: the feasibility   *)
(* of builder, reviewer and approvers (authority_plan), the transition     *)
(* checks, the lifecycle view the queue shows (read_models), and the task  *)
(* brief an agent is given (agent_packets).  Every Palari here is linked to*)
(* the goal and may read the sources, there is one work bench with no      *)
(* exclusive targets, and no decision record is open.                      *)
(***************************************************************************)
EXTENDS WorkValidation

Max2(a, b) == IF a > b THEN a ELSE b

-----------------------------------------------------------------------------
(* The authority plan.                                                     *)

LatestReceipt(s, w) == Latest(Of(s.receipts, w))
LatestEvidence(s, w) == Latest(Of(s.evidence, w))

Builder(s, w) ==
    IF Has(CurrentAttempt(s, w)) THEN The(CurrentAttempt(s, w)).actor ELSE Contract(s, w).palari

Policy(s, w) == [contract |-> Contract(s, w), receipt |-> LatestReceipt(s, w)]

Active(s) == Human \ s.inactive

Available(s, w) == (Approver \cap Active(s)) \ {Builder(s, w)}

(* A reviewer may not be the builder, nor use up the approvers.            *)
ReviewerViable(s, w, v) ==
    /\ v \in Active(s) \cup Palari
    /\ v # Builder(s, w)
    /\ Cardinality(Available(s, w) \ {v}) >= RequiredCount(Policy(s, w))

PlanViable(s, w) ==
    IF ReviewRequired(Policy(s, w))
    THEN \E v \in Human \cup Palari : ReviewerViable(s, w, v)
    ELSE Cardinality(Available(s, w)) >= RequiredCount(Policy(s, w))

-----------------------------------------------------------------------------
(* The lifecycle view.  It reads the latest evidence of the work, the      *)
(* kernel the evidence of the current attempt.                             *)

ProofSeen(s, g, w, k, evidence) ==
    IF ~Has(evidence) THEN "missing"
    ELSE IF The(evidence).head # AttemptHead(k.attempt) THEN "stale"
    ELSE IF The(evidence).status # "passed" THEN The(evidence).status
    ELSE IF ~ProofHolds(s, g, w, k, FALSE) THEN "invalid" ELSE "passed"

(* u is the verdict the work would have if it were completed.              *)
LifecycleFrom(s, w, k, proof, u) ==
    LET verdict == IF u.bound THEN The(k.review).verdict ELSE "none"
    IN  CASE ~Has(k.attempt) -> "ready-for-ai-work"
          [] proof # "passed" -> "needs-evidence"
          [] IsDone(s, w) /\ u.derived = "completed" -> "closed"
          [] verdict = "changes-requested" -> "changes-requested"
          [] verdict \in {"blocked", "needs-human-decision"} -> "needs-human-decision"
          [] u.derived = "review-required" -> "needs-review"
          [] u.derived = "human-decision-required" -> "needs-human-decision"
          [] u.derived \in {"accept-ready", "accepted", "completed"} -> "ready-to-complete"
          [] OTHER -> "blocked"

LifecycleOn(s, g, w, k) ==
    LifecycleFrom(s, w, k, ProofSeen(s, g, w, k, LatestEvidence(s, w)),
                  RecordedOn(s, g, w, "completed", k))

Lifecycle(s, g, w) == LifecycleOn(s, g, w, Current(s, w))

Attention(s, g, w) == IF IsRetired(s, w) THEN "closed" ELSE Lifecycle(s, g, w)

IntegrationReady(s, g, w) == Lifecycle(s, g, w) = "ready-to-complete"

-----------------------------------------------------------------------------
(* Whether the task brief lets an agent execute the work.                  *)
BriefReady(s, g, w) ==
    /\ PlanViable(s, w)
    /\ \A d \in Contract(s, w).deps : IsDone(s, d)
    /\ ~Contract(s, w).external
    /\ Attention(s, g, w) \in {"ready-for-ai-work", "needs-evidence", "changes-requested"}

-----------------------------------------------------------------------------
(* Transition checks.                                                      *)

(* Recording a review binds it to the exact proof, whatever its verdict.   *)
ReviewAllowed(s, g, w, v) ==
    /\ v \in Active(s) \cup Palari
    /\ ReviewerViable(s, w, v)
    /\ ProofCurrent(s, g, w, TRUE)

(* The decision a human proposes about what is current now.                *)
Candidate(c, h, decision, at, id) ==
    [id |-> id, human |-> h, decision |-> decision, status |-> decision, mode |-> "human",
     head |-> IF Has(c.review) THEN The(c.review).head ELSE AttemptHead(c.attempt),
     evidence |-> IF Has(c.evidence) THEN The(c.evidence).id ELSE 0,
     review |-> IF Has(c.review) THEN The(c.review).id ELSE 0,
     at |-> at, evidenceDigest |-> c.evidence, reviewDigest |-> c.review]

(* Separation of duties, asked when an approval is recorded.               *)
MayApprove(s, w, h, k) ==
    /\ Has(k.attempt) => h # The(k.attempt).actor
    /\ Has(k.review) => /\ h # The(k.review).reviewer
                        /\ ReviewerViable(s, w, The(k.review).reviewer)

CaseNow(s, g, j, w) == CaseOf(s, g, j, w, TRUE, s.work[w].status)

(* Case c, with the decision d about it.                                   *)
ApprovalAllowed(s, w, c, d) ==
    /\ MayApprove(s, w, d.human, Current(s, w))
    /\ d.head # 0
    /\ DecisionAllowed(c, d, d.human \notin s.inactive, Proposal(c, d, <<>>, Context(s, w)))

AcceptanceOf(c, d, at) ==
    [id |-> d.id, human |-> d.human, head |-> d.head, status |-> "accepted", decision |-> d.id,
     evidence |-> d.evidence, review |-> d.review, quorum |-> "met",
     receiptDigest |-> c.receipt, evidenceDigest |-> c.evidence, reviewDigest |-> c.review, at |-> at]

-----------------------------------------------------------------------------
(* evaluate_workspace_completion_authority: the case as it would be with   *)
(* the work completed, alone or with the acceptance its latest qualified   *)
(* decision stands for.                                                    *)

CompletionCase(s, g, j, w) ==
    [CaseOf(s, g, j, w, TRUE, "completed") EXCEPT !.claimed = "completed"]

CompletionFrom(s, w, at, c, u, d) ==
    [alone |-> u.derived = "completed" /\ FullyVerified(u),
     decision |-> d,
     acceptable |-> Has(d) /\ AcceptanceAllowed(c, The(d), The(d).human \notin s.inactive,
                                 Proposal(c, The(d), <<AcceptanceOf(c, The(d), at)>>, Context(s, w)))]

CompletionOver(s, w, at, c, u) == CompletionFrom(s, w, at, c, u, Latest(u.qualified))

CompletionOn(s, w, at, c) == CompletionOver(s, w, at, c, Evaluate(c, Context(s, w)))

Completion(s, g, j, w, at) == CompletionOn(s, w, at, CompletionCase(s, g, j, w))

Ready(completion) == completion.alone \/ completion.acceptable

(* work_complete: the authority, and an integration boundary with nothing  *)
(* left to do.  The lifecycle view answers for the second, and may still   *)
(* say no where the kernel says yes.                                       *)
CompleteAllowed(s, g, j, w, at) ==
    /\ Ready(Completion(s, g, j, w, at))
    /\ IntegrationReady(s, g, w)
=============================================================================
