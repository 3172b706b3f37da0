-------------------------- MODULE GovernanceKernel --------------------------
(***************************************************************************)
(* The governance kernel: what one work item's records prove.  The kernel  *)
(* is a pure function of a case, so this module has no variables.  A case  *)
(* is a record of                                                          *)
(*   claimed      the state the workspace claims for the work item         *)
(*   contract     status, risk, intensity, count, capability, allowed (the *)
(*                boundary paths), sources, external (the contract allows  *)
(*                an external write), current (attempt id), palari         *)
(*   deps         the statuses of the dependencies                         *)
(*   open         the ids of open decisions                                *)
(*   sources      [id -> [selected, palaris]]                              *)
(*   attempt, receipt, evidence, review    <<>> or one record              *)
(*   reviewers    ids of declared Palari reviewers                         *)
(*   humans       [id -> set of approval capabilities]                     *)
(*   decisions, acceptances                sets of records                 *)
(*   subject, evidenceSeen, journal        observations, an outcome each   *)
(* and a digest of an optional record is that 0/1-tuple itself, so that    *)
(* two digests are equal exactly when the records are, and <<>> is the     *)
(* empty digest.  A timestamp is a natural number, 0 when it is missing or *)
(* cannot be ordered; a path is a sequence of components.                  *)
(***************************************************************************)
EXTENDS Integers, FiniteSets, Sequences

TerminalWork == {"completed", "closed", "done"}
TerminalAttempt == {"complete", "completed"}
Approvals == {"accepted", "approved"}
NegativeVerdicts == {"changes-requested", "needs-human-decision", "blocked"}
Settled == {"verified", "not-required"}

Has(opt) == opt # <<>>
The(opt) == opt[1]
When(failed, code) == IF failed THEN {code} ELSE {}

(* A path is canonical when it has components and none of them is empty,   *)
(* "." or "..".                                                            *)
SafePath(p) == p # <<>> /\ \A i \in DOMAIN p : p[i] \notin {"", ".", ".."}

(* A path is inside a boundary when the boundary is one of its prefixes.   *)
PathIn(p, boundaries) ==
    /\ SafePath(p)
    /\ \E b \in boundaries :
          SafePath(b) /\ Len(b) <= Len(p) /\ SubSeq(p, 1, Len(b)) = b

OutOfOrder(earlier, later) == earlier = 0 \/ later = 0 \/ later < earlier

AttemptHead(attempt) == IF Has(attempt) THEN The(attempt).head ELSE 0

Finished(c) ==
    Has(c.attempt) /\ The(c.attempt).status \in TerminalAttempt /\ The(c.attempt).clean

(* The receipt of the current attempt declares a write outside the         *)
(* workspace, or the contract allows one.                                  *)
ExternalSurface(c) ==
    c.contract.external \/ (Has(c.receipt) /\ The(c.receipt).external)

(* Exact evidence may replace review and acceptance.                       *)
LowRisk(c) ==
    /\ c.contract.risk = "R1" /\ c.contract.intensity = "light"
    /\ c.contract.count = 0
    /\ ~ExternalSurface(c)

ReviewRequired(c) ==
    /\ ~LowRisk(c)
    /\ ExternalSurface(c) \/ c.contract.risk \notin {"R1", "R2"}

(* Mutant: the count the contract asks for is forgotten.                   *)
OneIsEnough(c) == IF LowRisk(c) THEN 0 ELSE 1

RequiredCount(c) ==
    IF LowRisk(c) THEN 0 ELSE IF c.contract.count > 1 THEN c.contract.count ELSE 1

(* Whether one approval action may cover this item together with others.   *)
BatchPolicy(risk, external, effects) ==
    IF external \/ effects # {} THEN "external-effect"
    ELSE IF risk \in {"R1", "R2"} THEN "local-work"
    ELSE IF risk \in {"R3", "R4", "R5"} THEN "elevated-risk" ELSE "unknown-risk"

-----------------------------------------------------------------------------
(* The properties the kernel derives, each from the errors it adds.        *)

ScopeErrors(c) ==
    LET boundary == c.contract.allowed
        a == The(c.attempt)   r == The(c.receipt)
        inner == IF a.allowed = {} THEN boundary ELSE a.allowed
    IN  When(\E p \in boundary : ~SafePath(p), "SCOPE_PATH_UNSAFE")
        \cup When(Has(c.attempt) /\ \/ \E p \in a.allowed \cup a.outputs : ~PathIn(p, boundary)
                                    \/ \E p \in a.changed : ~PathIn(p, inner),
                  "SCOPE_OUTSIDE_BOUNDARY")
        \cup When(Has(c.attempt) /\ \E p \in a.changed : PathIn(p, a.forbidden),
                  "SCOPE_FORBIDDEN_PATH")
        \cup When(Has(c.receipt) /\ \E p \in r.outputs \cup r.undo : ~PathIn(p, boundary),
                  "SCOPE_OUTSIDE_BOUNDARY")
        \cup When(Has(c.receipt) /\ ~(r.sources \subseteq c.contract.sources),
                  "SOURCE_NOT_ALLOWED")
        \cup When(Has(c.receipt) /\ \E s \in r.sources :
                     s \notin DOMAIN c.sources \/ ~c.sources[s].selected,
                  "SOURCE_NOT_SELECTED")
        \cup When(Has(c.receipt) /\ \E s \in r.sources \cap DOMAIN c.sources :
                     /\ c.sources[s].selected /\ c.sources[s].palaris # {}
                     /\ c.contract.palari \notin c.sources[s].palaris,
                  "SOURCE_ACTOR_NOT_ALLOWED")
        \cup When(Has(c.evidence) /\ \E p \in The(c.evidence).artifacts : ~PathIn(p, boundary),
                  "SCOPE_OUTSIDE_BOUNDARY")

ReceiptErrors(c) ==
    IF ~Has(c.receipt) THEN {"RECEIPT_MISSING"}
    ELSE LET r == The(c.receipt)   a == The(c.attempt)
         IN  When(Has(c.attempt) /\ a.id # c.contract.current, "ATTEMPT_NOT_CURRENT")
             \cup When(~Has(c.attempt) \/ r.attempt # a.id, "RECEIPT_ATTEMPT_MISMATCH")
             \cup When(Has(c.attempt) /\ r.actor \notin {a.actor, c.contract.palari},
                       "RECEIPT_ACTOR_MISMATCH")
             \cup When(~r.acted /\ r.outputs = {}, "RECEIPT_EMPTY")
             \cup When(Has(c.attempt) /\ a.started # 0 /\ OutOfOrder(a.started, r.at),
                       "LIFECYCLE_ORDER_INVALID")

(* What the work's path intents expect of an artifact.                     *)
Expected(ctx, p) ==
    IF \E x \in ctx.expect : x.path = p
    THEN (CHOOSE x \in ctx.expect : x.path = p).status ELSE "present"

ExpectationErrors(c, ctx) ==
    When(\/ \E x \in ctx.expect : ~SafePath(x.path) \/ x.status \notin {"present", "absent"}
         \/ \E x, y \in ctx.expect : x # y /\ x.path = y.path
         \/ \E x \in ctx.expect : ~Has(c.evidence) \/ x.path \notin The(c.evidence).artifacts,
         "EVIDENCE_EXPECTATION_INVALID")

(* hashes is [path -> [status, digest]]; a digest of 0 is not a SHA-256.   *)
ArtifactErrors(c, ctx) ==
    LET e == The(c.evidence)
    IN  When(DOMAIN e.hashes # e.artifacts, "EVIDENCE_DUPLICATE_ARTIFACT")
        \cup When(\E p \in e.artifacts :
                     \/ p \notin DOMAIN e.hashes
                     \/ e.hashes[p].status # Expected(ctx, p)
                     \/ (e.hashes[p].digest = 0) # (Expected(ctx, p) = "absent"),
                  "EVIDENCE_ARTIFACT_UNVERIFIED")
        \cup When(Has(c.receipt) /\ ~(The(c.receipt).outputs \subseteq e.artifacts),
                  "EVIDENCE_OUTPUT_UNHASHED")

(* receipt is what ReceiptErrors found.                                    *)
EvidenceErrors(c, ctx, receipt) ==
    IF ~Has(c.evidence) THEN {"EVIDENCE_MISSING"}
    ELSE LET e == The(c.evidence)
         IN  When(~Has(c.attempt) \/ e.attempt # The(c.attempt).id, "EVIDENCE_ATTEMPT_MISMATCH")
             \cup When(e.status # "passed", "EVIDENCE_NOT_PASSED")
             \cup When(AttemptHead(c.attempt) = 0 \/ e.head # AttemptHead(c.attempt), "EVIDENCE_STALE")
             \cup When(~e.commands \/ e.at = 0, "EVIDENCE_INCOMPLETE")
             \cup When(Has(c.receipt) /\ e.receipt # c.receipt, "EVIDENCE_RECEIPT_STALE")
             \cup When(Has(c.receipt) /\ OutOfOrder(The(c.receipt).at, e.at),
                       "LIFECYCLE_ORDER_INVALID")
             \cup When(receipt # {}, "EVIDENCE_RECEIPT_INVALID")
             \cup ExpectationErrors(c, ctx) \cup ArtifactErrors(c, ctx)
             \cup When(c.evidenceSeen = "failed", "EVIDENCE_INTEGRITY_FAILED")

EvidenceOutcome(c, errors) ==
    IF errors # {} THEN "failed" ELSE IF c.evidenceSeen \in Settled THEN "verified" ELSE c.evidenceSeen

(* The proof p: the errors of scope, receipt and evidence, and the outcome *)
(* of the evidence.                                                        *)
ProofFrom(c, scope, receipt, evidence) ==
    [scope |-> scope, receipt |-> receipt, evidence |-> evidence,
     outcome |-> EvidenceOutcome(c, evidence)]

Proof(c, ctx, receipt) ==
    ProofFrom(c, ScopeErrors(c), receipt, EvidenceErrors(c, ctx, receipt))

(* A stored projection may lean on evidence that nobody has observed again.*)
EvidenceReady(p, ctx) ==
    p.outcome = "verified" \/ (ctx.projectionOnly /\ p.outcome = "not-checked")

ProofReady(p, ctx) == p.scope = {} /\ p.receipt = {} /\ EvidenceReady(p, ctx)

ObservationErrors(c) ==
    When(c.subject = "failed", "SUBJECT_INTEGRITY_FAILED")
    \cup When(c.journal = "failed", "JOURNAL_CONTINUITY_FAILED")

-----------------------------------------------------------------------------
(* The review binds every record it judged.                                *)
ReviewBindingErrors(c, ctx, p) ==
    LET r == The(c.review)
    IN  When(r.reviewer \notin DOMAIN c.humans \cup c.reviewers, "REVIEWER_UNKNOWN")
        \cup When(Has(c.attempt) /\ r.reviewer = The(c.attempt).actor, "REVIEWER_NOT_INDEPENDENT")
        \cup When(\/ r.head # AttemptHead(c.attempt)
                  \/ r.contractDigest # <<c.contract>>
                  \/ r.attemptDigest # c.attempt
                  \/ r.evidenceDigest # c.evidence
                  \/ r.receiptDigest # c.receipt,
                  "REVIEW_BINDING_STALE")
        \cup When(~EvidenceReady(p, ctx) \/ p.receipt # {}, "REVIEW_PREREQUISITE_INVALID")
        \cup When(OutOfOrder(IF Has(c.evidence) THEN The(c.evidence).at ELSE 0, r.at),
                  "LIFECYCLE_ORDER_INVALID")

VerdictErrors(r) ==
    IF r.verdict = "accept-ready" THEN {}
    ELSE IF r.verdict \in NegativeVerdicts THEN {"REVIEW_NEGATIVE"} ELSE {"REVIEW_NOT_READY"}

(* The review property v: whether the review binds the proof, its errors   *)
(* and its outcome.                                                        *)
ReviewFrom(c, required, binding) ==
    [bound |-> required /\ Has(c.review) /\ binding = {},
     errors |-> IF required /\ Has(c.review) THEN binding \cup VerdictErrors(The(c.review)) ELSE {},
     outcome |-> IF ~required THEN "not-required"
                 ELSE IF /\ Has(c.review) /\ binding = {}
                         /\ The(c.review).verdict = "accept-ready" THEN "verified" ELSE "failed"]

ReviewProperty(c, ctx, p) ==
    ReviewFrom(c, ReviewRequired(c), IF Has(c.review) THEN ReviewBindingErrors(c, ctx, p) ELSE {})

-----------------------------------------------------------------------------
(* Quorum: the latest decision of each human, counted when it approves the *)
(* exact current proof and the human has the capability.                   *)
Later(d, e) == d.at > e.at \/ (d.at = e.at /\ d.id > e.id)

CurrentDecisions(c) ==
    {d \in c.decisions : /\ d.at # 0
                         /\ \A e \in c.decisions : e.human = d.human /\ e.at # 0 /\ e # d => Later(d, e)}

IsApproval(d) ==
    d.decision \in Approvals /\ d.status \in Approvals /\ d.mode \in {"human", "approval-pack"}

MatchesProof(c, d) ==
    /\ d.head = IF Has(c.review) THEN The(c.review).head ELSE AttemptHead(c.attempt)
    /\ d.review = IF Has(c.review) THEN The(c.review).id ELSE 0
    /\ d.evidence = IF Has(c.evidence) THEN The(c.evidence).id ELSE 0
    /\ d.reviewDigest = c.review
    /\ d.evidenceDigest = c.evidence

Capable(c, h) == h \in DOMAIN c.humans /\ c.contract.capability \in {"none"} \cup c.humans[h]

DecisionErrors(c, current, qualified) ==
    When(\E d \in c.decisions : d.at = 0, "DECISION_TIMESTAMP_INVALID")
    \cup When(\E d, e \in c.decisions : d # e /\ d.human = e.human /\ d.at = e.at /\ d.at # 0,
              "DECISION_ORDER_AMBIGUOUS")
    \cup When(\E d \in current : (d.decision \in Approvals) # (d.status \in Approvals),
              "DECISION_CONTRADICTORY")
    \cup When(Has(c.review) /\ \E d \in qualified : OutOfOrder(The(c.review).at, d.at),
              "LIFECYCLE_ORDER_INVALID")
    \cup When(Cardinality({d.human : d \in qualified}) < RequiredCount(c), "HUMAN_QUORUM_INCOMPLETE")

(* The quorum property q: the current decision of each human, those that   *)
(* qualify, and its errors and outcome.                                    *)
QuorumFrom(c, current, qualified, errors) ==
    [open |-> TRUE, current |-> current, qualified |-> qualified, errors |-> errors,
     outcome |-> IF errors # {} THEN "failed"
                 ELSE IF RequiredCount(c) = 0 THEN "not-required" ELSE "verified"]

QuorumAmong(c, current, qualified) ==
    QuorumFrom(c, current, qualified, DecisionErrors(c, current, qualified))

QuorumOver(c, current) ==
    QuorumAmong(c, current, {d \in current : IsApproval(d) /\ MatchesProof(c, d) /\ Capable(c, d.human)})

(* With no settled review the kernel looks at no decision at all.          *)
QuorumProperty(c, v) ==
    IF v.outcome \in Settled THEN QuorumOver(c, CurrentDecisions(c))
    ELSE [open |-> FALSE, current |-> {}, qualified |-> {}, errors |-> {},
          outcome |-> IF RequiredCount(c) # 0 THEN "failed" ELSE "not-required"]

-----------------------------------------------------------------------------
(* Acceptance: the latest acceptance event is for this proof, and rests on *)
(* the current approving decision of a qualified human.                    *)
LatestAcceptance(c) ==
    CHOOSE x \in c.acceptances :
        x.at # 0 /\ \A y \in c.acceptances : y.at # 0 /\ y # x => Later(x, y)

AcceptanceBinding(c, x) ==
    /\ x.head = IF Has(c.review) THEN The(c.review).head ELSE AttemptHead(c.attempt)
    /\ x.evidence = IF Has(c.evidence) THEN The(c.evidence).id ELSE 0
    /\ x.review = IF Has(c.review) THEN The(c.review).id ELSE 0
    /\ x.receiptDigest = c.receipt
    /\ x.evidenceDigest = c.evidence
    /\ x.reviewDigest = c.review
    /\ x.quorum = "met"

(* x is the latest acceptance, decided the current decision it names.      *)
AcceptanceErrorsOf(c, q, x, decided) ==
    When(\E y \in c.acceptances : y.at = 0, "ACCEPTANCE_TIMESTAMP_INVALID")
    \cup When(\E y, z \in c.acceptances : y # z /\ y.at = z.at /\ y.at # 0, "ACCEPTANCE_ORDER_AMBIGUOUS")
    \cup When(x.status # "accepted", "ACCEPTANCE_REVOKED")
    \cup When(~AcceptanceBinding(c, x), "ACCEPTANCE_BINDING_STALE")
    \cup When(~\E d \in decided : IsApproval(d) /\ MatchesProof(c, d), "ACCEPTANCE_DECISION_STALE")
    \cup When(\E d \in decided : IsApproval(d) /\ MatchesProof(c, d) /\ d \notin q.qualified,
              "ACCEPTANCE_HUMAN_UNQUALIFIED")
    \cup When(\E d \in decided : d \in q.qualified /\ OutOfOrder(d.at, x.at), "LIFECYCLE_ORDER_INVALID")
    \cup When(~q.open \/ q.outcome = "failed", "ACCEPTANCE_PREREQUISITE_INVALID")

AcceptanceGiven(c, q, x) ==
    AcceptanceErrorsOf(c, q, x, {d \in q.current : d.human = x.human /\ d.id = x.decision})

Ordered(c) == \E x \in c.acceptances : x.at # 0

AcceptanceErrors(c, q) ==
    IF Ordered(c) THEN AcceptanceGiven(c, q, LatestAcceptance(c))
    ELSE When(c.acceptances # {}, "ACCEPTANCE_TIMESTAMP_INVALID")

-----------------------------------------------------------------------------
(* Mutant: dependencies are not looked at.                                 *)
WaitingForNoWork(c) == c.open # {}

(* The state the records derive.                                           *)
Waiting(c) == c.open # {} \/ \E s \in c.deps : s \notin TerminalWork

LowRiskCompletion(c, ctx, p) ==
    /\ c.contract.status \in TerminalWork
    /\ LowRisk(c)
    /\ Finished(c)
    /\ Has(c.receipt)
    /\ ProofReady(p, ctx)
    /\ ~Waiting(c)

DerivedState(c, ctx, p, v, q, accepted) ==
    IF LowRiskCompletion(c, ctx, p) THEN "completed"
    ELSE IF c.contract.status \in {"proposed", "active"}
            /\ (~Has(c.attempt) \/ The(c.attempt).status = "active") THEN "in-progress"
    ELSE IF \/ c.contract.status = "blocked" \/ Waiting(c)
            \/ ~Finished(c) \/ ~ProofReady(p, ctx)
            \/ v.bound /\ The(c.review).verdict \in NegativeVerdicts THEN "blocked"
    ELSE IF v.outcome \notin Settled THEN "review-required"
    ELSE IF q.outcome \notin Settled THEN "human-decision-required"
    ELSE IF c.acceptances = {} THEN "accept-ready"
    ELSE IF ~accepted THEN "blocked"
    ELSE IF c.contract.status \in TerminalWork THEN "completed" ELSE "accepted"

(* Every error the kernel reports.  A proposal about a case does not       *)
(* answer for the state the workspace claims.                              *)
AllErrors(c, ctx, p, v, q, acceptance, low, derived) ==
    p.scope \cup ObservationErrors(c) \cup p.receipt \cup p.evidence
    \cup (IF low THEN {} ELSE v.errors \cup q.errors \cup acceptance)
    \cup When(c.claimed # derived /\ ~ctx.candidate, "CLAIMED_STATE_MISMATCH")

(* The verdict.  proven: subject, journal, scope, receipt and evidence are *)
(* all settled; low: the work completes on exact evidence alone.  Then no  *)
(* decision counts.                                                        *)
Verdict(c, ctx, p, v, q, acceptance, accepted, low, derived) ==
    [derived |-> derived, low |-> low, bound |-> v.bound,
     errors |-> AllErrors(c, ctx, p, v, q, acceptance, low, derived),
     proven |-> /\ {c.subject, c.journal} \subseteq Settled
                /\ p.scope = {} /\ p.receipt = {} /\ p.outcome = "verified",
     reviewed |-> low \/ v.outcome \in Settled,
     quorum |-> low \/ q.outcome \in Settled,
     accepted |-> low \/ accepted,
     qualified |-> IF low THEN {} ELSE q.qualified,
     projection |-> ctx.projectionOnly]

Concluded(c, ctx, p, v, q, acceptance, accepted) ==
    Verdict(c, ctx, p, v, q, acceptance, accepted, LowRiskCompletion(c, ctx, p),
            DerivedState(c, ctx, p, v, q, accepted))

Accepting(c, ctx, p, v, q, acceptance) ==
    Concluded(c, ctx, p, v, q, acceptance, Ordered(c) /\ acceptance = {})

Counting(c, ctx, p, v, q) == Accepting(c, ctx, p, v, q, AcceptanceErrors(c, q))

Reviewing(c, ctx, p, v) == Counting(c, ctx, p, v, QuorumProperty(c, v))

Proving(c, ctx, p) == Reviewing(c, ctx, p, ReviewProperty(c, ctx, p))

(* evaluate_governance_case: each property rests on the ones before it.    *)
Evaluate(c, ctx) == Proving(c, ctx, Proof(c, ctx, ReceiptErrors(c)))

FullyVerified(u) ==
    /\ u.derived \in {"accepted", "completed"}
    /\ u.errors = {}
    /\ u.proven /\ u.reviewed /\ u.quorum /\ u.accepted
    /\ ~u.projection

(* Everything a human needs before deciding.                               *)
HumanDecisionReady(c, u) ==
    /\ u.bound \/ ~ReviewRequired(c) \/ u.low
    /\ c.open = {}
    /\ Finished(c)
    /\ u.proven /\ u.reviewed

-----------------------------------------------------------------------------
(* A proposed decision d, with acceptance (<<>> or one record), put into   *)
(* the case in the place of the records with the same ids.                 *)
Projected(c, d, acceptance) ==
    [c EXCEPT !.decisions = {x \in @ : x.id # d.id} \cup {d},
              !.acceptances =
                  IF Has(acceptance)
                  THEN {x \in @ : x.id # The(acceptance).id} \cup {The(acceptance)} ELSE {}]

Proposal(c, d, acceptance, ctx) ==
    Evaluate(Projected(c, d, acceptance), [ctx EXCEPT !.candidate = TRUE])

CandidateHuman(c, h, active) == h \in DOMAIN c.humans /\ active /\ Capable(c, h)

(* A decision may be recorded before the quorum is met, and that is the    *)
(* only diagnostic it may be recorded in spite of.  u is its proposal.     *)
DecisionAllowed(c, d, active, u) ==
    /\ CandidateHuman(c, d.human, active)
    /\ u.errors \subseteq {"HUMAN_QUORUM_INCOMPLETE"}
    /\ d \in u.qualified
    /\ HumanDecisionReady(c, u)

(* The proposal u holds an acceptance beside the decision.                 *)
AcceptanceAllowed(c, d, active, u) ==
    /\ CandidateHuman(c, d.human, active)
    /\ u.errors = {}
    /\ d \in u.qualified
    /\ u.bound \/ ~ReviewRequired(c)
    /\ FullyVerified(u)
=============================================================================
