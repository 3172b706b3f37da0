---------------------------- MODULE WorkRecords ----------------------------
(***************************************************************************)
(* What the workspace records of a work item say, and the case they make   *)
(* for the governance kernel.  Operators take                              *)
(*   s   the workspace: s.work[w] the work items; the sequences attempts,  *)
(*       receipts, evidence, reviews, decisions, acceptances, whose indices*)
(*       are the record ids; s.inactive, the humans who have left          *)
(*   g   the repository: g.commits, a sequence of [line, tree, at], line   *)
(*       being the history of the commit with itself and a tree mapping    *)
(*       each path to its bytes (0: absent); g.head; g.disk                *)
(*   j   the governance journal: "current" when it replays to the          *)
(*       workspace, "behind" after an edit that no command made            *)
(* Stored hashes are modelled by what they pin down: records are never     *)
(* rewritten, except an attempt and a contract, so a hash of any other     *)
(* record is its id; a review keeps the attempt and the contract it saw.   *)
(***************************************************************************)
EXTENDS GovernanceKernel

CONSTANTS
    Work, Human, Palari,
    Path,           \* the tracked paths of the repository
    Approver        \* the humans who have the approval capability

ASSUME RecordsAssumption ==
    /\ IsFiniteSet(Work) /\ IsFiniteSet(Human) /\ IsFiniteSet(Path)
    /\ Approver \subseteq Human
    /\ Human \cap Palari = {}

Collections == {"attempts", "receipts", "evidence", "reviews", "decisions", "acceptances"}

Of(records, w) == {records[i] : i \in {k \in DOMAIN records : records[k].work = w}}

(* record_time_key: the instant, then the id.                              *)
Latest(S) == IF S = {} THEN <<>> ELSE <<CHOOSE x \in S : \A y \in S \ {x} : Later(x, y)>>

Contract(s, w) == s.work[w].contract
Outputs(s, w) == DOMAIN Contract(s, w).intents

(* The declared current attempt, or the latest one.                        *)
CurrentAttempt(s, w) ==
    IF s.work[w].current # 0 THEN <<s.attempts[s.work[w].current]>> ELSE Latest(Of(s.attempts, w))

ForAttempt(records, w, attempt) ==
    Latest({r \in Of(records, w) : Has(attempt) /\ r.attempt = The(attempt).id})

(* The records that are current for a work item, each <<>> or one record.  *)
CurrentFor(s, w, attempt) ==
    [attempt |-> attempt,
     receipt |-> ForAttempt(s.receipts, w, attempt),
     evidence |-> ForAttempt(s.evidence, w, attempt),
     review |-> Latest(Of(s.reviews, w))]

Current(s, w) == CurrentFor(s, w, CurrentAttempt(s, w))

(* attempt_state_hash leaves the timestamps out.                           *)
AttemptState(a) == [id |-> a.id, actor |-> a.actor, status |-> a.status, base |-> a.base,
                    head |-> a.head, clean |-> a.clean, changed |-> a.changed]

-----------------------------------------------------------------------------
(* The repository.                                                         *)
Tree(g, c) == g.commits[c].tree

Descends(g, c, a) == a \in g.commits[c].line

(* Mutant: nobody looks for uncommitted changes.                           *)
CleanAssumed(g) == TRUE

(* The working tree has no tracked change outside the workspace's files.   *)
TrackedClean(g) == g.disk = Tree(g, g.head)

(* _artifact_hashes: an absent file is "absent" only where the contract    *)
(* expects its deletion.                                                   *)
HashOf(intents, tree, p) ==
    [status |-> IF tree[p] # 0 THEN "present"
                ELSE IF intents[p] = "delete" THEN "absent" ELSE "missing",
     digest |-> tree[p]]

ArtifactHashes(intents, tree) == [p \in DOMAIN intents |-> HashOf(intents, tree, p)]

(* The bytes of the path changed from base to head the way its intent says.*)
IntentMet(intent, before, after) ==
    \/ intent = "create" /\ before = 0 /\ after # 0
    \/ intent = "modify" /\ before # 0 /\ after # 0 /\ before # after
    \/ intent = "delete" /\ before # 0 /\ after = 0

Changed(g, base, head) == {p \in Path : Tree(g, base)[p] # Tree(g, head)[p]}

-----------------------------------------------------------------------------
(* Evidence, observed again where it is used.                              *)

(* The evidence names the receipt of its attempt, and covers its outputs.  *)
ReceiptCovered(s, e) ==
    \E r \in Of(s.receipts, e.work) :
        /\ r.id = e.receipt /\ r.attempt = e.attempt
        /\ r.outputs # {} /\ r.outputs \subseteq DOMAIN e.hashes

(* The attempt's base and head are the ones the evidence ran between, and  *)
(* Git shows every path intent of the contract over that range.            *)
IntentsProved(g, e, a, intents) ==
    /\ e.base = a.base
    /\ a.head # 0 => e.head = a.head
    /\ DOMAIN intents # {} => Descends(g, e.head, a.base)
    /\ \A p \in DOMAIN intents :
          /\ p \in DOMAIN e.hashes
          /\ IntentMet(intents[p], Tree(g, a.base)[p], Tree(g, e.head)[p])

(* Mutant: the files are not read.                                         *)
EvidenceTrusted(s, g, e) ==
    /\ e.status = "passed"
    /\ IntentsProved(g, e, s.attempts[e.attempt], Contract(s, e.work).intents)
    /\ ReceiptCovered(s, e)

(* verify_evidence: the bytes on the disk are the ones that were hashed.   *)
EvidenceVerified(s, g, e) ==
    /\ e.status = "passed"
    /\ e.hashes = ArtifactHashes(Contract(s, e.work).intents, g.disk)
    /\ \A p \in DOMAIN e.hashes : e.hashes[p].status # "missing"
    /\ IntentsProved(g, e, s.attempts[e.attempt], Contract(s, e.work).intents)
    /\ ReceiptCovered(s, e)

(* stored_evidence_integrity_errors: the same without reading the files.   *)
EvidenceStored(s, e) ==
    LET intents == Contract(s, e.work).intents
    IN  /\ DOMAIN e.hashes # {}
        /\ \A p \in DOMAIN e.hashes :
              e.hashes[p].status =
                 IF p \in DOMAIN intents /\ intents[p] = "delete" THEN "absent" ELSE "present"
        /\ ReceiptCovered(s, e)

-----------------------------------------------------------------------------
(* The exact current proof, and the reviews bound to it.                   *)

(* _current_review_binding without errors, k being what is current for w;  *)
(* inspect says whether the files and Git are read again.                  *)
ProofHolds(s, g, w, k, inspect) ==
    /\ Has(k.attempt) /\ Has(k.evidence) /\ Has(k.receipt)
    /\ s.work[w].current = The(k.attempt).id
    /\ The(k.attempt).status \in TerminalAttempt /\ The(k.attempt).clean
    /\ The(k.attempt).head # 0
    /\ The(k.evidence).status = "passed"
    /\ The(k.evidence).head = The(k.attempt).head
    /\ The(k.evidence).receipt = The(k.receipt).id
    /\ IF inspect THEN EvidenceVerified(s, g, The(k.evidence)) ELSE EvidenceStored(s, The(k.evidence))

ProofCurrent(s, g, w, inspect) == ProofHolds(s, g, w, Current(s, w), inspect)

BindingOf(contract, k) ==
    [attempt |-> The(k.attempt).id, attemptState |-> AttemptState(The(k.attempt)),
     evidence |-> The(k.evidence).id, receipt |-> The(k.receipt).id, contract |-> contract]

Binding(s, w) == BindingOf(Contract(s, w), Current(s, w))

(* review_binding_integrity_errors: what the review judged still exists,   *)
(* unchanged, whether or not it is still current.                          *)
ReviewIntact(s, r) ==
    LET b == r.binding
    IN  /\ s.attempts[b.attempt].work = r.work
        /\ AttemptState(s.attempts[b.attempt]) = b.attemptState
        /\ s.evidence[b.evidence].attempt = b.attempt
        /\ s.evidence[b.evidence].head = r.head
        /\ s.receipts[b.receipt].attempt = b.attempt

ReviewBinds(s, g, r, k, inspect) ==
    /\ ReviewIntact(s, r)
    /\ ProofHolds(s, g, r.work, k, inspect)
    /\ r.binding = BindingOf(Contract(s, r.work), k)

ReviewCurrent(s, g, r, inspect) == ReviewBinds(s, g, r, Current(s, r.work), inspect)

-----------------------------------------------------------------------------
(* governance_case_from_workspace, and its snapshots.                      *)

Context(s, w) ==
    LET intents == Contract(s, w).intents
    IN  [expect |-> {[path |-> p, status |-> IF intents[p] = "delete" THEN "absent" ELSE "present"] :
                        p \in DOMAIN intents},
         projectionOnly |-> FALSE, candidate |-> FALSE]

(* The coarse status of a work item as one of the states of the kernel.    *)
ClaimedState(status) ==
    CASE status \in {"proposed", "active"} -> "in-progress"
      [] status = "in-review" -> "review-required"
      [] status = "needs-human" -> "human-decision-required"
      [] status \in TerminalWork -> "completed"
      [] OTHER -> status

ContractOf(s, w, status) ==
    LET k == Contract(s, w)
    IN  [status |-> status, risk |-> k.risk, intensity |-> k.intensity, count |-> k.count,
         capability |-> "approve", allowed |-> DOMAIN k.intents, sources |-> {},
         external |-> k.external, current |-> s.work[w].current, palari |-> k.palari, rev |-> k.rev]

AttemptSnapshot(a, outputs) ==
    [id |-> a.id, actor |-> a.actor, status |-> a.status, head |-> a.head, clean |-> a.clean,
     changed |-> a.changed, outputs |-> outputs, allowed |-> outputs, forbidden |-> {},
     started |-> a.at]

ReceiptSnapshot(r) ==
    [id |-> r.id, attempt |-> r.attempt, actor |-> r.actor, outputs |-> r.outputs,
     undo |-> r.undo, acted |-> TRUE, sources |-> {}, external |-> r.external, at |-> r.at]

EvidenceSnapshot(e, receipt) ==
    [id |-> e.id, attempt |-> e.attempt, head |-> e.head, status |-> e.status, commands |-> TRUE,
     artifacts |-> DOMAIN e.hashes, hashes |-> e.hashes, receipt |-> receipt, at |-> e.at]

(* A review that is bound to the current proof answers with the digests of *)
(* the case, any other with stored hashes that match nothing.              *)
ReviewSnapshot(r, bound, contract, proof) ==
    [id |-> r.id, reviewer |-> r.reviewer, verdict |-> r.verdict, head |-> r.head, at |-> r.at,
     contractDigest |-> IF bound THEN <<contract>> ELSE <<>>,
     attemptDigest |-> IF bound THEN proof.attempt ELSE <<>>,
     evidenceDigest |-> IF bound THEN proof.evidence ELSE <<>>,
     receiptDigest |-> IF bound THEN proof.receipt ELSE <<>>]

(* _current_human_decisions: the latest decision of each human about the   *)
(* reviewed head, or, when nobody reviews, about the attempt's head.       *)
LatestOfEach(S) == {d \in S : \A e \in S : e.human = d.human /\ e # d => Later(d, e)}

ReviewedHead(k) == IF Has(k.review) THEN The(k.review).head ELSE AttemptHead(k.attempt)

DecisionsAbout(s, w, k) ==
    LatestOfEach({d \in Of(s.decisions, w) : /\ ReviewedHead(k) # 0 /\ d.head = ReviewedHead(k)
                                             /\ Has(k.review) \/ d.review = 0})

DecisionSnapshot(d, bound, evidence, review) ==
    [id |-> d.id, human |-> d.human, head |-> d.head, decision |-> d.decision, status |-> d.decision,
     mode |-> d.mode, evidence |-> d.evidence, review |-> d.review, at |-> d.at,
     evidenceDigest |-> IF bound THEN evidence ELSE <<>>, reviewDigest |-> IF bound THEN review ELSE <<>>]

(* _bound_acceptance_snapshot: whether the acceptance is about exactly what*)
(* is current.                                                             *)
AcceptanceBound(k, about, x) ==
    LET review == IF Has(k.review) THEN The(k.review).id ELSE 0
        evidence == IF Has(k.review) THEN The(k.review).binding.evidence
                    ELSE IF Has(k.evidence) THEN The(k.evidence).id ELSE 0
        receipt == IF Has(k.review) THEN The(k.review).binding.receipt
                   ELSE IF Has(k.receipt) THEN The(k.receipt).id ELSE 0
    IN  /\ ReviewedHead(k) # 0 /\ x.head = ReviewedHead(k)
        /\ x.review = review /\ x.evidence = evidence /\ x.receipt = receipt
        /\ \E d \in about : /\ d.id = x.decision /\ d.human = x.human /\ d.head = x.head
                            /\ d.evidence = x.evidence /\ d.review = x.review

AcceptanceSnapshot(x, current, proof, review) ==
    [id |-> x.id, human |-> x.human, head |-> x.head, status |-> "accepted", decision |-> x.decision,
     evidence |-> x.evidence, review |-> x.review, quorum |-> "met", at |-> x.at,
     receiptDigest |-> IF current THEN proof.receipt ELSE <<>>,
     evidenceDigest |-> IF current THEN proof.evidence ELSE <<>>,
     reviewDigest |-> IF current THEN review ELSE <<>>]

SubjectSeen(g, evidence, intents) ==
    IF ~Has(evidence) \/ \A p \in DOMAIN The(evidence).hashes : intents[p] = "delete"
    THEN "not-required"
    ELSE IF \A p \in DOMAIN The(evidence).hashes : intents[p] # "delete" => g.disk[p] # 0
    THEN "verified" ELSE "failed"

EvidenceSeen(s, g, evidence) ==
    IF ~Has(evidence) THEN "not-checked"
    ELSE IF EvidenceVerified(s, g, The(evidence)) THEN "verified" ELSE "failed"

(* What is observed when the files, Git and the journal are inspected, and *)
(* what a projection of the records alone assumes.                         *)
Observed(s, g, j, w, k, inspect) ==
    IF inspect
    THEN [subject |-> SubjectSeen(g, k.evidence, Contract(s, w).intents),
          evidence |-> EvidenceSeen(s, g, k.evidence),
          journal |-> IF j = "current" THEN "verified" ELSE "failed"]
    ELSE [subject |-> IF Has(k.evidence) THEN "not-checked" ELSE "not-required",
          evidence |-> IF Has(k.evidence) THEN "not-checked" ELSE "not-required",
          journal |-> "not-checked"]

CaseFrom(s, w, contract, k, proof, review, about, bound, seen) ==
    [claimed |-> ClaimedState(s.work[w].status), contract |-> contract,
     deps |-> {s.work[d].status : d \in Contract(s, w).deps},
     open |-> {}, sources |-> <<>>,
     attempt |-> proof.attempt, receipt |-> proof.receipt, evidence |-> proof.evidence,
     review |-> review,
     reviewers |-> {p \in Palari : Has(k.review) /\ p = The(k.review).reviewer},
     humans |-> [h \in Human |-> IF h \in Approver THEN {"approve"} ELSE {}],
     decisions |-> {DecisionSnapshot(d, bound, proof.evidence, review) : d \in about},
     acceptances |-> {AcceptanceSnapshot(x, bound /\ AcceptanceBound(k, about, x), proof, review) :
                         x \in Of(s.acceptances, w)},
     subject |-> seen.subject, evidenceSeen |-> seen.evidence, journal |-> seen.journal]

CaseReviewed(s, w, contract, k, proof, reviewed, seen) ==
    CaseFrom(s, w, contract, k, proof,
             IF Has(k.review) THEN <<ReviewSnapshot(The(k.review), reviewed, contract, proof)>> ELSE <<>>,
             DecisionsAbout(s, w, k),
             reviewed \/ (~Has(k.review) /\ ~ReviewRequired([contract |-> contract, receipt |-> proof.receipt])),
             seen)

Snapshots(k, outputs, receipt) ==
    [attempt |-> IF Has(k.attempt) THEN <<AttemptSnapshot(The(k.attempt), outputs)>> ELSE <<>>,
     receipt |-> receipt,
     evidence |-> IF Has(k.evidence) THEN <<EvidenceSnapshot(The(k.evidence), receipt)>> ELSE <<>>]

CaseOn(s, g, j, w, inspect, status, k) ==
    CaseReviewed(s, w, ContractOf(s, w, status), k,
                 Snapshots(k, Outputs(s, w),
                           IF Has(k.receipt) THEN <<ReceiptSnapshot(The(k.receipt))>> ELSE <<>>),
                 Has(k.review) /\ ReviewBinds(s, g, The(k.review), k, inspect),
                 Observed(s, g, j, w, k, inspect))

(* inspect is FALSE for the projections that read only the records; status *)
(* is the one the work item has or is about to have.                       *)
CaseOf(s, g, j, w, inspect, status) == CaseOn(s, g, j, w, inspect, status, Current(s, w))
=============================================================================
