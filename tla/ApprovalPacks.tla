---------------------------- MODULE ApprovalPacks ----------------------------
(***************************************************************************)
(* Approval packs: several work items put before a human at once, decided  *)
(* in one action and, where the quorum is met, completed by the same write *)
(* (approval_packs, approval_presentations), and the approval of a single  *)
(* task that derives the pack by itself (simple_approval).                 *)
(*                                                                         *)
(* The digest of a pack is the pack itself.  A pack also binds the bytes of*)
(* the workspace and the head of the journal, so it is offered only as long*)
(* as nothing is written: evaluating a pack some of whose members are      *)
(* already decided only serves displays and replays, which change nothing, *)
(* and is left out.                                                        *)
(***************************************************************************)
EXTENDS WorkLifecycle

CONSTANTS
    Selections      \* the sets of work items humans ask the inbox for

ASSUME PacksAssumption == Selections \subseteq SUBSET Work

VARIABLE
    offer           \* <<>> or the pack and the presentation a human last saw

packVars == <<store, git, journal, baseline, claim, plan, edits, offer>>

-----------------------------------------------------------------------------
(* What a pack says of a work item: _work_member.                          *)

ReviewerOf(k) == IF Has(k.review) THEN {The(k.review).reviewer} ELSE {}

(* build_authority_plan, with the reviewer it already has.                 *)
ApproversViable(s, w, k) ==
    IF Has(k.review) THEN ReviewerViable(s, w, The(k.review).reviewer) ELSE PlanViable(s, w)

(* What keeps the work item from being decided, u being its verdict.       *)
MemberErrors(s, w, k, c, u) ==
    LET proof == (u.errors \ {"CLAIMED_STATE_MISMATCH", "HUMAN_QUORUM_INCOMPLETE"})
                 \cup When(RequiredCount(Policy(s, w)) = 0, "APPROVAL_NOT_REQUIRED")
                 \cup When(/\ Has(k.attempt)
                           /\ Has(k.review) \/ ~ReviewRequired(Policy(s, w))
                           /\ ~ApproversViable(s, w, k), "AUTHORITY_NOT_VIABLE")
    IN  proof \cup When(proof = {} /\ ~HumanDecisionReady(c, u), "PROOF_NOT_READY")

MemberFrom(s, w, k, errors) ==
    [contract |-> Contract(s, w),
     attempt |-> IF Has(k.attempt) THEN <<AttemptState(The(k.attempt))>> ELSE <<>>,
     receipt |-> LatestReceipt(s, w), evidence |-> LatestEvidence(s, w), review |-> k.review,
     policy |-> BatchPolicy(Contract(s, w).risk, Contract(s, w).external, {}),
     done |-> IsDone(s, w), errors |-> errors]

MemberOn(s, w, k, c) == MemberFrom(s, w, k, MemberErrors(s, w, k, c, Evaluate(c, Context(s, w))))

Member(s, g, j, w) == MemberOn(s, w, Current(s, w), CaseNow(s, g, j, w))

(* _dependency_bindings: a pack binds the state of everything its members  *)
(* depend on.                                                              *)
Depends(s, w) == Reach([v \in Work |-> Contract(s, v).deps], w)

PackOf(s, g, j, works) ==
    [members |-> [w \in works |-> Member(s, g, j, w)],
     bindings |-> [w \in UNION {Depends(s, v) : v \in works} |-> Member(s, g, j, w)]]

(* The members of one pack are all batchable, or of one other class.       *)
OneGroup(pack) ==
    \A v, w \in DOMAIN pack.members : pack.members[v].policy = pack.members[w].policy

-----------------------------------------------------------------------------
(* evaluate_approval_pack, for a pack just built.                          *)

Eligible(member) == member.errors = {} /\ ~member.done

Batched(member) == member.policy = "local-work"

StateAlone(member) ==
    IF member.errors # {} THEN "blocked"
    ELSE IF ~Batched(member) THEN "non-batchable"
    ELSE IF ~Eligible(member) THEN "blocked" ELSE "eligible"

(* The members w depends on inside the pack, and whether it waits for one  *)
(* that is in a bad state, or for work outside the pack.                   *)
Inside(pack, w) ==
    Reach([v \in Work |-> IF v \in DOMAIN pack.members
                          THEN pack.members[v].contract.deps \cap DOMAIN pack.members ELSE {}], w)

Held(s, pack, w) ==
    \/ \E v \in Inside(pack, w) : StateAlone(pack.members[v]) # "eligible"
    \/ \E v \in {w} \cup Inside(pack, w) :
          \E d \in pack.members[v].contract.deps \ DOMAIN pack.members : ~IsDone(s, d)

States(s, pack) ==
    [w \in DOMAIN pack.members |->
        IF Held(s, pack, w) THEN "blocked" ELSE StateAlone(pack.members[w])]

(* build_approval_presentation: beside the states, the decisions on record *)
(* about what is decided, and whether their humans are still here.         *)
DecisionContext(s, w) ==
    {<<d.id, d.human \in s.inactive>> : d \in LatestOfEach(
        {x \in Of(s.decisions, w) : x.head = ReviewedHead(Current(s, w))})}

OfferOf(s, pack) ==
    [pack |-> pack, states |-> States(s, pack), seen |-> s,
     context |-> [w \in DOMAIN pack.members |-> DecisionContext(s, w)]]

InboxOffer(s, g, j, works) == OfferOf(s, PackOf(s, g, j, works))

(* _topological_order: nobody comes before what he depends on inside the   *)
(* pack; a pack that cannot be ordered so is refused.  The code takes the  *)
(* order in which, among those, the ids are sorted.                        *)
Orderable(pack) == \A w \in DOMAIN pack.members : w \notin Inside(pack, w)

Orders(pack, works) ==
    {order \in [1..Cardinality(works) -> works] :
        /\ \A i, k \in DOMAIN order : order[i] = order[k] => i = k
        /\ \A i, k \in DOMAIN order : order[k] \in Inside(pack, order[i]) => k < i}

-----------------------------------------------------------------------------
(* apply_pack_decision, on the workspace s that is on the disk.            *)

(* A batch takes eligible members, a riskier one only alone.               *)
Approvable(offered, approved) ==
    \A w \in approved :
       \/ offered.states[w] = "eligible"
       \/ /\ offered.states[w] = "non-batchable"
          /\ offered.pack.members[w].policy # "external-effect"
          /\ {w} = DOMAIN offered.pack.members /\ {w} = approved

(* A dependency in the pack is approved with the member, any other is done.*)
DependenciesMet(s, pack, approved) ==
    \A w \in approved : \A d \in Contract(s, w).deps :
       IF d \in DOMAIN pack.members THEN d \in approved ELSE IsDone(s, d)

NotItsMaker(k, h) == h # The(k.attempt).actor /\ h \notin ReviewerOf(k)

(* The decision about a member names the latest evidence of its work.      *)
PackCandidate(s, w, c, h, decision, id) ==
    [Candidate(c, h, decision, Now, id) EXCEPT
        !.mode = "approval-pack",
        !.evidence = IF Has(LatestEvidence(s, w)) THEN The(LatestEvidence(s, w)).id ELSE 0]

MayDecide(s, w, c, d) ==
    /\ d.human \in Approver \ s.inactive
    /\ d.decision = "accepted" =>
          NotItsMaker(Current(s, w), d.human) /\ ApprovalAllowed(s, w, c, d)

(* The decision about member w as it is judged, on the workspace before the*)
(* action: whether it may be recorded and whether it meets the quorum.     *)
JudgedFrom(s, w, c, d) ==
    [work |-> w, decision |-> d, allowed |-> MayDecide(s, w, c, d),
     met |-> d.decision = "accepted" /\ Proposal(c, d, <<>>, Context(s, w)).quorum]

JudgedOn(s, w, c, h, decision, id) == JudgedFrom(s, w, c, PackCandidate(s, w, c, h, decision, id))

Judged(s, g, j, w, h, decision, id) == JudgedOn(s, w, CaseNow(s, g, j, w), h, decision, id)

JudgedInOrder(s, g, j, order, h, approved) ==
    [i \in DOMAIN order |->
        Judged(s, g, j, order[i], h, IF order[i] \in approved THEN "accepted" ELSE "rejected",
               Len(s.decisions) + i)]

WithDecisions(s, judged) ==
    [s EXCEPT !.decisions = @ \o [i \in DOMAIN judged |-> Decided(judged[i].decision, judged[i].work)]]

(* The completion of the work of a decision that met the quorum, s being   *)
(* the workspace with the acceptance in it; <<>> when it is refused.       *)
CompletionOfMember(s, g, j, w, acceptable) ==
    IF acceptable /\ Valid(s, g) /\ CompleteAllowed(s, g, j, w, Now)
    THEN <<[s EXCEPT !.work[w].status = "completed"]>> ELSE <<>>

(* The decision is judged again in the case c of the completed work.       *)
AcceptableOf(s, w, c, d) ==
    AcceptanceAllowed(c, d, TRUE, Proposal(c, d, <<AcceptanceOf(c, d, Now)>>, Context(s, w)))

MemberAcceptable(s, w, c, d) ==
    AcceptableOf(s, w, c, [d EXCEPT !.evidenceDigest = c.evidence, !.reviewDigest = c.review])

CompletedMember(s, g, j, w, d) ==
    IF Of(s.acceptances, w) # {} THEN CompletionOfMember(s, g, j, w, TRUE)
    ELSE CompletionOfMember(WithAcceptance(s, w, d, Now), g, j, w,
                            MemberAcceptable(s, w, CompletionCase(s, g, j, w), d))

(* Completions follow the decisions, member after member.                  *)
ExecutedMember(before, g, j, member) ==
    IF ~member.met \/ ~Has(before) THEN before
    ELSE CompletedMember(The(before), g, j, member.work, member.decision)

Executed(s, g, j, judged) ==
    LET after[i \in 0..Len(judged)] ==
            IF i = 0 THEN <<s>> ELSE ExecutedMember(after[i - 1], g, j, judged[i])
    IN  after[Len(judged)]

(* The plan of the action: everything in one replacement of the workspace. *)
PlanPack(offered, judged, written) ==
    /\ \A i \in DOMAIN judged : judged[i].allowed
    /\ Valid(WithDecisions(store, judged), git)
    /\ Has(written)
    /\ plan' = <<[kind |-> "pack", seen |-> store, offer |-> offered, new |-> The(written)]>>

PlanJudged(offered, judged) ==
    PlanPack(offered, judged, Executed(WithDecisions(store, judged), git, journal, judged))

PlanDecision(offered, h, approved, rejected) ==
    /\ approved \cup rejected # {}
    /\ Approvable(offered, approved) /\ DependenciesMet(store, offered.pack, approved)
    /\ \A w \in approved \cup rejected : Cardinality(Of(store.decisions, w)) < MaxDecisions[w]
    /\ \E order \in Orders(offered.pack, approved \cup rejected) :
          PlanJudged(offered, JudgedInOrder(store, git, journal, order, h, approved))

(* The inbox is asked for the works, some of them open (a bound); it offers*)
(* nothing over a workspace the journal does not replay to.  To ask while a*)
(* command is planned is to ask before or after it.                        *)
AskWith(new) ==
    /\ OneGroup(new.pack) /\ Orderable(new.pack)
    /\ offer' = <<new>>

Ask(works) ==
    /\ plan = <<>> /\ journal = "current"
    /\ \E w \in works : ~IsTerminal(store, w)
    /\ AskWith(InboxOffer(store, git, journal, works))
    /\ UNCHANGED vars

(* The offer is still what the inbox would show, once what is open in the  *)
(* journal is set aside.                                                   *)
Stands(offered) == InboxOffer(store, git, "current", DOMAIN offered.pack.members) = offered

DecidePack ==
    /\ plan = <<>> /\ journal = "current"
    /\ Has(offer) /\ Stands(The(offer))
    /\ \E h \in Human : \E approved, rejected \in SUBSET DOMAIN The(offer).pack.members :
          approved \cap rejected = {} /\ PlanDecision(The(offer), h, approved, rejected)
    /\ UNCHANGED <<store, git, journal, baseline, claim, edits, offer>>

(* _require_completing_quorum: this approval completes the work.           *)
CompletesQuorum(w, p) == IsDone(p.new, w)

(* approve_work: the pack of one local task.                               *)
ApproveOffered(w, h, new) ==
    /\ Orderable(new.pack) /\ new.pack.members[w].policy # "external-effect"
    /\ h \in Available(store, w) \ ReviewerOf(Current(store, w))
    /\ PlanDecision(new, h, {w}, {})
    /\ CompletesQuorum(w, The(plan'))

ApprovedByPack(w, h) ==
    \E d \in Of(store.decisions, w) : d.human = h /\ d.mode = "approval-pack" /\ d.decision = "accepted"

Approve(w, h) ==
    /\ plan = <<>> /\ journal = "current"
    /\ ~ApprovedByPack(w, h)
    /\ ~IsDone(store, w) /\ RequiredCount(Policy(store, w)) > 0
    /\ ApproveOffered(w, h, InboxOffer(store, git, journal, {w}))
    /\ UNCHANGED <<store, git, journal, baseline, claim, edits, offer>>

(* Mutant: the offer is not built again before the write.                  *)
PrewriteTrusted(p) == TRUE

(* _assert_pack_prewrite_current, under the writer lock.                   *)
PrewriteCurrent(p) == Stands(p.offer)

WritePack ==
    /\ Has(plan) /\ The(plan).kind = "pack"
    /\ store = The(plan).seen
    /\ PrewriteCurrent(The(plan))
    /\ Write(The(plan).new)
    /\ plan' = <<>>
    /\ UNCHANGED <<git, baseline, claim, edits, offer>>

-----------------------------------------------------------------------------
PackInit == Init /\ offer = <<>>

Packs ==
    \/ \E works \in Selections : Ask(works)
    \/ \E w \in Work, h \in Human : Approve(w, h)
    \/ DecidePack
    \/ WritePack

PackNext == (Next /\ UNCHANGED offer) \/ Packs

PackSpec == PackInit /\ [][PackNext]_packVars

-----------------------------------------------------------------------------
(* Work is completed only after everything it depends on, also when one    *)
(* action decides several members, some of which wait for others           *)
(* (_topological_order, _derive_state).                                    *)
DependenciesFirst ==
    \A w \in Work : IsDone(store, w) => \A d \in Contract(store, w).deps : IsDone(store, d)

(* What is written by the request of a pack was shown to its human: the    *)
(* contract, the attempt and the review are those of the presentation, and *)
(* the files hold, byte for byte, what the evidence shown hashed.          *)
WrittenAsShown(request) ==
    \A i \in DOMAIN store'.decisions \ DOMAIN store.decisions :
       LET d == store'.decisions[i]
           shown == request.offer.pack.members[d.work]
           e == The(shown.evidence)
       IN  d.mode = "approval-pack" /\ d.decision = "accepted" =>
              /\ d.work \in DOMAIN request.offer.pack.members
              /\ shown.contract = Contract(store, d.work)
              /\ d.evidence = e.id /\ d.head = e.head
              /\ d.review = (IF Has(shown.review) THEN The(shown.review).id ELSE 0)
              /\ shown.review = Current(store, d.work).review
              /\ \A p \in DOMAIN e.hashes : e.hashes[p].digest = git.disk[p]

(* Once the workspace on the disk says that work is retired, no command    *)
(* touches it, its attempts, proofs and judgements, whatever command was   *)
(* under way when it was retired (_assert_retired_work_immutable).         *)
RetiredWorkFrozen ==
    [][\A w \in Work :
          IsRetired(store, w) /\ journal' # "behind" =>
             /\ store'.work[w] = store.work[w]
             /\ \A k \in Collections : Of(store'[k], w) = Of(store[k], w)]_packVars
=============================================================================
