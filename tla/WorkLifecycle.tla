---------------------------- MODULE WorkLifecycle ----------------------------
(***************************************************************************)
(* The life of work items: an agent claims one, commits, has the result    *)
(* verified and recorded as proof (agent_advance), reviewers and humans    *)
(* judge that proof, convergence completes the work, and in between the    *)
(* repository moves, people leave and the workspace is edited by hand.     *)
(* The clock is the latest instant on record: a new record is later than   *)
(* all others, or, for a decision, in the same second.                     *)
(***************************************************************************)
EXTENDS WorkTransitions

CONSTANTS
    Drafts,         \* Drafts: functions from Work to the status and contract it starts with
    FirstTree,      \* the tree of the first commit
    Byte,           \* Byte[p]: what an edit may put into path p; 0 is absence
    Verdicts,       \* the verdicts a reviewer may give
    Choices,        \* the decisions a human may take
    MaxCommits,     \* bounds: commits of the repository and, of each work item,
    MaxAttempts, MaxReviews, MaxDecisions, MaxEdits,
    EditKinds       \* EditKinds[w]: what hand edits counted with work item w do

(* No work starts completed: a draft has no records, and the rules refuse  *)
(* completed work without them.                                            *)
ASSUME LifecycleAssumption ==
    /\ DOMAIN FirstTree = Path /\ MaxEdits \in [Work -> Nat]
    /\ \A draft \in Drafts : \A w \in Work :
          /\ draft[w].status \notin TerminalWork
          /\ DOMAIN draft[w].contract =
                {"risk", "intensity", "count", "external", "deps", "intents", "palari", "rev"}
          /\ draft[w].contract.count \in Nat

VARIABLES
    store,          \* the workspace file
    git,            \* the repository and its working tree
    journal,        \* "current" if the governance journal replays to the store,
                    \* "behind" if not, "pending" if a transaction is open
    baseline,       \* baseline[w]: <<>> or the baseline of the first claim of the work
    claim,          \* claim[w]: <<>> or the execution claim of the work
    plan,           \* <<>> or the agent advance command in progress
    edits           \* edits[w]: hand edits of the workspace so far, counted with a work item

vars == <<store, git, journal, baseline, claim, plan, edits>>

-----------------------------------------------------------------------------
Instants == {git.commits[c].at : c \in DOMAIN git.commits}
            \cup UNION {{store[k][i].at : i \in DOMAIN store[k]} : k \in Collections}

Last == CHOOSE t \in Instants : \A u \in Instants : u <= t
Now == Last + 1

Parent(g, c) == CHOOSE a \in g.commits[c].line \ {c} : \A b \in g.commits[c].line \ {c} : b <= a

(* The paths some commit after base touches, even when another undoes it.  *)
Touched(g, base, head) ==
    UNION {Changed(g, Parent(g, c), c) : c \in g.commits[head].line \ g.commits[base].line}

Proposed(draft) ==
    [status |-> draft.status, successor |-> {}, current |-> 0, contract |-> draft.contract]

Init ==
    /\ \E draft \in Drafts :
          store = [work |-> [w \in Work |-> Proposed(draft[w])], inactive |-> {},
                   attempts |-> <<>>, receipts |-> <<>>, evidence |-> <<>>,
                   reviews |-> <<>>, decisions |-> <<>>, acceptances |-> <<>>]
    /\ git = [commits |-> <<[line |-> {1}, tree |-> FirstTree, at |-> 1]>>,
              head |-> 1, disk |-> FirstTree]
    /\ journal = "current"
    /\ baseline = [w \in Work |-> <<>>]
    /\ claim = [w \in Work |-> <<>>]
    /\ plan = <<>>
    /\ edits = [w \in Work |-> 0]

(* Mutant: the journal may end in an open transaction.                     *)
WriteWhilePending(new) ==
    /\ journal # "behind"
    /\ Writable(store, new, git)
    /\ store' = new
    /\ UNCHANGED journal

(* write_store: nothing is written over a journal that does not replay to  *)
(* the file or ends in an open transaction, over a retired work, or against*)
(* the rules.                                                              *)
Write(new) ==
    /\ journal = "current"
    /\ Writable(store, new, git)
    /\ store' = new
    /\ UNCHANGED journal

-----------------------------------------------------------------------------
(* The repository moves on its own.                                        *)

Edit(p, b) ==
    /\ git.disk[p] # b
    /\ Len(git.commits) < MaxCommits
    /\ git.disk = Tree(git, git.head)
    /\ git' = [git EXCEPT !.disk[p] = b]
    /\ UNCHANGED <<store, journal, baseline, claim, plan, edits>>

Commit ==
    LET c == Len(git.commits) + 1
    IN  /\ git.disk # Tree(git, git.head)
        /\ git' = [commits |-> Append(git.commits,
                                  [line |-> git.commits[git.head].line \cup {c},
                                   tree |-> git.disk, at |-> Now]),
                   head |-> c, disk |-> git.disk]
        /\ UNCHANGED <<store, journal, baseline, claim, plan, edits>>

Checkout(c) ==
    /\ c # git.head
    /\ git.disk = Tree(git, git.head)
    /\ git' = [git EXCEPT !.head = c, !.disk = Tree(git, c)]
    /\ UNCHANGED <<store, journal, baseline, claim, plan, edits>>

-----------------------------------------------------------------------------
(* Claims, as far as the range and the workspace they pin (their protocol  *)
(* is AgentClaims).  The workspace file is tracked by Git, so the snapshot *)
(* of the claim pins its bytes.                                            *)

(* _scope_authority_digest: what the first claim fixes for good.           *)
ScopeAuthority(w) ==
    [status |-> store.work[w].status, contract |-> Contract(store, w),
     deps |-> {<<d, store.work[d].status>> : d \in Contract(store, w).deps}]

InScope(w) == /\ The(baseline[w]).authority = ScopeAuthority(w)
              /\ Descends(git, git.head, The(baseline[w]).commit)

Start(w) ==
    /\ claim[w] = <<>> /\ TrackedClean(git)
    /\ BriefReady(store, git, w)
    /\ \/ /\ Has(baseline[w]) /\ InScope(w)
          /\ UNCHANGED baseline
       \/ /\ baseline[w] = <<>>
          /\ baseline' = [baseline EXCEPT ![w] = <<[commit |-> git.head, authority |-> ScopeAuthority(w)]>>]
    /\ claim' = [claim EXCEPT ![w] = <<[session |-> git.head, seen |-> store]>>]
    /\ UNCHANGED <<store, git, journal, plan, edits>>

Release(w) ==
    /\ Has(claim[w])
    /\ claim' = [claim EXCEPT ![w] = <<>>]
    /\ UNCHANGED <<store, git, journal, baseline, plan, edits>>

ClaimCurrent(w) == Has(claim[w]) /\ The(claim[w]).seen = store

(* Mutant: only the last commit is looked at.                              *)
PreflightOfLastCommit(w) ==
    /\ TrackedClean(git) /\ InScope(w) /\ git.head # 1
    /\ Changed(git, Parent(git, git.head), git.head) = DOMAIN Contract(store, w).intents

(* _preflight: clean, on the claim's line, and every path committed since  *)
(* the claim began is in bounds.                                           *)
CommitsInBounds(w, touched) ==
    /\ TrackedClean(git)
    /\ InScope(w)
    /\ Descends(git, git.head, The(claim[w]).session)
    /\ touched # {} /\ touched \subseteq DOMAIN Contract(store, w).intents

(* _verify_path_intents: every path of the contract was changed, and from  *)
(* the first claim to the head it went the way intended.                   *)
IntentsVerified(w, first, touched) ==
    LET intents == Contract(store, w).intents
    IN  \A p \in DOMAIN intents :
          /\ p \in touched
          /\ IntentMet(intents[p], Tree(git, first)[p], Tree(git, git.head)[p])

PreflightOk(w) ==
    LET first == The(baseline[w]).commit
        touched == Touched(git, first, git.head)
    IN  CommitsInBounds(w, touched) /\ IntentsVerified(w, first, touched)

-----------------------------------------------------------------------------
(* Where agent advance stands before it plans: _completed_projection.      *)

Finishable(w) ==
    LET a == CurrentAttempt(store, w)
    IN  /\ store.work[w].current # 0
        /\ The(a).status \in TerminalAttempt
        /\ The(a).actor = Contract(store, w).palari

PassingEvidence(w) ==
    Latest({e \in Of(store.evidence, w) : /\ e.attempt = store.work[w].current
                                          /\ e.head = AttemptHead(CurrentAttempt(store, w))
                                          /\ e.status = "passed"})

(* verify_proof_projection: since the proof, only the workspace changed.   *)
ProjectionOk(w) ==
    LET head == AttemptHead(CurrentAttempt(store, w))
    IN  /\ Descends(git, git.head, head)
        /\ Changed(git, head, git.head) = {}
        /\ TrackedClean(git)

(* _observe_work: "ready" announces that completion is allowed.            *)
Observation(w) ==
    IF IsDone(store, w) THEN "completed"
    ELSE IF store.work[w].current = 0 \/ ~(The(CurrentAttempt(store, w)).status \in TerminalAttempt)
    THEN "waiting"
    ELSE IF ~Finishable(w) THEN "blocked"
    ELSE IF ~Has(PassingEvidence(w)) THEN "waiting"
    ELSE IF ~ProjectionOk(w) THEN "blocked"
    ELSE IF Ready(Completion(store, git, journal, w, Now)) THEN "ready" ELSE "waiting"

(* A current changes-requested review lets the agent repair at a new head. *)
ChangesRequested(w) ==
    LET r == Latest(Of(store.reviews, w))
    IN  /\ Has(r) /\ The(r).verdict = "changes-requested"
        /\ ReviewCurrent(store, git, The(r), FALSE)
        /\ The(r).head = AttemptHead(CurrentAttempt(store, w))

Repairing(w) == ChangesRequested(w) /\ git.head # AttemptHead(CurrentAttempt(store, w))

FallsThrough(w) ==
    /\ journal = "current" /\ ~IsDone(store, w)
    /\ \/ Repairing(w)
       \/ /\ Observation(w) = "waiting"
          /\ ~Finishable(w) \/ ~Has(PassingEvidence(w))
-----------------------------------------------------------------------------
(* Proof: verification runs outside the writer lock, on what it saw first. *)

AdvancePlan(w) ==
    [kind |-> "advance", work |-> w, base |-> The(baseline[w]).commit, head |-> git.head, seen |-> store,
     touched |-> Touched(git, The(baseline[w]).commit, git.head),
     hashes |-> ArtifactHashes(Contract(store, w).intents, git.disk)]

(* plan_advance: the blockers of the plan.                                 *)
CanAdvance(w) == ClaimCurrent(w) /\ BriefReady(store, git, w) /\ PreflightOk(w)

Advance(w) ==
    /\ plan = <<>>
    /\ FallsThrough(w)
    /\ CanAdvance(w)
    /\ plan' = <<AdvancePlan(w)>>
    /\ UNCHANGED <<store, git, journal, baseline, claim, edits>>

(* _refresh_artifact_transition: the outputs are what the old proof hashed.*)
StillAsHashed(intents, e) ==
    \A p \in DOMAIN intents : git.disk[p] # 0 /\ e.hashes[p] = HashOf(intents, git.disk, p)

(* _stale_projection_refresh_context: every later commit left them alone.  *)
Refreshable(w) ==
    LET e == PassingEvidence(w)
        intents == Contract(store, w).intents
        head == AttemptHead(CurrentAttempt(store, w))
    IN  /\ claim[w] = <<>>
        /\ Finishable(w) /\ Has(e)
        /\ EvidenceVerified(store, git, The(e))
        /\ git.head # head /\ Descends(git, git.head, head) /\ TrackedClean(git)
        /\ Touched(git, head, git.head) # {}
        /\ Touched(git, head, git.head) \cap DOMAIN intents = {}
        /\ StillAsHashed(intents, The(e))
RefreshPlan(w) ==
    [kind |-> "refresh", work |-> w, base |-> The(CurrentAttempt(store, w)).base, head |-> git.head,
     seen |-> store, touched |-> {},
     hashes |-> ArtifactHashes(Contract(store, w).intents, git.disk)]

(* The work is not complete, and either its changes-requested review is    *)
(* current or its proof no longer describes the repository.                *)
Refresh(w) ==
    /\ plan = <<>>
    /\ journal = "current" /\ ~IsDone(store, w)
    /\ ChangesRequested(w) \/ (Finishable(w) /\ Has(PassingEvidence(w)) /\ ~ProjectionOk(w))
    /\ Refreshable(w)
    /\ plan' = <<RefreshPlan(w)>>
    /\ UNCHANGED <<store, git, journal, baseline, claim, edits>>

(* The attempt a proof at this head belongs to: the complete current one,  *)
(* the one recorded earlier under the same derived id, or a new one.       *)
AttemptIndex(s, p) ==
    LET a == CurrentAttempt(s, p.work)
        same == {i \in DOMAIN s.attempts : s.attempts[i].work = p.work
                                            /\ s.attempts[i].key = <<p.kind, p.head>>}
    IN  IF /\ p.kind = "advance" /\ s.work[p.work].current # 0
           /\ The(a).status \in TerminalAttempt /\ The(a).head = p.head
        THEN The(a).id
        ELSE IF same # {} THEN CHOOSE i \in same : TRUE ELSE Len(s.attempts) + 1

Keyed(records, p) ==
    LET same == {i \in DOMAIN records : records[i].work = p.work /\ records[i].key = <<p.kind, p.head>>}
    IN  IF same # {} THEN CHOOSE i \in same : TRUE ELSE Len(records) + 1

(* A refreshed proof is later than everything on record about the work.    *)
ProofTime(p) ==
    LET earlier == UNION {{r.at : r \in Of(store[k], p.work)} : k \in Collections}
        latest == CHOOSE t \in earlier : \A u \in earlier : u <= t
    IN  IF p.kind = "advance" THEN git.commits[p.head].at
        ELSE Max2(git.commits[p.head].at, latest + 1)

Put(records, i, r) == IF i \in DOMAIN records THEN records ELSE Append(records, r)

(* Attempt, binding, receipt, evidence and closeout in one replacement.    *)
Reconciled(s, p) ==
    LET w == p.work
        i == AttemptIndex(s, p)
        r == Keyed(s.receipts, p)
        e == Keyed(s.evidence, p)
        at == ProofTime(p)
        actor == Contract(s, w).palari
        key == <<p.kind, p.head>>
        closed == [id |-> i, work |-> w, actor |-> actor, status |-> "completed", base |-> p.base,
                   head |-> p.head, clean |-> TRUE, changed |-> p.touched, at |-> at, key |-> key]
    IN  [s EXCEPT !.work[w].current = i,
                  !.attempts = Put(@, i, closed),
                  !.receipts = Put(@, r, [id |-> r, work |-> w, attempt |-> i, actor |-> actor,
                                          outputs |-> DOMAIN p.hashes,
                                          undo |-> IF p.kind = "advance" THEN DOMAIN p.hashes ELSE {},
                                          external |-> FALSE, at |-> at, key |-> key]),
                  !.evidence = Put(@, e, [id |-> e, work |-> w, attempt |-> i, head |-> p.head,
                                          base |-> p.base, receipt |-> r, status |-> "passed",
                                          hashes |-> p.hashes, at |-> at, key |-> key])]

(* Records found under the derived ids must be the ones meant.             *)
ExactResume(s, p) ==
    LET i == AttemptIndex(s, p)
        r == Keyed(s.receipts, p)
        e == Keyed(s.evidence, p)
    IN  /\ i \in DOMAIN s.attempts =>
              s.attempts[i].base = p.base /\ s.attempts[i].actor = Contract(s, p.work).palari
        /\ r \in DOMAIN s.receipts =>
              s.receipts[r].attempt = i /\ s.receipts[r].outputs = DOMAIN p.hashes
        /\ e \in DOMAIN s.evidence =>
              /\ s.evidence[e].attempt = i /\ s.evidence[e].status = "passed"
              /\ DOMAIN s.evidence[e].hashes = DOMAIN p.hashes

(* The plan is computed again and must be the verified one; the workspace  *)
(* and the repository are compared once more before the write.             *)
PlanStands(p) ==
    /\ store = p.seen
    /\ git.head = p.head /\ TrackedClean(git)
    /\ ArtifactHashes(Contract(store, p.work).intents, git.disk) = p.hashes
    /\ IF p.kind = "advance"
       THEN CanAdvance(p.work) /\ AdvancePlan(p.work) = p
       ELSE claim[p.work] = <<>>

(* new is the workspace with the records in it.                            *)
RecordAllowed(p, new) ==
    /\ PlanStands(p)
    /\ Cardinality(Of(new.attempts, p.work)) <= MaxAttempts[p.work]
    /\ ExactResume(store, p)
    /\ EvidenceVerified(new, git, new.evidence[Keyed(store.evidence, p)])

HasProofPlan == Has(plan) /\ The(plan).kind \in {"advance", "refresh"}

RecordPlanned(p, new) ==
    /\ RecordAllowed(p, new)
    /\ Write(new)
    /\ plan' = IF p.kind = "advance" THEN <<[kind |-> "finish", work |-> p.work]>> ELSE <<>>

Record ==
    /\ HasProofPlan
    /\ RecordPlanned(The(plan), Reconciled(store, The(plan)))
    /\ UNCHANGED <<git, baseline, claim, edits>>

(* The agent may die with the plan, or its write may be refused.           *)
Abandon ==
    /\ Has(plan)
    /\ plan' = <<>>
    /\ UNCHANGED <<store, git, journal, baseline, claim, edits>>

-----------------------------------------------------------------------------
(* Completion.                                                             *)

(* _append_projected_acceptance: the acceptance of the latest qualified    *)
(* decision d, with the latest receipt of the work, when its human has none*)
(* on record.                                                              *)
WithAcceptance(s, w, d, at) ==
    [s EXCEPT !.acceptances =
        Append(@, [id |-> Len(@) + 1, work |-> w, human |-> d.human, decision |-> d.id,
                   head |-> d.head, evidence |-> d.evidence, review |-> d.review,
                   receipt |-> The(LatestReceipt(s, w)).id, at |-> at])]

Accepted(s, w, at, completion) ==
    IF \/ completion.alone \/ ~completion.acceptable
       \/ \E x \in Of(s.acceptances, w) : x.human = The(completion.decision).human
    THEN s ELSE WithAcceptance(s, w, The(completion.decision), at)

(* complete_work up to its write, accepted being the workspace with the    *)
(* acceptance in it.                                                       *)
MayComplete(w, accepted) ==
    /\ ~IsTerminal(store, w)
    /\ Valid(accepted, git)
    /\ CompleteAllowed(accepted, git, journal, w, Now)

(* Mutant: the acceptance is written and the status forgotten.             *)
PlanAcceptanceOnly(w, accepted) ==
    /\ MayComplete(w, accepted)
    /\ plan' = <<[kind |-> "complete", work |-> w, seen |-> store, new |-> accepted]>>

PlanCompletion(w, accepted) ==
    /\ MayComplete(w, accepted)
    /\ plan' = <<[kind |-> "complete", work |-> w, seen |-> store,
                  new |-> [accepted EXCEPT !.work[w].status = "completed"]]>>

WithProjected(w) == Accepted(store, w, Now, Completion(store, git, journal, w, Now))

CompleteWork(w) == PlanCompletion(w, WithProjected(w))

(* converge_work_item, whoever asks for it: agent advance, a human decision*)
(* or a simple approval.                                                   *)
Converge(w) ==
    /\ plan = <<>>
    /\ ~Repairing(w) /\ Observation(w) = "ready"
    /\ CompleteWork(w)
    /\ UNCHANGED <<store, git, journal, baseline, claim, edits>>

Complete ==
    /\ Has(plan) /\ The(plan).kind = "complete"
    /\ store = The(plan).seen
    /\ Write(The(plan).new)
    /\ plan' = <<>>
    /\ UNCHANGED <<git, baseline, claim, edits>>

(* With the proof on record the command completes low-risk work itself,    *)
(* under its claim (Release gives it back once the completion is written), *)
(* and gives the claim back for any other.                                 *)
Conclude(w) ==
    /\ Has(claim[w]) /\ PreflightOk(w)
    /\ IF LowRisk([contract |-> Contract(store, w), receipt |-> Current(store, w).receipt])
       THEN CompleteWork(w) /\ UNCHANGED claim
       ELSE plan' = <<>> /\ claim' = [claim EXCEPT ![w] = <<>>]
    /\ UNCHANGED <<store, git, journal, baseline, edits>>

Finish ==
    /\ Has(plan) /\ The(plan).kind = "finish"
    /\ Conclude(The(plan).work)

(* A repeated advance on a proof that still verifies.                      *)
Resume(w) ==
    /\ plan = <<>> /\ journal = "current"
    /\ ~IsDone(store, w) /\ ~Repairing(w) /\ Observation(w) = "waiting"
    /\ Finishable(w) /\ Has(PassingEvidence(w))
    /\ EvidenceVerified(store, git, The(PassingEvidence(w)))
    /\ Conclude(w)

-----------------------------------------------------------------------------
(* Judgement.                                                              *)

Review(w, v, verdict) ==
    /\ Cardinality(Of(store.reviews, w)) < MaxReviews[w]
    /\ ReviewAllowed(store, git, w, v)
    /\ Write([store EXCEPT !.reviews =
                 Append(@, [id |-> Len(@) + 1, work |-> w, reviewer |-> v, verdict |-> verdict,
                            head |-> The(Current(store, w).evidence).head,
                            binding |-> Binding(store, w), at |-> Now])])
    /\ UNCHANGED <<git, baseline, claim, plan, edits>>

(* A decision d about what the human was shown: the latest reviewed proof. *)
Decided(d, w) ==
    [id |-> d.id, work |-> w, human |-> d.human, decision |-> d.decision, mode |-> d.mode,
     head |-> d.head, evidence |-> d.evidence, review |-> d.review, at |-> d.at]

(* Nothing is asked of a refusal.                                          *)
DecideOn(w, c, d) ==
    /\ d.head # 0
    /\ d.decision \in Approvals => ApprovalAllowed(store, w, c, d)
    /\ Write([store EXCEPT !.decisions = Append(@, Decided(d, w))])

(* Mutant: the decision takes the id of the last one.                      *)
DecideUnderLast(w, h, decision, at, c) == DecideOn(w, c, Candidate(c, h, decision, at, Len(store.decisions)))

DecideCase(w, h, decision, at, c) == DecideOn(w, c, Candidate(c, h, decision, at, Len(store.decisions) + 1))

(* A single decision, without completing anything.  create_human_decision  *)
(* is kept as a setup path; the commands for humans decide through packs   *)
(* (ApprovalPacks), after the same transition check.                       *)
Decide(w, h, decision, at) ==
    /\ Cardinality(Of(store.decisions, w)) < MaxDecisions[w]
    /\ DecideCase(w, h, decision, at, CaseNow(store, git, journal, w))
    /\ UNCHANGED <<git, baseline, claim, plan, edits>>

-----------------------------------------------------------------------------
(* Edits of the workspace that no command makes, and the checkpoint that   *)
(* takes them into the journal.  One that breaks the rules stops every     *)
(* command until it is undone, so only the others are of interest.         *)

HandEdit(w, kind, new) ==
    /\ edits[w] < MaxEdits[w] /\ kind \in EditKinds[w] /\ ~IsRetired(store, w)
    /\ Valid(new, git)
    /\ store' = new /\ journal' = "behind" /\ edits' = [edits EXCEPT ![w] = @ + 1]
    /\ UNCHANGED <<git, baseline, claim, plan>>

EditContract(w) == HandEdit(w, "contract", [store EXCEPT !.work[w].contract.rev = @ + 1])

RaiseRisk(w) ==
    /\ Contract(store, w).risk # "R3"
    /\ HandEdit(w, "risk", [store EXCEPT !.work[w].contract.risk = "R3"])

Depend(w, d) ==
    /\ d \notin Contract(store, w).deps
    /\ HandEdit(w, "depend", [store EXCEPT !.work[w].contract.deps = @ \cup {d}])

Leave(w, h) ==
    /\ h \notin store.inactive
    /\ HandEdit(w, "leave", [store EXCEPT !.inactive = @ \cup {h}])

Retire(w, successor) ==
    /\ ~IsTerminal(store, w)
    /\ HandEdit(w, "retire", [store EXCEPT !.work[w].status = "superseded", !.work[w].successor = successor])

Checkpoint ==
    /\ journal = "behind"
    /\ journal' = "current"
    /\ UNCHANGED <<store, git, baseline, claim, plan, edits>>

-----------------------------------------------------------------------------
Repository ==
    \/ \E p \in Path : \E b \in Byte[p] : Edit(p, b)
    \/ Commit
    \/ \E c \in DOMAIN git.commits : Checkout(c)

Agent ==
    \/ \E w \in Work : Start(w) \/ Release(w) \/ Advance(w) \/ Refresh(w) \/ Resume(w) \/ Converge(w)
    \/ Record \/ Finish \/ Complete \/ Abandon

Judges ==
    \/ \E w \in Work, v \in Human \cup Palari, verdict \in Verdicts :
          Review(w, v, verdict)
    \/ \E w \in Work, h \in Human, decision \in Choices, at \in {Last, Now} :
          Decide(w, h, decision, at)

Hand ==
    \/ \E w \in Work : EditContract(w) \/ RaiseRisk(w)
    \/ \E w, d \in Work : Depend(w, d)
    \/ \E w \in Work, h \in Human : Leave(w, h)
    \/ \E w \in Work, v \in SUBSET Work : Cardinality(v) <= 1 /\ Retire(w, v)
    \/ Checkpoint

Next == Repository \/ Agent \/ Judges \/ Hand

Spec == Init /\ [][Next]_vars

-----------------------------------------------------------------------------
(* Type invariant: ids are places in their collection, and every reference *)
(* of a record is to an earlier record about the same work item.           *)
LifecycleTypeOK ==
    /\ journal \in {"current", "behind", "pending"} /\ edits \in [Work -> Nat] /\ \A w \in Work : edits[w] <= MaxEdits[w]
    /\ git.head \in DOMAIN git.commits /\ DOMAIN git.disk = Path
    /\ \A k \in Collections : \A i \in DOMAIN store[k] : store[k][i].id = i /\ store[k][i].work \in Work
    /\ \A r \in UNION {Of(store.receipts, w) \cup Of(store.evidence, w) : w \in Work} :
          r.attempt \in DOMAIN store.attempts /\ store.attempts[r.attempt].work = r.work
    /\ \A w \in Work : /\ store.work[w].current \in {0} \cup DOMAIN store.attempts
                        /\ \A r \in Of(store.reviews, w) : r.binding.evidence \in DOMAIN store.evidence
                        /\ \A d \in Of(store.decisions, w) : /\ d.evidence \in {0} \cup DOMAIN store.evidence
                                                             /\ d.review \in {0} \cup DOMAIN store.reviews

(* What a reader of the records alone would count: the approvals of the    *)
(* exact current proof that their humans have not taken back since.        *)
StandingApprovals(w) ==
    {d \in Of(store.decisions, w) :
        /\ d.decision \in Approvals /\ d.human \in Approver
        /\ d.head = The(CurrentAttempt(store, w)).head
        /\ d.evidence = The(Current(store, w).evidence).id
        /\ ~\E x \in Of(store.decisions, w) : x.human = d.human /\ x.head = d.head /\ Later(x, d)}

(* Work with any risk is completed only by the standing approvals of enough*)
(* different people, and stays backed by them; where review is required    *)
(* they all rest on one accepting review of the same proof and of the very *)
(* contract the work still has, by someone else than they and the builder  *)
(* (_quorum_property, _acceptance_property, validate_workspace_contract).  *)
CompletedByQuorum ==
    \A w \in Work :
       IsDone(store, w) /\ ~LowRisk([contract |-> Contract(store, w), receipt |-> Current(store, w).receipt])
       => LET approvals == StandingApprovals(w)
              needed == Max2(1, Contract(store, w).count)
          IN  /\ Cardinality({d.human : d \in approvals}) >= needed
              /\ ContractNeedsReview(store, w) =>
                    \E r \in Of(store.reviews, w) :
                       /\ r.verdict = "accept-ready"
                       /\ r.binding.contract = Contract(store, w)
                       /\ r.binding.evidence = The(Current(store, w).evidence).id
                       /\ r.reviewer # The(CurrentAttempt(store, w)).actor
                       /\ Cardinality({d.human : d \in {x \in approvals :
                              x.review = r.id /\ x.at >= r.at /\ x.human # r.reviewer}}) >= needed

(* Completed work has a finished attempt whose head holds, byte for byte,  *)
(* what its evidence hashed, and from its base to its head every path went *)
(* the way the contract intends (reconcile_agent_proof, verify_evidence).  *)
CompletedOnProof ==
    \A w \in Work :
       IsDone(store, w) =>
          LET k == Current(store, w)
              before == Tree(git, The(k.attempt).base)
              after == Tree(git, The(k.attempt).head)
          IN  /\ Has(k.attempt) /\ Has(k.evidence) /\ The(k.attempt).clean
              /\ The(k.evidence).head = The(k.attempt).head
              /\ \A p \in Outputs(store, w) :
                    /\ The(k.evidence).hashes[p].digest = after[p]
                    /\ before[p] # after[p]
                    /\ (Contract(store, w).intents[p] = "create") = (before[p] = 0)
                    /\ (Contract(store, w).intents[p] = "delete") = (after[p] = 0)

(* A proof recorded under a claim covers a range of commits none of which  *)
(* touches a path outside the contract, not even to undo it later          *)
(* (agent_advance._preflight).                                             *)
AttemptsStayInBounds ==
    \A i \in DOMAIN store.attempts :
       LET a == store.attempts[i]
       IN  a.key[1] = "advance" => Touched(git, a.base, a.head) \subseteq Outputs(store, a.work)

(* An acceptance appears only with the completion of its work, once for    *)
(* each human, and says no more than a decision that human took before     *)
(* (_append_projected_acceptance_for_completion).                          *)
AcceptancesRest ==
    \A w \in Work :
       /\ Of(store.acceptances, w) # {} => IsDone(store, w)
       /\ \A x \in Of(store.acceptances, w) :
             /\ \A y \in Of(store.acceptances, w) : y.human = x.human => y = x
             /\ LET d == store.decisions[x.decision]
                IN  /\ <<d.human, d.head, d.evidence, d.review>> = <<x.human, x.head, x.evidence, x.review>>
                    /\ d.decision \in Approvals /\ d.at <= x.at

(* When convergence reports that current exact proof and qualified human   *)
(* authority allow completion, the completion it then asks for is allowed. *)
ReadyMeansCompletable ==
    \A w \in Work :
       plan = <<>> /\ ~Repairing(w) /\ Observation(w) = "ready" => MayComplete(w, WithProjected(w))

(* A completion, by convergence or by a pack, is planned only while the    *)
(* files on the disk are the ones the current attempt committed and the    *)
(* history still replays (verify_proof_projection, _evidence_property).    *)
CompletionSeesTheWork ==
    [][Has(plan') /\ plan' # plan /\ The(plan').kind \in {"complete", "pack"} =>
          \A w \in Work :
             IsDone(The(plan').new, w) /\ ~IsDone(store, w) =>
                LET head == The(CurrentAttempt(store, w)).head
                IN  /\ journal = "current"
                    /\ \A p \in Outputs(store, w) : git.disk[p] = Tree(git, head)[p]]_vars
=============================================================================
