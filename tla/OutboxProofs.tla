----------------------------- MODULE OutboxProofs -----------------------------
(***************************************************************************)
(* Plans, outbox and Linear adapter, for every number of humans, senders,  *)
(* readers, handlers, plans and issues, whatever the bounds.               *)
(***************************************************************************)
EXTENDS LinearDelivery, SequenceTheorems, FiniteSetTheorems, NaturalsInduction, WellFoundedInduction,
        TLAPS

(* The records of a workspace, calls and events.                           *)
WorkType == [status : {"active", "in-review"}, title : Nat, needs : {"none", "deploy"},
             ref : Nat, at : Nat, issue : Nat]

ProposalType ==
    [issue : Nat, status : {"proposed", "adopted"}, title : Nat, at : Nat, work : Nat]

PlanType == [work : Nat, action : Actions, payload : Payload,
             status : {"pending-approval"} \cup Decisions, by : Human \cup {Nobody}]

ItemType == [plan : Nat, payload : Payload, status : {"queued", "sent", "failed", "canceled"},
             by : Human, ender : Human \cup {Nobody}]

CallType == [item : Nat, payload : Payload, issue : Nat,
             outcome : {"open", "recorded", "failed", "lost"}]

EventType == [issue : Nat \ {0}, at : Nat, title : Nat, gone : BOOLEAN]

(* The references of a workspace lead somewhere.                           *)
Refers(s) ==
    /\ \A k \in DOMAIN s.plans : s.plans[k].work \in DOMAIN s.work
    /\ \A i \in DOMAIN s.items : s.items[i].plan \in DOMAIN s.plans

(* What every command keeps of a workspace, whatever it changes.           *)
Sound(s) == s \in WorkspaceTypes /\ Refers(s)

-----------------------------------------------------------------------------
(* Sequences *)

(* One element is replaced.                                                *)
LEMMA Changed ==
    ASSUME NEW T, NEW q \in Seq(T), NEW i \in DOMAIN q, NEW e \in T
    PROVE  /\ [q EXCEPT ![i] = e] \in Seq(T)
           /\ DOMAIN [q EXCEPT ![i] = e] = DOMAIN q
           /\ [q EXCEPT ![i] = e][i] = e
           /\ \A k \in DOMAIN q : k # i => [q EXCEPT ![i] = e][k] = q[k]
  BY ExceptSeq, LenProperties

(* One element is added.                                                   *)
LEMMA Added ==
    ASSUME NEW T, NEW q \in Seq(T), NEW e \in T
    PROVE  /\ Append(q, e) \in Seq(T)
           /\ Len(q) + 1 \notin DOMAIN q
           /\ DOMAIN Append(q, e) = DOMAIN q \cup {Len(q) + 1}
           /\ Append(q, e)[Len(q) + 1] = e
           /\ \A k \in DOMAIN q : Append(q, e)[k] = q[k]
  <1>1. Len(q) \in Nat /\ DOMAIN q = 1..Len(q)
    BY LenProperties
  <1>2. /\ Append(q, e) \in Seq(T) /\ Len(Append(q, e)) = Len(q) + 1
        /\ \A k \in 1..Len(q) : Append(q, e)[k] = q[k]
        /\ Append(q, e)[Len(q) + 1] = e
    BY AppendProperties
  <1>3. DOMAIN Append(q, e) = 1..(Len(q) + 1)
    BY <1>2, LenProperties
  <1>4. 1..(Len(q) + 1) = 1..Len(q) \cup {Len(q) + 1} /\ Len(q) + 1 \notin 1..Len(q)
    BY <1>1
  <1> QED
    BY <1>1, <1>2, <1>3, <1>4

(* Each element is replaced.                                               *)
LEMMA Mapped ==
    ASSUME NEW T, NEW q \in Seq(T), NEW f, f \in [DOMAIN q -> T]
    PROVE  f \in Seq(T) /\ DOMAIN f = DOMAIN q
  <1>1. Len(q) \in Nat /\ DOMAIN q = 1..Len(q)
    BY LenProperties
  <1> QED
    BY <1>1, SeqDef

(* What a sequence contains.                                               *)
LEMMA Contained ==
    ASSUME NEW T, NEW q \in Seq(T)
    PROVE  /\ \A k \in DOMAIN q : q[k] \in T
           /\ DOMAIN q \subseteq Nat \ {0}
           /\ Len(q) \in Nat /\ DOMAIN q = 1..Len(q)
  <1>1. Len(q) \in Nat /\ DOMAIN q = 1..Len(q) /\ q \in [1..Len(q) -> T]
    BY LenProperties
  <1> QED
    BY <1>1

-----------------------------------------------------------------------------
(* Workspaces *)

LEMMA TypesAre ==
    WorkspaceTypes = [work : Seq(WorkType), proposals : Seq(ProposalType), actions : SUBSET Actions,
                      plans : Seq(PlanType), items : Seq(ItemType)]
  BY DEF WorkspaceTypes, WorkType, ProposalType, PlanType, ItemType

(* The parts of a workspace.                                               *)
LEMMA Parts ==
    ASSUME NEW s \in WorkspaceTypes
    PROVE  /\ s.work \in Seq(WorkType) /\ s.proposals \in Seq(ProposalType)
           /\ s.actions \in SUBSET Actions
           /\ s.plans \in Seq(PlanType) /\ s.items \in Seq(ItemType)
  BY TypesAre

(* One part of a workspace is replaced.                                    *)
SetWork(s, x) == [s EXCEPT !.work = x]
SetProposals(s, x) == [s EXCEPT !.proposals = x]
SetActions(s, x) == [s EXCEPT !.actions = x]
SetPlans(s, x) == [s EXCEPT !.plans = x]
SetItems(s, x) == [s EXCEPT !.items = x]

(* The records of work are replaced.                                       *)
LEMMA WorkPart ==
    ASSUME NEW s \in WorkspaceTypes, NEW x \in Seq(WorkType), NEW t, t = SetWork(s, x)
    PROVE  /\ t \in WorkspaceTypes
           /\ t.work = x /\ t.proposals = s.proposals /\ t.actions = s.actions
           /\ t.plans = s.plans /\ t.items = s.items
  BY TypesAre DEF SetWork, SetProposals, SetActions, SetPlans, SetItems

(* The proposals are replaced.                                             *)
LEMMA ProposalsPart ==
    ASSUME NEW s \in WorkspaceTypes, NEW x \in Seq(ProposalType), NEW t, t = SetProposals(s, x)
    PROVE  /\ t \in WorkspaceTypes
           /\ t.work = s.work /\ t.proposals = x /\ t.actions = s.actions
           /\ t.plans = s.plans /\ t.items = s.items
  BY TypesAre DEF SetWork, SetProposals, SetActions, SetPlans, SetItems

(* The integration is replaced.                                            *)
LEMMA ActionsPart ==
    ASSUME NEW s \in WorkspaceTypes, NEW x \in SUBSET Actions, NEW t, t = SetActions(s, x)
    PROVE  /\ t \in WorkspaceTypes
           /\ t.work = s.work /\ t.proposals = s.proposals /\ t.actions = x
           /\ t.plans = s.plans /\ t.items = s.items
  BY TypesAre DEF SetWork, SetProposals, SetActions, SetPlans, SetItems

(* The plans are replaced.                                                 *)
LEMMA PlansPart ==
    ASSUME NEW s \in WorkspaceTypes, NEW x \in Seq(PlanType), NEW t, t = SetPlans(s, x)
    PROVE  /\ t \in WorkspaceTypes
           /\ t.work = s.work /\ t.proposals = s.proposals /\ t.actions = s.actions
           /\ t.plans = x /\ t.items = s.items
  BY TypesAre DEF SetWork, SetProposals, SetActions, SetPlans, SetItems

(* The outbox is replaced.                                                 *)
LEMMA ItemsPart ==
    ASSUME NEW s \in WorkspaceTypes, NEW x \in Seq(ItemType), NEW t, t = SetItems(s, x)
    PROVE  /\ t \in WorkspaceTypes
           /\ t.work = s.work /\ t.proposals = s.proposals /\ t.actions = s.actions
           /\ t.plans = s.plans /\ t.items = x
  BY TypesAre DEF SetWork, SetProposals, SetActions, SetPlans, SetItems

(* A workspace stays sound if no record goes and what is new refers to     *)
(* something.                                                              *)
LEMMA StaysSound ==
    ASSUME NEW s, Sound(s), NEW t \in WorkspaceTypes,
           DOMAIN s.work \subseteq DOMAIN t.work,
           DOMAIN s.plans \subseteq DOMAIN t.plans,
           \A k \in DOMAIN t.plans :
              \/ k \in DOMAIN s.plans /\ t.plans[k].work = s.plans[k].work
              \/ t.plans[k].work \in DOMAIN t.work,
           \A i \in DOMAIN t.items :
              \/ i \in DOMAIN s.items /\ t.items[i].plan = s.items[i].plan
              \/ t.items[i].plan \in DOMAIN t.plans
    PROVE  Sound(t)
  BY DEF Sound, Refers

(* A plan is added, and waits for a decision.                              *)
PlanAsked(s, t) ==
    \E r \in PlanType : /\ t.plans = Append(s.plans, r)
                        /\ r.work \in DOMAIN s.work /\ r.status = "pending-approval"

(* Plan k gets another status, and stays what it is about.                 *)
PlanGiven(s, t, k, d) ==
    \E r \in PlanType : /\ t.plans = [s.plans EXCEPT ![k] = r]
                        /\ r.work = s.plans[k].work /\ r.status = d

(* A record of work is replaced by one of the same name that is linked to x*)
WorkRelinked(s, t, w, x) ==
    \E r \in WorkType : /\ t.work = [s.work EXCEPT ![w] = r]
                        /\ r.ref = x /\ r.issue = s.work[w].issue

(* A plan is added.                                                        *)
LEMMA PlanAdded ==
    ASSUME NEW s, Sound(s), NEW w \in DOMAIN s.work, NEW a \in Actions, NEW x \in Payload,
           NEW t, t = WithPlan(s, w, a, x)
    PROVE  /\ Sound(t) /\ t.items = s.items
           /\ t.work = s.work /\ t.proposals = s.proposals
           /\ PlanAsked(s, t)
  <1> DEFINE r == [work |-> w, action |-> a, payload |-> x,
                   status |-> "pending-approval", by |-> Nobody]
             q == Append(s.plans, r)
  <1>1. s \in WorkspaceTypes /\ s.plans \in Seq(PlanType) /\ w \in Nat
    BY Parts, Contained DEF Sound
  <1>2. r \in PlanType /\ r.work = w /\ r.status = "pending-approval"
    BY <1>1 DEF PlanType
  <1>3. t = SetPlans(s, q)
    BY DEF WithPlan, SetPlans
  <1> HIDE DEF r
  <1>4. /\ q \in Seq(PlanType) /\ DOMAIN s.plans \subseteq DOMAIN q
        /\ \A k \in DOMAIN q : (k \in DOMAIN s.plans /\ q[k] = s.plans[k]) \/ q[k].work = w
    BY <1>1, <1>2, Added
  <1>6. q = Append(s.plans, r)
    OBVIOUS
  <1> HIDE DEF q
  <1>5. /\ t \in WorkspaceTypes /\ t.plans = q /\ t.items = s.items
        /\ t.work = s.work /\ t.proposals = s.proposals
    BY <1>1, <1>3, <1>4, PlansPart
  <1>7. Sound(t)
    BY <1>4, <1>5, StaysSound
  <1> QED
    BY <1>2, <1>5, <1>6, <1>7 DEF PlanAsked

(* The integration is widened.                                             *)
LEMMA ActionsAdded ==
    ASSUME NEW s, Sound(s), NEW x \in SUBSET Actions, NEW t, t = SetActions(s, x)
    PROVE  /\ Sound(t) /\ t.items = s.items
           /\ t.work = s.work /\ t.proposals = s.proposals /\ t.plans = s.plans
  <1>1. /\ t \in WorkspaceTypes /\ t.plans = s.plans /\ t.items = s.items
        /\ t.work = s.work /\ t.proposals = s.proposals
    BY ActionsPart DEF Sound
  <1> QED
    BY <1>1, StaysSound

(* A plan is replaced.                                                     *)
LEMMA PlanPut ==
    ASSUME NEW s, Sound(s), NEW k \in DOMAIN s.plans, NEW r \in PlanType,
           r.work = s.plans[k].work, NEW t, t = SetPlans(s, [s.plans EXCEPT ![k] = r])
    PROVE  /\ Sound(t) /\ t.items = s.items
           /\ t.work = s.work /\ t.proposals = s.proposals
           /\ t.plans = [s.plans EXCEPT ![k] = r]
  <1> DEFINE q == [s.plans EXCEPT ![k] = r]
  <1>1. s \in WorkspaceTypes /\ s.plans \in Seq(PlanType)
    BY Parts DEF Sound
  <1>2. t = SetPlans(s, q) /\ q = [s.plans EXCEPT ![k] = r]
    OBVIOUS
  <1>3. /\ q \in Seq(PlanType) /\ DOMAIN q = DOMAIN s.plans
        /\ \A l \in DOMAIN q : q[l].work = s.plans[l].work
    BY <1>1, Changed
  <1> HIDE DEF q
  <1>4. /\ t \in WorkspaceTypes /\ t.plans = q /\ t.items = s.items
        /\ t.work = s.work /\ t.proposals = s.proposals
    BY <1>1, <1>2, <1>3, PlansPart
  <1>5. Sound(t)
    BY <1>3, <1>4, StaysSound
  <1> QED
    BY <1>2, <1>4, <1>5

(* A plan is decided.                                                      *)
Decided(s, k, d, h) == [s EXCEPT !.plans[k] = [@ EXCEPT !.status = d, !.by = h]]

LEMMA PlanDecided ==
    ASSUME NEW s, Sound(s), NEW k \in DOMAIN s.plans, NEW d \in Decisions, NEW h \in Human,
           NEW t, t = Decided(s, k, d, h)
    PROVE  /\ Sound(t) /\ t.items = s.items
           /\ t.work = s.work /\ t.proposals = s.proposals
           /\ PlanGiven(s, t, k, d)
  <1>1. s.plans[k] \in PlanType
    BY Parts, Contained DEF Sound
  <1>2. PICK r : r = [s.plans[k] EXCEPT !.status = d, !.by = h]
    OBVIOUS
  <1>3. r \in PlanType /\ r.work = s.plans[k].work /\ r.status = d
    BY <1>1, <1>2 DEF PlanType
  <1>4. t = SetPlans(s, [s.plans EXCEPT ![k] = r])
    BY <1>2 DEF Decided, SetPlans
  <1>5. /\ Sound(t) /\ t.items = s.items /\ t.work = s.work /\ t.proposals = s.proposals
        /\ t.plans = [s.plans EXCEPT ![k] = r]
    BY <1>3, <1>4, PlanPut
  <1> QED
    BY <1>3, <1>5 DEF PlanGiven

(* An item is queued.                                                      *)
LEMMA ItemAdded ==
    ASSUME NEW s, Sound(s), NEW k \in DOMAIN s.plans, NEW h \in Human,
           NEW r, r = [plan |-> k, payload |-> s.plans[k].payload, status |-> "queued",
                       by |-> h, ender |-> Nobody],
           NEW t, t = SetItems(s, Append(s.items, r))
    PROVE  /\ Sound(t) /\ r \in ItemType
           /\ t.items = Append(s.items, r)
           /\ t.work = s.work /\ t.proposals = s.proposals /\ t.plans = s.plans
  <1> DEFINE q == Append(s.items, r)
  <1>1. /\ s \in WorkspaceTypes /\ s.items \in Seq(ItemType) /\ k \in Nat
        /\ s.plans[k] \in PlanType
    BY Parts, Contained DEF Sound
  <1>2. r \in ItemType /\ r.plan = k
    BY <1>1 DEF ItemType, PlanType
  <1>3. t = SetItems(s, q)
    OBVIOUS
  <1>4. /\ q \in Seq(ItemType)
        /\ \A i \in DOMAIN q : (i \in DOMAIN s.items /\ q[i] = s.items[i]) \/ q[i].plan = k
    BY <1>1, <1>2, Added
  <1>5. q = Append(s.items, r)
    OBVIOUS
  <1> HIDE DEF q
  <1>6. /\ t \in WorkspaceTypes /\ t.plans = s.plans /\ t.items = q
        /\ t.work = s.work /\ t.proposals = s.proposals
    BY <1>1, <1>3, <1>4, ItemsPart
  <1>7. Sound(t)
    BY <1>4, <1>6, StaysSound
  <1> QED
    BY <1>2, <1>5, <1>6, <1>7

(* An item is replaced.                                                    *)
LEMMA ItemPut ==
    ASSUME NEW s, Sound(s), NEW i \in DOMAIN s.items, NEW r \in ItemType,
           r.plan = s.items[i].plan, NEW t, t = SetItems(s, [s.items EXCEPT ![i] = r])
    PROVE  /\ Sound(t) /\ t.items = [s.items EXCEPT ![i] = r]
           /\ t.work = s.work /\ t.proposals = s.proposals /\ t.plans = s.plans
  <1> DEFINE q == [s.items EXCEPT ![i] = r]
  <1>1. s \in WorkspaceTypes /\ s.items \in Seq(ItemType)
    BY Parts DEF Sound
  <1>2. t = SetItems(s, q) /\ q = [s.items EXCEPT ![i] = r]
    OBVIOUS
  <1>3. /\ q \in Seq(ItemType) /\ DOMAIN q = DOMAIN s.items
        /\ \A l \in DOMAIN q : q[l].plan = s.items[l].plan
    BY <1>1, Changed
  <1> HIDE DEF q
  <1>4. /\ t \in WorkspaceTypes /\ t.plans = s.plans /\ t.items = q
        /\ t.work = s.work /\ t.proposals = s.proposals
    BY <1>1, <1>2, <1>3, ItemsPart
  <1>5. Sound(t)
    BY <1>3, <1>4, StaysSound
  <1> QED
    BY <1>2, <1>4, <1>5

(* Records of work change, or are added, without a reference being lost.   *)
LEMMA WorkSet ==
    ASSUME NEW s, Sound(s), NEW x \in Seq(WorkType), DOMAIN s.work \subseteq DOMAIN x,
           NEW t, t = SetWork(s, x)
    PROVE  /\ Sound(t) /\ t.items = s.items
           /\ t.work = x /\ t.proposals = s.proposals /\ t.plans = s.plans
  <1>1. /\ t \in WorkspaceTypes /\ t.plans = s.plans /\ t.items = s.items
        /\ t.work = x /\ t.proposals = s.proposals
    BY WorkPart DEF Sound
  <1> QED
    BY <1>1, StaysSound

(* Proposals change.                                                       *)
LEMMA ProposalsSet ==
    ASSUME NEW s, Sound(s), NEW x \in Seq(ProposalType), NEW t, t = SetProposals(s, x)
    PROVE  /\ Sound(t) /\ t.items = s.items
           /\ t.work = s.work /\ t.proposals = x /\ t.plans = s.plans
  <1>1. /\ t \in WorkspaceTypes /\ t.plans = s.plans /\ t.items = s.items
        /\ t.work = s.work /\ t.proposals = x
    BY ProposalsPart DEF Sound
  <1> QED
    BY <1>1, StaysSound

(* A record of work is replaced.                                           *)
LEMMA WorkPut ==
    ASSUME NEW s, Sound(s), NEW w \in DOMAIN s.work, NEW r \in WorkType,
           NEW t, t = SetWork(s, [s.work EXCEPT ![w] = r])
    PROVE  /\ Sound(t) /\ t.items = s.items
           /\ t.work = [s.work EXCEPT ![w] = r] /\ t.proposals = s.proposals
           /\ t.plans = s.plans
  <1> DEFINE q == [s.work EXCEPT ![w] = r]
  <1>1. s \in WorkspaceTypes /\ s.work \in Seq(WorkType)
    BY Parts DEF Sound
  <1>2. q \in Seq(WorkType) /\ DOMAIN q = DOMAIN s.work
    BY <1>1, Changed
  <1>3. t = SetWork(s, q) /\ q = [s.work EXCEPT ![w] = r]
    OBVIOUS
  <1> HIDE DEF q
  <1> QED
    BY <1>2, <1>3, WorkSet

(* A proposal is replaced.                                                 *)
LEMMA ProposalPut ==
    ASSUME NEW s, Sound(s), NEW k \in DOMAIN s.proposals, NEW r \in ProposalType,
           NEW t, t = SetProposals(s, [s.proposals EXCEPT ![k] = r])
    PROVE  /\ Sound(t) /\ t.items = s.items
           /\ t.work = s.work /\ t.proposals = [s.proposals EXCEPT ![k] = r]
           /\ t.plans = s.plans
  <1> DEFINE q == [s.proposals EXCEPT ![k] = r]
  <1>1. s \in WorkspaceTypes /\ s.proposals \in Seq(ProposalType)
    BY Parts DEF Sound
  <1>2. q \in Seq(ProposalType)
    BY <1>1, Changed
  <1>3. t = SetProposals(s, q) /\ q = [s.proposals EXCEPT ![k] = r]
    OBVIOUS
  <1> HIDE DEF q
  <1> QED
    BY <1>2, <1>3, ProposalsSet

-----------------------------------------------------------------------------
(* Whose issue a work item is linked to *)

(* The proposal of issue x was adopted as w.                               *)
Adoption(s, x, w) == \E k \in ProposalsFor(s, x) : s.proposals[k].work = w

(* The work and the issue of each recorded creation among calls K.         *)
Made(s, K) ==
    {<<WorkOf(s, K[c].item), K[c].issue>> :
        c \in {d \in DOMAIN K : K[d].outcome = "recorded" /\ K[d].payload.kind = "create_issue"}}

(* Work w may be linked to issue x, if what was created is M.              *)
LinkOwned(s, M, w, x) == x # 0 => Adoption(s, x, w) \/ <<w, x>> \in M

(* LinksAreOwn, that work named after an issue adopted its proposal, and   *)
(* that an open proposal is nobody's work.                                 *)
Owned(s, M) ==
    /\ \A w \in DOMAIN s.work :
          /\ LinkOwned(s, M, w, s.work[w].ref)
          /\ s.work[w].issue # 0 => Adoption(s, s.work[w].issue, w)
    /\ \A k \in DOMAIN s.proposals : s.proposals[k].status = "proposed" => s.proposals[k].work = 0

(* No proposal goes, and none that was adopted is adopted as something     *)
(* else.                                                                   *)
AdoptionsKept(s, t) ==
    \A k \in DOMAIN s.proposals :
       /\ k \in DOMAIN t.proposals /\ t.proposals[k].issue = s.proposals[k].issue
       /\ s.proposals[k].work # 0 => t.proposals[k].work = s.proposals[k].work

OpenUnused(s) ==
    \A k \in DOMAIN s.proposals : s.proposals[k].status = "proposed" => s.proposals[k].work = 0

LEMMA AdoptionKept ==
    ASSUME NEW s, NEW t, AdoptionsKept(s, t), NEW x, NEW w, w # 0, Adoption(s, x, w)
    PROVE  Adoption(t, x, w)
  BY DEF AdoptionsKept, Adoption, ProposalsFor

(* Every link stays owned, whatever was created.                           *)
OwnedStill(s, t) == \A M : Owned(s, M) => Owned(t, M)

LEMMA OwnedByMore ==
    ASSUME NEW s, NEW M, NEW N, Owned(s, M), M \subseteq N
    PROVE  Owned(s, N)
  BY DEF Owned, LinkOwned

(* A write that keeps what was adopted, and links nothing but by adoption  *)
(* or creation.                                                            *)
LEMMA StaysOwned ==
    ASSUME NEW s, Sound(s), NEW M, Owned(s, M), NEW t, AdoptionsKept(s, t), OpenUnused(t),
           \A w \in DOMAIN t.work :
              \/ /\ w \in DOMAIN s.work /\ t.work[w].issue = s.work[w].issue
                 /\ t.work[w].ref = s.work[w].ref \/ LinkOwned(t, M, w, t.work[w].ref)
              \/ /\ Adoption(t, t.work[w].ref, w)
                 /\ t.work[w].issue \in {0, t.work[w].ref}
    PROVE  Owned(t, M)
  <1>1. ASSUME NEW w \in DOMAIN s.work
        PROVE  /\ LinkOwned(t, M, w, s.work[w].ref)
               /\ s.work[w].issue # 0 => Adoption(t, s.work[w].issue, w)
    <2>1. w # 0
      BY Parts, Contained DEF Sound
    <2>2. /\ LinkOwned(s, M, w, s.work[w].ref)
          /\ s.work[w].issue # 0 => Adoption(s, s.work[w].issue, w)
      BY DEF Owned
    <2> QED
      BY <2>1, <2>2, AdoptionKept DEF LinkOwned
  <1>2. ASSUME NEW w \in DOMAIN t.work
        PROVE  /\ LinkOwned(t, M, w, t.work[w].ref)
               /\ t.work[w].issue # 0 => Adoption(t, t.work[w].issue, w)
    <2>1. CASE /\ Adoption(t, t.work[w].ref, w)
               /\ t.work[w].issue \in {0, t.work[w].ref}
      BY <2>1 DEF LinkOwned
    <2>2. CASE /\ w \in DOMAIN s.work /\ t.work[w].issue = s.work[w].issue
               /\ t.work[w].ref = s.work[w].ref \/ LinkOwned(t, M, w, t.work[w].ref)
      BY <1>1, <2>2
    <2> QED
      BY <2>1, <2>2
  <1> QED
    BY <1>2 DEF Owned, OpenUnused

(* A write that leaves plans and outbox alone.                             *)
Carried(s, t) ==
    Sound(t) /\ t.items = s.items /\ t.plans = s.plans /\ OwnedStill(s, t)

LEMMA SameAdoptions ==
    ASSUME NEW s, NEW t, t.proposals = s.proposals
    PROVE  AdoptionsKept(s, t) /\ \A M : Owned(s, M) => OpenUnused(t)
  BY DEF AdoptionsKept, OpenUnused, Owned

(* A record of work is linked to what it may be linked to.                 *)
LEMMA RelinkedOwned ==
    ASSUME NEW s, Sound(s), NEW t, t.proposals = s.proposals, NEW w \in DOMAIN s.work, NEW x,
           WorkRelinked(s, t, w, x), NEW M, Owned(s, M), LinkOwned(s, M, w, x)
    PROVE  Owned(t, M)
  <1>1. PICK r \in WorkType : /\ t.work = [s.work EXCEPT ![w] = r]
                              /\ r.ref = x /\ r.issue = s.work[w].issue
    BY DEF WorkRelinked
  <1>2. s.work \in Seq(WorkType)
    BY Parts DEF Sound
  <1>3. PICK q : q = [s.work EXCEPT ![w] = r]
    OBVIOUS
  <1>4. DOMAIN q = DOMAIN s.work /\ q[w] = r /\ \A v \in DOMAIN s.work : v # w => q[v] = s.work[v]
    BY <1>2, <1>3, Changed
  <1>5. t.work = q
    BY <1>1, <1>3
  <1>6. LinkOwned(t, M, w, x)
    BY DEF LinkOwned, Adoption, ProposalsFor
  <1>7. ASSUME NEW v \in DOMAIN t.work
        PROVE  /\ v \in DOMAIN s.work /\ t.work[v].issue = s.work[v].issue
               /\ t.work[v].ref = s.work[v].ref \/ LinkOwned(t, M, v, t.work[v].ref)
    <2>1. CASE v = w
      BY <1>1, <1>4, <1>5, <1>6, <2>1
    <2>2. CASE v # w
      BY <1>4, <1>5, <2>2
    <2> QED
      BY <2>1, <2>2
  <1>8. AdoptionsKept(s, t) /\ OpenUnused(t)
    BY SameAdoptions
  <1> QED
    BY <1>7, <1>8, StaysOwned

LEMMA RelinkedCarried ==
    ASSUME NEW s, Sound(s), NEW t, Sound(t), t.items = s.items, t.plans = s.plans,
           t.proposals = s.proposals, NEW w \in DOMAIN s.work, NEW x, WorkRelinked(s, t, w, x),
           \A M : Owned(s, M) => LinkOwned(s, M, w, x)
    PROVE  Carried(s, t)
  BY RelinkedOwned DEF Carried, OwnedStill

-----------------------------------------------------------------------------
(* Work and proposals *)

(* What is read from Linear about an issue.                                *)
News(e) == e.issue \in Nat \ {0} /\ e.at \in Nat /\ e.title \in Nat

(* The least of a set of positions is one of them.                         *)
LEMMA FirstIsIn ==
    ASSUME NEW S \in SUBSET Nat, S # {}
    PROVE  FirstOf(S) \in S
  <1> DEFINE Less == {ss \in Nat \X Nat : ss[1] < ss[2]}
  <1>1. PICK k \in S : \A l \in S : ~(<<l, k>> \in Less)
    <2>1. IsWellFoundedOn(Less, Nat)
      BY NatLessThanWellFounded DEF OpToRel
    <2> HIDE DEF Less
    <2> QED
      BY <2>1, WFMin
  <1>2. \A l \in S : k <= l
    <2> SUFFICES ASSUME NEW l \in S PROVE k <= l
      OBVIOUS
    <2>1. k \in Nat /\ l \in Nat /\ ~(l < k)
      BY <1>1
    <2> QED
      BY <2>1
  <1> QED
    BY <1>2 DEF FirstOf

(* The work item goes on.                                                  *)
LEMMA ProgressSound ==
    ASSUME Sound(ws), NEW w \in DOMAIN ws.work, Progress(w)
    PROVE  /\ Sound(ws)' /\ ws'.items = ws.items
           /\ ws'.plans = ws.plans /\ ws'.proposals = ws.proposals
           /\ WorkRelinked(ws, ws', w, ws.work[w].ref)
  <1>1. ws.work[w] \in WorkType
    BY Parts, Contained DEF Sound
  <1>2. PICK r : r = [ws.work[w] EXCEPT !.status = "in-review"]
    OBVIOUS
  <1>3. r \in WorkType /\ r.ref = ws.work[w].ref /\ r.issue = ws.work[w].issue
    BY <1>1, <1>2 DEF WorkType
  <1>4. ws' = SetWork(ws, [ws.work EXCEPT ![w] = r])
    BY <1>2 DEF Progress, Save, SetWork
  <1>5. /\ Sound(ws') /\ ws'.items = ws.items /\ ws'.plans = ws.plans
        /\ ws'.proposals = ws.proposals /\ ws'.work = [ws.work EXCEPT ![w] = r]
    BY <1>3, <1>4, WorkPut
  <1> QED
    BY <1>3, <1>5 DEF Sound, WorkRelinked

(* A link of a work item.                                                  *)
LEMMA LinkedSound ==
    ASSUME NEW s, Sound(s), NEW w \in DOMAIN s.work, NEW x \in Nat, NEW t, t = Linked(s, w, x)
    PROVE  /\ Sound(t) /\ t.items = s.items /\ t.plans = s.plans /\ t.proposals = s.proposals
           /\ WorkRelinked(s, t, w, x)
  <1>1. s.work[w] \in WorkType
    BY Parts, Contained DEF Sound
  <1>2. PICK r : r = [s.work[w] EXCEPT !.ref = x, !.at = 1]
    OBVIOUS
  <1>3. r \in WorkType /\ r.ref = x /\ r.issue = s.work[w].issue
    BY <1>1, <1>2 DEF WorkType
  <1>4. t = SetWork(s, [s.work EXCEPT ![w] = r])
    BY <1>2 DEF Linked, SetWork
  <1>5. /\ Sound(t) /\ t.items = s.items /\ t.plans = s.plans /\ t.proposals = s.proposals
        /\ t.work = [s.work EXCEPT ![w] = r]
    BY <1>3, <1>4, WorkPut
  <1> QED
    BY <1>3, <1>5 DEF WorkRelinked

(* Proposals change, and stay what they were adopted as.                   *)
LEMMA ProposalsCarried ==
    ASSUME NEW s, Sound(s), NEW x \in Seq(ProposalType),
           \A k \in DOMAIN s.proposals : /\ k \in DOMAIN x /\ x[k].issue = s.proposals[k].issue
                                         /\ x[k].work = s.proposals[k].work,
           OpenUnused(s) => \A k \in DOMAIN x : x[k].status = "proposed" => x[k].work = 0,
           NEW t, t = SetProposals(s, x)
    PROVE  Carried(s, t) /\ t.work = s.work /\ t.proposals = x
  <1>1. /\ Sound(t) /\ t.items = s.items /\ t.plans = s.plans
        /\ t.work = s.work /\ t.proposals = x
    BY ProposalsSet
  <1>2. ASSUME NEW M, Owned(s, M) PROVE Owned(t, M)
    <2>1. OpenUnused(s)
      BY <1>2 DEF Owned, OpenUnused
    <2>2. AdoptionsKept(s, t) /\ OpenUnused(t)
      BY <1>1, <2>1 DEF AdoptionsKept, OpenUnused
    <2> QED
      BY <1>1, <1>2, <2>2, StaysOwned
  <1> QED
    BY <1>1, <1>2 DEF Carried, OwnedStill

(* The import of a proposal.                                               *)
LEMMA WithProposalSound ==
    ASSUME NEW s, Sound(s), NEW e, News(e), NEW t, t = WithProposal(s, e)
    PROVE  Carried(s, t) /\ t.work = s.work
  <1>1. s.proposals \in Seq(ProposalType)
    BY Parts DEF Sound
  <1>2. CASE ProposalsFor(s, e.issue) = {}
    <2>1. PICK r : r = Proposal(e)
      OBVIOUS
    <2>2. r \in ProposalType /\ r.work = 0
      BY <2>1 DEF Proposal, ProposalType, News
    <2>3. PICK q : q = Append(s.proposals, r)
      OBVIOUS
    <2>4. /\ q \in Seq(ProposalType) /\ DOMAIN s.proposals \subseteq DOMAIN q
          /\ \A k \in DOMAIN s.proposals : q[k] = s.proposals[k]
          /\ \A k \in DOMAIN q : k \in DOMAIN s.proposals \/ q[k] = r
      BY <1>1, <2>2, <2>3, Added
    <2>5. t = SetProposals(s, q)
      BY <1>2, <2>1, <2>3 DEF WithProposal, SetProposals
    <2>6. OpenUnused(s) => \A k \in DOMAIN q : q[k].status = "proposed" => q[k].work = 0
      BY <2>2, <2>4 DEF OpenUnused
    <2> QED
      BY <2>4, <2>5, <2>6, ProposalsCarried
  <1>3. CASE ProposalsFor(s, e.issue) # {}
    <2>1. PICK k : k = FirstOf(ProposalsFor(s, e.issue))
      OBVIOUS
    <2>2. k \in DOMAIN s.proposals
      BY <1>1, <1>3, <2>1, FirstIsIn, Contained DEF ProposalsFor
    <2>3. s.proposals[k] \in ProposalType
      BY <1>1, <2>2, Contained
    <2>4. PICK r : r = [s.proposals[k] EXCEPT !.title = e.title, !.at = e.at]
      OBVIOUS
    <2>5. /\ r \in ProposalType /\ r.issue = s.proposals[k].issue
          /\ r.work = s.proposals[k].work /\ r.status = s.proposals[k].status
      BY <2>3, <2>4 DEF ProposalType, News
    <2>6. t = SetProposals(s, [s.proposals EXCEPT ![k] = r])
      BY <1>3, <2>1, <2>4 DEF WithProposal, SetProposals
    <2>7. PICK q : q = [s.proposals EXCEPT ![k] = r]
      OBVIOUS
    <2>8. /\ q \in Seq(ProposalType) /\ DOMAIN q = DOMAIN s.proposals /\ q[k] = r
          /\ \A l \in DOMAIN s.proposals : l # k => q[l] = s.proposals[l]
      BY <1>1, <2>2, <2>5, <2>7, Changed
    <2>9. /\ \A l \in DOMAIN s.proposals : /\ q[l].issue = s.proposals[l].issue
                                           /\ q[l].work = s.proposals[l].work
          /\ OpenUnused(s) => \A l \in DOMAIN q : q[l].status = "proposed" => q[l].work = 0
      BY <2>5, <2>8 DEF OpenUnused
    <2> QED
      BY <2>6, <2>7, <2>8, <2>9, ProposalsCarried
  <1> QED
    BY <1>2, <1>3

(* The import into the work item.                                          *)
LEMMA WithWorkSound ==
    ASSUME NEW s, Sound(s), NEW e, News(e), NEW w \in {0} \cup DOMAIN s.work,
           w # 0 => e.issue \in {s.work[w].issue, s.work[w].ref},
           NEW t, t = WithWork(s, e, w)
    PROVE  Carried(s, t)
  <1>1. CASE w = 0
    BY <1>1 DEF WithWork, Carried, OwnedStill
  <1>2. CASE w # 0
    <2>1. w \in DOMAIN s.work /\ s.work[w] \in WorkType
      BY <1>2, Parts, Contained DEF Sound
    <2>2. PICK n : n = IF Adopted(s, e.issue) THEN e.title ELSE s.work[w].title
      OBVIOUS
    <2>3. n \in Nat
      BY <2>1, <2>2 DEF WorkType, News
    <2>4. PICK r : r = [s.work[w] EXCEPT !.ref = e.issue, !.at = e.at, !.title = n]
      OBVIOUS
    <2>5. r \in WorkType /\ r.ref = e.issue /\ r.issue = s.work[w].issue
      BY <2>1, <2>3, <2>4 DEF WorkType, News
    <2>6. t = SetWork(s, [s.work EXCEPT ![w] = r])
      BY <1>2, <2>2, <2>4 DEF WithWork, SetWork
    <2>7. /\ Sound(t) /\ t.items = s.items /\ t.plans = s.plans /\ t.proposals = s.proposals
          /\ t.work = [s.work EXCEPT ![w] = r]
      BY <2>1, <2>5, <2>6, WorkPut
    <2>8. WorkRelinked(s, t, w, e.issue)
      BY <2>5, <2>7 DEF WorkRelinked
    <2>9. \A M : Owned(s, M) => LinkOwned(s, M, w, e.issue)
      BY <1>2, <2>1 DEF Owned, LinkOwned
    <2> QED
      BY <2>1, <2>7, <2>8, <2>9, RelinkedCarried
  <1> QED
    BY <1>1, <1>2

(* A sync.                                                                 *)
LEMMA SyncedSound ==
    ASSUME NEW s, Sound(s), NEW e, News(e), NEW t, t = Synced(s, e)
    PROVE  Carried(s, t)
  <1>1. CASE e.gone
    BY <1>1 DEF Synced, Carried, OwnedStill
  <1>2. CASE ~e.gone
    <2> DEFINE f == [k \in DOMAIN s.proposals |-> SyncedProposal(s.proposals[k], e)]
               g == [w \in DOMAIN s.work |-> SyncedWork(s.work[w], e)]
    <2>1. s.proposals \in Seq(ProposalType) /\ s.work \in Seq(WorkType)
      BY Parts DEF Sound
    <2>2. ASSUME NEW k \in DOMAIN s.proposals
          PROVE  /\ SyncedProposal(s.proposals[k], e) \in ProposalType
                 /\ SyncedProposal(s.proposals[k], e).issue = s.proposals[k].issue
                 /\ SyncedProposal(s.proposals[k], e).work = s.proposals[k].work
                 /\ SyncedProposal(s.proposals[k], e).status = s.proposals[k].status
      <3>1. s.proposals[k] \in ProposalType
        BY <2>1, Contained
      <3> QED
        BY <3>1 DEF SyncedProposal, ProposalType, News
    <2>3. ASSUME NEW w \in DOMAIN s.work
          PROVE  /\ SyncedWork(s.work[w], e) \in WorkType
                 /\ SyncedWork(s.work[w], e).ref = s.work[w].ref
                 /\ SyncedWork(s.work[w], e).issue = s.work[w].issue
      <3>1. s.work[w] \in WorkType
        BY <2>1, Contained
      <3> QED
        BY <3>1 DEF SyncedWork, WorkType, News
    <2>4. /\ f \in [DOMAIN s.proposals -> ProposalType]
          /\ \A k \in DOMAIN s.proposals : /\ f[k].issue = s.proposals[k].issue
                                           /\ f[k].work = s.proposals[k].work
                                           /\ f[k].status = s.proposals[k].status
      BY <2>2
    <2>9. /\ g \in [DOMAIN s.work -> WorkType]
          /\ \A w \in DOMAIN s.work : g[w].ref = s.work[w].ref /\ g[w].issue = s.work[w].issue
      BY <2>3
    <2>5. t = SetWork(SetProposals(s, f), g)
      BY <1>2 DEF Synced, SetWork, SetProposals
    <2> HIDE DEF f, g
    <2>6. /\ f \in Seq(ProposalType) /\ DOMAIN f = DOMAIN s.proposals
          /\ g \in Seq(WorkType) /\ DOMAIN g = DOMAIN s.work
      BY <2>1, <2>4, <2>9, Mapped
    <2>7. PICK u : u = SetProposals(s, f)
      OBVIOUS
    <2>8. Carried(s, u) /\ Sound(u) /\ u.work = s.work
      <3>1. OpenUnused(s) => \A k \in DOMAIN f : f[k].status = "proposed" => f[k].work = 0
        BY <2>4, <2>6 DEF OpenUnused
      <3> QED
        BY <2>4, <2>6, <2>7, <3>1, ProposalsCarried DEF Carried
    <2>10. /\ Sound(t) /\ t.items = u.items /\ t.plans = u.plans
           /\ t.proposals = u.proposals /\ t.work = g
      BY <2>5, <2>6, <2>7, <2>8, WorkSet
    <2>11. ASSUME NEW M, Owned(u, M) PROVE Owned(t, M)
      <3>1. AdoptionsKept(u, t) /\ OpenUnused(t)
        BY <2>10, <2>11, SameAdoptions
      <3>2. \A w \in DOMAIN t.work : /\ w \in DOMAIN u.work /\ t.work[w].issue = u.work[w].issue
                                      /\ t.work[w].ref = u.work[w].ref
        BY <2>6, <2>8, <2>9, <2>10
      <3> QED
        BY <2>8, <2>11, <3>1, <3>2, StaysOwned
    <2> QED
      BY <2>8, <2>10, <2>11 DEF Carried, OwnedStill
  <1> QED
    BY <1>1, <1>2

(* An adoption.                                                            *)
LEMMA AdoptSound ==
    ASSUME Sound(ws), NEW k \in DOMAIN ws.proposals, NEW own \in BOOLEAN, Adopt(k, own)
    PROVE  Carried(ws, ws')
  <1>1. /\ ws.proposals \in Seq(ProposalType) /\ ws.proposals[k] \in ProposalType
        /\ ws.work \in Seq(WorkType)
    BY Parts, Contained DEF Sound
  <1>2. PICK id : id = IF own THEN ws.proposals[k].issue ELSE 0
    OBVIOUS
  <1>3. id \in Nat
    BY <1>1, <1>2 DEF ProposalType
  <1>4. PICK v : v = [status |-> "active", title |-> ws.proposals[k].title, needs |-> "none",
                      ref |-> ws.proposals[k].issue, at |-> ws.proposals[k].at, issue |-> id]
    OBVIOUS
  <1>5. v \in WorkType /\ v.ref = ws.proposals[k].issue /\ v.issue \in {0, v.ref}
    <2>1. /\ ws.proposals[k].title \in Nat /\ ws.proposals[k].issue \in Nat
          /\ ws.proposals[k].at \in Nat
      BY <1>1 DEF ProposalType
    <2> QED
      BY <1>2, <1>3, <1>4, <2>1 DEF WorkType
  <1>6. PICK q : q = Append(ws.work, v)
    OBVIOUS
  <1>7. /\ q \in Seq(WorkType) /\ DOMAIN ws.work \subseteq DOMAIN q
        /\ DOMAIN q = DOMAIN ws.work \cup {Len(ws.work) + 1} /\ q[Len(ws.work) + 1] = v
        /\ \A w \in DOMAIN ws.work : q[w] = ws.work[w]
    BY <1>1, <1>5, <1>6, Added
  <1>8. PICK u : u = SetWork(ws, q)
    OBVIOUS
  <1>9. Sound(u) /\ u.items = ws.items /\ u.plans = ws.plans /\ u.proposals = ws.proposals /\ u.work = q
    BY <1>7, <1>8, WorkSet
  <1>10. PICK n : n = Len(ws.work) + 1
    OBVIOUS
  <1>11. n \in Nat
    BY <1>1, <1>10, Contained
  <1>12. PICK r : r = [ws.proposals[k] EXCEPT !.status = "adopted", !.work = n]
    OBVIOUS
  <1>13. /\ r \in ProposalType /\ r.status = "adopted" /\ r.work = n
         /\ r.issue = ws.proposals[k].issue
    BY <1>1, <1>11, <1>12 DEF ProposalType
  <1>14. ws' = SetProposals(u, [u.proposals EXCEPT ![k] = r])
    <2>1. ws' = [ws EXCEPT !.work = q, !.proposals[k] = r]
      BY <1>2, <1>4, <1>6, <1>10, <1>12 DEF Adopt, Save
    <2> QED
      BY <2>1, <1>8, <1>9 DEF SetWork, SetProposals
  <1>15. PICK y : y = [ws.proposals EXCEPT ![k] = r]
    OBVIOUS
  <1>16. /\ y \in Seq(ProposalType) /\ DOMAIN y = DOMAIN ws.proposals /\ y[k] = r
         /\ \A l \in DOMAIN ws.proposals : l # k => y[l] = ws.proposals[l]
    BY <1>1, <1>13, <1>15, Changed
  <1>17. ws' = SetProposals(u, y)
    BY <1>9, <1>14, <1>15
  <1>18. /\ Sound(ws') /\ ws'.items = ws.items /\ ws'.plans = ws.plans
         /\ ws'.work = q /\ ws'.proposals = y
    BY <1>9, <1>16, <1>17, ProposalsSet
  <1>19. ASSUME NEW CONSTANT M, Owned(ws, M) PROVE Owned(ws', M)
    <2>1. ws.proposals[k].work = 0
      BY <1>19 DEF Owned, Adopt
    <2>2. AdoptionsKept(ws, ws') /\ OpenUnused(ws')
      BY <1>13, <1>16, <1>18, <1>19, <2>1 DEF AdoptionsKept, OpenUnused, Owned
    <2>4. Adoption(ws', v.ref, n)
      BY <1>5, <1>13, <1>16, <1>18 DEF Adoption, ProposalsFor
    <2>5. ASSUME NEW w \in DOMAIN ws'.work
          PROVE  \/ w \in DOMAIN ws.work /\ ws'.work[w] = ws.work[w]
                 \/ w = n /\ ws'.work[w] = v
      BY <1>7, <1>10, <1>18
    <2>6. PICK t : t = ws'
      OBVIOUS
    <2> QED
      BY <1>5, <1>19, <2>2, <2>4, <2>5, <2>6, StaysOwned
  <1> QED
    BY <1>18, <1>19 DEF Carried, OwnedStill

-----------------------------------------------------------------------------
(* Writes of the workspace *)

(* An item keeps its plan and its payload.                                 *)
ItemsKept(s, t) ==
    \A i \in DOMAIN s.items : /\ i \in DOMAIN t.items
                              /\ t.items[i].plan = s.items[i].plan
                              /\ t.items[i].payload = s.items[i].payload

(* Nobody has ended what is queued.                                        *)
QueuedOpen(s) == \A i \in DOMAIN s.items : s.items[i].status = "queued" => s.items[i].ender = Nobody

(* What every write of the workspace keeps.                                *)
Forward(s, t) == ItemsKept(s, t) /\ (QueuedOpen(s) => QueuedOpen(t))

(* No item becomes sent or ceases to be.                                   *)
Steady(s, t) ==
    \A i \in DOMAIN t.items :
       (t.items[i].status = "sent") = (i \in DOMAIN s.items /\ s.items[i].status = "sent")

(* How a write moves plans and outbox: a plan is added, decided or queued, *)
(* or the item of one ends.                                                *)
Asks(s, t) == t.items = s.items /\ Len(s.plans) < MaxPlans /\ PlanAsked(s, t)

Decides(s, t) ==
    /\ t.items = s.items
    /\ \E k \in DOMAIN s.plans, d \in Decisions :
          s.plans[k].status = "pending-approval" /\ PlanGiven(s, t, k, d)

Queues(s, t) ==
    /\ t.plans = s.plans
    /\ \E r \in ItemType : /\ t.items = Append(s.items, r) /\ r.status = "queued"
                           /\ r.plan \in DOMAIN s.plans /\ s.plans[r.plan].status = "approved"
                           /\ \A i \in DOMAIN s.items : s.items[i].plan # r.plan

EndsItem(s, t, i, d) ==
    /\ t.plans = s.plans
    /\ i \in DOMAIN s.items /\ s.items[i].status = "queued"
    /\ DOMAIN t.items = DOMAIN s.items /\ t.items[i].status = d
    /\ t.items[i].plan = s.items[i].plan
    /\ \A k \in DOMAIN s.items : k # i => t.items[k] = s.items[k]

Rests(s, t) == t.plans = s.plans /\ t.items = s.items

Shifts(s, t) ==
    Rests(s, t) \/ Asks(s, t) \/ Decides(s, t) \/ Queues(s, t) \/ \E i : EndsItem(s, t, i, "canceled")

(* What a write of the workspace does, and what it does unless it ends a   *)
(* send.                                                                   *)
Written == Sound(ws') /\ Valid(ws') /\ Forward(ws, ws')
Moved == Written /\ OwnedStill(ws, ws') /\ Steady(ws, ws') /\ Shifts(ws, ws')

LEMMA ForwardSame ==
    ASSUME NEW s, NEW t, t.items = s.items
    PROVE  Forward(s, t) /\ Steady(s, t)
  BY DEF Forward, ItemsKept, QueuedOpen, Steady

LEMMA ForwardThrough ==
    ASSUME NEW s, NEW t, NEW u, Forward(s, t), Forward(t, u)
    PROVE  Forward(s, u)
  BY DEF Forward, ItemsKept, QueuedOpen

(* A plan stays what it is about.                                          *)
PlansKept(s, t) ==
    \A k \in DOMAIN s.plans : k \in DOMAIN t.plans /\ t.plans[k].work = s.plans[k].work

LEMMA AskedKept ==
    ASSUME NEW s, Sound(s), NEW t, PlanAsked(s, t)
    PROVE  PlansKept(s, t)
  <1>1. PICK r \in PlanType : t.plans = Append(s.plans, r)
    BY DEF PlanAsked
  <1>2. s.plans \in Seq(PlanType)
    BY Parts DEF Sound
  <1>3. PICK q : q = Append(s.plans, r)
    OBVIOUS
  <1>4. DOMAIN s.plans \subseteq DOMAIN q /\ \A k \in DOMAIN s.plans : q[k] = s.plans[k]
    BY <1>2, <1>3, Added
  <1>5. t.plans = q
    BY <1>1, <1>3
  <1> QED
    BY <1>4, <1>5 DEF PlansKept

LEMMA GivenKept ==
    ASSUME NEW s, Sound(s), NEW t, NEW k \in DOMAIN s.plans, NEW d, PlanGiven(s, t, k, d)
    PROVE  PlansKept(s, t)
  <1>1. PICK r \in PlanType : t.plans = [s.plans EXCEPT ![k] = r] /\ r.work = s.plans[k].work
    BY DEF PlanGiven
  <1>2. s.plans \in Seq(PlanType)
    BY Parts DEF Sound
  <1>3. PICK q : q = [s.plans EXCEPT ![k] = r]
    OBVIOUS
  <1>4. DOMAIN q = DOMAIN s.plans /\ q[k] = r /\ \A l \in DOMAIN s.plans : l # k => q[l] = s.plans[l]
    BY <1>2, <1>3, Changed
  <1>5. t.plans = q
    BY <1>1, <1>3
  <1> QED
    BY <1>1, <1>4, <1>5 DEF PlansKept

LEMMA ShiftsKept ==
    ASSUME NEW s, Sound(s), NEW t, Shifts(s, t)
    PROVE  PlansKept(s, t)
  <1>1. CASE t.plans = s.plans
    BY <1>1 DEF PlansKept
  <1>2. CASE Asks(s, t)
    BY <1>2, AskedKept DEF Asks
  <1>3. CASE Decides(s, t)
    BY <1>3, GivenKept DEF Decides
  <1> QED
    BY <1>1, <1>2, <1>3 DEF Shifts, Rests, Queues, EndsItem

(* Work and proposals are left alone.                                      *)
LEMMA UntouchedOwned ==
    ASSUME NEW s, NEW t, t.work = s.work, t.proposals = s.proposals
    PROVE  OwnedStill(s, t)
  BY DEF OwnedStill, Owned, LinkOwned, Adoption, ProposalsFor

LEMMA ShiftsMove ==
    ASSUME Sound(ws), Sound(ws'), Valid(ws'), Forward(ws, ws'), Steady(ws, ws'), Shifts(ws, ws'),
           ws'.work = ws.work, ws'.proposals = ws.proposals
    PROVE  Moved
  <1>1. PICK s, t : s = ws /\ t = ws'
    OBVIOUS
  <1>2. OwnedStill(ws, ws')
    BY <1>1, UntouchedOwned
  <1> QED
    BY <1>2 DEF Moved, Written

(* Plans and outbox are left alone.                                        *)
LEMMA CarriedMoves ==
    ASSUME Carried(ws, ws'), Valid(ws')
    PROVE  Moved
  BY ForwardSame DEF Carried, Moved, Written, Shifts, Rests

(* An item is appended.                                                    *)
LEMMA ForwardAppend ==
    ASSUME NEW s, Sound(s), NEW r \in ItemType, r.ender = Nobody, r.status = "queued",
           NEW t, t.items = Append(s.items, r)
    PROVE  Forward(s, t) /\ Steady(s, t)
  <1> DEFINE q == Append(s.items, r)
  <1>1. s.items \in Seq(ItemType)
    BY Parts DEF Sound
  <1>2. /\ DOMAIN s.items \subseteq DOMAIN q
        /\ \A i \in DOMAIN s.items : q[i] = s.items[i]
        /\ \A i \in DOMAIN q : i \in DOMAIN s.items \/ (i \notin DOMAIN s.items /\ q[i] = r)
    BY <1>1, Added
  <1>3. t.items = q
    OBVIOUS
  <1> HIDE DEF q
  <1>4. Forward(s, t)
    BY <1>2, <1>3 DEF Forward, ItemsKept, QueuedOpen
  <1>5. Steady(s, t)
    BY <1>2, <1>3 DEF Steady
  <1> QED
    BY <1>4, <1>5

(* An item is ended.                                                       *)
LEMMA ForwardPut ==
    ASSUME NEW s, Sound(s), NEW i \in DOMAIN s.items, NEW r \in ItemType,
           r.plan = s.items[i].plan, r.payload = s.items[i].payload, r.status # "queued",
           NEW t, t.items = [s.items EXCEPT ![i] = r]
    PROVE  Forward(s, t)
  <1> DEFINE q == [s.items EXCEPT ![i] = r]
  <1>1. s.items \in Seq(ItemType)
    BY Parts DEF Sound
  <1>2. /\ DOMAIN q = DOMAIN s.items /\ q[i] = r
        /\ \A k \in DOMAIN s.items : k # i => q[k] = s.items[k]
    BY <1>1, Changed
  <1>3. t.items = q
    OBVIOUS
  <1> HIDE DEF q
  <1> QED
    BY <1>2, <1>3 DEF Forward, ItemsKept, QueuedOpen

(* An item of a sound workspace ends.                                      *)
LEMMA EndedForward ==
    ASSUME NEW s, Sound(s), NEW i \in DOMAIN s.items, NEW h \in Human,
           NEW d, d \in {"sent", "failed", "canceled"}, NEW t, t = Ended(s, i, d, h)
    PROVE  /\ Sound(t) /\ Forward(s, t) /\ t.work = s.work /\ t.proposals = s.proposals /\ t.plans = s.plans
           /\ DOMAIN t.items = DOMAIN s.items /\ t.items[i].status = d
           /\ \A k \in DOMAIN s.items : k # i => t.items[k] = s.items[k]
  <1>1. s.items \in Seq(ItemType) /\ s.items[i] \in ItemType
    BY Parts, Contained DEF Sound
  <1>2. PICK r : r = [s.items[i] EXCEPT !.status = d, !.ender = h]
    OBVIOUS
  <1>3. /\ r \in ItemType /\ r.plan = s.items[i].plan /\ r.payload = s.items[i].payload
        /\ r.status = d /\ r.status # "queued"
    BY <1>1, <1>2 DEF ItemType
  <1>4. t = SetItems(s, [s.items EXCEPT ![i] = r])
    BY <1>2 DEF Ended, SetItems
  <1>5. /\ Sound(t) /\ t.items = [s.items EXCEPT ![i] = r]
        /\ t.work = s.work /\ t.proposals = s.proposals /\ t.plans = s.plans
    BY <1>3, <1>4, ItemPut
  <1>6. Forward(s, t)
    BY <1>3, <1>5, ForwardPut
  <1>7. PICK q : q = [s.items EXCEPT ![i] = r]
    OBVIOUS
  <1>8. /\ DOMAIN q = DOMAIN s.items /\ q[i] = r
        /\ \A k \in DOMAIN s.items : k # i => q[k] = s.items[k]
    BY <1>1, <1>3, <1>7, Changed
  <1> QED
    BY <1>3, <1>5, <1>6, <1>7, <1>8

(* A plan from a preview.                                                  *)
LEMMA PlanIntegrationMoves ==
    ASSUME Sound(ws), NEW w \in DOMAIN ws.work, NEW a \in Actions, PlanIntegration(w, a),
           MorePlans
    PROVE  Moved
  <1>1. ws.work[w] \in WorkType
    BY Parts, Contained DEF Sound
  <1>2. PICK x : x = Preview(ws, w)
    OBVIOUS
  <1>3. x \in Payload
    BY <1>1, <1>2 DEF Preview, Payload, WorkType
  <1>4. ws' = WithPlan(ws, w, a, x) /\ Valid(ws')
    BY <1>2 DEF PlanIntegration, Save
  <1>5. /\ Sound(ws') /\ ws'.items = ws.items /\ PlanAsked(ws, ws')
        /\ ws'.work = ws.work /\ ws'.proposals = ws.proposals
    BY <1>3, <1>4, PlanAdded
  <1>6. Shifts(ws, ws')
    BY <1>5 DEF Shifts, Asks, MorePlans
  <1> QED
    BY <1>4, <1>5, <1>6, ForwardSame, ShiftsMove

(* A decision.                                                             *)
LEMMA DecidePlanMoves ==
    ASSUME Sound(ws), NEW k \in DOMAIN ws.plans, NEW h \in Human, NEW d \in Decisions,
           DecidePlan(k, h, d)
    PROVE  Moved
  <1>1. ws' = Decided(ws, k, d, h) /\ Valid(ws')
    BY DEF DecidePlan, Save, Decided
  <1>2. /\ Sound(ws') /\ ws'.items = ws.items /\ PlanGiven(ws, ws', k, d)
        /\ ws'.work = ws.work /\ ws'.proposals = ws.proposals
    BY <1>1, PlanDecided
  <1>3. Shifts(ws, ws')
    BY <1>2 DEF Shifts, Decides, DecidePlan
  <1> QED
    BY <1>1, <1>2, <1>3, ForwardSame, ShiftsMove

(* A plan is queued.                                                       *)
LEMMA EnqueuePlanMoves ==
    ASSUME Sound(ws), NEW k \in DOMAIN ws.plans, NEW h \in Human, EnqueuePlan(k, h)
    PROVE  Moved
  <1>1. PICK r : r = [plan |-> k, payload |-> ws.plans[k].payload, status |-> "queued",
                      by |-> h, ender |-> Nobody]
    OBVIOUS
  <1>2. ws' = SetItems(ws, Append(ws.items, r)) /\ Valid(ws')
    BY <1>1 DEF EnqueuePlan, Save, SetItems
  <1>3. /\ Sound(ws') /\ r \in ItemType /\ ws'.items = Append(ws.items, r)
        /\ ws'.work = ws.work /\ ws'.proposals = ws.proposals /\ ws'.plans = ws.plans
    BY <1>1, <1>2, ItemAdded
  <1>4. r.ender = Nobody /\ r.status = "queued" /\ r.plan = k
    BY <1>1
  <1>5. Forward(ws, ws') /\ Steady(ws, ws')
    BY <1>3, <1>4, ForwardAppend
  <1>6. Shifts(ws, ws')
    BY <1>3, <1>4 DEF Shifts, Queues, EnqueuePlan, Queued
  <1> QED
    BY <1>2, <1>3, <1>5, <1>6, ShiftsMove

(* An item is canceled.                                                    *)
LEMMA CancelItemMoves ==
    ASSUME Sound(ws), NEW i \in DOMAIN ws.items, NEW h \in Human, CancelItem(i, h)
    PROVE  Moved
  <1>1. ws' = Ended(ws, i, "canceled", h) /\ Valid(ws') /\ ws.items[i].status = "queued"
    BY DEF CancelItem, Save, IsQueued
  <1>2. /\ Sound(ws') /\ Forward(ws, ws')
        /\ ws'.work = ws.work /\ ws'.proposals = ws.proposals /\ ws'.plans = ws.plans
        /\ DOMAIN ws'.items = DOMAIN ws.items /\ ws'.items[i].status = "canceled"
        /\ \A k \in DOMAIN ws.items : k # i => ws'.items[k] = ws.items[k]
    BY <1>1, EndedForward
  <1>3. Steady(ws, ws')
    BY <1>1, <1>2 DEF Steady
  <1>4. ws'.items[i].plan = ws.items[i].plan
    BY <1>2 DEF Forward, ItemsKept
  <1>5. Shifts(ws, ws')
    BY <1>1, <1>2, <1>4 DEF Shifts, EndsItem
  <1> QED
    BY <1>1, <1>2, <1>3, <1>5, ShiftsMove

LEMMA GovernedMoves ==
    ASSUME Sound(ws), Governed
    PROVE  Moved
  BY PlanIntegrationMoves, DecidePlanMoves, EnqueuePlanMoves, CancelItemMoves DEF Governed

(* The integration is connected.                                           *)
LEMMA ConnectMoves ==
    ASSUME Sound(ws), Connect
    PROVE  Moved
  <1>1. ws' = SetActions(ws, Actions) /\ Valid(ws')
    BY DEF Connect, Save, SetActions
  <1>2. /\ Sound(ws') /\ ws'.items = ws.items /\ ws'.plans = ws.plans
        /\ ws'.work = ws.work /\ ws'.proposals = ws.proposals
    BY <1>1, ActionsAdded
  <1>3. Shifts(ws, ws')
    BY <1>2 DEF Shifts, Rests
  <1> QED
    BY <1>1, <1>2, <1>3, ForwardSame, ShiftsMove

(* A plan for Linear.                                                      *)
LEMMA PlanForLinearMoves ==
    ASSUME Sound(ws), NEW w \in DOMAIN ws.work, NEW a \in Actions, PlanForLinear(w, a),
           MorePlans
    PROVE  Moved
  <1>1. ws.work[w] \in WorkType
    BY Parts, Contained DEF Sound
  <1>2. PICK x : x = Rendered(ws, w, a)
    OBVIOUS
  <1>3. x \in Payload
    BY <1>1, <1>2 DEF Rendered, Payload, WorkType
  <1>4. PICK u : u = WithActions(ws, a)
    OBVIOUS
  <1>5. ws.actions \in SUBSET Actions
    BY Parts DEF Sound
  <1>6. PICK b : b = ws.actions \cup IF a = "comment" THEN {"comment"} ELSE Actions
    OBVIOUS
  <1>7. b \in SUBSET Actions
    BY <1>5, <1>6 DEF Actions
  <1>8. u = SetActions(ws, b)
    BY <1>4, <1>6 DEF WithActions, SetActions
  <1>9. /\ Sound(u) /\ u.items = ws.items /\ u.work = ws.work
        /\ u.plans = ws.plans /\ u.proposals = ws.proposals
    BY <1>7, <1>8, ActionsAdded
  <1>10. ws' = WithPlan(u, w, a, x) /\ Valid(ws')
    BY <1>2, <1>4 DEF PlanForLinear, Save
  <1>11. /\ Sound(ws') /\ ws'.items = u.items /\ PlanAsked(u, ws')
         /\ ws'.work = u.work /\ ws'.proposals = u.proposals
    BY <1>3, <1>9, <1>10, PlanAdded
  <1>12. PlanAsked(ws, ws')
    BY <1>9, <1>11 DEF PlanAsked
  <1>13. Shifts(ws, ws')
    BY <1>9, <1>11, <1>12 DEF Shifts, Asks, MorePlans
  <1> QED
    BY <1>9, <1>10, <1>11, <1>13, ForwardSame, ShiftsMove

-----------------------------------------------------------------------------
(* The state of the processes *)

(* What a sender loaded still holds of the outbox, however it went on.     *)
(* What senders, readers and handlers hold between two steps.              *)
SenderType ==
    {Idle} \cup [step : {"call", "answered"}, item : Nat, by : Human, seen : WorkspaceTypes,
                 call : Nat, ok : BOOLEAN, issue : Nat]

ReaderType ==
    {Idle} \cup [step : {"fetched"}, issue : Nat \ {0}, at : Nat, title : Nat, gone : BOOLEAN]

ThreadType == {Idle} \cup [step : {"sync", "log"}, event : EventType]

IssueType == [at : Nat, title : Nat]

(* The workspace a sender has loaded may have grown, but kept its items.   *)
Holds(c) ==
    c.step # "idle" =>
       /\ Sound(c.seen) /\ c.item \in DOMAIN c.seen.items
       /\ ItemsKept(c.seen, ws)

(* The types of all variables.                                             *)
Typed ==
    /\ Sound(ws)
    /\ linear \in Seq(IssueType)
    /\ calls \in Seq(CallType)
    /\ sender \in [Sender -> SenderType]
    /\ reader \in [Reader -> ReaderType]
    /\ thread \in [Thread -> ThreadType]
    /\ events \subseteq EventType

(* What has been called was queued, and is in the outbox for good.         *)
CallsKnown ==
    \A c \in DOMAIN calls : /\ calls[c].item \in DOMAIN ws.items
                            /\ calls[c].payload = ws.items[calls[c].item].payload

(* The inductive invariant, but for which calls the senders hold.          *)
DeliveryInv ==
    /\ Typed
    /\ \A p \in Sender : Holds(sender[p])
    /\ CallsKnown
    /\ Valid(ws) /\ QueuedOpen(ws)

InCall(c) == c.step # "idle" /\ c.call # 0

(* A call whose outcome nobody has written yet is in one sender's hands.   *)
Held(c) ==
    /\ InCall(c) => /\ c.call \in DOMAIN calls
                    /\ calls[c.call].item = c.item /\ calls[c.call].issue = c.issue
                    /\ calls[c.call].outcome = "open"
    /\ c.step = "call" => c.call = 0
    /\ c.step # "idle" /\ c.ok => c.call # 0
    /\ c.step # "idle" => c.seen.items[c.item].status = "queued"

(* The end of a send.                                                      *)
LEMMA SettleMoves ==
    ASSUME DeliveryInv, NEW p \in Sender, SettleItem(p)
    PROVE  Written /\ ws'.plans = ws.plans
  <1> DEFINE c == sender[p]
  <1>1. c.step = "answered" /\ ws = c.seen /\ ws' = Outcome(ws, c) /\ Valid(ws')
    BY DEF SettleItem, Unchanged, Save
  <1>2. c # Idle
    BY <1>1 DEF Idle
  <1>3. c \in SenderType /\ Holds(c) /\ Sound(ws)
    BY DEF DeliveryInv, Typed
  <1>4. c.item \in DOMAIN ws.items /\ c.by \in Human /\ c.issue \in Nat
    BY <1>1, <1>2, <1>3 DEF Holds, SenderType
  <1>5. WorkOf(ws, c.item) \in DOMAIN ws.work
    BY <1>3, <1>4 DEF WorkOf, Sound, Refers
  <1>6. PICK d \in {"sent", "failed", "canceled"} : d = IF c.ok THEN "sent" ELSE "failed"
    OBVIOUS
  <1>7. PICK u : u = Ended(ws, c.item, d, c.by)
    OBVIOUS
  <1>8. Sound(u) /\ Forward(ws, u) /\ u.work = ws.work /\ u.plans = ws.plans
    BY <1>3, <1>4, <1>7, EndedForward
  <1>9. ws' = u \/ ws' = Linked(u, WorkOf(ws, c.item), c.issue)
    BY <1>1, <1>6, <1>7 DEF Outcome
  <1>10. Sound(ws') /\ ws'.items = u.items /\ ws'.plans = u.plans
    BY <1>4, <1>5, <1>8, <1>9, LinkedSound
  <1>11. Forward(ws, ws')
    BY <1>8, <1>10, ForwardSame, ForwardThrough
  <1> QED
    BY <1>1, <1>8, <1>10, <1>11 DEF Written

(* The end of a send links work to the issue it created, and to no other.  *)
LEMMA SettleLinks ==
    ASSUME DeliveryInv, NEW p \in Sender, SettleItem(p), NEW M, Owned(ws, M),
           sender[p].ok /\ PayloadSent(ws, sender[p].item).kind = "create_issue"
              => <<WorkOf(ws, sender[p].item), sender[p].issue>> \in M
    PROVE  Owned(ws', M)
  <1> DEFINE c == sender[p]
  <1>1. c.step = "answered" /\ ws = c.seen /\ ws' = Outcome(ws, c)
    BY DEF SettleItem, Unchanged, Save
  <1>2. c # Idle
    BY <1>1 DEF Idle
  <1>3. c \in SenderType /\ Holds(c) /\ Sound(ws)
    BY DEF DeliveryInv, Typed
  <1>4. c.item \in DOMAIN ws.items /\ c.by \in Human /\ c.issue \in Nat
    BY <1>1, <1>2, <1>3 DEF Holds, SenderType
  <1>5. WorkOf(ws, c.item) \in DOMAIN ws.work
    BY <1>3, <1>4 DEF WorkOf, Sound, Refers
  <1>6. PICK d \in {"sent", "failed", "canceled"} : d = IF c.ok THEN "sent" ELSE "failed"
    OBVIOUS
  <1>7. PICK u : u = Ended(ws, c.item, d, c.by)
    OBVIOUS
  <1>8. Sound(u) /\ u.work = ws.work /\ u.proposals = ws.proposals
    BY <1>3, <1>4, <1>7, EndedForward
  <1>9. Owned(u, M)
    BY <1>8, UntouchedOwned DEF OwnedStill
  <1>10. CASE ws' = u
    BY <1>9, <1>10
  <1>11. CASE ws' # u
    <2>1. /\ c.ok /\ PayloadSent(ws, c.item).kind = "create_issue"
          /\ ws' = Linked(u, WorkOf(ws, c.item), c.issue)
      BY <1>1, <1>6, <1>7, <1>11 DEF Outcome
    <2>2. PICK v, x : v = WorkOf(ws, c.item) /\ x = c.issue
      OBVIOUS
    <2>3. <<v, x>> \in M /\ v \in DOMAIN u.work /\ x \in Nat
      BY <1>4, <1>5, <1>8, <2>1, <2>2
    <2>4. PICK t : t = ws'
      OBVIOUS
    <2>5. t = Linked(u, v, x)
      BY <2>1, <2>2, <2>4
    <2>6. Sound(t) /\ t.proposals = u.proposals /\ WorkRelinked(u, t, v, x)
      BY <1>8, <2>3, <2>5, LinkedSound
    <2>7. LinkOwned(u, M, v, x)
      BY <2>3 DEF LinkOwned
    <2>8. Owned(t, M)
      BY <1>8, <1>9, <2>3, <2>6, <2>7, RelinkedOwned
    <2> QED
      BY <2>4, <2>8
  <1> QED
    BY <1>10, <1>11

LEMMA WorkForIs ==
    ASSUME NEW s, Sound(s), NEW x
    PROVE  /\ WorkFor(s, x) \in {0} \cup DOMAIN s.work
           /\ WorkFor(s, x) # 0 => x \in {s.work[WorkFor(s, x)].issue, s.work[WorkFor(s, x)].ref}
  <1> DEFINE S == {w \in DOMAIN s.work : x \in {s.work[w].issue, s.work[w].ref}}
  <1>1. DOMAIN s.work \subseteq Nat /\ S \subseteq DOMAIN s.work
    BY Parts, Contained DEF Sound
  <1>2. WorkFor(s, x) = FirstOf(S)
    BY DEF WorkFor
  <1>5. \A w \in S : x \in {s.work[w].issue, s.work[w].ref}
    OBVIOUS
  <1> HIDE DEF S
  <1>3. CASE S = {}
    BY <1>2, <1>3 DEF FirstOf
  <1>4. CASE S # {}
    BY <1>1, <1>2, <1>4, <1>5, FirstIsIn
  <1> QED
    BY <1>3, <1>4

LEMMA FetchedNews ==
    ASSUME Typed, NEW p \in Reader, reader[p].step = "fetched"
    PROVE  News(reader[p])
  BY DEF Typed, ReaderType, Idle, News

LEMMA ImportMoves ==
    ASSUME Typed, NEW p \in Reader, Import(p)
    PROVE  Moved
  <1> DEFINE e == reader[p]
  <1>1. /\ e.step = "fetched" /\ Valid(ws')
        /\ ws' = WithWork(WithProposal(ws, e), e, WorkFor(ws, e.issue))
    BY DEF Import, Save
  <1>2. News(e) /\ Sound(ws)
    BY <1>1, FetchedNews DEF Typed
  <1> HIDE DEF e
  <1>3. PICK u : u = WithProposal(ws, e)
    OBVIOUS
  <1>4. Carried(ws, u) /\ u.work = ws.work
    BY <1>2, <1>3, WithProposalSound
  <1>5. PICK w : w = WorkFor(ws, e.issue)
    OBVIOUS
  <1>6. w \in {0} \cup DOMAIN u.work /\ (w # 0 => e.issue \in {u.work[w].issue, u.work[w].ref})
    BY <1>2, <1>4, <1>5, WorkForIs
  <1>7. PICK t : t = WithWork(u, e, w)
    OBVIOUS
  <1>8. ws' = t
    BY <1>1, <1>3, <1>5, <1>7
  <1>9. News(e)
    BY <1>2
  <1>10. Sound(u)
    BY <1>4 DEF Carried
  <1>11. Carried(u, t)
    BY <1>6, <1>7, <1>9, <1>10, WithWorkSound
  <1>12. Carried(ws, ws')
    BY <1>4, <1>8, <1>11 DEF Carried, OwnedStill
  <1> QED
    BY <1>1, <1>12, CarriedMoves

LEMMA SyncMoves ==
    ASSUME Sound(ws), NEW e, News(e), Save(Synced(ws, e))
    PROVE  Moved
  <1>1. ws' = Synced(ws, e) /\ Valid(ws')
    BY DEF Save
  <1>2. Carried(ws, ws')
    BY <1>1, SyncedSound
  <1> QED
    BY <1>1, <1>2, CarriedMoves

LEMMA ThreadNews ==
    ASSUME Typed, NEW t \in Thread, thread[t].step = "sync"
    PROVE  News(thread[t].event)
  BY DEF Typed, ThreadType, EventType, Idle, News

LEMMA AdoptMoves ==
    ASSUME Sound(ws), NEW k \in DOMAIN ws.proposals, NEW own \in BOOLEAN, Adopt(k, own)
    PROVE  Moved
  <1>1. Valid(ws')
    BY DEF Adopt, Save
  <1> QED
    BY <1>1, AdoptSound, CarriedMoves

LEMMA ProgressMoves ==
    ASSUME Sound(ws), NEW w \in DOMAIN ws.work, Progress(w)
    PROVE  Moved
  <1>1. Valid(ws')
    BY DEF Progress, Save
  <1>2. /\ Sound(ws') /\ ws'.items = ws.items
        /\ ws'.plans = ws.plans /\ ws'.proposals = ws.proposals
        /\ WorkRelinked(ws, ws', w, ws.work[w].ref)
    BY ProgressSound DEF Sound
  <1>3. \A M : Owned(ws, M) => LinkOwned(ws, M, w, ws.work[w].ref)
    BY DEF Owned
  <1>4. PICK t : t = ws'
    OBVIOUS
  <1>5. Carried(ws, t)
    BY <1>2, <1>3, <1>4, RelinkedCarried
  <1> QED
    BY <1>1, <1>4, <1>5, CarriedMoves

(* Every step leaves the workspace alone, moves it or ends a send.         *)
LEMMA NextMoves ==
    ASSUME DeliveryInv, [Next]_vars
    PROVE  UNCHANGED ws \/ Moved \/ \E p \in Sender : SettleItem(p)
  <1> USE DEF DeliveryInv
  <1>1. Typed /\ Sound(ws)
    BY DEF Typed
  <1>2. CASE Governed
    BY <1>1, <1>2, GovernedMoves
  <1>3. CASE Connect
    BY <1>1, <1>3, ConnectMoves
  <1>4. ASSUME NEW w \in DOMAIN ws.work, Progress(w)
        PROVE  Moved
    BY <1>1, <1>4, ProgressMoves
  <1>5. ASSUME NEW w \in DOMAIN ws.work, NEW a \in Actions, PlanForLinear(w, a), MorePlans
        PROVE  Moved
    BY <1>1, <1>5, PlanForLinearMoves
  <1>6. ASSUME NEW x \in Issues, NEW gone \in BOOLEAN, EditIssue(x, gone)
        PROVE  UNCHANGED ws
    BY <1>6 DEF EditIssue
  <1>7. CASE Sending
    <2>1. ASSUME NEW p \in Sender, NEW i \in DOMAIN ws.items, NEW h \in Human, LoadItem(p, i, h)
          PROVE  UNCHANGED ws
      BY <2>1 DEF LoadItem
    <2>2. ASSUME NEW p \in Sender, CallFails(p) \/ Call(p, TRUE) \/ Call(p, FALSE) \/ Forget(p)
          PROVE  UNCHANGED ws
      BY <2>2 DEF CallFails, Call, Forget
    <2> QED
      BY <1>7, <2>1, <2>2 DEF Sending
  <1>8. CASE Reading
    <2>1. ASSUME NEW p \in Reader, NEW x \in Issues, Fetch(p, x)
          PROVE  UNCHANGED ws
      BY <2>1 DEF Fetch
    <2>2. ASSUME NEW p \in Reader, Import(p)
          PROVE  Moved
      BY <1>1, <2>2, ImportMoves
    <2>3. ASSUME NEW p \in Reader, SyncIssue(p)
          PROVE  Moved
      <3>1. reader[p].step = "fetched" /\ Save(Synced(ws, reader[p]))
        BY <2>3 DEF SyncIssue
      <3> QED
        BY <1>1, <3>1, FetchedNews, SyncMoves
    <2>4. ASSUME NEW k \in DOMAIN ws.proposals, Adopt(k, TRUE) \/ Adopt(k, FALSE)
          PROVE  Moved
      BY <1>1, <2>4, AdoptMoves
    <2> QED
      BY <1>8, <2>1, <2>2, <2>3, <2>4 DEF Reading
  <1>9. CASE Hearing
    <2>1. ASSUME NEW t \in Thread, NEW e \in events, Receive(t, e)
          PROVE  UNCHANGED ws
      BY <2>1 DEF Receive
    <2>2. ASSUME NEW t \in Thread, LogEvent(t) \/ DropEvent(t)
          PROVE  UNCHANGED ws
      BY <2>2 DEF LogEvent, DropEvent
    <2>3. ASSUME NEW t \in Thread, SyncEvent(t)
          PROVE  Moved
      <3>1. thread[t].step = "sync" /\ Save(Synced(ws, thread[t].event))
        BY <2>3 DEF SyncEvent
      <3> QED
        BY <1>1, <3>1, ThreadNews, SyncMoves
    <2> QED
      BY <1>9, <2>1, <2>2, <2>3 DEF Hearing
  <1>10. CASE UNCHANGED vars
    BY <1>10 DEF vars
  <1> QED
    BY <1>2, <1>3, <1>4, <1>5, <1>6, <1>7, <1>8, <1>9, <1>10 DEF Next

-----------------------------------------------------------------------------
(* Linear and what is heard from it *)

LEMMA IssueChanged ==
    ASSUME Typed, NEW x \in Issues, NEW n, n \in Nat,
           linear' = [linear EXCEPT ![x] = [at |-> linear[x].at + 1, title |-> n]],
           NEW gone \in BOOLEAN, events' = events \cup {Event(x, gone)}
    PROVE  linear' \in Seq(IssueType) /\ events' \subseteq EventType
  <1>1. linear \in Seq(IssueType) /\ linear[x] \in IssueType /\ x \in Nat \ {0}
    BY Contained DEF Typed, Issues
  <1>2. PICK r : r = [at |-> linear[x].at + 1, title |-> n]
    OBVIOUS
  <1>3. r \in IssueType
    BY <1>1, <1>2 DEF IssueType
  <1>4. linear' = [linear EXCEPT ![x] = r]
    BY <1>2
  <1>5. linear' \in Seq(IssueType) /\ linear'[x] = r
    BY <1>1, <1>3, <1>4, Changed DEF Issues
  <1>6. Event(x, gone) \in EventType
    BY <1>1, <1>3, <1>5 DEF Event, EventType, IssueType
  <1> QED
    BY <1>5, <1>6 DEF Typed

LEMMA TouchTyped ==
    ASSUME Typed, NEW x, Touch(x)
    PROVE  linear' \in Seq(IssueType) /\ events' \subseteq EventType
  <1>1. /\ x \in Issues /\ linear' = [linear EXCEPT ![x].at = @ + 1]
        /\ events' = events \cup {Event(x, FALSE)}
    BY DEF Touch
  <1>2. linear[x] \in IssueType
    BY <1>1, Contained DEF Typed, Issues
  <1>3. PICK n : n = linear[x].title
    OBVIOUS
  <1>4. n \in Nat /\ [linear[x] EXCEPT !.at = @ + 1] = [at |-> linear[x].at + 1, title |-> n]
    BY <1>2, <1>3 DEF IssueType
  <1>5. linear' = [linear EXCEPT ![x] = [at |-> linear[x].at + 1, title |-> n]]
    BY <1>1, <1>4
  <1> QED
    BY <1>1, <1>4, <1>5, IssueChanged

LEMMA EditTyped ==
    ASSUME Typed, NEW x \in Issues, NEW gone \in BOOLEAN, EditIssue(x, gone)
    PROVE  linear' \in Seq(IssueType) /\ events' \subseteq EventType
  <1>1. PICK n : n = IF gone THEN linear[x].title ELSE linear[x].at + 1
    OBVIOUS
  <1>2. linear[x] \in IssueType
    BY Contained DEF Typed, Issues
  <1>3. n \in Nat
    BY <1>1, <1>2 DEF IssueType
  <1>4. linear' = [linear EXCEPT ![x] = [at |-> linear[x].at + 1, title |-> n]]
    BY <1>1 DEF EditIssue
  <1> QED
    BY <1>3, <1>4, IssueChanged DEF EditIssue

LEMMA CarryOutTyped ==
    ASSUME Typed, NEW payload, NEW issue, CarryOut(payload, issue)
    PROVE  linear' \in Seq(IssueType) /\ events' \subseteq EventType
  <1>1. CASE UNCHANGED <<linear, events>>
    BY <1>1 DEF Typed
  <1>2. CASE Touch(issue)
    BY <1>2, TouchTyped
  <1>3. CASE linear' = Append(linear, [at |-> 1, title |-> 1]) /\ UNCHANGED events
    <2>1. PICK r : r = [at |-> 1, title |-> 1]
      OBVIOUS
    <2>2. r \in IssueType /\ linear' = Append(linear, r)
      BY <1>3, <2>1 DEF IssueType
    <2> QED
      BY <1>3, <2>2, Added DEF Typed
  <1> QED
    BY <1>1, <1>2, <1>3 DEF CarryOut

-----------------------------------------------------------------------------
(* Senders and their calls *)

(* No two senders hold the same call.                                      *)
CallsHeld ==
    /\ \A p \in Sender : Held(sender[p])
    /\ \A p, q \in Sender :
          p # q /\ InCall(sender[p]) /\ InCall(sender[q]) => sender[p].call # sender[q].call

(* A sender takes up an item.                                              *)
Loads(p) ==
  /\ sender[p].step = "idle"
  /\ \E r \in SenderType :
       /\ sender' = [sender EXCEPT ![p] = r] /\ UNCHANGED calls
       /\ r.step \in {"call", "answered"} /\ r.seen = ws /\ r.call = 0 /\ ~r.ok
       /\ r.item \in DOMAIN ws.items /\ ws.items[r.item].status = "queued"

(* The call of a sender fails.                                             *)
Fails(p) ==
    /\ sender[p].step = "call" /\ UNCHANGED calls
    /\ \E r \in SenderType :
          /\ sender' = [sender EXCEPT ![p] = r]
          /\ r.step = "answered" /\ r.item = sender[p].item /\ r.seen = sender[p].seen
          /\ r.call = sender[p].call /\ r.ok = sender[p].ok /\ r.issue = sender[p].issue

(* A sender calls Linear.                                                  *)
Calls(p) ==
    /\ sender[p].step = "call"
    /\ \E r \in SenderType, k \in CallType :
          /\ sender' = [sender EXCEPT ![p] = r] /\ calls' = Append(calls, k)
          /\ r.step = "answered" /\ r.item = sender[p].item /\ r.seen = sender[p].seen
          /\ r.call = Len(calls) + 1
          /\ k.item = r.item /\ k.payload = r.seen.items[r.item].payload /\ k.outcome = "open"
          /\ k.issue = r.issue

(* A sender ends, and with it its call.                                    *)
Ends(p, o) ==
    /\ sender[p].step # "idle"
    /\ sender' = [sender EXCEPT ![p] = Idle] /\ calls' = Closed(sender[p], o)

Quiet(p) == Loads(p) \/ Fails(p) \/ Calls(p) \/ Ends(p, "lost")

SendStep(p) == Loads(p) \/ Fails(p) \/ Calls(p) \/ \E o \in {"recorded", "failed", "lost"} : Ends(p, o)

LEMMA LoadLoads ==
    ASSUME Typed, NEW p \in Sender, NEW i \in DOMAIN ws.items, NEW h \in Human, LoadItem(p, i, h)
    PROVE  Loads(p)
  <1>1. PICK d : d = IF Sendable(ws, i) THEN "call" ELSE "answered"
    OBVIOUS
  <1>2. d \in {"call", "answered"} /\ i \in Nat /\ ws \in WorkspaceTypes
    BY <1>1, Parts, Contained DEF Typed, Sound
  <1>3. PICK r : r = [step |-> d, item |-> i, by |-> h, seen |-> ws, call |-> 0,
                      ok |-> FALSE, issue |-> 0]
    OBVIOUS
  <1>4. r \in SenderType
    BY <1>2, <1>3 DEF SenderType
  <1>5. /\ sender' = [sender EXCEPT ![p] = r] /\ calls' = calls
        /\ ws.items[i].status = "queued" /\ sender[p].step = "idle"
    BY <1>1, <1>3 DEF LoadItem, IsQueued
  <1> QED
    BY <1>2, <1>3, <1>4, <1>5 DEF Loads

LEMMA SenderIs ==
    ASSUME Typed, NEW p \in Sender, sender[p].step # "idle"
    PROVE  sender[p] \in [step : {"call", "answered"}, item : Nat, by : Human,
                          seen : WorkspaceTypes, call : Nat, ok : BOOLEAN, issue : Nat]
  BY DEF Typed, SenderType, Idle

LEMMA CallFailsFails ==
    ASSUME Typed, NEW p \in Sender, CallFails(p)
    PROVE  Fails(p)
  <1>1. /\ sender[p].step = "call" /\ sender' = [sender EXCEPT ![p].step = "answered"]
        /\ UNCHANGED calls
    BY DEF CallFails
  <1>2. PICK r : r = [sender[p] EXCEPT !.step = "answered"]
    OBVIOUS
  <1>3. /\ r \in SenderType /\ r.step = "answered"
        /\ r.item = sender[p].item /\ r.seen = sender[p].seen
        /\ r.call = sender[p].call /\ r.ok = sender[p].ok /\ r.issue = sender[p].issue
    BY <1>1, <1>2, SenderIs DEF SenderType
  <1>4. sender' = [sender EXCEPT ![p] = r]
    BY <1>1, <1>2
  <1> QED
    BY <1>1, <1>3, <1>4 DEF Fails

LEMMA CallCalls ==
    ASSUME DeliveryInv, NEW p \in Sender, NEW answered \in BOOLEAN, Call(p, answered)
    PROVE  Calls(p) /\ linear' \in Seq(IssueType) /\ events' \subseteq EventType
  <1>1. Typed /\ Holds(sender[p])
    BY DEF DeliveryInv
  <1>2. PICK issue \in 1..MaxIssues :
           /\ CarryOut(PayloadSent(sender[p].seen, sender[p].item), issue)
           /\ sender' = [sender EXCEPT ![p] = [sender[p] EXCEPT !.step = "answered", !.ok = answered,
                            !.call = Len(calls) + 1, !.issue = issue]]
           /\ calls' = Append(calls, [item |-> sender[p].item,
                                      payload |-> PayloadSent(sender[p].seen, sender[p].item),
                                      issue |-> issue, outcome |-> "open"])
    BY DEF Call
  <1>3. sender[p].step = "call"
    BY DEF Call
  <1>4. issue \in Nat
    BY <1>2
  <1>5. PICK n : n = Len(calls) + 1
    OBVIOUS
  <1>6. n \in Nat
    BY <1>1, <1>5, Contained DEF Typed
  <1>7. PICK r : r = [sender[p] EXCEPT !.step = "answered", !.ok = answered, !.call = n, !.issue = issue]
    OBVIOUS
  <1>8. /\ r \in SenderType /\ r.step = "answered" /\ r.call = n
        /\ r.item = sender[p].item /\ r.seen = sender[p].seen /\ r.issue = issue
    BY <1>1, <1>3, <1>4, <1>6, <1>7, SenderIs DEF SenderType
  <1>9. /\ Sound(r.seen) /\ r.item \in DOMAIN r.seen.items
    BY <1>1, <1>3, <1>8 DEF Holds
  <1>10. r.seen.items[r.item] \in ItemType /\ r.item \in Nat
    BY <1>9, Parts, Contained DEF Sound
  <1>11. PICK k : k = [item |-> r.item, payload |-> r.seen.items[r.item].payload,
                      issue |-> issue, outcome |-> "open"]
    OBVIOUS
  <1>12. k \in CallType
    BY <1>4, <1>10, <1>11 DEF CallType, ItemType
  <1>13. calls' = Append(calls, k)
    BY <1>2, <1>8, <1>11 DEF PayloadSent
  <1>14. sender' = [sender EXCEPT ![p] = r]
    BY <1>2, <1>5, <1>7
  <1>15. Calls(p)
    BY <1>3, <1>5, <1>8, <1>11, <1>12, <1>13, <1>14 DEF Calls
  <1> QED
    BY <1>1, <1>2, <1>15, CarryOutTyped

(* Whatever a step does to senders and calls, one sender does it, and most *)
(* steps of a sender record nothing.                                       *)
LEMMA NextQuiet ==
    ASSUME DeliveryInv, [Next]_vars
    PROVE  UNCHANGED <<sender, calls>> \/ \E p \in Sender : (Quiet(p) /\ UNCHANGED ws) \/ SettleItem(p)
  <1>1. Typed
    BY DEF DeliveryInv
  <1>2. CASE Sending
    <2>1. ASSUME NEW p \in Sender, NEW i \in DOMAIN ws.items, NEW h \in Human, LoadItem(p, i, h)
          PROVE  Quiet(p) /\ UNCHANGED ws
      <3>1. UNCHANGED ws
        BY <2>1 DEF LoadItem
      <3> QED
        BY <1>1, <2>1, <3>1, LoadLoads DEF Quiet
    <2>2. ASSUME NEW p \in Sender, CallFails(p)
          PROVE  Quiet(p) /\ UNCHANGED ws
      <3>1. UNCHANGED ws
        BY <2>2 DEF CallFails
      <3> QED
        BY <1>1, <2>2, <3>1, CallFailsFails DEF Quiet
    <2>3. ASSUME NEW p \in Sender, Call(p, TRUE) \/ Call(p, FALSE)
          PROVE  Quiet(p) /\ UNCHANGED ws
      <3>1. UNCHANGED ws
        BY <2>3 DEF Call
      <3> QED
        BY <2>3, <3>1, CallCalls DEF Quiet
    <2>4. ASSUME NEW p \in Sender, Forget(p)
          PROVE  Quiet(p) /\ UNCHANGED ws
      <3>1. Ends(p, "lost") /\ UNCHANGED ws
        BY <2>4 DEF Forget, Ends
      <3> QED
        BY <3>1 DEF Quiet
    <2> QED
      BY <1>2, <2>1, <2>2, <2>3, <2>4 DEF Sending
  <1>3. CASE ~Sending /\ Next
    BY <1>3 DEF Next, Connect, Progress, PlanForLinear, EditIssue, Reading, Fetch, Import, SyncIssue,
       DoneReading, Adopt, Hearing, Receive, SyncEvent, LogEvent, DropEvent
  <1>4. CASE UNCHANGED vars
    BY <1>4 DEF vars
  <1> QED
    BY <1>2, <1>3, <1>4

(* The end of a send ends its call.                                        *)
LEMMA SettleEnds ==
    ASSUME NEW p \in Sender, SettleItem(p)
    PROVE  Ends(p, IF sender[p].ok THEN "recorded" ELSE "failed")
  BY DEF SettleItem, Ends

LEMMA NextSends ==
    ASSUME DeliveryInv, [Next]_vars
    PROVE  UNCHANGED <<sender, calls>> \/ \E p \in Sender : SendStep(p)
  <1>1. ASSUME NEW p \in Sender, SettleItem(p)
        PROVE  SendStep(p)
    BY <1>1, SettleEnds DEF SendStep
  <1>2. ASSUME NEW p \in Sender, Quiet(p)
        PROVE  SendStep(p)
    BY <1>2 DEF SendStep, Quiet
  <1> QED
    BY <1>1, <1>2, NextQuiet

(* What Linear holds and what it sends out.                                *)
LEMMA NewsKept ==
    ASSUME DeliveryInv, [Next]_vars
    PROVE  linear' \in Seq(IssueType) /\ events' \subseteq EventType
  <1>1. Typed
    BY DEF DeliveryInv
  <1>2. ASSUME NEW x \in Issues, NEW gone \in BOOLEAN, EditIssue(x, gone)
        PROVE  linear' \in Seq(IssueType) /\ events' \subseteq EventType
    BY <1>1, <1>2, EditTyped
  <1>3. ASSUME NEW p \in Sender, Call(p, TRUE) \/ Call(p, FALSE)
        PROVE  linear' \in Seq(IssueType) /\ events' \subseteq EventType
    BY <1>3, CallCalls
  <1>4. CASE UNCHANGED <<linear, events>>
    BY <1>1, <1>4 DEF Typed
  <1>5. CASE Sending
    <2>1. ASSUME NEW p \in Sender, NEW i \in DOMAIN ws.items, NEW h \in Human, LoadItem(p, i, h)
          PROVE  UNCHANGED <<linear, events>>
      BY <2>1 DEF LoadItem, feed
    <2>2. ASSUME NEW p \in Sender, CallFails(p) \/ SettleItem(p) \/ Forget(p)
          PROVE  UNCHANGED <<linear, events>>
      BY <2>2 DEF CallFails, SettleItem, Forget, feed
    <2> QED
      BY <1>3, <1>4, <1>5, <2>1, <2>2 DEF Sending
  <1>6. CASE Reading
    BY <1>4, <1>6 DEF Reading, Fetch, Import, SyncIssue, DoneReading, Adopt, feed
  <1>7. CASE Hearing
    BY <1>4, <1>7 DEF Hearing, Receive, SyncEvent, LogEvent, DropEvent
  <1>8. CASE UNCHANGED vars
    BY <1>4, <1>8 DEF vars, feed
  <1> QED
    BY <1>2, <1>4, <1>5, <1>6, <1>7, <1>8 DEF Next, Connect, Progress, PlanForLinear, feed

(* What readers and handlers work on.                                      *)
LEMMA ReadersKept ==
    ASSUME Typed, [Next]_vars
    PROVE  reader' \in [Reader -> ReaderType] /\ thread' \in [Thread -> ThreadType]
  <1>1. /\ reader \in [Reader -> ReaderType] /\ thread \in [Thread -> ThreadType]
        /\ events \subseteq EventType
    BY DEF Typed
  <1>2. ASSUME NEW p \in Reader, NEW x \in Issues, Fetch(p, x)
        PROVE  reader' \in [Reader -> ReaderType] /\ UNCHANGED thread
    <2>1. linear[x] \in IssueType /\ x \in Nat \ {0}
      BY Contained DEF Typed, Issues
    <2>2. PICK r : r = [step |-> "fetched", issue |-> x, at |-> linear[x].at,
                        title |-> linear[x].title, gone |-> FALSE]
      OBVIOUS
    <2>3. r \in ReaderType
      BY <2>1, <2>2 DEF ReaderType, IssueType
    <2>4. reader' = [reader EXCEPT ![p] = r] /\ UNCHANGED thread
      BY <1>2, <2>2 DEF Fetch, feed
    <2> QED
      BY <1>1, <2>3, <2>4
  <1>3. ASSUME NEW p \in Reader, DoneReading(p)
        PROVE  reader' \in [Reader -> ReaderType] /\ UNCHANGED thread
    BY <1>1, <1>3 DEF DoneReading, ReaderType, feed
  <1>4. ASSUME NEW t \in Thread, NEW e \in events, Receive(t, e)
        PROVE  thread' \in [Thread -> ThreadType] /\ UNCHANGED reader
    <2>1. PICK r : r = [step |-> "sync", event |-> e]
      OBVIOUS
    <2>2. r \in ThreadType
      BY <1>1, <2>1 DEF ThreadType
    <2>3. thread' = [thread EXCEPT ![t] = r] /\ UNCHANGED reader
      BY <1>4, <2>1 DEF Receive
    <2> QED
      BY <1>1, <2>2, <2>3
  <1>5. ASSUME NEW t \in Thread, SyncEvent(t)
        PROVE  thread' \in [Thread -> ThreadType] /\ UNCHANGED reader
    <2>1. thread[t].step = "sync" /\ thread' = [thread EXCEPT ![t].step = "log"] /\ UNCHANGED reader
      BY <1>5 DEF SyncEvent
    <2>2. PICK r : r = [thread[t] EXCEPT !.step = "log"]
      OBVIOUS
    <2>3. r \in ThreadType
      BY <1>1, <2>1, <2>2 DEF ThreadType, Idle
    <2>4. thread' = [thread EXCEPT ![t] = r]
      BY <2>1, <2>2
    <2> QED
      BY <1>1, <2>1, <2>3, <2>4
  <1>6. ASSUME NEW t \in Thread, LogEvent(t) \/ DropEvent(t)
        PROVE  thread' \in [Thread -> ThreadType] /\ UNCHANGED reader
    BY <1>1, <1>6 DEF LogEvent, DropEvent, ThreadType
  <1>7. CASE UNCHANGED <<reader, thread>>
    BY <1>1, <1>7
  <1>8. CASE Sending
    <2>1. ASSUME NEW p \in Sender, NEW i \in DOMAIN ws.items, NEW h \in Human, LoadItem(p, i, h)
          PROVE  UNCHANGED <<reader, thread>>
      BY <2>1 DEF LoadItem, feed
    <2>2. ASSUME NEW p \in Sender,
                 CallFails(p) \/ Call(p, TRUE) \/ Call(p, FALSE) \/ SettleItem(p) \/ Forget(p)
          PROVE  UNCHANGED <<reader, thread>>
      BY <2>2 DEF CallFails, Call, SettleItem, Forget, feed
    <2> QED
      BY <1>7, <1>8, <2>1, <2>2 DEF Sending
  <1>9. CASE Reading
    <2>1. ASSUME NEW k \in DOMAIN ws.proposals, Adopt(k, TRUE) \/ Adopt(k, FALSE)
          PROVE  UNCHANGED <<reader, thread>>
      BY <2>1 DEF Adopt, feed
    <2> QED
      BY <1>1, <1>2, <1>3, <1>7, <1>9, <2>1 DEF Reading, Import, SyncIssue
  <1>10. CASE Hearing
    BY <1>1, <1>4, <1>5, <1>6, <1>10 DEF Hearing
  <1>11. CASE UNCHANGED vars
    BY <1>7, <1>11 DEF vars, feed
  <1> QED
    BY <1>7, <1>8, <1>9, <1>10, <1>11 DEF Next, Connect, Progress, PlanForLinear, EditIssue, feed

-----------------------------------------------------------------------------
(* What a step of a sender leaves of the calls.                            *)

LEMMA EndsCalls ==
    ASSUME Typed, CallsHeld, NEW p \in Sender, NEW o \in {"recorded", "failed", "lost"}, Ends(p, o)
    PROVE  /\ calls' \in Seq(CallType) /\ DOMAIN calls' = DOMAIN calls
           /\ \A k \in DOMAIN calls :
                 /\ calls'[k].item = calls[k].item /\ calls'[k].payload = calls[k].payload
                 /\ calls'[k].issue = calls[k].issue
           /\ \A k \in DOMAIN calls : k # sender[p].call => calls'[k] = calls[k]
           /\ InCall(sender[p]) => calls'[sender[p].call].outcome = o
  <1>1. calls \in Seq(CallType) /\ Held(sender[p]) /\ sender[p].step # "idle"
    BY DEF Typed, CallsHeld, Ends
  <1>2. CASE sender[p].call = 0
    <2>1. UNCHANGED calls
      BY <1>2 DEF Ends, Closed
    <2> QED
      BY <1>1, <1>2, <2>1 DEF InCall
  <1>3. CASE sender[p].call # 0
    <2>1. PICK k : k = sender[p].call
      OBVIOUS
    <2>2. k \in DOMAIN calls /\ calls[k] \in CallType
      BY <1>1, <1>3, <2>1, Contained DEF Held, InCall
    <2>3. PICK r : r = [calls[k] EXCEPT !.outcome = o]
      OBVIOUS
    <2>4. /\ r \in CallType /\ r.item = calls[k].item /\ r.payload = calls[k].payload
          /\ r.issue = calls[k].issue /\ r.outcome = o
      BY <2>2, <2>3 DEF CallType
    <2>5. calls' = [calls EXCEPT ![k] = r]
      BY <1>3, <2>1, <2>3 DEF Ends, Closed
    <2>6. /\ calls' \in Seq(CallType) /\ DOMAIN calls' = DOMAIN calls /\ calls'[k] = r
          /\ \A l \in DOMAIN calls : l # k => calls'[l] = calls[l]
      BY <1>1, <2>2, <2>4, <2>5, Changed
    <2> QED
      BY <2>1, <2>4, <2>6
  <1> QED
    BY <1>2, <1>3

LEMMA CallsGrow ==
    ASSUME Typed, NEW p \in Sender, Calls(p)
    PROVE  \E r \in SenderType, k \in CallType :
              /\ sender' = [sender EXCEPT ![p] = r]
              /\ r.step = "answered" /\ r.item = sender[p].item /\ r.seen = sender[p].seen
              /\ r.call = Len(calls) + 1 /\ r.call \notin DOMAIN calls /\ r.call # 0
              /\ k.item = r.item /\ k.payload = r.seen.items[r.item].payload /\ k.outcome = "open"
              /\ k.issue = r.issue
              /\ calls' \in Seq(CallType) /\ DOMAIN calls' = DOMAIN calls \cup {r.call}
              /\ calls'[r.call] = k
              /\ \A l \in DOMAIN calls : calls'[l] = calls[l]
  <1>1. PICK r \in SenderType, k \in CallType :
          /\ sender' = [sender EXCEPT ![p] = r] /\ calls' = Append(calls, k)
          /\ r.step = "answered" /\ r.item = sender[p].item /\ r.seen = sender[p].seen
          /\ r.call = Len(calls) + 1
          /\ k.item = r.item /\ k.payload = r.seen.items[r.item].payload /\ k.outcome = "open"
          /\ k.issue = r.issue
    BY DEF Calls
  <1>2. calls \in Seq(CallType)
    BY DEF Typed
  <1>3. /\ calls' \in Seq(CallType) /\ DOMAIN calls' = DOMAIN calls \cup {r.call}
        /\ r.call \notin DOMAIN calls /\ calls'[r.call] = k
        /\ \A l \in DOMAIN calls : calls'[l] = calls[l]
    BY <1>1, <1>2, Added
  <1>4. Len(calls) \in Nat /\ r.call # 0
    BY <1>1, <1>2, Contained
  <1> QED
    BY <1>1, <1>3, <1>4

(* Types of senders and calls.                                             *)
LEMMA SendsTyped ==
    ASSUME Typed, CallsHeld, UNCHANGED <<sender, calls>> \/ \E p \in Sender : SendStep(p)
    PROVE  sender' \in [Sender -> SenderType] /\ calls' \in Seq(CallType)
  <1>1. sender \in [Sender -> SenderType] /\ calls \in Seq(CallType) /\ Idle \in SenderType
    BY DEF Typed, SenderType
  <1>2. CASE UNCHANGED <<sender, calls>>
    BY <1>1, <1>2
  <1>3. ASSUME NEW p \in Sender, Loads(p) \/ Fails(p)
        PROVE  sender' \in [Sender -> SenderType] /\ calls' \in Seq(CallType)
    BY <1>1, <1>3 DEF Loads, Fails
  <1>4. ASSUME NEW p \in Sender, Calls(p)
        PROVE  sender' \in [Sender -> SenderType] /\ calls' \in Seq(CallType)
    BY <1>1, <1>4, CallsGrow
  <1>5. ASSUME NEW p \in Sender, NEW o \in {"recorded", "failed", "lost"}, Ends(p, o)
        PROVE  sender' \in [Sender -> SenderType] /\ calls' \in Seq(CallType)
    BY <1>1, <1>5, EndsCalls DEF Ends
  <1> QED
    BY <1>2, <1>3, <1>4, <1>5 DEF SendStep

(* What has been called stays in the outbox.                               *)
LEMMA CallsKnownKept ==
    ASSUME Typed, CallsHeld, CallsKnown, \A p \in Sender : Holds(sender[p]),
           ItemsKept(ws, ws'), UNCHANGED <<sender, calls>> \/ \E p \in Sender : SendStep(p)
    PROVE  CallsKnown'
  <1>1. CASE UNCHANGED calls
    BY <1>1 DEF CallsKnown, ItemsKept
  <1>2. ASSUME NEW p \in Sender, Calls(p)
        PROVE  CallsKnown'
    <2>1. PICK r \in SenderType, k \in CallType :
              /\ sender' = [sender EXCEPT ![p] = r]
              /\ r.step = "answered" /\ r.item = sender[p].item /\ r.seen = sender[p].seen
              /\ r.call = Len(calls) + 1 /\ r.call \notin DOMAIN calls /\ r.call # 0
              /\ k.item = r.item /\ k.payload = r.seen.items[r.item].payload /\ k.outcome = "open"
              /\ k.issue = r.issue
              /\ calls' \in Seq(CallType) /\ DOMAIN calls' = DOMAIN calls \cup {r.call}
              /\ calls'[r.call] = k
              /\ \A l \in DOMAIN calls : calls'[l] = calls[l]
      BY <1>2, CallsGrow
    <2>2. sender[p].step # "idle"
      BY <1>2 DEF Calls
    <2>3. r.item \in DOMAIN ws.items /\ ws.items[r.item].payload = k.payload
      BY <2>1, <2>2 DEF Holds, ItemsKept
    <2> QED
      BY <2>1, <2>3 DEF CallsKnown, ItemsKept
  <1>3. ASSUME NEW p \in Sender, NEW o \in {"recorded", "failed", "lost"}, Ends(p, o)
        PROVE  CallsKnown'
    <2>1. /\ DOMAIN calls' = DOMAIN calls
          /\ \A k \in DOMAIN calls : /\ calls'[k].item = calls[k].item
                                     /\ calls'[k].payload = calls[k].payload
      BY <1>3, EndsCalls
    <2> QED
      BY <2>1 DEF CallsKnown, ItemsKept
  <1> QED
    BY <1>1, <1>2, <1>3 DEF SendStep, Loads, Fails

(* What a sender loaded still is in the outbox.                            *)
LEMMA HoldsKept ==
    ASSUME Typed, \A p \in Sender : Holds(sender[p]), ItemsKept(ws, ws'),
           UNCHANGED <<sender, calls>> \/ \E p \in Sender : SendStep(p)
    PROVE  \A p \in Sender : Holds(sender[p])'
  <1>1. sender \in [Sender -> SenderType] /\ Sound(ws)
    BY DEF Typed
  <1>2. \A p \in Sender : sender'[p] = sender[p] => Holds(sender[p])'
    BY DEF Holds, ItemsKept
  <1>3. ASSUME NEW p \in Sender, NEW r, sender' = [sender EXCEPT ![p] = r],
               r.step = "idle" \/ (Sound(r.seen) /\ r.item \in DOMAIN r.seen.items /\ ItemsKept(r.seen, ws))
        PROVE  \A q \in Sender : Holds(sender[q])'
    <2>1. sender'[p] = r /\ \A q \in Sender : q # p => sender'[q] = sender[q]
      BY <1>1, <1>3
    <2>2. Holds(sender[p])'
      BY <1>3, <2>1 DEF Holds, ItemsKept
    <2> QED
      BY <1>2, <2>1, <2>2
  <1>4. ASSUME NEW p \in Sender, Loads(p)
        PROVE  \A q \in Sender : Holds(sender[q])'
    <2>1. PICK r \in SenderType :
             /\ sender' = [sender EXCEPT ![p] = r] /\ r.seen = ws /\ r.item \in DOMAIN ws.items
      BY <1>4 DEF Loads
    <2>2. ItemsKept(r.seen, ws)
      BY <2>1 DEF ItemsKept
    <2> QED
      BY <1>1, <1>3, <2>1, <2>2
  <1>5. ASSUME NEW p \in Sender, Fails(p) \/ Calls(p)
        PROVE  \A q \in Sender : Holds(sender[q])'
    <2>1. PICK r \in SenderType :
             /\ sender' = [sender EXCEPT ![p] = r]
             /\ r.seen = sender[p].seen /\ r.item = sender[p].item
      BY <1>5 DEF Fails, Calls
    <2>2. sender[p].step # "idle"
      BY <1>5 DEF Fails, Calls
    <2> QED
      BY <1>3, <2>1, <2>2 DEF Holds
  <1>6. ASSUME NEW p \in Sender, NEW o, Ends(p, o)
        PROVE  \A q \in Sender : Holds(sender[q])'
    <2>1. sender' = [sender EXCEPT ![p] = Idle] /\ Idle.step = "idle"
      BY <1>6 DEF Ends, Idle
    <2> QED
      BY <1>3, <2>1
  <1>7. CASE UNCHANGED <<sender, calls>>
    BY <1>2, <1>7
  <1> QED
    BY <1>4, <1>5, <1>6, <1>7 DEF SendStep

(* A call stays in the hands of one sender until its outcome is written.   *)
LEMMA CallsHeldKept ==
    ASSUME Typed, CallsHeld, UNCHANGED <<sender, calls>> \/ \E p \in Sender : SendStep(p)
    PROVE  CallsHeld'
  <1>1. sender \in [Sender -> SenderType] /\ \A p \in Sender : Held(sender[p])
    BY DEF Typed, CallsHeld
  <1>2. CASE UNCHANGED <<sender, calls>>
    BY <1>2 DEF CallsHeld, Held, InCall
  <1>3. ASSUME NEW p \in Sender, NEW r, sender' = [sender EXCEPT ![p] = r],
               Held(r)', InCall(r) => \A q \in Sender : q # p /\ InCall(sender[q]) => sender[q].call # r.call,
               \A q \in Sender : q # p /\ InCall(sender[q]) =>
                  /\ sender[q].call \in DOMAIN calls' 
                  /\ calls'[sender[q].call] = calls[sender[q].call]
        PROVE  CallsHeld'
    <2>1. sender'[p] = r /\ \A q \in Sender : q # p => sender'[q] = sender[q]
      BY <1>1, <1>3
    <2>2. ASSUME NEW q \in Sender
          PROVE  Held(sender[q])'
      <3>1. CASE q = p
        BY <1>3, <2>1, <3>1 DEF Held, InCall
      <3>2. CASE q # p
        BY <1>1, <1>3, <2>1, <3>2 DEF Held, InCall
      <3> QED
        BY <3>1, <3>2
    <2>3. ASSUME NEW q \in Sender, NEW x \in Sender, q # x,
                 InCall(sender[q])', InCall(sender[x])'
          PROVE  sender'[q].call # sender'[x].call
      <3>1. CASE q # p /\ x # p
        BY <2>1, <2>3, <3>1 DEF CallsHeld, InCall
      <3>2. CASE q = p \/ x = p
        BY <1>3, <2>1, <2>3, <3>2 DEF InCall
      <3> QED
        BY <3>1, <3>2
    <2> QED
      BY <2>2, <2>3 DEF CallsHeld
  <1>4. ASSUME NEW p \in Sender, Loads(p)
        PROVE  CallsHeld'
    <2>1. PICK r \in SenderType :
             /\ sender' = [sender EXCEPT ![p] = r] /\ UNCHANGED calls
             /\ r.seen = ws /\ r.call = 0 /\ ~r.ok
             /\ ws.items[r.item].status = "queued"
      BY <1>4 DEF Loads
    <2>2. Held(r)' /\ ~InCall(r)
      BY <2>1 DEF Held, InCall
    <2> QED
      BY <1>1, <1>3, <2>1, <2>2 DEF Held
  <1>5. ASSUME NEW p \in Sender, Fails(p)
        PROVE  CallsHeld'
    <2>1. PICK r \in SenderType :
             /\ sender' = [sender EXCEPT ![p] = r] /\ UNCHANGED calls
             /\ r.step = "answered" /\ r.item = sender[p].item /\ r.seen = sender[p].seen
             /\ r.call = sender[p].call /\ r.ok = sender[p].ok /\ r.issue = sender[p].issue
      BY <1>5 DEF Fails
    <2>2. sender[p].step = "call"
      BY <1>5 DEF Fails
    <2>3. Held(r)' /\ ~InCall(r)
      BY <1>1, <2>1, <2>2 DEF Held, InCall
    <2> QED
      BY <1>1, <1>3, <2>1, <2>3 DEF Held
  <1>6. ASSUME NEW p \in Sender, Calls(p)
        PROVE  CallsHeld'
    <2>1. PICK r \in SenderType, k \in CallType :
              /\ sender' = [sender EXCEPT ![p] = r]
              /\ r.step = "answered" /\ r.item = sender[p].item /\ r.seen = sender[p].seen
              /\ r.call \notin DOMAIN calls /\ r.call # 0
              /\ k.item = r.item /\ k.outcome = "open" /\ k.issue = r.issue
              /\ DOMAIN calls' = DOMAIN calls \cup {r.call} /\ calls'[r.call] = k
              /\ \A l \in DOMAIN calls : calls'[l] = calls[l]
      BY <1>6, CallsGrow
    <2>2. sender[p].step = "call"
      BY <1>6 DEF Calls
    <2>3. Held(r)'
      BY <1>1, <2>1, <2>2 DEF Held, InCall
    <2>4. \A q \in Sender : InCall(sender[q]) => sender[q].call \in DOMAIN calls
      BY <1>1 DEF Held
    <2>5. \A q \in Sender : q # p /\ InCall(sender[q]) =>
             /\ sender[q].call \in DOMAIN calls' /\ calls'[sender[q].call] = calls[sender[q].call]
             /\ sender[q].call # r.call
      BY <2>1, <2>4
    <2> QED
      BY <1>3, <2>1, <2>3, <2>5
  <1>7. ASSUME NEW p \in Sender, NEW o \in {"recorded", "failed", "lost"}, Ends(p, o)
        PROVE  CallsHeld'
    <2>1. /\ sender' = [sender EXCEPT ![p] = Idle] /\ Idle.step = "idle" /\ sender[p].step # "idle"
      BY <1>7 DEF Ends, Idle
    <2>2. /\ DOMAIN calls' = DOMAIN calls
          /\ \A k \in DOMAIN calls : k # sender[p].call => calls'[k] = calls[k]
      BY <1>7, EndsCalls
    <2>3. Held(Idle)' /\ ~InCall(Idle)
      BY <2>1 DEF Held, InCall
    <2>4. ASSUME NEW q \in Sender, q # p, InCall(sender[q])
          PROVE  sender[q].call \in DOMAIN calls /\ sender[q].call # sender[p].call
      <3>1. sender[q].call \in DOMAIN calls /\ sender[q].call # 0
        BY <1>1, <2>4 DEF Held, InCall
      <3>2. CASE sender[p].call = 0
        BY <3>1, <3>2
      <3>3. CASE sender[p].call # 0
        BY <2>1, <2>4, <3>1, <3>3 DEF CallsHeld, InCall
      <3> QED
        BY <3>2, <3>3, <3>1
    <2> QED
      BY <1>3, <2>1, <2>2, <2>3, <2>4
  <1> QED
    BY <1>2, <1>4, <1>5, <1>6, <1>7 DEF SendStep

-----------------------------------------------------------------------------
(* The invariant *)

OutboxInv == DeliveryInv /\ CallsHeld

LEMMA OutboxStarts ==
    ASSUME Init
    PROVE  OutboxInv
  <1>1. PICK v : v = [status |-> "active", title |-> 0, needs |-> "deploy",
                      ref |-> 0, at |-> 0, issue |-> 0]
    OBVIOUS
  <1>2. v \in WorkType
    BY <1>1 DEF WorkType
  <1>3. PICK q : q = <<v>>
    OBVIOUS
  <1>4. q \in Seq(WorkType)
    BY <1>2, <1>3
  <1>5. ws = [work |-> q, proposals |-> <<>>, actions |-> {}, plans |-> <<>>, items |-> <<>>]
    BY <1>1, <1>3 DEF Init
  <1>6. ws \in WorkspaceTypes /\ ws.plans = <<>> /\ ws.items = <<>> /\ ws.proposals = <<>>
    BY <1>4, <1>5, TypesAre
  <1>7. Sound(ws) /\ Valid(ws) /\ QueuedOpen(ws)
    BY <1>6 DEF Sound, Refers, Valid, OneItemPerPlan, QueuedOpen
  <1>8. PICK r : r = [at |-> 1, title |-> 1]
    OBVIOUS
  <1>9. r \in IssueType
    BY <1>8 DEF IssueType
  <1>10. linear = <<r>>
    BY <1>8 DEF Init
  <1>11. linear \in Seq(IssueType)
    BY <1>9, <1>10
  <1>12. /\ calls \in Seq(CallType) /\ calls = <<>>
         /\ sender \in [Sender -> SenderType] /\ \A p \in Sender : sender[p].step = "idle"
         /\ reader \in [Reader -> ReaderType] /\ thread \in [Thread -> ThreadType]
         /\ events \subseteq EventType
    BY DEF Init, SenderType, ReaderType, ThreadType, Idle
  <1>13. Typed
    BY <1>7, <1>11, <1>12 DEF Typed
  <1>14. CallsKnown /\ CallsHeld /\ \A p \in Sender : Holds(sender[p])
    BY <1>12 DEF CallsKnown, CallsHeld, Holds, Held, InCall
  <1> QED
    BY <1>7, <1>13, <1>14 DEF OutboxInv, DeliveryInv

LEMMA NextWrites ==
    ASSUME DeliveryInv, [Next]_vars
    PROVE  /\ Sound(ws)' /\ Valid(ws)' /\ QueuedOpen(ws)'
           /\ ItemsKept(ws, ws') /\ PlansKept(ws, ws')
  <1>1. Sound(ws) /\ Valid(ws) /\ QueuedOpen(ws)
    BY DEF DeliveryInv, Typed
  <1>2. CASE UNCHANGED ws
    BY <1>1, <1>2 DEF ItemsKept, PlansKept
  <1>3. CASE Moved
    <2>1. PICK t : t = ws'
      OBVIOUS
    <2>2. PlansKept(ws, t)
      BY <1>1, <1>3, <2>1, ShiftsKept DEF Moved
    <2> QED
      BY <1>1, <1>3, <2>1, <2>2 DEF Moved, Written, Forward
  <1>4. ASSUME NEW p \in Sender, SettleItem(p)
        PROVE  Written /\ PlansKept(ws, ws')
    BY <1>4, SettleMoves DEF PlansKept
  <1>5. CASE Written /\ PlansKept(ws, ws')
    BY <1>1, <1>5 DEF Written, Forward
  <1> QED
    BY <1>2, <1>3, <1>4, <1>5, NextMoves

LEMMA OutboxStep ==
    ASSUME OutboxInv, [Next]_vars
    PROVE  OutboxInv'
  <1>1. DeliveryInv /\ Typed /\ CallsHeld /\ CallsKnown /\ \A p \in Sender : Holds(sender[p])
    BY DEF OutboxInv, DeliveryInv
  <1>2. UNCHANGED <<sender, calls>> \/ \E p \in Sender : SendStep(p)
    BY <1>1, NextSends
  <1>3. Sound(ws)' /\ Valid(ws)' /\ QueuedOpen(ws)' /\ ItemsKept(ws, ws')
    BY <1>1, NextWrites
  <1>4. sender' \in [Sender -> SenderType] /\ calls' \in Seq(CallType)
    BY <1>1, <1>2, SendsTyped
  <1>5. linear' \in Seq(IssueType) /\ events' \subseteq EventType
    BY <1>1, NewsKept
  <1>6. reader' \in [Reader -> ReaderType] /\ thread' \in [Thread -> ThreadType]
    BY <1>1, ReadersKept
  <1>7. Typed'
    BY <1>3, <1>4, <1>5, <1>6 DEF Typed
  <1>8. CallsKnown'
    BY <1>1, <1>2, <1>3, CallsKnownKept
  <1>9. (\A p \in Sender : Holds(sender[p]))'
    BY <1>1, <1>2, <1>3, HoldsKept
  <1>10. CallsHeld'
    BY <1>1, <1>2, CallsHeldKept
  <1> QED
    BY <1>3, <1>7, <1>8, <1>9, <1>10 DEF OutboxInv, DeliveryInv

LEMMA OutboxHolds == Spec => []OutboxInv
  <1>1. Init => OutboxInv
    BY OutboxStarts
  <1>2. OutboxInv /\ [Next]_vars => OutboxInv'
    BY OutboxStep
  <1> QED
    BY <1>1, <1>2, PTL DEF Spec

(* The state keeps its shape and every reference leads somewhere           *)
(* (integrations.py, linear_adapter.py, linear_webhook.py).                *)
THEOREM DeliveryTypesCorrect == Spec => []DeliveryTypeOK
  <1>1. OutboxInv => DeliveryTypeOK
    <2> SUFFICES ASSUME OutboxInv PROVE DeliveryTypeOK
      OBVIOUS
    <2>1. Typed /\ Sound(ws) /\ CallsKnown
      BY DEF OutboxInv, DeliveryInv, Typed
    <2>2. \A p \in Sender : sender[p].step \in {"idle", "call", "answered"}
      BY <2>1 DEF Typed, SenderType, Idle
    <2>3. linear \in Seq([at : Nat, title : Nat])
      BY <2>1 DEF Typed, IssueType
    <2>4. calls \in Seq([item : Nat, payload : Payload,
                         issue : Nat, outcome : {"open", "recorded", "failed", "lost"}])
      BY <2>1 DEF Typed, CallType
    <2> QED
      BY <2>1, <2>2, <2>3, <2>4 DEF DeliveryTypeOK, Sound, Refers, CallsKnown
  <1> QED
    BY <1>1, OutboxHolds, PTL

(* Whatever Linear was asked for is word for word what a capable human     *)
(* approved, and the humans who queued it and recorded its end could have  *)
(* approved it too (linear_send, check_integration_outbox).                *)
THEOREM CallsAreApproved == Spec => []CallsWereApproved
  <1>1. OutboxInv => CallsWereApproved
    <2> SUFFICES ASSUME OutboxInv, NEW c \in DOMAIN calls
                 PROVE  LET i == ws.items[calls[c].item]
                            plan == ws.plans[i.plan]
                        IN  /\ plan.status = "approved" /\ calls[c].payload = plan.payload
                            /\ \A h \in {plan.by, i.by} \cup ({i.ender} \ {Nobody}) :
                                  CanDecide(h, Needs(ws, plan.work))
      BY DEF CallsWereApproved
    <2> DEFINE i == ws.items[calls[c].item]
               plan == ws.plans[i.plan]
    <2>1. /\ calls[c].item \in DOMAIN ws.items /\ calls[c].payload = i.payload
          /\ Valid(ws) /\ QueuedOpen(ws) /\ Sound(ws)
      BY DEF OutboxInv, DeliveryInv, CallsKnown, Typed
    <2>2. i.plan \in DOMAIN ws.plans
      BY <2>1 DEF Sound, Refers
    <2>3. PlanValid(ws, plan) /\ ItemValid(ws, i)
      BY <2>1, <2>2 DEF Valid
    <2>4. i.status = "queued" => i.ender = Nobody
      BY <2>1 DEF QueuedOpen
    <2> HIDE DEF i
    <2>5. /\ plan.status = "approved" /\ i.payload = plan.payload
          /\ CanDecide(i.by, Needs(ws, plan.work))
          /\ i.status # "queued" => CanDecide(i.ender, Needs(ws, plan.work))
      BY <2>3 DEF ItemValid
    <2> HIDE DEF plan
    <2>6. CanDecide(plan.by, Needs(ws, plan.work))
      BY <2>3, <2>5 DEF PlanValid, Decisions
    <2>7. \A h \in {plan.by, i.by} \cup ({i.ender} \ {Nobody}) : CanDecide(h, Needs(ws, plan.work))
      BY <2>4, <2>5, <2>6
    <2> QED
      BY <2>1, <2>5, <2>7 DEF i, plan
  <1> QED
    BY <1>1, OutboxHolds, PTL

-----------------------------------------------------------------------------
(* What is recorded *)

(* The calls of an item that were recorded: one if it was sent, else none. *)
Recorded(i) == {c \in DOMAIN calls : calls[c].item = i /\ calls[c].outcome = "recorded"}

RecordedOnce ==
    \A i \in DOMAIN ws.items :
       IF ws.items[i].status = "sent" THEN \E c : Recorded(i) = {c} ELSE Recorded(i) = {}

(* The end of a send changes its own item and no other.                    *)
LEMMA SettleItems ==
    ASSUME DeliveryInv, NEW p \in Sender, SettleItem(p)
    PROVE  LET c == sender[p]
           IN  /\ c.step = "answered" /\ ws = c.seen /\ c.item \in DOMAIN ws.items
               /\ ws'.plans = ws.plans /\ DOMAIN ws'.items = DOMAIN ws.items
               /\ ws'.items[c.item].plan = ws.items[c.item].plan
               /\ ws'.items[c.item].status = (IF c.ok THEN "sent" ELSE "failed")
               /\ \A i \in DOMAIN ws.items : i # c.item => ws'.items[i] = ws.items[i]
  <1> DEFINE c == sender[p]
             d == IF c.ok THEN "sent" ELSE "failed"
  <1>1. c.step = "answered" /\ ws = c.seen /\ ws' = Outcome(ws, c)
    BY DEF SettleItem, Unchanged, Save
  <1>2. c # Idle
    BY <1>1 DEF Idle
  <1>3. c \in SenderType /\ Holds(c) /\ Sound(ws)
    BY DEF DeliveryInv, Typed
  <1>4. c.item \in DOMAIN ws.items /\ c.by \in Human /\ c.issue \in Nat
    BY <1>1, <1>2, <1>3 DEF Holds, SenderType
  <1>5. WorkOf(ws, c.item) \in DOMAIN ws.work
    BY <1>3, <1>4 DEF WorkOf, Sound, Refers
  <1>6. PICK u : u = Ended(ws, c.item, d, c.by)
    OBVIOUS
  <1>7. d \in {"sent", "failed", "canceled"}
    OBVIOUS
  <1> HIDE DEF d
  <1>8. /\ Sound(u) /\ u.work = ws.work /\ u.plans = ws.plans /\ Forward(ws, u)
        /\ DOMAIN u.items = DOMAIN ws.items /\ u.items[c.item].status = d
        /\ \A i \in DOMAIN ws.items : i # c.item => u.items[i] = ws.items[i]
    BY <1>3, <1>4, <1>6, <1>7, EndedForward
  <1>9. ws' = u \/ ws' = Linked(u, WorkOf(ws, c.item), c.issue)
    BY <1>1, <1>6 DEF Outcome, d
  <1>10. ws'.items = u.items /\ ws'.plans = u.plans
    BY <1>4, <1>5, <1>8, <1>9, LinkedSound
  <1>11. u.items[c.item].plan = ws.items[c.item].plan
    BY <1>4, <1>8 DEF Forward, ItemsKept
  <1> QED
    BY <1>1, <1>4, <1>8, <1>10, <1>11 DEF d

(* A call that ends without success is not recorded.                       *)
LEMMA EndRecords ==
    ASSUME Typed, CallsHeld, NEW p \in Sender, NEW o \in {"failed", "lost"}, Ends(p, o), NEW i
    PROVE  Recorded(i)' = Recorded(i)
  <1> DEFINE x == sender[p].call
  <1>1. /\ DOMAIN calls' = DOMAIN calls
        /\ \A k \in DOMAIN calls : k # x => calls'[k] = calls[k]
        /\ InCall(sender[p]) => calls'[x].outcome = o
    BY EndsCalls
  <1>2. CASE InCall(sender[p])
    <2>1. x \in DOMAIN calls /\ calls[x].outcome = "open"
      BY <1>2 DEF CallsHeld, Held
    <2> QED
      BY <1>1, <1>2, <2>1 DEF Recorded
  <1>3. CASE ~InCall(sender[p])
    <2>1. UNCHANGED calls
      BY <1>3 DEF Ends, Closed, InCall
    <2> QED
      BY <2>1 DEF Recorded
  <1> QED
    BY <1>2, <1>3

(* Nothing is recorded but by the end of a send.                           *)
LEMMA QuietRecords ==
    ASSUME Typed, CallsHeld, UNCHANGED <<sender, calls>> \/ \E p \in Sender : Quiet(p), NEW i
    PROVE  Recorded(i)' = Recorded(i)
  <1>1. CASE UNCHANGED calls
    BY <1>1 DEF Recorded
  <1>2. ASSUME NEW p \in Sender, Calls(p)
        PROVE  Recorded(i)' = Recorded(i)
    <2>1. PICK r \in SenderType, k \in CallType :
              /\ k.outcome = "open" /\ r.call \notin DOMAIN calls
              /\ DOMAIN calls' = DOMAIN calls \cup {r.call} /\ calls'[r.call] = k
              /\ \A l \in DOMAIN calls : calls'[l] = calls[l]
      BY <1>2, CallsGrow
    <2> QED
      BY <2>1 DEF Recorded
  <1>3. ASSUME NEW p \in Sender, Ends(p, "lost")
        PROVE  Recorded(i)' = Recorded(i)
    BY <1>3, EndRecords
  <1> QED
    BY <1>1, <1>2, <1>3 DEF Quiet, Loads, Fails

LEMMA RecordedOnceKept ==
    ASSUME OutboxInv, RecordedOnce, [Next]_vars
    PROVE  RecordedOnce'
  <1>1. DeliveryInv /\ Typed /\ CallsHeld /\ CallsKnown
    BY DEF OutboxInv, DeliveryInv
  <1>2. CASE \E p \in Sender : SettleItem(p)
    <2>1. PICK p \in Sender : SettleItem(p)
      BY <1>2
    <2> DEFINE c == sender[p]
    <2>2. /\ c.step = "answered" /\ ws = c.seen /\ c.item \in DOMAIN ws.items
          /\ DOMAIN ws'.items = DOMAIN ws.items
          /\ ws'.items[c.item].status = (IF c.ok THEN "sent" ELSE "failed")
          /\ \A i \in DOMAIN ws.items : i # c.item => ws'.items[i] = ws.items[i]
      BY <1>1, <2>1, SettleItems
    <2>3. Held(c)
      BY <1>1 DEF CallsHeld
    <2>4. ws.items[c.item].status = "queued"
      BY <2>2, <2>3 DEF Held
    <2>5. Recorded(c.item) = {}
      BY <2>2, <2>4 DEF RecordedOnce
    <2>6. CASE c.ok
      <3>1. InCall(c) /\ c.call \in DOMAIN calls /\ calls[c.call].item = c.item
        BY <2>2, <2>3, <2>6 DEF Held, InCall
      <3>2. Ends(p, "recorded")
        BY <2>1, <2>6, SettleEnds
      <3>3. /\ DOMAIN calls' = DOMAIN calls /\ calls'[c.call].outcome = "recorded"
            /\ calls'[c.call].item = c.item
            /\ \A k \in DOMAIN calls : k # c.call => calls'[k] = calls[k]
        BY <1>1, <3>1, <3>2, EndsCalls
      <3>4. PICK j, k : j = c.item /\ k = c.call
        OBVIOUS
      <3> HIDE DEF c
      <3>5. Recorded(j)' = {k}
        BY <2>5, <3>1, <3>3, <3>4 DEF Recorded
      <3>6. \A i : i # j => Recorded(i)' = Recorded(i)
        BY <3>1, <3>3, <3>4 DEF Recorded
      <3>7. ASSUME NEW i \in DOMAIN ws.items
            PROVE  IF ws'.items[i].status = "sent" THEN \E x : Recorded(i)' = {x} ELSE Recorded(i)' = {}
        <4>1. CASE i = j
          <5>1. ws'.items[i].status = "sent"
            BY <2>2, <2>6, <3>4, <4>1
          <5>2. Recorded(i)' = {k}
            BY <3>5, <4>1
          <5> QED
            BY <5>1, <5>2
        <4>2. CASE i # j
          <5>1. ws'.items[i] = ws.items[i]
            BY <2>2, <3>4, <4>2
          <5>2. Recorded(i)' = Recorded(i)
            BY <3>6, <4>2
          <5>3. IF ws.items[i].status = "sent" THEN \E x : Recorded(i) = {x} ELSE Recorded(i) = {}
            BY DEF RecordedOnce
          <5> QED
            BY <5>1, <5>2, <5>3
        <4> QED
          BY <4>1, <4>2
      <3> QED
        BY <2>2, <3>7 DEF RecordedOnce
    <2>7. CASE ~c.ok
      <3>1. Ends(p, "failed")
        BY <2>1, <2>7, SettleEnds
      <3>2. \A i : Recorded(i)' = Recorded(i)
        BY <1>1, <3>1, EndRecords
      <3> HIDE DEF c
      <3>3. ASSUME NEW i \in DOMAIN ws.items
            PROVE  IF ws'.items[i].status = "sent" THEN \E x : Recorded(i)' = {x} ELSE Recorded(i)' = {}
        <4>1. CASE i = c.item
          BY <2>2, <2>5, <2>7, <3>2, <4>1
        <4>2. CASE i # c.item
          BY <2>2, <3>2, <4>2 DEF RecordedOnce
        <4> QED
          BY <4>1, <4>2
      <3> QED
        BY <2>2, <3>3 DEF RecordedOnce
    <2> QED
      BY <2>6, <2>7
  <1>3. CASE ~(\E p \in Sender : SettleItem(p))
    <2>1. Steady(ws, ws')
      BY <1>1, <1>3, NextMoves, ForwardSame DEF Moved
    <2>2. \A i : Recorded(i)' = Recorded(i)
      BY <1>1, <1>3, NextQuiet, QuietRecords
    <2>3. \A i : i \notin DOMAIN ws.items => Recorded(i) = {}
      BY <1>1 DEF CallsKnown, Recorded
    <2>4. ASSUME NEW i \in DOMAIN ws'.items
          PROVE  IF ws'.items[i].status = "sent" THEN \E x : Recorded(i)' = {x} ELSE Recorded(i)' = {}
      BY <2>1, <2>2, <2>3 DEF Steady, RecordedOnce
    <2> QED
      BY <2>4 DEF RecordedOnce
  <1> QED
    BY <1>2, <1>3

(* A lost answer or a crash may repeat a call, but the outbox records one  *)
(* call of an item at most, and an item is sent exactly when one of its    *)
(* calls was recorded (linear_send, write_store).                          *)
THEOREM SendsAreRecordedOnce == Spec => []OneCallIsRecorded
  <1>1. Init => RecordedOnce
    <2>1. Init => ws.items = <<>>
      BY DEF Init
    <2> QED
      BY <2>1 DEF RecordedOnce
  <1>2. OutboxInv /\ RecordedOnce /\ [Next]_vars => RecordedOnce'
    BY RecordedOnceKept
  <1>3. RecordedOnce => OneCallIsRecorded
    <2>1. \A c : Cardinality({c}) = 1
      BY FS_Singleton
    <2>2. Cardinality({}) = 0
      BY FS_EmptySet
    <2> QED
      BY <2>1, <2>2 DEF RecordedOnce, OneCallIsRecorded, Recorded
  <1> QED
    BY <1>1, <1>2, <1>3, OutboxHolds, PTL DEF Spec

-----------------------------------------------------------------------------
(* Links *)

LEMMA OwnedStarts ==
    ASSUME Init
    PROVE  Owned(ws, Made(ws, calls))
  <1>1. PICK v : v = [status |-> "active", title |-> 0, needs |-> "deploy",
                      ref |-> 0, at |-> 0, issue |-> 0]
    OBVIOUS
  <1>2. v.ref = 0 /\ v.issue = 0
    BY <1>1
  <1>3. ws.work = <<v>> /\ ws.proposals = <<>>
    BY <1>1 DEF Init
  <1>4. \A w \in DOMAIN ws.work : ws.work[w] = v
    BY <1>3
  <1> QED
    BY <1>2, <1>3, <1>4 DEF Owned, LinkOwned

(* A recorded call stays as it was recorded.                               *)
RecordsKept ==
    \A k \in DOMAIN calls :
       calls[k].outcome = "recorded" => k \in DOMAIN calls' /\ calls'[k] = calls[k]

LEMMA SendsKeepRecords ==
    ASSUME Typed, CallsHeld, UNCHANGED <<sender, calls>> \/ \E p \in Sender : SendStep(p)
    PROVE  RecordsKept
  <1>1. CASE UNCHANGED calls
    BY <1>1 DEF RecordsKept
  <1>2. ASSUME NEW p \in Sender, Calls(p)
        PROVE  RecordsKept
    <2>1. PICK r : /\ DOMAIN calls' = DOMAIN calls \cup {r}
                   /\ \A l \in DOMAIN calls : calls'[l] = calls[l]
      BY <1>2, CallsGrow
    <2> QED
      BY <2>1 DEF RecordsKept
  <1>3. ASSUME NEW p \in Sender, NEW o \in {"recorded", "failed", "lost"}, Ends(p, o)
        PROVE  RecordsKept
    <2>1. /\ DOMAIN calls' = DOMAIN calls
          /\ \A k \in DOMAIN calls : k # sender[p].call => calls'[k] = calls[k]
      BY <1>3, EndsCalls
    <2>2. Held(sender[p])
      BY DEF CallsHeld
    <2>3. CASE InCall(sender[p])
      BY <2>1, <2>2, <2>3 DEF RecordsKept, Held
    <2>4. CASE ~InCall(sender[p])
      <3>1. UNCHANGED calls
        BY <1>3, <2>4 DEF Ends, Closed, InCall
      <3> QED
        BY <3>1 DEF RecordsKept
    <2> QED
      BY <2>3, <2>4
  <1> QED
    BY <1>1, <1>2, <1>3 DEF SendStep, Loads, Fails

(* What was created stays created.                                         *)
LEMMA MadeGrows ==
    ASSUME Sound(ws), CallsKnown, ItemsKept(ws, ws'), PlansKept(ws, ws'), RecordsKept
    PROVE  Made(ws, calls) \subseteq Made(ws', calls')
  <1> SUFFICES ASSUME NEW c \in DOMAIN calls, calls[c].outcome = "recorded",
                      calls[c].payload.kind = "create_issue"
               PROVE  <<WorkOf(ws, calls[c].item), calls[c].issue>> \in Made(ws', calls')
    BY DEF Made
  <1>1. c \in DOMAIN calls' /\ calls'[c] = calls[c]
    BY DEF RecordsKept
  <1>2. PICK i : i = calls[c].item
    OBVIOUS
  <1>3. i \in DOMAIN ws.items /\ ws.items[i].plan \in DOMAIN ws.plans
    BY <1>2 DEF CallsKnown, Sound, Refers
  <1>4. WorkOf(ws', i) = WorkOf(ws, i)
    BY <1>3 DEF WorkOf, ItemsKept, PlansKept
  <1> QED
    BY <1>1, <1>2, <1>4 DEF Made

LEMMA OwnedKept ==
    ASSUME OutboxInv, Owned(ws, Made(ws, calls)), [Next]_vars
    PROVE  Owned(ws', Made(ws', calls'))
  <1>1. DeliveryInv /\ Typed /\ Sound(ws) /\ CallsHeld /\ CallsKnown
    BY DEF OutboxInv, DeliveryInv, Typed
  <1>2. ItemsKept(ws, ws') /\ PlansKept(ws, ws')
    BY <1>1, NextWrites
  <1>3. RecordsKept
    BY <1>1, NextSends, SendsKeepRecords
  <1>4. PICK M : M = Made(ws', calls')
    OBVIOUS
  <1>5. Owned(ws, M)
    BY <1>1, <1>2, <1>3, <1>4, MadeGrows, OwnedByMore
  <1>6. CASE UNCHANGED ws
    BY <1>4, <1>5, <1>6
  <1>7. CASE Moved
    BY <1>4, <1>5, <1>7 DEF Moved, OwnedStill
  <1>8. ASSUME NEW p \in Sender, SettleItem(p)
        PROVE  Owned(ws', M)
    <2> DEFINE c == sender[p]
    <2>1. ASSUME c.ok, PayloadSent(ws, c.item).kind = "create_issue"
          PROVE  <<WorkOf(ws, c.item), c.issue>> \in M
      <3>1. c.step = "answered" /\ ws = c.seen /\ c.item \in DOMAIN ws.items
        BY <1>1, <1>8, SettleItems
      <3>2. Held(c)
        BY <1>1 DEF CallsHeld
      <3>3. /\ InCall(c) /\ c.call \in DOMAIN calls /\ calls[c.call].item = c.item
            /\ calls[c.call].issue = c.issue
        BY <2>1, <3>1, <3>2 DEF Held, InCall
      <3>4. calls[c.call].payload.kind = "create_issue"
        BY <1>1, <2>1, <3>3 DEF CallsKnown, PayloadSent
      <3>5. Ends(p, "recorded")
        BY <1>8, <2>1, SettleEnds
      <3>6. /\ c.call \in DOMAIN calls' /\ calls'[c.call].outcome = "recorded"
            /\ calls'[c.call].item = c.item /\ calls'[c.call].issue = c.issue
            /\ calls'[c.call].payload.kind = "create_issue"
        BY <1>1, <3>3, <3>4, <3>5, EndsCalls
      <3>7. PICK i, k, x : i = c.item /\ k = c.call /\ x = c.issue
        OBVIOUS
      <3> HIDE DEF c
      <3>8. i \in DOMAIN ws.items /\ ws.items[i].plan \in DOMAIN ws.plans
        BY <1>1, <3>1, <3>7 DEF Sound, Refers
      <3>9. WorkOf(ws', i) = WorkOf(ws, i)
        BY <1>2, <3>8 DEF WorkOf, ItemsKept, PlansKept
      <3>10. <<WorkOf(ws', i), x>> \in Made(ws', calls')
        BY <3>6, <3>7 DEF Made
      <3> QED
        BY <1>4, <3>7, <3>9, <3>10
    <2> HIDE DEF c
    <2>2. c.ok /\ PayloadSent(ws, c.item).kind = "create_issue"
             => <<WorkOf(ws, c.item), c.issue>> \in M
      BY <2>1
    <2> QED
      BY <1>1, <1>5, <1>8, <2>2, SettleLinks DEF c
  <1> QED
    BY <1>1, <1>4, <1>6, <1>7, <1>8, NextMoves

(* The issue a work item is linked to is the one Linear made in a recorded *)
(* call of a create item of that work, or its proposal was adopted as that *)
(* work (_link_work_to_created_issue, linear_import, adopt_proposal).      *)
THEOREM LinksStayOwn == Spec => []LinksAreOwn
  <1>1. Init => Owned(ws, Made(ws, calls))
    BY OwnedStarts
  <1>2. OutboxInv /\ Owned(ws, Made(ws, calls)) /\ [Next]_vars => Owned(ws, Made(ws, calls))'
    BY OwnedKept
  <1>3. Owned(ws, Made(ws, calls)) => LinksAreOwn
    <2> SUFFICES ASSUME Owned(ws, Made(ws, calls)), NEW w \in DOMAIN ws.work, ws.work[w].ref # 0
                 PROVE  LET x == ws.work[w].ref
                        IN  \/ \E k \in ProposalsFor(ws, x) : ws.proposals[k].work = w
                            \/ \E c \in DOMAIN calls :
                                  /\ calls[c].outcome = "recorded" /\ calls[c].payload.kind = "create_issue"
                                  /\ calls[c].issue = x /\ WorkOf(ws, calls[c].item) = w
      BY DEF LinksAreOwn
    <2>1. PICK x : x = ws.work[w].ref
      OBVIOUS
    <2>2. Adoption(ws, x, w) \/ <<w, x>> \in Made(ws, calls)
      BY <2>1 DEF Owned, LinkOwned
    <2>3. CASE Adoption(ws, x, w)
      BY <2>1, <2>3 DEF Adoption
    <2>4. CASE <<w, x>> \in Made(ws, calls)
      <3>1. PICK c \in DOMAIN calls : /\ calls[c].outcome = "recorded"
                                      /\ calls[c].payload.kind = "create_issue"
                                      /\ <<w, x>> = <<WorkOf(ws, calls[c].item), calls[c].issue>>
        BY <2>4 DEF Made
      <3> QED
        BY <2>1, <3>1
    <2> QED
      BY <2>2, <2>3, <2>4
  <1> QED
    BY <1>1, <1>2, <1>3, OutboxHolds, PTL DEF Spec

-----------------------------------------------------------------------------
(* The promise: counting *)

(* How large the sets of a family are.                                     *)
Counts(R, A) == [r \in R |-> Cardinality(A[r])]

(* A set of the family gains an element.                                   *)
OneMore(R, A, B, k, p) ==
    /\ k \in R /\ IsFiniteSet(A[k]) /\ p \notin A[k] /\ B[k] = A[k] \cup {p}
    /\ \A r \in R : r # k => B[r] = A[r]

LEMMA CountUp ==
    ASSUME NEW R, NEW A, NEW B, NEW k, NEW p, OneMore(R, A, B, k, p)
    PROVE  Counts(R, B) = [Counts(R, A) EXCEPT ![k] = @ + 1]
  <1>1. Cardinality(B[k]) = Cardinality(A[k]) + 1
    BY FS_AddElement DEF OneMore
  <1>2. \A r \in R : r # k => Cardinality(B[r]) = Cardinality(A[r])
    BY DEF OneMore
  <1> QED
    BY <1>1, <1>2 DEF Counts, OneMore

(* A set of the family loses an element.                                   *)
LEMMA CountDown ==
    ASSUME NEW R, NEW A, NEW B, NEW k \in R, IsFiniteSet(A[k]), NEW p \in A[k],
           B[k] = A[k] \ {p}, \A r \in R : r # k => B[r] = A[r]
    PROVE  Counts(R, B) = [Counts(R, A) EXCEPT ![k] = @ - 1] /\ Counts(R, A)[k] > 0
  <1>1. Cardinality(B[k]) = Cardinality(A[k]) - 1
    BY FS_RemoveElement
  <1>2. \A r \in R : r # k => Cardinality(B[r]) = Cardinality(A[r])
    OBVIOUS
  <1>3. Cardinality(A[k]) \in Nat /\ Cardinality(A[k]) # 0
    BY FS_CardinalityType, FS_EmptySet
  <1>4. Counts(R, A)[k] = Cardinality(A[k])
    BY DEF Counts
  <1>5. Counts(R, A)[k] > 0
    BY <1>3, <1>4
  <1> QED
    BY <1>1, <1>2, <1>5 DEF Counts

(* The senders at work on a plan, before and after their call, and the     *)
(* calls made for it.                                                      *)
Senders(called) == [r \in 1..MaxPlans |-> SendersFor(r, called)]

CallsFor == [r \in 1..MaxPlans |-> {c \in DOMAIN calls : ws.items[calls[c].item].plan = r}]

LEMMA CountsAre ==
    /\ Permits = [r \in 1..MaxPlans |-> Cardinality(Senders(FALSE)[r])]
    /\ Unrecorded = [r \in 1..MaxPlans |-> Cardinality(Senders(TRUE)[r])]
    /\ Writes = [r \in 1..MaxPlans |-> Cardinality(CallsFor[r])]
  BY DEF Permits, Unrecorded, Writes, Senders, CallsFor

LEMMA CountsAreNext ==
    /\ Permits' = [r \in 1..MaxPlans |-> Cardinality(Senders(FALSE)'[r])]
    /\ Unrecorded' = [r \in 1..MaxPlans |-> Cardinality(Senders(TRUE)'[r])]
    /\ Writes' = [r \in 1..MaxPlans |-> Cardinality(CallsFor'[r])]
  BY DEF Permits, Unrecorded, Writes, Senders, CallsFor

(* Only finitely many senders are at work at a time, however many there are*)
Busy == {p \in Sender : sender[p].step # "idle"}

LEMMA SendersFinite ==
    ASSUME IsFiniteSet(Busy), NEW r \in 1..MaxPlans, NEW b
    PROVE  IsFiniteSet(Senders(b)[r])
  <1>1. Senders(b)[r] \subseteq Busy
    BY DEF Senders, SendersFor, Busy
  <1> QED
    BY <1>1, FS_Subset

LEMMA CallsFinite ==
    ASSUME Typed, NEW r \in 1..MaxPlans
    PROVE  IsFiniteSet(CallsFor[r])
  <1>1. Len(calls) \in Nat /\ DOMAIN calls = 1..Len(calls)
    BY Contained DEF Typed
  <1>2. IsFiniteSet(DOMAIN calls)
    BY <1>1, FS_Interval
  <1>3. CallsFor[r] \subseteq DOMAIN calls
    BY DEF CallsFor
  <1> QED
    BY <1>2, <1>3, FS_Subset

(* What a sender is at work on, as what it holds now and next.             *)
WorksOn(c, s, r, b) == c.step # "idle" /\ s.items[c.item].plan = r /\ (c.call # 0) = b

LEMMA SendersAre ==
    ASSUME NEW r \in 1..MaxPlans, NEW b
    PROVE  /\ Senders(b)[r] = {p \in Sender : WorksOn(sender[p], ws, r, b)}
           /\ Senders(b)'[r] = {p \in Sender : WorksOn(sender'[p], ws', r, b)}
  BY DEF Senders, SendersFor, WorksOn

(* The plan of what a sender holds stays its plan.                         *)
LEMMA PlanStays ==
    ASSUME OutboxInv, ItemsKept(ws, ws'), NEW p \in Sender, NEW r, NEW b
    PROVE  WorksOn(sender[p], ws', r, b) = WorksOn(sender[p], ws, r, b)
  <1>1. CASE sender[p].step = "idle"
    BY <1>1 DEF WorksOn
  <1>2. CASE sender[p].step # "idle"
    <2>1. sender[p].item \in DOMAIN ws.items
      BY <1>2 DEF OutboxInv, DeliveryInv, Holds, ItemsKept
    <2>2. ws'.items[sender[p].item].plan = ws.items[sender[p].item].plan
      BY <2>1 DEF ItemsKept
    <2> QED
      BY <2>2 DEF WorksOn
  <1> QED
    BY <1>1, <1>2

(* No sender does anything.                                                *)
LEMMA SendersRest ==
    ASSUME OutboxInv, ItemsKept(ws, ws'), UNCHANGED sender, NEW b
    PROVE  Senders(b)' = Senders(b)
  <1>1. ASSUME NEW r \in 1..MaxPlans
        PROVE  Senders(b)'[r] = Senders(b)[r]
    <2>1. \A p \in Sender : WorksOn(sender'[p], ws', r, b) = WorksOn(sender[p], ws, r, b)
      BY PlanStays
    <2>2. {p \in Sender : WorksOn(sender'[p], ws', r, b)} = {p \in Sender : WorksOn(sender[p], ws, r, b)}
      BY <2>1
    <2>3. /\ Senders(b)[r] = {p \in Sender : WorksOn(sender[p], ws, r, b)}
          /\ Senders(b)'[r] = {p \in Sender : WorksOn(sender'[p], ws', r, b)}
      BY SendersAre
    <2> QED
      BY <2>2, <2>3
  <1> QED
    BY <1>1 DEF Senders

(* One sender goes on.                                                     *)
LEMMA SendersMove ==
    ASSUME OutboxInv, ItemsKept(ws, ws'), NEW p \in Sender, NEW c,
           sender' = [sender EXCEPT ![p] = c], NEW r \in 1..MaxPlans, NEW b
    PROVE  Senders(b)'[r] = IF WorksOn(c, ws', r, b) THEN Senders(b)[r] \cup {p}
                                                     ELSE Senders(b)[r] \ {p}
  <1>1. sender \in [Sender -> SenderType]
    BY DEF OutboxInv, DeliveryInv, Typed
  <1>2. sender'[p] = c /\ \A q \in Sender : q # p => sender'[q] = sender[q]
    BY <1>1
  <1>3. \A q \in Sender : q # p =>
           WorksOn(sender'[q], ws', r, b) = WorksOn(sender[q], ws, r, b)
    BY <1>2, PlanStays
  <1>4. WorksOn(sender'[p], ws', r, b) = WorksOn(c, ws', r, b)
    BY <1>2
  <1> QED
    BY <1>3, <1>4, SendersAre

(* The calls of a plan stay its calls.                                     *)
LEMMA CallsRest ==
    ASSUME OutboxInv, ItemsKept(ws, ws'), DOMAIN calls' = DOMAIN calls,
           \A k \in DOMAIN calls : calls'[k].item = calls[k].item
    PROVE  CallsFor' = CallsFor
  <1>1. \A k \in DOMAIN calls : calls[k].item \in DOMAIN ws.items
    BY DEF OutboxInv, DeliveryInv, CallsKnown
  <1>2. \A k \in DOMAIN calls : ws'.items[calls'[k].item].plan = ws.items[calls[k].item].plan
    BY <1>1 DEF ItemsKept
  <1> QED
    BY <1>2 DEF CallsFor

-----------------------------------------------------------------------------
(* The promise: phases *)

ItemsFor(s, r) == {i \in DOMAIN s.items : s.items[i].plan = r}

AfterDecision == [approved |-> "approved", rejected |-> "rejected", canceled |-> "withdrawn"]

(* PhaseOf, of any workspace.                                              *)
Phase(s, r) ==
    IF r \notin DOMAIN s.plans THEN "none"
    ELSE IF s.plans[r].status = "pending-approval" THEN "asked"
    ELSE IF ItemsFor(s, r) = {} THEN AfterDecision[s.plans[r].status]
    ELSE s.items[CHOOSE i \in ItemsFor(s, r) : TRUE].status

LEMMA PhasesAre ==
    /\ Phases = [r \in 1..MaxPlans |-> Phase(ws, r)]
    /\ Phases' = [r \in 1..MaxPlans |-> Phase(ws', r)]
  BY DEF Phases, Phase, PhaseOf, ItemsFor, AfterDecision

(* A plan that was queued is as far as its item.                           *)
LEMMA PhaseOfItem ==
    ASSUME NEW s, Sound(s), Valid(s), NEW i \in DOMAIN s.items
    PROVE  /\ s.items[i].plan \in DOMAIN s.plans
           /\ Phase(s, s.items[i].plan) = s.items[i].status
  <1> DEFINE r == s.items[i].plan
             k == CHOOSE j \in ItemsFor(s, r) : TRUE
  <1>1. r \in DOMAIN s.plans
    BY DEF Sound, Refers
  <1>2. s.plans[r].status = "approved"
    BY DEF Valid, ItemValid
  <1>3. i \in ItemsFor(s, r)
    BY DEF ItemsFor
  <1>4. k \in ItemsFor(s, r)
    BY <1>3
  <1>5. k \in DOMAIN s.items /\ s.items[k].plan = s.items[i].plan
    BY <1>4 DEF ItemsFor
  <1>6. k = i
    BY <1>5 DEF Valid, OneItemPerPlan
  <1> HIDE DEF k
  <1>7. s.plans[r].status # "pending-approval" /\ ItemsFor(s, r) # {}
    BY <1>2, <1>3
  <1>8. Phase(s, r) = s.items[k].status
    BY <1>1, <1>7 DEF Phase, k
  <1> QED
    BY <1>1, <1>6, <1>8

(* What a phase depends on.                                                *)
LEMMA PhaseSame ==
    ASSUME NEW s, NEW t, NEW r, (r \in DOMAIN t.plans) = (r \in DOMAIN s.plans),
           r \in DOMAIN s.plans => t.plans[r].status = s.plans[r].status,
           ItemsFor(t, r) = ItemsFor(s, r),
           \A i \in ItemsFor(s, r) : t.items[i].status = s.items[i].status
    PROVE  Phase(t, r) = Phase(s, r)
  <1>1. CASE r \notin DOMAIN s.plans
    BY <1>1 DEF Phase
  <1>2. CASE r \in DOMAIN s.plans /\ ItemsFor(s, r) = {}
    BY <1>2 DEF Phase
  <1>3. CASE r \in DOMAIN s.plans /\ ItemsFor(s, r) # {}
    <2>1. PICK k : k = CHOOSE i \in ItemsFor(s, r) : TRUE
      OBVIOUS
    <2>2. k \in ItemsFor(s, r)
      BY <1>3, <2>1
    <2>3. t.items[k].status = s.items[k].status
      BY <2>2
    <2>4. Phase(s, r) = IF s.plans[r].status = "pending-approval" THEN "asked" ELSE s.items[k].status
      BY <1>3, <2>1 DEF Phase
    <2>5. Phase(t, r) = IF t.plans[r].status = "pending-approval" THEN "asked" ELSE t.items[k].status
      BY <1>3, <2>1 DEF Phase
    <2> QED
      BY <1>3, <2>3, <2>4, <2>5
  <1> QED
    BY <1>1, <1>2, <1>3

(* One plan goes from one phase to another.                                *)
Turns(s, t, k, from, to) ==
    Phase(s, k) = from /\ Phase(t, k) = to /\ \A r : r # k => Phase(t, r) = Phase(s, r)

LEMMA RestsPhase ==
    ASSUME NEW s, NEW t, Rests(s, t), NEW r
    PROVE  Phase(t, r) = Phase(s, r)
  BY DEF Rests, Phase, ItemsFor

LEMMA AsksPhase ==
    ASSUME NEW s, Sound(s), NEW t, Asks(s, t)
    PROVE  \E k \in 1..MaxPlans : Turns(s, t, k, "none", "asked")
  <1>1. PICK x \in PlanType : t.plans = Append(s.plans, x) /\ x.status = "pending-approval"
    BY DEF Asks, PlanAsked
  <1>2. s.plans \in Seq(PlanType) /\ Len(s.plans) \in Nat /\ Len(s.plans) < MaxPlans
    BY Parts, Contained DEF Sound, Asks
  <1>3. PICK q, k : q = Append(s.plans, x) /\ k = Len(s.plans) + 1
    OBVIOUS
  <1>4. /\ k \notin DOMAIN s.plans /\ DOMAIN q = DOMAIN s.plans \cup {k} /\ q[k] = x
        /\ \A l \in DOMAIN s.plans : q[l] = s.plans[l]
    BY <1>2, <1>3, Added
  <1>5. t.plans = q /\ t.items = s.items
    BY <1>1, <1>3 DEF Asks
  <1>6. k \in 1..MaxPlans
    BY <1>2, <1>3, OutboxAssumption
  <1>7. Phase(s, k) = "none" /\ Phase(t, k) = "asked"
    BY <1>1, <1>4, <1>5 DEF Phase
  <1>8. ASSUME NEW r, r # k
        PROVE  Phase(t, r) = Phase(s, r)
    <2>1. ItemsFor(t, r) = ItemsFor(s, r) /\ \A i \in ItemsFor(s, r) : t.items[i].status = s.items[i].status
      BY <1>5 DEF ItemsFor
    <2>2. /\ (r \in DOMAIN t.plans) = (r \in DOMAIN s.plans)
          /\ r \in DOMAIN s.plans => t.plans[r].status = s.plans[r].status
      BY <1>4, <1>5, <1>8
    <2> QED
      BY <2>1, <2>2, PhaseSame
  <1> QED
    BY <1>6, <1>7, <1>8 DEF Turns

LEMMA DecidesPhase ==
    ASSUME NEW s, Sound(s), Valid(s), NEW t, Decides(s, t)
    PROVE  \E k \in DOMAIN s.plans, to \in {"approved", "rejected", "withdrawn"} :
              Turns(s, t, k, "asked", to)
  <1>1. PICK k \in DOMAIN s.plans, d \in Decisions :
           s.plans[k].status = "pending-approval" /\ PlanGiven(s, t, k, d)
    BY DEF Decides
  <1>2. PICK x \in PlanType : t.plans = [s.plans EXCEPT ![k] = x] /\ x.status = d
    BY <1>1 DEF PlanGiven
  <1>3. s.plans \in Seq(PlanType)
    BY Parts DEF Sound
  <1>4. PICK q : q = [s.plans EXCEPT ![k] = x]
    OBVIOUS
  <1>5. DOMAIN q = DOMAIN s.plans /\ q[k] = x /\ \A l \in DOMAIN s.plans : l # k => q[l] = s.plans[l]
    BY <1>3, <1>4, Changed
  <1>6. t.plans = q /\ t.items = s.items
    BY <1>2, <1>4 DEF Decides
  <1>7. Phase(s, k) = "asked"
    BY <1>1 DEF Phase
  <1>8. ItemsFor(t, k) = {}
    <2>1. ASSUME NEW i \in DOMAIN s.items, s.items[i].plan = k PROVE FALSE
      BY <1>1, <2>1 DEF Valid, ItemValid
    <2> QED
      BY <1>6, <2>1 DEF ItemsFor
  <1>9. Phase(t, k) = AfterDecision[d]
    <2>1. k \in DOMAIN t.plans /\ t.plans[k].status = d /\ d # "pending-approval"
      BY <1>2, <1>5, <1>6 DEF Decisions
    <2> QED
      BY <1>8, <2>1 DEF Phase
  <1>10. AfterDecision[d] \in {"approved", "rejected", "withdrawn"}
    BY DEF AfterDecision, Decisions
  <1>11. ASSUME NEW r, r # k
         PROVE  Phase(t, r) = Phase(s, r)
    <2>1. ItemsFor(t, r) = ItemsFor(s, r) /\ \A i \in ItemsFor(s, r) : t.items[i].status = s.items[i].status
      BY <1>6 DEF ItemsFor
    <2>2. /\ (r \in DOMAIN t.plans) = (r \in DOMAIN s.plans)
          /\ r \in DOMAIN s.plans => t.plans[r].status = s.plans[r].status
      BY <1>5, <1>6, <1>11
    <2> QED
      BY <2>1, <2>2, PhaseSame
  <1> QED
    BY <1>7, <1>9, <1>10, <1>11 DEF Turns

LEMMA QueuesPhase ==
    ASSUME NEW s, Sound(s), NEW t, Sound(t), Valid(t), Queues(s, t)
    PROVE  \E k \in DOMAIN s.plans : Turns(s, t, k, "approved", "queued")
  <1>1. PICK x \in ItemType :
           /\ t.items = Append(s.items, x) /\ x.status = "queued"
           /\ x.plan \in DOMAIN s.plans /\ s.plans[x.plan].status = "approved"
           /\ \A i \in DOMAIN s.items : s.items[i].plan # x.plan
    BY DEF Queues
  <1>2. s.items \in Seq(ItemType)
    BY Parts DEF Sound
  <1>3. PICK q, n : q = Append(s.items, x) /\ n = Len(s.items) + 1
    OBVIOUS
  <1>4. /\ n \notin DOMAIN s.items /\ DOMAIN q = DOMAIN s.items \cup {n} /\ q[n] = x
        /\ \A i \in DOMAIN s.items : q[i] = s.items[i]
    BY <1>2, <1>3, Added
  <1>5. t.items = q /\ t.plans = s.plans
    BY <1>1, <1>3 DEF Queues
  <1>6. Phase(t, x.plan) = "queued"
    <2>1. n \in DOMAIN t.items /\ t.items[n].plan = x.plan /\ t.items[n].status = "queued"
      BY <1>1, <1>4, <1>5
    <2> QED
      BY <2>1, PhaseOfItem
  <1>7. Phase(s, x.plan) = "approved"
    <2>1. ItemsFor(s, x.plan) = {}
      BY <1>1 DEF ItemsFor
    <2>2. AfterDecision["approved"] = "approved"
      BY DEF AfterDecision
    <2> QED
      BY <1>1, <2>1, <2>2 DEF Phase
  <1>8. ASSUME NEW r, r # x.plan
        PROVE  Phase(t, r) = Phase(s, r)
    <2>1. ItemsFor(t, r) = ItemsFor(s, r) /\ \A i \in ItemsFor(s, r) : t.items[i].status = s.items[i].status
      BY <1>4, <1>5, <1>8 DEF ItemsFor
    <2> QED
      BY <1>5, <2>1, PhaseSame
  <1> QED
    BY <1>1, <1>6, <1>7, <1>8 DEF Turns

LEMMA EndsPhase ==
    ASSUME NEW s, Sound(s), Valid(s), NEW t, Sound(t), Valid(t), NEW i, NEW d, EndsItem(s, t, i, d)
    PROVE  /\ s.items[i].plan \in DOMAIN s.plans
           /\ Turns(s, t, s.items[i].plan, "queued", d)
  <1>1. /\ t.plans = s.plans
        /\ i \in DOMAIN s.items /\ s.items[i].status = "queued"
        /\ DOMAIN t.items = DOMAIN s.items /\ t.items[i].status = d
        /\ t.items[i].plan = s.items[i].plan
        /\ \A k \in DOMAIN s.items : k # i => t.items[k] = s.items[k]
    BY DEF EndsItem
  <1>2. s.items[i].plan \in DOMAIN s.plans /\ Phase(s, s.items[i].plan) = "queued"
    BY <1>1, PhaseOfItem
  <1>3. Phase(t, t.items[i].plan) = d
    BY <1>1, PhaseOfItem
  <1>4. ASSUME NEW r, r # s.items[i].plan
        PROVE  Phase(t, r) = Phase(s, r)
    <2>1. \A k \in DOMAIN s.items : t.items[k].plan = s.items[k].plan
      BY <1>1
    <2>2. ItemsFor(t, r) = ItemsFor(s, r)
      BY <1>1, <2>1 DEF ItemsFor
    <2>3. \A k \in ItemsFor(s, r) : t.items[k].status = s.items[k].status
      BY <1>1, <1>4 DEF ItemsFor
    <2> QED
      BY <1>1, <2>2, <2>3, PhaseSame
  <1> QED
    BY <1>1, <1>2, <1>3, <1>4 DEF Turns

(* The plans stay within their bound.                                      *)
PlansBounded(s) == Len(s.plans) <= MaxPlans

LEMMA BoundedPlans ==
    ASSUME NEW s, Sound(s), PlansBounded(s)
    PROVE  DOMAIN s.plans \subseteq 1..MaxPlans
  <1>1. Len(s.plans) \in Nat /\ DOMAIN s.plans = 1..Len(s.plans)
    BY Parts, Contained DEF Sound
  <1> QED
    BY <1>1, OutboxAssumption DEF PlansBounded

LEMMA ShiftsBounded ==
    ASSUME NEW s, Sound(s), PlansBounded(s), NEW t, Shifts(s, t)
    PROVE  PlansBounded(t)
  <1>1. s.plans \in Seq(PlanType) /\ Len(s.plans) \in Nat
    BY Parts, Contained DEF Sound
  <1>2. CASE t.plans = s.plans
    BY <1>2 DEF PlansBounded
  <1>3. CASE Asks(s, t)
    <2>1. PICK x \in PlanType : t.plans = Append(s.plans, x)
      BY <1>3 DEF Asks, PlanAsked
    <2>2. Len(Append(s.plans, x)) = Len(s.plans) + 1
      BY <1>1, AppendProperties
    <2>3. Len(s.plans) < MaxPlans
      BY <1>3 DEF Asks
    <2>4. Len(s.plans) + 1 <= MaxPlans
      BY <1>1, <2>3, OutboxAssumption
    <2> QED
      BY <2>1, <2>2, <2>4 DEF PlansBounded
  <1>4. CASE Decides(s, t)
    <2>1. PICK k \in DOMAIN s.plans, x \in PlanType : t.plans = [s.plans EXCEPT ![k] = x]
      BY <1>4 DEF Decides, PlanGiven
    <2>2. Len([s.plans EXCEPT ![k] = x]) = Len(s.plans)
      BY <1>1, ExceptSeq
    <2> QED
      BY <2>1, <2>2 DEF PlansBounded
  <1> QED
    BY <1>2, <1>3, <1>4 DEF Shifts, Rests, Queues, EndsItem

-----------------------------------------------------------------------------
(* The promise: steps *)

PromiseInv == OutboxInv /\ IsFiniteSet(Busy) /\ PlansBounded(ws)

Tally(b) == [r \in 1..MaxPlans |-> Cardinality(Senders(b)[r])]

LEMMA TalliesAre ==
    /\ Permits = Tally(FALSE) /\ Permits' = Tally(FALSE)'
    /\ Unrecorded = Tally(TRUE) /\ Unrecorded' = Tally(TRUE)'
  BY CountsAre, CountsAreNext DEF Tally

(* A sender goes on to hold c, and begins to count for a plan, ceases to,  *)
(* or counts for what it counted for.                                      *)
GoesOn(p, c) ==
    /\ PromiseInv /\ ItemsKept(ws, ws') /\ p \in Sender
    /\ sender' = [sender EXCEPT ![p] = c]

Gains(p, c, k, b) ==
    k \in 1..MaxPlans /\ WorksOn(c, ws', k, b) /\ \A r : ~WorksOn(sender[p], ws, r, b)

Loses(p, c, k, b) ==
    k \in 1..MaxPlans /\ WorksOn(sender[p], ws, k, b) /\ \A r : ~WorksOn(c, ws', r, b)

StaysAt(p, c, b) == \A r : WorksOn(c, ws', r, b) = WorksOn(sender[p], ws, r, b)

OneUp(f, g, k) == g = [f EXCEPT ![k] = @ + 1]

LEMMA TallyGain ==
    ASSUME NEW p, NEW c, GoesOn(p, c), NEW b, NEW k, Gains(p, c, k, b)
    PROVE  OneUp(Tally(b), Tally(b)', k)
  <1> USE DEF GoesOn, Gains
  <1>1. OutboxInv /\ IsFiniteSet(Senders(b)[k])
    BY SendersFinite DEF PromiseInv
  <1>2. \A r \in 1..MaxPlans : p \notin Senders(b)[r]
    BY SendersAre
  <1>3. ASSUME NEW r \in 1..MaxPlans
        PROVE  Senders(b)'[r] = IF WorksOn(c, ws', r, b) THEN Senders(b)[r] \cup {p}
                                                         ELSE Senders(b)[r] \ {p}
    BY <1>1, SendersMove
  <1>4. \A r \in 1..MaxPlans : r # k => ~WorksOn(c, ws', r, b)
    BY DEF WorksOn
  <1>5. PICK A, B : A = Senders(b) /\ B = Senders(b)'
    OBVIOUS
  <1>6. /\ B[k] = A[k] \cup {p} /\ p \notin A[k] /\ IsFiniteSet(A[k])
        /\ \A r \in 1..MaxPlans : r # k => B[r] = A[r]
    BY <1>1, <1>2, <1>3, <1>4, <1>5
  <1>7. PICK R : R = 1..MaxPlans
    OBVIOUS
  <1>10. k \in R /\ \A r \in R : r # k => B[r] = A[r]
    BY <1>6, <1>7
  <1>11. OneMore(R, A, B, k, p)
    BY <1>6, <1>10 DEF OneMore
  <1>8. Counts(R, B) = [Counts(R, A) EXCEPT ![k] = @ + 1]
    BY <1>11, CountUp
  <1>9. Tally(b) = Counts(R, A) /\ Tally(b)' = Counts(R, B)
    BY <1>5, <1>7 DEF Tally, Counts
  <1> QED
    BY <1>8, <1>9 DEF OneUp

LEMMA TallyLose ==
    ASSUME NEW p, NEW c, GoesOn(p, c), NEW b, NEW k, Loses(p, c, k, b)
    PROVE  Tally(b)' = [Tally(b) EXCEPT ![k] = @ - 1] /\ Tally(b)[k] > 0
  <1> USE DEF GoesOn, Loses
  <1>1. OutboxInv /\ IsFiniteSet(Senders(b)[k])
    BY SendersFinite DEF PromiseInv
  <1>2. \A r \in 1..MaxPlans : r # k => ~WorksOn(sender[p], ws, r, b)
    BY DEF WorksOn
  <1>3. p \in Senders(b)[k] /\ \A r \in 1..MaxPlans : r # k => p \notin Senders(b)[r]
    BY <1>2, SendersAre
  <1>4. ASSUME NEW r \in 1..MaxPlans
        PROVE  Senders(b)'[r] = IF WorksOn(c, ws', r, b) THEN Senders(b)[r] \cup {p}
                                                         ELSE Senders(b)[r] \ {p}
    BY <1>1, SendersMove
  <1>5. PICK A, B : A = Senders(b) /\ B = Senders(b)'
    OBVIOUS
  <1>6. /\ B[k] = A[k] \ {p} /\ p \in A[k] /\ IsFiniteSet(A[k])
        /\ \A r \in 1..MaxPlans : r # k => B[r] = A[r]
    BY <1>1, <1>3, <1>4, <1>5
  <1>7. PICK R : R = 1..MaxPlans
    OBVIOUS
  <1>10. k \in R /\ \A r \in R : r # k => B[r] = A[r]
    BY <1>6, <1>7
  <1>8. Counts(R, B) = [Counts(R, A) EXCEPT ![k] = @ - 1] /\ Counts(R, A)[k] > 0
    BY <1>6, <1>10, CountDown
  <1>9. Tally(b) = Counts(R, A) /\ Tally(b)' = Counts(R, B)
    BY <1>5, <1>7 DEF Tally, Counts
  <1> QED
    BY <1>8, <1>9

LEMMA TallyStill ==
    ASSUME NEW p, NEW c, GoesOn(p, c), NEW b, StaysAt(p, c, b)
    PROVE  Tally(b)' = Tally(b)
  <1> USE DEF GoesOn, StaysAt
  <1>1. ASSUME NEW r \in 1..MaxPlans
        PROVE  Senders(b)'[r] = Senders(b)[r]
    <2>1. Senders(b)'[r] = IF WorksOn(c, ws', r, b) THEN Senders(b)[r] \cup {p}
                                                    ELSE Senders(b)[r] \ {p}
      BY SendersMove DEF PromiseInv
    <2>2. p \in Senders(b)[r] <=> WorksOn(sender[p], ws, r, b)
      BY SendersAre
    <2>3. CASE WorksOn(c, ws', r, b)
      BY <2>1, <2>2, <2>3
    <2>4. CASE ~WorksOn(c, ws', r, b)
      BY <2>1, <2>2, <2>4
    <2> QED
      BY <2>3, <2>4
  <1> QED
    BY <1>1 DEF Tally

(* A plan goes one phase on.                                               *)
LEMMA PhasesTurn ==
    ASSUME NEW k \in 1..MaxPlans, NEW from, NEW to, Turns(ws, ws', k, from, to)
    PROVE  Phases[k] = from /\ Phases' = [Phases EXCEPT ![k] = to]
  BY PhasesAre DEF Turns

LEMMA PhasesRest ==
    ASSUME \A r : Phase(ws', r) = Phase(ws, r)
    PROVE  UNCHANGED Phases
  BY PhasesAre

Kept == Promise!PromiseNext \/ UNCHANGED Promise!promise

LEMMA AdvanceKept ==
    ASSUME NEW k \in 1..MaxPlans, NEW from, NEW to, Turns(ws, ws', k, from, to),
           to \in Promise!After(from), to \notin {"sent", "failed"},
           UNCHANGED <<Permits, Unrecorded, Writes>>
    PROVE  Kept
  <1>1. Phases[k] = from /\ Phases' = [Phases EXCEPT ![k] = to]
    BY PhasesTurn
  <1>2. Promise!Advance(k)
    BY <1>1 DEF Promise!Advance
  <1> QED
    BY <1>2 DEF Promise!PromiseNext, Kept

(* A write of the workspace in which no sender takes part.                 *)
LEMMA ShiftKept ==
    ASSUME PromiseInv, UNCHANGED <<sender, calls>>, Sound(ws'), Valid(ws'), ItemsKept(ws, ws'),
           Shifts(ws, ws')
    PROVE  Kept
  <1>1. OutboxInv /\ Sound(ws) /\ Valid(ws) /\ PlansBounded(ws)
    BY DEF PromiseInv, OutboxInv, DeliveryInv, Typed
  <1>2. Senders(TRUE)' = Senders(TRUE) /\ Senders(FALSE)' = Senders(FALSE)
    BY <1>1, SendersRest
  <1>3. CallsFor' = CallsFor
    BY <1>1, CallsRest
  <1>4. UNCHANGED <<Permits, Unrecorded, Writes>>
    BY <1>2, <1>3, CountsAre, CountsAreNext
  <1>5. PICK s, t : s = ws /\ t = ws'
    OBVIOUS
  <1>6. DOMAIN s.plans \subseteq 1..MaxPlans
    BY <1>1, <1>5, BoundedPlans
  <1>7. CASE Rests(s, t)
    <2>1. \A r : Phase(t, r) = Phase(s, r)
      BY <1>7, RestsPhase
    <2>2. UNCHANGED Phases
      BY <1>5, <2>1, PhasesRest
    <2> QED
      BY <1>4, <2>2 DEF Kept, Promise!promise
  <1>8. CASE Asks(s, t)
    <2>1. PICK k \in 1..MaxPlans : Turns(s, t, k, "none", "asked")
      BY <1>1, <1>5, <1>8, AsksPhase
    <2>2. "asked" \in Promise!After("none")
      BY DEF Promise!After
    <2> QED
      BY <1>4, <1>5, <2>1, <2>2, AdvanceKept
  <1>9. CASE Decides(s, t)
    <2>1. PICK k \in DOMAIN s.plans, to \in {"approved", "rejected", "withdrawn"} :
             Turns(s, t, k, "asked", to)
      BY <1>1, <1>5, <1>9, DecidesPhase
    <2>2. to \in Promise!After("asked")
      BY DEF Promise!After
    <2>3. k \in 1..MaxPlans
      BY <1>6
    <2> QED
      BY <1>4, <1>5, <2>1, <2>2, <2>3, AdvanceKept
  <1>10. CASE Queues(s, t)
    <2>1. PICK k \in DOMAIN s.plans : Turns(s, t, k, "approved", "queued")
      BY <1>1, <1>5, <1>10, QueuesPhase
    <2>2. "queued" \in Promise!After("approved")
      BY DEF Promise!After
    <2>3. k \in 1..MaxPlans
      BY <1>6
    <2> QED
      BY <1>4, <1>5, <2>1, <2>2, <2>3, AdvanceKept
  <1>11. ASSUME NEW i, EndsItem(s, t, i, "canceled")
         PROVE  Kept
    <2>1. PICK k : k = s.items[i].plan
      OBVIOUS
    <2>2. k \in DOMAIN s.plans /\ Turns(s, t, k, "queued", "canceled")
      BY <1>1, <1>5, <1>11, <2>1, EndsPhase
    <2>3. "canceled" \in Promise!After("queued")
      BY DEF Promise!After
    <2>4. k \in 1..MaxPlans
      BY <1>6, <2>2
    <2> QED
      BY <1>4, <1>5, <2>2, <2>3, <2>4, AdvanceKept
  <1> QED
    BY <1>5, <1>7, <1>8, <1>9, <1>10, <1>11 DEF Shifts

(* What a sender is at work on belongs to a plan within the bound.         *)
LEMMA PlanInBound ==
    ASSUME PromiseInv, NEW i \in DOMAIN ws.items
    PROVE  ws.items[i].plan \in 1..MaxPlans /\ Phase(ws, ws.items[i].plan) = ws.items[i].status
  <1>1. Sound(ws) /\ Valid(ws) /\ PlansBounded(ws)
    BY DEF PromiseInv, OutboxInv, DeliveryInv, Typed
  <1>2. ws.items[i].plan \in DOMAIN ws.plans /\ Phase(ws, ws.items[i].plan) = ws.items[i].status
    BY <1>1, PhaseOfItem
  <1> QED
    BY <1>1, <1>2, BoundedPlans

LEMMA ItemHeld ==
    ASSUME OutboxInv, NEW p \in Sender, sender[p].step # "idle"
    PROVE  sender[p].item \in DOMAIN ws.items
  BY DEF OutboxInv, DeliveryInv, Holds, ItemsKept

LEMMA SameItems ==
    ASSUME UNCHANGED ws
    PROVE  ItemsKept(ws, ws') /\ UNCHANGED Phases
  <1>1. ItemsKept(ws, ws')
    BY DEF ItemsKept
  <1> QED
    BY <1>1, PhasesRest

(* A sender takes up an item: a permit is taken while the plan is queued.  *)
LEMMA LoadsKept ==
    ASSUME PromiseInv, UNCHANGED ws, NEW p \in Sender, Loads(p)
    PROVE  Kept
  <1>1. PICK c \in SenderType :
           /\ sender' = [sender EXCEPT ![p] = c] /\ UNCHANGED calls
           /\ c.step \in {"call", "answered"} /\ c.call = 0
           /\ c.item \in DOMAIN ws.items /\ ws.items[c.item].status = "queued"
    BY DEF Loads
  <1>2. sender[p].step = "idle"
    BY DEF Loads
  <1>3. ItemsKept(ws, ws') /\ UNCHANGED Phases /\ OutboxInv
    BY SameItems DEF PromiseInv
  <1>4. PICK k : k = ws.items[c.item].plan
    OBVIOUS
  <1>5. k \in 1..MaxPlans /\ Phase(ws, k) = "queued"
    BY <1>1, <1>4, PlanInBound
  <1>6. Phases[k] = "queued"
    BY <1>5, PhasesAre
  <1>7. WorksOn(c, ws', k, FALSE) /\ \A r : ~WorksOn(c, ws', r, TRUE)
    BY <1>1, <1>4 DEF WorksOn
  <1>8. \A r, b : ~WorksOn(sender[p], ws, r, b)
    BY <1>2 DEF WorksOn
  <1>14. GoesOn(p, c)
    BY <1>1, <1>3 DEF GoesOn
  <1>9. OneUp(Tally(FALSE), Tally(FALSE)', k)
    <2>1. Gains(p, c, k, FALSE)
      BY <1>5, <1>7, <1>8 DEF Gains
    <2> QED
      BY <1>14, <2>1, TallyGain
  <1>10. Tally(TRUE)' = Tally(TRUE)
    <2>1. StaysAt(p, c, TRUE)
      BY <1>7, <1>8 DEF WorksOn, StaysAt
    <2> QED
      BY <1>14, <2>1, TallyStill
  <1>11. UNCHANGED Writes
    <2>1. CallsFor' = CallsFor
      BY <1>1, <1>3, CallsRest
    <2> QED
      BY <2>1, CountsAre, CountsAreNext
  <1>12. Permits' = [Permits EXCEPT ![k] = @ + 1] /\ UNCHANGED Unrecorded
    BY <1>9, <1>10, TalliesAre DEF OneUp
  <1>13. Promise!TakePermit(k)
    BY <1>3, <1>6, <1>11, <1>12 DEF Promise!TakePermit
  <1> QED
    BY <1>5, <1>13 DEF Kept, Promise!PromiseNext

(* A failed call uses no permit yet.                                       *)
LEMMA FailsKept ==
    ASSUME PromiseInv, UNCHANGED ws, NEW p \in Sender, Fails(p)
    PROVE  Kept
  <1>1. PICK c \in SenderType :
           /\ sender' = [sender EXCEPT ![p] = c] /\ c.step = "answered"
           /\ c.item = sender[p].item /\ c.call = sender[p].call
    BY DEF Fails
  <1>2. sender[p].step = "call" /\ UNCHANGED calls
    BY DEF Fails
  <1>3. ItemsKept(ws, ws') /\ UNCHANGED Phases /\ OutboxInv
    BY SameItems DEF PromiseInv
  <1>4. GoesOn(p, c) /\ StaysAt(p, c, FALSE) /\ StaysAt(p, c, TRUE)
    BY <1>1, <1>2, <1>3 DEF WorksOn, GoesOn, StaysAt
  <1>5. Tally(FALSE)' = Tally(FALSE) /\ Tally(TRUE)' = Tally(TRUE)
    BY <1>4, TallyStill
  <1>6. UNCHANGED Writes
    <2>1. CallsFor' = CallsFor
      BY <1>2, <1>3, CallsRest
    <2> QED
      BY <2>1, CountsAre, CountsAreNext
  <1>7. UNCHANGED <<Permits, Unrecorded>>
    BY <1>5, TalliesAre
  <1> QED
    BY <1>3, <1>6, <1>7 DEF Kept, Promise!promise

(* A call uses the permit, and leaves a write to be recorded.              *)
LEMMA CallsKept ==
    ASSUME PromiseInv, UNCHANGED ws, NEW p \in Sender, Calls(p)
    PROVE  Kept
  <1>1. OutboxInv /\ Typed /\ Held(sender[p])
    BY DEF PromiseInv, OutboxInv, DeliveryInv, CallsHeld
  <1>2. PICK c \in SenderType, n \in CallType :
           /\ sender' = [sender EXCEPT ![p] = c]
           /\ c.step = "answered" /\ c.item = sender[p].item
           /\ c.call \notin DOMAIN calls /\ c.call # 0
           /\ n.item = c.item
           /\ DOMAIN calls' = DOMAIN calls \cup {c.call} /\ calls'[c.call] = n
           /\ \A l \in DOMAIN calls : calls'[l] = calls[l]
    BY <1>1, CallsGrow
  <1>3. sender[p].step = "call"
    BY DEF Calls
  <1>4. ItemsKept(ws, ws') /\ UNCHANGED Phases
    BY SameItems
  <1>5. sender[p].call = 0 /\ sender[p].item \in DOMAIN ws.items
    BY <1>1, <1>3, ItemHeld DEF Held
  <1>6. PICK k : k = ws.items[c.item].plan
    OBVIOUS
  <1>7. k \in 1..MaxPlans
    BY <1>2, <1>5, <1>6, PlanInBound
  <1>8. /\ WorksOn(sender[p], ws, k, FALSE) /\ \A r : ~WorksOn(sender[p], ws, r, TRUE)
        /\ WorksOn(c, ws', k, TRUE) /\ \A r : ~WorksOn(c, ws', r, FALSE)
    BY <1>2, <1>3, <1>5, <1>6 DEF WorksOn
  <1>18. GoesOn(p, c) /\ Loses(p, c, k, FALSE) /\ Gains(p, c, k, TRUE)
    BY <1>2, <1>4, <1>7, <1>8 DEF GoesOn, Loses, Gains
  <1>9. Tally(FALSE)' = [Tally(FALSE) EXCEPT ![k] = @ - 1] /\ Tally(FALSE)[k] > 0
    BY <1>18, TallyLose
  <1>10. OneUp(Tally(TRUE), Tally(TRUE)', k)
    BY <1>18, TallyGain
  <1>11. PICK R, A, B, m : R = 1..MaxPlans /\ A = CallsFor /\ B = CallsFor' /\ m = c.call
    OBVIOUS
  <1>12. OneMore(R, A, B, k, m)
    <2>1. ASSUME NEW r \in R
          PROVE  /\ A[r] = {l \in DOMAIN calls : ws.items[calls[l].item].plan = r}
                 /\ B[r] = {l \in DOMAIN calls' : ws.items[calls'[l].item].plan = r}
      BY <1>11 DEF CallsFor
    <2>2. \A l \in DOMAIN calls' : \/ l \in DOMAIN calls /\ calls'[l].item = calls[l].item
                                   \/ l = m /\ calls'[l].item = c.item
      BY <1>2, <1>11
    <2>3. B[k] = A[k] \cup {m} /\ m \notin A[k]
      BY <1>2, <1>6, <1>7, <1>11, <2>1, <2>2
    <2>4. ASSUME NEW r \in R, r # k PROVE B[r] = A[r]
      <3>1. /\ A[r] = {l \in DOMAIN calls : ws.items[calls[l].item].plan = r}
            /\ B[r] = {l \in DOMAIN calls' : ws.items[calls'[l].item].plan = r}
        BY <2>1
      <3>2. ws.items[calls'[c.call].item].plan = k
        BY <1>2, <1>6
      <3>3. \A l \in DOMAIN calls : calls'[l] = calls[l] /\ l \in DOMAIN calls'
        BY <1>2
      <3>4. \A l \in DOMAIN calls' : l \in DOMAIN calls \/ l = c.call
        BY <1>2
      <3> QED
        BY <2>4, <3>1, <3>2, <3>3, <3>4
    <2>5. IsFiniteSet(A[k])
      BY <1>1, <1>7, <1>11, CallsFinite
    <2> QED
      BY <1>7, <1>11, <2>3, <2>4, <2>5 DEF OneMore
  <1>13. Counts(R, B) = [Counts(R, A) EXCEPT ![k] = @ + 1]
    BY <1>12, CountUp
  <1>14. Writes = Counts(R, A) /\ Writes' = Counts(R, B)
    BY <1>11, CountsAre, CountsAreNext DEF Counts
  <1>15. Writes' = [Writes EXCEPT ![k] = @ + 1]
    BY <1>13, <1>14
  <1>16. /\ Permits[k] > 0 /\ Permits' = [Permits EXCEPT ![k] = @ - 1]
         /\ Unrecorded' = [Unrecorded EXCEPT ![k] = @ + 1]
    BY <1>9, <1>10, TalliesAre DEF OneUp
  <1>17. Promise!WriteOut(k)
    BY <1>4, <1>15, <1>16 DEF Promise!WriteOut, Promise!Less
  <1> QED
    BY <1>7, <1>17 DEF Kept, Promise!PromiseNext

(* The end of a sender gives back its permit, or the record of its write.  *)
LEMMA EndsTally ==
    ASSUME PromiseInv, ItemsKept(ws, ws'), NEW p \in Sender,
           NEW o \in {"recorded", "failed", "lost"}, Ends(p, o),
           NEW k, k = ws.items[sender[p].item].plan
    PROVE  /\ k \in 1..MaxPlans /\ UNCHANGED Writes
           /\ sender[p].call = 0 => Promise!UsePermit(k)
           /\ sender[p].call # 0 => Promise!UsePending(k)
  <1>1. OutboxInv /\ Typed /\ CallsHeld
    BY DEF PromiseInv, OutboxInv, DeliveryInv
  <1>2. sender[p].step # "idle" /\ sender' = [sender EXCEPT ![p] = Idle]
    BY DEF Ends
  <1>3. k \in 1..MaxPlans
    BY <1>1, <1>2, ItemHeld, PlanInBound
  <1>4. UNCHANGED Writes
    <2>1. DOMAIN calls' = DOMAIN calls /\ \A l \in DOMAIN calls : calls'[l].item = calls[l].item
      BY <1>1, EndsCalls
    <2>2. CallsFor' = CallsFor
      BY <1>1, <2>1, CallsRest
    <2> QED
      BY <2>2, CountsAre, CountsAreNext
  <1>5. \A r, b : ~WorksOn(Idle, ws', r, b)
    BY DEF WorksOn, Idle
  <1>6. ASSUME NEW b, b = (sender[p].call # 0)
        PROVE  Tally(b)' = [Tally(b) EXCEPT ![k] = @ - 1] /\ Tally(b)[k] > 0
    <2>1. WorksOn(sender[p], ws, k, b)
      BY <1>2, <1>6 DEF WorksOn
    <2>2. GoesOn(p, Idle) /\ Loses(p, Idle, k, b)
      BY <1>2, <1>3, <1>5, <2>1 DEF GoesOn, Loses
    <2> QED
      BY <2>2, TallyLose
  <1>7. ASSUME NEW b, b # (sender[p].call # 0)
        PROVE  Tally(b)' = Tally(b)
    <2>1. StaysAt(p, Idle, b)
      BY <1>5, <1>7 DEF WorksOn, StaysAt
    <2>2. GoesOn(p, Idle)
      BY <1>2 DEF GoesOn
    <2> QED
      BY <2>1, <2>2, TallyStill
  <1>8. CASE sender[p].call = 0
    <2>1. Tally(FALSE)' = [Tally(FALSE) EXCEPT ![k] = @ - 1] /\ Tally(FALSE)[k] > 0
      BY <1>6, <1>8
    <2>2. Tally(TRUE)' = Tally(TRUE)
      BY <1>7, <1>8
    <2>3. Promise!UsePermit(k)
      BY <2>1, <2>2, TalliesAre DEF Promise!UsePermit, Promise!Less
    <2> QED
      BY <1>3, <1>4, <1>8, <2>3
  <1>9. CASE sender[p].call # 0
    <2>1. Tally(TRUE)' = [Tally(TRUE) EXCEPT ![k] = @ - 1] /\ Tally(TRUE)[k] > 0
      BY <1>6, <1>9
    <2>2. Tally(FALSE)' = Tally(FALSE)
      BY <1>7, <1>9
    <2>3. Promise!UsePending(k)
      BY <2>1, <2>2, TalliesAre DEF Promise!UsePending, Promise!Less
    <2> QED
      BY <1>3, <1>4, <1>9, <2>3
  <1> QED
    BY <1>8, <1>9

LEMMA ForgetKept ==
    ASSUME PromiseInv, UNCHANGED ws, NEW p \in Sender, Ends(p, "lost")
    PROVE  Kept
  <1>1. ItemsKept(ws, ws') /\ UNCHANGED Phases
    BY SameItems
  <1>2. PICK k : k = ws.items[sender[p].item].plan
    OBVIOUS
  <1>3. /\ k \in 1..MaxPlans /\ UNCHANGED Writes
        /\ sender[p].call = 0 => Promise!UsePermit(k)
        /\ sender[p].call # 0 => Promise!UsePending(k)
    BY <1>1, <1>2, EndsTally
  <1>4. Promise!Forget(k)
    BY <1>1, <1>3 DEF Promise!Forget
  <1> QED
    BY <1>3, <1>4 DEF Kept, Promise!PromiseNext

(* An outcome is recorded.                                                 *)
LEMMA SettleKept ==
    ASSUME PromiseInv, NEW p \in Sender, SettleItem(p), Sound(ws'), Valid(ws'), ItemsKept(ws, ws')
    PROVE  Kept
  <1>1. DeliveryInv /\ Sound(ws) /\ Valid(ws) /\ Held(sender[p])
    BY DEF PromiseInv, OutboxInv, DeliveryInv, Typed, CallsHeld
  <1>2. PICK d, o, i, k : /\ d = (IF sender[p].ok THEN "sent" ELSE "failed")
                          /\ o = (IF sender[p].ok THEN "recorded" ELSE "failed")
                          /\ i = sender[p].item /\ k = ws.items[sender[p].item].plan
    OBVIOUS
  <1>3. EndsItem(ws, ws', i, d)
    <2>1. /\ sender[p].step = "answered" /\ ws = sender[p].seen /\ sender[p].item \in DOMAIN ws.items
          /\ ws'.plans = ws.plans /\ DOMAIN ws'.items = DOMAIN ws.items
          /\ ws'.items[sender[p].item].plan = ws.items[sender[p].item].plan
          /\ ws'.items[sender[p].item].status = (IF sender[p].ok THEN "sent" ELSE "failed")
          /\ \A j \in DOMAIN ws.items : j # sender[p].item => ws'.items[j] = ws.items[j]
      BY <1>1, SettleItems
    <2>2. ws.items[sender[p].item].status = "queued"
      BY <1>1, <2>1 DEF Held
    <2> QED
      BY <1>2, <2>1, <2>2 DEF EndsItem
  <1>4. Turns(ws, ws', k, "queued", d)
    BY <1>1, <1>2, <1>3, EndsPhase
  <1>5. Ends(p, o) /\ o \in {"recorded", "failed", "lost"}
    BY <1>2, SettleEnds
  <1>6. /\ k \in 1..MaxPlans /\ UNCHANGED Writes
        /\ sender[p].call = 0 => Promise!UsePermit(k)
        /\ sender[p].call # 0 => Promise!UsePending(k)
    BY <1>2, <1>5, EndsTally
  <1>7. Phases[k] = "queued" /\ Phases' = [Phases EXCEPT ![k] = d]
    BY <1>4, <1>6, PhasesTurn
  <1>8. d \in Promise!After("queued")
    BY <1>2 DEF Promise!After
  <1>9. \/ d = "sent" /\ Promise!UsePending(k)
        \/ d = "failed" /\ (Promise!UsePermit(k) \/ Promise!UsePending(k))
    <2>1. CASE sender[p].ok
      <3>1. sender[p].step # "idle"
        BY <1>5 DEF Ends
      <3>2. sender[p].call # 0
        BY <1>1, <2>1, <3>1 DEF Held
      <3> QED
        BY <1>2, <1>6, <2>1, <3>2
    <2>2. CASE ~sender[p].ok
      BY <1>2, <1>6, <2>2
    <2> QED
      BY <2>1, <2>2
  <1>10. Promise!Advance(k)
    BY <1>6, <1>7, <1>8, <1>9 DEF Promise!Advance
  <1> QED
    BY <1>6, <1>10 DEF Kept, Promise!PromiseNext

(* One sender at most takes up work in a step.                             *)
LEMMA BusyKept ==
    ASSUME OutboxInv, IsFiniteSet(Busy), [Next]_vars
    PROVE  IsFiniteSet(Busy')
  <1>1. sender \in [Sender -> SenderType] /\ DeliveryInv
    BY DEF OutboxInv, DeliveryInv, Typed
  <1>2. CASE UNCHANGED sender
    <2>1. Busy' = Busy
      BY <1>2 DEF Busy
    <2> QED
      BY <2>1
  <1>3. ASSUME NEW p \in Sender, SendStep(p)
        PROVE  IsFiniteSet(Busy')
    <2>1. PICK c : sender' = [sender EXCEPT ![p] = c]
      BY <1>3 DEF SendStep, Loads, Fails, Calls, Ends
    <2>2. Busy' \subseteq Busy \cup {p}
      BY <1>1, <2>1 DEF Busy
    <2>3. IsFiniteSet(Busy \cup {p})
      BY FS_AddElement
    <2> QED
      BY <2>2, <2>3, FS_Subset
  <1> QED
    BY <1>1, <1>2, <1>3, NextSends

LEMMA PromiseStep ==
    ASSUME PromiseInv, [Next]_vars
    PROVE  PromiseInv' /\ Kept
  <1>1. OutboxInv /\ DeliveryInv /\ CallsHeld /\ Sound(ws) /\ PlansBounded(ws) /\ IsFiniteSet(Busy)
    BY DEF PromiseInv, OutboxInv, DeliveryInv, Typed
  <1>2. Sound(ws') /\ Valid(ws') /\ ItemsKept(ws, ws')
    BY <1>1, NextWrites
  <1>3. OutboxInv' /\ IsFiniteSet(Busy')
    BY <1>1, OutboxStep, BusyKept
  <1>4. ASSUME NEW p \in Sender, SettleItem(p)
        PROVE  PlansBounded(ws') /\ Kept
    <2>1. ws'.plans = ws.plans
      BY <1>1, <1>4, SettleItems
    <2>2. Kept
      BY <1>2, <1>4, SettleKept
    <2> QED
      BY <1>1, <2>1, <2>2 DEF PlansBounded
  <1>5. ASSUME NEW p \in Sender, Quiet(p), UNCHANGED ws
        PROVE  PlansBounded(ws') /\ Kept
    <2>1. Kept
      BY <1>5, LoadsKept, FailsKept, CallsKept, ForgetKept DEF Quiet
    <2> QED
      BY <1>1, <1>5, <2>1
  <1>6. ASSUME UNCHANGED <<sender, calls>>, ~ \E p \in Sender : SettleItem(p)
        PROVE  PlansBounded(ws') /\ Kept
    <2>1. Shifts(ws, ws')
      <3>1. CASE UNCHANGED ws
        BY <3>1 DEF Shifts, Rests
      <3> QED
        BY <1>1, <1>6, <3>1, NextMoves DEF Moved
    <2>2. PlansBounded(ws')
      BY <1>1, <2>1, ShiftsBounded
    <2>3. Kept
      BY <1>2, <1>6, <2>1, ShiftKept
    <2> QED
      BY <2>2, <2>3
  <1>7. PlansBounded(ws') /\ Kept
    BY <1>1, <1>4, <1>5, <1>6, NextQuiet
  <1> QED
    BY <1>3, <1>7 DEF PromiseInv

LEMMA PromiseStarts ==
    ASSUME Init
    PROVE  PromiseInv /\ Promise!PromiseInit
  <1>1. ws.plans = <<>> /\ ws.items = <<>> /\ calls = <<>>
    BY DEF Init
  <1>2. \A p \in Sender : sender[p].step = "idle"
    BY DEF Init, Idle
  <1>3. PromiseInv
    <2>1. Busy = {}
      BY <1>2 DEF Busy
    <2>2. IsFiniteSet({})
      BY FS_EmptySet
    <2>3. Len(ws.plans) <= MaxPlans
      BY <1>1, OutboxAssumption
    <2> QED
      BY <2>1, <2>2, <2>3, OutboxStarts DEF PromiseInv, PlansBounded
  <1>4. Phases = [r \in 1..MaxPlans |-> "none"]
    BY <1>1, PhasesAre DEF Phase
  <1>5. \A r \in 1..MaxPlans : Senders(TRUE)[r] = {} /\ Senders(FALSE)[r] = {} /\ CallsFor[r] = {}
    BY <1>1, <1>2 DEF Senders, SendersFor, CallsFor
  <1>6. Cardinality({}) = 0
    BY FS_EmptySet
  <1>7. /\ Permits = [r \in 1..MaxPlans |-> 0] /\ Unrecorded = [r \in 1..MaxPlans |-> 0]
        /\ Writes = [r \in 1..MaxPlans |-> 0]
    BY <1>5, <1>6, CountsAre
  <1> QED
    BY <1>3, <1>4, <1>7 DEF Promise!PromiseInit

(* Plans, outbox and send keep the promise of ExternalWrites: nothing is   *)
(* written before approval and queue, what has ended stays as it ended,    *)
(* and sent means written (integrations.py, linear_send).                  *)
THEOREM OutboxKeepsPromise == Spec => ImplementsExternalWrites
  <1>1. Init => PromiseInv /\ Promise!PromiseInit
    BY PromiseStarts
  <1>2. PromiseInv /\ [Next]_vars => PromiseInv' /\ [Promise!PromiseNext]_(Promise!promise)
    BY PromiseStep DEF Kept
  <1> QED
    BY <1>1, <1>2, PTL DEF Spec, ImplementsExternalWrites, Promise!PromiseSpec
==============================================================================
