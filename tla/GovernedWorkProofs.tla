------------------------- MODULE GovernedWorkProofs -------------------------
(***************************************************************************)
(* What governed work promises, for every set of work, people and files    *)
(* and however often the machine stops: the invariants of WorkLifecycle    *)
(* and ApprovalPacks follow from one inductive invariant, GovernedInv, of  *)
(* the repository (git), the workspace, the plans of the commands under    *)
(* way and the two sides of a transaction that is open. From it and from   *)
(* what each planner reads follow the two promises about the write itself, *)
(* CompletionSeesTheWork and PackWritesWhatWasShown.                       *)
(***************************************************************************)
EXTENDS InterruptedWritesProofs, SequenceTheorems, FiniteSetTheorems, WellFoundedInduction

-----------------------------------------------------------------------------
(* The greatest of numbers, and the latest of records.                     *)

LEMMA LeastOf ==
    ASSUME NEW T, T \subseteq Nat, T # {}
    PROVE  \E m \in T : \A t \in T : m <= t
<1> DEFINE Less == {ss \in Nat \X Nat : ss[1] < ss[2]}
<1>1. PICK m \in T : \A k \in T : ~(<<k, m>> \in Less)
  <2>1. IsWellFoundedOn(Less, Nat)
    BY NatLessThanWellFounded DEF OpToRel
  <2> HIDE DEF Less
  <2> QED
    BY <2>1, WFMin
<1>2. ASSUME NEW t \in T PROVE m <= t
  <2>1. ~(<<t, m>> \in Less) /\ t \in Nat /\ m \in Nat
    BY <1>1
  <2> QED
    BY <2>1
<1> QED
  BY <1>2

LEMMA GreatestOf ==
    ASSUME NEW T, T \subseteq Nat, T # {}, NEW b \in Nat, \A t \in T : t <= b
    PROVE  \E m \in T : \A t \in T : t <= m
<1> DEFINE U == {u \in 0..b : b - u \in T}
<1>1. U \subseteq Nat /\ U # {}
  <2>1. PICK t \in T : TRUE
    OBVIOUS
  <2>2. b - t \in 0..b /\ b - (b - t) = t
    BY <2>1
  <2> QED
    BY <2>1, <2>2
<1>2. PICK u \in U : \A v \in U : u <= v
  <2> HIDE DEF U
  <2> QED
    BY <1>1, LeastOf
<1>3. ASSUME NEW t \in T PROVE t <= b - u
  <2>1. b - t \in 0..b /\ b - (b - t) = t
    OBVIOUS
  <2>2. u <= b - t
    BY <2>1, <1>2
  <2> QED
    BY <2>2
<1> QED
  BY <1>2, <1>3

LEMMA BoundOf ==
    ASSUME NEW n \in Nat, NEW f, \A i \in 1..n : f[i] \in Nat
    PROVE  \E b \in Nat : \A i \in 1..n : f[i] <= b
<1> DEFINE Bounded(m) == \E b \in Nat : \A i \in 1..m : f[i] <= b
           T == {m \in 0..n : ~Bounded(m)}
<1>1. CASE T = {}
  <2>1. n \in 0..n
    OBVIOUS
  <2>2. ASSUME ~Bounded(n) PROVE FALSE
    <3> HIDE DEF Bounded
    <3>1. n \in T
      BY <2>1, <2>2
    <3> QED
      BY <1>1, <3>1
  <2> QED
    BY <2>2
<1>2. CASE T # {}
  <2>1. PICK m \in T : \A t \in T : m <= t
    <3>1. T \subseteq Nat
      OBVIOUS
    <3> QED
      BY <1>2, <3>1, LeastOf
  <2>2. Bounded(0)
    OBVIOUS
  <2>3. m # 0 /\ m \in 1..n /\ m - 1 \in 0..n
    BY <2>1, <2>2
  <2>4. m - 1 \notin T
    <3>1. ASSUME m - 1 \in T PROVE FALSE
      <4>1. m <= m - 1
        BY <2>1, <3>1
      <4> QED
        BY <2>3, <4>1
    <3> QED
      BY <3>1
  <2>5. PICK b \in Nat : \A i \in 1..(m - 1) : f[i] <= b
    BY <2>3, <2>4
  <2>6. f[m] \in Nat
    BY <2>3
  <2>7. \A i \in 1..m : f[i] <= b + f[m]
    <3> TAKE i \in 1..m
    <3>1. CASE i = m
      BY <3>1, <2>6
    <3>2. CASE i # m
      <4>1. i \in 1..(m - 1) /\ f[i] \in Nat
        BY <3>2, <2>3
      <4> QED
        BY <4>1, <2>5, <2>6
    <3> QED
      BY <3>1, <3>2
  <2>8. Bounded(m)
    BY <2>6, <2>7
  <2> QED
    BY <2>1, <2>8
<1> QED
  BY <1>1, <1>2

(* Records with a time each and an id of their own, of which there are     *)
(* finitely many.                                                          *)
Timed(S, n) ==
    /\ n \in Nat
    /\ \A x \in S : x.id \in 1..n /\ x.at \in Nat
    /\ \A x, y \in S : x.id = y.id => x = y

LEMMA LatestExists ==
    ASSUME NEW S, NEW n, Timed(S, n), S # {}
    PROVE  \E x \in S : \A y \in S \ {x} : Later(x, y)
<1> USE DEF Timed
<1> DEFINE f == [i \in 1..n |-> IF \E x \in S : x.id = i THEN (CHOOSE x \in S : x.id = i).at ELSE 0]
<1>1. \A i \in 1..n : f[i] \in Nat
  OBVIOUS
<1>2. \A x \in S : f[x.id] = x.at
  <2> TAKE x \in S
  <2> DEFINE y == CHOOSE y \in S : y.id = x.id
  <2>1. y \in S /\ y.id = x.id
    OBVIOUS
  <2> QED
    BY <2>1
<1>3. PICK b \in Nat : \A i \in 1..n : f[i] <= b
  <2> HIDE DEF f
  <2> QED
    BY <1>1, BoundOf
<1>4. PICK m \in {x.at : x \in S} : \A t \in {x.at : x \in S} : t <= m
  <2> DEFINE T == {x.at : x \in S}
  <2>1. T \subseteq Nat /\ T # {} /\ \A t \in T : t <= b
    BY <1>2, <1>3
  <2> HIDE DEF T
  <2>2. \E u \in T : \A t \in T : t <= u
    BY <2>1, GreatestOf
  <2> QED
    BY <2>2 DEF T
<1> DEFINE U == {x.id : x \in {y \in S : y.at = m}}
<1>5. U \subseteq Nat /\ U # {} /\ \A u \in U : u <= n
  BY <1>4
<1>6. PICK u \in U : \A v \in U : v <= u
  <2> HIDE DEF U
  <2> QED
    BY <1>5, GreatestOf
<1>7. PICK x \in S : x.at = m /\ x.id = u
  BY <1>6
<1>8. ASSUME NEW y \in S \ {x} PROVE Later(x, y)
  <2>1. y.at <= m /\ y.at \in Nat /\ m \in Nat
    BY <1>4
  <2>2. y.at = m => y.id <= u
    BY <1>6
  <2>3. y.id # u /\ y.id \in Nat /\ u \in Nat
    BY <1>7
  <2> QED
    BY <1>7, <2>1, <2>2, <2>3 DEF Later
<1> QED
  BY <1>7, <1>8

(* The latest of such records is one of them, and later than all others.   *)
LEMMA LatestIs ==
    ASSUME NEW S, NEW n, Timed(S, n)
    PROVE  /\ Has(Latest(S)) <=> S # {}
           /\ Has(Latest(S)) => /\ The(Latest(S)) \in S
                                /\ \A y \in S \ {The(Latest(S))} : Later(The(Latest(S)), y)
           /\ Latest(S) = IF S = {} THEN <<>> ELSE <<The(Latest(S))>>
<1>1. CASE S = {}
  BY <1>1 DEF Latest, Has
<1>2. CASE S # {}
  <2> DEFINE x == CHOOSE x \in S : \A y \in S \ {x} : Later(x, y)
  <2>1. x \in S /\ \A y \in S \ {x} : Later(x, y)
    BY <1>2, LatestExists
  <2>2. Latest(S) = <<x>>
    BY <1>2 DEF Latest
  <2> HIDE DEF x
  <2> QED
    BY <1>2, <2>1, <2>2 DEF Has, The
<1> QED
  BY <1>1, <1>2

-----------------------------------------------------------------------------
(* The properties the kernel derives of a case, by name.                   *)
ProofOf(c, ctx) == Proof(c, ctx, ReceiptErrors(c))
ReviewOf(c, ctx) == ReviewProperty(c, ctx, ProofOf(c, ctx))
QuorumOf(c, ctx) == QuorumProperty(c, ReviewOf(c, ctx))
AcceptedOf(c, ctx) == Ordered(c) /\ AcceptanceErrors(c, QuorumOf(c, ctx)) = {}
DerivedOf(c, ctx) ==
    DerivedState(c, ctx, ProofOf(c, ctx), ReviewOf(c, ctx), QuorumOf(c, ctx), AcceptedOf(c, ctx))

LEMMA EvaluateIs ==
    ASSUME NEW c, NEW ctx
    PROVE  /\ Evaluate(c, ctx).derived = DerivedOf(c, ctx)
           /\ Evaluate(c, ctx).errors =
                 AllErrors(c, ctx, ProofOf(c, ctx), ReviewOf(c, ctx), QuorumOf(c, ctx),
                           AcceptanceErrors(c, QuorumOf(c, ctx)),
                           LowRiskCompletion(c, ctx, ProofOf(c, ctx)), DerivedOf(c, ctx))
           /\ Evaluate(c, ctx).qualified =
                 IF LowRiskCompletion(c, ctx, ProofOf(c, ctx)) THEN {} ELSE QuorumOf(c, ctx).qualified
  BY DEF Evaluate, Proving, Reviewing, Counting, Accepting, Concluded, Verdict,
         ProofOf, ReviewOf, QuorumOf, AcceptedOf, DerivedOf

(* What is completed waits for nothing and is proved, and it either has no *)
(* risk or is reviewed, has its quorum and is accepted.                    *)
LEMMA CompletedMeans ==
    ASSUME NEW c, NEW ctx, Evaluate(c, ctx).derived = "completed"
    PROVE  /\ ~Waiting(c) /\ Finished(c) /\ ProofReady(ProofOf(c, ctx), ctx)
           /\ \/ LowRisk(c)
              \/ /\ ReviewOf(c, ctx).outcome \in Settled /\ QuorumOf(c, ctx).outcome \in Settled
                 /\ c.acceptances # {} /\ AcceptedOf(c, ctx)
                 /\ ~LowRiskCompletion(c, ctx, ProofOf(c, ctx))
<1>1. DerivedOf(c, ctx) = "completed"
  BY EvaluateIs
<1>2. CASE LowRiskCompletion(c, ctx, ProofOf(c, ctx))
  BY <1>2 DEF LowRiskCompletion
<1>3. CASE ~LowRiskCompletion(c, ctx, ProofOf(c, ctx))
  <2> DEFINE p == ProofOf(c, ctx)
             v == ReviewOf(c, ctx)
             q == QuorumOf(c, ctx)
             a == AcceptedOf(c, ctx)
             opened == c.contract.status \in {"proposed", "active"}
                       /\ (~Has(c.attempt) \/ The(c.attempt).status = "active")
             stopped == \/ c.contract.status = "blocked" \/ Waiting(c)
                        \/ ~Finished(c) \/ ~ProofReady(p, ctx)
                        \/ v.bound /\ The(c.review).verdict \in NegativeVerdicts
  <2>1. "completed" =
           IF opened THEN "in-progress" ELSE IF stopped THEN "blocked"
           ELSE IF v.outcome \notin Settled THEN "review-required"
           ELSE IF q.outcome \notin Settled THEN "human-decision-required"
           ELSE IF c.acceptances = {} THEN "accept-ready"
           ELSE IF ~a THEN "blocked"
           ELSE IF c.contract.status \in TerminalWork THEN "completed" ELSE "accepted"
    BY <1>1, <1>3 DEF DerivedOf, DerivedState
  <2> HIDE DEF opened, a, v, q
  <2>2. ~stopped /\ v.outcome \in Settled /\ q.outcome \in Settled /\ c.acceptances # {} /\ a
    <3> HIDE DEF stopped
    <3> QED
      BY <2>1
  <2> QED
    BY <1>3, <2>2 DEF v, q, a
<1> QED
  BY <1>2, <1>3

(* A settled quorum has the approvals it requires.                         *)
LEMMA QuorumMeans ==
    ASSUME NEW c, NEW ctx, ReviewOf(c, ctx).outcome \in Settled, QuorumOf(c, ctx).outcome \in Settled
    PROVE  LET current == CurrentDecisions(c)
               qualified == {d \in current : IsApproval(d) /\ MatchesProof(c, d) /\ Capable(c, d.human)}
           IN  /\ QuorumOf(c, ctx).qualified = qualified
               /\ ~(Cardinality({d.human : d \in qualified}) < RequiredCount(c))
               /\ Has(c.review) => \A d \in qualified : ~OutOfOrder(The(c.review).at, d.at)
<1> DEFINE current == CurrentDecisions(c)
           qualified == {d \in current : IsApproval(d) /\ MatchesProof(c, d) /\ Capable(c, d.human)}
<1>1. QuorumOf(c, ctx) = QuorumFrom(c, current, qualified, DecisionErrors(c, current, qualified))
  BY DEF QuorumOf, QuorumProperty, QuorumOver, QuorumAmong
<1> HIDE DEF current, qualified
<1>2. DecisionErrors(c, current, qualified) = {} /\ QuorumOf(c, ctx).qualified = qualified
  BY <1>1 DEF QuorumFrom, Settled
<1>3. /\ ~(Cardinality({d.human : d \in qualified}) < RequiredCount(c))
      /\ ~(Has(c.review) /\ \E d \in qualified : OutOfOrder(The(c.review).at, d.at))
  BY <1>2 DEF DecisionErrors, When
<1> QED
  BY <1>2, <1>3 DEF current, qualified

(* A review that is required and settled binds the proof and accepts it.   *)
LEMMA ReviewMeans ==
    ASSUME NEW c, NEW ctx, ReviewRequired(c), ReviewOf(c, ctx).outcome \in Settled
    PROVE  /\ Has(c.review) /\ The(c.review).verdict = "accept-ready"
           /\ The(c.review).contractDigest = <<c.contract>>
           /\ Has(c.attempt) => The(c.review).reviewer # The(c.attempt).actor
<1>1. ReviewOf(c, ctx) =
         ReviewFrom(c, TRUE, IF Has(c.review) THEN ReviewBindingErrors(c, ctx, ProofOf(c, ctx)) ELSE {})
  BY DEF ReviewOf, ReviewProperty, ReviewRequired
<1>2. /\ Has(c.review) /\ The(c.review).verdict = "accept-ready"
      /\ ReviewBindingErrors(c, ctx, ProofOf(c, ctx)) = {}
  BY <1>1 DEF ReviewFrom, Settled
<1> QED
  BY <1>2 DEF ReviewBindingErrors, When

-----------------------------------------------------------------------------
(* The case a workspace makes of a work item.                              *)

(* The case of the projection that is stored with work item w.             *)
StoredCase(s, g, w) == CaseOn(s, g, "current", w, FALSE, s.work[w].status, Current(s, w))
StoredContext(s, g, w) == RecordedContext(s, g, w, Current(s, w))

LEMMA RecordedIs ==
    ASSUME NEW s, NEW g, NEW w
    PROVE  Recorded(s, g, w, s.work[w].status) = Evaluate(StoredCase(s, g, w), StoredContext(s, g, w))
  BY DEF Recorded, RecordedOn, StoredCase, StoredContext

(* Work that is done as the rules ask has waited for what it depends on.   *)
LEMMA DoneWaits ==
    ASSUME NEW s, NEW g, NEW w, DoneValid(s, g, w), NEW d, d \in Contract(s, w).deps
    PROVE  IsDone(s, d)
<1>1. Evaluate(StoredCase(s, g, w), StoredContext(s, g, w)).derived = "completed"
  BY RecordedIs DEF DoneValid, Settles
<1>2. ~Waiting(StoredCase(s, g, w))
  BY <1>1, CompletedMeans
<1>3. StoredCase(s, g, w).deps = {s.work[e].status : e \in Contract(s, w).deps}
  BY DEF StoredCase, CaseOn, CaseReviewed, CaseFrom
<1> QED
  BY <1>2, <1>3 DEF Waiting, IsDone

-----------------------------------------------------------------------------
(* The workspace is always one that was written within the rules, at some  *)
(* state of the repository.                                                *)
WithinRules(s) ==
    /\ \A i \in DOMAIN s.acceptances : AcceptanceValid(s, s.acceptances[i])
    /\ \A w \in Work : IsDone(s, w) => \E g : DoneValid(s, g, w)

LEMMA ValidWithin ==
    ASSUME NEW s, NEW g, Valid(s, g)
    PROVE  WithinRules(s)
<1>1. \A i \in DOMAIN s.acceptances : AcceptanceValid(s, s.acceptances[i])
  BY DEF Valid
<1>2. \A w \in Work : IsDone(s, w) => DoneValid(s, g, w)
  BY DEF Valid
<1> QED
  BY <1>1, <1>2 DEF WithinRules

LEMMA InitWithin == Init => WithinRules(store)
<1> SUFFICES ASSUME Init PROVE WithinRules(store)
  OBVIOUS
<1>1. PICK draft \in Drafts :
         store = [work |-> [w \in Work |-> Proposed(draft[w])], inactive |-> {},
                  attempts |-> <<>>, receipts |-> <<>>, evidence |-> <<>>,
                  reviews |-> <<>>, decisions |-> <<>>, acceptances |-> <<>>]
  BY DEF Init
<1>2. store.acceptances = <<>> /\ \A w \in Work : store.work[w].status = draft[w].status
  BY <1>1 DEF Proposed
<1> QED
  BY <1>2, LifecycleAssumption DEF WithinRules, IsDone

LEMMA StepsWithin ==
    ASSUME WithinRules(store), [InterruptedNext]_allVars
    PROVE  WithinRules(store')
<1>1. CASE UNCHANGED store
  BY <1>1
<1>2. CASE Valid(store', git)
  BY <1>2, ValidWithin
<1> QED
  BY <1>1, <1>2, StepsWrite DEF Writable

(* Whoever writes, and whatever dies in between, the workspace keeps the   *)
(* rules every write is checked against (write_store).                     *)
THEOREM AlwaysWithinRules == InterruptedSpec => []WithinRules(store)
<1>1. InterruptedInit => WithinRules(store)
  BY InitWithin DEF InterruptedInit, PackInit
<1>2. WithinRules(store) /\ [InterruptedNext]_allVars => WithinRules(store)'
  BY StepsWithin
<1> QED
  BY <1>1, <1>2, PTL DEF InterruptedSpec

(* Work is completed only after everything it depends on, whatever is      *)
(* approved together, written after a death or edited by hand              *)
(* (_derive_state, validate_workspace_contract).                           *)
THEOREM DependenciesComeFirst == InterruptedSpec => []DependenciesFirst
<1>1. WithinRules(store) => DependenciesFirst
  BY DoneWaits DEF WithinRules, DependenciesFirst
<1> QED
  BY <1>1, AlwaysWithinRules, PTL
-----------------------------------------------------------------------------
(* Sequences of records, that only ever grow.                              *)
IsList(r) == \E S : r \in Seq(S)

LEMMA ListIs ==
    ASSUME NEW r, IsList(r)
    PROVE  Len(r) \in Nat /\ DOMAIN r = 1..Len(r)
<1>1. PICK S : r \in Seq(S)
  BY DEF IsList
<1> QED
  BY <1>1, LenProperties

LEMMA Joined ==
    ASSUME NEW r, IsList(r), NEW q, IsList(q)
    PROVE  /\ IsList(r \o q) /\ Len(r \o q) = Len(r) + Len(q)
           /\ \A i \in DOMAIN r : i \in DOMAIN (r \o q) /\ (r \o q)[i] = r[i]
           /\ \A i \in DOMAIN (r \o q) :
                 i \in DOMAIN r \/ (i - Len(r) \in DOMAIN q /\ (r \o q)[i] = q[i - Len(r)])
<1>1. PICK S : r \in Seq(S)
  BY DEF IsList
<1>2. PICK T : q \in Seq(T)
  BY DEF IsList
<1>3. r \in Seq(S \cup T) /\ q \in Seq(S \cup T)
  BY <1>1, <1>2, SeqMonotonic
<1>4. /\ r \o q \in Seq(S \cup T) /\ Len(r \o q) = Len(r) + Len(q)
      /\ \A i \in 1..Len(r) + Len(q) :
            (r \o q)[i] = IF i <= Len(r) THEN r[i] ELSE q[i - Len(r)]
  BY <1>3, ConcatProperties
<1>5. IsList(r \o q)
  BY <1>4 DEF IsList
<1>6. /\ Len(r) \in Nat /\ DOMAIN r = 1..Len(r)
      /\ Len(q) \in Nat /\ DOMAIN q = 1..Len(q)
      /\ DOMAIN (r \o q) = 1..Len(r \o q)
  BY <1>5, ListIs
<1> QED
  BY <1>4, <1>5, <1>6

LEMMA Appended ==
    ASSUME NEW r, IsList(r), NEW x
    PROVE  /\ IsList(Append(r, x)) /\ Len(Append(r, x)) = Len(r) + 1
           /\ \A i \in DOMAIN r : i \in DOMAIN Append(r, x) /\ Append(r, x)[i] = r[i]
           /\ \A i \in DOMAIN Append(r, x) :
                 i \in DOMAIN r \/ (i = Len(r) + 1 /\ Append(r, x)[i] = x)
<1>1. PICK S : r \in Seq(S)
  BY DEF IsList
<1>2. r \in Seq(S \cup {x}) /\ x \in S \cup {x}
  BY <1>1, SeqMonotonic
<1>3. /\ Append(r, x) \in Seq(S \cup {x}) /\ Len(Append(r, x)) = Len(r) + 1
      /\ \A i \in 1..Len(r) : Append(r, x)[i] = r[i]
      /\ Append(r, x)[Len(r) + 1] = x
  BY <1>2, AppendProperties
<1>4. IsList(Append(r, x))
  BY <1>3 DEF IsList
<1>5. /\ Len(r) \in Nat /\ DOMAIN r = 1..Len(r) /\ DOMAIN Append(r, x) = 1..Len(r) + 1
  BY <1>3, <1>4, ListIs
<1> QED
  BY <1>3, <1>4, <1>5

(* new has what old has, in its places, and at the others only what holds. *)
Grown(old, new) == /\ IsList(new) /\ Len(old) <= Len(new)
                   /\ \A i \in DOMAIN old : i \in DOMAIN new /\ new[i] = old[i]

LEMMA AppendGrows ==
    ASSUME NEW r, IsList(r), NEW x
    PROVE  Grown(r, Append(r, x))
<1>1. Len(r) \in Nat
  BY ListIs
<1> QED
  BY <1>1, Appended DEF Grown

LEMMA SameGrows ==
    ASSUME NEW r, IsList(r)
    PROVE  Grown(r, r)
  BY ListIs DEF Grown

LEMMA PutGrows ==
    ASSUME NEW r, IsList(r), NEW i, i \in DOMAIN r \/ i = Len(r) + 1, NEW x
    PROVE  /\ Grown(r, Put(r, i, x)) /\ i \in DOMAIN Put(r, i, x)
           /\ \A n \in DOMAIN Put(r, i, x) : n \in DOMAIN r \/ (n = i /\ Put(r, i, x)[n] = x)
<1>1. CASE i \in DOMAIN r
  BY <1>1, SameGrows DEF Put
<1>2. CASE i \notin DOMAIN r
  <2>1. Put(r, i, x) = Append(r, x) /\ i = Len(r) + 1
    BY <1>2 DEF Put
  <2>2. i \in DOMAIN Append(r, x)
    <3>1. IsList(Append(r, x)) /\ Len(Append(r, x)) = Len(r) + 1 /\ Len(r) \in Nat
      BY Appended, ListIs
    <3>2. DOMAIN Append(r, x) = 1..Len(Append(r, x))
      BY <3>1, ListIs
    <3> QED
      BY <2>1, <3>1, <3>2
  <2> QED
    BY <2>1, <2>2, AppendGrows, Appended
<1> QED
  BY <1>1, <1>2

-----------------------------------------------------------------------------
(* The records of a work item.                                             *)

(* Ids are places, and every record has a work item and a time.            *)
Placed(records) ==
    \A i \in DOMAIN records : records[i].id = i /\ records[i].work \in Work /\ records[i].at \in Nat

LEMMA OfIs ==
    ASSUME NEW records, IsList(records), Placed(records), NEW w
    PROVE  /\ \A x \in Of(records, w) : x.id \in DOMAIN records /\ records[x.id] = x /\ x.work = w
           /\ \A i \in DOMAIN records : records[i].work = w => records[i] \in Of(records, w)
           /\ \A S \in SUBSET Of(records, w) : Timed(S, Len(records))
<1>1. \A x \in Of(records, w) :
         x.id \in DOMAIN records /\ records[x.id] = x /\ x.work = w /\ x.at \in Nat
  BY DEF Of, Placed
<1>2. Len(records) \in Nat /\ DOMAIN records = 1..Len(records)
  BY ListIs
<1>3. \A i \in DOMAIN records : records[i].work = w => records[i] \in Of(records, w)
  BY DEF Of
<1>4. ASSUME NEW S \in SUBSET Of(records, w) PROVE Timed(S, Len(records))
  <2>1. \A x \in S : x.id \in 1..Len(records) /\ x.at \in Nat /\ records[x.id] = x
    BY <1>1, <1>2
  <2> QED
    BY <1>2, <2>1 DEF Timed
<1> QED
  BY <1>1, <1>3, <1>4

(* The latest of some records of a work item.                              *)
LEMMA LatestOf ==
    ASSUME NEW records, IsList(records), Placed(records), NEW w, NEW S \in SUBSET Of(records, w)
    PROVE  /\ Latest(S) = <<>> \/ Latest(S) = <<The(Latest(S))>>
           /\ Has(Latest(S)) => /\ The(Latest(S)) \in S /\ The(Latest(S)).work = w
                                /\ The(Latest(S)).id \in DOMAIN records
                                /\ records[The(Latest(S)).id] = The(Latest(S))
           /\ S # {} => Has(Latest(S))
<1>1. Timed(S, Len(records))
  BY OfIs
<1>2. /\ Has(Latest(S)) <=> S # {}
      /\ Has(Latest(S)) => The(Latest(S)) \in S
      /\ Latest(S) = IF S = {} THEN <<>> ELSE <<The(Latest(S))>>
  BY <1>1, LatestIs
<1>3. \A x \in Of(records, w) : x.id \in DOMAIN records /\ records[x.id] = x /\ x.work = w
  BY OfIs
<1> QED
  BY <1>2, <1>3

ContractFields == {"risk", "intensity", "count", "external", "deps", "intents", "palari", "rev"}

(* What a workspace is made of.                                            *)
Shaped(s) ==
    /\ s = [work |-> s.work, inactive |-> s.inactive, attempts |-> s.attempts,
            receipts |-> s.receipts, evidence |-> s.evidence, reviews |-> s.reviews,
            decisions |-> s.decisions, acceptances |-> s.acceptances]
    /\ s.work = [w \in Work |-> s.work[w]]
    /\ \A w \in Work : /\ s.work[w] = [status |-> s.work[w].status, successor |-> s.work[w].successor,
                                       current |-> s.work[w].current, contract |-> s.work[w].contract]
                       /\ DOMAIN Contract(s, w) = ContractFields
                       /\ Contract(s, w).count \in Nat

Listed(s) == \A k \in Collections : IsList(s[k]) /\ Placed(s[k])

LEMMA ListedIs ==
    ASSUME NEW s
    PROVE  Listed(s) <=> /\ IsList(s.attempts) /\ Placed(s.attempts)
                         /\ IsList(s.receipts) /\ Placed(s.receipts)
                         /\ IsList(s.evidence) /\ Placed(s.evidence)
                         /\ IsList(s.reviews) /\ Placed(s.reviews)
                         /\ IsList(s.decisions) /\ Placed(s.decisions)
                         /\ IsList(s.acceptances) /\ Placed(s.acceptances)
  BY DEF Listed, Collections

OfAttempts(records, attempts) ==
    \A i \in DOMAIN records : /\ records[i].attempt \in DOMAIN attempts
                              /\ attempts[records[i].attempt].work = records[i].work

CurrentOwn(s) ==
    \A w \in Work : s.work[w].current # 0 => /\ s.work[w].current \in DOMAIN s.attempts
                                             /\ s.attempts[s.work[w].current].work = w

(* An optional record of this list and this work item.                     *)
OneOf(opt, records, w) ==
    /\ opt = <<>> \/ opt = <<The(opt)>>
    /\ Has(opt) => /\ The(opt).work = w /\ The(opt).id \in DOMAIN records
                   /\ records[The(opt).id] = The(opt)

LEMMA OneOfLatest ==
    ASSUME NEW records, IsList(records), Placed(records), NEW w, NEW S \in SUBSET Of(records, w)
    PROVE  OneOf(Latest(S), records, w)
  BY LatestOf DEF OneOf

LEMMA CurrentAttemptIs ==
    ASSUME NEW s, Listed(s), CurrentOwn(s), NEW w \in Work
    PROVE  /\ OneOf(CurrentAttempt(s, w), s.attempts, w)
           /\ s.work[w].current # 0 => /\ Has(CurrentAttempt(s, w))
                                       /\ The(CurrentAttempt(s, w)).id = s.work[w].current
<1>1. CASE s.work[w].current # 0
  <2>1. CurrentAttempt(s, w) = <<s.attempts[s.work[w].current]>>
    BY <1>1 DEF CurrentAttempt
  <2>2. s.work[w].current \in DOMAIN s.attempts /\ s.attempts[s.work[w].current].work = w
    BY <1>1 DEF CurrentOwn
  <2>3. s.attempts[s.work[w].current].id = s.work[w].current
    BY <2>2, ListedIs DEF Placed
  <2> QED
    BY <2>1, <2>2, <2>3 DEF OneOf, Has, The
<1>2. CASE s.work[w].current = 0
  BY <1>2, OneOfLatest, ListedIs DEF CurrentAttempt
<1> QED
  BY <1>1, <1>2

LEMMA ForAttemptIs ==
    ASSUME NEW records, IsList(records), Placed(records), NEW w, NEW attempt
    PROVE  /\ OneOf(ForAttempt(records, w, attempt), records, w)
           /\ Has(ForAttempt(records, w, attempt)) =>
                 /\ Has(attempt) /\ The(ForAttempt(records, w, attempt)).attempt = The(attempt).id
                 /\ The(ForAttempt(records, w, attempt)) \in Of(records, w)
<1> DEFINE S == {r \in Of(records, w) : Has(attempt) /\ r.attempt = The(attempt).id}
<1>1. S \in SUBSET Of(records, w) /\ ForAttempt(records, w, attempt) = Latest(S)
  BY DEF ForAttempt
<1>2. Has(Latest(S)) => The(Latest(S)) \in S
  <2> HIDE DEF S
  <2> QED
    BY <1>1, LatestOf
<1>3. OneOf(Latest(S), records, w)
  <2> HIDE DEF S
  <2> QED
    BY <1>1, OneOfLatest
<1> QED
  BY <1>1, <1>2, <1>3

(* What is current for a work item is on record for it.                    *)
LEMMA CurrentIs ==
    ASSUME NEW s, Listed(s), CurrentOwn(s), NEW w \in Work
    PROVE  LET k == Current(s, w)
           IN  /\ k.attempt = CurrentAttempt(s, w) /\ OneOf(k.attempt, s.attempts, w)
               /\ OneOf(k.receipt, s.receipts, w) /\ OneOf(k.evidence, s.evidence, w)
               /\ OneOf(k.review, s.reviews, w)
               /\ Has(k.evidence) => /\ Has(k.attempt)
                                     /\ The(k.evidence).attempt = The(k.attempt).id
<1>1. /\ Current(s, w).attempt = CurrentAttempt(s, w)
      /\ Current(s, w).receipt = ForAttempt(s.receipts, w, CurrentAttempt(s, w))
      /\ Current(s, w).evidence = ForAttempt(s.evidence, w, CurrentAttempt(s, w))
      /\ Current(s, w).review = Latest(Of(s.reviews, w))
  BY DEF Current, CurrentFor
<1>2. OneOf(CurrentAttempt(s, w), s.attempts, w)
  BY CurrentAttemptIs
<1>3. OneOf(Current(s, w).receipt, s.receipts, w)
  BY <1>1, ForAttemptIs, ListedIs
<1>4. /\ OneOf(Current(s, w).evidence, s.evidence, w)
      /\ Has(Current(s, w).evidence) => /\ Has(CurrentAttempt(s, w))
                                        /\ The(Current(s, w).evidence).attempt = The(CurrentAttempt(s, w)).id
  BY <1>1, ForAttemptIs, ListedIs
<1>5. OneOf(Current(s, w).review, s.reviews, w)
  BY <1>1, OneOfLatest, ListedIs
<1> QED
  BY <1>1, <1>2, <1>3, <1>4, <1>5
-----------------------------------------------------------------------------
(* What is sound about a workspace s, beside the repository g.             *)

(* Nobody approves what he reviewed.                                       *)
DecisionOwn(s, d) ==
    /\ d.human \in Human
    /\ d.evidence \in {0} \cup DOMAIN s.evidence
    /\ d.review # 0 => /\ d.review \in DOMAIN s.reviews
                       /\ s.reviews[d.review].work = d.work
                       /\ d.decision \in Approvals => d.human # s.reviews[d.review].reviewer

(* Who accepts decided before, and the work is done.                       *)
AcceptanceOwn(s, x) ==
    /\ x.decision \in DOMAIN s.decisions
    /\ s.decisions[x.decision].at <= x.at
    /\ IsDone(s, x.work)

AcceptedOnce(s) ==
    \A i, k \in DOMAIN s.acceptances :
       /\ s.acceptances[i].work = s.acceptances[k].work
       /\ s.acceptances[i].human = s.acceptances[k].human
       => i = k

Related(s) ==
    /\ CurrentOwn(s)
    /\ OfAttempts(s.receipts, s.attempts)
    /\ OfAttempts(s.evidence, s.attempts)
    /\ \A i \in DOMAIN s.reviews : s.reviews[i].binding.evidence \in DOMAIN s.evidence
    /\ \A i \in DOMAIN s.decisions : DecisionOwn(s, s.decisions[i])
    /\ \A i \in DOMAIN s.acceptances : AcceptanceOwn(s, s.acceptances[i])
    /\ AcceptedOnce(s)

(* Attempts and evidence are about commits, and say what is in them.       *)
AttemptGrounded(s, g, a) ==
    /\ a.base \in DOMAIN g.commits /\ a.head \in DOMAIN g.commits
    /\ a.key[1] = "advance" => Touched(g, a.base, a.head) \subseteq Outputs(s, a.work)

EvidenceGrounded(s, g, e) ==
    LET intents == Contract(s, e.work).intents
    IN  /\ e.head \in DOMAIN g.commits
        /\ e.hashes = ArtifactHashes(intents, Tree(g, e.head))
        /\ \A p \in DOMAIN intents :
              IntentMet(intents[p], Tree(g, s.attempts[e.attempt].base)[p], Tree(g, e.head)[p])

Grounded(s, g) ==
    /\ \A i \in DOMAIN s.attempts : AttemptGrounded(s, g, s.attempts[i])
    /\ \A i \in DOMAIN s.evidence : EvidenceGrounded(s, g, s.evidence[i])

Sound(s, g) == Shaped(s) /\ Listed(s) /\ Related(s) /\ Grounded(s, g)

LEMMA SoundCurrent ==
    ASSUME NEW s, NEW g, Sound(s, g), NEW w \in Work
    PROVE  LET k == Current(s, w)
           IN  /\ k.attempt = CurrentAttempt(s, w) /\ OneOf(k.attempt, s.attempts, w)
               /\ OneOf(k.receipt, s.receipts, w) /\ OneOf(k.evidence, s.evidence, w)
               /\ OneOf(k.review, s.reviews, w)
               /\ Has(k.evidence) => /\ Has(k.attempt)
                                     /\ The(k.evidence).attempt = The(k.attempt).id
<1>1. Listed(s) /\ CurrentOwn(s)
  BY DEF Sound, Related
<1> QED
  BY <1>1, CurrentIs

-----------------------------------------------------------------------------
(* What a sound workspace within the rules says of completed work.         *)

(* The exact current proof of work that is done.                           *)
LEMMA DoneProof ==
    ASSUME NEW s, NEW g, NEW w, DoneValid(s, g, w)
    PROVE  LET k == Current(s, w)
           IN  /\ Has(k.attempt) /\ Has(k.evidence) /\ Has(k.receipt)
               /\ The(k.attempt).clean
               /\ The(k.evidence).head = The(k.attempt).head
  BY DEF DoneValid, ProofCurrent, ProofHolds

LEMMA SoundOnProof ==
    ASSUME Sound(store, git), WithinRules(store)
    PROVE  CompletedOnProof
<1> SUFFICES ASSUME NEW w \in Work, IsDone(store, w)
             PROVE  LET k == Current(store, w)
                        before == Tree(git, The(k.attempt).base)
                        after == Tree(git, The(k.attempt).head)
                    IN  /\ Has(k.attempt) /\ Has(k.evidence) /\ The(k.attempt).clean
                        /\ The(k.evidence).head = The(k.attempt).head
                        /\ \A p \in Outputs(store, w) :
                              /\ The(k.evidence).hashes[p].digest = after[p]
                              /\ before[p] # after[p]
                              /\ (Contract(store, w).intents[p] = "create") = (before[p] = 0)
                              /\ (Contract(store, w).intents[p] = "delete") = (after[p] = 0)
  BY DEF CompletedOnProof
<1> DEFINE k == Current(store, w)
           e == The(k.evidence)
           a == The(k.attempt)
           intents == Contract(store, w).intents
<1>1. PICK g : DoneValid(store, g, w)
  BY DEF WithinRules
<1>2. Has(k.attempt) /\ Has(k.evidence) /\ a.clean /\ e.head = a.head
  BY <1>1, DoneProof
<1>3. /\ OneOf(k.attempt, store.attempts, w) /\ OneOf(k.evidence, store.evidence, w)
      /\ e.attempt = a.id
  BY <1>2, SoundCurrent
<1> HIDE DEF k
<1>4. /\ a.id \in DOMAIN store.attempts /\ store.attempts[a.id] = a
      /\ e.id \in DOMAIN store.evidence /\ store.evidence[e.id] = e /\ e.work = w
  BY <1>2, <1>3 DEF OneOf
<1>5. EvidenceGrounded(store, git, e)
  BY <1>4 DEF Sound, Grounded
<1>6. /\ e.hashes = ArtifactHashes(intents, Tree(git, a.head))
      /\ \A p \in DOMAIN intents : IntentMet(intents[p], Tree(git, a.base)[p], Tree(git, a.head)[p])
  BY <1>2, <1>3, <1>4, <1>5 DEF EvidenceGrounded
<1>7. ASSUME NEW p \in Outputs(store, w)
      PROVE  /\ e.hashes[p].digest = Tree(git, a.head)[p]
             /\ Tree(git, a.base)[p] # Tree(git, a.head)[p]
             /\ (intents[p] = "create") = (Tree(git, a.base)[p] = 0)
             /\ (intents[p] = "delete") = (Tree(git, a.head)[p] = 0)
  <2>1. p \in DOMAIN intents
    BY DEF Outputs
  <2>2. e.hashes[p].digest = Tree(git, a.head)[p]
    BY <1>6, <2>1 DEF ArtifactHashes, HashOf
  <2>3. IntentMet(intents[p], Tree(git, a.base)[p], Tree(git, a.head)[p])
    BY <1>6, <2>1
  <2> QED
    BY <2>2, <2>3 DEF IntentMet
<1> QED
  BY <1>2, <1>7 DEF k

LEMMA SoundInBounds ==
    ASSUME Sound(store, git)
    PROVE  AttemptsStayInBounds
  BY DEF Sound, Grounded, AttemptGrounded, AttemptsStayInBounds

LEMMA SoundAcceptances ==
    ASSUME Sound(store, git), WithinRules(store)
    PROVE  AcceptancesRest
<1>1. IsList(store.acceptances) /\ Placed(store.acceptances)
  BY ListedIs DEF Sound
<1>2. ASSUME NEW w \in Work, NEW x \in Of(store.acceptances, w)
      PROVE  /\ x.id \in DOMAIN store.acceptances /\ store.acceptances[x.id] = x /\ x.work = w
             /\ AcceptanceOwn(store, x) /\ AcceptanceValid(store, x)
  <2>1. x.id \in DOMAIN store.acceptances /\ store.acceptances[x.id] = x /\ x.work = w
    BY <1>1, OfIs
  <2>2. AcceptanceOwn(store, store.acceptances[x.id])
    BY <2>1 DEF Sound, Related
  <2>3. AcceptanceValid(store, store.acceptances[x.id])
    BY <2>1 DEF WithinRules
  <2> QED
    BY <2>1, <2>2, <2>3
<1>3. ASSUME NEW w \in Work, Of(store.acceptances, w) # {} PROVE IsDone(store, w)
  BY <1>2, <1>3 DEF AcceptanceOwn
<1>4. ASSUME NEW w \in Work, NEW x \in Of(store.acceptances, w), NEW y \in Of(store.acceptances, w),
             y.human = x.human
      PROVE  y = x
  <2>1. y.id = x.id
    BY <1>2, <1>4 DEF Sound, Related, AcceptedOnce
  <2> QED
    BY <2>1, <1>2
<1>5. ASSUME NEW w \in Work, NEW x \in Of(store.acceptances, w)
      PROVE  LET d == store.decisions[x.decision]
             IN  /\ <<d.human, d.head, d.evidence, d.review>> = <<x.human, x.head, x.evidence, x.review>>
                 /\ d.decision \in Approvals /\ d.at <= x.at
  <2>1. AcceptanceOwn(store, x) /\ AcceptanceValid(store, x)
    BY <1>2
  <2> QED
    BY <2>1 DEF AcceptanceOwn, AcceptanceValid
<1> QED
  BY <1>3, <1>4, <1>5 DEF AcceptancesRest
-----------------------------------------------------------------------------
(* The standing approvals of completed work.                               *)

Reviewed(s, g, w, inspect) ==
    Has(Current(s, w).review) /\ ReviewBinds(s, g, The(Current(s, w).review), Current(s, w), inspect)

(* Whether the decisions on record answer with the digests of the case c.  *)
Bound(s, g, w, inspect, c) ==
    \/ Reviewed(s, g, w, inspect)
    \/ ~Has(Current(s, w).review) /\ ~ReviewRequired([contract |-> c.contract, receipt |-> c.receipt])

(* What the case says of the records.                                      *)
CaseFacts(s, g, j, w, inspect, status) ==
    LET k == Current(s, w)
        c == CaseOf(s, g, j, w, inspect, status)
    IN  /\ c.contract = ContractOf(s, w, status)
        /\ Has(c.attempt) <=> Has(k.attempt)
        /\ Has(k.attempt) => c.attempt = <<AttemptSnapshot(The(k.attempt), Outputs(s, w))>>
        /\ Has(c.receipt) <=> Has(k.receipt)
        /\ Has(k.receipt) => c.receipt = <<ReceiptSnapshot(The(k.receipt))>>
        /\ Has(c.evidence) <=> Has(k.evidence)
        /\ Has(k.evidence) => c.evidence = <<EvidenceSnapshot(The(k.evidence), c.receipt)>>
        /\ Has(c.review) <=> Has(k.review)
        /\ Has(k.review) =>
              c.review = <<ReviewSnapshot(The(k.review), Reviewed(s, g, w, inspect), c.contract,
                              [attempt |-> c.attempt, receipt |-> c.receipt, evidence |-> c.evidence])>>
        /\ c.humans = [h \in Human |-> IF h \in Approver THEN {"approve"} ELSE {}]
        /\ c.decisions = {DecisionSnapshot(d, Bound(s, g, w, inspect, c), c.evidence, c.review) :
                             d \in DecisionsAbout(s, w, k)}

LEMMA CaseIs ==
    ASSUME NEW s, NEW g, NEW j, NEW w, NEW inspect \in BOOLEAN, NEW status
    PROVE  CaseFacts(s, g, j, w, inspect, status)
<1> DEFINE k == Current(s, w)
           receipt == IF Has(k.receipt) THEN <<ReceiptSnapshot(The(k.receipt))>> ELSE <<>>
           proof == Snapshots(k, Outputs(s, w), receipt)
           contract == ContractOf(s, w, status)
           reviewed == Reviewed(s, g, w, inspect)
           review == IF Has(k.review) THEN <<ReviewSnapshot(The(k.review), reviewed, contract, proof)>> ELSE <<>>
           bound == reviewed \/ (~Has(k.review) /\ ~ReviewRequired([contract |-> contract, receipt |-> proof.receipt]))
           c == CaseOf(s, g, j, w, inspect, status)
<1>1. c = CaseFrom(s, w, contract, k, proof, review, DecisionsAbout(s, w, k), bound,
                   Observed(s, g, j, w, k, inspect))
  BY DEF CaseOf, CaseOn, CaseReviewed, Reviewed
<1>2. /\ proof.receipt = receipt
      /\ proof.attempt = (IF Has(k.attempt) THEN <<AttemptSnapshot(The(k.attempt), Outputs(s, w))>> ELSE <<>>)
      /\ proof.evidence = (IF Has(k.evidence) THEN <<EvidenceSnapshot(The(k.evidence), receipt)>> ELSE <<>>)
      /\ proof = [attempt |-> proof.attempt, receipt |-> proof.receipt, evidence |-> proof.evidence]
  BY DEF Snapshots
<1> HIDE DEF proof, c, reviewed, contract, receipt, k
<1>3. /\ c.contract = contract /\ c.attempt = proof.attempt /\ c.receipt = proof.receipt
      /\ c.evidence = proof.evidence /\ c.review = review
      /\ c.humans = [h \in Human |-> IF h \in Approver THEN {"approve"} ELSE {}]
      /\ c.decisions = {DecisionSnapshot(d, bound, proof.evidence, review) : d \in DecisionsAbout(s, w, k)}
  BY <1>1 DEF CaseFrom
<1>4. bound = Bound(s, g, w, inspect, c)
  BY <1>3 DEF Bound, k, reviewed
<1>5. c.decisions = {DecisionSnapshot(d, Bound(s, g, w, inspect, c), c.evidence, c.review) :
                        d \in DecisionsAbout(s, w, k)}
  BY <1>3, <1>4
<1>6. /\ Has(c.attempt) <=> Has(k.attempt)
      /\ Has(k.attempt) => c.attempt = <<AttemptSnapshot(The(k.attempt), Outputs(s, w))>>
      /\ Has(c.receipt) <=> Has(k.receipt)
      /\ Has(k.receipt) => c.receipt = <<ReceiptSnapshot(The(k.receipt))>>
      /\ Has(c.evidence) <=> Has(k.evidence)
      /\ Has(k.evidence) => c.evidence = <<EvidenceSnapshot(The(k.evidence), c.receipt)>>
  BY <1>2, <1>3 DEF Has, receipt
<1>7. /\ Has(c.review) <=> Has(k.review)
      /\ Has(k.review) =>
            c.review = <<ReviewSnapshot(The(k.review), reviewed, c.contract,
                            [attempt |-> c.attempt, receipt |-> c.receipt, evidence |-> c.evidence])>>
  BY <1>2, <1>3 DEF Has
<1> QED
  BY <1>3, <1>5, <1>6, <1>7 DEF k, c, contract, reviewed, CaseFacts
(* A decision of the case is one on record, read with the digests of the   *)
(* case, and no other decision of its human about the same head is later.  *)
LEMMA AboutIs ==
    ASSUME NEW s, NEW g, Sound(s, g), NEW w \in Work, NEW d, d \in DecisionsAbout(s, w, Current(s, w))
    PROVE  /\ d \in Of(s.decisions, w) /\ d.id \in DOMAIN s.decisions /\ s.decisions[d.id] = d
           /\ d.work = w /\ d.id \in Nat /\ d.at \in Nat /\ DecisionOwn(s, d)
           /\ ~\E x \in Of(s.decisions, w) : x.human = d.human /\ x.head = d.head /\ Later(x, d)
<1> DEFINE k == Current(s, w)
           S == {x \in Of(s.decisions, w) : /\ ReviewedHead(k) # 0 /\ x.head = ReviewedHead(k)
                                            /\ Has(k.review) \/ x.review = 0}
<1>1. d \in S /\ \A x \in S : x.human = d.human /\ x # d => Later(d, x)
  BY DEF DecisionsAbout, LatestOfEach
<1>2. /\ IsList(s.decisions) /\ Placed(s.decisions) /\ IsList(s.reviews) /\ Placed(s.reviews)
      /\ \A i \in DOMAIN s.decisions : DecisionOwn(s, s.decisions[i])
  BY ListedIs DEF Sound, Related
<1>3. \A x \in Of(s.decisions, w) :
         /\ x.id \in DOMAIN s.decisions /\ s.decisions[x.id] = x /\ x.work = w
         /\ x.id \in Nat /\ x.at \in Nat /\ DecisionOwn(s, x)
  <2>1. \A x \in Of(s.decisions, w) : x.id \in DOMAIN s.decisions /\ s.decisions[x.id] = x /\ x.work = w
    BY <1>2, OfIs
  <2>2. \A i \in DOMAIN s.decisions : i \in Nat /\ s.decisions[i].at \in Nat
    BY <1>2, ListIs DEF Placed
  <2> QED
    BY <1>2, <2>1, <2>2
<1>4. ~Has(k.review) => \A x \in Of(s.decisions, w) : x.review = 0
  <2> SUFFICES ASSUME ~Has(k.review), NEW x \in Of(s.decisions, w), x.review # 0 PROVE FALSE
    OBVIOUS
  <2>1. x.review \in DOMAIN s.reviews /\ s.reviews[x.review].work = w
    BY <1>3 DEF DecisionOwn
  <2>2. s.reviews[x.review] \in Of(s.reviews, w)
    BY <1>2, <2>1, OfIs
  <2>3. k.review = Latest(Of(s.reviews, w))
    BY DEF Current, CurrentFor
  <2>4. Has(Latest(Of(s.reviews, w)))
    BY <1>2, <2>2, LatestOf
  <2> QED
    BY <2>3, <2>4
<1>5. ASSUME NEW x \in Of(s.decisions, w), x.human = d.human, x.head = d.head, Later(x, d) PROVE FALSE
  <2>1. x \in S
    BY <1>1, <1>4, <1>5
  <2>2. x # d => Later(d, x)
    BY <1>1, <1>5, <2>1
  <2>3. x.at \in Nat /\ d.at \in Nat /\ x.id \in Nat /\ d.id \in Nat
    BY <1>1, <1>3
  <2> QED
    BY <1>5, <2>2, <2>3 DEF Later
<1> QED
  BY <1>1, <1>3, <1>5

(* Decision d, read in the case of its work, matches the proof.            *)
Matches(s, g, j, w, inspect, status, d) ==
    LET c == CaseOf(s, g, j, w, inspect, status)
    IN  MatchesProof(c, DecisionSnapshot(d, Bound(s, g, w, inspect, c), c.evidence, c.review))

(* Decision d is about the current proof, and names its review.            *)
OnProof(s, w, d) ==
    LET k == Current(s, w)
    IN  /\ d.head = The(k.attempt).head
        /\ d.evidence = The(k.evidence).id
        /\ d.review = IF Has(k.review) THEN The(k.review).id ELSE 0

(* A decision that matches was answered with the digests of the case.      *)
LEMMA MatchIs ==
    ASSUME NEW s, NEW g, NEW j, NEW h, Sound(s, h), NEW w \in Work, NEW inspect \in BOOLEAN, NEW status,
           Has(Current(s, w).evidence),
           The(Current(s, w).evidence).head = The(Current(s, w).attempt).head,
           NEW d, Matches(s, g, j, w, inspect, status, d)
    PROVE  /\ OnProof(s, w, d)
           /\ Has(Current(s, w).review) => Reviewed(s, g, w, inspect)
<1> DEFINE k == Current(s, w)
           c == CaseOf(s, g, j, w, inspect, status)
           bound == Bound(s, g, w, inspect, c)
           a == The(k.attempt)
           e == The(k.evidence)
           r == The(k.review)
<1>1. /\ OneOf(k.attempt, s.attempts, w) /\ OneOf(k.evidence, s.evidence, w)
      /\ OneOf(k.review, s.reviews, w) /\ Has(k.attempt)
  BY SoundCurrent
<1>2. /\ c.attempt = <<AttemptSnapshot(a, Outputs(s, w))>>
      /\ c.evidence = <<EvidenceSnapshot(e, c.receipt)>>
      /\ Has(c.review) <=> Has(k.review)
      /\ Has(k.review) =>
            c.review = <<ReviewSnapshot(r, Reviewed(s, g, w, inspect), c.contract,
                            [attempt |-> c.attempt, receipt |-> c.receipt, evidence |-> c.evidence])>>
  <2>1. CaseFacts(s, g, j, w, inspect, status)
    BY CaseIs
  <2> QED
    BY <1>1, <2>1 DEF CaseFacts
<1> HIDE DEF c, bound, k
<1>3. MatchesProof(c, DecisionSnapshot(d, bound, c.evidence, c.review))
  BY DEF c, bound, Matches
<1>4. /\ d.head = IF Has(c.review) THEN The(c.review).head ELSE AttemptHead(c.attempt)
      /\ d.review = IF Has(c.review) THEN The(c.review).id ELSE 0
      /\ d.evidence = IF Has(c.evidence) THEN The(c.evidence).id ELSE 0
      /\ (IF bound THEN c.evidence ELSE <<>>) = c.evidence
  BY <1>3 DEF MatchesProof, DecisionSnapshot
<1>5. bound
  BY <1>2, <1>4
<1>6. d.evidence = e.id
  BY <1>2, <1>4 DEF Has, The, EvidenceSnapshot
<1>7. d.review = IF Has(k.review) THEN r.id ELSE 0
  BY <1>2, <1>4 DEF The, ReviewSnapshot
<1>8. Has(k.review) => Reviewed(s, g, w, inspect)
  BY <1>5 DEF bound, Bound, k
<1>9. d.head = a.head
  <2>1. CASE ~Has(k.review)
    BY <1>2, <1>4, <2>1 DEF AttemptHead, Has, The, AttemptSnapshot
  <2>2. CASE Has(k.review)
    <3>1. ReviewBinds(s, g, r, k, inspect)
      BY <1>8, <2>2 DEF Reviewed, k
    <3>2. r.binding.evidence = e.id /\ s.evidence[r.binding.evidence].head = r.head
      BY <3>1 DEF ReviewBinds, ReviewIntact, BindingOf
    <3>3. s.evidence[e.id] = e
      BY <1>1 DEF OneOf, k
    <3>4. d.head = r.head
      BY <1>2, <1>4, <2>2 DEF The, ReviewSnapshot
    <3> QED
      BY <3>2, <3>3, <3>4 DEF k
  <2> QED
    BY <2>1, <2>2
<1> QED
  BY <1>6, <1>7, <1>8, <1>9 DEF k, OnProof
LEMMA SameRisk ==
    ASSUME NEW s, NEW g, NEW j, NEW w \in Work, NEW inspect \in BOOLEAN, NEW status, Shaped(s)
    PROVE  LET c == CaseOf(s, g, j, w, inspect, status)
           IN  /\ LowRisk(c) <=> LowRisk([contract |-> Contract(s, w), receipt |-> Current(s, w).receipt])
               /\ ~LowRisk(c) => RequiredCount(c) = Max2(1, Contract(s, w).count)
               /\ RequiredCount(c) \in Nat
               /\ ContractNeedsReview(s, w) => ReviewRequired(c)
<1> DEFINE k == Current(s, w)
           c == CaseOf(s, g, j, w, inspect, status)
           n == Contract(s, w)
           d == [contract |-> n, receipt |-> k.receipt]
<1>1. CaseFacts(s, g, j, w, inspect, status)
  BY CaseIs
<1> HIDE DEF k, c, n
<1>2. /\ c.contract.risk = n.risk /\ c.contract.intensity = n.intensity
      /\ c.contract.count = n.count /\ c.contract.external = n.external
      /\ Has(c.receipt) <=> Has(k.receipt)
      /\ Has(k.receipt) => The(c.receipt).external = The(k.receipt).external
  BY <1>1 DEF CaseFacts, k, c, n, ContractOf, ReceiptSnapshot, The
<1>3. n.count \in Nat
  BY DEF Shaped, n
<1>4. ExternalSurface(c) <=> ExternalSurface(d)
  BY <1>2 DEF ExternalSurface
<1>5. LowRisk(c) <=> LowRisk(d)
  BY <1>2, <1>4 DEF LowRisk
<1>6. ~LowRisk(c) => RequiredCount(c) = Max2(1, n.count)
  BY <1>2, <1>3 DEF RequiredCount, Max2
<1>7. RequiredCount(c) \in Nat
  BY <1>2, <1>3 DEF RequiredCount
<1>8. ContractNeedsReview(s, w) => ReviewRequired(c)
  <2> SUFFICES ASSUME ReviewRequired([contract |-> n, receipt |-> <<>>]) PROVE ReviewRequired(c)
    BY DEF ContractNeedsReview, n
  <2>1. ~Has(<<>>)
    BY DEF Has
  <2>2. n.external \/ n.risk \notin {"R1", "R2"}
    BY <2>1 DEF ReviewRequired, ExternalSurface
  <2> QED
    BY <1>2, <2>2 DEF ReviewRequired, ExternalSurface, LowRisk
<1> QED
  BY <1>5, <1>6, <1>7, <1>8 DEF k, c, n

LEMMA FewerPeople ==
    ASSUME NEW S, NEW T, S \subseteq T, T \subseteq Human, NEW n \in Nat, ~(Cardinality(S) < n)
    PROVE  Cardinality(T) >= n
<1>1. IsFiniteSet(T)
  BY RecordsAssumption, FS_Subset
<1>2. IsFiniteSet(S) /\ Cardinality(S) <= Cardinality(T)
  BY <1>1, FS_Subset
<1>3. Cardinality(S) \in Nat /\ Cardinality(T) \in Nat
  BY <1>1, <1>2, FS_CardinalityType
<1> QED
  BY <1>2, <1>3

(* The approvals the kernel counts for work that is done stand, and rest   *)
(* on its review when there is one.                                        *)
LEMMA QualifiedStand ==
    ASSUME Sound(store, git), NEW w \in Work, NEW g, DoneValid(store, g, w),
           NEW q, q \in CurrentDecisions(StoredCase(store, g, w)), IsApproval(q),
           MatchesProof(StoredCase(store, g, w), q), Capable(StoredCase(store, g, w), q.human)
    PROVE  \E d \in StandingApprovals(w) :
              /\ d.human = q.human /\ d.at = q.at /\ d.at \in Nat
              /\ Has(Current(store, w).review) =>
                    LET r == The(Current(store, w).review)
                    IN  d.review = r.id /\ d.human # r.reviewer
<1> DEFINE k == Current(store, w)
           c == StoredCase(store, g, w)
           bound == Bound(store, g, w, FALSE, c)
<1>1. c = CaseOf(store, g, "current", w, FALSE, store.work[w].status)
  BY DEF StoredCase, CaseOf
<1>2. CaseFacts(store, g, "current", w, FALSE, store.work[w].status)
  BY CaseIs
<1>3. /\ c.contract = ContractOf(store, w, store.work[w].status)
      /\ c.humans = [h \in Human |-> IF h \in Approver THEN {"approve"} ELSE {}]
      /\ c.decisions = {DecisionSnapshot(d, bound, c.evidence, c.review) : d \in DecisionsAbout(store, w, k)}
  <2> HIDE DEF c, k
  <2> QED
    BY <1>1, <1>2 DEF CaseFacts, k
<1>4. /\ Has(k.attempt) /\ Has(k.evidence) /\ The(k.evidence).head = The(k.attempt).head
  BY DoneProof
<1> HIDE DEF c, k, bound
<1>5. q \in c.decisions
  BY DEF CurrentDecisions, c
<1>6. PICK d \in DecisionsAbout(store, w, k) : q = DecisionSnapshot(d, bound, c.evidence, c.review)
  BY <1>3, <1>5
<1>7. /\ d \in Of(store.decisions, w) /\ d.at \in Nat /\ DecisionOwn(store, d)
      /\ ~\E x \in Of(store.decisions, w) : x.human = d.human /\ x.head = d.head /\ Later(x, d)
  BY AboutIs DEF k
<1>8. /\ d.head = The(k.attempt).head /\ d.evidence = The(k.evidence).id
      /\ d.review = IF Has(k.review) THEN The(k.review).id ELSE 0
  <2>1. MatchesProof(c, DecisionSnapshot(d, bound, c.evidence, c.review))
    BY <1>6 DEF c
  <2>2. Matches(store, g, "current", w, FALSE, store.work[w].status, d)
    BY <1>1, <2>1 DEF bound, Matches
  <2>3. Has(Current(store, w).evidence)
        /\ The(Current(store, w).evidence).head = The(Current(store, w).attempt).head
    BY <1>4 DEF k
  <2>4. OnProof(store, w, d)
    BY <2>2, <2>3, MatchIs
  <2> QED
    BY <2>4 DEF OnProof, k
<1>9. q.human = d.human /\ q.at = d.at /\ q.decision = d.decision
  BY <1>6 DEF DecisionSnapshot
<1>10. d.decision \in Approvals
  BY <1>9 DEF IsApproval
<1>11. d.human \in Approver
  <2>1. d.human \in Human /\ c.contract.capability \in {"none"} \cup c.humans[d.human]
    BY <1>3, <1>9 DEF Capable, c
  <2>2. c.contract.capability = "approve"
    BY <1>3 DEF ContractOf
  <2> QED
    BY <1>3, <2>1, <2>2
<1>12. /\ OneOf(k.review, store.reviews, w) /\ k.attempt = CurrentAttempt(store, w)
  BY SoundCurrent DEF k
<1>13. d \in StandingApprovals(w)
  BY <1>7, <1>8, <1>10, <1>11, <1>12 DEF StandingApprovals, k
<1>14. ASSUME Has(k.review)
       PROVE  d.review = The(k.review).id /\ d.human # The(k.review).reviewer
  <2>1. /\ The(k.review).id \in DOMAIN store.reviews
        /\ store.reviews[The(k.review).id] = The(k.review)
    BY <1>12, <1>14 DEF OneOf
  <2>2. DOMAIN store.reviews \subseteq Nat \ {0}
    <3>1. IsList(store.reviews)
      BY ListedIs DEF Sound
    <3> QED
      BY <3>1, ListIs
  <2>3. d.review = The(k.review).id /\ d.review # 0
    BY <1>8, <1>14, <2>1, <2>2
  <2> QED
    BY <1>7, <1>10, <2>1, <2>3 DEF DecisionOwn
<1> QED
  BY <1>7, <1>9, <1>13, <1>14 DEF k
LEMMA SoundQuorum ==
    ASSUME Sound(store, git), WithinRules(store)
    PROVE  CompletedByQuorum
<1> SUFFICES ASSUME NEW w \in Work, IsDone(store, w),
                    ~LowRisk([contract |-> Contract(store, w), receipt |-> Current(store, w).receipt])
             PROVE  LET approvals == StandingApprovals(w)
                        needed == Max2(1, Contract(store, w).count)
                    IN  /\ Cardinality({d.human : d \in approvals}) >= needed
                        /\ ContractNeedsReview(store, w) =>
                              \E r \in Of(store.reviews, w) :
                                 /\ r.verdict = "accept-ready"
                                 /\ r.binding.contract = Contract(store, w)
                                 /\ r.binding.evidence = The(Current(store, w).evidence).id
                                 /\ r.reviewer # The(CurrentAttempt(store, w)).actor
                                 /\ Cardinality({d.human : d \in {x \in approvals :
                                        x.review = r.id /\ x.at >= r.at /\ x.human # r.reviewer}}) >= needed
  BY DEF CompletedByQuorum
<1> DEFINE k == Current(store, w)
           needed == Max2(1, Contract(store, w).count)
<1>1. PICK g : DoneValid(store, g, w)
  BY DEF WithinRules
<1> DEFINE c == StoredCase(store, g, w)
           ctx == StoredContext(store, g, w)
           qualified == {d \in CurrentDecisions(c) : IsApproval(d) /\ MatchesProof(c, d) /\ Capable(c, d.human)}
           people == {d.human : d \in qualified}
<1>2. c = CaseOf(store, g, "current", w, FALSE, store.work[w].status)
  BY DEF StoredCase, CaseOf
<1>3. Shaped(store)
  BY DEF Sound
<1>4. ~LowRisk(c) /\ RequiredCount(c) = needed /\ needed \in Nat
      /\ (ContractNeedsReview(store, w) => ReviewRequired(c))
  <2> HIDE DEF c, needed
  <2> QED
    BY <1>2, <1>3, SameRisk DEF needed
<1>5. ReviewOf(c, ctx).outcome \in Settled /\ QuorumOf(c, ctx).outcome \in Settled
  <2>1. Evaluate(c, ctx).derived = "completed"
    BY <1>1, RecordedIs DEF DoneValid, Settles
  <2> HIDE DEF c, ctx
  <2> QED
    BY <1>4, <2>1, CompletedMeans
<1> HIDE DEF c, ctx, needed, k
<1>6. /\ ~(Cardinality(people) < RequiredCount(c))
      /\ Has(c.review) => \A d \in qualified : ~OutOfOrder(The(c.review).at, d.at)
  BY <1>5, QuorumMeans
<1>7. ASSUME NEW q \in qualified
      PROVE  \E d \in StandingApprovals(w) :
                /\ d.human = q.human /\ d.at = q.at /\ d.at \in Nat
                /\ Has(k.review) => d.review = The(k.review).id /\ d.human # The(k.review).reviewer
  BY <1>1, QualifiedStand DEF c, k
<1>8. {d.human : d \in StandingApprovals(w)} \subseteq Human
  BY RecordsAssumption DEF StandingApprovals
<1>9. Cardinality({d.human : d \in StandingApprovals(w)}) >= needed
  <2>1. people \subseteq {d.human : d \in StandingApprovals(w)}
    BY <1>7
  <2> HIDE DEF people
  <2> QED
    BY <1>4, <1>6, <1>8, <2>1, FewerPeople
<1>10. ASSUME ContractNeedsReview(store, w)
       PROVE  \E r \in Of(store.reviews, w) :
                 /\ r.verdict = "accept-ready"
                 /\ r.binding.contract = Contract(store, w)
                 /\ r.binding.evidence = The(Current(store, w).evidence).id
                 /\ r.reviewer # The(CurrentAttempt(store, w)).actor
                 /\ Cardinality({d.human : d \in {x \in StandingApprovals(w) :
                        x.review = r.id /\ x.at >= r.at /\ x.human # r.reviewer}}) >= needed
  <2> DEFINE r == The(k.review)
             theirs == {x \in StandingApprovals(w) : x.review = r.id /\ x.at >= r.at /\ x.human # r.reviewer}
  <2>1. /\ Has(c.review) /\ The(c.review).verdict = "accept-ready"
        /\ The(c.review).contractDigest = <<c.contract>>
        /\ Has(c.attempt) => The(c.review).reviewer # The(c.attempt).actor
    BY <1>4, <1>5, <1>10, ReviewMeans
  <2>2. CaseFacts(store, g, "current", w, FALSE, store.work[w].status)
    BY CaseIs
  <2>3. /\ Has(k.review)
        /\ c.review = <<ReviewSnapshot(r, Reviewed(store, g, w, FALSE), c.contract,
                           [attempt |-> c.attempt, receipt |-> c.receipt, evidence |-> c.evidence])>>
        /\ Has(c.attempt) <=> Has(k.attempt)
        /\ Has(k.attempt) => c.attempt = <<AttemptSnapshot(The(k.attempt), Outputs(store, w))>>
    BY <1>2, <2>1, <2>2 DEF CaseFacts, k
  <2>4. Has(k.attempt)
    BY <1>1, DoneProof DEF k
  <2>5. r.verdict = "accept-ready" /\ r.reviewer # The(k.attempt).actor /\ The(c.review).at = r.at
        /\ Reviewed(store, g, w, FALSE)
    <3> DEFINE proof == [attempt |-> c.attempt, receipt |-> c.receipt, evidence |-> c.evidence]
               seen == ReviewSnapshot(r, Reviewed(store, g, w, FALSE), c.contract, proof)
    <3>1. /\ seen.verdict = r.verdict /\ seen.reviewer = r.reviewer /\ seen.at = r.at
          /\ seen.contractDigest = (IF Reviewed(store, g, w, FALSE) THEN <<c.contract>> ELSE <<>>)
      BY DEF ReviewSnapshot
    <3>2. The(c.review) = seen
      <4> HIDE DEF seen
      <4>1. c.review = <<seen>>
        BY <2>3 DEF seen
      <4> QED
        BY <4>1 DEF The
    <3> HIDE DEF seen
    <3>3. The(c.attempt).actor = The(k.attempt).actor /\ Has(c.attempt)
      BY <2>3, <2>4 DEF AttemptSnapshot, The
    <3>4. Reviewed(store, g, w, FALSE)
      <4>1. <<c.contract>> = (IF Reviewed(store, g, w, FALSE) THEN <<c.contract>> ELSE <<>>)
        BY <2>1, <3>1, <3>2
      <4> QED
        BY <4>1
    <3> QED
      BY <2>1, <3>1, <3>2, <3>3, <3>4
  <2>6. /\ k.attempt = CurrentAttempt(store, w) /\ OneOf(k.review, store.reviews, w)
    BY SoundCurrent DEF k
  <2>7. r.work = w /\ r.id \in DOMAIN store.reviews /\ store.reviews[r.id] = r
    BY <2>3, <2>6 DEF OneOf
  <2>8. r \in Of(store.reviews, w) /\ r.at \in Nat
    BY <2>7, ListedIs DEF Of, Sound, Placed
  <2>9. r.binding = BindingOf(Contract(store, w), k)
    <3>1. ReviewBinds(store, g, r, k, FALSE)
      BY <2>5 DEF Reviewed, k
    <3> QED
      BY <2>7, <3>1 DEF ReviewBinds
  <2>10. r.binding.contract = Contract(store, w) /\ r.binding.evidence = The(k.evidence).id
    BY <2>9 DEF BindingOf
  <2>11. ASSUME NEW q \in qualified PROVE q.human \in {d.human : d \in theirs}
    <3>1. PICK d \in StandingApprovals(w) :
             /\ d.human = q.human /\ d.at = q.at /\ d.at \in Nat
             /\ Has(k.review) => d.review = r.id /\ d.human # r.reviewer
      BY <1>7
    <3>2. ~OutOfOrder(r.at, q.at)
      BY <1>6, <2>1, <2>5
    <3>3. d.at >= r.at
      BY <2>8, <3>1, <3>2 DEF OutOfOrder
    <3> QED
      BY <2>3, <3>1, <3>3
  <2>12. Cardinality({d.human : d \in theirs}) >= needed
    <3>1. people \subseteq {d.human : d \in theirs}
      BY <2>11
    <3>2. {d.human : d \in theirs} \subseteq Human
      BY <1>8
    <3> HIDE DEF people, theirs
    <3> QED
      BY <1>4, <1>6, <3>1, <3>2, FewerPeople
  <2> QED
    BY <2>5, <2>6, <2>8, <2>10, <2>12 DEF k
<1> QED
  BY <1>9, <1>10 DEF needed
-----------------------------------------------------------------------------
(* The repository only gains commits, each with its history.               *)
Repo(g) ==
    /\ g = [commits |-> g.commits, head |-> g.head, disk |-> g.disk]
    /\ IsList(g.commits) /\ g.head \in DOMAIN g.commits
    /\ DOMAIN g.disk = Path
    /\ \A c \in DOMAIN g.commits : /\ g.commits[c].at \in Nat /\ DOMAIN g.commits[c].tree = Path
                                   /\ 1 \in g.commits[c].line /\ c \in g.commits[c].line
                                   /\ g.commits[c].line \subseteq 1..c

LEMMA LineIs ==
    ASSUME NEW g, Repo(g), NEW c \in DOMAIN g.commits
    PROVE  c \in Nat /\ c >= 1 /\ 1..c \subseteq DOMAIN g.commits /\ g.commits[c].line \subseteq DOMAIN g.commits
<1>1. Len(g.commits) \in Nat /\ DOMAIN g.commits = 1..Len(g.commits)
  BY ListIs DEF Repo
<1>2. g.commits[c].line \subseteq 1..c
  BY DEF Repo
<1> QED
  BY <1>1, <1>2

(* Every commit but the first has a parent on its line.                    *)
LEMMA ParentIs ==
    ASSUME NEW g, Repo(g), NEW c \in DOMAIN g.commits, c # 1
    PROVE  Parent(g, c) \in DOMAIN g.commits
<1> DEFINE T == g.commits[c].line \ {c}
<1>1. c \in Nat /\ g.commits[c].line \subseteq DOMAIN g.commits /\ g.commits[c].line \subseteq 1..c
      /\ 1 \in g.commits[c].line
  BY LineIs DEF Repo
<1>2. T \subseteq Nat /\ T # {} /\ \A t \in T : t <= c
  BY <1>1
<1>3. \E m \in T : \A t \in T : t <= m
  <2> HIDE DEF T
  <2> QED
    BY <1>1, <1>2, GreatestOf
<1>4. Parent(g, c) \in T
  BY <1>3 DEF Parent
<1> QED
  BY <1>1, <1>4

(* What is known of commits stays when others are added.                   *)
Continues(g, h) == \A c \in DOMAIN g.commits : c \in DOMAIN h.commits /\ h.commits[c] = g.commits[c]

LEMMA TouchedKept ==
    ASSUME NEW g, Repo(g), NEW h, Continues(g, h),
           NEW base \in DOMAIN g.commits, NEW head \in DOMAIN g.commits
    PROVE  Touched(h, base, head) = Touched(g, base, head)
<1> DEFINE L == g.commits[head].line \ g.commits[base].line
<1>1. L = h.commits[head].line \ h.commits[base].line
  BY DEF Continues
<1>2. ASSUME NEW c \in L PROVE Changed(h, Parent(h, c), c) = Changed(g, Parent(g, c), c)
  <2>1. c \in DOMAIN g.commits /\ c # 1
    BY LineIs DEF Repo
  <2>2. h.commits[c] = g.commits[c]
    BY <2>1 DEF Continues
  <2>3. Parent(h, c) = Parent(g, c)
    BY <2>2 DEF Parent
  <2>4. Tree(h, Parent(g, c)) = Tree(g, Parent(g, c)) /\ Tree(h, c) = Tree(g, c)
    BY <2>1, ParentIs DEF Continues, Tree
  <2> QED
    BY <2>3, <2>4 DEF Changed
<1> QED
  BY <1>1, <1>2 DEF Touched

LEMMA SoundContinues ==
    ASSUME NEW s, NEW g, Repo(g), NEW h, Continues(g, h), Sound(s, g)
    PROVE  Sound(s, h)
<1>1. ASSUME NEW i \in DOMAIN s.attempts PROVE AttemptGrounded(s, h, s.attempts[i])
  <2> DEFINE a == s.attempts[i]
  <2>1. AttemptGrounded(s, g, a)
    BY DEF Sound, Grounded
  <2>2. a.base \in DOMAIN g.commits /\ a.head \in DOMAIN g.commits
    BY <2>1 DEF AttemptGrounded
  <2>3. Touched(h, a.base, a.head) = Touched(g, a.base, a.head)
    BY <2>2, TouchedKept
  <2> QED
    BY <2>1, <2>2, <2>3 DEF AttemptGrounded, Continues
<1>2. ASSUME NEW i \in DOMAIN s.evidence PROVE EvidenceGrounded(s, h, s.evidence[i])
  <2> DEFINE e == s.evidence[i]
  <2>1. EvidenceGrounded(s, g, e) /\ e.attempt \in DOMAIN s.attempts
    BY DEF Sound, Grounded, Related, OfAttempts
  <2>2. AttemptGrounded(s, g, s.attempts[e.attempt])
    BY <2>1 DEF Sound, Grounded
  <2>3. e.head \in DOMAIN g.commits /\ s.attempts[e.attempt].base \in DOMAIN g.commits
    BY <2>1, <2>2 DEF EvidenceGrounded, AttemptGrounded
  <2>4. /\ Tree(h, e.head) = Tree(g, e.head) /\ e.head \in DOMAIN h.commits
        /\ Tree(h, s.attempts[e.attempt].base) = Tree(g, s.attempts[e.attempt].base)
    BY <2>3 DEF Continues, Tree
  <2> HIDE DEF e
  <2>5. /\ e.head \in DOMAIN h.commits
        /\ e.hashes = ArtifactHashes(Contract(s, e.work).intents, Tree(h, e.head))
        /\ \A p \in DOMAIN Contract(s, e.work).intents :
              IntentMet(Contract(s, e.work).intents[p], Tree(h, s.attempts[e.attempt].base)[p], Tree(h, e.head)[p])
    BY <2>1, <2>4 DEF EvidenceGrounded
  <2>6. EvidenceGrounded(s, h, e)
    BY <2>5 DEF EvidenceGrounded
  <2> QED
    BY <2>6 DEF e
<1> QED
  BY <1>1, <1>2 DEF Sound, Grounded

(* What the repository does on its own.                                    *)
LEMMA RepositoryContinues ==
    ASSUME Repo(git), Now \in Nat, Repository
    PROVE  Repo(git') /\ Continues(git, git')
<1>1. ASSUME NEW p \in Path, NEW b, Edit(p, b) PROVE Repo(git') /\ Continues(git, git')
  <2>1. /\ git'.commits = git.commits /\ git'.head = git.head /\ DOMAIN git'.disk = DOMAIN git.disk
        /\ git' = [commits |-> git'.commits, head |-> git'.head, disk |-> git'.disk]
    BY <1>1 DEF Edit, Repo
  <2> QED
    BY <2>1 DEF Repo, Continues
<1>2. ASSUME NEW c \in DOMAIN git.commits, Checkout(c) PROVE Repo(git') /\ Continues(git, git')
  <2>1. /\ git'.commits = git.commits /\ git'.head = c /\ git'.disk = Tree(git, c)
        /\ git' = [commits |-> git'.commits, head |-> git'.head, disk |-> git'.disk]
    BY <1>2 DEF Checkout, Repo
  <2> QED
    BY <2>1 DEF Repo, Continues, Tree
<1>3. ASSUME Commit PROVE Repo(git') /\ Continues(git, git')
  <2> DEFINE c == Len(git.commits) + 1
             new == [line |-> git.commits[git.head].line \cup {c}, tree |-> git.disk, at |-> Now]
  <2>1. /\ git'.commits = Append(git.commits, new) /\ git'.head = c /\ git'.disk = git.disk
        /\ git' = [commits |-> git'.commits, head |-> git'.head, disk |-> git'.disk]
    BY <1>3 DEF Commit
  <2>2. /\ Len(git.commits) \in Nat /\ DOMAIN git.commits = 1..Len(git.commits)
        /\ IsList(git'.commits) /\ Len(git'.commits) = Len(git.commits) + 1
        /\ \A i \in DOMAIN git.commits : i \in DOMAIN git'.commits /\ git'.commits[i] = git.commits[i]
        /\ \A i \in DOMAIN git'.commits : i \in DOMAIN git.commits \/ (i = c /\ git'.commits[i] = new)
    <3> HIDE DEF new
    <3> QED
      BY <2>1, ListIs, Appended DEF Repo
  <2>3. Len(git'.commits) \in Nat /\ DOMAIN git'.commits = 1..Len(git'.commits)
    BY <2>2, ListIs
  <2>4. c \in DOMAIN git'.commits
    BY <2>2, <2>3
  <2>5. /\ new.at \in Nat /\ new.tree = git.disk /\ 1 \in new.line /\ c \in new.line
        /\ new.line \subseteq 1..c
    <3>1. 1 \in git.commits[git.head].line /\ git.commits[git.head].line \subseteq DOMAIN git.commits
      BY LineIs DEF Repo
    <3> QED
      BY <3>1, <2>2
  <2>6. \A i \in DOMAIN git'.commits :
           /\ git'.commits[i].at \in Nat /\ DOMAIN git'.commits[i].tree = Path
           /\ 1 \in git'.commits[i].line /\ i \in git'.commits[i].line
           /\ git'.commits[i].line \subseteq 1..i
    <3> HIDE DEF new, c
    <3> QED
      BY <2>2, <2>5 DEF Repo
  <2>7. Continues(git, git')
    BY <2>2 DEF Continues
  <2> HIDE DEF new, c
  <2>8. Repo(git')
    BY <2>1, <2>2, <2>4, <2>6 DEF Repo
  <2> QED
    BY <2>7, <2>8
<1> QED
  BY <1>1, <1>2, <1>3 DEF Repository
-----------------------------------------------------------------------------
(* The clock.                                                              *)

LEMMA TimesBounded ==
    ASSUME NEW r, IsList(r), \A i \in DOMAIN r : r[i].at \in Nat
    PROVE  \E b \in Nat : \A i \in DOMAIN r : r[i].at <= b
<1> DEFINE f == [i \in DOMAIN r |-> r[i].at]
<1>1. Len(r) \in Nat /\ DOMAIN r = 1..Len(r)
  BY ListIs
<1>2. \A i \in 1..Len(r) : f[i] \in Nat /\ f[i] = r[i].at
  BY <1>1
<1>3. PICK b \in Nat : \A i \in 1..Len(r) : f[i] <= b
  <2> HIDE DEF f
  <2> QED
    BY <1>1, <1>2, BoundOf
<1> QED
  BY <1>1, <1>2, <1>3

LEMMA RecordsBounded ==
    ASSUME NEW s, Listed(s)
    PROVE  \E b \in Nat : \A k \in Collections : \A i \in DOMAIN s[k] : s[k][i].at <= b
<1>1. \A k \in Collections : IsList(s[k]) /\ \A i \in DOMAIN s[k] : s[k][i].at \in Nat
  BY DEF Listed, Placed
<1>2. PICK b1 \in Nat : \A i \in DOMAIN s.attempts : s.attempts[i].at <= b1
  BY <1>1, TimesBounded DEF Collections
<1>3. PICK b2 \in Nat : \A i \in DOMAIN s.receipts : s.receipts[i].at <= b2
  BY <1>1, TimesBounded DEF Collections
<1>4. PICK b3 \in Nat : \A i \in DOMAIN s.evidence : s.evidence[i].at <= b3
  BY <1>1, TimesBounded DEF Collections
<1>5. PICK b4 \in Nat : \A i \in DOMAIN s.reviews : s.reviews[i].at <= b4
  BY <1>1, TimesBounded DEF Collections
<1>6. PICK b5 \in Nat : \A i \in DOMAIN s.decisions : s.decisions[i].at <= b5
  BY <1>1, TimesBounded DEF Collections
<1>7. PICK b6 \in Nat : \A i \in DOMAIN s.acceptances : s.acceptances[i].at <= b6
  BY <1>1, TimesBounded DEF Collections
<1> DEFINE b == b1 + b2 + b3 + b4 + b5 + b6
<1>8. b \in Nat /\ b1 <= b /\ b2 <= b /\ b3 <= b /\ b4 <= b /\ b5 <= b /\ b6 <= b
  OBVIOUS
<1> HIDE DEF b
<1>9. ASSUME NEW k \in Collections, NEW i \in DOMAIN s[k] PROVE s[k][i].at <= b
  <2>1. s[k][i].at \in Nat
    BY <1>1
  <2>2. s[k][i].at <= b1 \/ s[k][i].at <= b2 \/ s[k][i].at <= b3
        \/ s[k][i].at <= b4 \/ s[k][i].at <= b5 \/ s[k][i].at <= b6
    BY <1>2, <1>3, <1>4, <1>5, <1>6, <1>7 DEF Collections
  <2> QED
    BY <1>8, <2>1, <2>2
<1> QED
  BY <1>8, <1>9

(* The latest of some instants on record.                                  *)
LEMMA InstantsBounded ==
    ASSUME Repo(git), Listed(store)
    PROVE  Instants \subseteq Nat /\ Instants # {} /\ \E b \in Nat : \A t \in Instants : t <= b
<1>1. PICK b1 \in Nat : \A i \in DOMAIN git.commits : git.commits[i].at <= b1
  BY TimesBounded DEF Repo
<1>2. PICK b2 \in Nat : \A k \in Collections : \A i \in DOMAIN store[k] : store[k][i].at <= b2
  BY RecordsBounded
<1>3. /\ \A c \in DOMAIN git.commits : git.commits[c].at \in Nat
      /\ \A k \in Collections : \A i \in DOMAIN store[k] : store[k][i].at \in Nat
  BY DEF Repo, Listed, Placed
<1>4. git.commits[git.head].at \in Instants
  BY DEF Instants, Repo
<1>5. ASSUME NEW t \in Instants PROVE t \in Nat /\ t <= b1 + b2
  <2>1. CASE \E c \in DOMAIN git.commits : t = git.commits[c].at
    BY <1>1, <1>3, <2>1
  <2>2. CASE \E k \in Collections : \E i \in DOMAIN store[k] : t = store[k][i].at
    BY <1>2, <1>3, <2>2
  <2> QED
    BY <2>1, <2>2 DEF Instants
<1>6. b1 + b2 \in Nat
  OBVIOUS
<1> QED
  BY <1>4, <1>5, <1>6

LEMMA NowIs ==
    ASSUME Repo(git), Listed(store)
    PROVE  /\ Last \in Nat /\ Now \in Nat
           /\ \A t \in Instants : t <= Now
           /\ \A i \in DOMAIN store.decisions : store.decisions[i].at <= Now
<1>1. PICK b \in Nat : \A t \in Instants : t <= b
  BY InstantsBounded
<1>2. Instants \subseteq Nat /\ Instants # {}
  BY InstantsBounded
<1>3. \E m \in Instants : \A t \in Instants : t <= m
  BY <1>1, <1>2, GreatestOf
<1>4. Last \in Instants /\ \A t \in Instants : t <= Last
  BY <1>3 DEF Last
<1>5. Last \in Nat /\ Now \in Nat /\ \A t \in Instants : t <= Now
  BY <1>2, <1>4 DEF Now
<1>6. \A i \in DOMAIN store.decisions : store.decisions[i].at \in Instants
  BY DEF Instants, Collections
<1> QED
  BY <1>5, <1>6

-----------------------------------------------------------------------------
(* Changes of the workspace.                                               *)

(* t has the records of s, the same intents, and all the work that is done.*)
Onward(s, t) ==
    /\ Shaped(t) /\ Listed(t) /\ CurrentOwn(t)
    /\ \A w \in Work : /\ Contract(t, w).intents = Contract(s, w).intents
                       /\ IsDone(s, w) => IsDone(t, w)
    /\ Grown(s.attempts, t.attempts) /\ Grown(s.receipts, t.receipts)
    /\ Grown(s.evidence, t.evidence) /\ Grown(s.reviews, t.reviews)
    /\ Grown(s.decisions, t.decisions) /\ Grown(s.acceptances, t.acceptances)

(* The new records say what is so.                                         *)
NewProof(s, t, g) ==
    /\ \A i \in DOMAIN t.attempts \ DOMAIN s.attempts : AttemptGrounded(t, g, t.attempts[i])
    /\ \A i \in DOMAIN t.receipts \ DOMAIN s.receipts :
          /\ t.receipts[i].attempt \in DOMAIN t.attempts
          /\ t.attempts[t.receipts[i].attempt].work = t.receipts[i].work
    /\ \A i \in DOMAIN t.evidence \ DOMAIN s.evidence :
          /\ t.evidence[i].attempt \in DOMAIN t.attempts
          /\ t.attempts[t.evidence[i].attempt].work = t.evidence[i].work
          /\ EvidenceGrounded(t, g, t.evidence[i])

NewJudgement(s, t) ==
    /\ \A i \in DOMAIN t.reviews \ DOMAIN s.reviews : t.reviews[i].binding.evidence \in DOMAIN t.evidence
    /\ \A i \in DOMAIN t.decisions \ DOMAIN s.decisions : DecisionOwn(t, t.decisions[i])
    /\ \A i \in DOMAIN t.acceptances \ DOMAIN s.acceptances :
          /\ AcceptanceOwn(t, t.acceptances[i])
          /\ \A k \in DOMAIN t.acceptances :
                /\ t.acceptances[i].work = t.acceptances[k].work
                /\ t.acceptances[i].human = t.acceptances[k].human
                => i = k

LEMMA OnwardOutputs ==
    ASSUME NEW s, NEW t, Onward(s, t), NEW w \in Work
    PROVE  Contract(t, w).intents = Contract(s, w).intents /\ Outputs(t, w) = Outputs(s, w)
  BY DEF Onward, Outputs

LEMMA OnwardGrounded ==
    ASSUME NEW s, NEW t, NEW g, Sound(s, g), Onward(s, t), NewProof(s, t, g)
    PROVE  Grounded(t, g)
<1>1. ASSUME NEW i \in DOMAIN t.attempts PROVE AttemptGrounded(t, g, t.attempts[i])
  <2>1. CASE i \in DOMAIN s.attempts
    <3>1. t.attempts[i] = s.attempts[i]
      BY <2>1 DEF Onward, Grown
    <3>2. AttemptGrounded(s, g, s.attempts[i]) /\ s.attempts[i].work \in Work
      BY <2>1, ListedIs DEF Sound, Grounded, Placed
    <3>3. Outputs(t, s.attempts[i].work) = Outputs(s, s.attempts[i].work)
      BY <3>2, OnwardOutputs
    <3> QED
      BY <3>1, <3>2, <3>3 DEF AttemptGrounded
  <2> QED
    BY <2>1 DEF NewProof
<1>2. ASSUME NEW i \in DOMAIN t.evidence PROVE EvidenceGrounded(t, g, t.evidence[i])
  <2>1. CASE i \in DOMAIN s.evidence
    <3>1. PICK e : e = s.evidence[i]
      OBVIOUS
    <3>2. t.evidence[i] = e
      BY <2>1, <3>1 DEF Onward, Grown
    <3>3. EvidenceGrounded(s, g, e) /\ e.work \in Work /\ e.attempt \in DOMAIN s.attempts
      BY <2>1, <3>1, ListedIs DEF Sound, Grounded, Placed, Related, OfAttempts
    <3>4. Contract(t, e.work).intents = Contract(s, e.work).intents
          /\ t.attempts[e.attempt] = s.attempts[e.attempt]
      BY <3>3 DEF Onward, Grown
    <3>5. EvidenceGrounded(t, g, e)
      BY <3>3, <3>4 DEF EvidenceGrounded
    <3> QED
      BY <3>2, <3>5
  <2> QED
    BY <2>1 DEF NewProof
<1> QED
  BY <1>1, <1>2 DEF Grounded

LEMMA OfAttemptsGrown ==
    ASSUME NEW old, NEW new, Grown(old, new), NEW before, NEW after, Grown(before, after),
           OfAttempts(old, before),
           \A i \in DOMAIN new \ DOMAIN old : /\ new[i].attempt \in DOMAIN after
                                              /\ after[new[i].attempt].work = new[i].work
    PROVE  OfAttempts(new, after)
<1> SUFFICES ASSUME NEW i \in DOMAIN new
             PROVE  new[i].attempt \in DOMAIN after /\ after[new[i].attempt].work = new[i].work
  BY DEF OfAttempts
<1>1. CASE i \in DOMAIN old
  <2>1. PICK r : r = new[i]
    OBVIOUS
  <2>2. old[i] = r
    BY <1>1, <2>1 DEF Grown
  <2>3. r.attempt \in DOMAIN before /\ before[r.attempt].work = r.work
    BY <1>1, <2>2 DEF OfAttempts
  <2>4. r.attempt \in DOMAIN after /\ after[r.attempt] = before[r.attempt]
    BY <2>3 DEF Grown
  <2> QED
    BY <2>1, <2>3, <2>4
<1> QED
  BY <1>1

LEMMA OnwardRelated ==
    ASSUME NEW s, NEW t, NEW g, Sound(s, g), Onward(s, t), NewProof(s, t, g), NewJudgement(s, t)
    PROVE  Related(t)
<1>1. Related(s) /\ Grown(s.attempts, t.attempts) /\ Grown(s.receipts, t.receipts)
      /\ Grown(s.evidence, t.evidence) /\ Grown(s.reviews, t.reviews)
      /\ Grown(s.decisions, t.decisions) /\ Grown(s.acceptances, t.acceptances)
  BY DEF Sound, Onward
<1>2. OfAttempts(t.receipts, t.attempts)
  BY <1>1, OfAttemptsGrown DEF Related, NewProof
<1>3. OfAttempts(t.evidence, t.attempts)
  BY <1>1, OfAttemptsGrown DEF Related, NewProof
<1>4. \A i \in DOMAIN t.reviews : t.reviews[i].binding.evidence \in DOMAIN t.evidence
  BY <1>1 DEF Grown, Related, NewJudgement
<1>5. ASSUME NEW i \in DOMAIN t.decisions PROVE DecisionOwn(t, t.decisions[i])
  <2>1. CASE i \in DOMAIN s.decisions
    <3>1. t.decisions[i] = s.decisions[i] /\ DecisionOwn(s, s.decisions[i])
      BY <1>1, <2>1 DEF Grown, Related
    <3>2. PICK d : d = s.decisions[i]
      OBVIOUS
    <3>3. d.review # 0 => d.review \in DOMAIN t.reviews /\ t.reviews[d.review] = s.reviews[d.review]
      BY <1>1, <3>1, <3>2 DEF Grown, DecisionOwn
    <3>4. d.evidence \in {0} \cup DOMAIN t.evidence
      BY <1>1, <3>1, <3>2 DEF Grown, DecisionOwn
    <3>5. DecisionOwn(t, d)
      BY <3>1, <3>2, <3>3, <3>4 DEF DecisionOwn
    <3> QED
      BY <3>1, <3>2, <3>5
  <2> QED
    BY <2>1 DEF NewJudgement
<1>6. ASSUME NEW i \in DOMAIN t.acceptances PROVE AcceptanceOwn(t, t.acceptances[i])
  <2>1. CASE i \in DOMAIN s.acceptances
    <3>1. PICK x : x = s.acceptances[i]
      OBVIOUS
    <3>2. t.acceptances[i] = x /\ AcceptanceOwn(s, x) /\ x.work \in Work
      BY <1>1, <2>1, <3>1, ListedIs DEF Grown, Related, Sound, Placed
    <3>3. /\ x.decision \in DOMAIN t.decisions
          /\ t.decisions[x.decision] = s.decisions[x.decision]
      BY <1>1, <3>2 DEF Grown, AcceptanceOwn
    <3>4. IsDone(t, x.work)
      BY <3>2 DEF Onward, AcceptanceOwn
    <3> QED
      BY <3>2, <3>3, <3>4 DEF AcceptanceOwn
  <2> QED
    BY <2>1 DEF NewJudgement
<1>7. AcceptedOnce(t)
  <2> SUFFICES ASSUME NEW i \in DOMAIN t.acceptances, NEW k \in DOMAIN t.acceptances,
                      t.acceptances[i].work = t.acceptances[k].work,
                      t.acceptances[i].human = t.acceptances[k].human
               PROVE  i = k
    BY DEF AcceptedOnce
  <2>1. CASE i \in DOMAIN s.acceptances /\ k \in DOMAIN s.acceptances
    BY <1>1, <2>1 DEF Grown, Related, AcceptedOnce
  <2>2. CASE i \notin DOMAIN s.acceptances
    BY <2>2 DEF NewJudgement
  <2>3. CASE k \notin DOMAIN s.acceptances
    BY <2>3 DEF NewJudgement
  <2> QED
    BY <2>1, <2>2, <2>3
<1> QED
  BY <1>2, <1>3, <1>4, <1>5, <1>6, <1>7 DEF Related, Onward

LEMMA OnwardSound ==
    ASSUME NEW s, NEW t, NEW g, Sound(s, g), Onward(s, t), NewProof(s, t, g), NewJudgement(s, t)
    PROVE  Sound(t, g)
  BY OnwardGrounded, OnwardRelated DEF Sound, Onward
(* Changes that leave the records alone.                                   *)
SameRecords(s, t) ==
    /\ t.attempts = s.attempts /\ t.receipts = s.receipts /\ t.evidence = s.evidence
    /\ t.reviews = s.reviews /\ t.decisions = s.decisions /\ t.acceptances = s.acceptances

SameBinding(s, t) ==
    \A w \in Work : /\ t.work[w].current = s.work[w].current
                    /\ Contract(t, w).intents = Contract(s, w).intents
                    /\ IsDone(s, w) => IsDone(t, w)

LEMMA EditedSound ==
    ASSUME NEW s, NEW t, NEW g, Sound(s, g), Shaped(t), SameRecords(s, t), SameBinding(s, t)
    PROVE  Sound(t, g)
<1>1. Listed(s) /\ CurrentOwn(s)
  BY DEF Sound, Related
<1>2. Listed(t)
  BY <1>1, ListedIs DEF SameRecords
<1>3. CurrentOwn(t)
  BY <1>1 DEF CurrentOwn, SameRecords, SameBinding
<1>4. /\ Grown(s.attempts, t.attempts) /\ Grown(s.receipts, t.receipts)
      /\ Grown(s.evidence, t.evidence) /\ Grown(s.reviews, t.reviews)
      /\ Grown(s.decisions, t.decisions) /\ Grown(s.acceptances, t.acceptances)
  BY <1>1, ListedIs, SameGrows DEF SameRecords
<1>5. Onward(s, t)
  BY <1>2, <1>3, <1>4 DEF Onward, SameBinding
<1>6. NewProof(s, t, g) /\ NewJudgement(s, t)
  BY DEF NewProof, NewJudgement, SameRecords
<1> QED
  BY <1>5, <1>6, OnwardSound

(* Another version of a work item.                                         *)
Reworked(s, w, v) == [s EXCEPT !.work[w] = v]

Reworks(s, w, v) ==
    /\ v = [status |-> v.status, successor |-> v.successor, current |-> v.current, contract |-> v.contract]
    /\ v.current = s.work[w].current /\ v.contract.intents = Contract(s, w).intents
    /\ DOMAIN v.contract = ContractFields /\ v.contract.count \in Nat
    /\ IsDone(s, w) => v.status \in TerminalWork

LEMMA ReworkedSound ==
    ASSUME NEW s, NEW g, Sound(s, g), NEW w \in Work, NEW v, Reworks(s, w, v), NEW t, t = Reworked(s, w, v)
    PROVE  Sound(t, g) /\ SameRecords(s, t) /\ t.work[w] = v
<1>1. Shaped(s)
  BY DEF Sound
<1>2. t = [work |-> [s.work EXCEPT ![w] = v], inactive |-> s.inactive, attempts |-> s.attempts,
           receipts |-> s.receipts, evidence |-> s.evidence, reviews |-> s.reviews,
           decisions |-> s.decisions, acceptances |-> s.acceptances]
  BY <1>1 DEF Shaped, Reworked
<1>3. /\ t.work = [s.work EXCEPT ![w] = v]
      /\ t = [work |-> t.work, inactive |-> t.inactive, attempts |-> t.attempts,
              receipts |-> t.receipts, evidence |-> t.evidence, reviews |-> t.reviews,
              decisions |-> t.decisions, acceptances |-> t.acceptances]
      /\ SameRecords(s, t)
  BY <1>2 DEF SameRecords
<1>4. s.work = [u \in Work |-> s.work[u]]
  BY <1>1 DEF Shaped
<1>5. t.work = [u \in Work |-> IF u = w THEN v ELSE s.work[u]]
  BY <1>3, <1>4
<1>6. t.work[w] = v /\ \A u \in Work : u # w => t.work[u] = s.work[u]
  BY <1>5
<1>7. ASSUME NEW u \in Work
      PROVE  /\ t.work[u] = [status |-> t.work[u].status, successor |-> t.work[u].successor,
                             current |-> t.work[u].current, contract |-> t.work[u].contract]
             /\ DOMAIN Contract(t, u) = ContractFields /\ Contract(t, u).count \in Nat
             /\ t.work[u].current = s.work[u].current
             /\ Contract(t, u).intents = Contract(s, u).intents
             /\ IsDone(s, u) => IsDone(t, u)
  <2>1. CASE u = w
    BY <1>6, <2>1 DEF Reworks, Contract, IsDone
  <2>2. CASE u # w
    BY <1>1, <1>6, <2>2 DEF Shaped, Contract, IsDone
  <2> QED
    BY <2>1, <2>2
<1>8. Shaped(t)
  <2>1. t.work = [u \in Work |-> t.work[u]]
    BY <1>5
  <2> QED
    BY <1>3, <1>7, <2>1 DEF Shaped
<1>9. SameBinding(s, t)
  BY <1>7 DEF SameBinding
<1> QED
  BY <1>3, <1>6, <1>8, <1>9, EditedSound

(* Its contract rewritten, but for the intents and the count.              *)
LEMMA RecontractedSound ==
    ASSUME NEW s, NEW g, Sound(s, g), NEW w \in Work, NEW field \in {"rev", "risk", "deps"}, NEW x,
           NEW t, t = Reworked(s, w, [s.work[w] EXCEPT !.contract = [s.work[w].contract EXCEPT ![field] = x]])
    PROVE  Sound(t, g)
<1>1. PICK c : c = [s.work[w].contract EXCEPT ![field] = x]
  OBVIOUS
<1>2. PICK v : v = [s.work[w] EXCEPT !.contract = c]
  OBVIOUS
<1>3. /\ s.work[w] = [status |-> s.work[w].status, successor |-> s.work[w].successor,
                      current |-> s.work[w].current, contract |-> s.work[w].contract]
      /\ DOMAIN s.work[w].contract = ContractFields /\ s.work[w].contract.count \in Nat
  BY DEF Sound, Shaped, Contract
<1>4. DOMAIN c = ContractFields /\ c.count = s.work[w].contract.count /\ c.intents = s.work[w].contract.intents
  BY <1>1, <1>3 DEF ContractFields
<1>5. v = [status |-> s.work[w].status, successor |-> s.work[w].successor,
           current |-> s.work[w].current, contract |-> c]
  BY <1>2, <1>3
<1>6. Reworks(s, w, v)
  BY <1>3, <1>4, <1>5 DEF Reworks, Contract, IsDone
<1>7. t = Reworked(s, w, v)
  BY <1>1, <1>2
<1> QED
  BY <1>6, <1>7, ReworkedSound

Completing(s, w) == [s EXCEPT !.work[w].status = "completed"]

LEMMA CompletedSound ==
    ASSUME NEW s, NEW g, Sound(s, g), NEW w \in Work, NEW t, t = Completing(s, w)
    PROVE  Sound(t, g) /\ SameRecords(s, t) /\ IsDone(t, w)
<1>1. s.work[w] = [status |-> s.work[w].status, successor |-> s.work[w].successor,
                   current |-> s.work[w].current, contract |-> s.work[w].contract]
      /\ DOMAIN s.work[w].contract = ContractFields /\ s.work[w].contract.count \in Nat
  BY DEF Sound, Shaped, Contract
<1>2. PICK v : v = [s.work[w] EXCEPT !.status = "completed"]
  OBVIOUS
<1>3. v = [status |-> "completed", successor |-> s.work[w].successor,
           current |-> s.work[w].current, contract |-> s.work[w].contract]
  BY <1>1, <1>2
<1>4. Reworks(s, w, v)
  BY <1>1, <1>3 DEF Reworks, Contract, TerminalWork
<1>5. t = Reworked(s, w, v)
  BY <1>2 DEF Completing, Reworked
<1>6. Sound(t, g) /\ SameRecords(s, t) /\ t.work[w] = v
  BY <1>4, <1>5, ReworkedSound
<1> QED
  BY <1>3, <1>6 DEF IsDone, TerminalWork

(* Changes of what is judged, and of nothing else.                         *)
Rejudged(s, t) ==
    /\ Shaped(t) /\ t.work = s.work
    /\ t.attempts = s.attempts /\ t.receipts = s.receipts /\ t.evidence = s.evidence

WithAcceptances(s, X) == [s EXCEPT !.acceptances = X]

LEMMA AcceptancesReplaced ==
    ASSUME NEW s, Shaped(s), NEW X, NEW t, t = WithAcceptances(s, X)
    PROVE  /\ Rejudged(s, t) /\ t.acceptances = X
           /\ t.reviews = s.reviews /\ t.decisions = s.decisions
<1>1. t = [work |-> s.work, inactive |-> s.inactive, attempts |-> s.attempts,
           receipts |-> s.receipts, evidence |-> s.evidence, reviews |-> s.reviews,
           decisions |-> s.decisions, acceptances |-> X]
  BY DEF Shaped, WithAcceptances
<1> QED
  BY <1>1 DEF Shaped, Contract, Rejudged

Redecided(s, X) == [s EXCEPT !.decisions = X]

LEMMA DecisionsReplaced ==
    ASSUME NEW s, Shaped(s), NEW X, NEW t, t = Redecided(s, X)
    PROVE  /\ Rejudged(s, t) /\ t.decisions = X
           /\ t.reviews = s.reviews /\ t.acceptances = s.acceptances
<1>1. t = [work |-> s.work, inactive |-> s.inactive, attempts |-> s.attempts,
           receipts |-> s.receipts, evidence |-> s.evidence, reviews |-> s.reviews,
           decisions |-> X, acceptances |-> s.acceptances]
  BY DEF Shaped, Redecided
<1> QED
  BY <1>1 DEF Shaped, Contract, Rejudged

WithReviews(s, X) == [s EXCEPT !.reviews = X]

LEMMA ReviewsReplaced ==
    ASSUME NEW s, Shaped(s), NEW X, NEW t, t = WithReviews(s, X)
    PROVE  /\ Rejudged(s, t) /\ t.reviews = X
           /\ t.decisions = s.decisions /\ t.acceptances = s.acceptances
<1>1. t = [work |-> s.work, inactive |-> s.inactive, attempts |-> s.attempts,
           receipts |-> s.receipts, evidence |-> s.evidence, reviews |-> X,
           decisions |-> s.decisions, acceptances |-> s.acceptances]
  BY DEF Shaped, WithReviews
<1> QED
  BY <1>1 DEF Shaped, Contract, Rejudged

(* The acceptance of a decision that was taken before, about work that is  *)
(* done, by a human who has none on record.                                *)
LEMMA AcceptanceAdded ==
    ASSUME NEW s, NEW g, Sound(s, g), NEW x, x.id = Len(s.acceptances) + 1, x.work \in Work, x.at \in Nat,
           x.decision \in DOMAIN s.decisions, s.decisions[x.decision].at <= x.at, IsDone(s, x.work),
           \A y \in Of(s.acceptances, x.work) : y.human # x.human,
           NEW t, Rejudged(s, t), t.reviews = s.reviews, t.decisions = s.decisions,
           t.acceptances = Append(s.acceptances, x)
    PROVE  Sound(t, g)
<1> PICK A : A = Append(s.acceptances, x)
  OBVIOUS
<1>1. Shaped(s) /\ Listed(s) /\ Related(s)
  BY DEF Sound
<1>2. /\ Shaped(t) /\ t.work = s.work
      /\ t.attempts = s.attempts /\ t.receipts = s.receipts /\ t.evidence = s.evidence
      /\ t.reviews = s.reviews /\ t.decisions = s.decisions /\ t.acceptances = A
  BY DEF Rejudged
<1>3. /\ IsList(s.acceptances) /\ Placed(s.acceptances) /\ IsList(A) /\ Grown(s.acceptances, A)
      /\ \A i \in DOMAIN A : i \in DOMAIN s.acceptances \/ (i = Len(s.acceptances) + 1 /\ A[i] = x)
  BY <1>1, ListedIs, Appended, AppendGrows
<1>4. Placed(A)
  <2>1. \A i \in DOMAIN s.acceptances : A[i] = s.acceptances[i]
    BY <1>3 DEF Grown
  <2> QED
    BY <1>3, <2>1 DEF Placed
<1>5. Onward(s, t)
  <2>1. Listed(t)
    BY <1>1, <1>2, <1>3, <1>4, ListedIs
  <2>2. CurrentOwn(t)
    BY <1>1, <1>2 DEF Related, CurrentOwn
  <2>3. /\ Grown(s.attempts, t.attempts) /\ Grown(s.receipts, t.receipts)
        /\ Grown(s.evidence, t.evidence) /\ Grown(s.reviews, t.reviews)
        /\ Grown(s.decisions, t.decisions) /\ Grown(s.acceptances, t.acceptances)
    BY <1>1, <1>2, <1>3, ListedIs, SameGrows
  <2>4. \A w \in Work : /\ Contract(t, w).intents = Contract(s, w).intents
                        /\ IsDone(s, w) => IsDone(t, w)
    BY <1>2 DEF Contract, IsDone
  <2> QED
    BY <1>2, <2>1, <2>2, <2>3, <2>4 DEF Onward
<1>6. NewProof(s, t, g)
  BY <1>2 DEF NewProof
<1>7. ASSUME NEW i \in DOMAIN A \ DOMAIN s.acceptances
      PROVE  /\ AcceptanceOwn(t, A[i])
             /\ \A k \in DOMAIN A : A[i].work = A[k].work /\ A[i].human = A[k].human => i = k
  <2>1. A[i] = x /\ i = Len(s.acceptances) + 1
    BY <1>3
  <2>2. AcceptanceOwn(t, x)
    BY <1>2 DEF AcceptanceOwn, IsDone
  <2>3. ASSUME NEW k \in DOMAIN A, x.work = A[k].work, x.human = A[k].human PROVE i = k
    <3>1. CASE k \in DOMAIN s.acceptances
      <4>1. A[k] = s.acceptances[k]
        BY <1>3, <3>1 DEF Grown
      <4>2. A[k] \in Of(s.acceptances, x.work)
        BY <1>3, <2>3, <3>1, <4>1, OfIs
      <4> QED
        BY <2>3, <4>2
    <3> QED
      BY <1>3, <2>1, <3>1
  <2> QED
    BY <2>1, <2>2, <2>3
<1>8. /\ DOMAIN t.reviews \ DOMAIN s.reviews = {} /\ DOMAIN t.decisions \ DOMAIN s.decisions = {}
      /\ t.acceptances = A
  BY <1>2
<1>9. NewJudgement(s, t)
  BY <1>7, <1>8 DEF NewJudgement
<1> QED
  BY <1>2, <1>5, <1>6, <1>9, OnwardSound

(* The same together with the completion itself.                           *)
LEMMA AcceptedSound ==
    ASSUME NEW s, NEW g, Sound(s, g), NEW w \in Work, NEW d, NEW n \in Nat,
           d.id \in DOMAIN s.decisions, s.decisions[d.id].at <= n,
           \A y \in Of(s.acceptances, w) : y.human # d.human,
           NEW t, t = Completing(WithAcceptance(s, w, d, n), w)
    PROVE  Sound(t, g) /\ t.decisions = s.decisions
<1> DEFINE x == [id |-> Len(s.acceptances) + 1, work |-> w, human |-> d.human, decision |-> d.id,
                 head |-> d.head, evidence |-> d.evidence, review |-> d.review,
                 receipt |-> The(LatestReceipt(s, w)).id, at |-> n]
<1>1. WithAcceptance(s, w, d, n) = [s EXCEPT !.acceptances = Append(s.acceptances, x)]
  BY DEF WithAcceptance
<1>2. /\ x.id = Len(s.acceptances) + 1 /\ x.work = w /\ x.human = d.human
      /\ x.decision = d.id /\ x.at = n
  OBVIOUS
<1> HIDE DEF x
<1>3. PICK u : u = Completing(s, w)
  OBVIOUS
<1>4. Sound(u, g) /\ u.decisions = s.decisions /\ u.acceptances = s.acceptances /\ IsDone(u, w)
  BY <1>3, CompletedSound DEF SameRecords
<1>5. s = [work |-> s.work, inactive |-> s.inactive, attempts |-> s.attempts,
           receipts |-> s.receipts, evidence |-> s.evidence, reviews |-> s.reviews,
           decisions |-> s.decisions, acceptances |-> s.acceptances]
  BY DEF Sound, Shaped
<1>7. t = [u EXCEPT !.acceptances = Append(u.acceptances, x)]
  BY <1>1, <1>3, <1>5 DEF Completing
<1>9. /\ x.id = Len(u.acceptances) + 1 /\ x.work \in Work /\ x.at \in Nat
      /\ x.decision \in DOMAIN u.decisions /\ u.decisions[x.decision].at <= x.at /\ IsDone(u, x.work)
      /\ \A y \in Of(u.acceptances, x.work) : y.human # x.human
  BY <1>2, <1>4
<1>10. /\ Rejudged(u, t) /\ t.acceptances = Append(u.acceptances, x)
       /\ t.reviews = u.reviews /\ t.decisions = u.decisions
  <2>1. Shaped(u)
    BY <1>4 DEF Sound
  <2>2. PICK A : A = Append(u.acceptances, x)
    OBVIOUS
  <2>3. t = WithAcceptances(u, A)
    BY <1>7, <2>2 DEF WithAcceptances
  <2>4. /\ Rejudged(u, t) /\ t.acceptances = A
        /\ t.reviews = u.reviews /\ t.decisions = u.decisions
    BY <2>1, <2>3, AcceptancesReplaced
  <2> QED
    BY <2>2, <2>4
<1>11. Sound(t, g)
  BY <1>4, <1>9, <1>10, AcceptanceAdded
<1> QED
  BY <1>4, <1>10, <1>11
-----------------------------------------------------------------------------
(* Edits by hand.                                                          *)

LEMMA HandEditSound ==
    ASSUME NEW w, NEW kind, NEW new, HandEdit(w, kind, new), Sound(new, git)
    PROVE  Sound(store', git)
  BY DEF HandEdit

LEMMA LeftSound ==
    ASSUME NEW s, NEW g, Sound(s, g), NEW X, NEW t, t = [s EXCEPT !.inactive = X]
    PROVE  Sound(t, g)
<1>1. t = [work |-> s.work, inactive |-> X, attempts |-> s.attempts,
           receipts |-> s.receipts, evidence |-> s.evidence, reviews |-> s.reviews,
           decisions |-> s.decisions, acceptances |-> s.acceptances]
  BY DEF Sound, Shaped
<1>2. Shaped(t) /\ SameRecords(s, t) /\ SameBinding(s, t)
  BY <1>1 DEF Sound, Shaped, SameRecords, SameBinding, Contract, IsDone
<1> QED
  BY <1>2, EditedSound

LEMMA HandsSound ==
    ASSUME Sound(store, git), Hand
    PROVE  Sound(store', git)
<1>1. ASSUME NEW w \in Work, EditContract(w) PROVE Sound(store', git)
  <2>1. PICK x : x = store.work[w].contract.rev + 1
    OBVIOUS
  <2>2. PICK new : new = Reworked(store, w, [store.work[w] EXCEPT !.contract =
                                               [store.work[w].contract EXCEPT !["rev"] = x]])
    OBVIOUS
  <2>3. HandEdit(w, "contract", new)
    BY <1>1, <2>1, <2>2 DEF EditContract, Reworked
  <2>4. Sound(new, git)
    BY <2>2, RecontractedSound
  <2> QED
    BY <2>3, <2>4, HandEditSound
<1>2. ASSUME NEW w \in Work, RaiseRisk(w) PROVE Sound(store', git)
  <2>1. PICK new : new = Reworked(store, w, [store.work[w] EXCEPT !.contract =
                                               [store.work[w].contract EXCEPT !["risk"] = "R3"]])
    OBVIOUS
  <2>2. HandEdit(w, "risk", new)
    BY <1>2, <2>1 DEF RaiseRisk, Reworked
  <2>3. Sound(new, git)
    BY <2>1, RecontractedSound
  <2> QED
    BY <2>2, <2>3, HandEditSound
<1>3. ASSUME NEW w \in Work, NEW d \in Work, Depend(w, d) PROVE Sound(store', git)
  <2>1. PICK x : x = store.work[w].contract.deps \cup {d}
    OBVIOUS
  <2>2. PICK new : new = Reworked(store, w, [store.work[w] EXCEPT !.contract =
                                               [store.work[w].contract EXCEPT !["deps"] = x]])
    OBVIOUS
  <2>3. HandEdit(w, "depend", new)
    BY <1>3, <2>1, <2>2 DEF Depend, Reworked
  <2>4. Sound(new, git)
    BY <2>2, RecontractedSound
  <2> QED
    BY <2>3, <2>4, HandEditSound
<1>4. ASSUME NEW w \in Work, NEW h, Leave(w, h) PROVE Sound(store', git)
  <2>1. PICK x : x = store.inactive \cup {h}
    OBVIOUS
  <2>2. PICK new : new = [store EXCEPT !.inactive = x]
    OBVIOUS
  <2>3. HandEdit(w, "leave", new)
    BY <1>4, <2>1, <2>2 DEF Leave
  <2>4. Sound(new, git)
    BY <2>2, LeftSound
  <2> QED
    BY <2>3, <2>4, HandEditSound
<1>5. ASSUME NEW w \in Work, NEW successor, Retire(w, successor) PROVE Sound(store', git)
  <2>1. PICK v : v = [store.work[w] EXCEPT !.status = "superseded", !.successor = successor]
    OBVIOUS
  <2>2. PICK new : new = Reworked(store, w, v)
    OBVIOUS
  <2>3. HandEdit(w, "retire", new) /\ ~IsDone(store, w)
    BY <1>5, <2>1, <2>2 DEF Retire, Reworked, IsTerminal
  <2>4. /\ store.work[w] = [status |-> store.work[w].status, successor |-> store.work[w].successor,
                            current |-> store.work[w].current, contract |-> store.work[w].contract]
        /\ DOMAIN store.work[w].contract = ContractFields /\ store.work[w].contract.count \in Nat
    BY DEF Sound, Shaped, Contract
  <2>5. v = [status |-> "superseded", successor |-> successor,
             current |-> store.work[w].current, contract |-> store.work[w].contract]
    BY <2>1, <2>4
  <2>6. Reworks(store, w, v)
    BY <2>3, <2>4, <2>5 DEF Reworks, Contract
  <2>7. Sound(new, git)
    BY <2>2, <2>6, ReworkedSound
  <2> QED
    BY <2>3, <2>7, HandEditSound
<1>6. Checkpoint => Sound(store', git)
  BY DEF Checkpoint
<1> QED
  BY <1>1, <1>2, <1>3, <1>4, <1>5, <1>6 DEF Hand

-----------------------------------------------------------------------------
(* Judgement.                                                              *)

LEMMA WriteSound ==
    ASSUME NEW new, Write(new), Sound(new, git)
    PROVE  Sound(store', git)
  BY DEF Write

LEMMA RejudgedOnward ==
    ASSUME NEW s, NEW g, Sound(s, g), NEW t, Rejudged(s, t),
           IsList(t.reviews), Placed(t.reviews), Grown(s.reviews, t.reviews),
           IsList(t.decisions), Placed(t.decisions), Grown(s.decisions, t.decisions),
           t.acceptances = s.acceptances
    PROVE  Onward(s, t) /\ NewProof(s, t, g)
<1>1. Listed(s) /\ Related(s)
  BY DEF Sound
<1>2. Listed(t)
  BY <1>1, ListedIs DEF Rejudged
<1>3. CurrentOwn(t)
  BY <1>1 DEF Related, CurrentOwn, Rejudged
<1>4. /\ Grown(s.attempts, t.attempts) /\ Grown(s.receipts, t.receipts)
      /\ Grown(s.evidence, t.evidence) /\ Grown(s.acceptances, t.acceptances)
  BY <1>1, ListedIs, SameGrows DEF Rejudged
<1>5. \A w \in Work : /\ Contract(t, w).intents = Contract(s, w).intents
                      /\ IsDone(s, w) => IsDone(t, w)
  BY DEF Contract, IsDone, Rejudged
<1>6. NewProof(s, t, g)
  BY DEF NewProof, Rejudged
<1> QED
  BY <1>2, <1>3, <1>4, <1>5, <1>6 DEF Onward, Rejudged

LEMMA PlacedGrown ==
    ASSUME NEW old, NEW new, Grown(old, new), Placed(old),
           \A i \in DOMAIN new \ DOMAIN old : new[i].id = i /\ new[i].work \in Work /\ new[i].at \in Nat
    PROVE  Placed(new)
<1> SUFFICES ASSUME NEW i \in DOMAIN new
             PROVE  new[i].id = i /\ new[i].work \in Work /\ new[i].at \in Nat
  BY DEF Placed
<1>1. CASE i \in DOMAIN old
  BY <1>1 DEF Grown, Placed
<1> QED
  BY <1>1

(* R is r with x after it, or with all of D.                               *)
AddsOne(r, R, x) ==
    /\ IsList(R) /\ Grown(r, R)
    /\ \A i \in DOMAIN R : i \in DOMAIN r \/ (i = Len(r) + 1 /\ R[i] = x)

AddsAll(r, R, D) ==
    /\ IsList(R) /\ Len(R) = Len(r) + Len(D)
    /\ \A i \in DOMAIN r : i \in DOMAIN R /\ R[i] = r[i]
    /\ \A i \in DOMAIN R : i \in DOMAIN r \/ (i - Len(r) \in DOMAIN D /\ R[i] = D[i - Len(r)])

LEMMA ReviewedSound ==
    ASSUME NEW s, NEW g, Sound(s, g), NEW x, x.id = Len(s.reviews) + 1, x.work \in Work, x.at \in Nat,
           x.binding.evidence \in DOMAIN s.evidence,
           NEW R, AddsOne(s.reviews, R, x), NEW t, t = WithReviews(s, R)
    PROVE  Sound(t, g)
<1>1. Shaped(s) /\ IsList(s.reviews) /\ Placed(s.reviews) /\ IsList(s.decisions) /\ Placed(s.decisions)
  BY ListedIs DEF Sound
<1>2. Rejudged(s, t) /\ t.reviews = R /\ t.decisions = s.decisions /\ t.acceptances = s.acceptances
  BY <1>1, ReviewsReplaced
<1>3. /\ IsList(R) /\ Grown(s.reviews, R)
      /\ \A i \in DOMAIN R : i \in DOMAIN s.reviews \/ (i = Len(s.reviews) + 1 /\ R[i] = x)
  BY DEF AddsOne
<1>4. Placed(R)
  BY <1>1, <1>3, PlacedGrown
<1>5. Onward(s, t) /\ NewProof(s, t, g)
  BY <1>1, <1>2, <1>3, <1>4, SameGrows, RejudgedOnward
<1>6. \A i \in DOMAIN t.reviews \ DOMAIN s.reviews : t.reviews[i].binding.evidence \in DOMAIN t.evidence
  BY <1>2, <1>3 DEF Rejudged
<1>7. DOMAIN t.decisions \ DOMAIN s.decisions = {} /\ DOMAIN t.acceptances \ DOMAIN s.acceptances = {}
  BY <1>2
<1>8. NewJudgement(s, t)
  BY <1>6, <1>7 DEF NewJudgement
<1> QED
  BY <1>5, <1>8, OnwardSound

(* Decisions D, after those on record.                                     *)
LEMMA DecidedSound ==
    ASSUME NEW s, NEW g, Sound(s, g), NEW D, IsList(D),
           \A i \in DOMAIN D : /\ D[i].id = Len(s.decisions) + i /\ D[i].work \in Work /\ D[i].at \in Nat
                               /\ DecisionOwn(s, D[i]),
           NEW X, AddsAll(s.decisions, X, D), NEW t, t = Redecided(s, X)
    PROVE  /\ Sound(t, g) /\ t.decisions = X /\ t.acceptances = s.acceptances
           /\ \A i \in DOMAIN D : /\ Len(s.decisions) + i \in DOMAIN X
                                  /\ X[Len(s.decisions) + i] = D[i]
<1>1. Shaped(s) /\ IsList(s.reviews) /\ Placed(s.reviews) /\ IsList(s.decisions) /\ Placed(s.decisions)
  BY ListedIs DEF Sound
<1>2. Rejudged(s, t) /\ t.decisions = X /\ t.reviews = s.reviews /\ t.acceptances = s.acceptances
  BY <1>1, DecisionsReplaced
<1>3. /\ IsList(X) /\ Len(X) = Len(s.decisions) + Len(D)
      /\ \A i \in DOMAIN s.decisions : i \in DOMAIN X /\ X[i] = s.decisions[i]
      /\ \A i \in DOMAIN X :
            i \in DOMAIN s.decisions
            \/ (i - Len(s.decisions) \in DOMAIN D /\ X[i] = D[i - Len(s.decisions)])
  BY DEF AddsAll
<1>4. /\ Len(s.decisions) \in Nat /\ DOMAIN s.decisions = 1..Len(s.decisions)
      /\ Len(D) \in Nat /\ DOMAIN D = 1..Len(D) /\ DOMAIN X = 1..(Len(s.decisions) + Len(D))
  BY <1>1, <1>3, ListIs
<1>5. Grown(s.decisions, X)
  BY <1>3, <1>4 DEF Grown
<1>6. ASSUME NEW i \in DOMAIN X \ DOMAIN s.decisions
      PROVE  X[i].id = i /\ X[i].work \in Work /\ X[i].at \in Nat /\ DecisionOwn(s, X[i])
  <2>1. PICK k \in DOMAIN D : k = i - Len(s.decisions) /\ X[i] = D[k]
    BY <1>3
  <2> QED
    BY <1>4, <2>1
<1>7. Placed(X)
  BY <1>1, <1>5, <1>6, PlacedGrown
<1>8. Onward(s, t) /\ NewProof(s, t, g)
  BY <1>1, <1>2, <1>3, <1>5, <1>7, SameGrows, RejudgedOnward
<1>9. ASSUME NEW i \in DOMAIN X \ DOMAIN s.decisions PROVE DecisionOwn(t, X[i])
  BY <1>2, <1>6 DEF DecisionOwn, Rejudged
<1>10. DOMAIN t.reviews \ DOMAIN s.reviews = {} /\ DOMAIN t.acceptances \ DOMAIN s.acceptances = {}
  BY <1>2
<1>11. NewJudgement(s, t)
  BY <1>2, <1>9, <1>10 DEF NewJudgement
<1>12. Sound(t, g)
  BY <1>8, <1>11, OnwardSound
<1>13. ASSUME NEW i \in DOMAIN D
       PROVE  Len(s.decisions) + i \in DOMAIN X /\ X[Len(s.decisions) + i] = D[i]
  <2>1. i \in Nat /\ i >= 1 /\ i <= Len(D)
    BY <1>4
  <2>2. Len(s.decisions) + i \in DOMAIN X /\ Len(s.decisions) + i \notin DOMAIN s.decisions
    BY <1>4, <2>1
  <2>3. (Len(s.decisions) + i) - Len(s.decisions) = i
    BY <1>4, <2>1
  <2> QED
    BY <1>3, <2>2, <2>3
<1> QED
  BY <1>2, <1>12, <1>13
(* What a case names is on record, and its review is the current one.      *)
EvidenceNamed(c) == IF Has(c.evidence) THEN The(c.evidence).id ELSE 0
ReviewNamed(c) == IF Has(c.review) THEN The(c.review).id ELSE 0

NamesRecords(s, w, c) ==
    /\ EvidenceNamed(c) \in {0} \cup DOMAIN s.evidence
    /\ ReviewNamed(c) # 0 => /\ Has(Current(s, w).review)
                             /\ ReviewNamed(c) \in DOMAIN s.reviews
                             /\ s.reviews[ReviewNamed(c)] = The(Current(s, w).review)
                             /\ s.reviews[ReviewNamed(c)].work = w

LEMMA CaseNames ==
    ASSUME NEW s, NEW h, Sound(s, h), NEW g, NEW j, NEW w \in Work, NEW inspect \in BOOLEAN, NEW status,
           NEW c, c = CaseOf(s, g, j, w, inspect, status)
    PROVE  NamesRecords(s, w, c)
<1> DEFINE k == Current(s, w)
<1>1. OneOf(k.evidence, s.evidence, w) /\ OneOf(k.review, s.reviews, w)
  BY SoundCurrent
<1>2. CaseFacts(s, g, j, w, inspect, status)
  BY CaseIs
<1>3. PICK proof, reviewed :
         /\ Has(c.evidence) <=> Has(k.evidence)
         /\ Has(k.evidence) => c.evidence = <<EvidenceSnapshot(The(k.evidence), c.receipt)>>
         /\ Has(c.review) <=> Has(k.review)
         /\ Has(k.review) => c.review = <<ReviewSnapshot(The(k.review), reviewed, c.contract, proof)>>
  BY <1>2 DEF CaseFacts
<1> HIDE DEF k
<1>4. EvidenceNamed(c) = IF Has(k.evidence) THEN The(k.evidence).id ELSE 0
  BY <1>3 DEF EvidenceNamed, EvidenceSnapshot, The
<1>5. ReviewNamed(c) = IF Has(k.review) THEN The(k.review).id ELSE 0
  BY <1>3 DEF ReviewNamed, ReviewSnapshot, The
<1>6. EvidenceNamed(c) \in {0} \cup DOMAIN s.evidence
  BY <1>1, <1>4 DEF OneOf
<1>7. ASSUME ReviewNamed(c) # 0
      PROVE  /\ Has(k.review) /\ ReviewNamed(c) \in DOMAIN s.reviews
             /\ s.reviews[ReviewNamed(c)] = The(k.review) /\ s.reviews[ReviewNamed(c)].work = w
  BY <1>1, <1>5, <1>7 DEF OneOf
<1> QED
  BY <1>6, <1>7 DEF k, NamesRecords

(* A decision that names what its case names, which an approval may only   *)
(* do that is not of the reviewer.                                         *)
LEMMA NamedOwn ==
    ASSUME NEW s, NEW w, NEW c, NamesRecords(s, w, c), NEW d, d.work = w, d.human \in Human,
           d.evidence \in {0} \cup DOMAIN s.evidence, d.review = ReviewNamed(c),
           d.decision \in Approvals =>
              (Has(Current(s, w).review) => d.human # The(Current(s, w).review).reviewer)
    PROVE  DecisionOwn(s, d)
  BY DEF NamesRecords, DecisionOwn

LEMMA ReviewSound ==
    ASSUME Repo(git), Sound(store, git), NEW w \in Work, NEW v, NEW verdict, Review(w, v, verdict)
    PROVE  Sound(store', git)
<1> DEFINE k == Current(store, w)
           x == [id |-> Len(store.reviews) + 1, work |-> w, reviewer |-> v, verdict |-> verdict,
                 head |-> The(k.evidence).head, binding |-> Binding(store, w), at |-> Now]
<1>1. Now \in Nat
  BY NowIs DEF Sound
<1>2. IsList(store.reviews)
  BY ListedIs DEF Sound
<1>3. OneOf(k.evidence, store.evidence, w)
  BY SoundCurrent
<1>4. Has(k.evidence)
  BY DEF Review, ReviewAllowed, ProofCurrent, ProofHolds
<1>5. The(k.evidence).id \in DOMAIN store.evidence
  BY <1>3, <1>4 DEF OneOf
<1>6. x.binding.evidence = The(k.evidence).id
  BY DEF Binding, BindingOf
<1>7. Write([store EXCEPT !.reviews = Append(store.reviews, x)])
  BY DEF Review
<1>8. x.id = Len(store.reviews) + 1 /\ x.work = w /\ x.at = Now
  OBVIOUS
<1> HIDE DEF x, k
<1>9. AddsOne(store.reviews, Append(store.reviews, x), x)
  BY <1>2, Appended, AppendGrows DEF AddsOne
<1>10. PICK R : R = Append(store.reviews, x)
  OBVIOUS
<1>11. PICK t : t = WithReviews(store, R)
  OBVIOUS
<1>12. Write(t)
  BY <1>7, <1>10, <1>11 DEF WithReviews
<1>13. AddsOne(store.reviews, R, x)
  BY <1>9, <1>10
<1>14. Sound(t, git)
  BY <1>1, <1>5, <1>6, <1>8, <1>11, <1>13, ReviewedSound
<1> QED
  BY <1>12, <1>14, WriteSound

(* One decision after the others.                                          *)
LEMMA OneDecidedSound ==
    ASSUME NEW s, NEW g, Sound(s, g), NEW x, x.id = Len(s.decisions) + 1, x.work \in Work, x.at \in Nat,
           DecisionOwn(s, x), NEW X, X = Append(s.decisions, x), NEW t, t = Redecided(s, X)
    PROVE  Sound(t, g)
<1> DEFINE D == <<x>>
<1>1. IsList(s.decisions)
  BY ListedIs DEF Sound
<1>2. IsList(D) /\ Len(D) = 1 /\ DOMAIN D = {1} /\ D[1] = x
  <2>1. D \in Seq({x}) /\ Len(D) = 1 /\ D[1] = x
    OBVIOUS
  <2> HIDE DEF D
  <2>2. DOMAIN D = 1..1
    BY <2>1
  <2>3. DOMAIN D = {1}
    BY <2>2
  <2>4. IsList(D)
    BY <2>1 DEF IsList
  <2> QED
    BY <2>1, <2>3, <2>4
<1> HIDE DEF D
<1>3. AddsOne(s.decisions, X, x) /\ Len(X) = Len(s.decisions) + 1
  BY <1>1, Appended, AppendGrows DEF AddsOne
<1>4. Len(s.decisions) \in Nat
  BY <1>1, ListIs
<1>5. AddsAll(s.decisions, X, D)
  BY <1>2, <1>3, <1>4 DEF AddsOne, AddsAll, Grown
<1> QED
  BY <1>2, <1>5, DecidedSound

LEMMA DecideSound ==
    ASSUME Repo(git), Sound(store, git), NEW w \in Work, NEW h \in Human, NEW decision, NEW at \in {Last, Now},
           Decide(w, h, decision, at)
    PROVE  Sound(store', git)
<1>1. PICK c : c = CaseNow(store, git, journal, w)
  OBVIOUS
<1>2. NamesRecords(store, w, c)
  <2>1. c = CaseOf(store, git, journal, w, TRUE, store.work[w].status) /\ TRUE \in BOOLEAN
    BY <1>1 DEF CaseNow
  <2> QED
    BY <2>1, CaseNames
<1>3. PICK d : d = Candidate(c, h, decision, at, Len(store.decisions) + 1)
  OBVIOUS
<1>4. DecideOn(w, c, d)
  BY <1>1, <1>3 DEF Decide, DecideCase
<1>5. /\ d.id = Len(store.decisions) + 1 /\ d.human = h /\ d.decision = decision /\ d.at = at
      /\ d.evidence = EvidenceNamed(c) /\ d.review = ReviewNamed(c)
  BY <1>3 DEF Candidate, EvidenceNamed, ReviewNamed
<1>6. PICK x : x = Decided(d, w)
  OBVIOUS
<1>7. /\ x.id = Len(store.decisions) + 1 /\ x.work = w /\ x.human = h /\ x.decision = d.decision
      /\ x.evidence = EvidenceNamed(c) /\ x.review = ReviewNamed(c) /\ x.at = at
  BY <1>5, <1>6 DEF Decided
<1>8. d.decision \in Approvals =>
         (Has(Current(store, w).review) => h # The(Current(store, w).review).reviewer)
  BY <1>4, <1>5 DEF DecideOn, ApprovalAllowed, MayApprove
<1>9. DecisionOwn(store, x)
  <2>1. EvidenceNamed(c) \in {0} \cup DOMAIN store.evidence
    BY <1>2 DEF NamesRecords
  <2> QED
    BY <1>2, <1>7, <1>8, <2>1, NamedOwn
<1>10. x.at \in Nat
  BY <1>7, NowIs DEF Sound
<1>11. PICK X : X = Append(store.decisions, x)
  OBVIOUS
<1>12. PICK t : t = Redecided(store, X)
  OBVIOUS
<1>13. Write(t)
  BY <1>4, <1>6, <1>11, <1>12 DEF DecideOn, Redecided
<1>14. Sound(t, git)
  BY <1>7, <1>9, <1>10, <1>11, <1>12, OneDecidedSound
<1> QED
  BY <1>13, <1>14, WriteSound
-----------------------------------------------------------------------------
(* A pack: its decisions in one write, and completions after them.         *)

LEMMA JudgedIs ==
    ASSUME NEW s, NEW g, Sound(s, g), Now \in Nat, NEW j, NEW w \in Work, NEW h,
           NEW decision \in {"accepted", "rejected"}, NEW id,
           NEW m, m = Judged(s, g, j, w, h, decision, id), m.allowed,
           NEW x, x = Decided(m.decision, m.work)
    PROVE  /\ m.work = w /\ m.decision.id = id /\ m.decision.human = h
           /\ x.id = id /\ x.work = w /\ x.at = Now /\ DecisionOwn(s, x)
<1>1. PICK c : c = CaseNow(s, g, j, w)
  OBVIOUS
<1>2. NamesRecords(s, w, c)
  <2>1. c = CaseOf(s, g, j, w, TRUE, s.work[w].status) /\ TRUE \in BOOLEAN
    BY <1>1 DEF CaseNow
  <2> QED
    BY <2>1, CaseNames
<1>3. PICK latest : latest = LatestEvidence(s, w)
  OBVIOUS
<1>4. OneOf(latest, s.evidence, w)
  <2>1. IsList(s.evidence) /\ Placed(s.evidence)
    BY ListedIs DEF Sound
  <2> QED
    BY <1>3, <2>1, OneOfLatest DEF LatestEvidence
<1>5. PICK d : d = PackCandidate(s, w, c, h, decision, id)
  OBVIOUS
<1>6. /\ d.id = id /\ d.human = h /\ d.decision = decision /\ d.at = Now /\ d.review = ReviewNamed(c)
      /\ d.evidence = IF Has(latest) THEN The(latest).id ELSE 0
  BY <1>3, <1>5 DEF PackCandidate, Candidate, ReviewNamed
<1>7. m.work = w /\ m.decision = d /\ MayDecide(s, w, c, d)
  BY <1>1, <1>5 DEF Judged, JudgedOn, JudgedFrom
<1>8. /\ x.id = id /\ x.work = w /\ x.human = h /\ x.decision = decision /\ x.at = Now
      /\ x.review = ReviewNamed(c) /\ x.evidence = d.evidence
  BY <1>6, <1>7 DEF Decided
<1>9. h \in Human
  BY <1>6, <1>7, RecordsAssumption DEF MayDecide
<1>10. x.evidence \in {0} \cup DOMAIN s.evidence
  BY <1>4, <1>6, <1>8 DEF OneOf
<1>11. decision \in Approvals => (Has(Current(s, w).review) => h # The(Current(s, w).review).reviewer)
  BY <1>6, <1>7 DEF MayDecide, NotItsMaker, ReviewerOf, Approvals
<1>12. DecisionOwn(s, x)
  BY <1>2, <1>8, <1>9, <1>10, <1>11, NamedOwn
<1> QED
  BY <1>6, <1>7, <1>8, <1>12

LEMMA ListMade ==
    ASSUME NEW n \in Nat, NEW f, f = [i \in 1..n |-> f[i]]
    PROVE  IsList(f) /\ Len(f) = n
<1>1. PICK S : S = {f[i] : i \in 1..n}
  OBVIOUS
<1>2. f \in [1..n -> S]
  BY <1>1
<1>3. f \in Seq(S)
  BY <1>2, SeqDef
<1>4. IsList(f)
  BY <1>3 DEF IsList
<1>5. Len(f) \in Nat /\ DOMAIN f = 1..Len(f) /\ DOMAIN f = 1..n
  BY <1>2, <1>3
<1>6. Len(f) = n
  BY <1>5
<1> QED
  BY <1>4, <1>6

(* What the members of a pack are judged on.                               *)
Members(s, judged) ==
    /\ IsList(judged)
    /\ \A i \in DOMAIN judged :
          /\ judged[i].work \in Work
          /\ judged[i].decision.id \in DOMAIN s.decisions
          /\ s.decisions[judged[i].decision.id].at <= Now

LEMMA PackDecided ==
    ASSUME NEW s, NEW g, Sound(s, g), Now \in Nat, NEW j, NEW h, NEW approved,
           NEW n \in Nat, NEW order \in [1..n -> Work],
           NEW judged, judged = JudgedInOrder(s, g, j, order, h, approved),
           \A i \in DOMAIN judged : judged[i].allowed,
           NEW t, t = WithDecisions(s, judged)
    PROVE  Sound(t, g) /\ Members(t, judged)
<1> DEFINE D == [i \in DOMAIN judged |-> Decided(judged[i].decision, judged[i].work)]
<1>1. DOMAIN judged = 1..n /\ DOMAIN D = 1..n
  BY DEF JudgedInOrder
<1>2. judged = [i \in 1..n |-> judged[i]] /\ D = [i \in 1..n |-> D[i]]
  <2>1. judged = [i \in 1..n |-> judged[i]]
    BY <1>1 DEF JudgedInOrder
  <2> QED
    BY <1>1, <2>1
<1>3. ASSUME NEW i \in 1..n
      PROVE  /\ judged[i].work = order[i] /\ judged[i].decision.id = Len(s.decisions) + i
             /\ D[i].id = Len(s.decisions) + i /\ D[i].work = order[i] /\ D[i].at = Now /\ DecisionOwn(s, D[i])
  <2>1. PICK decision \in {"accepted", "rejected"} :
           judged[i] = Judged(s, g, j, order[i], h, decision, Len(s.decisions) + i)
    <3>1. judged[i] = Judged(s, g, j, order[i], h, IF order[i] \in approved THEN "accepted" ELSE "rejected",
                             Len(s.decisions) + i)
      BY DEF JudgedInOrder
    <3> QED
      BY <3>1
  <2>2. judged[i].allowed /\ order[i] \in Work
    BY <1>1
  <2>3. PICK m : m = judged[i]
    OBVIOUS
  <2>4. PICK x : x = Decided(m.decision, m.work)
    OBVIOUS
  <2>5. D[i] = x
    BY <1>1, <2>3, <2>4
  <2>6. PICK w \in Work : w = order[i]
    BY <2>2
  <2>7. PICK id : id = Len(s.decisions) + i
    OBVIOUS
  <2>8. m = Judged(s, g, j, w, h, decision, id) /\ m.allowed
    BY <2>1, <2>2, <2>3, <2>6, <2>7
  <2>9. /\ m.work = w /\ m.decision.id = id
        /\ x.id = id /\ x.work = w /\ x.at = Now /\ DecisionOwn(s, x)
    BY <2>4, <2>8, JudgedIs
  <2> QED
    BY <2>3, <2>5, <2>6, <2>7, <2>9
<1>4. IsList(s.decisions)
  BY ListedIs DEF Sound
<1>5. PICK X : X = s.decisions \o D
  OBVIOUS
<1>6. t = Redecided(s, X)
  BY <1>5 DEF WithDecisions, Redecided
<1> HIDE DEF D
<1>7. IsList(judged) /\ IsList(D)
  BY <1>2, ListMade
<1>8. AddsAll(s.decisions, X, D)
  <2>1. AddsAll(s.decisions, s.decisions \o D, D)
    BY <1>4, <1>7, Joined DEF AddsAll
  <2> QED
    BY <1>5, <2>1
<1>9. \A i \in DOMAIN D : /\ D[i].id = Len(s.decisions) + i /\ D[i].work \in Work /\ D[i].at \in Nat
                          /\ DecisionOwn(s, D[i])
  BY <1>1, <1>3
<1>10. /\ Sound(t, g) /\ t.decisions = X
       /\ \A i \in DOMAIN D : /\ Len(s.decisions) + i \in DOMAIN X
                              /\ X[Len(s.decisions) + i] = D[i]
  BY <1>6, <1>7, <1>8, <1>9, DecidedSound
<1>11. Members(t, judged)
  <2>1. ASSUME NEW i \in DOMAIN judged
        PROVE  /\ judged[i].work \in Work
               /\ judged[i].decision.id \in DOMAIN t.decisions
               /\ t.decisions[judged[i].decision.id].at <= Now
    <3>1. i \in 1..n /\ i \in DOMAIN D
      BY <1>1
    <3>2. t.decisions[judged[i].decision.id] = D[i] /\ judged[i].decision.id \in DOMAIN t.decisions
      BY <1>3, <1>10, <3>1
    <3>3. D[i].at = Now /\ judged[i].work \in Work
      BY <1>3, <3>1
    <3> QED
      BY <3>2, <3>3
  <2> QED
    BY <1>7, <2>1 DEF Members
<1> QED
  BY <1>10, <1>11
LEMMA CompletionIs ==
    ASSUME NEW s, NEW g, NEW j, NEW w, NEW acceptable, NEW r, r = CompletionOfMember(s, g, j, w, acceptable), Has(r)
    PROVE  The(r) = Completing(s, w)
  BY DEF CompletionOfMember, Completing, Has, The

LEMMA CompletedMemberSound ==
    ASSUME NEW s, NEW g, Sound(s, g), Now \in Nat, NEW j, NEW w \in Work, NEW d,
           d.id \in DOMAIN s.decisions, s.decisions[d.id].at <= Now,
           NEW r, r = CompletedMember(s, g, j, w, d), Has(r)
    PROVE  Sound(The(r), g) /\ The(r).decisions = s.decisions
<1>1. PICK t : t = The(r)
  OBVIOUS
<1>2. CASE Of(s.acceptances, w) # {}
  <2>1. r = CompletionOfMember(s, g, j, w, TRUE)
    BY <1>2 DEF CompletedMember
  <2>2. t = Completing(s, w)
    BY <1>1, <2>1, CompletionIs
  <2>3. Sound(t, g) /\ SameRecords(s, t)
    BY <2>2, CompletedSound
  <2> QED
    BY <1>1, <2>3 DEF SameRecords
<1>3. CASE Of(s.acceptances, w) = {}
  <2>1. PICK a : a = WithAcceptance(s, w, d, Now)
    OBVIOUS
  <2>2. PICK b : b = MemberAcceptable(s, w, CompletionCase(s, g, j, w), d)
    OBVIOUS
  <2>3. r = CompletionOfMember(a, g, j, w, b)
    BY <1>3, <2>1, <2>2 DEF CompletedMember
  <2>4. t = Completing(a, w)
    BY <1>1, <2>3, CompletionIs
  <2>5. t = Completing(WithAcceptance(s, w, d, Now), w)
    BY <2>1, <2>4
  <2>6. \A y \in Of(s.acceptances, w) : y.human # d.human
    BY <1>3
  <2>7. Sound(t, g) /\ t.decisions = s.decisions
    BY <2>5, <2>6, AcceptedSound
  <2> QED
    BY <1>1, <2>7
<1> QED
  BY <1>2, <1>3

(* One member after the other.                                             *)
Steps(f, n, s, g, j, judged) ==
    f = [i \in 0..n |-> IF i = 0 THEN <<s>> ELSE ExecutedMember(f[i - 1], g, j, judged[i])]

LEMMA StepsExist ==
    ASSUME NEW n \in Nat, NEW s, NEW g, NEW j, NEW judged
    PROVE  \E f : Steps(f, n, s, g, j, judged)
<1> DEFINE T == {m \in 0..n : ~\E f : Steps(f, m, s, g, j, judged)}
<1>1. CASE T = {}
  BY <1>1
<1>2. CASE T # {}
  <2>1. PICK m \in T : \A k \in T : m <= k
    <3>1. T \subseteq Nat
      OBVIOUS
    <3> HIDE DEF T
    <3> QED
      BY <1>2, <3>1, LeastOf
  <2>2. m \in 0..n /\ ~\E f : Steps(f, m, s, g, j, judged)
    OBVIOUS
  <2>3. CASE m = 0
    <3>1. Steps([i \in 0..0 |-> <<s>>], 0, s, g, j, judged)
      BY DEF Steps
    <3> QED
      BY <2>2, <2>3, <3>1
  <2>4. CASE m # 0
    <3>1. m - 1 \in 0..n /\ m - 1 \notin T
      BY <2>1, <2>2, <2>4
    <3>2. PICK f : Steps(f, m - 1, s, g, j, judged)
      BY <3>1
    <3>3. PICK h : h = [i \in 0..m |-> IF i = 0 THEN <<s>> ELSE ExecutedMember(f[i - 1], g, j, judged[i])]
      OBVIOUS
    <3>4. ASSUME NEW i \in 0..(m - 1)
          PROVE  h[i] = f[i]
      <4>1. f[i] = IF i = 0 THEN <<s>> ELSE ExecutedMember(f[i - 1], g, j, judged[i])
        BY <3>2 DEF Steps
      <4>2. i \in 0..m
        BY <2>2
      <4> QED
        BY <3>3, <4>1, <4>2
    <3>5. ASSUME NEW i \in 0..m
          PROVE  h[i] = IF i = 0 THEN <<s>> ELSE ExecutedMember(h[i - 1], g, j, judged[i])
      <4>1. CASE i = 0
        BY <3>3, <4>1
      <4>2. CASE i # 0
        <5>1. i - 1 \in 0..(m - 1)
          BY <2>2, <4>2
        <5>2. h[i - 1] = f[i - 1]
          BY <3>4, <5>1
        <5> QED
          BY <3>3, <4>2, <5>2
      <4> QED
        BY <4>1, <4>2
    <3>6. h = [i \in 0..m |-> h[i]]
      BY <3>3
    <3>7. Steps(h, m, s, g, j, judged)
      BY <3>5, <3>6 DEF Steps
    <3> QED
      BY <2>2, <3>7
  <2> QED
    BY <2>3, <2>4
<1> QED
  BY <1>1, <1>2

LEMMA ExecutedIs ==
    ASSUME NEW s, NEW g, NEW j, NEW judged, Len(judged) \in Nat
    PROVE  \E f : Steps(f, Len(judged), s, g, j, judged) /\ Executed(s, g, j, judged) = f[Len(judged)]
<1> DEFINE F == CHOOSE f : Steps(f, Len(judged), s, g, j, judged)
<1>1. Steps(F, Len(judged), s, g, j, judged)
  BY StepsExist
<1>2. Executed(s, g, j, judged) = F[Len(judged)]
  BY DEF Executed, Steps
<1> HIDE DEF F
<1> QED
  BY <1>1, <1>2

LEMMA ExecutedSound ==
    ASSUME NEW s, NEW g, Sound(s, g), Now \in Nat, NEW j, NEW judged, Members(s, judged),
           NEW r, r = Executed(s, g, j, judged), Has(r)
    PROVE  Sound(The(r), g)
<1> DEFINE Good(x) == Has(x) => Sound(The(x), g) /\ The(x).decisions = s.decisions
<1>1. IsList(judged)
  BY DEF Members
<1>2. Len(judged) \in Nat /\ DOMAIN judged = 1..Len(judged)
  BY <1>1, ListIs
<1>3. PICK f : Steps(f, Len(judged), s, g, j, judged) /\ Executed(s, g, j, judged) = f[Len(judged)]
  BY <1>2, ExecutedIs
<1>4. Good(f[0])
  <2>1. f[0] = <<s>>
    BY <1>2, <1>3 DEF Steps
  <2> QED
    BY <2>1 DEF The
<1>5. ASSUME NEW i \in 1..Len(judged), Good(f[i - 1])
      PROVE  Good(f[i])
  <2>1. PICK member : member = judged[i]
    OBVIOUS
  <2>2. f[i] = ExecutedMember(f[i - 1], g, j, member)
    BY <1>2, <1>3, <2>1 DEF Steps
  <2>3. CASE ~member.met \/ ~Has(f[i - 1])
    BY <1>5, <2>2, <2>3 DEF ExecutedMember
  <2>4. CASE member.met /\ Has(f[i - 1])
    <3>1. PICK t : t = The(f[i - 1])
      OBVIOUS
    <3>2. PICK w : w = member.work
      OBVIOUS
    <3>3. PICK d : d = member.decision
      OBVIOUS
    <3>4. PICK x : x = f[i]
      OBVIOUS
    <3>5. Sound(t, g) /\ t.decisions = s.decisions
      BY <1>5, <2>4, <3>1
    <3>6. w \in Work /\ d.id \in DOMAIN t.decisions /\ t.decisions[d.id].at <= Now
      BY <1>2, <2>1, <3>2, <3>3, <3>5 DEF Members
    <3>7. x = CompletedMember(t, g, j, w, d)
      BY <2>2, <2>4, <3>1, <3>2, <3>3, <3>4 DEF ExecutedMember
    <3>8. Has(x) => Sound(The(x), g) /\ The(x).decisions = t.decisions
      BY <3>5, <3>6, <3>7, CompletedMemberSound
    <3> QED
      BY <3>4, <3>5, <3>8
  <2> QED
    BY <2>3, <2>4
<1> HIDE DEF Good
<1>6. \A i \in 0..Len(judged) : Good(f[i])
  <2> DEFINE T == {i \in 0..Len(judged) : ~Good(f[i])}
  <2>1. CASE T # {}
    <3>1. PICK m \in T : \A k \in T : m <= k
      <4>1. T \subseteq Nat
        BY <1>2
      <4> HIDE DEF T
      <4> QED
        BY <2>1, <4>1, LeastOf
    <3>2. m # 0
      BY <1>4, <3>1
    <3>3. m - 1 \in 0..Len(judged) /\ m - 1 \notin T
      BY <1>2, <3>1, <3>2
    <3> QED
      BY <1>2, <1>5, <3>1, <3>2, <3>3
  <2> QED
    BY <2>1
<1>7. Good(r)
  BY <1>2, <1>3, <1>6
<1> QED
  BY <1>7 DEF Good
-----------------------------------------------------------------------------
(* What is planned is sound before it is written.                          *)

Planned(p, g) ==
    /\ p.kind \in {"complete", "pack"} => Sound(p.new, g)
    /\ p.kind \in {"advance", "refresh", "finish"} => p.work \in Work
    /\ p.kind = "refresh" => p.base \in DOMAIN g.commits /\ p.seen.work[p.work].current # 0

LEMMA PackPlanned ==
    ASSUME Repo(git), Sound(store, git), NEW offered, NEW h, NEW approved, NEW rejected,
           approved \cup rejected \subseteq Work, PlanDecision(offered, h, approved, rejected)
    PROVE  Has(plan') => Planned(The(plan'), git)
<1>1. Now \in Nat
  BY NowIs DEF Sound
<1>2. PICK works : works = approved \cup rejected
  OBVIOUS
<1>3. PICK order \in Orders(offered.pack, works) :
         PlanJudged(offered, JudgedInOrder(store, git, journal, order, h, approved))
  BY <1>2 DEF PlanDecision
<1>4. PICK n \in Nat : n = Cardinality(works)
  <2>1. IsFiniteSet(works)
    BY <1>2, RecordsAssumption, FS_Subset
  <2> QED
    BY <2>1, FS_CardinalityType
<1>5. order \in [1..n -> Work]
  <2>1. order \in [1..n -> works]
    BY <1>3, <1>4 DEF Orders
  <2> QED
    BY <1>2, <2>1
<1>6. PICK judged : judged = JudgedInOrder(store, git, journal, order, h, approved)
  OBVIOUS
<1>7. PICK t : t = WithDecisions(store, judged)
  OBVIOUS
<1>8. PICK r : r = Executed(t, git, journal, judged)
  OBVIOUS
<1>9. /\ \A i \in DOMAIN judged : judged[i].allowed
      /\ Has(r) /\ plan' = <<[kind |-> "pack", seen |-> store, offer |-> offered, new |-> The(r)]>>
  BY <1>3, <1>6, <1>7, <1>8 DEF PlanJudged, PlanPack
<1>10. Sound(t, git) /\ Members(t, judged)
  BY <1>1, <1>5, <1>6, <1>7, <1>9, PackDecided
<1>11. Sound(The(r), git)
  BY <1>1, <1>8, <1>9, <1>10, ExecutedSound
<1>12. The(plan').kind = "pack" /\ The(plan').new = The(r)
  BY <1>9 DEF The
<1> QED
  BY <1>11, <1>12 DEF Planned

LEMMA QualifiedAmong ==
    ASSUME NEW c, NEW ctx
    PROVE  Evaluate(c, ctx).qualified \subseteq c.decisions
<1>1. QuorumOf(c, ctx).qualified \subseteq c.decisions
  BY DEF QuorumOf, QuorumProperty, QuorumOver, QuorumAmong, QuorumFrom, CurrentDecisions
<1> QED
  BY <1>1, EvaluateIs

LEMMA CompletionDecisions ==
    ASSUME NEW s, NEW g, NEW j, NEW w
    PROVE  CompletionCase(s, g, j, w).decisions = CaseOf(s, g, j, w, TRUE, "completed").decisions
  BY DEF CompletionCase, CaseOf, CaseOn, CaseReviewed, CaseFrom

(* The decision a completion rests on is on record.                        *)
LEMMA CompletionRests ==
    ASSUME Repo(git), Sound(store, git), NEW w \in Work,
           NEW completion, completion = Completion(store, git, journal, w, Now), completion.acceptable
    PROVE  /\ The(completion.decision).id \in DOMAIN store.decisions
           /\ store.decisions[The(completion.decision).id].at <= Now
<1>1. PICK c : c = CompletionCase(store, git, journal, w)
  OBVIOUS
<1>2. PICK Q : Q = Evaluate(c, Context(store, w)).qualified
  OBVIOUS
<1>3. completion.decision = Latest(Q) /\ Has(Latest(Q))
  BY <1>1, <1>2 DEF Completion, CompletionOn, CompletionOver, CompletionFrom
<1>4. PICK o : o = CaseOf(store, git, journal, w, TRUE, "completed")
  OBVIOUS
<1>5. PICK b : b = Bound(store, git, w, TRUE, o)
  OBVIOUS
<1>6. PICK A : A = DecisionsAbout(store, w, Current(store, w))
  OBVIOUS
<1>7. o.decisions = {DecisionSnapshot(d, b, o.evidence, o.review) : d \in A}
  <2>1. CaseFacts(store, git, journal, w, TRUE, "completed")
    BY CaseIs
  <2> QED
    BY <1>4, <1>5, <1>6, <2>1 DEF CaseFacts
<1>8. Q \subseteq {DecisionSnapshot(d, b, o.evidence, o.review) : d \in A}
  BY <1>1, <1>2, <1>4, <1>7, QualifiedAmong, CompletionDecisions
<1>9. \A d \in A : /\ d.id \in DOMAIN store.decisions /\ store.decisions[d.id] = d
                   /\ d.id \in Nat /\ d.at \in Nat
  BY <1>6, AboutIs
<1>10. ASSUME NEW x \in Q
       PROVE  \E d \in A : x = DecisionSnapshot(d, b, o.evidence, o.review) /\ x.id = d.id /\ x.at = d.at
  <2>1. PICK d \in A : x = DecisionSnapshot(d, b, o.evidence, o.review)
    BY <1>8
  <2>2. x.id = d.id /\ x.at = d.at
    BY <2>1 DEF DecisionSnapshot
  <2> QED
    BY <2>1, <2>2
<1>11. PICK n \in Nat : n = Len(store.decisions) /\ DOMAIN store.decisions = 1..n
  <2>1. IsList(store.decisions)
    BY ListedIs DEF Sound
  <2> QED
    BY <2>1, ListIs
<1>12. Timed(Q, n)
  <2>1. \A x \in Q : x.id \in 1..n /\ x.at \in Nat
    BY <1>9, <1>10, <1>11
  <2>2. ASSUME NEW x \in Q, NEW y \in Q, x.id = y.id
        PROVE  x = y
    <3>1. PICK d \in A : x = DecisionSnapshot(d, b, o.evidence, o.review) /\ x.id = d.id
      BY <1>10
    <3>2. PICK e \in A : y = DecisionSnapshot(e, b, o.evidence, o.review) /\ y.id = e.id
      BY <1>10
    <3>3. d = e
      BY <1>9, <2>2, <3>1, <3>2
    <3> QED
      BY <3>1, <3>2, <3>3
  <2> QED
    BY <2>1, <2>2 DEF Timed
<1>13. The(Latest(Q)) \in Q
  BY <1>3, <1>12, LatestIs
<1>14. PICK x \in Q : x = The(completion.decision)
  BY <1>3, <1>13
<1>15. x.id \in DOMAIN store.decisions
  BY <1>9, <1>10
<1>16. \A i \in DOMAIN store.decisions : store.decisions[i].at <= Now
  BY NowIs DEF Sound
<1> QED
  BY <1>14, <1>15, <1>16

LEMMA CompletionPlanned ==
    ASSUME Repo(git), Sound(store, git), NEW w \in Work, CompleteWork(w)
    PROVE  Has(plan') => Planned(The(plan'), git)
<1>1. PICK completion : completion = Completion(store, git, journal, w, Now)
  OBVIOUS
<1>2. PICK a : a = Accepted(store, w, Now, completion)
  OBVIOUS
<1>3. PICK t : t = Completing(a, w)
  OBVIOUS
<1>4. plan' = <<[kind |-> "complete", work |-> w, seen |-> store, new |-> t]>>
  BY <1>1, <1>2, <1>3 DEF CompleteWork, WithProjected, PlanCompletion, Completing
<1>5. Sound(t, git)
  <2>1. CASE a = store
    BY <1>3, <2>1, CompletedSound
  <2>2. CASE a # store
    <3>1. PICK d : d = The(completion.decision)
      OBVIOUS
    <3>2. /\ completion.acceptable /\ ~\E y \in Of(store.acceptances, w) : y.human = d.human
          /\ a = WithAcceptance(store, w, d, Now)
      BY <1>2, <2>2, <3>1 DEF Accepted
    <3>3. d.id \in DOMAIN store.decisions /\ store.decisions[d.id].at <= Now
      BY <1>1, <3>1, <3>2, CompletionRests
    <3>4. Now \in Nat
      BY NowIs DEF Sound
    <3>5. \A y \in Of(store.acceptances, w) : y.human # d.human
      BY <3>2
    <3>6. t = Completing(WithAcceptance(store, w, d, Now), w)
      BY <1>3, <3>2
    <3> QED
      BY <3>3, <3>4, <3>5, <3>6, AcceptedSound
  <2> QED
    BY <2>1, <2>2
<1>6. The(plan').kind = "complete" /\ The(plan').new = t
  BY <1>4 DEF The
<1> QED
  BY <1>5, <1>6 DEF Planned
-----------------------------------------------------------------------------
(* The proof an agent records.                                             *)

ProofRecorded(s, w, i, A, R, E) ==
    [s EXCEPT !.work[w].current = i, !.attempts = A, !.receipts = R, !.evidence = E]

ProofAdded(s, w, i, t) ==
    /\ Shaped(t)
    /\ \A v \in Work : /\ Contract(t, v).intents = Contract(s, v).intents
                       /\ IsDone(s, v) => IsDone(t, v)
                       /\ t.work[v].current = IF v = w THEN i ELSE s.work[v].current
    /\ t.reviews = s.reviews /\ t.decisions = s.decisions /\ t.acceptances = s.acceptances

LEMMA ProofRecordedIs ==
    ASSUME NEW s, Shaped(s), NEW w \in Work, NEW i, NEW A, NEW R, NEW E,
           NEW t, t = ProofRecorded(s, w, i, A, R, E)
    PROVE  /\ ProofAdded(s, w, i, t)
           /\ t.attempts = A /\ t.receipts = R /\ t.evidence = E
<1>1. PICK v : v = [s.work[w] EXCEPT !.current = i]
  OBVIOUS
<1>2. PICK W : W = [s.work EXCEPT ![w] = v]
  OBVIOUS
<1>3. PICK old : old = s.work
  OBVIOUS
<1>4. /\ v.status = s.work[w].status /\ v.successor = s.work[w].successor /\ v.current = i
      /\ v.contract = s.work[w].contract
      /\ v = [status |-> v.status, successor |-> v.successor, current |-> v.current, contract |-> v.contract]
  <2>1. PICK u : u = s.work[w]
    OBVIOUS
  <2>2. u = [status |-> u.status, successor |-> u.successor, current |-> u.current, contract |-> u.contract]
    BY <2>1 DEF Shaped
  <2>3. v = [status |-> u.status, successor |-> u.successor, current |-> i, contract |-> u.contract]
    BY <1>1, <2>1, <2>2
  <2> QED
    BY <2>1, <2>3
<1>5. W[w] = v /\ \A u \in Work : u # w => W[u] = old[u]
  BY <1>2, <1>3 DEF Shaped
<1>6. W = [u \in Work |-> W[u]]
  BY <1>2 DEF Shaped
<1>7. t = [s EXCEPT !.work = W, !.attempts = A, !.receipts = R, !.evidence = E]
  BY <1>1, <1>2 DEF ProofRecorded
<1>8. /\ t.work = W /\ t.inactive = s.inactive /\ t.attempts = A /\ t.receipts = R /\ t.evidence = E
      /\ t.reviews = s.reviews /\ t.decisions = s.decisions /\ t.acceptances = s.acceptances
      /\ t = [work |-> t.work, inactive |-> t.inactive, attempts |-> t.attempts,
              receipts |-> t.receipts, evidence |-> t.evidence, reviews |-> t.reviews,
              decisions |-> t.decisions, acceptances |-> t.acceptances]
  BY <1>7 DEF Shaped
<1>9. ASSUME NEW u \in Work
      PROVE  /\ t.work[u] = [status |-> t.work[u].status, successor |-> t.work[u].successor,
                             current |-> t.work[u].current, contract |-> t.work[u].contract]
             /\ t.work[u].contract = s.work[u].contract /\ t.work[u].status = s.work[u].status
             /\ t.work[u].current = IF u = w THEN i ELSE s.work[u].current
  <2>1. CASE u = w
    BY <1>4, <1>5, <1>8, <2>1
  <2>2. CASE u # w
    <3>1. t.work[u] = s.work[u]
      BY <1>3, <1>5, <1>8, <2>2
    <3>2. s.work[u] = [status |-> s.work[u].status, successor |-> s.work[u].successor,
                       current |-> s.work[u].current, contract |-> s.work[u].contract]
      BY DEF Shaped
    <3> QED
      BY <2>2, <3>1, <3>2
  <2> QED
    BY <2>1, <2>2
<1>10. \A u \in Work : DOMAIN Contract(s, u) = ContractFields /\ Contract(s, u).count \in Nat
  BY DEF Shaped
<1>11. \A u \in Work : DOMAIN Contract(t, u) = ContractFields /\ Contract(t, u).count \in Nat
  BY <1>9, <1>10 DEF Contract
<1>12. t.work = [u \in Work |-> t.work[u]]
  BY <1>6, <1>8
<1>13. Shaped(t)
  BY <1>8, <1>9, <1>11, <1>12 DEF Shaped
<1> QED
  BY <1>8, <1>9, <1>13 DEF ProofAdded, Contract, IsDone
(* Where the records of a proof go: to its own earlier ones or to the end. *)
IsPlace(i, records, w) ==
    \/ i \in DOMAIN records /\ records[i].work = w
    \/ i = Len(records) + 1

LEMMA KeyedPlace ==
    ASSUME NEW records, NEW p
    PROVE  IsPlace(Keyed(records, p), records, p.work)
<1> DEFINE same == {i \in DOMAIN records : records[i].work = p.work /\ records[i].key = <<p.kind, p.head>>}
<1>1. Keyed(records, p) = IF same # {} THEN CHOOSE i \in same : TRUE ELSE Len(records) + 1
  BY DEF Keyed
<1>2. \A i \in same : i \in DOMAIN records /\ records[i].work = p.work
  OBVIOUS
<1> HIDE DEF same
<1> QED
  BY <1>1, <1>2 DEF IsPlace

LEMMA AttemptPlace ==
    ASSUME NEW s, Listed(s), CurrentOwn(s), NEW p, p.work \in Work
    PROVE  IsPlace(AttemptIndex(s, p), s.attempts, p.work)
<1> DEFINE same == {i \in DOMAIN s.attempts : s.attempts[i].work = p.work
                                               /\ s.attempts[i].key = <<p.kind, p.head>>}
<1>1. PICK a : a = CurrentAttempt(s, p.work)
  OBVIOUS
<1>2. PICK i : i = AttemptIndex(s, p)
  OBVIOUS
<1>3. \/ s.work[p.work].current # 0 /\ i = The(a).id
      \/ i = IF same # {} THEN CHOOSE n \in same : TRUE ELSE Len(s.attempts) + 1
  BY <1>1, <1>2 DEF AttemptIndex
<1>4. \A n \in same : n \in DOMAIN s.attempts /\ s.attempts[n].work = p.work
  OBVIOUS
<1>5. s.work[p.work].current # 0 =>
         The(a).id = s.work[p.work].current
  BY <1>1, CurrentAttemptIs
<1>6. s.work[p.work].current # 0 =>
         /\ s.work[p.work].current \in DOMAIN s.attempts
         /\ s.attempts[s.work[p.work].current].work = p.work
  BY DEF CurrentOwn
<1> HIDE DEF same
<1> QED
  BY <1>2, <1>3, <1>4, <1>5, <1>6 DEF IsPlace

LEMMA PutPlace ==
    ASSUME NEW r, IsList(r), Placed(r), NEW w \in Work, NEW i, IsPlace(i, r, w),
           NEW x, x.id = i, x.work = w, x.at \in Nat, NEW R, R = Put(r, i, x)
    PROVE  /\ IsList(R) /\ Placed(R) /\ Grown(r, R) /\ i \in DOMAIN R /\ R[i].work = w
           /\ \A n \in DOMAIN R \ DOMAIN r : n = i /\ R[n] = x
<1>1. i \in DOMAIN r \/ i = Len(r) + 1
  BY DEF IsPlace
<1>9. PICK k : k = i
  OBVIOUS
<1>8. /\ Grown(r, Put(r, k, x)) /\ k \in DOMAIN Put(r, k, x)
      /\ \A n \in DOMAIN Put(r, k, x) : n \in DOMAIN r \/ (n = k /\ Put(r, k, x)[n] = x)
  BY <1>1, <1>9, PutGrows
<1>2. Grown(r, R) /\ i \in DOMAIN R
  BY <1>9, <1>8
<1>3. \A n \in DOMAIN R : n \in DOMAIN r \/ (n = i /\ R[n] = x)
  BY <1>9, <1>8
<1>4. \A n \in DOMAIN R \ DOMAIN r : n = i /\ R[n] = x
  BY <1>3
<1>5. IsList(R)
  BY <1>2 DEF Grown
<1>6. Placed(R)
  BY <1>2, <1>4, PlacedGrown
<1>7. R[i].work = w
  <2>1. CASE i \in DOMAIN r
    <3>1. R[i] = r[i]
      BY <1>2, <2>1 DEF Grown
    <3>2. Len(r) \in Nat /\ DOMAIN r = 1..Len(r)
      BY ListIs
    <3>3. r[i].work = w
      BY <2>1, <3>2 DEF IsPlace
    <3> QED
      BY <3>1, <3>3
  <2>2. CASE i \notin DOMAIN r
    BY <1>2, <1>4, <2>2
  <2> QED
    BY <2>1, <2>2
<1> QED
  BY <1>2, <1>4, <1>5, <1>6, <1>7

(* A proof is recorded at a time: that of its commit, or a later one.      *)
LEMMA ProofTimeIs ==
    ASSUME Repo(git), Sound(store, git), NEW p, p.work \in Work, p.head \in DOMAIN git.commits,
           p.kind = "refresh" => store.work[p.work].current # 0, p.kind \in {"advance", "refresh"}
    PROVE  ProofTime(p) \in Nat
<1>1. git.commits[p.head].at \in Nat
  BY DEF Repo
<1>2. CASE p.kind = "advance"
  BY <1>1, <1>2 DEF ProofTime
<1>3. CASE p.kind = "refresh"
  <2> DEFINE earlier == UNION {{r.at : r \in Of(store[k], p.work)} : k \in Collections}
             latest == CHOOSE t \in earlier : \A u \in earlier : u <= t
  <2>1. Listed(store) /\ CurrentOwn(store)
    BY DEF Sound, Related
  <2>2. PICK b \in Nat : \A k \in Collections : \A i \in DOMAIN store[k] : store[k][i].at <= b
    BY <2>1, RecordsBounded
  <2>3. ASSUME NEW k \in Collections, NEW r \in Of(store[k], p.work)
        PROVE  r.at \in Nat /\ r.at <= b
    <3>1. IsList(store[k]) /\ Placed(store[k])
      BY <2>1 DEF Listed
    <3>2. PICK i \in DOMAIN store[k] : r = store[k][i]
      BY DEF Of
    <3> QED
      BY <2>2, <3>1, <3>2 DEF Placed
  <2>4. earlier \subseteq Nat /\ \A u \in earlier : u <= b
    BY <2>3
  <2>5. earlier # {}
    <3>1. PICK i : i = store.work[p.work].current
      OBVIOUS
    <3>2. i \in DOMAIN store.attempts /\ store.attempts[i].work = p.work
      BY <1>3, <2>1, <3>1 DEF CurrentOwn
    <3>3. store.attempts[i] \in Of(store.attempts, p.work)
      BY <3>2 DEF Of
    <3>4. PICK x : x \in Of(store.attempts, p.work)
      BY <3>3
    <3>5. x.at \in UNION {{r.at : r \in Of(store[k], p.work)} : k \in {"attempts"}}
      BY <3>4
    <3>6. x.at \in earlier
      BY <3>5 DEF Collections
    <3> QED
      BY <3>6
  <2> HIDE DEF earlier
  <2>6. \E t \in earlier : \A u \in earlier : u <= t
    BY <2>2, <2>4, <2>5, GreatestOf
  <2>7. latest \in Nat
    BY <2>4, <2>6
  <2>8. ProofTime(p) = Max2(git.commits[p.head].at, latest + 1)
    BY <1>3 DEF ProofTime, earlier
  <2> HIDE DEF latest
  <2> QED
    BY <1>1, <2>7, <2>8 DEF Max2
<1> QED
  BY <1>2, <1>3
(* What stands when a planned proof is recorded: its range is one of       *)
(* commits, and in the bounds of the contract when a claim covers it.      *)
LEMMA StandingPlan ==
    ASSUME Repo(git), NEW p, Planned(p, git), p.kind \in {"advance", "refresh"}, PlanStands(p)
    PROVE  /\ p.work \in Work /\ store = p.seen
           /\ p.head = git.head /\ git.disk = Tree(git, p.head)
           /\ p.base \in DOMAIN git.commits /\ p.head \in DOMAIN git.commits
           /\ p.kind = "advance" => Touched(git, p.base, p.head) \subseteq Outputs(store, p.work)
           /\ p.kind = "refresh" => store.work[p.work].current # 0
<1>1. p.work \in Work
  BY DEF Planned
<1>2. store = p.seen /\ p.head = git.head /\ git.disk = Tree(git, p.head)
  BY DEF PlanStands, TrackedClean
<1>3. git.head \in DOMAIN git.commits
  BY DEF Repo
<1>4. CASE p.kind = "refresh"
  BY <1>1, <1>2, <1>3, <1>4 DEF Planned
<1>5. CASE p.kind = "advance"
  <2>1. PICK w : w = p.work
    OBVIOUS
  <2>2. PreflightOk(w) /\ AdvancePlan(w) = p
    BY <1>5, <2>1 DEF PlanStands, CanAdvance
  <2>3. PICK first : first = The(baseline[w]).commit
    OBVIOUS
  <2>4. p.base = first
    BY <2>2, <2>3 DEF AdvancePlan
  <2>5. CommitsInBounds(w, Touched(git, first, git.head))
    BY <2>2, <2>3 DEF PreflightOk
  <2>6. Descends(git, git.head, first)
    BY <2>3, <2>5 DEF CommitsInBounds, InScope
  <2>7. first \in DOMAIN git.commits
    BY <1>3, <2>6, LineIs DEF Descends
  <2>8. Touched(git, first, git.head) \subseteq Outputs(store, w)
    BY <2>5 DEF CommitsInBounds, Outputs
  <2> QED
    BY <1>1, <1>2, <1>3, <1>5, <2>1, <2>4, <2>7, <2>8
<1> QED
  BY <1>4, <1>5

(* The records of a proof, one by one.                                     *)
ProofAttempt(p, i, at, actor) ==
    [id |-> i, work |-> p.work, actor |-> actor, status |-> "completed", base |-> p.base,
     head |-> p.head, clean |-> TRUE, changed |-> p.touched, at |-> at, key |-> <<p.kind, p.head>>]

ProofReceipt(p, i, r, at, actor) ==
    [id |-> r, work |-> p.work, attempt |-> i, actor |-> actor, outputs |-> DOMAIN p.hashes,
     undo |-> IF p.kind = "advance" THEN DOMAIN p.hashes ELSE {},
     external |-> FALSE, at |-> at, key |-> <<p.kind, p.head>>]

ProofEvidence(p, i, r, e, at) ==
    [id |-> e, work |-> p.work, attempt |-> i, head |-> p.head, base |-> p.base, receipt |-> r,
     status |-> "passed", hashes |-> p.hashes, at |-> at, key |-> <<p.kind, p.head>>]

LEMMA ReconciledIs ==
    ASSUME NEW s, NEW p,
           NEW i, i = AttemptIndex(s, p), NEW r, r = Keyed(s.receipts, p), NEW e, e = Keyed(s.evidence, p),
           NEW at, at = ProofTime(p), NEW actor, actor = Contract(s, p.work).palari,
           NEW A, A = Put(s.attempts, i, ProofAttempt(p, i, at, actor)),
           NEW R, R = Put(s.receipts, r, ProofReceipt(p, i, r, at, actor)),
           NEW E, E = Put(s.evidence, e, ProofEvidence(p, i, r, e, at))
    PROVE  Reconciled(s, p) = ProofRecorded(s, p.work, i, A, R, E)
  BY DEF Reconciled, ProofRecorded, ProofAttempt, ProofReceipt, ProofEvidence

LEMMA ReconciledSound ==
    ASSUME Repo(git), Sound(store, git), NEW p, Planned(p, git), p.kind \in {"advance", "refresh"},
           NEW t, t = Reconciled(store, p), RecordAllowed(p, t)
    PROVE  Sound(t, git)
<1>1. /\ p.work \in Work /\ git.disk = Tree(git, p.head)
      /\ p.base \in DOMAIN git.commits /\ p.head \in DOMAIN git.commits
      /\ p.kind = "advance" => Touched(git, p.base, p.head) \subseteq Outputs(store, p.work)
      /\ p.kind = "refresh" => store.work[p.work].current # 0
  BY StandingPlan DEF RecordAllowed
<1>2. PICK w \in Work : w = p.work
  BY <1>1
<1>3. PICK i : i = AttemptIndex(store, p)
  OBVIOUS
<1>4. PICK r : r = Keyed(store.receipts, p)
  OBVIOUS
<1>5. PICK e : e = Keyed(store.evidence, p)
  OBVIOUS
<1>6. PICK at : at = ProofTime(p)
  OBVIOUS
<1>7. PICK actor : actor = Contract(store, p.work).palari
  OBVIOUS
<1>8. PICK x : x = ProofAttempt(p, i, at, actor)
  OBVIOUS
<1>9. PICK y : y = ProofReceipt(p, i, r, at, actor)
  OBVIOUS
<1>10. PICK z : z = ProofEvidence(p, i, r, e, at)
  OBVIOUS
<1>11. PICK A : A = Put(store.attempts, i, x)
  OBVIOUS
<1>12. PICK R : R = Put(store.receipts, r, y)
  OBVIOUS
<1>13. PICK E : E = Put(store.evidence, e, z)
  OBVIOUS
<1>14. t = ProofRecorded(store, w, i, A, R, E)
  BY <1>2, <1>3, <1>4, <1>5, <1>6, <1>7, <1>8, <1>9, <1>10, <1>11, <1>12, <1>13, ReconciledIs
<1>15. at \in Nat
  BY <1>1, <1>2, <1>6, ProofTimeIs
<1>16. /\ x.id = i /\ x.work = w /\ x.at = at /\ x.base = p.base /\ x.head = p.head
       /\ x.key[1] = p.kind
  BY <1>2, <1>8 DEF ProofAttempt
<1>17. y.id = r /\ y.work = w /\ y.at = at /\ y.attempt = i
  BY <1>2, <1>9 DEF ProofReceipt
<1>18. z.id = e /\ z.work = w /\ z.at = at /\ z.attempt = i /\ z.head = p.head
  BY <1>2, <1>10 DEF ProofEvidence
<1>19. /\ Shaped(store) /\ Listed(store) /\ CurrentOwn(store)
       /\ IsList(store.attempts) /\ Placed(store.attempts)
       /\ IsList(store.receipts) /\ Placed(store.receipts)
       /\ IsList(store.evidence) /\ Placed(store.evidence)
       /\ IsList(store.reviews) /\ Placed(store.reviews)
       /\ IsList(store.decisions) /\ Placed(store.decisions)
       /\ IsList(store.acceptances) /\ Placed(store.acceptances)
  BY ListedIs DEF Sound, Related
<1>20. IsPlace(i, store.attempts, w) /\ IsPlace(r, store.receipts, w) /\ IsPlace(e, store.evidence, w)
  BY <1>2, <1>3, <1>4, <1>5, <1>19, AttemptPlace, KeyedPlace
<1>21. /\ IsList(A) /\ Placed(A) /\ Grown(store.attempts, A) /\ i \in DOMAIN A /\ A[i].work = w
       /\ \A n \in DOMAIN A \ DOMAIN store.attempts : n = i /\ A[n] = x
  BY <1>11, <1>15, <1>16, <1>19, <1>20, PutPlace
<1>22. /\ IsList(R) /\ Placed(R) /\ Grown(store.receipts, R)
       /\ \A n \in DOMAIN R \ DOMAIN store.receipts : n = r /\ R[n] = y
  BY <1>12, <1>15, <1>17, <1>19, <1>20, PutPlace
<1>23. /\ IsList(E) /\ Placed(E) /\ Grown(store.evidence, E)
       /\ \A n \in DOMAIN E \ DOMAIN store.evidence : n = e /\ E[n] = z
  BY <1>13, <1>15, <1>18, <1>19, <1>20, PutPlace
<1>24. ProofAdded(store, w, i, t) /\ t.attempts = A /\ t.receipts = R /\ t.evidence = E
  BY <1>14, <1>19, ProofRecordedIs
<1>25. Onward(store, t)
  <2>1. Listed(t)
    BY <1>19, <1>21, <1>22, <1>23, <1>24, ListedIs DEF ProofAdded
  <2>2. CurrentOwn(t)
    <3>1. ASSUME NEW v \in Work, t.work[v].current # 0
          PROVE  t.work[v].current \in DOMAIN A /\ A[t.work[v].current].work = v
      <4>1. CASE v = w
        BY <1>21, <1>24, <4>1 DEF ProofAdded
      <4>2. CASE v # w
        <5>1. PICK n : n = store.work[v].current
          OBVIOUS
        <5>2. t.work[v].current = n /\ n # 0
          BY <1>24, <3>1, <4>2, <5>1 DEF ProofAdded
        <5>3. n \in DOMAIN store.attempts /\ store.attempts[n].work = v
          BY <1>19, <5>1, <5>2 DEF CurrentOwn
        <5> QED
          BY <1>21, <5>2, <5>3 DEF Grown
      <4> QED
        BY <4>1, <4>2
    <3> QED
      BY <1>24, <3>1 DEF CurrentOwn
  <2>3. /\ Grown(store.reviews, t.reviews) /\ Grown(store.decisions, t.decisions)
        /\ Grown(store.acceptances, t.acceptances)
    BY <1>19, <1>24, SameGrows DEF ProofAdded
  <2> QED
    BY <1>21, <1>22, <1>23, <1>24, <2>1, <2>2, <2>3 DEF Onward, ProofAdded
<1>26. Outputs(t, w) = Outputs(store, w)
  BY <1>25, OnwardOutputs
<1>27. AttemptGrounded(t, git, x)
  BY <1>1, <1>2, <1>16, <1>26 DEF AttemptGrounded
<1>28. e \in DOMAIN E \ DOMAIN store.evidence => EvidenceGrounded(t, git, z)
  <2> HAVE e \in DOMAIN E \ DOMAIN store.evidence
  <2>1. z = t.evidence[e]
    BY <1>23, <1>24
  <2>2. EvidenceVerified(t, git, z)
    BY <1>5, <2>1 DEF RecordAllowed
  <2> QED
    BY <1>1, <1>18, <2>2 DEF EvidenceVerified, IntentsProved, EvidenceGrounded
<1>29. NewProof(store, t, git)
  BY <1>17, <1>18, <1>21, <1>22, <1>23, <1>24, <1>27, <1>28 DEF NewProof
<1>30. NewJudgement(store, t)
  BY <1>24 DEF NewJudgement, ProofAdded
<1> QED
  BY <1>25, <1>29, <1>30, OnwardSound
-----------------------------------------------------------------------------
(* The inductive invariant.  The records are sound, on the disk, in what is*)
(* planned and on both sides of an open transaction.                       *)

PlanSound == Has(plan) => Planned(The(plan), git)

Sides == Has(pending) => Sound(The(pending).before, git) /\ Sound(The(pending).after, git)

Offered == Has(offer) => DOMAIN The(offer).pack.members \subseteq Work

Edited == edits \in [Work -> Nat] /\ \A w \in Work : edits[w] <= MaxEdits[w]

GovernedInv ==
    /\ Repo(git)
    /\ Sound(store, git)
    /\ PlanSound
    /\ Sides
    /\ Offered
    /\ journal \in {"current", "behind", "pending"}
    /\ Edited

LEMMA EmptyList == IsList(<<>>) /\ DOMAIN <<>> = {} /\ Placed(<<>>)
<1>1. <<>> \in Seq({}) /\ DOMAIN <<>> = {}
  OBVIOUS
<1> QED
  BY <1>1 DEF IsList, Placed

LEMMA InitSound == Init => Repo(git) /\ Sound(store, git) /\ Edited
<1> SUFFICES ASSUME Init
             PROVE  Repo(git) /\ Sound(store, git) /\ Edited
  OBVIOUS
<1>1. Repo(git)
  <2>1. git = [commits |-> <<[line |-> {1}, tree |-> FirstTree, at |-> 1]>>, head |-> 1, disk |-> FirstTree]
    BY DEF Init
  <2>2. PICK c : c = [line |-> {1}, tree |-> FirstTree, at |-> 1]
    OBVIOUS
  <2>3. PICK C : C = <<c>>
    OBVIOUS
  <2>4. git = [commits |-> C, head |-> 1, disk |-> FirstTree]
    BY <2>1, <2>2, <2>3
  <2>5. C \in Seq({c}) /\ DOMAIN C = 1..1 /\ C[1] = c
    BY <2>3
  <2>6. IsList(C) /\ DOMAIN C = {1}
    BY <2>5 DEF IsList
  <2>7. c.at \in Nat /\ DOMAIN c.tree = Path /\ c.line = {1}
    BY <2>2, LifecycleAssumption
  <2> QED
    BY <2>4, <2>5, <2>6, <2>7, LifecycleAssumption DEF Repo
<1>2. PICK draft \in Drafts :
         store = [work |-> [w \in Work |-> Proposed(draft[w])], inactive |-> {},
                  attempts |-> <<>>, receipts |-> <<>>, evidence |-> <<>>,
                  reviews |-> <<>>, decisions |-> <<>>, acceptances |-> <<>>]
  BY DEF Init
<1>3. \A w \in Work : store.work[w] = Proposed(draft[w]) /\ store.work = [v \in Work |-> store.work[v]]
  BY <1>2
<1>4. /\ store.attempts = <<>> /\ store.receipts = <<>> /\ store.evidence = <<>>
      /\ store.reviews = <<>> /\ store.decisions = <<>> /\ store.acceptances = <<>>
  BY <1>2
<1>5. ASSUME NEW w \in Work
      PROVE  /\ store.work[w] = [status |-> store.work[w].status, successor |-> store.work[w].successor,
                                 current |-> store.work[w].current, contract |-> store.work[w].contract]
             /\ store.work[w].current = 0
             /\ DOMAIN Contract(store, w) = ContractFields /\ Contract(store, w).count \in Nat
  <2>1. DOMAIN draft[w].contract = ContractFields /\ draft[w].contract.count \in Nat
    BY LifecycleAssumption DEF ContractFields
  <2>2. PICK d : d = draft[w]
    OBVIOUS
  <2>3. PICK v : v = store.work[w]
    OBVIOUS
  <2>4. v = [status |-> d.status, successor |-> {}, current |-> 0, contract |-> d.contract]
    BY <1>3, <2>2, <2>3 DEF Proposed
  <2>5. /\ v = [status |-> v.status, successor |-> v.successor, current |-> v.current, contract |-> v.contract]
        /\ v.current = 0 /\ v.contract = d.contract
    BY <2>4
  <2> QED
    BY <2>1, <2>2, <2>3, <2>5 DEF Contract
<1>6. Shaped(store)
  <2>1. store = [work |-> store.work, inactive |-> store.inactive, attempts |-> store.attempts,
                 receipts |-> store.receipts, evidence |-> store.evidence, reviews |-> store.reviews,
                 decisions |-> store.decisions, acceptances |-> store.acceptances]
    BY <1>2
  <2>2. store.work = [w \in Work |-> store.work[w]]
    BY <1>2
  <2> QED
    BY <1>5, <2>1, <2>2 DEF Shaped
<1>7. Listed(store)
  BY <1>4, EmptyList, ListedIs
<1>8. Related(store)
  BY <1>4, <1>5, EmptyList DEF Related, CurrentOwn, OfAttempts, AcceptedOnce
<1>9. Grounded(store, git)
  BY <1>4, EmptyList DEF Grounded
<1>10. Edited
  BY LifecycleAssumption DEF Init, Edited
<1> QED
  BY <1>1, <1>6, <1>7, <1>8, <1>9, <1>10 DEF Sound

LEMMA InitGoverned == InterruptedInit => GovernedInv
  BY InitSound DEF InterruptedInit, PackInit, Init, GovernedInv, PlanSound, Sides, Offered, Has
-----------------------------------------------------------------------------
(* Its steps, operation by operation.                                      *)

(* What the repository does leaves what is on record and planned sound.    *)
LEMMA RepositoryKeeps ==
    ASSUME GovernedInv, Repository, UNCHANGED <<offer, pending>>
    PROVE  GovernedInv'
<1>1. UNCHANGED <<store, journal, plan, edits>>
  <2>1. ASSUME NEW p, NEW b, Edit(p, b)
        PROVE  UNCHANGED <<store, journal, plan, edits>>
    BY <2>1 DEF Edit
  <2>2. ASSUME Commit
        PROVE  UNCHANGED <<store, journal, plan, edits>>
    BY <2>2 DEF Commit
  <2>3. ASSUME NEW c, Checkout(c)
        PROVE  UNCHANGED <<store, journal, plan, edits>>
    BY <2>3 DEF Checkout
  <2> QED
    BY <2>1, <2>2, <2>3 DEF Repository
<1>2. Now \in Nat
  BY NowIs DEF GovernedInv, Sound
<1>3. Repo(git') /\ Continues(git, git')
  BY <1>2, RepositoryContinues DEF GovernedInv
<1>4. \A s : Sound(s, git) => Sound(s, git')
  BY <1>3, SoundContinues DEF GovernedInv
<1>5. PlanSound'
  BY <1>1, <1>3, <1>4 DEF GovernedInv, PlanSound, Planned, Continues
<1>6. Sides'
  BY <1>4 DEF GovernedInv, Sides
<1>7. Offered'
  BY DEF GovernedInv, Offered
<1> QED
  BY <1>1, <1>3, <1>4, <1>5, <1>6, <1>7 DEF GovernedInv, Edited

(* Every other step leaves the repository alone.                           *)
LEMMA Governs ==
    ASSUME GovernedInv, UNCHANGED git, Sound(store', git), PlanSound', Sides', Offered',
           journal' \in {"current", "behind", "pending"}, Edited'
    PROVE  GovernedInv'
  BY DEF GovernedInv

LEMMA PlanKept ==
    ASSUME GovernedInv, UNCHANGED git, plan' = plan \/ plan' = <<>>
    PROVE  PlanSound'
  BY DEF GovernedInv, PlanSound, Has

LEMMA RefreshPlanned ==
    ASSUME Repo(git), Sound(store, git), NEW w \in Work, Refresh(w)
    PROVE  Planned(The(plan'), git)
<1>1. PICK a : a = CurrentAttempt(store, w)
  OBVIOUS
<1>2. PICK p : p = RefreshPlan(w)
  OBVIOUS
<1>3. The(plan') = p /\ store.work[w].current # 0
  BY <1>2 DEF Refresh, Refreshable, Finishable, The
<1>4. p.kind = "refresh" /\ p.work = w /\ p.base = The(a).base /\ p.seen = store
  BY <1>1, <1>2 DEF RefreshPlan
<1>5. Has(a) /\ The(a).id \in DOMAIN store.attempts /\ store.attempts[The(a).id] = The(a)
  BY <1>1, <1>3, CurrentAttemptIs DEF Sound, Related, OneOf
<1>6. The(a).base \in DOMAIN git.commits
  BY <1>5 DEF Sound, Grounded, AttemptGrounded
<1> QED
  BY <1>3, <1>4, <1>6 DEF Planned

LEMMA ConcludePlans ==
    ASSUME Repo(git), Sound(store, git), NEW w \in Work, Conclude(w)
    PROVE  UNCHANGED <<store, git, journal, edits>> /\ (Has(plan') => Planned(The(plan'), git))
<1>1. UNCHANGED <<store, git, journal, edits>> /\ (CompleteWork(w) \/ plan' = <<>>)
  BY DEF Conclude
<1> QED
  BY <1>1, CompletionPlanned DEF Has

LEMMA AgentPlans ==
    ASSUME GovernedInv, Agent
    PROVE  UNCHANGED <<git, edits>> /\ journal' = journal /\ Sound(store', git) /\ PlanSound'
<1>1. Repo(git) /\ Sound(store, git) /\ PlanSound
  BY DEF GovernedInv
<1>2. ASSUME NEW w \in Work, Start(w) \/ Release(w)
      PROVE  UNCHANGED <<store, git, journal, plan, edits>>
  BY <1>2 DEF Start, Release
<1>3. ASSUME NEW w \in Work, Advance(w)
      PROVE  UNCHANGED <<store, git, journal, edits>> /\ Planned(The(plan'), git)
  <2>1. UNCHANGED <<store, git, journal, edits>> /\ The(plan') = AdvancePlan(w)
    BY <1>3 DEF Advance, The
  <2>2. AdvancePlan(w).kind = "advance" /\ AdvancePlan(w).work = w
    BY DEF AdvancePlan
  <2> QED
    BY <2>1, <2>2 DEF Planned
<1>4. ASSUME NEW w \in Work, Refresh(w)
      PROVE  UNCHANGED <<store, git, journal, edits>> /\ Planned(The(plan'), git)
  <2>1. UNCHANGED <<store, git, journal, edits>>
    BY <1>4 DEF Refresh
  <2> QED
    BY <1>1, <1>4, <2>1, RefreshPlanned
<1>5. ASSUME NEW w \in Work, Converge(w)
      PROVE  UNCHANGED <<store, git, journal, edits>> /\ (Has(plan') => Planned(The(plan'), git))
  <2>1. CompleteWork(w) /\ UNCHANGED <<store, git, journal, edits>>
    BY <1>5 DEF Converge
  <2> QED
    BY <1>1, <2>1, CompletionPlanned
<1>6. ASSUME Record
      PROVE  UNCHANGED <<git, journal, edits>> /\ Sound(store', git) /\ (Has(plan') => Planned(The(plan'), git))
  <2>1. PICK p : p = The(plan)
    OBVIOUS
  <2>2. PICK t : t = Reconciled(store, p)
    OBVIOUS
  <2>3. /\ Planned(p, git) /\ p.kind \in {"advance", "refresh"} /\ RecordPlanned(p, t)
    BY <1>1, <1>6, <2>1, <2>2 DEF Record, HasProofPlan, PlanSound
  <2>4. /\ RecordAllowed(p, t) /\ Write(t)
        /\ plan' = IF p.kind = "advance" THEN <<[kind |-> "finish", work |-> p.work]>> ELSE <<>>
    BY <2>3 DEF RecordPlanned
  <2>5. Sound(t, git)
    BY <1>1, <2>2, <2>3, <2>4, ReconciledSound
  <2>6. Sound(store', git)
    BY <2>4, <2>5, WriteSound
  <2>7. UNCHANGED <<git, journal, edits>>
    BY <1>6, <2>4 DEF Record, Write
  <2>8. p.work \in Work
    BY <2>3 DEF Planned
  <2>9. Has(plan') => Planned(The(plan'), git)
    BY <2>4, <2>8 DEF Has, The, Planned
  <2> QED
    BY <2>6, <2>7, <2>9
<1>7. ASSUME Finish
      PROVE  UNCHANGED <<store, git, journal, edits>> /\ (Has(plan') => Planned(The(plan'), git))
  <2>1. PICK w : w = The(plan).work
    OBVIOUS
  <2>2. w \in Work
    BY <1>1, <1>7, <2>1 DEF Finish, PlanSound, Planned
  <2>3. Conclude(w)
    BY <1>7, <2>1 DEF Finish
  <2> QED
    BY <1>1, <2>2, <2>3, ConcludePlans
<1>8. ASSUME Complete
      PROVE  UNCHANGED <<git, journal, edits>> /\ Sound(store', git) /\ plan' = <<>>
  <2>1. PICK t : t = The(plan).new
    OBVIOUS
  <2>2. Sound(t, git)
    BY <1>1, <1>8, <2>1 DEF Complete, PlanSound, Planned
  <2>3. Write(t) /\ UNCHANGED <<git, edits>> /\ plan' = <<>>
    BY <1>8, <2>1 DEF Complete
  <2> QED
    BY <2>2, <2>3, WriteSound DEF Write
<1>9. ASSUME Abandon
      PROVE  UNCHANGED <<store, git, journal, edits>> /\ plan' = <<>>
  BY <1>9 DEF Abandon
<1>14. ASSUME NEW w \in Work, Resume(w)
       PROVE  UNCHANGED <<store, git, journal, edits>> /\ (Has(plan') => Planned(The(plan'), git))
  BY <1>1, <1>14, ConcludePlans DEF Resume
<1>10. CASE \E w \in Work : Start(w) \/ Release(w)
  BY <1>1, <1>2, <1>10, PlanKept
<1>15. CASE \E w \in Work : Resume(w)
  BY <1>1, <1>14, <1>15 DEF PlanSound
<1>11. CASE \E w \in Work : Advance(w) \/ Refresh(w) \/ Converge(w)
  BY <1>1, <1>3, <1>4, <1>5, <1>11 DEF PlanSound
<1>12. CASE Record \/ Finish
  BY <1>1, <1>6, <1>7, <1>12 DEF PlanSound
<1>13. CASE Complete \/ Abandon
  BY <1>1, <1>8, <1>9, <1>13, PlanKept
<1> QED
  BY <1>10, <1>11, <1>12, <1>13, <1>15 DEF Agent

LEMMA JudgesSound ==
    ASSUME GovernedInv, Judges
    PROVE  UNCHANGED <<git, plan, edits, journal>> /\ Sound(store', git)
<1>1. Repo(git) /\ Sound(store, git)
  BY DEF GovernedInv
<1>2. ASSUME NEW w \in Work, NEW v \in Human \cup Palari, NEW verdict \in Verdicts, Review(w, v, verdict)
      PROVE  UNCHANGED <<git, plan, edits, journal>> /\ Sound(store', git)
  <2>1. UNCHANGED <<git, plan, edits, journal>>
    BY <1>2 DEF Review, Write
  <2> QED
    BY <1>1, <1>2, <2>1, ReviewSound
<1>3. ASSUME NEW w \in Work, NEW h \in Human, NEW decision \in Choices, NEW at \in {Last, Now},
             Decide(w, h, decision, at)
      PROVE  UNCHANGED <<git, plan, edits, journal>> /\ Sound(store', git)
  <2>1. UNCHANGED <<git, plan, edits, journal>>
    BY <1>3 DEF Decide, DecideCase, DecideOn, Write
  <2> QED
    BY <1>1, <1>3, <2>1, DecideSound
<1> QED
  BY <1>2, <1>3 DEF Judges

LEMMA HandEditIs ==
    ASSUME Edited, NEW w \in Work, NEW kind, NEW new, HandEdit(w, kind, new)
    PROVE  UNCHANGED <<git, plan>> /\ journal' = "behind" /\ Edited'
<1>1. edits[w] < MaxEdits[w] /\ edits' = [edits EXCEPT ![w] = @ + 1] /\ edits \in [Work -> Nat]
  BY DEF HandEdit, Edited
<1>2. MaxEdits \in [Work -> Nat]
  BY LifecycleAssumption
<1>3. \A v \in Work : edits[v] <= MaxEdits[v] /\ edits[v] \in Nat /\ MaxEdits[v] \in Nat
  BY <1>1, <1>2 DEF Edited
<1>4. edits[w] + 1 \in Nat /\ edits[w] + 1 <= MaxEdits[w]
  BY <1>1, <1>3
<1>5. edits' \in [Work -> Nat]
  BY <1>1, <1>4
<1>6. \A v \in Work : edits'[v] <= MaxEdits[v]
  BY <1>1, <1>3, <1>4
<1>7. Edited'
  BY <1>5, <1>6 DEF Edited
<1> QED
  BY <1>7 DEF HandEdit

LEMMA HandsEdit ==
    ASSUME Edited, Hand
    PROVE  UNCHANGED <<git, plan>> /\ journal' \in {"current", "behind"} /\ Edited'
<1>1. ASSUME NEW w \in Work, EditContract(w) \/ RaiseRisk(w)
      PROVE  UNCHANGED <<git, plan>> /\ journal' = "behind" /\ Edited'
  BY <1>1, HandEditIs DEF EditContract, RaiseRisk
<1>2. ASSUME NEW w \in Work, NEW d \in Work, Depend(w, d)
      PROVE  UNCHANGED <<git, plan>> /\ journal' = "behind" /\ Edited'
  BY <1>2, HandEditIs DEF Depend
<1>3. ASSUME NEW w \in Work, NEW h \in Human, Leave(w, h)
      PROVE  UNCHANGED <<git, plan>> /\ journal' = "behind" /\ Edited'
  BY <1>3, HandEditIs DEF Leave
<1>4. ASSUME NEW w \in Work, NEW v, Retire(w, v)
      PROVE  UNCHANGED <<git, plan>> /\ journal' = "behind" /\ Edited'
  BY <1>4, HandEditIs DEF Retire
<1>5. Checkpoint => UNCHANGED <<git, plan>> /\ journal' = "current" /\ Edited'
  BY DEF Checkpoint, Edited
<1> QED
  BY <1>1, <1>2, <1>3, <1>4, <1>5 DEF Hand
LEMMA PacksPlan ==
    ASSUME GovernedInv, Packs
    PROVE  UNCHANGED <<git, edits>> /\ journal' = journal /\ Sound(store', git) /\ PlanSound' /\ Offered'
<1>1. Repo(git) /\ Sound(store, git) /\ PlanSound /\ Offered
  BY DEF GovernedInv
<1>2. ASSUME NEW works \in Selections, Ask(works)
      PROVE  UNCHANGED <<store, git, journal, plan, edits>> /\ Offered'
  <2>1. PICK new : new = InboxOffer(store, git, journal, works)
    OBVIOUS
  <2>2. UNCHANGED <<store, git, journal, plan, edits>> /\ offer' = <<new>>
    BY <1>2, <2>1 DEF Ask, AskWith, vars
  <2>3. DOMAIN new.pack.members = works
    BY <2>1 DEF InboxOffer, OfferOf, PackOf
  <2>4. works \subseteq Work
    BY PacksAssumption
  <2> QED
    BY <2>2, <2>3, <2>4 DEF Offered, The
<1>3. ASSUME NEW w \in Work, NEW h \in Human, Approve(w, h)
      PROVE  UNCHANGED <<store, git, journal, edits, offer>> /\ PlanSound'
  <2>1. PICK new : new = InboxOffer(store, git, journal, {w})
    OBVIOUS
  <2>2. UNCHANGED <<store, git, journal, edits, offer>> /\ PlanDecision(new, h, {w}, {})
    BY <1>3, <2>1 DEF Approve, ApproveOffered
  <2>3. PICK approved, rejected : approved = {w} /\ rejected = {}
    OBVIOUS
  <2>4. approved \cup rejected \subseteq Work /\ PlanDecision(new, h, approved, rejected)
    BY <2>2, <2>3
  <2>5. Has(plan') => Planned(The(plan'), git)
    BY <1>1, <2>4, PackPlanned
  <2> QED
    BY <2>2, <2>5 DEF PlanSound
<1>4. ASSUME DecidePack
      PROVE  UNCHANGED <<store, git, journal, edits, offer>> /\ PlanSound'
  <2>1. PICK o : o = The(offer)
    OBVIOUS
  <2>2. PICK h \in Human, approved \in SUBSET DOMAIN o.pack.members, rejected \in SUBSET DOMAIN o.pack.members :
           PlanDecision(o, h, approved, rejected)
    BY <1>4, <2>1 DEF DecidePack
  <2>3. approved \cup rejected \subseteq Work
    BY <1>1, <1>4, <2>1, <2>2 DEF DecidePack, Offered
  <2>4. Has(plan') => Planned(The(plan'), git)
    BY <1>1, <2>2, <2>3, PackPlanned
  <2>5. UNCHANGED <<store, git, journal, edits, offer>>
    BY <1>4 DEF DecidePack
  <2> QED
    BY <2>4, <2>5 DEF PlanSound
<1>5. ASSUME WritePack
      PROVE  UNCHANGED <<git, journal, edits, offer>> /\ Sound(store', git) /\ plan' = <<>>
  <2>1. PICK t : t = The(plan).new
    OBVIOUS
  <2>2. Sound(t, git)
    BY <1>1, <1>5, <2>1 DEF WritePack, PlanSound, Planned
  <2>3. Write(t) /\ UNCHANGED <<git, edits, offer>> /\ plan' = <<>>
    BY <1>5, <2>1 DEF WritePack
  <2> QED
    BY <2>2, <2>3, WriteSound DEF Write
<1>6. CASE \E works \in Selections : Ask(works)
  BY <1>1, <1>2, <1>6, PlanKept
<1>7. CASE (\E w \in Work, h \in Human : Approve(w, h)) \/ DecidePack
  BY <1>1, <1>3, <1>4, <1>7 DEF Offered
<1>8. CASE WritePack
  BY <1>1, <1>5, <1>8, PlanKept DEF Offered
<1> QED
  BY <1>6, <1>7, <1>8 DEF Packs

(* As long as no process dies.                                             *)
LEMMA UndisturbedKeeps ==
    ASSUME GovernedInv, Undisturbed
    PROVE  GovernedInv'
<1>1. PackNext /\ UNCHANGED pending
  BY DEF Undisturbed
<1>2. Sound(store, git) /\ Sides /\ Offered /\ Edited
  BY DEF GovernedInv
<1>3. UNCHANGED <<git, pending>> => Sides'
  BY <1>2 DEF Sides
<1>4. UNCHANGED offer => Offered'
  BY <1>2 DEF Offered
<1>5. CASE Repository /\ UNCHANGED offer
  BY <1>1, <1>5, RepositoryKeeps
<1>6. CASE Agent /\ UNCHANGED offer
  <2>1. UNCHANGED <<git, edits>> /\ journal' = journal /\ Sound(store', git) /\ PlanSound'
    BY <1>6, AgentPlans
  <2>2. Edited' /\ journal' \in {"current", "behind", "pending"}
    BY <1>2, <2>1 DEF Edited, GovernedInv
  <2> QED
    BY <1>1, <1>3, <1>4, <1>6, <2>1, <2>2, Governs
<1>7. CASE Judges /\ UNCHANGED offer
  <2>1. UNCHANGED <<git, plan, edits, journal>> /\ Sound(store', git)
    BY <1>7, JudgesSound
  <2>2. Edited' /\ journal' \in {"current", "behind", "pending"}
    BY <1>2, <2>1 DEF Edited, GovernedInv
  <2> QED
    BY <1>1, <1>3, <1>4, <1>7, <2>1, <2>2, PlanKept, Governs
<1>8. CASE Hand /\ UNCHANGED offer
  <2>1. UNCHANGED <<git, plan>> /\ journal' \in {"current", "behind"} /\ Edited'
    BY <1>2, <1>8, HandsEdit
  <2>2. Sound(store', git)
    BY <1>2, <1>8, HandsSound
  <2> QED
    BY <1>1, <1>3, <1>4, <1>8, <2>1, <2>2, PlanKept, Governs
<1>9. CASE Packs
  <2>1. UNCHANGED <<git, edits>> /\ journal' = journal /\ Sound(store', git) /\ PlanSound' /\ Offered'
    BY <1>9, PacksPlan
  <2>2. Edited' /\ journal' \in {"current", "behind", "pending"}
    BY <1>2, <2>1 DEF Edited, GovernedInv
  <2> QED
    BY <1>1, <1>3, <2>1, <2>2, Governs
<1> QED
  BY <1>1, <1>5, <1>6, <1>7, <1>8, <1>9 DEF PackNext, Next

(* A death over a planned write.                                           *)
LEMMA DeathKeeps ==
    ASSUME GovernedInv, DieWriting
    PROVE  GovernedInv'
<1>1. Sound(store, git) /\ Repo(git) /\ PlanSound /\ Offered /\ Edited
  BY DEF GovernedInv
<1>2. PICK request, new : Interrupted(request, new) /\ Sound(new, git)
  <2>1. PICK p : p = The(plan)
    OBVIOUS
  <2>2. CASE HasProofPlan /\ DieRecording(p, Reconciled(store, p))
    <3>1. PICK t : t = Reconciled(store, p)
      OBVIOUS
    <3>2. Planned(p, git) /\ p.kind \in {"advance", "refresh"}
      BY <1>1, <2>1, <2>2 DEF HasProofPlan, PlanSound
    <3>3. RecordAllowed(p, t) /\ Interrupted(p, t)
      BY <2>2, <3>1 DEF DieRecording
    <3>4. Sound(t, git)
      BY <1>1, <3>1, <3>2, <3>3, ReconciledSound
    <3> QED
      BY <3>3, <3>4
  <2>3. CASE Has(plan) /\ p.kind \in {"complete", "pack"} /\ Interrupted(p, p.new)
    <3>1. Sound(p.new, git)
      BY <1>1, <2>1, <2>3 DEF PlanSound, Planned
    <3> QED
      BY <2>3, <3>1
  <2> QED
    BY <2>1, <2>2, <2>3 DEF DieWriting
<1>3. /\ UNCHANGED <<git, edits, offer>> /\ plan' = <<>> /\ journal' = "pending"
      /\ Has(pending') /\ The(pending').before = store /\ The(pending').after = new
      /\ store' \in {store, new}
  BY <1>2 DEF Interrupted, Has, The
<1>4. Sound(store', git)
  BY <1>1, <1>2, <1>3
<1>5. Sides'
  BY <1>1, <1>2, <1>3 DEF Sides
<1>6. Offered' /\ Edited'
  BY <1>1, <1>3 DEF Offered, Edited
<1> QED
  BY <1>3, <1>4, <1>5, <1>6, PlanKept, Governs

(* What is done about an open transaction.                                 *)
LEMMA RecoveryKeeps ==
    ASSUME GovernedInv, SupplyMarker \/ Recover \/ Recovered \/ Repeat
    PROVE  GovernedInv'
<1>1. Sound(store, git) /\ Sides /\ Offered /\ Edited /\ journal \in {"current", "behind", "pending"}
  BY DEF GovernedInv
<1>2. UNCHANGED <<git, edits, offer>>
  BY DEF SupplyMarker, Recover, Recovered, Repeat, Terminated
<1>3. Offered' /\ Edited'
  BY <1>1, <1>2 DEF Offered, Edited
<1>4. CASE SupplyMarker \/ Recovered
  <2>1. UNCHANGED store /\ (plan' = plan \/ plan' = <<>>) /\ journal' = "current" /\ pending' = <<>>
    BY <1>4 DEF SupplyMarker, Recovered, Terminated
  <2>2. Sides'
    BY <2>1 DEF Sides, Has
  <2> QED
    BY <1>1, <1>2, <1>3, <2>1, <2>2, PlanKept, Governs
<1>5. CASE Recover
  <2>1. UNCHANGED <<store, journal, pending>> /\ The(plan').kind = "recover"
    BY <1>5 DEF Recover, The
  <2>2. PlanSound'
    BY <2>1 DEF PlanSound, Planned
  <2>3. Sides'
    BY <1>1, <1>2, <2>1 DEF Sides
  <2> QED
    BY <1>1, <1>2, <1>3, <2>1, <2>2, <2>3, Governs
<1>6. CASE Repeat
  <2>1. Has(pending) /\ UNCHANGED plan /\ journal' = "current" /\ pending' = <<>>
    BY <1>6 DEF Repeat, Terminated
  <2>2. store' \in {store, The(pending).after}
    BY <1>6, RepeatWrites
  <2>3. Sound(store', git)
    BY <1>1, <2>1, <2>2 DEF Sides
  <2>4. Sides'
    BY <2>1 DEF Sides, Has
  <2> QED
    BY <1>2, <1>3, <2>1, <2>3, <2>4, PlanKept, Governs
<1> QED
  BY <1>4, <1>5, <1>6

LEMMA StepsKeep ==
    ASSUME GovernedInv, [InterruptedNext]_allVars
    PROVE  GovernedInv'
<1>1. CASE UNCHANGED allVars
  BY <1>1 DEF allVars, GovernedInv, PlanSound, Sides, Offered, Edited
<1>2. CASE Undisturbed
  BY <1>2, UndisturbedKeeps
<1>3. CASE DieWriting
  BY <1>3, DeathKeeps
<1>4. CASE SupplyMarker \/ Recover \/ Recovered \/ Repeat
  BY <1>4, RecoveryKeeps
<1> QED
  BY <1>1, <1>2, <1>3, <1>4 DEF InterruptedNext, RepeatPack, RepeatApproval

(* Everything on record, planned or pending is sound, whoever commits,     *)
(* judges, edits or dies (write_store, validate_workspace_contract).       *)
THEOREM AlwaysGoverned == InterruptedSpec => []GovernedInv
<1>1. GovernedInv /\ [InterruptedNext]_allVars => GovernedInv'
  BY StepsKeep
<1> QED
  BY <1>1, InitGoverned, PTL DEF InterruptedSpec

-----------------------------------------------------------------------------
(* What it means for those who read the records.                           *)

LEMMA GovernedTypes == GovernedInv => LifecycleTypeOK
<1> SUFFICES ASSUME GovernedInv
             PROVE  LifecycleTypeOK
  OBVIOUS
<1>1. Repo(git) /\ Listed(store) /\ Related(store) /\ Edited /\ journal \in {"current", "behind", "pending"}
  BY DEF GovernedInv, Sound
<1>2. git.head \in DOMAIN git.commits /\ DOMAIN git.disk = Path
  BY <1>1 DEF Repo
<1>3. \A k \in Collections : \A i \in DOMAIN store[k] : store[k][i].id = i /\ store[k][i].work \in Work
  BY <1>1 DEF Listed, Placed
<1>4. ASSUME NEW w \in Work, NEW r \in Of(store.receipts, w) \cup Of(store.evidence, w)
      PROVE  r.attempt \in DOMAIN store.attempts /\ store.attempts[r.attempt].work = r.work
  BY <1>1 DEF Of, Related, OfAttempts
<1>5. ASSUME NEW w \in Work
      PROVE  /\ store.work[w].current \in {0} \cup DOMAIN store.attempts
             /\ \A r \in Of(store.reviews, w) : r.binding.evidence \in DOMAIN store.evidence
             /\ \A d \in Of(store.decisions, w) : /\ d.evidence \in {0} \cup DOMAIN store.evidence
                                                  /\ d.review \in {0} \cup DOMAIN store.reviews
  <2>1. store.work[w].current \in {0} \cup DOMAIN store.attempts
    BY <1>1 DEF Related, CurrentOwn
  <2>2. \A r \in Of(store.reviews, w) : r.binding.evidence \in DOMAIN store.evidence
    BY <1>1 DEF Of, Related
  <2>3. \A d \in Of(store.decisions, w) : DecisionOwn(store, d)
    BY <1>1 DEF Of, Related
  <2> QED
    BY <2>1, <2>2, <2>3 DEF DecisionOwn
<1> QED
  BY <1>1, <1>2, <1>3, <1>4, <1>5 DEF LifecycleTypeOK, Edited

(* Ids are places, and every reference is to a record of the same work.    *)
THEOREM RecordsAreWellPlaced == InterruptedSpec => []LifecycleTypeOK
  BY AlwaysGoverned, GovernedTypes, PTL

(* Work with any risk is completed only by, and stays backed by, the       *)
(* standing approvals of enough people about its exact current proof, and  *)
(* where review is required by people who all rest on one accepting review *)
(* by someone else (_quorum_property, _acceptance_property).               *)
THEOREM CompletionNeedsQuorum == InterruptedSpec => []CompletedByQuorum
<1>1. GovernedInv /\ WithinRules(store) => CompletedByQuorum
  BY SoundQuorum DEF GovernedInv
<1> QED
  BY <1>1, AlwaysGoverned, AlwaysWithinRules, PTL

(* Completed work has a finished attempt whose head holds what its evidence*)
(* hashed, every path gone the way the contract intends (verify_evidence). *)
THEOREM CompletionRestsOnProof == InterruptedSpec => []CompletedOnProof
<1>1. GovernedInv /\ WithinRules(store) => CompletedOnProof
  BY SoundOnProof DEF GovernedInv
<1> QED
  BY <1>1, AlwaysGoverned, AlwaysWithinRules, PTL

(* No commit in the range of a proof recorded under a claim touches a path *)
(* outside the contract, not even to undo it later (_preflight).           *)
THEOREM ProofsStayInBounds == InterruptedSpec => []AttemptsStayInBounds
<1>1. GovernedInv => AttemptsStayInBounds
  BY SoundInBounds DEF GovernedInv
<1> QED
  BY <1>1, AlwaysGoverned, PTL

(* An acceptance is there only for completed work, once for each human, and*)
(* says what a decision said before                                        *)
(* (_append_projected_acceptance_for_completion).                          *)
THEOREM AcceptancesRestOnDecisions == InterruptedSpec => []AcceptancesRest
<1>1. GovernedInv /\ WithinRules(store) => AcceptancesRest
  BY SoundAcceptances DEF GovernedInv
<1> QED
  BY <1>1, AlwaysGoverned, AlwaysWithinRules, PTL

-----------------------------------------------------------------------------
(* What was looked at before a completion is planned.                      *)

(* The case has an observed proof of its attempt's head and a journal that *)
(* replays.                                                                *)
Observes(c) ==
    /\ c.journal # "failed" /\ c.evidenceSeen # "failed"
    /\ Has(c.attempt) /\ Has(c.evidence)
    /\ The(c.evidence).head = The(c.attempt).head

LEMMA ProofObserves ==
    ASSUME NEW c, NEW ctx, c.journal # "failed", ProofOf(c, ctx).evidence = {}
    PROVE  Observes(c)
<1>1. EvidenceErrors(c, ctx, ReceiptErrors(c)) = {}
  BY DEF ProofOf, Proof, ProofFrom
<1>2. Has(c.evidence)
  BY <1>1 DEF EvidenceErrors
<1>3. /\ ~(~Has(c.attempt) \/ The(c.evidence).attempt # The(c.attempt).id)
      /\ ~(AttemptHead(c.attempt) = 0 \/ The(c.evidence).head # AttemptHead(c.attempt))
      /\ c.evidenceSeen # "failed"
  BY <1>1, <1>2 DEF EvidenceErrors, When
<1> QED
  BY <1>2, <1>3 DEF Observes, AttemptHead

LEMMA FaultlessObserves ==
    ASSUME NEW c, NEW ctx, Evaluate(c, ctx).errors = {}
    PROVE  Observes(c)
<1>1. ObservationErrors(c) = {} /\ ProofOf(c, ctx).evidence = {}
  BY EvaluateIs DEF AllErrors
<1>2. c.journal # "failed"
  BY <1>1 DEF ObservationErrors, When
<1> QED
  BY <1>1, <1>2, ProofObserves

(* What a case says of the files and the history, by name.                 *)
CaseFields == {"claimed", "attempt", "evidence", "evidenceSeen", "journal", "decisions", "acceptances"}

SameSight(c, o) ==
    /\ c.attempt = o.attempt /\ c.evidence = o.evidence
    /\ c.evidenceSeen = o.evidenceSeen /\ c.journal = o.journal

LEMMA ProjectedSight ==
    ASSUME NEW c, CaseFields \subseteq DOMAIN c, NEW d, NEW x
    PROVE  SameSight(Projected(c, d, x), c)
  BY DEF Projected, SameSight, CaseFields

LEMMA ClaimedSight ==
    ASSUME NEW c, CaseFields \subseteq DOMAIN c, NEW t, t = [c EXCEPT !.claimed = "completed"]
    PROVE  SameSight(t, c) /\ CaseFields \subseteq DOMAIN t
  BY DEF SameSight, CaseFields

(* What a case of the work as it is now says was seen.                     *)
SightOf(s, g, j, w, c) ==
    /\ CaseFields \subseteq DOMAIN c
    /\ c.evidenceSeen = EvidenceSeen(s, g, Current(s, w).evidence)
    /\ c.journal = IF j = "current" THEN "verified" ELSE "failed"

LEMMA CaseSight ==
    ASSUME NEW s, NEW g, NEW j, NEW w, NEW status
    PROVE  SightOf(s, g, j, w, CaseOf(s, g, j, w, TRUE, status))
<1>1. PICK c : c = CaseOf(s, g, j, w, TRUE, status)
  OBVIOUS
<1>2. PICK contract, proof, review, about, bound, seen :
         /\ c = CaseFrom(s, w, contract, Current(s, w), proof, review, about, bound, seen)
         /\ seen = Observed(s, g, j, w, Current(s, w), TRUE)
  BY <1>1 DEF CaseOf, CaseOn, CaseReviewed
<1>3. /\ seen.evidence = EvidenceSeen(s, g, Current(s, w).evidence)
      /\ seen.journal = IF j = "current" THEN "verified" ELSE "failed"
  BY <1>2 DEF Observed
<1>4. PICK claimed, deps, reviewers, humans, decisions, acceptances :
         c = [claimed |-> claimed, contract |-> contract, deps |-> deps,
              open |-> {}, sources |-> <<>>,
              attempt |-> proof.attempt, receipt |-> proof.receipt, evidence |-> proof.evidence,
              review |-> review, reviewers |-> reviewers, humans |-> humans,
              decisions |-> decisions, acceptances |-> acceptances,
              subject |-> seen.subject, evidenceSeen |-> seen.evidence, journal |-> seen.journal]
  BY <1>2 DEF CaseFrom
<1>5. c.evidenceSeen = seen.evidence /\ c.journal = seen.journal
  BY <1>4
<1>6. CaseFields \subseteq DOMAIN c
  BY <1>4 DEF CaseFields
<1> QED
  BY <1>1, <1>3, <1>5, <1>6 DEF SightOf

LEMMA SightObserves ==
    ASSUME NEW c, NEW o, SameSight(c, o), Observes(c)
    PROVE  Observes(o)
  BY DEF SameSight, Observes

(* What was observed of the current proof of w.                            *)
ProofSeenNow(s, g, j, w) ==
    LET k == Current(s, w)
    IN  /\ j = "current"
        /\ Has(k.attempt) /\ Has(k.evidence)
        /\ The(k.evidence).head = The(k.attempt).head
        /\ EvidenceVerified(s, g, The(k.evidence))

LEMMA ObservesProof ==
    ASSUME NEW s, NEW g, NEW j, NEW w, NEW status, Observes(CaseOf(s, g, j, w, TRUE, status))
    PROVE  ProofSeenNow(s, g, j, w)
<1>1. PICK c : c = CaseOf(s, g, j, w, TRUE, status)
  OBVIOUS
<1>2. PICK k : k = Current(s, w)
  OBVIOUS
<1>3. Observes(c)
  BY <1>1
<1>4. SightOf(s, g, j, w, c)
  BY <1>1, CaseSight
<1>5. c.evidenceSeen = EvidenceSeen(s, g, k.evidence)
  BY <1>2, <1>4 DEF SightOf
<1>6. /\ Has(c.attempt) <=> Has(k.attempt)
      /\ Has(k.attempt) => c.attempt = <<AttemptSnapshot(The(k.attempt), Outputs(s, w))>>
      /\ Has(c.evidence) <=> Has(k.evidence)
      /\ Has(k.evidence) => c.evidence = <<EvidenceSnapshot(The(k.evidence), c.receipt)>>
  <2>1. CaseFacts(s, g, j, w, TRUE, status)
    BY CaseIs
  <2> QED
    BY <1>1, <1>2, <2>1 DEF CaseFacts
<1>7. j = "current"
  BY <1>3, <1>4 DEF Observes, SightOf
<1>8. Has(k.attempt) /\ Has(k.evidence)
  BY <1>3, <1>6 DEF Observes
<1>9. The(c.attempt).head = The(k.attempt).head /\ The(c.evidence).head = The(k.evidence).head
  BY <1>6, <1>8 DEF The, AttemptSnapshot, EvidenceSnapshot
<1>10. The(k.evidence).head = The(k.attempt).head
  BY <1>3, <1>9 DEF Observes
<1>11. EvidenceVerified(s, g, The(k.evidence))
  BY <1>3, <1>5, <1>8 DEF Observes, EvidenceSeen
<1> QED
  BY <1>2, <1>7, <1>8, <1>10, <1>11 DEF ProofSeenNow

(* A completion is ready only on a proof observed again.                   *)
LEMMA ReadySees ==
    ASSUME NEW s, NEW g, NEW j, NEW w, NEW at, Ready(Completion(s, g, j, w, at))
    PROVE  ProofSeenNow(s, g, j, w)
<1>1. PICK o : o = CaseOf(s, g, j, w, TRUE, "completed")
  OBVIOUS
<1>2. PICK c : c = CompletionCase(s, g, j, w)
  OBVIOUS
<1>3. SameSight(c, o) /\ CaseFields \subseteq DOMAIN c
  <2>1. CaseFields \subseteq DOMAIN o
    BY <1>1, CaseSight DEF SightOf
  <2>2. c = [o EXCEPT !.claimed = "completed"]
    BY <1>1, <1>2 DEF CompletionCase
  <2> QED
    BY <2>1, <2>2, ClaimedSight
<1>4. PICK completion : completion = Completion(s, g, j, w, at)
  OBVIOUS
<1>5. CASE completion.alone
  <2>1. Evaluate(c, Context(s, w)).errors = {}
    BY <1>2, <1>4, <1>5 DEF Completion, CompletionOn, CompletionOver, CompletionFrom, FullyVerified
  <2>2. Observes(c)
    BY <2>1, FaultlessObserves
  <2> QED
    BY <1>1, <1>3, <2>2, SightObserves, ObservesProof
<1>6. CASE completion.acceptable
  <2>1. PICK d, x, ctx : Evaluate(Projected(c, d, x), ctx).errors = {}
    BY <1>2, <1>4, <1>6 DEF Completion, CompletionOn, CompletionOver, CompletionFrom, AcceptanceAllowed, Proposal
  <2>2. Observes(Projected(c, d, x))
    BY <2>1, FaultlessObserves
  <2>3. Observes(c)
    BY <1>3, <2>2, ProjectedSight, SightObserves
  <2> QED
    BY <1>1, <1>3, <2>3, SightObserves, ObservesProof
<1> QED
  BY <1>4, <1>5, <1>6 DEF Ready

(* The files on the disk are the ones the current attempt committed.       *)
Sees(s, g, j, w) ==
    /\ j = "current"
    /\ \A p \in Outputs(s, w) : g.disk[p] = Tree(g, The(CurrentAttempt(s, w)).head)[p]

(* t has the proofs of s.                                                  *)
SameBasis(s, t) ==
    /\ t.attempts = s.attempts /\ t.receipts = s.receipts /\ t.evidence = s.evidence
    /\ \A w \in Work : t.work[w].current = s.work[w].current /\ Contract(t, w) = Contract(s, w)

LEMMA BasisCurrent ==
    ASSUME NEW s, NEW t, SameBasis(s, t), NEW w \in Work
    PROVE  /\ Current(t, w).attempt = Current(s, w).attempt
           /\ Current(t, w).evidence = Current(s, w).evidence
           /\ Contract(t, w) = Contract(s, w)
<1>1. CurrentAttempt(t, w) = CurrentAttempt(s, w)
  BY DEF SameBasis, CurrentAttempt
<1> QED
  BY <1>1 DEF SameBasis, Current, CurrentFor

(* A proof seen in such a workspace is the proof of the attempt.           *)
LEMMA ProofSees ==
    ASSUME NEW s, NEW g, Sound(s, g), NEW t, SameBasis(s, t), NEW j, NEW w \in Work, ProofSeenNow(t, g, j, w)
    PROVE  Sees(s, g, j, w)
<1>1. PICK k : k = Current(s, w)
  OBVIOUS
<1>2. PICK e : e = The(k.evidence)
  OBVIOUS
<1>3. /\ j = "current" /\ Has(k.attempt) /\ Has(k.evidence) /\ e.head = The(k.attempt).head
      /\ EvidenceVerified(t, g, e)
  BY <1>1, <1>2, BasisCurrent DEF ProofSeenNow
<1>4. OneOf(k.evidence, s.evidence, w) /\ k.attempt = CurrentAttempt(s, w)
  BY <1>1, SoundCurrent
<1>5. e.id \in DOMAIN s.evidence /\ s.evidence[e.id] = e /\ e.work = w
  BY <1>2, <1>3, <1>4 DEF OneOf
<1>6. EvidenceGrounded(s, g, e)
  BY <1>5 DEF Sound, Grounded
<1>7. PICK intents : intents = Contract(s, w).intents
  OBVIOUS
<1>8. e.hashes = ArtifactHashes(intents, Tree(g, e.head))
  BY <1>5, <1>6, <1>7 DEF EvidenceGrounded
<1>9. e.hashes = ArtifactHashes(intents, g.disk)
  BY <1>3, <1>5, <1>7, BasisCurrent DEF EvidenceVerified
<1>10. ASSUME NEW p \in Outputs(s, w)
       PROVE  g.disk[p] = Tree(g, The(CurrentAttempt(s, w)).head)[p]
  <2>1. p \in DOMAIN intents
    BY <1>7 DEF Outputs
  <2>2. e.hashes[p].digest = Tree(g, e.head)[p]
    BY <1>8, <2>1 DEF ArtifactHashes, HashOf
  <2>3. e.hashes[p].digest = g.disk[p]
    BY <1>9, <2>1 DEF ArtifactHashes, HashOf
  <2> QED
    BY <1>3, <1>4, <2>2, <2>3
<1> QED
  BY <1>3, <1>10 DEF Sees

-----------------------------------------------------------------------------
(* Nothing else is completed.                                              *)

(* t judges and completes, over s.                                         *)
Beside(s, t) == Shaped(t) /\ SameBasis(s, t)

(* Nothing is done in t that was not done in s, but what is seen.          *)
DoneSeen(s, t, g, j) == \A w \in Work : IsDone(t, w) => IsDone(s, w) \/ Sees(s, g, j, w)

LEMMA CompletingIs ==
    ASSUME NEW s, Shaped(s), NEW w \in Work, NEW t, t = Completing(s, w)
    PROVE  /\ Beside(s, t) /\ t.decisions = s.decisions
           /\ \A u \in Work : IsDone(t, u) => u = w \/ IsDone(s, u)
<1>1. t = [work |-> t.work, inactive |-> s.inactive, attempts |-> s.attempts,
           receipts |-> s.receipts, evidence |-> s.evidence, reviews |-> s.reviews,
           decisions |-> s.decisions, acceptances |-> s.acceptances]
      /\ t.work = [s.work EXCEPT ![w].status = "completed"]
  BY DEF Shaped, Completing
<1>2. PICK v : v = [s.work[w] EXCEPT !.status = "completed"]
  OBVIOUS
<1>3. s.work = [u \in Work |-> s.work[u]]
  BY DEF Shaped
<1>4. t.work = [u \in Work |-> IF u = w THEN v ELSE s.work[u]]
  BY <1>1, <1>2, <1>3
<1>5. /\ s.work[w] = [status |-> s.work[w].status, successor |-> s.work[w].successor,
                      current |-> s.work[w].current, contract |-> s.work[w].contract]
      /\ DOMAIN s.work[w].contract = ContractFields /\ s.work[w].contract.count \in Nat
  BY DEF Shaped, Contract
<1>6. v = [status |-> "completed", successor |-> s.work[w].successor,
           current |-> s.work[w].current, contract |-> s.work[w].contract]
  BY <1>2, <1>5
<1>7. t.work[w] = v /\ \A u \in Work : u # w => t.work[u] = s.work[u]
  BY <1>4
<1>8. ASSUME NEW u \in Work
      PROVE  /\ t.work[u] = [status |-> t.work[u].status, successor |-> t.work[u].successor,
                             current |-> t.work[u].current, contract |-> t.work[u].contract]
             /\ DOMAIN Contract(t, u) = ContractFields /\ Contract(t, u).count \in Nat
             /\ t.work[u].current = s.work[u].current /\ Contract(t, u) = Contract(s, u)
  <2>1. CASE u = w
    BY <1>5, <1>6, <1>7, <2>1 DEF Contract
  <2>2. CASE u # w
    BY <1>7, <2>2 DEF Shaped, Contract
  <2> QED
    BY <2>1, <2>2
<1>9. /\ t = [work |-> t.work, inactive |-> t.inactive, attempts |-> t.attempts,
              receipts |-> t.receipts, evidence |-> t.evidence, reviews |-> t.reviews,
              decisions |-> t.decisions, acceptances |-> t.acceptances]
      /\ t.attempts = s.attempts /\ t.receipts = s.receipts /\ t.evidence = s.evidence
      /\ t.decisions = s.decisions
  BY <1>1
<1>10. t.work = [u \in Work |-> t.work[u]]
  BY <1>4
<1>11. Shaped(t)
  BY <1>8, <1>9, <1>10 DEF Shaped
<1>12. SameBasis(s, t)
  BY <1>8, <1>9 DEF SameBasis
<1>13. \A u \in Work : IsDone(t, u) => u = w \/ IsDone(s, u)
  BY <1>7 DEF IsDone
<1> QED
  BY <1>9, <1>11, <1>12, <1>13 DEF Beside

(* A workspace with other judgements is beside it.                         *)
LEMMA RejudgedBeside ==
    ASSUME NEW s, NEW t, Rejudged(s, t)
    PROVE  Beside(s, t) /\ \A w \in Work : IsDone(t, w) <=> IsDone(s, w)
  BY DEF Rejudged, Beside, SameBasis, Contract, IsDone

LEMMA AcceptanceBeside ==
    ASSUME NEW s, Shaped(s), NEW w, NEW d, NEW n, NEW t, t = WithAcceptance(s, w, d, n)
    PROVE  /\ Beside(s, t) /\ t.decisions = s.decisions
           /\ \A u \in Work : IsDone(t, u) <=> IsDone(s, u)
<1>1. PICK X : t = WithAcceptances(s, X)
  BY DEF WithAcceptance, WithAcceptances
<1>2. Rejudged(s, t)
  BY <1>1, AcceptancesReplaced
<1>3. t.decisions = s.decisions
  BY <1>1 DEF Shaped, WithAcceptances
<1> QED
  BY <1>2, <1>3, RejudgedBeside

LEMMA BesideTwice ==
    ASSUME NEW s, NEW t, NEW u, Beside(s, t), Beside(t, u)
    PROVE  Beside(s, u)
  BY DEF Beside, SameBasis

(* One more work item is completed, on its proof.                          *)
LEMMA CompletedSeen ==
    ASSUME NEW s, NEW g, Sound(s, g), NEW j, NEW a, Beside(s, a), DoneSeen(s, a, g, j),
           NEW w \in Work, NEW at, Ready(Completion(a, g, j, w, at)), NEW t, t = Completing(a, w)
    PROVE  Beside(s, t) /\ DoneSeen(s, t, g, j) /\ t.decisions = a.decisions
<1>1. Beside(a, t) /\ t.decisions = a.decisions /\ \A u \in Work : IsDone(t, u) => u = w \/ IsDone(a, u)
  BY CompletingIs DEF Beside
<1>2. Beside(s, t)
  BY <1>1, BesideTwice
<1>3. Sees(s, g, j, w)
  BY ReadySees, ProofSees DEF Beside
<1> QED
  BY <1>1, <1>2, <1>3 DEF DoneSeen

LEMMA MemberSeen ==
    ASSUME NEW s, NEW g, Sound(s, g), NEW j, NEW t, Beside(s, t), DoneSeen(s, t, g, j),
           NEW w \in Work, NEW d, NEW r, r = CompletedMember(t, g, j, w, d), Has(r)
    PROVE  Beside(s, The(r)) /\ DoneSeen(s, The(r), g, j) /\ The(r).decisions = t.decisions
<1>1. PICK a, b : /\ r = CompletionOfMember(a, g, j, w, b)
                  /\ Beside(s, a) /\ DoneSeen(s, a, g, j) /\ a.decisions = t.decisions
  <2>1. CASE Of(t.acceptances, w) # {}
    BY <2>1 DEF CompletedMember
  <2>2. CASE Of(t.acceptances, w) = {}
    <3>1. PICK a : a = WithAcceptance(t, w, d, Now)
      OBVIOUS
    <3>2. Beside(t, a) /\ a.decisions = t.decisions /\ \A u \in Work : IsDone(a, u) <=> IsDone(t, u)
      BY <3>1, AcceptanceBeside DEF Beside
    <3>3. Beside(s, a) /\ DoneSeen(s, a, g, j)
      BY <3>2, BesideTwice DEF DoneSeen
    <3> QED
      BY <2>2, <3>1, <3>2, <3>3 DEF CompletedMember
  <2> QED
    BY <2>1, <2>2
<1>2. PICK u : u = The(r)
  OBVIOUS
<1>3. u = Completing(a, w)
  BY <1>1, <1>2, CompletionIs
<1>4. Ready(Completion(a, g, j, w, Now))
  BY <1>1 DEF CompletionOfMember, CompleteAllowed, Has
<1>5. Beside(s, u) /\ DoneSeen(s, u, g, j) /\ u.decisions = a.decisions
  BY <1>1, <1>3, <1>4, CompletedSeen
<1> QED
  BY <1>1, <1>2, <1>5

(* Whatever a pack completes is seen, and it completes beside its          *)
(* decisions.                                                              *)
LEMMA ExecutedSeen ==
    ASSUME NEW s, NEW g, Sound(s, g), NEW j, NEW t, Beside(s, t), DoneSeen(s, t, g, j),
           NEW judged, Members(t, judged),
           NEW r, r = Executed(t, g, j, judged), Has(r)
    PROVE  Beside(s, The(r)) /\ DoneSeen(s, The(r), g, j) /\ The(r).decisions = t.decisions
<1> DEFINE Good(x) ==
              Has(x) => Beside(s, The(x)) /\ DoneSeen(s, The(x), g, j) /\ The(x).decisions = t.decisions
<1>1. IsList(judged) /\ \A i \in DOMAIN judged : judged[i].work \in Work
  BY DEF Members
<1>2. Len(judged) \in Nat /\ DOMAIN judged = 1..Len(judged)
  BY <1>1, ListIs
<1>3. PICK f : Steps(f, Len(judged), t, g, j, judged) /\ Executed(t, g, j, judged) = f[Len(judged)]
  BY <1>2, ExecutedIs
<1>4. Good(f[0])
  <2>1. f[0] = <<t>>
    BY <1>2, <1>3 DEF Steps
  <2> QED
    BY <2>1 DEF The
<1>5. ASSUME NEW i \in 1..Len(judged), Good(f[i - 1])
      PROVE  Good(f[i])
  <2>1. PICK member : member = judged[i]
    OBVIOUS
  <2>2. f[i] = ExecutedMember(f[i - 1], g, j, member)
    BY <1>2, <1>3, <2>1 DEF Steps
  <2>3. CASE ~member.met \/ ~Has(f[i - 1])
    BY <1>5, <2>2, <2>3 DEF ExecutedMember
  <2>4. CASE member.met /\ Has(f[i - 1])
    <3>1. PICK y : y = The(f[i - 1])
      OBVIOUS
    <3>2. PICK w : w = member.work
      OBVIOUS
    <3>3. PICK d : d = member.decision
      OBVIOUS
    <3>4. PICK x : x = f[i]
      OBVIOUS
    <3>5. Beside(s, y) /\ DoneSeen(s, y, g, j) /\ y.decisions = t.decisions
      BY <1>5, <2>4, <3>1
    <3>6. w \in Work
      BY <1>1, <1>2, <2>1, <3>2
    <3>7. x = CompletedMember(y, g, j, w, d)
      BY <2>2, <2>4, <3>1, <3>2, <3>3, <3>4 DEF ExecutedMember
    <3>8. Has(x) => /\ Beside(s, The(x)) /\ DoneSeen(s, The(x), g, j)
                    /\ The(x).decisions = y.decisions
      BY <3>5, <3>6, <3>7, MemberSeen
    <3> QED
      BY <3>4, <3>5, <3>8
  <2> QED
    BY <2>3, <2>4
<1> HIDE DEF Good
<1>6. \A i \in 0..Len(judged) : Good(f[i])
  <2> DEFINE T == {i \in 0..Len(judged) : ~Good(f[i])}
  <2>1. CASE T # {}
    <3>1. PICK m \in T : \A k \in T : m <= k
      <4>1. T \subseteq Nat
        BY <1>2
      <4> HIDE DEF T
      <4> QED
        BY <2>1, <4>1, LeastOf
    <3>2. m # 0
      BY <1>4, <3>1
    <3>3. m - 1 \in 0..Len(judged) /\ m - 1 \notin T
      BY <1>2, <3>1, <3>2
    <3> QED
      BY <1>2, <1>5, <3>1, <3>2, <3>3
  <2> QED
    BY <2>1
<1>7. Good(r)
  BY <1>2, <1>3, <1>6
<1> QED
  BY <1>7 DEF Good

-----------------------------------------------------------------------------
(* Completions are planned only of what is seen, and approvals of packs    *)
(* only of what was shown.                                                 *)

(* A decision names the current proof of its work and the latest review.   *)
Named(opt) == IF Has(opt) THEN The(opt).id ELSE 0

NamesCurrent(s, d) ==
    /\ d.evidence = Named(Current(s, d.work).evidence)
    /\ d.evidence = Named(LatestEvidence(s, d.work))
    /\ d.review = Named(Current(s, d.work).review)

ByPack(d) == d.mode = "approval-pack" /\ d.decision = "accepted"

(* What the approval of a pack adds to s is about members that were offered*)
(* without errors.                                                         *)
OnOffer(offered, s, d) ==
    /\ d.work \in Work /\ NamesCurrent(s, d)
    /\ d.work \in DOMAIN offered.pack.members /\ offered.pack.members[d.work].errors = {}

Approving(offered, s, t) ==
    /\ t.evidence = s.evidence
    /\ \A i \in DOMAIN t.decisions \ DOMAIN s.decisions :
          ByPack(t.decisions[i]) => OnOffer(offered, s, t.decisions[i])

Shown(p) ==
    /\ p.kind = "complete" => p.new.decisions = p.seen.decisions
    /\ p.kind = "pack" => Approving(p.offer, p.seen, p.new)

LEMMA CaseNamed ==
    ASSUME NEW s, NEW g, NEW j, NEW w, NEW status
    PROVE  /\ EvidenceNamed(CaseOf(s, g, j, w, TRUE, status)) = Named(Current(s, w).evidence)
           /\ ReviewNamed(CaseOf(s, g, j, w, TRUE, status)) = Named(Current(s, w).review)
<1>1. PICK k : k = Current(s, w)
  OBVIOUS
<1>2. PICK c : c = CaseOf(s, g, j, w, TRUE, status)
  OBVIOUS
<1>3. PICK proof, reviewed :
         /\ Has(c.evidence) <=> Has(k.evidence)
         /\ Has(k.evidence) => c.evidence = <<EvidenceSnapshot(The(k.evidence), c.receipt)>>
         /\ Has(c.review) <=> Has(k.review)
         /\ Has(k.review) => c.review = <<ReviewSnapshot(The(k.review), reviewed, c.contract, proof)>>
  <2>1. CaseFacts(s, g, j, w, TRUE, status)
    BY CaseIs
  <2> QED
    BY <1>1, <1>2, <2>1 DEF CaseFacts
<1>4. EvidenceNamed(c) = Named(k.evidence)
  BY <1>3 DEF EvidenceNamed, EvidenceSnapshot, Named, The
<1>5. ReviewNamed(c) = Named(k.review)
  BY <1>3 DEF ReviewNamed, ReviewSnapshot, Named, The
<1> QED
  BY <1>1, <1>2, <1>4, <1>5

(* What qualifies matches the proof.                                       *)
LEMMA QualifiedMatches ==
    ASSUME NEW c, NEW ctx, NEW d \in Evaluate(c, ctx).qualified
    PROVE  d.evidence = EvidenceNamed(c)
<1>1. d \in QuorumOf(c, ctx).qualified
  BY EvaluateIs
<1>2. MatchesProof(c, d)
  BY <1>1 DEF QuorumOf, QuorumProperty, QuorumOver, QuorumAmong, QuorumFrom
<1> QED
  BY <1>2 DEF MatchesProof, EvidenceNamed

LEMMA JudgedShown ==
    ASSUME NEW s, NEW g, NEW j, NEW w, NEW h, NEW id,
           NEW m, m = Judged(s, g, j, w, h, "accepted", id), m.allowed,
           NEW x, x = Decided(m.decision, m.work)
    PROVE  x.work = w /\ NamesCurrent(s, x)
<1>1. PICK c : c = CaseOf(s, g, j, w, TRUE, s.work[w].status)
  OBVIOUS
<1>2. PICK d : d = PackCandidate(s, w, c, h, "accepted", id)
  OBVIOUS
<1>3. d.decision = "accepted" /\ d.review = ReviewNamed(c) /\ d.evidence = Named(LatestEvidence(s, w))
  BY <1>2 DEF PackCandidate, Candidate, ReviewNamed, Named
<1>4. m.work = w /\ m.decision = d /\ MayDecide(s, w, c, d)
  BY <1>1, <1>2 DEF Judged, JudgedOn, JudgedFrom, CaseNow
<1>5. ApprovalAllowed(s, w, c, d)
  BY <1>3, <1>4 DEF MayDecide
<1>6. PICK b, ctx : b = Projected(c, d, <<>>) /\ d \in Evaluate(b, ctx).qualified
  BY <1>5 DEF ApprovalAllowed, DecisionAllowed, Proposal
<1>7. SameSight(b, c)
  <2>1. CaseFields \subseteq DOMAIN c
    BY <1>1, CaseSight DEF SightOf
  <2> QED
    BY <1>6, <2>1, ProjectedSight
<1>8. d.evidence = EvidenceNamed(c)
  BY <1>6, <1>7, QualifiedMatches DEF EvidenceNamed, SameSight
<1>9. /\ x.work = w /\ x.evidence = d.evidence /\ x.evidence = EvidenceNamed(c)
      /\ x.review = ReviewNamed(c)
  BY <1>3, <1>4, <1>8 DEF Decided
<1>10. EvidenceNamed(c) = Named(Current(s, w).evidence) /\ ReviewNamed(c) = Named(Current(s, w).review)
  BY <1>1, CaseNamed
<1> QED
  BY <1>3, <1>9, <1>10 DEF NamesCurrent

LEMMA JudgedRejects ==
    ASSUME NEW s, NEW g, NEW j, NEW w, NEW h, NEW id,
           NEW m, m = Judged(s, g, j, w, h, "rejected", id),
           NEW x, x = Decided(m.decision, m.work)
    PROVE  ~ByPack(x)
  BY DEF Judged, JudgedOn, JudgedFrom, PackCandidate, Candidate, Decided, ByPack

(* What may be approved was offered without errors.                        *)
LEMMA ApprovedFaultless ==
    ASSUME NEW s, NEW g, NEW j, NEW works, NEW offered, offered = InboxOffer(s, g, j, works),
           NEW approved, Approvable(offered, approved), NEW w \in approved, w \in works
    PROVE  w \in DOMAIN offered.pack.members /\ offered.pack.members[w].errors = {}
<1>1. DOMAIN offered.pack.members = works /\ offered.states = States(s, offered.pack)
  BY DEF InboxOffer, OfferOf, PackOf
<1>2. offered.states[w] # "blocked"
  BY DEF Approvable
<1>3. StateAlone(offered.pack.members[w]) # "blocked"
  BY <1>1, <1>2 DEF States
<1> QED
  BY <1>1, <1>3 DEF StateAlone

LEMMA PackShows ==
    ASSUME NEW s, IsList(s.decisions), Shaped(s), NEW g, NEW j,
           NEW works, works \subseteq Work, NEW offered, offered = InboxOffer(s, g, j, works),
           NEW approved, Approvable(offered, approved), NEW h,
           NEW n \in Nat, NEW order \in [1..n -> works],
           NEW judged, judged = JudgedInOrder(s, g, j, order, h, approved),
           \A i \in DOMAIN judged : judged[i].allowed,
           NEW t, t.decisions = WithDecisions(s, judged).decisions, t.evidence = s.evidence
    PROVE  Approving(offered, s, t)
<1> DEFINE D == [i \in DOMAIN judged |-> Decided(judged[i].decision, judged[i].work)]
<1>1. DOMAIN judged = 1..n /\ DOMAIN D = 1..n
  BY DEF JudgedInOrder
<1>2. t.decisions = s.decisions \o D
  BY DEF Shaped, WithDecisions
<1>3. IsList(D)
  BY <1>1, ListMade
<1>4. ASSUME NEW i \in 1..n, ByPack(D[i])
      PROVE  OnOffer(offered, s, D[i])
  <2>1. PICK w \in works : w = order[i]
    OBVIOUS
  <2>2. PICK id : id = Len(s.decisions) + i
    OBVIOUS
  <2>3. PICK m : m = judged[i]
    OBVIOUS
  <2>4. PICK x : x = D[i]
    OBVIOUS
  <2>5. x = Decided(m.decision, m.work) /\ m.allowed
    BY <1>1, <2>3, <2>4
  <2>6. m = Judged(s, g, j, w, h, IF w \in approved THEN "accepted" ELSE "rejected", id)
    BY <2>1, <2>2, <2>3 DEF JudgedInOrder
  <2>7. ByPack(x)
    BY <1>4, <2>4
  <2>8. w \in approved
    BY <2>5, <2>6, <2>7, JudgedRejects
  <2>9. x.work = w /\ NamesCurrent(s, x)
    <3>1. m = Judged(s, g, j, w, h, "accepted", id)
      BY <2>6, <2>8
    <3> QED
      BY <2>5, <3>1, JudgedShown
  <2>10. w \in DOMAIN offered.pack.members /\ offered.pack.members[w].errors = {}
    BY <2>8, ApprovedFaultless
  <2> QED
    BY <2>4, <2>9, <2>10 DEF OnOffer
<1> HIDE DEF D
<1>5. \A i \in DOMAIN t.decisions \ DOMAIN s.decisions :
         i - Len(s.decisions) \in DOMAIN D /\ t.decisions[i] = D[i - Len(s.decisions)]
  BY <1>2, <1>3, Joined
<1> QED
  BY <1>1, <1>4, <1>5 DEF Approving

(* What is planned is seen and shown.                                      *)
PlanSees ==
    Has(plan') /\ The(plan').kind \in {"complete", "pack"} =>
       /\ DoneSeen(store, The(plan').new, git, journal)
       /\ The(plan').seen = store /\ Shown(The(plan'))

LEMMA CompletionSees ==
    ASSUME Sound(store, git), NEW w \in Work, CompleteWork(w)
    PROVE  PlanSees
<1>1. PICK a : a = WithProjected(w)
  OBVIOUS
<1>2. PICK t : t = Completing(a, w)
  OBVIOUS
<1>3. /\ The(plan') = [kind |-> "complete", work |-> w, seen |-> store, new |-> t]
      /\ Ready(Completion(a, git, journal, w, Now))
  BY <1>1, <1>2 DEF CompleteWork, PlanCompletion, MayComplete, CompleteAllowed, Completing, The
<1>4. Shaped(store)
  BY DEF Sound
<1>5. /\ Beside(store, a) /\ a.decisions = store.decisions
      /\ \A u \in Work : IsDone(a, u) <=> IsDone(store, u)
  <2>1. a = store \/ \E d : a = WithAcceptance(store, w, d, Now)
    BY <1>1 DEF WithProjected, Accepted
  <2>2. Beside(store, store)
    BY <1>4 DEF Beside, SameBasis
  <2> QED
    BY <1>4, <2>1, <2>2, AcceptanceBeside
<1>6. DoneSeen(store, a, git, journal)
  BY <1>5 DEF DoneSeen
<1>7. DoneSeen(store, t, git, journal) /\ t.decisions = store.decisions
  BY <1>2, <1>3, <1>5, <1>6, CompletedSeen
<1>8. /\ The(plan').kind = "complete" /\ The(plan').seen = store /\ The(plan').new = t
  BY <1>3
<1> QED
  BY <1>7, <1>8 DEF PlanSees, Shown

LEMMA PackSees ==
    ASSUME Repo(git), Sound(store, git), NEW offered, NEW h, NEW approved, NEW rejected,
           approved \cup rejected \subseteq Work, PlanDecision(offered, h, approved, rejected),
           NEW works, approved \cup rejected \subseteq works, works \subseteq Work,
           offered = InboxOffer(store, git, journal, works)
    PROVE  PlanSees
<1>1. Now \in Nat
  BY NowIs DEF Sound
<1>2. PICK decided : decided = approved \cup rejected
  OBVIOUS
<1>3. PICK order \in Orders(offered.pack, decided) :
         PlanJudged(offered, JudgedInOrder(store, git, journal, order, h, approved))
  BY <1>2 DEF PlanDecision
<1>4. PICK n \in Nat : n = Cardinality(decided)
  <2>1. IsFiniteSet(decided)
    BY <1>2, RecordsAssumption, FS_Subset
  <2> QED
    BY <2>1, FS_CardinalityType
<1>5. order \in [1..n -> Work] /\ order \in [1..n -> works]
  <2>1. order \in [1..n -> decided]
    BY <1>3, <1>4 DEF Orders
  <2> QED
    BY <1>2, <2>1
<1>6. PICK judged : judged = JudgedInOrder(store, git, journal, order, h, approved)
  OBVIOUS
<1>7. PICK t : t = WithDecisions(store, judged)
  OBVIOUS
<1>8. PICK r : r = Executed(t, git, journal, judged)
  OBVIOUS
<1>9. /\ \A i \in DOMAIN judged : judged[i].allowed
      /\ Has(r) /\ plan' = <<[kind |-> "pack", seen |-> store, offer |-> offered, new |-> The(r)]>>
  BY <1>3, <1>6, <1>7, <1>8 DEF PlanJudged, PlanPack
<1>10. Members(t, judged)
  BY <1>1, <1>5, <1>6, <1>7, <1>9, PackDecided
<1>11. Beside(store, t) /\ \A u \in Work : IsDone(t, u) <=> IsDone(store, u)
  <2>1. PICK X : t = Redecided(store, X)
    BY <1>7 DEF WithDecisions, Redecided
  <2>2. Rejudged(store, t)
    BY <2>1, DecisionsReplaced DEF Sound
  <2> QED
    BY <2>2, RejudgedBeside
<1>12. DoneSeen(store, t, git, journal)
  BY <1>11 DEF DoneSeen
<1>13. /\ Beside(store, The(r)) /\ DoneSeen(store, The(r), git, journal)
       /\ The(r).decisions = t.decisions
  BY <1>8, <1>9, <1>10, <1>11, <1>12, ExecutedSeen
<1>14. Approvable(offered, approved)
  BY DEF PlanDecision
<1>15. PICK new : new = The(r)
  OBVIOUS
<1>16. Approving(offered, store, new)
  <2>1. new.decisions = WithDecisions(store, judged).decisions
    BY <1>7, <1>13, <1>15
  <2>2. IsList(store.decisions) /\ Shaped(store)
    BY ListedIs DEF Sound
  <2>3. new.evidence = store.evidence
    BY <1>13, <1>15 DEF Beside, SameBasis
  <2> QED
    BY <1>5, <1>6, <1>9, <1>14, <2>1, <2>2, <2>3, PackShows
<1>17. /\ The(plan').kind = "pack" /\ The(plan').seen = store /\ The(plan').offer = offered
       /\ The(plan').new = new
  BY <1>9, <1>15 DEF The
<1> QED
  BY <1>13, <1>15, <1>16, <1>17 DEF PlanSees, Shown

(* Every other step leaves the plan, drops it or plans something else.     *)
NoCompletion ==
    \/ plan' = plan \/ plan' = <<>>
    \/ The(plan').kind \in {"advance", "refresh", "finish", "recover"}

LEMMA AgentSees ==
    ASSUME GovernedInv, Agent
    PROVE  NoCompletion \/ PlanSees
<1>1. Sound(store, git) /\ PlanSound
  BY DEF GovernedInv
<1>2. ASSUME NEW w \in Work, Start(w) \/ Release(w)
      PROVE  plan' = plan
  BY <1>2 DEF Start, Release
<1>3. ASSUME NEW w \in Work, Advance(w)
      PROVE  The(plan').kind = "advance"
  BY <1>3 DEF Advance, AdvancePlan, The
<1>4. ASSUME NEW w \in Work, Refresh(w)
      PROVE  The(plan').kind = "refresh"
  BY <1>4 DEF Refresh, RefreshPlan, The
<1>5. ASSUME NEW w \in Work, Converge(w)
      PROVE  PlanSees
  BY <1>1, <1>5, CompletionSees DEF Converge
<1>6. ASSUME Record
      PROVE  plan' = <<>> \/ The(plan').kind = "finish"
  BY <1>6 DEF Record, RecordPlanned, The
<1>7. ASSUME Finish
      PROVE  plan' = <<>> \/ PlanSees
  <2>1. PICK w : w = The(plan).work
    OBVIOUS
  <2>2. w \in Work
    BY <1>1, <1>7, <2>1 DEF Finish, PlanSound, Planned
  <2>3. CompleteWork(w) \/ plan' = <<>>
    BY <1>7, <2>1 DEF Finish, Conclude
  <2> QED
    BY <1>1, <2>2, <2>3, CompletionSees
<1>8. Complete \/ Abandon => plan' = <<>>
  BY DEF Complete, Abandon
<1>9. ASSUME NEW w \in Work, Resume(w)
      PROVE  plan' = <<>> \/ PlanSees
  BY <1>1, <1>9, CompletionSees DEF Resume, Conclude
<1> QED
  BY <1>2, <1>3, <1>4, <1>5, <1>6, <1>7, <1>8, <1>9 DEF Agent, NoCompletion

LEMMA PacksSee ==
    ASSUME GovernedInv, Packs
    PROVE  NoCompletion \/ PlanSees
<1>1. Repo(git) /\ Sound(store, git) /\ Offered
  BY DEF GovernedInv
<1>2. ASSUME NEW works, Ask(works)
      PROVE  plan' = plan
  BY <1>2 DEF Ask, vars
<1>3. ASSUME NEW w \in Work, NEW h \in Human, Approve(w, h)
      PROVE  PlanSees
  <2>1. PICK approved, rejected, works : approved = {w} /\ rejected = {} /\ works = {w}
    OBVIOUS
  <2>2. PICK new : new = InboxOffer(store, git, journal, works)
    OBVIOUS
  <2>3. PlanDecision(new, h, approved, rejected)
    BY <1>3, <2>1, <2>2 DEF Approve, ApproveOffered
  <2>4. approved \cup rejected \subseteq works /\ works \subseteq Work
    BY <2>1
  <2> QED
    BY <1>1, <2>2, <2>3, <2>4, PackSees
<1>4. ASSUME DecidePack
      PROVE  PlanSees
  <2>1. PICK o : o = The(offer)
    OBVIOUS
  <2>2. PICK h \in Human, approved \in SUBSET DOMAIN o.pack.members, rejected \in SUBSET DOMAIN o.pack.members :
           PlanDecision(o, h, approved, rejected)
    BY <1>4, <2>1 DEF DecidePack
  <2>3. PICK works : works = DOMAIN o.pack.members
    OBVIOUS
  <2>4. approved \cup rejected \subseteq works /\ works \subseteq Work
    BY <1>1, <1>4, <2>1, <2>2, <2>3 DEF DecidePack, Offered
  <2>5. o = InboxOffer(store, git, journal, works)
    BY <1>4, <2>1, <2>3 DEF DecidePack, Stands
  <2> QED
    BY <1>1, <2>2, <2>4, <2>5, PackSees
<1>5. WritePack => plan' = <<>>
  BY DEF WritePack
<1> QED
  BY <1>2, <1>3, <1>4, <1>5 DEF Packs, NoCompletion

LEMMA StepsSee ==
    ASSUME GovernedInv, [InterruptedNext]_allVars
    PROVE  NoCompletion \/ PlanSees
<1>1. CASE Undisturbed
  <2>1. Repository \/ Judges \/ Hand => plan' = plan
    <3>1. Repository => plan' = plan
      BY DEF Repository, Edit, Commit, Checkout
    <3>2. Judges => plan' = plan
      BY JudgesSound
    <3>3. Hand => plan' = plan
      BY HandsEdit DEF GovernedInv
    <3> QED
      BY <3>1, <3>2, <3>3
  <2>2. Repository \/ Agent \/ Judges \/ Hand \/ Packs
    BY <1>1 DEF Undisturbed, PackNext, Next
  <2> QED
    BY <2>1, <2>2, AgentSees, PacksSee DEF NoCompletion
<1>2. CASE DieWriting
  BY <1>2, DeathInterrupts DEF Interrupted, NoCompletion
<1>3. CASE SupplyMarker \/ Repeat
  BY <1>3 DEF SupplyMarker, Repeat, Terminated, NoCompletion
<1>4. CASE Recover \/ Recovered
  BY <1>4 DEF Recover, Recovered, NoCompletion, The
<1>5. CASE UNCHANGED allVars
  BY <1>5 DEF allVars, NoCompletion
<1> QED
  BY <1>1, <1>2, <1>3, <1>4, <1>5 DEF InterruptedNext, RepeatPack, RepeatApproval

(* Whoever completes work, by convergence, at the end of an advance, by a  *)
(* pack or by an approval, plans it on files that are what the attempt     *)
(* committed and a history that replays (verify_proof_projection,          *)
(* _evidence_property).                                                    *)
THEOREM CompletionsSeeTheWork == InterruptedSpec => CompletionSeesTheWork
<1>1. GovernedInv /\ [InterruptedNext]_allVars =>
         [Has(plan') /\ plan' # plan /\ The(plan').kind \in {"complete", "pack"} =>
             \A w \in Work :
                IsDone(The(plan').new, w) /\ ~IsDone(store, w) =>
                   LET head == The(CurrentAttempt(store, w)).head
                   IN  /\ journal = "current"
                       /\ \A p \in Outputs(store, w) : git.disk[p] = Tree(git, head)[p]]_vars
  BY StepsSee DEF NoCompletion, PlanSees, DoneSeen, Sees, Has
<1> QED
  BY <1>1, AlwaysGoverned, PTL DEF InterruptedSpec, CompletionSeesTheWork

-----------------------------------------------------------------------------
(* What a pack writes is what was shown.                                   *)

(* What a dead process had planned is on the offer its human was shown.    *)
OpenShown ==
    Has(pending) /\ The(pending).request.kind = "pack" =>
       Approving(The(pending).request.offer, The(pending).before, The(pending).after)

(* And so is what a live one plans.                                        *)
ShownInv ==
    /\ Has(plan) => Shown(The(plan))
    /\ OpenShown

LEMMA PlansShow ==
    ASSUME GovernedInv, ShownInv, [InterruptedNext]_allVars
    PROVE  Has(plan') => Shown(The(plan'))
<1>1. NoCompletion \/ PlanSees
  BY StepsSee
<1>2. Has(plan) => Shown(The(plan))
  BY DEF ShownInv
<1>3. CASE plan' = plan \/ plan' = <<>>
  BY <1>2, <1>3 DEF Has
<1>4. CASE The(plan').kind \in {"advance", "refresh", "finish", "recover"}
  BY <1>4 DEF Shown
<1>5. CASE PlanSees
  BY <1>5 DEF PlanSees, Shown
<1> QED
  BY <1>1, <1>3, <1>4, <1>5 DEF NoCompletion

(* What a death over a planned write leaves behind.                        *)
LEMMA DeathShows ==
    ASSUME ShownInv, DieWriting
    PROVE  The(pending').request.kind = "pack" =>
              Approving(The(pending').request.offer, The(pending').before, The(pending').after)
<1>1. PICK p : p = The(plan)
  OBVIOUS
<1>2. CASE HasProofPlan /\ DieRecording(p, Reconciled(store, p))
  <2>1. The(pending').request = p
    BY <1>2 DEF DieRecording, Interrupted, The
  <2> QED
    BY <1>1, <1>2, <2>1 DEF HasProofPlan
<1>3. CASE Has(plan) /\ store = p.seen /\ Interrupted(p, p.new)
  <2>1. /\ The(pending').request = p /\ The(pending').before = p.seen
        /\ The(pending').after = p.new
    BY <1>3 DEF Interrupted, The
  <2>2. Shown(p)
    BY <1>1, <1>3 DEF ShownInv
  <2> QED
    BY <2>1, <2>2 DEF Shown
<1> QED
  BY <1>1, <1>2, <1>3 DEF DieWriting

LEMMA StepsShow ==
    ASSUME GovernedInv, ShownInv, [InterruptedNext]_allVars
    PROVE  ShownInv'
<1>1. Has(plan') => Shown(The(plan'))
  BY PlansShow
<1>2. ASSUME UNCHANGED pending
      PROVE  OpenShown'
  BY <1>2 DEF ShownInv, OpenShown
<1>3. ASSUME Undisturbed \/ Recover \/ UNCHANGED allVars
      PROVE  OpenShown'
  BY <1>2, <1>3 DEF Undisturbed, Recover, allVars
<1>4. ASSUME DieWriting
      PROVE  OpenShown'
  BY <1>4, DeathShows DEF OpenShown
<1>5. ASSUME SupplyMarker \/ Recovered \/ Repeat
      PROVE  OpenShown'
  BY <1>5 DEF SupplyMarker, Recovered, Repeat, Terminated, Has, OpenShown
<1>6. OpenShown'
  BY <1>3, <1>4, <1>5 DEF InterruptedNext, RepeatPack, RepeatApproval
<1> QED
  BY <1>1, <1>6 DEF ShownInv

(* Nothing in t was decided with a pack that is not in s.                  *)
NoPack(s, t) == \A i \in DOMAIN t.decisions \ DOMAIN s.decisions : ~ByPack(t.decisions[i])

(* What request adds stands on an offer that still holds.                  *)
Standing(request) == Stands(request.offer) /\ Approving(request.offer, store, store')

LEMMA SameDecisions ==
    ASSUME NEW s, NEW t, t.decisions = s.decisions
    PROVE  NoPack(s, t)
  BY DEF NoPack

LEMMA RecordedDecisions ==
    ASSUME NEW s, Shaped(s), NEW p
    PROVE  Reconciled(s, p).decisions = s.decisions
  BY DEF Shaped, Reconciled

LEMMA AgentDecides ==
    ASSUME Shaped(store), ShownInv, Agent
    PROVE  store'.decisions = store.decisions
<1>1. ASSUME NEW w \in Work, Start(w) \/ Release(w) \/ Advance(w) \/ Refresh(w) \/ Resume(w) \/ Converge(w)
      PROVE  UNCHANGED store
  BY <1>1 DEF Start, Release, Advance, Refresh, Resume, Conclude, Converge
<1>2. Finish \/ Abandon => UNCHANGED store
  BY DEF Finish, Conclude, Abandon
<1>3. ASSUME Record
      PROVE  store'.decisions = store.decisions
  <2>1. PICK p : store' = Reconciled(store, p)
    BY <1>3 DEF Record, RecordPlanned, Write
  <2> QED
    BY <2>1, RecordedDecisions
<1>4. ASSUME Complete
      PROVE  store'.decisions = store.decisions
  <2>1. PICK p : p = The(plan)
    OBVIOUS
  <2>2. Has(plan) /\ p.kind = "complete" /\ store = p.seen /\ store' = p.new
    BY <1>4, <2>1 DEF Complete, Write
  <2>3. Shown(p)
    BY <2>1, <2>2 DEF ShownInv
  <2> QED
    BY <2>2, <2>3 DEF Shown
<1> QED
  BY <1>1, <1>2, <1>3, <1>4 DEF Agent

LEMMA JudgesDecide ==
    ASSUME Shaped(store), IsList(store.decisions), Judges
    PROVE  NoPack(store, store')
<1>1. ASSUME NEW w \in Work, NEW v, NEW verdict, Review(w, v, verdict)
      PROVE  store'.decisions = store.decisions
  <2>1. PICK X : store' = WithReviews(store, X)
    BY <1>1 DEF Review, Write, WithReviews
  <2> QED
    BY <2>1 DEF Shaped, WithReviews
<1>2. ASSUME NEW w \in Work, NEW h, NEW decision, NEW at, Decide(w, h, decision, at)
      PROVE  NoPack(store, store')
  <2>1. PICK c : c = CaseNow(store, git, journal, w)
    OBVIOUS
  <2>2. PICK d : d = Candidate(c, h, decision, at, Len(store.decisions) + 1)
    OBVIOUS
  <2>3. PICK x : x = Decided(d, w)
    OBVIOUS
  <2>4. store' = [store EXCEPT !.decisions = Append(@, x)]
    BY <1>2, <2>1, <2>2, <2>3 DEF Decide, DecideCase, DecideOn, Write
  <2>5. store'.decisions = Append(store.decisions, x)
    BY <2>4 DEF Shaped
  <2>6. x.mode = "human"
    BY <2>2, <2>3 DEF Candidate, Decided
  <2>7. \A i \in DOMAIN store'.decisions \ DOMAIN store.decisions : store'.decisions[i] = x
    BY <2>5, Appended
  <2> QED
    BY <2>6, <2>7 DEF NoPack, ByPack
<1> QED
  BY <1>1, <1>2, SameDecisions DEF Judges

LEMMA HandsDecide ==
    ASSUME Shaped(store), Hand
    PROVE  store'.decisions = store.decisions
<1>1. ASSUME NEW w \in Work, EditContract(w)
      PROVE  store'.decisions = store.decisions
  BY <1>1 DEF EditContract, HandEdit, Shaped
<1>2. ASSUME NEW w \in Work, RaiseRisk(w)
      PROVE  store'.decisions = store.decisions
  BY <1>2 DEF RaiseRisk, HandEdit, Shaped
<1>3. ASSUME NEW w \in Work, NEW d, Depend(w, d)
      PROVE  store'.decisions = store.decisions
  BY <1>3 DEF Depend, HandEdit, Shaped
<1>4. ASSUME NEW w \in Work, NEW h, Leave(w, h)
      PROVE  store'.decisions = store.decisions
  BY <1>4 DEF Leave, HandEdit, Shaped
<1>5. ASSUME NEW w \in Work, NEW v, Retire(w, v)
      PROVE  store'.decisions = store.decisions
  BY <1>5 DEF Retire, HandEdit, Shaped
<1>6. Checkpoint => store' = store
  BY DEF Checkpoint
<1> QED
  BY <1>1, <1>2, <1>3, <1>4, <1>5, <1>6 DEF Hand

LEMMA PacksDecide ==
    ASSUME ShownInv, Packs
    PROVE  NoPack(store, store') \/ (Has(plan) /\ Standing(The(plan)))
<1>1. ASSUME NEW works, Ask(works)
      PROVE  UNCHANGED store
  BY <1>1 DEF Ask, vars
<1>2. ASSUME NEW w, NEW h, Approve(w, h)
      PROVE  UNCHANGED store
  BY <1>2 DEF Approve
<1>3. DecidePack => UNCHANGED store
  BY DEF DecidePack
<1>4. ASSUME WritePack
      PROVE  Has(plan) /\ Standing(The(plan))
  <2>1. PICK p : p = The(plan)
    OBVIOUS
  <2>2. /\ Has(plan) /\ p.kind = "pack" /\ store = p.seen /\ store' = p.new
        /\ Stands(p.offer)
    BY <1>4, <2>1 DEF WritePack, Write, PrewriteCurrent
  <2>3. Shown(p)
    BY <2>1, <2>2 DEF ShownInv
  <2> QED
    BY <2>1, <2>2, <2>3 DEF Shown, Standing
<1>5. UNCHANGED store => NoPack(store, store')
  BY SameDecisions
<1> QED
  BY <1>1, <1>2, <1>3, <1>4, <1>5 DEF Packs

LEMMA DeathDecides ==
    ASSUME Shaped(store), ShownInv, DieWriting
    PROVE  NoPack(store, store') \/ (Has(plan) /\ Standing(The(plan)))
<1>1. PICK p : p = The(plan)
  OBVIOUS
<1>2. UNCHANGED store => NoPack(store, store')
  BY SameDecisions
<1>3. CASE HasProofPlan /\ DieRecording(p, Reconciled(store, p))
  <2>1. PICK t : t = Reconciled(store, p)
    OBVIOUS
  <2>2. store' \in {store, t}
    BY <1>3, <2>1 DEF DieRecording, Interrupted
  <2>3. t.decisions = store.decisions
    BY <2>1, RecordedDecisions
  <2> QED
    BY <2>2, <2>3, SameDecisions
<1>4. CASE /\ Has(plan) /\ p.kind \in {"complete", "pack"} /\ store = p.seen
           /\ p.kind = "pack" => PrewriteCurrent(p)
           /\ Interrupted(p, p.new)
  <2>1. store' \in {store, p.new} /\ Shown(p)
    BY <1>1, <1>4 DEF Interrupted, ShownInv
  <2>2. CASE p.kind = "complete"
    BY <1>4, <2>1, <2>2, SameDecisions DEF Shown
  <2>3. CASE p.kind = "pack" /\ store' = p.new
    BY <1>1, <1>4, <2>1, <2>3 DEF Shown, Standing, PrewriteCurrent
  <2> QED
    BY <1>2, <1>4, <2>1, <2>2, <2>3
<1> QED
  BY <1>1, <1>3, <1>4 DEF DieWriting

LEMMA RepeatDecides ==
    ASSUME ShownInv, Repeat
    PROVE  NoPack(store, store') \/ (~Has(plan) /\ Standing(The(pending).request))
<1>1. PICK t : t = The(pending)
  OBVIOUS
<1>2. /\ plan = <<>> /\ Has(pending) /\ t.request.kind = "pack" /\ store = t.before
      /\ UNCHANGED store \/ (Stands(t.request.offer) /\ store' = t.after)
  BY <1>1 DEF Repeat, ResumeOrAbort, PrewriteCurrent
<1>3. Approving(t.request.offer, t.before, t.after)
  BY <1>1, <1>2 DEF ShownInv, OpenShown
<1>4. CASE UNCHANGED store
  BY <1>4, SameDecisions
<1>5. CASE Stands(t.request.offer) /\ store' = t.after
  BY <1>1, <1>2, <1>3, <1>5 DEF Standing, Has
<1> QED
  BY <1>2, <1>4, <1>5

(* The request a step writes for.                                          *)
Request == IF Has(plan) THEN The(plan) ELSE The(pending).request

LEMMA StepsDecide ==
    ASSUME GovernedInv, ShownInv, [InterruptedNext]_allVars
    PROVE  NoPack(store, store') \/ Standing(Request)
<1>1. Shaped(store) /\ IsList(store.decisions)
  BY ListedIs DEF GovernedInv, Sound
<1>2. UNCHANGED store => NoPack(store, store')
  BY SameDecisions
<1>3. CASE Undisturbed
  <2>1. Repository => NoPack(store, store')
    BY <1>2, RepositoryMoves
  <2>2. Agent => NoPack(store, store')
    BY <1>1, AgentDecides, SameDecisions
  <2>3. Judges => NoPack(store, store')
    BY <1>1, JudgesDecide
  <2>4. Hand => NoPack(store, store')
    BY <1>1, HandsDecide, SameDecisions
  <2>5. Packs => NoPack(store, store') \/ Standing(Request)
    BY PacksDecide DEF Request
  <2> QED
    BY <1>3, <2>1, <2>2, <2>3, <2>4, <2>5 DEF Undisturbed, PackNext, Next
<1>4. CASE DieWriting
  BY <1>1, <1>4, DeathDecides DEF Request
<1>5. CASE Repeat
  BY <1>5, RepeatDecides DEF Request
<1>6. CASE SupplyMarker \/ Recover \/ Recovered \/ UNCHANGED allVars
  BY <1>2, <1>6 DEF SupplyMarker, Recover, Recovered, allVars
<1> QED
  BY <1>3, <1>4, <1>5, <1>6 DEF InterruptedNext, RepeatPack, RepeatApproval

(* A member without errors rests on a proof that is seen.                  *)
LEMMA FaultlessMember ==
    ASSUME NEW s, NEW g, NEW j, NEW w, Member(s, g, j, w).errors = {}
    PROVE  ProofSeenNow(s, g, j, w)
<1>1. PICK c : c = CaseOf(s, g, j, w, TRUE, s.work[w].status)
  OBVIOUS
<1>2. PICK ctx : ctx = Context(s, w)
  OBVIOUS
<1>3. PICK u : u = Evaluate(c, ctx)
  OBVIOUS
<1>4. MemberErrors(s, w, Current(s, w), c, u) = {}
  BY <1>1, <1>2, <1>3 DEF Member, MemberOn, MemberFrom, CaseNow
<1>5. HumanDecisionReady(c, u)
  BY <1>4 DEF MemberErrors, When
<1>6. u.proven
  BY <1>5 DEF HumanDecisionReady
<1>7. c.journal \in Settled /\ ProofOf(c, ctx).outcome = "verified"
  BY <1>3, <1>6 DEF Evaluate, Proving, Reviewing, Counting, Accepting, Concluded, Verdict, ProofOf
<1>8. c.journal # "failed"
  BY <1>7 DEF Settled
<1>9. ProofOf(c, ctx).evidence = {}
  BY <1>7 DEF ProofOf, Proof, ProofFrom, EvidenceOutcome
<1>10. Observes(c)
  BY <1>8, <1>9, ProofObserves
<1> QED
  BY <1>1, <1>10, ObservesProof

(* What the offer says of a member, as long as it stands.                  *)
LEMMA StandingMember ==
    ASSUME NEW offered, Stands(offered), NEW w, w \in DOMAIN offered.pack.members,
           NEW m, m = offered.pack.members[w]
    PROVE  /\ m = Member(store, git, "current", w)
           /\ m.contract = Contract(store, w)
           /\ m.evidence = LatestEvidence(store, w)
           /\ m.review = Current(store, w).review
<1>1. offered.pack.members = [v \in DOMAIN offered.pack.members |-> Member(store, git, "current", v)]
  BY DEF Stands, InboxOffer, OfferOf, PackOf
<1>2. m = Member(store, git, "current", w)
  BY <1>1
<1>3. PICK k : k = Current(store, w)
  OBVIOUS
<1>4. PICK errors : m = MemberFrom(store, w, k, errors)
  BY <1>2, <1>3 DEF Member, MemberOn
<1>5. /\ m.contract = Contract(store, w) /\ m.evidence = LatestEvidence(store, w)
      /\ m.review = k.review
  BY <1>4 DEF MemberFrom
<1> QED
  BY <1>2, <1>3, <1>5

(* The proof a decision names is the latest evidence, and of this head.    *)
LEMMA NamedProof ==
    ASSUME NEW s, NEW g, Sound(s, g), NEW w \in Work, Has(Current(s, w).evidence),
           NEW d, d.work = w, NamesCurrent(s, d)
    PROVE  /\ LatestEvidence(s, w) = Current(s, w).evidence
           /\ d.evidence = The(Current(s, w).evidence).id
           /\ s.evidence[d.evidence] = The(Current(s, w).evidence)
<1>1. PICK k : k = Current(s, w).evidence
  OBVIOUS
<1>2. PICK latest : latest = LatestEvidence(s, w)
  OBVIOUS
<1>3. IsList(s.evidence) /\ Placed(s.evidence)
  BY ListedIs DEF Sound
<1>4. OneOf(k, s.evidence, w) /\ OneOf(latest, s.evidence, w)
  BY <1>1, <1>2, <1>3, SoundCurrent, OneOfLatest DEF LatestEvidence
<1>5. Has(k) /\ d.evidence = Named(k) /\ d.evidence = Named(latest)
  BY <1>1, <1>2 DEF NamesCurrent
<1>6. d.evidence = The(k).id /\ The(k).id \in DOMAIN s.evidence /\ s.evidence[The(k).id] = The(k)
  BY <1>4, <1>5 DEF OneOf, Named
<1>7. 0 \notin DOMAIN s.evidence
  BY <1>3, ListIs
<1>8. Has(latest) /\ The(latest).id = The(k).id
  BY <1>5, <1>6, <1>7 DEF Named
<1>9. The(latest) = The(k)
  BY <1>4, <1>6, <1>8 DEF OneOf
<1>10. latest = k
  BY <1>4, <1>5, <1>8, <1>9 DEF OneOf, Has
<1> QED
  BY <1>1, <1>2, <1>6, <1>10

LEMMA ApprovedHead ==
    ASSUME NEW s, NEW g, Valid(s, g), NEW i \in DOMAIN s.decisions, ByPack(s.decisions[i])
    PROVE  s.decisions[i].head = s.evidence[s.decisions[i].evidence].head
<1>1. PICK d : d = s.decisions[i]
  OBVIOUS
<1>2. ApprovalValid(s, d)
  BY <1>1 DEF Valid, ByPack, Approvals
<1>3. CASE d.review # 0
  BY <1>1, <1>2, <1>3 DEF ApprovalValid, FreshAccepting
<1>4. CASE d.review = 0
  BY <1>1, <1>2, <1>4 DEF ApprovalValid, FreshPassed
<1> QED
  BY <1>3, <1>4

(* What WrittenAsShown says of one decision d, for which m was shown.      *)
WroteShown(offered, d, m) ==
    /\ d.work \in DOMAIN offered.pack.members
    /\ m.contract = Contract(store, d.work)
    /\ d.evidence = The(m.evidence).id /\ d.head = The(m.evidence).head
    /\ d.review = (IF Has(m.review) THEN The(m.review).id ELSE 0)
    /\ m.review = Current(store, d.work).review
    /\ \A p \in DOMAIN The(m.evidence).hashes :
          The(m.evidence).hashes[p].digest = git.disk[p]

LEMMA StandingWrites ==
    ASSUME Sound(store, git), Valid(store', git),
           NEW offered, Stands(offered), Approving(offered, store, store'),
           NEW i \in DOMAIN store'.decisions \ DOMAIN store.decisions, ByPack(store'.decisions[i])
    PROVE  WroteShown(offered, store'.decisions[i], offered.pack.members[store'.decisions[i].work])
<1>1. PICK d : d = store'.decisions[i]
  OBVIOUS
<1>2. PICK w : w = d.work
  OBVIOUS
<1>3. PICK m : m = offered.pack.members[w]
  OBVIOUS
<1>4. OnOffer(offered, store, d) /\ store'.evidence = store.evidence
  BY <1>1 DEF Approving
<1>5. w \in Work /\ NamesCurrent(store, d) /\ w \in DOMAIN offered.pack.members /\ m.errors = {}
  BY <1>2, <1>3, <1>4 DEF OnOffer
<1>6. /\ m = Member(store, git, "current", w) /\ m.contract = Contract(store, w)
      /\ m.evidence = LatestEvidence(store, w) /\ m.review = Current(store, w).review
  BY <1>3, <1>5, StandingMember
<1>7. ProofSeenNow(store, git, "current", w)
  BY <1>5, <1>6, FaultlessMember
<1>8. PICK k : k = Current(store, w).evidence
  OBVIOUS
<1>9. Has(k) /\ EvidenceVerified(store, git, The(k))
  BY <1>7, <1>8 DEF ProofSeenNow
<1>10. m.evidence = k /\ d.evidence = The(k).id /\ store.evidence[d.evidence] = The(k)
  BY <1>2, <1>5, <1>6, <1>8, <1>9, NamedProof
<1>11. d.head = store'.evidence[d.evidence].head
  BY <1>1, ApprovedHead
<1>12. d.head = The(k).head
  BY <1>4, <1>10, <1>11
<1>13. d.review = (IF Has(m.review) THEN The(m.review).id ELSE 0)
  BY <1>2, <1>5, <1>6 DEF NamesCurrent, Named
<1>14. \A p \in DOMAIN The(k).hashes : The(k).hashes[p].digest = git.disk[p]
  BY <1>9 DEF EvidenceVerified, ArtifactHashes, HashOf
<1>15. WroteShown(offered, d, m)
  BY <1>2, <1>5, <1>6, <1>10, <1>12, <1>13, <1>14 DEF WroteShown
<1> QED
  BY <1>1, <1>2, <1>3, <1>15

LEMMA StandingWritten ==
    ASSUME Sound(store, git), Valid(store', git), NEW request, Standing(request)
    PROVE  WrittenAsShown(request)
<1>1. PICK o : o = request.offer
  OBVIOUS
<1>2. Stands(o) /\ Approving(o, store, store')
  BY <1>1 DEF Standing
<1>3. \A i \in DOMAIN store'.decisions \ DOMAIN store.decisions :
         ByPack(store'.decisions[i]) =>
            WroteShown(o, store'.decisions[i], o.pack.members[store'.decisions[i].work])
  BY <1>2, StandingWrites
<1> QED
  BY <1>1, <1>3 DEF WrittenAsShown, WroteShown, ByPack

LEMMA NoPackWritten ==
    ASSUME NEW request, NoPack(store, store')
    PROVE  WrittenAsShown(request)
  BY DEF WrittenAsShown, NoPack, ByPack

(* Whether its process wrote it, died over it or repeated it later, what a *)
(* pack writes is what its human was shown, of files that still are what   *)
(* they were (_assert_pack_prewrite_current).                              *)
THEOREM PacksWriteWhatWasShown == InterruptedSpec => PackWritesWhatWasShown
<1>1. InterruptedInit => ShownInv
  BY DEF InterruptedInit, PackInit, Init, ShownInv, OpenShown, Has
<1>2. GovernedInv /\ ShownInv /\ [InterruptedNext]_allVars => ShownInv'
  BY StepsShow
<1>3. ASSUME GovernedInv, ShownInv, [InterruptedNext]_allVars
      PROVE  WrittenAsShown(Request)
  <2>1. CASE NoPack(store, store')
    BY <2>1, NoPackWritten
  <2>2. CASE Standing(Request)
    <3>1. CASE Valid(store', git)
      BY <1>3, <2>2, <3>1, StandingWritten DEF GovernedInv
    <3>2. CASE UNCHANGED store
      BY <3>2, SameDecisions, NoPackWritten
    <3> QED
      BY <1>3, <3>1, <3>2, StepsWrite DEF Writable
  <2> QED
    BY <1>3, <2>1, <2>2, StepsDecide
<1>4. GovernedInv /\ ShownInv /\ [InterruptedNext]_allVars =>
         [WrittenAsShown(IF Has(plan) THEN The(plan) ELSE The(pending).request)]_allVars
  BY <1>3 DEF Request
<1> QED
  BY <1>1, <1>2, <1>4, AlwaysGoverned, PTL DEF InterruptedSpec, PackWritesWhatWasShown
=============================================================================
