-------------------------- MODULE ValueDeltaProofs --------------------------
(***************************************************************************)
(* What replay rests on: the delta that is recorded is canonical, applies  *)
(* to the content it was taken from and gives exactly the content that was *)
(* written, for all documents, of any depth and size.                      *)
(***************************************************************************)
EXTENDS ValueDelta, TLAPS, SequenceTheorems, WellFoundedInduction

-----------------------------------------------------------------------------
(* Prefixes of a path.                                                     *)

LEMMA CutFacts ==
    ASSUME NEW q \in Seq(Key), NEW n \in 0..Len(q)
    PROVE  /\ Cut(q, n) \in Seq(Key)
           /\ Len(Cut(q, n)) = n
           /\ \A i \in 1..n : Cut(q, n)[i] = q[i]
<1>1. n \in Int /\ \A i \in 1..n : q[i] \in Key
  BY ElementOfSeq, LenProperties
<1>2. n - 1 + 1 = n /\ (1 > n => n = 0)
  OBVIOUS
<1>3. /\ SubSeq(q, 1, n) \in Seq(Key)
      /\ Len(SubSeq(q, 1, n)) = IF 1 <= n THEN n - 1 + 1 ELSE 0
      /\ \A i \in 1..(n - 1 + 1) : SubSeq(q, 1, n)[i] = q[1 + i - 1]
  BY <1>1, SubSeqProperties
<1> QED
  BY <1>2, <1>3 DEF Cut

LEMMA CutOfCut ==
    ASSUME NEW q \in Seq(Key), NEW n \in 0..Len(q), NEW k \in 0..n
    PROVE  Cut(Cut(q, n), k) = Cut(q, k)
<1>1. Len(q) \in Nat /\ k \in 0..Len(q)
  BY LenProperties
<1>2. Cut(q, n) \in Seq(Key) /\ Len(Cut(q, n)) = n /\ \A i \in 1..n : Cut(q, n)[i] = q[i]
  BY CutFacts
<1>3. Cut(q, k) \in Seq(Key) /\ Len(Cut(q, k)) = k /\ \A i \in 1..k : Cut(q, k)[i] = q[i]
  BY <1>1, CutFacts
<1>4. /\ Cut(Cut(q, n), k) \in Seq(Key) /\ Len(Cut(Cut(q, n), k)) = k
      /\ \A i \in 1..k : Cut(Cut(q, n), k)[i] = Cut(q, n)[i]
  BY <1>2, CutFacts
<1>5. \A i \in 1..k : Cut(Cut(q, n), k)[i] = Cut(q, k)[i]
  BY <1>2, <1>3, <1>4
<1> QED
  BY <1>3, <1>4, <1>5, SeqEqual

LEMMA CutEnds ==
    ASSUME NEW q \in Seq(Key)
    PROVE  Cut(q, 0) = <<>> /\ Cut(q, Len(q)) = q
BY SubSeqFull, SubSeqEmpty DEF Cut

(* Going down a path that starts inside S and ends outside, there is a     *)
(* first step out of S.                                                    *)
LEMMA FirstStepOut ==
    ASSUME NEW q \in Seq(Key), NEW S, <<>> \in S, q \notin S
    PROVE  \E n \in 1..Len(q) : Cut(q, n) \notin S /\ Cut(q, n - 1) \in S
<1> DEFINE T == {n \in 0..Len(q) : Cut(q, n) \notin S}
           Less == {ss \in Nat \X Nat : ss[1] < ss[2]}
<1>1. Len(q) \in Nat /\ T \subseteq Nat /\ Len(q) \in T
  BY CutEnds, LenProperties
<1>2. PICK n \in T : \A k \in T : ~(<<k, n>> \in Less)
  <2>1. IsWellFoundedOn(Less, Nat)
    BY NatLessThanWellFounded DEF OpToRel
  <2> HIDE DEF T, Less
  <2> QED
    BY <1>1, <2>1, WFMin
<1>3. \A k \in T : ~(k < n)
  BY <1>1, <1>2
<1>4. n # 0
  BY CutEnds
<1>5. n - 1 \in 0..Len(q) /\ n \in 1..Len(q) /\ n - 1 < n
  BY <1>1, <1>4
<1>6. Cut(q, n - 1) \in S
  BY <1>3, <1>5
<1> QED
  BY <1>5, <1>6


-----------------------------------------------------------------------------
(* What is above a path of a document.                                     *)

LEMMA AboveIsObject ==
    ASSUME NEW d, IsDocument(d), NEW q \in DOMAIN d, NEW p, IsPrefix(p, q), p # q, Len(p) \in Nat
    PROVE  p \in DOMAIN d /\ d[p] = Object
<1>1. q \in Seq(Key) /\ Len(q) \in Nat
  BY LenProperties DEF IsDocument
<1>2. Len(p) \in 0..(Len(q) - 1)
  BY <1>1, CutEnds DEF IsPrefix
<1> QED
  BY <1>2 DEF IsDocument, IsPrefix

LEMMA Above ==
    ASSUME NEW d, IsDocument(d), NEW q \in DOMAIN d, NEW n \in 0..Len(q)
    PROVE  /\ Cut(q, n) \in DOMAIN d
           /\ n # Len(q) => d[Cut(q, n)] = Object
           /\ IsPrefix(Cut(q, n), q)
           /\ Cut(q, n) = q <=> n = Len(q)
<1>1. q \in Seq(Key) /\ Len(q) \in Nat
  BY LenProperties DEF IsDocument
<1>2. Len(Cut(q, n)) = n /\ Cut(q, Len(q)) = q
  BY <1>1, CutFacts, CutEnds
<1>3. n # Len(q) => n \in 0..(Len(q) - 1)
  BY <1>1
<1> QED
  BY <1>1, <1>2, <1>3 DEF IsDocument, IsPrefix

-----------------------------------------------------------------------------
(* Where the descent finds a difference.                                   *)

Changed(before, after) ==
    Added(before, after) \cup Added(after, before) \cup Replaced(before, after)

LEMMA ChangedSymmetric ==
    ASSUME NEW b, NEW a
    PROVE  Changed(a, b) = Changed(b, a) /\ Common(a, b) = Common(b, a)
BY DEF Changed, Replaced, Common

(* A changed path is not the root, it hangs from an object on both sides,  *)
(* and it is itself not one on both.                                       *)
LEMMA ChangedHangsFromCommon ==
    ASSUME NEW b, NEW a, IsDocument(b), IsDocument(a), NEW p \in Changed(b, a)
    PROVE  /\ p \in Seq(Key) /\ p # <<>> /\ Len(p) \in Nat \ {0}
           /\ Parent(p) \in Common(b, a)
           /\ p \notin Common(b, a)
<1>1. p \in DOMAIN b \/ p \in DOMAIN a
  BY DEF Changed, Added, Replaced
<1>2. p \in Seq(Key) /\ Len(p) \in Nat
  BY <1>1, LenProperties DEF IsDocument
<1>3. p \notin Common(b, a) /\ p # <<>>
  BY DEF Changed, Added, Replaced, Common, IsDocument
<1>4. Len(p) # 0
  BY <1>2, <1>3, CutEnds
<1>5. Len(p) - 1 \in 0..Len(p) /\ Len(p) - 1 # Len(p)
  BY <1>2, <1>4
<1>6. CASE p \in Replaced(b, a)
  BY <1>2, <1>3, <1>4, <1>5, <1>6, Above DEF Replaced, Parent, Common
<1>7. CASE p \in Added(b, a) \cup Added(a, b)
  BY <1>2, <1>3, <1>4, <1>7, ChangedSymmetric DEF Added
<1> QED
  BY <1>6, <1>7 DEF Changed

(* Above an object common to both there are only such objects.             *)
LEMMA AboveCommon ==
    ASSUME NEW b, NEW a, IsDocument(b), IsDocument(a), NEW q \in Common(b, a), NEW n \in 0..Len(q)
    PROVE  Cut(q, n) \in Common(b, a)
BY Above DEF Common

(* No change lies below another.                                           *)
LEMMA ChangesAreDisjoint ==
    ASSUME NEW b, NEW a, IsDocument(b), IsDocument(a),
           NEW p \in Changed(b, a), NEW q \in Changed(b, a), IsPrefix(p, q)
    PROVE  p = q
<1>1. SUFFICES ASSUME p # q PROVE FALSE
  OBVIOUS
<1>2. p \in Seq(Key) /\ p \notin Common(b, a) /\ Len(p) \in Nat
  BY ChangedHangsFromCommon
<1>3. q \in Seq(Key) /\ Parent(q) \in Common(b, a) /\ Len(q) \in Nat \ {0}
  BY ChangedHangsFromCommon
<1>4. Len(p) \in 0..(Len(q) - 1) /\ Len(q) - 1 \in 0..Len(q)
  BY <1>1, <1>2, <1>3, CutEnds DEF IsPrefix
<1>5. p = Cut(Parent(q), Len(p))
  BY <1>3, <1>4, CutOfCut DEF IsPrefix, Parent
<1>6. Len(Parent(q)) = Len(q) - 1
  BY <1>3, <1>4, CutFacts DEF Parent
<1> QED
  BY <1>2, <1>3, <1>4, <1>5, <1>6, AboveCommon

(* What no change lies above is the same on both sides.                    *)
LEMMA UnchangedIsKept ==
    ASSUME NEW b, NEW a, IsDocument(b), IsDocument(a),
           NEW q \in DOMAIN b, \A p \in Changed(b, a) : ~IsPrefix(p, q)
    PROVE  q \in DOMAIN a /\ a[q] = b[q]
<1>1. CASE q \in Common(b, a)
  BY <1>1 DEF Common
<1>2. CASE q \notin Common(b, a)
  <2>1. q \in Seq(Key) /\ <<>> \in Common(b, a)
    BY DEF IsDocument, Common
  <2>2. PICK n \in 1..Len(q) : Cut(q, n) \notin Common(b, a) /\ Cut(q, n - 1) \in Common(b, a)
    BY <1>2, <2>1, FirstStepOut
  <2> DEFINE p == Cut(q, n)
  <2>3. Len(q) \in Nat /\ n \in 0..Len(q) /\ n - 1 \in 0..n
    BY <2>1, LenProperties
  <2>4. /\ p \in DOMAIN b /\ IsPrefix(p, q)
        /\ p # q => b[p] = Object
        /\ p = q <=> n = Len(q)
    BY <2>3, Above
  <2>5. Len(p) = n /\ Parent(p) = Cut(q, n - 1)
    BY <2>1, <2>3, CutFacts, CutOfCut DEF Parent
  <2>6. p \notin Changed(b, a)
    BY <2>4
  <2>7. p \in DOMAIN a
    BY <2>2, <2>4, <2>5, <2>6, ChangedSymmetric DEF Changed, Added
  <2>8. a[p] = b[p]
    BY <2>4, <2>6, <2>7 DEF Changed, Replaced
  <2>9. p = q
    BY <2>2, <2>4, <2>7, <2>8 DEF Common
  <2> QED
    BY <2>7, <2>8, <2>9
<1> QED
  BY <1>1, <1>2

-----------------------------------------------------------------------------
(* The changes of a delta.                                                 *)

LEMMA ChangesOfDelta ==
    ASSUME NEW b, NEW a, IsDocument(b), IsDocument(a), NEW c \in ValueDelta(b, a)
    PROVE  /\ c.path \in Changed(b, a)
           /\ c.op = "add" <=> c.path \notin DOMAIN b
           /\ c.op = "remove" <=> c.path \notin DOMAIN a
           /\ c.op # "remove" => c = Change(c.op, c.path, Below(a, c.path))
           /\ c.op = "remove" => c = Change("remove", c.path, <<>>)
           /\ c.op \in {"add", "remove", "replace"}
<1>1. CASE \E p \in Added(b, a) : c = Change("add", p, Below(a, p))
  BY <1>1 DEF Change, Changed, Added
<1>2. CASE \E p \in Added(a, b) : c = Change("remove", p, <<>>)
  BY <1>2 DEF Change, Changed, Added
<1>3. CASE \E p \in Replaced(b, a) : c = Change("replace", p, Below(a, p))
  BY <1>3 DEF Change, Changed, Replaced
<1> QED
  BY <1>1, <1>2, <1>3 DEF ValueDelta

LEMMA EveryChangeIsInDelta ==
    ASSUME NEW b, NEW a, NEW p \in Changed(b, a)
    PROVE  \E c \in ValueDelta(b, a) : c.path = p
<1>1. \A op, v : Change(op, p, v).path = p
  BY DEF Change
<1> QED
  BY <1>1 DEF ValueDelta, Changed

(* The recorded delta passes the checks of _validate_value_delta: no       *)
(* change at the root, no path twice and none below another.               *)
THEOREM DeltaIsCanonical ==
    ASSUME NEW b, NEW a, IsDocument(b), IsDocument(a)
    PROVE  Canonical(ValueDelta(b, a))
<1>1. SUFFICES ASSUME NEW c \in ValueDelta(b, a)
               PROVE  /\ c.path # <<>>
                      /\ \A x \in ValueDelta(b, a) \ {c} : ~IsPrefix(c.path, x.path)
  BY DEF Canonical
<1>2. c.path \in Changed(b, a)
  BY ChangesOfDelta
<1>3. ASSUME NEW x \in ValueDelta(b, a), IsPrefix(c.path, x.path)
      PROVE  x = c
  <2>1. x.path \in Changed(b, a)
    BY ChangesOfDelta
  <2>2. c.path = x.path
    BY <1>2, <1>3, <2>1, ChangesAreDisjoint
  <2>3. c.op = x.op
    BY <2>2, ChangesOfDelta
  <2> QED
    BY <2>2, <2>3, ChangesOfDelta
<1> QED
  BY <1>2, <1>3, ChangedHangsFromCommon

(* It applies to the content it was taken from: every precondition that    *)
(* _apply_value_delta checks holds.                                        *)
THEOREM DeltaIsApplicable ==
    ASSUME NEW b, NEW a, IsDocument(b), IsDocument(a)
    PROVE  Applicable(b, ValueDelta(b, a))
<1>1. SUFFICES ASSUME NEW c \in ValueDelta(b, a)
               PROVE  /\ Parent(c.path) \in DOMAIN b /\ b[Parent(c.path)] = Object
                      /\ (c.path \in DOMAIN b) = (c.op # "add")
  BY DEF Applicable
<1>2. Parent(c.path) \in Common(b, a)
  BY ChangesOfDelta, ChangedHangsFromCommon
<1>3. c.op = "add" <=> c.path \notin DOMAIN b
  BY ChangesOfDelta
<1> QED
  BY <1>2, <1>3 DEF Common

LEMMA HitsAreChanges ==
    ASSUME NEW b, NEW a, IsDocument(b), IsDocument(a), NEW q
    PROVE  Hit(ValueDelta(b, a), q) = {} <=> \A p \in Changed(b, a) : ~IsPrefix(p, q)
<1>1. ASSUME NEW c \in Hit(ValueDelta(b, a), q)
      PROVE  \E p \in Changed(b, a) : IsPrefix(p, q)
  BY <1>1, ChangesOfDelta DEF Hit
<1>2. ASSUME NEW p \in Changed(b, a), IsPrefix(p, q)
      PROVE  Hit(ValueDelta(b, a), q) # {}
  BY <1>2, EveryChangeIsInDelta DEF Hit
<1> QED
  BY <1>1, <1>2

(* A path that a change writes is a path of the after content, with what   *)
(* is there.                                                               *)
LEMMA Brought ==
    ASSUME NEW b, NEW a, IsDocument(b), IsDocument(a),
           NEW c \in Brings(ValueDelta(b, a)), NEW q \in DOMAIN c.value
    PROVE  q \in DOMAIN a /\ c.value[q] = a[q]
<1>1. c \in ValueDelta(b, a) /\ c.op # "remove"
  BY DEF Brings
<1>2. c = Change(c.op, c.path, Below(a, c.path))
  BY <1>1, ChangesOfDelta
<1>3. c.value = Below(a, c.path)
  BY <1>2 DEF Change
<1> QED
  BY <1>3 DEF Below

(* The other direction: what changed and is in the after content is brought. *)
LEMMA ChangedIsBrought ==
    ASSUME NEW b, NEW a, IsDocument(b), IsDocument(a),
           NEW q \in DOMAIN a, Hit(ValueDelta(b, a), q) # {}
    PROVE  q \in New(ValueDelta(b, a))
<1>1. PICK c \in ValueDelta(b, a) : IsPrefix(c.path, q)
  BY DEF Hit
<1>2. q \in Seq(Key) /\ Len(q) \in Nat /\ c.path \in Seq(Key) /\ Len(c.path) \in Nat
  BY ChangesOfDelta, ChangedHangsFromCommon, LenProperties DEF IsDocument
<1>3. Len(c.path) \in 0..Len(q) /\ Cut(q, Len(c.path)) = c.path
  BY <1>1, <1>2 DEF IsPrefix
<1>4. c.path \in DOMAIN a
  BY <1>3, Above
<1>5. c.op # "remove"
  BY <1>4, ChangesOfDelta
<1>6. c.value = Below(a, c.path)
  <2>1. c = Change(c.op, c.path, Below(a, c.path))
    BY <1>5, ChangesOfDelta
  <2> QED
    BY <2>1 DEF Change
<1>7. q \in DOMAIN c.value /\ c \in Brings(ValueDelta(b, a))
  BY <1>1, <1>5, <1>6 DEF Below, Brings
<1> QED
  BY <1>7 DEF New

(* Replay gives back the content that was written: applied to the content  *)
(* before the transaction, the delta of the record is the content after    *)
(* it, for all documents.  The scan of the journal compares the digest of  *)
(* the replay with the digest of the workspace, so a delta that lost a     *)
(* change would leave a committed workspace that no command accepts.       *)
THEOREM ReplayRestoresAfter ==
    ASSUME NEW b, NEW a, IsDocument(b), IsDocument(a)
    PROVE  ApplyValueDelta(b, ValueDelta(b, a)) = a
<1> DEFINE delta == ValueDelta(b, a)
           kept == {q \in DOMAIN b : Hit(delta, q) = {}}
           replay == ApplyValueDelta(b, delta)
           brings(q) == CHOOSE c \in Brings(delta) : q \in DOMAIN c.value
<1>1. \A q \in kept : q \in DOMAIN a /\ a[q] = b[q]
  BY HitsAreChanges, UnchangedIsKept
<1>2. \A q \in New(delta) : q \in DOMAIN a /\ brings(q).value[q] = a[q]
  <2>1. TAKE q \in New(delta)
  <2>2. \E c \in Brings(delta) : q \in DOMAIN c.value
    BY DEF New
  <2>3. brings(q) \in Brings(delta) /\ q \in DOMAIN brings(q).value
    BY <2>2
  <2> QED
    BY <2>3, Brought
<1>3. \A q \in DOMAIN a : q \in kept \/ q \in New(delta)
  <2>1. TAKE q \in DOMAIN a
  <2>2. CASE Hit(delta, q) # {}
    BY <2>2, ChangedIsBrought
  <2>3. CASE Hit(delta, q) = {}
    <3>1. \A p \in Changed(a, b) : ~IsPrefix(p, q)
      BY <2>3, HitsAreChanges, ChangedSymmetric
    <3>2. q \in DOMAIN b
      BY <3>1, UnchangedIsKept
    <3> QED
      BY <2>3, <3>2
  <2> QED
    BY <2>2, <2>3
<1>4. replay = [q \in kept \cup New(delta) |-> IF q \in New(delta) THEN brings(q).value[q] ELSE b[q]]
  BY DEF ApplyValueDelta
<1>5. kept \cup New(delta) = DOMAIN a
  BY <1>1, <1>2, <1>3
<1>6. a = [q \in DOMAIN a |-> a[q]]
  BY DEF IsDocument
<1> HIDE DEF kept, delta, brings, replay
<1>7. \A q \in DOMAIN a : (IF q \in New(delta) THEN brings(q).value[q] ELSE b[q]) = a[q]
  BY <1>1, <1>2, <1>3
<1>8. replay = a
  BY <1>4, <1>5, <1>6, <1>7
<1> QED
  BY <1>8 DEF replay, delta

(* A record says that nothing changed exactly when nothing did, and two    *)
(* different contents never have the same delta from one before: the       *)
(* journal loses nothing of what it records.                               *)
THEOREM DeltaTellsContentsApart ==
    ASSUME NEW b, NEW a1, NEW a2, IsDocument(b), IsDocument(a1), IsDocument(a2)
    PROVE  /\ ValueDelta(b, a1) = ValueDelta(b, a2) <=> a1 = a2
           /\ ValueDelta(b, a1) = {} <=> a1 = b
<1>1. ValueDelta(b, a1) = ValueDelta(b, a2) <=> a1 = a2
  BY ReplayRestoresAfter
<1>2. ValueDelta(b, b) = {}
  BY DEF ValueDelta, Added, Replaced
<1>3. ApplyValueDelta(b, ValueDelta(b, b)) = b
  BY ReplayRestoresAfter
<1>4. ValueDelta(b, a1) = {} => a1 = b
  BY <1>2, <1>3, ReplayRestoresAfter
<1> QED
  BY <1>1, <1>2, <1>4

(* The scan replays a record, computes the delta again from the result and *)
(* rejects the journal if it is not the recorded one: it always is.        *)
THEOREM ScanAcceptsDelta ==
    ASSUME NEW b, NEW a, IsDocument(b), IsDocument(a)
    PROVE  ValueDelta(b, ApplyValueDelta(b, ValueDelta(b, a))) = ValueDelta(b, a)
BY ReplayRestoresAfter
=============================================================================
