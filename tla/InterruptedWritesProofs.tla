------------------------ MODULE InterruptedWritesProofs ------------------------
(***************************************************************************)
(* What no command can do to the workspace, for every repository, every    *)
(* set of works, humans and contracts, and whatever the bounds: change     *)
(* retired work, or write past an open transaction.                        *)
(***************************************************************************)
EXTENDS InterruptedWrites, TLAPS

(* An open transaction blocks the journal, and the workspace is on one of  *)
(* its sides.                                                              *)
OnOneSide ==
    Has(pending) => /\ journal = "pending"
                    /\ store \in {The(pending).before, The(pending).after}

(* What a command, a person with an editor or the repository does to the   *)
(* workspace in one step.                                                  *)
Writes == journal = "current" /\ UNCHANGED journal /\ Writable(store, store', git)
ByHand == journal' = "behind" /\ Valid(store', git)
Moves == UNCHANGED store \/ Writes \/ ByHand

-----------------------------------------------------------------------------
LEMMA WriteMoves ==
    ASSUME NEW new, Write(new)
    PROVE  Writes
  BY DEF Write, Writes

LEMMA HandMoves ==
    ASSUME NEW w, NEW kind, NEW new, HandEdit(w, kind, new)
    PROVE  ByHand
  BY DEF HandEdit, ByHand

LEMMA RepositoryMoves == Repository => UNCHANGED store
  BY DEF Repository, Edit, Commit, Checkout

(* Of the agent's commands, the record of its proof and the completion     *)
(* write.                                                                  *)
LEMMA AgentMoves == Agent => Moves
  <1>1. ASSUME NEW w \in Work,
               Start(w) \/ Release(w) \/ Advance(w) \/ Refresh(w) \/ Resume(w) \/ Converge(w)
        PROVE  UNCHANGED store
    BY <1>1 DEF Start, Release, Advance, Refresh, Resume, Conclude, Converge
  <1>2. Record => Writes
    BY WriteMoves DEF Record, RecordPlanned
  <1>3. Complete => Writes
    BY WriteMoves DEF Complete
  <1>4. Finish \/ Abandon => UNCHANGED store
    BY DEF Finish, Conclude, Abandon
  <1> QED
    BY <1>1, <1>2, <1>3, <1>4 DEF Agent, Moves

LEMMA JudgesMove == Judges => Writes
  <1>1. ASSUME NEW w \in Work, NEW v, NEW verdict, Review(w, v, verdict)
        PROVE  Writes
    BY <1>1, WriteMoves DEF Review
  <1>2. ASSUME NEW w \in Work, NEW h, NEW decision, NEW at, Decide(w, h, decision, at)
        PROVE  Writes
    BY <1>2, WriteMoves DEF Decide, DecideCase, DecideOn
  <1> QED
    BY <1>1, <1>2 DEF Judges

LEMMA HandsMove == Hand => UNCHANGED store \/ ByHand
  <1>1. ASSUME NEW w \in Work, EditContract(w) \/ RaiseRisk(w)
        PROVE  ByHand
    BY <1>1, HandMoves DEF EditContract, RaiseRisk
  <1>2. ASSUME NEW w \in Work, NEW d, Depend(w, d)
        PROVE  ByHand
    BY <1>2, HandMoves DEF Depend
  <1>3. ASSUME NEW w \in Work, NEW h, Leave(w, h)
        PROVE  ByHand
    BY <1>3, HandMoves DEF Leave
  <1>4. ASSUME NEW w \in Work, NEW v, Retire(w, v)
        PROVE  ByHand
    BY <1>4, HandMoves DEF Retire
  <1>5. Checkpoint => UNCHANGED store
    BY DEF Checkpoint
  <1> QED
    BY <1>1, <1>2, <1>3, <1>4, <1>5 DEF Hand

LEMMA PacksMove == Packs => UNCHANGED store \/ Writes
  <1>1. ASSUME NEW works, Ask(works)
        PROVE  UNCHANGED store
    BY <1>1 DEF Ask, vars
  <1>2. ASSUME NEW w, NEW h, Approve(w, h)
        PROVE  UNCHANGED store
    BY <1>2 DEF Approve
  <1>3. DecidePack => UNCHANGED store
    BY DEF DecidePack
  <1>4. WritePack => Writes
    BY WriteMoves DEF WritePack
  <1> QED
    BY <1>1, <1>2, <1>3, <1>4 DEF Packs

(* As long as no process dies.                                             *)
LEMMA PackMoves == PackNext => Moves
  BY RepositoryMoves, AgentMoves, JudgesMove, HandsMove, PacksMove DEF PackNext, Next, Moves

(* Nothing but the transaction itself is written while it is open.         *)
LEMMA UndisturbedStays ==
    ASSUME OnOneSide, Undisturbed, Has(pending)
    PROVE  UNCHANGED <<store, journal, pending>>
  BY PackMoves DEF OnOneSide, Undisturbed, Moves, Writes, ByHand

(* A death leaves both sides on record.                                    *)
LEMMA InterruptedLeaves ==
    ASSUME NEW request, NEW new, Interrupted(request, new)
    PROVE  /\ journal = "current" /\ journal' = "pending"
           /\ Has(pending') /\ The(pending').before = store /\ The(pending').after = new
           /\ store' \in {store, new} /\ Writable(store, new, git)
  BY DEF Interrupted, Has, The

LEMMA DeathInterrupts ==
    ASSUME DieWriting
    PROVE  \E request, new : Interrupted(request, new)
  BY DEF DieWriting, DieRecording

(* What a repeated request does: the far side is written, or the near side *)
(* stays.                                                                  *)
LEMMA RepeatWrites ==
    ASSUME Repeat
    PROVE  /\ store = The(pending).before /\ pending' = <<>>
           /\ store' \in {store, The(pending).after} /\ Writable(store, The(pending).after, git)
  BY DEF Repeat, ResumeOrAbort, Terminated

LEMMA SideKept ==
    ASSUME OnOneSide, [InterruptedNext]_allVars
    PROVE  /\ OnOneSide'
           /\ Has(pending) => store' \in {The(pending).before, The(pending).after}
  <1>1. CASE Undisturbed
    <2>1. CASE Has(pending)
      BY <1>1, <2>1, UndisturbedStays DEF OnOneSide
    <2>2. CASE ~Has(pending)
      BY <1>1, <2>2 DEF OnOneSide, Undisturbed
    <2> QED
      BY <2>1, <2>2
  <1>2. CASE DieWriting
    <2>1. PICK request, new : Interrupted(request, new)
      BY <1>2, DeathInterrupts
    <2>2. ~Has(pending)
      BY <2>1, InterruptedLeaves DEF OnOneSide
    <2> QED
      BY <2>1, <2>2, InterruptedLeaves DEF OnOneSide
  <1>3. CASE SupplyMarker \/ Recovered
    BY <1>3 DEF SupplyMarker, Recovered, Terminated, OnOneSide, Has
  <1>4. CASE Repeat
    BY <1>4, RepeatWrites DEF OnOneSide, Has
  <1>5. CASE Recover \/ UNCHANGED allVars
    BY <1>5 DEF Recover, allVars, OnOneSide
  <1> QED
    BY <1>1, <1>2, <1>3, <1>4, <1>5 DEF InterruptedNext, RepeatPack, RepeatApproval

(* Every step leaves the workspace, writes what the rules allow after it,  *)
(* or is an edit that no command made, and then within the rules too.      *)
LEMMA StepsWrite ==
    ASSUME [InterruptedNext]_allVars
    PROVE  \/ UNCHANGED store
           \/ Writable(store, store', git)
           \/ journal' = "behind" /\ Valid(store', git)
  <1>1. CASE Undisturbed
    BY <1>1, PackMoves DEF Undisturbed, Moves, Writes, ByHand
  <1>2. CASE DieWriting
    <2>1. PICK request, new : Interrupted(request, new)
      BY <1>2, DeathInterrupts
    <2> QED
      BY <2>1, InterruptedLeaves
  <1>3. CASE Repeat
    BY <1>3, RepeatWrites
  <1>4. CASE SupplyMarker \/ Recover \/ Recovered \/ UNCHANGED allVars
    BY <1>4 DEF SupplyMarker, Recover, Recovered, allVars
  <1> QED
    BY <1>1, <1>2, <1>3, <1>4 DEF InterruptedNext, RepeatPack, RepeatApproval

(* Retired work stays retired, so the comparison covers its records too.   *)
LEMMA KeptIsFrozen ==
    ASSUME RetiredKept(store, store'), NEW w \in Work, IsRetired(store, w)
    PROVE  /\ store'.work[w] = store.work[w]
           /\ \A k \in Collections : Of(store'[k], w) = Of(store[k], w)
  <1>1. store'.work[w] = store.work[w]
    BY DEF RetiredKept
  <1>2. IsRetired(store', w)
    BY <1>1 DEF IsRetired
  <1> QED
    BY <1>1, <1>2 DEF RetiredKept

-----------------------------------------------------------------------------
(* While a transaction is open, only its own sides are ever written,       *)
(* whichever commands run and whoever takes it up (transact).              *)
THEOREM OpenTransactionIsAlone == InterruptedSpec => OnlyTheOpenWrites
  <1>1. InterruptedInit => OnOneSide
    BY DEF InterruptedInit, OnOneSide, Has
  <1>2. OnOneSide /\ [InterruptedNext]_allVars => OnOneSide'
    BY SideKept
  <1>3. OnOneSide /\ [InterruptedNext]_allVars
           => [Has(pending) => store' \in {The(pending).before, The(pending).after}]_allVars
    BY SideKept
  <1> QED
    BY <1>1, <1>2, <1>3, PTL DEF InterruptedSpec, OnlyTheOpenWrites

(* No command touches retired work, its attempts, proofs and judgements,   *)
(* neither with what it planned before nor with what it takes up after the *)
(* death of another (_assert_retired_work_immutable).                      *)
THEOREM RetiredWorkIsFrozen == InterruptedSpec => RetiredWorkFrozen
  <1>1. ASSUME [InterruptedNext]_allVars
        PROVE  [\A w \in Work :
                   IsRetired(store, w) /\ journal' # "behind" =>
                      /\ store'.work[w] = store.work[w]
                      /\ \A k \in Collections : Of(store'[k], w) = Of(store[k], w)]_packVars
    <2>1. CASE UNCHANGED store
      BY <2>1
    <2>2. CASE Writable(store, store', git)
      BY <2>2, KeptIsFrozen DEF Writable
    <2>3. CASE journal' = "behind"
      BY <2>3
    <2> QED
      BY <1>1, <2>1, <2>2, <2>3, StepsWrite
  <1> QED
    BY <1>1, PTL DEF InterruptedSpec, RetiredWorkFrozen
================================================================================
