------------------------- MODULE MCWorkspaceStore -------------------------
(* WorkspaceStore on small instances.                                      *)
EXTENDS WorkspaceStore, TLC

(* Contents and processes are compared only for equality. *)
Symmetry == Permutations(Data) \cup Permutations(Proc)

(* WorkspaceStore takes a content for an atom and a record's delta for the *)
(* content after it.  That is sound because a delta tells the contents it  *)
(* leads to apart; ValueDelta has the delta itself, and ValueDeltaProofs   *)
(* the proof.  Here it is evaluated on all documents over a few paths.     *)
Delta == INSTANCE ValueDelta WITH Key <- {"a", "b"}, Object <- <<>>

Documents ==
    {d \in UNION {[paths -> {<<>>, <<1>>, <<2>>}] :
                      paths \in SUBSET {<<>>, <<"a">>, <<"b">>, <<"a", "a">>, <<"a", "b">>}} :
        Delta!IsDocument(d)}

ReplayIsExact(before, after, delta) ==
    /\ Delta!Canonical(delta)
    /\ Delta!Applicable(before, delta)
    /\ Delta!ApplyValueDelta(before, delta) = after

ASSUME ReplayHolds ==
    \A before, after \in Documents :
        ReplayIsExact(before, after, Delta!ValueDelta(before, after))
=============================================================================
