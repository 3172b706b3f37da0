-------------------------- MODULE MCAgentClaims --------------------------
(* Claims and parking on small instances.                                  *)
EXTENDS AgentParking, FiniteSets, TLC

(* Processes, worktrees, Palaris and commits are compared only for         *)
(* equality.                                                               *)
Symmetry ==
    Permutations(Proc) \cup Permutations(Worktree)
      \cup Permutations(Palari) \cup Permutations(Commit)

(* Other commands write only in the behaviours in which nothing crashes    *)
(* and every worktree stays on one commit.                                 *)
Starts == {head[w] : w \in Worktree} \cup {baseline[w] : w \in Worktree} \cup {witness.oldest}

OneDisturbance ==
    (\E w \in Worktree : ws[w].version > 0) =>
       faults = 0 /\ Cardinality(Starts \ {NoCommit}) = 1
=============================================================================
