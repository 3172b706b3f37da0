---------------------------- MODULE MCGovernedWork ----------------------------
(* Small instances of the life of work items, with approval packs.  In each *)
(* behaviour some work items are open and the others were abandoned before.*)
EXTENDS InterruptedWrites, TLC

CONSTANTS alice, bob, builder, risky, leader, follower, light, double

Output == <<"src", "result">>
Notes == <<"docs">>
MCPath == {Output, Notes}
MCFirstTree == [p \in Path |-> 1]
MCByte == [p \in Path |-> IF p = Output THEN {2, 3} ELSE {2}]

Modifies(risk, intensity, count, deps, path) ==
    [risk |-> risk, intensity |-> intensity, count |-> count, external |-> FALSE, deps |-> deps,
     intents |-> (path :> "modify"), palari |-> builder, rev |-> 0]

Contracts ==
    risky :> Modifies("R3", "standard", 1, {}, Output) @@
    light :> Modifies("R1", "light", 0, {}, Output) @@
    double :> Modifies("R2", "standard", 2, {}, Output) @@
    leader :> Modifies("R2", "standard", 1, {}, Output) @@
    follower :> Modifies("R2", "standard", 1, {}, Output)

Only(open) ==
    [w \in Work |-> [status |-> IF w \in open THEN "active" ELSE "abandoned", contract |-> Contracts[w]]]

(* One that needs a review and a human; one that needs its proof only; one *)
(* that needs two people; two in a pack, of which the follower may be made *)
(* to wait for the leader.                                                 *)
MCDrafts == {Only({risky}), Only({light}), Only({double}), Only({leader, follower})}
OnlyRisky == {Only({risky})}

MCMaxAttempts == [w \in Work |-> IF w \in {risky, light} THEN 2 ELSE 1]
MCMaxReviews == [w \in Work |-> IF w = risky THEN 2 ELSE 0]
MCMaxDecisions == [w \in Work |-> IF w = double THEN 2 ELSE IF w = light THEN 0 ELSE 1]
MCMaxEdits == [w \in Work |-> IF w \in {light, double, follower} THEN 1 ELSE 0]
MCEditKinds == [w \in Work |-> IF w = follower THEN {"depend"}
                               ELSE {"contract", "risk", "leave", "retire"}]
MCSelections == {{leader, follower}}
MCNoSelections == {}

(* The bounds of each behaviour: a second attempt at the risky work needs a*)
(* third content, the light work commits beside its output, one commit is  *)
(* enough for the others; the two works of the pack are worked on one after*)
(* the other, stay on their commit and are decided by packs.  Processes die*)
(* over the work, the risky one's before its first review, and over the    *)
(* pack once the follower depends on the leader; its files may then change.*)
Open(w) == store.work[w].status # "abandoned"

BehaviourBound ==
    /\ ~Open(light) => git.disk[Notes] = 1
    /\ ~(Open(risky) \/ Has(pending)) \/ Len(git.commits) = 1 => git.disk[Output] # 3
    /\ ~Open(risky) /\ ~Open(light) => Len(git.commits) <= 2
    /\ Open(follower) =>
          /\ git.head = Len(git.commits)
          /\ Has(claim[follower]) => ~Has(claim[leader])
          /\ \A w \in Work : Has(baseline[w]) => The(baseline[w]).commit = 1
          /\ \A i \in DOMAIN store.decisions : store.decisions[i].mode = "approval-pack"
    /\ Has(pending) => /\ Open(follower) => edits[follower] = 1
                       /\ Open(risky) => Len(git.commits) = 2 /\ store.reviews = <<>>

(* What is pinned to another workspace than the present one is refused,    *)
(* whatever else it says, and no command brings that workspace back.       *)
Pinned(x) == IF "seen" \in DOMAIN x /\ x.seen # store THEN <<"stale">> ELSE <<x>>

PinnedView ==
    <<store, git, journal, baseline, edits,
      [w \in Work |-> IF Has(claim[w]) THEN Pinned(The(claim[w])) ELSE <<>>],
      IF Has(plan) THEN Pinned(The(plan)) ELSE <<>>,
      IF Has(offer) /\ The(offer).seen = store THEN offer ELSE <<>>,
      pending>>

People == Permutations({alice, bob})
=============================================================================
