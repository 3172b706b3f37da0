-------------------------- MODULE WorkspaceHistory --------------------------
(***************************************************************************)
(* What workspace.json and its journal promise together: the workspace     *)
(* moves through a history of committed contents, one proposed content at  *)
(* a time, and a content is proposed, put in place and confirmed in this   *)
(* order, or withdrawn before it is put in place.  Contents that came from *)
(* outside enter the history only by being proposed as they are.           *)
(***************************************************************************)
CONSTANTS Data, NoData, NoProposal

VARIABLES
    file,        \* workspace.json
    committed,   \* the last committed content
    proposed     \* the content of the unfinished transaction

historyVars == <<file, committed, proposed>>

HistoryInit == file = NoData /\ committed = NoData /\ proposed = NoProposal

(* Work starts from the committed content, or records what it found.       *)
Propose(d) ==
    /\ proposed = NoProposal
    /\ file = committed \/ file = d
    /\ proposed' = d
    /\ UNCHANGED <<file, committed>>

PutInPlace ==
    /\ proposed # NoProposal
    /\ file' = proposed
    /\ UNCHANGED <<committed, proposed>>

Confirm ==
    /\ proposed # NoProposal
    /\ file = proposed
    /\ committed' = proposed
    /\ proposed' = NoProposal
    /\ UNCHANGED file

Withdraw ==
    /\ proposed # NoProposal
    /\ file = committed
    /\ proposed' = NoProposal
    /\ UNCHANGED <<file, committed>>

(* An edit by hand. *)
Disturb ==
    /\ file' \in Data \cup {NoData}
    /\ UNCHANGED <<committed, proposed>>

HistoryNext ==
    (\E d \in Data : Propose(d)) \/ PutInPlace \/ Confirm \/ Withdraw \/ Disturb

HistorySpec == HistoryInit /\ [][HistoryNext]_historyVars
=============================================================================
