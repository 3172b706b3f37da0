-------------------------- MODULE IntegrationOutbox --------------------------
(***************************************************************************)
(* Plans of external actions, the humans' decisions on them and the outbox *)
(* (integrations.py, and the rules validation.py has for them).  Every     *)
(* command loads the workspace, changes it and writes it if nobody wrote   *)
(* in between (NoLostUpdate of WorkspaceStore), so a command is one step   *)
(* here.  The workspace, as far as it matters, is a record                 *)
(*   work       sequence of [status, title, needs, ref, at, issue]: needs  *)
(*              is the approval capability it requires, ref the linked     *)
(*              Linear issue, at when that was last synced, issue the one  *)
(*              its own id is made from; 0 for none                        *)
(*   proposals  sequence of [issue, status, title, at, work]               *)
(*   actions    what the Linear integration allows, {} before there is one *)
(*   plans      sequence of [work, action, payload, status, by]            *)
(*   items      sequence of [plan, payload, status, by, ender]             *)
(* A title or a timestamp is the revision of the issue it was read from.   *)
(***************************************************************************)
EXTENDS Integers, Sequences, FiniteSets

CONSTANTS
    Human, Nobody,
    Admin,              \* the humans with admin authority
    Capability,         \* the approval capabilities of each human
    Owner, Risk,        \* of the integration
    MaxPlans,           \* bound on plans
    Room(_)             \* whether one more is of interest in a workspace

ASSUME OutboxAssumption ==
    /\ Admin \subseteq Human /\ Owner \in Human /\ Nobody \notin Human
    /\ Capability \in [Human -> SUBSET STRING]
    /\ MaxPlans \in Nat

VARIABLE ws

Actions == {"comment", "update_issue", "create_issue"}
Decisions == {"approved", "rejected", "canceled"}

(* human_can_decide_integration_plan.                                      *)
General ==
    IF Risk \in {"high", "critical"} THEN {"policy", "deploy", "security"}
    ELSE {"operations", "product", "policy", "merge", "deploy"}

CanDecide(h, needs) ==
    \/ h \in Admin
    \/ needs # "none" /\ needs \in Capability[h]
    \/ /\ needs = "none"
       /\ \/ h = Owner /\ Risk \in {"low", "standard"}
          \/ General \cap Capability[h] # {}

Needs(s, w) == s.work[w].needs

-----------------------------------------------------------------------------
(* What validation says of these records.                                  *)

PlanValid(s, p) ==
    /\ p.action \in s.actions
    /\ p.status \in Decisions => CanDecide(p.by, Needs(s, p.work))

ItemValid(s, i) ==
    LET p == s.plans[i.plan]
    IN  /\ p.status = "approved"
        /\ i.payload = p.payload
        /\ CanDecide(i.by, Needs(s, p.work))
        /\ i.status # "queued" => CanDecide(i.ender, Needs(s, p.work))

(* Mutant: a plan may be queued again.                                     *)
AnyItems(s) == TRUE

OneItemPerPlan(s) ==
    \A i, k \in DOMAIN s.items : s.items[i].plan = s.items[k].plan => i = k

(* An adopted proposal and its work item carry the same title.             *)
ProposalValid(s, p) == p.status = "adopted" => s.work[p.work].title = p.title

Valid(s) ==
    /\ \A k \in DOMAIN s.plans : PlanValid(s, s.plans[k])
    /\ \A k \in DOMAIN s.items : ItemValid(s, s.items[k])
    /\ OneItemPerPlan(s)
    /\ \A k \in DOMAIN s.proposals : ProposalValid(s, s.proposals[k])

(* write_store: what does not validate is not written.                     *)
Save(new) == Valid(new) /\ ws' = new

-----------------------------------------------------------------------------
(* The generic commands.                                                   *)

WithPlan(s, w, a, payload) ==
    [s EXCEPT !.plans = Append(@, [work |-> w, action |-> a, payload |-> payload,
                                   status |-> "pending-approval", by |-> Nobody])]

MorePlans == Len(ws.plans) < MaxPlans /\ Room(ws)

(* A generic preview names the work item and its status; Linear has no     *)
(* operation that sends it.                                                *)
Preview(s, w) == [kind |-> "preview", issue |-> 0, body |-> s.work[w].status]

PlanIntegration(w, a) ==
    /\ a \in ws.actions
    /\ Save(WithPlan(ws, w, a, Preview(ws, w)))

DecidePlan(k, h, decision) ==
    /\ ws.plans[k].status = "pending-approval"
    /\ CanDecide(h, Needs(ws, ws.plans[k].work))
    /\ Save([ws EXCEPT !.plans[k] = [@ EXCEPT !.status = decision, !.by = h]])

Queued(k) == \E i \in DOMAIN ws.items : ws.items[i].plan = k

(* A plan that was ever queued is never queued again, whatever became of   *)
(* its item.                                                               *)
EnqueuePlan(k, h) ==
    /\ ws.plans[k].status = "approved"
    /\ CanDecide(h, Needs(ws, ws.plans[k].work))
    /\ ~Queued(k)
    /\ Save([ws EXCEPT !.items =
                Append(@, [plan |-> k, payload |-> ws.plans[k].payload, status |-> "queued",
                           by |-> h, ender |-> Nobody])])

(* Mutant: a cancellation that does not look at the status.                *)
MayEnd(s, i) == TRUE

IsQueued(s, i) == s.items[i].status = "queued"

(* Mutant: the status of the plan instead of the item's.                   *)
EndedAsPlanned(s, i, status, h) ==
    [s EXCEPT !.items[i] = [@ EXCEPT !.status = s.plans[s.items[i].plan].status, !.ender = h]]

Ended(s, i, status, h) ==
    [s EXCEPT !.items[i] = [@ EXCEPT !.status = status, !.ender = h]]

CancelItem(i, h) ==
    /\ IsQueued(ws, i)
    /\ CanDecide(h, Needs(ws, ws.plans[ws.items[i].plan].work))
    /\ Save(Ended(ws, i, "canceled", h))

Governed ==
    \/ MorePlans /\ (\E w \in DOMAIN ws.work, a \in Actions : PlanIntegration(w, a))
    \/ \E h \in Human :
          \/ \E k \in DOMAIN ws.plans :
                EnqueuePlan(k, h) \/ \E d \in Decisions : DecidePlan(k, h, d)
          \/ \E i \in DOMAIN ws.items : CancelItem(i, h)
=============================================================================
