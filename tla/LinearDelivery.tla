---------------------------- MODULE LinearDelivery ----------------------------
(***************************************************************************)
(* The Linear adapter around the outbox (linear_adapter.py): plans of      *)
(* comments, status updates and new issues; the send, which calls Linear   *)
(* between loading and writing the workspace; import, sync and adoption;   *)
(* and the webhook receiver (linear_webhook.py), whose log of deliveries   *)
(* no lock protects.  Issue x of Linear has revisions: at counts all of    *)
(* its changes, title is the one that last changed its text.               *)
(***************************************************************************)
EXTENDS IntegrationOutbox

CONSTANTS
    Sender,         \* processes that run linear send
    Reader,         \* processes that run linear import and linear sync
    Thread,         \* handlers of the webhook server
    MaxIssues, MaxRevision, MaxCalls, MaxWork   \* bounds

ASSUME LinearAssumption ==
    MaxIssues \in Nat /\ MaxRevision \in Nat /\ MaxCalls \in Nat /\ MaxWork \in Nat

VARIABLES
    linear,     \* the issues of Linear, a sequence of [at, title]
    calls,      \* the writes Linear was asked for and carried out, a sequence
                \* of [item, payload, issue, outcome]
    sender,     \* the command of each sender
    reader,     \* the issue each reader fetched
    thread,     \* the delivery each handler works on
    events,     \* the deliveries Linear has sent out, each any number of times
    logged      \* the deliveries in the event log

feed == <<thread, events, logged>>
vars == <<ws, linear, calls, sender, reader, feed>>

Idle == [step |-> "idle"]

Issues == DOMAIN linear

(* The event of issue x as it is now; gone: it was removed or archived.    *)
Event(x, gone) == [issue |-> x, at |-> linear'[x].at, title |-> linear'[x].title, gone |-> gone]

Init ==
    /\ ws = [work |-> <<[status |-> "active", title |-> 0, needs |-> "deploy",
                         ref |-> 0, at |-> 0, issue |-> 0]>>,
             proposals |-> <<>>, actions |-> {}, plans |-> <<>>, items |-> <<>>]
    /\ linear = <<[at |-> 1, title |-> 1]>>
    /\ calls = <<>>
    /\ sender = [p \in Sender |-> Idle]
    /\ reader = [p \in Reader |-> Idle]
    /\ thread = [t \in Thread |-> Idle]
    /\ events = {} /\ logged = {}

-----------------------------------------------------------------------------
(* Linear and the rest of Palari.                                          *)

(* Somebody edits an issue's text, or archives it.                         *)
EditIssue(x, gone) ==
    /\ linear[x].at < MaxRevision
    /\ linear' = [linear EXCEPT ![x] = [at |-> @.at + 1, title |-> IF gone THEN @.title ELSE @.at + 1]]
    /\ events' = events \cup {Event(x, gone)}
    /\ UNCHANGED <<ws, calls, sender, reader, thread, logged>>

(* The work item goes on; what is rendered from its status changes.        *)
Progress(w) ==
    /\ ws.work[w].status = "active"
    /\ Save([ws EXCEPT !.work[w].status = "in-review"])
    /\ UNCHANGED <<linear, calls, sender, reader, feed>>

-----------------------------------------------------------------------------
(* Plans for Linear.                                                       *)

(* _ensure_linear_integration_record, and the upgrade all but a comment    *)
(* ask for.                                                                *)
WithActions(s, a) == [s EXCEPT !.actions = @ \cup IF a = "comment" THEN {"comment"} ELSE Actions]

Connect ==
    /\ Save([ws EXCEPT !.actions = Actions])
    /\ UNCHANGED <<linear, calls, sender, reader, feed>>

Rendered(s, w, a) ==
    [kind |-> a, issue |-> IF a = "create_issue" THEN 0 ELSE s.work[w].ref,
     body |-> IF a = "comment" THEN s.work[w].status ELSE "fixed"]

(* linear_post_gate for linked work, linear_push for work that is not.     *)
PlanForLinear(w, a) ==
    /\ (a = "create_issue") = (ws.work[w].ref = 0)
    /\ Save(WithPlan(WithActions(ws, a), w, a, Rendered(ws, w, a)))
    /\ UNCHANGED <<linear, calls, sender, reader, feed>>

-----------------------------------------------------------------------------
(* linear send.                                                            *)

WorkOf(s, i) == s.plans[s.items[i].plan].work

(* The comment is still about the issue the work is linked to; a generic   *)
(* preview has nothing Linear could be asked for.                          *)
PayloadFits(s, i) ==
    LET x == s.items[i].payload
    IN  /\ x.kind = s.plans[s.items[i].plan].action
        /\ x.kind = "comment" => x.issue = s.work[WorkOf(s, i)].ref

(* assert_transition_allowed and check_integration_outbox.                 *)
Sendable(s, i) ==
    LET p == s.plans[s.items[i].plan]
    IN  /\ p.status = "approved"
        /\ s.items[i].payload = p.payload
        /\ p.action \in s.actions
        /\ PayloadFits(s, i)

(* Mutant: the payload is rendered again from the work item.               *)
PayloadNow(s, i) == Rendered(ws, WorkOf(s, i), s.plans[s.items[i].plan].action)

PayloadSent(s, i) == s.items[i].payload

LoadItem(p, i, h) ==
    /\ sender[p].step = "idle"
    /\ CanDecide(h, Needs(ws, WorkOf(ws, i)))
    /\ IsQueued(ws, i)
    /\ sender' = [sender EXCEPT ![p] =
          [step |-> IF Sendable(ws, i) THEN "call" ELSE "answered",
           item |-> i, by |-> h, seen |-> ws, call |-> 0, ok |-> FALSE, issue |-> 0]]
    /\ UNCHANGED <<ws, linear, calls, reader, feed>>

(* Linear cannot be reached, or refuses.                                   *)
CallFails(p) ==
    /\ sender[p].step = "call"
    /\ sender' = [sender EXCEPT ![p].step = "answered"]
    /\ UNCHANGED <<ws, linear, calls, reader, feed>>

Touch(x) ==
    /\ x \in Issues /\ linear[x].at < MaxRevision
    /\ linear' = [linear EXCEPT ![x].at = @ + 1]
    /\ events' = events \cup {Event(x, FALSE)}

(* What a write does in Linear; issue is the one it answers with.          *)
CarryOut(payload, issue) ==
    \/ /\ payload.kind = "comment" /\ issue = payload.issue
       /\ UNCHANGED <<linear, events>>
    \/ /\ payload.kind = "update_issue" /\ issue = payload.issue
       /\ Touch(issue)
    \/ /\ payload.kind = "create_issue" /\ issue = Len(linear) + 1 /\ issue <= MaxIssues
       /\ linear' = Append(linear, [at |-> 1, title |-> 1])
       /\ UNCHANGED events

(* Linear carries the write out; the answer may get lost or be unreadable. *)
Call(p, answered) ==
    LET c == sender[p]
        payload == PayloadSent(c.seen, c.item)
    IN  /\ c.step = "call"
        /\ Len(calls) < MaxCalls
        /\ \E issue \in 1..MaxIssues :
              /\ CarryOut(payload, issue)
              /\ sender' = [sender EXCEPT ![p] = [c EXCEPT !.step = "answered", !.ok = answered,
                                                           !.call = Len(calls) + 1, !.issue = issue]]
              /\ calls' = Append(calls, [item |-> c.item, payload |-> payload, issue |-> issue,
                                         outcome |-> "open"])
        /\ UNCHANGED <<ws, reader, thread, logged>>

Linked(s, w, x) == [s EXCEPT !.work[w] = [@ EXCEPT !.ref = x, !.at = 1]]

(* The record of the outcome; a created issue is linked in the same write. *)
Outcome(s, c) ==
    IF ~c.ok THEN Ended(s, c.item, "failed", c.by)
    ELSE IF PayloadSent(s, c.item).kind = "create_issue"
         THEN Linked(Ended(s, c.item, "sent", c.by), WorkOf(s, c.item), c.issue)
         ELSE Ended(s, c.item, "sent", c.by)

(* Mutant: the outcome is written over whatever is there by now.           *)
NobodyElseWrote(c) == TRUE

Unchanged(c) == ws = c.seen

Closed(c, outcome) ==
    IF c.call = 0 THEN calls ELSE [calls EXCEPT ![c.call].outcome = outcome]

SettleItem(p) ==
    LET c == sender[p]
    IN  /\ c.step = "answered"
        /\ Unchanged(c)
        /\ Save(Outcome(ws, c))
        /\ calls' = Closed(c, IF c.ok THEN "recorded" ELSE "failed")
        /\ sender' = [sender EXCEPT ![p] = Idle]
        /\ UNCHANGED <<linear, reader, feed>>

(* The write is refused because the workspace changed, or the process dies *)
(* before it: the item stays queued, whatever Linear did.                  *)
Forget(p) ==
    LET c == sender[p]
    IN  /\ c.step # "idle"
        /\ calls' = Closed(c, "lost")
        /\ sender' = [sender EXCEPT ![p] = Idle]
        /\ UNCHANGED <<ws, linear, reader, feed>>

Sending ==
    \E p \in Sender :
       \/ \E i \in DOMAIN ws.items, h \in Human : LoadItem(p, i, h)
       \/ CallFails(p) \/ Call(p, TRUE) \/ Call(p, FALSE)
       \/ SettleItem(p) \/ Forget(p)

-----------------------------------------------------------------------------
(* Import, sync and adoption.  An issue is fetched first, and the workspace*)
(* is loaded, changed and written after that.                              *)

Fetch(p, x) ==
    /\ reader[p].step = "idle"
    /\ reader' = [reader EXCEPT ![p] = [step |-> "fetched", issue |-> x, at |-> linear[x].at,
                                        title |-> linear[x].title, gone |-> FALSE]]
    /\ UNCHANGED <<ws, linear, calls, sender, feed>>

DoneReading(p) ==
    /\ reader' = [reader EXCEPT ![p] = Idle]
    /\ UNCHANGED <<linear, calls, sender, feed>>

ProposalsFor(s, x) == {k \in DOMAIN s.proposals : s.proposals[k].issue = x}

FirstOf(S) == IF S = {} THEN 0 ELSE CHOOSE k \in S : \A l \in S : k <= l

(* Mutant: the work item is not looked up by its link.                     *)
AnyWork(s, x) == FirstOf(DOMAIN s.work)

(* _find_linear_record: by the id made from the issue, or by the link.     *)
WorkFor(s, x) == FirstOf({w \in DOMAIN s.work : x \in {s.work[w].issue, s.work[w].ref}})

Proposal(e) == [issue |-> e.issue, status |-> "proposed", title |-> e.title, at |-> e.at, work |-> 0]

(* The proposal: new, updated, or, when it is adopted, updated in its text *)
(* and its link only.                                                      *)
WithProposal(s, e) ==
    IF ProposalsFor(s, e.issue) = {} THEN [s EXCEPT !.proposals = Append(@, Proposal(e))]
    ELSE LET k == FirstOf(ProposalsFor(s, e.issue))
         IN  [s EXCEPT !.proposals[k] = [@ EXCEPT !.title = e.title, !.at = e.at]]

Adopted(s, x) == \E k \in ProposalsFor(s, x) : s.proposals[k].status = "adopted"

WithWork(s, e, w) ==
    IF w = 0 THEN s
    ELSE [s EXCEPT !.work[w] =
            [@ EXCEPT !.ref = e.issue, !.at = e.at,
                      !.title = IF Adopted(s, e.issue) THEN e.title ELSE s.work[w].title]]

Import(p) ==
    LET e == reader[p]
    IN  /\ e.step = "fetched"
        /\ Save(WithWork(WithProposal(ws, e), e, WorkFor(ws, e.issue)))
        /\ DoneReading(p)

(* _sync_issue_event, for linear sync and for the webhook: every linked    *)
(* record gets the link's fields, an open proposal the text as well.       *)
SyncedProposal(p, e) ==
    IF p.issue # e.issue THEN p
    ELSE [p EXCEPT !.at = e.at, !.title = IF p.status = "adopted" THEN @ ELSE e.title]

SyncedWork(w, e) == IF w.ref = e.issue THEN [w EXCEPT !.at = e.at] ELSE w

Synced(s, e) ==
    IF e.gone THEN s
    ELSE [s EXCEPT !.proposals = [k \in DOMAIN s.proposals |-> SyncedProposal(s.proposals[k], e)],
                   !.work = [w \in DOMAIN s.work |-> SyncedWork(s.work[w], e)]]

SyncIssue(p) ==
    /\ reader[p].step = "fetched"
    /\ Save(Synced(ws, reader[p]))
    /\ DoneReading(p)

(* adopt_proposal; linear start adopts only what no work is linked to and  *)
(* names the work after the issue.                                         *)
Adopt(k, own) ==
    LET p == ws.proposals[k]
        id == IF own THEN p.issue ELSE 0
    IN  /\ p.status = "proposed"
        /\ Len(ws.work) < MaxWork
        /\ own => \A w \in DOMAIN ws.work : ws.work[w].issue # id
        /\ Save([ws EXCEPT
                   !.work = Append(@, [status |-> "active", title |-> p.title, needs |-> "none",
                                       ref |-> p.issue, at |-> p.at, issue |-> id]),
                   !.proposals[k] = [@ EXCEPT !.status = "adopted", !.work = Len(ws.work) + 1]])
        /\ UNCHANGED <<linear, calls, sender, reader, feed>>

Reading ==
    \/ \E p \in Reader : Import(p) \/ SyncIssue(p) \/ \E x \in Issues : Fetch(p, x)
    \/ \E k \in DOMAIN ws.proposals : Adopt(k, TRUE) \/ Adopt(k, FALSE)

-----------------------------------------------------------------------------
(* The webhook: the log is read, the records are synced, the log is        *)
(* written.                                                                *)

Receive(t, e) ==
    /\ thread[t].step = "idle"
    /\ e \notin logged
    /\ thread' = [thread EXCEPT ![t] = [step |-> "sync", event |-> e]]
    /\ UNCHANGED <<ws, linear, calls, sender, reader, events, logged>>

SyncEvent(t) ==
    /\ thread[t].step = "sync"
    /\ Save(Synced(ws, thread[t].event))
    /\ thread' = [thread EXCEPT ![t].step = "log"]
    /\ UNCHANGED <<linear, calls, sender, reader, events, logged>>

LogEvent(t) ==
    /\ thread[t].step = "log"
    /\ logged' = logged \cup {thread[t].event}
    /\ thread' = [thread EXCEPT ![t] = Idle]
    /\ UNCHANGED <<ws, linear, calls, sender, reader, events>>

(* The sync is refused because another command wrote, or the server stops. *)
DropEvent(t) ==
    /\ thread[t].step # "idle"
    /\ thread' = [thread EXCEPT ![t] = Idle]
    /\ UNCHANGED <<ws, linear, calls, sender, reader, events, logged>>

Hearing ==
    \E t \in Thread : \/ SyncEvent(t) \/ LogEvent(t) \/ DropEvent(t)
                      \/ \E e \in events : Receive(t, e)

Next ==
    \/ Governed /\ UNCHANGED <<linear, calls, sender, reader, feed>>
    \/ Connect
    \/ \E w \in DOMAIN ws.work : Progress(w)
    \/ MorePlans /\ (\E w \in DOMAIN ws.work, a \in Actions : PlanForLinear(w, a))
    \/ \E x \in Issues, gone \in BOOLEAN : EditIssue(x, gone)
    \/ Sending \/ Reading \/ Hearing

Spec == Init /\ [][Next]_vars

-----------------------------------------------------------------------------
Payload == [kind : Actions \cup {"preview"}, issue : Nat, body : {"active", "in-review", "fixed"}]

WorkspaceTypes ==
    [work : Seq([status : {"active", "in-review"}, title : Nat, needs : {"none", "deploy"},
                 ref : Nat, at : Nat, issue : Nat]),
     proposals : Seq([issue : Nat, status : {"proposed", "adopted"}, title : Nat, at : Nat, work : Nat]),
     actions : SUBSET Actions,
     plans : Seq([work : Nat, action : Actions, payload : Payload,
                  status : {"pending-approval"} \cup Decisions, by : Human \cup {Nobody}]),
     items : Seq([plan : Nat, payload : Payload, status : {"queued", "sent", "failed", "canceled"},
                  by : Human, ender : Human \cup {Nobody}])]

(* The shape of the state, and that every reference between records leads  *)
(* somewhere (integrations.py, linear_adapter.py, linear_webhook.py).      *)
DeliveryTypeOK ==
    /\ ws \in WorkspaceTypes
    /\ \A k \in DOMAIN ws.plans : ws.plans[k].work \in DOMAIN ws.work
    /\ \A i \in DOMAIN ws.items : ws.items[i].plan \in DOMAIN ws.plans
    /\ linear \in Seq([at : Nat, title : Nat])
    /\ calls \in Seq([item : Nat, payload : Payload, issue : Nat,
                      outcome : {"open", "recorded", "failed", "lost"}])
    /\ \A p \in Sender : sender[p].step \in {"idle", "call", "answered"}
    /\ \A k \in DOMAIN calls : calls[k].item \in DOMAIN ws.items

(* Whatever Linear was asked for is word for word what a capable human     *)
(* approved, and the humans who queued it and recorded its end could have  *)
(* approved it too (linear_send, check_integration_outbox).                *)
CallsWereApproved ==
    \A c \in DOMAIN calls :
       LET i == ws.items[calls[c].item]
           plan == ws.plans[i.plan]
       IN  /\ plan.status = "approved" /\ calls[c].payload = plan.payload
           /\ \A h \in {plan.by, i.by} \cup ({i.ender} \ {Nobody}) : CanDecide(h, Needs(ws, plan.work))

(* A lost answer or a crash may repeat a call, but the outbox records one  *)
(* call of an item at most, and an item is sent exactly when one of its    *)
(* calls was recorded (linear_send, write_store).                          *)
OneCallIsRecorded ==
    \A i \in DOMAIN ws.items :
       LET recorded == {c \in DOMAIN calls : calls[c].item = i /\ calls[c].outcome = "recorded"}
       IN  Cardinality(recorded) = IF ws.items[i].status = "sent" THEN 1 ELSE 0

(* The issue a work item is linked to is the one Linear made in a recorded *)
(* call of a create item of that work, or its proposal was adopted as that *)
(* work (_link_work_to_created_issue, linear_import, adopt_proposal).      *)
LinksAreOwn ==
    \A w \in DOMAIN ws.work :
       LET x == ws.work[w].ref
       IN  x # 0 =>
             \/ \E k \in ProposalsFor(ws, x) : ws.proposals[k].work = w
             \/ \E c \in DOMAIN calls :
                   /\ calls[c].outcome = "recorded" /\ calls[c].payload.kind = "create_issue"
                   /\ calls[c].issue = x /\ WorkOf(ws, calls[c].item) = w

PhaseOf(r) ==
    LET items == {i \in DOMAIN ws.items : ws.items[i].plan = r}
        decided == [approved |-> "approved", rejected |-> "rejected", canceled |-> "withdrawn"]
    IN  IF r \notin DOMAIN ws.plans THEN "none"
        ELSE IF ws.plans[r].status = "pending-approval" THEN "asked"
        ELSE IF items = {} THEN decided[ws.plans[r].status]
        ELSE ws.items[CHOOSE i \in items : TRUE].status

SendersFor(r, called) ==
    {p \in Sender : /\ sender[p].step # "idle" /\ ws.items[sender[p].item].plan = r
                    /\ (sender[p].call # 0) = called}

(* The promise's variables: one value for each plan.                       *)
Phases == [r \in 1..MaxPlans |-> PhaseOf(r)]
Permits == [r \in 1..MaxPlans |-> Cardinality(SendersFor(r, FALSE))]
Unrecorded == [r \in 1..MaxPlans |-> Cardinality(SendersFor(r, TRUE))]
Writes == [r \in 1..MaxPlans |->
              Cardinality({c \in DOMAIN calls : ws.items[calls[c].item].plan = r})]

Promise ==
    INSTANCE ExternalWrites WITH
        Request <- 1..MaxPlans, phase <- Phases, permits <- Permits,
        pending <- Unrecorded, writes <- Writes

(* Plans, outbox and send keep the promise of ExternalWrites: nothing is   *)
(* written before approval and queue, what has ended stays as it ended, and*)
(* sent means written (integrations.py, linear_send).                      *)
ImplementsExternalWrites == Promise!PromiseSpec

(* docs/product/linear-operating-loop.md: "Duplicate delivery does not     *)
(* change workspace records."                                              *)
DuplicateChangesNothing ==
    [][\A t \in Thread :
          thread[t].step = "sync" /\ thread[t].event \in logged /\ thread'[t].step = "log"
          => ws' = ws]_vars
=============================================================================
