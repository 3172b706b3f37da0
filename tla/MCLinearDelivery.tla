--------------------------- MODULE MCLinearDelivery ---------------------------
(* Small instances of the outbox and of the Linear adapter.                *)
EXTENDS LinearDelivery, TLC

CONSTANTS dora, omar, nina

(* dora may decide on the first work item, omar on adopted ones, nina on   *)
(* nothing.                                                                *)
MCCapability == dora :> {"deploy"} @@ omar :> {"product"} @@ nina :> {"release"}

(* A second plan is only of interest as a second push, before anything of  *)
(* Linear's is read.                                                       *)
MCRoom(s) ==
    \/ s.plans = <<>>
    \/ /\ s.proposals = <<>>
       /\ \A k \in DOMAIN s.plans : s.plans[k].payload.kind = "create_issue"

(* One of: two senders on one plan; two pushes of one work item; one plan, *)
(* one sender and what Linear sends to Palari.                             *)
Busy(process) == {p \in DOMAIN process : process[p].step # "idle"}

Inbound == ws.proposals # <<>> \/ logged # {} \/ Busy(reader) # {} \/ Busy(thread) # {}

Kinds == {ws.plans[k].payload.kind : k \in DOMAIN ws.plans}

DeliveryBound ==
    /\ Len(ws.plans) > 1 => ~Inbound /\ Kinds = {"create_issue"}
    /\ Len(ws.plans) > 1 \/ Inbound => Cardinality(Busy(sender)) <= 1
    /\ Inbound => /\ "preview" \notin Kinds /\ Len(calls) <= 1 /\ Cardinality(logged) <= 1
                  /\ Busy(reader) = {} \/ Busy(thread) = {}
                  /\ \A k \in DOMAIN ws.plans : ws.plans[k].status \notin {"rejected", "canceled"}
    /\ linear[1].at > 1 => ws.proposals # <<>>
    /\ Inbound /\ Len(linear) > 1 => linear[2].at = 1 /\ logged = {} /\ Busy(thread) = {}
    /\ (\E w \in DOMAIN ws.work : ws.work[w].status = "in-review") => "comment" \in Kinds

(* A sender whose workspace is no longer the present one is refused,       *)
(* whatever it loaded.                                                     *)
Loaded(c) ==
    IF c.step # "idle" /\ c.seen # ws THEN [c EXCEPT !.seen = <<"stale", c.item, c.step = "call">>] ELSE c

StaleView ==
    <<ws, linear, calls, [p \in Sender |-> Loaded(sender[p])], reader, thread, events, logged>>

Processes == Permutations(Sender)
=============================================================================
