---------------------------- MODULE ExternalWrites ----------------------------
(***************************************************************************)
(* What plans and the outbox promise about writes to another system: the   *)
(* approval comes first, then the queue, and a write is made only under a  *)
(* permit taken while its request was queued, one write for one permit.    *)
(* What has ended stays as it ended, and only a write ends as sent.  A     *)
(* permit that outlives its request may still be used, because the other   *)
(* system takes no part in the workspace's transactions.                   *)
(***************************************************************************)
EXTENDS Naturals

CONSTANTS Request

VARIABLES
    phase,      \* how far each request is
    permits,    \* the permits taken for it and not used
    pending,    \* the writes made for it whose outcome nobody has recorded
    writes      \* how often the other system was asked for it

promise == <<phase, permits, pending, writes>>

(* What may come next.                                                     *)
After(now) ==
    CASE now = "none" -> {"asked"}
      [] now = "asked" -> {"approved", "rejected", "withdrawn"}
      [] now = "approved" -> {"queued"}
      [] now = "queued" -> {"sent", "failed", "canceled"}
      [] OTHER -> {}

PromiseInit ==
    /\ phase = [r \in Request |-> "none"]
    /\ permits = [r \in Request |-> 0]
    /\ pending = [r \in Request |-> 0]
    /\ writes = [r \in Request |-> 0]

Less(count, r) == count[r] > 0 /\ count' = [count EXCEPT ![r] = @ - 1]

UsePermit(r) == Less(permits, r) /\ UNCHANGED pending
UsePending(r) == Less(pending, r) /\ UNCHANGED permits

(* One request goes one phase on.                                          *)
Advance(r) ==
    \E to \in After(phase[r]) :
        /\ phase' = [phase EXCEPT ![r] = to]
        /\ UNCHANGED writes
        /\ \/ to = "sent" /\ UsePending(r)
           \/ to = "failed" /\ (UsePermit(r) \/ UsePending(r))
           \/ to \notin {"sent", "failed"} /\ UNCHANGED <<permits, pending>>

TakePermit(r) ==
    /\ phase[r] = "queued"
    /\ permits' = [permits EXCEPT ![r] = @ + 1]
    /\ UNCHANGED <<phase, pending, writes>>

WriteOut(r) ==
    /\ Less(permits, r)
    /\ pending' = [pending EXCEPT ![r] = @ + 1]
    /\ writes' = [writes EXCEPT ![r] = @ + 1]
    /\ UNCHANGED phase

(* The sender ends without recording anything.                             *)
Forget(r) == (UsePermit(r) \/ UsePending(r)) /\ UNCHANGED <<phase, writes>>

PromiseNext == \E r \in Request : Advance(r) \/ TakePermit(r) \/ WriteOut(r) \/ Forget(r)

PromiseSpec == PromiseInit /\ [][PromiseNext]_promise
=============================================================================
