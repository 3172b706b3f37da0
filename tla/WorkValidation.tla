--------------------------- MODULE WorkValidation ---------------------------
(***************************************************************************)
(* The rules every write of the workspace is checked against              *)
(* (validate_workspace_contract), and the comparison with the workspace    *)
(* before it that keeps retired work as it was (store.write_store).        *)
(* Well-formedness of single fields (allowed values, ISO-8601 timestamps,  *)
(* hash prefixes) holds by the shapes of the records here.                 *)
(***************************************************************************)
EXTENDS WorkRecords

RetiredWork == {"superseded", "abandoned"}

IsRetired(s, w) == s.work[w].status \in RetiredWork
IsDone(s, w) == s.work[w].status \in TerminalWork
IsTerminal(s, w) == IsDone(s, w) \/ IsRetired(s, w)

-----------------------------------------------------------------------------
(* Reviews and decisions.                                                  *)

ReviewValid(s, r) ==
    /\ r.reviewer # s.attempts[r.binding.attempt].actor
    /\ ReviewIntact(s, r)

FreshPassed(s, e) == e.status = "passed" /\ e.head = s.attempts[e.attempt].head

FreshAccepting(r, e) == r.verdict = "accept-ready" /\ r.head = e.head

ContractNeedsReview(s, w) == ReviewRequired([contract |-> Contract(s, w), receipt |-> <<>>])

(* An approval claims authority now when it is its human's latest about the *)
(* work and its evidence is of the current attempt; otherwise it is history.*)
ClaimsAuthority(s, d) ==
    /\ \A x \in Of(s.decisions, d.work) \ {d} : x.human = d.human => Later(d, x)
    /\ s.work[d.work].current \in {0, s.evidence[d.evidence].attempt}

ApprovalValid(s, d) ==
    LET e == s.evidence[d.evidence]
        r == s.reviews[d.review]
    IN  /\ d.human \in Approver
        /\ d.evidence # 0 /\ e.work = d.work /\ FreshPassed(s, e)
        /\ IF d.review # 0
           THEN /\ r.work = d.work /\ FreshAccepting(r, e)
                /\ r.binding.evidence = d.evidence
                /\ r.binding.attempt = e.attempt
                /\ ClaimsAuthority(s, d) => r.binding.contract = Contract(s, d.work)
                /\ d.head = r.head
           ELSE /\ ~ContractNeedsReview(s, d.work)
                /\ d.head = s.attempts[e.attempt].head

(* Two decisions of a human about one head have an order.                  *)
DecisionOrder(s) ==
    \A i, k \in DOMAIN s.decisions :
       i # k => LET d == s.decisions[i]   x == s.decisions[k]
                IN  <<d.work, d.human, d.head, d.at>> # <<x.work, x.human, x.head, x.at>>

(* The latest record of every other trusted kind is never ambiguous.       *)
OneLatest(records) ==
    \A i, k \in DOMAIN records :
       i # k => <<records[i].work, records[i].at>> # <<records[k].work, records[k].at>>

AcceptanceValid(s, x) ==
    LET d == s.decisions[x.decision]
        e == s.evidence[x.evidence]
        r == s.reviews[x.review]
    IN  /\ x.human \in Approver
        /\ d.decision \in Approvals
        /\ <<d.work, d.human, d.head, d.evidence, d.review>>
             = <<x.work, x.human, x.head, x.evidence, x.review>>
        /\ e.work = x.work
        /\ s.work[x.work].current \in {0, e.attempt}
        /\ FreshPassed(s, e) /\ EvidenceStored(s, e)
        /\ IF x.review # 0
           THEN /\ r.work = x.work /\ FreshAccepting(r, e)
                /\ r.binding.evidence = x.evidence /\ r.binding.receipt = x.receipt
                /\ x.head = r.head
           ELSE /\ ~ContractNeedsReview(s, x.work)
                /\ x.head = s.attempts[e.attempt].head
                /\ x.receipt = e.receipt

-----------------------------------------------------------------------------
(* The stored projection, which looks at no file and no commit.  A coarse  *)
(* claimed status is read as the state the records derive, so that it never*)
(* contradicts them.                                                       *)

RecordedContext(s, g, w, k) ==
    [Context(s, w) EXCEPT !.projectionOnly = ProofHolds(s, g, w, k, FALSE), !.candidate = TRUE]

RecordedOn(s, g, w, status, k) ==
    Evaluate(CaseOn(s, g, "current", w, FALSE, status, k), RecordedContext(s, g, w, k))

Recorded(s, g, w, status) == RecordedOn(s, g, w, status, Current(s, w))

Settles(u) == u.derived = "completed" /\ u.errors = {}

DoneValid(s, g, w) ==
    /\ ProofCurrent(s, g, w, FALSE)
    /\ Settles(Recorded(s, g, w, s.work[w].status))

-----------------------------------------------------------------------------
(* Retirement.                                                             *)

(* The works a chain of next leads to from w.                              *)
Reach(next, w) ==
    LET step(S) == S \cup UNION {next[v] : v \in S}
        upTo[n \in 0..Cardinality(Work)] == IF n = 0 THEN next[w] ELSE step(upTo[n - 1])
    IN  upTo[Cardinality(Work)]

Successors(s, w) == Reach([v \in Work |-> s.work[v].successor], w)

RetirementGraph(s) ==
    /\ \A w \in Work : s.work[w].successor # {} => IsRetired(s, w)
    /\ \A w \in Work : w \notin Successors(s, w)
    /\ \A w \in Work : \A d \in Contract(s, w).deps : ~IsRetired(s, d)

(* _ensure_dependency_graph_has_no_cycles.                                 *)
DependencyGraph(s) ==
    LET deps == [v \in Work |-> Contract(s, v).deps]
    IN  \A w \in Work : w \notin Reach(deps, w)

RetiredValid(s, w) == \A a \in Of(s.attempts, w) : a.status # "active"

Valid(s, g) ==
    /\ \A i \in DOMAIN s.reviews : ReviewValid(s, s.reviews[i])
    /\ \A i \in DOMAIN s.decisions :
          s.decisions[i].decision \in Approvals => ApprovalValid(s, s.decisions[i])
    /\ DecisionOrder(s)
    /\ \A k \in Collections \ {"decisions"} : OneLatest(s[k])
    /\ \A i \in DOMAIN s.acceptances : AcceptanceValid(s, s.acceptances[i])
    /\ DependencyGraph(s) /\ RetirementGraph(s)
    /\ \A w \in Work : IsRetired(s, w) => RetiredValid(s, w)
    /\ \A w \in Work : IsDone(s, w) => DoneValid(s, g, w)

(* Mutant: only the status of retired work is kept.                        *)
RetiredStatusKept(old, new) == \A w \in Work : IsRetired(old, w) => IsRetired(new, w)

(* _assert_retired_work_immutable, from the workspace on the disk to the   *)
(* one to be written.                                                      *)
RetiredKept(old, new) ==
    \A w \in Work :
       /\ IsRetired(old, w) => new.work[w] = old.work[w]
       /\ IsRetired(new, w) /\ ~IsRetired(old, w) =>
             /\ ~IsDone(old, w)
             /\ [new.work[w] EXCEPT !.status = old.work[w].status,
                                    !.successor = old.work[w].successor] = old.work[w]
       /\ IsRetired(new, w) => \A k \in Collections : Of(new[k], w) = Of(old[k], w)

(* write_store refuses everything else.                                    *)
Writable(old, new, g) == RetiredKept(old, new) /\ Valid(new, g)
=============================================================================
