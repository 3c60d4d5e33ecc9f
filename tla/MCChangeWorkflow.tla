-------------------------- MODULE MCChangeWorkflow --------------------------
(* Small instances of ChangeWorkflow.                                      *)
EXTENDS ChangeWorkflow, TLC

CONSTANTS p1, p2, h1, h2, d1, d2, t1

Trees ==
  {[head |-> h1, status |-> "clean", attached |-> TRUE],
   [head |-> h2, status |-> "outside", attached |-> TRUE]}

Ask(kind) == [kind |-> kind, id |-> d1, to |-> "active", of |-> t1,
              kinds |-> {t1}]

Moves == {[Ask("transition") EXCEPT !.to = to] :
            to \in {"review", "merged", "closed", "abandoned"}}

AllRequests ==
  Moves \cup {Ask(k) : k \in {"create", "refresh", "evidence", "review", "handoff"}}

Symmetry == Permutations(Process)

(* A Change Set in review at h1, as the calls create, evidence, review and *)
(* transition leave it: its evidence passed and its review is releasable,  *)
(* or it failed and the review says so.                                    *)
AtH1 == [head |-> h1, status |-> "clean", at |-> 0]

InReview ==
  /\ clock = 0
  /\ left = MaxCalls
  /\ git = [head |-> h1, status |-> "clean", attached |-> TRUE]
  /\ head = 8
  /\ binding = [state |-> "review", n |-> 3, latest |-> AtH1, updated |-> 0]
  /\ requested = {d1}
  /\ \E result \in {<<"passed", "ready">>, <<"failed", "incomplete">>} :
       /\ evidence = <<[id |-> d1, of |-> t1, head |-> h1, at |-> 0,
                        state |-> result[1]]>>
       /\ reviews = <<[id |-> d2, head |-> h1, outcome |-> result[2],
                       audited |-> AtH1, seen |-> 1, kinds |-> {t1}]>>
  /\ handoffs = <<>>
  /\ pc = [p \in Process |-> "idle"]
  /\ call = [p \in Process |-> None]

MCSpec == (Init \/ InReview) /\ [][Next]_vars
=============================================================================
