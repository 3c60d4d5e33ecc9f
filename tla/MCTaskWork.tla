----------------------------- MODULE MCTaskWork -----------------------------
(* Small instances of TaskWork.                                            *)
EXTENDS TaskWork, TLC

CONSTANTS p1, p2, s1, s2, h1, h2

Symmetry == Permutations(Process) \cup Permutations(Commit)

(* A task under way as a claim call leaves it, its Change Set merged.      *)
Merged ==
  /\ clock = 0 /\ left = MaxCalls /\ others = MaxOthers
  /\ head = 8
  /\ task = [state |-> "in_progress", updated |-> 0, by |-> s1]
  /\ binding = [by |-> s1, at |-> 0, completed |-> TRUE]
  /\ changeset = [head |-> h1, merged |-> TRUE, updated |-> 0]
  /\ claim = Acquired(s1, 0)
  /\ review = [head |-> h1, releasable |-> TRUE, at |-> 0]
  /\ before = None
  /\ pc = [p \in Process |-> "idle"]
  /\ call = [p \in Process |-> None]

MCSpec == (Init \/ Merged) /\ [][Next]_vars
=============================================================================
