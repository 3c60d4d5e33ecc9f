---------------------------- MODULE MCTaskGraph ----------------------------
(***************************************************************************)
(* A small instance of TaskGraph: two plans of one label, a frog import    *)
(* whose dependency closes a cycle with that of the larger plan, and a     *)
(* task created on its own with another intent.                            *)
(***************************************************************************)
EXTENDS TaskGraph, TLC

CONSTANTS p1, p2, t1, t2, i1, i2, why, other, l1, forth, back, part, twin

MakeTask(t, i) == [kind |-> "task", id |-> t, intent |-> i, state |-> "todo"]
Depend(t, u) == [kind |-> "dependency", task |-> t, on |-> u]
Conflict(t, u, r) == [kind |-> "conflict", ends |-> {t, u}, reason |-> r]

MCItemsOf ==
  (forth :> <<MakeTask(t1, i1), MakeTask(t2, i1), Depend(t1, t2)>>) @@
  (back :> <<MakeTask(t1, i1), MakeTask(t2, i1), Depend(t2, t1), Conflict(t1, t2, why)>>) @@
  (part :> <<MakeTask(t1, i1)>>) @@
  (twin :> <<MakeTask(t2, i2)>>)

Call1(op, doc) == [op |-> op, label |-> l1, doc |-> doc]

MCMoves ==
  {<<"todo", "in_progress">>, <<"in_progress", "done">>}

ProcessSymmetry == Permutations(Process)

MCRequests ==
  {Call1("plan", forth), Call1("plan", part), Call1("frog", back), Call1("direct", twin)}
=============================================================================
