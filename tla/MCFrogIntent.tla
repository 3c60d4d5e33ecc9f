---------------------------- MODULE MCFrogIntent ----------------------------
(***************************************************************************)
(* A small instance of FrogIntent: one snapshot, in which task t is free   *)
(* because u is done, v is in progress and w must wait for it; x is the    *)
(* Change Set and the claim a caller may name.                             *)
(***************************************************************************)
EXTENDS FrogIntent, TLC

CONSTANTS p, q, d, t, u, v, w, x, alice, bob

MCStatus == [e \in {d} |-> [i \in {t, u, v, w} |->
               CASE i = u -> "done" [] i = v -> "in_progress" [] OTHER -> "open"]]
MCDependsOn == [e \in {d} |-> {<<t, u>>}]
MCConflicts == [e \in {d} |-> {<<v, w>>}]

Ask(i, change, claim, scopes, session) ==
  [op |-> "claim", task |-> <<d, i>>, change |-> change, claim |-> claim,
   scopes |-> scopes, session |-> session]

(* The same task with and without names, with other scopes; a second task  *)
(* into the same Change Set; one that is not eligible; and what happens to *)
(* the Change Set and the claim meanwhile.                                 *)
MCRequests ==
  {[op |-> "import", digest |-> d], [op |-> "bundle", digest |-> d],
   Ask(t, None, None, {"s"}, alice), Ask(t, x, x, {"s", "r"}, alice),
   Ask(v, x, None, {"r"}, bob), Ask(w, x, None, {"s"}, bob),
   [op |-> "amend", change |-> x, added |-> {"s"}],
   [op |-> "release", claim |-> x, session |-> alice]}

(* Requests do not name processes.                                         *)
Symmetric == Permutations(Caller)
=============================================================================
