--------------------------- MODULE MCClaimService ---------------------------
(***************************************************************************)
(* Small instances of ClaimService.  File scopes "src" and "src/a" compete *)
(* (a glob and a path under it), "doc" competes with neither.              *)
(***************************************************************************)
EXTENDS ClaimService, TLC

CONSTANTS p1, p2, alice, bob, c1, c2, x, y

MCProcess == {p1, p2}
MCSession == {alice, bob}
MCSessionOf == (p1 :> alice) @@ (p2 :> bob)

MCScope == {"src", "src/a", "doc"}
MCOverlap ==
  {<<s, s>> : s \in MCScope} \cup {<<"src", "src/a">>, <<"src/a", "src">>}
MCDeclared == (x :> {"src"}) @@ (y :> {"doc"})

Plain(kind, c, cs, span) ==
  [kind |-> kind, claim |-> c, cs |-> cs, span |-> span, added |-> {},
   bound |-> FALSE, to |-> "active"]

Widen(c, S) == [Plain("extend", c, x, 1) EXCEPT !.added = S]
Move(cs, state) == [Plain("transition", c1, cs, 1) EXCEPT !.to = state]

(* The same calls while a competing claim is widened, with its Change Set, *)
(* and lifecycle moves are recorded.                                       *)
WideningRequests ==
  {Plain("acquire", c1, x, 1), Plain("acquire", c2, y, 2),
   Plain("renew", c1, x, 2), Plain("reacquire", c1, x, 1),
   [Plain("reacquire", c1, x, 1) EXCEPT !.bound = TRUE],
   Widen(c2, {"src/a"}), Plain("release", c1, x, 1), Move(y, "review")}
=============================================================================
