----------------------------- MODULE MCControl ------------------------------
(***************************************************************************)
(* Small instances of Control: one claim, one handoff, one review, and     *)
(* requests that compete for them.                                         *)
(***************************************************************************)
EXTENDS Control, TLC

CONSTANTS t1, t2, s1, c, h, v, ann, bob, x, y

MCServerOf == (t1 :> s1 @@ t2 :> s1)

Req(op, o, w, what) == [op |-> op, obj |-> o, who |-> w, what |-> what]

MCRequests ==
  {Req("claim_task", c, ann, x), Req("release_claim", c, ann, x),
   Req("create_handoff", h, ann, x), Req("create_handoff", h, bob, x),
   Req("record_review", v, ann, x), Req("record_review", v, ann, y)}

=============================================================================
