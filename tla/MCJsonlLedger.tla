--------------------------- MODULE MCJsonlLedger ---------------------------
(***************************************************************************)
(* A small instance of JsonlLedger.  Membership of a token in the infinite *)
(* set Record is decided by TLC from its definition.                       *)
(***************************************************************************)
EXTENDS JsonlLedger, TLC

CONSTANTS p1, p2, a, b

MCProcess == {p1, p2}
MCBody == {a, b}

=============================================================================
