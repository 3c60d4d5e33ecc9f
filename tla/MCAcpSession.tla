---------------------------- MODULE MCAcpSession ----------------------------
(***************************************************************************)
(* A small instance of AcpSession.                                         *)
(***************************************************************************)
EXTENDS AcpSession

CONSTANTS p1, p2

=============================================================================
