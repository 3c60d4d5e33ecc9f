----------------------------- MODULE MCAcpHost -----------------------------
(***************************************************************************)
(* Small instances of AcpHost.                                             *)
(***************************************************************************)
EXTENDS AcpHost, TLC

CONSTANTS c1, c2, h1, h2

MCCommands == {c1, c2}

MCHosts == {h1, h2}

(* For the runs that must visit every state, each command asks for some of *)
(* the operations; for one that looks for a violation, for all of them.    *)
MCAsked == c1 :> {"ensure", "stop"} @@ c2 :> {"ensure", "start", "cleanup"}

MCAskedAll == [c \in MCCommands |-> HostOp]

=============================================================================
