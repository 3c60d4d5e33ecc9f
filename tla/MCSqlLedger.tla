----------------------------- MODULE MCSqlLedger -----------------------------
(* Two callers, two operation ids and two principals on one stream.  The   *)
(* callers are alike, and so are the operation ids.                        *)
EXTENDS SqlLedger

CONSTANTS d1

MCImported == <<d1>>

Alike == {f @@ g : f \in Permutations(Caller), g \in Permutations(OperationId)}
=============================================================================
