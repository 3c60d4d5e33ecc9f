-------------------------- MODULE MCRuntimeWorkers --------------------------
(***************************************************************************)
(* A small instance of RuntimeWorkers: provider n has the configuration    *)
(* a1, provider m has b1.                                                  *)
(***************************************************************************)
EXTENDS RuntimeWorkers

CONSTANTS c1, c2, a1, b1, n, m

MCNames == (a1 :> n @@ b1 :> m)
=============================================================================
