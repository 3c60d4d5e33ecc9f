------------------------------- MODULE MCForge -------------------------------
(* Every adapter and observation, with pages of one object.                *)
EXTENDS Forge

MCSample ==
  {"success", "SUCCESSFUL", "succeeded", "pending", "APPROVED", "approved",
   "participant", "inprogress", "removed", "new_file", "collapsed", "odd"}
=============================================================================
