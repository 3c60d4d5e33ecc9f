----------------------------- MODULE MCBoundary ------------------------------
(***************************************************************************)
(* The two sides that talk to the outside, in one run: the control server  *)
(* (Control) and the observation of a forge (Forge).  They share nothing,  *)
(* so that a behaviour is one of either: the server works beside an        *)
(* observation that asks the forge for nothing.                            *)
(***************************************************************************)
EXTENDS MCControl, MCForge

BoundaryInit == Init /\ ForgeInit

Silent == result.is = "unsupported" /\ forge = <<>> /\ ~past.notFound /\ changes = 0

AtServer == Silent /\ UNCHANGED forgeVars

AtForge == Init /\ UNCHANGED vars

BoundaryNext ==
  \/ \E t \in Thread :
       \/ Begin(t) /\ AtServer
       \/ Acquire(t) /\ AtServer
       \/ LookUp(t) /\ AtServer
       \/ Recover(t) /\ AtServer
       \/ CheckNew(t) /\ AtServer
       \/ WriteDocument(t) /\ AtServer
       \/ Reserve(t) /\ AtServer
       \/ FinishClaim(t) /\ AtServer
       \/ Release(t) /\ AtServer
       \/ Refuse(t) /\ AtServer
       \/ Record(t) /\ AtServer
  \/ \E s \in Server : Crash(s) /\ AtServer
  \/ LocalWrite /\ AtServer
  \/ \E w \in Words(ask) : Create(w) /\ AtForge
  \/ \E i \in DOMAIN forge : Delete(i) /\ AtForge
  \/ \E i \in DOMAIN forge, w \in Words(ask) : Update(i, w) /\ AtForge
  \/ PageArrives /\ AtForge
  \/ NotFound /\ AtForge
  \/ Fail /\ AtForge

BoundarySpec == BoundaryInit /\ [][BoundaryNext]_<<vars, forgeVars>>

=============================================================================
