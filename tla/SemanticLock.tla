---------------------------- MODULE SemanticLock ----------------------------
(***************************************************************************)
(* The lease-based lock of domain/lock.py as pure operators: one lock      *)
(* protects one scope of one claim.  Instants are natural numbers.  The    *)
(* identity fields of the code's lock (agent, session, Change Set) are     *)
(* shared by every lock of a claim and are kept once, in the claim record  *)
(* of ClaimService; the event history has no effect on any decision and is *)
(* left out.                                                               *)
(***************************************************************************)
EXTENDS Naturals

CONSTANTS
  Scope,      \* canonical scopes (paths, contracts, schemas, ...)
  Overlap     \* the pairs of scopes that scopes_overlap() calls competing

ASSUME OverlapAssumption ==
  /\ Overlap \subseteq Scope \X Scope
  /\ \A s \in Scope : <<s, s>> \in Overlap
  /\ \A s, u \in Scope : <<s, u>> \in Overlap => <<u, s>> \in Overlap

Lock == [scope : Scope, expires : Nat, updated : Nat,
         state : {"active", "released"}]

(* Expiry is not stored by any operation of ClaimService: an active lock   *)
(* whose expiry instant has come is expired to whoever looks at it.        *)
StateAt(lock, at) ==
  IF lock.state = "active" /\ at >= lock.expires THEN "expired" ELSE lock.state

OwnsScopeAt(lock, at) == StateAt(lock, at) = "active"

(* The precondition shared by renew and release.                           *)
ActiveLease(lock, at) ==
  /\ lock.state = "active"
  /\ at >= lock.updated
  /\ at < lock.expires

AcquiredLock(scope, at, expires) ==
  [scope |-> scope, expires |-> expires, updated |-> at, state |-> "active"]

CanRenew(lock, at, expires) ==
  ActiveLease(lock, at) /\ expires > lock.expires

RenewedLock(lock, at, expires) ==
  [lock EXCEPT !.expires = expires, !.updated = at]

(* Mutant: the state of the lock is not looked at.                         *)
CanReacquireAny(lock, at) == at >= lock.expires /\ at >= lock.updated

CanReacquire(lock, at) ==
  /\ StateAt(lock, at) = "expired"
  /\ at >= lock.updated

ReacquiredLock(lock, at, expires) ==
  [lock EXCEPT !.expires = expires, !.updated = at, !.state = "active"]

ReleasedLock(lock, at) ==
  [lock EXCEPT !.state = "released", !.updated = at]

(* Two locks compete at an instant.  The code also exempts a lock from     *)
(* itself by id; callers only compare locks of different claims.           *)
ConflictsWith(lock, other, at) ==
  /\ OwnsScopeAt(lock, at)
  /\ OwnsScopeAt(other, at)
  /\ <<lock.scope, other.scope>> \in Overlap
=============================================================================
