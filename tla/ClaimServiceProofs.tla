------------------------- MODULE ClaimServiceProofs -------------------------
(***************************************************************************)
(* Theorems about ClaimService for any number of processes, claims, Change *)
(* Sets and scopes, any overlap relation and any bounds.                   *)
(*                                                                         *)
(* The heart of the argument is Justified: a record waiting to be appended *)
(* at the head it was computed from is still the record its checks allow.  *)
(* A step that changes a claim lengthens the ledger, so it takes away the  *)
(* premise for every other call instead of breaking the conclusion.        *)
(***************************************************************************)
EXTENDS ClaimService, TLAPS

(* The checks of the loop body hold now, and the draft is what they allow. *)
Justified(p) ==
  \/ /\ call[p].req.kind = "acquire" /\ AcquireAllowed(p)
     /\ call[p].draft = AcquiredClaim(p)
  \/ /\ call[p].req.kind = "renew" /\ RenewAllowed(p)
     /\ call[p].draft = RenewedClaim(p)
  \/ /\ call[p].req.kind = "reacquire" /\ ReacquireAllowed(p)
     /\ call[p].draft = ReacquiredClaim(p)
  \/ /\ call[p].req.kind = "extend" /\ ExtendAllowed(p)
     /\ call[p].draft = ExtendedClaim(p)
  \/ /\ call[p].req.kind = "release" /\ ReleaseAllowed(p)
     /\ call[p].draft = ReleasedClaim(p)

DraftOK(p) == call[p].draft \in Claim /\ Uniform(call[p].draft)

CallOK(p) ==
  /\ call[p].at <= clock
  /\ call[p].began + call[p].tries <= head
  /\ pc[p] = "append" =>
       /\ DraftOK(p)
       /\ call[p].seen <= head
       /\ call[p].began + call[p].tries <= call[p].seen
       /\ HeadUnmoved(p) => Justified(p)
  /\ pc[p] \in {"wsread", "wsappend"} /\ call[p].req.kind = "extend" => DraftOK(p)

IInv ==
  /\ TypeOK
  /\ UniformLocks
  /\ \A p \in Process : pc[p] # "idle" => CallOK(p)
-----------------------------------------------------------------------------
(* Locks.                                                                  *)

LEMMA OwnedEarlier ==
  ASSUME NEW lock \in Lock, NEW at \in Nat, NEW later \in Nat, at <= later,
         OwnsScopeAt(lock, later)
  PROVE  OwnsScopeAt(lock, at)
BY DEF OwnsScopeAt, StateAt, Lock

LEMMA ConflictEarlier ==
  ASSUME NEW lock \in Lock, NEW other \in Lock, NEW at \in Nat,
         NEW later \in Nat, at <= later, ConflictsWith(lock, other, later)
  PROVE  ConflictsWith(lock, other, at)
BY OwnedEarlier DEF ConflictsWith

LEMMA ConflictSymmetric ==
  ASSUME NEW lock \in Lock, NEW other \in Lock, NEW at,
         ConflictsWith(lock, other, at)
  PROVE  ConflictsWith(other, lock, at)
BY OverlapAssumption DEF ConflictsWith, Lock

LEMMA LastExpiryUniform ==
  ASSUME NEW k \in Claim, Uniform(k), NEW lock \in k.locks
  PROVE  LastExpiry(k) = lock.expires
<1>. DEFINE Ends == {l.expires : l \in k.locks}
<1>1. \A l \in k.locks : l.expires = lock.expires /\ l.expires \in Nat
  BY DEF Uniform, Claim, Lock
<1>2. lock.expires \in Ends /\ \A l \in k.locks : l.expires <= lock.expires
  BY <1>1
<1>3. LastExpiry(k) \in Ends
  BY <1>2 DEF LastExpiry
<1>. QED BY <1>1, <1>3

LEMMA FirstLockIn ==
  ASSUME NEW k \in Claim
  PROVE  FirstLock(k) \in k.locks /\ FirstLock(k) \in Lock
BY DEF FirstLock, Claim
-----------------------------------------------------------------------------
(* What the loop body proposes is a well formed claim.                     *)

LEMMA AcquiredOK ==
  ASSUME TypeOK, NEW p \in Process, pc[p] # "idle", AcquireAllowed(p)
  PROVE  AcquiredClaim(p) \in Claim /\ Uniform(AcquiredClaim(p))
<1>1. call[p] \in Call /\ SessionOf[p] \in Session
  BY ConstantsAssumption DEF TypeOK
<1>2. AcquiredLocks(p) \in (SUBSET Lock) \ {{}}
  <2>1. call[p].at \in Nat /\ call[p].req.span \in Nat
        /\ call[p].wanted \subseteq Scope
    BY <1>1 DEF Call, Request
  <2>2. \A s \in call[p].wanted :
          AcquiredLock(s, call[p].at, call[p].at + call[p].req.span) \in Lock
    BY <2>1 DEF AcquiredLock, Lock
  <2>3. call[p].wanted # {}
    BY DEF AcquireAllowed
  <2>. QED BY <2>2, <2>3 DEF AcquiredLocks
<1>3. AcquiredClaim(p) \in Claim
  BY <1>1, <1>2 DEF AcquiredClaim, Claim, Call, Request
<1>4. Uniform(AcquiredClaim(p))
  BY DEF AcquiredClaim, AcquiredLocks, AcquiredLock, Uniform
<1>. QED BY <1>3, <1>4

LEMMA TargetOK ==
  ASSUME TypeOK, UniformLocks, NEW p \in Process, pc[p] # "idle", Owned(p)
  PROVE  Target(p) \in Claim /\ Uniform(Target(p)) /\ call[p] \in Call
BY DEF TypeOK, UniformLocks, Owned, Target, Call, Request

LEMMA WithLocksOK ==
  ASSUME NEW k \in Claim, NEW L \in (SUBSET Lock) \ {{}}
  PROVE  /\ WithLocks(k, L) \in Claim
         /\ WithLocks(k, L).locks = L
         /\ WithLocks(k, L).cs = k.cs /\ WithLocks(k, L).session = k.session
BY DEF WithLocks, Claim

LEMMA RenewedOK ==
  ASSUME TypeOK, UniformLocks, NEW p \in Process, pc[p] # "idle", RenewAllowed(p)
  PROVE  RenewedClaim(p) \in Claim /\ Uniform(RenewedClaim(p))
<1>1. Target(p) \in Claim /\ Uniform(Target(p)) /\ call[p] \in Call
  BY TargetOK DEF RenewAllowed
<1>2. PICK lock \in Target(p).locks : TRUE
  BY <1>1 DEF Claim
<1>3. RenewalExpiry(p) \in Nat /\ call[p].at \in Nat
  BY <1>1, <1>2, LastExpiryUniform DEF RenewalExpiry, Claim, Lock, Call, Request
<1>. DEFINE L == {RenewedLock(l, call[p].at, RenewalExpiry(p)) : l \in Target(p).locks}
<1>4. L \in (SUBSET Lock) \ {{}}
  <2>1. \A l \in Target(p).locks :
          RenewedLock(l, call[p].at, RenewalExpiry(p)) \in Lock
    BY <1>1, <1>3 DEF RenewedLock, Lock, Claim
  <2>. QED BY <1>2, <2>1
<1>5. Uniform(WithLocks(Target(p), L))
  <2>1. \A l \in L : \E m \in Target(p).locks :
          l = RenewedLock(m, call[p].at, RenewalExpiry(p))
    OBVIOUS
  <2>2. \A m \in Target(p).locks :
          LET l == RenewedLock(m, call[p].at, RenewalExpiry(p)) IN
            /\ l.expires = RenewalExpiry(p) /\ l.state = m.state
            /\ l.scope = m.scope
    BY <1>1 DEF RenewedLock, Lock, Claim
  <2>3. WithLocks(Target(p), L).locks = L
    BY <1>1, <1>4, WithLocksOK
  <2>. HIDE DEF L
  <2>. QED BY <1>1, <2>1, <2>2, <2>3 DEF Uniform
<1>. QED BY <1>1, <1>4, <1>5, WithLocksOK DEF RenewedClaim

LEMMA ReacquiredOK ==
  ASSUME TypeOK, UniformLocks, NEW p \in Process, pc[p] # "idle",
         ReacquireAllowed(p)
  PROVE  /\ ReacquiredLocks(p) \in (SUBSET Lock) \ {{}}
         /\ ReacquiredClaim(p) \in Claim /\ Uniform(ReacquiredClaim(p))
<1>1. Target(p) \in Claim /\ Uniform(Target(p)) /\ call[p] \in Call
  BY TargetOK DEF ReacquireAllowed
<1>. DEFINE end == call[p].at + call[p].req.span
            L == ReacquiredLocks(p)
<1>2. end \in Nat /\ call[p].at \in Nat
  BY <1>1 DEF Call, Request
<1>3. \A m \in Target(p).locks :
        /\ ReacquiredLock(m, call[p].at, end) \in Lock
        /\ ReacquiredLock(m, call[p].at, end).expires = end
        /\ ReacquiredLock(m, call[p].at, end).state = "active"
        /\ ReacquiredLock(m, call[p].at, end).scope = m.scope
  BY <1>1, <1>2 DEF ReacquiredLock, Lock, Claim
<1>4. L \in (SUBSET Lock) \ {{}}
  BY <1>1, <1>3 DEF ReacquiredLocks, Claim
<1>5. Uniform(WithLocks(Target(p), L))
  <2>1. \A l \in L : \E m \in Target(p).locks : l = ReacquiredLock(m, call[p].at, end)
    BY DEF ReacquiredLocks
  <2>2. WithLocks(Target(p), L).locks = L
    BY <1>1, <1>4, WithLocksOK
  <2>. HIDE DEF L
  <2>. QED BY <1>1, <1>3, <2>1, <2>2 DEF Uniform
<1>. QED BY <1>1, <1>4, <1>5, WithLocksOK DEF ReacquiredClaim

LEMMA ExtendedOK ==
  ASSUME TypeOK, UniformLocks, NEW p \in Process, pc[p] # "idle",
         ExtendAllowed(p)
  PROVE  /\ AddedLocks(p) \in SUBSET Lock
         /\ ExtendedClaim(p) \in Claim /\ Uniform(ExtendedClaim(p))
<1>1. Target(p) \in Claim /\ Uniform(Target(p)) /\ call[p] \in Call
  BY TargetOK DEF ExtendAllowed
<1>. DEFINE end == FirstLock(Target(p)).expires
            L == Target(p).locks \cup AddedLocks(p)
<1>2. end \in Nat /\ call[p].at \in Nat /\ NewScopes(p) \subseteq Scope
  BY <1>1, FirstLockIn DEF Lock, Call, Request, NewScopes
<1>3. \A s \in NewScopes(p) :
        /\ AcquiredLock(s, call[p].at, end) \in Lock
        /\ AcquiredLock(s, call[p].at, end).expires = end
        /\ AcquiredLock(s, call[p].at, end).state = "active"
        /\ AcquiredLock(s, call[p].at, end).scope = s
  BY <1>2 DEF AcquiredLock, Lock
<1>4. \A l \in AddedLocks(p) : \E s \in NewScopes(p) : l = AcquiredLock(s, call[p].at, end)
  BY DEF AddedLocks
<1>5. AddedLocks(p) \in SUBSET Lock /\ L \in (SUBSET Lock) \ {{}}
  BY <1>1, <1>3, <1>4 DEF Claim
<1>6. \A m \in Target(p).locks :
        m.expires = end /\ m.state = "active" /\ m.scope \notin NewScopes(p)
  <2>1. \A m \in Target(p).locks : m.expires = end
    BY <1>1, FirstLockIn DEF Uniform
  <2>2. \A m \in Target(p).locks : m.state = "active"
    BY DEF ExtendAllowed, OwnsScopeAt, StateAt
  <2>3. \A m \in Target(p).locks : m.scope \notin NewScopes(p)
    BY DEF NewScopes, LockedBy
  <2>. QED BY <2>1, <2>2, <2>3
<1>7. \A l, m \in L : /\ l.expires = m.expires /\ l.state = m.state
                      /\ l.scope = m.scope => l = m
  BY <1>1, <1>3, <1>4, <1>6 DEF Uniform
<1>8. WithLocks(Target(p), L).locks = L
  BY <1>1, <1>5, WithLocksOK
<1>9. Uniform(WithLocks(Target(p), L))
  BY <1>7, <1>8 DEF Uniform
<1>. QED BY <1>1, <1>5, <1>9, WithLocksOK DEF ExtendedClaim

LEMMA ReleasedOK ==
  ASSUME TypeOK, UniformLocks, NEW p \in Process, pc[p] # "idle",
         ReleaseAllowed(p)
  PROVE  ReleasedClaim(p) \in Claim /\ Uniform(ReleasedClaim(p))
<1>1. Target(p) \in Claim /\ Uniform(Target(p)) /\ call[p] \in Call
  BY TargetOK DEF ReleaseAllowed
<1>. DEFINE L == {ReleasedLock(l, call[p].at) : l \in Target(p).locks}
<1>2. \A m \in Target(p).locks :
        /\ ReleasedLock(m, call[p].at) \in Lock
        /\ ReleasedLock(m, call[p].at).expires = m.expires
        /\ ReleasedLock(m, call[p].at).state = "released"
        /\ ReleasedLock(m, call[p].at).scope = m.scope
  BY <1>1 DEF ReleasedLock, Lock, Claim, Call
<1>3. L \in (SUBSET Lock) \ {{}}
  BY <1>1, <1>2 DEF Claim
<1>4. \A l \in L : \E m \in Target(p).locks : l = ReleasedLock(m, call[p].at)
  OBVIOUS
<1>5. WithLocks(Target(p), L).locks = L
  BY <1>1, <1>3, WithLocksOK
<1>6. Uniform(WithLocks(Target(p), L))
  <2>. HIDE DEF L
  <2>. QED BY <1>1, <1>2, <1>4, <1>5 DEF Uniform
<1>. QED BY <1>1, <1>3, <1>6, WithLocksOK DEF ReleasedClaim
-----------------------------------------------------------------------------
(* The inductive step.                                                     *)

(* Checks and results read nothing but the claims, the head and the fixed  *)
(* part of the call: its request, its timestamp and the head it began at.  *)
LEMMA ChecksStable ==
  ASSUME NEW q \in Process, claims' = claims, head' = head,
         call'[q].req = call[q].req, call'[q].at = call[q].at,
         call'[q].began = call[q].began
  PROVE  /\ call'[q].wanted = call[q].wanted =>
              /\ AcquireAllowed(q) => AcquireAllowed(q)'
              /\ AcquiredClaim(q)' = AcquiredClaim(q)
         /\ RenewAllowed(q) => RenewAllowed(q)'
         /\ RenewedClaim(q)' = RenewedClaim(q)
         /\ ReacquireAllowed(q) => ReacquireAllowed(q)'
         /\ ReacquiredClaim(q)' = ReacquiredClaim(q)
         /\ ExtendAllowed(q) => ExtendAllowed(q)'
         /\ ExtendedClaim(q)' = ExtendedClaim(q)
         /\ ReleaseAllowed(q) => ReleaseAllowed(q)'
         /\ ReleasedClaim(q)' = ReleasedClaim(q)
<1>1. Target(q)' = Target(q) /\ (Owned(q))' = Owned(q)
  BY DEF Target, Owned
<1>2. /\ RenewalExpiry(q)' = RenewalExpiry(q)
      /\ ReacquiredLocks(q)' = ReacquiredLocks(q)
      /\ NewScopes(q)' = NewScopes(q)
  BY <1>1 DEF RenewalExpiry, ReacquiredLocks, NewScopes
<1>3. AddedLocks(q)' = AddedLocks(q)
  BY <1>1, <1>2 DEF AddedLocks
<1>4. ASSUME call'[q].wanted = call[q].wanted
      PROVE  /\ AcquireAllowed(q) => AcquireAllowed(q)'
             /\ AcquiredClaim(q)' = AcquiredClaim(q)
  <2>1. AcquiredLocks(q)' = AcquiredLocks(q)
    BY <1>4 DEF AcquiredLocks
  <2>2. AcquireAllowed(q) => AcquireAllowed(q)'
    BY <1>1, <1>4, <2>1 DEF AcquireAllowed, Clear
  <2>3. AcquiredClaim(q)' = AcquiredClaim(q)
    BY <2>1 DEF AcquiredClaim
  <2>. QED BY <2>2, <2>3
<1>5. RenewAllowed(q) => RenewAllowed(q)'
  BY <1>1, <1>2 DEF RenewAllowed
<1>6. RenewedClaim(q)' = RenewedClaim(q)
  BY <1>1, <1>2 DEF RenewedClaim
<1>7. ReacquireAllowed(q) => ReacquireAllowed(q)'
  BY <1>1, <1>2 DEF ReacquireAllowed, Clear
<1>8. ReacquiredClaim(q)' = ReacquiredClaim(q)
  BY <1>1, <1>2 DEF ReacquiredClaim
<1>9. ExtendAllowed(q) => ExtendAllowed(q)'
  BY <1>1, <1>2, <1>3 DEF ExtendAllowed, Clear
<1>10. ExtendedClaim(q)' = ExtendedClaim(q)
  BY <1>1, <1>3 DEF ExtendedClaim
<1>11. ReleaseAllowed(q) => ReleaseAllowed(q)'
  BY <1>1 DEF ReleaseAllowed
<1>12. ReleasedClaim(q)' = ReleasedClaim(q)
  BY <1>1 DEF ReleasedClaim
<1>. QED BY <1>4, <1>5, <1>6, <1>7, <1>8, <1>9, <1>10, <1>11, <1>12

(* While claims and ledger stand still, so does the justification of a     *)
(* call that makes no step itself.                                         *)
LEMMA JustifiedStable ==
  ASSUME NEW q \in Process, call'[q] = call[q], claims' = claims, head' = head,
         Justified(q)
  PROVE  Justified(q)'
BY ChecksStable DEF Justified

(* A call that makes no step stays well formed as time passes and others   *)
(* append.                                                                 *)
LEMMA BystanderOK ==
  ASSUME TypeOK, TypeOK', NEW q \in Process, pc[q] # "idle", CallOK(q),
         pc'[q] = pc[q], call'[q] = call[q], clock <= clock',
         head' > head \/ (head' = head /\ claims' = claims)
  PROVE  CallOK(q)'
<1>1. call[q] \in Call /\ head \in Nat /\ head' \in Nat /\ clock \in Nat /\ clock' \in Nat
  BY DEF TypeOK
<1>2. call[q].at <= clock' /\ call[q].began + call[q].tries <= head'
  BY <1>1 DEF CallOK, Call
<1>3. ASSUME pc[q] = "append"
      PROVE  /\ DraftOK(q)'
             /\ call[q].seen <= head'
             /\ call[q].began + call[q].tries <= call[q].seen
             /\ HeadUnmoved(q)' => Justified(q)'
  <2>1. DraftOK(q)'
    BY <1>3 DEF CallOK, DraftOK
  <2>2. call[q].seen <= head' /\ call[q].began + call[q].tries <= call[q].seen
    BY <1>1, <1>3 DEF CallOK, Call
  <2>3. HeadUnmoved(q)' => Justified(q)'
    <3>1. CASE head' > head
      <4>1. call[q].seen <= head /\ call[q].seen \in Nat
        BY <1>1, <1>3 DEF CallOK, Call
      <4>2. head' # call'[q].seen
        BY <1>1, <3>1, <4>1
      <4>. QED BY <4>2 DEF HeadUnmoved
    <3>2. CASE head' = head /\ claims' = claims
      <4>1. HeadUnmoved(q)' => HeadUnmoved(q)
        BY <3>2 DEF HeadUnmoved
      <4>2. HeadUnmoved(q) => Justified(q)
        BY <1>3 DEF CallOK
      <4>. QED BY <3>2, <4>1, <4>2, JustifiedStable
    <3>. QED BY <3>1, <3>2
  <2>. QED BY <2>1, <2>2, <2>3
<1>4. pc[q] \in {"wsread", "wsappend"} /\ call[q].req.kind = "extend" => DraftOK(q)'
  BY DEF CallOK, DraftOK
<1>. QED BY <1>2, <1>3, <1>4 DEF CallOK

(* The shape of every step of a call p: it moves to x with locals y.       *)
LEMMA CallStep ==
  ASSUME IInv, NEW p \in Process, NEW x \in Pc, NEW y,
         pc' = [pc EXCEPT ![p] = x], call' = [call EXCEPT ![p] = y],
         clock' = clock, head' \in Nat,
         head' > head \/ (head' = head /\ claims' = claims),
         claims' \in [ClaimId -> Claim \cup {NoClaim}], UniformLocks',
         changesets' \in [ChangeSet -> Binding],
         \/ x = "idle" /\ y = NoCall
         \/ x # "idle" /\ y \in Call /\ CallOK(p)'
  PROVE  IInv'
<1>1. TypeOK'
  BY DEF IInv, TypeOK
<1>2. ASSUME NEW q \in Process, pc'[q] # "idle"
      PROVE  CallOK(q)'
  <2>1. CASE q = p
    BY <1>2, <2>1 DEF IInv, TypeOK
  <2>2. CASE q # p
    <3>1. pc'[q] = pc[q] /\ call'[q] = call[q]
      BY <2>2 DEF IInv, TypeOK
    <3>2. CallOK(q) /\ clock <= clock'
      BY <1>2, <3>1 DEF IInv, TypeOK
    <3>. QED BY <1>1, <1>2, <3>1, <3>2, BystanderOK DEF IInv
  <2>. QED BY <2>1, <2>2
<1>. QED BY <1>1, <1>2 DEF IInv

(* A step that writes nothing to the ledger.                               *)
LEMMA LocalStep ==
  ASSUME IInv, NEW p \in Process, NEW x \in Pc, NEW y,
         pc' = [pc EXCEPT ![p] = x], call' = [call EXCEPT ![p] = y],
         UNCHANGED <<clock, head, claims, changesets>>,
         \/ x = "idle" /\ y = NoCall
         \/ x # "idle" /\ y \in Call /\ CallOK(p)'
  PROVE  IInv'
<1>1. UniformLocks'
  BY DEF IInv, UniformLocks
<1>2. /\ clock' = clock /\ head' \in Nat /\ head' = head /\ claims' = claims
      /\ claims' \in [ClaimId -> Claim \cup {NoClaim}]
      /\ changesets' \in [ChangeSet -> Binding]
  BY DEF IInv, TypeOK
<1>. QED BY <1>1, <1>2, CallStep

LEMMA ReturnStep ==
  ASSUME IInv, NEW p \in Process, Return(p),
         UNCHANGED <<clock, head, claims, changesets>>
  PROVE  IInv'
<1>1. /\ pc' = [pc EXCEPT ![p] = "idle"] /\ call' = [call EXCEPT ![p] = NoCall]
      /\ "idle" \in Pc
  BY DEF Return, Pc
<1>. QED BY <1>1, LocalStep

LEMMA BeginStep ==
  ASSUME IInv, NEW p \in Process, NEW q \in Requests, Begin(p, q)
  PROVE  IInv'
<1>. DEFINE x == CASE q.kind = "acquire" -> "read"
                   [] q.kind = "transition" -> "wsread"
                   [] OTHER -> "loop"
            y == [req |-> q, at |-> clock, began |-> head, wanted |-> {},
                  tries |-> 0, seen |-> head, draft |-> NoClaim,
                  binding |-> changesets[q.cs]]
<1>1. q \in Request /\ q.cs \in ChangeSet
  BY ConstantsAssumption DEF Request
<1>2. x \in {"read", "wsread", "loop"} /\ (x = "wsread" => q.kind = "transition")
  OBVIOUS
<1>3. y \in Call
  BY <1>1 DEF Call, IInv, TypeOK
<1>4. pc'[p] = x /\ call'[p] = y /\ UNCHANGED <<clock, head, claims, changesets>>
  BY DEF Begin, IInv, TypeOK
<1>5. CallOK(p)'
  BY <1>2, <1>4 DEF CallOK, IInv, TypeOK
<1>6. x \in Pc /\ x # "idle"
  BY <1>2 DEF Pc
<1>7. pc' = [pc EXCEPT ![p] = x] /\ call' = [call EXCEPT ![p] = y]
  BY DEF Begin
<1>. HIDE DEF x, y
<1>. QED BY <1>3, <1>4, <1>5, <1>6, <1>7, LocalStep

LEMMA ReadStep ==
  ASSUME IInv, NEW p \in Process, ReadChangeSet(p)
  PROVE  IInv'
<1>. DEFINE y == [call[p] EXCEPT !.wanted = changesets[call[p].req.cs].scopes]
<1>1. call[p] \in Call /\ CallOK(p)
  BY DEF ReadChangeSet, IInv, TypeOK
<1>2. y \in Call
  BY <1>1 DEF Call, Request, IInv, TypeOK, Binding
<1>3. /\ pc' = [pc EXCEPT ![p] = "loop"] /\ call' = [call EXCEPT ![p] = y]
      /\ "loop" \in Pc
      /\ pc'[p] = "loop" /\ call'[p] = y
      /\ UNCHANGED <<clock, head, claims, changesets>>
  BY DEF ReadChangeSet, IInv, TypeOK, Pc
<1>4. y.at = call[p].at /\ y.began = call[p].began /\ y.tries = call[p].tries
  BY <1>1 DEF Call
<1>5. CallOK(p)'
  BY <1>1, <1>3, <1>4 DEF CallOK
<1>. HIDE DEF y
<1>. QED BY <1>2, <1>3, <1>5, LocalStep

(* One lemma serves the five operations: the record proposed is justified. *)
LEMMA ProposeStep ==
  ASSUME IInv, NEW p \in Process, NEW k, NEW S \in SUBSET Scope,
         pc[p] = "loop", Propose(p, k, S), k \in Claim, Uniform(k), Justified(p)'
  PROVE  IInv'
<1>. DEFINE y == [call[p] EXCEPT !.seen = head, !.draft = k, !.wanted = S]
<1>1. call[p] \in Call /\ CallOK(p) /\ head \in Nat
  BY DEF IInv, TypeOK
<1>2. y \in Call
  BY <1>1 DEF Call
<1>3. /\ pc' = [pc EXCEPT ![p] = "append"] /\ call' = [call EXCEPT ![p] = y]
      /\ "append" \in Pc
      /\ pc'[p] = "append" /\ call'[p] = y
      /\ UNCHANGED <<clock, head, claims, changesets>>
  BY DEF Propose, IInv, TypeOK, Pc
<1>4. /\ y.at = call[p].at /\ y.began = call[p].began /\ y.tries = call[p].tries
      /\ y.seen = head /\ y.draft = k
  BY <1>1 DEF Call
<1>5. CallOK(p)'
  <2>. HIDE DEF y
  <2>1. /\ call'[p].at <= clock' /\ call'[p].began + call'[p].tries <= head'
        /\ call'[p].seen <= head'
        /\ call'[p].began + call'[p].tries <= call'[p].seen
    BY <1>1, <1>3, <1>4 DEF CallOK
  <2>2. DraftOK(p)'
    BY <1>3, <1>4 DEF DraftOK
  <2>. QED BY <1>3, <2>1, <2>2 DEF CallOK
<1>. HIDE DEF y
<1>. QED BY <1>2, <1>3, <1>5, LocalStep

LEMMA Proposed ==
  ASSUME IInv, NEW p \in Process, NEW k, NEW S, pc[p] = "loop", Propose(p, k, S)
  PROVE  /\ claims' = claims /\ head' = head
         /\ call'[p].req = call[p].req /\ call'[p].at = call[p].at
         /\ call'[p].began = call[p].began
         /\ call'[p].draft = k /\ call'[p].wanted = S
BY DEF Propose, IInv, TypeOK, Call

LEMMA OperationStep ==
  ASSUME IInv, NEW p \in Process,
         Acquire(p) \/ Renew(p) \/ Reacquire(p) \/ Extend(p) \/ Release(p)
  PROVE  IInv'
<1>1. TypeOK /\ UniformLocks
  BY DEF IInv
<1>2. pc[p] = "loop" /\ call[p] \in Call
  BY <1>1 DEF Acquire, Renew, Reacquire, Extend, Release, InLoop, TypeOK
<1>3. CASE Acquire(p)
  <2>1. AcquiredClaim(p) \in Claim /\ Uniform(AcquiredClaim(p))
    BY <1>1, <1>2, <1>3, AcquiredOK DEF Acquire
  <2>2. Propose(p, AcquiredClaim(p), call[p].wanted) /\ call[p].wanted \in SUBSET Scope
    BY <1>2, <1>3 DEF Acquire, Call
  <2>3. Justified(p)'
    <3>1. AcquireAllowed(p) /\ call[p].req.kind = "acquire"
      BY <1>3 DEF Acquire, InLoop
    <3>. QED BY <1>2, <2>2, <3>1, Proposed, ChecksStable DEF Justified
  <2>. QED BY <1>2, <2>1, <2>2, <2>3, ProposeStep
<1>4. CASE Renew(p)
  <2>1. RenewedClaim(p) \in Claim /\ Uniform(RenewedClaim(p))
    BY <1>1, <1>2, <1>4, RenewedOK DEF Renew
  <2>2. Propose(p, RenewedClaim(p), {}) /\ {} \in SUBSET Scope
    BY <1>4 DEF Renew
  <2>3. Justified(p)'
    <3>1. RenewAllowed(p) /\ call[p].req.kind = "renew"
      BY <1>4 DEF Renew, InLoop
    <3>. QED BY <1>2, <2>2, <3>1, Proposed, ChecksStable DEF Justified
  <2>. QED BY <1>2, <2>1, <2>2, <2>3, ProposeStep
<1>5. CASE Reacquire(p)
  <2>1. ReacquiredClaim(p) \in Claim /\ Uniform(ReacquiredClaim(p))
    BY <1>1, <1>2, <1>5, ReacquiredOK DEF Reacquire
  <2>2. Propose(p, ReacquiredClaim(p), {}) /\ {} \in SUBSET Scope
    BY <1>5 DEF Reacquire
  <2>3. Justified(p)'
    <3>1. ReacquireAllowed(p) /\ call[p].req.kind = "reacquire"
      BY <1>5 DEF Reacquire, InLoop
    <3>. QED BY <1>2, <2>2, <3>1, Proposed, ChecksStable DEF Justified
  <2>. QED BY <1>2, <2>1, <2>2, <2>3, ProposeStep
<1>6. CASE Extend(p)
  <2>1. ExtendedClaim(p) \in Claim /\ Uniform(ExtendedClaim(p))
    BY <1>1, <1>2, <1>6, ExtendedOK DEF Extend
  <2>2. Propose(p, ExtendedClaim(p), NewScopes(p)) /\ NewScopes(p) \in SUBSET Scope
    BY <1>2, <1>6 DEF Extend, NewScopes, Call, Request
  <2>3. Justified(p)'
    <3>1. ExtendAllowed(p) /\ call[p].req.kind = "extend"
      BY <1>6 DEF Extend, InLoop
    <3>. QED BY <1>2, <2>2, <3>1, Proposed, ChecksStable DEF Justified
  <2>. QED BY <1>2, <2>1, <2>2, <2>3, ProposeStep
<1>7. CASE Release(p)
  <2>1. ReleasedClaim(p) \in Claim /\ Uniform(ReleasedClaim(p))
    BY <1>1, <1>2, <1>7, ReleasedOK DEF Release
  <2>2. Propose(p, ReleasedClaim(p), {}) /\ {} \in SUBSET Scope
    BY <1>7 DEF Release
  <2>3. Justified(p)'
    <3>1. ReleaseAllowed(p) /\ call[p].req.kind = "release"
      BY <1>7 DEF Release, InLoop
    <3>. QED BY <1>2, <2>2, <3>1, Proposed, ChecksStable DEF Justified
  <2>. QED BY <1>2, <2>1, <2>2, <2>3, ProposeStep
<1>. QED BY <1>3, <1>4, <1>5, <1>6, <1>7

LEMMA AppendStep ==
  ASSUME IInv, NEW p \in Process, AppendClaim(p)
  PROVE  IInv'
<1>. DEFINE c == call[p].req.claim
            d == call[p].draft
<1>1. /\ pc[p] = "append" /\ head' = head + 1 /\ clock' = clock
      /\ changesets' = changesets /\ claims' = [claims EXCEPT ![c] = d]
  BY DEF AppendClaim
<1>2. call[p] \in Call /\ CallOK(p) /\ head \in Nat
  BY <1>1 DEF IInv, TypeOK
<1>3. DraftOK(p) /\ d \in Claim /\ Uniform(d)
  BY <1>1, <1>2 DEF CallOK, DraftOK
<1>4. /\ claims' \in [ClaimId -> Claim \cup {NoClaim}]
      /\ changesets' \in [ChangeSet -> Binding]
  BY <1>1, <1>3 DEF IInv, TypeOK
<1>5. UniformLocks'
  BY <1>1, <1>3 DEF IInv, TypeOK, UniformLocks
<1>. HIDE DEF c, d
<1>8. head' \in Nat /\ head' > head /\ clock' = clock
  BY <1>1, <1>2
<1>6. CASE call[p].req.kind = "extend"
  <2>1. /\ pc' = [pc EXCEPT ![p] = "wsread"] /\ call' = [call EXCEPT ![p] = call[p]]
        /\ "wsread" \in Pc /\ pc'[p] = "wsread" /\ call'[p] = call[p]
    BY <1>6 DEF AppendClaim, IInv, TypeOK, Pc
  <2>2. CallOK(p)'
    <3>1. call[p].at <= clock' /\ call[p].began + call[p].tries <= head'
      BY <1>1, <1>2 DEF CallOK, Call
    <3>2. DraftOK(p)'
      BY <1>3, <2>1 DEF DraftOK
    <3>. QED BY <2>1, <3>1, <3>2 DEF CallOK
  <2>3. "wsread" # "idle" /\ call[p] \in Call
    BY <1>2
  <2>. QED BY <1>4, <1>5, <1>8, <2>1, <2>2, <2>3, CallStep
<1>7. CASE call[p].req.kind # "extend"
  <2>1. /\ pc' = [pc EXCEPT ![p] = "idle"] /\ call' = [call EXCEPT ![p] = NoCall]
        /\ "idle" \in Pc
    BY <1>7 DEF AppendClaim, Return, Pc
  <2>. QED BY <1>4, <1>5, <1>8, <2>1, CallStep
<1>. QED BY <1>6, <1>7

LEMMA RetryStep ==
  ASSUME IInv, NEW p \in Process, Retry(p)
  PROVE  IInv'
<1>. DEFINE y == [call[p] EXCEPT !.tries = @ + 1]
<1>1. call[p] \in Call /\ CallOK(p) /\ pc[p] = "append" /\ head # call[p].seen
      /\ head \in Nat
  BY DEF Retry, HeadUnmoved, IInv, TypeOK
<1>2. /\ pc' = [pc EXCEPT ![p] = "loop"] /\ call' = [call EXCEPT ![p] = y]
      /\ "loop" \in Pc /\ pc'[p] = "loop" /\ call'[p] = y
      /\ UNCHANGED <<clock, head, claims, changesets>>
  BY DEF Retry, IInv, TypeOK, Pc
<1>3. /\ y \in Call /\ y.at = call[p].at /\ y.began = call[p].began
      /\ y.tries = call[p].tries + 1
  BY <1>1 DEF Call
<1>4. call[p].began + call[p].tries + 1 <= head
  BY <1>1 DEF CallOK, Call
<1>5. CallOK(p)'
  <2>. HIDE DEF y
  <2>1. /\ call[p].at <= clock /\ call[p].began \in Nat /\ call[p].tries \in Nat
    BY <1>1 DEF CallOK, Call
  <2>2. call'[p].at <= clock' /\ call'[p].began + call'[p].tries <= head'
    BY <1>2, <1>3, <1>4, <2>1
  <2>. QED BY <1>2, <2>2 DEF CallOK
<1>. HIDE DEF y
<1>. QED BY <1>2, <1>3, <1>5, LocalStep

LEMMA SubjectOK ==
  ASSUME IInv, NEW p \in Process, pc[p] \in {"wsread", "wsappend"}
  PROVE  Subject(p) \in ChangeSet /\ CurrentBinding(p) \in Binding
<1>1. call[p] \in Call /\ CallOK(p)
  BY DEF IInv, TypeOK
<1>2. Subject(p) \in ChangeSet
  BY <1>1 DEF CallOK, DraftOK, Subject, Call, Request, Claim
<1>. QED BY <1>2 DEF CurrentBinding, IInv, TypeOK

LEMMA WorkspaceReadStep ==
  ASSUME IInv, NEW p \in Process, NEW b \in Binding, pc[p] = "wsread",
         WorkspaceRead(p, b)
  PROVE  IInv'
<1>. DEFINE y == [call[p] EXCEPT !.binding = b]
<1>1. call[p] \in Call /\ CallOK(p)
  BY DEF IInv, TypeOK
<1>2. /\ pc' = [pc EXCEPT ![p] = "wsappend"] /\ call' = [call EXCEPT ![p] = y]
      /\ "wsappend" \in Pc /\ pc'[p] = "wsappend" /\ call'[p] = y
      /\ UNCHANGED <<clock, head, claims, changesets>>
  BY DEF WorkspaceRead, IInv, TypeOK, Pc
<1>3. /\ y \in Call /\ y.at = call[p].at /\ y.began = call[p].began
      /\ y.tries = call[p].tries /\ y.draft = call[p].draft /\ y.req = call[p].req
  BY <1>1 DEF Call
<1>4. CallOK(p)'
  <2>. HIDE DEF y
  <2>. QED BY <1>1, <1>2, <1>3 DEF CallOK, DraftOK
<1>. HIDE DEF y
<1>. QED BY <1>2, <1>3, <1>4, LocalStep

LEMMA WorkspaceStep ==
  ASSUME IInv, NEW p \in Process, TransitionChangeSet(p) \/ AmendScope(p)
  PROVE  IInv'
<1>1. pc[p] = "wsread" /\ call[p] \in Call
  BY DEF TransitionChangeSet, AmendScope, AtRead, IInv, TypeOK
<1>2. CurrentBinding(p) \in Binding
  BY <1>1, SubjectOK
<1>3. CASE TransitionChangeSet(p)
  <2>. DEFINE b == [CurrentBinding(p) EXCEPT !.state = call[p].req.to,
                                           !.updated = call[p].at]
  <2>1. b \in Binding
    BY <1>1, <1>2 DEF Binding, Call, Request
  <2>2. WorkspaceRead(p, b)
    BY <1>3 DEF TransitionChangeSet
  <2>. HIDE DEF b
  <2>. QED BY <1>1, <2>1, <2>2, WorkspaceReadStep
<1>4. CASE AmendScope(p)
  <2>. DEFINE b == [CurrentBinding(p) EXCEPT !.scopes = @ \cup call[p].wanted,
                                           !.updated = call[p].at]
  <2>1. b \in Binding
    BY <1>1, <1>2 DEF Binding, Call
  <2>2. WorkspaceRead(p, b)
    BY <1>4 DEF AmendScope
  <2>. HIDE DEF b
  <2>. QED BY <1>1, <2>1, <2>2, WorkspaceReadStep
<1>. QED BY <1>3, <1>4

LEMMA RecordStep ==
  ASSUME IInv, NEW p \in Process, RecordBinding(p)
  PROVE  IInv'
<1>1. call[p] \in Call /\ head \in Nat /\ Subject(p) \in ChangeSet
  BY SubjectOK DEF RecordBinding, IInv, TypeOK
<1>2. changesets' \in [ChangeSet -> Binding]
  BY <1>1 DEF RecordBinding, IInv, TypeOK, Call
<1>3. /\ head' \in Nat /\ head' > head /\ clock' = clock
      /\ claims' \in [ClaimId -> Claim \cup {NoClaim}]
  BY <1>1 DEF RecordBinding, IInv, TypeOK
<1>4. UniformLocks'
  BY DEF RecordBinding, IInv, UniformLocks
<1>5. /\ pc' = [pc EXCEPT ![p] = "idle"] /\ call' = [call EXCEPT ![p] = NoCall]
      /\ "idle" \in Pc
  BY DEF RecordBinding, Return, Pc
<1>. QED BY <1>2, <1>3, <1>4, <1>5, CallStep

LEMMA TickStep ==
  ASSUME IInv, Tick
  PROVE  IInv'
<1>1. TypeOK'
  BY DEF IInv, TypeOK, Tick
<1>2. UniformLocks'
  BY DEF IInv, UniformLocks, Tick
<1>3. ASSUME NEW q \in Process, pc'[q] # "idle"
      PROVE  CallOK(q)'
  BY <1>1, <1>3, BystanderOK DEF IInv, TypeOK, Tick
<1>. QED BY <1>1, <1>2, <1>3 DEF IInv

LEMMA StutterStep ==
  ASSUME IInv, UNCHANGED vars
  PROVE  IInv'
<1>1. TypeOK'
  BY DEF IInv, TypeOK, vars
<1>2. UniformLocks'
  BY DEF IInv, UniformLocks, vars
<1>3. ASSUME NEW q \in Process, pc'[q] # "idle"
      PROVE  CallOK(q)'
  BY <1>1, <1>3, BystanderOK DEF IInv, TypeOK, vars
<1>. QED BY <1>1, <1>2, <1>3 DEF IInv

LEMMA InitInv == Init => IInv
<1>1. SUFFICES ASSUME Init PROVE IInv
  OBVIOUS
<1>2. /\ clock = 0 /\ head = 0
      /\ \A c \in ClaimId : claims[c] = NoClaim
      /\ \A p \in Process : pc[p] = "idle"
  BY <1>1 DEF Init
<1>3. changesets \in [ChangeSet -> Binding]
  BY <1>1, ConstantsAssumption DEF Init, Binding, Lifecycle
<1>4. /\ claims \in [ClaimId -> Claim \cup {NoClaim}]
      /\ call \in [Process -> Call \cup {NoCall}]
      /\ pc \in [Process -> Pc]
  BY <1>1 DEF Init, Pc
<1>. QED BY <1>2, <1>3, <1>4 DEF IInv, TypeOK, UniformLocks

LEMMA InvStep == IInv /\ [Next]_vars => IInv'
<1>1. SUFFICES ASSUME IInv, [Next]_vars PROVE IInv'
  OBVIOUS
<1>2. CASE Tick
  BY <1>1, <1>2, TickStep
<1>3. CASE UNCHANGED vars
  BY <1>1, <1>3, StutterStep
<1>4. ASSUME NEW p \in Process, NEW q \in Requests, Begin(p, q)
      PROVE  IInv'
  BY <1>1, <1>4, BeginStep
<1>5. ASSUME NEW p \in Process, Crash(p)
      PROVE  IInv'
  BY <1>1, <1>5, ReturnStep DEF Crash
<1>6. ASSUME NEW p \in Process, Run(p)
      PROVE  IInv'
  <2>1. CASE ReadChangeSet(p)
    BY <1>1, <2>1, ReadStep
  <2>2. CASE Acquire(p) \/ Renew(p) \/ Reacquire(p) \/ Extend(p) \/ Release(p)
    BY <1>1, <2>2, OperationStep
  <2>3. CASE Refuse(p) \/ GiveUp(p) \/ WorkspaceRefuse(p)
    BY <1>1, <2>3, ReturnStep DEF Refuse, GiveUp, WorkspaceRefuse
  <2>4. CASE AppendClaim(p)
    BY <1>1, <2>4, AppendStep
  <2>5. CASE Retry(p)
    BY <1>1, <2>5, RetryStep
  <2>6. CASE TransitionChangeSet(p) \/ AmendScope(p)
    BY <1>1, <2>6, WorkspaceStep
  <2>7. CASE RecordBinding(p)
    BY <1>1, <2>7, RecordStep
  <2>. QED BY <1>6, <2>1, <2>2, <2>3, <2>4, <2>5, <2>6, <2>7 DEF Run
<1>. QED BY <1>1, <1>2, <1>3, <1>4, <1>5, <1>6 DEF Next

LEMMA Invariance == Spec => []IInv
<1>. QED BY InitInv, InvStep, PTL DEF Spec

(* Every reachable state is well typed.                                    *)
THEOREM TypeCorrect == Spec => []TypeOK
<1>1. IInv => TypeOK
  BY DEF IInv
<1>. QED BY <1>1, Invariance, PTL

(* Claim.state_at never meets locks that disagree, and no claim holds two  *)
(* locks on one scope, whatever sequence of acquire, extend_scope, renew,  *)
(* reacquire and release built it.                                         *)
THEOREM ClaimsMoveAsOne == Spec => []UniformLocks
<1>1. IInv => UniformLocks
  BY DEF IInv
<1>. QED BY <1>1, Invariance, PTL

(* "ledger remained busy" means that at least as many entries of others    *)
(* were appended during the call as it lost attempts.                      *)
THEOREM BusyMeansContention == Spec => []LostAttemptsAreProgress
<1>1. IInv => LostAttemptsAreProgress
  BY DEF IInv, CallOK, LostAttemptsAreProgress
<1>. QED BY <1>1, Invariance, PTL
-----------------------------------------------------------------------------
(* Exclusion.                                                              *)

(* Checked at its timestamp or not at all: a conflict that an append shows *)
(* at this moment was there before, unless the append is an overdue        *)
(* renewal.                                                                *)
LEMMA AppendBringsNoConflict ==
  ASSUME IInv, NEW p \in Process, AppendClaim(p), ~ Overdue(p),
         NEW d \in ClaimId \ {call[p].req.claim}, claims[d] # NoClaim,
         NEW lock \in call[p].draft.locks, NEW other \in claims[d].locks,
         ConflictsWith(lock, other, clock)
  PROVE  /\ Target(p) # NoClaim
         /\ \E old \in Target(p).locks : ConflictsWith(old, other, clock)
<1>. DEFINE at == call[p].at
<1>1. /\ TypeOK /\ UniformLocks /\ pc[p] = "append" /\ call[p] \in Call
      /\ CallOK(p) /\ Justified(p)
  BY DEF IInv, TypeOK, AppendClaim, CallOK
<1>2. at \in Nat /\ clock \in Nat /\ at <= clock
  BY <1>1 DEF CallOK, Call, TypeOK
<1>3. call[p].draft \in Claim /\ claims[d] \in Claim /\ lock \in Lock /\ other \in Lock
  BY <1>1 DEF CallOK, DraftOK, TypeOK, Claim
<1>4. ConflictsWith(lock, other, at)
  BY <1>2, <1>3, ConflictEarlier
<1>5. CASE call[p].req.kind = "acquire" /\ AcquireAllowed(p) /\ call[p].draft = AcquiredClaim(p)
  <2>1. lock \in AcquiredLocks(p)
    BY <1>5 DEF AcquiredClaim
  <2>2. ~ ConflictsWith(lock, other, at)
    BY <1>5, <2>1 DEF AcquireAllowed, Clear
  <2>. QED BY <1>4, <2>2
<1>6. CASE call[p].req.kind = "renew" /\ RenewAllowed(p) /\ call[p].draft = RenewedClaim(p)
  <2>1. Target(p) \in Claim /\ Target(p) # NoClaim
    BY <1>1, <1>6, TargetOK DEF RenewAllowed, Owned
  <2>2. call[p].draft.locks = {RenewedLock(l, at, RenewalExpiry(p)) : l \in Target(p).locks}
    BY <1>6, <2>1 DEF RenewedClaim, WithLocks, Claim
  <2>3. PICK old \in Target(p).locks : lock = RenewedLock(old, at, RenewalExpiry(p))
    BY <2>2
  <2>4. OwnsScopeAt(old, clock)
    BY <1>1, <1>6, <2>1 DEF Overdue
  <2>5. old \in Lock /\ lock.scope = old.scope
    BY <2>1, <2>3 DEF RenewedLock, Lock, Claim
  <2>6. ConflictsWith(old, other, clock)
    BY <2>4, <2>5 DEF ConflictsWith
  <2>. QED BY <2>1, <2>6
<1>7. CASE call[p].req.kind = "reacquire" /\ ReacquireAllowed(p) /\ call[p].draft = ReacquiredClaim(p)
  <2>1. Target(p) \in Claim
    BY <1>1, <1>7, TargetOK DEF ReacquireAllowed
  <2>2. lock \in ReacquiredLocks(p)
    BY <1>7, <2>1 DEF ReacquiredClaim, WithLocks, Claim
  <2>3. ~ ConflictsWith(lock, other, at)
    BY <1>7, <2>2 DEF ReacquireAllowed, Clear
  <2>. QED BY <1>4, <2>3
<1>8. CASE call[p].req.kind = "extend" /\ ExtendAllowed(p) /\ call[p].draft = ExtendedClaim(p)
  <2>1. Target(p) \in Claim /\ Target(p) # NoClaim
    BY <1>1, <1>8, TargetOK DEF ExtendAllowed, Owned
  <2>2. lock \in Target(p).locks \/ lock \in AddedLocks(p)
    BY <1>8, <2>1 DEF ExtendedClaim, WithLocks, Claim
  <2>3. lock \notin AddedLocks(p)
    BY <1>4, <1>8 DEF ExtendAllowed, Clear
  <2>. QED BY <2>1, <2>2, <2>3
<1>9. CASE call[p].req.kind = "release" /\ ReleaseAllowed(p) /\ call[p].draft = ReleasedClaim(p)
  <2>1. Target(p) \in Claim
    BY <1>1, <1>9, TargetOK DEF ReleaseAllowed
  <2>2. PICK old \in Target(p).locks : lock = ReleasedLock(old, at)
    BY <1>9, <2>1 DEF ReleasedClaim, WithLocks, Claim
  <2>3. lock.state = "released"
    BY <2>1, <2>2 DEF ReleasedLock, Lock, Claim
  <2>. QED BY <2>3 DEF ConflictsWith, OwnsScopeAt, StateAt
<1>. QED BY <1>1, <1>5, <1>6, <1>7, <1>8, <1>9 DEF Justified

LEMMA AppendKeepsPeace ==
  ASSUME IInv, NEW p \in Process, AppendClaim(p), ~ Overdue(p),
         NEW c \in ClaimId, NEW d \in ClaimId, Clash(c, d)'
  PROVE  Clash(c, d)
<1>. DEFINE e == call[p].req.claim
<1>1. /\ claims' = [claims EXCEPT ![e] = call[p].draft] /\ clock' = clock
      /\ e \in ClaimId
  BY DEF AppendClaim, IInv, TypeOK, Call, Request
<1>2. /\ c # d /\ claims'[c] # NoClaim /\ claims'[d] # NoClaim
      /\ \E l \in claims'[c].locks, m \in claims'[d].locks : ConflictsWith(l, m, clock)
  BY <1>1 DEF Clash
<1>3. PICK l \in claims'[c].locks, m \in claims'[d].locks : ConflictsWith(l, m, clock)
  BY <1>2
<1>4. \A f \in ClaimId : claims'[f] = IF f = e THEN call[p].draft ELSE claims[f]
  BY <1>1 DEF IInv, TypeOK
<1>5. call[p].draft \in Claim
  BY DEF AppendClaim, IInv, CallOK, DraftOK
<1>6. l \in Lock /\ m \in Lock
  BY <1>2, <1>4, <1>5 DEF IInv, TypeOK, Claim
<1>7. CASE c = e
  <2>1. claims'[c] = call[p].draft /\ claims'[d] = claims[d]
    BY <1>2, <1>4, <1>7
  <2>2. Target(p) # NoClaim /\ \E old \in Target(p).locks : ConflictsWith(old, m, clock)
    BY <1>2, <1>3, <1>7, <2>1, AppendBringsNoConflict
  <2>. QED BY <1>2, <1>7, <2>1, <2>2 DEF Clash, Target
<1>8. CASE d = e
  <2>1. claims'[d] = call[p].draft /\ claims'[c] = claims[c]
    BY <1>2, <1>4, <1>8
  <2>2. ConflictsWith(m, l, clock)
    BY <1>3, <1>6, ConflictSymmetric
  <2>3. Target(p) # NoClaim
    BY <1>2, <1>8, <2>1, <2>2, AppendBringsNoConflict
  <2>4. PICK old \in Target(p).locks : ConflictsWith(old, l, clock)
    BY <1>2, <1>8, <2>1, <2>2, AppendBringsNoConflict
  <2>5. old \in Lock
    BY <1>1, <2>3, <2>4 DEF IInv, TypeOK, Target, Claim
  <2>6. ConflictsWith(l, old, clock)
    BY <1>6, <2>4, <2>5, ConflictSymmetric
  <2>. QED BY <1>2, <1>8, <2>1, <2>3, <2>6 DEF Clash, Target
<1>9. CASE c # e /\ d # e
  BY <1>2, <1>4, <1>9 DEF Clash
<1>. QED BY <1>7, <1>8, <1>9

LEMMA OtherStepsKeepClaims ==
  ASSUME [Next]_vars, \A p \in Process : ~ AppendClaim(p)
  PROVE  claims' = claims
BY DEF Next, vars, Tick, Begin, Crash, Run, ReadChangeSet, Acquire, Renew,
       Reacquire, Extend, Release, Propose, Refuse, Retry, GiveUp,
       TransitionChangeSet, AmendScope, WorkspaceRead, WorkspaceRefuse,
       RecordBinding

LEMMA OtherStepsKeepPeace ==
  ASSUME IInv, [Next]_vars, \A p \in Process : ~ AppendClaim(p),
         NEW c \in ClaimId, NEW d \in ClaimId, Clash(c, d)'
  PROVE  Clash(c, d)
<1>1. claims' = claims
  BY OtherStepsKeepClaims
<1>2. clock' = clock \/ clock' = clock + 1
  BY DEF Next, vars, Tick, Begin, Crash, Run, ReadChangeSet, Acquire, Renew,
         Reacquire, Extend, Release, Propose, Refuse, Retry, GiveUp,
         TransitionChangeSet, AmendScope, WorkspaceRead, WorkspaceRefuse,
         RecordBinding
<1>7. clock \in Nat /\ clock' \in Nat /\ clock <= clock'
  <2>1. clock \in Nat
    BY DEF IInv, TypeOK
  <2>. QED BY <1>2, <2>1
<1>3. /\ c # d /\ claims[c] # NoClaim /\ claims[d] # NoClaim
      /\ \E l \in claims[c].locks, m \in claims[d].locks : ConflictsWith(l, m, clock')
  BY <1>1 DEF Clash
<1>4. PICK l \in claims[c].locks, m \in claims[d].locks : ConflictsWith(l, m, clock')
  BY <1>3
<1>5. l \in Lock /\ m \in Lock
  BY <1>3 DEF IInv, TypeOK, Claim
<1>6. ConflictsWith(l, m, clock)
  BY <1>7, <1>4, <1>5, ConflictEarlier
<1>. QED BY <1>3, <1>4, <1>6 DEF Clash

(* acquire, reacquire, extend_scope and release never make two claims      *)
(* compete, however old their timestamp and however often they retried.    *)
THEOREM ClashNeedsOverdueRenewal == Spec => OnlyOverdueRenewalClashes
<1>. DEFINE A == (\E c, d \in ClaimId : ~ Clash(c, d) /\ Clash(c, d)')
                 => \E p \in Process : Overdue(p) /\ AppendClaim(p)
<1>1. IInv /\ [Next]_vars => [A]_vars
  <2>1. SUFFICES ASSUME IInv, [Next]_vars, NEW c \in ClaimId, NEW d \in ClaimId,
                        ~ Clash(c, d), Clash(c, d)'
                 PROVE  \E p \in Process : Overdue(p) /\ AppendClaim(p)
    OBVIOUS
  <2>2. PICK p \in Process : AppendClaim(p)
    BY <2>1, OtherStepsKeepPeace
  <2>. QED BY <2>1, <2>2, AppendKeepsPeace
<1>. QED BY <1>1, Invariance, PTL DEF Spec, OnlyOverdueRenewalClashes

LEMMA TimelyStep == IInv /\ Exclusive /\ [TimelyNext]_vars => Exclusive'
<1>1. SUFFICES ASSUME IInv, Exclusive, [TimelyNext]_vars,
                      NEW c \in ClaimId, NEW d \in ClaimId, Clash(c, d)'
               PROVE  FALSE
  BY DEF Exclusive
<1>2. [Next]_vars
  BY <1>1 DEF TimelyNext
<1>3. ~ Clash(c, d)
  BY <1>1 DEF Exclusive
<1>4. PICK p \in Process : AppendClaim(p)
  BY <1>1, <1>2, <1>3, OtherStepsKeepPeace
<1>5. ~ Overdue(p)
  <2>1. CASE TimelyNext
    BY <1>4, <2>1 DEF TimelyNext
  <2>2. CASE UNCHANGED vars
    BY <1>1, <1>4, <2>2 DEF AppendClaim, vars, IInv, TypeOK
  <2>. QED BY <1>1, <2>1, <2>2
<1>. QED BY <1>1, <1>3, <1>4, <1>5, AppendKeepsPeace

(* Where no renewal is overdue when it is appended, no two claims ever own *)
(* overlapping scopes.                                                     *)
THEOREM TimelyExclusive == TimelySpec => []Exclusive
<1>1. Init => Exclusive
  BY DEF Init, Exclusive, Clash
<1>2. IInv /\ [TimelyNext]_vars => IInv'
  BY InvStep DEF TimelyNext
<1>. QED BY <1>1, <1>2, InitInv, TimelyStep, PTL DEF TimelySpec
-----------------------------------------------------------------------------
(* Records only move forward.                                              *)

LEMMA Kept ==
  ASSUME NEW k \in Claim
  PROVE  Preserves(k, k)
<1>1. \A lock \in k.locks : lock.expires \in Nat
  BY DEF Claim, Lock
<1>2. k # NoClaim
  BY ConstantsAssumption
<1>. QED BY <1>1, <1>2 DEF Preserves

LEMMA DraftPreserves ==
  ASSUME IInv, NEW p \in Process, pc[p] = "append", Justified(p),
         Target(p) # NoClaim
  PROVE  Preserves(Target(p), call[p].draft)
<1>1. /\ TypeOK /\ UniformLocks /\ pc[p] # "idle" /\ call[p] \in Call /\ DraftOK(p)
  BY DEF IInv, TypeOK, CallOK
<1>2. Target(p) \in Claim
  BY <1>1 DEF TypeOK, Target, Call, Request
<1>3. call[p].draft # NoClaim
  BY <1>1, ConstantsAssumption DEF DraftOK
<1>4. \A lock \in Target(p).locks : lock \in Lock /\ lock.expires \in Nat
  BY <1>2 DEF Claim, Lock
<1>5. call[p].at \in Nat /\ call[p].req.span \in Nat
  BY <1>1 DEF Call, Request
<1>6. ~ (call[p].req.kind = "acquire" /\ AcquireAllowed(p))
  BY DEF AcquireAllowed
<1>7. CASE call[p].req.kind = "renew" /\ RenewAllowed(p) /\ call[p].draft = RenewedClaim(p)
  <2>. DEFINE L == {RenewedLock(l, call[p].at, RenewalExpiry(p)) : l \in Target(p).locks}
  <2>1. /\ call[p].draft.locks = L
        /\ call[p].draft.cs = Target(p).cs /\ call[p].draft.session = Target(p).session
    BY <1>2, <1>7 DEF RenewedClaim, WithLocks, Claim
  <2>2. RenewalExpiry(p) \in Nat
    BY <1>1, <1>2, <1>4, <1>5, LastExpiryUniform
       DEF RenewalExpiry, Claim, UniformLocks, Target, Call, Request
  <2>3. ASSUME NEW l \in Target(p).locks
        PROVE  LET m == RenewedLock(l, call[p].at, RenewalExpiry(p)) IN
                 /\ m.scope = l.scope /\ m.expires >= l.expires
                 /\ l.state # "released"
    <3>1. CanRenew(l, call[p].at, RenewalExpiry(p))
      BY <1>7 DEF RenewAllowed
    <3>. QED BY <1>4, <2>2, <3>1 DEF CanRenew, ActiveLease, RenewedLock, Lock
  <2>. QED BY <1>3, <2>1, <2>3 DEF Preserves
<1>8. CASE call[p].req.kind = "reacquire" /\ ReacquireAllowed(p) /\ call[p].draft = ReacquiredClaim(p)
  <2>. DEFINE end == call[p].at + call[p].req.span
  <2>1. /\ call[p].draft.locks = ReacquiredLocks(p)
        /\ call[p].draft.cs = Target(p).cs /\ call[p].draft.session = Target(p).session
    BY <1>2, <1>8 DEF ReacquiredClaim, WithLocks, Claim
  <2>2. ASSUME NEW l \in Target(p).locks
        PROVE  LET m == ReacquiredLock(l, call[p].at, end) IN
                 /\ m.scope = l.scope /\ m.expires >= l.expires
                 /\ l.state # "released"
    <3>1. CanReacquire(l, call[p].at)
      BY <1>8 DEF ReacquireAllowed
    <3>. QED BY <1>4, <1>5, <3>1 DEF CanReacquire, StateAt, ReacquiredLock, Lock
  <2>3. \A l \in Target(p).locks : ReacquiredLock(l, call[p].at, end) \in ReacquiredLocks(p)
    BY DEF ReacquiredLocks
  <2>. QED BY <1>3, <2>1, <2>2, <2>3 DEF Preserves
<1>9. CASE call[p].req.kind = "extend" /\ ExtendAllowed(p) /\ call[p].draft = ExtendedClaim(p)
  <2>1. /\ call[p].draft.locks = Target(p).locks \cup AddedLocks(p)
        /\ call[p].draft.cs = Target(p).cs /\ call[p].draft.session = Target(p).session
    BY <1>2, <1>9 DEF ExtendedClaim, WithLocks, Claim
  <2>2. \A l \in Target(p).locks : l.expires >= l.expires
    BY <1>4
  <2>. QED BY <1>3, <2>1, <2>2 DEF Preserves
<1>10. CASE call[p].req.kind = "release" /\ ReleaseAllowed(p) /\ call[p].draft = ReleasedClaim(p)
  <2>. DEFINE L == {ReleasedLock(l, call[p].at) : l \in Target(p).locks}
  <2>1. /\ call[p].draft.locks = L
        /\ call[p].draft.cs = Target(p).cs /\ call[p].draft.session = Target(p).session
    BY <1>2, <1>10 DEF ReleasedClaim, WithLocks, Claim
  <2>2. \A l \in Target(p).locks :
          LET m == ReleasedLock(l, call[p].at) IN
            /\ m.scope = l.scope /\ m.expires >= l.expires /\ m.state = "released"
    BY <1>4 DEF ReleasedLock, Lock
  <2>. QED BY <1>3, <2>1, <2>2 DEF Preserves
<1>. QED BY <1>6, <1>7, <1>8, <1>9, <1>10 DEF Justified

LEMMA ClaimKept ==
  ASSUME IInv, [Next]_vars, NEW c \in ClaimId, claims[c] # NoClaim
  PROVE  Preserves(claims[c], claims'[c])
<1>1. claims[c] \in Claim
  BY DEF IInv, TypeOK
<1>2. CASE claims'[c] = claims[c]
  BY <1>1, <1>2, Kept
<1>3. CASE claims'[c] # claims[c]
  <2>1. PICK p \in Process : AppendClaim(p)
    BY <1>3, OtherStepsKeepClaims
  <2>2. /\ pc[p] = "append" /\ Justified(p)
    BY <2>1 DEF IInv, CallOK, AppendClaim
  <2>3. c = call[p].req.claim /\ claims'[c] = call[p].draft
    BY <1>3, <2>1 DEF AppendClaim, IInv, TypeOK
  <2>4. Target(p) = claims[c]
    BY <2>3 DEF Target
  <2>. QED BY <2>2, <2>3, <2>4, DraftPreserves
<1>. QED BY <1>2, <1>3

(* No call that read an older record of a claim overwrites a newer one:    *)
(* owner and Change Set stay, locked scopes are never dropped, a lease is  *)
(* never shortened and a release is never undone.                          *)
THEOREM NeverRegresses == Spec => ClaimNeverRegresses
<1>1. IInv /\ [Next]_vars =>
        \A c \in ClaimId : claims[c] # NoClaim => Preserves(claims[c], claims'[c])
  BY ClaimKept
<1>. QED BY <1>1, Invariance, PTL DEF Spec, ClaimNeverRegresses
-----------------------------------------------------------------------------
(* Locks come first.                                                       *)

(* Scope s is locked by a claim of Change Set cs.                          *)
Locked(cs, s) ==
  \E c \in ClaimId : /\ claims[c] # NoClaim
                     /\ claims[c].cs = cs
                     /\ s \in LockedBy(claims[c])

(* A call that widens has the added scopes in the locks it is about to     *)
(* append, and behind that append in those of the ledger; what is about to *)
(* be declared is locked.                                                  *)
WidensLocked(p) ==
  /\ pc[p] = "append" /\ call[p].req.kind = "extend" =>
       call[p].wanted \subseteq LockedBy(call[p].draft)
  /\ pc[p] = "wsread" /\ call[p].req.kind = "extend" =>
       \A s \in call[p].wanted : Locked(call[p].draft.cs, s)
  /\ pc[p] = "wsappend" =>
       \A s \in call[p].binding.scopes \ DeclaredScopes[Subject(p)] :
         Locked(Subject(p), s)

WideningInv == WideningIsLocked /\ \A p \in Process : WidensLocked(p)

(* Nothing that is recorded is unlocked again, since no claim drops a      *)
(* scope or changes its Change Set.                                        *)
LEMMA LockedStays ==
  ASSUME IInv, [Next]_vars, NEW cs, NEW s, Locked(cs, s)
  PROVE  Locked(cs, s)'
<1>1. PICK c \in ClaimId : /\ claims[c] # NoClaim /\ claims[c].cs = cs
                          /\ s \in LockedBy(claims[c])
  BY DEF Locked
<1>2. Preserves(claims[c], claims'[c])
  BY <1>1, ClaimKept
<1>3. claims'[c] # NoClaim /\ claims'[c].cs = cs
  BY <1>1, <1>2 DEF Preserves
<1>4. PICK lock \in claims[c].locks : lock.scope = s
  BY <1>1 DEF LockedBy
<1>5. PICK later \in claims'[c].locks : later.scope = s
  BY <1>2, <1>4 DEF Preserves
<1>6. s \in LockedBy(claims'[c])
  BY <1>5 DEF LockedBy
<1>. QED BY <1>3, <1>6 DEF Locked

LEMMA WidensBystander ==
  ASSUME IInv, [Next]_vars, NEW p \in Process, WidensLocked(p),
         pc'[p] = pc[p], call'[p] = call[p]
  PROVE  WidensLocked(p)'
<1>1. Subject(p)' = Subject(p)
  BY DEF Subject
<1>. QED BY <1>1, LockedStays DEF WidensLocked

(* A step of p that neither proposes an extension nor reads a Change Set   *)
(* to write it leaves p where nothing is asked of it.                      *)
LEMMA WidensElsewhere ==
  ASSUME NEW p \in Process,
         \/ pc'[p] \in {"idle", "read", "loop"}
         \/ pc'[p] \in {"append", "wsread"} /\ call'[p].req.kind # "extend"
  PROVE  WidensLocked(p)'
BY DEF WidensLocked

LEMMA WidensOperation ==
  ASSUME IInv, NEW p \in Process,
         Acquire(p) \/ Renew(p) \/ Reacquire(p) \/ Extend(p) \/ Release(p)
  PROVE  WidensLocked(p)'
<1>1. TypeOK /\ pc[p] = "loop"
  BY DEF IInv, Acquire, Renew, Reacquire, Extend, Release, InLoop
<1>2. CASE Extend(p)
  <2>1. pc'[p] = "append" /\ call'[p].draft = ExtendedClaim(p)
        /\ call'[p].wanted = NewScopes(p)
    <3>1. Propose(p, ExtendedClaim(p), NewScopes(p))
      BY <1>2 DEF Extend
    <3>2. pc'[p] = "append"
      BY <1>1, <3>1 DEF Propose, TypeOK
    <3>. QED BY <1>1, <3>1, <3>2, Proposed
  <2>2. Target(p) \in Claim
    BY <1>1, <1>2, TargetOK DEF IInv, Extend, ExtendAllowed
  <2>3. ExtendedClaim(p).locks = Target(p).locks \cup AddedLocks(p)
    BY <2>2 DEF ExtendedClaim, WithLocks, Claim
  <2>4. ASSUME NEW s \in NewScopes(p)
        PROVE  s \in LockedBy(ExtendedClaim(p))
    <3>. DEFINE new == AcquiredLock(s, call[p].at, FirstLock(Target(p)).expires)
    <3>1. new \in AddedLocks(p) /\ new.scope = s
      BY DEF AddedLocks, AcquiredLock
    <3>. HIDE DEF new
    <3>. QED BY <2>3, <3>1 DEF LockedBy
  <2>. QED BY <2>1, <2>4 DEF WidensLocked
<1>3. CASE ~ Extend(p)
  <2>1. call[p].req.kind # "extend" /\ pc'[p] = "append" /\ call'[p].req = call[p].req
    BY <1>1, <1>3 DEF Acquire, Renew, Reacquire, Release, InLoop, Propose, TypeOK, Call
  <2>. QED BY <2>1, WidensElsewhere
<1>. QED BY <1>2, <1>3

LEMMA WidensAppend ==
  ASSUME IInv, NEW p \in Process, WidensLocked(p), AppendClaim(p)
  PROVE  WidensLocked(p)'
<1>1. pc[p] = "append" /\ call[p] \in Call /\ DraftOK(p)
  BY DEF AppendClaim, IInv, TypeOK, CallOK
<1>2. CASE call[p].req.kind = "extend"
  <2>1. pc'[p] = "wsread" /\ call'[p] = call[p]
    BY <1>2 DEF AppendClaim, IInv, TypeOK
  <2>2. call[p].req.claim \in ClaimId /\ claims'[call[p].req.claim] = call[p].draft
    BY <1>1 DEF AppendClaim, IInv, TypeOK, Call, Request
  <2>3. call[p].draft # NoClaim
    BY <1>1, ConstantsAssumption DEF DraftOK
  <2>4. ASSUME NEW s \in call[p].wanted
        PROVE  Locked(call[p].draft.cs, s)'
    <3>1. s \in LockedBy(call[p].draft)
      BY <1>1, <1>2 DEF WidensLocked
    <3>2. LockedBy(claims[call[p].req.claim])' = LockedBy(call[p].draft)
      BY <2>1, <2>2 DEF LockedBy
    <3>3. call[p].req.claim \in ClaimId /\ claims'[call[p].req.claim] # NoClaim
          /\ claims'[call[p].req.claim].cs = call[p].draft.cs
          /\ s \in LockedBy(claims'[call[p].req.claim])
      BY <2>2, <2>3, <3>1
    <3>. HIDE DEF LockedBy
    <3>. QED BY <2>1, <3>3 DEF Locked
  <2>5. call'[p].wanted = call[p].wanted /\ call'[p].draft = call[p].draft
    BY <2>1
  <2>. QED BY <2>1, <2>4, <2>5 DEF WidensLocked
<1>3. CASE call[p].req.kind # "extend"
  BY <1>3, WidensElsewhere DEF AppendClaim, Return, IInv, TypeOK
<1>. QED BY <1>2, <1>3

LEMMA WidensRead ==
  ASSUME IInv, WideningInv, [Next]_vars, NEW p \in Process,
         TransitionChangeSet(p) \/ AmendScope(p)
  PROVE  WidensLocked(p)'
<1>1. pc[p] = "wsread" /\ call[p] \in Call
  BY DEF TransitionChangeSet, AmendScope, AtRead, IInv, TypeOK
<1>2. Subject(p) \in ChangeSet /\ CurrentBinding(p) \in Binding
  BY <1>1, SubjectOK
<1>3. \A s \in CurrentBinding(p).scopes \ DeclaredScopes[Subject(p)] :
        Locked(Subject(p), s)
  BY <1>2 DEF WideningInv, WideningIsLocked, Locked, CurrentBinding
<1>4. /\ pc'[p] = "wsappend" /\ Subject(p)' = Subject(p)
      /\ \A s \in call'[p].binding.scopes \ DeclaredScopes[Subject(p)] :
           Locked(Subject(p), s)
  <2>1. CASE TransitionChangeSet(p)
    <3>1. /\ pc'[p] = "wsappend"
          /\ call'[p].req = call[p].req /\ call'[p].draft = call[p].draft
          /\ call'[p].binding.scopes = CurrentBinding(p).scopes
      BY <1>1, <1>2, <2>1
         DEF TransitionChangeSet, WorkspaceRead, IInv, TypeOK, Call, Binding
    <3>. QED BY <1>3, <3>1 DEF Subject
  <2>2. CASE AmendScope(p)
    <3>1. /\ pc'[p] = "wsappend"
          /\ call'[p].req = call[p].req /\ call'[p].draft = call[p].draft
          /\ call'[p].binding.scopes = CurrentBinding(p).scopes \cup call[p].wanted
      BY <1>1, <1>2, <2>2
         DEF AmendScope, WorkspaceRead, IInv, TypeOK, Call, Binding
    <3>2. call[p].req.kind = "extend" /\ Subject(p) = call[p].draft.cs
      BY <2>2 DEF AmendScope, AtRead, Subject
    <3>3. \A s \in call[p].wanted : Locked(Subject(p), s)
      BY <1>1, <3>2 DEF WideningInv, WidensLocked
    <3>. QED BY <1>3, <3>1, <3>2, <3>3 DEF Subject
  <2>. QED BY <2>1, <2>2
<1>. QED BY <1>4, LockedStays DEF WidensLocked

LEMMA WidensStep ==
  ASSUME IInv, WideningInv, [Next]_vars, NEW p \in Process
  PROVE  WidensLocked(p)'
<1>1. WidensLocked(p)
  BY DEF WideningInv
<1>2. CASE pc'[p] = pc[p] /\ call'[p] = call[p]
  BY <1>1, <1>2, WidensBystander
<1>3. CASE ~ (pc'[p] = pc[p] /\ call'[p] = call[p])
  <2>1. (\E q \in Requests : Begin(p, q)) \/ Run(p) \/ Crash(p)
    <3>1. ~ Tick /\ ~ UNCHANGED vars
      BY <1>3 DEF Tick, vars
    <3>2. PICK q \in Process :
            (\E r \in Requests : Begin(q, r)) \/ Run(q) \/ Crash(q)
      BY <3>1 DEF Next
    <3>3. q = p
      <4>1. SUFFICES ASSUME q # p
                     PROVE  pc'[p] = pc[p] /\ call'[p] = call[p]
        BY <1>3
      <4>. USE <4>1 DEF IInv, TypeOK
      <4>2. ASSUME NEW r \in Requests, Begin(q, r)
            PROVE  pc'[p] = pc[p] /\ call'[p] = call[p]
        BY <4>2 DEF Begin
      <4>3. CASE ReadChangeSet(q) \/ Retry(q) \/ AppendClaim(q)
        BY <4>3 DEF ReadChangeSet, Retry, AppendClaim, Return
      <4>4. CASE Acquire(q) \/ Renew(q) \/ Reacquire(q) \/ Extend(q) \/ Release(q)
        BY <4>4 DEF Acquire, Renew, Reacquire, Extend, Release, Propose
      <4>5. CASE TransitionChangeSet(q) \/ AmendScope(q)
        BY <4>5 DEF TransitionChangeSet, AmendScope, WorkspaceRead
      <4>6. CASE \/ Crash(q) \/ Refuse(q) \/ GiveUp(q) \/ WorkspaceRefuse(q)
                 \/ RecordBinding(q)
        BY <4>6 DEF Crash, Refuse, GiveUp, WorkspaceRefuse, RecordBinding, Return
      <4>. QED BY <3>2, <4>2, <4>3, <4>4, <4>5, <4>6 DEF Run
    <3>. QED BY <3>2, <3>3
  <2>2. ASSUME NEW q \in Requests, Begin(p, q)
        PROVE  WidensLocked(p)'
    <3>1. /\ pc'[p] \in {"read", "wsread", "loop"}
          /\ pc'[p] = "wsread" => q.kind = "transition"
          /\ call'[p].req = q
      BY <2>2 DEF Begin, IInv, TypeOK
    <3>. QED BY <3>1, WidensElsewhere
  <2>3. CASE ReadChangeSet(p) \/ Retry(p)
    BY <2>3, WidensElsewhere DEF ReadChangeSet, Retry, IInv, TypeOK
  <2>4. CASE Crash(p) \/ Refuse(p) \/ GiveUp(p) \/ WorkspaceRefuse(p) \/ RecordBinding(p)
    BY <2>4, WidensElsewhere
       DEF Crash, Refuse, GiveUp, WorkspaceRefuse, RecordBinding, Return, IInv, TypeOK
  <2>. QED BY <1>1, <2>1, <2>2, <2>3, <2>4, WidensOperation, WidensAppend, WidensRead
           DEF Run
<1>. QED BY <1>2, <1>3

LEMMA WideningStep ==
  ASSUME IInv, WideningInv, [Next]_vars
  PROVE  WideningInv'
<1>1. \A p \in Process : WidensLocked(p)'
  BY WidensStep
<1>2. ASSUME NEW cs \in ChangeSet, NEW s \in changesets'[cs].scopes \ DeclaredScopes[cs]
      PROVE  Locked(cs, s)'
  <2>1. CASE changesets'[cs] = changesets[cs]
    BY <1>2, <2>1, LockedStays DEF WideningInv, WideningIsLocked, Locked
  <2>2. CASE changesets'[cs] # changesets[cs]
    <3>1. PICK p \in Process : RecordBinding(p)
      BY <2>2 DEF Next, vars, Tick, Begin, Crash, Run, ReadChangeSet, Acquire, Renew,
         Reacquire, Extend, Release, Propose, Refuse, Retry, GiveUp, AppendClaim,
         TransitionChangeSet, AmendScope, WorkspaceRead, WorkspaceRefuse
    <3>2. pc[p] = "wsappend" /\ cs = Subject(p) /\ changesets'[cs] = call[p].binding
      BY <2>2, <3>1 DEF RecordBinding, IInv, TypeOK
    <3>3. Locked(cs, s)
      BY <1>2, <3>2 DEF WideningInv, WidensLocked
    <3>. QED BY <3>3, LockedStays
  <2>. QED BY <2>1, <2>2
<1>3. WideningIsLocked'
  BY <1>2 DEF WideningIsLocked, Locked
<1>. QED BY <1>1, <1>3 DEF WideningInv

(* A Change Set never declares a scope, beyond those it was created with,  *)
(* that no claim of it has locked before, whoever else amends, moves or    *)
(* claims it between the two appends of extend_scope.                      *)
THEOREM WideningComesSecond == Spec => []WideningIsLocked
<1>1. Init => WideningInv
  BY DEF Init, WideningInv, WideningIsLocked, WidensLocked
<1>2. IInv /\ WideningInv /\ [Next]_vars => WideningInv'
  BY WideningStep
<1>3. WideningInv => WideningIsLocked
  BY DEF WideningInv
<1>. QED BY <1>1, <1>2, <1>3, Invariance, PTL DEF Spec

-----------------------------------------------------------------------------
(* ClaimService without overdue renewals implements ScopeOwnership.  Every *)
(* append maps to one abstract step at the instant of the append; what the *)
(* call read, and when, has disappeared.                                   *)

leases == [c \in ClaimId |-> LeaseOf(claims[c])]

LEMMA LeaseOfUniform ==
  ASSUME NEW k \in Claim, Uniform(k), NEW lock \in k.locks
  PROVE  /\ LeaseOf(k).scopes = LockedBy(k)
         /\ LeaseOf(k).until = lock.expires
         /\ LeaseOf(k).open = (lock.state = "active")
         /\ LeaseOf(k) \in Ownership!Lease
<1>1. k # NoClaim
  BY ConstantsAssumption
<1>2. FirstLock(k) \in k.locks /\ FirstLock(k) \in Lock
  BY FirstLockIn
<1>3. FirstLock(k).expires = lock.expires /\ FirstLock(k).state = lock.state
  BY <1>2 DEF Uniform
<1>4. LockedBy(k) \subseteq Scope
  BY DEF LockedBy, Claim, Lock
<1>. QED BY <1>1, <1>2, <1>3, <1>4 DEF LeaseOf, Ownership!Lease, Lock

(* A lease that runs now was running when the call read its timestamp, and *)
(* a new lock that competes with one of its scopes would have been refused.*)
LEMMA ClearIsFree ==
  ASSUME IInv, NEW e \in ClaimId, NEW at \in Nat, at <= clock,
         NEW N \in SUBSET Lock, Clear(e, N, at),
         \A lock \in N : OwnsScopeAt(lock, at)
  PROVE  Ownership!Free(e, {lock.scope : lock \in N})
<1>1. SUFFICES ASSUME NEW q \in ClaimId \ {e}, Ownership!Held(q),
                      NEW lock \in N, NEW u \in leases[q].scopes,
                      <<lock.scope, u>> \in Overlap
               PROVE  FALSE
  BY DEF Ownership!Free, Ownership!Competing, leases
<1>2. leases[q] = LeaseOf(claims[q])
  BY DEF leases
<1>3. claims[q] # NoClaim
  BY <1>1, <1>2 DEF LeaseOf
<1>4. claims[q] \in Claim /\ Uniform(claims[q])
  BY <1>3 DEF IInv, TypeOK, UniformLocks
<1>5. PICK other \in claims[q].locks : u = other.scope
  BY <1>1, <1>2, <1>3 DEF LeaseOf, LockedBy
<1>6. clock < other.expires /\ other.state = "active"
  BY <1>1, <1>2, <1>4, <1>5, LeaseOfUniform DEF Ownership!Held, leases
<1>7. other \in Lock /\ clock \in Nat
  BY <1>4, <1>5 DEF Claim, IInv, TypeOK
<1>8. OwnsScopeAt(other, at)
  BY <1>6, <1>7 DEF OwnsScopeAt, StateAt, Lock
<1>9. ConflictsWith(lock, other, at)
  BY <1>1, <1>5, <1>8 DEF ConflictsWith
<1>. QED BY <1>1, <1>3, <1>5, <1>9 DEF Clear
-----------------------------------------------------------------------------
(* One append, one abstract step.                                          *)

(* What an append does to the leases, and what is known of the record.     *)
LEMMA AppendedLease ==
  ASSUME IInv, NEW p \in Process, AppendClaim(p)
  PROVE  LET e == call[p].req.claim IN
         /\ e \in ClaimId /\ clock' = clock
         /\ call[p] \in Call /\ pc[p] # "idle" /\ pc[p] = "append"
         /\ call[p].at \in Nat /\ call[p].at <= clock /\ clock \in Nat
         /\ call[p].req.span \in Nat \ {0}
         /\ call[p].draft \in Claim /\ Uniform(call[p].draft)
         /\ Justified(p)
         /\ leases[e] = LeaseOf(Target(p))
         /\ leases' = [leases EXCEPT ![e] = LeaseOf(call[p].draft)]
         /\ leases'[e] = LeaseOf(call[p].draft)
         /\ leases'[e] \in Ownership!Lease
<1>. DEFINE e == call[p].req.claim
<1>1. /\ pc[p] = "append" /\ pc[p] # "idle" /\ call[p] \in Call /\ CallOK(p)
      /\ claims' = [claims EXCEPT ![e] = call[p].draft] /\ clock' = clock
      /\ HeadUnmoved(p)
  BY DEF AppendClaim, IInv, TypeOK
<1>2. /\ e \in ClaimId /\ call[p].at \in Nat /\ call[p].req.span \in Nat \ {0}
  BY <1>1 DEF Call, Request
<1>3. /\ call[p].at <= clock /\ clock \in Nat /\ Justified(p)
      /\ call[p].draft \in Claim /\ Uniform(call[p].draft)
  BY <1>1 DEF CallOK, DraftOK, IInv, TypeOK
<1>4. \A f \in ClaimId : claims'[f] = IF f = e THEN call[p].draft ELSE claims[f]
  BY <1>1 DEF IInv, TypeOK
<1>5. leases' = [leases EXCEPT ![e] = LeaseOf(call[p].draft)]
  <2>1. leases' = [f \in ClaimId |-> LeaseOf(claims'[f])]
    BY DEF leases, LeaseOf, FirstLock, LockedBy
  <2>2. \A f \in ClaimId : LeaseOf(claims'[f]) =
          [leases EXCEPT ![e] = LeaseOf(call[p].draft)][f]
    BY <1>4 DEF leases
  <2>. QED BY <2>1, <2>2 DEF leases
<1>6. leases[e] = LeaseOf(Target(p))
  BY <1>2 DEF leases, Target
<1>7. leases'[e] = LeaseOf(call[p].draft)
  BY <1>2, <1>5 DEF leases
<1>8. LeaseOf(call[p].draft) \in Ownership!Lease
  <2>1. PICK lock \in call[p].draft.locks : TRUE
    BY <1>3 DEF Claim
  <2>. QED BY <1>3, <2>1, LeaseOfUniform
<1>. QED BY <1>1, <1>2, <1>3, <1>5, <1>6, <1>7, <1>8

(* The abstract steps, told of leases.                                     *)
LEMMA GrantMeans ==
  ASSUME NEW e \in ClaimId, NEW l, leases'[e] = l, l \in Ownership!Lease,
         leases' = [leases EXCEPT ![e] = l], clock' = clock,
         leases[e].open, l.open,
         leases[e].scopes # {} => l.scopes = leases[e].scopes,
         l.until > leases[e].until, NEW S, l.scopes = S, Ownership!Free(e, S)
  PROVE  Ownership!Grant(e)
BY DEF Ownership!Grant, Ownership!Becomes, leases

LEMMA WidenMeans ==
  ASSUME NEW e \in ClaimId, NEW l, leases'[e] = l, l \in Ownership!Lease,
         leases' = [leases EXCEPT ![e] = l], clock' = clock,
         leases[e].open, l.open, leases[e].scopes \subseteq l.scopes,
         l.until = leases[e].until,
         NEW S, l.scopes \ leases[e].scopes = S, Ownership!Free(e, S)
  PROVE  Ownership!Widen(e)
BY DEF Ownership!Widen, Ownership!Becomes, leases

LEMMA ProlongMeans ==
  ASSUME NEW e \in ClaimId, NEW l, leases'[e] = l, l \in Ownership!Lease,
         leases' = [leases EXCEPT ![e] = l], clock' = clock,
         leases[e].open, clock < leases[e].until, l.until > leases[e].until,
         l = [leases[e] EXCEPT !.until = l.until]
  PROVE  Ownership!Prolong(e)
BY DEF Ownership!Prolong, Ownership!Held, Ownership!Becomes, leases

LEMMA CloseMeans ==
  ASSUME NEW e \in ClaimId, clock' = clock, leases[e].open,
         leases' = [leases EXCEPT ![e] = [leases[e] EXCEPT !.open = FALSE]]
  PROVE  Ownership!Close(e)
BY DEF Ownership!Close, Ownership!Becomes, leases

LEMMA AcquireIsGrant ==
  ASSUME IInv, NEW p \in Process, AppendClaim(p), AcquireAllowed(p),
         call[p].draft = AcquiredClaim(p),
         NEW e \in ClaimId, e = call[p].req.claim
  PROVE  Ownership!Grant(e)
<1>. DEFINE k == call[p].draft
<1>1. /\ e \in ClaimId /\ clock' = clock
      /\ call[p] \in Call /\ call[p].at \in Nat /\ call[p].at <= clock
      /\ call[p].req.span \in Nat \ {0} /\ k \in Claim /\ Uniform(k)
      /\ leases[e] = LeaseOf(Target(p))
      /\ leases' = [leases EXCEPT ![e] = LeaseOf(k)]
      /\ leases'[e] = LeaseOf(k) /\ leases'[e] \in Ownership!Lease
  BY AppendedLease
<1>2. leases[e] = [scopes |-> {}, until |-> 0, open |-> TRUE]
  BY <1>1 DEF AcquireAllowed, LeaseOf
<1>3. k.locks = AcquiredLocks(p) /\ AcquiredLocks(p) \in SUBSET Lock
  BY <1>1 DEF AcquiredClaim, Claim
<1>4. \A lock \in k.locks : /\ lock.expires = call[p].at + call[p].req.span
                            /\ lock.state = "active"
                            /\ OwnsScopeAt(lock, call[p].at)
  BY <1>1, <1>3 DEF AcquiredLocks, AcquiredLock, OwnsScopeAt, StateAt
<1>5. PICK lock \in k.locks : TRUE
  BY <1>1 DEF Claim
<1>6. /\ leases'[e].scopes = {l.scope : l \in AcquiredLocks(p)}
      /\ leases'[e].until = call[p].at + call[p].req.span /\ leases'[e].open
  BY <1>1, <1>3, <1>4, <1>5, LeaseOfUniform DEF LockedBy
<1>7. Ownership!Free(e, {l.scope : l \in AcquiredLocks(p)})
  BY <1>1, <1>3, <1>4, ClearIsFree DEF AcquireAllowed
<1>8. leases'[e].until > leases[e].until
  BY <1>1, <1>2, <1>6
<1>9. leases'[e].scopes = {l.scope : l \in AcquiredLocks(p)}
  BY <1>6
<1>10. leases[e].open /\ leases[e].scopes = {}
  BY <1>2
<1>11. leases' = [leases EXCEPT ![e] = leases'[e]]
  BY <1>1
<1>12. leases'[e].open /\ leases'[e] \in Ownership!Lease /\ clock' = clock
  BY <1>1, <1>6
<1>. HIDE DEF k
<1>. QED BY <1>7, <1>8, <1>9, <1>10, <1>11, <1>12, GrantMeans
LEMMA RenewIsProlong ==
  ASSUME IInv, NEW p \in Process, AppendClaim(p), RenewAllowed(p),
         call[p].draft = RenewedClaim(p), call[p].req.kind = "renew", ~ Overdue(p),
         NEW e \in ClaimId, e = call[p].req.claim
  PROVE  Ownership!Prolong(e)
<1>1. /\ clock' = clock /\ clock \in Nat
      /\ call[p] \in Call /\ call[p].at \in Nat /\ call[p].at <= clock
      /\ call[p].req.span \in Nat \ {0} /\ call[p].draft \in Claim
      /\ Uniform(call[p].draft) /\ pc[p] # "idle" /\ pc[p] = "append"
      /\ leases[e] = LeaseOf(Target(p))
      /\ leases' = [leases EXCEPT ![e] = LeaseOf(call[p].draft)]
      /\ leases'[e] = LeaseOf(call[p].draft) /\ leases'[e] \in Ownership!Lease
  BY AppendedLease
<1>2. Target(p) \in Claim /\ Uniform(Target(p))
  BY <1>1, TargetOK DEF IInv, RenewAllowed
<1>3. PICK old \in Target(p).locks : TRUE
  BY <1>2 DEF Claim
<1>4. old \in Lock /\ \A l \in Target(p).locks : l \in Lock
  BY <1>2, <1>3 DEF Claim
<1>5. /\ leases[e].scopes = LockedBy(Target(p)) /\ leases[e].until = old.expires
      /\ leases[e].open = (old.state = "active")
  BY <1>1, <1>2, <1>3, LeaseOfUniform
<1>6. call[p].draft.locks = {RenewedLock(l, call[p].at, RenewalExpiry(p)) : l \in Target(p).locks}
  BY <1>2 DEF RenewedClaim, WithLocks, Claim
<1>. DEFINE new == RenewedLock(old, call[p].at, RenewalExpiry(p))
<1>7. new \in call[p].draft.locks
  BY <1>3, <1>6
<1>8. CanRenew(old, call[p].at, RenewalExpiry(p))
  BY <1>3 DEF RenewAllowed
<1>9. new.expires = RenewalExpiry(p) /\ new.state = old.state
  BY <1>4 DEF RenewedLock, Lock
<1>10. LockedBy(call[p].draft) = LockedBy(Target(p))
  <2>1. \A l \in Target(p).locks : RenewedLock(l, call[p].at, RenewalExpiry(p)).scope = l.scope
    BY <1>4 DEF RenewedLock, Lock
  <2>. QED BY <1>6, <2>1 DEF LockedBy
<1>11. /\ leases'[e].scopes = LockedBy(Target(p)) /\ leases'[e].until = RenewalExpiry(p)
       /\ leases'[e].open = (old.state = "active")
  <2>. HIDE DEF new
  <2>. QED BY <1>1, <1>7, <1>9, <1>10, LeaseOfUniform
<1>12. leases[e].open /\ leases'[e].until > leases[e].until
  BY <1>4, <1>5, <1>8, <1>11 DEF CanRenew, ActiveLease
<1>13. clock < leases[e].until
  <2>1. OwnsScopeAt(old, clock)
    BY <1>1, <1>3, ConstantsAssumption DEF Overdue, RenewAllowed, Owned
  <2>. QED BY <1>1, <1>4, <1>5, <2>1 DEF OwnsScopeAt, StateAt, Lock
<1>14. leases'[e] = [leases[e] EXCEPT !.until = leases'[e].until]
  <2>1. leases[e] \in Ownership!Lease
    BY <1>1, <1>2, <1>3, LeaseOfUniform
  <2>. QED BY <1>1, <1>5, <1>11, <2>1 DEF Ownership!Lease
<1>15. leases' = [leases EXCEPT ![e] = leases'[e]]
  BY <1>1
<1>. QED BY <1>1, <1>12, <1>13, <1>14, <1>15, ProlongMeans

LEMMA ReacquireIsGrant ==
  ASSUME IInv, NEW p \in Process, AppendClaim(p), ReacquireAllowed(p),
         call[p].draft = ReacquiredClaim(p), 
         NEW e \in ClaimId, e = call[p].req.claim
  PROVE  Ownership!Grant(e)
<1>1. /\ clock' = clock /\ clock \in Nat
      /\ call[p] \in Call /\ call[p].at \in Nat /\ call[p].at <= clock
      /\ call[p].req.span \in Nat \ {0} /\ call[p].draft \in Claim
      /\ Uniform(call[p].draft) /\ pc[p] # "idle" /\ pc[p] = "append"
      /\ leases[e] = LeaseOf(Target(p))
      /\ leases' = [leases EXCEPT ![e] = LeaseOf(call[p].draft)]
      /\ leases'[e] = LeaseOf(call[p].draft) /\ leases'[e] \in Ownership!Lease
  BY AppendedLease
<1>2. Target(p) \in Claim /\ Uniform(Target(p))
  BY <1>1, TargetOK DEF IInv, ReacquireAllowed
<1>3. PICK old \in Target(p).locks : TRUE
  BY <1>2 DEF Claim
<1>4. old \in Lock /\ \A l \in Target(p).locks : l \in Lock
  BY <1>2, <1>3 DEF Claim
<1>5. /\ leases[e].scopes = LockedBy(Target(p)) /\ leases[e].until = old.expires
      /\ leases[e].open = (old.state = "active")
  BY <1>1, <1>2, <1>3, LeaseOfUniform
<1>6. call[p].draft.locks = ReacquiredLocks(p) /\ ReacquiredLocks(p) \in SUBSET Lock
  BY <1>1, <1>2 DEF ReacquiredClaim, WithLocks, Claim
<1>. DEFINE end == call[p].at + call[p].req.span
            new == ReacquiredLock(old, call[p].at, end)
<1>7. \A l \in Target(p).locks : LET m == ReacquiredLock(l, call[p].at, end) IN
        m.scope = l.scope /\ m.expires = end /\ m.state = "active"
  BY <1>4 DEF ReacquiredLock, Lock
<1>8. new \in call[p].draft.locks
  BY <1>3, <1>6 DEF ReacquiredLocks
<1>9. LockedBy(call[p].draft) = LockedBy(Target(p))
  BY <1>6, <1>7 DEF LockedBy, ReacquiredLocks
<1>10. leases'[e].scopes = LockedBy(Target(p)) /\ leases'[e].until = end /\ leases'[e].open
  <2>1. new.expires = end /\ new.state = "active"
    BY <1>3, <1>7
  <2>. HIDE DEF new
  <2>. QED BY <1>1, <1>8, <1>9, <2>1, LeaseOfUniform
<1>11. old.state = "active" /\ call[p].at >= old.expires
  <2>1. CanReacquire(old, call[p].at)
    BY <1>3 DEF ReacquireAllowed
  <2>. QED BY <1>4, <2>1 DEF CanReacquire, StateAt, Lock
<1>12. leases[e].open /\ leases'[e].until > leases[e].until
  <2>1. old.expires \in Nat /\ end > old.expires
    BY <1>1, <1>4, <1>11 DEF Lock
  <2>. HIDE DEF end
  <2>. QED BY <1>5, <1>10, <1>11, <2>1
<1>13. \A l \in ReacquiredLocks(p) : OwnsScopeAt(l, call[p].at)
  <2>1. \A l \in ReacquiredLocks(p) : l.expires = end /\ l.state = "active"
    BY <1>7 DEF ReacquiredLocks
  <2>. QED BY <1>1, <2>1 DEF OwnsScopeAt, StateAt
<1>14. Ownership!Free(e, {l.scope : l \in ReacquiredLocks(p)})
  BY <1>1, <1>6, <1>13, ClearIsFree DEF ReacquireAllowed
<1>15. leases'[e].scopes = {l.scope : l \in ReacquiredLocks(p)}
  BY <1>6, <1>9, <1>10 DEF LockedBy
<1>16. leases' = [leases EXCEPT ![e] = leases'[e]]
  BY <1>1
<1>17. leases'[e].scopes = leases[e].scopes
  BY <1>5, <1>10
<1>. HIDE DEF end, new
<1>. QED BY <1>1, <1>10, <1>12, <1>14, <1>15, <1>16, <1>17, GrantMeans

LEMMA ExtendIsWiden ==
  ASSUME IInv, NEW p \in Process, AppendClaim(p), ExtendAllowed(p),
         call[p].draft = ExtendedClaim(p), 
         NEW e \in ClaimId, e = call[p].req.claim
  PROVE  Ownership!Widen(e)
<1>1. /\ clock' = clock /\ clock \in Nat
      /\ call[p] \in Call /\ call[p].at \in Nat /\ call[p].at <= clock
      /\ call[p].req.span \in Nat \ {0} /\ call[p].draft \in Claim
      /\ Uniform(call[p].draft) /\ pc[p] # "idle" /\ pc[p] = "append"
      /\ leases[e] = LeaseOf(Target(p))
      /\ leases' = [leases EXCEPT ![e] = LeaseOf(call[p].draft)]
      /\ leases'[e] = LeaseOf(call[p].draft) /\ leases'[e] \in Ownership!Lease
  BY AppendedLease
<1>2. Target(p) \in Claim /\ Uniform(Target(p))
  BY <1>1, TargetOK DEF IInv, ExtendAllowed
<1>3. PICK old \in Target(p).locks : TRUE
  BY <1>2 DEF Claim
<1>4. old \in Lock /\ \A l \in Target(p).locks : l \in Lock
  BY <1>2, <1>3 DEF Claim
<1>5. /\ leases[e].scopes = LockedBy(Target(p)) /\ leases[e].until = old.expires
      /\ leases[e].open = (old.state = "active")
  BY <1>1, <1>2, <1>3, LeaseOfUniform
<1>6. call[p].draft.locks = Target(p).locks \cup AddedLocks(p)
  BY <1>2 DEF ExtendedClaim, WithLocks, Claim
<1>7. old \in call[p].draft.locks
  BY <1>3, <1>6
<1>8. /\ leases'[e].scopes = LockedBy(call[p].draft) /\ leases'[e].until = old.expires
      /\ leases'[e].open = (old.state = "active")
  BY <1>1, <1>7, LeaseOfUniform
<1>9. OwnsScopeAt(old, call[p].at)
  BY <1>3 DEF ExtendAllowed
<1>10. old.state = "active" /\ call[p].at < old.expires
  BY <1>1, <1>4, <1>9 DEF OwnsScopeAt, StateAt, Lock
<1>11. FirstLock(Target(p)).expires = old.expires
  BY <1>2, <1>3, FirstLockIn DEF Uniform
<1>12. \A l \in AddedLocks(p) : /\ l.expires = old.expires /\ l.state = "active"
                                /\ OwnsScopeAt(l, call[p].at)
  BY <1>1, <1>4, <1>10, <1>11 DEF AddedLocks, AcquiredLock, OwnsScopeAt, StateAt, Lock
<1>13. AddedLocks(p) \in SUBSET Lock
  BY <1>1, <1>6 DEF Claim
<1>14. Ownership!Free(e, {l.scope : l \in AddedLocks(p)})
  BY <1>1, <1>12, <1>13, ClearIsFree DEF ExtendAllowed
<1>15. {l.scope : l \in AddedLocks(p)} = NewScopes(p)
  <2>1. \A u : AcquiredLock(u, call[p].at, FirstLock(Target(p)).expires).scope = u
    BY DEF AcquiredLock
  <2>. QED BY <2>1 DEF AddedLocks
<1>16. LockedBy(call[p].draft) = LockedBy(Target(p)) \cup NewScopes(p)
  BY <1>6, <1>15 DEF LockedBy
<1>17. leases'[e].scopes \ leases[e].scopes = {l.scope : l \in AddedLocks(p)}
  BY <1>5, <1>8, <1>15, <1>16 DEF NewScopes
<1>18. /\ leases[e].open /\ leases'[e].open /\ leases'[e].until = leases[e].until
       /\ leases[e].scopes \subseteq leases'[e].scopes
       /\ leases' = [leases EXCEPT ![e] = leases'[e]]
  BY <1>1, <1>5, <1>8, <1>10, <1>16
<1>. QED BY <1>1, <1>14, <1>17, <1>18, WidenMeans

LEMMA ReleaseIsClose ==
  ASSUME IInv, NEW p \in Process, AppendClaim(p), ReleaseAllowed(p),
         call[p].draft = ReleasedClaim(p), 
         NEW e \in ClaimId, e = call[p].req.claim
  PROVE  Ownership!Close(e)
<1>1. /\ clock' = clock /\ clock \in Nat
      /\ call[p] \in Call /\ call[p].at \in Nat /\ call[p].at <= clock
      /\ call[p].req.span \in Nat \ {0} /\ call[p].draft \in Claim
      /\ Uniform(call[p].draft) /\ pc[p] # "idle" /\ pc[p] = "append"
      /\ leases[e] = LeaseOf(Target(p))
      /\ leases' = [leases EXCEPT ![e] = LeaseOf(call[p].draft)]
      /\ leases'[e] = LeaseOf(call[p].draft) /\ leases'[e] \in Ownership!Lease
  BY AppendedLease
<1>2. Target(p) \in Claim /\ Uniform(Target(p))
  BY <1>1, TargetOK DEF IInv, ReleaseAllowed
<1>3. PICK old \in Target(p).locks : TRUE
  BY <1>2 DEF Claim
<1>4. old \in Lock /\ \A l \in Target(p).locks : l \in Lock
  BY <1>2, <1>3 DEF Claim
<1>5. /\ leases[e].scopes = LockedBy(Target(p)) /\ leases[e].until = old.expires
      /\ leases[e].open = (old.state = "active")
  BY <1>1, <1>2, <1>3, LeaseOfUniform
<1>6. call[p].draft.locks = {ReleasedLock(l, call[p].at) : l \in Target(p).locks}
  BY <1>2 DEF ReleasedClaim, WithLocks, Claim
<1>. DEFINE new == ReleasedLock(old, call[p].at)
<1>7. \A l \in Target(p).locks : LET m == ReleasedLock(l, call[p].at) IN
        m.scope = l.scope /\ m.expires = l.expires /\ m.state = "released"
  BY <1>4 DEF ReleasedLock, Lock
<1>8. new \in call[p].draft.locks
  BY <1>3, <1>6
<1>9. LockedBy(call[p].draft) = LockedBy(Target(p))
  BY <1>6, <1>7 DEF LockedBy
<1>10. /\ leases'[e].scopes = LockedBy(Target(p)) /\ leases'[e].until = old.expires
       /\ leases'[e].open = FALSE
  <2>1. new.expires = old.expires /\ new.state = "released"
    BY <1>3, <1>7
  <2>. HIDE DEF new
  <2>. QED BY <1>1, <1>8, <1>9, <2>1, LeaseOfUniform
<1>11. leases[e].open
  BY <1>3, <1>5 DEF ReleaseAllowed, ActiveLease
<1>12. leases'[e] = [leases[e] EXCEPT !.open = FALSE]
  <2>1. leases[e] \in Ownership!Lease
    BY <1>1, <1>2, <1>3, LeaseOfUniform
  <2>. QED BY <1>1, <1>5, <1>10, <2>1 DEF Ownership!Lease
<1>13. leases' = [leases EXCEPT ![e] = [leases[e] EXCEPT !.open = FALSE]]
  BY <1>1, <1>12
<1>. QED BY <1>1, <1>11, <1>13, CloseMeans

LEMMA AppendImplements ==
  ASSUME IInv, NEW p \in Process, AppendClaim(p), ~ Overdue(p)
  PROVE  Ownership!Next
<1>1. call[p].req.claim \in ClaimId /\ Justified(p)
  BY AppendedLease
<1>2. PICK e \in ClaimId : e = call[p].req.claim
  BY <1>1
<1>3. CASE AcquireAllowed(p) /\ call[p].draft = AcquiredClaim(p)
  BY <1>2, <1>3, AcquireIsGrant DEF Ownership!Next
<1>4. CASE call[p].req.kind = "renew" /\ RenewAllowed(p) /\ call[p].draft = RenewedClaim(p)
  BY <1>2, <1>4, RenewIsProlong DEF Ownership!Next
<1>5. CASE ReacquireAllowed(p) /\ call[p].draft = ReacquiredClaim(p)
  BY <1>2, <1>5, ReacquireIsGrant DEF Ownership!Next
<1>6. CASE ExtendAllowed(p) /\ call[p].draft = ExtendedClaim(p)
  BY <1>2, <1>6, ExtendIsWiden DEF Ownership!Next
<1>7. CASE ReleaseAllowed(p) /\ call[p].draft = ReleasedClaim(p)
  BY <1>2, <1>7, ReleaseIsClose DEF Ownership!Next
<1>. QED BY <1>1, <1>3, <1>4, <1>5, <1>6, <1>7 DEF Justified

LEMMA UnchangedLeases ==
  ASSUME claims' = claims
  PROVE  leases' = leases
BY DEF leases, LeaseOf, FirstLock, LockedBy

LEMMA OtherStepsTick ==
  ASSUME [Next]_vars, \A p \in Process : ~ AppendClaim(p)
  PROVE  clock' = clock \/ clock' = clock + 1
BY DEF Next, vars, Tick, Begin, Crash, Run, ReadChangeSet, Acquire, Renew,
       Reacquire, Extend, Release, Propose, Refuse, Retry, GiveUp,
       TransitionChangeSet, AmendScope, WorkspaceRead, WorkspaceRefuse,
       RecordBinding

(* Every step of the service is one step of exclusive scope ownership,     *)
(* taken at the instant of the append, or none, or the append of an        *)
(* overdue renewal: snapshots, old timestamps, lost attempts and crashes   *)
(* are invisible to whoever only looks at who owns what.                   *)
THEOREM Implements == Spec => ImplementsOwnership
<1>. DEFINE A == Ownership!Next \/ \E p \in Process : Overdue(p) /\ AppendClaim(p)
<1>1. Init => Ownership!Init
  BY DEF Init, Ownership!Init, LeaseOf
<1>2. IInv /\ [Next]_vars => [A]_<<clock, [c \in ClaimId |-> LeaseOf(claims[c])]>>
  <2>1. SUFFICES ASSUME IInv, [Next]_vars
                 PROVE  A \/ (clock' = clock /\ leases' = leases)
    BY DEF leases
  <2>2. CASE \E p \in Process : AppendClaim(p)
    BY <2>1, <2>2, AppendImplements
  <2>3. CASE \A p \in Process : ~ AppendClaim(p)
    <3>1. leases' = leases /\ (clock' = clock \/ clock' = clock + 1)
      BY <2>1, <2>3, OtherStepsKeepClaims, OtherStepsTick, UnchangedLeases
    <3>2. CASE clock' = clock + 1
      BY <3>1, <3>2 DEF Ownership!Next, Ownership!Pass, leases
    <3>. QED BY <3>1, <3>2
  <2>. QED BY <2>2, <2>3
<1>. QED BY <1>1, <1>2, Invariance, PTL DEF Spec, ImplementsOwnership

(* Where no renewal is overdue when it is appended, the service implements *)
(* the abstract leases, and what they exclude it excludes.                 *)
THEOREM TimelyImplements == TimelySpec => Ownership!Spec
<1>1. Init => Ownership!Init
  BY DEF Init, Ownership!Init, LeaseOf
<1>2. IInv /\ [TimelyNext]_vars =>
        [Ownership!Next]_<<clock, [c \in ClaimId |-> LeaseOf(claims[c])]>>
  <2>1. SUFFICES ASSUME IInv, [TimelyNext]_vars
                 PROVE  Ownership!Next \/ (clock' = clock /\ leases' = leases)
    BY DEF leases
  <2>2. CASE \E p \in Process : TimelyNext /\ AppendClaim(p)
    BY <2>1, <2>2, AppendImplements DEF TimelyNext
  <2>3. CASE \A p \in Process : ~ AppendClaim(p)
    <3>1. [Next]_vars
      BY <2>1 DEF TimelyNext
    <3>2. leases' = leases /\ (clock' = clock \/ clock' = clock + 1)
      BY <2>3, <3>1, OtherStepsKeepClaims, OtherStepsTick, UnchangedLeases
    <3>3. CASE clock' = clock + 1
      BY <3>2, <3>3 DEF Ownership!Next, Ownership!Pass, leases
    <3>. QED BY <3>2, <3>3
  <2>4. CASE UNCHANGED vars
    BY <2>4, UnchangedLeases DEF vars
  <2>. QED BY <2>1, <2>2, <2>3, <2>4
<1>3. IInv /\ [TimelyNext]_vars => IInv'
  BY InvStep DEF TimelyNext
<1>. QED BY <1>1, <1>2, <1>3, InitInv, PTL DEF TimelySpec, Ownership!Spec

-----------------------------------------------------------------------------
(* The abstract leases do exclude one another, for any owners and leases   *)
(* and any symmetric relation of competition: together with what is proved *)
(* above, this says what a claim is worth to its owner.                    *)

CONSTANT Owner

VARIABLES now, lease

Leases == INSTANCE ScopeOwnership

Typed == now \in Nat /\ lease \in [Owner -> Leases!Lease]

Symmetric == \A s, u \in Scope : <<s, u>> \in Overlap => <<u, s>> \in Overlap

LEMMA TypedStep == Typed /\ [Leases!Next]_<<now, lease>> => Typed'
<1>1. SUFFICES ASSUME Typed, [Leases!Next]_<<now, lease>> PROVE Typed'
  OBVIOUS
<1>2. CASE Leases!Pass
  BY <1>1, <1>2 DEF Leases!Pass, Typed
<1>3. ASSUME NEW o \in Owner, Leases!Grant(o) \/ Leases!Widen(o) \/ Leases!Prolong(o)
      PROVE  Typed'
  BY <1>1, <1>3 DEF Leases!Grant, Leases!Widen, Leases!Prolong, Leases!Becomes, Typed
<1>4. ASSUME NEW o \in Owner, Leases!Close(o)
      PROVE  Typed'
  <2>1. [lease[o] EXCEPT !.open = FALSE] \in Leases!Lease
    BY <1>1 DEF Typed, Leases!Lease
  <2>. QED BY <1>1, <1>4, <2>1 DEF Leases!Close, Leases!Becomes, Typed
<1>. QED BY <1>1, <1>2, <1>3, <1>4 DEF Leases!Next, Typed

(* Owner o is alone in changing its lease, and what it holds afterwards    *)
(* competes with nothing the others hold.                                  *)
LEMMA AloneIsEnough ==
  ASSUME Symmetric, Typed, Typed', Leases!Exclusion, NEW o \in Owner, now' = now,
         \A q \in Owner \ {o} : lease'[q] = lease[q],
         Leases!Held(o)' =>
           \A q \in Owner \ {o} :
             Leases!Held(q) => ~ Leases!Competing(lease'[o].scopes, lease[q].scopes)
  PROVE  Leases!Exclusion'
<1>1. SUFFICES ASSUME NEW a \in Owner, NEW b \in Owner, a # b,
                      Leases!Held(a)', Leases!Held(b)',
                      Leases!Competing(lease'[a].scopes, lease'[b].scopes)
               PROVE  FALSE
  BY DEF Leases!Exclusion, Leases!Competing
<1>2. \A q \in Owner : lease'[q].scopes \subseteq Scope
  BY DEF Typed, Leases!Lease
<1>3. Leases!Competing(lease'[b].scopes, lease'[a].scopes)
  BY <1>1, <1>2 DEF Leases!Competing, Symmetric
<1>4. \A q \in Owner \ {o} : Leases!Held(q)' => Leases!Held(q)
  BY DEF Leases!Held
<1>5. CASE a = o
  BY <1>1, <1>4, <1>5 DEF Leases!Competing
<1>6. CASE b = o
  BY <1>1, <1>3, <1>4, <1>6 DEF Leases!Competing
<1>7. CASE a # o /\ b # o
  BY <1>1, <1>4, <1>7 DEF Leases!Exclusion, Leases!Competing
<1>. QED BY <1>5, <1>6, <1>7

LEMMA ExclusionStep ==
  Symmetric /\ Typed /\ Leases!Exclusion /\ [Leases!Next]_<<now, lease>>
    => Leases!Exclusion'
<1>1. SUFFICES ASSUME Symmetric, Typed, Leases!Exclusion, [Leases!Next]_<<now, lease>>
               PROVE  Leases!Exclusion'
  OBVIOUS
<1>2. Typed'
  BY <1>1, TypedStep
<1>3. CASE Leases!Pass
  <2>1. \A q \in Owner : Leases!Held(q)' => Leases!Held(q)
    BY <1>1, <1>3 DEF Leases!Pass, Leases!Held, Typed, Leases!Lease
  <2>. QED BY <1>1, <1>3, <2>1 DEF Leases!Pass, Leases!Exclusion
<1>4. CASE UNCHANGED <<now, lease>>
  BY <1>1, <1>4 DEF Leases!Exclusion, Leases!Held
<1>5. ASSUME NEW o \in Owner, Leases!Grant(o) PROVE Leases!Exclusion'
  <2>1. now' = now /\ \A q \in Owner \ {o} : lease'[q] = lease[q]
    BY <1>1, <1>5 DEF Leases!Grant, Leases!Becomes, Typed
  <2>. QED BY <1>1, <1>2, <1>5, <2>1, AloneIsEnough DEF Leases!Grant, Leases!Free
<1>6. ASSUME NEW o \in Owner, Leases!Widen(o) PROVE Leases!Exclusion'
  <2>1. now' = now /\ \A q \in Owner \ {o} : lease'[q] = lease[q]
    BY <1>1, <1>6 DEF Leases!Widen, Leases!Becomes, Typed
  <2>2. Leases!Held(o)' => Leases!Held(o)
    BY <1>1, <1>6, <2>1 DEF Leases!Widen, Leases!Held
  <2>3. ASSUME Leases!Held(o)', NEW q \in Owner \ {o}, Leases!Held(q)
        PROVE  ~ Leases!Competing(lease'[o].scopes, lease[q].scopes)
    <3>1. ~ Leases!Competing(lease[o].scopes, lease[q].scopes)
      BY <1>1, <2>2, <2>3 DEF Leases!Exclusion
    <3>2. ~ Leases!Competing(lease'[o].scopes \ lease[o].scopes, lease[q].scopes)
      BY <1>6, <2>3 DEF Leases!Widen, Leases!Free
    <3>. QED BY <3>1, <3>2 DEF Leases!Competing
  <2>. QED BY <1>1, <1>2, <2>1, <2>3, AloneIsEnough
<1>7. ASSUME NEW o \in Owner, Leases!Prolong(o) PROVE Leases!Exclusion'
  <2>1. now' = now /\ \A q \in Owner \ {o} : lease'[q] = lease[q]
    BY <1>1, <1>7 DEF Leases!Prolong, Leases!Becomes, Typed
  <2>2. Leases!Held(o) /\ lease'[o].scopes = lease[o].scopes
    BY <1>1, <1>7 DEF Leases!Prolong, Typed, Leases!Lease
  <2>3. \A q \in Owner \ {o} :
          Leases!Held(q) => ~ Leases!Competing(lease'[o].scopes, lease[q].scopes)
    BY <1>1, <2>2 DEF Leases!Exclusion
  <2>. QED BY <1>1, <1>2, <2>1, <2>3, AloneIsEnough
<1>8. ASSUME NEW o \in Owner, Leases!Close(o) PROVE Leases!Exclusion'
  <2>1. now' = now /\ \A q \in Owner \ {o} : lease'[q] = lease[q]
    BY <1>1, <1>8 DEF Leases!Close, Leases!Becomes, Typed
  <2>2. ~ Leases!Held(o)'
    BY <1>1, <1>8 DEF Leases!Close, Leases!Becomes, Leases!Held, Typed, Leases!Lease
  <2>. QED BY <1>1, <1>2, <2>1, <2>2, AloneIsEnough
<1>. QED BY <1>1, <1>3, <1>4, <1>5, <1>6, <1>7, <1>8 DEF Leases!Next

(* Leases that are granted, widened and prolonged only as ScopeOwnership   *)
(* allows never let two owners hold competing scopes.                      *)
THEOREM OwnershipExcludes ==
  ASSUME Symmetric
  PROVE  Leases!Spec => []Leases!Exclusion
<1>1. Leases!Init => Typed /\ Leases!Exclusion
  BY DEF Leases!Init, Typed, Leases!Lease, Leases!Exclusion, Leases!Held
<1>2. Typed /\ [Leases!Next]_<<now, lease>> => Typed'
  BY TypedStep
<1>3. Typed /\ Leases!Exclusion /\ [Leases!Next]_<<now, lease>> => Leases!Exclusion'
  BY ExclusionStep
<1>. QED BY <1>1, <1>2, <1>3, PTL DEF Leases!Spec
=============================================================================
