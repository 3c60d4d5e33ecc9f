---------------------------- MODULE ClaimService ----------------------------
(***************************************************************************)
(* application/claims.py: ownership claims over Change Set scopes, recorded*)
(* in an append-only ledger that every process shares.  A service call     *)
(* reads its timestamp first, then loops: take a ledger snapshot, check it,*)
(* build the next claim record, append it only if the ledger head has not  *)
(* moved.  Other processes, the clock and crashes run between any two of   *)
(* those steps.                                                            *)
(*                                                                         *)
(* The ledger appears as its length, head, which stands for the digest of  *)
(* its last entry (entries are never removed, so equal heads mean equal    *)
(* ledgers), and as the latest record of every claim and Change Set, which *)
(* is all that the services read from it.                                  *)
(***************************************************************************)
EXTENDS SemanticLock

CONSTANTS
  Process,        \* running service calls: CLI invocations, HTTP or MCP handlers
  Session,        \* owning agent and session identities
  SessionOf,      \* the session each process acts for
  ClaimId,
  ChangeSet,
  DeclaredScopes, \* the scopes each Change Set was created with
  Requests,       \* the calls that processes may make
  NoClaim, NoCall,
  MaxTime,        \* bound: the clock stops here
  MaxHead,        \* bound: no call begins once the ledger is this long
  MaxTries        \* attempts of the optimistic loop (8 in the code)

Lifecycle == {"active", "review", "merged", "closed", "abandoned"}

Kind == {"acquire", "renew", "reacquire", "extend", "release", "transition"}

(* span is the lease or extension in seconds, added the scopes extend_scope*)
(* asks for, bound whether reacquire carries an expected ledger digest, to *)
(* the state a transition asks for.                                        *)
Request == [kind : Kind, claim : ClaimId, cs : ChangeSet, span : Nat \ {0},
            added : SUBSET Scope, bound : BOOLEAN, to : Lifecycle]

Claim == [cs : ChangeSet, session : Session,
          locks : (SUBSET Lock) \ {{}}]

Binding == [scopes : SUBSET Scope, state : Lifecycle, updated : Nat]

(* What a call holds in its local variables: its timestamp, the head its   *)
(* caller knew, the scopes it wants locked or declared, the attempts used, *)
(* the head of its snapshot and the records it is about to append.         *)
Call == [req : Request, at : Nat, began : Nat, wanted : SUBSET Scope,
         tries : Nat, seen : Nat, draft : Claim \cup {NoClaim},
         binding : Binding]

Pc == {"idle", "read", "loop", "append", "wsread", "wsappend"}

ASSUME ConstantsAssumption ==
  /\ SessionOf \in [Process -> Session]
  /\ DeclaredScopes \in [ChangeSet -> SUBSET Scope]
  /\ Requests \subseteq Request
  /\ NoClaim \notin Claim
  /\ NoCall \notin Call
  /\ MaxTime \in Nat /\ MaxHead \in Nat /\ MaxTries \in Nat \ {0}

VARIABLES
  clock,      \* the wall clock all processes read
  head,       \* length of the ledger
  claims,     \* latest record of each claim
  changesets, \* latest record of each Change Set
  pc,         \* where each process is
  call        \* the call each process is making

vars == <<clock, head, claims, changesets, pc, call>>

Init ==
  /\ clock = 0
  /\ head = 0
  /\ claims = [c \in ClaimId |-> NoClaim]
  /\ changesets = [cs \in ChangeSet |->
       [scopes |-> DeclaredScopes[cs], state |-> "active", updated |-> 0]]
  /\ pc = [p \in Process |-> "idle"]
  /\ call = [p \in Process |-> NoCall]
-----------------------------------------------------------------------------
(* What a call decides from a snapshot.  claims is the snapshot: the two   *)
(* are taken in one step.                                                  *)

Target(p) == claims[call[p].req.claim]

(* _require_claim and _require_owner.                                      *)
Owned(p) == Target(p) # NoClaim /\ Target(p).session = SessionOf[p]

LockedBy(k) == {lock.scope : lock \in k.locks}

(* None of the new locks competes, at that instant, with one of another    *)
(* claim.                                                                  *)
Clear(c, locks, at) ==
  \A d \in ClaimId \ {c} : claims[d] # NoClaim =>
    \A lock \in locks, other \in claims[d].locks :
      ~ ConflictsWith(lock, other, at)

WithLocks(k, locks) == [k EXCEPT !.locks = locks]

AcquiredLocks(p) ==
  {AcquiredLock(s, call[p].at, call[p].at + call[p].req.span) :
     s \in call[p].wanted}

(* Mutant: an id that is taken is taken again.                             *)
AcquireAnyId(p) ==
  /\ call[p].wanted # {}
  /\ Clear(call[p].req.claim, AcquiredLocks(p), call[p].at)

AcquireAllowed(p) ==
  /\ Target(p) = NoClaim
  /\ call[p].wanted # {}
  /\ Clear(call[p].req.claim, AcquiredLocks(p), call[p].at)

AcquiredClaim(p) ==
  [cs |-> call[p].req.cs, session |-> SessionOf[p], locks |-> AcquiredLocks(p)]

LastExpiry(k) ==
  CHOOSE t \in {lock.expires : lock \in k.locks} :
    \A lock \in k.locks : lock.expires <= t

RenewalExpiry(p) == LastExpiry(Target(p)) + call[p].req.span

(* No check against other claims: the lease is taken to be still running.  *)
RenewAllowed(p) ==
  /\ Owned(p)
  /\ \A lock \in Target(p).locks : CanRenew(lock, call[p].at, RenewalExpiry(p))

RenewedClaim(p) ==
  WithLocks(Target(p), {RenewedLock(lock, call[p].at, RenewalExpiry(p)) :
                          lock \in Target(p).locks})

ReacquiredLocks(p) ==
  {ReacquiredLock(lock, call[p].at, call[p].at + call[p].req.span) :
     lock \in Target(p).locks}

ReacquireAllowed(p) ==
  /\ call[p].req.bound => head = call[p].began
  /\ Owned(p)
  /\ \A lock \in Target(p).locks : CanReacquire(lock, call[p].at)
  /\ Clear(call[p].req.claim, ReacquiredLocks(p), call[p].at)

ReacquiredClaim(p) == WithLocks(Target(p), ReacquiredLocks(p))

NewScopes(p) == call[p].req.added \ LockedBy(Target(p))

FirstLock(k) == CHOOSE lock \in k.locks : TRUE

(* The added locks take the expiry of the claim's first lock.              *)
AddedLocks(p) ==
  {AcquiredLock(s, call[p].at, FirstLock(Target(p)).expires) :
     s \in NewScopes(p)}

(* Mutant: the added scopes are not checked against other claims.          *)
ExtendUnchecked(p) ==
  /\ Owned(p)
  /\ \A lock \in Target(p).locks : OwnsScopeAt(lock, call[p].at)
  /\ NewScopes(p) # {}

ExtendAllowed(p) ==
  /\ Owned(p)
  /\ \A lock \in Target(p).locks : OwnsScopeAt(lock, call[p].at)
  /\ NewScopes(p) # {}
  /\ Clear(call[p].req.claim, AddedLocks(p), call[p].at)

(* Mutant: the declaration is widened under the locks the claim had.       *)
ExtendedNoLock(p) == Target(p)

ExtendedClaim(p) == WithLocks(Target(p), Target(p).locks \cup AddedLocks(p))

ReleaseAllowed(p) ==
  /\ Owned(p)
  /\ \A lock \in Target(p).locks : ActiveLease(lock, call[p].at)

ReleasedClaim(p) ==
  WithLocks(Target(p), {ReleasedLock(lock, call[p].at) : lock \in Target(p).locks})

Allowed(p) ==
  \/ call[p].req.kind = "acquire" /\ AcquireAllowed(p)
  \/ call[p].req.kind = "renew" /\ RenewAllowed(p)
  \/ call[p].req.kind = "reacquire" /\ ReacquireAllowed(p)
  \/ call[p].req.kind = "extend" /\ ExtendAllowed(p)
  \/ call[p].req.kind = "release" /\ ReleaseAllowed(p)
-----------------------------------------------------------------------------
(* The steps of a call.                                                    *)

Return(p) ==
  /\ pc' = [pc EXCEPT ![p] = "idle"]
  /\ call' = [call EXCEPT ![p] = NoCall]

(* The caller reads the clock and enters the service.                      *)
Begin(p, q) ==
  /\ pc[p] = "idle"
  /\ head < MaxHead
  /\ pc' = [pc EXCEPT ![p] = CASE q.kind = "acquire" -> "read"
                               [] q.kind = "transition" -> "wsread"
                               [] OTHER -> "loop"]
  /\ call' = [call EXCEPT ![p] =
       [req |-> q, at |-> clock, began |-> head, wanted |-> {}, tries |-> 0,
        seen |-> head, draft |-> NoClaim, binding |-> changesets[q.cs]]]
  /\ UNCHANGED <<clock, head, claims, changesets>>

(* acquire reads the declared scopes once, before its loop.                *)
ReadChangeSet(p) ==
  /\ pc[p] = "read"
  /\ pc' = [pc EXCEPT ![p] = "loop"]
  /\ call' = [call EXCEPT ![p].wanted = changesets[call[p].req.cs].scopes]
  /\ UNCHANGED <<clock, head, claims, changesets>>

InLoop(p, kind) == pc[p] = "loop" /\ call[p].req.kind = kind

(* The record is built and waits to be appended at the head just read.     *)
Propose(p, record, scopes) ==
  /\ pc' = [pc EXCEPT ![p] = "append"]
  /\ call' = [call EXCEPT ![p].seen = head, ![p].draft = record,
                          ![p].wanted = scopes]
  /\ UNCHANGED <<clock, head, claims, changesets>>

Acquire(p) ==
  InLoop(p, "acquire") /\ AcquireAllowed(p) /\ Propose(p, AcquiredClaim(p), call[p].wanted)

Renew(p) ==
  InLoop(p, "renew") /\ RenewAllowed(p) /\ Propose(p, RenewedClaim(p), {})

Reacquire(p) ==
  InLoop(p, "reacquire") /\ ReacquireAllowed(p) /\ Propose(p, ReacquiredClaim(p), {})

Extend(p) ==
  InLoop(p, "extend") /\ ExtendAllowed(p) /\ Propose(p, ExtendedClaim(p), NewScopes(p))

Release(p) ==
  InLoop(p, "release") /\ ReleaseAllowed(p) /\ Propose(p, ReleasedClaim(p), {})

(* A check of the loop body raises.                                        *)
Refuse(p) ==
  /\ pc[p] = "loop"
  /\ ~ Allowed(p)
  /\ Return(p)
  /\ UNCHANGED <<clock, head, claims, changesets>>

(* Mutant: the append does not compare the head.                           *)
HeadIgnored(p) == TRUE

HeadUnmoved(p) == head = call[p].seen

(* _append succeeds; extend_scope goes on to amend the Change Set.         *)
AppendClaim(p) ==
  /\ pc[p] = "append"
  /\ HeadUnmoved(p)
  /\ claims' = [claims EXCEPT ![call[p].req.claim] = call[p].draft]
  /\ head' = head + 1
  /\ IF call[p].req.kind = "extend"
     THEN pc' = [pc EXCEPT ![p] = "wsread"] /\ call' = call
     ELSE Return(p)
  /\ UNCHANGED <<clock, changesets>>

(* Mutants: the same record is offered again, counted or not, with no new  *)
(* snapshot.                                                               *)
RetryStale(p) ==
  /\ pc[p] = "append"
  /\ ~ HeadUnmoved(p)
  /\ call[p].tries + 1 < MaxTries
  /\ call' = [call EXCEPT ![p].tries = @ + 1]
  /\ UNCHANGED <<clock, head, claims, changesets, pc>>

(* LedgerHeadChanged with attempts left: take a new snapshot.  A            *)
(* reacquisition bound to a digest never retries.                          *)
Retry(p) ==
  /\ pc[p] = "append"
  /\ ~ HeadUnmoved(p)
  /\ ~ (call[p].req.kind = "reacquire" /\ call[p].req.bound)
  /\ call[p].tries + 1 < MaxTries
  /\ pc' = [pc EXCEPT ![p] = "loop"]
  /\ call' = [call EXCEPT ![p].tries = @ + 1]
  /\ UNCHANGED <<clock, head, claims, changesets>>

(* LedgerHeadChanged on the last attempt, or on a bound reacquisition.      *)
GiveUp(p) ==
  /\ pc[p] = "append"
  /\ ~ HeadUnmoved(p)
  /\ \/ call[p].req.kind = "reacquire" /\ call[p].req.bound
     \/ call[p].tries + 1 >= MaxTries
  /\ Return(p)
  /\ UNCHANGED <<clock, head, claims, changesets>>
-----------------------------------------------------------------------------
(* WorkspaceService: read the Change Set, compute, append unconditionally. *)

(* extend_scope amends the Change Set its claim names.                     *)
Subject(p) ==
  IF call[p].req.kind = "extend" THEN call[p].draft.cs ELSE call[p].req.cs

CurrentBinding(p) == changesets[Subject(p)]

Transitions ==
  {<<"active", "review">>, <<"active", "abandoned">>,
   <<"review", "active">>, <<"review", "merged">>, <<"review", "abandoned">>,
   <<"merged", "closed">>}

TransitionAllowed(p) ==
  /\ <<CurrentBinding(p).state, call[p].req.to>> \in Transitions
  /\ call[p].at >= CurrentBinding(p).updated

AmendAllowed(p) ==
  /\ CurrentBinding(p).state \in {"active", "review"}
  /\ ~ (call[p].wanted \subseteq CurrentBinding(p).scopes)
  /\ call[p].at >= CurrentBinding(p).updated

AtRead(p, kind) == pc[p] = "wsread" /\ call[p].req.kind = kind

WorkspaceRead(p, record) ==
  /\ pc' = [pc EXCEPT ![p] = "wsappend"]
  /\ call' = [call EXCEPT ![p].binding = record]
  /\ UNCHANGED <<clock, head, claims, changesets>>

TransitionChangeSet(p) ==
  /\ AtRead(p, "transition")
  /\ TransitionAllowed(p)
  /\ WorkspaceRead(p,
       [CurrentBinding(p) EXCEPT !.state = call[p].req.to, !.updated = call[p].at])

AmendScope(p) ==
  /\ AtRead(p, "extend")
  /\ AmendAllowed(p)
  /\ WorkspaceRead(p,
       [CurrentBinding(p) EXCEPT !.scopes = @ \cup call[p].wanted,
                                 !.updated = call[p].at])

WorkspaceRefuse(p) ==
  /\ pc[p] = "wsread"
  /\ ~ (call[p].req.kind = "transition" /\ TransitionAllowed(p))
  /\ ~ (call[p].req.kind = "extend" /\ AmendAllowed(p))
  /\ Return(p)
  /\ UNCHANGED <<clock, head, claims, changesets>>

RecordBinding(p) ==
  /\ pc[p] = "wsappend"
  /\ changesets' = [changesets EXCEPT ![Subject(p)] = call[p].binding]
  /\ head' = head + 1
  /\ Return(p)
  /\ UNCHANGED <<clock, claims>>
-----------------------------------------------------------------------------
(* The process dies; what it appended stays.                               *)
Crash(p) ==
  /\ pc[p] # "idle"
  /\ Return(p)
  /\ UNCHANGED <<clock, head, claims, changesets>>

Tick ==
  /\ clock < MaxTime
  /\ clock' = clock + 1
  /\ UNCHANGED <<head, claims, changesets, pc, call>>

(* The next step of a call in progress.                                    *)
Run(p) ==
  \/ ReadChangeSet(p)
  \/ Acquire(p) \/ Renew(p) \/ Reacquire(p) \/ Extend(p) \/ Release(p)
  \/ Refuse(p) \/ AppendClaim(p) \/ Retry(p) \/ GiveUp(p)
  \/ TransitionChangeSet(p) \/ AmendScope(p) \/ WorkspaceRefuse(p)
  \/ RecordBinding(p)

Next ==
  \/ Tick
  \/ \E p \in Process : \/ \E q \in Requests : Begin(p, q)
                        \/ Run(p)
                        \/ Crash(p)

Spec == Init /\ [][Next]_vars
-----------------------------------------------------------------------------
(* The type of the state.                                                  *)
TypeOK ==
  /\ clock \in Nat
  /\ head \in Nat
  /\ claims \in [ClaimId -> Claim \cup {NoClaim}]
  /\ changesets \in [ChangeSet -> Binding]
  /\ pc \in [Process -> Pc]
  /\ call \in [Process -> Call \cup {NoCall}]
  /\ \A p \in Process : pc[p] # "idle" => call[p] \in Call

(* Two claims hold competing locks at this very moment.                    *)
Clash(c, d) ==
  /\ c # d
  /\ claims[c] # NoClaim /\ claims[d] # NoClaim
  /\ \E lock \in claims[c].locks, other \in claims[d].locks :
       ConflictsWith(lock, other, clock)

(* No two claims ever own overlapping scopes at the same time              *)
(* (ClaimConflict: "an active claim already owns an overlapping scope").   *)
Exclusive == \A c, d \in ClaimId : ~ Clash(c, d)

(* A renewal about to be appended although the lease it renews has run out *)
(* since the caller read its timestamp.                                    *)
Overdue(p) ==
  /\ pc[p] = "append"
  /\ call[p].req.kind = "renew"
  /\ Target(p) # NoClaim
  /\ \E lock \in Target(p).locks : ~ OwnsScopeAt(lock, clock)

(* Whatever the interleaving, stale timestamps and retries, the only step  *)
(* that can make two claims compete is the append of an overdue renewal:   *)
(* acquire, reacquire and extend_scope are safe even with an old timestamp.*)
OnlyOverdueRenewalClashes ==
  [][(\E c, d \in ClaimId : ~ Clash(c, d) /\ Clash(c, d)')
     => \E p \in Process : Overdue(p) /\ AppendClaim(p)]_vars

(* The code run where no renewal is overdue when it is appended.           *)
TimelyNext == Next /\ \A p \in Process : Overdue(p) => ~ AppendClaim(p)

TimelySpec == Init /\ [][TimelyNext]_vars

(* Claim.state_at raises when a claim's locks disagree, and a claim with   *)
(* two locks on one scope cannot be read back: a claim that was widened,   *)
(* renewed and reacquired in any order still moves as one.                 *)
Uniform(k) ==
  \A lock, other \in k.locks :
    /\ lock.expires = other.expires
    /\ lock.state = other.state
    /\ lock.scope = other.scope => lock = other

UniformLocks ==
  \A c \in ClaimId : claims[c] # NoClaim => Uniform(claims[c])

(* A recorded claim keeps its Change Set and owner, never drops a locked   *)
(* scope, never has its lease shortened and never leaves "released": no    *)
(* call that read an older record can overwrite a newer one.               *)
Preserves(old, new) ==
  /\ new # NoClaim
  /\ new.cs = old.cs /\ new.session = old.session
  /\ \A lock \in old.locks : \E later \in new.locks :
       /\ later.scope = lock.scope
       /\ later.expires >= lock.expires
       /\ lock.state = "released" => later.state = "released"

ClaimNeverRegresses ==
  [][\A c \in ClaimId :
       claims[c] # NoClaim => Preserves(claims[c], claims'[c])]_vars

(* "ledger remained busy" is never raised without contention: every        *)
(* attempt a call has lost is an entry some other call has appended.       *)
LostAttemptsAreProgress ==
  \A p \in Process : pc[p] # "idle" =>
    call[p].began + call[p].tries <= head

(* Locks come first: a scope a Change Set declares beyond those it was     *)
(* created with is locked, in the record, by a claim of that Change Set.   *)
WideningIsLocked ==
  \A cs \in ChangeSet : \A s \in changesets[cs].scopes \ DeclaredScopes[cs] :
    \E c \in ClaimId : /\ claims[c] # NoClaim
                       /\ claims[c].cs = cs
                       /\ s \in LockedBy(claims[c])
-----------------------------------------------------------------------------
(* The claims of the code as the leases of ScopeOwnership.                 *)
LeaseOf(k) ==
  IF k = NoClaim THEN [scopes |-> {}, until |-> 0, open |-> TRUE]
  ELSE [scopes |-> LockedBy(k), until |-> FirstLock(k).expires,
        open |-> FirstLock(k).state = "active"]

Ownership == INSTANCE ScopeOwnership WITH
  Owner <- ClaimId, now <- clock, lease <- [c \in ClaimId |-> LeaseOf(claims[c])]

(* Every step of the service is a step of exclusive scope ownership, taken *)
(* at one instant, or the append of an overdue renewal: snapshots, stale   *)
(* timestamps, retries and crashes are invisible to whoever only looks at  *)
(* who owns what, and what an overdue renewal did breaks no later step.    *)
ImplementsOwnership ==
  /\ Ownership!Init
  /\ [][Ownership!Next \/ \E p \in Process : Overdue(p) /\ AppendClaim(p)]_<<
         clock, [c \in ClaimId |-> LeaseOf(claims[c])]>>
=============================================================================
