----------------------------- MODULE FrogIntent -----------------------------
(***************************************************************************)
(* From an external plan to local work: Frog snapshots recorded once       *)
(* (application/frog_receipts.py, and in the same way bundles,             *)
(* bundle_import.py), what they say is eligible (frog_planning.py), a task *)
(* of one promoted into a local Change Set (frog_promotions.py) and        *)
(* claimed (frog_task_claims.py).                                          *)
(*                                                                         *)
(* A claim is one command of five appends at most: the reservation of the  *)
(* Change Set's identity, the Change Set, the completion of the promotion  *)
(* and the claim.  The reservation and the claim are appended only to the  *)
(* log that was read; the Change Set and the completion to any.  A process *)
(* may die between any two steps, and the command is then repeated.        *)
(*                                                                         *)
(* Leases do not run out here (ClaimService), a Change Set stays active    *)
(* (ChangeWorkflow), and the base revision, which is compared as the       *)
(* scopes are, is the same in all requests.                                *)
(***************************************************************************)
EXTENDS Naturals, Sequences, FiniteSets, SequencesExt

CONSTANTS
  Caller,     \* processes
  Digest,     \* snapshots, known by the digest of what they contain
  Slug,       \* the tasks in them
  Status,     \* [Digest -> [Slug -> their workflow status]]
  DependsOn,  \* [Digest -> pairs (task, dependency)]
  Conflicts,  \* [Digest -> pairs of tasks], as the source lists them
  Scope,      \* scopes, no two of which overlap
  Session,
  Named,      \* the Change Set ids callers may name
  Requests,   \* what callers may ask
  None,
  MaxCalls,   \* bound on the calls
  MaxTries    \* bound on lost appends (8 in the code)

Task == Digest \X Slug
Change == Named \cup 1..MaxCalls    \* a generated id is a number

Request ==
  [op : {"import", "bundle"}, digest : Digest] \cup
  [op : {"claim"}, task : Task, change : Named \cup {None}, claim : Named \cup {None},
   scopes : (SUBSET Scope) \ {{}}, session : Session] \cup
  [op : {"amend"}, change : Named, added : SUBSET Scope] \cup
  [op : {"release"}, claim : Named, session : Session]

ASSUME FrogAssumption ==
  /\ None \notin Change /\ Requests \subseteq Request
  /\ Named \cap 1..MaxCalls = {}
  /\ Status \in [Digest -> [Slug -> {"done", "blocked", "in_progress", "open"}]]
  /\ DependsOn \in [Digest -> SUBSET (Slug \X Slug)]
  /\ Conflicts \in [Digest -> SUBSET (Slug \X Slug)]
  /\ MaxCalls \in Nat /\ MaxTries \in Nat \ {0}

VARIABLES
  log,      \* the ledger
  call,     \* the call each process is in
  made,     \* calls made so far
  answers   \* what callers of claim were told

vars == <<log, call, made, answers>>

(* The records, each kind with what the services read back from it.        *)
Receipt == [kind : {"frog_snapshot"}, id : Digest]
Bundle == [kind : {"imported_bundle"}, id : Digest]
Promotion == [kind : {"frog_task_promotion"}, id : Task, change : Change,
              scopes : SUBSET Scope, done : BOOLEAN]
ChangeSet == [kind : {"changeset"}, id : Change, scopes : SUBSET Scope]
Claim == [kind : {"claim"}, id : Change, change : Change, scopes : SUBSET Scope,
          session : Session, open : BOOLEAN]

Entry == Receipt \cup Bundle \cup Promotion \cup ChangeSet \cup Claim

Nothing == [kind |-> "nothing"]

Pc == {"idle", "snapshot", "record", "eligible", "latest", "reading", "reserve",
       "get", "create", "plan", "complete", "claims", "scopes", "acquiring",
       "acquire", "load", "store", "releasing", "release"}

(* What a call has read: the last promotion or Change Set, and the head.   *)
Call == [pc : Pc, req : Request \cup {None}, n : 0..MaxCalls,
         promo : Promotion \cup {Nothing}, seen : ChangeSet \cup {Nothing},
         head : Nat, tries : 0..MaxTries]

Idle == [pc |-> "idle", req |-> None, n |-> 0, promo |-> Nothing, seen |-> Nothing,
         head |-> 0, tries |-> 0]

Answer == [task : Task, change : Change, claim : Change, scopes : SUBSET Scope,
           session : Session]

TypeOK ==
  /\ log \in Seq(Entry)
  /\ call \in [Caller -> Call]
  /\ made \in 0..MaxCalls
  /\ answers \subseteq Answer

(* Nothing is recorded, or a snapshot and a bundle have been.              *)
Init ==
  /\ log \in {<<>>} \cup {<<[kind |-> "frog_snapshot", id |-> e],
                            [kind |-> "imported_bundle", id |-> e]>> : e \in Digest}
  /\ call = [c \in Caller |-> Idle]
  /\ made = 0
  /\ answers = {}

(* The latest record of an entity, Nothing where there is none.            *)
Latest(kind, id) ==
  LET at == {i \in DOMAIN log : log[i].kind = kind /\ log[i].id = id}
  IN IF at = {} THEN Nothing ELSE log[CHOOSE i \in at : \A j \in at : j <= i]

Promoted(t) == Latest("frog_task_promotion", t)

(* _latest_claims: the last record of every claim.                         *)
Claims ==
  {log[i] : i \in {i \in DOMAIN log :
     /\ log[i].kind = "claim"
     /\ \A j \in i+1..Len(log) : log[j].kind = "claim" => log[j].id # log[i].id}}

At(c, pc) == call[c].pc = pc
Goto(c, pc) == call' = [call EXCEPT ![c].pc = pc]
Return(c) == call' = [call EXCEPT ![c] = Idle]
Append1(e) == log' = Append(log, e)

(* A read of the ledger, with whose head an append will be compared.       *)
Compare(c, pc) == call' = [call EXCEPT ![c].pc = pc, ![c].head = Len(log)]
Unmoved(c) == Len(log) = call[c].head

(* LedgerHeadChanged: from the read again, MaxTries times.                 *)
Again(c, pc) ==
  IF call[c].tries + 1 < MaxTries
  THEN call' = [call EXCEPT ![c].pc = pc, ![c].head = 0, ![c].tries = @ + 1]
  ELSE Return(c)

(* The id that a call generates where it is given none: one that names no  *)
(* Change Set, no claim, and is no other call's.                           *)
Fresh ==
  CHOOSE i \in 1..MaxCalls :
    /\ \A e \in ToSet(log) :
         /\ e.kind \in {"changeset", "claim"} => i # e.id
         /\ e.kind \in {"frog_task_promotion", "claim"} => i # e.change
    /\ \A c \in Caller : i # call[c].n

Begin(c) ==
  /\ At(c, "idle") /\ made < MaxCalls
  /\ \E r \in Requests :
       call' = [call EXCEPT ![c] = [Idle EXCEPT
         !.req = r,
         !.n = IF r.op = "claim" /\ None \in {r.change, r.claim} THEN Fresh ELSE 0,
         !.pc = CASE r.op \in {"import", "bundle"} -> "snapshot"
                  [] r.op = "claim" -> "eligible"
                  [] r.op = "amend" -> "load"
                  [] OTHER -> "releasing"]]
  /\ made' = made + 1
  /\ UNCHANGED <<log, answers>>

(* The process dies; its caller learns nothing.                            *)
Crash(c) ==
  /\ ~ At(c, "idle")
  /\ Return(c)
  /\ UNCHANGED <<log, made, answers>>
-----------------------------------------------------------------------------
(* FrogReceiptService.record and BundleImportService.import_bundle: the    *)
(* first record of a digest wins, and is answered to all others.           *)

Look(c, kind) ==
  /\ At(c, "snapshot")
  /\ IF Latest(kind, call[c].req.digest) # Nothing THEN Return(c) ELSE Compare(c, "record")
  /\ UNCHANGED <<log, made, answers>>

Store(c, kind) ==
  /\ At(c, "record")
  /\ IF Unmoved(c)
     THEN Append1([kind |-> kind, id |-> call[c].req.digest]) /\ Return(c)
     ELSE Again(c, "snapshot") /\ UNCHANGED log
  /\ UNCHANGED <<made, answers>>

Asked(c, op) == call[c].req # None /\ call[c].req.op = op

ReadSnapshots(c) == Asked(c, "import") /\ Look(c, "frog_snapshot")
RecordSnapshot(c) == Asked(c, "import") /\ Store(c, "frog_snapshot")
ReadBundles(c) == Asked(c, "bundle") /\ Look(c, "imported_bundle")
RecordBundle(c) == Asked(c, "bundle") /\ Store(c, "imported_bundle")
-----------------------------------------------------------------------------
(* FrogPlanningService._evaluate: what an imported plan holds against a    *)
(* task.  A conflict binds both tasks, whichever the source lists first.   *)
Eligible(d, t) ==
  /\ Status[d][t] \notin {"done", "blocked"}
  /\ \A u \in Slug : <<t, u>> \in DependsOn[d] => Status[d][u] = "done"
  /\ \A u \in Slug : <<t, u>> \in Conflicts[d] \/ <<u, t>> \in Conflicts[d] =>
       Status[d][u] # "in_progress"

(* A receipt never changes, so what planning and promotion read of it, one *)
(* after the other, is one step.                                           *)
CheckEligible(c) ==
  LET digest == call[c].req.task[1] IN
  /\ At(c, "eligible")
  /\ IF Latest("frog_snapshot", digest) # Nothing /\ Eligible(digest, call[c].req.task[2])
     THEN Goto(c, "latest")
     ELSE Return(c)
  /\ UNCHANGED <<log, made, answers>>
-----------------------------------------------------------------------------
(* FrogPromotionService.promote.                                           *)

(* Mutant: the scopes of the request are not compared.                     *)
SameChange(r, promo) == r.change \in {None, promo.change}

SameRequest(r, promo) ==
  /\ r.change \in {None, promo.change}
  /\ r.scopes = promo.scopes

(* A promotion that is there is finished, or the request refused.          *)
Adopt(c, promo) ==
  IF SameRequest(call[c].req, promo)
  THEN call' = [call EXCEPT ![c].pc = "get", ![c].promo = promo, ![c].tries = 0]
  ELSE Return(c)

FindPromotion(c) ==
  /\ At(c, "latest")
  /\ IF Promoted(call[c].req.task) # Nothing
     THEN Adopt(c, Promoted(call[c].req.task))
     ELSE Goto(c, "reading")
  /\ UNCHANGED <<log, made, answers>>

(* Mutant: a retry does not look for the promotion it has lost to.         *)
ReadHead(c) ==
  /\ At(c, "reading")
  /\ Compare(c, "reserve")
  /\ UNCHANGED <<log, made, answers>>

ReadPromotions(c) ==
  /\ At(c, "reading")
  /\ IF Promoted(call[c].req.task) # Nothing
     THEN Adopt(c, Promoted(call[c].req.task))
     ELSE Compare(c, "reserve")
  /\ UNCHANGED <<log, made, answers>>

Chosen(c) == IF call[c].req.change = None THEN call[c].n ELSE call[c].req.change

Reservation(c) ==
  [kind |-> "frog_task_promotion", id |-> call[c].req.task, change |-> Chosen(c),
   scopes |-> call[c].req.scopes, done |-> FALSE]

Reserve(c) ==
  /\ At(c, "reserve")
  /\ IF Unmoved(c)
     THEN /\ Append1(Reservation(c))
          /\ call' = [call EXCEPT ![c].pc = "get", ![c].promo = Reservation(c),
                                  ![c].head = 0, ![c].tries = 0]
     ELSE Again(c, "reading") /\ UNCHANGED log
  /\ UNCHANGED <<made, answers>>
-----------------------------------------------------------------------------
(* _finish: the Change Set, then the completion, neither of them compared  *)
(* with what was read.                                                     *)

Created(c) == Goto(c, IF call[c].promo.done THEN "claims" ELSE "complete")

GetChangeSet(c) ==
  LET found == Latest("changeset", call[c].promo.change) IN
  /\ At(c, "get")
  /\ CASE found = Nothing -> Goto(c, "create")
       [] found # Nothing /\ found.scopes = call[c].promo.scopes -> Created(c)
       [] OTHER -> Return(c)
  /\ UNCHANGED <<log, made, answers>>

(* create_change_set looks again, and asks Git, which may refuse.          *)
CreateChangeSet(c) ==
  /\ At(c, "create")
  /\ \/ Latest("changeset", call[c].promo.change) = Nothing /\ Goto(c, "plan")
     \/ Return(c)
  /\ UNCHANGED <<log, made, answers>>

PlanChangeSet(c) ==
  /\ At(c, "plan")
  /\ Append1([kind |-> "changeset", id |-> call[c].promo.change,
              scopes |-> call[c].promo.scopes])
  /\ Created(c)
  /\ UNCHANGED <<made, answers>>

Complete(c) ==
  /\ At(c, "complete")
  /\ Append1([call[c].promo EXCEPT !.done = TRUE])
  /\ Goto(c, "claims")
  /\ UNCHANGED <<made, answers>>
-----------------------------------------------------------------------------
(* FrogTaskClaimService.claim, once the task is promoted.                  *)

ClaimName(c) == IF call[c].req.claim = None THEN call[c].n ELSE call[c].req.claim

(* The caller is told that claim k is its own.                             *)
Tell(c, k) ==
  /\ answers' = answers \cup {[task |-> call[c].req.task, change |-> call[c].promo.change,
                               claim |-> k, scopes |-> call[c].req.scopes,
                               session |-> call[c].req.session]}
  /\ Return(c)

Mine(c) == {k \in Claims : /\ k.change = call[c].promo.change
                           /\ k.session = call[c].req.session /\ k.open}

(* A retry is given the claim it already has: the one it names, or the     *)
(* only one of its session.                                                *)
FindClaim(c) ==
  /\ At(c, "claims")
  /\ LET name == call[c].req.claim
         named == {k \in Claims : k.id = name}
         own == IF name = None THEN Mine(c) ELSE named
     IN CASE own = {} -> Goto(c, "scopes") /\ UNCHANGED answers
          [] own # {} /\ own \subseteq Mine(c) /\ Cardinality(own) = 1 ->
               \E k \in own : Tell(c, k.id)
          [] OTHER -> Return(c) /\ UNCHANGED answers
  /\ UNCHANGED <<log, made>>

(* ClaimService.acquire: the scopes of the Change Set as it now is ...     *)
ReadScopes(c) ==
  /\ At(c, "scopes")
  /\ call' = [call EXCEPT ![c].pc = "acquiring",
                          ![c].seen = Latest("changeset", call[c].promo.change)]
  /\ UNCHANGED <<log, made, answers>>

Competes(k, scopes) == k.open /\ k.scopes \cap scopes # {}

(* ... owned by nobody, not even by another claim of the same session.     *)
ReadClaims(c) ==
  /\ At(c, "acquiring")
  /\ IF \E k \in Claims : k.id = ClaimName(c) \/ Competes(k, call[c].seen.scopes)
     THEN Return(c)
     ELSE Compare(c, "acquire")
  /\ UNCHANGED <<log, made, answers>>

Acquire(c) ==
  /\ At(c, "acquire")
  /\ IF Unmoved(c)
     THEN /\ Append1([kind |-> "claim", id |-> ClaimName(c),
                      change |-> call[c].promo.change, scopes |-> call[c].seen.scopes,
                      session |-> call[c].req.session, open |-> TRUE])
          /\ Tell(c, ClaimName(c))
     ELSE Again(c, "acquiring") /\ UNCHANGED <<log, answers>>
  /\ UNCHANGED made
-----------------------------------------------------------------------------
(* What else is done meanwhile: the scope of a Change Set is amended (read, *)
(* then an append to any log), a claim is released.                        *)

(* A Change Set is amended only with scopes it lacks.                      *)
LoadChangeSet(c) ==
  LET found == Latest("changeset", call[c].req.change) IN
  /\ At(c, "load")
  /\ IF found # Nothing /\ ~ call[c].req.added \subseteq found.scopes
     THEN call' = [call EXCEPT ![c].pc = "store", ![c].seen = found]
     ELSE Return(c)
  /\ UNCHANGED <<log, made, answers>>

StoreChangeSet(c) ==
  /\ At(c, "store")
  /\ Append1([call[c].seen EXCEPT !.scopes = @ \cup call[c].req.added])
  /\ Return(c)
  /\ UNCHANGED <<made, answers>>

ReadClaim(c) ==
  LET k == Latest("claim", call[c].req.claim) IN
  /\ At(c, "releasing")
  /\ IF k # Nothing /\ k.session = call[c].req.session /\ k.open
     THEN Compare(c, "release")
     ELSE Return(c)
  /\ UNCHANGED <<log, made, answers>>

Release(c) ==
  /\ At(c, "release")
  /\ IF Unmoved(c)
     THEN /\ Append1([Latest("claim", call[c].req.claim) EXCEPT !.open = FALSE])
          /\ Return(c)
     ELSE Again(c, "releasing") /\ UNCHANGED log
  /\ UNCHANGED <<made, answers>>

Next ==
  \E c \in Caller :
    \/ Begin(c) \/ Crash(c)
    \/ ReadSnapshots(c) \/ RecordSnapshot(c) \/ ReadBundles(c) \/ RecordBundle(c)
    \/ CheckEligible(c)
    \/ FindPromotion(c) \/ ReadPromotions(c) \/ Reserve(c)
    \/ GetChangeSet(c) \/ CreateChangeSet(c) \/ PlanChangeSet(c) \/ Complete(c)
    \/ FindClaim(c) \/ ReadScopes(c) \/ ReadClaims(c) \/ Acquire(c)
    \/ LoadChangeSet(c) \/ StoreChangeSet(c) \/ ReadClaim(c) \/ Release(c)

Spec == Init /\ [][Next]_vars
-----------------------------------------------------------------------------
(* Another task is promoted into the Change Set x too: the callers named   *)
(* it for both.                                                            *)
Shared(x) ==
  \E e, f \in ToSet(log) : /\ e.kind = "frog_task_promotion" /\ e.change = x
                           /\ f.kind = "frog_task_promotion" /\ f.change = x
                           /\ e.id # f.id

(* What a caller was told about its claim stays true, whoever else         *)
(* finished the same promotion, died in it or asked for something else:    *)
(* the task is promoted, for good, into that Change Set with the scopes    *)
(* asked for, and the claim is its session's and covers them, unless a     *)
(* second task was promoted into the same Change Set.                      *)
AnswerIsBacked ==
  \A a \in answers :
    LET promo == Promoted(a.task)
        k == Latest("claim", a.claim)
    IN /\ promo # Nothing /\ promo.done
       /\ promo.change = a.change /\ promo.scopes = a.scopes
       /\ k # Nothing /\ k.change = a.change /\ k.session = a.session
       /\ Shared(a.change) \/ a.scopes \subseteq k.scopes

(* The records that are made once: receipts, bundles and reservations.     *)
First(e) ==
  \/ e.kind \in {"frog_snapshot", "imported_bundle"}
  \/ e.kind = "frog_task_promotion" /\ ~ e.done

(* However often a command is repeated and with whom it races: a snapshot  *)
(* or a bundle is recorded once, a task is reserved once, and a session    *)
(* has at most one open claim of a Change Set ("multiple matching active    *)
(* local claims" is not raised), unless two tasks were promoted into it.   *)
NothingTwice ==
  /\ \A i \in DOMAIN log : First(log[i]) =>
       \A j \in 1..i-1 : First(log[j]) => log[i].kind # log[j].kind \/ log[i].id # log[j].id
  /\ \A k, l \in Claims :
       k.open /\ l.open /\ k.session = l.session /\ k.change = l.change =>
         k = l \/ Shared(k.change)
=============================================================================
