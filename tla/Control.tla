------------------------------ MODULE Control -------------------------------
(***************************************************************************)
(* application/control.py: the retry-safe boundary that the HTTP and MCP   *)
(* servers put around the claim of a task, the release of a claim, a       *)
(* handoff and a review.  A request carries an idempotency key.  Under the *)
(* server's lock the key is looked up; if it is new the operation runs,    *)
(* recognising what an earlier attempt already did, and then the answer is *)
(* recorded under the key.                                                 *)
(*                                                                         *)
(* Threads of a server serve requests, retries among them; a server dies   *)
(* at any step and is started again; an append may fail; other local       *)
(* programs write the same claims, handoffs and reviews.  The operations   *)
(* themselves are modelled in ClaimService, TaskWork and ChangeWorkflow:   *)
(* here each has the appends that matter to a retry.                       *)
(***************************************************************************)
EXTENDS Naturals, FiniteSets, Sequences

CONSTANTS
  Thread,       \* requests served at one time
  Server,       \* server processes
  ServerOf,     \* the server of a thread
  Key,          \* idempotency keys
  Claims,       \* claim identities
  Documents,    \* identities of handoffs and reviews
  Who,          \* sessions and authors
  What,         \* reasons, next actions, requested changes
  Requests,     \* the requests that are made
  None,
  MaxCalls,     \* bound on the calls
  MaxCrashes,   \* bound on the deaths of servers
  MaxLocal      \* bound on the writes of other programs

Operation == {"claim_task", "release_claim", "create_handoff", "record_review"}

Object == Claims \cup Documents

(* A request; its target, the key and the time are checked before.         *)
Request == [op : Operation, obj : Object, who : Who, what : What]

(* A claim is reserved (partial) before it is held; a document is written. *)
State == {"none", "partial", "held", "released", "written"}

Entry == [st : State, who : Who \cup {None}, what : What \cup {None}]

(* An idempotency record.                                                  *)
Receipt == [req : Requests, resp : Entry]

ASSUME ControlAssumption ==
  /\ ServerOf \in [Thread -> Server]
  /\ Claims \cap Documents = {}
  /\ None \notin Thread \cup Who \cup What /\ None \notin Receipt
  /\ Requests \subseteq Request
  /\ \A r \in Requests :
       (r.op \in {"claim_task", "release_claim"}) <=> (r.obj \in Claims)
  /\ MaxCalls \in Nat /\ MaxCrashes \in Nat /\ MaxLocal \in Nat

VARIABLES
  domain,   \* the last record of every claim, handoff and review
  stored,   \* the idempotency record of every key
  lock,     \* the thread that has the lock of a server
  call,     \* what each thread does
  answers,  \* what has been answered to whom
  effects,  \* how often an operation has written an object (history)
  left, crashes, local

vars == <<domain, stored, lock, call, answers, effects, left, crashes, local>>

NoEntry == [st |-> "none", who |-> None, what |-> None]

NoCall == [pc |-> "idle", key |-> None, req |-> None, resp |-> NoEntry]

Call == [pc : {"idle", "waiting", "look", "recover", "check", "effect", "record"},
         key : Key \cup {None}, req : Requests \cup {None}, resp : Entry]

TypeOK ==
  /\ domain \in [Object -> Entry]
  /\ stored \in [Key -> Receipt \cup {None}]
  /\ lock \in [Server -> Thread \cup {None}]
  /\ call \in [Thread -> Call]
  /\ answers \subseteq [key : Key, req : Requests, resp : Entry]
  /\ effects \in [Object -> [Operation -> Nat]]
  /\ left \in 0..MaxCalls /\ crashes \in 0..MaxCrashes /\ local \in 0..MaxLocal

Init ==
  /\ domain = [o \in Object |-> NoEntry]
  /\ stored = [k \in Key |-> None]
  /\ lock = [s \in Server |-> None]
  /\ call = [t \in Thread |-> NoCall]
  /\ answers = {}
  /\ effects = [o \in Object |-> [p \in Operation |-> 0]]
  /\ left = MaxCalls /\ crashes = 0 /\ local = 0

At(t, pc) == call[t].pc = pc
Goto(t, pc) == call' = [call EXCEPT ![t].pc = pc]

(* Leaving the with-statement gives the lock back, however it is left.     *)
Leave(t) ==
  /\ call' = [call EXCEPT ![t] = NoCall]
  /\ lock' = [lock EXCEPT ![ServerOf[t]] = None]

Answer(t, resp) ==
  /\ answers' = answers \cup {[key |-> call[t].key, req |-> call[t].req, resp |-> resp]}
  /\ Leave(t)

-----------------------------------------------------------------------------
(* A request arrives: a route with its capability, all fields valid.       *)
Begin(t) ==
  /\ At(t, "idle") /\ left > 0
  /\ \E k \in Key, r \in Requests :
       call' = [call EXCEPT ![t] = [NoCall EXCEPT !.pc = "waiting", !.key = k, !.req = r]]
  /\ left' = left - 1
  /\ UNCHANGED <<domain, stored, lock, answers, effects, crashes, local>>

(* Mutant: the lock is not waited for.                                     *)
FreeAlways(t) == TRUE

Free(t) == lock[ServerOf[t]] = None

Acquire(t) ==
  /\ At(t, "waiting") /\ Free(t)
  /\ lock' = [lock EXCEPT ![ServerOf[t]] = t]
  /\ Goto(t, "look")
  /\ UNCHANGED <<domain, stored, answers, effects, left, crashes, local>>

(* Operation, target and request digest of the stored key must be those of *)
(* the request.                                                            *)
SameRequest(k, r) == stored[k].req = r

LookUp(t) ==
  LET k == call[t].key  r == call[t].req IN
  /\ At(t, "look")
  /\ IF stored[k] = None THEN Goto(t, "recover") /\ UNCHANGED <<lock, answers>>
     ELSE IF SameRequest(k, r) THEN Answer(t, stored[k].resp)
     ELSE Leave(t) /\ UNCHANGED answers
  /\ UNCHANGED <<domain, stored, effects, left, crashes, local>>

(* Mutant: any effect on the object is taken for this one.                 *)
AnyEffect(r) == domain[r.obj].st \notin {"none", "partial", "held"}

(* The effect of this request is there already.  A review is recognised by *)
(* its Change Set and author, whatever it said; the claim of a task is not *)
(* looked up: TaskClaimService goes on where it stopped.                   *)
DoneBefore(r) ==
  LET e == domain[r.obj] IN
  CASE r.op = "claim_task"     -> FALSE
    [] r.op = "release_claim"  -> e = [st |-> "released", who |-> r.who, what |-> r.what]
    [] r.op = "create_handoff" -> e = [st |-> "written", who |-> r.who, what |-> r.what]
    [] r.op = "record_review"  -> e.st = "written" /\ e.who = r.who

(* execute(): an effect of this request answers it, a document that        *)
(* somebody else wrote under its identity is a conflict.                   *)
Recover(t) ==
  LET r == call[t].req IN
  /\ At(t, "recover")
  /\ IF DoneBefore(r)
     THEN /\ call' = [call EXCEPT ![t] = [@ EXCEPT !.pc = "record", !.resp = domain[r.obj]]]
          /\ UNCHANGED lock
     ELSE IF r.obj \in Documents
     THEN IF domain[r.obj].st = "none" THEN Goto(t, "check") /\ UNCHANGED lock ELSE Leave(t)
     ELSE Goto(t, "effect") /\ UNCHANGED lock
  /\ UNCHANGED <<domain, stored, answers, effects, left, crashes, local>>

(* LocalWorkflowService refuses an identity there is a document for.       *)
CheckNew(t) ==
  /\ At(t, "check")
  /\ IF domain[call[t].req.obj].st = "none" THEN Goto(t, "effect") /\ UNCHANGED lock
     ELSE Leave(t)
  /\ UNCHANGED <<domain, stored, answers, effects, left, crashes, local>>

Written(t, e) ==
  LET r == call[t].req IN
  /\ domain' = [domain EXCEPT ![r.obj] = e]
  /\ effects' = [effects EXCEPT ![r.obj][r.op] = @ + 1]
  /\ call' = [call EXCEPT ![t] = [@ EXCEPT !.pc = "record", !.resp = e]]
  /\ UNCHANGED lock

(* A document is appended without comparing the head.                      *)
WriteDocument(t) ==
  LET r == call[t].req IN
  /\ At(t, "effect") /\ r.obj \in Documents
  /\ Written(t, [st |-> "written", who |-> r.who, what |-> r.what])
  /\ UNCHANGED <<stored, answers, left, crashes, local>>

(* TaskClaimService.claim: reserve, then finish for the same session.  A   *)
(* claim that is held is answered as it is.                                *)
Reserve(t) ==
  LET r == call[t].req IN
  /\ At(t, "effect") /\ r.op = "claim_task" /\ domain[r.obj].st = "none"
  /\ domain' = [domain EXCEPT ![r.obj] = [st |-> "partial", who |-> r.who, what |-> None]]
  /\ UNCHANGED <<stored, lock, call, answers, effects, left, crashes, local>>

FinishClaim(t) ==
  LET r == call[t].req  e == domain[r.obj] IN
  /\ At(t, "effect") /\ r.op = "claim_task" /\ e.who = r.who
  /\ \/ e.st = "partial" /\ Written(t, [e EXCEPT !.st = "held"])
     \/ /\ e.st = "held"
        /\ call' = [call EXCEPT ![t] = [@ EXCEPT !.pc = "record", !.resp = e]]
        /\ UNCHANGED <<domain, effects, lock>>
  /\ UNCHANGED <<stored, answers, left, crashes, local>>

(* ClaimService.release compares the head: the claim is still the owner's. *)
Release(t) ==
  LET r == call[t].req  e == domain[r.obj] IN
  /\ At(t, "effect") /\ r.op = "release_claim"
  /\ e.st \in {"partial", "held"} /\ e.who = r.who
  /\ Written(t, [e EXCEPT !.st = "released", !.what = r.what])
  /\ UNCHANGED <<stored, answers, left, crashes, local>>

(* The services refuse: another owner, a claim that is over, an expired    *)
(* lease, a gate, a busy ledger.                                           *)
Refuse(t) ==
  /\ At(t, "effect")
  /\ Leave(t)
  /\ UNCHANGED <<domain, stored, answers, effects, left, crashes, local>>

(* Mutant: the answer is given without its record.                         *)
AnswerUnrecorded(t) ==
  /\ At(t, "record")
  /\ Answer(t, call[t].resp)
  /\ UNCHANGED <<domain, stored, effects, left, crashes, local>>

(* The answer is given once it is recorded; the append may fail.           *)
Record(t) ==
  LET k == call[t].key IN
  /\ At(t, "record")
  /\ \/ /\ stored' = [stored EXCEPT ![k] = [req |-> call[t].req, resp |-> call[t].resp]]
        /\ Answer(t, call[t].resp)
     \/ UNCHANGED <<stored, answers>> /\ Leave(t)
  /\ UNCHANGED <<domain, effects, left, crashes, local>>

(* A server dies: its threads and its lock are gone.                       *)
Crash(s) ==
  /\ crashes < MaxCrashes /\ lock[s] # None
  /\ crashes' = crashes + 1
  /\ call' = [t \in Thread |-> IF ServerOf[t] = s THEN NoCall ELSE call[t]]
  /\ lock' = [lock EXCEPT ![s] = None]
  /\ UNCHANGED <<domain, stored, answers, effects, left, local>>

(* Another program of the same user: a document whose identity it saw free *)
(* some time ago, a release by the claim's owner.                          *)
LocalWrite ==
  /\ local < MaxLocal
  /\ local' = local + 1
  /\ \E o \in Object, w \in Who, x \in What :
       \/ o \in Documents
          /\ domain' = [domain EXCEPT ![o] = [st |-> "written", who |-> w, what |-> x]]
       \/ o \in Claims /\ domain[o].st \in {"partial", "held"}
          /\ domain' = [domain EXCEPT ![o] = [@ EXCEPT !.st = "released", !.what = x]]
  /\ UNCHANGED <<stored, lock, call, answers, effects, left, crashes>>

ThreadStep(t) ==
  \/ Acquire(t) \/ LookUp(t) \/ Recover(t) \/ CheckNew(t) \/ WriteDocument(t)
  \/ Reserve(t) \/ FinishClaim(t) \/ Release(t) \/ Refuse(t) \/ Record(t)

Next ==
  \/ \E t \in Thread : Begin(t) \/ ThreadStep(t)
  \/ \E s \in Server : Crash(s)
  \/ LocalWrite

Spec == Init /\ [][Next]_vars

-----------------------------------------------------------------------------
(* A key answers one request, and always with the same answer: a retry     *)
(* after a lost answer, a failed append or the death of the server learns  *)
(* what the first attempt did.                                             *)
AnswersAgree ==
  \A a, b \in answers : a.key = b.key => a = b

(* An answer tells of an effect of this very request: by whoever made it,  *)
(* and for all but a review with what was asked.                           *)
AnswerIsBacked ==
  \A a \in answers :
    /\ a.resp.who = a.req.who
    /\ a.req.op \in {"release_claim", "create_handoff"} => a.resp.what = a.req.what
    /\ a.resp.st = CASE a.req.op = "claim_task"    -> "held"
                     [] a.req.op = "release_claim" -> "released"
                     [] OTHER                      -> "written"

(* However often a request is repeated, under one key or several, with the *)
(* server dying between any two steps, its effect is recorded once.        *)
EffectOnce == \A o \in Object : \A p \in Operation : effects[o][p] <= 1
=============================================================================
