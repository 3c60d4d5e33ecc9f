---------------------------- MODULE BoundaryProofs ----------------------------
(***************************************************************************)
(* Theorems about the two ends of the system: Control, where requests come *)
(* in, and Forge, where what is outside is observed.                       *)
(*                                                                         *)
(* Control, for any number of threads, servers, keys, claims, documents    *)
(* and requests, whoever dies and whatever else writes.  That answers are  *)
(* backed, and that a claim is taken and given up once, needs no lock.     *)
(* That a key has one answer and that a document is written once rests on  *)
(* the lock, and the lock is one server's: what a thread saw of its key    *)
(* and of its document is still so when it writes, if all threads are of   *)
(* one server.                                                             *)
(*                                                                         *)
(* Forge, for any forge that is changed any number of times, any page size *)
(* and any limit of pages.  While nothing leaves a listing, an object that *)
(* has been there all along is behind the pages read, and received, or     *)
(* ahead of them, in place.                                                *)
(***************************************************************************)
EXTENDS Control, Forge, FiniteSetTheorems, SequenceTheorems, WellFoundedInduction, TLAPS


(* One server serves them all, as the one that the lock is written for.    *)
OneServer == \A t, u \in Thread : ServerOf[t] = ServerOf[u]

Busy(t) == call[t].pc \notin {"idle", "waiting"}

(* What AnswerIsBacked says of one answer.                                 *)
Backed(r, resp) ==
  /\ resp.who = r.who
  /\ r.op \in {"release_claim", "create_handoff"} => resp.what = r.what
  /\ resp.st = CASE r.op = "claim_task"    -> "held"
                 [] r.op = "release_claim" -> "released"
                 [] OTHER                  -> "written"

(* A thread in the with-statement has the lock; what it is about to record *)
(* is an answer to its request.                                            *)
CallOK(t) ==
  /\ ~ At(t, "idle") => call[t].key \in Key /\ call[t].req \in Requests
  /\ Busy(t) => lock[ServerOf[t]] = t
  /\ At(t, "record") => Backed(call[t].req, call[t].resp)

StoredOK == \A k \in Key : stored[k] # None => Backed(stored[k].req, stored[k].resp)

(* How far a claim has come tells which of its effects can have been.      *)
ClaimOK(o) ==
  /\ domain[o].st # "written"
  /\ domain[o].st \in {"none", "partial"} => effects[o]["claim_task"] = 0
  /\ domain[o].st # "released" => effects[o]["release_claim"] = 0
  /\ \A p \in Operation : effects[o][p] <= 1

IInv ==
  /\ TypeOK
  /\ \A t \in Thread : CallOK(t)
  /\ StoredOK
  /\ AnswerIsBacked
  /\ \A o \in Claims : ClaimOK(o)

DocumentOK(o) ==
  /\ domain[o].st = "none" => \A p \in Operation : effects[o][p] = 0
  /\ \A p \in Operation : effects[o][p] <= 1

(* Under one lock: the key of the thread inside is still new, and the      *)
(* document it is about to write, though perhaps not new any more, has not *)
(* been written by a request.                                              *)
Undisturbed(t) ==
  /\ call[t].pc \in {"recover", "check", "effect", "record"} => stored[call[t].key] = None
  /\ At(t, "effect") /\ call[t].req.obj \in Documents =>
       \A p \in Operation : effects[call[t].req.obj][p] = 0

(* An answer that was given is the one its key has.                        *)
AnswersStored ==
  \A a \in answers : stored[a.key] = [req |-> a.req, resp |-> a.resp]

LockedInv ==
  /\ \A t \in Thread : Undisturbed(t)
  /\ \A o \in Documents : DocumentOK(o)
  /\ AnswersStored
-----------------------------------------------------------------------------
(* Bookkeeping of calls.                                                   *)

LEMMA CallFields ==
  ASSUME TypeOK, NEW t \in Thread
  PROVE  /\ call[t] \in Call /\ call[t].resp \in Entry
         /\ ServerOf[t] \in Server /\ t # None
         /\ call[t].req \in Requests => /\ call[t].req \in Request
                                        /\ call[t].req.obj \in Object
                                        /\ domain[call[t].req.obj] \in Entry
BY ControlAssumption DEF TypeOK, Call, Request, Object

(* Only t does something, and it leaves the locks of the others alone.     *)
LEMMA CallStep ==
  ASSUME TypeOK, \A u \in Thread : CallOK(u), NEW t \in Thread, NEW c \in Call,
         call' = [call EXCEPT ![t] = c],
         lock' \in [Server -> Thread \cup {None}],
         \A u \in Thread \ {t} : Busy(u) => lock'[ServerOf[u]] = u,
         c.pc # "idle" => c.key \in Key /\ c.req \in Requests,
         c.pc \notin {"idle", "waiting"} => lock'[ServerOf[t]] = t,
         c.pc = "record" => Backed(c.req, c.resp)
  PROVE  /\ call' \in [Thread -> Call] /\ lock' \in [Server -> Thread \cup {None}]
         /\ \A u \in Thread : CallOK(u)'
<1>1. call' \in [Thread -> Call] /\ call'[t] = c
      /\ \A u \in Thread \ {t} : call'[u] = call[u]
  BY DEF TypeOK
<1>2. CallOK(t)'
  BY <1>1 DEF CallOK, At, Busy, Backed
<1>3. ASSUME NEW u \in Thread \ {t} PROVE CallOK(u)'
  BY <1>1, <1>3 DEF CallOK, At, Busy, Backed
<1>. QED BY <1>1, <1>2, <1>3

LEMMA LeaveOK ==
  ASSUME TypeOK, \A u \in Thread : CallOK(u), NEW t \in Thread, Busy(t), Leave(t)
  PROVE  /\ call' \in [Thread -> Call] /\ lock' \in [Server -> Thread \cup {None}]
         /\ \A u \in Thread : CallOK(u)'
<1>1. NoCall \in Call /\ NoCall.pc = "idle"
  BY DEF NoCall, NoEntry, Call, Entry, State
<1>2. lock' \in [Server -> Thread \cup {None}]
  BY DEF Leave, TypeOK
<1>3. ASSUME NEW u \in Thread \ {t}, Busy(u) PROVE lock'[ServerOf[u]] = u
  <2>1. ServerOf[u] \in Server /\ ServerOf[t] \in Server
    BY CallFields
  <2>2. lock[ServerOf[u]] = u /\ lock[ServerOf[t]] = t
    BY <1>3 DEF CallOK
  <2>3. ServerOf[u] # ServerOf[t]
    BY <2>2
  <2>. QED BY <2>1, <2>2, <2>3 DEF Leave, TypeOK
<1>. QED BY <1>1, <1>2, <1>3, CallStep DEF Leave

LEMMA GotoOK ==
  ASSUME TypeOK, \A u \in Thread : CallOK(u), NEW t \in Thread, Busy(t), lock' = lock,
         NEW pc \in {"look", "recover", "check", "effect"}, Goto(t, pc)
  PROVE  /\ call' \in [Thread -> Call] /\ lock' \in [Server -> Thread \cup {None}]
         /\ \A u \in Thread : CallOK(u)'
<1>. DEFINE c == [call[t] EXCEPT !.pc = pc]
<1>1. call' = [call EXCEPT ![t] = c]
  BY DEF Goto, TypeOK
<1>2. c \in Call /\ c.pc = pc /\ c.key = call[t].key /\ c.req = call[t].req
  BY CallFields DEF Call
<1>3. /\ ~ At(t, "idle") /\ CallOK(t)
      /\ \A u \in Thread \ {t} : Busy(u) => lock'[ServerOf[u]] = u
  BY DEF CallOK, Busy, At
<1>. HIDE DEF c
<1>. QED BY <1>1, <1>2, <1>3, CallStep DEF CallOK, TypeOK

(* On to the record, with an answer to the request.                        *)
LEMMA RecordNext ==
  ASSUME TypeOK, \A u \in Thread : CallOK(u), NEW t \in Thread, Busy(t), lock' = lock,
         NEW e \in Entry, Backed(call[t].req, e),
         call' = [call EXCEPT ![t] = [@ EXCEPT !.pc = "record", !.resp = e]]
  PROVE  /\ call' \in [Thread -> Call] /\ lock' \in [Server -> Thread \cup {None}]
         /\ \A u \in Thread : CallOK(u)'
<1>. DEFINE c == [call[t] EXCEPT !.pc = "record", !.resp = e]
<1>1. call' = [call EXCEPT ![t] = c]
  BY DEF TypeOK
<1>2. /\ c \in Call /\ c.pc = "record" /\ c.resp = e
      /\ c.key = call[t].key /\ c.req = call[t].req
  BY CallFields DEF Call
<1>3. /\ ~ At(t, "idle") /\ CallOK(t)
      /\ \A u \in Thread \ {t} : Busy(u) => lock'[ServerOf[u]] = u
  BY DEF CallOK, Busy, At
<1>. HIDE DEF c
<1>. QED BY <1>1, <1>2, <1>3, CallStep DEF CallOK, TypeOK

(* Where nothing is written, only the call and the locks have to be right. *)
LEMMA NothingWritten ==
  ASSUME IInv, UNCHANGED <<domain, stored, answers, effects>>,
         left' \in 0..MaxCalls, crashes' \in 0..MaxCrashes, local' \in 0..MaxLocal,
         call' \in [Thread -> Call], lock' \in [Server -> Thread \cup {None}],
         \A u \in Thread : CallOK(u)'
  PROVE  IInv'
BY DEF IInv, TypeOK, StoredOK, AnswerIsBacked, ClaimOK
-----------------------------------------------------------------------------
(* Every step keeps IInv.                                                  *)

LEMMA BeginStep ==
  ASSUME IInv, NEW t \in Thread, Begin(t)
  PROVE  IInv'
<1>1. PICK k \in Key, r \in Requests :
        call' = [call EXCEPT ![t] = [NoCall EXCEPT !.pc = "waiting", !.key = k, !.req = r]]
  BY DEF Begin
<1>. DEFINE c == [NoCall EXCEPT !.pc = "waiting", !.key = k, !.req = r]
<1>2. c \in Call /\ c.pc = "waiting" /\ c.key = k /\ c.req = r
  BY DEF NoCall, NoEntry, Call, Entry, State
<1>3. TypeOK /\ \A u \in Thread : CallOK(u)
  BY DEF IInv
<1>4. /\ lock' \in [Server -> Thread \cup {None}]
      /\ \A u \in Thread \ {t} : Busy(u) => lock'[ServerOf[u]] = u
  BY <1>3 DEF Begin, CallOK, TypeOK
<1>5. call' = [call EXCEPT ![t] = c]
  BY <1>1
<1>. HIDE DEF c
<1>6. /\ call' \in [Thread -> Call] /\ lock' \in [Server -> Thread \cup {None}]
      /\ \A u \in Thread : CallOK(u)'
  BY <1>2, <1>3, <1>4, <1>5, CallStep
<1>7. left' \in 0..MaxCalls /\ crashes' \in 0..MaxCrashes /\ local' \in 0..MaxLocal
  BY <1>3, ControlAssumption DEF Begin, TypeOK
<1>. QED BY <1>6, <1>7, NothingWritten DEF Begin

LEMMA AcquireStep ==
  ASSUME IInv, NEW t \in Thread, Acquire(t)
  PROVE  IInv'
<1>1. TypeOK /\ \A u \in Thread : CallOK(u)
  BY DEF IInv
<1>. DEFINE c == [call[t] EXCEPT !.pc = "look"]
<1>2. call' = [call EXCEPT ![t] = c]
  BY <1>1 DEF Acquire, Goto, TypeOK
<1>3. c \in Call /\ c.pc = "look" /\ c.key = call[t].key /\ c.req = call[t].req
  BY <1>1, CallFields DEF Call
<1>4. c.key \in Key /\ c.req \in Requests
  BY <1>1, <1>3 DEF Acquire, At, CallOK
<1>5. /\ lock' \in [Server -> Thread \cup {None}] /\ lock'[ServerOf[t]] = t
      /\ \A u \in Thread \ {t} : Busy(u) => lock'[ServerOf[u]] = u
  <2>1. ServerOf[t] \in Server /\ lock[ServerOf[t]] = None
    BY <1>1, CallFields DEF Acquire, Free
  <2>2. ASSUME NEW u \in Thread, Busy(u) PROVE lock[ServerOf[u]] = u /\ ServerOf[u] # ServerOf[t]
    BY <1>1, <2>1, <2>2, ControlAssumption DEF CallOK
  <2>. QED BY <1>1, <2>1, <2>2, CallFields DEF Acquire, TypeOK
<1>. HIDE DEF c
<1>6. /\ call' \in [Thread -> Call] /\ lock' \in [Server -> Thread \cup {None}]
      /\ \A u \in Thread : CallOK(u)'
  BY <1>1, <1>2, <1>3, <1>4, <1>5, CallStep
<1>. QED BY <1>1, <1>6, NothingWritten DEF Acquire, TypeOK

(* An answer that is backed may be given.                                  *)
LEMMA AnswerOK ==
  ASSUME TypeOK, AnswerIsBacked, NEW t \in Thread, CallOK(t), ~ At(t, "idle"),
         NEW e \in Entry, Backed(call[t].req, e), Answer(t, e)
  PROVE  /\ AnswerIsBacked' /\ Leave(t)
         /\ answers' \subseteq [key : Key, req : Requests, resp : Entry]
<1>. DEFINE a == [key |-> call[t].key, req |-> call[t].req, resp |-> e]
<1>1. answers' = answers \cup {a} /\ Leave(t)
  BY DEF Answer
<1>2. a \in [key : Key, req : Requests, resp : Entry]
  BY DEF CallOK
<1>3. a.req = call[t].req /\ a.resp = e
  OBVIOUS
<1>. HIDE DEF a
<1>4. AnswerIsBacked'
  BY <1>1, <1>3 DEF AnswerIsBacked, Backed
<1>. QED BY <1>1, <1>2, <1>4 DEF TypeOK

LEMMA LookUpStep ==
  ASSUME IInv, NEW t \in Thread, LookUp(t)
  PROVE  IInv'
<1>1. TypeOK /\ \A u \in Thread : CallOK(u)
  BY DEF IInv
<1>2. Busy(t) /\ ~ At(t, "idle") /\ call[t].key \in Key /\ call[t].req \in Requests
  BY <1>1 DEF LookUp, At, Busy, CallOK
<1>3. CASE stored[call[t].key] = None
  <2>1. Goto(t, "recover") /\ UNCHANGED <<domain, stored, lock, answers, effects, left, crashes, local>>
    BY <1>3 DEF LookUp
  <2>2. /\ call' \in [Thread -> Call] /\ lock' \in [Server -> Thread \cup {None}]
        /\ \A u \in Thread : CallOK(u)'
    BY <1>1, <1>2, <2>1, GotoOK
  <2>. QED BY <1>1, <2>1, <2>2, NothingWritten DEF TypeOK
<1>4. CASE stored[call[t].key] # None /\ SameRequest(call[t].key, call[t].req)
  <2>1. Answer(t, stored[call[t].key].resp)
        /\ UNCHANGED <<domain, stored, effects, left, crashes, local>>
    BY <1>4 DEF LookUp
  <2>2. /\ stored[call[t].key].resp \in Entry
        /\ Backed(call[t].req, stored[call[t].key].resp)
    BY <1>1, <1>2, <1>4 DEF IInv, StoredOK, SameRequest, TypeOK, Receipt
  <2>3. AnswerIsBacked' /\ Leave(t) /\ answers' \subseteq [key : Key, req : Requests, resp : Entry]
    BY <1>1, <1>2, <2>1, <2>2, AnswerOK DEF IInv
  <2>4. /\ call' \in [Thread -> Call] /\ lock' \in [Server -> Thread \cup {None}]
        /\ \A u \in Thread : CallOK(u)'
    BY <1>1, <1>2, <2>3, LeaveOK
  <2>. QED BY <2>1, <2>3, <2>4 DEF IInv, TypeOK, StoredOK, ClaimOK
<1>5. CASE stored[call[t].key] # None /\ ~ SameRequest(call[t].key, call[t].req)
  <2>1. Leave(t) /\ UNCHANGED <<domain, stored, answers, effects, left, crashes, local>>
    BY <1>5 DEF LookUp
  <2>2. /\ call' \in [Thread -> Call] /\ lock' \in [Server -> Thread \cup {None}]
        /\ \A u \in Thread : CallOK(u)'
    BY <1>1, <1>2, <2>1, LeaveOK
  <2>. QED BY <1>1, <2>1, <2>2, NothingWritten DEF TypeOK
<1>. QED BY <1>3, <1>4, <1>5

(* What is recognised as done is an answer.                                *)
LEMMA DoneIsBacked ==
  ASSUME NEW r \in Request, DoneBefore(r)
  PROVE  Backed(r, domain[r.obj])
<1>1. CASE r.op = "claim_task"
  BY <1>1 DEF DoneBefore
<1>2. CASE r.op = "release_claim"
  BY <1>2 DEF DoneBefore, Backed
<1>3. CASE r.op = "create_handoff"
  BY <1>3 DEF DoneBefore, Backed
<1>4. CASE r.op = "record_review"
  BY <1>4 DEF DoneBefore, Backed
<1>. QED BY <1>1, <1>2, <1>3, <1>4 DEF Request, Operation

LEMMA RecoverStep ==
  ASSUME IInv, NEW t \in Thread, Recover(t)
  PROVE  IInv'
<1>1. TypeOK /\ \A u \in Thread : CallOK(u)
  BY DEF IInv
<1>2. Busy(t) /\ call[t].req \in Request /\ domain[call[t].req.obj] \in Entry
  BY <1>1, CallFields DEF Recover, At, Busy, CallOK
<1>3. UNCHANGED <<domain, stored, answers, effects, left, crashes, local>>
  BY DEF Recover
<1>4. CASE DoneBefore(call[t].req)
  BY <1>1, <1>2, <1>4, DoneIsBacked, RecordNext, <1>3, NothingWritten DEF Recover, TypeOK
<1>5. CASE Goto(t, "check") /\ lock' = lock
  BY <1>1, <1>2, <1>5, GotoOK, <1>3, NothingWritten DEF TypeOK
<1>6. CASE Goto(t, "effect") /\ lock' = lock
  BY <1>1, <1>2, <1>6, GotoOK, <1>3, NothingWritten DEF TypeOK
<1>7. CASE Leave(t)
  BY <1>1, <1>2, <1>7, LeaveOK, <1>3, NothingWritten DEF TypeOK
<1>. QED BY <1>4, <1>5, <1>6, <1>7 DEF Recover

LEMMA CheckNewStep ==
  ASSUME IInv, NEW t \in Thread, CheckNew(t)
  PROVE  IInv'
<1>1. TypeOK /\ \A u \in Thread : CallOK(u)
  BY DEF IInv
<1>2. Busy(t)
  BY DEF CheckNew, At, Busy
<1>3. UNCHANGED <<domain, stored, answers, effects, left, crashes, local>>
  BY DEF CheckNew
<1>4. CASE Goto(t, "effect") /\ lock' = lock
  BY <1>1, <1>2, <1>4, GotoOK, <1>3, NothingWritten DEF TypeOK
<1>5. CASE Leave(t)
  BY <1>1, <1>2, <1>5, LeaveOK, <1>3, NothingWritten DEF TypeOK
<1>. QED BY <1>4, <1>5 DEF CheckNew

LEMMA RefuseStep ==
  ASSUME IInv, NEW t \in Thread, Refuse(t)
  PROVE  IInv'
BY LeaveOK, NothingWritten DEF Refuse, IInv, TypeOK, Busy, At

(* An operation writes its object and goes on to the record.               *)
LEMMA WrittenStep ==
  ASSUME IInv, NEW t \in Thread, At(t, "effect"), NEW e \in Entry, Written(t, e),
         Backed(call[t].req, e), UNCHANGED <<stored, answers, left, crashes, local>>,
         \A o \in Claims : o = call[t].req.obj => ClaimOK(o)'
  PROVE  IInv'
<1>. DEFINE r == call[t].req
<1>1. TypeOK /\ (\A u \in Thread : CallOK(u)) /\ Busy(t)
  BY DEF IInv, At, Busy
<1>2. r \in Requests /\ r \in Request /\ r.obj \in Object /\ r.op \in Operation
  BY <1>1, CallFields DEF CallOK, At, Request
<1>3. /\ call' \in [Thread -> Call] /\ lock' \in [Server -> Thread \cup {None}]
      /\ \A u \in Thread : CallOK(u)'
  BY <1>1, RecordNext DEF Written
<1>4. domain' \in [Object -> Entry] /\ effects' \in [Object -> [Operation -> Nat]]
  BY <1>1, <1>2 DEF Written, TypeOK
<1>5. ASSUME NEW o \in Claims PROVE ClaimOK(o)'
  <2>1. CASE o = r.obj
    BY <2>1
  <2>2. CASE o # r.obj
    BY <1>1, <1>2, <2>2 DEF Written, TypeOK, IInv, ClaimOK, Object
  <2>. QED BY <2>1, <2>2
<1>. HIDE DEF r
<1>. QED BY <1>1, <1>3, <1>4, <1>5 DEF IInv, TypeOK, StoredOK, AnswerIsBacked

LEMMA WriteDocumentStep ==
  ASSUME IInv, NEW t \in Thread, WriteDocument(t)
  PROVE  IInv'
<1>. DEFINE r == call[t].req
            e == [st |-> "written", who |-> r.who, what |-> r.what]
<1>1. r \in Requests /\ r \in Request /\ r.obj \in Documents
  BY CallFields DEF WriteDocument, IInv, CallOK, At
<1>2. e \in Entry
  BY <1>1 DEF Entry, State, Request
<1>3. Backed(r, e)
  BY <1>1, ControlAssumption DEF Backed
<1>4. r.obj \notin Claims
  BY <1>1, ControlAssumption
<1>5. At(t, "effect") /\ Written(t, e) /\ UNCHANGED <<stored, answers, left, crashes, local>>
  BY DEF WriteDocument
<1>. HIDE DEF e, r
<1>. QED BY <1>2, <1>3, <1>4, <1>5, WrittenStep DEF r

LEMMA ReserveStep ==
  ASSUME IInv, NEW t \in Thread, Reserve(t)
  PROVE  IInv'
<1>. DEFINE r == call[t].req
            e == [st |-> "partial", who |-> r.who, what |-> None]
<1>1. TypeOK /\ (\A u \in Thread : CallOK(u)) /\ (\A o \in Claims : ClaimOK(o))
  BY DEF IInv
<1>2. r \in Request /\ r.obj \in Claims /\ r.obj \in Object
  BY <1>1, CallFields, ControlAssumption DEF Reserve, CallOK, At, Object
<1>3. e \in Entry
  BY <1>2 DEF Entry, State, Request
<1>4. domain' \in [Object -> Entry]
  BY <1>1, <1>2, <1>3 DEF Reserve, TypeOK
<1>5. ASSUME NEW o \in Claims PROVE ClaimOK(o)'
  <2>1. effects' = effects /\ domain' = [domain EXCEPT ![r.obj] = e] /\ domain[r.obj].st = "none"
    BY DEF Reserve
  <2>2. o \in Object /\ domain'[o] = IF o = r.obj THEN e ELSE domain[o]
    BY <1>1, <2>1 DEF TypeOK, Object
  <2>3. CASE o = r.obj
    BY <1>1, <2>1, <2>2, <2>3 DEF ClaimOK
  <2>4. CASE o # r.obj
    BY <1>1, <2>1, <2>2, <2>4 DEF ClaimOK
  <2>. QED BY <2>3, <2>4
<1>6. \A u \in Thread : CallOK(u)'
  BY <1>1 DEF Reserve, CallOK, At, Busy, Backed
<1>. QED BY <1>1, <1>4, <1>5, <1>6 DEF Reserve, IInv, TypeOK, StoredOK, AnswerIsBacked

(* One more of what has not been counted yet is one.                       *)
LEMMA CountsOnce ==
  ASSUME TypeOK, NEW o \in Claims, ClaimOK(o),
         NEW p \in {"claim_task", "release_claim"}, effects[o][p] = 0,
         effects'[o] = [effects[o] EXCEPT ![p] = @ + 1],
         domain'[o].st = IF p = "claim_task" THEN "held" ELSE "released",
         p = "claim_task" => domain[o].st = "partial"
  PROVE  ClaimOK(o)'
<1>1. o \in Object /\ effects[o] \in [Operation -> Nat] /\ p \in Operation
  BY DEF TypeOK, Object, Operation
<1>2. \A q \in Operation : effects'[o][q] = IF q = p THEN 1 ELSE effects[o][q]
  BY <1>1
<1>3. \A q \in Operation : effects'[o][q] <= 1
  BY <1>2 DEF ClaimOK
<1>4. "claim_task" \in Operation /\ "release_claim" \in Operation
  BY DEF Operation
<1>. QED BY <1>2, <1>3, <1>4 DEF ClaimOK

LEMMA FinishClaimStep ==
  ASSUME IInv, NEW t \in Thread, FinishClaim(t)
  PROVE  IInv'
<1>. DEFINE r == call[t].req
            e == domain[r.obj]
            f == [e EXCEPT !.st = "held"]
<1>1. TypeOK /\ (\A u \in Thread : CallOK(u)) /\ (\A o \in Claims : ClaimOK(o))
  BY DEF IInv
<1>2. r \in Request /\ r.obj \in Claims /\ r.obj \in Object /\ e \in Entry /\ Busy(t)
  BY <1>1, CallFields, ControlAssumption DEF FinishClaim, CallOK, At, Object, Busy
<1>3. /\ At(t, "effect") /\ r.op = "claim_task" /\ e.who = r.who
      /\ UNCHANGED <<stored, answers, left, crashes, local>>
  BY DEF FinishClaim
<1>4. f \in Entry /\ f.st = "held" /\ f.who = e.who
  BY <1>2 DEF Entry, State
<1>5. Backed(r, f)
  BY <1>3, <1>4 DEF Backed
<1>6. CASE e.st = "partial" /\ Written(t, f)
  <2>1. effects[r.obj]["claim_task"] = 0
    BY <1>1, <1>2, <1>6 DEF ClaimOK
  <2>2. /\ effects'[r.obj] = [effects[r.obj] EXCEPT !["claim_task"] = @ + 1]
        /\ domain'[r.obj] = f
    BY <1>1, <1>2, <1>3, <1>6 DEF Written, TypeOK
  <2>3. ASSUME NEW o \in Claims, o = r.obj PROVE ClaimOK(o)'
    <3>1. /\ effects'[o] = [effects[o] EXCEPT !["claim_task"] = @ + 1]
          /\ domain'[o].st = "held" /\ domain[o].st = "partial" /\ effects[o]["claim_task"] = 0
      BY <1>4, <1>6, <2>1, <2>2, <2>3
    <3>. QED BY <1>1, <1>2, <2>3, <3>1, CountsOnce
  <2>. HIDE DEF f
  <2>. QED BY <1>3, <1>4, <1>5, <1>6, <2>3, WrittenStep
<1>7. CASE /\ e.st = "held" /\ UNCHANGED <<domain, effects, lock>>
           /\ call' = [call EXCEPT ![t] = [@ EXCEPT !.pc = "record", !.resp = e]]
  <2>1. Backed(r, e)
    BY <1>3, <1>7 DEF Backed
  <2>2. /\ call' \in [Thread -> Call] /\ lock' \in [Server -> Thread \cup {None}]
        /\ \A u \in Thread : CallOK(u)'
    BY <1>1, <1>2, <1>7, <2>1, RecordNext
  <2>. QED BY <1>1, <1>3, <1>7, <2>2, NothingWritten DEF TypeOK
<1>. QED BY <1>6, <1>7 DEF FinishClaim

LEMMA ReleaseStep ==
  ASSUME IInv, NEW t \in Thread, Release(t)
  PROVE  IInv'
<1>. DEFINE r == call[t].req
            e == domain[r.obj]
            f == [e EXCEPT !.st = "released", !.what = r.what]
<1>1. TypeOK /\ (\A u \in Thread : CallOK(u)) /\ (\A o \in Claims : ClaimOK(o))
  BY DEF IInv
<1>2. r \in Request /\ r.obj \in Claims /\ r.obj \in Object /\ e \in Entry /\ r.what \in What
  BY <1>1, CallFields, ControlAssumption DEF Release, CallOK, At, Object, Request
<1>3. /\ At(t, "effect") /\ r.op = "release_claim" /\ e.who = r.who
      /\ e.st \in {"partial", "held"} /\ Written(t, f)
      /\ UNCHANGED <<stored, answers, left, crashes, local>>
  BY DEF Release
<1>4. f \in Entry /\ f.st = "released" /\ f.who = e.who /\ f.what = r.what
  BY <1>2 DEF Entry, State
<1>5. Backed(r, f)
  BY <1>3, <1>4 DEF Backed
<1>6. effects[r.obj]["release_claim"] = 0
  BY <1>1, <1>2, <1>3 DEF ClaimOK
<1>7. /\ effects'[r.obj] = [effects[r.obj] EXCEPT !["release_claim"] = @ + 1]
      /\ domain'[r.obj] = f
  BY <1>1, <1>2, <1>3 DEF Written, TypeOK
<1>8. ASSUME NEW o \in Claims, o = r.obj PROVE ClaimOK(o)'
  <2>1. /\ effects'[o] = [effects[o] EXCEPT !["release_claim"] = @ + 1]
        /\ domain'[o].st = "released" /\ effects[o]["release_claim"] = 0
    BY <1>4, <1>6, <1>7, <1>8
  <2>. QED BY <1>1, <1>2, <1>8, <2>1, CountsOnce
<1>. HIDE DEF f
<1>. QED BY <1>3, <1>4, <1>5, <1>8, WrittenStep

LEMMA RecordStep ==
  ASSUME IInv, NEW t \in Thread, Record(t)
  PROVE  IInv'
<1>. DEFINE k == call[t].key
            new == [req |-> call[t].req, resp |-> call[t].resp]
<1>1. TypeOK /\ \A u \in Thread : CallOK(u)
  BY DEF IInv
<1>2. /\ Busy(t) /\ ~ At(t, "idle") /\ k \in Key /\ call[t].req \in Requests
      /\ call[t].resp \in Entry /\ Backed(call[t].req, call[t].resp)
  BY <1>1, CallFields DEF Record, At, Busy, CallOK
<1>3. Leave(t) /\ UNCHANGED <<domain, effects, left, crashes, local>>
  BY DEF Record, Answer
<1>4. /\ call' \in [Thread -> Call] /\ lock' \in [Server -> Thread \cup {None}]
      /\ \A u \in Thread : CallOK(u)'
  BY <1>1, <1>2, <1>3, LeaveOK
<1>5. CASE UNCHANGED <<stored, answers>>
  BY <1>1, <1>3, <1>4, <1>5, NothingWritten DEF TypeOK
<1>6. CASE stored' = [stored EXCEPT ![k] = new] /\ Answer(t, call[t].resp)
  <2>1. AnswerIsBacked' /\ answers' \subseteq [key : Key, req : Requests, resp : Entry]
    BY <1>1, <1>2, <1>6, AnswerOK DEF IInv
  <2>2. new \in Receipt /\ Backed(new.req, new.resp)
    BY <1>2 DEF Receipt
  <2>3. stored' \in [Key -> Receipt \cup {None}]
    BY <1>1, <1>6, <2>2 DEF TypeOK
  <2>4. StoredOK'
    BY <1>1, <1>2, <1>6, <2>2 DEF IInv, StoredOK, TypeOK, Backed
  <2>. QED BY <1>1, <1>3, <1>4, <2>1, <2>3, <2>4 DEF IInv, TypeOK, ClaimOK
<1>. QED BY <1>5, <1>6 DEF Record

LEMMA CrashStep ==
  ASSUME IInv, NEW s \in Server, Crash(s)
  PROVE  IInv'
<1>1. TypeOK /\ \A u \in Thread : CallOK(u)
  BY DEF IInv
<1>2. NoCall \in Call /\ NoCall.pc = "idle"
  BY DEF NoCall, NoEntry, Call, Entry, State
<1>3. call' \in [Thread -> Call] /\ lock' \in [Server -> Thread \cup {None}]
  BY <1>1, <1>2 DEF Crash, TypeOK
<1>4. ASSUME NEW u \in Thread PROVE CallOK(u)'
  <2>1. CASE ServerOf[u] = s
    BY <1>2, <2>1 DEF Crash, CallOK, At, Busy
  <2>2. CASE ServerOf[u] # s
    <3>1. call'[u] = call[u] /\ lock'[ServerOf[u]] = lock[ServerOf[u]]
      BY <1>1, <2>2, CallFields DEF Crash, TypeOK
    <3>. QED BY <1>1, <3>1 DEF CallOK, At, Busy, Backed
  <2>. QED BY <2>1, <2>2
<1>. QED BY <1>1, <1>3, <1>4, NothingWritten, ControlAssumption DEF Crash, TypeOK

LEMMA LocalWriteStep ==
  ASSUME IInv, LocalWrite
  PROVE  IInv'
<1>1. TypeOK /\ (\A u \in Thread : CallOK(u)) /\ (\A o \in Claims : ClaimOK(o))
  BY DEF IInv
<1>2. UNCHANGED <<stored, lock, call, answers, effects, left, crashes>> /\ local' \in 0..MaxLocal
  BY <1>1, ControlAssumption DEF LocalWrite, TypeOK
<1>3. PICK o \in Object, w \in Who, x \in What :
        \/ o \in Documents
           /\ domain' = [domain EXCEPT ![o] = [st |-> "written", who |-> w, what |-> x]]
        \/ o \in Claims /\ domain[o].st \in {"partial", "held"}
           /\ domain' = [domain EXCEPT ![o] = [@ EXCEPT !.st = "released", !.what = x]]
  BY DEF LocalWrite
<1>4. domain' \in [Object -> Entry]
  <2>1. [st |-> "written", who |-> w, what |-> x] \in Entry
    BY DEF Entry, State
  <2>2. [domain[o] EXCEPT !.st = "released", !.what = x] \in Entry
    BY <1>1 DEF Entry, State, TypeOK
  <2>. QED BY <1>1, <1>3, <2>1, <2>2 DEF TypeOK
<1>5. ASSUME NEW u \in Claims PROVE ClaimOK(u)'
  <2>1. CASE domain'[u] = domain[u]
    BY <1>1, <1>2, <2>1 DEF ClaimOK
  <2>2. CASE domain'[u] # domain[u]
    <3>1. u = o /\ o \in Claims /\ domain[o].st \in {"partial", "held"}
          /\ domain'[u].st = "released"
      <4>1. u \in Object /\ Claims \cap Documents = {} /\ DOMAIN domain = Object
        BY <1>1, ControlAssumption DEF TypeOK, Object
      <4>2. u = o
        BY <1>3, <2>2, <4>1
      <4>3. domain[o].st \in {"partial", "held"}
            /\ domain' = [domain EXCEPT ![o] = [@ EXCEPT !.st = "released", !.what = x]]
        BY <1>3, <4>1, <4>2
      <4>4. domain'[u] = [domain[u] EXCEPT !.st = "released", !.what = x]
        BY <4>1, <4>2, <4>3
      <4>5. "st" \in DOMAIN domain[u]
        BY <1>1, <4>1 DEF TypeOK, Entry
      <4>. QED BY <4>2, <4>3, <4>4, <4>5
    <3>. QED BY <1>1, <1>2, <3>1 DEF ClaimOK
  <2>. QED BY <2>1, <2>2
<1>6. \A u \in Thread : CallOK(u)'
  BY <1>1, <1>2 DEF CallOK, At, Busy, Backed
<1>. QED BY <1>1, <1>2, <1>4, <1>5, <1>6 DEF IInv, TypeOK, StoredOK, AnswerIsBacked

LEMMA InitInv == Init => IInv
BY ControlAssumption DEF Init, IInv, TypeOK, CallOK, StoredOK, AnswerIsBacked, ClaimOK, At, Busy,
   NoCall, NoEntry, Call, Entry, State, Object, Operation

LEMMA InvStep == IInv /\ [Next]_vars => IInv'
<1>1. CASE UNCHANGED vars
  BY <1>1 DEF vars, IInv, TypeOK, CallOK, StoredOK, AnswerIsBacked, ClaimOK, At, Busy, Backed
<1>. QED BY <1>1, BeginStep, AcquireStep, LookUpStep, RecoverStep, CheckNewStep, RefuseStep,
            WriteDocumentStep, ReserveStep, FinishClaimStep, ReleaseStep, RecordStep,
            CrashStep, LocalWriteStep DEF Next, ThreadStep

LEMMA Invariance == Spec => []IInv
BY InitInv, InvStep, PTL DEF Spec

(* The locks, calls, objects and recorded answers hold what they may hold. *)
THEOREM TypeCorrect == Spec => []TypeOK
BY Invariance, PTL DEF IInv

(* However many servers there are, each answer tells of an effect of the   *)
(* very request it answers (ControlService._execute): what a retry finds   *)
(* in the domain or under its key was put there for that request.          *)
THEOREM AnswersAreBacked == Spec => []AnswerIsBacked
BY Invariance, PTL DEF IInv

(* A claim is taken once and released once with any number of servers: the *)
(* state of the claim itself tells what has been done.                     *)
THEOREM ClaimOnce == Spec => [](\A o \in Claims : \A p \in Operation : effects[o][p] <= 1)
<1>1. IInv => \A o \in Claims : \A p \in Operation : effects[o][p] <= 1
  BY DEF IInv, ClaimOK
<1>. QED BY <1>1, Invariance, PTL
-----------------------------------------------------------------------------
(* What holds under one lock.                                              *)

LEMMA Alone ==
  ASSUME OneServer, IInv, NEW t \in Thread, Busy(t), NEW u \in Thread \ {t}
  PROVE  ~ Busy(u)
BY DEF OneServer, IInv, CallOK

(* Only t does something: the others are outside.                          *)
LEMMA OthersOutside ==
  ASSUME OneServer, IInv, NEW t \in Thread, Busy(t), \A u \in Thread \ {t} : call'[u] = call[u],
         Undisturbed(t)'
  PROVE  \A u \in Thread : Undisturbed(u)'
<1>1. ASSUME NEW u \in Thread \ {t} PROVE Undisturbed(u)'
  BY <1>1, Alone DEF Undisturbed, Busy, At
<1>. QED BY <1>1

LEMMA AloneAfter ==
  ASSUME OneServer, IInv, NEW t \in Thread, Busy(t), NEW c, call' = [call EXCEPT ![t] = c],
         c.pc \in {"recover", "check", "effect", "record"} =>
           c.key = call[t].key /\ stored'[call[t].key] = None,
         c.pc = "effect" =>
           /\ c.req = call[t].req
           /\ c.req.obj \in Documents => \A p \in Operation : effects'[c.req.obj][p] = 0
  PROVE  \A u \in Thread : Undisturbed(u)'
<1>1. call'[t] = c /\ \A u \in Thread \ {t} : call'[u] = call[u]
  BY DEF IInv, TypeOK
<1>2. Undisturbed(t)'
  BY <1>1 DEF Undisturbed, At
<1>. QED BY <1>1, <1>2, OthersOutside

LEMMA Quiet ==
  ASSUME LockedInv, UNCHANGED <<domain, stored, answers, effects>>,
         \A u \in Thread : Undisturbed(u)'
  PROVE  LockedInv'
BY DEF LockedInv, DocumentOK, AnswersStored

LEMMA LeaveAlone ==
  ASSUME OneServer, IInv, NEW t \in Thread, Busy(t), Leave(t)
  PROVE  \A u \in Thread : Undisturbed(u)'
<1>1. NoCall.pc = "idle"
  BY DEF NoCall
<1>2. call' = [call EXCEPT ![t] = NoCall]
  BY DEF Leave
<1>. QED BY <1>1, <1>2, AloneAfter

LEMMA LockedEnter ==
  ASSUME IInv, LockedInv, NEW t \in Thread, Begin(t) \/ Acquire(t)
  PROVE  LockedInv'
<1>1. /\ \A u \in Thread \ {t} : call'[u] = call[u]
      /\ call'[t].pc \in {"waiting", "look"}
  <2>1. call \in [Thread -> Call] /\ call[t] \in Call
    BY DEF IInv, TypeOK
  <2>2. CASE Begin(t)
    BY <2>1, <2>2 DEF Begin, NoCall
  <2>3. CASE Acquire(t)
    BY <2>1, <2>3 DEF Acquire, Goto, Call
  <2>. QED BY <2>2, <2>3
<1>2. UNCHANGED <<domain, stored, answers, effects>>
  BY DEF Begin, Acquire
<1>3. \A u \in Thread : Undisturbed(u)'
  BY <1>1, <1>2 DEF LockedInv, Undisturbed, At
<1>. QED BY <1>2, <1>3, Quiet

LEMMA OneMoreAnswer ==
  ASSUME NEW k, NEW r, NEW e, stored'[k] = [req |-> r, resp |-> e],
         answers' = answers \cup {[key |-> k, req |-> r, resp |-> e]},
         \A a \in answers : stored'[a.key] = [req |-> a.req, resp |-> a.resp]
  PROVE  AnswersStored'
<1>. DEFINE b == [key |-> k, req |-> r, resp |-> e]
<1>1. stored'[b.key] = [req |-> b.req, resp |-> b.resp] /\ answers' = answers \cup {b}
  OBVIOUS
<1>. HIDE DEF b
<1>. QED BY <1>1 DEF AnswersStored

LEMMA LockedLookUp ==
  ASSUME OneServer, IInv, LockedInv, NEW t \in Thread, LookUp(t)
  PROVE  LockedInv'
<1>. DEFINE k == call[t].key
            r == call[t].req
<1>1. Busy(t) /\ k \in Key /\ r \in Requests /\ call \in [Thread -> Call]
  BY DEF LookUp, At, Busy, IInv, CallOK, TypeOK
<1>2. UNCHANGED <<domain, stored, effects>>
  BY DEF LookUp
<1>3. CASE stored[k] = None
  <2>. DEFINE c == [call[t] EXCEPT !.pc = "recover"]
  <2>1. call' = [call EXCEPT ![t] = c] /\ answers' = answers
    BY <1>1, <1>3 DEF LookUp, Goto
  <2>2. c.pc = "recover" /\ c.key = k
    BY <1>1 DEF Call
  <2>. HIDE DEF c
  <2>3. \A u \in Thread : Undisturbed(u)'
    BY <1>1, <1>2, <1>3, <2>1, <2>2, AloneAfter
  <2>. QED BY <1>2, <2>1, <2>3, Quiet
<1>4. CASE stored[k] # None /\ SameRequest(k, r)
  <2>1. Leave(t) /\ answers' = answers \cup {[key |-> k, req |-> r, resp |-> stored[k].resp]}
    BY <1>4 DEF LookUp, Answer
  <2>2. stored[k] = [req |-> r, resp |-> stored[k].resp]
    BY <1>1, <1>4 DEF SameRequest, IInv, TypeOK, Receipt
  <2>3. \A u \in Thread : Undisturbed(u)'
    BY <1>1, <2>1, LeaveAlone
  <2>4. AnswersStored'
    <3>1. \A a \in answers : stored'[a.key] = [req |-> a.req, resp |-> a.resp]
      BY <1>2 DEF LockedInv, AnswersStored
    <3>2. stored'[k] = [req |-> r, resp |-> stored[k].resp]
      BY <1>2, <2>2
    <3>. QED BY <2>1, <3>1, <3>2, OneMoreAnswer
  <2>. QED BY <1>2, <2>3, <2>4 DEF LockedInv, DocumentOK
<1>5. CASE stored[k] # None /\ ~ SameRequest(k, r)
  <2>1. Leave(t) /\ answers' = answers
    BY <1>5 DEF LookUp
  <2>. QED BY <1>1, <1>2, <2>1, LeaveAlone, Quiet
<1>. QED BY <1>3, <1>4, <1>5

LEMMA LockedRecover ==
  ASSUME OneServer, IInv, LockedInv, NEW t \in Thread, Recover(t)
  PROVE  LockedInv'
<1>. DEFINE r == call[t].req
<1>1. Busy(t) /\ call[t] \in Call /\ stored[call[t].key] = None
  BY DEF Recover, At, Busy, IInv, TypeOK, LockedInv, Undisturbed
<1>2. UNCHANGED <<domain, stored, answers, effects>>
  BY DEF Recover
<1>3. CASE Leave(t)
  BY <1>1, <1>2, <1>3, LeaveAlone, Quiet
<1>4. CASE ~ Leave(t)
  <2>1. PICK c : /\ call' = [call EXCEPT ![t] = c]
                 /\ c.key = call[t].key /\ c.req = r
                 /\ c.pc = "effect" => r.obj \notin Documents
    <3>1. call \in [Thread -> Call]
      BY DEF IInv, TypeOK
    <3>2. CASE call' = [call EXCEPT ![t] = [@ EXCEPT !.pc = "record", !.resp = domain[r.obj]]]
      <4>. DEFINE c == [call[t] EXCEPT !.pc = "record", !.resp = domain[r.obj]]
      <4>1. /\ call' = [call EXCEPT ![t] = c]
            /\ c.key = call[t].key /\ c.req = r /\ c.pc = "record"
        BY <1>1, <3>1, <3>2 DEF Call
      <4>. HIDE DEF c
      <4>. QED BY <4>1
    <3>3. ASSUME NEW pc \in {"check", "effect"}, Goto(t, pc), pc = "effect" => r.obj \notin Documents
          PROVE  \E c : /\ call' = [call EXCEPT ![t] = c]
                        /\ c.key = call[t].key /\ c.req = r
                        /\ c.pc = "effect" => r.obj \notin Documents
      <4>. DEFINE c == [call[t] EXCEPT !.pc = pc]
      <4>1. /\ call' = [call EXCEPT ![t] = c]
            /\ c.key = call[t].key /\ c.req = r /\ c.pc = pc
        BY <1>1, <3>1, <3>3 DEF Call, Goto
      <4>. HIDE DEF c
      <4>. QED BY <3>3, <4>1
    <3>. QED BY <1>4, <3>2, <3>3 DEF Recover
  <2>2. \A u \in Thread : Undisturbed(u)'
    BY <1>1, <1>2, <2>1, AloneAfter
  <2>. QED BY <1>2, <2>2, Quiet
<1>. QED BY <1>3, <1>4

LEMMA LockedCheckNew ==
  ASSUME OneServer, IInv, LockedInv, NEW t \in Thread, CheckNew(t)
  PROVE  LockedInv'
<1>. DEFINE r == call[t].req
            c == [call[t] EXCEPT !.pc = "effect"]
<1>1. Busy(t) /\ call[t] \in Call /\ stored[call[t].key] = None
  BY DEF CheckNew, At, Busy, IInv, TypeOK, LockedInv, Undisturbed
<1>2. UNCHANGED <<domain, stored, answers, effects>>
  BY DEF CheckNew
<1>3. CASE domain[r.obj].st = "none"
  <2>1. call' = [call EXCEPT ![t] = c] /\ c.key = call[t].key /\ c.req = r
    BY <1>1, <1>3 DEF CheckNew, Goto, IInv, TypeOK, Call
  <2>2. r.obj \in Documents => \A p \in Operation : effects'[r.obj][p] = 0
    BY <1>2, <1>3 DEF LockedInv, DocumentOK
  <2>. HIDE DEF c
  <2>3. \A u \in Thread : Undisturbed(u)'
    BY <1>1, <1>2, <2>1, <2>2, AloneAfter
  <2>. QED BY <1>2, <2>3, Quiet
<1>4. CASE domain[r.obj].st # "none"
  BY <1>1, <1>2, <1>4, LeaveAlone, Quiet DEF CheckNew
<1>. QED BY <1>3, <1>4

LEMMA LockedRefuse ==
  ASSUME OneServer, IInv, LockedInv, NEW t \in Thread, Refuse(t)
  PROVE  LockedInv'
BY LeaveAlone, Quiet DEF Refuse, Busy, At

LEMMA LockedWritten ==
  ASSUME OneServer, IInv, LockedInv, NEW t \in Thread, At(t, "effect"), NEW e, Written(t, e),
         UNCHANGED <<stored, answers>>, \A o \in Documents : DocumentOK(o)'
  PROVE  LockedInv'
<1>. DEFINE c == [call[t] EXCEPT !.pc = "record", !.resp = e]
<1>1. Busy(t) /\ call[t] \in Call /\ stored[call[t].key] = None
  BY DEF At, Busy, IInv, TypeOK, LockedInv, Undisturbed
<1>2. call' = [call EXCEPT ![t] = c] /\ c.pc = "record" /\ c.key = call[t].key
  BY <1>1 DEF Written, IInv, TypeOK, Call
<1>. HIDE DEF c
<1>3. \A u \in Thread : Undisturbed(u)'
  BY <1>1, <1>2, AloneAfter
<1>. QED BY <1>3 DEF LockedInv, AnswersStored

LEMMA LockedWriteDocument ==
  ASSUME OneServer, IInv, LockedInv, NEW t \in Thread, WriteDocument(t)
  PROVE  LockedInv'
<1>. DEFINE r == call[t].req
            e == [st |-> "written", who |-> r.who, what |-> r.what]
<1>1. /\ At(t, "effect") /\ Written(t, e) /\ UNCHANGED <<stored, answers>>
      /\ r.obj \in Documents /\ r.obj \in Object
  BY DEF WriteDocument, Object
<1>2. r.op \in Operation /\ \A p \in Operation : effects[r.obj][p] = 0
  BY <1>1, CallFields DEF LockedInv, Undisturbed, IInv, CallOK, At, Request
<1>3. TypeOK
  BY DEF IInv
<1>4. ASSUME NEW o \in Documents PROVE DocumentOK(o)'
  <2>1. CASE o = r.obj
    <3>1. effects'[o] = [effects[o] EXCEPT ![r.op] = @ + 1] /\ domain'[o].st = "written"
      BY <1>1, <1>3, <2>1 DEF Written, TypeOK
    <3>2. \A p \in Operation : effects'[o][p] = IF p = r.op THEN 1 ELSE 0
      BY <1>1, <1>2, <1>3, <2>1, <3>1 DEF TypeOK
    <3>. QED BY <3>1, <3>2 DEF DocumentOK
  <2>2. CASE o # r.obj
    BY <1>1, <1>3, <2>2 DEF Written, TypeOK, LockedInv, DocumentOK, Object
  <2>. QED BY <2>1, <2>2
<1>. HIDE DEF e, r
<1>. QED BY <1>1, <1>4, LockedWritten

(* The operations on claims leave the documents alone.                     *)
LEMMA LockedClaims ==
  ASSUME OneServer, IInv, LockedInv, NEW t \in Thread,
         Reserve(t) \/ FinishClaim(t) \/ Release(t)
  PROVE  LockedInv'
<1>. DEFINE r == call[t].req
<1>1. TypeOK /\ Busy(t) /\ call[t] \in Call /\ stored[call[t].key] = None
  BY DEF Reserve, FinishClaim, Release, At, Busy, IInv, TypeOK, LockedInv, Undisturbed
<1>2. r.obj \in Claims /\ At(t, "effect") /\ UNCHANGED <<stored, answers>>
  BY <1>1, ControlAssumption DEF Reserve, FinishClaim, Release, IInv, CallOK, At
<1>3. ASSUME NEW o \in Documents PROVE domain'[o] = domain[o] /\ effects'[o] = effects[o]
  <2>1. o # r.obj /\ o \in Object
    BY <1>2, ControlAssumption DEF Object
  <2>. QED BY <1>1, <2>1 DEF Reserve, FinishClaim, Release, Written, TypeOK
<1>4. \A o \in Documents : DocumentOK(o)'
  BY <1>3 DEF LockedInv, DocumentOK
<1>5. CASE \E e : Written(t, e)
  BY <1>2, <1>4, <1>5, LockedWritten
<1>6. CASE Reserve(t)
  BY <1>2, <1>4, <1>6 DEF Reserve, LockedInv, Undisturbed, At, AnswersStored
<1>7. CASE \E e : call' = [call EXCEPT ![t] = [@ EXCEPT !.pc = "record", !.resp = e]]
  <2>1. PICK e : call' = [call EXCEPT ![t] = [@ EXCEPT !.pc = "record", !.resp = e]]
    BY <1>7
  <2>. DEFINE c == [call[t] EXCEPT !.pc = "record", !.resp = e]
  <2>2. call' = [call EXCEPT ![t] = c] /\ c.pc = "record" /\ c.key = call[t].key
    BY <1>1, <2>1 DEF TypeOK, Call
  <2>. HIDE DEF c
  <2>3. \A u \in Thread : Undisturbed(u)'
    BY <1>1, <1>2, <2>2, AloneAfter
  <2>. QED BY <1>2, <1>4, <2>3 DEF LockedInv, AnswersStored
<1>. QED BY <1>5, <1>6, <1>7 DEF FinishClaim, Release

LEMMA LockedRecord ==
  ASSUME OneServer, IInv, LockedInv, NEW t \in Thread, Record(t)
  PROVE  LockedInv'
<1>. DEFINE k == call[t].key
            new == [req |-> call[t].req, resp |-> call[t].resp]
<1>1. TypeOK /\ Busy(t) /\ stored[k] = None /\ k \in Key /\ call[t].req \in Requests
  BY DEF Record, At, Busy, IInv, LockedInv, Undisturbed, CallOK
<1>2. Leave(t) /\ UNCHANGED <<domain, effects>>
  BY DEF Record, Answer
<1>3. \A u \in Thread : Undisturbed(u)'
  BY <1>1, <1>2, LeaveAlone
<1>4. CASE UNCHANGED <<stored, answers>>
  BY <1>2, <1>3, <1>4, Quiet
<1>5. CASE stored' = [stored EXCEPT ![k] = new] /\ Answer(t, call[t].resp)
  <2>1. answers' = answers \cup {[key |-> k, req |-> call[t].req, resp |-> call[t].resp]}
    BY <1>5 DEF Answer
  <2>2. ASSUME NEW a \in answers PROVE stored'[a.key] = [req |-> a.req, resp |-> a.resp]
    <3>1. stored[a.key] = [req |-> a.req, resp |-> a.resp] /\ a.key \in Key
          /\ [req |-> a.req, resp |-> a.resp] \in Receipt
      BY <1>1 DEF LockedInv, AnswersStored, TypeOK, Receipt
    <3>2. a.key # k
      BY <1>1, <3>1, ControlAssumption
    <3>. QED BY <1>1, <1>5, <3>1, <3>2 DEF TypeOK
  <2>3. stored'[k] = new
    BY <1>1, <1>5 DEF TypeOK
  <2>4. AnswersStored'
    BY <2>1, <2>2, <2>3, OneMoreAnswer
  <2>. QED BY <1>2, <1>3, <2>4 DEF LockedInv, DocumentOK
<1>. QED BY <1>4, <1>5 DEF Record

LEMMA LockedCrash ==
  ASSUME IInv, LockedInv, NEW s \in Server, Crash(s)
  PROVE  LockedInv'
<1>1. UNCHANGED <<domain, stored, answers, effects>>
  BY DEF Crash
<1>2. \A u \in Thread : call'[u].pc = "idle" \/ call'[u] = call[u]
  BY DEF Crash, NoCall
<1>3. \A u \in Thread : Undisturbed(u)'
  BY <1>1, <1>2 DEF LockedInv, Undisturbed, At
<1>. QED BY <1>1, <1>3, Quiet

LEMMA LockedLocalWrite ==
  ASSUME IInv, LockedInv, LocalWrite
  PROVE  LockedInv'
<1>1. UNCHANGED <<stored, call, answers, effects>>
  BY DEF LocalWrite
<1>2. ASSUME NEW o \in Documents PROVE domain'[o] = domain[o] \/ domain'[o].st = "written"
  BY <1>2, ControlAssumption DEF LocalWrite, IInv, TypeOK, Object
<1>3. \A o \in Documents : DocumentOK(o)'
  BY <1>1, <1>2 DEF LockedInv, DocumentOK
<1>. QED BY <1>1, <1>3 DEF LockedInv, Undisturbed, At, AnswersStored

LEMMA LockedStep == OneServer /\ IInv /\ LockedInv /\ [Next]_vars => LockedInv'
<1>1. CASE UNCHANGED vars
  BY <1>1 DEF vars, LockedInv, Undisturbed, At, DocumentOK, AnswersStored
<1>. QED BY <1>1, LockedEnter, LockedLookUp, LockedRecover, LockedCheckNew, LockedRefuse,
            LockedWriteDocument, LockedClaims, LockedRecord, LockedCrash, LockedLocalWrite
         DEF Next, ThreadStep

LEMMA LockedInvariance ==
  ASSUME OneServer
  PROVE  Spec => [](IInv /\ LockedInv)
<1>1. Init => LockedInv
  BY DEF Init, LockedInv, Undisturbed, At, NoCall, DocumentOK, AnswersStored, Object
<1>2. IInv /\ LockedInv /\ [Next]_vars => IInv' /\ LockedInv'
  BY InvStep, LockedStep
<1>. QED BY <1>1, <1>2, InitInv, PTL DEF Spec

(* A key has one answer (ControlService._execute): retries after a lost    *)
(* answer, a failed append or the death of the one server learn what the   *)
(* first attempt did, and no other request is ever answered under the key. *)
THEOREM OneAnswerForAKey ==
  ASSUME OneServer
  PROVE  Spec => []AnswersAgree
<1>1. IInv /\ LockedInv => AnswersAgree
  <2>1. SUFFICES ASSUME IInv, LockedInv, NEW a \in answers, NEW b \in answers, a.key = b.key
                 PROVE  a = b
    BY DEF AnswersAgree
  <2>2. [req |-> a.req, resp |-> a.resp] = [req |-> b.req, resp |-> b.resp]
    BY <2>1 DEF LockedInv, AnswersStored
  <2>3. a.req = b.req /\ a.resp = b.resp
    BY <2>2
  <2>. QED BY <2>1, <2>3 DEF IInv, TypeOK
<1>. QED BY <1>1, LockedInvariance, PTL

(* However often a request is repeated, under one key or several, with the *)
(* one server dying between any two steps, its effect is recorded once.    *)
THEOREM EffectsAreOnce ==
  ASSUME OneServer
  PROVE  Spec => []EffectOnce
<1>1. IInv /\ LockedInv => EffectOnce
  BY DEF IInv, ClaimOK, LockedInv, DocumentOK, EffectOnce, Object
<1>. QED BY <1>1, LockedInvariance, PTL
-----------------------------------------------------------------------------
(* Forge.  What is read page by page is the part of a list with the words  *)
(* asked for, so the proofs go along a list; for that the library's        *)
(* inductions take an operator, but that the subsets of a finite set are   *)
(* well-founded takes none.                                                *)
LEMMA GreatestOf ==
  ASSUME NEW n \in Nat, NEW T \in SUBSET (0..n), T # {}
  PROVE  \E x \in T : \A y \in T : y <= x
<1>. DEFINE above == {x..n : x \in T}
            R == StrictSubsetOrdering(0..n)
<1>1. above \subseteq SUBSET (0..n)
  OBVIOUS
<1>2. above # {}
  OBVIOUS
<1>3. IsWellFoundedOn(R, SUBSET (0..n))
  <2>1. IsFiniteSet(0..n)
    BY FS_Interval
  <2>2. FiniteSubsetsOf(0..n) = SUBSET (0..n)
    BY <2>1, FS_FiniteSubsetsOfFinite
  <2>3. IsWellFoundedOn(StrictSubsetOrdering(0..n), FiniteSubsetsOf(0..n))
    BY <2>1, FS_StrictSubsetOrderingWellFounded
  <2>. QED BY <2>2, <2>3
<1>4. PICK U \in above : \A V \in above : ~ (<<V, U>> \in R)
  <2>. HIDE DEF R, above
  <2>. QED BY <1>1, <1>2, <1>3, WFMin
<1>5. PICK x \in T : U = x..n
  OBVIOUS
<1>6. ASSUME NEW y \in T, y > x PROVE FALSE
  <2>1. y..n \in above
    OBVIOUS
  <2>2. y..n \subseteq x..n /\ x \in x..n /\ x \notin y..n
    BY <1>6
  <2>3. <<y..n, U>> \in R
    BY <1>1, <1>5, <2>1, <2>2 DEF StrictSubsetOrdering
  <2>. QED BY <1>4, <2>1, <2>3
<1>7. \A y \in T : y \in Nat
  OBVIOUS
<1>. QED BY <1>5, <1>6, <1>7

LEMMA AlongSet ==
  ASSUME NEW n \in Nat, NEW T \in SUBSET (0..n), 0 \in T,
         \A i \in T : i < n => i + 1 \in T
  PROVE  T = 0..n
<1>1. SUFFICES ASSUME NEW x \in 0..n, x \notin T PROVE FALSE
  OBVIOUS
<1>. DEFINE S == {i \in T : i < x}
<1>2. x \in Nat /\ x # 0 /\ x <= n
  BY <1>1
<1>3. 0 \in S /\ S \in SUBSET (0..n)
  <2>1. 0 < x
    BY <1>2
  <2>. QED BY <2>1
<1>4. PICK y \in S : \A z \in S : z <= y
  <2>. HIDE DEF S
  <2>. QED BY <1>3, GreatestOf
<1>5. y \in Nat /\ y < x /\ y < n /\ y + 1 \in T
  BY <1>2, <1>4
<1>6. y + 1 # x
  BY <1>1, <1>5
<1>7. y + 1 \in S
  BY <1>2, <1>5, <1>6
<1>. QED BY <1>4, <1>5, <1>7
(* What defines OnlyUpTo up to place n.                                    *)
IsOnlyUpTo(s, T, n, G) ==
  G = [i \in 0..n |-> IF i = 0 THEN <<>>
                      ELSE IF s[i] \in T THEN Append(G[i - 1], s[i]) ELSE G[i - 1]]

LEMMA OnlyUpToIs ==
  ASSUME NEW S, NEW s \in Seq(S), NEW T
  PROVE  IsOnlyUpTo(s, T, Len(s), OnlyUpTo(s, T))
<1>. DEFINE N == {n \in 0..Len(s) : \E G : IsOnlyUpTo(s, T, n, G)}
<1>1. Len(s) \in Nat /\ N \in SUBSET (0..Len(s))
  OBVIOUS
<1>2. 0 \in N
  <2>. DEFINE G == [i \in 0..0 |-> <<>>]
  <2>1. IsOnlyUpTo(s, T, 0, G)
    BY DEF IsOnlyUpTo
  <2>. QED BY <1>1, <2>1
<1>3. ASSUME NEW n \in N, n < Len(s) PROVE n + 1 \in N
  <2>1. PICK G : IsOnlyUpTo(s, T, n, G)
    BY <1>3
  <2>. DEFINE x == IF s[n + 1] \in T THEN Append(G[n], s[n + 1]) ELSE G[n]
              H == [i \in 0..n + 1 |-> IF i = n + 1 THEN x ELSE G[i]]
  <2>2. n \in Nat /\ n + 1 \in 0..Len(s) /\ n + 1 # 0 /\ (n + 1) - 1 = n
    BY <1>1, <1>3
  <2>3. \A i \in 0..n : H[i] = G[i]
    BY <2>2
  <2>4. \A i \in 0..n : G[i] = IF i = 0 THEN <<>>
                               ELSE IF s[i] \in T THEN Append(G[i - 1], s[i]) ELSE G[i - 1]
    BY <2>1, <2>2 DEF IsOnlyUpTo
  <2>5. H[n + 1] = x
    BY <2>2
  <2>6. DOMAIN H = 0..n + 1 /\ H = [i \in 0..n + 1 |-> H[i]]
    OBVIOUS
  <2>. HIDE DEF H
  <2>7. ASSUME NEW i \in 0..n + 1
        PROVE  H[i] = IF i = 0 THEN <<>>
                      ELSE IF s[i] \in T THEN Append(H[i - 1], s[i]) ELSE H[i - 1]
    <3>1. CASE i = n + 1
      BY <2>2, <2>3, <2>5, <3>1
    <3>2. CASE i # n + 1
      <4>1. i \in 0..n /\ (i # 0 => i - 1 \in 0..n)
        BY <2>2, <2>7, <3>2
      <4>. QED BY <2>3, <2>4, <4>1
    <3>. QED BY <3>1, <3>2
  <2>8. IsOnlyUpTo(s, T, n + 1, H)
    BY <2>6, <2>7 DEF IsOnlyUpTo
  <2>. QED BY <2>2, <2>8
<1>4. N = 0..Len(s)
  <2>. HIDE DEF N
  <2>. QED BY <1>1, <1>2, <1>3, AlongSet
<1>5. \E G : IsOnlyUpTo(s, T, Len(s), G)
  BY <1>1, <1>4
<1>. QED BY <1>5 DEF OnlyUpTo, IsOnlyUpTo

(* Up to a place, from up to the place before.                             *)
LEMMA OnlySteps ==
  ASSUME NEW S, NEW s \in Seq(S), NEW T
  PROVE  /\ DOMAIN OnlyUpTo(s, T) = 0..Len(s) /\ OnlyUpTo(s, T)[0] = <<>>
         /\ \A i \in 1..Len(s) :
              OnlyUpTo(s, T)[i] = IF s[i] \in T THEN Append(OnlyUpTo(s, T)[i - 1], s[i])
                                  ELSE OnlyUpTo(s, T)[i - 1]
<1>. DEFINE G == OnlyUpTo(s, T)
<1>1. IsOnlyUpTo(s, T, Len(s), G) /\ Len(s) \in Nat
  BY OnlyUpToIs
<1>. HIDE DEF G
<1>2. /\ DOMAIN G = 0..Len(s) /\ G[0] = <<>>
      /\ \A i \in 1..Len(s) :
           G[i] = IF s[i] \in T THEN Append(G[i - 1], s[i]) ELSE G[i - 1]
  <2>1. DOMAIN G = 0..Len(s)
    BY <1>1 DEF IsOnlyUpTo
  <2>2. \A i \in 0..Len(s) :
          G[i] = IF i = 0 THEN <<>>
                 ELSE IF s[i] \in T THEN Append(G[i - 1], s[i]) ELSE G[i - 1]
    BY <1>1 DEF IsOnlyUpTo
  <2>3. 0 \in 0..Len(s) /\ \A i \in 1..Len(s) : i \in 0..Len(s) /\ i # 0
    BY <1>1
  <2>. QED BY <2>1, <2>2, <2>3
<1>. QED BY <1>2 DEF G

LEMMA OnlyTyped ==
  ASSUME NEW S, NEW s \in Seq(S), NEW T
  PROVE  /\ \A i \in 0..Len(s) : OnlyUpTo(s, T)[i] \in Seq(S \cap T)
         /\ Only(s, T) \in Seq(S \cap T)
<1>g. PICK G : G = OnlyUpTo(s, T)
  OBVIOUS
<1>. DEFINE N == {i \in 0..Len(s) : G[i] \in Seq(S \cap T)}
<1>0. /\ DOMAIN G = 0..Len(s) /\ G[0] = <<>>
      /\ \A i \in 1..Len(s) : G[i] = IF s[i] \in T THEN Append(G[i - 1], s[i]) ELSE G[i - 1]
  BY <1>g, OnlySteps
<1>1. Len(s) \in Nat /\ N \in SUBSET (0..Len(s)) /\ 0 \in N
  <2>1. Len(s) \in Nat /\ 0 \in 0..Len(s)
    OBVIOUS
  <2>2. <<>> \in Seq(S \cap T)
    OBVIOUS
  <2>3. 0 \in N
    BY <1>0, <2>1, <2>2
  <2>. QED BY <2>1, <2>3
<1>2. ASSUME NEW i \in N, i < Len(s) PROVE i + 1 \in N
  <2>1. /\ i + 1 \in 1..Len(s) /\ i + 1 \in 0..Len(s) /\ (i + 1) - 1 = i /\ s[i + 1] \in S
        /\ G[i] \in Seq(S \cap T)
    BY <1>1, <1>2
  <2>2. G[i + 1] = IF s[i + 1] \in T THEN Append(G[i], s[i + 1]) ELSE G[i]
    BY <1>0, <2>1
  <2>3. G[i + 1] \in Seq(S \cap T)
    BY <2>1, <2>2
  <2>. QED BY <2>1, <2>3
<1>3. N = 0..Len(s)
  <2>. HIDE DEF N
  <2>. QED BY <1>1, <1>2, AlongSet
<1>4. Len(s) \in 0..Len(s)
  BY <1>1
<1>. QED BY <1>3, <1>4, <1>g DEF Only

(* The place of s[i], if it is in T, among the members of T.               *)
Place(s, T, i) == Len(OnlyUpTo(s, T)[i])

LEMMA OnlyPlaces ==
  ASSUME NEW S, NEW s \in Seq(S), NEW T, NEW n \in 1..Len(s), s[n] \in T
  PROVE  /\ Place(s, T, n) \in 1..Len(Only(s, T))
         /\ Only(s, T)[Place(s, T, n)] = s[n]
<1>g. PICK G : G = OnlyUpTo(s, T)
  OBVIOUS
<1>. DEFINE p == Len(G[n])
            N == {i \in 0..Len(s) : n <= i => p \in 1..Len(G[i]) /\ G[i][p] = s[n]}
<1>0. /\ DOMAIN G = 0..Len(s)
      /\ \A i \in 1..Len(s) : G[i] = IF s[i] \in T THEN Append(G[i - 1], s[i]) ELSE G[i - 1]
  BY <1>g, OnlySteps
<1>2. \A i \in 0..Len(s) : G[i] \in Seq(S \cap T)
  BY <1>g, OnlyTyped
<1>1. Len(s) \in Nat /\ n \in Nat /\ N \in SUBSET (0..Len(s)) /\ 0 \in N
  OBVIOUS
<1>3. p \in 1..Len(G[n]) /\ G[n][p] = s[n]
  <2>1. G[n] = Append(G[n - 1], s[n])
    BY <1>0
  <2>2. n - 1 \in 0..Len(s) /\ s[n] \in S \cap T
    BY <1>1
  <2>3. G[n - 1] \in Seq(S \cap T)
    BY <1>2, <2>2
  <2>. QED BY <2>1, <2>2, <2>3
<1>4. ASSUME NEW i \in N, i < Len(s) PROVE i + 1 \in N
  <2>1. i + 1 \in 1..Len(s) /\ i + 1 \in 0..Len(s) /\ (i + 1) - 1 = i /\ i \in 0..Len(s)
    BY <1>1, <1>4
  <2>2. CASE i + 1 < n
    BY <1>1, <2>1, <2>2
  <2>3. CASE i + 1 = n
    BY <1>1, <1>3, <2>1, <2>3
  <2>4. CASE n <= i
    <3>1. p \in 1..Len(G[i]) /\ G[i][p] = s[n] /\ G[i] \in Seq(S \cap T)
      BY <1>2, <1>4, <2>1, <2>4
    <3>2. \/ s[i + 1] \in S \cap T /\ G[i + 1] = Append(G[i], s[i + 1])
          \/ G[i + 1] = G[i]
      <4>1. G[i + 1] = IF s[i + 1] \in T THEN Append(G[i], s[i + 1]) ELSE G[i]
        BY <1>0, <2>1
      <4>2. s[i + 1] \in S
        BY <2>1
      <4>. QED BY <4>1, <4>2
    <3>3. p \in 1..Len(G[i + 1]) /\ G[i + 1][p] = s[n]
      <4>. DEFINE g == G[i]  q == Len(G[n])
      <4>1. ASSUME NEW x \in S \cap T PROVE q \in 1..Len(Append(g, x)) /\ Append(g, x)[q] = s[n]
        BY <3>1
      <4>. QED BY <3>1, <3>2, <4>1
    <3>. QED BY <2>1, <3>3
  <2>. QED BY <1>1, <2>1, <2>2, <2>3, <2>4
<1>5. N = 0..Len(s)
  <2>. HIDE DEF N
  <2>. QED BY <1>1, <1>4, AlongSet
<1>6. Len(s) \in N
  BY <1>1, <1>5
<1>. QED BY <1>1, <1>6, <1>g DEF Only, Place

LEMMA OnlyMembers ==
  ASSUME NEW S, NEW s \in Seq(S), NEW T
  PROVE  ToSet(Only(s, T)) = ToSet(s) \cap T
<1>1. s \in Seq(ToSet(s))
  BY DEF ToSet
<1>2. Only(s, T) \in Seq(ToSet(s) \cap T)
  BY <1>1, OnlyTyped
<1>3. ToSet(Only(s, T)) \subseteq ToSet(s) \cap T
  BY <1>2 DEF ToSet
<1>4. ASSUME NEW x \in ToSet(s) \cap T PROVE x \in ToSet(Only(s, T))
  <2>1. PICK n \in 1..Len(s) : x = s[n]
    BY <1>4 DEF ToSet
  <2>2. Place(s, T, n) \in DOMAIN Only(s, T) /\ Only(s, T)[Place(s, T, n)] = x
    BY <1>2, <2>1, OnlyPlaces
  <2>. QED BY <2>2 DEF ToSet
<1>. QED BY <1>3, <1>4

(* Nothing comes to stand earlier when the list grows and no place of it   *)
(* leaves T.                                                               *)
LEMMA PlacesStay ==
  ASSUME NEW S, NEW s \in Seq(S), NEW t \in Seq(S), NEW T, NEW d \in Nat,
         \A i \in 1..Len(s) : i + d \in 1..Len(t) /\ (s[i] \in T => t[i + d] \in T),
         NEW n \in 1..Len(s)
  PROVE  Place(s, T, n) <= Place(t, T, n + d)
<1>g. PICK F, G : F = OnlyUpTo(s, T) /\ G = OnlyUpTo(t, T)
  OBVIOUS
<1>. DEFINE N == {i \in 0..Len(s) : Len(F[i]) <= Len(G[i + d])}
<1>1. Len(s) \in Nat /\ Len(t) \in Nat /\ N \in SUBSET (0..Len(s)) /\ Len(s) + d <= Len(t)
  <2>1. Len(s) \in 1..Len(s)
    OBVIOUS
  <2>. QED BY <2>1
<1>2. /\ \A i \in 0..Len(s) : F[i] \in Seq(S \cap T)
      /\ \A i \in 0..Len(t) : G[i] \in Seq(S \cap T)
  BY <1>g, OnlyTyped
<1>a. /\ F[0] = <<>>
      /\ \A i \in 1..Len(s) : F[i] = IF s[i] \in T THEN Append(F[i - 1], s[i]) ELSE F[i - 1]
  BY <1>g, OnlySteps
<1>b. \A i \in 1..Len(t) : G[i] = IF t[i] \in T THEN Append(G[i - 1], t[i]) ELSE G[i - 1]
  BY <1>g, OnlySteps
<1>3. 0 \in N
  <2>1. d \in 0..Len(t)
    BY <1>1
  <2>2. F[0] = <<>>
    BY <1>a
  <2>. QED BY <1>1, <1>2, <2>1, <2>2
<1>4. ASSUME NEW i \in N, i < Len(s) PROVE i + 1 \in N
  <2>0. i \in Nat /\ i < Len(s)
    BY <1>1, <1>4
  <2>1. /\ i + 1 \in 1..Len(s) /\ (i + 1) - 1 = i /\ i \in 0..Len(s) /\ i + 1 \in 0..Len(s)
        /\ (i + 1) + d \in 1..Len(t) /\ ((i + 1) + d) - 1 = i + d /\ i + d \in 0..Len(t)
        /\ (i + 1) + d \in 0..Len(t)
    BY <1>1, <2>0
  <2>2. F[i + 1] = IF s[i + 1] \in T THEN Append(F[i], s[i + 1]) ELSE F[i]
    BY <1>a, <2>1
  <2>3. G[(i + 1) + d] = IF t[(i + 1) + d] \in T
                         THEN Append(G[i + d], t[(i + 1) + d]) ELSE G[i + d]
    BY <1>b, <2>1
  <2>4. /\ s[i + 1] \in T => t[(i + 1) + d] \in T
        /\ s[i + 1] \in S /\ t[(i + 1) + d] \in S
    <3>1. s[i + 1] \in T => t[(i + 1) + d] \in T
      BY <2>1
    <3>2. s[i + 1] \in S /\ t[(i + 1) + d] \in S
      BY <2>1
    <3>. QED BY <3>1, <3>2
  <2>5. F[i] \in Seq(S \cap T) /\ G[i + d] \in Seq(S \cap T) /\ Len(F[i]) <= Len(G[i + d])
    BY <1>2, <1>4, <2>1
  <2>6. Len(F[i + 1]) <= Len(G[(i + 1) + d])
    <3>1. ASSUME NEW f \in Seq(S \cap T), NEW x \in S \cap T
          PROVE  Len(Append(f, x)) = Len(f) + 1 /\ Len(f) \in Nat
      OBVIOUS
    <3>. QED BY <2>2, <2>3, <2>4, <2>5, <3>1
  <2>. QED BY <2>1, <2>6
<1>5. N = 0..Len(s)
  <2>. HIDE DEF N
  <2>. QED BY <1>1, <1>3, <1>4, AlongSet
<1>6. n \in N
  <2>. HIDE DEF N
  <2>1. n \in 0..Len(s)
    BY <1>1
  <2>. QED BY <1>5, <2>1
<1>. QED BY <1>6, <1>g DEF Place
-----------------------------------------------------------------------------
(* The words of the adapters' tables.                                      *)

Foreign == {"odd", "review", "iteration", "none"}

LEMMA StateWords ==
  ASSUME NEW p \in {"github", "gitlab", "gitea", "bitbucket", "azure"}
  PROVE  DOMAIN StateTable(p).words \cap Foreign = {}
<1>1. p = "github" => DOMAIN StateTable(p).words \cap Foreign = {}
  BY DEF StateTable, GithubState, Table, Foreign
<1>2. p = "gitlab" => DOMAIN StateTable(p).words \cap Foreign = {}
  BY DEF StateTable, GitlabState, Table, Foreign
<1>3. p = "gitea" => DOMAIN StateTable(p).words \cap Foreign = {}
  BY DEF StateTable, GiteaState, Table, Foreign
<1>4. p = "bitbucket" => DOMAIN StateTable(p).words \cap Foreign = {}
  BY DEF StateTable, BitbucketState, Table, Foreign
<1>5. p = "azure" => DOMAIN StateTable(p).words \cap Foreign = {}
  BY DEF StateTable, AzureState, Table, Foreign
<1>. QED BY <1>1, <1>2, <1>3, <1>4, <1>5

LEMMA RunWords ==
  ASSUME NEW p \in {"github", "gitlab", "gitea", "bitbucket", "azure"}, NEW f
  PROVE  DOMAIN RunTable(p, f).words \cap Foreign = {}
<1>1. p = "github" => DOMAIN RunTable(p, f).words \cap Foreign = {}
  BY DEF RunTable, GithubRun, Table, Foreign
<1>2. p = "gitlab" => DOMAIN RunTable(p, f).words \cap Foreign = {}
  BY DEF RunTable, GitlabRun, Table, Foreign
<1>3. p = "gitea" => DOMAIN RunTable(p, f).words \cap Foreign = {}
  BY DEF RunTable, GiteaRun, Table, Foreign
<1>4. p = "bitbucket" => DOMAIN RunTable(p, f).words \cap Foreign = {}
  BY DEF RunTable, BitbucketCheck, BitbucketRun, Table, Foreign
<1>5. p = "azure" => DOMAIN RunTable(p, f).words \cap Foreign = {}
  BY DEF RunTable, AzureCheck, AzureRun, Table, Foreign
<1>. QED BY <1>1, <1>2, <1>3, <1>4, <1>5

LEMMA ReviewWords ==
  ASSUME NEW p \in {"github", "gitlab", "gitea", "bitbucket", "azure"}
  PROVE  DOMAIN ReviewTable(p).words \cap Foreign = {}
<1>1. p = "github" => DOMAIN ReviewTable(p).words \cap Foreign = {}
  BY DEF ReviewTable, GithubReview, Table, Foreign
<1>2. p = "gitlab" => DOMAIN ReviewTable(p).words \cap Foreign = {}
  BY DEF ReviewTable, GitlabReview, Table, Foreign
<1>3. p = "gitea" => DOMAIN ReviewTable(p).words \cap Foreign = {}
  BY DEF ReviewTable, GiteaReview, Table, Foreign
<1>4. p = "bitbucket" => DOMAIN ReviewTable(p).words \cap Foreign = {}
  BY DEF ReviewTable, BitbucketReview, Table, Foreign
<1>5. p = "azure" => DOMAIN ReviewTable(p).words \cap Foreign = {}
  BY DEF ReviewTable, AzureReview, Table, Foreign
<1>. QED BY <1>1, <1>2, <1>3, <1>4, <1>5

LEMMA FileWords ==
  ASSUME NEW p \in {"github", "gitlab", "gitea", "bitbucket", "azure"}
  PROVE  DOMAIN FileTable(p).words \cap Foreign = {}
<1>1. p = "github" => DOMAIN FileTable(p).words \cap Foreign = {}
  BY DEF FileTable, GithubFile, Table, Foreign
<1>2. p = "gitlab" => DOMAIN FileTable(p).words \cap Foreign = {}
  BY DEF FileTable, GitlabFile, Table, Foreign
<1>3. p = "gitea" => DOMAIN FileTable(p).words \cap Foreign = {}
  BY DEF FileTable, GiteaFile, Table, Foreign
<1>4. p = "bitbucket" => DOMAIN FileTable(p).words \cap Foreign = {}
  BY DEF FileTable, BitbucketFile, Table, Foreign
<1>5. p = "azure" => DOMAIN FileTable(p).words \cap Foreign = {}
  BY DEF FileTable, AzureFile, Table, Foreign
<1>. QED BY <1>1, <1>2, <1>3, <1>4, <1>5

LEMMA CommentWords ==
  ASSUME NEW p \in {"github", "gitlab", "gitea", "bitbucket", "azure"}
  PROVE  /\ DOMAIN CommentTable(p).words \cap Foreign = {}
         /\ DOMAIN CommentTable(p).words \subseteq {"inline", "system", "deleted"}
         /\ p \in {"github", "gitea"} => DOMAIN CommentTable(p).words = {"inline"}
<1>. DEFINE Holds(q) ==
       /\ DOMAIN CommentTable(q).words \cap Foreign = {}
       /\ DOMAIN CommentTable(q).words \subseteq {"inline", "system", "deleted"}
       /\ q \in {"github", "gitea"} => DOMAIN CommentTable(q).words = {"inline"}
<1>1. Holds("github")
  BY DEF CommentTable, GithubComment, Table, Foreign
<1>2. Holds("gitlab")
  BY DEF CommentTable, GitlabComment, Table, Foreign
<1>3. Holds("gitea")
  BY DEF CommentTable, GiteaComment, Table, Foreign
<1>4. Holds("bitbucket")
  BY DEF CommentTable, BitbucketComment, Table, Foreign
<1>5. Holds("azure")
  BY DEF CommentTable, AzureComment, Table, Foreign
<1>. QED BY <1>1, <1>2, <1>3, <1>4, <1>5

(* A word a table lacks has its default, which is no verdict.              *)
LEMMA Defaults ==
  ASSUME NEW a \in Asks
  PROVE  \/ a.provider = "gitlab" /\ a.family = "reviews"
         \/ TableOf(a).default \notin {"passed", "failed", "approved"}
<1>1. a.provider \in {"github", "gitlab", "gitea", "bitbucket", "azure"}
  BY ForgeAssumption DEF Asks
<1>2. CASE a.family = "change_requests"
  BY <1>1, <1>2 DEF TableOf, StateTable, GithubState, GitlabState, GiteaState,
       BitbucketState, AzureState, Table
<1>3. CASE a.family = "reviews"
  BY <1>1, <1>3 DEF TableOf, ReviewTable, GithubReview, GitlabReview, GiteaReview,
       BitbucketReview, AzureReview, Table
<1>4. CASE a.family = "comments"
  BY <1>1, <1>4 DEF TableOf, CommentTable, GithubComment, GitlabComment, GiteaComment,
       BitbucketComment, AzureComment, Table
<1>5. CASE a.family = "changed_files"
  BY <1>1, <1>5 DEF TableOf, FileTable, GithubFile, GitlabFile, GiteaFile,
       BitbucketFile, AzureFile, Table
<1>6. CASE a.family \in {"checks", "workflow_runs"}
  <2>1. TableOf(a) = RunTable(a.provider, a.family)
    BY <1>6 DEF TableOf
  <2>2. RunTable(a.provider, a.family).default = "unknown"
    BY <1>1 DEF RunTable, GithubRun, GitlabRun, GiteaRun, BitbucketCheck, BitbucketRun,
         AzureCheck, AzureRun, Table
  <2>. QED BY <2>1, <2>2
<1>7. a.family \in Family
  BY DEF Asks
<1>. QED BY <1>2, <1>3, <1>4, <1>5, <1>6, <1>7 DEF Family

LEMMA KnownWords ==
  ASSUME NEW a \in Asks
  PROVE  DOMAIN TableOf(a).words \cap Foreign = {}
<1>1. a.provider \in {"github", "gitlab", "gitea", "bitbucket", "azure"}
  BY ForgeAssumption DEF Asks
<1>2. TableOf(a) \in {StateTable(a.provider), ReviewTable(a.provider), CommentTable(a.provider),
                      FileTable(a.provider), RunTable(a.provider, a.family)}
  BY DEF TableOf
<1>. QED BY <1>1, <1>2, StateWords, RunWords, ReviewWords, FileWords, CommentWords
-----------------------------------------------------------------------------
(* What is asked and what is listed.                                       *)

(* The words whose objects a listing may bring: all, or those that mean    *)
(* the state asked for where the provider's own filter knows that state.   *)
Askable(a) ==
  {w \in Words(a) : \/ a.filter = "any" \/ a.provider \in {"github", "gitea"}
                    \/ Translate(TableOf(a), w) = a.filter}

Queries(a) ==
  {q \in [words : SUBSET Askable(a), of : Nat,
          paging : {"numbered", "whole", "linked", "next"}] :
     /\ Parent(a) \in q.words => q.words = {Parent(a)}
     /\ Parent(a) = "none" => q \in ToSet(Listings(a))}

LEMMA Kinds ==
  ASSUME NEW a \in Asks
  PROVE  /\ a.provider \in {"github", "gitlab", "gitea", "bitbucket", "azure"}
         /\ a.family \in Family /\ a.filter \in Filter
         /\ a.filter # "any" => a.family = "change_requests"
         /\ Parent(a) \in {"review", "iteration", "none"}
         /\ Parent(a) = "review" <=> a.provider = "gitea" /\ a.family = "comments"
         /\ Parent(a) = "iteration" <=> a.provider = "azure" /\ a.family = "changed_files"
         /\ Parent(a) # "none" => a.filter = "any"
         /\ ChildWords(a) = IF Parent(a) = "review" THEN {"inline"}
                            ELSE IF Parent(a) = "iteration" THEN {"edit"} ELSE {}
<1>1. /\ a.provider \in {"github", "gitlab", "gitea", "bitbucket", "azure"}
      /\ a.family \in Family /\ a.filter \in Filter
      /\ a.filter # "any" => a.family = "change_requests"
  BY ForgeAssumption DEF Asks
<1>2. /\ Parent(a) \in {"review", "iteration", "none"}
      /\ Parent(a) = "review" <=> a.provider = "gitea" /\ a.family = "comments"
      /\ Parent(a) = "iteration" <=> a.provider = "azure" /\ a.family = "changed_files"
  BY DEF Parent
<1>3. ChildWords(a) = IF Parent(a) = "review" THEN {"inline"}
                      ELSE IF Parent(a) = "iteration" THEN {"edit"} ELSE {}
  BY <1>2 DEF ChildWords
<1>. QED BY <1>1, <1>2, <1>3

LEMMA WordsOfParents ==
  ASSUME NEW a \in Asks
  PROVE  /\ "none" \notin Words(a)
         /\ \A w \in {"review", "iteration"} : w \in Words(a) => Parent(a) = w
         /\ Parent(a) = "review" => Words(a) = {"inline", "general", "review"}
         /\ Parent(a) = "iteration" => Words(a) = {"edit", "iteration"}
<1>1. DOMAIN TableOf(a).words \cap {"odd", "review", "iteration", "none"} = {}
  BY KnownWords DEF Foreign
<1>2. CASE a.family = "change_requests"
  <2>2. Parent(a) = "none"
    BY <1>2, Kinds
  <2>1. Words(a) \subseteq DOMAIN TableOf(a).words \cup {"closed", "odd"}
    BY <1>2, <2>2 DEF Words
  <2>. QED BY <1>1, <2>1, <2>2
<1>3. CASE a.family = "comments"
  <2>2. Parent(a) \in {"none", "review"}
    BY <1>3, Kinds
  <2>1. Words(a) = (DOMAIN TableOf(a).words \cup {"general", Parent(a)}) \ {"none"}
    BY <1>3, <2>2 DEF Words
  <2>3. Parent(a) = "review" => DOMAIN TableOf(a).words = {"inline"}
    BY <1>3, Kinds, CommentWords DEF TableOf
  <2>. QED BY <1>1, <2>1, <2>2, <2>3
<1>4. CASE Parent(a) = "iteration"
  <2>1. a.family = "changed_files"
    BY <1>4, Kinds
  <2>2. Words(a) = {"edit", "iteration"}
    BY <1>4, <2>1 DEF Words
  <2>. QED BY <1>4, <2>2
<1>5. CASE a.family \notin {"change_requests", "comments"} /\ Parent(a) # "iteration"
  <2>1. Words(a) \subseteq DOMAIN TableOf(a).words \cup {"odd"}
    BY <1>5 DEF Words
  <2>2. Parent(a) = "none"
    BY <1>5, Kinds
  <2>. QED BY <1>1, <2>1, <2>2
<1>. QED BY <1>2, <1>3, <1>4, <1>5

(* The queries of Bitbucket's change requests, one for each state.         *)
LEMMA BitbucketStates ==
  ASSUME NEW a \in Asks, a.provider = "bitbucket", a.family = "change_requests"
  PROVE  LET asked == {w \in Words(a) : a.filter \in {"any", Translate(TableOf(a), w)}}
         IN  /\ Listings(a) \in Seq([words : {{w} : w \in asked}, of : {0}, paging : {"next"}])
             /\ \A w \in asked : \E k \in DOMAIN Listings(a) : Listings(a)[k].words = {w}
<1>. DEFINE States == {"OPEN", "MERGED", "DECLINED", "SUPERSEDED"}
            states == <<"OPEN", "MERGED", "DECLINED", "SUPERSEDED">>
            chosenOf == {s \in ToSet(states) :
                           a.filter \in {"any", Translate(BitbucketState, s)}}
            asked == {w \in Words(a) : a.filter \in {"any", Translate(TableOf(a), w)}}
<1>1. TableOf(a) = BitbucketState
  BY DEF TableOf, StateTable
<1>2. Words(a) = {"OPEN", "MERGED", "DECLINED", "SUPERSEDED"}
  <2>1. Words(a) = DOMAIN TableOf(a).words \cup {}
    BY Kinds DEF Words
  <2>. QED BY <1>1, <2>1 DEF BitbucketState, Table
<1>3. states \in Seq(States) /\ ToSet(states) = {"OPEN", "MERGED", "DECLINED", "SUPERSEDED"}
  <2>1. states \in Seq(States) /\ DOMAIN states = 1..4
    OBVIOUS
  <2>2. 1..4 = {1, 2, 3, 4}
    OBVIOUS
  <2>3. ToSet(states) = {states[1], states[2], states[3], states[4]}
    BY <2>1, <2>2 DEF ToSet
  <2>. QED BY <2>1, <2>3
<1>4. chosenOf = asked
  BY <1>1, <1>2, <1>3
<1>. HIDE DEF states, chosenOf, asked
<1>5. PICK chosen : chosen = Only(states, asked)
  OBVIOUS
<1>6. Listings(a) = [i \in DOMAIN chosen |-> Query({chosen[i]}, "next")]
  <2>1. Listings(a) = BitbucketListings(a)
    BY DEF Listings
  <2>. QED BY <1>4, <1>5, <2>1 DEF BitbucketListings, states, chosenOf
<1>7. chosen \in Seq(States \cap asked) /\ ToSet(chosen) = ToSet(states) \cap asked
  BY <1>3, <1>5, OnlyTyped, OnlyMembers
<1>8. asked \subseteq ToSet(states)
  BY <1>2, <1>3 DEF asked
<1>9. Listings(a) \in Seq([words : {{w} : w \in asked}, of : {0}, paging : {"next"}])
  <2>1. chosen \in Seq(asked)
    BY <1>7
  <2>2. \A w \in asked :
          Query({w}, "next")
            \in [words : {{v} : v \in asked}, of : {0}, paging : {"next"}]
    BY DEF Query
  <2>. DEFINE R == [words : {{v} : v \in asked}, of : {0}, paging : {"next"}]
  <2>3. DOMAIN chosen = 1..Len(chosen) /\ Len(chosen) \in Nat
        /\ \A i \in DOMAIN chosen : Query({chosen[i]}, "next") \in R
    BY <2>1, <2>2
  <2>. HIDE DEF R
  <2>4. [i \in DOMAIN chosen |-> Query({chosen[i]}, "next")] \in Seq(R)
    BY <2>3
  <2>. QED BY <1>6, <2>4 DEF R
<1>10. ASSUME NEW w \in asked
       PROVE  \E k \in DOMAIN Listings(a) : Listings(a)[k].words = {w}
  <2>1. PICK k \in DOMAIN chosen : chosen[k] = w
    BY <1>7, <1>8 DEF ToSet
  <2>2. k \in DOMAIN Listings(a) /\ Listings(a)[k] = Query({chosen[k]}, "next")
    BY <1>6
  <2>3. Query({chosen[k]}, "next").words = {chosen[k]}
    BY DEF Query
  <2>. QED BY <2>1, <2>2, <2>3
<1>. QED BY <1>9, <1>10 DEF asked

(* Every word of what is wanted is in some listing, but for children, and  *)
(* their parents have a listing of their own.                              *)
Listable(a) ==
  {w \in Words(a) : /\ w \notin ChildWords(a) \cup {Parent(a)}
                    /\ a.filter \in {"any", Translate(TableOf(a), w)}}

ListingsOK(a) ==
  LET L == Listings(a)
  IN  /\ L \in Seq(Queries(a)) /\ L # <<>>
      /\ \A k \in DOMAIN L : L[k].of = 0
      /\ Parent(a) # "none" => \E k \in DOMAIN L : L[k].words = {Parent(a)}
      /\ \A w \in Listable(a) : \E k \in DOMAIN L : w \in L[k].words

Asked(a) == [words : SUBSET Askable(a), of : {0},
             paging : {"numbered", "whole", "linked", "next"}]

LEMMA ListingsTyped ==
  ASSUME NEW a \in Asks, Listings(a) \in Seq(Asked(a)),
         \A k \in DOMAIN Listings(a) :
           Parent(a) \in Listings(a)[k].words => Listings(a)[k].words = {Parent(a)}
  PROVE  Listings(a) \in Seq(Queries(a)) /\ \A k \in DOMAIN Listings(a) : Listings(a)[k].of = 0
<1>. DEFINE L == Listings(a)
<1>1. \A k \in DOMAIN L : L[k] \in Asked(a) /\ L[k] \in ToSet(L)
  BY DEF ToSet
<1>2. \A k \in DOMAIN L : L[k] \in Queries(a) /\ L[k].of = 0
  BY <1>1 DEF Queries, Asked
<1>. QED BY <1>2

LEMMA OneListing ==
  ASSUME NEW a \in Asks, NEW W \in SUBSET Askable(a),
         NEW p \in {"numbered", "whole", "linked", "next"},
         Listings(a) = <<Query(W, p)>>,
         Parent(a) \in W => W = {Parent(a)},
         Parent(a) # "none" => W = {Parent(a)},
         Listable(a) \subseteq W
  PROVE  ListingsOK(a)
<1>. DEFINE L == Listings(a)
<1>1. /\ Query(W, p) \in Asked(a)
      /\ Query(W, p).words = W
  BY DEF Query, Asked
<1>2. L \in Seq(Asked(a)) /\ DOMAIN L = {1} /\ L[1] = Query(W, p) /\ L # <<>>
  BY <1>1
<1>3. L \in Seq(Queries(a)) /\ \A k \in DOMAIN L : L[k].of = 0
  BY <1>1, <1>2, ListingsTyped
<1>. QED BY <1>1, <1>2, <1>3 DEF ListingsOK

LEMMA TwoListings ==
  ASSUME NEW a \in Asks, NEW V \in SUBSET Askable(a), NEW W \in SUBSET Askable(a),
         NEW p \in {"numbered", "whole", "linked", "next"},
         Listings(a) = <<Query(V, p), Query(W, p)>>,
         Parent(a) \notin V,
         Parent(a) \in W => W = {Parent(a)},
         Parent(a) # "none" => W = {Parent(a)},
         Listable(a) \subseteq V \cup W
  PROVE  ListingsOK(a)
<1>. DEFINE L == Listings(a)
<1>1. /\ Query(V, p) \in Asked(a) /\ Query(W, p) \in Asked(a)
      /\ Query(V, p).words = V /\ Query(W, p).words = W
  BY DEF Query, Asked
<1>2. /\ L \in Seq(Asked(a)) /\ DOMAIN L = {1, 2} /\ L # <<>>
      /\ L[1] = Query(V, p) /\ L[2] = Query(W, p)
  BY <1>1
<1>3. L \in Seq(Queries(a)) /\ \A k \in DOMAIN L : L[k].of = 0
  BY <1>1, <1>2, ListingsTyped
<1>4. Parent(a) # "none" => L[2].words = {Parent(a)}
  BY <1>1, <1>2
<1>5. \A w \in Listable(a) : w \in L[1].words \/ w \in L[2].words
  BY <1>1, <1>2
<1>. QED BY <1>2, <1>3, <1>4, <1>5 DEF ListingsOK

(* The one listing that the provider filters by the state asked for.       *)
LEMMA FilteredListing ==
  ASSUME NEW a \in Asks, a.filter # "any",
         NEW W, NEW p \in {"numbered", "linked"},
         Listings(a) = <<Query(W, p)>>,
         \/ W = Of(a, {a.filter})
         \/ a.provider \in {"github", "gitea"} /\ W = ClosedIncludesMerged(a)
  PROVE  ListingsOK(a)
<1>1. Parent(a) = "none" /\ "none" \notin Words(a)
  BY Kinds, WordsOfParents
<1>2. a.filter \in {"open", "closed", "merged"}
  BY Kinds DEF Filter
<1>3. W \subseteq Words(a)
  BY DEF Of, ClosedIncludesMerged
<1>4. W \subseteq Askable(a)
  BY <1>3 DEF Of, Askable
<1>5. Listable(a) \subseteq W
  BY <1>2 DEF Of, ClosedIncludesMerged, Listable
<1>. QED BY <1>1, <1>3, <1>4, <1>5, OneListing

(* The one listing of all there is.                                        *)
LEMMA WholeListing ==
  ASSUME NEW a \in Asks, a.filter = "any", Parent(a) = "none",
         NEW p \in {"numbered", "whole", "linked", "next"},
         Listings(a) = <<Query(Words(a), p)>>
  PROVE  ListingsOK(a)
<1>1. "none" \notin Words(a)
  BY WordsOfParents
<1>2. Words(a) \subseteq Askable(a)
  BY DEF Askable
<1>3. Listable(a) \subseteq Words(a)
  BY DEF Listable
<1>. QED BY <1>1, <1>2, <1>3, OneListing

LEMMA ListingsAre ==
  ASSUME NEW a \in Asks
  PROVE  ListingsOK(a)
<1>1. CASE a.provider = "github"
  <2>1. Listings(a) = GithubListings(a) /\ Parent(a) = "none"
    BY <1>1, Kinds DEF Listings
  <2>2. CASE a.filter # "any"
    <3>1. Listings(a) = <<Query(ClosedIncludesMerged(a), "numbered")>>
      BY <2>1, <2>2, Kinds DEF GithubListings
    <3>. QED BY <1>1, <2>2, <3>1, FilteredListing
  <2>3. CASE a.family = "comments"
    <3>1. /\ a.filter = "any"
          /\ Listings(a) = <<Query({"general"}, "numbered"),
                             Query({"inline"}, "numbered")>>
      BY <2>1, <2>3, Kinds DEF GithubListings
    <3>2. Words(a) = {"general", "inline"}
      <4>1. DOMAIN TableOf(a).words = {"inline"}
        BY <1>1, <2>3, CommentWords DEF TableOf
      <4>. QED BY <2>1, <2>3, <4>1, Kinds DEF Words
    <3>3. {"general"} \subseteq Askable(a) /\ {"inline"} \subseteq Askable(a)
      BY <3>1, <3>2 DEF Askable
    <3>4. Listable(a) \subseteq {"general"} \cup {"inline"}
      BY <3>2 DEF Listable
    <3>. QED BY <2>1, <3>1, <3>3, <3>4, TwoListings
  <2>4. CASE a.filter = "any" /\ a.family # "comments"
    <3>1. Listings(a) = <<Query(Words(a), "numbered")>>
      BY <2>1, <2>4 DEF GithubListings
    <3>. QED BY <2>1, <2>4, <3>1, WholeListing
  <2>. QED BY <2>2, <2>3, <2>4
<1>2. CASE a.provider = "gitlab"
  <2>1. Listings(a) = GitlabListings(a) /\ Parent(a) = "none"
    BY <1>2, Kinds DEF Listings
  <2>2. CASE a.filter # "any"
    <3>1. Listings(a) = <<Query(Of(a, {a.filter}), "numbered")>>
      BY <2>1, <2>2, Kinds DEF GitlabListings
    <3>. QED BY <2>2, <3>1, FilteredListing
  <2>3. CASE a.filter = "any"
    <3>1. PICK p \in {"numbered", "whole"} : Listings(a) = <<Query(Words(a), p)>>
      BY <2>1, <2>3 DEF GitlabListings
    <3>. QED BY <2>1, <2>3, <3>1, WholeListing
  <2>. QED BY <2>2, <2>3
<1>3. CASE a.provider = "gitea"
  <2>1. Listings(a) = GiteaListings(a)
    BY <1>3 DEF Listings
  <2>2. CASE a.filter # "any"
    <3>1. Listings(a) = <<Query(ClosedIncludesMerged(a), "numbered")>>
      BY <2>1, <2>2, Kinds DEF GiteaListings
    <3>. QED BY <1>3, <2>2, <3>1, FilteredListing
  <2>3. CASE a.family = "comments"
    <3>1. /\ a.filter = "any" /\ Parent(a) = "review"
          /\ Listings(a) = <<Query({"general"}, "numbered"), Query({"review"}, "numbered")>>
      BY <1>3, <2>1, <2>3, Kinds DEF GiteaListings
    <3>2. Words(a) = {"inline", "general", "review"} /\ ChildWords(a) = {"inline"}
      BY <3>1, Kinds, WordsOfParents
    <3>3. {"general"} \subseteq Askable(a) /\ {"review"} \subseteq Askable(a)
      BY <3>1, <3>2 DEF Askable
    <3>4. Listable(a) \subseteq {"general"} \cup {"review"}
      BY <3>2 DEF Listable
    <3>. QED BY <3>1, <3>3, <3>4, TwoListings
  <2>4. CASE a.filter = "any" /\ a.family # "comments"
    <3>1. Listings(a) = <<Query(Words(a), "numbered")>> /\ Parent(a) = "none"
      BY <1>3, <2>1, <2>4, Kinds DEF GiteaListings
    <3>. QED BY <2>4, <3>1, WholeListing
  <2>. QED BY <2>2, <2>3, <2>4
<1>4. CASE a.provider = "bitbucket"
  <2>1. Listings(a) = BitbucketListings(a) /\ Parent(a) = "none" /\ "none" \notin Words(a)
    BY <1>4, Kinds, WordsOfParents DEF Listings
  <2>2. CASE a.family = "change_requests"
    <3>. DEFINE asked == {w \in Words(a) : a.filter \in {"any", Translate(TableOf(a), w)}}
                L == Listings(a)
    <3>1. /\ L \in Seq([words : {{w} : w \in asked}, of : {0}, paging : {"next"}])
          /\ \A w \in asked : \E k \in DOMAIN L : L[k].words = {w}
      BY <1>4, <2>2, BitbucketStates
    <3>2. asked \subseteq Askable(a)
      BY DEF Askable
    <3>3. [words : {{w} : w \in asked}, of : {0}, paging : {"next"}] \subseteq Asked(a)
      BY <3>2 DEF Asked
    <3>4. L \in Seq(Asked(a)) /\ \A k \in DOMAIN L : "none" \notin L[k].words
      <4>. DEFINE R == [words : {{w} : w \in asked}, of : {0}, paging : {"next"}]
      <4>1. \A q \in R : q \in Asked(a) /\ "none" \notin q.words
        BY <2>1, <3>3
      <4>2. L \in Seq(R)
        BY <3>1
      <4>. HIDE DEF R, L
      <4>. QED BY <4>1, <4>2
    <3>5. Listable(a) \subseteq asked
      BY DEF Listable
    <3>6. asked # {}
      <4>1. TableOf(a) = BitbucketState /\ Words(a) = DOMAIN BitbucketState.words
        <5>1. TableOf(a) = BitbucketState
          BY <1>4, <2>2 DEF TableOf, StateTable
        <5>2. Words(a) = DOMAIN TableOf(a).words \cup {}
          BY <1>4, <2>2, Kinds DEF Words
        <5>. QED BY <5>1, <5>2
      <4>2. /\ {"OPEN", "MERGED", "DECLINED"} \subseteq DOMAIN BitbucketState.words
            /\ Translate(BitbucketState, "OPEN") = "open"
            /\ Translate(BitbucketState, "MERGED") = "merged"
            /\ Translate(BitbucketState, "DECLINED") = "closed"
        BY DEF BitbucketState, Table, Translate
      <4>3. a.filter \in {"any", "open", "closed", "merged"}
        BY Kinds DEF Filter
      <4>. QED BY <4>1, <4>2, <4>3
    <3>7. L # <<>>
      BY <3>1, <3>6
    <3>8. \A w \in Listable(a) : \E k \in DOMAIN L : w \in L[k].words
      BY <3>1, <3>5
    <3>. HIDE DEF L, asked
    <3>9. L \in Seq(Queries(a)) /\ \A k \in DOMAIN L : L[k].of = 0
      BY <2>1, <3>4, ListingsTyped DEF L
    <3>. QED BY <2>1, <3>7, <3>8, <3>9 DEF ListingsOK, L
  <2>3. CASE a.family # "change_requests"
    <3>1. a.filter = "any"
      BY <2>3, Kinds
    <3>2. PICK p \in {"whole", "next"} : Listings(a) = <<Query(Words(a), p)>>
      BY <2>1, <2>3 DEF BitbucketListings
    <3>. QED BY <2>1, <3>1, <3>2, WholeListing
  <2>. QED BY <2>2, <2>3
<1>5. CASE a.provider = "azure"
  <2>1. Listings(a) = AzureListings(a)
    BY <1>5 DEF Listings
  <2>2. CASE a.filter # "any"
    <3>1. Listings(a) = <<Query(Of(a, {a.filter}), "linked")>>
      BY <2>1, <2>2, Kinds DEF AzureListings
    <3>. QED BY <2>2, <3>1, FilteredListing
  <2>3. CASE a.family = "changed_files"
    <3>1. /\ a.filter = "any" /\ Parent(a) = "iteration"
          /\ Listings(a) = <<Query({"iteration"}, "linked")>>
      BY <1>5, <2>1, <2>3, Kinds DEF AzureListings
    <3>2. Words(a) = {"edit", "iteration"} /\ ChildWords(a) = {"edit"}
      BY <3>1, Kinds, WordsOfParents
    <3>3. {"iteration"} \subseteq Askable(a)
      BY <3>1, <3>2 DEF Askable
    <3>4. Listable(a) \subseteq {"iteration"}
      BY <3>2 DEF Listable
    <3>. QED BY <3>1, <3>3, <3>4, OneListing
  <2>4. CASE a.filter = "any" /\ a.family # "changed_files"
    <3>1. PICK p \in {"numbered", "linked"} : Listings(a) = <<Query(Words(a), p)>>
      BY <2>1, <2>4 DEF AzureListings
    <3>2. Parent(a) = "none"
      BY <1>5, <2>4, Kinds
    <3>. QED BY <2>4, <3>1, <3>2, WholeListing
  <2>. QED BY <2>2, <2>3, <2>4
<1>. QED BY <1>1, <1>2, <1>3, <1>4, <1>5, Kinds
-----------------------------------------------------------------------------
(* What holds of an observation at any moment.                             *)

ForgeTypeOK ==
  /\ ask \in Asks
  /\ forge \in Seq(ForgeObject(Words(ask), Nat))
  /\ todo \in Seq(Queries(ask))
  /\ Reading => todo # <<>>
  /\ page \in Nat \ {0}
  /\ got \in Seq(ForgeObject(Askable(ask), Nat))
  /\ changes \in Nat
  /\ past \in [stayed : SUBSET Nat, left : BOOLEAN,
               seen : SUBSET ForgeObject(Words(ask), Nat), notFound : BOOLEAN]

Seen == ToSet(forge) \cup ToSet(got) \subseteq past.seen

(* Until an object leaves a listing the forge only grows, so that children *)
(* have their parents.                                                     *)
Settled ==
  /\ \A i, j \in DOMAIN forge : forge[i].id = forge[j].id => i = j
  /\ \A i \in DOMAIN forge :
       /\ forge[i].id <= MaxObjects + changes
       /\ IF forge[i].word \in ChildWords(ask)
          THEN \E j \in DOMAIN forge :
                 forge[j].id = forge[i].of /\ forge[j].word = Parent(ask)
          ELSE forge[i].of = 0
  /\ Parent(ask) = "iteration" => past.seen = ToSet(forge)
  /\ past.stayed \subseteq Ids(Wanted(ask, ToSet(forge)))

(* How much of the first listing has been read.                            *)
Before == IF todo[1].paging = "whole" THEN 0 ELSE (page - 1) * PageSize

(* An object is still to come in a listing that has been asked for.        *)
Ahead(i) ==
  \E k \in DOMAIN todo :
    /\ forge[i] \in Listed(todo[k])
    /\ k = 1 => Place(forge, Listed(todo[1]), i) > Before

(* Its parent is, or the parents are still being listed.                   *)
ChildAhead(i) ==
  /\ forge[i].word \in ChildWords(ask)
  /\ \E j \in DOMAIN forge :
       /\ forge[j].id = forge[i].of /\ forge[j].word = Parent(ask)
       /\ \/ Ahead(j)
          \/ /\ forge[j] \in ToSet(got)
             /\ \E k \in DOMAIN todo : todo[k].words = {Parent(ask)}

(* An object that makes a value of the answer.                             *)
Good(o) ==
  /\ o.word # Parent(ask) /\ Meaning(ask, o) # "hidden"
  /\ ask.filter \in {"any", Meaning(ask, o)}

Received(x) == \E o \in ToSet(got) : o.id = x /\ Good(o)

Covered(x) ==
  \/ Received(x)
  \/ \E i \in DOMAIN forge : forge[i].id = x /\ (Ahead(i) \/ ChildAhead(i))

(* What has stayed has been received or is still to come.                  *)
NothingPassed == Reading => \A x \in past.stayed : Covered(x)

ForgeInv ==
  /\ ForgeTypeOK
  /\ Seen
  /\ ~ past.left => Settled /\ NothingPassed
  /\ NothingIsOverlooked
  /\ ValuesAreReported
-----------------------------------------------------------------------------
(* Facts about lists of objects.                                           *)

LEMMA ObjectFields ==
  ASSUME NEW W, NEW P, NEW s \in Seq(ForgeObject(W, P)), NEW j \in 1..Len(s)
  PROVE  s[j] \in ForgeObject(W, P) /\ s[j].id \in Nat /\ s[j].word \in W /\ s[j].of \in P
<1>1. s[j] \in ForgeObject(W, P)
  OBVIOUS
<1>. QED BY <1>1 DEF ForgeObject

LEMMA BoundedIds ==
  ASSUME NEW W, NEW s \in Seq(ForgeObject(W, Nat))
  PROVE  \E m \in Nat : \A j \in 1..Len(s) : s[j].id <= m
<1>. DEFINE N == {i \in 0..Len(s) : \E m \in Nat : \A j \in 1..i : s[j].id <= m}
<1>1. Len(s) \in Nat /\ N \in SUBSET (0..Len(s)) /\ 0 \in N
  OBVIOUS
<1>2. ASSUME NEW i \in N, i < Len(s) PROVE i + 1 \in N
  <2>1. i \in Nat /\ i + 1 \in 1..Len(s) /\ i + 1 \in 0..Len(s)
    BY <1>1, <1>2
  <2>2. PICK m \in Nat : \A j \in 1..i : s[j].id <= m
    OBVIOUS
  <2>3. \A j \in 1..Len(s) : s[j].id \in Nat
    BY ObjectFields
  <2>. DEFINE n == IF s[i + 1].id <= m THEN m ELSE s[i + 1].id
  <2>4. n \in Nat /\ m <= n /\ s[i + 1].id <= n
    BY <2>1, <2>3
  <2>5. ASSUME NEW j \in 1..(i + 1) PROVE s[j].id <= n
    <3>1. CASE j = i + 1
      BY <2>4, <3>1
    <3>2. CASE j # i + 1
      <4>1. j \in 1..i /\ j \in 1..Len(s)
        BY <2>1, <3>2
      <4>2. s[j].id <= m /\ s[j].id \in Nat
        BY <2>2, <2>3, <4>1
      <4>. HIDE DEF n
      <4>. QED BY <2>4, <4>2
    <3>. QED BY <3>1, <3>2
  <2>. QED BY <2>1, <2>4, <2>5
<1>3. N = 0..Len(s)
  <2>. HIDE DEF N
  <2>. QED BY <1>1, <1>2, AlongSet
<1>4. Len(s) \in N
  <2>1. Len(s) \in 0..Len(s)
    OBVIOUS
  <2>. HIDE DEF N
  <2>. QED BY <1>3, <2>1
<1>. QED BY <1>4

LEMMA MaxIs ==
  ASSUME NEW W, NEW s \in Seq(ForgeObject(W, Nat)), NEW P \in SUBSET ToSet(s), P # {}
  PROVE  /\ Max(Ids(P)) \in Ids(P) /\ Max(Ids(P)) \in Nat
         /\ \A y \in Ids(P) : y <= Max(Ids(P))
<1>1. PICK m \in Nat : \A j \in 1..Len(s) : s[j].id <= m
  BY BoundedIds
<1>2. \A j \in 1..Len(s) : s[j].id \in Nat
  BY ObjectFields
<1>3. \A o \in P : o.id \in 0..m
  BY <1>1, <1>2 DEF ToSet
<1>4. Ids(P) \in SUBSET (0..m) /\ Ids(P) # {}
  BY <1>3 DEF Ids
<1>5. \E x \in Ids(P) : \A y \in Ids(P) : y <= x
  BY <1>4, GreatestOf
<1>6. \E x \in Ids(P) : \A y \in Ids(P) : x >= y
  BY <1>4, <1>5
<1>7. Max(Ids(P)) \in Ids(P) /\ \A y \in Ids(P) : Max(Ids(P)) >= y
  BY <1>6 DEF Max
<1>8. \A y \in Ids(P) : y \in Nat
  BY <1>4
<1>. QED BY <1>7, <1>8

LEMMA SetOfConcat ==
  ASSUME NEW S, NEW s \in Seq(S), NEW t \in Seq(S)
  PROVE  /\ s \o t \in Seq(S)
         /\ ToSet(s \o t) = ToSet(s) \cup ToSet(t)
<1>1. /\ Len(s) \in Nat /\ Len(t) \in Nat /\ s \o t \in Seq(S) /\ Len(s \o t) = Len(s) + Len(t)
      /\ \A i \in 1..Len(s) : (s \o t)[i] = s[i]
      /\ \A i \in 1..Len(t) : (s \o t)[Len(s) + i] = t[i]
  OBVIOUS
<1>2. \A i \in 1..Len(s) : i \in 1..Len(s \o t)
  BY <1>1
<1>3. \A i \in 1..Len(t) : Len(s) + i \in 1..Len(s \o t)
  BY <1>1
<1>4. \A i \in 1..Len(s \o t) :
        \/ i \in 1..Len(s)
        \/ i - Len(s) \in 1..Len(t) /\ Len(s) + (i - Len(s)) = i
  BY <1>1
<1>5. \A i \in 1..Len(s \o t) : (s \o t)[i] \in ToSet(s) \cup ToSet(t)
  BY <1>1, <1>4 DEF ToSet
<1>6. ToSet(s) \cup ToSet(t) \subseteq ToSet(s \o t)
  <2>1. DOMAIN s = 1..Len(s) /\ DOMAIN t = 1..Len(t) /\ DOMAIN (s \o t) = 1..Len(s \o t)
    BY <1>1
  <2>2. \A i \in DOMAIN (s \o t) : (s \o t)[i] \in ToSet(s \o t)
    BY Zenon DEF ToSet
  <2>3. ASSUME NEW i \in 1..Len(s) PROVE s[i] \in ToSet(s \o t)
    <3>1. i \in DOMAIN (s \o t) /\ (s \o t)[i] = s[i]
      BY <1>1, <1>2, <2>1
    <3>2. (s \o t)[i] \in ToSet(s \o t)
      BY <2>2, <3>1, Zenon
    <3>. QED BY <3>1, <3>2, Zenon
  <2>4. ASSUME NEW i \in 1..Len(t) PROVE t[i] \in ToSet(s \o t)
    <3>1. Len(s) + i \in DOMAIN (s \o t) /\ (s \o t)[Len(s) + i] = t[i]
      BY <1>1, <1>3, <2>1
    <3>2. (s \o t)[Len(s) + i] \in ToSet(s \o t)
      BY <2>2, <3>1, Zenon
    <3>. QED BY <3>1, <3>2, Zenon
  <2>5. ToSet(s) = {s[i] : i \in 1..Len(s)} /\ ToSet(t) = {t[i] : i \in 1..Len(t)}
    BY <2>1, Zenon DEF ToSet
  <2>. QED BY <2>3, <2>4, <2>5
<1>7. ToSet(s \o t) \subseteq ToSet(s) \cup ToSet(t)
  BY <1>1, <1>5 DEF ToSet
<1>. QED BY <1>1, <1>6, <1>7
-----------------------------------------------------------------------------
(* The page that arrives.                                                  *)

LEMMA FirstQuery ==
  ASSUME ForgeTypeOK, Reading
  PROVE  /\ Head(todo) = todo[1] /\ todo[1] \in Queries(ask) /\ 1 \in DOMAIN todo
         /\ Head(todo).words \subseteq Askable(ask) /\ Head(todo).of \in Nat
         /\ Listing(Head(todo)) \in Seq(ForgeObject(Askable(ask), Nat) \cap Listed(Head(todo)))
         /\ ToSet(Listing(Head(todo))) \subseteq ToSet(forge)
<1>1. todo # <<>> /\ todo \in Seq(Queries(ask)) /\ forge \in Seq(ForgeObject(Words(ask), Nat))
  BY DEF ForgeTypeOK
<1>2. Head(todo) = todo[1] /\ todo[1] \in Queries(ask) /\ 1 \in DOMAIN todo
  BY <1>1
<1>3. Head(todo).words \subseteq Askable(ask) /\ Head(todo).of \in Nat
  BY <1>2 DEF Queries
<1>4. Listing(Head(todo)) \in Seq(ForgeObject(Words(ask), Nat) \cap Listed(Head(todo)))
  BY <1>1, OnlyTyped DEF Listing
<1>5. ForgeObject(Words(ask), Nat) \cap Listed(Head(todo))
        \subseteq ForgeObject(Askable(ask), Nat) \cap Listed(Head(todo))
  BY <1>3 DEF Listed, ForgeObject
<1>6. Listing(Head(todo)) \in Seq(ForgeObject(Askable(ask), Nat) \cap Listed(Head(todo)))
  BY <1>4, <1>5
<1>7. ToSet(Listing(Head(todo))) \subseteq ToSet(forge)
  BY <1>1, OnlyMembers DEF Listing
<1>. QED BY <1>2, <1>3, <1>6, <1>7

LEMMA BatchIs ==
  ASSUME ForgeTypeOK, Reading
  PROVE  /\ Batch \in Seq(ForgeObject(Askable(ask), Nat))
         /\ ToSet(Batch) \subseteq ToSet(forge)
         /\ \A p \in 1..Len(Listing(Head(todo))) :
              p > Before /\ (LastPage \/ p <= page * PageSize) =>
                Listing(Head(todo))[p] \in ToSet(Batch)
         /\ ~ LastPage => Head(todo).paging # "whole"
<1>. DEFINE list == Listing(Head(todo))
            first == (page - 1) * PageSize
            last == IF Len(list) < page * PageSize THEN Len(list) ELSE page * PageSize
<1>1. list \in Seq(ForgeObject(Askable(ask), Nat)) /\ ToSet(list) \subseteq ToSet(forge)
  BY FirstQuery
<1>2. Head(todo) = todo[1]
  BY FirstQuery
<1>3. page \in Nat /\ page >= 1 /\ PageSize \in Nat /\ PageSize >= 1
  BY ForgeAssumption DEF ForgeTypeOK
<1>4. first \in Nat /\ page * PageSize = first + PageSize /\ page * PageSize \in Nat
  BY <1>3
<1>5. Len(list) \in Nat
  BY <1>1
<1>. HIDE DEF list
<1>6. CASE Head(todo).paging = "whole"
  <2>1. Batch = list /\ LastPage
    BY <1>6 DEF Batch, LastPage, list
  <2>2. \A p \in 1..Len(list) : list[p] \in ToSet(list)
    BY <1>1 DEF ToSet
  <2>. QED BY <1>1, <2>1, <2>2 DEF list
<1>7. CASE Head(todo).paging # "whole"
  <2>1. Batch = SubSeq(list, first + 1, last)
    BY <1>7 DEF Batch, list
  <2>. HIDE DEF first
  <2>2. last \in Nat /\ last <= Len(list) /\ last <= page * PageSize
    BY <1>4, <1>5
  <2>3. /\ Batch \in Seq(ForgeObject(Askable(ask), Nat))
        /\ Len(Batch) = IF first + 1 <= last THEN last - first ELSE 0
        /\ \A n \in 1..Len(Batch) : Batch[n] = list[first + n]
    BY <1>1, <1>4, <1>5, <2>1, <2>2
  <2>4. ASSUME NEW n \in 1..Len(Batch) PROVE Batch[n] \in ToSet(list)
    <3>1. first + n \in 1..Len(list)
      BY <1>4, <2>2, <2>3
    <3>. QED BY <1>1, <2>3, <3>1 DEF ToSet
  <2>5. ToSet(Batch) \subseteq ToSet(list)
    BY <2>3, <2>4 DEF ToSet
  <2>6. ASSUME NEW p \in 1..Len(list), p > first, p <= last
        PROVE  list[p] \in ToSet(Batch)
    <3>1. p - first \in 1..Len(Batch) /\ first + (p - first) = p
      BY <1>4, <2>2, <2>3, <2>6
    <3>. QED BY <2>3, <3>1 DEF ToSet
  <2>7. Before = first
    BY <1>2, <1>7 DEF Before, first
  <2>8. LastPage => Len(list) <= last
    <3>1. CASE Head(todo).paging = "numbered"
      <4>1. LastPage => Len(Batch) < PageSize
        BY <3>1 DEF LastPage
      <4>. QED BY <1>3, <1>4, <1>5, <2>2, <2>3, <4>1
    <3>2. CASE Head(todo).paging # "numbered"
      <4>1. LastPage => page * PageSize >= Len(list)
        BY <1>7, <3>2 DEF LastPage, list
      <4>. QED BY <1>4, <1>5, <4>1
    <3>. QED BY <3>1, <3>2
  <2>9. ASSUME NEW p \in 1..Len(list), p > Before, LastPage \/ p <= page * PageSize
        PROVE  list[p] \in ToSet(Batch)
    <3>1. p <= last
      BY <1>4, <1>5, <2>2, <2>8, <2>9
    <3>. QED BY <2>6, <2>7, <2>9, <3>1
  <2>. QED BY <1>1, <1>7, <2>3, <2>5, <2>9 DEF list
<1>. QED BY <1>6, <1>7
-----------------------------------------------------------------------------
(* The forge changes.                                                      *)

(* Nothing is said of an answer while there is none.                       *)
LEMMA NoAnswer ==
  ASSUME result.is \notin {"available", "missing"}
  PROVE  NothingIsOverlooked /\ ValuesAreReported
BY DEF NothingIsOverlooked, ValuesAreReported, Available

(* What a change must leave alone: every object finds itself d places on,  *)
(* and in every listing that it was in.                                    *)
Carried(objects, d) ==
  \A i \in 1..Len(forge) :
    /\ i + d \in 1..Len(objects)
    /\ objects[i + d].id = forge[i].id
    /\ objects[i + d] = forge[i] \/ Parent(ask) = "none"
    /\ \A q \in ToSet(todo) : forge[i] \in Listed(q) => objects[i + d] \in Listed(q)

LEMMA AheadStays ==
  ASSUME ForgeTypeOK, UNCHANGED <<ask, todo, page, got>>,
         forge' \in Seq(ForgeObject(Words(ask), Nat)),
         NEW d \in Nat, Carried(forge', d),
         NEW i \in 1..Len(forge), Ahead(i)
  PROVE  Ahead(i + d)'
<1>1. /\ forge \in Seq(ForgeObject(Words(ask), Nat)) /\ todo \in Seq(Queries(ask))
      /\ todo' = todo /\ Before' = Before /\ DOMAIN todo = 1..Len(todo) /\ Len(todo) \in Nat
  BY DEF ForgeTypeOK, Before
<1>2. PICK k \in DOMAIN todo :
        /\ forge[i] \in Listed(todo[k])
        /\ k = 1 => Place(forge, Listed(todo[1]), i) > Before
  BY DEF Ahead
<1>3. todo[k] \in ToSet(todo)
  BY DEF ToSet
<1>4. forge'[i + d] \in Listed(todo[k])
  BY <1>2, <1>3 DEF Carried
<1>5. CASE k # 1
  BY <1>1, <1>4, <1>5 DEF Ahead, Listed
<1>6. CASE k = 1
  <2>. DEFINE T == Listed(todo[1])
  <2>1. \A j \in 1..Len(forge) :
          j + d \in 1..Len(forge') /\ (forge[j] \in T => forge'[j + d] \in T)
    BY <1>3, <1>6 DEF Carried
  <2>2. Place(forge, T, i) <= Place(forge', T, i + d)
    <3>. HIDE DEF T
    <3>. QED BY <1>1, <2>1, PlacesStay
  <2>3. Place(forge, T, i) > Before
    BY <1>2, <1>6
  <2>4. Place(forge, T, i) \in Nat /\ Place(forge', T, i + d) \in Nat /\ Before \in Int
    <3>1. OnlyUpTo(forge, T)[i] \in Seq(ForgeObject(Words(ask), Nat) \cap T)
      <4>1. i \in 0..Len(forge)
        OBVIOUS
      <4>. QED BY <1>1, <4>1, OnlyTyped
    <3>2. OnlyUpTo(forge', T)[i + d] \in Seq(ForgeObject(Words(ask), Nat) \cap T)
      <4>1. i + d \in 0..Len(forge')
        BY <2>1
      <4>. QED BY <4>1, OnlyTyped
    <3>3. Before \in Int
      BY ForgeAssumption DEF Before, ForgeTypeOK
    <3>. QED BY <3>1, <3>2, <3>3 DEF Place
  <2>5. Place(forge', T, i + d) > Before
    <3>. HIDE DEF T
    <3>. QED BY <2>2, <2>3, <2>4
  <2>. QED BY <1>1, <1>4, <1>6, <2>5 DEF Ahead, Listed, Place
<1>. QED BY <1>5, <1>6

LEMMA ChangeKeeps ==
  ASSUME ForgeInv, NEW objects \in Seq(ForgeObject(Words(ask), Nat)), NEW leaves \in BOOLEAN,
         Changes(objects, leaves),
         ~ leaves /\ ~ past.left => Settled' /\ \E d \in Nat : Carried(objects, d)
  PROVE  ForgeInv'
<1>1. /\ Reading /\ changes' = changes + 1 /\ forge' = objects
      /\ UNCHANGED <<ask, todo, page, got, result>>
      /\ past' = [past EXCEPT
           !.stayed = past.stayed \cap Ids(Wanted(ask, ToSet(objects))),
           !.left = past.left \/ leaves,
           !.seen = past.seen \cup ToSet(objects)]
  BY DEF Changes
<1>2. ForgeTypeOK /\ Seen
  BY DEF ForgeInv
<1>3. ToSet(objects) \subseteq ForgeObject(Words(ask), Nat)
  BY DEF ToSet
<1>4. /\ past'.stayed \subseteq past.stayed /\ past'.left = (past.left \/ leaves)
      /\ past'.seen = past.seen \cup ToSet(objects)
      /\ past' \in [stayed : SUBSET Nat, left : BOOLEAN,
                    seen : SUBSET ForgeObject(Words(ask), Nat), notFound : BOOLEAN]
  BY <1>1, <1>2, <1>3 DEF ForgeTypeOK
<1>5. ForgeTypeOK'
  <2>1. changes' \in Nat /\ Reading' = Reading
    BY <1>1, <1>2 DEF ForgeTypeOK, Reading
  <2>. QED BY <1>1, <1>2, <1>4, <2>1 DEF ForgeTypeOK
<1>6. Seen'
  BY <1>1, <1>2, <1>4 DEF Seen
<1>7. result'.is \notin {"available", "missing"}
  BY <1>1 DEF Reading
<1>8. NothingIsOverlooked' /\ ValuesAreReported'
  BY <1>7 DEF NothingIsOverlooked, ValuesAreReported, Available
<1>9. ASSUME ~ past'.left
      PROVE  Settled' /\ NothingPassed'
  <2>1. ~ leaves /\ ~ past.left
    BY <1>4, <1>9
  <2>2. Settled' /\ NothingPassed
    BY <2>1 DEF ForgeInv
  <2>3. PICK d \in Nat : Carried(forge', d)
    BY <1>1, <2>1
  <2>4. ASSUME NEW x \in past'.stayed PROVE Covered(x)'
    <3>1. Covered(x)
      BY <1>1, <1>4, <2>2, <2>4 DEF NothingPassed
    <3>2. CASE Received(x)
      BY <1>1, <3>2 DEF Covered, Received, Good, Meaning
    <3>3. CASE \E i \in DOMAIN forge : forge[i].id = x /\ (Ahead(i) \/ ChildAhead(i))
      <4>1. PICK i \in 1..Len(forge) : forge[i].id = x /\ (Ahead(i) \/ ChildAhead(i))
        BY <1>2, <3>3 DEF ForgeTypeOK
      <4>2. /\ i + d \in 1..Len(forge') /\ forge'[i + d].id = x
            /\ forge'[i + d] = forge[i] \/ Parent(ask) = "none"
        BY <2>3, <4>1 DEF Carried
      <4>3. i + d \in DOMAIN forge'
        BY <1>1, <4>2
      <4>4. CASE Ahead(i)
        <5>1. Ahead(i + d)'
          BY <1>1, <1>2, <2>3, <4>1, <4>4, AheadStays
        <5>. QED BY <4>2, <4>3, <5>1 DEF Covered
      <4>5. CASE ChildAhead(i)
        <5>1. PICK j \in 1..Len(forge) :
                /\ forge[j].id = forge[i].of /\ forge[j].word = Parent(ask)
                /\ \/ Ahead(j)
                   \/ /\ forge[j] \in ToSet(got)
                      /\ \E k \in DOMAIN todo : todo[k].words = {Parent(ask)}
          <6>1. DOMAIN forge = 1..Len(forge)
            BY <1>2 DEF ForgeTypeOK
          <6>. QED BY <4>5, <6>1 DEF ChildAhead
        <5>2. Parent(ask) # "none" /\ forge[i].word \in ChildWords(ask)
          <6>1. forge[i].word \in ChildWords(ask)
            BY <4>5 DEF ChildAhead
          <6>. QED BY <1>2, <6>1, Kinds DEF ForgeTypeOK
        <5>3. /\ forge'[i + d] = forge[i] /\ forge'[j + d] = forge[j]
              /\ j + d \in DOMAIN forge'
          BY <1>1, <2>3, <4>1, <5>1, <5>2 DEF Carried
        <5>4. Ahead(j) => Ahead(j + d)'
          BY <1>1, <1>2, <2>3, <5>1, AheadStays
        <5>5. ChildAhead(i + d)'
          BY <1>1, <5>1, <5>2, <5>3, <5>4 DEF ChildAhead
        <5>. QED BY <4>2, <4>3, <5>5 DEF Covered
      <4>. QED BY <4>1, <4>4, <4>5
    <3>. QED BY <3>1, <3>2, <3>3 DEF Covered
  <2>. QED BY <2>2, <2>4 DEF NothingPassed
<1>. QED BY <1>5, <1>6, <1>8, <1>9 DEF ForgeInv

(* A new object at place e of the list, all others d places on.            *)
LEMMA GrownIsSettled ==
  ASSUME ForgeInv, ~ past.left, NEW objects \in Seq(ForgeObject(Words(ask), Nat)),
         Changes(objects, FALSE),
         NEW d \in Nat, NEW e \in 1..Len(objects),
         \A i \in 1..Len(forge) : i + d \in 1..Len(objects) /\ objects[i + d] = forge[i],
         \A j \in 1..Len(objects) : j = e \/ j - d \in 1..Len(forge),
         objects[e].id = MaxObjects + changes + 1,
         objects[e].word \notin ChildWords(ask), objects[e].of = 0
  PROVE  Settled' /\ Carried(objects, d)
<1>1. /\ forge' = objects /\ changes' = changes + 1 /\ ask' = ask
      /\ past'.stayed \subseteq Ids(Wanted(ask, ToSet(objects)))
      /\ past'.seen = past.seen \cup ToSet(objects)
  BY DEF Changes, ForgeInv, ForgeTypeOK
<1>2. /\ forge \in Seq(ForgeObject(Words(ask), Nat)) /\ changes \in Nat /\ MaxObjects \in Nat
      /\ DOMAIN forge = 1..Len(forge) /\ DOMAIN objects = 1..Len(objects)
      /\ Settled /\ Len(forge) \in Nat /\ Len(objects) \in Nat
  BY ForgeAssumption DEF ForgeInv, ForgeTypeOK
<1>3. \A i \in 1..Len(forge) : forge[i].id \in Nat /\ forge[i].id <= MaxObjects + changes
  BY <1>2, ObjectFields DEF Settled
<1>4. \A j \in 1..Len(objects) : j # e => j - d \in 1..Len(forge) /\ objects[j] = forge[j - d]
  <2>. SUFFICES ASSUME NEW j \in 1..Len(objects), j # e
                PROVE  j - d \in 1..Len(forge) /\ objects[j] = forge[j - d]
    OBVIOUS
  <2>1. j - d \in 1..Len(forge)
    OBVIOUS
  <2>2. (j - d) + d = j
    BY <1>2
  <2>3. objects[(j - d) + d] = forge[j - d]
    BY <2>1
  <2>. QED BY <2>1, <2>2, <2>3
<1>a. \A j \in 1..Len(objects) :
        j # e => objects[j].id \in Nat /\ objects[j].id <= MaxObjects + changes
  BY <1>3, <1>4
<1>5. Carried(objects, d)
  BY <1>2 DEF Carried
<1>6. ASSUME NEW i \in 1..Len(objects), NEW j \in 1..Len(objects), objects[i].id = objects[j].id
      PROVE  i = j
  <2>1. CASE i = e \/ j = e
    BY <1>2, <1>6, <1>a, <2>1
  <2>2. CASE i # e /\ j # e
    <3>1. /\ i - d \in 1..Len(forge) /\ j - d \in 1..Len(forge)
          /\ forge[i - d].id = forge[j - d].id
      BY <1>4, <1>6, <2>2
    <3>2. i - d = j - d
      BY <1>2, <3>1 DEF Settled
    <3>. QED BY <1>2, <3>2
  <2>. QED BY <2>1, <2>2
<1>7. ASSUME NEW i \in 1..Len(objects)
      PROVE  /\ objects[i].id <= MaxObjects + (changes + 1)
             /\ IF objects[i].word \in ChildWords(ask)
                THEN \E j \in DOMAIN objects :
                       objects[j].id = objects[i].of /\ objects[j].word = Parent(ask)
                ELSE objects[i].of = 0
  <2>1. CASE i = e
    BY <1>2, <2>1
  <2>2. CASE i # e
    <3>1. i - d \in 1..Len(forge) /\ objects[i] = forge[i - d]
      BY <1>4, <2>2
    <3>2. objects[i].id <= MaxObjects + (changes + 1)
      BY <1>2, <1>a, <2>2
    <3>3. CASE objects[i].word \in ChildWords(ask)
      <4>1. PICK j \in 1..Len(forge) :
              forge[j].id = objects[i].of /\ forge[j].word = Parent(ask)
        BY <1>2, <3>1, <3>3 DEF Settled
      <4>2. j + d \in DOMAIN objects /\ objects[j + d] = forge[j]
        BY <1>2
      <4>. QED BY <3>2, <3>3, <4>1, <4>2
    <3>4. CASE objects[i].word \notin ChildWords(ask)
      <4>1. objects[i].of = 0
        BY <1>2, <3>1, <3>4 DEF Settled
      <4>. QED BY <3>2, <3>4, <4>1
    <3>. QED BY <3>3, <3>4
  <2>. QED BY <2>1, <2>2
<1>8. Parent(ask) = "iteration" => past'.seen = ToSet(objects)
  <2>1. ToSet(forge) \subseteq ToSet(objects)
    BY <1>2 DEF ToSet
  <2>. QED BY <1>1, <1>2, <2>1 DEF Settled
<1>. QED BY <1>1, <1>2, <1>5, <1>6, <1>7, <1>8 DEF Settled

LEMMA CreateStep ==
  ASSUME ForgeInv, NEW w \in Words(ask), Create(w)
  PROVE  ForgeInv'
<1>. DEFINE o == [id |-> MaxObjects + changes + 1, word |-> w, of |-> 0]
            O == ForgeObject(Words(ask), Nat)
<1>1. /\ forge \in Seq(O) /\ o \in O /\ Len(forge) \in Nat
      /\ o.id = MaxObjects + changes + 1 /\ o.word = w /\ o.of = 0 /\ w \notin ChildWords(ask)
  BY ForgeAssumption DEF ForgeInv, ForgeTypeOK, Create, ForgeObject
<1>2. Changes(Append(forge, o), FALSE) \/ Changes(<<o>> \o forge, FALSE)
  BY DEF Create
<1>. HIDE DEF o, O
<1>3. CASE Changes(Append(forge, o), FALSE)
  <2>. DEFINE objects == Append(forge, o)  e == Len(forge) + 1
  <2>0. PICK d \in Nat : d = 0
    OBVIOUS
  <2>1. /\ objects \in Seq(O) /\ e \in 1..Len(objects) /\ objects[e] = o
        /\ \A i \in 1..Len(forge) : i + d \in 1..Len(objects) /\ objects[i + d] = forge[i]
        /\ \A j \in 1..Len(objects) : j = e \/ j - d \in 1..Len(forge)
    BY <1>1, <2>0
  <2>. HIDE DEF objects, e
  <2>2. ~ past.left => Settled' /\ Carried(objects, d)
    BY <1>1, <1>3, <2>1, GrownIsSettled DEF O, objects
  <2>. QED BY <1>3, <2>1, <2>2, ChangeKeeps DEF O, objects
<1>4. CASE Changes(<<o>> \o forge, FALSE)
  <2>. DEFINE objects == <<o>> \o forge
  <2>1. /\ objects \in Seq(O) /\ 1 \in 1..Len(objects) /\ objects[1] = o
        /\ \A i \in 1..Len(forge) : i + 1 \in 1..Len(objects) /\ objects[i + 1] = forge[i]
        /\ \A j \in 1..Len(objects) : j = 1 \/ j - 1 \in 1..Len(forge)
    BY <1>1
  <2>. HIDE DEF objects
  <2>2. ~ past.left => Settled' /\ Carried(objects, 1)
    BY <1>1, <1>4, <2>1, GrownIsSettled DEF O, objects
  <2>. QED BY <1>4, <2>1, <2>2, ChangeKeeps DEF O, objects
<1>. QED BY <1>2, <1>3, <1>4

LEMMA DeleteStep ==
  ASSUME ForgeInv, NEW i \in DOMAIN forge, Delete(i)
  PROVE  ForgeInv'
<1>. DEFINE kept == {o \in ToSet(forge) : forge[i].id \notin {o.id, o.of}}
            objects == Only(forge, kept)
<1>1. Changes(objects, TRUE)
  BY DEF Delete
<1>2. objects \in Seq(ForgeObject(Words(ask), Nat) \cap kept)
  BY OnlyTyped DEF ForgeInv, ForgeTypeOK
<1>. HIDE DEF objects, kept
<1>3. objects \in Seq(ForgeObject(Words(ask), Nat))
  BY <1>2
<1>. QED BY <1>1, <1>3, ChangeKeeps

LEMMA UpdateStep ==
  ASSUME ForgeInv, NEW n \in DOMAIN forge, NEW w \in Words(ask), Update(n, w)
  PROVE  ForgeInv'
<1>. DEFINE o == [forge[n] EXCEPT !.word = w]
            O == ForgeObject(Words(ask), Nat)
            moved == <<o>> \o RemoveAt(forge, n)
            changed == [forge EXCEPT ![n] = o]
            leaves == \E q \in ToSet(Listings(ask)) :
                        forge[n].word \in q.words /\ w \notin q.words
<1>1. /\ forge \in Seq(O) /\ n \in 1..Len(forge)
      /\ DOMAIN forge = 1..Len(forge) /\ Len(forge) \in Nat
      /\ ask \in Asks /\ todo \in Seq(Queries(ask))
  BY DEF ForgeInv, ForgeTypeOK
<1>2. /\ o \in O /\ o.id = forge[n].id /\ o.of = forge[n].of
      /\ o.word = w /\ forge[n].word \in Words(ask)
  <2>1. forge[n] \in O
    BY <1>1
  <2>. QED BY <2>1 DEF ForgeObject
<1>3. Parent(ask) = "none" /\ (Changes(moved, TRUE) \/ Changes(changed, leaves))
  BY DEF Update
<1>. HIDE DEF o, O
<1>4. CASE Changes(moved, TRUE)
  <2>1. RemoveAt(forge, n) \in Seq(O)
    BY <1>1 DEF RemoveAt
  <2>2. moved \in Seq(O)
    BY <1>2, <2>1
  <2>. HIDE DEF moved
  <2>. QED BY <1>4, <2>2, ChangeKeeps DEF O
<1>5. CASE Changes(changed, leaves)
  <2>1. /\ changed \in Seq(O) /\ DOMAIN changed = 1..Len(forge) /\ Len(changed) = Len(forge)
        /\ changed[n] = o /\ \A i \in 1..Len(forge) : i # n => changed[i] = forge[i]
    BY <1>1, <1>2
  <2>2. leaves \in BOOLEAN
    OBVIOUS
  <2>. HIDE DEF changed
  <2>3. ASSUME ~ past.left, ~ leaves
        PROVE  Settled' /\ Carried(changed, 0)
    <3>1. /\ forge' = changed /\ changes' = changes + 1 /\ ask' = ask
          /\ past'.stayed \subseteq Ids(Wanted(ask, ToSet(changed)))
      BY <1>5 DEF Changes, ForgeInv, ForgeTypeOK
    <3>2. Settled /\ changes \in Nat /\ MaxObjects \in Nat
      BY <2>3, ForgeAssumption DEF ForgeInv, ForgeTypeOK
    <3>3. ChildWords(ask) = {}
      BY <1>1, <1>3, Kinds
    <3>4. \A i \in 1..Len(forge) : /\ changed[i].id = forge[i].id /\ changed[i].of = forge[i].of
                                   /\ forge[i].id \in Nat
      BY <1>1, <1>2, <2>1, ObjectFields DEF O
    <3>5. ASSUME NEW q \in ToSet(todo), NEW i \in 1..Len(forge), forge[i] \in Listed(q)
          PROVE  changed[i] \in Listed(q)
      <4>1. CASE i # n
        BY <2>1, <3>5, <4>1
      <4>2. CASE i = n
        <5>1. q \in ToSet(Listings(ask))
          BY <1>1, <1>3, <3>5 DEF ToSet, Queries
        <5>2. w \in q.words
          BY <2>3, <3>5, <4>2, <5>1 DEF Listed, ForgeObject
        <5>. QED BY <1>2, <2>1, <3>4, <3>5, <4>2, <5>2 DEF Listed, ForgeObject, O
      <4>. QED BY <4>1, <4>2
    <3>6. Carried(changed, 0)
      BY <1>1, <1>3, <2>1, <3>4, <3>5 DEF Carried
    <3>7. \A i \in DOMAIN changed :
            /\ changed[i].id <= MaxObjects + (changes + 1) /\ changed[i].of = 0
      BY <1>1, <2>1, <3>2, <3>3, <3>4 DEF Settled
    <3>8. \A i, j \in DOMAIN changed : changed[i].id = changed[j].id => i = j
      BY <1>1, <2>1, <3>2, <3>4 DEF Settled
    <3>. QED BY <1>3, <3>1, <3>3, <3>6, <3>7, <3>8 DEF Settled
  <2>. HIDE DEF leaves
  <2>. QED BY <1>5, <2>1, <2>2, <2>3, ChangeKeeps DEF O
<1>. QED BY <1>3, <1>4, <1>5
-----------------------------------------------------------------------------
(* The adapter reads.                                                      *)

LastPart == got \o Batch

Children ==
  IF ~ LastPage THEN <<>>
  ELSE CASE Head(todo).words = {"review"} -> ReviewComments(LastPart)
         [] Head(todo).words = {"iteration"} -> IterationChanges(LastPart)
         [] OTHER -> <<>>

(* The steps of PageArrives by their names.                                *)
LEMMA PageIs ==
  ASSUME PageArrives
  PROVE  /\ Reading /\ got' = LastPart
         /\ todo' = (IF LastPage THEN Tail(todo) ELSE todo) \o Children
         /\ page' = IF LastPage THEN 1 ELSE page + 1
         /\ UNCHANGED <<ask, forge, changes, past>>
         /\ \/ result' = Outcome("unavailable")
            \/ todo' = <<>> /\ result' = Conclude(LastPart)
            \/ todo' # <<>> /\ result' = result
BY DEF PageArrives, LastPart, Children

LEMMA ReceivedTyped ==
  ASSUME ForgeTypeOK, Seen, Reading
  PROVE  /\ LastPart \in Seq(ForgeObject(Askable(ask), Nat))
         /\ ToSet(LastPart) = ToSet(got) \cup ToSet(Batch)
         /\ ToSet(LastPart) \subseteq past.seen
<1>1. /\ got \in Seq(ForgeObject(Askable(ask), Nat))
      /\ Batch \in Seq(ForgeObject(Askable(ask), Nat))
  BY BatchIs DEF ForgeTypeOK
<1>2. ToSet(Batch) \subseteq ToSet(forge)
  BY BatchIs
<1>. QED BY <1>1, <1>2, SetOfConcat DEF LastPart, Seen

(* The listings of children are for the observations that have any.        *)
LEMMA ChildrenTyped ==
  ASSUME ForgeTypeOK, Seen, Reading
  PROVE  Children \in Seq(Queries(ask))
<1>1. Head(todo).words \subseteq Words(ask) /\ ask \in Asks
  BY FirstQuery DEF Askable, ForgeTypeOK
<1>2. LastPart \in Seq(ForgeObject(Askable(ask), Nat))
  BY ReceivedTyped
<1>3. CASE LastPage /\ Head(todo).words = {"review"}
  <2>1. Parent(ask) = "review" /\ Words(ask) = {"inline", "general", "review"}
    BY <1>1, <1>3, WordsOfParents
  <2>2. Askable(ask) = Words(ask)
    BY <1>1, <2>1, Kinds DEF Askable
  <2>. DEFINE T == ForgeObject({"review"}, Nat)
  <2>3. PICK reviews : reviews = Only(LastPart, T)
    OBVIOUS
  <2>4. reviews \in Seq(ForgeObject(Askable(ask), Nat) \cap T)
    BY <1>2, <2>3, OnlyTyped
  <2>5. reviews \in Seq(ForgeObject(Askable(ask), Nat))
    BY <2>4
  <2>6. Children = [i \in DOMAIN reviews |->
                      [words |-> {"inline"}, of |-> reviews[i].id, paging |-> "numbered"]]
    BY <1>3, <2>3 DEF Children, ReviewComments
  <2>7. ASSUME NEW i \in 1..Len(reviews)
        PROVE  [words |-> {"inline"}, of |-> reviews[i].id, paging |-> "numbered"]
                          \in Queries(ask)
    <3>1. reviews[i].id \in Nat
      BY <2>5, ObjectFields
    <3>. QED BY <2>1, <2>2, <3>1 DEF Queries
  <2>. QED BY <2>5, <2>6, <2>7
<1>4. CASE LastPage /\ Head(todo).words = {"iteration"}
  <2>1. Parent(ask) = "iteration" /\ Words(ask) = {"edit", "iteration"}
    BY <1>1, <1>4, WordsOfParents
  <2>2. Askable(ask) = Words(ask)
    BY <1>1, <2>1, Kinds DEF Askable
  <2>. DEFINE iterations == {o \in ToSet(LastPart) : o.word = "iteration"}
  <2>3. Children = IterationChanges(LastPart)
    BY <1>4 DEF Children
  <2>4. CASE iterations = {}
    BY <2>3, <2>4 DEF IterationChanges
  <2>5. CASE iterations # {}
    <3>1. Max(Ids(iterations)) \in Nat
      BY <1>2, <2>5, MaxIs
    <3>. DEFINE q == [words |-> {"edit"}, of |-> Max(Ids(iterations)), paging |-> "linked"]
    <3>2. q \in Queries(ask)
      BY <2>1, <2>2, <3>1 DEF Queries
    <3>3. Children = <<q>>
      BY <2>3, <2>5 DEF IterationChanges
    <3>. HIDE DEF q
    <3>. QED BY <3>2, <3>3
  <2>. QED BY <2>4, <2>5
<1>5. CASE ~ LastPage \/ Head(todo).words \notin {{"review"}, {"iteration"}}
  <2>1. Children = <<>>
    BY <1>5 DEF Children
  <2>. QED BY <2>1
<1>. QED BY <1>3, <1>4, <1>5

(* The listings that are left, and where they now stand.                   *)
LEMMA TodoMoves ==
  ASSUME ForgeTypeOK, Seen, PageArrives
  PROVE  /\ todo' \in Seq(Queries(ask))
         /\ page' \in Nat \ {0}
         /\ \A k \in DOMAIN todo : k # 1 \/ ~ LastPage =>
              \E m \in DOMAIN todo' : /\ todo'[m] = todo[k]
                                      /\ LastPage \/ m = k
         /\ \A k \in DOMAIN Children : LastPage =>
              \E m \in DOMAIN todo' : todo'[m] = Children[k]
<1>1. /\ Reading /\ todo' = (IF LastPage THEN Tail(todo) ELSE todo) \o Children
      /\ page' = IF LastPage THEN 1 ELSE page + 1
  BY PageIs
<1>2. todo \in Seq(Queries(ask)) /\ todo # <<>> /\ page \in Nat \ {0}
  BY <1>1 DEF ForgeTypeOK
<1>3. Children \in Seq(Queries(ask))
  BY <1>1, ChildrenTyped
<1>4. PICK rest : rest = IF LastPage THEN Tail(todo) ELSE todo
  OBVIOUS
<1>5. /\ rest \in Seq(Queries(ask)) /\ Len(rest) \in Nat /\ Len(todo) \in Nat
      /\ LastPage => Len(rest) = Len(todo) - 1 /\ \A m \in 1..Len(rest) : rest[m] = todo[m + 1]
  BY <1>2, <1>4
<1>6. /\ todo' = rest \o Children /\ todo' \in Seq(Queries(ask))
      /\ DOMAIN todo' = 1..(Len(rest) + Len(Children)) /\ Len(Children) \in Nat
      /\ \A m \in 1..Len(rest) : todo'[m] = rest[m]
      /\ \A m \in 1..Len(Children) : todo'[Len(rest) + m] = Children[m]
  BY <1>1, <1>3, <1>4, <1>5
<1>7. ASSUME NEW k \in DOMAIN todo, k # 1 \/ ~ LastPage
      PROVE  \E m \in DOMAIN todo' : todo'[m] = todo[k] /\ (LastPage \/ m = k)
  <2>1. k \in 1..Len(todo)
    BY <1>2
  <2>2. CASE LastPage
    <3>1. k - 1 \in 1..Len(rest) /\ (k - 1) + 1 = k
      BY <1>5, <1>7, <2>1, <2>2
    <3>2. k - 1 \in DOMAIN todo'
      BY <1>5, <1>6, <3>1
    <3>3. todo'[k - 1] = todo[k]
      BY <1>5, <1>6, <2>2, <3>1
    <3>. QED BY <2>2, <3>2, <3>3
  <2>3. CASE ~ LastPage
    <3>1. rest = todo
      BY <1>4, <2>3
    <3>2. k \in DOMAIN todo' /\ todo'[k] = todo[k]
      BY <1>5, <1>6, <2>1, <3>1
    <3>. QED BY <3>2
  <2>. QED BY <2>2, <2>3
<1>8. ASSUME NEW k \in DOMAIN Children
      PROVE  \E m \in DOMAIN todo' : todo'[m] = Children[k]
  <2>1. k \in 1..Len(Children)
    BY <1>3
  <2>2. Len(rest) + k \in DOMAIN todo'
    BY <1>5, <1>6, <2>1
  <2>. QED BY <1>6, <2>1, <2>2
<1>9. page' \in Nat \ {0}
  BY <1>1, <1>2
<1>. QED BY <1>6, <1>7, <1>8, <1>9

(* Whatever is in a listing that has just come first is ahead.             *)
LEMMA FreshIsAhead ==
  ASSUME ForgeTypeOK, Seen, PageArrives,
         NEW i \in 1..Len(forge), NEW m \in DOMAIN todo', forge[i] \in Listed(todo'[m]),
         LastPage \/ m # 1
  PROVE  Ahead(i)'
<1>1. forge' = forge /\ (LastPage => page' = 1) /\ forge \in Seq(ForgeObject(Words(ask), Nat))
  BY PageIs DEF ForgeTypeOK
<1>2. CASE m # 1
  BY <1>1, <1>2 DEF Ahead, Listed
<1>3. CASE m = 1
  <2>1. Before' = 0
    <3>1. page' = 1 /\ PageSize \in Nat /\ (1 - 1) * PageSize = 0
      BY <1>1, <1>3, ForgeAssumption
    <3>. QED BY <3>1 DEF Before
  <2>2. Place(forge, Listed(todo'[1]), i) \in 1..Len(Only(forge, Listed(todo'[1])))
    BY <1>1, <1>3, OnlyPlaces
  <2>3. Place(forge, Listed(todo'[1]), i) > 0
    BY <2>2
  <2>. QED BY <1>1, <1>3, <2>1, <2>3 DEF Ahead, Listed, Place
<1>. QED BY <1>2, <1>3

(* What was ahead has come with the page or is still ahead.                *)
LEMMA AheadMoves ==
  ASSUME ForgeTypeOK, Seen, PageArrives, NEW i \in 1..Len(forge), Ahead(i)
  PROVE  Ahead(i)' \/ (forge[i] \in ToSet(Batch) /\ forge[i] \in Listed(todo[1]))
<1>1. /\ forge' = forge /\ page' = (IF LastPage THEN 1 ELSE page + 1)
      /\ forge \in Seq(ForgeObject(Words(ask), Nat)) /\ Reading
  BY PageIs DEF ForgeTypeOK
<1>2. PICK k \in DOMAIN todo :
        /\ forge[i] \in Listed(todo[k])
        /\ k = 1 => Place(forge, Listed(todo[1]), i) > Before
  BY DEF Ahead
<1>3. CASE k # 1
  <2>1. PICK m \in DOMAIN todo' : todo'[m] = todo[k] /\ (LastPage \/ m = k)
    BY <1>3, TodoMoves
  <2>. QED BY <1>2, <1>3, <2>1, FreshIsAhead
<1>4. CASE k = 1
  <2>. DEFINE p == Place(forge, Listed(todo[1]), i)
  <2>1. /\ Head(todo) = todo[1] /\ Listing(Head(todo)) = Only(forge, Listed(todo[1]))
    BY <1>1, FirstQuery DEF Listing
  <2>2. /\ p \in 1..Len(Listing(Head(todo))) /\ Listing(Head(todo))[p] = forge[i]
        /\ Listing(Head(todo)) \in Seq(ForgeObject(Askable(ask), Nat) \cap Listed(Head(todo)))
    BY <1>1, <1>2, <1>4, <2>1, OnlyPlaces, FirstQuery
  <2>3. p > Before /\ p \in Nat
    BY <1>2, <1>4, <2>2
  <2>. HIDE DEF p
  <2>4. CASE LastPage \/ p <= page * PageSize
    BY <1>1, <1>2, <1>4, <2>2, <2>3, <2>4, BatchIs
  <2>5. CASE ~ LastPage /\ ~ (p <= page * PageSize)
    <3>1. /\ 1 \in DOMAIN todo' /\ todo'[1] = todo[1]
      BY <1>4, <2>5, TodoMoves
    <3>2. todo'[1].paging # "whole"
      BY <1>1, <2>1, <2>5, <3>1, BatchIs
    <3>3. Before' = page * PageSize
      <4>1. page' = page + 1 /\ page \in Nat
        BY <1>1, <2>5 DEF ForgeTypeOK
      <4>2. (page + 1) - 1 = page
        BY <4>1
      <4>. QED BY <3>2, <4>1, <4>2 DEF Before
    <3>4. page * PageSize \in Nat
      BY ForgeAssumption DEF ForgeTypeOK
    <3>5. p > Before'
      BY <2>3, <2>5, <3>3, <3>4
    <3>. QED BY <1>1, <1>2, <1>4, <3>1, <3>5 DEF Ahead, Listed, Place, p
  <2>. QED BY <2>4, <2>5
<1>. QED BY <1>3, <1>4

(* When the last page of the parents has come, the listing of a wanted     *)
(* child is asked for: that of its review, or of its iteration, the last.  *)
LEMMA ChildIsAsked ==
  ASSUME ForgeTypeOK, Seen, Reading, Settled, LastPage, Parent(ask) # "none",
         todo[1].words = {Parent(ask)},
         NEW i \in 1..Len(forge), forge[i].word \in ChildWords(ask),
         forge[i] \in Wanted(ask, ToSet(forge)),
         NEW j \in 1..Len(forge), forge[j].id = forge[i].of, forge[j].word = Parent(ask),
         forge[j] \in ToSet(LastPart)
  PROVE  \E m \in DOMAIN Children : forge[i] \in Listed(Children[m])
<1>1. /\ Head(todo).words = {Parent(ask)}
      /\ forge \in Seq(ForgeObject(Words(ask), Nat)) /\ ask \in Asks
  BY FirstQuery DEF ForgeTypeOK
<1>2. /\ forge[i].id \in Nat
      /\ forge[i] \in ForgeObject(Words(ask), Nat)
      /\ forge[j] \in ForgeObject(Words(ask), Nat)
  BY <1>1, ObjectFields
<1>3. LastPart \in Seq(ForgeObject(Askable(ask), Nat)) /\ ToSet(LastPart) \subseteq past.seen
  BY ReceivedTyped
<1>4. CASE Parent(ask) = "review"
  <2>. DEFINE T == ForgeObject({"review"}, Nat)
  <2>1. PICK reviews : reviews = Only(LastPart, T)
    OBVIOUS
  <2>2. Children = [m \in DOMAIN reviews |->
                      [words |-> {"inline"}, of |-> reviews[m].id, paging |-> "numbered"]]
    BY <1>1, <1>4, <2>1 DEF Children, ReviewComments
  <2>3. forge[j] \in T
    BY <1>2, <1>4 DEF ForgeObject
  <2>4. ToSet(reviews) = ToSet(LastPart) \cap T
    BY <1>3, <2>1, OnlyMembers
  <2>5. PICK m \in DOMAIN reviews : reviews[m] = forge[j]
    BY <2>3, <2>4 DEF ToSet
  <2>6. m \in DOMAIN Children /\ Children[m].words = {"inline"} /\ Children[m].of = forge[i].of
    BY <2>2, <2>5
  <2>7. forge[i].word = "inline"
    BY <1>1, <1>4, Kinds
  <2>. QED BY <1>2, <2>6, <2>7 DEF Listed, ForgeObject
<1>5. CASE Parent(ask) = "iteration"
  <2>. DEFINE iterations == {o \in ToSet(LastPart) : o.word = "iteration"}
              parents == {o \in ToSet(forge) : o.word = Parent(ask)}
  <2>1. past.seen = ToSet(forge)
    BY <1>5 DEF Settled
  <2>2. iterations \subseteq parents /\ forge[j] \in iterations
    BY <1>3, <1>5, <2>1
  <2>3. forge[i].of = Max(Ids(parents))
    BY <1>5 DEF Wanted
  <2>4. /\ Max(Ids(parents)) \in Nat /\ \A y \in Ids(parents) : y <= Max(Ids(parents))
    <3>1. parents \subseteq ToSet(forge) /\ parents # {}
      BY <2>2
    <3>. HIDE DEF parents
    <3>. QED BY <1>1, <3>1, MaxIs
  <2>5. /\ Max(Ids(iterations)) \in Ids(iterations) /\ Max(Ids(iterations)) \in Nat
        /\ \A y \in Ids(iterations) : y <= Max(Ids(iterations))
    <3>1. iterations \subseteq ToSet(LastPart) /\ iterations # {}
      BY <2>2
    <3>. HIDE DEF iterations
    <3>. QED BY <1>3, <3>1, MaxIs
  <2>6. Ids(iterations) \subseteq Ids(parents) /\ forge[i].of \in Ids(iterations)
    BY <2>2 DEF Ids
  <2>7. Max(Ids(iterations)) = forge[i].of
    <3>. HIDE DEF iterations, parents
    <3>. QED BY <2>3, <2>4, <2>5, <2>6
  <2>8. Children = <<[words |-> {"edit"}, of |-> Max(Ids(iterations)), paging |-> "linked"]>>
    <3>1. Children = IterationChanges(LastPart)
      BY <1>1, <1>5 DEF Children
    <3>. QED BY <2>2, <3>1 DEF IterationChanges
  <2>9. forge[i].word = "edit"
    BY <1>1, <1>5, Kinds
  <2>10. forge[i] \in Listed(Children[1]) /\ 1 \in DOMAIN Children
    <3>. HIDE DEF iterations
    <3>. QED BY <1>2, <2>7, <2>8, <2>9 DEF Listed, ForgeObject
  <2>. QED BY <2>10
<1>. QED BY <1>1, <1>4, <1>5, Kinds

(* What has stayed has been received or is still to come, after any page.  *)
LEMMA PageCovers ==
  ASSUME ForgeInv, ~ past.left, PageArrives, NEW x \in past.stayed
  PROVE  Covered(x)'
<1>1. /\ ForgeTypeOK /\ Seen /\ Settled /\ Covered(x) /\ Reading
      /\ got' = LastPart /\ UNCHANGED <<ask, forge, changes, past>>
      /\ ask \in Asks /\ DOMAIN forge = 1..Len(forge) /\ todo \in Seq(Queries(ask))
  BY PageIs DEF ForgeInv, NothingPassed, ForgeTypeOK
<1>2. ToSet(got') = ToSet(got) \cup ToSet(Batch)
  BY <1>1, ReceivedTyped
<1>3. \A o : Good(o)' = Good(o)
  BY <1>1 DEF Good, Meaning
<1>4. CASE Received(x)
  BY <1>2, <1>3, <1>4 DEF Received, Covered
<1>5. CASE ~ Received(x)
  <2>1. PICK i \in 1..Len(forge) : forge[i].id = x /\ (Ahead(i) \/ ChildAhead(i))
    BY <1>1, <1>5 DEF Covered
  <2>2. forge[i] \in Wanted(ask, ToSet(forge))
    <3>1. PICK o \in Wanted(ask, ToSet(forge)) : o.id = x
      BY <1>1 DEF Settled, Ids
    <3>2. PICK n \in 1..Len(forge) : o = forge[n]
      BY <1>1, <3>1 DEF Wanted, ToSet
    <3>3. n = i
      BY <1>1, <2>1, <3>1, <3>2 DEF Settled
    <3>. QED BY <3>1, <3>2, <3>3
  <2>3. Good(forge[i])
    BY <2>2 DEF Wanted, Good
  <2>4. forge[i] \in ToSet(Batch) => Covered(x)'
    BY <1>2, <1>3, <2>1, <2>3 DEF Received, Covered
  <2>5. Ahead(i)' \/ ChildAhead(i)' => Covered(x)'
    BY <1>1, <2>1 DEF Covered
  <2>6. CASE Ahead(i)
    BY <1>1, <2>4, <2>5, <2>6, AheadMoves
  <2>7. CASE ChildAhead(i)
    <3>1. PICK j \in 1..Len(forge) :
            /\ forge[j].id = forge[i].of /\ forge[j].word = Parent(ask)
            /\ \/ Ahead(j)
               \/ /\ forge[j] \in ToSet(got)
                  /\ \E k \in DOMAIN todo : todo[k].words = {Parent(ask)}
      BY <1>1, <2>7 DEF ChildAhead
    <3>2. forge[i].word \in ChildWords(ask) /\ Parent(ask) # "none"
      <4>1. forge[i].word \in ChildWords(ask)
        BY <2>7 DEF ChildAhead
      <4>. QED BY <1>1, <4>1, Kinds
    <3>3. CASE Ahead(j)'
      BY <1>1, <2>5, <3>1, <3>2, <3>3 DEF ChildAhead
    <3>4. CASE ~ Ahead(j)'
      <4>1. /\ forge[j] \in ToSet(LastPart)
            /\ \E k \in DOMAIN todo : todo[k].words = {Parent(ask)}
        <5>1. CASE Ahead(j)
          <6>1. forge[j] \in ToSet(Batch) /\ forge[j] \in Listed(todo[1])
            BY <1>1, <3>4, <5>1, AheadMoves
          <6>2. Parent(ask) \in todo[1].words /\ todo[1] \in Queries(ask) /\ 1 \in DOMAIN todo
            BY <1>1, <3>1, <6>1, FirstQuery DEF Listed, ForgeObject
          <6>3. todo[1].words = {Parent(ask)}
            BY <6>2 DEF Queries
          <6>. QED BY <1>1, <1>2, <6>1, <6>2, <6>3
        <5>2. CASE ~ Ahead(j)
          BY <1>1, <1>2, <3>1, <5>2
        <5>. QED BY <5>1, <5>2
      <4>2. PICK k \in DOMAIN todo : todo[k].words = {Parent(ask)}
        BY <4>1
      <4>3. CASE k # 1 \/ ~ LastPage
        <5>1. PICK m \in DOMAIN todo' : todo'[m] = todo[k]
          BY <1>1, <4>3, TodoMoves
        <5>2. ChildAhead(i)'
          BY <1>1, <3>1, <3>2, <4>1, <4>2, <5>1 DEF ChildAhead
        <5>. QED BY <2>5, <5>2
      <4>4. CASE k = 1 /\ LastPage
        <5>1. PICK n \in DOMAIN Children : forge[i] \in Listed(Children[n])
          BY <1>1, <2>2, <3>1, <3>2, <4>1, <4>2, <4>4, ChildIsAsked
        <5>2. PICK m \in DOMAIN todo' : todo'[m] = Children[n]
          BY <1>1, <4>4, TodoMoves
        <5>3. Ahead(i)'
          BY <1>1, <4>4, <5>1, <5>2, FreshIsAhead
        <5>. QED BY <2>5, <5>3
      <4>. QED BY <4>3, <4>4
    <3>. QED BY <3>3, <3>4
  <2>. QED BY <2>1, <2>6, <2>7
<1>. QED BY <1>4, <1>5
-----------------------------------------------------------------------------
(* What is concluded from all that was received.                           *)

LEMMA Converted ==
  ASSUME ask \in Asks, NEW objects \in Seq(ForgeObject(Askable(ask), Nat))
  PROVE  /\ Convert(objects) \in Seq({Value(ask, o) : o \in ToSet(objects)})
         /\ \A v \in ToSet(Convert(objects)) : \E o \in ToSet(objects) :
              v = Value(ask, o) /\ o.word # Parent(ask) /\ Meaning(ask, o) # "hidden"
         /\ \A o \in ToSet(objects) :
              o.word # Parent(ask) /\ Meaning(ask, o) # "hidden" =>
                Value(ask, o) \in ToSet(Convert(objects))
<1>. DEFINE shown == {w \in Words(ask) :
                       w # Parent(ask) /\ Translate(TableOf(ask), w) # "hidden"}
            T == ForgeObject(shown, Nat)
            V == {Value(ask, o) : o \in ToSet(objects)}
<1>1. PICK list : list = Only(objects, T)
  OBVIOUS
<1>2. Convert(objects) = [i \in DOMAIN list |-> Value(ask, list[i])]
  BY <1>1 DEF Convert
<1>3. /\ list \in Seq(ForgeObject(Askable(ask), Nat) \cap T)
      /\ ToSet(list) = ToSet(objects) \cap T
  <2>. HIDE DEF T
  <2>. QED BY <1>1, OnlyTyped, OnlyMembers
<1>4. \A i \in DOMAIN list : list[i] \in ToSet(objects) \cap T
  BY <1>3 DEF ToSet
<1>5. Convert(objects) \in Seq(V)
  <2>1. DOMAIN list = 1..Len(list) /\ Len(list) \in Nat
    BY <1>3
  <2>2. \A i \in 1..Len(list) : Value(ask, list[i]) \in V
    BY <1>4, <2>1
  <2>. HIDE DEF V
  <2>. QED BY <1>2, <2>1, <2>2
<1>6. ASSUME NEW v \in ToSet(Convert(objects))
      PROVE  \E o \in ToSet(objects) :
               v = Value(ask, o) /\ o.word # Parent(ask) /\ Meaning(ask, o) # "hidden"
  <2>1. PICK i \in DOMAIN list : v = Value(ask, list[i])
    BY <1>2, <1>6 DEF ToSet
  <2>2. list[i] \in ToSet(objects) /\ list[i].word \in shown
    BY <1>4 DEF ForgeObject
  <2>. QED BY <2>1, <2>2 DEF Meaning
<1>7. ASSUME NEW o \in ToSet(objects), o.word # Parent(ask), Meaning(ask, o) # "hidden"
      PROVE  Value(ask, o) \in ToSet(Convert(objects))
  <2>1. o \in ForgeObject(Askable(ask), Nat)
    BY DEF ToSet
  <2>2. o \in T
    BY <1>7, <2>1 DEF ForgeObject, Askable, Meaning
  <2>3. PICK i \in DOMAIN list : list[i] = o
    BY <1>3, <2>2 DEF ToSet
  <2>. QED BY <1>2, <2>3 DEF ToSet
<1>. QED BY <1>5, <1>6, <1>7

LEMMA Kept ==
  ASSUME ask \in Asks, NEW objects \in Seq(ForgeObject(Askable(ask), Nat))
  PROVE  LET kept == KeepAsked(Convert(objects))
         IN  /\ \A v \in ToSet(kept) : \E o \in ToSet(objects) :
                  /\ v = Value(ask, o) /\ o.word # Parent(ask) /\ Meaning(ask, o) # "hidden"
                  /\ ask.filter \in {"any", v.is}
             /\ \A o \in ToSet(objects) : Good(o) => Value(ask, o) \in ToSet(kept)
             /\ kept = <<>> => \A o \in ToSet(objects) : ~ Good(o)
<1>. DEFINE V == {Value(ask, o) : o \in ToSet(objects)}
            T == [id : Nat, is : {ask.filter}]
            values == Convert(objects)
            kept == KeepAsked(values)
            filtered == ask.filter # "any" /\ ask.provider \in {"github", "gitea"}
<1>1. /\ values \in Seq(V)
      /\ \A v \in ToSet(values) : \E o \in ToSet(objects) :
           v = Value(ask, o) /\ o.word # Parent(ask) /\ Meaning(ask, o) # "hidden"
      /\ \A o \in ToSet(objects) :
           o.word # Parent(ask) /\ Meaning(ask, o) # "hidden" => Value(ask, o) \in ToSet(values)
  BY Converted
<1>2. \A o \in ToSet(objects) : o \in ForgeObject(Askable(ask), Nat) /\ o.id \in Nat
  BY ObjectFields DEF ToSet
<1>3. CASE filtered
  <2>1. kept = Only(values, T)
    BY <1>3 DEF KeepAsked
  <2>2. ToSet(kept) = ToSet(values) \cap T
    <3>. HIDE DEF V, T, values
    <3>. QED BY <1>1, <2>1, OnlyMembers
  <2>3. \A v \in ToSet(kept) : v.is = ask.filter
    BY <2>2
  <2>4. \A o \in ToSet(objects) : Good(o) => Value(ask, o) \in T
    BY <1>2, <1>3 DEF Good, Value
  <2>. HIDE DEF values, kept, T
  <2>5. \A o \in ToSet(objects) : Good(o) => Value(ask, o) \in ToSet(kept)
    BY <1>1, <2>2, <2>4 DEF Good
  <2>6. kept = <<>> => ToSet(kept) = {}
    BY DEF ToSet
  <2>. QED BY <1>1, <2>2, <2>3, <2>5, <2>6 DEF values, kept
<1>4. CASE ~ filtered
  <2>1. kept = values
    BY <1>4 DEF KeepAsked
  <2>2. ASSUME NEW o \in ToSet(objects) PROVE ask.filter \in {"any", Value(ask, o).is}
    <3>1. o.word \in Askable(ask)
      BY <1>2 DEF ForgeObject
    <3>. QED BY <1>4, <3>1 DEF Askable, Value, Meaning
  <2>. HIDE DEF values, kept
  <2>3. \A o \in ToSet(objects) : Good(o) => Value(ask, o) \in ToSet(kept)
    BY <1>1, <2>1 DEF Good
  <2>4. kept = <<>> => ToSet(kept) = {}
    BY DEF ToSet
  <2>. QED BY <1>1, <2>1, <2>2, <2>3, <2>4 DEF values, kept
<1>. QED BY <1>3, <1>4

(* A word that the tables do not know is no verdict.                       *)
LEMMA OddIsNoVerdict ==
  ASSUME ask \in Asks, "odd" \in Words(ask)
  PROVE  Translate(TableOf(ask), "odd") \notin {"passed", "failed", "approved"}
<1>1. "odd" \notin DOMAIN TableOf(ask).words
  BY KnownWords DEF Foreign
<1>2. Translate(TableOf(ask), "odd") = TableOf(ask).default
  BY <1>1 DEF Translate
<1>3. ~ (ask.provider = "gitlab" /\ ask.family = "reviews")
  <2>. SUFFICES ASSUME ask.provider = "gitlab", ask.family = "reviews" PROVE FALSE
    OBVIOUS
  <2>1. Words(ask) = DOMAIN TableOf(ask).words
    <3>1. Parent(ask) = "none"
      BY Kinds
    <3>. QED BY <3>1 DEF Words
  <2>. QED BY <1>1, <2>1
<1>. QED BY <1>2, <1>3, Defaults

LEMMA ConcludeIs ==
  ASSUME NEW objects
  PROVE  LET values == Convert(objects)
             kept   == KeepAsked(values)
         IN  \/ Conclude(objects) = Outcome("unavailable")
             \/ Conclude(objects) = Outcome("missing") /\ (kept = <<>> \/ objects = <<>>)
             \/ Conclude(objects) = [is |-> "available", values |-> kept]
BY DEF Conclude

LEMMA ConcludeReports ==
  ASSUME ForgeTypeOK, NEW objects \in Seq(ForgeObject(Askable(ask), Nat)),
         ToSet(objects) \subseteq past.seen, UNCHANGED <<ask, past>>,
         result' = Conclude(objects)
  PROVE  ValuesAreReported'
<1>. DEFINE kept == KeepAsked(Convert(objects))
<1>1. ask \in Asks /\ past.seen \subseteq ForgeObject(Words(ask), Nat)
  BY DEF ForgeTypeOK
<1>2. Available' => result'.values = kept
  BY ConcludeIs DEF Available, Outcome
<1>3. ASSUME NEW v \in ToSet(kept)
      PROVE  /\ ask.filter \in {"any", v.is}
             /\ \E o \in past.seen :
                  /\ v = Value(ask, o)
                  /\ o.word # Parent(ask) /\ Meaning(ask, o) # "hidden"
                  /\ o.word = "odd" => v.is \notin {"passed", "failed", "approved"}
  <2>1. PICK o \in ToSet(objects) :
          /\ v = Value(ask, o) /\ o.word # Parent(ask) /\ Meaning(ask, o) # "hidden"
          /\ ask.filter \in {"any", v.is}
    BY <1>1, Kept
  <2>2. o.word = "odd" => v.is \notin {"passed", "failed", "approved"}
    <3>1. o.word \in Words(ask)
      BY <1>1 DEF ForgeObject
    <3>. QED BY <1>1, <2>1, <3>1, OddIsNoVerdict DEF Value, Meaning
  <2>. QED BY <2>1, <2>2
<1>. HIDE DEF kept
<1>. QED BY <1>2, <1>3 DEF ValuesAreReported, Value, Meaning

LEMMA ConcludeOverlooksNothing ==
  ASSUME ForgeTypeOK, NEW objects \in Seq(ForgeObject(Askable(ask), Nat)),
         UNCHANGED <<ask, past>>,
         ~ past.left => \A x \in past.stayed : \E o \in ToSet(objects) : o.id = x /\ Good(o),
         result' = Conclude(objects)
  PROVE  NothingIsOverlooked'
<1>. DEFINE kept == KeepAsked(Convert(objects))
<1>1. ask \in Asks
  BY DEF ForgeTypeOK
<1>2. /\ \A o \in ToSet(objects) : Good(o) => Value(ask, o) \in ToSet(kept)
      /\ kept = <<>> => \A o \in ToSet(objects) : ~ Good(o)
  BY <1>1, Kept
<1>3. /\ Available' => result'.values = kept
      /\ result'.is = "missing" => kept = <<>> \/ objects = <<>>
  BY ConcludeIs DEF Available, Outcome
<1>4. objects = <<>> => ToSet(objects) = {}
  BY DEF ToSet
<1>. HIDE DEF kept
<1>5. ASSUME ~ past.left
      PROVE  /\ past.stayed \subseteq {v.id : v \in ToSet(kept)}
             /\ kept = <<>> \/ objects = <<>> => past.stayed = {}
  <2>1. ASSUME NEW o \in ToSet(objects), Good(o) PROVE o.id \in {v.id : v \in ToSet(kept)}
    <3>1. Value(ask, o) \in ToSet(kept)
      BY <1>2, <2>1
    <3>2. Value(ask, o).id = o.id
      BY DEF Value
    <3>. QED BY <3>1, <3>2
  <2>. QED BY <1>2, <1>4, <1>5, <2>1
<1>. QED BY <1>3, <1>5 DEF NothingIsOverlooked
-----------------------------------------------------------------------------
(* The theorems about Forge.                                               *)

LEMMA PageStep ==
  ASSUME ForgeInv, PageArrives
  PROVE  ForgeInv'
<1>1. /\ ForgeTypeOK /\ Seen /\ Reading /\ got' = LastPart
      /\ UNCHANGED <<ask, forge, changes, past>>
      /\ \/ result' = Outcome("unavailable")
         \/ todo' = <<>> /\ result' = Conclude(LastPart)
         \/ todo' # <<>> /\ result' = result
  BY PageIs DEF ForgeInv
<1>2. LastPart \in Seq(ForgeObject(Askable(ask), Nat)) /\ ToSet(LastPart) \subseteq past.seen
  BY <1>1, ReceivedTyped
<1>3. todo' \in Seq(Queries(ask)) /\ page' \in Nat \ {0}
  BY <1>1, TodoMoves
<1>4. Reading' => todo' # <<>>
  <2>1. Conclude(LastPart).is # "pending"
    BY ConcludeIs DEF Outcome
  <2>. QED BY <1>1, <2>1 DEF Reading, Outcome
<1>5. ForgeTypeOK' /\ Seen'
  BY <1>1, <1>2, <1>3, <1>4 DEF ForgeTypeOK, Seen
<1>6. ASSUME ~ past.left PROVE Settled' /\ \A x \in past.stayed : Covered(x)'
  <2>1. Settled'
    BY <1>1, <1>6 DEF ForgeInv, Settled
  <2>. QED BY <1>6, <2>1, PageCovers
<1>7. ~ past'.left => Settled' /\ NothingPassed'
  BY <1>1, <1>6 DEF NothingPassed
<1>8. CASE result'.is \notin {"available", "missing"}
  <2>1. NothingIsOverlooked' /\ ValuesAreReported'
    BY <1>8 DEF NothingIsOverlooked, ValuesAreReported, Available
  <2>. QED BY <1>5, <1>7, <2>1 DEF ForgeInv
<1>9. CASE result'.is \in {"available", "missing"}
  <2>1. todo' = <<>> /\ result' = Conclude(LastPart)
    BY <1>1, <1>9 DEF Outcome, Reading
  <2>2. ASSUME ~ past.left, NEW x \in past.stayed
        PROVE  \E o \in ToSet(LastPart) : o.id = x /\ Good(o)
    <3>1. Covered(x)'
      BY <1>6, <2>2
    <3>2. DOMAIN todo' = {}
      BY <2>1
    <3>3. Received(x)'
      BY <3>1, <3>2 DEF Covered, Ahead, ChildAhead
    <3>. QED BY <1>1, <3>3 DEF Received, Good, Meaning
  <2>3. NothingIsOverlooked'
    BY <1>1, <1>2, <2>1, <2>2, ConcludeOverlooksNothing
  <2>4. ValuesAreReported'
    BY <1>1, <1>2, <2>1, ConcludeReports
  <2>. QED BY <1>5, <1>7, <2>3, <2>4 DEF ForgeInv
<1>. QED BY <1>8, <1>9

LEMMA EndStep ==
  ASSUME ForgeInv, NotFound \/ Fail
  PROVE  ForgeInv'
<1>1. /\ UNCHANGED <<ask, forge, todo, page, got, changes>>
      /\ result'.is \in {"missing", "unsupported", "unavailable"}
      /\ result'.is = "missing" => past'.notFound
      /\ past'.stayed = past.stayed /\ past'.left = past.left /\ past'.seen = past.seen
      /\ past' \in [stayed : SUBSET Nat, left : BOOLEAN,
                    seen : SUBSET ForgeObject(Words(ask), Nat), notFound : BOOLEAN]
  <2>1. past \in [stayed : SUBSET Nat, left : BOOLEAN,
                  seen : SUBSET ForgeObject(Words(ask), Nat), notFound : BOOLEAN]
    BY DEF ForgeInv, ForgeTypeOK
  <2>2. CASE NotFound
    <3>1. past' = [past EXCEPT !.notFound = TRUE]
      BY <2>2 DEF NotFound
    <3>2. /\ past'.stayed = past.stayed /\ past'.left = past.left /\ past'.seen = past.seen
          /\ past'.notFound
          /\ past' \in [stayed : SUBSET Nat, left : BOOLEAN,
                        seen : SUBSET ForgeObject(Words(ask), Nat), notFound : BOOLEAN]
      BY <2>1, <3>1
    <3>3. /\ UNCHANGED <<ask, forge, todo, page, got, changes>>
          /\ result'.is \in {"missing", "unsupported", "unavailable"}
      BY <2>2 DEF NotFound, Outcome
    <3>. QED BY <3>2, <3>3
  <2>3. CASE Fail
    <3>1. past' = past /\ UNCHANGED <<ask, forge, todo, page, got, changes>>
          /\ result'.is = "unavailable"
      BY <2>3 DEF Fail, Outcome
    <3>. QED BY <2>1, <3>1
  <2>. QED BY <2>2, <2>3
<1>2. ~ Reading' /\ ~ Available'
  BY <1>1 DEF Reading, Available
<1>3. ForgeTypeOK' /\ Seen'
  BY <1>1, <1>2 DEF ForgeInv, ForgeTypeOK, Seen
<1>4. ~ past'.left => Settled' /\ NothingPassed'
  BY <1>1, <1>2 DEF ForgeInv, Settled, NothingPassed
<1>5. NothingIsOverlooked' /\ ValuesAreReported'
  BY <1>1, <1>2 DEF NothingIsOverlooked, ValuesAreReported
<1>. QED BY <1>3, <1>4, <1>5 DEF ForgeInv

LEMMA ForgeStart == ForgeInit => ForgeInv
<1>. SUFFICES ASSUME ForgeInit PROVE ForgeInv
  OBVIOUS
<1>0. PICK a \in Asks : \E f \in Forges(a) :
        /\ ask = a /\ forge = f
        /\ todo = Listings(a) /\ page = 1 /\ got = <<>>
        /\ result = Outcome(IF a.actions THEN "pending" ELSE "unsupported")
        /\ changes = 0
        /\ past = [stayed |-> Ids(Wanted(a, ToSet(f))),
                   left |-> FALSE, seen |-> ToSet(f), notFound |-> FALSE]
  BY DEF ForgeInit
<1>1. PICK f \in Forges(a) :
        /\ ask = a /\ forge = f
        /\ todo = Listings(a) /\ page = 1 /\ got = <<>>
        /\ result = Outcome(IF a.actions THEN "pending" ELSE "unsupported")
        /\ changes = 0
        /\ past = [stayed |-> Ids(Wanted(a, ToSet(f))),
                   left |-> FALSE, seen |-> ToSet(f), notFound |-> FALSE]
  BY <1>0
<1>2. PICK n \in 0..MaxObjects :
        /\ f \in [1..n -> [id : 1..n, word : Words(a), of : 0..MaxObjects]]
        /\ \A i \in 1..n :
             /\ f[i].id = i
             /\ IF f[i].word \in ChildWords(a)
                THEN f[i].of \in 1..n /\ f[f[i].of].word = Parent(a)
                ELSE f[i].of = 0
  BY DEF Forges
<1>3. MaxObjects \in Nat /\ n \in Nat /\ n <= MaxObjects
  BY ForgeAssumption
<1>4. \A i \in 1..n : /\ f[i] \in ForgeObject(Words(a), Nat) /\ f[i].id = i
                      /\ f[i].word \in Words(a)
  BY <1>2, <1>3 DEF ForgeObject
<1>5. /\ f \in Seq(ForgeObject(Words(a), Nat)) /\ Len(f) = n /\ DOMAIN f = 1..n
  BY <1>2, <1>3, <1>4
<1>6. ToSet(f) \subseteq ForgeObject(Words(a), Nat)
  BY <1>4, <1>5 DEF ToSet
<1>7. ListingsOK(a)
  BY ListingsAre
<1>8. Ids(Wanted(a, ToSet(f))) \subseteq Nat
  BY <1>6 DEF Ids, Wanted, ForgeObject
<1>9. ForgeTypeOK
  BY <1>1, <1>5, <1>6, <1>7, <1>8 DEF ForgeTypeOK, ListingsOK
<1>10. Seen
  BY <1>1 DEF Seen, ToSet
<1>11. Settled
  <2>1. \A i, j \in DOMAIN forge : forge[i].id = forge[j].id => i = j
    BY <1>1, <1>4, <1>5
  <2>2. ASSUME NEW i \in DOMAIN forge
        PROVE  /\ forge[i].id <= MaxObjects + changes
               /\ IF forge[i].word \in ChildWords(ask)
                  THEN \E j \in DOMAIN forge :
                         forge[j].id = forge[i].of /\ forge[j].word = Parent(ask)
                  ELSE forge[i].of = 0
    <3>1. i \in 1..n /\ forge[i].id = i
      BY <1>1, <1>4, <1>5
    <3>2. forge[i].id <= MaxObjects + changes
      BY <1>1, <1>3, <3>1
    <3>3. CASE forge[i].word \in ChildWords(ask)
      <4>1. f[i].of \in 1..n /\ f[f[i].of].word = Parent(a)
        BY <1>1, <1>2, <3>1, <3>3
      <4>. QED BY <1>1, <1>4, <1>5, <3>2, <3>3, <4>1
    <3>4. CASE forge[i].word \notin ChildWords(ask)
      <4>1. forge[i].of = 0
        BY <1>1, <1>2, <3>1, <3>4
      <4>. QED BY <3>2, <3>4, <4>1
    <3>. QED BY <3>3, <3>4
  <2>. QED BY <1>1, <2>1, <2>2 DEF Settled
<1>12. ASSUME NEW x \in past.stayed PROVE Covered(x)
  <2>1. PICK o \in Wanted(a, ToSet(f)) : o.id = x
    BY <1>1 DEF Ids
  <2>2. PICK i \in 1..n : o = f[i]
    BY <1>5, <2>1 DEF Wanted, ToSet
  <2>3. /\ f[i].word # Parent(a) /\ Meaning(a, f[i]) # "hidden"
        /\ a.filter \in {"any", Meaning(a, f[i])}
    BY <2>1, <2>2 DEF Wanted
  <2>4. ASSUME NEW j \in 1..n, NEW k \in DOMAIN Listings(a),
               f[j].word \in Listings(a)[k].words, f[j].of = 0
        PROVE  Ahead(j)
    <3>1. f[j] \in Listed(Listings(a)[k])
      BY <1>4, <1>7, <2>4 DEF Listed, ForgeObject, ListingsOK
    <3>2. k = 1 => Place(forge, Listed(todo[1]), j) > Before
      <4>1. CASE k = 1
        <5>1. Place(f, Listed(todo[1]), j) \in 1..Len(Only(f, Listed(todo[1])))
          BY <1>1, <1>5, <3>1, <4>1, OnlyPlaces
        <5>2. Before = 0
          <6>1. PageSize \in Nat /\ (1 - 1) * PageSize = 0
            BY ForgeAssumption
          <6>. QED BY <1>1, <6>1 DEF Before
        <5>. QED BY <1>1, <5>1, <5>2
      <4>. QED BY <4>1
    <3>. QED BY <1>1, <3>1, <3>2 DEF Ahead
  <2>5. CASE f[i].word \notin ChildWords(a)
    <3>1. f[i].word \in Listable(a)
      BY <1>4, <2>3, <2>5 DEF Listable, Meaning
    <3>2. PICK k \in DOMAIN Listings(a) : f[i].word \in Listings(a)[k].words
      BY <1>7, <3>1 DEF ListingsOK
    <3>3. f[i].of = 0
      BY <1>2, <2>5
    <3>4. Ahead(i)
      BY <2>4, <3>2, <3>3
    <3>. QED BY <1>1, <1>5, <2>1, <2>2, <3>4 DEF Covered
  <2>6. CASE f[i].word \in ChildWords(a)
    <3>1. f[i].of \in 1..n /\ f[f[i].of].word = Parent(a)
      BY <1>2, <2>6
    <3>2. PICK j \in 1..n : j = f[i].of /\ f[j].id = f[i].of /\ f[j].word = Parent(a)
      BY <1>4, <3>1
    <3>3. Parent(a) # "none" /\ Parent(a) \notin ChildWords(a)
      BY <2>6, Kinds
    <3>4. PICK k \in DOMAIN Listings(a) : Listings(a)[k].words = {Parent(a)}
      BY <1>7, <3>3 DEF ListingsOK
    <3>5. f[j].of = 0
      BY <1>2, <3>2, <3>3
    <3>6. Ahead(j)
      BY <2>4, <3>2, <3>4, <3>5
    <3>7. ChildAhead(i)
      BY <1>1, <1>5, <2>6, <3>2, <3>6 DEF ChildAhead
    <3>. QED BY <1>1, <1>5, <2>1, <2>2, <3>7 DEF Covered
  <2>. QED BY <2>5, <2>6
<1>13. NothingIsOverlooked /\ ValuesAreReported
  <2>1. result.is \notin {"available", "missing"}
    BY <1>1 DEF Outcome
  <2>. QED BY <2>1, NoAnswer
<1>. QED BY <1>9, <1>10, <1>11, <1>12, <1>13 DEF ForgeInv, NothingPassed

LEMMA ForgeStep == ForgeInv /\ [ForgeNext]_forgeVars => ForgeInv'
<1>. SUFFICES ASSUME ForgeInv, [ForgeNext]_forgeVars PROVE ForgeInv'
  OBVIOUS
<1>1. ASSUME NEW w \in Words(ask), Create(w) PROVE ForgeInv'
  BY <1>1, CreateStep
<1>2. ASSUME NEW i \in DOMAIN forge, Delete(i) PROVE ForgeInv'
  BY <1>2, DeleteStep
<1>3. ASSUME NEW i \in DOMAIN forge, NEW w \in Words(ask), Update(i, w) PROVE ForgeInv'
  BY <1>3, UpdateStep
<1>4. ASSUME PageArrives PROVE ForgeInv'
  BY <1>4, PageStep
<1>5. ASSUME NotFound \/ Fail PROVE ForgeInv'
  BY <1>5, EndStep
<1>6. ASSUME UNCHANGED forgeVars PROVE ForgeInv'
  <2>1. UNCHANGED <<ask, forge, todo, page, got, result, changes, past>>
    BY <1>6 DEF forgeVars
  <2>2. ForgeTypeOK' /\ Seen'
    BY <2>1 DEF ForgeInv, ForgeTypeOK, Seen, Reading
  <2>3. ~ past'.left => Settled' /\ NothingPassed'
    <3>1. Settled => Settled'
      BY <2>1 DEF Settled
    <3>2. \A i : Ahead(i) => Ahead(i)'
      BY <2>1 DEF Ahead, Before, Listed, Place
    <3>3. \A i : ChildAhead(i) => ChildAhead(i)'
      BY <2>1, <3>2 DEF ChildAhead
    <3>4. \A x : Received(x) => Received(x)'
      BY <2>1 DEF Received, Good, Meaning
    <3>5. \A x : Covered(x) => Covered(x)'
      BY <2>1, <3>2, <3>3, <3>4 DEF Covered
    <3>. QED BY <2>1, <3>1, <3>5 DEF ForgeInv, NothingPassed, Reading
  <2>4. NothingIsOverlooked' /\ ValuesAreReported'
    BY <2>1 DEF ForgeInv, NothingIsOverlooked, ValuesAreReported, Available, Value, Meaning
  <2>. QED BY <2>2, <2>3, <2>4 DEF ForgeInv
<1>. QED BY <1>1, <1>2, <1>3, <1>4, <1>5, <1>6 DEF ForgeNext

(* Whatever pages arrive while the forge changes, what is read is of the   *)
(* kind asked for and was on the forge, and what has stayed has been       *)
(* received or is still to come.                                           *)
THEOREM ForgeInvariance == ForgeSpec => []ForgeInv
<1>. QED BY ForgeStart, ForgeStep, PTL DEF ForgeSpec

(* For any forge, any page size and limit and any number of changes: every *)
(* value of an available observation was on the forge while it was read,   *)
(* is of the kind asked for, and is no guess.                              *)
THEOREM ValuesAreReportedAlways == ForgeSpec => []ValuesAreReported
<1>. QED BY ForgeInvariance, PTL DEF ForgeInv

(* And unless an object left a listing while the pages were read, none     *)
(* that was there all along is missing from the answer.                    *)
THEOREM NothingIsOverlookedAlways == ForgeSpec => []NothingIsOverlooked
<1>. QED BY ForgeInvariance, PTL DEF ForgeInv
===============================================================================
