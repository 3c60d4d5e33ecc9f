------------------------ MODULE ChangeWorkflowProofs ------------------------
(***************************************************************************)
(* Proofs about ChangeWorkflow, for any processes, commits, record ids and *)
(* requests.  Four inductions, each on top of the ones before: the types of*)
(* what a call holds at each point; what a merged or closed record rests   *)
(* on; what a call knows as long as nobody appends; and what a releasable  *)
(* decision lists.                                                         *)
(***************************************************************************)
EXTENDS ChangeWorkflow, SequenceTheorems, TLAPS

(* Which call is where, and which of its variables are set there.          *)
KindAt(p) ==
  /\ pc[p] = "unique" => Req(p).kind \in {"create", "evidence", "review", "handoff"}
  /\ pc[p] = "read" => Req(p).kind # "create"
  /\ pc[p] \in {"gate", "reread"} => Req(p).kind = "transition"
  /\ pc[p] \in {"git", "status"} => Req(p).kind # "transition"
  /\ pc[p] = "rebind" => Req(p).kind = "review"
  /\ pc[p] \in {"intent", "run"} => Req(p).kind = "evidence"
  /\ pc[p] = "gather" => Req(p).kind \in {"review", "handoff"}
  /\ pc[p] = "append" => Req(p).kind \in {"evidence", "review", "handoff"}

HoldsAt(p) ==
  /\ pc[p] \in {"gate", "reread", "rebind"} => binding \in Binding
  /\ pc[p] \in {"git", "status", "record"} /\ Req(p).kind # "create" =>
       binding \in Binding
  /\ pc[p] \in {"gate", "reread"} => call[p].base \in Binding
  /\ pc[p] \in {"git", "status"} /\ Req(p).kind # "create" =>
       call[p].base \in Binding
  /\ pc[p] = "status" => call[p].look \in Commit
  /\ pc[p] \in {"record", "rebind", "intent", "run", "gather"} =>
       call[p].next \in Binding
  /\ pc[p] = "gather" /\ Req(p).kind = "review" => call[p].base \in Binding
  /\ pc[p] = "append" =>
       /\ Req(p).kind = "evidence" => call[p].draft \in Evidence
       /\ Req(p).kind = "review" => call[p].draft \in Review
       /\ Req(p).kind = "handoff" => call[p].draft \in Handoff
       /\ call[p].draft.id = Req(p).id

CallTyped(p) ==
  pc[p] # "idle" => call[p] \in Call /\ KindAt(p) /\ HoldsAt(p)

TypeInv == TypeOK /\ \A p \in Process : CallTyped(p)

(* What a merged or closed record rests on is in the ledger already when   *)
(* the record is still in a call's variables.                              *)
RestsOn(b) ==
  /\ b.state \in {"merged", "closed"} => \E i \in DOMAIN reviews : Releasable(reviews[i])
  /\ b.state = "closed" => handoffs # <<>>

CallRests(p) ==
  /\ pc[p] \in {"git", "status"} /\ Req(p).kind # "create" => RestsOn(call[p].base)
  /\ pc[p] = "record" => RestsOn(call[p].next)
  /\ pc[p] = "reread" =>
       /\ Req(p).to = "merged" => \E i \in DOMAIN reviews : Releasable(reviews[i])
       /\ Req(p).to = "closed" => handoffs # <<>>

RestInv ==
  /\ binding # None => RestsOn(binding)
  /\ \A p \in Process : CallRests(p)

(* What a call may rely on while the ledger is as long as when it read.    *)
GateHolds(p, b) ==
  /\ Req(p).to = "merged" => ReviewedAt(b.latest.head) /\ Releasable(LastReview)
  /\ Req(p).to = "closed" => HandedOffAt(b.latest.head)

KnowsBinding(p) ==
  /\ Req(p).kind = "create" /\ pc[p] \in {"git", "status", "record"} =>
       binding = None
  /\ Req(p).kind # "create" /\ pc[p] \in {"gate", "reread", "git", "status"} =>
       binding = call[p].base
  /\ pc[p] = "reread" => GateHolds(p, call[p].base)
  /\ pc[p] = "record" /\ Req(p).kind \notin {"create", "transition"} =>
       /\ binding \in Binding
       /\ RefreshAllowed(binding, call[p].next.latest)
       /\ call[p].next = Refreshed(binding, call[p].next.latest)
  /\ pc[p] = "record" /\ Req(p).kind = "transition" =>
       /\ binding \in Binding
       /\ TransitionAllowed(binding, Req(p).to, call[p].at)
       /\ call[p].next = Transitioned(binding, Req(p).to, call[p].at)
       /\ GateHolds(p, binding)

CallFresh(p) ==
  pc[p] # "idle" =>
    call[p].seen <= head /\ (head = call[p].seen => KnowsBinding(p))

FreshInv == \A p \in Process : CallFresh(p)

(* What a decision says of the evidence it lists.                          *)
Proven(r, s) ==
  Releasable(r) =>
    /\ r.seen <= Len(s)
    /\ \A k \in r.kinds : Satisfied(k, SubSeq(s, 1, r.seen), r.head)
    /\ ~ OutOfScope(r.audited)

ProvenInv ==
  /\ \A i \in DOMAIN reviews : Proven(reviews[i], evidence)
  /\ \A p \in Process : pc[p] = "append" /\ Req(p).kind = "review" =>
       Proven(call[p].draft, evidence)
-----------------------------------------------------------------------------
(* The first induction.                                                    *)

(* A step of one process that leaves its call well typed.                  *)
LEMMA StepKeepsCalls ==
  ASSUME TypeInv, binding \in Binding => binding' \in Binding, NEW p \in Process,
         NEW x \in Pc, NEW y \in Call \cup {None},
         pc' = [pc EXCEPT ![p] = x], call' = [call EXCEPT ![p] = y],
         CallTyped(p)'
  PROVE  /\ pc' \in [Process -> Pc]
         /\ call' \in [Process -> Call \cup {None}]
         /\ \A q \in Process : CallTyped(q)'
<1>1. /\ pc \in [Process -> Pc]
      /\ call \in [Process -> Call \cup {None}]
      /\ \A q \in Process : CallTyped(q)
  BY DEF TypeInv, TypeOK
<1>2. ASSUME NEW q \in Process, q # p PROVE CallTyped(q)'
  <2>1. pc'[q] = pc[q] /\ call'[q] = call[q]
    BY <1>1, <1>2
  <2>. QED
    BY <1>1, <2>1 DEF CallTyped, KindAt, HoldsAt, Req
<1>. QED
  BY <1>1, <1>2

LEMMA ReturnKeepsCalls ==
  ASSUME TypeInv, binding \in Binding => binding' \in Binding, NEW p \in Process, Return(p)
  PROVE  /\ pc' \in [Process -> Pc]
         /\ call' \in [Process -> Call \cup {None}]
         /\ \A q \in Process : CallTyped(q)'
<1>1. pc' = [pc EXCEPT ![p] = "idle"] /\ call' = [call EXCEPT ![p] = None]
  BY DEF Return, Goto
<1>2. CallTyped(p)'
  BY <1>1 DEF CallTyped, TypeInv, TypeOK
<1>. QED
  BY <1>1, <1>2, StepKeepsCalls DEF Pc

(* A step that moves a call on and leaves its variables alone.             *)
LEMMA GotoKeepsCalls ==
  ASSUME TypeInv, binding \in Binding => binding' \in Binding, NEW p \in Process, NEW x \in Pc, pc[p] # "idle",
         Goto(p, x), UNCHANGED call,
         (KindAt(p) /\ HoldsAt(p))'
  PROVE  /\ pc' \in [Process -> Pc]
         /\ call' \in [Process -> Call \cup {None}]
         /\ \A q \in Process : CallTyped(q)'
<1>1. call[p] \in Call /\ call' = [call EXCEPT ![p] = call[p]]
  BY DEF TypeInv, TypeOK, CallTyped
<1>2. pc' = [pc EXCEPT ![p] = x]
  BY DEF Goto
<1>3. CallTyped(p)'
  BY <1>1 DEF CallTyped
<1>. QED
  BY <1>1, <1>2, <1>3, StepKeepsCalls

LEMMA RecordsTyped ==
  /\ \A o \in Observation : Created(o) \in Binding
  /\ \A b \in Binding, o \in Observation : Refreshed(b, o) \in Binding
  /\ \A b \in Binding, to \in Lifecycle, at \in Nat :
       Transitioned(b, to, at) \in Binding
<1>1. ASSUME NEW o \in Observation PROVE Created(o) \in Binding
  BY DEF Created, Binding, Observation, Lifecycle
<1>2. ASSUME NEW b \in Binding, NEW o \in Observation
      PROVE Refreshed(b, o) \in Binding
  <2>1. /\ b.n \in Nat \ {0} /\ b.state \in Lifecycle /\ b.updated \in Nat
        /\ o.at \in Nat
    BY DEF Binding, Observation
  <2>. QED
    BY <2>1 DEF Refreshed, Binding
<1>3. ASSUME NEW b \in Binding, NEW to \in Lifecycle, NEW at \in Nat
      PROVE Transitioned(b, to, at) \in Binding
  BY DEF Transitioned, Binding
<1>. QED
  BY <1>1, <1>2, <1>3

LEMMA TypeInit == Init => TypeInv
<1>. SUFFICES ASSUME Init PROVE TypeInv
  OBVIOUS
<1>1. TypeOK
  BY WorkflowAssumption DEF Init, TypeOK, Pc
<1>2. \A p \in Process : pc[p] = "idle"
  BY DEF Init
<1>. QED
  BY <1>1, <1>2 DEF TypeInv, CallTyped

LEMMA TypeStep == TypeInv /\ [Next]_vars => TypeInv'
<1>. SUFFICES ASSUME TypeInv, [Next]_vars PROVE TypeInv'
  OBVIOUS
<1>. DEFINE CallsOK == /\ pc \in [Process -> Pc]
                       /\ call \in [Process -> Call \cup {None}]
                       /\ \A q \in Process : CallTyped(q)
<1>t. TypeOK /\ CallsOK
  BY DEF TypeInv, TypeOK
<1>1. ASSUME NEW p \in Process, NEW req \in Requests, Begin(p, req)
      PROVE TypeInv'
  <2>. DEFINE y == [req |-> req, at |-> clock, seen |-> head, base |-> None,
                    look |-> None, next |-> None, draft |-> None]
              x == IF req.kind \in {"refresh", "transition"} THEN "read" ELSE "unique"
  <2>1. req \in Request
    BY WorkflowAssumption
  <2>2. y \in Call
    BY <1>t, <2>1 DEF TypeOK, Call
  <2>3. /\ pc' = [pc EXCEPT ![p] = x]
        /\ call' = [call EXCEPT ![p] = y]
        /\ x \in Pc
        /\ pc'[p] = x /\ call'[p] = y /\ y.req = req
    BY <1>1, <1>t DEF Begin, Goto, Pc, TypeOK
  <2>4. binding' = binding
    BY <1>1 DEF Begin
  <2>. HIDE DEF y
  <2>5. CallTyped(p)'
    BY <2>1, <2>2, <2>3 DEF CallTyped, KindAt, HoldsAt, Req, Request, Kind
  <2>6. CallsOK'
    BY <2>2, <2>3, <2>4, <2>5, StepKeepsCalls
  <2>. QED
    BY <1>1, <1>t, <2>6 DEF Begin, TypeInv, TypeOK, documents
<1>2. ASSUME NEW p \in Process, Refuse(p) \/ Crash(p) PROVE TypeInv'
  <2>1. Return(p) /\ UNCHANGED <<clock, left, git, head, binding, documents>>
    BY <1>2 DEF Refuse, Crash
  <2>2. CallsOK'
    BY <2>1, ReturnKeepsCalls
  <2>. QED
    BY <1>t, <2>1, <2>2 DEF TypeInv, TypeOK, documents
<1>3. ASSUME NEW p \in Process, CheckNew(p) \/ Gate(p) PROVE TypeInv'
  <2>1. UNCHANGED <<clock, left, git, head, binding, documents>>
    BY <1>3 DEF CheckNew, Gate
  <2>2. PICK x \in {"git", "read", "reread"} :
          /\ Goto(p, x) /\ pc[p] # "idle" /\ UNCHANGED call
          /\ x = "git" => pc[p] = "unique" /\ Req(p).kind = "create"
          /\ x = "read" => pc[p] = "unique" /\ Req(p).kind # "create"
          /\ x = "reread" => pc[p] = "gate"
    BY <1>3 DEF CheckNew, Gate
  <2>3. pc'[p] = x /\ x \in Pc
    BY <1>t, <2>2 DEF Goto, Pc
  <2>4. KindAt(p) /\ HoldsAt(p) /\ call'[p] = call[p] /\ binding' = binding
    BY <1>t, <2>1, <2>2 DEF CallTyped
  <2>5. (KindAt(p) /\ HoldsAt(p))'
    BY <2>2, <2>3, <2>4 DEF KindAt, HoldsAt, Req
  <2>6. CallsOK'
    BY <2>2, <2>3, <2>4, <2>5, GotoKeepsCalls
  <2>. QED
    BY <1>t, <2>1, <2>6 DEF TypeInv, TypeOK, documents
<1>4. ASSUME NEW p \in Process, Read(p) PROVE TypeInv'
  <2>. DEFINE y == [call[p] EXCEPT !.base = binding, !.seen = head]
              x == IF Req(p).kind = "transition" THEN "gate" ELSE "git"
  <2>1. call[p] \in Call /\ binding \in Binding /\ head \in Nat
    BY <1>4, <1>t DEF Read, CanRead, CallTyped, TypeOK
  <2>2. y \in Call /\ y.req = Req(p) /\ y.base = binding
    BY <2>1 DEF Call, Req
  <2>3. /\ pc' = [pc EXCEPT ![p] = x]
        /\ call' = [call EXCEPT ![p] = y]
        /\ x \in Pc
        /\ pc'[p] = x /\ call'[p] = y /\ binding' = binding
    BY <1>4, <1>t DEF Read, Goto, Pc, TypeOK
  <2>. HIDE DEF y
  <2>4. CallTyped(p)'
    BY <2>1, <2>2, <2>3 DEF CallTyped, KindAt, HoldsAt, Req
  <2>5. CallsOK'
    BY <2>2, <2>3, <2>4, StepKeepsCalls
  <2>. QED
    BY <1>4, <1>t, <2>5 DEF Read, TypeInv, TypeOK, documents
<1>5. ASSUME NEW p \in Process, TransitionChangeSet(p) PROVE TypeInv'
  <2>. DEFINE b == Transitioned(binding, Req(p).to, call[p].at)
              y == [call[p] EXCEPT !.next = b]
  <2>1. call[p] \in Call /\ KindAt(p) /\ HoldsAt(p) /\ pc[p] = "reread"
    BY <1>5, <1>t DEF TransitionChangeSet, CallTyped
  <2>2. /\ binding \in Binding /\ Req(p).kind = "transition"
        /\ Req(p).to \in Lifecycle /\ call[p].at \in Nat
    BY <2>1 DEF KindAt, HoldsAt, Req, Call, Request
  <2>3. b \in Binding
    BY <2>2, RecordsTyped
  <2>4. y \in Call /\ y.req = Req(p) /\ y.next = b
    BY <2>1, <2>3 DEF Call, Req
  <2>5. /\ pc' = [pc EXCEPT ![p] = "record"]
        /\ call' = [call EXCEPT ![p] = y]
        /\ pc'[p] = "record" /\ call'[p] = y /\ binding' = binding
        /\ "record" \in Pc
    BY <1>5, <1>t DEF TransitionChangeSet, Goto, TypeOK, Pc
  <2>. HIDE DEF y, b
  <2>6. CallTyped(p)'
    BY <2>2, <2>3, <2>4, <2>5 DEF CallTyped, KindAt, HoldsAt, Req
  <2>7. CallsOK'
    BY <2>4, <2>5, <2>6, StepKeepsCalls
  <2>. QED
    BY <1>5, <1>t, <2>7 DEF TransitionChangeSet, TypeInv, TypeOK, documents
<1>6. ASSUME NEW p \in Process, ObserveHead(p) PROVE TypeInv'
  <2>. DEFINE y == [call[p] EXCEPT !.look = git.head]
  <2>1. call[p] \in Call /\ KindAt(p) /\ HoldsAt(p) /\ pc[p] = "git"
    BY <1>6, <1>t DEF ObserveHead, CallTyped
  <2>2. git.head \in Commit
    BY <1>t, WorkflowAssumption DEF TypeOK, GitState
  <2>3. y \in Call /\ y.req = Req(p) /\ y.look = git.head /\ y.base = call[p].base
    BY <2>1, <2>2 DEF Call, Req
  <2>4. /\ pc' = [pc EXCEPT ![p] = "status"]
        /\ call' = [call EXCEPT ![p] = y]
        /\ pc'[p] = "status" /\ call'[p] = y /\ binding' = binding
        /\ "status" \in Pc
    BY <1>6, <1>t DEF ObserveHead, Goto, TypeOK, Pc
  <2>. HIDE DEF y
  <2>5. CallTyped(p)'
    BY <2>1, <2>2, <2>3, <2>4 DEF CallTyped, KindAt, HoldsAt, Req
  <2>6. CallsOK'
    BY <2>3, <2>4, <2>5, StepKeepsCalls
  <2>. QED
    BY <1>6, <1>t, <2>6 DEF ObserveHead, TypeInv, TypeOK, documents
<1>7. ASSUME NEW p \in Process, ObserveStatus(p) PROVE TypeInv'
  <2>. DEFINE b == IF Req(p).kind = "create" THEN Created(Observed(p))
                   ELSE Refreshed(call[p].base, Observed(p))
              y == [call[p] EXCEPT !.look = None, !.next = b]
  <2>1. call[p] \in Call /\ KindAt(p) /\ HoldsAt(p) /\ pc[p] = "status"
    BY <1>7, <1>t DEF ObserveStatus, CallTyped
  <2>2. Observed(p) \in Observation
    <3>1. git.status \in Status
      BY <1>t, WorkflowAssumption DEF TypeOK, GitState
    <3>2. call[p].at \in Nat /\ call[p].look \in Commit
      BY <2>1 DEF Call, HoldsAt
    <3>. QED
      BY <3>1, <3>2 DEF Observed, Observation
  <2>3. b \in Binding
    BY <2>1, <2>2, RecordsTyped DEF HoldsAt
  <2>4. y \in Call /\ y.req = Req(p) /\ y.next = b
    BY <2>1, <2>3 DEF Call, Req
  <2>5. /\ pc' = [pc EXCEPT ![p] = "record"]
        /\ call' = [call EXCEPT ![p] = y]
        /\ pc'[p] = "record" /\ call'[p] = y /\ binding' = binding
        /\ "record" \in Pc
    BY <1>7, <1>t DEF ObserveStatus, Goto, TypeOK, Pc
  <2>. HIDE DEF y, b
  <2>6. CallTyped(p)'
    BY <2>1, <2>3, <2>4, <2>5 DEF CallTyped, KindAt, HoldsAt, Req
  <2>7. CallsOK'
    BY <2>4, <2>5, <2>6, StepKeepsCalls
  <2>. QED
    BY <1>7, <1>t, <2>7 DEF ObserveStatus, TypeInv, TypeOK, documents
<1>8. ASSUME NEW p \in Process, RecordBinding(p) PROVE TypeInv'
  <2>1. /\ call[p] \in Call /\ KindAt(p) /\ HoldsAt(p) /\ pc[p] = "record"
        /\ binding' = call[p].next /\ binding' \in Binding /\ head' = head + 1
        /\ UNCHANGED <<clock, left, git, documents>>
    BY <1>8, <1>t DEF RecordBinding, CallTyped, HoldsAt
  <2>2. CallsOK'
    <3>1. CASE Return(p)
      BY <2>1, <3>1, ReturnKeepsCalls
    <3>2. CASE ~ Return(p)
      <4>1. /\ Req(p).kind \in {"evidence", "review", "handoff"}
            /\ Goto(p, AfterRecord[Req(p).kind]) /\ UNCHANGED call
        BY <1>8, <3>2 DEF RecordBinding, AfterRecord
      <4>. DEFINE x == AfterRecord[Req(p).kind]
      <4>2. /\ x \in Pc
            /\ x = "intent" => Req(p).kind = "evidence"
            /\ x = "rebind" => Req(p).kind = "review"
            /\ x = "gather" => Req(p).kind = "handoff"
            /\ x \in {"intent", "rebind", "gather"}
        BY <4>1 DEF AfterRecord, Pc
      <4>3. pc'[p] = x /\ call'[p] = call[p]
        BY <1>t, <4>1 DEF Goto
      <4>. HIDE DEF x
      <4>4. (KindAt(p) /\ HoldsAt(p))'
        BY <2>1, <4>2, <4>3 DEF KindAt, HoldsAt, Req
      <4>. QED
        BY <2>1, <4>1, <4>2, <4>4, GotoKeepsCalls DEF x
    <3>. QED
      BY <3>1, <3>2
  <2>. QED
    BY <1>t, <2>1, <2>2 DEF TypeInv, TypeOK, documents
<1>9. ASSUME NEW p \in Process, Rebind(p) PROVE TypeInv'
  <2>. DEFINE y == [call[p] EXCEPT !.base = binding]
  <2>1. call[p] \in Call /\ KindAt(p) /\ HoldsAt(p) /\ pc[p] = "rebind"
    BY <1>9, <1>t DEF Rebind, CallTyped
  <2>2. binding \in Binding /\ call[p].next \in Binding
    BY <2>1 DEF HoldsAt
  <2>3. y \in Call /\ y.req = Req(p) /\ y.next = call[p].next /\ y.base = binding
    BY <2>1, <2>2 DEF Call, Req
  <2>4. /\ pc' = [pc EXCEPT ![p] = "gather"]
        /\ call' = [call EXCEPT ![p] = y]
        /\ pc'[p] = "gather" /\ call'[p] = y /\ binding' = binding
        /\ "gather" \in Pc
    BY <1>9, <1>t DEF Rebind, Goto, TypeOK, Pc
  <2>. HIDE DEF y
  <2>5. CallTyped(p)'
    BY <2>1, <2>2, <2>3, <2>4 DEF CallTyped, KindAt, HoldsAt, Req
  <2>6. CallsOK'
    BY <2>3, <2>4, <2>5, StepKeepsCalls
  <2>. QED
    BY <1>9, <1>t, <2>6 DEF Rebind, TypeInv, TypeOK, documents
<1>10. ASSUME NEW p \in Process, RecordIntent(p) PROVE TypeInv'
  <2>1. call[p] \in Call /\ KindAt(p) /\ HoldsAt(p) /\ pc[p] = "intent"
    BY <1>10, <1>t DEF RecordIntent, CallTyped
  <2>2. /\ Goto(p, "run") /\ UNCHANGED call /\ pc'[p] = "run" /\ "run" \in Pc
        /\ binding' = binding /\ call'[p] = call[p]
    BY <1>10, <1>t DEF RecordIntent, Goto, Pc
  <2>3. (KindAt(p) /\ HoldsAt(p))'
    BY <2>1, <2>2 DEF KindAt, HoldsAt, Req
  <2>4. CallsOK'
    BY <2>1, <2>2, <2>3, GotoKeepsCalls
  <2>5. Req(p).id \in RecordId
    BY <2>1 DEF Req, Call, Request
  <2>. QED
    BY <1>10, <1>t, <2>4, <2>5 DEF RecordIntent, TypeInv, TypeOK
<1>11. ASSUME NEW p \in Process, RunCommand(p) PROVE TypeInv'
  <2>1. call[p] \in Call /\ KindAt(p) /\ HoldsAt(p) /\ pc[p] = "run"
    BY <1>11, <1>t DEF RunCommand, CallTyped
  <2>2. PICK state \in Results :
          call' = [call EXCEPT ![p].draft =
            [id |-> Req(p).id, of |-> Req(p).of, state |-> state,
             head |-> call[p].next.latest.head, at |-> clock]]
    BY <1>11 DEF RunCommand
  <2>. DEFINE e == [id |-> Req(p).id, of |-> Req(p).of, state |-> state,
                    head |-> call[p].next.latest.head, at |-> clock]
              y == [call[p] EXCEPT !.draft = e]
  <2>3. e \in Evidence
    <3>1. Req(p).id \in RecordId /\ Req(p).of \in EvidenceKind
      BY <2>1 DEF Req, Call, Request
    <3>2. call[p].next.latest.head \in Commit
      BY <2>1 DEF HoldsAt, Binding, Observation
    <3>. QED
      BY <1>t, <3>1, <3>2 DEF Evidence, TypeOK
  <2>4. y \in Call /\ y.req = Req(p) /\ y.draft = e /\ e.id = Req(p).id
    BY <2>1, <2>3 DEF Call, Req
  <2>5. /\ pc' = [pc EXCEPT ![p] = "append"]
        /\ call' = [call EXCEPT ![p] = y]
        /\ pc'[p] = "append" /\ call'[p] = y /\ binding' = binding
        /\ "append" \in Pc
    BY <1>11, <1>t, <2>2 DEF RunCommand, Goto, Pc
  <2>. HIDE DEF y, e
  <2>6. CallTyped(p)'
    BY <2>1, <2>3, <2>4, <2>5 DEF CallTyped, KindAt, HoldsAt, Req
  <2>7. CallsOK'
    BY <2>4, <2>5, <2>6, StepKeepsCalls
  <2>. QED
    BY <1>11, <1>t, <2>7 DEF RunCommand, TypeInv, TypeOK, documents
<1>12. ASSUME NEW p \in Process, Gather(p) PROVE TypeInv'
  <2>. DEFINE d == IF Req(p).kind = "review" THEN ReviewDraft(p) ELSE HandoffDraft(p)
              y == [call[p] EXCEPT !.draft = d]
  <2>1. call[p] \in Call /\ KindAt(p) /\ HoldsAt(p) /\ pc[p] = "gather"
    BY <1>12, <1>t DEF Gather, CallTyped
  <2>2. Req(p).id \in RecordId /\ Req(p).kinds \subseteq EvidenceKind /\ call[p].at \in Nat
    BY <2>1 DEF Req, Call, Request
  <2>3. call[p].next.latest \in Observation /\ call[p].next.latest.head \in Commit
    BY <2>1 DEF HoldsAt, Binding, Observation
  <2>4. Req(p).kind = "review" => ReviewDraft(p) \in Review
    <3>1. SUFFICES ASSUME Req(p).kind = "review" PROVE ReviewDraft(p) \in Review
      OBVIOUS
    <3>2. call[p].base.latest.head \in Commit
      BY <2>1, <3>1 DEF HoldsAt, Binding, Observation
    <3>3. Len(evidence) \in Nat
      BY <1>t DEF TypeOK
    <3>4. Decide(Req(p).kinds, call[p].next.latest, evidence,
                 call[p].base.latest.head) \in Outcome
      BY DEF Decide, Outcome
    <3>. QED
      BY <2>2, <2>3, <3>2, <3>3, <3>4 DEF ReviewDraft, Review
  <2>5. HandoffDraft(p) \in Handoff
    BY <2>2, <2>3 DEF HandoffDraft, Handoff
  <2>6. d.id = Req(p).id
    BY DEF ReviewDraft, HandoffDraft
  <2>7. y \in Call /\ y.req = Req(p) /\ y.draft = d
    BY <2>1, <2>4, <2>5 DEF Call, Req
  <2>8. /\ pc' = [pc EXCEPT ![p] = "append"]
        /\ call' = [call EXCEPT ![p] = y]
        /\ pc'[p] = "append" /\ call'[p] = y /\ binding' = binding
        /\ "append" \in Pc
    BY <1>12, <1>t DEF Gather, Goto, Pc
  <2>9. /\ Req(p).kind = "review" => d \in Review
        /\ Req(p).kind = "handoff" => d \in Handoff
        /\ Req(p).kind \in {"review", "handoff"}
    BY <2>1, <2>4, <2>5 DEF KindAt
  <2>. HIDE DEF y, d
  <2>10. CallTyped(p)'
    BY <2>1, <2>6, <2>7, <2>8, <2>9 DEF CallTyped, KindAt, HoldsAt, Req
  <2>11. CallsOK'
    BY <2>7, <2>8, <2>10, StepKeepsCalls
  <2>. QED
    BY <1>12, <1>t, <2>11 DEF Gather, TypeInv, TypeOK, documents
<1>13. ASSUME NEW p \in Process, AppendDocument(p) PROVE TypeInv'
  <2>1. /\ call[p] \in Call /\ KindAt(p) /\ HoldsAt(p) /\ pc[p] = "append"
        /\ Return(p) /\ UNCHANGED <<clock, left, git, binding, requested>>
        /\ head' = head + 1
    BY <1>13, <1>t DEF AppendDocument, CallTyped
  <2>2. CallsOK'
    BY <2>1, ReturnKeepsCalls
  <2>3. evidence' \in Seq(Evidence)
    BY <1>13, <1>t, <2>1 DEF AppendDocument, Extended, TypeOK, HoldsAt
  <2>4. reviews' \in Seq(Review)
    BY <1>13, <1>t, <2>1 DEF AppendDocument, Extended, TypeOK, HoldsAt
  <2>5. handoffs' \in Seq(Handoff)
    BY <1>13, <1>t, <2>1 DEF AppendDocument, Extended, TypeOK, HoldsAt
  <2>. QED
    BY <1>t, <2>1, <2>2, <2>3, <2>4, <2>5 DEF TypeInv, TypeOK
<1>14. CASE WorktreeMoves
  <2>1. UNCHANGED <<clock, left, head, binding, documents, pc, call>> /\ git' \in Worktree
    BY <1>14 DEF WorktreeMoves
  <2>. QED
    BY <1>t, <2>1 DEF TypeInv, TypeOK, documents, CallTyped, KindAt, HoldsAt, Req
<1>15. CASE Tick
  <2>1. UNCHANGED <<left, git, head, binding, documents, pc, call>> /\ clock' = clock + 1
    BY <1>15 DEF Tick
  <2>. QED
    BY <1>t, <2>1 DEF TypeInv, TypeOK, documents, CallTyped, KindAt, HoldsAt, Req
<1>16. CASE UNCHANGED vars
  BY <1>t, <1>16 DEF vars, TypeInv, TypeOK, CallTyped, KindAt, HoldsAt, Req
<1>. QED
  BY <1>1, <1>2, <1>3, <1>4, <1>5, <1>6, <1>7, <1>8, <1>9, <1>10, <1>11, <1>12,
     <1>13, <1>14, <1>15, <1>16 DEF Next, Run

LEMMA TypeAlways == Spec => []TypeInv
  BY TypeInit, TypeStep, PTL DEF Spec

(* The state of the Change Set, its documents and its calls is always well *)
(* typed: no branch of a call reads a variable that was not set.           *)
THEOREM TypeCorrect == Spec => []TypeOK
<1>1. TypeInv => TypeOK
  BY DEF TypeInv
<1>. QED
  BY <1>1, TypeAlways, PTL
-----------------------------------------------------------------------------
(* Documents are only ever added.                                          *)

Extends(t, s) ==
  /\ Len(s) <= Len(t)
  /\ \A i \in DOMAIN s : i \in DOMAIN t /\ t[i] = s[i]

LEMMA AppendExtends ==
  ASSUME NEW S, NEW s \in Seq(S), NEW e \in S
  PROVE  Extends(Append(s, e), s) /\ Append(s, e) # <<>>
<1>1. /\ DOMAIN s = 1 .. Len(s) /\ Len(s) \in Nat
      /\ DOMAIN Append(s, e) = 1 .. Len(Append(s, e))
      /\ Len(Append(s, e)) = Len(s) + 1
      /\ \A i \in 1 .. Len(s) : Append(s, e)[i] = s[i]
      /\ Append(s, e) # <<>>
  BY AppendProperties, LenProperties
<1>. QED
  BY <1>1 DEF Extends

LEMMA SelfExtends ==
  ASSUME NEW S, NEW s \in Seq(S)
  PROVE  Extends(s, s)
BY LenProperties DEF Extends

LEMMA DocumentsGrow ==
  ASSUME TypeInv, [Next]_vars
  PROVE  /\ Extends(evidence', evidence)
         /\ Extends(reviews', reviews)
         /\ handoffs # <<>> => handoffs' # <<>>
         /\ requested \subseteq requested'
<1>1. /\ evidence \in Seq(Evidence) /\ reviews \in Seq(Review)
      /\ handoffs \in Seq(Handoff)
  BY DEF TypeInv, TypeOK
<1>2. ASSUME NEW p \in Process, AppendDocument(p)
      PROVE /\ Extends(evidence', evidence) /\ Extends(reviews', reviews)
            /\ handoffs # <<>> => handoffs' # <<>>
            /\ requested \subseteq requested'
  <2>1. pc[p] = "append" /\ HoldsAt(p)
    BY <1>2 DEF AppendDocument, TypeInv, CallTyped
  <2>2. Extends(evidence', evidence)
    <3>1. CASE Req(p).kind = "evidence"
      <4>1. evidence' = Append(evidence, call[p].draft) /\ call[p].draft \in Evidence
        BY <1>2, <2>1, <3>1 DEF AppendDocument, Extended, HoldsAt
      <4>. QED
        BY <1>1, <4>1, AppendExtends
    <3>2. CASE Req(p).kind # "evidence"
      BY <1>1, <1>2, <3>2, SelfExtends DEF AppendDocument, Extended
    <3>. QED
      BY <3>1, <3>2
  <2>3. Extends(reviews', reviews)
    <3>1. CASE Req(p).kind = "review"
      <4>1. reviews' = Append(reviews, call[p].draft) /\ call[p].draft \in Review
        BY <1>2, <2>1, <3>1 DEF AppendDocument, Extended, HoldsAt
      <4>. QED
        BY <1>1, <4>1, AppendExtends
    <3>2. CASE Req(p).kind # "review"
      BY <1>1, <1>2, <3>2, SelfExtends DEF AppendDocument, Extended
    <3>. QED
      BY <3>1, <3>2
  <2>4. handoffs # <<>> => handoffs' # <<>>
    BY <1>1, <1>2, <2>1, AppendExtends DEF AppendDocument, Extended, HoldsAt
  <2>. QED
    BY <1>2, <2>2, <2>3, <2>4 DEF AppendDocument
<1>3. CASE UNCHANGED <<evidence, reviews, handoffs>> /\ requested \subseteq requested'
  BY <1>1, <1>3, SelfExtends
<1>4. (\A p \in Process : ~ AppendDocument(p)) =>
        UNCHANGED <<evidence, reviews, handoffs>> /\ requested \subseteq requested'
  BY DEF Next, Run, vars, documents, Begin, CheckNew, Read, Gate,
         TransitionChangeSet, ObserveHead, ObserveStatus, RecordBinding, Rebind,
         RecordIntent, RunCommand, Gather, Refuse, Crash, WorktreeMoves, Tick
<1>. QED
  BY <1>2, <1>3, <1>4

LEMMA RestsPersist ==
  ASSUME TypeInv, [Next]_vars, NEW b, RestsOn(b)
  PROVE  RestsOn(b)'
BY DocumentsGrow DEF RestsOn, Extends, Releasable
-----------------------------------------------------------------------------
(* The second induction: what merged and closed records rest on.           *)

LEMMA RestInit == Init => RestInv
BY DEF Init, RestInv, CallRests

LEMMA RestFrame ==
  ASSUME TypeInv, [Next]_vars, NEW q \in Process, CallRests(q),
         pc'[q] = pc[q], call'[q] = call[q]
  PROVE  CallRests(q)'
<1>1. RestsOn(call[q].base) => RestsOn(call[q].base)'
  BY RestsPersist DEF RestsOn
<1>2. RestsOn(call[q].next) => RestsOn(call[q].next)'
  BY RestsPersist DEF RestsOn
<1>3. (\E i \in DOMAIN reviews : Releasable(reviews[i])) =>
        \E i \in DOMAIN reviews' : Releasable(reviews'[i])
  BY DocumentsGrow DEF Extends
<1>4. handoffs # <<>> => handoffs' # <<>>
  BY DocumentsGrow
<1>. QED
  BY <1>1, <1>2, <1>3, <1>4 DEF CallRests, Req, RestsOn, Releasable

LEMMA RestStep == TypeInv /\ RestInv /\ [Next]_vars => RestInv'
<1>. SUFFICES ASSUME TypeInv, RestInv, [Next]_vars PROVE RestInv'
  OBVIOUS
<1>t. /\ pc \in [Process -> Pc] /\ call \in [Process -> Call \cup {None}]
      /\ \A q \in Process : CallTyped(q)
      /\ binding # None => RestsOn(binding)
      /\ \A q \in Process : CallRests(q)
  BY DEF TypeInv, TypeOK, RestInv
<1>b. ASSUME UNCHANGED binding PROVE binding' # None => RestsOn(binding)'
  BY <1>t, <1>b, RestsPersist DEF RestsOn
<1>f. ASSUME NEW p \in Process, NEW x, NEW y, CallRests(p)',
             pc' = [pc EXCEPT ![p] = x], call' = [call EXCEPT ![p] = y]
      PROVE  \A q \in Process : CallRests(q)'
  <2>1. ASSUME NEW q \in Process, q # p PROVE CallRests(q)'
    <3>1. pc'[q] = pc[q] /\ call'[q] = call[q]
      BY <1>t, <1>f, <2>1
    <3>. QED
      BY <1>t, <3>1, RestFrame
  <2>. QED
    BY <1>f, <2>1
(* Steps after which the call holds no record.                             *)
<1>1. ASSUME NEW p \in Process, UNCHANGED binding,
             NEW x \in Pc \ {"git", "status", "record", "reread"}, NEW y,
             pc' = [pc EXCEPT ![p] = x], call' = [call EXCEPT ![p] = y]
      PROVE  RestInv'
  <2>1. pc'[p] = x
    BY <1>t, <1>1
  <2>2. CallRests(p)'
    BY <1>1, <2>1 DEF CallRests
  <2>. QED
    BY <1>1, <1>b, <1>f, <2>2 DEF RestInv
<1>2. ASSUME NEW p \in Process, NEW req \in Requests, Begin(p, req)
      PROVE RestInv'
  <2>. DEFINE y == [req |-> req, at |-> clock, seen |-> head, base |-> None,
                    look |-> None, next |-> None, draft |-> None]
  <2>1. PICK x \in {"read", "unique"} : pc' = [pc EXCEPT ![p] = x]
    BY <1>2 DEF Begin, Goto
  <2>2. call' = [call EXCEPT ![p] = y] /\ UNCHANGED binding
    BY <1>2 DEF Begin
  <2>3. x \in Pc \ {"git", "status", "record", "reread"}
    BY <2>1 DEF Pc
  <2>. HIDE DEF y
  <2>. QED
    BY <1>1, <2>1, <2>2, <2>3
<1>3. ASSUME NEW p \in Process, Return(p), UNCHANGED binding PROVE RestInv'
  <2>1. "idle" \in Pc \ {"git", "status", "record", "reread"}
    BY DEF Pc
  <2>. QED
    BY <1>1, <1>3, <2>1 DEF Return, Goto
<1>4. ASSUME NEW p \in Process, CheckNew(p) PROVE RestInv'
  <2>1. PICK x \in {"git", "read"} : pc' = [pc EXCEPT ![p] = x]
    BY <1>4 DEF CheckNew, Goto
  <2>2. /\ UNCHANGED <<binding, call>> /\ pc[p] = "unique"
        /\ pc'[p] = "git" => Req(p).kind = "create"
    BY <1>4, <1>t DEF CheckNew, Goto
  <2>3. CallRests(p)'
    BY <1>t, <2>1, <2>2 DEF CallRests, Req
  <2>4. call' = [call EXCEPT ![p] = call[p]]
    BY <1>t, <2>2
  <2>. QED
    BY <1>b, <1>f, <2>1, <2>2, <2>3, <2>4 DEF RestInv
<1>5. ASSUME NEW p \in Process, Read(p) PROVE RestInv'
  <2>. DEFINE x == IF Req(p).kind = "transition" THEN "gate" ELSE "git"
              y == [call[p] EXCEPT !.base = binding, !.seen = head]
  <2>1. /\ pc' = [pc EXCEPT ![p] = x] /\ call' = [call EXCEPT ![p] = y]
        /\ UNCHANGED <<binding, reviews, handoffs>> /\ binding # None
        /\ call[p] \in Call
    BY <1>5, <1>t DEF Read, CanRead, Goto, documents, CallTyped
  <2>2. pc'[p] = x /\ call'[p].base = binding
    BY <1>t, <2>1 DEF Call
  <2>3. RestsOn(call[p].base)'
    BY <1>t, <2>1, <2>2 DEF RestsOn
  <2>4. CallRests(p)'
    BY <2>2, <2>3 DEF CallRests, RestsOn
  <2>. HIDE DEF y
  <2>. QED
    BY <1>b, <1>f, <2>1, <2>4 DEF RestInv
<1>6. ASSUME NEW p \in Process, Gate(p) PROVE RestInv'
  <2>1. /\ pc' = [pc EXCEPT ![p] = "reread"]
        /\ UNCHANGED <<binding, reviews, handoffs, call>>
    BY <1>6 DEF Gate, Goto, documents
  <2>2. pc'[p] = "reread" /\ call' = [call EXCEPT ![p] = call[p]]
    BY <1>t, <2>1
  <2>3. /\ Req(p).to = "merged" => reviews # <<>> /\ Releasable(LastReview)
        /\ Req(p).to = "closed" => handoffs # <<>>
    BY <1>6 DEF Gate, GateOpen, ReviewedAt, HandedOffAt
  <2>4. reviews # <<>> => Len(reviews) \in DOMAIN reviews
    <3>1. reviews \in Seq(Review)
      BY DEF TypeInv, TypeOK
    <3>. QED
      BY <3>1
  <2>5. CallRests(p)'
    BY <2>1, <2>2, <2>3, <2>4 DEF CallRests, Req, LastReview
  <2>. QED
    BY <1>b, <1>f, <2>1, <2>2, <2>5 DEF RestInv
<1>7. ASSUME NEW p \in Process, TransitionChangeSet(p) PROVE RestInv'
  <2>. DEFINE b == Transitioned(binding, Req(p).to, call[p].at)
              y == [call[p] EXCEPT !.next = b]
  <2>1. /\ pc' = [pc EXCEPT ![p] = "record"] /\ call' = [call EXCEPT ![p] = y]
        /\ UNCHANGED <<binding, reviews, handoffs>>
        /\ pc[p] = "reread" /\ call[p] \in Call /\ binding \in Binding
        /\ <<binding.state, Req(p).to>> \in Transitions
    BY <1>7, <1>t DEF TransitionChangeSet, CanTransition, TransitionAllowed, Goto,
       documents, CallTyped, HoldsAt
  <2>2. pc'[p] = "record" /\ call'[p].next = b
    BY <1>t, <2>1 DEF Call
  <2>3. b.state = Req(p).to
    BY <2>1 DEF Transitioned, Binding
  <2>4. binding # None
    BY <2>1, WorkflowAssumption
  <2>5. Req(p).to = "closed" => binding.state = "merged"
    BY <2>1 DEF Transitions
  <2>6. RestsOn(b)
    BY <1>t, <2>1, <2>3, <2>4, <2>5 DEF RestsOn, CallRests
  <2>. HIDE DEF b
  <2>7. CallRests(p)'
    BY <2>1, <2>2, <2>6 DEF CallRests, RestsOn
  <2>. HIDE DEF y
  <2>. QED
    BY <1>b, <1>f, <2>1, <2>7 DEF RestInv
<1>8. ASSUME NEW p \in Process, ObserveHead(p) PROVE RestInv'
  <2>. DEFINE y == [call[p] EXCEPT !.look = git.head]
  <2>1. /\ pc' = [pc EXCEPT ![p] = "status"] /\ call' = [call EXCEPT ![p] = y]
        /\ UNCHANGED <<binding, reviews, handoffs>>
        /\ pc[p] = "git" /\ call[p] \in Call
    BY <1>8, <1>t DEF ObserveHead, Goto, documents, CallTyped
  <2>2. pc'[p] = "status" /\ call'[p].base = call[p].base /\ call'[p].req = call[p].req
    BY <1>t, <2>1 DEF Call
  <2>3. CallRests(p)'
    BY <1>t, <2>1, <2>2 DEF CallRests, RestsOn, Req
  <2>. HIDE DEF y
  <2>. QED
    BY <1>b, <1>f, <2>1, <2>3 DEF RestInv
<1>9. ASSUME NEW p \in Process, ObserveStatus(p) PROVE RestInv'
  <2>. DEFINE b == IF Req(p).kind = "create" THEN Created(Observed(p))
                   ELSE Refreshed(call[p].base, Observed(p))
              y == [call[p] EXCEPT !.look = None, !.next = b]
  <2>1. /\ pc' = [pc EXCEPT ![p] = "record"] /\ call' = [call EXCEPT ![p] = y]
        /\ UNCHANGED <<binding, reviews, handoffs>>
        /\ pc[p] = "status" /\ call[p] \in Call
    BY <1>9, <1>t DEF ObserveStatus, Goto, documents, CallTyped
  <2>2. RestsOn(b)
    BY <1>t, <2>1 DEF CallRests, RestsOn, Created, Refreshed
  <2>3. pc'[p] = "record" /\ call'[p].next = b
    BY <1>t, <2>1 DEF Call
  <2>. HIDE DEF b
  <2>4. CallRests(p)'
    BY <2>1, <2>2, <2>3 DEF CallRests, RestsOn
  <2>. HIDE DEF y
  <2>. QED
    BY <1>b, <1>f, <2>1, <2>4 DEF RestInv
<1>10. ASSUME NEW p \in Process, RecordBinding(p) PROVE RestInv'
  <2>1. /\ binding' = call[p].next /\ pc[p] = "record"
        /\ UNCHANGED <<reviews, handoffs>>
    BY <1>10 DEF RecordBinding, documents
  <2>2. RestsOn(binding)'
    BY <1>t, <2>1 DEF CallRests, RestsOn
  <2>3. PICK x \in {"idle", "intent", "rebind", "gather"}, y \in {call[p], None} :
          pc' = [pc EXCEPT ![p] = x] /\ call' = [call EXCEPT ![p] = y]
    <3>1. CASE Return(p)
      BY <3>1 DEF Return, Goto
    <3>2. CASE ~ Return(p)
      BY <1>t, <1>10, <3>2 DEF RecordBinding, AfterRecord, Goto
    <3>. QED
      BY <3>1, <3>2
  <2>4. CallRests(p)'
    BY <1>t, <2>3 DEF CallRests
  <2>. QED
    BY <1>f, <2>2, <2>3, <2>4 DEF RestInv
<1>11. ASSUME NEW p \in Process, Rebind(p) \/ RecordIntent(p) \/ RunCommand(p) \/ Gather(p)
       PROVE RestInv'
  <2>1. UNCHANGED binding
    BY <1>11 DEF Rebind, RecordIntent, RunCommand, Gather
  <2>2. PICK x \in {"gather", "run", "append"} : pc' = [pc EXCEPT ![p] = x]
    BY <1>11 DEF Rebind, RecordIntent, RunCommand, Gather, Goto
  <2>3. \E y : call' = [call EXCEPT ![p] = y]
    <3>1. CASE RecordIntent(p)
      BY <1>t, <3>1 DEF RecordIntent
    <3>2. CASE Rebind(p)
      BY <3>2 DEF Rebind
    <3>3. CASE RunCommand(p)
      BY <3>3 DEF RunCommand
    <3>4. CASE Gather(p)
      BY <3>4 DEF Gather
    <3>. QED
      BY <1>11, <3>1, <3>2, <3>3, <3>4
  <2>4. x \in Pc \ {"git", "status", "record", "reread"}
    BY <2>2 DEF Pc
  <2>. QED
    BY <1>1, <2>1, <2>2, <2>3, <2>4
<1>12. CASE UNCHANGED <<binding, pc, call>>
  BY <1>t, <1>12, <1>b, RestFrame DEF RestInv
<1>13. ASSUME NEW p \in Process, Refuse(p) \/ Crash(p) \/ AppendDocument(p)
       PROVE RestInv'
  BY <1>3, <1>13 DEF Refuse, Crash, AppendDocument
<1>. QED
  BY <1>2, <1>4, <1>5, <1>6, <1>7, <1>8, <1>9, <1>10, <1>11, <1>12, <1>13
     DEF Next, Run, WorktreeMoves, Tick, vars

LEMMA RestAlways == Spec => []RestInv
  BY RestInit, RestStep, TypeAlways, PTL DEF Spec

(* No race and no crash merges a Change Set without a releasable review or *)
(* closes one without a handoff.                                           *)
THEOREM MergesWereReviewed == Spec => []NeverMergedUnreviewed
<1>1. RestInv => NeverMergedUnreviewed
  BY DEF RestInv, RestsOn, NeverMergedUnreviewed
<1>. QED
  BY <1>1, RestAlways, PTL
-----------------------------------------------------------------------------
(* The third induction: as long as the ledger stands still, so does all    *)
(* that a call has read.                                                   *)

LEMMA HeadStands ==
  ASSUME TypeInv, [Next]_vars
  PROVE  /\ head' \in {head, head + 1}
         /\ head' = head => UNCHANGED <<binding, reviews, handoffs>>
<1>1. head \in Nat
  BY DEF TypeInv, TypeOK
<1>2. ASSUME NEW p \in Process,
             RecordBinding(p) \/ RecordIntent(p) \/ AppendDocument(p)
      PROVE head' = head + 1
  BY <1>2 DEF RecordBinding, RecordIntent, AppendDocument
<1>3. (\A p \in Process : ~ (RecordBinding(p) \/ RecordIntent(p) \/ AppendDocument(p))) =>
        UNCHANGED <<head, binding, reviews, handoffs>>
  BY DEF Next, Run, vars, documents, Begin, CheckNew, Read, Gate,
         TransitionChangeSet, ObserveHead, ObserveStatus, Rebind,
         RunCommand, Gather, Refuse, Crash, WorktreeMoves, Tick
<1>. QED
  BY <1>1, <1>2, <1>3

LEMMA FreshInit == Init => FreshInv
BY DEF Init, FreshInv, CallFresh

LEMMA FreshFrame ==
  ASSUME TypeInv, [Next]_vars, NEW q \in Process, CallFresh(q),
         pc'[q] = pc[q], call'[q] = call[q]
  PROVE  CallFresh(q)'
<1>. SUFFICES ASSUME pc[q] # "idle"
              PROVE  /\ call[q].seen <= head'
                     /\ head' = call[q].seen => KnowsBinding(q)'
  BY DEF CallFresh
<1>1. call[q] \in Call /\ call[q].seen \in Nat /\ head \in Nat
  BY DEF TypeInv, TypeOK, CallTyped, Call
<1>2. call[q].seen <= head /\ (head = call[q].seen => KnowsBinding(q))
  BY DEF CallFresh
<1>3. CASE head' = head + 1
  BY <1>1, <1>2, <1>3
<1>4. CASE head' = head
  <2>1. UNCHANGED <<binding, reviews, handoffs>>
    BY <1>4, HeadStands
  <2>2. KnowsBinding(q) => KnowsBinding(q)'
    BY <2>1 DEF KnowsBinding, GateHolds, ReviewedAt, HandedOffAt, LastReview, Req
  <2>. QED
    BY <1>2, <1>4, <2>2
<1>. QED
  BY <1>3, <1>4, HeadStands

LEMMA FreshStep == TypeInv /\ FreshInv /\ [Next]_vars => FreshInv'
<1>. SUFFICES ASSUME TypeInv, FreshInv, [Next]_vars PROVE FreshInv'
  OBVIOUS
<1>t. /\ pc \in [Process -> Pc] /\ call \in [Process -> Call \cup {None}]
      /\ head \in Nat /\ binding \in Binding \cup {None}
      /\ \A q \in Process : CallTyped(q)
      /\ \A q \in Process : CallFresh(q)
  BY DEF TypeInv, TypeOK, FreshInv
<1>c. ASSUME NEW p \in Process, pc[p] # "idle"
      PROVE  /\ call[p] \in Call /\ KindAt(p) /\ HoldsAt(p)
             /\ call[p].seen \in Nat /\ call[p].seen <= head
             /\ head = call[p].seen => KnowsBinding(p)
  BY <1>t, <1>c DEF CallTyped, CallFresh, Call
<1>f. ASSUME NEW p \in Process, NEW x, NEW y, CallFresh(p)',
             pc' = [pc EXCEPT ![p] = x], call' = [call EXCEPT ![p] = y]
      PROVE  FreshInv'
  <2>1. ASSUME NEW q \in Process, q # p PROVE CallFresh(q)'
    <3>1. pc'[q] = pc[q] /\ call'[q] = call[q]
      BY <1>t, <1>f, <2>1
    <3>. QED
      BY <1>t, <3>1, FreshFrame
  <2>. QED
    BY <1>f, <2>1 DEF FreshInv
(* Where a call relies on nothing.                                         *)
<1>1. ASSUME NEW p \in Process, NEW y,
             NEW x \in Pc \ {"git", "status", "record", "gate", "reread"},
             x # "idle" => y.seen \in Nat /\ y.seen <= head,
             pc' = [pc EXCEPT ![p] = x], call' = [call EXCEPT ![p] = y]
      PROVE  FreshInv'
  <2>1. pc'[p] = x /\ call'[p] = y
    BY <1>t, <1>1
  <2>2. head <= head'
    BY <1>t, HeadStands
  <2>3. KnowsBinding(p)'
    BY <1>1, <2>1 DEF KnowsBinding
  <2>4. x # "idle" => y.seen <= head'
    BY <1>t, <1>1, <2>2, HeadStands
  <2>5. CallFresh(p)'
    BY <2>1, <2>3, <2>4 DEF CallFresh
  <2>6. pc' = [pc EXCEPT ![p] = x] /\ call' = [call EXCEPT ![p] = y]
    BY <1>1
  <2>. QED
    BY <1>f, <2>5, <2>6
<1>2. ASSUME NEW p \in Process, NEW req \in Requests, Begin(p, req)
      PROVE FreshInv'
  <2>. DEFINE y == [req |-> req, at |-> clock, seen |-> head, base |-> None,
                    look |-> None, next |-> None, draft |-> None]
  <2>1. PICK x \in {"read", "unique"} : pc' = [pc EXCEPT ![p] = x]
    BY <1>2 DEF Begin, Goto
  <2>2. call' = [call EXCEPT ![p] = y] /\ y.seen = head
    BY <1>2 DEF Begin
  <2>3. x \in Pc \ {"git", "status", "record", "gate", "reread"}
    BY <2>1 DEF Pc
  <2>. HIDE DEF y
  <2>4. y.seen \in Nat /\ y.seen <= head
    BY <1>t, <2>2
  <2>. QED
    BY <1>1, <2>1, <2>2, <2>3, <2>4
<1>3. ASSUME NEW p \in Process, Return(p) PROVE FreshInv'
  <2>1. "idle" \in Pc \ {"git", "status", "record", "gate", "reread"}
    BY DEF Pc
  <2>. QED
    BY <1>1, <1>3, <2>1 DEF Return, Goto
<1>4. ASSUME NEW p \in Process, CheckNew(p) PROVE FreshInv'
  <2>1. PICK x \in {"git", "read"} : pc' = [pc EXCEPT ![p] = x]
    BY <1>4 DEF CheckNew, Goto
  <2>2. /\ UNCHANGED <<binding, call, head>> /\ pc[p] = "unique" /\ ~ Exists(p)
        /\ pc'[p] = "git" => Req(p).kind = "create"
    BY <1>4, <1>t DEF CheckNew, Goto
  <2>3. Req(p).kind = "create" => binding = None
    BY <2>2 DEF Exists
  <2>4. KnowsBinding(p)'
    BY <1>t, <2>1, <2>2, <2>3 DEF KnowsBinding, Req
  <2>5. CallFresh(p)'
    BY <1>c, <2>2, <2>4 DEF CallFresh
  <2>6. call' = [call EXCEPT ![p] = call[p]]
    BY <1>t, <2>2
  <2>. QED
    BY <1>f, <2>1, <2>5, <2>6
<1>5. ASSUME NEW p \in Process, Read(p) PROVE FreshInv'
  <2>. DEFINE x == IF Req(p).kind = "transition" THEN "gate" ELSE "git"
              y == [call[p] EXCEPT !.base = binding, !.seen = head]
  <2>1. /\ pc' = [pc EXCEPT ![p] = x] /\ call' = [call EXCEPT ![p] = y]
        /\ UNCHANGED <<binding, head>> /\ pc[p] = "read"
    BY <1>5 DEF Read, Goto
  <2>2. call[p] \in Call /\ Req(p).kind # "create"
    BY <1>c, <2>1 DEF KindAt
  <2>3. /\ pc'[p] = x /\ call'[p].base = binding /\ call'[p].seen = head
        /\ call'[p].req = call[p].req
    BY <1>t, <2>1, <2>2 DEF Call
  <2>4. KnowsBinding(p)'
    BY <2>1, <2>2, <2>3 DEF KnowsBinding, Req
  <2>5. CallFresh(p)'
    BY <1>t, <2>1, <2>3, <2>4 DEF CallFresh
  <2>. HIDE DEF y
  <2>. QED
    BY <1>f, <2>1, <2>5
<1>6. ASSUME NEW p \in Process, Gate(p) PROVE FreshInv'
  <2>1. /\ pc' = [pc EXCEPT ![p] = "reread"] /\ pc[p] = "gate"
        /\ UNCHANGED <<binding, head, reviews, handoffs, call>>
    BY <1>6 DEF Gate, Goto, documents
  <2>2. pc'[p] = "reread" /\ call' = [call EXCEPT ![p] = call[p]]
    BY <1>t, <2>1
  <2>3. GateHolds(p, call[p].base)'
    BY <1>6, <2>1 DEF Gate, GateOpen, GateHolds, ReviewedAt, HandedOffAt,
       LastReview, Req, Releasable
  <2>4. Req(p).kind = "transition"
    BY <1>c, <2>1 DEF KindAt
  <2>5. KnowsBinding(p) => KnowsBinding(p)'
    BY <2>1, <2>2, <2>3, <2>4 DEF KnowsBinding, Req
  <2>6. CallFresh(p)'
    BY <1>c, <2>1, <2>2, <2>5 DEF CallFresh
  <2>. QED
    BY <1>f, <2>1, <2>2, <2>6
<1>7. ASSUME NEW p \in Process, TransitionChangeSet(p) PROVE FreshInv'
  <2>. DEFINE b == Transitioned(binding, Req(p).to, call[p].at)
              y == [call[p] EXCEPT !.next = b]
  <2>1. /\ pc' = [pc EXCEPT ![p] = "record"] /\ call' = [call EXCEPT ![p] = y]
        /\ UNCHANGED <<binding, head, reviews, handoffs>> /\ pc[p] = "reread"
        /\ TransitionAllowed(binding, Req(p).to, call[p].at)
    BY <1>7 DEF TransitionChangeSet, CanTransition, Goto, documents
  <2>2. call[p] \in Call /\ Req(p).kind = "transition" /\ binding \in Binding
    BY <1>c, <2>1 DEF KindAt, HoldsAt
  <2>3. /\ pc'[p] = "record" /\ call'[p].next = b /\ call'[p].req = call[p].req
        /\ call'[p].seen = call[p].seen /\ call'[p].at = call[p].at
    BY <1>t, <2>1, <2>2 DEF Call
  <2>4. ASSUME head = call[p].seen PROVE KnowsBinding(p)'
    <3>1. GateHolds(p, binding)
      BY <1>c, <2>1, <2>2, <2>4 DEF KnowsBinding
    <3>2. GateHolds(p, binding)'
      BY <2>1, <2>3, <3>1 DEF GateHolds, ReviewedAt, HandedOffAt, LastReview, Req,
         Releasable
    <3>. QED
      BY <2>1, <2>2, <2>3, <3>2 DEF KnowsBinding, Req
  <2>5. CallFresh(p)'
    BY <1>c, <2>1, <2>3, <2>4 DEF CallFresh
  <2>. HIDE DEF y
  <2>. QED
    BY <1>f, <2>1, <2>5
<1>8. ASSUME NEW p \in Process, ObserveHead(p) PROVE FreshInv'
  <2>. DEFINE y == [call[p] EXCEPT !.look = git.head]
  <2>1. /\ pc' = [pc EXCEPT ![p] = "status"] /\ call' = [call EXCEPT ![p] = y]
        /\ UNCHANGED <<binding, head>> /\ pc[p] = "git"
    BY <1>8 DEF ObserveHead, Goto
  <2>2. call[p] \in Call
    BY <1>c, <2>1
  <2>3. /\ pc'[p] = "status" /\ call'[p].base = call[p].base
        /\ call'[p].req = call[p].req /\ call'[p].seen = call[p].seen
    BY <1>t, <2>1, <2>2 DEF Call
  <2>4. KnowsBinding(p) => KnowsBinding(p)'
    BY <2>1, <2>3 DEF KnowsBinding, Req
  <2>5. CallFresh(p)'
    BY <1>c, <2>1, <2>3, <2>4 DEF CallFresh
  <2>. HIDE DEF y
  <2>. QED
    BY <1>f, <2>1, <2>5
<1>9. ASSUME NEW p \in Process, ObserveStatus(p) PROVE FreshInv'
  <2>. DEFINE b == IF Req(p).kind = "create" THEN Created(Observed(p))
                   ELSE Refreshed(call[p].base, Observed(p))
              y == [call[p] EXCEPT !.look = None, !.next = b]
  <2>1. /\ pc' = [pc EXCEPT ![p] = "record"] /\ call' = [call EXCEPT ![p] = y]
        /\ UNCHANGED <<binding, head>> /\ pc[p] = "status"
        /\ Req(p).kind # "create" => RefreshAllowed(call[p].base, Observed(p))
    BY <1>9 DEF ObserveStatus, CanObserve, Goto
  <2>2. /\ call[p] \in Call /\ Req(p).kind # "transition"
        /\ Req(p).kind # "create" => binding \in Binding
    BY <1>c, <2>1 DEF KindAt, HoldsAt
  <2>3. /\ pc'[p] = "record" /\ call'[p].next = b
        /\ call'[p].req = call[p].req /\ call'[p].seen = call[p].seen
    BY <1>t, <2>1, <2>2 DEF Call
  <2>4. Req(p).kind # "create" => b.latest = Observed(p)
    BY DEF Refreshed
  <2>5. Req(p).kind # "create" => b = Refreshed(call[p].base, Observed(p))
    OBVIOUS
  <2>. HIDE DEF b
  <2>6. KnowsBinding(p) => KnowsBinding(p)'
    BY <2>1, <2>2, <2>3, <2>4, <2>5 DEF KnowsBinding, Req
  <2>7. CallFresh(p)'
    BY <1>c, <2>1, <2>3, <2>6 DEF CallFresh
  <2>. HIDE DEF y
  <2>. QED
    BY <1>f, <2>1, <2>7
<1>10. ASSUME NEW p \in Process, RecordBinding(p) PROVE FreshInv'
  <2>1. pc[p] = "record"
    BY <1>10 DEF RecordBinding
  <2>2. CASE Return(p)
    BY <1>3, <2>2
  <2>3. CASE ~ Return(p)
    <3>1. PICK x \in {"intent", "rebind", "gather"} :
            pc' = [pc EXCEPT ![p] = x] /\ UNCHANGED call
      BY <1>10, <2>3 DEF RecordBinding, AfterRecord, Goto
    <3>2. call' = [call EXCEPT ![p] = call[p]]
      BY <1>t, <3>1
    <3>3. x \in Pc \ {"git", "status", "record", "gate", "reread"}
      BY <3>1 DEF Pc
    <3>. QED
      BY <1>1, <1>c, <2>1, <3>1, <3>2, <3>3
  <2>. QED
    BY <2>2, <2>3
<1>11. ASSUME NEW p \in Process, Rebind(p) \/ RecordIntent(p) \/ RunCommand(p) \/ Gather(p)
       PROVE FreshInv'
  <2>1. PICK x \in {"gather", "run", "append"} : pc' = [pc EXCEPT ![p] = x]
    BY <1>11 DEF Rebind, RecordIntent, RunCommand, Gather, Goto
  <2>2. pc[p] # "idle"
    BY <1>11 DEF Rebind, RecordIntent, RunCommand, Gather
  <2>3. call[p] \in Call
    BY <1>c, <2>2
  <2>4. PICK y : call' = [call EXCEPT ![p] = y] /\ y.seen = call[p].seen
    <3>1. CASE RecordIntent(p)
      BY <1>t, <3>1 DEF RecordIntent
    <3>2. CASE Rebind(p)
      <4>. DEFINE z == [call[p] EXCEPT !.base = binding]
      <4>1. call' = [call EXCEPT ![p] = z]
        BY <3>2 DEF Rebind
      <4>2. z.seen = call[p].seen
        BY <2>3 DEF Call
      <4>. QED
        BY <4>1, <4>2
    <3>d. \A d : [call[p] EXCEPT !.draft = d].seen = call[p].seen
      BY <2>3 DEF Call
    <3>3. CASE RunCommand(p)
      <4>1. \E d : call' = [call EXCEPT ![p] = [call[p] EXCEPT !.draft = d]]
        BY <3>3 DEF RunCommand
      <4>. QED
        BY <3>d, <4>1
    <3>4. CASE Gather(p)
      <4>1. \E d : call' = [call EXCEPT ![p] = [call[p] EXCEPT !.draft = d]]
        BY <3>4 DEF Gather
      <4>. QED
        BY <3>d, <4>1
    <3>. QED
      BY <1>11, <3>1, <3>2, <3>3, <3>4
  <2>5. x \in Pc \ {"git", "status", "record", "gate", "reread"}
    BY <2>1 DEF Pc
  <2>. QED
    BY <1>1, <1>c, <2>1, <2>2, <2>4, <2>5
<1>12. CASE UNCHANGED <<pc, call>>
  BY <1>t, <1>12, FreshFrame DEF FreshInv
<1>13. ASSUME NEW p \in Process, Refuse(p) \/ Crash(p) \/ AppendDocument(p)
       PROVE FreshInv'
  BY <1>3, <1>13 DEF Refuse, Crash, AppendDocument
<1>. QED
  BY <1>2, <1>4, <1>5, <1>6, <1>7, <1>8, <1>9, <1>10, <1>11, <1>12, <1>13
     DEF Next, Run, WorktreeMoves, Tick, vars

LEMMA FreshAlways == Spec => []FreshInv
  BY FreshInit, FreshStep, TypeAlways, PTL DEF Spec

(* A record written with nothing appended since its call read follows from *)
(* the record it replaces: whatever goes wrong with the latest record of a *)
(* Change Set takes a race with another append.                            *)
THEOREM UncontendedFollows == Spec => UncontendedRecordsFollow
<1>1. ASSUME TypeInv, FreshInv, [Next]_vars, NEW p \in Process,
             pc[p] = "record", binding' # binding, pc'[p] # "record",
             head = call[p].seen, binding # None
      PROVE  /\ binding'.n >= binding.n
             /\ binding'.latest.at >= binding.latest.at
             /\ binding'.state # binding.state =>
                  <<binding.state, binding'.state>> \in Transitions
             /\ (binding'.state = "merged" /\ binding.state # "merged") =>
                  ReviewedAt(binding'.latest.head) /\ Releasable(LastReview)
             /\ (binding'.state = "closed" /\ binding.state # "closed") =>
                  HandedOffAt(binding'.latest.head)
  <2>1. PICK q \in Process : RecordBinding(q)
    BY <1>1 DEF Next, Run, vars, documents, Begin, CheckNew, Read, Gate,
       TransitionChangeSet, ObserveHead, ObserveStatus, Rebind, RecordIntent,
       RunCommand, Gather, AppendDocument, Refuse, Crash, WorktreeMoves, Tick
  <2>2. q = p
    <3>1. \E x : pc' = [pc EXCEPT ![q] = x]
      BY <2>1 DEF RecordBinding, Return, Goto
    <3>2. pc \in [Process -> Pc]
      BY <1>1 DEF TypeInv, TypeOK
    <3>. QED
      BY <1>1, <3>1, <3>2
  <2>3. binding' = call[p].next /\ KnowsBinding(p)
    BY <1>1, <2>1, <2>2 DEF RecordBinding, FreshInv, CallFresh
  <2>4. Req(p).kind # "create"
    BY <1>1, <2>3 DEF KnowsBinding
  <2>5. CASE Req(p).kind = "transition"
    <3>1. /\ binding \in Binding /\ GateHolds(p, binding)
          /\ TransitionAllowed(binding, Req(p).to, call[p].at)
          /\ binding' = Transitioned(binding, Req(p).to, call[p].at)
      BY <1>1, <2>3, <2>5 DEF KnowsBinding
    <3>2. /\ binding'.n = binding.n /\ binding'.latest = binding.latest
          /\ binding'.state = Req(p).to
          /\ binding.n \in Nat /\ binding.latest.at \in Nat
      BY <3>1 DEF Transitioned, Binding, Observation
    <3>. QED
      BY <3>1, <3>2 DEF GateHolds, TransitionAllowed
  <2>6. CASE Req(p).kind # "transition"
    <3>1. /\ binding \in Binding
          /\ RefreshAllowed(binding, call[p].next.latest)
          /\ binding' = Refreshed(binding, call[p].next.latest)
      BY <1>1, <2>3, <2>4, <2>6 DEF KnowsBinding
    <3>2. /\ binding'.n = binding.n + 1 /\ binding'.latest = call[p].next.latest
          /\ binding'.state = binding.state /\ binding.n \in Nat
      BY <3>1 DEF Refreshed, Binding
    <3>. QED
      BY <3>1, <3>2 DEF RefreshAllowed
  <2>. QED
    BY <2>5, <2>6
<1>2. TypeInv /\ FreshInv /\ [Next]_vars =>
        [\A p \in Process :
          (pc[p] = "record" /\ binding' # binding /\ pc'[p] # "record"
             /\ head = call[p].seen /\ binding # None) =>
            /\ binding'.n >= binding.n
            /\ binding'.latest.at >= binding.latest.at
            /\ binding'.state # binding.state =>
                 <<binding.state, binding'.state>> \in Transitions
            /\ (binding'.state = "merged" /\ binding.state # "merged") =>
                 ReviewedAt(binding'.latest.head) /\ Releasable(LastReview)
            /\ (binding'.state = "closed" /\ binding.state # "closed") =>
                 HandedOffAt(binding'.latest.head)]_vars
  BY <1>1
<1>. QED
  BY <1>2, TypeAlways, FreshAlways, PTL DEF Spec, UncontendedRecordsFollow
-----------------------------------------------------------------------------
(* Evidence requests that nobody executes any more.                        *)

LEMMA NobodyTakesUp ==
  ASSUME TypeInv, [Next]_vars, NEW id, Abandoned(id), NEW p \in Process
  PROVE  ~ Executing(p, id)'
<1>t. /\ pc \in [Process -> Pc] /\ call \in [Process -> Call \cup {None}]
      /\ CallTyped(p) /\ id \in requested /\ ~ Executing(p, id)
  BY DEF TypeInv, TypeOK, Abandoned
<1>1. CASE pc'[p] = pc[p] /\ call'[p] = call[p]
  BY <1>t, <1>1 DEF Executing, Req
<1>2. CASE pc'[p] = "idle"
  BY <1>2 DEF Executing
<1>3. CASE \E req \in Requests : Begin(p, req)
  <2>1. PICK req \in Requests : Begin(p, req)
    BY <1>3
  <2>. DEFINE y == [req |-> req, at |-> clock, seen |-> head, base |-> None,
                    look |-> None, next |-> None, draft |-> None]
  <2>2. /\ call'[p].req = req
        /\ pc'[p] = "unique" \/ req.kind \in {"refresh", "transition"}
    BY <1>t, <2>1 DEF Begin, Goto
  <2>. QED
    BY <2>2 DEF Executing, Req
<1>4. CASE CheckNew(p)
  <2>1. ~ Exists(p) /\ call'[p] = call[p]
    BY <1>4 DEF CheckNew
  <2>2. Req(p).kind = "evidence" => Req(p).id # id
    BY <1>t, <2>1 DEF Exists
  <2>. QED
    BY <2>1, <2>2 DEF Executing, Req
<1>5. CASE pc[p] \notin {"idle", "unique"} /\ call'[p].req = call[p].req
  BY <1>t, <1>5 DEF Executing, Req
<1>6. ASSUME Read(p) \/ Gate(p) \/ TransitionChangeSet(p) \/ ObserveHead(p)
              \/ ObserveStatus(p) \/ RecordBinding(p) \/ Rebind(p)
              \/ RecordIntent(p) \/ RunCommand(p) \/ Gather(p)
      PROVE  ~ Executing(p, id)'
  <2>1. pc[p] \notin {"idle", "unique"}
    BY <1>6 DEF Read, Gate, TransitionChangeSet, ObserveHead, ObserveStatus,
       RecordBinding, Rebind, RecordIntent, RunCommand, Gather
  <2>2. call[p] \in Call
    BY <1>t, <2>1 DEF CallTyped
  <2>3. CASE UNCHANGED call \/ Return(p)
    BY <1>t, <1>2, <1>5, <2>1, <2>3 DEF Return, Goto
  <2>4. CASE RunCommand(p)
    <3>1. \E d : call' = [call EXCEPT ![p] = [call[p] EXCEPT !.draft = d]]
      BY <2>4 DEF RunCommand
    <3>2. \A d : [call[p] EXCEPT !.draft = d].req = call[p].req
      BY <2>2 DEF Call
    <3>. QED
      BY <1>t, <1>5, <2>1, <3>1, <3>2
  <2>5. CASE Gather(p)
    <3>1. \E d : call' = [call EXCEPT ![p] = [call[p] EXCEPT !.draft = d]]
      BY <2>5 DEF Gather
    <3>2. \A d : [call[p] EXCEPT !.draft = d].req = call[p].req
      BY <2>2 DEF Call
    <3>. QED
      BY <1>t, <1>5, <2>1, <3>1, <3>2
  <2>6. CASE Read(p)
    <3>1. call' = [call EXCEPT ![p] = [call[p] EXCEPT !.base = binding, !.seen = head]]
      BY <2>6 DEF Read
    <3>2. [call[p] EXCEPT !.base = binding, !.seen = head].req = call[p].req
      BY <2>2 DEF Call
    <3>. QED
      BY <1>t, <1>5, <2>1, <3>1, <3>2
  <2>7. CASE TransitionChangeSet(p)
    <3>1. \E b : call' = [call EXCEPT ![p] = [call[p] EXCEPT !.next = b]]
      BY <2>7 DEF TransitionChangeSet
    <3>2. \A b : [call[p] EXCEPT !.next = b].req = call[p].req
      BY <2>2 DEF Call
    <3>. QED
      BY <1>t, <1>5, <2>1, <3>1, <3>2
  <2>8. CASE ObserveHead(p)
    <3>1. call' = [call EXCEPT ![p] = [call[p] EXCEPT !.look = git.head]]
      BY <2>8 DEF ObserveHead
    <3>2. [call[p] EXCEPT !.look = git.head].req = call[p].req
      BY <2>2 DEF Call
    <3>. QED
      BY <1>t, <1>5, <2>1, <3>1, <3>2
  <2>9. CASE ObserveStatus(p)
    <3>1. \E b : call' = [call EXCEPT ![p] = [call[p] EXCEPT !.look = None, !.next = b]]
      BY <2>9 DEF ObserveStatus
    <3>2. \A b : [call[p] EXCEPT !.look = None, !.next = b].req = call[p].req
      BY <2>2 DEF Call
    <3>. QED
      BY <1>t, <1>5, <2>1, <3>1, <3>2
  <2>10. CASE Rebind(p)
    <3>1. call' = [call EXCEPT ![p] = [call[p] EXCEPT !.base = binding]]
      BY <2>10 DEF Rebind
    <3>2. [call[p] EXCEPT !.base = binding].req = call[p].req
      BY <2>2 DEF Call
    <3>. QED
      BY <1>t, <1>5, <2>1, <3>1, <3>2
  <2>11. Gate(p) \/ RecordIntent(p) \/ RecordBinding(p) => UNCHANGED call \/ Return(p)
    BY DEF Gate, RecordIntent, RecordBinding
  <2>. QED
    BY <1>6, <2>3, <2>4, <2>5, <2>6, <2>7, <2>8, <2>9, <2>10, <2>11
<1>7. CASE Refuse(p) \/ Crash(p) \/ AppendDocument(p)
  BY <1>t, <1>2, <1>7 DEF Refuse, Crash, AppendDocument, Return, Goto
<1>8. CASE \E q \in Process \ {p} : Run(q) \/ Crash(q) \/ \E req \in Requests : Begin(q, req)
  <2>1. PICK q \in Process \ {p} :
          Run(q) \/ Crash(q) \/ \E req \in Requests : Begin(q, req)
    BY <1>8
  <2>2. \E x : pc' = [pc EXCEPT ![q] = x]
    BY <2>1 DEF Run, Begin, CheckNew, Read, Gate, TransitionChangeSet, ObserveHead,
       ObserveStatus, RecordBinding, Rebind, RecordIntent, RunCommand, Gather,
       AppendDocument, Refuse, Crash, Return, Goto
  <2>3. UNCHANGED call \/ \E y : call' = [call EXCEPT ![q] = y]
    BY <2>1 DEF Run, Begin, CheckNew, Read, Gate, TransitionChangeSet, ObserveHead,
       ObserveStatus, RecordBinding, Rebind, RecordIntent, RunCommand, Gather,
       AppendDocument, Refuse, Crash, Return
  <2>. QED
    BY <1>t, <1>1, <2>2, <2>3
<1>9. CASE UNCHANGED <<pc, call>>
  BY <1>1, <1>9
<1>. QED
  BY <1>3, <1>4, <1>6, <1>7, <1>8, <1>9 DEF Next, Run, WorktreeMoves, Tick, vars

(* An evidence request that was left unfinished stays so: nobody runs its  *)
(* command again and nobody records an outcome for it.                     *)
THEOREM AbandonedIsFinal == Spec => AbandonedStaysAbandoned
<1>1. ASSUME TypeInv, [Next]_vars, NEW id \in RecordId, Abandoned(id)
      PROVE  /\ Abandoned(id)'
             /\ \A i \in DOMAIN evidence' : i \notin DOMAIN evidence =>
                  evidence'[i].id # id
  <2>1. id \in requested'
    BY <1>1, DocumentsGrow DEF Abandoned
  <2>2. Abandoned(id)'
    BY <1>1, <2>1, NobodyTakesUp DEF Abandoned
  <2>3. ASSUME NEW i \in DOMAIN evidence', i \notin DOMAIN evidence
        PROVE  evidence'[i].id # id
    <3>1. PICK p \in Process : AppendDocument(p)
      BY <1>1, <2>3 DEF Next, Run, vars, documents, Begin, CheckNew, Read, Gate,
         TransitionChangeSet, ObserveHead, ObserveStatus, RecordBinding, Rebind,
         RecordIntent, RunCommand, Gather, Refuse, Crash, WorktreeMoves, Tick
    <3>2. /\ Req(p).kind = "evidence"
          /\ evidence' = Append(evidence, call[p].draft)
      BY <2>3, <3>1 DEF AppendDocument, Extended
    <3>3. pc[p] = "append"
      BY <3>1 DEF AppendDocument
    <3>4. call[p].draft \in Evidence /\ call[p].draft.id = Req(p).id
      BY <1>1, <3>2, <3>3 DEF TypeInv, CallTyped, HoldsAt
    <3>5. Req(p).id # id
      BY <1>1, <3>2, <3>3 DEF Abandoned, Executing
    <3>6. evidence'[i] = call[p].draft
      BY <1>1, <2>3, <3>2, <3>4, AppendProperties DEF TypeInv, TypeOK
    <3>. QED
      BY <3>4, <3>5, <3>6
  <2>. QED
    BY <2>2, <2>3
<1>2. TypeInv /\ [Next]_vars =>
        [\A id \in RecordId : Abandoned(id) =>
          /\ Abandoned(id)'
          /\ \A i \in DOMAIN evidence' : i \notin DOMAIN evidence =>
               evidence'[i].id # id]_vars
  BY <1>1
<1>. QED
  BY <1>2, TypeAlways, PTL DEF Spec, AbandonedStaysAbandoned
-----------------------------------------------------------------------------
(* The fourth induction: what a releasable decision lists.                 *)

LEMMA PrefixKept ==
  ASSUME NEW S, NEW s \in Seq(S), NEW t \in Seq(S), Extends(t, s),
         NEW n \in Nat, n <= Len(s)
  PROVE  SubSeq(t, 1, n) = SubSeq(s, 1, n)
<1>1. /\ DOMAIN s = 1 .. Len(s) /\ Len(s) \in Nat /\ Len(t) \in Nat
      /\ Len(s) <= Len(t)
      /\ \A i \in DOMAIN s : t[i] = s[i]
  BY LenProperties DEF Extends
<1>2. n \in 0 .. Len(s) /\ n \in 0 .. Len(t)
  BY <1>1
<1>3. /\ SubSeq(s, 1, n) = [i \in 1 .. n |-> s[i]]
      /\ SubSeq(t, 1, n) = [i \in 1 .. n |-> t[i]]
  BY <1>2, SubSeqRestrict DEF Restrict
<1>4. \A i \in 1 .. n : t[i] = s[i]
  BY <1>1, <1>2
<1>. QED
  BY <1>3, <1>4

LEMMA ProvenPersists ==
  ASSUME TypeInv, [Next]_vars
  PROVE  \A r \in Review : Proven(r, evidence) => Proven(r, evidence')
<1>. SUFFICES ASSUME NEW r \in Review, Proven(r, evidence), Releasable(r)
              PROVE  /\ r.seen <= Len(evidence')
                     /\ \A k \in r.kinds :
                          Satisfied(k, SubSeq(evidence', 1, r.seen), r.head)
                     /\ ~ OutOfScope(r.audited)
  BY DEF Proven
<1>1. /\ evidence \in Seq(Evidence) /\ evidence' \in Seq(Evidence)
      /\ r.seen \in Nat
  BY TypeStep DEF TypeInv, TypeOK, Review
<1>2. /\ r.seen <= Len(evidence) /\ Extends(evidence', evidence)
      /\ \A k \in r.kinds : Satisfied(k, SubSeq(evidence, 1, r.seen), r.head)
      /\ ~ OutOfScope(r.audited)
  BY DocumentsGrow DEF Proven
<1>3. SubSeq(evidence', 1, r.seen) = SubSeq(evidence, 1, r.seen)
  BY <1>1, <1>2, PrefixKept
<1>4. r.seen <= Len(evidence')
  BY <1>1, <1>2, LenProperties DEF Extends
<1>. QED
  BY <1>2, <1>3, <1>4

LEMMA DecisionProven ==
  ASSUME TypeInv, NEW p \in Process
  PROVE  Proven(ReviewDraft(p), evidence)
<1>. DEFINE r == ReviewDraft(p)
<1>1. evidence \in Seq(Evidence) /\ Len(evidence) \in Nat
  BY LenProperties DEF TypeInv, TypeOK
<1>2. SubSeq(evidence, 1, Len(evidence)) = evidence
  BY <1>1, SubSeqFull
<1>3. /\ r.seen = Len(evidence) /\ r.kinds = Req(p).kinds
      /\ r.audited = call[p].next.latest /\ r.head = call[p].base.latest.head
      /\ r.outcome = Decide(r.kinds, r.audited, evidence, r.head)
  BY DEF ReviewDraft
<1>4. r.outcome = "ready" =>
        /\ ~ OutOfScope(r.audited)
        /\ \A k \in r.kinds : Satisfied(k, evidence, r.head)
  <2>. HIDE DEF r
  <2>. QED
    BY <1>3 DEF Decide
<1>. HIDE DEF r
<1>5. r.seen <= Len(evidence)
  BY <1>1, <1>3
<1>6. \A k \in r.kinds : Satisfied(k, evidence, r.head) =>
                         Satisfied(k, SubSeq(evidence, 1, r.seen), r.head)
  BY <1>2, <1>3
<1>7. Proven(r, evidence)
  BY <1>4, <1>5, <1>6 DEF Proven, Releasable
<1>. QED
  BY <1>7 DEF r

LEMMA ProvenInit == Init => ProvenInv
BY DEF Init, ProvenInv

LEMMA ProvenStep == TypeInv /\ ProvenInv /\ [Next]_vars => ProvenInv'
<1>. SUFFICES ASSUME TypeInv, ProvenInv, [Next]_vars PROVE ProvenInv'
  OBVIOUS
<1>t. /\ pc \in [Process -> Pc] /\ call \in [Process -> Call \cup {None}]
      /\ reviews \in Seq(Review)
      /\ \A q \in Process : CallTyped(q)
      /\ \A i \in DOMAIN reviews : Proven(reviews[i], evidence)
      /\ \A q \in Process : pc[q] = "append" /\ Req(q).kind = "review" =>
           call[q].draft \in Review /\ Proven(call[q].draft, evidence)
  BY DEF TypeInv, TypeOK, ProvenInv, CallTyped, HoldsAt
(* A decision is gathered from the evidence there is.                      *)
<1>1. ASSUME NEW p \in Process, Gather(p), Req(p)'.kind = "review"
      PROVE  Proven(call'[p].draft, evidence')
  <2>1. pc[p] = "gather" /\ call[p] \in Call
    BY <1>t, <1>1 DEF Gather, CallTyped
  <2>. DEFINE d == IF Req(p).kind = "review" THEN ReviewDraft(p) ELSE HandoffDraft(p)
  <2>2. /\ call' = [call EXCEPT ![p] = [call[p] EXCEPT !.draft = d]]
        /\ UNCHANGED evidence
    BY <1>1 DEF Gather, documents
  <2>3. call'[p].draft = d /\ call'[p].req = call[p].req
    BY <1>t, <2>1, <2>2 DEF Call
  <2>4. d = ReviewDraft(p)
    BY <1>1, <2>3 DEF Req
  <2>. HIDE DEF d
  <2>. QED
    BY <2>2, <2>3, <2>4, DecisionProven
<1>2. ASSUME NEW p \in Process, pc'[p] = "append", Req(p)'.kind = "review"
      PROVE  Proven(call'[p].draft, evidence')
  <2>1. CASE pc[p] = "append" /\ call'[p] = call[p]
    BY <1>t, <1>2, <2>1, ProvenPersists DEF Req
  <2>2. CASE ~ (pc[p] = "append" /\ call'[p] = call[p])
    <3>1. Gather(p) \/ RunCommand(p)
      <4>1. ASSUME NEW q \in Process, q # p,
                   Run(q) \/ Crash(q) \/ \E req \in Requests : Begin(q, req)
            PROVE  pc'[p] = pc[p] /\ call'[p] = call[p]
        <5>1. \E x : pc' = [pc EXCEPT ![q] = x]
          BY <4>1 DEF Run, Begin, CheckNew, Read, Gate, TransitionChangeSet,
             ObserveHead, ObserveStatus, RecordBinding, Rebind, RecordIntent,
             RunCommand, Gather, AppendDocument, Refuse, Crash, Return, Goto
        <5>2. UNCHANGED call \/ \E y : call' = [call EXCEPT ![q] = y]
          BY <4>1 DEF Run, Begin, CheckNew, Read, Gate, TransitionChangeSet,
             ObserveHead, ObserveStatus, RecordBinding, Rebind, RecordIntent,
             RunCommand, Gather, AppendDocument, Refuse, Crash, Return
        <5>. QED
          BY <1>t, <4>1, <5>1, <5>2
      <4>2. ASSUME \/ CheckNew(p) \/ Read(p) \/ Gate(p) \/ TransitionChangeSet(p)
                   \/ ObserveHead(p) \/ ObserveStatus(p) \/ RecordBinding(p)
                   \/ Rebind(p) \/ RecordIntent(p) \/ AppendDocument(p) \/ Refuse(p)
                   \/ Crash(p) \/ \E req \in Requests : Begin(p, req)
            PROVE  pc'[p] # "append"
        BY <1>t, <4>2 DEF Begin, CheckNew, Read, Gate, TransitionChangeSet,
           ObserveHead, ObserveStatus, RecordBinding, Rebind, RecordIntent,
           AppendDocument, Refuse, Crash, Return, Goto, AfterRecord
      <4>3. UNCHANGED <<pc, call>> => pc[p] = "append" /\ call'[p] = call[p]
        BY <1>2
      <4>. QED
        BY <1>2, <2>2, <4>1, <4>2, <4>3 DEF Next, Run, WorktreeMoves, Tick, vars
    <3>2. ~ RunCommand(p)
      <4>1. SUFFICES ASSUME RunCommand(p) PROVE FALSE
        OBVIOUS
      <4>2. pc[p] = "run" /\ call[p] \in Call /\ Req(p).kind = "evidence"
        BY <1>t, <4>1 DEF RunCommand, CallTyped, KindAt
      <4>3. \E d : call' = [call EXCEPT ![p] = [call[p] EXCEPT !.draft = d]]
        BY <4>1 DEF RunCommand
      <4>4. \A d : [call[p] EXCEPT !.draft = d].req = call[p].req
        BY <4>2 DEF Call
      <4>. QED
        BY <1>t, <1>2, <4>2, <4>3, <4>4 DEF Req
    <3>. QED
      BY <1>1, <1>2, <3>1, <3>2
  <2>. QED
    BY <2>1, <2>2
(* The reviews.                                                            *)
<1>3. ASSUME NEW i \in DOMAIN reviews' PROVE Proven(reviews'[i], evidence')
  <2>1. CASE UNCHANGED reviews
    <3>1. i \in DOMAIN reviews /\ reviews'[i] = reviews[i] /\ reviews[i] \in Review
      BY <1>t, <1>3, <2>1
    <3>. QED
      BY <1>t, <3>1, ProvenPersists
  <2>2. CASE ~ UNCHANGED reviews
    <3>1. PICK p \in Process : AppendDocument(p)
      BY <2>2 DEF Next, Run, vars, documents, Begin, CheckNew, Read, Gate,
         TransitionChangeSet, ObserveHead, ObserveStatus, RecordBinding, Rebind,
         RecordIntent, RunCommand, Gather, Refuse, Crash, WorktreeMoves, Tick
    <3>2. /\ reviews' = Append(reviews, call[p].draft)
          /\ call[p].draft \in Review /\ Proven(call[p].draft, evidence)
      BY <1>t, <2>2, <3>1 DEF AppendDocument, Extended
    <3>3. reviews'[i] \in {reviews[j] : j \in DOMAIN reviews} \cup {call[p].draft}
      BY <1>t, <1>3, <3>2, AppendProperties, LenProperties
    <3>4. \A j \in DOMAIN reviews : reviews[j] \in Review
      BY <1>t
    <3>. QED
      BY <1>t, <3>2, <3>3, <3>4, ProvenPersists
  <2>. QED
    BY <2>1, <2>2
<1>. QED
  BY <1>2, <1>3 DEF ProvenInv

(* A decision that may be merged on holds against the evidence it lists,   *)
(* whatever was recorded before, between and after it.                     *)
THEOREM ReleasableDecisionsProven == Spec => []ReleasableIsProven
<1>1. ProvenInv => ReleasableIsProven
  BY DEF ProvenInv, Proven, ReleasableIsProven
<1>. QED
  BY <1>1, ProvenInit, ProvenStep, TypeAlways, PTL DEF Spec
=============================================================================
