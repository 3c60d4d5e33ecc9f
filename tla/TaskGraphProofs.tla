-------------------------- MODULE TaskGraphProofs --------------------------
(***************************************************************************)
(* Proofs about TaskGraph.  The one fact about graphs is that a dependency *)
(* which does not close a cycle of the graph it is judged by leaves an     *)
(* acyclic graph acyclic.  That it is judged by the graph it is added to   *)
(* is the work of the compare-and-append: Facts says of every call that    *)
(* what it has read is still so as long as the head it has read is the     *)
(* head of the ledger.                                                     *)
(***************************************************************************)
EXTENDS TaskGraph, TLAPS

(* If t does not come after d in the graph with the edge from t to d, the  *)
(* edge closes no cycle: of a set that separates the ends of an old edge   *)
(* and one that separates d from t, a union or an intersection separates   *)
(* the old ends in the new graph.                                          *)
LEMMA EdgeKeepsAcyclic ==
  ASSUME NEW G \in SUBSET (Task \X Task), NEW t \in Task, NEW d \in Task,
         \A e \in G : ~Reaches(G, e[2], e[1]),
         ~Reaches(G \cup {<<t, d>>}, d, t)
  PROVE  \A e \in G \cup {<<t, d>>} : ~Reaches(G \cup {<<t, d>>}, e[2], e[1])
<1> DEFINE H == G \cup {<<t, d>>}
<1>1. PICK S0 \in SUBSET Task : d \in S0 /\ Closed(S0, H) /\ t \notin S0
  BY DEF Reaches
<1>2. ASSUME NEW e \in G PROVE ~Reaches(H, e[2], e[1])
  <2>1. e \in Task \X Task
    OBVIOUS
  <2>2. PICK S1 \in SUBSET Task : e[2] \in S1 /\ Closed(S1, G) /\ e[1] \notin S1
    BY DEF Reaches
  <2>3. CASE t \notin S1
    <3>1. Closed(S1, H)
      BY <2>2, <2>3 DEF Closed
    <3> QED BY <2>2, <3>1 DEF Reaches
  <2>4. CASE t \in S1 /\ e[1] \in S0
    <3>1. e[2] \in S0
      BY <1>1, <2>4 DEF Closed
    <3>2. Closed(S0 \cap S1, H)
      BY <1>1, <2>2 DEF Closed
    <3> QED BY <2>2, <3>1, <3>2 DEF Reaches
  <2>5. CASE t \in S1 /\ e[1] \notin S0
    <3>1. Closed(S0 \cup S1, H)
      BY <1>1, <2>2 DEF Closed
    <3> QED BY <2>2, <2>5, <3>1 DEF Reaches
  <2> QED BY <2>3, <2>4, <2>5
<1>3. ~Reaches(H, <<t, d>>[2], <<t, d>>[1])
  OBVIOUS
<1> QED BY <1>2, <1>3

-----------------------------------------------------------------------------
(* Types.                                                                  *)

LEMMA CallIsTyped ==
  ASSUME TypeOK, NEW p \in Process, NEW phase \in Phase, In(p, phase)
  PROVE  call[p] \in Call
BY DEF TypeOK, In, NoCall, Phase

LEMMA ItemsAreTyped ==
  ASSUME NEW r \in Requests
  PROVE  /\ ItemsOf[r.doc] \in Seq(Item)
         /\ Len(ItemsOf[r.doc]) \in Nat
         /\ DOMAIN ItemsOf[r.doc] = 1..Len(ItemsOf[r.doc])
         /\ \A n \in 1..Len(ItemsOf[r.doc]) : ItemsOf[r.doc][n] \in Item
BY DocumentsAssumption, RequestsAssumption DEF Request

Helper(p) ==
  \/ Return(p) \/ Look(p)
  \/ \E phase \in Phase : Enter(p, phase)
  \/ \E n \in Nat \ {0} : Proceed(p, n)

(* Whatever a step does to the call of its process is one of these.        *)
LEMMA HelperIsTyped ==
  ASSUME TypeOK, NEW p \in Process, call[p] \in Call, Helper(p)
  PROVE  call' \in [Process -> Call \cup {NoCall}]
<1>1. head \in Nat
  BY BoundsAssumption DEF TypeOK
<1>0. 0 \in 0..MaxTries /\ None \in Nat \cup {None}
  BY BoundsAssumption
<1>2. CASE Return(p)
  BY <1>2 DEF Return, TypeOK
<1>3. CASE Look(p)
  BY <1>1, <1>3 DEF Look, TypeOK, Call
<1>4. ASSUME NEW phase \in Phase, Enter(p, phase)
      PROVE  call' \in [Process -> Call \cup {NoCall}]
  <2>1. [call[p] EXCEPT !.phase = phase, !.seen = None, !.tries = 0] \in Call
    BY <1>0 DEF Call
  <2> QED BY <1>4, <2>1 DEF Enter, TypeOK
<1>5. ASSUME NEW n \in Nat \ {0}, Proceed(p, n)
      PROVE  call' \in [Process -> Call \cup {NoCall}]
  <2>1. CASE n <= Len(Items(p))
    <3>1. [call[p] EXCEPT !.phase = "items", !.at = n, !.seen = None, !.tries = 0] \in Call
      BY <1>0 DEF Call, Phase
    <3> QED BY <1>5, <2>1, <3>1 DEF Proceed, TypeOK
  <2>2. CASE ~(n <= Len(Items(p))) /\ call[p].req.op = "direct"
    BY <1>5, <2>2 DEF Proceed, Return, TypeOK
  <2>3. CASE ~(n <= Len(Items(p))) /\ call[p].req.op # "direct"
    BY <1>5, <2>3, <1>4 DEF Proceed, Phase
  <2> QED BY <2>1, <2>2, <2>3
<1> QED BY <1>2, <1>3, <1>4, <1>5 DEF Helper

LEMMA AdvanceIsHelper ==
  ASSUME NEW p \in Process, call[p] \in Call, Advance(p)
  PROVE  Helper(p)
<1>1. call[p].at + 1 \in Nat \ {0}
  BY DEF Call
<1> QED BY <1>1 DEF Advance, Helper

(* A new record keeps the tables well typed.                               *)
LEMMA RecordIsTyped ==
  ASSUME TypeOK, NEW i \in Item, Record(i)
  PROVE  /\ tasks' \in [Task -> TaskRecord \cup {None}]
         /\ deps' \subseteq Task \X Task
         /\ conflicts' \in [SUBSET Task -> Reason \cup {None}]
<1>1. CASE i \in TaskItem
  <2>1. i.kind = "task" /\ i.id \in Task /\ [intent |-> i.intent, state |-> i.state] \in TaskRecord
    BY <1>1 DEF TaskItem, TaskRecord, TaskState
  <2>2. /\ tasks' = [tasks EXCEPT ![i.id] = [intent |-> i.intent, state |-> i.state]]
        /\ deps' = deps /\ conflicts' = conflicts
    BY <2>1 DEF Record
  <2> QED BY <2>1, <2>2 DEF TypeOK
<1>2. CASE i \in DependencyItem
  <2>1. i.kind = "dependency" /\ i.task \in Task /\ i.on \in Task
    BY <1>2 DEF DependencyItem
  <2>2. deps' = deps \cup {<<i.task, i.on>>} /\ tasks' = tasks /\ conflicts' = conflicts
    BY <2>1 DEF Record, WithDependency
  <2>3. <<i.task, i.on>> \in Task \X Task
    BY <2>1
  <2>4. deps' \subseteq Task \X Task
    BY <2>2, <2>3 DEF TypeOK
  <2> QED BY <2>2, <2>4 DEF TypeOK
<1>3. CASE i \in ConflictItem
  <2>1. i.kind = "conflict" /\ i.ends \in SUBSET Task /\ i.reason \in Reason
    BY <1>3 DEF ConflictItem
  <2>2. /\ conflicts' = [conflicts EXCEPT ![i.ends] = i.reason]
        /\ UNCHANGED <<tasks, deps>>
    BY <2>1 DEF Record
  <2> QED BY <2>1, <2>2 DEF TypeOK
<1> QED BY <1>1, <1>2, <1>3 DEF Item

AtAnItem == \A p \in Process : In(p, "items") => call[p].at \in 1..Len(Items(p))

LEMMA StepIsTyped ==
  ASSUME TypeOK, AtAnItem, [Next]_vars
  PROVE  TypeOK'
<1> SUFFICES ASSUME Next PROVE TypeOK'
  BY DEF TypeOK, vars
<1>1. ASSUME NEW p \in Process, Begin(p)
      PROVE  TypeOK'
  <2>1. PICK r \in Requests :
          call' = [call EXCEPT ![p] =
                     [req |-> r, phase |-> IF r.op = "direct" THEN "items" ELSE "receipt",
                      at |-> 1, seen |-> None, tries |-> 0]]
    BY <1>1 DEF Begin
  <2>2. 0 \in 0..MaxTries
    BY BoundsAssumption
  <2>3. [req |-> r, phase |-> IF r.op = "direct" THEN "items" ELSE "receipt",
         at |-> 1, seen |-> None, tries |-> 0] \in Call
    BY <2>2 DEF Call, Phase
  <2>4. UNCHANGED <<ledger, plan, plans>>
    BY <1>1 DEF Begin
  <2> QED BY <2>1, <2>3, <2>4 DEF TypeOK, ledger
<1>2. ASSUME NEW p \in Process, call[p] \in Call, Helper(p), UNCHANGED <<ledger, plan, plans>>
      PROVE  TypeOK'
  <2>1. call' \in [Process -> Call \cup {NoCall}]
    BY <1>2, HelperIsTyped
  <2> QED BY <1>2, <2>1 DEF TypeOK, ledger
<1>3. ASSUME NEW p \in Process, CheckReceipt(p)
      PROVE  TypeOK'
  <2>1. call[p] \in Call
    BY <1>3, CallIsTyped DEF CheckReceipt, Phase
  <2>2. Helper(p)
    BY <1>3 DEF CheckReceipt, Helper, Phase
  <2> QED BY <1>2, <1>3, <2>1, <2>2 DEF CheckReceipt
<1>4. ASSUME NEW p \in Process, SurveyTasks(p)
      PROVE  TypeOK'
  <2>1. call[p] \in Call
    BY <1>4, CallIsTyped DEF SurveyTasks, Phase
  <2>2. Helper(p)
    BY <1>4 DEF SurveyTasks, Helper, Phase
  <2> QED BY <1>2, <1>4, <2>1, <2>2 DEF SurveyTasks
<1>5. ASSUME NEW p \in Process, SurveyConflicts(p)
      PROVE  TypeOK'
  <2>1. call[p] \in Call
    BY <1>5, CallIsTyped DEF SurveyConflicts, Phase
  <2>2. Helper(p)
    BY <1>5 DEF SurveyConflicts, Helper, Phase
  <2> QED BY <1>2, <1>5, <2>1, <2>2 DEF SurveyConflicts
<1>6. ASSUME NEW p \in Process, ReadReservation(p)
      PROVE  TypeOK'
  <2>1. call[p] \in Call
    BY <1>6, CallIsTyped DEF ReadReservation, Phase
  <2>2. Helper(p)
    BY <1>6 DEF ReadReservation, Helper
  <2> QED BY <1>2, <1>6, <2>1, <2>2 DEF ReadReservation
<1>7. ASSUME NEW p \in Process, ReadItem(p)
      PROVE  TypeOK'
  <2>1. call[p] \in Call
    BY <1>7, CallIsTyped DEF ReadItem, Phase
  <2>2. Helper(p)
    BY <1>7, <2>1, AdvanceIsHelper DEF ReadItem, Helper
  <2> QED BY <1>2, <1>7, <2>1, <2>2 DEF ReadItem
<1>8. ASSUME NEW p \in Process, ReadClose(p)
      PROVE  TypeOK'
  <2>1. call[p] \in Call
    BY <1>8, CallIsTyped DEF ReadClose, Phase
  <2>2. Helper(p)
    BY <1>8 DEF ReadClose, Helper
  <2> QED BY <1>2, <1>8, <2>1, <2>2 DEF ReadClose
<1>9. ASSUME NEW p \in Process, Retry(p)
      PROVE  TypeOK'
  <2>1. call[p] \in Call
    BY <1>9 DEF Retry, TypeOK
  <2>2. CASE call[p].tries + 1 < MaxTries
    <3>1. call[p].tries + 1 \in 0..MaxTries
      BY <2>1, <2>2, BoundsAssumption DEF Call
    <3>2. [call[p] EXCEPT !.seen = None, !.tries = call[p].tries + 1] \in Call
      BY <2>1, <3>1 DEF Call
    <3>3. call' = [call EXCEPT ![p] = [call[p] EXCEPT !.seen = None, !.tries = call[p].tries + 1]]
      BY <1>9, <2>2 DEF Retry
    <3> QED BY <1>9, <3>2, <3>3 DEF Retry, TypeOK, ledger
  <2>3. CASE ~(call[p].tries + 1 < MaxTries)
    <3>1. Helper(p)
      BY <1>9, <2>1, <2>3, AdvanceIsHelper DEF Retry, Helper
    <3> QED BY <1>2, <1>9, <2>1, <3>1 DEF Retry
  <2> QED BY <2>2, <2>3
<1>10. ASSUME NEW p \in Process, Crash(p)
       PROVE  TypeOK'
  <2>1. call[p] \in Call
    BY <1>10 DEF Crash, TypeOK
  <2> QED BY <1>2, <1>10, <2>1 DEF Crash, Helper
<1>11. ASSUME NEW p \in Process, call[p] \in Call, NEW state \in {"reserved", "completed"},
              SetReceipt(p, state)
       PROVE  receipts' \in [Importer \X Label -> Receipt \cup {None}]
  <2>1. [doc |-> call[p].req.doc, state |-> state] \in Receipt
    BY <1>11, RequestsAssumption DEF Call, Request, Receipt, PlanReceipt, FrogReceipt
  <2> QED BY <1>11, <2>1 DEF SetReceipt, TypeOK
<1>12. ASSUME NEW p \in Process, Commits(p)
       PROVE  head' \in 0..MaxHead
  BY <1>12, BoundsAssumption DEF Commits, TypeOK
<1>13. ASSUME NEW p \in Process, AppendReservation(p)
       PROVE  TypeOK'
  <2>1. call[p] \in Call
    BY <1>13, CallIsTyped DEF AppendReservation, Phase
  <2>2. Helper(p)
    BY <1>13 DEF AppendReservation, Helper
  <2>3. call' \in [Process -> Call \cup {NoCall}]
    BY <2>1, <2>2, HelperIsTyped
  <2>4. receipts' \in [Importer \X Label -> Receipt \cup {None}]
    BY <1>11, <1>13, <2>1 DEF AppendReservation
  <2>5. head' \in 0..MaxHead
    BY <1>12, <1>13 DEF AppendReservation
  <2> QED BY <1>13, <2>3, <2>4, <2>5 DEF AppendReservation, TypeOK
<1>14. ASSUME NEW p \in Process, AppendClose(p)
       PROVE  TypeOK'
  <2>1. call[p] \in Call
    BY <1>14, CallIsTyped DEF AppendClose, Phase
  <2>2. Helper(p)
    BY <1>14 DEF AppendClose, Helper
  <2>3. call' \in [Process -> Call \cup {NoCall}]
    BY <2>1, <2>2, HelperIsTyped
  <2>4. receipts' \in [Importer \X Label -> Receipt \cup {None}]
    BY <1>11, <1>14, <2>1 DEF AppendClose
  <2>5. head' \in 0..MaxHead
    BY <1>12, <1>14 DEF AppendClose
  <2> QED BY <1>14, <2>3, <2>4, <2>5 DEF AppendClose, TypeOK
<1>15. ASSUME NEW p \in Process, AppendItem(p)
       PROVE  TypeOK'
  <2>1. call[p] \in Call
    BY <1>15, CallIsTyped DEF AppendItem, Phase
  <2>2. call[p].req \in Requests
    BY <2>1 DEF Call
  <2>3. Current(p) \in Item
    BY <1>15, <2>2, ItemsAreTyped DEF AtAnItem, AppendItem, Current, Items
  <2>4. /\ tasks' \in [Task -> TaskRecord \cup {None}]
        /\ deps' \subseteq Task \X Task
        /\ conflicts' \in [SUBSET Task -> Reason \cup {None}]
    BY <1>15, <2>3, RecordIsTyped DEF AppendItem
  <2>5. call' \in [Process -> Call \cup {NoCall}]
    BY <1>15, <2>1, AdvanceIsHelper, HelperIsTyped DEF AppendItem
  <2>6. head' \in 0..MaxHead
    BY <1>12, <1>15 DEF AppendItem
  <2> QED BY <1>15, <2>4, <2>5, <2>6 DEF AppendItem, TypeOK
<1>16. ASSUME NEW t \in Task, MoveTask(t)
       PROVE  TypeOK'
  <2>1. head' \in 0..MaxHead
    BY <1>16, BoundsAssumption DEF MoveTask, TypeOK
  <2>2. PICK to \in TaskState : tasks' = [tasks EXCEPT ![t].state = to]
    BY <1>16 DEF MoveTask
  <2>3. tasks[t] \in TaskRecord
    BY <1>16 DEF MoveTask, Exists, TypeOK
  <2>4. [tasks[t] EXCEPT !.state = to] \in TaskRecord
    BY <2>3 DEF TaskRecord
  <2>5. tasks' \in [Task -> TaskRecord \cup {None}]
    BY <2>2, <2>4 DEF TypeOK
  <2> QED BY <1>16, <2>1, <2>5 DEF MoveTask, TypeOK
<1>17. ASSUME Planning
       PROVE  TypeOK'
  <2>1. NoPlan \in Plan
    BY DEF NoPlan, PlanState, Plan
  <2>2. CASE PlanTasks
    <3>1. [t \in Task |-> IF Exists(t) THEN tasks[t].state ELSE None]
            \in [Task -> TaskState \cup {None}]
      BY DEF Exists, TypeOK, TaskRecord
    <3>2. plan' \in Plan
      BY <2>2, <3>1 DEF PlanTasks, TypeOK, PlanState, Plan, Rivalries
    <3>3. plans' \in 0..MaxPlans
      BY <2>2, BoundsAssumption DEF PlanTasks, TypeOK
    <3> QED BY <2>2, <3>2, <3>3 DEF PlanTasks, TypeOK, ledger
  <2>3. CASE PlanDependencies
    <3>1. plan' \in Plan
      BY <2>1, <2>3 DEF PlanDependencies, TypeOK, PlanState, Plan
    <3> QED BY <2>3, <3>1 DEF PlanDependencies, TypeOK, ledger
  <2>4. CASE PlanConflicts
    BY <2>1, <2>4 DEF PlanConflicts, TypeOK, ledger
  <2> QED BY <1>17, <2>2, <2>3, <2>4 DEF Planning
<1> QED BY <1>1, <1>3, <1>4, <1>5, <1>6, <1>7, <1>8, <1>9, <1>10, <1>13, <1>14, <1>15,
           <1>16, <1>17 DEF Next, Work

-----------------------------------------------------------------------------
(* What a call knows of the ledger.                                        *)

ItemsOfCall(c) == ItemsOf[c.req.doc]
SourceOfCall(c) == <<c.req.op, c.req.label>>

(* The judgement a call made of what it read.                              *)
AsRead(c) ==
  /\ c.phase = "items" => Addable(ItemsOfCall(c)[c.at])
  /\ c.phase = "reserve" => receipts[SourceOfCall(c)] = None
  /\ c.phase = "close" =>
       LET old == receipts[SourceOfCall(c)]
       IN  old = None \/ (old.doc = c.req.doc /\ old.state = "reserved")

Facts(c) ==
  /\ c.phase # "items" => c.req.op \in Importer
  /\ c.phase = "items" =>
       /\ c.at \in 1..Len(ItemsOfCall(c))
       /\ c.req.op \in Importer =>
            \A n \in 1..Len(ItemsOfCall(c)) : n < c.at => Present(ItemsOfCall(c)[n])
  /\ c.phase = "close" => \A n \in 1..Len(ItemsOfCall(c)) : Present(ItemsOfCall(c)[n])
  /\ c.seen # None => c.seen <= head
  /\ c.seen = head => AsRead(c)

Knows == \A p \in Process : \A c \in Call : call[p] = c => Facts(c)

LEMMA CallItemsAreTyped ==
  ASSUME NEW c \in Call
  PROVE  /\ Len(ItemsOfCall(c)) \in Nat
         /\ DOMAIN ItemsOfCall(c) = 1..Len(ItemsOfCall(c))
         /\ \A n \in 1..Len(ItemsOfCall(c)) : ItemsOfCall(c)[n] \in Item
         /\ c.req.op = "direct" => Len(ItemsOfCall(c)) = 1
<1>1. c.req \in Requests
  BY DEF Call
<1> QED BY <1>1, ItemsAreTyped, RequestsAssumption DEF ItemsOfCall

LEMMA KnownItems ==
  ASSUME TypeOK, Knows
  PROVE  AtAnItem
<1> SUFFICES ASSUME NEW p \in Process, In(p, "items")
             PROVE  call[p].at \in 1..Len(Items(p))
  BY DEF AtAnItem
<1>1. call[p] \in Call
  BY CallIsTyped DEF Phase
<1> QED BY <1>1 DEF Knows, Facts, ItemsOfCall, Items, In

(* What a call knows stays so while the ledger rests, and when it grows    *)
(* the head the call has read is no longer the head.                       *)
LEMMA FactsRest ==
  ASSUME NEW c \in Call, Facts(c), UNCHANGED ledger
  PROVE  Facts(c)'
<1>1. tasks' = tasks /\ deps' = deps /\ conflicts' = conflicts /\ receipts' = receipts
      /\ head' = head
  BY DEF ledger
<1>2. \A i : Present(i)' = Present(i) /\ Addable(i)' = Addable(i)
  BY <1>1 DEF Present, Addable, Exists, WithDependency, Reaches, Closed
<1> QED BY <1>1, <1>2 DEF Facts, AsRead, ItemsOfCall, SourceOfCall

LEMMA FactsGrow ==
  ASSUME TypeOK, NEW c \in Call, Facts(c), head' = head + 1,
         \A i \in Item : Present(i) => Present(i)'
  PROVE  Facts(c)'
<1>1. head \in Nat /\ None \notin Nat /\ c.seen \in Nat \cup {None}
  BY BoundsAssumption DEF TypeOK, Call
<1>2. c.seen # None => c.seen <= head' /\ c.seen # head'
  BY <1>1 DEF Facts
<1>3. c.seen # head'
  BY <1>1, <1>2
<1>4. \A n \in 1..Len(ItemsOfCall(c)) : ItemsOfCall(c)[n] \in Item
  BY CallItemsAreTyped
<1>5. \A n \in 1..Len(ItemsOfCall(c)) :
        Present(ItemsOfCall(c)[n]) => Present(ItemsOfCall(c)[n])'
  BY <1>4
<1> QED BY <1>2, <1>3, <1>5 DEF Facts, ItemsOfCall

(* A new record takes nothing away.                                        *)
LEMMA RecordKeeps ==
  ASSUME TypeOK, NEW i \in Item, Addable(i), Record(i)
  PROVE  /\ \A j \in Item : Present(j) => Present(j)'
         /\ Present(i)'
         /\ \A t \in Task : Exists(t) => tasks'[t] = tasks[t]
<1>1. CASE i \in TaskItem
  <2>1. i.kind = "task" /\ i.id \in Task /\ [intent |-> i.intent, state |-> i.state] \in TaskRecord
    BY <1>1 DEF TaskItem, TaskRecord, TaskState
  <2>2. /\ tasks' = [tasks EXCEPT ![i.id] = [intent |-> i.intent, state |-> i.state]]
        /\ deps' = deps /\ conflicts' = conflicts /\ ~Exists(i.id)
    BY <2>1 DEF Record, Addable
  <2>3. tasks'[i.id] = [intent |-> i.intent, state |-> i.state] /\ tasks'[i.id] # None
    BY <2>1, <2>2, BoundsAssumption DEF TypeOK
  <2>4. \A t \in Task : Exists(t) => tasks'[t] = tasks[t]
    BY <2>1, <2>2 DEF TypeOK, Exists
  <2>5. ASSUME NEW j \in Item, Present(j) PROVE Present(j)'
    <3>1. CASE j \in TaskItem
      BY <3>1, <2>4, <2>5 DEF TaskItem, Present, Exists
    <3>2. CASE j \notin TaskItem
      BY <3>2, <2>2, <2>5 DEF Item, DependencyItem, ConflictItem, Present
    <3> QED BY <3>1, <3>2
  <2>6. Present(i)'
    BY <2>1, <2>3 DEF Present, Exists
  <2> QED BY <2>4, <2>5, <2>6
<1>2. CASE i \in DependencyItem
  <2>1. i.kind = "dependency"
    BY <1>2 DEF DependencyItem
  <2>2. deps' = deps \cup {<<i.task, i.on>>} /\ tasks' = tasks /\ conflicts' = conflicts
    BY <2>1 DEF Record, WithDependency
  <2>3. \A j \in Item : Present(j) => Present(j)'
    BY <2>2 DEF Item, TaskItem, DependencyItem, ConflictItem, Present, Exists
  <2> QED BY <2>1, <2>2, <2>3 DEF Present
<1>3. CASE i \in ConflictItem
  <2>1. i.kind = "conflict" /\ i.ends \in SUBSET Task /\ i.reason \in Reason
    BY <1>3 DEF ConflictItem
  <2>2. /\ conflicts' = [conflicts EXCEPT ![i.ends] = i.reason]
        /\ tasks' = tasks /\ deps' = deps /\ conflicts[i.ends] = None
    BY <2>1 DEF Record, Addable
  <2>3. conflicts'[i.ends] = i.reason
    BY <2>1, <2>2 DEF TypeOK
  <2>4. ASSUME NEW j \in Item, Present(j) PROVE Present(j)'
    <3>1. CASE j \in ConflictItem
      <4>1. j.kind = "conflict" /\ j.ends \in SUBSET Task /\ j.reason \in Reason
        BY <3>1 DEF ConflictItem
      <4>2. conflicts[j.ends] # None
        BY <2>4, <4>1, BoundsAssumption DEF Present
      <4>3. conflicts'[j.ends] = conflicts[j.ends]
        BY <2>1, <2>2, <4>1, <4>2 DEF TypeOK
      <4> QED BY <2>4, <4>1, <4>3 DEF Present
    <3>2. CASE j \notin ConflictItem
      BY <3>2, <2>2, <2>4 DEF Item, TaskItem, DependencyItem, Present, Exists
    <3> QED BY <3>1, <3>2
  <2> QED BY <2>1, <2>2, <2>3, <2>4 DEF Present
<1> QED BY <1>1, <1>2, <1>3 DEF Item

-----------------------------------------------------------------------------
(* The ledger moves in three ways only, each with the judgement that       *)
(* allowed it still true of the ledger it is appended to.                  *)

GrowsBy(i) ==
  /\ Addable(i) /\ Record(i)
  /\ head' = head + 1 /\ receipts' = receipts

Moved(t) ==
  /\ Exists(t)
  /\ \E to \in TaskState :
       /\ <<tasks[t].state, to>> \in Moves
       /\ tasks' = [tasks EXCEPT ![t].state = to]
  /\ head' = head + 1
  /\ deps' = deps /\ conflicts' = conflicts /\ receipts' = receipts

Receipted(source, r) ==
  /\ receipts' = [receipts EXCEPT ![source] = r]
  /\ \/ receipts[source] = None
     \/ receipts[source].doc = r.doc /\ receipts[source].state = "reserved"
  /\ r.state = "completed" => \A n \in DOMAIN ItemsOf[r.doc] : Present(ItemsOf[r.doc][n])
  /\ head' = head + 1
  /\ tasks' = tasks /\ deps' = deps /\ conflicts' = conflicts

LedgerMoves ==
  \/ UNCHANGED ledger
  \/ \E i \in Item : GrowsBy(i)
  \/ \E t \in Task : Moved(t)
  \/ \E source \in Importer \X Label, r \in Receipt : Receipted(source, r)

LEMMA CommitKnows ==
  ASSUME TypeOK, Knows, NEW p \in Process, call[p] \in Call, Commits(p)
  PROVE  Facts(call[p]) /\ AsRead(call[p])
<1>1. Facts(call[p])
  BY DEF Knows
<1> QED BY <1>1 DEF Facts, Commits, HeadUnmoved

LEMMA ItemGrows ==
  ASSUME TypeOK, Knows, NEW p \in Process, AppendItem(p)
  PROVE  /\ call[p] \in Call
         /\ Current(p) \in Item
         /\ GrowsBy(Current(p))
<1>1. call[p] \in Call
  BY CallIsTyped DEF AppendItem, Phase
<1>2. call[p].phase = "items" /\ Commits(p)
  BY DEF AppendItem, In
<1>3. Facts(call[p]) /\ AsRead(call[p])
  BY <1>1, <1>2, CommitKnows
<1>4. Current(p) = ItemsOfCall(call[p])[call[p].at]
  BY DEF Current, Items, ItemsOfCall
<1>5. Current(p) \in Item
  BY <1>1, <1>2, <1>3, <1>4, CallItemsAreTyped DEF Facts
<1>6. Addable(Current(p))
  BY <1>2, <1>3, <1>4 DEF AsRead
<1>7. Record(Current(p)) /\ head' = head + 1 /\ receipts' = receipts
  BY <1>2 DEF AppendItem, Commits
<1> QED BY <1>1, <1>5, <1>6, <1>7 DEF GrowsBy

LEMMA ReservationMoves ==
  ASSUME TypeOK, Knows, NEW p \in Process, AppendReservation(p)
  PROVE  \E source \in Importer \X Label, r \in Receipt : Receipted(source, r)
<1>1. call[p] \in Call
  BY CallIsTyped DEF AppendReservation, Phase
<1>2. call[p].phase = "reserve" /\ Commits(p) /\ SetReceipt(p, "reserved")
  BY DEF AppendReservation, In
<1>3. Facts(call[p]) /\ AsRead(call[p])
  BY <1>1, <1>2, CommitKnows
<1> DEFINE r == [doc |-> call[p].req.doc, state |-> "reserved"]
<1>4. call[p].req \in Request /\ call[p].req.op \in Importer
  BY <1>1, <1>2, <1>3, RequestsAssumption DEF Call, Facts
<1>5. Source(p) \in Importer \X Label /\ r \in Receipt
  BY <1>4 DEF Request, Source, Receipt, PlanReceipt, FrogReceipt
<1>6. Receipted(Source(p), r)
  BY <1>2, <1>3 DEF Receipted, SetReceipt, AsRead, SourceOfCall, Source, Commits,
                    AppendReservation
<1> QED BY <1>5, <1>6

LEMMA CloseMoves ==
  ASSUME TypeOK, Knows, NEW p \in Process, AppendClose(p)
  PROVE  \E source \in Importer \X Label, r \in Receipt : Receipted(source, r)
<1>1. call[p] \in Call
  BY CallIsTyped DEF AppendClose, Phase
<1>2. call[p].phase = "close" /\ Commits(p) /\ SetReceipt(p, "completed")
  BY DEF AppendClose, In
<1>3. Facts(call[p]) /\ AsRead(call[p])
  BY <1>1, <1>2, CommitKnows
<1> DEFINE r == [doc |-> call[p].req.doc, state |-> "completed"]
<1>4. call[p].req \in Request /\ call[p].req.op \in Importer
  BY <1>1, <1>2, <1>3, RequestsAssumption DEF Call, Facts
<1>5. Source(p) \in Importer \X Label /\ r \in Receipt
  BY <1>4 DEF Request, Source, Receipt, PlanReceipt, FrogReceipt
<1>6. \A n \in DOMAIN ItemsOf[r.doc] : Present(ItemsOf[r.doc][n])
  BY <1>1, <1>2, <1>3, CallItemsAreTyped DEF Facts, ItemsOfCall
<1>7. \/ receipts[Source(p)] = None
      \/ receipts[Source(p)].doc = r.doc /\ receipts[Source(p)].state = "reserved"
  BY <1>2, <1>3 DEF AsRead, SourceOfCall, Source
<1>8. /\ receipts' = [receipts EXCEPT ![Source(p)] = r]
      /\ head' = head + 1 /\ tasks' = tasks /\ deps' = deps /\ conflicts' = conflicts
  BY <1>2 DEF SetReceipt, Commits, AppendClose
<1>9. Receipted(Source(p), r)
  BY <1>6, <1>7, <1>8 DEF Receipted
<1> QED BY <1>5, <1>9

LEMMA StepMovesLedger ==
  ASSUME TypeOK, Knows, [Next]_vars
  PROVE  LedgerMoves
<1> SUFFICES ASSUME Next PROVE LedgerMoves
  BY DEF vars, ledger, LedgerMoves
<1>1. ASSUME NEW p \in Process, AppendItem(p) PROVE LedgerMoves
  BY <1>1, ItemGrows DEF LedgerMoves
<1>2. ASSUME NEW p \in Process, AppendReservation(p) PROVE LedgerMoves
  BY <1>2, ReservationMoves DEF LedgerMoves
<1>3. ASSUME NEW p \in Process, AppendClose(p) PROVE LedgerMoves
  BY <1>3, CloseMoves DEF LedgerMoves
<1>4. ASSUME NEW t \in Task, MoveTask(t) PROVE LedgerMoves
  BY <1>4 DEF MoveTask, Moved, LedgerMoves
<1>5. ASSUME NEW p \in Process, Begin(p) \/ Crash(p) \/ CheckReceipt(p) \/ SurveyTasks(p)
               \/ SurveyConflicts(p) \/ ReadReservation(p) \/ ReadItem(p) \/ ReadClose(p)
               \/ Retry(p)
      PROVE  UNCHANGED ledger
  BY <1>5 DEF Begin, Crash, CheckReceipt, SurveyTasks, SurveyConflicts, ReadReservation,
              ReadItem, ReadClose, Retry
<1>6. ASSUME Planning PROVE UNCHANGED ledger
  BY <1>6 DEF Planning, PlanTasks, PlanDependencies, PlanConflicts
<1> QED BY <1>1, <1>2, <1>3, <1>4, <1>5, <1>6 DEF Next, Work, LedgerMoves

(* What is there stays there: a task moves, its intent does not.           *)
LEMMA ItemsStay ==
  ASSUME TypeOK, LedgerMoves
  PROVE  \A j \in Item : Present(j) => Present(j)'
<1>1. CASE UNCHANGED ledger
  BY <1>1 DEF ledger, Present, Exists
<1>2. ASSUME NEW i \in Item, GrowsBy(i)
      PROVE  \A j \in Item : Present(j) => Present(j)'
  BY <1>2, RecordKeeps DEF GrowsBy
<1>3. ASSUME NEW t \in Task, Moved(t)
      PROVE  \A j \in Item : Present(j) => Present(j)'
  <2>1. PICK to \in TaskState : tasks' = [tasks EXCEPT ![t].state = to]
    BY <1>3 DEF Moved
  <2>2. tasks[t] \in TaskRecord
    BY <1>3 DEF Moved, Exists, TypeOK
  <2>3. tasks'[t] # None /\ tasks'[t].intent = tasks[t].intent
    <3>1. tasks'[t] = [tasks[t] EXCEPT !.state = to]
      BY <2>1 DEF TypeOK
    <3>2. [tasks[t] EXCEPT !.state = to] \in TaskRecord
      BY <2>2 DEF TaskRecord
    <3> QED BY <2>2, <3>1, <3>2, BoundsAssumption DEF TaskRecord
  <2>4. \A u \in Task : Exists(u) => tasks'[u] # None /\ tasks'[u].intent = tasks[u].intent
    BY <2>1, <2>3 DEF TypeOK, Exists
  <2>5. deps' = deps /\ conflicts' = conflicts
    BY <1>3 DEF Moved
  <2> QED BY <2>4, <2>5 DEF Item, TaskItem, DependencyItem, ConflictItem, Present, Exists
<1>4. ASSUME NEW source, NEW r, Receipted(source, r)
      PROVE  \A j \in Item : Present(j) => Present(j)'
  BY <1>4 DEF Receipted, Present, Exists
<1> QED BY <1>1, <1>2, <1>3, <1>4 DEF LedgerMoves

LEMMA FactsStay ==
  ASSUME TypeOK, LedgerMoves, NEW c \in Call, Facts(c)
  PROVE  Facts(c)'
<1>1. CASE UNCHANGED ledger
  BY <1>1, FactsRest
<1>2. CASE head' = head + 1
  <2>1. \A j \in Item : Present(j) => Present(j)'
    BY ItemsStay
  <2> QED BY <1>2, <2>1, FactsGrow
<1> QED BY <1>1, <1>2 DEF LedgerMoves, GrowsBy, Moved, Receipted

-----------------------------------------------------------------------------
(* Knowledge is kept: what a step leaves of the call of its process is     *)
(* again known, and what the other calls know stays so.                    *)

LEMMA EnterKnows ==
  ASSUME TypeOK, LedgerMoves, NEW p \in Process, call[p] \in Call,
         call[p].req.op \in Importer,
         NEW phase \in Phase \ {"items"}, Enter(p, phase),
         NEW list, list = Items(p),
         phase = "close" => \A n \in 1..Len(list) : Present(list[n])',
         NEW c \in Call, call'[p] = c
  PROVE  Facts(c)'
<1>1. c = [call[p] EXCEPT !.phase = phase, !.seen = None, !.tries = 0]
  BY DEF Enter, TypeOK
<1>2. c.phase = phase /\ c.seen = None /\ c.req = call[p].req
  BY <1>1 DEF Call
<1>3. head' \in Nat /\ None \notin Nat
  BY BoundsAssumption DEF LedgerMoves, ledger, GrowsBy, Moved, Receipted, TypeOK
<1>4. ItemsOfCall(c) = list
  BY <1>2 DEF ItemsOfCall, Items
<1>5. c.phase = "close" => \A n \in 1..Len(ItemsOfCall(c)) : Present(ItemsOfCall(c)[n])'
  BY <1>2, <1>4
<1>6. c.seen # head' /\ c.phase # "items"
  BY <1>2, <1>3
<1> QED BY <1>2, <1>5, <1>6 DEF Facts, ItemsOfCall

LEMMA ProceedKnows ==
  ASSUME TypeOK, LedgerMoves, NEW p \in Process, call[p] \in Call,
         NEW n \in Nat \ {0}, Proceed(p, n),
         call[p].req.op = "direct" => n > Len(Items(p)),
         NEW list, list = Items(p),
         call[p].req.op \in Importer => \A m \in 1..Len(list) : m < n => Present(list[m])',
         NEW c \in Call, call'[p] = c
  PROVE  Facts(c)'
<1>0. Len(Items(p)) \in Nat /\ call[p].req.op \in Importer \cup {"direct"}
  BY CallItemsAreTyped, RequestsAssumption DEF ItemsOfCall, Items, Call, Request
<1>1. CASE n <= Len(Items(p))
  <2>1. c = [call[p] EXCEPT !.phase = "items", !.at = n, !.seen = None, !.tries = 0]
    BY <1>1 DEF Proceed, TypeOK
  <2>2. c.phase = "items" /\ c.at = n /\ c.seen = None /\ c.req = call[p].req
    BY <2>1 DEF Call
  <2>3. head' \in Nat /\ None \notin Nat
    BY BoundsAssumption DEF LedgerMoves, ledger, GrowsBy, Moved, Receipted, TypeOK
  <2>4. ItemsOfCall(c) = list
    BY <2>2 DEF ItemsOfCall, Items
  <2>5. c.req.op \in Importer =>
          \A m \in 1..Len(ItemsOfCall(c)) : m < c.at => Present(ItemsOfCall(c)[m])'
    BY <2>2, <2>4
  <2>6. c.seen # head' /\ c.at \in 1..Len(ItemsOfCall(c))
    BY <1>0, <1>1, <2>2, <2>3, <2>4
  <2> QED BY <2>2, <2>5, <2>6 DEF Facts, ItemsOfCall
<1>2. CASE ~(n <= Len(Items(p))) /\ call[p].req.op = "direct"
  BY <1>2 DEF Proceed, Return, TypeOK, NoCall, Call, Phase
<1>3. CASE ~(n <= Len(Items(p))) /\ call[p].req.op # "direct"
  <2>1. Enter(p, "close")
    BY <1>3 DEF Proceed
  <2>2. \A m \in 1..Len(list) : Present(list[m])'
    <3> SUFFICES ASSUME NEW m \in 1..Len(list) PROVE Present(list[m])'
      OBVIOUS
    <3>1. m < n
      BY <1>0, <1>3
    <3> QED BY <1>0, <1>3, <3>1
  <2>3. call[p].req.op \in Importer /\ "close" \in Phase \ {"items"}
    BY <1>0, <1>3 DEF Phase
  <2> QED BY <2>1, <2>2, <2>3, EnterKnows
<1> QED BY <1>1, <1>2, <1>3
LEMMA AdvanceKnows ==
  ASSUME TypeOK, Knows, LedgerMoves, NEW p \in Process, call[p] \in Call,
         In(p, "items"), Advance(p),
         NEW item, item = Current(p),
         call[p].req.op \in Importer => Present(item)',
         NEW c \in Call, call'[p] = c
  PROVE  Facts(c)'
<1>1. PICK list : list = Items(p)
  OBVIOUS
<1>2. PICK at : at = call[p].at
  OBVIOUS
<1>3. Facts(call[p])
  BY DEF Knows
<1>4. at \in 1..Len(list) /\ item = list[at] /\ Len(list) \in Nat
  BY <1>1, <1>2, <1>3, CallItemsAreTyped DEF Facts, In, ItemsOfCall, Items, Current
<1>5. ASSUME call[p].req.op \in Importer, NEW m \in 1..Len(list), m < at + 1
      PROVE  Present(list[m])'
  <2>1. list[m] \in Item
    BY <1>1, CallItemsAreTyped DEF ItemsOfCall, Items
  <2>2. CASE m < at
    <3>1. Present(list[m])
      BY <1>1, <1>2, <1>3, <1>5, <2>2 DEF Facts, In, ItemsOfCall, Items
    <3> QED BY <2>1, <3>1, ItemsStay
  <2>3. CASE m = at
    BY <1>4, <1>5, <2>3
  <2> QED BY <1>4, <1>5, <2>2, <2>3
<1>6. call[p].req.op = "direct" => at + 1 > Len(Items(p))
  BY <1>1, <1>4, CallItemsAreTyped DEF ItemsOfCall, Items
<1>7. Proceed(p, at + 1) /\ at + 1 \in Nat \ {0}
  BY <1>2, <1>4 DEF Advance
<1> QED BY <1>1, <1>5, <1>6, <1>7, ProceedKnows

(* A read: the call remembers the head and what it judged by it.           *)
LEMMA LookKnows ==
  ASSUME TypeOK, Knows, NEW p \in Process, call[p] \in Call, Look(p),
         AsRead(call[p]), UNCHANGED ledger,
         NEW c \in Call, call'[p] = c
  PROVE  Facts(c)'
<1>1. c = [call[p] EXCEPT !.seen = head]
  BY DEF Look, TypeOK
<1>2. /\ c.req = call[p].req /\ c.phase = call[p].phase /\ c.at = call[p].at
      /\ c.seen = head
  BY <1>1 DEF Call
<1>3. Facts(call[p])
  BY DEF Knows
<1>4. head \in Nat
  BY DEF TypeOK
<1>5. AsRead(c)
  BY <1>2 DEF AsRead, ItemsOfCall, SourceOfCall
<1>6. Facts(c)
  BY <1>2, <1>3, <1>4, <1>5 DEF Facts, ItemsOfCall
<1> QED BY <1>6, FactsRest

LEMMA ReturnKnows ==
  ASSUME TypeOK, NEW p \in Process, Return(p), NEW c \in Call
  PROVE  call'[p] # c
BY DEF Return, TypeOK, NoCall, Call, Phase

(* A step of one process touches its own call only.                        *)
OwnCall(p) == \A q \in Process \ {p} : call'[q] = call[q]

LEMMA HelpersOwn ==
  ASSUME TypeOK, NEW p \in Process, call[p] \in Call, Helper(p)
  PROVE  OwnCall(p)
<1>1. CASE Return(p)
  BY <1>1 DEF OwnCall, Return, TypeOK
<1>2. CASE Look(p)
  BY <1>2 DEF OwnCall, Look, TypeOK
<1>3. ASSUME NEW phase \in Phase, Enter(p, phase) PROVE OwnCall(p)
  BY <1>3 DEF OwnCall, Enter, TypeOK
<1>4. ASSUME NEW n \in Nat \ {0}, Proceed(p, n) PROVE OwnCall(p)
  BY <1>4 DEF OwnCall, Proceed, Return, Enter, TypeOK
<1> QED BY <1>1, <1>2, <1>3, <1>4 DEF Helper

LEMMA OthersKnow ==
  ASSUME TypeOK, Knows, LedgerMoves, NEW p \in Process, OwnCall(p),
         \A c \in Call : call'[p] = c => Facts(c)'
  PROVE  Knows'
<1> SUFFICES ASSUME NEW q \in Process, NEW c \in Call, call'[q] = c
             PROVE  Facts(c)'
  BY DEF Knows
<1>1. CASE q # p
  <2>1. Facts(c)
    BY <1>1 DEF OwnCall, Knows
  <2> QED BY <2>1, FactsStay
<1> QED BY <1>1
LEMMA FirstKnows ==
  ASSUME TypeOK, LedgerMoves, NEW p \in Process, call[p] \in Call,
         call[p].req.op \in Importer, Proceed(p, 1),
         NEW c \in Call, call'[p] = c
  PROVE  Facts(c)'
<1>1. PICK list : list = Items(p)
  OBVIOUS
<1>2. \A m \in 1..Len(list) : m < 1 => Present(list[m])'
  BY <1>1, CallItemsAreTyped DEF ItemsOfCall, Items
<1>3. call[p].req.op # "direct"
  BY DEF Importer
<1> QED BY <1>1, <1>2, <1>3, ProceedKnows

LEMMA KnowsStep ==
  ASSUME TypeOK, Knows, [Next]_vars
  PROVE  Knows'
<1>0. LedgerMoves
  BY StepMovesLedger
<1>1. CASE call' = call
  <2> SUFFICES ASSUME NEW q \in Process, NEW c \in Call, call'[q] = c
               PROVE  Facts(c)'
    BY DEF Knows
  <2>1. Facts(c)
    BY <1>1 DEF Knows
  <2> QED BY <1>0, <2>1, FactsStay
<1>2. ASSUME NEW p \in Process, call[p] \in Call, Helper(p),
             \A c \in Call : call'[p] = c => Facts(c)'
      PROVE  Knows'
  BY <1>0, <1>2, HelpersOwn, OthersKnow
<1>3. ASSUME NEW p \in Process, call[p] \in Call, Return(p)
      PROVE  Knows'
  BY <1>2, <1>3, ReturnKnows DEF Helper
<1>4. ASSUME NEW p \in Process, call[p] \in Call, call[p].req.op \in Importer,
             NEW phase \in {"tasks", "conflicts", "reserve"}, Enter(p, phase)
      PROVE  Knows'
  <2>1. PICK list : list = Items(p)
    OBVIOUS
  <2>2. phase \in Phase \ {"items"} /\ phase # "close"
    BY DEF Phase
  <2>3. \A c \in Call : call'[p] = c => Facts(c)'
    BY <1>0, <1>4, <2>1, <2>2, EnterKnows
  <2> QED BY <1>2, <1>4, <2>2, <2>3 DEF Helper
<1>5. ASSUME NEW p \in Process, call[p] \in Call, call[p].req.op \in Importer, Proceed(p, 1)
      PROVE  Knows'
  <2>1. \A c \in Call : call'[p] = c => Facts(c)'
    BY <1>0, <1>5, FirstKnows
  <2>2. 1 \in Nat \ {0}
    OBVIOUS
  <2> QED BY <1>2, <1>5, <2>1, <2>2 DEF Helper
<1>6. ASSUME NEW p \in Process, call[p] \in Call, Look(p), AsRead(call[p]), UNCHANGED ledger
      PROVE  Knows'
  BY <1>2, <1>6, LookKnows DEF Helper
<1>7. ASSUME NEW p \in Process, call[p] \in Call, In(p, "items"), Advance(p),
             NEW item, item = Current(p), call[p].req.op \in Importer => Present(item)'
      PROVE  Knows'
  <2>1. \A c \in Call : call'[p] = c => Facts(c)'
    BY <1>0, <1>7, AdvanceKnows
  <2> QED BY <1>2, <1>7, <2>1, AdvanceIsHelper
<1>8. ASSUME NEW p \in Process, call[p] \in Call, call[p].phase # "items"
      PROVE  call[p].req.op \in Importer
  BY <1>8 DEF Knows, Facts
<1>9. ASSUME NEW p \in Process, call[p] \in Call, In(p, "items")
      PROVE  Current(p) \in Item
  <2>1. call[p].at \in 1..Len(ItemsOfCall(call[p]))
    BY <1>9 DEF Knows, Facts, In
  <2> QED BY <1>9, <2>1, CallItemsAreTyped DEF Current, Items, ItemsOfCall
<1>10. ASSUME NEW p \in Process, Begin(p)
       PROVE  Knows'
  <2>1. PICK r \in Requests :
          call' = [call EXCEPT ![p] =
                     [req |-> r, phase |-> IF r.op = "direct" THEN "items" ELSE "receipt",
                      at |-> 1, seen |-> None, tries |-> 0]]
    BY <1>10 DEF Begin
  <2>2. OwnCall(p)
    BY <2>1 DEF OwnCall, TypeOK
  <2>3. ASSUME NEW c \in Call, call'[p] = c PROVE Facts(c)'
    <3>1. c = [req |-> r, phase |-> IF r.op = "direct" THEN "items" ELSE "receipt",
               at |-> 1, seen |-> None, tries |-> 0]
      BY <2>1, <2>3 DEF TypeOK
    <3>2. /\ c.req = r /\ c.at = 1 /\ c.seen = None
          /\ c.phase = "items" <=> r.op = "direct"
          /\ c.phase # "close"
      BY <3>1
    <3>3. r.op \in Importer \cup {"direct"}
      BY RequestsAssumption DEF Request
    <3>4. head' \in Nat /\ None \notin Nat
      BY <1>10, BoundsAssumption DEF Begin, ledger, TypeOK
    <3>5. c.seen # head'
      BY <3>2, <3>4
    <3>6. r.op = "direct" => Len(ItemsOfCall(c)) = 1 /\ r.op \notin Importer
      BY <3>2, CallItemsAreTyped DEF Importer
    <3>7. c.phase # "items" => c.req.op \in Importer
      BY <3>2, <3>3
    <3>8. ASSUME c.phase = "items"
          PROVE  c.at \in 1..Len(ItemsOfCall(c)) /\ c.req.op \notin Importer
      <4>1. r.op = "direct"
        BY <3>1, <3>8
      <4>2. Len(ItemsOfCall(c)) = 1
        BY <3>6, <4>1
      <4>3. c.at \in 1..Len(ItemsOfCall(c))
        BY <3>2, <4>2
      <4> QED BY <3>2, <3>6, <4>1, <4>3
    <3> QED BY <3>2, <3>5, <3>7, <3>8 DEF Facts, ItemsOfCall
  <2> QED BY <1>0, <2>2, <2>3, OthersKnow
<1>11. ASSUME NEW p \in Process, CheckReceipt(p) PROVE Knows'
  <2>1. call[p] \in Call /\ call[p].phase # "items"
    BY <1>11, CallIsTyped DEF CheckReceipt, Phase, In
  <2>2. call[p].req.op \in Importer
    BY <1>8, <2>1
  <2> QED BY <1>11, <1>3, <1>4, <1>5, <2>1, <2>2 DEF CheckReceipt
<1>12. ASSUME NEW p \in Process, SurveyTasks(p) PROVE Knows'
  <2>1. call[p] \in Call /\ call[p].phase # "items"
    BY <1>12, CallIsTyped DEF SurveyTasks, Phase, In
  <2>2. call[p].req.op \in Importer
    BY <1>8, <2>1
  <2> QED BY <1>12, <1>3, <1>4, <2>1, <2>2 DEF SurveyTasks
<1>13. ASSUME NEW p \in Process, SurveyConflicts(p) PROVE Knows'
  <2>1. call[p] \in Call /\ call[p].phase # "items"
    BY <1>13, CallIsTyped DEF SurveyConflicts, Phase, In
  <2>2. call[p].req.op \in Importer
    BY <1>8, <2>1
  <2> QED BY <1>13, <1>3, <1>4, <1>5, <2>1, <2>2 DEF SurveyConflicts
<1>14. ASSUME NEW p \in Process, ReadReservation(p) PROVE Knows'
  <2>1. call[p] \in Call /\ call[p].phase = "reserve"
    BY <1>14, CallIsTyped DEF ReadReservation, Phase, In
  <2>2. call[p].req.op \in Importer
    BY <1>8, <2>1
  <2>3. receipts[Source(p)] = None => AsRead(call[p])
    BY <2>1 DEF AsRead, SourceOfCall, Source
  <2>4. UNCHANGED ledger
    BY <1>14 DEF ReadReservation
  <2> QED BY <1>14, <1>3, <1>5, <1>6, <2>1, <2>2, <2>3, <2>4 DEF ReadReservation
<1>15. ASSUME NEW p \in Process, ReadItem(p) PROVE Knows'
  <2>1. call[p] \in Call /\ call[p].phase = "items"
    BY <1>15, CallIsTyped DEF ReadItem, Phase, In
  <2>2. UNCHANGED ledger
    BY <1>15 DEF ReadItem
  <2>3. CASE Addable(Current(p))
    <3>1. AsRead(call[p])
      BY <2>1, <2>3 DEF AsRead, Current, Items, ItemsOfCall
    <3> QED BY <1>15, <1>6, <2>1, <2>2, <2>3, <3>1 DEF ReadItem
  <2>4. CASE ~Addable(Current(p)) /\ Present(Current(p))
    <3>1. PICK item : item = Current(p)
      OBVIOUS
    <3>2. item \in Item /\ Present(item)
      BY <1>9, <2>1, <2>4, <3>1 DEF In
    <3>3. Present(item)'
      BY <1>0, <3>2, ItemsStay
    <3>4. Advance(p) /\ In(p, "items")
      BY <1>15, <2>4 DEF ReadItem
    <3> QED BY <1>7, <2>1, <3>1, <3>3, <3>4
  <2>5. CASE ~Addable(Current(p)) /\ ~Present(Current(p))
    BY <1>15, <1>3, <2>1, <2>5 DEF ReadItem
  <2> QED BY <2>3, <2>4, <2>5
<1>16. ASSUME NEW p \in Process, ReadClose(p) PROVE Knows'
  <2>1. call[p] \in Call /\ call[p].phase = "close"
    BY <1>16, CallIsTyped DEF ReadClose, Phase, In
  <2>2. UNCHANGED ledger
    BY <1>16 DEF ReadClose
  <2>3. Return(p) \/ (Look(p) /\ AsRead(call[p]))
    BY <1>16, <2>1 DEF ReadClose, AsRead, SourceOfCall, Source
  <2> QED BY <1>3, <1>6, <2>1, <2>2, <2>3
<1>17. ASSUME NEW p \in Process, AppendReservation(p) PROVE Knows'
  <2>1. call[p] \in Call /\ call[p].phase = "reserve"
    BY <1>17, CallIsTyped DEF AppendReservation, Phase, In
  <2>2. call[p].req.op \in Importer
    BY <1>8, <2>1
  <2> QED BY <1>17, <1>5, <2>1, <2>2 DEF AppendReservation
<1>18. ASSUME NEW p \in Process, AppendClose(p) PROVE Knows'
  <2>1. call[p] \in Call
    BY <1>18, CallIsTyped DEF AppendClose, Phase
  <2> QED BY <1>18, <1>3, <2>1 DEF AppendClose
<1>19. ASSUME NEW p \in Process, AppendItem(p) PROVE Knows'
  <2>1. call[p] \in Call /\ Current(p) \in Item /\ GrowsBy(Current(p))
    BY <1>19, ItemGrows
  <2>2. PICK item : item = Current(p)
    OBVIOUS
  <2>3. item \in Item /\ Addable(item) /\ Record(item)
    BY <2>1, <2>2 DEF GrowsBy
  <2>4. Present(item)'
    BY <2>3, RecordKeeps
  <2> QED BY <1>19, <1>7, <2>1, <2>2, <2>4 DEF AppendItem
<1>20. ASSUME NEW p \in Process, Retry(p) PROVE Knows'
  <2>1. call[p] \in Call
    BY <1>20 DEF Retry, TypeOK
  <2>2. CASE call[p].tries + 1 < MaxTries
    <3>1. call' = [call EXCEPT ![p] = [call[p] EXCEPT !.seen = None, !.tries = call[p].tries + 1]]
      BY <1>20, <2>2 DEF Retry
    <3>2. OwnCall(p)
      BY <3>1 DEF OwnCall, TypeOK
    <3>3. ASSUME NEW c \in Call, call'[p] = c PROVE Facts(c)'
      <4>1. c = [call[p] EXCEPT !.seen = None, !.tries = call[p].tries + 1]
        BY <3>1, <3>3 DEF TypeOK
      <4>2. /\ c.req = call[p].req /\ c.phase = call[p].phase /\ c.at = call[p].at
            /\ c.seen = None
        BY <2>1, <4>1 DEF Call
      <4>3. head \in Nat /\ None \notin Nat
        BY BoundsAssumption DEF TypeOK
      <4>4. c.seen # head
        BY <4>2, <4>3
      <4>5. Facts(call[p])
        BY <2>1 DEF Knows
      <4>6. Facts(c)
        BY <4>2, <4>4, <4>5 DEF Facts, ItemsOfCall
      <4> QED BY <1>0, <4>6, FactsStay
    <3> QED BY <1>0, <3>2, <3>3, OthersKnow
  <2>3. CASE ~(call[p].tries + 1 < MaxTries) /\ In(p, "items") /\ call[p].req.op # "direct"
             /\ Current(p).kind = "task" /\ Present(Current(p))
    <3>1. PICK item : item = Current(p)
      OBVIOUS
    <3>2. item \in Item /\ Present(item)
      BY <1>9, <2>1, <2>3, <3>1
    <3>3. Present(item)'
      BY <1>0, <3>2, ItemsStay
    <3>4. Advance(p)
      BY <1>20, <2>3 DEF Retry
    <3> QED BY <1>7, <2>1, <2>3, <3>1, <3>3, <3>4
  <2>4. CASE ~(call[p].tries + 1 < MaxTries)
             /\ ~(In(p, "items") /\ call[p].req.op # "direct"
                  /\ Current(p).kind = "task" /\ Present(Current(p)))
    BY <1>20, <1>3, <2>1, <2>4 DEF Retry
  <2> QED BY <2>2, <2>3, <2>4
<1>21. ASSUME NEW p \in Process, Crash(p) PROVE Knows'
  <2>1. call[p] \in Call
    BY <1>21 DEF Crash, TypeOK
  <2> QED BY <1>21, <1>3, <2>1 DEF Crash
<1>22. ASSUME (\E t \in Task : MoveTask(t)) \/ Planning \/ UNCHANGED vars
       PROVE  call' = call
  BY <1>22 DEF MoveTask, Planning, PlanTasks, PlanDependencies, PlanConflicts, vars
<1> QED BY <1>1, <1>10, <1>11, <1>12, <1>13, <1>14, <1>15, <1>16, <1>17, <1>18, <1>19,
           <1>20, <1>21, <1>22 DEF Next, Work

-----------------------------------------------------------------------------
(* What the moves of the ledger keep.                                      *)

LEMMA RecordedStay ==
  ASSUME TypeOK, LedgerMoves
  PROVE  \A t \in Task : Exists(t) => Exists(t)' /\
           (tasks[t].state = "done" => tasks'[t].state = "done")
<1>1. CASE UNCHANGED ledger
  BY <1>1 DEF ledger, Exists
<1>2. ASSUME NEW i \in Item, GrowsBy(i), NEW t \in Task, Exists(t)
      PROVE  tasks'[t] = tasks[t]
  BY <1>2, RecordKeeps DEF GrowsBy
<1>3. ASSUME NEW u \in Task, Moved(u), NEW t \in Task, Exists(t)
      PROVE  Exists(t)' /\ (tasks[t].state = "done" => tasks'[t].state = "done")
  <2>1. PICK to \in TaskState :
          <<tasks[u].state, to>> \in Moves /\ tasks' = [tasks EXCEPT ![u].state = to]
    BY <1>3 DEF Moved
  <2>2. CASE t # u
    BY <1>3, <2>1, <2>2 DEF TypeOK, Exists
  <2>3. CASE t = u
    <3>1. tasks[t] \in TaskRecord
      BY <1>3 DEF Exists, TypeOK
    <3>2. tasks'[t] = [tasks[t] EXCEPT !.state = to]
      BY <2>1, <2>3 DEF TypeOK
    <3>3. [tasks[t] EXCEPT !.state = to] \in TaskRecord
      BY <3>1 DEF TaskRecord
    <3>4. tasks[t].state # "done"
      BY <2>1, <2>3, BoundsAssumption DEF Transitions
    <3> QED BY <3>2, <3>3, <3>4, BoundsAssumption DEF Exists
  <2> QED BY <2>2, <2>3
<1>4. ASSUME NEW source, NEW r, Receipted(source, r)
      PROVE  tasks' = tasks
  BY <1>4 DEF Receipted
<1> QED BY <1>1, <1>2, <1>3, <1>4 DEF LedgerMoves, Exists

LEMMA AcyclicStep ==
  ASSUME TypeOK, LedgerMoves, Acyclic
  PROVE  Acyclic'
<1>1. CASE deps' = deps
  BY <1>1 DEF Acyclic, Reaches, Closed
<1>2. ASSUME NEW i \in DependencyItem, GrowsBy(i)
      PROVE  Acyclic'
  <2>1. i.kind = "dependency" /\ i.task \in Task /\ i.on \in Task
    BY <1>2 DEF DependencyItem
  <2>2. /\ deps' = deps \cup {<<i.task, i.on>>}
        /\ ~Reaches(deps \cup {<<i.task, i.on>>}, i.on, i.task)
    BY <1>2, <2>1 DEF GrowsBy, Addable, Record, WithDependency
  <2>3. deps \in SUBSET (Task \X Task)
    BY DEF TypeOK
  <2>4. \A e \in deps' : ~Reaches(deps', e[2], e[1])
    BY <2>1, <2>2, <2>3, EdgeKeepsAcyclic DEF Acyclic
  <2> QED BY <2>4 DEF Acyclic, Reaches, Closed
<1>3. ASSUME NEW i \in Item \ DependencyItem, GrowsBy(i)
      PROVE  deps' = deps
  <2>1. CASE i \in TaskItem
    <3>1. i.kind = "task"
      BY <2>1 DEF TaskItem
    <3> QED BY <1>3, <3>1 DEF GrowsBy, Record
  <2>2. CASE i \in ConflictItem
    <3>1. i.kind = "conflict"
      BY <2>2 DEF ConflictItem
    <3> QED BY <1>3, <3>1 DEF GrowsBy, Record
  <2> QED BY <2>1, <2>2 DEF Item
<1> QED BY <1>1, <1>2, <1>3 DEF LedgerMoves, ledger, Moved, Receipted

LEMMA RelationsStep ==
  ASSUME TypeOK, LedgerMoves, RelationsHaveTasks
  PROVE  RelationsHaveTasks'
<1>0. \A t \in Task : Exists(t) => Exists(t)'
  BY RecordedStay
<1>1. deps \subseteq Task \X Task
  BY DEF TypeOK
<1>2. CASE deps' = deps /\ conflicts' = conflicts
  <2>1. \A e \in deps : Exists(e[1])' /\ Exists(e[2])'
    BY <1>0, <1>1 DEF RelationsHaveTasks
  <2>2. \A pair \in SUBSET Task : conflicts[pair] # None => \A t \in pair : Exists(t)'
    BY <1>0 DEF RelationsHaveTasks
  <2> QED BY <1>2, <2>1, <2>2 DEF RelationsHaveTasks
<1>3. ASSUME NEW i \in Item, GrowsBy(i)
      PROVE  RelationsHaveTasks'
  <2>1. CASE i \in TaskItem
    <3>1. i.kind = "task"
      BY <2>1 DEF TaskItem
    <3> QED BY <1>2, <1>3, <3>1 DEF GrowsBy, Record
  <2>2. CASE i \in DependencyItem
    <3>1. i.kind = "dependency" /\ i.task \in Task /\ i.on \in Task
      BY <2>2 DEF DependencyItem
    <3>2. /\ deps' = deps \cup {<<i.task, i.on>>} /\ conflicts' = conflicts
          /\ Exists(i.task) /\ Exists(i.on)
      BY <1>3, <3>1 DEF GrowsBy, Addable, Record, WithDependency
    <3>3. \A e \in deps' : Exists(e[1])' /\ Exists(e[2])'
      BY <1>0, <1>1, <3>1, <3>2 DEF RelationsHaveTasks
    <3>4. \A pair \in SUBSET Task : conflicts'[pair] # None => \A t \in pair : Exists(t)'
      BY <1>0, <3>2 DEF RelationsHaveTasks
    <3> QED BY <3>3, <3>4 DEF RelationsHaveTasks
  <2>3. CASE i \in ConflictItem
    <3>1. i.kind = "conflict" /\ i.ends \in SUBSET Task
      BY <2>3 DEF ConflictItem
    <3>2. /\ conflicts' = [conflicts EXCEPT ![i.ends] = i.reason] /\ deps' = deps
          /\ \A t \in i.ends : Exists(t)
      BY <1>3, <3>1 DEF GrowsBy, Addable, Record
    <3>3. \A e \in deps' : Exists(e[1])' /\ Exists(e[2])'
      BY <1>0, <1>1, <3>2 DEF RelationsHaveTasks
    <3>4. ASSUME NEW pair \in SUBSET Task, conflicts'[pair] # None, NEW t \in pair
          PROVE  Exists(t)'
      <4>1. CASE pair = i.ends
        BY <1>0, <3>1, <3>2, <3>4, <4>1
      <4>2. CASE pair # i.ends
        BY <1>0, <3>2, <3>4, <4>2 DEF RelationsHaveTasks, TypeOK
      <4> QED BY <4>1, <4>2
    <3> QED BY <3>3, <3>4 DEF RelationsHaveTasks
  <2> QED BY <2>1, <2>2, <2>3 DEF Item
<1> QED BY <1>2, <1>3 DEF LedgerMoves, ledger, Moved, Receipted

LEMMA ReceiptsStep ==
  ASSUME TypeOK, LedgerMoves, ReceiptIsBacked
  PROVE  /\ ReceiptIsBacked'
         /\ \A source \in Importer \X Label :
              receipts[source] # None =>
                /\ receipts'[source] # None
                /\ receipts'[source].doc = receipts[source].doc
                /\ receipts[source].state = "completed" =>
                     receipts'[source].state = "completed"
<1>1. \A doc \in Document : \A n \in DOMAIN ItemsOf[doc] :
        Present(ItemsOf[doc][n]) => Present(ItemsOf[doc][n])'
  <2> SUFFICES ASSUME NEW doc \in Document, NEW n \in DOMAIN ItemsOf[doc]
               PROVE  Present(ItemsOf[doc][n]) => Present(ItemsOf[doc][n])'
    OBVIOUS
  <2>1. ItemsOf[doc] \in Seq(Item)
    BY DocumentsAssumption
  <2>2. ItemsOf[doc][n] \in Item
    BY <2>1
  <2> QED BY <2>2, ItemsStay
<1>2. \A s \in Importer \X Label : receipts[s] # None => receipts[s].doc \in Document
  BY DEF TypeOK, Receipt, PlanReceipt, FrogReceipt
<1>3. CASE receipts' = receipts
  BY <1>1, <1>2, <1>3 DEF ReceiptIsBacked
<1>4. ASSUME NEW source \in Importer \X Label, NEW r \in Receipt, Receipted(source, r)
      PROVE  /\ ReceiptIsBacked'
             /\ \A s \in Importer \X Label :
                  receipts[s] # None =>
                    /\ receipts'[s] # None
                    /\ receipts'[s].doc = receipts[s].doc
                    /\ receipts[s].state = "completed" => receipts'[s].state = "completed"
  <2>1. receipts' = [receipts EXCEPT ![source] = r]
    BY <1>4 DEF Receipted
  <2>2. receipts'[source] = r /\ r # None /\ r.doc \in Document
    BY <2>1, BoundsAssumption DEF TypeOK, Receipt, PlanReceipt, FrogReceipt
  <2>3. \A s \in Importer \X Label : s # source => receipts'[s] = receipts[s]
    BY <2>1 DEF TypeOK
  <2>4. r.state = "completed" => \A n \in DOMAIN ItemsOf[r.doc] : Present(ItemsOf[r.doc][n])'
    BY <1>1, <1>4, <2>2 DEF Receipted
  <2>5. ReceiptIsBacked'
    BY <1>1, <1>2, <2>2, <2>3, <2>4 DEF ReceiptIsBacked
  <2>6. receipts[source] # None =>
          receipts[source].doc = r.doc /\ receipts[source].state # "completed"
    BY <1>4 DEF Receipted
  <2> QED BY <2>2, <2>3, <2>5, <2>6
<1> QED BY <1>3, <1>4 DEF LedgerMoves, ledger, GrowsBy, Moved

-----------------------------------------------------------------------------
(* What an evaluation of the plan has read of the tasks is out of date,    *)
(* but not wrong about what is there and what is done; and relations only  *)
(* grow, so that the later reads contain those of the first moment.        *)
PlanKnows ==
  plan.pc # "idle" =>
    /\ \A t \in Task : Listed(t) =>
         Exists(t) /\ (plan.tasks[t] = "done" => tasks[t].state = "done")
    /\ plan.had \subseteq deps /\ plan.foes \subseteq Rivalries
    /\ plan.pc = "conflicts" => plan.had \subseteq plan.deps

LEMMA RelationsStay ==
  ASSUME TypeOK, LedgerMoves
  PROVE  deps \subseteq deps' /\ Rivalries \subseteq Rivalries'
<1>0. \A j \in Item : Present(j) => Present(j)'
  BY ItemsStay
<1>1. ASSUME NEW e \in deps PROVE e \in deps'
  <2>1. PICK t \in Task, u \in Task : e = <<t, u>>
    BY <1>1 DEF TypeOK
  <2>2. PICK j : j = [kind |-> "dependency", task |-> t, on |-> u]
    OBVIOUS
  <2>3. j \in Item
    BY <2>2 DEF Item, DependencyItem
  <2>4. Present(j)
    BY <1>1, <2>1, <2>2 DEF Present
  <2>5. Present(j)'
    BY <1>0, <2>3, <2>4
  <2> QED BY <2>1, <2>2, <2>5 DEF Present
<1>2. ASSUME NEW pair \in Rivalries PROVE pair \in Rivalries'
  <2>1. pair \in SUBSET Task /\ conflicts[pair] \in Reason /\ conflicts[pair] # None
    BY <1>2 DEF Rivalries, TypeOK
  <2>2. PICK j : j = [kind |-> "conflict", ends |-> pair, reason |-> conflicts[pair]]
    OBVIOUS
  <2>3. j \in Item
    BY <2>1, <2>2 DEF Item, ConflictItem
  <2>4. Present(j)
    BY <2>2 DEF Present
  <2>5. Present(j)'
    BY <1>0, <2>3, <2>4
  <2>6. conflicts'[pair] = conflicts[pair]
    BY <2>2, <2>5 DEF Present
  <2> QED BY <2>1, <2>6 DEF Rivalries
<1> QED BY <1>1, <1>2

LEMMA PlanKnowsStep ==
  ASSUME TypeOK, Knows, PlanKnows, [Next]_vars
  PROVE  PlanKnows'
<1>0. /\ \A t \in Task : Exists(t) => Exists(t)' /\
           (tasks[t].state = "done" => tasks'[t].state = "done")
      /\ deps \subseteq deps' /\ Rivalries \subseteq Rivalries'
  BY StepMovesLedger, RecordedStay, RelationsStay
<1>1. CASE plan' = plan
  BY <1>0, <1>1 DEF PlanKnows, Listed
<1>2. CASE PlanTasks
  <2>1. tasks' = tasks /\ deps' = deps /\ Rivalries' = Rivalries
    BY <1>2 DEF PlanTasks, ledger, Rivalries
  <2>2. \A t \in Task : plan'.tasks[t] = IF Exists(t) THEN tasks[t].state ELSE None
    BY <1>2 DEF PlanTasks, TypeOK, Plan
  <2>3. None # "done"
    BY BoundsAssumption DEF TaskState
  <2>4. plan'.had = deps /\ plan'.foes = Rivalries /\ plan'.pc = "dependencies"
    BY <1>2 DEF PlanTasks, TypeOK, Plan
  <2> QED BY <2>1, <2>2, <2>3, <2>4 DEF PlanKnows, Listed, Exists
<1>3. CASE PlanDependencies
  <2>1. tasks' = tasks /\ deps' = deps /\ Rivalries' = Rivalries /\ plan.pc # "idle"
    BY <1>3 DEF PlanDependencies, ledger, Rivalries
  <2>2. CASE plan' = NoPlan
    BY <2>2 DEF PlanKnows, NoPlan
  <2>3. CASE plan' # NoPlan
    <3>1. plan' = [plan EXCEPT !.pc = "conflicts", !.deps = deps]
      BY <1>3, <2>3 DEF PlanDependencies
    <3>2. /\ plan'.tasks = plan.tasks /\ plan'.had = plan.had /\ plan'.foes = plan.foes
          /\ plan'.deps = deps
      BY <3>1 DEF TypeOK, Plan
    <3> QED BY <2>1, <3>2 DEF PlanKnows, Listed, Exists
  <2> QED BY <2>2, <2>3
<1>4. CASE PlanConflicts
  BY <1>4 DEF PlanConflicts, PlanKnows, NoPlan
<1>5. ASSUME ~Planning PROVE plan' = plan
  BY <1>5 DEF Next, Work, vars, Begin, Crash, CheckReceipt, SurveyTasks, SurveyConflicts,
     ReadReservation, ReadItem, ReadClose, Retry, AppendReservation, AppendItem, AppendClose,
     MoveTask
<1> QED BY <1>1, <1>2, <1>3, <1>4, <1>5 DEF Planning

LEMMA PlanIsReady ==
  ASSUME TypeOK, PlanKnows
  PROVE  OfferedWasReady
<1> SUFFICES ASSUME Answered, NEW t \in Task, Eligible(t)
             PROVE  /\ \A u \in Task : <<t, u>> \in plan.had =>
                         Exists(u) /\ tasks[u].state = "done"
                    /\ \A u \in Task \ {t} : {t, u} \in plan.foes =>
                         plan.tasks[u] # "in_progress"
  BY DEF OfferedWasReady
<1>0. None # "done" /\ plan.pc # "idle"
  BY BoundsAssumption DEF TaskState, Answered
<1>1. ASSUME NEW u \in Task, <<t, u>> \in plan.had
      PROVE  Exists(u) /\ tasks[u].state = "done"
  <2>1. plan.tasks[u] = "done"
    BY <1>1 DEF Answered, PlanKnows, Eligible
  <2> QED BY <1>0, <2>1 DEF PlanKnows, Listed
<1>2. ASSUME NEW u \in Task \ {t}, {t, u} \in plan.foes
      PROVE  plan.tasks[u] # "in_progress"
  <2>1. {t, u} \in Rivalries
    BY <1>0, <1>2 DEF PlanKnows
  <2>2. u \in Rivals(t)
    BY <2>1 DEF Rivals
  <2> QED BY <2>2 DEF Eligible
<1> QED BY <1>1, <1>2

-----------------------------------------------------------------------------
(* The inductive invariant: types, what calls and evaluations know, and    *)
(* the invariants they keep.                                               *)
IInv ==
  /\ TypeOK /\ Knows /\ PlanKnows
  /\ Acyclic /\ RelationsHaveTasks /\ ReceiptIsBacked

LEMMA InitHolds ==
  ASSUME Init
  PROVE  IInv
<1>1. TypeOK
  BY BoundsAssumption DEF Init, TypeOK, NoPlan, PlanState, Plan
<1>2. Knows
  BY DEF Init, Knows, NoCall, Call, Phase
<1>3. PlanKnows
  BY DEF Init, PlanKnows, NoPlan
<1>4. Acyclic /\ RelationsHaveTasks /\ ReceiptIsBacked
  BY DEF Init, Acyclic, RelationsHaveTasks, ReceiptIsBacked
<1> QED BY <1>1, <1>2, <1>3, <1>4 DEF IInv

LEMMA StepHolds ==
  ASSUME IInv, [Next]_vars
  PROVE  IInv'
<1>1. TypeOK'
  BY KnownItems, StepIsTyped DEF IInv
<1>2. Knows'
  BY KnowsStep DEF IInv
<1>3. PlanKnows'
  BY PlanKnowsStep DEF IInv
<1>4. LedgerMoves
  BY StepMovesLedger DEF IInv
<1>5. Acyclic' /\ RelationsHaveTasks' /\ ReceiptIsBacked'
  BY <1>4, AcyclicStep, RelationsStep, ReceiptsStep DEF IInv
<1> QED BY <1>1, <1>2, <1>3, <1>5 DEF IInv

LEMMA InvariantHolds == Spec => []IInv
BY InitHolds, StepHolds, PTL DEF Spec

(* The types are kept (state of tasks.py, plan_import.py,                  *)
(* frog_task_import.py and task_planning.py).                              *)
THEOREM TypeCorrect == Spec => []TypeOK
<1>1. IInv => TypeOK
  BY DEF IInv
<1> QED BY <1>1, InvariantHolds, PTL

(* TaskService.add_dependency never closes a cycle, however many processes *)
(* add dependencies at the same time.                                      *)
THEOREM StaysAcyclic == Spec => []Acyclic
<1>1. IInv => Acyclic
  BY DEF IInv
<1> QED BY <1>1, InvariantHolds, PTL

(* Dependencies and conflicts name recorded tasks only.                    *)
THEOREM RelationsGrounded == Spec => []RelationsHaveTasks
<1>1. IInv => RelationsHaveTasks
  BY DEF IInv
<1> QED BY <1>1, InvariantHolds, PTL

(* Whatever two imports and single operations interleave, and whichever    *)
(* process dies: a completed receipt has its whole document behind it.     *)
THEOREM ReceiptsBacked == Spec => []ReceiptIsBacked
<1>1. IInv => ReceiptIsBacked
  BY DEF IInv
<1> QED BY <1>1, InvariantHolds, PTL

(* A source keeps its document, and what is completed stays completed.     *)
THEOREM ReceiptsFinal == Spec => ReceiptIsFinal
<1>1. ASSUME IInv, [Next]_vars
      PROVE  [\A source \in Importer \X Label :
                receipts[source] # None =>
                  /\ receipts'[source] # None
                  /\ receipts'[source].doc = receipts[source].doc
                  /\ receipts[source].state = "completed" =>
                       receipts'[source].state = "completed"]_vars
  BY <1>1, StepMovesLedger, ReceiptsStep DEF IInv
<1> QED BY <1>1, InvariantHolds, PTL DEF Spec, ReceiptIsFinal

(* What TaskPlanningService offers could be taken up when it read the      *)
(* tasks: the dependencies recorded by then were done and are done when it *)
(* answers, and no rival recorded by then was in progress.                 *)
THEOREM OfferedReady == Spec => []OfferedWasReady
<1>1. IInv => OfferedWasReady
  BY PlanIsReady DEF IInv
<1> QED BY <1>1, InvariantHolds, PTL
=============================================================================
