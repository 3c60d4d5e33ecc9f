----------------------------- MODULE TaskGraph -----------------------------
(***************************************************************************)
(* The plan of a workspace: tasks, their dependencies and conflicts, as    *)
(* application/tasks.py records them, and the two importers that record    *)
(* whole documents of them: plan_import.py, which records a receipt when   *)
(* everything is there, and frog_task_import.py, which reserves its        *)
(* receipt first, works from what it reserved, and completes it.  Every    *)
(* record is a snapshot of the ledger and a compare-and-append on its      *)
(* head, tried again when another process was faster.                      *)
(*                                                                         *)
(* task_planning.py joins three reads of the same ledger, one after the    *)
(* other, while all this goes on.                                          *)
(***************************************************************************)
EXTENDS Naturals, Sequences

CONSTANTS
  Process, Task, Intent, Reason, Label,
  Document,      \* reviewed plans, and single operations
  ItemsOf,       \* the records a document asks for, in the order they are made
  Requests,      \* the calls processes make
  Moves,         \* the state transitions others make of a task
  None,
  MaxHead,       \* bound on the length of the ledger
  MaxTries,      \* attempts of an optimistic loop (code: 8)
  MaxPlans       \* bound on evaluations of the plan

(* A task to create, a dependency or a conflict.                           *)
TaskItem == [kind : {"task"}, id : Task, intent : Intent, state : {"idea", "todo"}]
DependencyItem == [kind : {"dependency"}, task : Task, on : Task]
ConflictItem == [kind : {"conflict"}, ends : SUBSET Task, reason : Reason]

Item == TaskItem \cup DependencyItem \cup ConflictItem

TaskState == {"idea", "todo", "in_progress", "blocked", "done", "abandoned"}

TaskRecord == [intent : Intent, state : TaskState]

(* A plan is received when everything is there, a frog import before.      *)
PlanReceipt == [doc : Document, state : {"completed"}]
FrogReceipt == [doc : Document, state : {"reserved", "completed"}]

Receipt == PlanReceipt \cup FrogReceipt

Importer == {"plan", "frog"}

Request == [op : Importer \cup {"direct"}, label : Label, doc : Document]

Transitions ==
  {<<"idea", "todo">>, <<"idea", "abandoned">>,
   <<"todo", "in_progress">>, <<"todo", "blocked">>, <<"todo", "abandoned">>,
   <<"in_progress", "todo">>, <<"in_progress", "blocked">>,
   <<"in_progress", "done">>, <<"in_progress", "abandoned">>,
   <<"blocked", "todo">>, <<"blocked", "in_progress">>, <<"blocked", "abandoned">>}

ASSUME DocumentsAssumption == ItemsOf \in [Document -> Seq(Item)]

ASSUME RequestsAssumption ==
  /\ Requests \subseteq Request
  /\ \A r \in Requests : r.op = "direct" => Len(ItemsOf[r.doc]) = 1

ASSUME BoundsAssumption ==
  /\ Moves \subseteq Transitions
  /\ MaxHead \in Nat /\ MaxPlans \in Nat /\ MaxTries \in Nat \ {0}
  /\ None \notin TaskRecord \cup Receipt \cup Reason \cup TaskState \cup Nat

VARIABLES
  tasks,      \* the latest record of each task
  deps,       \* recorded dependencies <<task, task it depends on>>
  conflicts,  \* the reason recorded for each pair of tasks
  receipts,   \* the latest receipt of each importer and source label
  head,       \* length of the ledger
  call,       \* the call each process is in
  plan,       \* the evaluation of the plan
  plans       \* evaluations begun

ledger == <<tasks, deps, conflicts, receipts, head>>
vars == <<tasks, deps, conflicts, receipts, head, call, plan, plans>>

Phase == {"receipt", "tasks", "conflicts", "reserve", "items", "close"}

Call == [req : Requests, phase : Phase, at : Nat \ {0}, seen : Nat \cup {None},
         tries : 0..MaxTries]

NoCall == [phase |-> "none"]

PlanState == {"idle", "dependencies", "conflicts"}

Plan == [pc : PlanState, tasks : [Task -> TaskState \cup {None}],
         deps : SUBSET (Task \X Task), had : SUBSET (Task \X Task), foes : SUBSET SUBSET Task]

(* had and foes are no part of the evaluation: they keep, for the property *)
(* of the answer, what was recorded when the tasks were read.              *)
NoPlan == [pc |-> "idle", tasks |-> [t \in Task |-> None],
           deps |-> {}, had |-> {}, foes |-> {}]

TypeOK ==
  /\ tasks \in [Task -> TaskRecord \cup {None}]
  /\ deps \subseteq Task \X Task
  /\ conflicts \in [SUBSET Task -> Reason \cup {None}]
  /\ receipts \in [Importer \X Label -> Receipt \cup {None}]
  /\ head \in 0..MaxHead
  /\ call \in [Process -> Call \cup {NoCall}]
  /\ plan \in Plan
  /\ plans \in 0..MaxPlans

Init ==
  /\ tasks = [t \in Task |-> None]
  /\ deps = {}
  /\ conflicts = [pair \in SUBSET Task |-> None]
  /\ receipts = [source \in Importer \X Label |-> None]
  /\ head = 0
  /\ call = [p \in Process |-> NoCall]
  /\ plan = NoPlan
  /\ plans = 0

-----------------------------------------------------------------------------
(* Reachability as _reaches decides it: whatever contains the start and    *)
(* the successors of its members contains the target.                      *)
Closed(S, G) == \A e \in G : e[1] \in S => e[2] \in S

Reaches(G, start, target) ==
  \A S \in SUBSET Task : start \in S /\ Closed(S, G) => target \in S

Exists(t) == tasks[t] # None

Present(i) ==
  CASE i.kind = "task"       -> Exists(i.id) /\ tasks[i.id].intent = i.intent
    [] i.kind = "dependency" -> <<i.task, i.on>> \in deps
    [] i.kind = "conflict"   -> conflicts[i.ends] = i.reason

WithDependency(i) == deps \cup {<<i.task, i.on>>}

(* What the checks of create, add_dependency and add_conflict allow to be  *)
(* added to the snapshot they read.                                        *)
Addable(i) ==
  CASE i.kind = "task"       -> ~Exists(i.id)
    [] i.kind = "dependency" ->
         /\ Exists(i.task) /\ Exists(i.on)
         /\ <<i.task, i.on>> \notin deps
         /\ ~Reaches(WithDependency(i), i.on, i.task)
    [] i.kind = "conflict"   ->
         /\ \A t \in i.ends : Exists(t)
         /\ conflicts[i.ends] = None

(* A record of item i becomes the next entry of the ledger.                *)
Record(i) ==
  CASE i.kind = "task"       ->
         /\ tasks' = [tasks EXCEPT ![i.id] = [intent |-> i.intent, state |-> i.state]]
         /\ UNCHANGED <<deps, conflicts>>
    [] i.kind = "dependency" ->
         deps' = WithDependency(i) /\ UNCHANGED <<tasks, conflicts>>
    [] i.kind = "conflict"   ->
         conflicts' = [conflicts EXCEPT ![i.ends] = i.reason] /\ UNCHANGED <<tasks, deps>>

-----------------------------------------------------------------------------
(* One process: a call of the task service, or an import.                  *)

In(p, phase) == call[p].phase = phase

Source(p) == <<call[p].req.op, call[p].req.label>>
Items(p) == ItemsOf[call[p].req.doc]
Current(p) == Items(p)[call[p].at]

Return(p) == call' = [call EXCEPT ![p] = NoCall]

Enter(p, phase) ==
  call' = [call EXCEPT ![p] = [@ EXCEPT !.phase = phase, !.seen = None, !.tries = 0]]

(* The items are worked off one by one; after the last one a direct call   *)
(* returns and an import goes on to its receipt.                           *)
Proceed(p, n) ==
  IF n <= Len(Items(p))
  THEN call' = [call EXCEPT ![p] =
                  [@ EXCEPT !.phase = "items", !.at = n, !.seen = None, !.tries = 0]]
  ELSE IF call[p].req.op = "direct" THEN Return(p) ELSE Enter(p, "close")

Advance(p) == Proceed(p, call[p].at + 1)

Begin(p) ==
  /\ In(p, "none")
  /\ \E r \in Requests :
       call' = [call EXCEPT ![p] =
                  [req |-> r, phase |-> IF r.op = "direct" THEN "items" ELSE "receipt",
                   at |-> 1, seen |-> None, tries |-> 0]]
  /\ UNCHANGED <<ledger, plan, plans>>

(* A receipt of another document is drift.  A plan that was imported is    *)
(* not imported again, a frog import is finished from its receipt.         *)
CheckReceipt(p) ==
  /\ In(p, "receipt")
  /\ LET old == receipts[Source(p)] IN
       \/ old = None /\ Enter(p, "tasks")
       \/ /\ old # None
          /\ IF call[p].req.op = "frog" /\ old.doc = call[p].req.doc
             THEN Proceed(p, 1) ELSE Return(p)
  /\ UNCHANGED <<ledger, plan, plans>>

Clashes(i) ==
  \/ i.kind = "task" /\ Exists(i.id) /\ tasks[i.id].intent # i.intent
  \/ i.kind = "conflict" /\ conflicts[i.ends] \notin {None, i.reason}

(* Before anything is written, existing tasks are compared with the ones   *)
(* of the document, then, in a later read, existing conflicts.  What exists *)
(* needs no record; the read of its own operation finds it too.            *)
Survey(p, kind) == \A n \in DOMAIN Items(p) : Items(p)[n].kind = kind => ~Clashes(Items(p)[n])

SurveyTasks(p) ==
  /\ In(p, "tasks")
  /\ IF Survey(p, "task") THEN Enter(p, "conflicts") ELSE Return(p)
  /\ UNCHANGED <<ledger, plan, plans>>

SurveyConflicts(p) ==
  /\ In(p, "conflicts")
  /\ IF ~Survey(p, "conflict") THEN Return(p)
     ELSE IF call[p].req.op = "frog" THEN Enter(p, "reserve") ELSE Proceed(p, 1)
  /\ UNCHANGED <<ledger, plan, plans>>

Look(p) == call' = [call EXCEPT ![p].seen = head]

Reading(p) == call[p].seen = None

(* A reservation found in the way is the same document with the same times *)
(* and is finished, or is refused.                                         *)
ReadReservation(p) ==
  /\ In(p, "reserve") /\ Reading(p)
  /\ LET old == receipts[Source(p)] IN
       \/ old = None /\ Look(p)
       \/ old # None /\ old.doc = call[p].req.doc /\ Proceed(p, 1)
       \/ old # None /\ Return(p)
  /\ UNCHANGED <<ledger, plan, plans>>

(* One operation of the task service.  An import takes what exists with    *)
(* the intent it wants for its own.                                        *)
ReadItem(p) ==
  /\ In(p, "items") /\ Reading(p)
  /\ IF Addable(Current(p)) THEN Look(p)
     ELSE IF Present(Current(p)) THEN Advance(p)
     ELSE Return(p)
  /\ UNCHANGED <<ledger, plan, plans>>

(* Mutant: the receipt found at the end is not looked at.                  *)
ReadCloseBlind(p) ==
  /\ In(p, "close") /\ Reading(p)
  /\ Look(p)
  /\ UNCHANGED <<ledger, plan, plans>>

ReadClose(p) ==
  /\ In(p, "close") /\ Reading(p)
  /\ LET old == receipts[Source(p)] IN
       IF old = None \/ (old.doc = call[p].req.doc /\ old.state = "reserved")
       THEN Look(p) ELSE Return(p)
  /\ UNCHANGED <<ledger, plan, plans>>

(* Mutant: the append does not compare the head.                           *)
HeadIgnored(p) == TRUE

HeadUnmoved(p) == call[p].seen = head

Commits(p) == ~Reading(p) /\ HeadUnmoved(p) /\ head < MaxHead /\ head' = head + 1

SetReceipt(p, state) ==
  receipts' = [receipts EXCEPT ![Source(p)] = [doc |-> call[p].req.doc, state |-> state]]

AppendReservation(p) ==
  /\ In(p, "reserve") /\ Commits(p)
  /\ SetReceipt(p, "reserved")
  /\ Proceed(p, 1)
  /\ UNCHANGED <<tasks, deps, conflicts, plan, plans>>

AppendItem(p) ==
  /\ In(p, "items") /\ Commits(p)
  /\ Record(Current(p))
  /\ Advance(p)
  /\ UNCHANGED <<receipts, plan, plans>>

AppendClose(p) ==
  /\ In(p, "close") /\ Commits(p)
  /\ SetReceipt(p, "completed")
  /\ Return(p)
  /\ UNCHANGED <<tasks, deps, conflicts, plan, plans>>

(* The head has moved: the loop reads again, until its attempts are used   *)
(* up.  An import then still takes a task another process has created.     *)
Retry(p) ==
  /\ call[p] # NoCall /\ ~Reading(p) /\ ~HeadUnmoved(p)
  /\ IF call[p].tries + 1 < MaxTries
     THEN call' = [call EXCEPT ![p] = [@ EXCEPT !.seen = None, !.tries = call[p].tries + 1]]
     ELSE IF In(p, "items") /\ call[p].req.op # "direct"
             /\ Current(p).kind = "task" /\ Present(Current(p))
     THEN Advance(p)
     ELSE Return(p)
  /\ UNCHANGED <<ledger, plan, plans>>

(* The calling process dies between any two steps.                         *)
Crash(p) ==
  /\ call[p] # NoCall
  /\ Return(p)
  /\ UNCHANGED <<ledger, plan, plans>>

-----------------------------------------------------------------------------
(* TaskService.transition and the last record of a completion: each is one *)
(* record, made on the very state it was judged by.                        *)

(* Mutant: a task that is done may be opened again.                        *)
MoveTaskReopening(t) ==
  /\ Exists(t) /\ head < MaxHead
  /\ \E to \in TaskState :
       /\ <<tasks[t].state, to>> \in Moves \cup {<<"done", "todo">>}
       /\ tasks' = [tasks EXCEPT ![t].state = to]
  /\ head' = head + 1
  /\ UNCHANGED <<deps, conflicts, receipts, call, plan, plans>>

MoveTask(t) ==
  /\ Exists(t) /\ head < MaxHead
  /\ \E to \in TaskState :
       /\ <<tasks[t].state, to>> \in Moves
       /\ tasks' = [tasks EXCEPT ![t].state = to]
  /\ head' = head + 1
  /\ UNCHANGED <<deps, conflicts, receipts, call, plan, plans>>

-----------------------------------------------------------------------------
(* TaskPlanningService._evaluate.                                          *)

Rivalries == {pair \in SUBSET Task : conflicts[pair] # None}

PlanTasks ==
  /\ plan.pc = "idle" /\ plans < MaxPlans
  /\ plan' = [plan EXCEPT !.pc = "dependencies",
                          !.tasks = [t \in Task |-> IF Exists(t) THEN tasks[t].state ELSE None],
                          !.had = deps, !.foes = Rivalries]
  /\ plans' = plans + 1
  /\ UNCHANGED <<ledger, call>>

Listed(t) == plan.tasks[t] # None

(* A relation to a task that is not on the list is an error.               *)
PlanDependencies ==
  /\ plan.pc = "dependencies"
  /\ plan' = IF \A e \in deps : Listed(e[1]) /\ Listed(e[2])
             THEN [plan EXCEPT !.pc = "conflicts", !.deps = deps]
             ELSE NoPlan
  /\ UNCHANGED <<ledger, call, plans>>

Rivals(t) == {u \in Task : \E pair \in Rivalries : {t, u} = pair /\ t # u}

Eligible(t) ==
  /\ plan.tasks[t] \in {"idea", "todo"}
  /\ \A u \in Task : <<t, u>> \in plan.deps => plan.tasks[u] = "done"
  /\ \A u \in Rivals(t) : plan.tasks[u] # "in_progress"

Answered ==
  /\ plan.pc = "conflicts"
  /\ \A pair \in Rivalries : \A t \in pair : Listed(t)

(* The third read: the eligible tasks are the answer, or an error is.      *)
PlanConflicts ==
  /\ plan.pc = "conflicts"
  /\ plan' = NoPlan
  /\ UNCHANGED <<ledger, call, plans>>

-----------------------------------------------------------------------------
Work(p) ==
  \/ CheckReceipt(p) \/ SurveyTasks(p) \/ SurveyConflicts(p)
  \/ ReadReservation(p) \/ ReadItem(p) \/ ReadClose(p)
  \/ AppendReservation(p) \/ AppendItem(p) \/ AppendClose(p) \/ Retry(p)

Planning == PlanTasks \/ PlanDependencies \/ PlanConflicts

Next ==
  \/ \E p \in Process : Begin(p) \/ Work(p) \/ Crash(p)
  \/ \E t \in Task : MoveTask(t)
  \/ Planning

Spec == Init /\ [][Next]_vars

-----------------------------------------------------------------------------
(* No task waits for itself, however many processes add dependencies at    *)
(* once: the graph each addition was judged by is the one it is added to.  *)
Acyclic == \A e \in deps : ~Reaches(deps, e[2], e[1])

(* A relation names recorded tasks only.                                   *)
RelationsHaveTasks ==
  /\ \A e \in deps : Exists(e[1]) /\ Exists(e[2])
  /\ \A pair \in SUBSET Task : conflicts[pair] # None => \A t \in pair : Exists(t)

(* A completed receipt has everything its document asks for behind it,     *)
(* whoever recorded it and whatever died on the way.                       *)
ReceiptIsBacked ==
  \A source \in Importer \X Label :
    receipts[source] # None /\ receipts[source].state = "completed" =>
      LET items == ItemsOf[receipts[source].doc] IN \A n \in DOMAIN items : Present(items[n])

(* A source keeps the document it was first imported with, and what was    *)
(* completed stays completed: two documents of one label never both win.   *)
ReceiptIsFinal ==
  [][\A source \in Importer \X Label :
       receipts[source] # None =>
         /\ receipts'[source] # None
         /\ receipts'[source].doc = receipts[source].doc
         /\ receipts[source].state = "completed" => receipts'[source].state = "completed"]_vars

(* The answer joins tasks, dependencies and conflicts of three moments.    *)
(* What it offers could be taken up at the first of them: every dependency *)
(* recorded by then was done, and is still done when the answer is given,  *)
(* and no task then in conflict was in progress.  It says nothing of what  *)
(* was recorded or started while the evaluation ran: the answer is advice. *)
OfferedWasReady ==
  Answered =>
    \A t \in Task : Eligible(t) =>
      /\ \A u \in Task : <<t, u>> \in plan.had => Exists(u) /\ tasks[u].state = "done"
      /\ \A u \in Task \ {t} : {t, u} \in plan.foes => plan.tasks[u] # "in_progress"
=============================================================================
