------------------------------ MODULE TaskWork ------------------------------
(***************************************************************************)
(* One native task, from reservation to done: application/task_claims.py   *)
(* and task_completion.py over tasks.py, workspace.py and claims.py.       *)
(*                                                                         *)
(* Claiming a task takes up to five appends: the binding of the task to a  *)
(* Change Set and a claim, the Change Set, the claim, the task's state, the*)
(* binding again.  Completing it takes two: the release of the claim and   *)
(* the task's state.  A call may die between any two of them, be retried,  *)
(* or run twice, and the same records are written by direct calls of the   *)
(* other services.  A call never holds anything: every loop reads a        *)
(* snapshot and appends only if the head has not moved; the Change Set     *)
(* alone is appended without comparing.                                    *)
(*                                                                         *)
(* The binding names one Change Set and one claim, which are the ones kept *)
(* here; what other tasks, claims and Change Sets have to say about a call *)
(* (eligibility, scopes) can only refuse it.                               *)
(***************************************************************************)
EXTENDS Naturals

CONSTANTS
  Process,
  Session,     \* agent, session and base revision of a request
  Commit,
  None,
  Lease,       \* length of every lease
  MaxTries,    \* attempts of an optimistic loop; 8 in the code
  MaxTime,     \* bound: the clock stops here
  MaxCalls,    \* bound: so many calls are made
  MaxOthers    \* bound: so many records are written by others

Locks == INSTANCE SemanticLock
           WITH Scope <- {"task"}, Overlap <- {<<"task", "task">>}

(* A task that is only an idea cannot be claimed and has no binding yet.   *)
TaskState == {"todo", "in_progress", "blocked", "done", "abandoned"}

Task == [state : TaskState, updated : Nat, by : Session \cup {None}]

Binding == [by : Session, at : Nat, completed : BOOLEAN]

ChangeSet == [head : Commit, merged : BOOLEAN, updated : Nat]

Claim == [owner : Session, lock : Locks!Lock]

Review == [head : Commit, releasable : BOOLEAN, at : Nat]

(* What a completion is proved by.                                         *)
Evidence == [changeset : ChangeSet \cup {None}, claim : Claim \cup {None},
             review : Review \cup {None}]

Kind == {"claim", "complete"}

(* The local variables of a call: its request and timestamp, the head of   *)
(* its latest snapshot, lost attempts of its loop, the binding it works on.*)
Call == [kind : Kind, by : Session, at : Nat, seen : Nat,
         tries : 0 .. (MaxTries - 1), work : Binding \cup {None}]

(* Where an append whose head has moved starts over.                       *)
LoopOf == [reserving |-> "reserve", acquiring |-> "acquire", looking |-> "recover",
           reacquiring |-> "recover", starting |-> "start", finishing |-> "finish",
           releasing |-> "release", completing |-> "complete"]

Pc == {"idle", "get", "eligible", "reserve", "reserving", "changeset", "create",
       "creating", "claim", "acquire", "acquiring", "recover", "looking",
       "reacquiring", "task", "start", "starting", "finish", "finishing",
       "bound", "proof", "release", "releasing", "complete", "completing"}

ASSUME WorkAssumption ==
  /\ None \notin Session \cup Binding \cup ChangeSet \cup Claim \cup Review
                  \cup Evidence \cup Call
  /\ Commit # {}
  /\ Lease \in Nat \ {0} /\ MaxTries \in Nat \ {0}
  /\ MaxTime \in Nat /\ MaxCalls \in Nat /\ MaxOthers \in Nat

VARIABLES
  clock,
  left,      \* calls that may still begin
  others,    \* records that others may still write
  head,      \* length of the ledger
  task, binding, changeset, claim, \* latest records
  review,    \* latest review of the Change Set
  before,    \* the latest records when the task became done
  pc, call

records == <<task, binding, changeset, claim, review, before>>
bounds == <<clock, left, others>>
vars == <<bounds, head, records, pc, call>>

Init ==
  /\ clock = 0 /\ left = MaxCalls /\ others = MaxOthers
  /\ head = 0
  /\ task = [state |-> "todo", updated |-> 0, by |-> None]
  /\ binding = None /\ changeset = None /\ claim = None
  /\ review = None /\ before = None
  /\ pc = [p \in Process |-> "idle"]
  /\ call = [p \in Process |-> None]
-----------------------------------------------------------------------------
(* Tasks and claims.                                                       *)

Transitions ==
  {<<"todo", "in_progress">>, <<"todo", "blocked">>, <<"todo", "abandoned">>,
   <<"in_progress", "todo">>, <<"in_progress", "blocked">>,
   <<"in_progress", "done">>, <<"in_progress", "abandoned">>,
   <<"blocked", "todo">>, <<"blocked", "in_progress">>, <<"blocked", "abandoned">>}

CanMove(to, at) == <<task.state, to>> \in Transitions /\ at >= task.updated

Moved(to, at, by) == [state |-> to, updated |-> at, by |-> by]

Acquired(by, at) ==
  [owner |-> by, lock |-> Locks!AcquiredLock("task", at, at + Lease)]

ClaimIs(state, at) == claim # None /\ Locks!StateAt(claim.lock, at) = state

Reacquirable(by, at) ==
  claim # None /\ claim.owner = by /\ Locks!CanReacquire(claim.lock, at)

Reacquired(at) ==
  [claim EXCEPT !.lock = Locks!ReacquiredLock(claim.lock, at, at + Lease)]

Leased(by, at) ==
  claim # None /\ claim.owner = by /\ Locks!ActiveLease(claim.lock, at)

Released(at) == [claim EXCEPT !.lock = Locks!ReleasedLock(claim.lock, at)]

Renewed(at) ==
  [claim EXCEPT !.lock =
     Locks!RenewedLock(claim.lock, at, claim.lock.expires + Lease)]
-----------------------------------------------------------------------------
(* How a call moves on.                                                    *)

Goto(p, step) == pc' = [pc EXCEPT ![p] = step]

Return(p) ==
  /\ Goto(p, "idle")
  /\ call' = [call EXCEPT ![p] = None]

(* A check has been passed on the latest records.                          *)
Pass(p, step) ==
  /\ Goto(p, step)
  /\ UNCHANGED <<bounds, head, records, call>>

Adopt(p, work, step) ==
  /\ Goto(p, step)
  /\ call' = [call EXCEPT ![p].work = work]
  /\ UNCHANGED <<bounds, head, records>>

(* A loop has looked at a snapshot.                                        *)
Snapshot(p, step) ==
  /\ Goto(p, step)
  /\ call' = [call EXCEPT ![p].seen = head]
  /\ UNCHANGED <<bounds, head, records>>

Unmoved(p) == head = call[p].seen

(* An append on that snapshot ends the loop.                               *)
Appended(p, step) ==
  /\ head' = head + 1
  /\ Goto(p, step)
  /\ call' = [call EXCEPT ![p].tries = 0]
  /\ UNCHANGED bounds

Begin(p, kind, by) ==
  /\ pc[p] = "idle" /\ left > 0
  /\ left' = left - 1
  /\ Goto(p, IF kind = "claim" THEN "get" ELSE "bound")
  /\ call' = [call EXCEPT ![p] = [kind |-> kind, by |-> by, at |-> clock,
                                  seen |-> head, tries |-> 0, work |-> None]]
  /\ UNCHANGED <<clock, others, head, records>>

Retry(p) ==
  /\ pc[p] \in DOMAIN LoopOf
  /\ ~ Unmoved(p)
  /\ call[p].tries + 1 < MaxTries
  /\ Goto(p, LoopOf[pc[p]])
  /\ call' = [call EXCEPT ![p].tries = @ + 1]
  /\ UNCHANGED <<bounds, head, records>>
-----------------------------------------------------------------------------
(* TaskClaimService.claim.                                                 *)

(* _require_same_request.                                                  *)
Mine(p) == binding # None /\ binding.by = call[p].by

GetBinding(p) ==
  /\ pc[p] = "get"
  /\ \/ binding = None /\ Pass(p, "eligible")
     \/ Mine(p) /\ Adopt(p, binding, "changeset")

Eligible(p) ==
  /\ pc[p] = "eligible"
  /\ task.state = "todo"
  /\ Adopt(p, [by |-> call[p].by, at |-> call[p].at, completed |-> FALSE], "reserve")

Reserve(p) ==
  /\ pc[p] = "reserve"
  /\ \/ binding = None /\ Snapshot(p, "reserving")
     \/ Mine(p) /\ Adopt(p, binding, "changeset")

AppendReservation(p) ==
  /\ pc[p] = "reserving" /\ Unmoved(p)
  /\ binding' = call[p].work
  /\ Appended(p, "changeset")
  /\ UNCHANGED <<task, changeset, claim, review, before>>

FindChangeSet(p) ==
  /\ pc[p] = "changeset"
  /\ Pass(p, IF changeset = None THEN "create" ELSE "claim")

(* create_change_set looks once more, observes Git and appends whatever has*)
(* been recorded in between.                                               *)
CheckNewChangeSet(p) ==
  /\ pc[p] = "create"
  /\ changeset = None
  /\ Pass(p, "creating")

CreateChangeSet(p) ==
  /\ pc[p] = "creating"
  /\ \E h \in Commit :
       changeset' = [head |-> h, merged |-> FALSE, updated |-> call[p].work.at]
  /\ Appended(p, "claim")
  /\ UNCHANGED <<task, binding, claim, review, before>>

(* Mutant: whose claim it is does not matter.                              *)
OwnsAnyClaim(p) == claim # None

(* _require_matching_claim_identity.                                       *)
OwnsClaim(p) == claim # None /\ claim.owner = call[p].work.by

FindClaim(p) ==
  /\ pc[p] = "claim"
  /\ \/ claim = None /\ Pass(p, "acquire")
     \/ OwnsClaim(p) /\ ClaimIs("expired", call[p].at) /\ Pass(p, "recover")
     \/ OwnsClaim(p) /\ ClaimIs("active", call[p].at) /\ Pass(p, "task")

Acquire(p) ==
  /\ pc[p] = "acquire"
  /\ claim = None
  /\ Snapshot(p, "acquiring")

AppendAcquired(p) ==
  /\ pc[p] = "acquiring" /\ Unmoved(p)
  /\ claim' = Acquired(call[p].work.by, call[p].at)
  /\ Appended(p, "task")
  /\ UNCHANGED <<task, binding, changeset, review, before>>

(* _reacquire_for_runnable_task: a snapshot, then the task, then another   *)
(* snapshot, which must be the same, as must be the ones of reacquire.     *)
Recover(p) == pc[p] = "recover" /\ Snapshot(p, "looking")

Runnable(p) ==
  /\ pc[p] = "looking" /\ Unmoved(p)
  /\ task.state = "in_progress"
  /\ Pass(p, "reacquiring")

(* Mutant: reacquire is not told the expected head.                        *)
AppendReacquiredAnyway(p) ==
  /\ pc[p] = "reacquiring"
  /\ Reacquirable(call[p].work.by, call[p].at)
  /\ claim' = Reacquired(call[p].at)
  /\ Appended(p, "finish")
  /\ UNCHANGED <<task, binding, changeset, review, before>>

AppendReacquired(p) ==
  /\ pc[p] = "reacquiring" /\ Unmoved(p)
  /\ Reacquirable(call[p].work.by, call[p].at)
  /\ claim' = Reacquired(call[p].at)
  /\ Appended(p, "finish")
  /\ UNCHANGED <<task, binding, changeset, review, before>>

FindTask(p) ==
  /\ pc[p] = "task"
  /\ \/ task.state = "todo" /\ Pass(p, "start")
     \/ task.state = "in_progress" /\ Pass(p, "finish")

(* TaskService.transition reads the task again, and would also take it out *)
(* of blocked.                                                             *)
Start(p) ==
  /\ pc[p] = "start"
  /\ CanMove("in_progress", call[p].at)
  /\ Snapshot(p, "starting")

AppendStarted(p) ==
  /\ pc[p] = "starting" /\ Unmoved(p)
  /\ task' = Moved("in_progress", call[p].at, call[p].work.by)
  /\ Appended(p, "finish")
  /\ UNCHANGED <<binding, changeset, claim, review, before>>

Finish(p) ==
  /\ pc[p] = "finish"
  /\ binding # None
  /\ \/ /\ binding.completed
        /\ Return(p)
        /\ UNCHANGED <<bounds, head, records>>
     \/ /\ ~ binding.completed
        /\ Goto(p, "finishing")
        /\ call' = [call EXCEPT ![p].seen = head,
                      ![p].work = [binding EXCEPT !.completed = TRUE]]
        /\ UNCHANGED <<bounds, head, records>>

AppendFinished(p) ==
  /\ pc[p] = "finishing" /\ Unmoved(p)
  /\ binding' = call[p].work
  /\ head' = head + 1
  /\ Return(p)
  /\ UNCHANGED <<bounds, task, changeset, claim, review, before>>
-----------------------------------------------------------------------------
(* TaskCompletionService.complete.                                         *)

GetWork(p) ==
  /\ pc[p] = "bound"
  /\ binding # None /\ binding.completed
  /\ Adopt(p, binding, "proof")

Present == [changeset |-> changeset, claim |-> claim, review |-> review]

(* The proof of a task that is done is what preceded it.                   *)
Available == IF task.state = "done" THEN before ELSE Present

(* _proof_from_entries and _current_releasable_review.                     *)
Proves(e, work, at, released) ==
  /\ e.changeset # None /\ e.changeset.merged
  /\ e.claim # None /\ e.claim.owner = work.by
  /\ Locks!StateAt(e.claim.lock, at) \in
       (IF released THEN {"released"} ELSE {"active", "released"})
  /\ e.review # None /\ e.review.releasable
  /\ e.review.head = e.changeset.head

Proof(p, released) ==
  /\ binding = call[p].work
  /\ task.state \in {"in_progress", "done"}
  /\ Proves(Available, binding,
            IF task.state = "done" THEN task.updated ELSE call[p].at,
            released \/ task.state = "done")

(* _require_same_retry.                                                    *)
SameRetry(p) == task.state = "done" /\ task.by = call[p].by

NotBeforeProof(p) ==
  call[p].at >= task.updated /\ call[p].at >= changeset.updated
    /\ call[p].at >= claim.lock.updated /\ call[p].at >= review.at

Answer(p) ==
  /\ Return(p)
  /\ UNCHANGED <<bounds, head, records>>

Prove(p) ==
  /\ pc[p] = "proof"
  /\ Proof(p, FALSE)
  /\ \/ SameRetry(p) /\ Answer(p)
     \/ /\ task.state # "done" /\ NotBeforeProof(p)
        /\ Pass(p, IF ClaimIs("active", call[p].at) THEN "release" ELSE "complete")

Release(p) ==
  /\ pc[p] = "release"
  /\ Leased(call[p].work.by, call[p].at)
  /\ Snapshot(p, "releasing")

AppendReleased(p) ==
  /\ pc[p] = "releasing" /\ Unmoved(p)
  /\ claim' = Released(call[p].at)
  /\ Appended(p, "complete")
  /\ UNCHANGED <<task, binding, changeset, review, before>>

(* Everything is proved once more, now that the claim is released.         *)
Complete(p) ==
  /\ pc[p] = "complete"
  /\ Proof(p, TRUE)
  /\ \/ SameRetry(p) /\ Answer(p)
     \/ CanMove("done", call[p].at) /\ Snapshot(p, "completing")

(* Mutant: done is recorded whatever came in between.                      *)
AppendDoneAnyway(p) ==
  /\ pc[p] = "completing"
  /\ task' = Moved("done", call[p].at, call[p].by)
  /\ before' = Present
  /\ head' = head + 1
  /\ Return(p)
  /\ UNCHANGED <<bounds, binding, changeset, claim, review>>

AppendDone(p) ==
  /\ pc[p] = "completing" /\ Unmoved(p)
  /\ task' = Moved("done", call[p].at, call[p].by)
  /\ before' = Present
  /\ head' = head + 1
  /\ Return(p)
  /\ UNCHANGED <<bounds, binding, changeset, claim, review>>
-----------------------------------------------------------------------------
(* What ends a call early.                                                 *)

Refused(p) ==
  \/ pc[p] = "get" /\ binding # None /\ ~ Mine(p)
  \/ pc[p] = "reserve" /\ binding # None /\ ~ Mine(p)
  \/ pc[p] = "create" /\ changeset # None
  \/ pc[p] = "claim" /\ claim # None
       /\ ~ (OwnsClaim(p) /\ (ClaimIs("expired", call[p].at) \/ ClaimIs("active", call[p].at)))
  \/ pc[p] = "acquire" /\ claim # None
  \/ pc[p] = "looking" /\ Unmoved(p) /\ task.state # "in_progress"
  \/ pc[p] = "reacquiring" /\ Unmoved(p) /\ ~ Reacquirable(call[p].work.by, call[p].at)
  \/ pc[p] = "task" /\ task.state \notin {"todo", "in_progress"}
  \/ pc[p] = "start" /\ ~ CanMove("in_progress", call[p].at)
  \/ pc[p] = "finish" /\ binding = None
  \/ pc[p] = "bound" /\ ~ (binding # None /\ binding.completed)
  \/ pc[p] = "proof" /\ ~ (Proof(p, FALSE)
       /\ (SameRetry(p) \/ (task.state # "done" /\ NotBeforeProof(p))))
  \/ pc[p] = "release" /\ ~ Leased(call[p].work.by, call[p].at)
  \/ pc[p] = "complete" /\ ~ (Proof(p, TRUE)
       /\ (SameRetry(p) \/ CanMove("done", call[p].at)))
  \/ pc[p] \in DOMAIN LoopOf /\ ~ Unmoved(p) /\ call[p].tries + 1 >= MaxTries
  \* An ineligible task, another Change Set under this id, Git, a conflict
  \* with another claim.
  \/ pc[p] \in {"eligible", "changeset", "create", "acquire", "reacquiring"}

Refuse(p) == Refused(p) /\ Answer(p)

(* The process dies.                                                       *)
Crash(p) == pc[p] # "idle" /\ Answer(p)
-----------------------------------------------------------------------------
(* Direct calls of the other services, one append each; those that compare *)
(* the head take effect at one instant.                                    *)

ByOthers ==
  /\ others > 0
  /\ others' = others - 1
  /\ head' = head + 1
  /\ UNCHANGED <<clock, left, before, pc, call>>

MoveTask(to, at) ==
  /\ ByOthers
  /\ to # "done" /\ CanMove(to, at)
  /\ task' = Moved(to, at, None)
  /\ UNCHANGED <<binding, changeset, claim, review>>

(* Created, refreshed, merged, or taken back by a racing record.           *)
RecordChangeSet ==
  /\ ByOthers
  /\ \E h \in Commit, merged \in BOOLEAN :
       /\ changeset = None => ~ merged
       /\ changeset' = [head |-> h, merged |-> merged, updated |-> clock]
  /\ UNCHANGED <<task, binding, claim, review>>

RecordReview ==
  /\ ByOthers
  /\ changeset # None
  /\ \E h \in Commit, releasable \in BOOLEAN :
       review' = [head |-> h, releasable |-> releasable, at |-> clock]
  /\ UNCHANGED <<task, binding, changeset, claim>>

RecordClaim(by, at) ==
  /\ ByOthers
  /\ changeset # None
  /\ \/ claim = None /\ claim' = Acquired(by, at)
     \/ Reacquirable(by, at) /\ claim' = Reacquired(at)
     \/ Leased(by, at) /\ claim' \in {Renewed(at), Released(at)}
  /\ UNCHANGED <<task, binding, changeset, review>>

Tick ==
  /\ clock < MaxTime
  /\ clock' = clock + 1
  /\ UNCHANGED <<left, others, head, records, pc, call>>

Run(p) ==
  \/ GetBinding(p) \/ Eligible(p) \/ Reserve(p) \/ AppendReservation(p)
  \/ FindChangeSet(p) \/ CheckNewChangeSet(p) \/ CreateChangeSet(p)
  \/ FindClaim(p) \/ Acquire(p) \/ AppendAcquired(p)
  \/ Recover(p) \/ Runnable(p) \/ AppendReacquired(p)
  \/ FindTask(p) \/ Start(p) \/ AppendStarted(p) \/ Finish(p) \/ AppendFinished(p)
  \/ GetWork(p) \/ Prove(p) \/ Release(p) \/ AppendReleased(p)
  \/ Complete(p) \/ AppendDone(p)
  \/ Retry(p) \/ Refuse(p)

Others ==
  \/ \E to \in TaskState, at \in 0 .. clock : MoveTask(to, at)
  \/ RecordChangeSet
  \/ RecordReview
  \/ \E by \in Session, at \in 0 .. clock : RecordClaim(by, at)

Next ==
  \/ \E p \in Process :
       \/ Run(p) \/ Crash(p)
       \/ \E kind \in Kind, by \in Session : Begin(p, kind, by)
  \/ Others
  \/ Tick

Spec == Init /\ [][Next]_vars
-----------------------------------------------------------------------------
TypeOK ==
  /\ clock \in Nat /\ left \in Nat /\ others \in Nat /\ head \in Nat
  /\ task \in Task
  /\ binding \in Binding \cup {None}
  /\ changeset \in ChangeSet \cup {None}
  /\ claim \in Claim \cup {None}
  /\ review \in Review \cup {None}
  /\ before \in Evidence \cup {None}
  /\ pc \in [Process -> Pc]
  /\ call \in [Process -> Call \cup {None}]

(* However claims are retried, raced and interrupted, a task belongs to the*)
(* session that reserved it, and a claim that was completed stays so       *)
(* (TaskClaimService._reserve and _complete).                              *)
BindingIsFinal ==
  [][binding # None =>
       /\ binding' # None
       /\ binding'.by = binding.by /\ binding'.at = binding.at
       /\ binding.completed => binding'.completed]_vars

(* A completed binding was reached through all its steps, whichever calls  *)
(* made them: the Change Set exists and the claim is the bound session's   *)
(* (TaskClaimService._finish).                                             *)
CompletedIsBacked ==
  binding # None /\ binding.completed =>
    changeset # None /\ claim # None /\ claim.owner = binding.by

(* A lease that ran out comes back through the task only while the task is *)
(* in progress at that very instant (_reacquire_for_runnable_task): nobody *)
(* regains authority over work that was blocked or done in between.        *)
RecoversRunnableOnly ==
  [][\A p \in Process :
       pc[p] = "reacquiring" /\ claim' # claim /\ pc'[p] = "finish" =>
         task.state = "in_progress"]_vars

(* A task is done on what the ledger showed when it became so: its Change  *)
(* Set merged, the bound session's claim released, the last review         *)
(* releasable at the exact head.  Whatever is recorded later, a retry of   *)
(* the same completion finds this proof again.                             *)
DoneWasProven ==
  task.state = "done" =>
    /\ binding # None /\ binding.completed
    /\ before # None /\ Proves(before, binding, task.updated, TRUE)

(* Nobody works under the claim of a task that is done, now or later.      *)
DoneHoldsNoLease ==
  task.state = "done" => claim # None /\ claim.lock.state = "released"

=============================================================================
