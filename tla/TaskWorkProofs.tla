--------------------------- MODULE TaskWorkProofs ---------------------------
(***************************************************************************)
(* Proofs about TaskWork, for any processes, sessions, commits, leases and *)
(* bounds.  Two inductions: the types, with what a call has set at each    *)
(* point; and what a call may rely on, either for good, because bindings,  *)
(* Change Sets and the identity of claims are never taken back, or as long *)
(* as the head is where its snapshot was.                                  *)
(***************************************************************************)
EXTENDS TaskWork, TLAPS

Working == Pc \ {"idle", "get", "eligible", "bound"}

CallTyped(p) ==
  /\ pc[p] # "idle" => call[p] \in Call
  /\ pc[p] \in Working => call[p].work \in Binding
  /\ pc[p] = "releasing" => claim # None

TypeInv == TypeOK /\ \A p \in Process : CallTyped(p)
-----------------------------------------------------------------------------
(* Well-typed records.                                                     *)

LEMMA MovedTyped ==
  ASSUME NEW to \in TaskState, NEW at \in Nat, NEW by \in Session \cup {None}
  PROVE  Moved(to, at, by) \in Task
BY DEF Moved, Task

LEMMA AcquiredTyped ==
  ASSUME NEW by \in Session, NEW at \in Nat
  PROVE  Acquired(by, at) \in Claim
BY WorkAssumption DEF Acquired, Claim, Locks!Lock, Locks!AcquiredLock

LEMMA ClaimStepsTyped ==
  ASSUME claim \in Claim, NEW at \in Nat
  PROVE  /\ Reacquired(at) \in Claim
         /\ Released(at) \in Claim
         /\ Renewed(at) \in Claim
<1>1. claim.owner \in Session /\ claim.lock \in Locks!Lock
  BY DEF Claim
<1>2. ASSUME NEW expires \in Nat
      PROVE  /\ Locks!ReacquiredLock(claim.lock, at, expires) \in Locks!Lock
             /\ Locks!RenewedLock(claim.lock, at, expires) \in Locks!Lock
  BY <1>1 DEF Locks!Lock, Locks!ReacquiredLock, Locks!RenewedLock
<1>3. Locks!ReleasedLock(claim.lock, at) \in Locks!Lock
  BY <1>1 DEF Locks!Lock, Locks!ReleasedLock
<1>4. at + Lease \in Nat /\ claim.lock.expires + Lease \in Nat
  BY <1>1, WorkAssumption DEF Locks!Lock
<1>5. /\ Locks!ReacquiredLock(claim.lock, at, at + Lease) \in Locks!Lock
      /\ Locks!RenewedLock(claim.lock, at, claim.lock.expires + Lease) \in Locks!Lock
  BY <1>2, <1>4
<1>. QED
  BY <1>1, <1>3, <1>5 DEF Claim, Reacquired, Released, Renewed
-----------------------------------------------------------------------------
(* The first induction.                                                    *)

(* A step of one process that leaves its call well typed.                  *)
LEMMA StepKeepsCalls ==
  ASSUME TypeInv, NEW p \in Process, NEW x \in Pc, NEW y \in Call,
         pc' = [pc EXCEPT ![p] = x], call' = [call EXCEPT ![p] = y],
         x \in Working => y.work \in Binding,
         claim # None => claim' # None, x = "releasing" => claim # None
  PROVE  /\ pc' \in [Process -> Pc]
         /\ call' \in [Process -> Call \cup {None}]
         /\ \A q \in Process : CallTyped(q)'
<1>1. /\ pc \in [Process -> Pc]
      /\ call \in [Process -> Call \cup {None}]
      /\ \A q \in Process : CallTyped(q)
  BY DEF TypeInv, TypeOK
<1>2. pc' \in [Process -> Pc] /\ call' \in [Process -> Call \cup {None}]
  BY <1>1
<1>3. CallTyped(p)'
  BY <1>1 DEF CallTyped
<1>4. ASSUME NEW q \in Process, q # p PROVE CallTyped(q)'
  <2>1. pc'[q] = pc[q] /\ call'[q] = call[q]
    BY <1>1, <1>4
  <2>. QED
    BY <1>1, <2>1 DEF CallTyped
<1>. QED
  BY <1>2, <1>3, <1>4

LEMMA ReturnKeepsCalls ==
  ASSUME TypeInv, NEW p \in Process, Return(p), claim # None => claim' # None
  PROVE  /\ pc' \in [Process -> Pc]
         /\ call' \in [Process -> Call \cup {None}]
         /\ \A q \in Process : CallTyped(q)'
<1>1. /\ pc \in [Process -> Pc]
      /\ call \in [Process -> Call \cup {None}]
      /\ \A q \in Process : CallTyped(q)
  BY DEF TypeInv, TypeOK
<1>2. pc' = [pc EXCEPT ![p] = "idle"] /\ call' = [call EXCEPT ![p] = None]
  BY DEF Return, Goto
<1>3. pc' \in [Process -> Pc] /\ call' \in [Process -> Call \cup {None}]
  BY <1>1, <1>2 DEF Pc
<1>4. CallTyped(p)'
  BY <1>1, <1>2 DEF CallTyped, Working
<1>5. ASSUME NEW q \in Process, q # p PROVE CallTyped(q)'
  <2>1. pc'[q] = pc[q] /\ call'[q] = call[q]
    BY <1>1, <1>2, <1>5
  <2>. QED
    BY <1>1, <2>1 DEF CallTyped
<1>. QED
  BY <1>3, <1>4, <1>5

LEMMA PassTyped ==
  ASSUME TypeInv, NEW p \in Process, NEW x \in Pc, pc[p] # "idle", Pass(p, x),
         pc[p] \in Working \/ x \notin Working, x # "releasing"
  PROVE  TypeInv'
<1>1. /\ pc \in [Process -> Pc] /\ call \in [Process -> Call \cup {None}]
      /\ call[p] \in Call
      /\ x \in Working => call[p].work \in Binding
  BY DEF TypeInv, TypeOK, CallTyped
<1>2. pc' = [pc EXCEPT ![p] = x] /\ call' = [call EXCEPT ![p] = call[p]]
  BY <1>1 DEF Pass, Goto
<1>3. /\ pc' \in [Process -> Pc]
      /\ call' \in [Process -> Call \cup {None}]
      /\ \A q \in Process : CallTyped(q)'
  BY <1>1, <1>2, StepKeepsCalls DEF Pass, records
<1>. QED
  BY <1>3 DEF TypeInv, TypeOK, Pass, bounds, records

LEMMA AdoptTyped ==
  ASSUME TypeInv, NEW p \in Process, NEW x \in Pc, NEW w \in Binding,
         pc[p] # "idle", Adopt(p, w, x), x # "releasing"
  PROVE  TypeInv'
<1>1. /\ pc \in [Process -> Pc] /\ call \in [Process -> Call \cup {None}]
      /\ call[p] \in Call
  BY DEF TypeInv, TypeOK, CallTyped
<1>2. PICK y \in Call : y = [call[p] EXCEPT !.work = w]
  BY <1>1 DEF Call
<1>3. y.work = w
  BY <1>1, <1>2 DEF Call
<1>4. pc' = [pc EXCEPT ![p] = x] /\ call' = [call EXCEPT ![p] = y]
  BY <1>1, <1>2 DEF Adopt, Goto
<1>5. /\ pc' \in [Process -> Pc]
      /\ call' \in [Process -> Call \cup {None}]
      /\ \A q \in Process : CallTyped(q)'
  BY <1>3, <1>4, StepKeepsCalls DEF Adopt, records
<1>. QED
  BY <1>5 DEF TypeInv, TypeOK, Adopt, bounds, records

LEMMA SnapshotTyped ==
  ASSUME TypeInv, NEW p \in Process, NEW x \in Pc, pc[p] # "idle", Snapshot(p, x),
         pc[p] \in Working \/ x \notin Working, x = "releasing" => claim # None
  PROVE  TypeInv'
<1>1. /\ pc \in [Process -> Pc] /\ call \in [Process -> Call \cup {None}]
      /\ call[p] \in Call /\ head \in Nat
      /\ x \in Working => call[p].work \in Binding
  BY DEF TypeInv, TypeOK, CallTyped
<1>2. PICK y \in Call : y = [call[p] EXCEPT !.seen = head]
  BY <1>1 DEF Call
<1>3. y.work = call[p].work
  BY <1>1, <1>2 DEF Call
<1>4. pc' = [pc EXCEPT ![p] = x] /\ call' = [call EXCEPT ![p] = y]
  BY <1>1, <1>2 DEF Snapshot, Goto
<1>5. /\ pc' \in [Process -> Pc]
      /\ call' \in [Process -> Call \cup {None}]
      /\ \A q \in Process : CallTyped(q)'
  BY <1>1, <1>3, <1>4, StepKeepsCalls DEF Snapshot, records
<1>. QED
  BY <1>5 DEF TypeInv, TypeOK, Snapshot, bounds, records

RecordsOK ==
  /\ task \in Task
  /\ binding \in Binding \cup {None}
  /\ changeset \in ChangeSet \cup {None}
  /\ claim \in Claim \cup {None}
  /\ review \in Review \cup {None}
  /\ before \in Evidence \cup {None}

LEMMA AppendedTyped ==
  ASSUME TypeInv, NEW p \in Process, NEW x \in Pc, pc[p] \in Working, Appended(p, x),
         RecordsOK', claim # None => claim' # None, x # "releasing"
  PROVE  TypeInv'
<1>1. /\ pc \in [Process -> Pc] /\ call \in [Process -> Call \cup {None}]
      /\ call[p] \in Call /\ head \in Nat
      /\ call[p].work \in Binding
  BY DEF TypeInv, TypeOK, CallTyped, Working
<1>2. 0 \in 0 .. (MaxTries - 1)
  BY WorkAssumption
<1>3. PICK y \in Call : y = [call[p] EXCEPT !.tries = 0]
  BY <1>1, <1>2 DEF Call
<1>4. y.work = call[p].work
  BY <1>1, <1>3 DEF Call
<1>5. pc' = [pc EXCEPT ![p] = x] /\ call' = [call EXCEPT ![p] = y]
  BY <1>1, <1>3 DEF Appended, Goto
<1>6. /\ pc' \in [Process -> Pc]
      /\ call' \in [Process -> Call \cup {None}]
      /\ \A q \in Process : CallTyped(q)'
  BY <1>1, <1>4, <1>5, StepKeepsCalls
<1>7. head' \in Nat /\ clock' \in Nat /\ left' \in Nat /\ others' \in Nat
  BY <1>1 DEF Appended, bounds, TypeInv, TypeOK
<1>. QED
  BY <1>6, <1>7 DEF TypeInv, TypeOK, RecordsOK

LEMMA ReturnTyped ==
  ASSUME TypeInv, NEW p \in Process, Return(p), RecordsOK', head' \in Nat, UNCHANGED bounds,
         claim # None => claim' # None
  PROVE  TypeInv'
<1>1. /\ pc' \in [Process -> Pc]
      /\ call' \in [Process -> Call \cup {None}]
      /\ \A q \in Process : CallTyped(q)'
  BY ReturnKeepsCalls
<1>. QED
  BY <1>1 DEF TypeInv, TypeOK, RecordsOK, bounds

LEMMA AnswerTyped ==
  ASSUME TypeInv, NEW p \in Process, Answer(p)
  PROVE  TypeInv'
<1>1. RecordsOK' /\ head' \in Nat /\ UNCHANGED bounds /\ Return(p)
  BY DEF Answer, RecordsOK, TypeInv, TypeOK, records
<1>. QED
  BY <1>1, ReturnTyped DEF Answer, records

LEMMA TypeInit ==
  ASSUME Init
  PROVE  TypeInv
<1>1. /\ task \in Task
      /\ pc \in [Process -> Pc]
      /\ call \in [Process -> Call \cup {None}]
  BY DEF Init, Task, TaskState, Pc
<1>2. clock \in Nat /\ left \in Nat /\ others \in Nat /\ head \in Nat
  BY WorkAssumption DEF Init
<1>. QED
  BY <1>1, <1>2 DEF Init, TypeInv, TypeOK, CallTyped, Working

LEMMA ClaimCallTyped ==
  ASSUME TypeInv, NEW p \in Process,
         \/ GetBinding(p) \/ Eligible(p) \/ Reserve(p) \/ AppendReservation(p)
         \/ FindChangeSet(p) \/ CheckNewChangeSet(p) \/ CreateChangeSet(p)
         \/ FindClaim(p) \/ Acquire(p) \/ AppendAcquired(p)
         \/ Recover(p) \/ Runnable(p) \/ AppendReacquired(p)
         \/ FindTask(p) \/ Start(p) \/ AppendStarted(p) \/ Finish(p) \/ AppendFinished(p)
  PROVE  TypeInv'
<1>1. /\ pc \in [Process -> Pc]
      /\ call \in [Process -> Call \cup {None}]
      /\ pc[p] # "idle" => call[p] \in Call
      /\ pc[p] \in Working => call[p].work \in Binding
      /\ RecordsOK /\ head \in Nat
  BY DEF TypeInv, TypeOK, CallTyped, RecordsOK
<1>2. pc[p] # "idle" => /\ call[p].by \in Session /\ call[p].at \in Nat
                        /\ call[p].seen \in Nat
  BY <1>1 DEF Call
<1>3. CASE GetBinding(p)
  <2>1. CASE Pass(p, "eligible")
    BY <1>3, <2>1, PassTyped DEF GetBinding, Pc, Working
  <2>2. CASE Mine(p) /\ Adopt(p, binding, "changeset")
    <3>1. binding \in Binding
      BY <1>1, <2>2 DEF Mine, RecordsOK
    <3>. QED
      BY <1>3, <2>2, <3>1, AdoptTyped DEF GetBinding, Pc
  <2>. QED
    BY <1>3, <2>1, <2>2 DEF GetBinding
<1>4. CASE Eligible(p)
  <2>1. [by |-> call[p].by, at |-> call[p].at, completed |-> FALSE] \in Binding
    BY <1>2, <1>4 DEF Eligible, Binding
  <2>. QED
    BY <1>4, <2>1, AdoptTyped DEF Eligible, Pc
<1>5. CASE Reserve(p)
  <2>1. CASE Snapshot(p, "reserving")
    BY <1>5, <2>1, SnapshotTyped DEF Reserve, Pc, Working
  <2>2. CASE Mine(p) /\ Adopt(p, binding, "changeset")
    <3>1. binding \in Binding
      BY <1>1, <2>2 DEF Mine, RecordsOK
    <3>. QED
      BY <1>5, <2>2, <3>1, AdoptTyped DEF Reserve, Pc
  <2>. QED
    BY <1>5, <2>1, <2>2 DEF Reserve
<1>6. CASE AppendReservation(p)
  <2>1. RecordsOK'
    BY <1>1, <1>6 DEF AppendReservation, RecordsOK, Working, Pc
  <2>. QED
    BY <1>6, <2>1, AppendedTyped DEF AppendReservation, Pc, Working
<1>7. CASE FindChangeSet(p)
  BY <1>7, PassTyped DEF FindChangeSet, Pc, Working
<1>8. CASE CheckNewChangeSet(p)
  BY <1>8, PassTyped DEF CheckNewChangeSet, Pc, Working
<1>9. CASE CreateChangeSet(p)
  <2>1. call[p].work.at \in Nat
    BY <1>1, <1>9 DEF CreateChangeSet, Working, Pc, Binding
  <2>2. RecordsOK'
    BY <1>1, <1>9, <2>1 DEF CreateChangeSet, RecordsOK, ChangeSet
  <2>. QED
    BY <1>9, <2>2, AppendedTyped DEF CreateChangeSet, Pc, Working
<1>10. CASE FindClaim(p)
  BY <1>10, PassTyped DEF FindClaim, Pc, Working
<1>11. CASE Acquire(p)
  BY <1>11, SnapshotTyped DEF Acquire, Pc, Working
<1>12. CASE AppendAcquired(p)
  <2>1. call[p].work.by \in Session
    BY <1>1, <1>12 DEF AppendAcquired, Working, Pc, Binding
  <2>2. claim' \in Claim
    BY <1>2, <1>12, <2>1, AcquiredTyped DEF AppendAcquired
  <2>3. RecordsOK'
    BY <1>1, <1>12, <2>2 DEF AppendAcquired, RecordsOK
  <2>4. Appended(p, "task") /\ pc[p] \in Working /\ claim' # None
    BY <1>12, <2>2, WorkAssumption DEF AppendAcquired, Pc, Working
  <2>. QED
    BY <2>3, <2>4, AppendedTyped DEF Pc
<1>13. CASE Recover(p)
  BY <1>13, SnapshotTyped DEF Recover, Pc, Working
<1>14. CASE Runnable(p)
  BY <1>14, PassTyped DEF Runnable, Pc, Working
<1>15. CASE AppendReacquired(p)
  <2>1. claim \in Claim /\ call[p].at \in Nat
    BY <1>1, <1>2, <1>15 DEF AppendReacquired, Reacquirable, RecordsOK
  <2>2. claim' \in Claim
    BY <1>15, <2>1, ClaimStepsTyped DEF AppendReacquired
  <2>3. RecordsOK'
    BY <1>1, <1>15, <2>2 DEF AppendReacquired, RecordsOK
  <2>4. Appended(p, "finish") /\ pc[p] \in Working /\ claim' # None
    BY <1>15, <2>2, WorkAssumption DEF AppendReacquired, Pc, Working
  <2>. QED
    BY <2>3, <2>4, AppendedTyped DEF Pc
<1>16. CASE FindTask(p)
  BY <1>16, PassTyped DEF FindTask, Pc, Working
<1>17. CASE Start(p)
  BY <1>17, SnapshotTyped DEF Start, Pc, Working
<1>18. CASE AppendStarted(p)
  <2>1. call[p].work.by \in Session
    BY <1>1, <1>18 DEF AppendStarted, Working, Pc, Binding
  <2>2. task' \in Task
    BY <1>2, <1>18, <2>1, MovedTyped DEF AppendStarted, TaskState
  <2>3. RecordsOK'
    BY <1>1, <1>18, <2>2 DEF AppendStarted, RecordsOK
  <2>. QED
    BY <1>18, <2>3, AppendedTyped DEF AppendStarted, Pc, Working
<1>19. CASE Finish(p)
  <2>1. CASE Return(p) /\ UNCHANGED <<bounds, head, records>>
    <3>1. Answer(p)
      BY <2>1 DEF Answer
    <3>. QED
      BY <3>1, AnswerTyped
  <2>2. CASE pc' = [pc EXCEPT ![p] = "finishing"]
             /\ call' = [call EXCEPT ![p].seen = head,
                                     ![p].work = [binding EXCEPT !.completed = TRUE]]
             /\ UNCHANGED <<bounds, head, records>>
    <3>1. [binding EXCEPT !.completed = TRUE] \in Binding
      BY <1>1, <1>19 DEF Finish, RecordsOK, Binding
    <3>2. call[p] \in Call
      BY <1>1, <1>19 DEF Finish
    <3>3. PICK y \in Call :
            y = [call[p] EXCEPT !.seen = head,
                                !.work = [binding EXCEPT !.completed = TRUE]]
      BY <1>1, <3>1, <3>2 DEF Call
    <3>4. y.work \in Binding
      BY <3>1, <3>2, <3>3 DEF Call
    <3>5. call' = [call EXCEPT ![p] = y]
      BY <1>1, <2>2, <3>3
    <3>6. /\ pc' \in [Process -> Pc]
          /\ call' \in [Process -> Call \cup {None}]
          /\ \A q \in Process : CallTyped(q)'
      BY <2>2, <3>4, <3>5, StepKeepsCalls DEF Pc, records
    <3>. QED
      BY <2>2, <3>6 DEF TypeInv, TypeOK, bounds, records
  <2>. QED
    BY <1>19, <2>1, <2>2 DEF Finish, Goto
<1>20. CASE AppendFinished(p)
  <2>1. RecordsOK' /\ head' \in Nat /\ UNCHANGED bounds
    BY <1>1, <1>20 DEF AppendFinished, RecordsOK, Working, Pc
  <2>. QED
    BY <1>20, <2>1, ReturnTyped DEF AppendFinished
<1>. QED
  BY <1>3, <1>4, <1>5, <1>6, <1>7, <1>8, <1>9, <1>10, <1>11, <1>12, <1>13, <1>14,
     <1>15, <1>16, <1>17, <1>18, <1>19, <1>20

LEMMA CompleteCallTyped ==
  ASSUME TypeInv, NEW p \in Process,
         \/ GetWork(p) \/ Prove(p) \/ Release(p) \/ AppendReleased(p)
         \/ Complete(p) \/ AppendDone(p) \/ Retry(p) \/ Refuse(p) \/ Crash(p)
  PROVE  TypeInv'
<1>1. /\ pc \in [Process -> Pc]
      /\ call \in [Process -> Call \cup {None}]
      /\ pc[p] # "idle" => call[p] \in Call
      /\ pc[p] \in Working => call[p].work \in Binding
      /\ RecordsOK /\ head \in Nat
  BY DEF TypeInv, TypeOK, CallTyped, RecordsOK
<1>2. pc[p] # "idle" => /\ call[p].by \in Session /\ call[p].at \in Nat
                        /\ call[p].tries \in Nat
  BY <1>1 DEF Call
<1>3. CASE GetWork(p)
  <2>1. binding \in Binding
    BY <1>1, <1>3 DEF GetWork, RecordsOK
  <2>. QED
    BY <1>3, <2>1, AdoptTyped DEF GetWork, Pc
<1>4. CASE Prove(p)
  <2>1. CASE Answer(p)
    BY <2>1, AnswerTyped
  <2>2. ASSUME NEW x \in {"release", "complete"}, Pass(p, x) PROVE TypeInv'
    BY <1>4, <2>2, PassTyped DEF Prove, Pc, Working
  <2>3. CASE ~ Answer(p) /\ ClaimIs("active", call[p].at)
    <3>1. Pass(p, "release")
      BY <1>4, <2>3 DEF Prove
    <3>. QED
      BY <2>2, <3>1
  <2>4. CASE ~ Answer(p) /\ ~ ClaimIs("active", call[p].at)
    <3>1. Pass(p, "complete")
      BY <1>4, <2>4 DEF Prove
    <3>. QED
      BY <2>2, <3>1
  <2>. QED
    BY <2>1, <2>3, <2>4
<1>5. CASE Release(p)
  BY <1>5, SnapshotTyped DEF Release, Leased, Pc, Working
<1>6. CASE AppendReleased(p)
  <2>1. claim \in Claim
    BY <1>1, <1>6 DEF AppendReleased, RecordsOK, TypeInv, CallTyped
  <2>2. claim' \in Claim
    BY <1>2, <1>6, <2>1, ClaimStepsTyped DEF AppendReleased
  <2>3. RecordsOK'
    BY <1>1, <1>6, <2>2 DEF AppendReleased, RecordsOK
  <2>4. Appended(p, "complete") /\ pc[p] \in Working /\ claim' # None
    BY <1>6, <2>2, WorkAssumption DEF AppendReleased, Pc, Working
  <2>. QED
    BY <2>3, <2>4, AppendedTyped DEF Pc
<1>7. CASE Complete(p)
  BY <1>7, SnapshotTyped, AnswerTyped DEF Complete, Pc, Working
<1>8. CASE AppendDone(p)
  <2>1. task' \in Task
    BY <1>2, <1>8, MovedTyped DEF AppendDone, TaskState
  <2>2. before' \in Evidence
    BY <1>1, <1>8 DEF AppendDone, RecordsOK, Present, Evidence
  <2>3. RecordsOK' /\ head' \in Nat /\ UNCHANGED bounds
    BY <1>1, <1>8, <2>1, <2>2 DEF AppendDone, RecordsOK
  <2>. QED
    BY <1>8, <2>3, ReturnTyped DEF AppendDone
<1>9. CASE Retry(p)
  <2>1. LoopOf[pc[p]] \in Pc /\ pc[p] \in Working /\ call[p] \in Call
    BY <1>1, <1>9 DEF Retry, LoopOf, Pc, Working
  <2>2. call[p].tries + 1 \in 0 .. (MaxTries - 1)
    BY <1>2, <1>9, <2>1, WorkAssumption DEF Retry, Pc, Working
  <2>3. PICK y \in Call : y = [call[p] EXCEPT !.tries = call[p].tries + 1]
    BY <2>1, <2>2 DEF Call
  <2>4. y.work \in Binding
    BY <1>1, <2>1, <2>3 DEF Call
  <2>5. pc' = [pc EXCEPT ![p] = LoopOf[pc[p]]] /\ call' = [call EXCEPT ![p] = y]
    BY <1>1, <1>9, <2>3 DEF Retry, Goto
  <2>. LoopOf[pc[p]] # "releasing" /\ UNCHANGED claim
    BY <1>9 DEF Retry, LoopOf, records
  <2>6. /\ pc' \in [Process -> Pc]
        /\ call' \in [Process -> Call \cup {None}]
        /\ \A q \in Process : CallTyped(q)'
    BY <2>1, <2>4, <2>5, StepKeepsCalls
  <2>. QED
    BY <1>9, <2>6 DEF Retry, TypeInv, TypeOK, bounds, records
<1>10. CASE Refuse(p)
  BY <1>10, AnswerTyped DEF Refuse
<1>11. CASE Crash(p)
  BY <1>11, AnswerTyped DEF Crash
<1>. QED
  BY <1>3, <1>4, <1>5, <1>6, <1>7, <1>8, <1>9, <1>10, <1>11

LEMMA BeginTyped ==
  ASSUME TypeInv, NEW p \in Process, NEW kind \in Kind, NEW by \in Session,
         Begin(p, kind, by)
  PROVE  TypeInv'
<1>1. clock \in Nat /\ left \in Nat /\ head \in Nat
  BY DEF TypeInv, TypeOK
<1> DEFINE y == [kind |-> kind, by |-> by, at |-> clock, seen |-> head, tries |-> 0,
                 work |-> None]
           x == IF kind = "claim" THEN "get" ELSE "bound"
<1>2. y \in Call
  BY <1>1, WorkAssumption DEF Call
<1>3. x \in Pc /\ x \notin Working /\ x # "releasing" /\ UNCHANGED claim
  BY DEF Pc, Working, Begin, records
<1>4. pc' = [pc EXCEPT ![p] = x] /\ call' = [call EXCEPT ![p] = y]
  BY DEF Begin, Goto
<1> HIDE DEF x, y
<1>5. /\ pc' \in [Process -> Pc]
      /\ call' \in [Process -> Call \cup {None}]
      /\ \A q \in Process : CallTyped(q)'
  BY <1>2, <1>3, <1>4, StepKeepsCalls
<1>6. left' \in Nat
  BY <1>1 DEF Begin
<1>. QED
  BY <1>5, <1>6 DEF Begin, TypeInv, TypeOK, records

(* Steps that are no call's.                                               *)
LEMMA CallsUntouched ==
  ASSUME TypeInv, UNCHANGED <<pc, call>>, claim # None => claim' # None
  PROVE  /\ pc' \in [Process -> Pc]
         /\ call' \in [Process -> Call \cup {None}]
         /\ \A q \in Process : CallTyped(q)'
BY DEF TypeInv, TypeOK, CallTyped

LEMMA OthersTyped ==
  ASSUME TypeInv, Others \/ Tick
  PROVE  TypeInv'
<1>1. RecordsOK /\ head \in Nat /\ clock \in Nat /\ others \in Nat /\ left \in Nat
  BY DEF TypeInv, TypeOK, RecordsOK
<1>2. CASE Tick
  <2>1. clock' \in Nat /\ UNCHANGED <<pc, call>>
    BY <1>1, <1>2 DEF Tick
  <2>. QED
    BY <1>2, <2>1, CallsUntouched DEF Tick, TypeInv, TypeOK, records
<1>3. ASSUME ByOthers, RecordsOK', claim # None => claim' # None PROVE TypeInv'
  <2>1. others' \in Nat /\ head' \in Nat /\ UNCHANGED <<clock, left, pc, call>>
    BY <1>1, <1>3 DEF ByOthers
  <2>. QED
    BY <1>1, <1>3, <2>1, CallsUntouched DEF TypeInv, TypeOK, RecordsOK
<1>4. ASSUME NEW to \in TaskState, NEW at \in 0 .. clock, MoveTask(to, at)
      PROVE  TypeInv'
  <2>1. at \in Nat
    BY <1>1
  <2>2. task' \in Task
    BY <1>4, <2>1, MovedTyped DEF MoveTask
  <2>. QED
    BY <1>1, <1>3, <1>4, <2>2 DEF MoveTask, RecordsOK, ByOthers
<1>5. CASE RecordChangeSet
  BY <1>1, <1>3, <1>5 DEF RecordChangeSet, RecordsOK, ByOthers, ChangeSet
<1>6. CASE RecordReview
  BY <1>1, <1>3, <1>6 DEF RecordReview, RecordsOK, ByOthers, Review
<1>7. ASSUME NEW by \in Session, NEW at \in 0 .. clock, RecordClaim(by, at)
      PROVE  TypeInv'
  <2>1. at \in Nat
    BY <1>1
  <2>2. claim' \in Claim
    <3>1. CASE claim = None /\ claim' = Acquired(by, at)
      BY <2>1, <3>1, AcquiredTyped
    <3>2. CASE Reacquirable(by, at) /\ claim' = Reacquired(at)
      BY <1>1, <2>1, <3>2, ClaimStepsTyped DEF Reacquirable, RecordsOK
    <3>3. CASE Leased(by, at) /\ claim' \in {Renewed(at), Released(at)}
      BY <1>1, <2>1, <3>3, ClaimStepsTyped DEF Leased, RecordsOK
    <3>. QED
      BY <1>7, <3>1, <3>2, <3>3 DEF RecordClaim
  <2>. QED
    BY <1>1, <1>3, <1>7, <2>2, WorkAssumption DEF RecordClaim, RecordsOK, ByOthers
<1>. QED
  BY <1>2, <1>4, <1>5, <1>6, <1>7 DEF Others

LEMMA TypeStep ==
  ASSUME TypeInv, [Next]_vars
  PROVE  TypeInv'
<1>1. CASE UNCHANGED vars
  BY <1>1, CallsUntouched DEF vars, bounds, records, TypeInv, TypeOK
<1>2. ASSUME NEW p \in Process, Run(p) \/ Crash(p) PROVE TypeInv'
  BY <1>2, ClaimCallTyped, CompleteCallTyped DEF Run
<1>. QED
  BY <1>1, <1>2, BeginTyped, OthersTyped DEF Next

(* The state is always well typed, and a call that works on a binding has  *)
(* one.                                                                    *)
THEOREM TypeCorrect == Spec => []TypeOK
<1>1. Init => TypeInv
  BY TypeInit
<1>2. TypeInv /\ [Next]_vars => TypeInv'
  BY TypeStep
<1>3. TypeInv => TypeOK
  BY DEF TypeInv
<1>. QED
  BY <1>1, <1>2, <1>3, PTL DEF Spec

-----------------------------------------------------------------------------
(* The second induction: what a call may rely on.                          *)

Bound == {"changeset", "create", "creating", "claim", "acquire", "acquiring",
          "recover", "looking", "reacquiring", "task", "start", "starting",
          "finish", "finishing"}
Created == Bound \ {"changeset", "create", "creating"}
Owned == Created \ {"claim", "acquire", "acquiring"}
Proving == {"proof", "release", "releasing", "complete", "completing"}

(* For good: what has been seen of a binding, a Change Set and the identity*)
(* of a claim is never taken back.                                         *)
Holds(p) ==
  /\ pc[p] # "idle" => call[p].seen <= head
  /\ pc[p] \in Bound => binding # None /\ binding.by = call[p].work.by
                                       /\ binding.at = call[p].work.at
  /\ pc[p] \in Created => changeset # None
  /\ pc[p] \in Owned => claim # None /\ claim.owner = call[p].work.by
  /\ pc[p] \in Proving => binding = call[p].work /\ binding.completed
  /\ pc[p] \in {"reserve", "reserving"} => ~ call[p].work.completed
  /\ pc[p] = "finishing" => call[p].work.completed

(* As long as the head is where the call's snapshot was.                   *)
Knows(p) ==
  pc[p] # "idle" /\ Unmoved(p) =>
    /\ pc[p] = "reserving" => binding = None
    /\ pc[p] = "acquiring" => claim = None
    /\ pc[p] = "reacquiring" => task.state = "in_progress"
    /\ pc[p] = "starting" => CanMove("in_progress", call[p].at)
    /\ pc[p] = "releasing" => Leased(call[p].work.by, call[p].at)
    /\ pc[p] = "completing" => Proof(p, TRUE) /\ CanMove("done", call[p].at)

Backed == CompletedIsBacked /\ DoneWasProven /\ DoneHoldsNoLease

WorkInv == Backed /\ \A p \in Process : Holds(p) /\ Knows(p)

(* How the records of a step continue the earlier ones.                    *)
Grows ==
  /\ binding # None =>
       /\ binding' # None
       /\ binding'.by = binding.by /\ binding'.at = binding.at
       /\ binding.completed => binding'.completed
  /\ changeset # None => changeset' # None
  /\ claim # None => claim' # None /\ claim'.owner = claim.owner

Still == UNCHANGED <<head, records>>

LEMMA StillGrows ==
  ASSUME WorkInv, Still
  PROVE  Grows /\ Backed'
<1>1. Grows
  BY DEF Still, Grows, records
<1>2. CompletedIsBacked'
  BY DEF Still, records, WorkInv, Backed, CompletedIsBacked
<1>3. DoneWasProven'
  BY DEF Still, records, WorkInv, Backed, DoneWasProven, Proves
<1>4. DoneHoldsNoLease'
  BY DEF Still, records, WorkInv, Backed, DoneHoldsNoLease
<1>. QED
  BY <1>1, <1>2, <1>3, <1>4 DEF Backed

(* What a call may rely on survives the steps of others.                   *)
LEMMA OthersKeepWork ==
  ASSUME TypeInv, TypeInv', NEW q \in Process, Holds(q), Knows(q), Grows,
         Still \/ head' = head + 1,
         pc'[q] = pc[q], call'[q] = call[q]
  PROVE  Holds(q)' /\ Knows(q)'
<1>1. /\ head \in Nat /\ binding \in Binding \cup {None}
      /\ binding' \in Binding \cup {None}
      /\ pc[q] # "idle" => call[q] \in Call /\ call[q].seen \in Nat
      /\ None \notin Binding
  BY WorkAssumption DEF TypeInv, TypeOK, CallTyped, Call
<1>2. binding # None /\ binding.completed => binding' = binding
  BY <1>1 DEF Grows, Binding
<1>3. pc[q] \in Proving => binding # None
  BY <1>1, WorkAssumption DEF TypeInv, CallTyped, Holds, Proving, Working, Pc
<1>4. Holds(q)'
  <2>1. pc[q] # "idle" => call[q].seen <= head'
    BY <1>1 DEF Still, records, Holds
  <2>. QED
    BY <1>2, <1>3, <2>1 DEF Holds, Grows, Bound, Created, Owned
<1>5. Knows(q)'
  <2>1. CASE Still
    BY <2>1 DEF Still, records, Knows, Unmoved, CanMove, Leased, Proof, Proves, Available,
       Present
  <2>2. CASE head' = head + 1 /\ pc[q] # "idle"
    <3>1. ~ Unmoved(q)'
      BY <1>1, <2>2 DEF Unmoved, Holds
    <3>. QED
      BY <3>1 DEF Knows
  <2>3. CASE pc[q] = "idle"
    BY <2>3 DEF Knows
  <2>. QED
    BY <2>1, <2>2, <2>3
<1>. QED
  BY <1>4, <1>5

-----------------------------------------------------------------------------
(* A step of one call.                                                     *)

Alone(p) == \A q \in Process \ {p} : pc'[q] = pc[q] /\ call'[q] = call[q]

WorksOn(p) ==
  /\ Alone(p) /\ Grows /\ Backed'
  /\ Still \/ head' = head + 1
  /\ Holds(p)' /\ Knows(p)'

LEMMA WorkKept ==
  ASSUME TypeInv, TypeInv', WorkInv, NEW p \in Process, WorksOn(p)
  PROVE  WorkInv'
<1>1. ASSUME NEW q \in Process, q # p PROVE Holds(q)' /\ Knows(q)'
  <2>1. /\ pc'[q] = pc[q] /\ call'[q] = call[q]
        /\ Holds(q) /\ Knows(q) /\ Grows
        /\ Still \/ head' = head + 1
    BY <1>1 DEF WorksOn, Alone, WorkInv
  <2>. QED
    BY <2>1, OthersKeepWork
<1>2. Backed' /\ Holds(p)' /\ Knows(p)'
  BY DEF WorksOn
<1>. QED
  BY <1>1, <1>2 DEF WorkInv

LEMMA PassMoves ==
  ASSUME TypeInv, NEW p \in Process, NEW x, Pass(p, x)
  PROVE  Still /\ Alone(p) /\ pc'[p] = x /\ call'[p] = call[p]
<1>1. pc \in [Process -> Pc] /\ pc' = [pc EXCEPT ![p] = x]
  BY DEF TypeInv, TypeOK, Pass, Goto
<1>. QED
  BY <1>1 DEF Pass, Still, Alone

LEMMA AdoptMoves ==
  ASSUME TypeInv, NEW p \in Process, pc[p] # "idle", NEW x, NEW w, Adopt(p, w, x)
  PROVE  /\ Still /\ Alone(p) /\ pc'[p] = x
         /\ call'[p].work = w /\ call'[p].seen = call[p].seen
         /\ call'[p].at = call[p].at
<1>1. /\ pc \in [Process -> Pc] /\ call \in [Process -> Call \cup {None}]
      /\ call[p] \in Call
  BY DEF TypeInv, TypeOK, CallTyped
<1>2. pc' = [pc EXCEPT ![p] = x] /\ call' = [call EXCEPT ![p].work = w]
  BY DEF Adopt, Goto
<1>. QED
  BY <1>1, <1>2 DEF Adopt, Still, Alone, Call

LEMMA SnapshotMoves ==
  ASSUME TypeInv, NEW p \in Process, pc[p] # "idle", NEW x, Snapshot(p, x)
  PROVE  /\ Still /\ Alone(p) /\ pc'[p] = x
         /\ call'[p].seen = head /\ call'[p].work = call[p].work
         /\ call'[p].by = call[p].by /\ call'[p].at = call[p].at
<1>1. /\ pc \in [Process -> Pc] /\ call \in [Process -> Call \cup {None}]
      /\ call[p] \in Call
  BY DEF TypeInv, TypeOK, CallTyped
<1>2. pc' = [pc EXCEPT ![p] = x] /\ call' = [call EXCEPT ![p].seen = head]
  BY DEF Snapshot, Goto
<1>. QED
  BY <1>1, <1>2 DEF Snapshot, Still, Alone, Call

LEMMA AppendedMoves ==
  ASSUME TypeInv, NEW p \in Process, pc[p] # "idle", NEW x, Appended(p, x)
  PROVE  /\ head' = head + 1 /\ Alone(p) /\ pc'[p] = x
         /\ call'[p].work = call[p].work /\ call'[p].seen = call[p].seen
<1>1. /\ pc \in [Process -> Pc] /\ call \in [Process -> Call \cup {None}]
      /\ call[p] \in Call
  BY DEF TypeInv, TypeOK, CallTyped
<1>2. pc' = [pc EXCEPT ![p] = x] /\ call' = [call EXCEPT ![p].tries = 0]
  BY DEF Appended, Goto
<1>. QED
  BY <1>1, <1>2 DEF Appended, Alone, Call

LEMMA ReturnMoves ==
  ASSUME TypeInv, NEW p \in Process, Return(p)
  PROVE  Alone(p) /\ Holds(p)' /\ Knows(p)'
<1>1. pc \in [Process -> Pc] /\ call \in [Process -> Call \cup {None}]
  BY DEF TypeInv, TypeOK
<1>2. pc' = [pc EXCEPT ![p] = "idle"] /\ call' = [call EXCEPT ![p] = None]
  BY DEF Return, Goto
<1>3. pc'[p] = "idle"
  BY <1>1, <1>2
<1>. QED
  BY <1>1, <1>2, <1>3 DEF Alone, Holds, Knows, Bound, Created, Owned, Proving

LEMMA AnswerWorks ==
  ASSUME TypeInv, WorkInv, NEW p \in Process, Answer(p)
  PROVE  WorksOn(p)
<1>1. Return(p) /\ Still
  BY DEF Answer, Still
<1>. QED
  BY <1>1, ReturnMoves, StillGrows DEF WorksOn

(* A check that needs no snapshot to be remembered.                        *)
LEMMA PassWorks ==
  ASSUME TypeInv, WorkInv, NEW p \in Process, pc[p] # "idle", NEW x, Pass(p, x),
         x \in {"eligible", "create", "creating", "claim", "acquire", "recover",
                "task", "start", "finish", "release", "complete"},
         x \in Bound => pc[p] \in Bound,
         x \in Created => changeset # None,
         x \in Owned => claim # None /\ claim.owner = call[p].work.by,
         x \in Proving => pc[p] \in Proving
  PROVE  WorksOn(p)
<1>1. Still /\ Alone(p) /\ pc'[p] = x /\ call'[p] = call[p]
  BY PassMoves
<1>2. Holds(p)
  BY DEF WorkInv
<1>3. Holds(p)'
  BY <1>1, <1>2 DEF Holds, Still, records
<1>4. Knows(p)'
  BY <1>1 DEF Knows
<1>. QED
  BY <1>1, <1>3, <1>4, StillGrows DEF WorksOn

LEMMA SnapshotWorks ==
  ASSUME TypeInv, WorkInv, NEW p \in Process, pc[p] # "idle", NEW x, Snapshot(p, x),
         Knows(p)',
         x \in {"reserving", "acquiring", "looking", "starting", "releasing", "completing"},
         x = "reserving" => pc[p] = "reserve",
         x \in Bound => pc[p] \in Bound,
         x \in Created => pc[p] \in Created,
         x \in Owned => pc[p] \in Owned,
         x \in Proving => pc[p] \in Proving
  PROVE  WorksOn(p)
<1>1. /\ Still /\ Alone(p) /\ pc'[p] = x
      /\ call'[p].seen = head /\ call'[p].work = call[p].work
  BY SnapshotMoves
<1>2. Holds(p) /\ head \in Nat
  BY DEF WorkInv, TypeInv, TypeOK
<1>3. Holds(p)'
  BY <1>1, <1>2 DEF Holds, Still, records
<1>. QED
  BY <1>1, <1>3, StillGrows DEF WorksOn

-----------------------------------------------------------------------------
(* Steps that append nothing.                                              *)

LEMMA AdoptWorks ==
  ASSUME TypeInv, WorkInv, NEW p \in Process, pc[p] # "idle", binding # None,
         \/ Adopt(p, binding, "changeset")
         \/ Adopt(p, binding, "proof") /\ binding.completed
  PROVE  WorksOn(p)
<1>1. PICK x \in {"changeset", "proof"} :
        Adopt(p, binding, x) /\ (x = "proof" => binding.completed)
  OBVIOUS
<1>2. /\ Still /\ Alone(p) /\ pc'[p] = x
      /\ call'[p].work = binding /\ call'[p].seen = call[p].seen
  BY <1>1, AdoptMoves
<1>3. Holds(p)
  BY DEF WorkInv
<1>4. Holds(p)'
  BY <1>1, <1>2, <1>3 DEF Holds, Still, records, Bound, Created, Owned, Proving
<1>5. Knows(p)'
  BY <1>1, <1>2 DEF Knows
<1>. QED
  BY <1>2, <1>4, <1>5, StillGrows DEF WorksOn

LEMMA EligibleWorks ==
  ASSUME TypeInv, WorkInv, NEW p \in Process, Eligible(p)
  PROVE  WorksOn(p)
<1> DEFINE w == [by |-> call[p].by, at |-> call[p].at, completed |-> FALSE]
<1>1. Adopt(p, w, "reserve") /\ pc[p] # "idle"
  BY DEF Eligible
<1>2. ~ w.completed
  OBVIOUS
<1> HIDE DEF w
<1>3. /\ Still /\ Alone(p) /\ pc'[p] = "reserve"
      /\ call'[p].work = w /\ call'[p].seen = call[p].seen
  BY <1>1, AdoptMoves
<1>4. Holds(p)
  BY DEF WorkInv
<1>5. Holds(p)'
  BY <1>1, <1>2, <1>3, <1>4 DEF Holds, Still, records, Bound, Created, Owned, Proving
<1>6. Knows(p)'
  BY <1>3 DEF Knows
<1>. QED
  BY <1>3, <1>5, <1>6, StillGrows DEF WorksOn

LEMMA FinishWorks ==
  ASSUME TypeInv, WorkInv, NEW p \in Process, Finish(p)
  PROVE  WorksOn(p)
<1>1. CASE Return(p) /\ UNCHANGED <<bounds, head, records>>
  BY <1>1, AnswerWorks DEF Answer
<1>2. CASE /\ Goto(p, "finishing")
           /\ call' = [call EXCEPT ![p].seen = head,
                         ![p].work = [binding EXCEPT !.completed = TRUE]]
           /\ UNCHANGED <<bounds, head, records>>
  <2>1. /\ pc \in [Process -> Pc] /\ call \in [Process -> Call \cup {None}]
        /\ pc[p] = "finish" /\ call[p] \in Call /\ head \in Nat
        /\ binding \in Binding
    BY DEF Finish, TypeInv, TypeOK, CallTyped
  <2>2. pc' = [pc EXCEPT ![p] = "finishing"]
    BY <1>2 DEF Goto
  <2>3. Still /\ Alone(p) /\ pc'[p] = "finishing"
    BY <1>2, <2>1, <2>2 DEF Still, Alone
  <2>4. call'[p].seen = head /\ call'[p].work = [binding EXCEPT !.completed = TRUE]
    BY <1>2, <2>1 DEF Call
  <2>5. /\ call'[p].work.by = binding.by /\ call'[p].work.at = binding.at
        /\ call'[p].work.completed
    BY <2>1, <2>4 DEF Binding
  <2>6. /\ changeset # None /\ claim # None /\ claim.owner = binding.by
        /\ binding # None
    BY <2>1, WorkAssumption DEF WorkInv, Holds, Bound, Created, Owned
  <2>7. Holds(p)'
    BY <2>1, <2>3, <2>4, <2>5, <2>6 DEF Holds, Still, records, Proving
  <2>8. Knows(p)'
    BY <2>3 DEF Knows
  <2>. QED
    BY <2>3, <2>7, <2>8, StillGrows DEF WorksOn
<1>. QED
  BY <1>1, <1>2 DEF Finish

LEMMA RetryWorks ==
  ASSUME TypeInv, WorkInv, NEW p \in Process, Retry(p)
  PROVE  WorksOn(p)
<1>1. /\ pc \in [Process -> Pc] /\ call \in [Process -> Call \cup {None}]
      /\ call[p] \in Call /\ pc[p] \in DOMAIN LoopOf
  BY DEF Retry, TypeInv, TypeOK, CallTyped, LoopOf
<1>2. pc' = [pc EXCEPT ![p] = LoopOf[pc[p]]]
  BY DEF Retry, Goto
<1>3. /\ Still /\ Alone(p) /\ pc'[p] = LoopOf[pc[p]]
      /\ call'[p].work = call[p].work /\ call'[p].seen = call[p].seen
  BY <1>1, <1>2 DEF Retry, Still, Alone, Call
<1>4. Holds(p)
  BY DEF WorkInv
<1>5. Holds(p)'
  BY <1>1, <1>3, <1>4 DEF Holds, Still, records, LoopOf, Bound, Created, Owned, Proving
<1>6. Knows(p)'
  <2>1. pc'[p] \in {"reserve", "acquire", "recover", "start", "finish", "release",
                   "complete"}
    BY <1>1, <1>3 DEF LoopOf
  <2>. QED
    BY <2>1 DEF Knows
<1>. QED
  BY <1>3, <1>5, <1>6, StillGrows DEF WorksOn

(* The steps of a claim that check and look.                               *)
LEMMA ClaimChecksWork ==
  ASSUME TypeInv, WorkInv, NEW p \in Process,
         \/ GetBinding(p) \/ Reserve(p) \/ FindChangeSet(p) \/ CheckNewChangeSet(p)
         \/ FindClaim(p) \/ Acquire(p) \/ Recover(p) \/ Runnable(p) \/ FindTask(p)
         \/ Start(p)
  PROVE  WorksOn(p)
<1>1. Holds(p) /\ Knows(p)
  BY DEF WorkInv
<1>2. CASE GetBinding(p)
  <2>1. CASE Pass(p, "eligible")
    BY <1>2, <2>1, PassWorks DEF GetBinding, Bound, Created, Owned, Proving
  <2>. QED
    BY <1>2, <2>1, AdoptWorks DEF GetBinding, Mine
<1>3. CASE Reserve(p)
  <2>1. CASE binding = None /\ Snapshot(p, "reserving")
    <3>1. pc'[p] = "reserving" /\ Still
      BY <1>3, <2>1, SnapshotMoves DEF Reserve
    <3>2. Knows(p)'
      BY <2>1, <3>1 DEF Knows, Still, records
    <3>. QED
      BY <1>3, <2>1, <3>2, SnapshotWorks DEF Reserve, Bound, Created, Owned, Proving
  <2>. QED
    BY <1>3, <2>1, AdoptWorks DEF Reserve, Mine
<1>4. CASE FindChangeSet(p)
  <2>1. CASE changeset = None
    <3>1. Pass(p, "create") /\ pc[p] = "changeset"
      BY <1>4, <2>1 DEF FindChangeSet
    <3>. QED
      BY <3>1, PassWorks DEF Bound, Created, Owned, Proving
  <2>2. CASE changeset # None
    <3>1. Pass(p, "claim") /\ pc[p] = "changeset"
      BY <1>4, <2>2 DEF FindChangeSet
    <3>. QED
      BY <2>2, <3>1, PassWorks DEF Bound, Created, Owned, Proving
  <2>. QED
    BY <2>1, <2>2
<1>5. CASE CheckNewChangeSet(p)
  BY <1>5, PassWorks DEF CheckNewChangeSet, Bound, Created, Owned, Proving
<1>6. CASE FindClaim(p)
  <2>1. pc[p] = "claim" /\ changeset # None
    BY <1>1, <1>6 DEF FindClaim, Holds, Created, Bound
  <2>2. CASE Pass(p, "acquire")
    BY <2>1, <2>2, PassWorks DEF Bound, Created, Owned, Proving
  <2>3. CASE OwnsClaim(p) /\ Pass(p, "recover")
    BY <2>1, <2>3, PassWorks DEF OwnsClaim, Bound, Created, Owned, Proving
  <2>4. CASE OwnsClaim(p) /\ Pass(p, "task")
    BY <2>1, <2>4, PassWorks DEF OwnsClaim, Bound, Created, Owned, Proving
  <2>. QED
    BY <1>6, <2>2, <2>3, <2>4 DEF FindClaim
<1>7. CASE Acquire(p)
  <2>1. pc'[p] = "acquiring" /\ Still
    BY <1>7, SnapshotMoves DEF Acquire
  <2>2. Knows(p)'
    BY <1>7, <2>1 DEF Acquire, Knows, Still, records
  <2>. QED
    BY <1>7, <2>2, SnapshotWorks DEF Acquire, Bound, Created, Owned, Proving
<1>8. CASE Recover(p)
  <2>1. pc'[p] = "looking"
    BY <1>8, SnapshotMoves DEF Recover
  <2>2. Knows(p)'
    BY <2>1 DEF Knows
  <2>. QED
    BY <1>8, <2>2, SnapshotWorks DEF Recover, Bound, Created, Owned, Proving
<1>9. CASE Runnable(p)
  <2>1. Still /\ Alone(p) /\ pc'[p] = "reacquiring" /\ call'[p] = call[p]
    BY <1>9, PassMoves DEF Runnable
  <2>2. Holds(p)'
    BY <1>1, <1>9, <2>1
    DEF Runnable, Holds, Still, records, Bound, Created, Owned, Proving
  <2>3. Knows(p)'
    BY <1>9, <2>1 DEF Runnable, Knows, Still, records
  <2>. QED
    BY <2>1, <2>2, <2>3, StillGrows DEF WorksOn
<1>10. CASE FindTask(p)
  <2>1. pc[p] = "task" /\ claim # None /\ claim.owner = call[p].work.by /\ changeset # None
    BY <1>1, <1>10 DEF FindTask, Holds, Owned, Created, Bound
  <2>2. PICK x \in {"start", "finish"} : Pass(p, x)
    BY <1>10 DEF FindTask
  <2>. QED
    BY <2>1, <2>2, PassWorks DEF Bound, Created, Owned, Proving
<1>11. CASE Start(p)
  <2>1. /\ pc'[p] = "starting" /\ Still
        /\ call'[p].at = call[p].at
    BY <1>11, SnapshotMoves DEF Start
  <2>2. Knows(p)'
    BY <1>11, <2>1 DEF Start, Knows, Still, records, CanMove
  <2>. QED
    BY <1>11, <2>2, SnapshotWorks DEF Start, Bound, Created, Owned, Proving
<1>. QED
  BY <1>2, <1>3, <1>4, <1>5, <1>6, <1>7, <1>8, <1>9, <1>10, <1>11

(* Those of a completion.                                                  *)
LEMMA ProofsWork ==
  ASSUME TypeInv, WorkInv, NEW p \in Process,
         \/ GetWork(p) \/ Prove(p) \/ Release(p) \/ Complete(p)
         \/ Refuse(p) \/ Crash(p)
  PROVE  WorksOn(p)
<1>1. CASE Answer(p)
  BY <1>1, AnswerWorks
<1>2. CASE GetWork(p)
  BY <1>2, AdoptWorks DEF GetWork
<1>3. CASE Prove(p) /\ ~ Answer(p)
  <2>1. PICK x \in {"release", "complete"} : Pass(p, x)
    BY <1>3 DEF Prove
  <2>. QED
    BY <1>3, <2>1, PassWorks DEF Prove, Bound, Created, Owned, Proving
<1>4. CASE Release(p)
  <2>1. /\ pc'[p] = "releasing" /\ Still
        /\ call'[p].work = call[p].work /\ call'[p].at = call[p].at
    BY <1>4, SnapshotMoves DEF Release
  <2>2. Knows(p)'
    BY <1>4, <2>1 DEF Release, Knows, Still, records, Leased
  <2>. QED
    BY <1>4, <2>2, SnapshotWorks DEF Release, Bound, Created, Owned, Proving
<1>5. CASE Complete(p) /\ ~ Answer(p)
  <2>1. /\ pc[p] = "complete" /\ Proof(p, TRUE)
        /\ CanMove("done", call[p].at) /\ Snapshot(p, "completing")
    BY <1>5 DEF Complete
  <2>2. /\ pc'[p] = "completing" /\ Still
        /\ call'[p].work = call[p].work /\ call'[p].at = call[p].at
    BY <2>1, SnapshotMoves
  <2>3. Proof(p, TRUE)' /\ CanMove("done", call[p].at)'
    BY <2>1, <2>2 DEF Still, records, Proof, Proves, Available, Present, CanMove
  <2>4. Knows(p)'
    BY <2>2, <2>3 DEF Knows
  <2>. QED
    BY <2>1, <2>4, SnapshotWorks DEF Bound, Created, Owned, Proving
<1>. QED
  BY <1>1, <1>2, <1>3, <1>4, <1>5 DEF Refuse, Crash

-----------------------------------------------------------------------------
(* What appends do to the records.                                         *)

LEMMA ClaimRecordWorks ==
  ASSUME WorkInv, UNCHANGED <<task, binding, changeset, before>>, claim' # None,
         claim # None => claim'.owner = claim.owner /\ claim.lock.state # "released"
  PROVE  Grows /\ Backed'
<1>1. CompletedIsBacked /\ DoneWasProven /\ DoneHoldsNoLease
  BY DEF WorkInv, Backed
<1>2. task.state # "done"
  BY <1>1 DEF DoneHoldsNoLease
<1>3. Grows
  BY DEF Grows
<1>4. CompletedIsBacked'
  BY <1>1 DEF CompletedIsBacked
<1>. QED
  BY <1>2, <1>3, <1>4 DEF Backed, DoneWasProven, DoneHoldsNoLease

LEMMA TaskRecordWorks ==
  ASSUME WorkInv, UNCHANGED <<binding, changeset, claim, before>>, task'.state # "done"
  PROVE  Grows /\ Backed'
BY DEF WorkInv, Grows, Backed, CompletedIsBacked, DoneWasProven, DoneHoldsNoLease

LEMMA ChangeSetRecordWorks ==
  ASSUME WorkInv, UNCHANGED <<task, binding, claim, before>>,
         changeset # None => changeset' # None
  PROVE  Grows /\ Backed'
<1>1. CompletedIsBacked /\ DoneWasProven /\ DoneHoldsNoLease
  BY DEF WorkInv, Backed
<1>2. CompletedIsBacked' /\ DoneHoldsNoLease'
  BY <1>1 DEF CompletedIsBacked, DoneHoldsNoLease
<1>3. DoneWasProven'
  BY <1>1 DEF DoneWasProven, Proves
<1>. QED
  BY <1>2, <1>3 DEF Grows, Backed

(* Claims are recorded by calls and by others in the same three ways.      *)
LEMMA ClaimStepsWork ==
  ASSUME TypeInv, NEW by \in Session, NEW at \in Nat,
         \/ claim = None /\ claim' = Acquired(by, at)
         \/ Reacquirable(by, at) /\ claim' = Reacquired(at)
         \/ Leased(by, at) /\ claim' \in {Renewed(at), Released(at)}
  PROVE  /\ claim' # None
         /\ claim # None => claim'.owner = claim.owner /\ claim.lock.state # "released"
<1>1. claim \in Claim \cup {None} /\ None \notin Claim
  BY WorkAssumption DEF TypeInv, TypeOK
<1>2. CASE claim = None
  BY <1>1, <1>2, AcquiredTyped DEF Reacquirable, Leased
<1>3. CASE claim # None
  <2>1. Reacquired(at) \in Claim /\ Renewed(at) \in Claim /\ Released(at) \in Claim
    BY <1>1, <1>3, ClaimStepsTyped
  <2>2. /\ Reacquired(at).owner = claim.owner /\ Renewed(at).owner = claim.owner
        /\ Released(at).owner = claim.owner
    BY <1>1, <1>3 DEF Claim, Reacquired, Renewed, Released
  <2>3. claim.lock.state # "released"
    BY <1>3 DEF Reacquirable, Leased, Locks!CanReacquire, Locks!StateAt,
       Locks!ActiveLease
  <2>. QED
    BY <1>1, <1>3, <2>1, <2>2, <2>3
<1>. QED
  BY <1>2, <1>3

(* An append of a call that goes on with its next step.                    *)
LEMMA AppendedWorks ==
  ASSUME TypeInv, WorkInv, NEW p \in Process, pc[p] \in Working, NEW x, Appended(p, x),
         x \in {"changeset", "claim", "task", "finish", "complete"}, Grows, Backed',
         x \in Bound => /\ binding' # None /\ binding'.by = call[p].work.by
                        /\ binding'.at = call[p].work.at,
         x \in Created => changeset' # None,
         x \in Owned => claim' # None /\ claim'.owner = call[p].work.by,
         x \in Proving => pc[p] \in Proving /\ UNCHANGED binding
  PROVE  WorksOn(p)
<1>1. pc[p] # "idle" /\ call[p] \in Call /\ head \in Nat /\ call[p].seen \in Nat
  BY DEF TypeInv, TypeOK, CallTyped, Working, Call
<1>2. /\ head' = head + 1 /\ Alone(p) /\ pc'[p] = x
      /\ call'[p].work = call[p].work /\ call'[p].seen = call[p].seen
  BY <1>1, AppendedMoves
<1>3. Holds(p)
  BY DEF WorkInv
<1>4. call'[p].seen <= head'
  BY <1>1, <1>2, <1>3 DEF Holds
<1>5. Holds(p)'
  BY <1>2, <1>3, <1>4 DEF Holds
<1>6. Knows(p)'
  BY <1>2 DEF Knows
<1>. QED
  BY <1>2, <1>5, <1>6 DEF WorksOn

LEMMA AppendsWork ==
  ASSUME TypeInv, WorkInv, NEW p \in Process,
         \/ AppendReservation(p) \/ CreateChangeSet(p) \/ AppendAcquired(p)
         \/ AppendReacquired(p) \/ AppendStarted(p) \/ AppendFinished(p)
         \/ AppendReleased(p) \/ AppendDone(p)
  PROVE  WorksOn(p)
<1>1. /\ Holds(p) /\ Knows(p) /\ CompletedIsBacked /\ DoneWasProven
      /\ DoneHoldsNoLease
  BY DEF WorkInv, Backed
<1>2. /\ pc[p] \in Working /\ call[p] \in Call /\ call[p].work \in Binding
      /\ call[p].at \in Nat /\ call[p].work.by \in Session
      /\ None \notin Binding
  BY WorkAssumption
  DEF TypeInv, TypeOK, CallTyped, Call, Binding, Working, Pc, AppendReservation,
      CreateChangeSet, AppendAcquired, AppendReacquired, AppendStarted,
      AppendFinished, AppendReleased, AppendDone
<1>3. CASE AppendReservation(p)
  <2>1. binding = None /\ binding' = call[p].work /\ ~ call[p].work.completed
    BY <1>1, <1>3 DEF AppendReservation, Knows, Holds
  <2>2. Grows /\ CompletedIsBacked'
    BY <1>3, <2>1 DEF AppendReservation, Grows, CompletedIsBacked
  <2>3. DoneWasProven' /\ DoneHoldsNoLease'
    BY <1>1, <1>3, <2>1 DEF AppendReservation, DoneWasProven, DoneHoldsNoLease
  <2>4. Appended(p, "changeset") /\ binding' # None
    BY <1>2, <1>3, <2>1 DEF AppendReservation
  <2>. QED
    BY <1>2, <2>1, <2>2, <2>3, <2>4, AppendedWorks
    DEF Backed, Bound, Created, Owned, Proving
<1>4. CASE CreateChangeSet(p)
  <2>1. PICK h \in Commit :
          changeset' = [head |-> h, merged |-> FALSE, updated |-> call[p].work.at]
    BY <1>4 DEF CreateChangeSet
  <2>2. call[p].work.at \in Nat
    BY <1>2 DEF Binding
  <2>3. changeset' # None
    <3>1. changeset' \in ChangeSet
      BY <2>1, <2>2 DEF ChangeSet
    <3>. QED
      BY <3>1, WorkAssumption
  <2>4. Grows /\ Backed'
    BY <1>4, <2>3, ChangeSetRecordWorks DEF CreateChangeSet
  <2>5. /\ binding' # None /\ binding'.by = call[p].work.by
        /\ binding'.at = call[p].work.at
        /\ Appended(p, "claim")
    BY <1>1, <1>4 DEF CreateChangeSet, Holds, Bound
  <2>. QED
    BY <1>2, <2>3, <2>4, <2>5, AppendedWorks DEF Bound, Created, Owned, Proving
<1>5. CASE AppendAcquired(p)
  <2>1. claim = None /\ claim' = Acquired(call[p].work.by, call[p].at)
    BY <1>1, <1>5 DEF AppendAcquired, Knows
  <2>2. Grows /\ Backed' /\ claim' # None
    BY <1>2, <1>5, <2>1, ClaimStepsWork, ClaimRecordWorks DEF AppendAcquired
  <2>3. claim'.owner = call[p].work.by
    BY <2>1 DEF Acquired
  <2>4. /\ binding' # None /\ binding'.by = call[p].work.by
        /\ binding'.at = call[p].work.at /\ changeset' # None
        /\ Appended(p, "task")
    BY <1>1, <1>5 DEF AppendAcquired, Holds, Bound, Created
  <2>. QED
    BY <1>2, <2>2, <2>3, <2>4, AppendedWorks DEF Bound, Created, Owned, Proving
<1>6. CASE AppendReacquired(p)
  <2>1. Grows /\ Backed' /\ claim' # None
    BY <1>2, <1>6, ClaimStepsWork, ClaimRecordWorks DEF AppendReacquired
  <2>2. claim'.owner = call[p].work.by
    BY <1>6, <2>1 DEF AppendReacquired, Grows, Reacquirable
  <2>3. /\ binding' # None /\ binding'.by = call[p].work.by
        /\ binding'.at = call[p].work.at /\ changeset' # None
        /\ Appended(p, "finish")
    BY <1>1, <1>6 DEF AppendReacquired, Holds, Bound, Created
  <2>. QED
    BY <1>2, <2>1, <2>2, <2>3, AppendedWorks DEF Bound, Created, Owned, Proving
<1>7. CASE AppendStarted(p)
  <2>1. task'.state # "done"
    BY <1>7 DEF AppendStarted, Moved
  <2>2. Grows /\ Backed'
    BY <1>7, <2>1, TaskRecordWorks DEF AppendStarted
  <2>3. /\ binding' # None /\ binding'.by = call[p].work.by
        /\ binding'.at = call[p].work.at /\ changeset' # None
        /\ claim' # None /\ claim'.owner = call[p].work.by
        /\ Appended(p, "finish")
    BY <1>1, <1>7 DEF AppendStarted, Holds, Bound, Created, Owned
  <2>. QED
    BY <1>2, <2>2, <2>3, AppendedWorks DEF Proving
<1>8. CASE AppendFinished(p)
  <2>1. /\ binding # None /\ binding' = call[p].work /\ call[p].work.completed
        /\ binding.by = call[p].work.by /\ binding.at = call[p].work.at
        /\ changeset # None /\ claim # None /\ claim.owner = call[p].work.by
    BY <1>1, <1>8 DEF AppendFinished, Holds, Bound, Created, Owned
  <2>2. Grows /\ CompletedIsBacked'
    BY <1>2, <1>8, <2>1 DEF AppendFinished, Grows, CompletedIsBacked
  <2>3. DoneWasProven' /\ DoneHoldsNoLease'
    BY <1>1, <1>2, <1>8, <2>1
    DEF AppendFinished, DoneWasProven, DoneHoldsNoLease, Proves
  <2>4. Alone(p) /\ Holds(p)' /\ Knows(p)' /\ head' = head + 1
    BY <1>8, ReturnMoves DEF AppendFinished
  <2>. QED
    BY <2>2, <2>3, <2>4 DEF WorksOn, Backed
<1>9. CASE AppendReleased(p)
  <2>1. Leased(call[p].work.by, call[p].at)
    BY <1>1, <1>2, <1>9 DEF AppendReleased, Knows
  <2>2. Grows /\ Backed'
    BY <1>2, <1>9, <2>1, ClaimStepsWork, ClaimRecordWorks DEF AppendReleased
  <2>3. pc[p] \in Proving /\ UNCHANGED binding /\ Appended(p, "complete")
    BY <1>9 DEF AppendReleased, Proving
  <2>. QED
    BY <1>2, <2>2, <2>3, AppendedWorks DEF Bound, Created, Owned
<1>10. CASE AppendDone(p)
  <2>1. Proof(p, TRUE) /\ CanMove("done", call[p].at)
    BY <1>1, <1>10 DEF AppendDone, Knows
  <2>2. task.state # "done"
    BY <2>1 DEF CanMove, Transitions
  <2>3. /\ binding # None /\ binding.completed
        /\ Proves(Present, binding, call[p].at, TRUE)
    BY <1>1, <1>2, <1>10, <2>1, <2>2
    DEF AppendDone, Holds, Proving, Proof, Available
  <2>4. task'.updated = call[p].at /\ before' = Present /\ UNCHANGED <<binding, claim>>
    BY <1>10 DEF AppendDone, Moved
  <2>5. before' # None
    <3>1. Present \in Evidence
      BY DEF Present, Evidence, TypeInv, TypeOK
    <3>. QED
      BY <2>4, <3>1, WorkAssumption
  <2>6. DoneWasProven'
    BY <2>3, <2>4, <2>5 DEF DoneWasProven, Proves
  <2>7. DoneHoldsNoLease'
    BY <2>3, <2>4 DEF DoneHoldsNoLease, Proves, Present, Locks!StateAt
  <2>8. Grows /\ CompletedIsBacked'
    BY <1>1, <1>10 DEF AppendDone, Grows, CompletedIsBacked
  <2>9. Alone(p) /\ Holds(p)' /\ Knows(p)' /\ head' = head + 1
    BY <1>10, ReturnMoves DEF AppendDone
  <2>. QED
    BY <2>6, <2>7, <2>8, <2>9 DEF WorksOn, Backed
<1>. QED
  BY <1>3, <1>4, <1>5, <1>6, <1>7, <1>8, <1>9, <1>10

-----------------------------------------------------------------------------
LEMMA BeginWorks ==
  ASSUME TypeInv, WorkInv, NEW p \in Process, NEW kind \in Kind, NEW by \in Session,
         Begin(p, kind, by)
  PROVE  WorksOn(p)
<1> DEFINE y == [kind |-> kind, by |-> by, at |-> clock, seen |-> head, tries |-> 0,
                 work |-> None]
           x == IF kind = "claim" THEN "get" ELSE "bound"
<1>1. /\ pc \in [Process -> Pc] /\ call \in [Process -> Call \cup {None}]
      /\ head \in Nat
  BY DEF TypeInv, TypeOK
<1>2. y.seen = head /\ x \in {"get", "bound"}
  OBVIOUS
<1>3. pc' = [pc EXCEPT ![p] = x] /\ call' = [call EXCEPT ![p] = y]
  BY DEF Begin, Goto
<1> HIDE DEF x, y
<1>4. Alone(p) /\ pc'[p] \in {"get", "bound"} /\ call'[p].seen = head
  BY <1>1, <1>2, <1>3 DEF Alone
<1>5. Still
  BY DEF Begin, Still
<1>6. call'[p].seen <= head'
  BY <1>1, <1>4, <1>5 DEF Still
<1>7. Holds(p)'
  BY <1>4, <1>6 DEF Holds, Bound, Created, Owned, Proving
<1>8. Knows(p)'
  BY <1>4 DEF Knows
<1>. QED
  BY <1>4, <1>5, <1>7, <1>8, StillGrows DEF WorksOn

LEMMA UntouchedWork ==
  ASSUME TypeInv, TypeInv', WorkInv, Grows, Backed', Still \/ head' = head + 1,
         UNCHANGED <<pc, call>>
  PROVE  WorkInv'
<1>1. ASSUME NEW q \in Process PROVE Holds(q)' /\ Knows(q)'
  <2>1. pc'[q] = pc[q] /\ call'[q] = call[q] /\ Holds(q) /\ Knows(q)
    BY <1>1 DEF WorkInv
  <2>. QED
    BY <2>1, OthersKeepWork
<1>. QED
  BY <1>1 DEF WorkInv

LEMMA OthersWork ==
  ASSUME TypeInv, TypeInv', WorkInv, Others
  PROVE  WorkInv' /\ Grows
<1>1. ASSUME ByOthers, Grows, Backed' PROVE WorkInv' /\ Grows
  BY <1>1, UntouchedWork DEF ByOthers
<1>2. /\ clock \in Nat /\ changeset \in ChangeSet \cup {None}
      /\ None \notin ChangeSet
  BY WorkAssumption DEF TypeInv, TypeOK
<1>3. ASSUME NEW to \in TaskState, NEW at \in 0 .. clock, MoveTask(to, at)
      PROVE  WorkInv' /\ Grows
  <2>1. task'.state # "done"
    BY <1>3 DEF MoveTask, Moved
  <2>2. Grows /\ Backed'
    BY <1>3, <2>1, TaskRecordWorks DEF MoveTask, ByOthers
  <2>. QED
    BY <1>1, <1>3, <2>2 DEF MoveTask
<1>4. CASE RecordChangeSet
  <2>1. changeset' # None
    <3>1. PICK h \in Commit, merged \in BOOLEAN :
            changeset' = [head |-> h, merged |-> merged, updated |-> clock]
      BY <1>4 DEF RecordChangeSet
    <3>2. changeset' \in ChangeSet
      BY <1>2, <3>1 DEF ChangeSet
    <3>. QED
      BY <1>2, <3>2
  <2>2. Grows /\ Backed'
    BY <1>4, <2>1, ChangeSetRecordWorks DEF RecordChangeSet, ByOthers
  <2>. QED
    BY <1>1, <1>4, <2>2 DEF RecordChangeSet
<1>5. CASE RecordReview
  <2>1. Grows /\ Backed'
    BY <1>5, ChangeSetRecordWorks DEF RecordReview, ByOthers
  <2>. QED
    BY <1>1, <1>5, <2>1 DEF RecordReview
<1>6. ASSUME NEW by \in Session, NEW at \in 0 .. clock, RecordClaim(by, at)
      PROVE  WorkInv' /\ Grows
  <2>1. at \in Nat
    BY <1>2
  <2>2. Grows /\ Backed'
    BY <1>6, <2>1, ClaimStepsWork, ClaimRecordWorks DEF RecordClaim, ByOthers
  <2>. QED
    BY <1>1, <1>6, <2>2 DEF RecordClaim
<1>. QED
  BY <1>3, <1>4, <1>5, <1>6 DEF Others

LEMMA WorkStep ==
  ASSUME TypeInv, TypeInv', WorkInv, [Next]_vars
  PROVE  WorkInv' /\ Grows
<1>1. CASE Tick \/ UNCHANGED vars
  <2>1. Still /\ UNCHANGED <<pc, call>>
    BY <1>1 DEF Tick, Still, vars
  <2>. QED
    BY <2>1, StillGrows, UntouchedWork
<1>2. ASSUME NEW p \in Process, Run(p) \/ Crash(p) PROVE WorkInv' /\ Grows
  <2>1. WorksOn(p)
    BY <1>2, ClaimChecksWork, ProofsWork, AppendsWork, EligibleWorks, FinishWorks,
       RetryWorks DEF Run
  <2>. QED
    BY <2>1, WorkKept DEF WorksOn
<1>3. ASSUME NEW p \in Process, NEW kind \in Kind, NEW by \in Session,
             Begin(p, kind, by)
      PROVE  WorkInv' /\ Grows
  BY <1>3, BeginWorks, WorkKept DEF WorksOn
<1>. QED
  BY <1>1, <1>2, <1>3, OthersWork DEF Next

LEMMA WorkInit ==
  ASSUME Init
  PROVE  WorkInv
<1>1. Backed
  BY DEF Init, Backed, CompletedIsBacked, DoneWasProven, DoneHoldsNoLease
<1>2. ASSUME NEW p \in Process PROVE Holds(p) /\ Knows(p)
  <2>1. pc[p] = "idle"
    BY DEF Init
  <2>. QED
    BY <2>1 DEF Holds, Knows, Bound, Created, Owned, Proving
<1>. QED
  BY <1>1, <1>2 DEF WorkInv

LEMMA WorkInvariant == Spec => [](TypeInv /\ WorkInv)
<1>1. Init => TypeInv /\ WorkInv
  BY TypeInit, WorkInit
<1>2. TypeInv /\ WorkInv /\ [Next]_vars => TypeInv' /\ WorkInv'
  BY TypeStep, WorkStep
<1>. QED
  BY <1>1, <1>2, PTL DEF Spec

(* A completed binding has its Change Set and its own session's claim,     *)
(* however many calls took part in completing it.                          *)
THEOREM CompletedBacked == Spec => []CompletedIsBacked
<1>1. WorkInv => CompletedIsBacked
  BY DEF WorkInv, Backed
<1>. QED
  BY <1>1, WorkInvariant, PTL

(* Done rests on a proof that held at that instant and is found again by   *)
(* every later retry.                                                      *)
THEOREM DoneProven == Spec => []DoneWasProven
<1>1. WorkInv => DoneWasProven
  BY DEF WorkInv, Backed
<1>. QED
  BY <1>1, WorkInvariant, PTL

(* The claim of a task that is done is released for good.                  *)
THEOREM DoneReleased == Spec => []DoneHoldsNoLease
<1>1. WorkInv => DoneHoldsNoLease
  BY DEF WorkInv, Backed
<1>. QED
  BY <1>1, WorkInvariant, PTL

(* A binding stays with the session it was made for, and completed once it *)
(* is, whatever calls are under way.                                       *)
THEOREM BindingStays == Spec => BindingIsFinal
<1>1. TypeInv /\ TypeInv' /\ WorkInv /\ [Next]_vars => Grows
  BY WorkStep
<1>2. Grows => (binding # None =>
                  /\ binding' # None
                  /\ binding'.by = binding.by /\ binding'.at = binding.at
                  /\ binding.completed => binding'.completed)
  BY DEF Grows
<1>. QED
  BY <1>1, <1>2, WorkInvariant, PTL DEF Spec, BindingIsFinal

(* A claim under a lease that ran out gets a new one only while its task is*)
(* in progress.                                                            *)
THEOREM RecoversOnlyRunnable == Spec => RecoversRunnableOnly
<1> DEFINE A == \A p \in Process :
                  pc[p] = "reacquiring" /\ claim' # claim /\ pc'[p] = "finish" =>
                    task.state = "in_progress"
<1>1. ASSUME TypeInv, WorkInv, [Next]_vars PROVE A
  <2>1. SUFFICES ASSUME NEW p \in Process, pc[p] = "reacquiring", claim' # claim,
                        pc'[p] = "finish"
                 PROVE  task.state = "in_progress"
    OBVIOUS
  <2>2. pc \in [Process -> Pc]
    BY <1>1 DEF TypeInv, TypeOK
  <2>3. CASE AppendReacquired(p)
    BY <1>1, <2>1, <2>3 DEF AppendReacquired, WorkInv, Knows
  <2>4. ASSUME NEW q \in Process, q # p,
               \/ Run(q) \/ Crash(q)
               \/ \E kind \in Kind, by \in Session : Begin(q, kind, by)
        PROVE  FALSE
    <3>1. PICK x : pc' = [pc EXCEPT ![q] = x]
      BY <2>4 DEF Run, Crash, Begin, Goto, Return, Answer, Pass, Adopt, Snapshot,
         Appended, GetBinding, Eligible, Reserve, AppendReservation, FindChangeSet,
         CheckNewChangeSet, CreateChangeSet, FindClaim, Acquire, AppendAcquired,
         Recover, Runnable, AppendReacquired, FindTask, Start, AppendStarted, Finish,
         AppendFinished, GetWork, Prove, Release, AppendReleased, Complete,
         AppendDone, Retry, Refuse
    <3>. QED
      BY <2>1, <2>2, <2>4, <3>1
  <2>5. CASE Others \/ Tick \/ UNCHANGED vars
    BY <2>1, <2>5 DEF Others, Tick, vars, MoveTask, RecordChangeSet, RecordReview,
       RecordClaim, ByOthers
  <2>6. ASSUME Run(p) \/ Crash(p) PROVE AppendReacquired(p)
    BY <2>1, <2>2, <2>6 DEF Run, Crash, Goto, Return, Answer, records,
         GetBinding, Eligible, Reserve, AppendReservation, FindChangeSet,
         CheckNewChangeSet, CreateChangeSet, FindClaim, Acquire, AppendAcquired,
         Recover, Runnable, FindTask, Start, AppendStarted, Finish,
         AppendFinished, GetWork, Prove, Release, AppendReleased, Complete,
         AppendDone, Retry, Refuse
  <2>7. ASSUME NEW kind \in Kind, NEW by \in Session, Begin(p, kind, by) PROVE FALSE
    BY <2>1, <2>7 DEF Begin
  <2>. QED
    BY <1>1, <2>3, <2>4, <2>5, <2>6, <2>7 DEF Next
<1>. QED
  BY <1>1, WorkInvariant, PTL DEF Spec, RecoversRunnableOnly
=============================================================================
