--------------------------- MODULE ChangeWorkflow ---------------------------
(***************************************************************************)
(* The life of one Change Set: application/workspace.py, lifecycle.py,     *)
(* local_workflow.py and the services they call.  Its records are appended *)
(* to the shared ledger without comparing the head: a call reads the latest*)
(* record, looks at Git in several commands, and writes what it computed.  *)
(* Evidence, reviews and handoffs are records of their own, bound to the   *)
(* head that was observed.  Meanwhile the worktree belongs to somebody     *)
(* else, and any process may die.                                          *)
(*                                                                         *)
(* head is the length of the ledger, not counting scope audits, which      *)
(* nothing here reads again.  Amendments of scope are modelled in          *)
(* ClaimService; base and branch take part in the lineage as the head does *)
(* and are left out.                                                       *)
(***************************************************************************)
EXTENDS Naturals, Sequences

CONSTANTS
  Process,     \* running service calls
  Commit,      \* heads the worktree may be on
  Covered,     \* commits whose changed paths the declared scopes cover
  Worktree,    \* the Git states the worktree may be in
  EvidenceKind,
  Results,     \* how a command may end
  RecordId,    \* ids of evidence, reviews and handoffs, given by callers
  Requests,    \* the calls that processes may make
  None,
  MaxTime,     \* bound: the clock stops here
  MaxCalls     \* bound: so many calls are made

Lifecycle == {"active", "review", "merged", "closed", "abandoned"}

Status == {"clean", "inside", "outside"} \* dirty paths, against the scopes

GitState == [head : Commit, status : Status, attached : BOOLEAN]

Observation == [head : Commit, status : Status, at : Nat]

(* The Change Set's lineage ends at its latest observation; n counts the   *)
(* observations and is what their ids are made of.                         *)
Binding == [state : Lifecycle, n : Nat \ {0}, latest : Observation,
            updated : Nat]

Evidence == [id : RecordId, of : EvidenceKind, head : Commit, at : Nat,
             state : Results]

Outcome == {"ready", "blocked", "stale", "incomplete"}

(* audited is the observation the findings of the decision are about, seen *)
(* the number of evidence records it lists, kinds what its policy requires.*)
Review == [id : RecordId, head : Commit, outcome : Outcome,
           audited : Observation, seen : Nat, kinds : SUBSET EvidenceKind]

Handoff == [id : RecordId, head : Commit, at : Nat]

Kind == {"create", "refresh", "transition", "evidence", "review", "handoff"}

(* to is the state a transition asks for, of the kind of evidence to run,  *)
(* kinds what a review requires.                                           *)
Request == [kind : Kind, id : RecordId, to : Lifecycle, of : EvidenceKind,
            kinds : SUBSET EvidenceKind]

(* The local variables of a call: its timestamp, the record it read and the*)
(* head of the ledger then, the Git head it saw, the record it will write, *)
(* the document it will append.                                            *)
Call == [req : Request, at : Nat, seen : Nat, base : Binding \cup {None},
         look : Commit \cup {None}, next : Binding \cup {None},
         draft : Evidence \cup Review \cup Handoff \cup {None}]

Pc == {"idle", "unique", "read", "gate", "reread", "git", "status", "record",
       "rebind", "intent", "run", "gather", "append"}

ASSUME WorkflowAssumption ==
  /\ Covered \subseteq Commit
  /\ Worktree \subseteq GitState /\ Worktree # {}
  /\ Results \subseteq {"passed", "failed", "unavailable"}
  /\ Requests \subseteq Request
  /\ None \notin Binding /\ None \notin Call
  /\ MaxTime \in Nat /\ MaxCalls \in Nat

VARIABLES
  clock,
  left,      \* calls that may still begin
  git,       \* the worktree, moved by whoever works in it
  head,      \* length of the ledger
  binding,   \* latest record of the Change Set
  requested, \* evidence ids with an intent in the ledger
  evidence,  \* evidence outcomes, reviews and handoffs in ledger order
  reviews,
  handoffs,
  pc,
  call

vars == <<clock, left, git, head, binding, requested, evidence, reviews, handoffs,
          pc, call>>

documents == <<requested, evidence, reviews, handoffs>>

Init ==
  /\ clock = 0
  /\ left = MaxCalls
  /\ git \in Worktree
  /\ head = 0
  /\ binding = None
  /\ requested = {}
  /\ evidence = <<>> /\ reviews = <<>> /\ handoffs = <<>>
  /\ pc = [p \in Process |-> "idle"]
  /\ call = [p \in Process |-> None]
-----------------------------------------------------------------------------
(* Lifecycle and lineage of a Change Set.                                  *)

Transitions ==
  {<<"active", "review">>, <<"active", "abandoned">>, <<"review", "active">>,
   <<"review", "merged">>, <<"review", "abandoned">>, <<"merged", "closed">>}

TransitionAllowed(b, to, at) ==
  <<b.state, to>> \in Transitions /\ at >= b.updated

Transitioned(b, to, at) == [b EXCEPT !.state = to, !.updated = at]

Created(o) == [state |-> "active", n |-> 1, latest |-> o, updated |-> o.at]

(* The lineage moves only while work goes on, and time only forward.       *)
RefreshAllowed(b, o) ==
  /\ o.at >= b.latest.at
  /\ o.head # b.latest.head =>
       b.state \in {"active", "review"} /\ o.at >= b.updated

Refreshed(b, o) ==
  [state |-> b.state, n |-> b.n + 1, latest |-> o,
   updated |-> IF o.head # b.latest.head THEN o.at ELSE b.updated]
-----------------------------------------------------------------------------
(* Evidence and review.                                                    *)

Ids(s) == {s[i].id : i \in DOMAIN s}

Distinct(s) == \A i, j \in DOMAIN s : s[i].id = s[j].id => i = j

Releasable(r) == r.outcome = "ready"

(* _latest_records: the newest of a kind, ties included.                   *)
LatestOf(k, s) ==
  {e \in {s[i] : i \in DOMAIN s} : e.of = k
     /\ \A i \in DOMAIN s : s[i].of = k => s[i].at <= e.at}

(* Evidence is bound to the commit it was made at.                         *)
Stale(e, h) == e.head # h

Satisfied(k, s, h) ==
  /\ LatestOf(k, s) # {}
  /\ \A e \in LatestOf(k, s) : e.state = "passed" /\ ~ Stale(e, h)

Obsolete(k, s, h) == \E e \in LatestOf(k, s) : Stale(e, h)

OutOfScope(o) == o.head \notin Covered \/ o.status = "outside"

(* Mutant: what is missing is taken for passed.                            *)
DecideLenient(kinds, audited, s, h) ==
  IF OutOfScope(audited) THEN "blocked"
  ELSE IF \E k \in kinds : Obsolete(k, s, h) THEN "stale"
  ELSE "ready"

Decide(kinds, audited, s, h) ==
  IF OutOfScope(audited) THEN "blocked"
  ELSE IF \E k \in kinds : Obsolete(k, s, h) THEN "stale"
  ELSE IF \E k \in kinds : ~ Satisfied(k, s, h) THEN "incomplete"
  ELSE "ready"
-----------------------------------------------------------------------------
(* One call.                                                               *)

Req(p) == call[p].req

Goto(p, step) == pc' = [pc EXCEPT ![p] = step]

Return(p) ==
  /\ Goto(p, "idle")
  /\ call' = [call EXCEPT ![p] = None]

Begin(p, req) ==
  /\ pc[p] = "idle"
  /\ left > 0
  /\ left' = left - 1
  /\ Goto(p, IF req.kind \in {"refresh", "transition"} THEN "read" ELSE "unique")
  /\ call' = [call EXCEPT ![p] =
       [req |-> req, at |-> clock, seen |-> head, base |-> None,
        look |-> None, next |-> None, draft |-> None]]
  /\ UNCHANGED <<clock, git, head, binding, documents>>

Exists(p) ==
  CASE Req(p).kind = "create"   -> binding # None
    [] Req(p).kind = "evidence" -> Req(p).id \in Ids(evidence) \cup requested
    [] Req(p).kind = "review"   -> Req(p).id \in Ids(reviews)
    [] Req(p).kind = "handoff"  -> Req(p).id \in Ids(handoffs)

CheckNew(p) ==
  /\ pc[p] = "unique"
  /\ ~ Exists(p)
  /\ Goto(p, IF Req(p).kind = "create" THEN "git" ELSE "read")
  /\ UNCHANGED <<clock, left, git, head, binding, documents, call>>

CanRead(p) ==
  /\ binding # None
  /\ Req(p).kind = "transition" =>
       TransitionAllowed(binding, Req(p).to, call[p].at)

Read(p) ==
  /\ pc[p] = "read"
  /\ CanRead(p)
  /\ call' = [call EXCEPT ![p].base = binding, ![p].seen = head]
  /\ Goto(p, IF Req(p).kind = "transition" THEN "gate" ELSE "git")
  /\ UNCHANGED <<clock, left, git, head, binding, documents>>

LastReview == reviews[Len(reviews)]

ReviewedAt(h) == reviews # <<>> /\ LastReview.head = h

HandedOffAt(h) == handoffs # <<>> /\ handoffs[Len(handoffs)].head = h

(* Mutant: the last review need not be releasable.                         *)
GateOpenForAny(p) ==
  LET seen == call[p].base.latest
  IN /\ Req(p).to = "review" => ReviewedAt(seen.head) /\ seen.status = "clean"
     /\ Req(p).to = "merged" => ReviewedAt(seen.head)
     /\ Req(p).to = "closed" => HandedOffAt(seen.head)

(* Mutant: the last review may be of another head.                         *)
GateOpenAnyHead(p) ==
  LET seen == call[p].base.latest
  IN /\ Req(p).to = "review" => ReviewedAt(seen.head) /\ seen.status = "clean"
     /\ Req(p).to = "merged" => reviews # <<>> /\ Releasable(LastReview)
     /\ Req(p).to = "closed" => HandedOffAt(seen.head)

GateOpen(p) ==
  LET seen == call[p].base.latest
  IN /\ Req(p).to = "review" => ReviewedAt(seen.head) /\ seen.status = "clean"
     /\ Req(p).to = "merged" => ReviewedAt(seen.head) /\ Releasable(LastReview)
     /\ Req(p).to = "closed" => HandedOffAt(seen.head)

Gate(p) ==
  /\ pc[p] = "gate"
  /\ GateOpen(p)
  /\ Goto(p, "reread")
  /\ UNCHANGED <<clock, left, git, head, binding, documents, call>>

CanTransition(p) == TransitionAllowed(binding, Req(p).to, call[p].at)

(* The gate was passed by the record read before; what is written is made  *)
(* from the record read now.                                               *)
TransitionChangeSet(p) ==
  /\ pc[p] = "reread"
  /\ CanTransition(p)
  /\ call' = [call EXCEPT ![p].next =
                Transitioned(binding, Req(p).to, call[p].at)]
  /\ Goto(p, "record")
  /\ UNCHANGED <<clock, left, git, head, binding, documents>>

(* _observe asks Git several things one after the other: the head, then the*)
(* differences from the base to that head, then the status of the worktree.*)
ObserveHead(p) ==
  /\ pc[p] = "git"
  /\ git.attached
  /\ call' = [call EXCEPT ![p].look = git.head]
  /\ Goto(p, "status")
  /\ UNCHANGED <<clock, left, git, head, binding, documents>>

Observed(p) ==
  [head |-> call[p].look, status |-> git.status, at |-> call[p].at]

CanObserve(p) ==
  Req(p).kind # "create" => RefreshAllowed(call[p].base, Observed(p))

ObserveStatus(p) ==
  /\ pc[p] = "status"
  /\ CanObserve(p)
  /\ call' = [call EXCEPT ![p].look = None, ![p].next =
       IF Req(p).kind = "create" THEN Created(Observed(p))
       ELSE Refreshed(call[p].base, Observed(p))]
  /\ Goto(p, "record")
  /\ UNCHANGED <<clock, left, git, head, binding, documents>>

AfterRecord == [evidence |-> "intent", review |-> "rebind", handoff |-> "gather"]

(* Whatever has been recorded since the call read is superseded.  A review *)
(* also records its scope audit, which nothing modelled reads again.       *)
RecordBinding(p) ==
  /\ pc[p] = "record"
  /\ binding' = call[p].next
  /\ head' = head + 1
  /\ IF Req(p).kind \in DOMAIN AfterRecord
     THEN Goto(p, AfterRecord[Req(p).kind]) /\ UNCHANGED call
     ELSE Return(p)
  /\ UNCHANGED <<clock, left, git, documents>>

(* summarize compares observation ids, that is, their numbers.             *)
SameObservation(p) == binding.n = call[p].next.n

Rebind(p) ==
  /\ pc[p] = "rebind"
  /\ SameObservation(p)
  /\ call' = [call EXCEPT ![p].base = binding]
  /\ Goto(p, "gather")
  /\ UNCHANGED <<clock, left, git, head, binding, documents>>

RecordIntent(p) ==
  /\ pc[p] = "intent"
  /\ requested' = requested \cup {Req(p).id}
  /\ head' = head + 1
  /\ Goto(p, "run")
  /\ UNCHANGED <<clock, left, git, binding, evidence, reviews, handoffs, call>>

CanRun(p) == call[p].next.latest.status = "clean"

(* The command exits with zero or another status, or gives none: it could  *)
(* not start or took too long.  It is bound to the head observed before.   *)
RunCommand(p) ==
  /\ pc[p] = "run"
  /\ CanRun(p)
  /\ \E state \in Results :
       call' = [call EXCEPT ![p].draft =
         [id |-> Req(p).id, of |-> Req(p).of, state |-> state,
          head |-> call[p].next.latest.head, at |-> clock]]
  /\ Goto(p, "append")
  /\ UNCHANGED <<clock, left, git, head, binding, documents>>

CanGather(p) ==
  /\ Distinct(evidence)
  /\ Req(p).kind = "handoff" =>
       /\ call[p].next.latest.status = "clean"
       /\ Distinct(reviews)

ReviewDraft(p) ==
  [id |-> Req(p).id, head |-> call[p].base.latest.head,
   outcome |-> Decide(Req(p).kinds, call[p].next.latest, evidence,
                      call[p].base.latest.head),
   audited |-> call[p].next.latest, seen |-> Len(evidence),
   kinds |-> Req(p).kinds]

HandoffDraft(p) ==
  [id |-> Req(p).id, head |-> call[p].next.latest.head, at |-> call[p].at]

(* The lists a review or handoff is made from, read at one point.          *)
Gather(p) ==
  /\ pc[p] = "gather"
  /\ CanGather(p)
  /\ call' = [call EXCEPT ![p].draft =
       IF Req(p).kind = "review" THEN ReviewDraft(p) ELSE HandoffDraft(p)]
  /\ Goto(p, "append")
  /\ UNCHANGED <<clock, left, git, head, binding, documents>>

Extended(s, kind, p) ==
  IF Req(p).kind = kind THEN Append(s, call[p].draft) ELSE s

AppendDocument(p) ==
  /\ pc[p] = "append"
  /\ evidence' = Extended(evidence, "evidence", p)
  /\ reviews' = Extended(reviews, "review", p)
  /\ handoffs' = Extended(handoffs, "handoff", p)
  /\ head' = head + 1
  /\ Return(p)
  /\ UNCHANGED <<clock, left, git, binding, requested>>

(* A check fails and the call raises; what it has appended stays.          *)
Refused(p) ==
  \/ pc[p] = "unique" /\ Exists(p)
  \/ pc[p] = "read"   /\ ~ CanRead(p)
  \/ pc[p] = "gate"   /\ ~ GateOpen(p)
  \/ pc[p] = "reread" /\ ~ CanTransition(p)
  \/ pc[p] = "git"    /\ ~ git.attached
  \/ pc[p] = "status" /\ ~ CanObserve(p)
  \/ pc[p] = "rebind" /\ ~ SameObservation(p)
  \/ pc[p] = "run"    /\ ~ CanRun(p)
  \/ pc[p] = "gather" /\ ~ CanGather(p)

Refuse(p) ==
  /\ Refused(p)
  /\ Return(p)
  /\ UNCHANGED <<clock, left, git, head, binding, documents>>

(* The process dies.                                                       *)
Crash(p) ==
  /\ pc[p] # "idle"
  /\ Return(p)
  /\ UNCHANGED <<clock, left, git, head, binding, documents>>

WorktreeMoves ==
  /\ git' \in Worktree
  /\ UNCHANGED <<clock, left, head, binding, documents, pc, call>>

Tick ==
  /\ clock < MaxTime
  /\ clock' = clock + 1
  /\ UNCHANGED <<left, git, head, binding, documents, pc, call>>

Run(p) ==
  \/ CheckNew(p) \/ Read(p) \/ Gate(p) \/ TransitionChangeSet(p)
  \/ ObserveHead(p) \/ ObserveStatus(p) \/ RecordBinding(p)
  \/ Rebind(p) \/ RecordIntent(p) \/ RunCommand(p)
  \/ Gather(p) \/ AppendDocument(p) \/ Refuse(p)

Next ==
  \/ \E p \in Process : Run(p) \/ Crash(p) \/ \E req \in Requests : Begin(p, req)
  \/ WorktreeMoves
  \/ Tick

Spec == Init /\ [][Next]_vars
-----------------------------------------------------------------------------
TypeOK ==
  /\ clock \in Nat /\ left \in Nat
  /\ git \in Worktree
  /\ head \in Nat
  /\ binding \in Binding \cup {None}
  /\ requested \subseteq RecordId
  /\ evidence \in Seq(Evidence)
  /\ reviews \in Seq(Review)
  /\ handoffs \in Seq(Handoff)
  /\ pc \in [Process -> Pc]
  /\ call \in [Process -> Call \cup {None}]

(* However calls race and die, a Change Set is never merged without a      *)
(* releasable review nor closed without a handoff (LifecycleService).      *)
NeverMergedUnreviewed ==
  binding # None =>
    /\ binding.state \in {"merged", "closed"} =>
         \E i \in DOMAIN reviews : Releasable(reviews[i])
    /\ binding.state = "closed" => handoffs # <<>>

(* A releasable decision holds against the evidence it lists: the newest of*)
(* every required kind, ties included, passed at the very head the decision*)
(* is about, and what was audited was in scope (ReviewService.summarize).  *)
ReleasableIsProven ==
  \A i \in DOMAIN reviews : Releasable(reviews[i]) =>
    LET r == reviews[i]
        listed == SubSeq(evidence, 1, r.seen)
    IN /\ r.seen <= Len(evidence)
       /\ \A k \in r.kinds : Satisfied(k, listed, r.head)
       /\ ~ OutOfScope(r.audited)

(* Past the check for an earlier request of its evidence id.               *)
Executing(p, id) ==
  /\ pc[p] \notin {"idle", "unique"}
  /\ Req(p).kind = "evidence" /\ Req(p).id = id

Abandoned(id) == id \in requested /\ \A p \in Process : ~ Executing(p, id)

(* An evidence request whose call is over, by an outcome, an error or the  *)
(* death of the process, is never taken up again: its command cannot run a *)
(* second time behind the caller's back, and its outcome is final          *)
(* (LocalWorkflowService.run_evidence).                                    *)
AbandonedStaysAbandoned ==
  [][\A id \in RecordId : Abandoned(id) =>
       /\ Abandoned(id)'
       /\ \A i \in DOMAIN evidence' : i \notin DOMAIN evidence =>
            evidence'[i].id # id]_vars

(* A record written before anything else was appended follows from the     *)
(* record it replaces: no observation is lost, the lifecycle moves along   *)
(* its graph, and the gates hold of what is merged or closed at that       *)
(* instant.  Only what races with another append can break this.           *)
UncontendedRecordsFollow ==
  [][\A p \in Process :
       (pc[p] = "record" /\ binding' # binding /\ pc'[p] # "record"
          /\ head = call[p].seen /\ binding # None) =>
         /\ binding'.n >= binding.n
         /\ binding'.latest.at >= binding.latest.at
         /\ binding'.state # binding.state =>
              <<binding.state, binding'.state>> \in Transitions
         /\ (binding'.state = "merged" /\ binding.state # "merged") =>
              ReviewedAt(binding'.latest.head) /\ Releasable(LastReview)
         /\ (binding'.state = "closed" /\ binding.state # "closed") =>
              HandedOffAt(binding'.latest.head)]_vars
=============================================================================
