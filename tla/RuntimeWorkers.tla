--------------------------- MODULE RuntimeWorkers ---------------------------
(***************************************************************************)
(* The agents that work on one task: what RuntimeWorkerService             *)
(* (application/runtime_workers.py) records of them, what runs behind the  *)
(* RuntimePort (adapters/acp.py), and the hand-over from one provider to   *)
(* another by RuntimeProviderHandoffService                                *)
(* (application/runtime_provider_handoff.py).                              *)
(*                                                                         *)
(* A call reads the claim and the last record, talks to a provider's       *)
(* control host, and appends what the host told it: separate steps of      *)
(* separate processes.  An answer may be lost, a process may die, an agent *)
(* may end by itself, a host may go (AcpHost) and leave its agent behind.  *)
(* The append compares a ledger head it reads at that moment (_record), so *)
(* nothing recorded since the call read is noticed.                        *)
(***************************************************************************)
EXTENDS Naturals, Sequences, SequencesExt

CONSTANTS
  Caller,       \* processes that call the services
  Switcher,     \* those that may hand over to another provider
  Config,       \* provider configurations (name and argv), one host for each
  NameOf,       \* the name a configuration is registered under
  Registries,   \* the registries the processes may have loaded
  Op,           \* the calls that are made
  None,
  MaxCalls,     \* bound on the calls
  MaxStarts     \* bound on the agent processes

Name == {NameOf[f] : f \in Config}

ASSUME RuntimeAssumption ==
  /\ None \notin Config /\ Switcher \subseteq Caller
  /\ Registries \subseteq SUBSET Config
  /\ \A r \in Registries : \A f, g \in r : NameOf[f] = NameOf[g] => f = g
  /\ Op \subseteq {"start", "input", "status", "stop", "switch"}
  /\ MaxCalls \in Nat /\ MaxStarts \in Nat

VARIABLES
  log,      \* the records of kind runtime_worker_session of the task
  host,     \* the control host of each configuration
  alive,    \* the agent processes that run
  switches, \* what is recorded of each hand-over, and what it did
  call,     \* the call each process is in
  pids,     \* agent processes launched so far
  left      \* calls that may still be made

vars == <<log, host, alive, switches, call, pids, left>>

Pid == 1..MaxStarts

WorkerState == {"unknown", "running", "awaiting_input", "exited", "failed"}
Active == {"running", "awaiting_input"}
Ended == {"exited", "failed"}

(* A summary of the port; an empty one names no process.                   *)
Summary == [st : WorkerState, pid : Pid \cup {0}]
Empty(st) == [st |-> st, pid |-> 0]

(* A stored record.  "read" is not stored: how many records there were     *)
(* when its call read the last one.                                        *)
Record == [name : Name, print : Config, st : WorkerState, pid : Pid \cup {0},
           read : Nat]

(* A host has at most one session for the task.                            *)
Host == [up : BOOLEAN, session : {"none"} \cup WorkerState, pid : Pid \cup {0}]

Stage == {"stop_source", "attach_destination", "start_destination"}

(* One hand-over.  The rest is not stored: the active worker it saw, the   *)
(* one its stop was told has ended, the one it started, and whether its    *)
(* process died or could not record a failure.                             *)
Switch == [rec : {"requested", "completed"} \cup Stage, saw : Pid \cup {0},
           halted : Pid \cup {0}, started : Pid \cup {0}, died : BOOLEAN]

Pc == {"idle", "latest", "ensure", "launch", "send", "observe", "reread",
       "halt", "record", "summary", "request", "failing", "complete"} \cup Stage

Call == [op : Op \cup {"none"}, pc : Pc, reg : Registries \cup {{}},
         cfg : Config \cup {None}, dst : Config \cup {None}, print : Config \cup {None},
         read : Nat, got : Summary, sw : Nat, stage : Stage]

Idle == [op |-> "none", pc |-> "idle", reg |-> {}, cfg |-> None, dst |-> None,
         print |-> None, read |-> 0, got |-> Empty("unknown"), sw |-> 0,
         stage |-> "stop_source"]

TypeOK ==
  /\ log \in Seq(Record)
  /\ host \in [Config -> Host]
  /\ alive \subseteq Pid
  /\ switches \in Seq(Switch)
  /\ call \in [Caller -> Call]
  /\ pids \in 0..MaxStarts
  /\ left \in 0..MaxCalls

NoHost == [up |-> FALSE, session |-> "none", pid |-> 0]

Init ==
  /\ log = <<>>
  /\ host = [f \in Config |-> NoHost]
  /\ alive = {}
  /\ switches = <<>>
  /\ call = [c \in Caller |-> Idle]
  /\ pids = 0
  /\ left = MaxCalls

At(c, pc) == call[c].pc = pc
Goto(c, pc) == call' = [call EXCEPT ![c].pc = pc]
Return(c) == call' = [call EXCEPT ![c] = Idle]

-----------------------------------------------------------------------------
(* The port.                                                               *)

(* worker_summary: a session whose process is gone becomes exited.         *)
Observed(f) ==
  IF host[f].session = "none" THEN Empty("unknown")
  ELSE [st |-> IF host[f].pid \in alive \/ host[f].session \in Ended
               THEN host[f].session ELSE "exited",
        pid |-> host[f].pid]

SessionSeen(f) ==
  [host EXCEPT ![f].session = IF @ = "none" THEN @ ELSE Observed(f).st]

(* start_worker: where there is a session, it is answered as it is and the *)
(* prompt is dropped.                                                      *)
StartWorker(f) ==
  /\ host[f].up
  /\ IF host[f].session = "none"
     THEN /\ pids < MaxStarts
          /\ pids' = pids + 1
          /\ alive' = alive \cup {pids'}
          /\ host' = [host EXCEPT ![f] = [@ EXCEPT !.session = "running", !.pid = pids']]
     ELSE UNCHANGED <<pids, alive, host>>

(* Mutant: the process is not waited for.                                  *)
StopLeavesProcess(f) ==
  /\ host[f].up
  /\ alive' = alive
  /\ host' = [host EXCEPT ![f] = [@ EXCEPT !.session = "none", !.pid = 0]]

(* stop_worker takes the session out and waits for its process to end.     *)
StopWorker(f) ==
  /\ host[f].up
  /\ alive' = alive \ {host[f].pid}
  /\ host' = [host EXCEPT ![f] = [@ EXCEPT !.session = "none", !.pid = 0]]

-----------------------------------------------------------------------------
(* RuntimeWorkerService.                                                   *)

Begin(c) ==
  /\ At(c, "idle") /\ left > 0
  /\ \E op \in Op, reg \in Registries :
       \E f \in reg, d \in reg :
         /\ op # "switch" => d = f
         /\ op = "switch" => c \in Switcher
         /\ call' = [call EXCEPT ![c] =
              [Idle EXCEPT !.op = op, !.reg = reg,
                           !.cfg = IF op \in {"start", "switch"} THEN f ELSE None,
                           !.dst = IF op = "switch" THEN d ELSE None,
                           !.pc = IF op = "switch" THEN "summary" ELSE "latest"]]
  /\ left' = left - 1
  /\ UNCHANGED <<log, host, alive, switches, pids>>

(* _require_started: a record, whose provider is registered as it was.     *)
Started(reg) == log # <<>> /\ Last(log).print \in reg

Fresh == log = <<>> \/ Last(log).st \in Ended

(* Mutant: a start passes over the record of another provider.             *)
RouteAnyProvider(op, reg, f) ==
  CASE op = "start" /\ (Fresh \/ Last(log).name # NameOf[f]) -> "ensure"
    [] op = "start" /\ ~Fresh -> IF Last(log).print = f THEN "observe" ELSE "idle"
    [] op = "input"  -> IF Started(reg) /\ ~Fresh THEN "send" ELSE "idle"
    [] op = "status" -> IF Started(reg) /\ ~Fresh THEN "observe" ELSE "idle"
    [] op = "stop"   -> IF Started(reg) /\ Last(log).st # "exited" THEN "halt" ELSE "idle"

(* Where a call goes from the last record; "idle" where it returns or      *)
(* raises.                                                                 *)
Route(op, reg, f) ==
  CASE op = "start" /\ Fresh -> "ensure"
    [] op = "start" /\ ~Fresh ->
         IF Last(log).name = NameOf[f] /\ Last(log).print = f THEN "observe" ELSE "idle"
    [] op = "input"  -> IF Started(reg) /\ ~Fresh THEN "send" ELSE "idle"
    [] op = "status" -> IF Started(reg) /\ ~Fresh THEN "observe" ELSE "idle"
    [] op = "stop"   -> IF Started(reg) /\ Last(log).st # "exited" THEN "halt" ELSE "idle"

(* A start or an input needs an active claim, which is ClaimService's      *)
(* affair: Fails stands for its refusal.  All but start talk to the        *)
(* provider of the recorded name.                                          *)
Latest(c) ==
  LET op == call[c].op  reg == call[c].reg  f == call[c].cfg IN
  /\ At(c, "latest")
  /\ IF Route(op, reg, f) = "idle" THEN Return(c)
     ELSE \E g \in reg :
            /\ op = "start" => g = f
            /\ op # "start" => NameOf[g] = Last(log).name
            /\ call' = [call EXCEPT ![c] =
                 [@ EXCEPT !.pc = Route(op, reg, f), !.read = Len(log),
                           !.cfg = g, !.print = IF op = "start" THEN g ELSE Last(log).print]]
  /\ UNCHANGED <<log, host, alive, switches, pids, left>>

(* The answer of a host, or an exception although the request was served.  *)
Answer(c, pc, summary) ==
  \/ call' = [call EXCEPT ![c] = [@ EXCEPT !.pc = pc, !.got = summary]]
  \/ Return(c)

(* _ensure_workspace spawns the host.                                      *)
Ensure(c) ==
  /\ At(c, "ensure")
  /\ host' = [host EXCEPT ![call[c].cfg].up = TRUE]
  /\ Goto(c, "launch")
  /\ UNCHANGED <<log, alive, switches, pids, left>>

Launch(c) ==
  LET f == call[c].cfg IN
  /\ At(c, "launch")
  /\ StartWorker(f)
  /\ Answer(c, "record", [st |-> host'[f].session, pid |-> host'[f].pid])
  /\ UNCHANGED <<log, switches, left>>

(* A prompt is taken by a session that awaits input.                       *)
Send(c) ==
  LET f == call[c].cfg IN
  /\ At(c, "send") /\ host[f].up
  /\ host[f].session = "awaiting_input"
  /\ host' = [host EXCEPT ![f].session = "running"]
  /\ Answer(c, "record", [st |-> "running", pid |-> host[f].pid])
  /\ UNCHANGED <<log, alive, switches, pids, left>>

(* _observe: a worker that is unknown, for want of a host, of an answer to *)
(* the ping or of a session, leaves the last record as it is.              *)
Observe(c) ==
  LET f == call[c].cfg IN
  /\ At(c, "observe")
  /\ \/ /\ host[f].up /\ host[f].session # "none"
        /\ host' = SessionSeen(f)
        /\ Answer(c, "reread", Observed(f))
     \/ UNCHANGED host /\ Return(c)
  /\ UNCHANGED <<log, alive, switches, pids, left>>

(* _observe reads the last record again and takes over its fingerprint.    *)
Reread(c) ==
  /\ At(c, "reread")
  /\ IF Started(call[c].reg)
     THEN call' = [call EXCEPT ![c] = [@ EXCEPT !.pc = "record", !.print = Last(log).print]]
     ELSE Return(c)
  /\ UNCHANGED <<log, host, alive, switches, pids, left>>

(* A stop that finds no host, or none that answers its ping in time, takes *)
(* the worker for exited.                                                  *)
Halt(c) ==
  LET f == call[c].cfg IN
  /\ At(c, "halt")
  /\ \/ /\ StopWorker(f)
        /\ Answer(c, "record", [st |-> "exited", pid |-> host[f].pid])
     \/ /\ UNCHANGED <<host, alive>>
        /\ Answer(c, "record", Empty("exited"))
  /\ UNCHANGED <<log, switches, pids, left>>

RecordOf(c) ==
  [name |-> NameOf[call[c].cfg], print |-> call[c].print, st |-> call[c].got.st,
   pid |-> call[c].got.pid, read |-> call[c].read]

(* _record compares the head it has just read.                             *)
AppendRecord(c) ==
  /\ At(c, "record")
  /\ log' = Append(log, RecordOf(c))
  /\ Return(c)
  /\ UNCHANGED <<host, alive, switches, pids, left>>

-----------------------------------------------------------------------------
(* RuntimeProviderHandoffService.switch.                                   *)

(* The summary of the source, once the handoff is materialized.            *)
Summarise(c) ==
  LET f == call[c].cfg IN
  /\ At(c, "summary")
  /\ \/ /\ host[f].up
        /\ host' = SessionSeen(f)
        /\ call' = [call EXCEPT ![c] = [@ EXCEPT !.pc = "request", !.got = Observed(f)]]
     \/ /\ UNCHANGED host
        /\ call' = [call EXCEPT ![c] = [@ EXCEPT !.pc = "request", !.got = Empty("unknown")]]
  /\ UNCHANGED <<log, alive, switches, pids, left>>

Enter(c, stage) == [call EXCEPT ![c] = [@ EXCEPT !.pc = stage, !.stage = stage]]

(* The request is recorded; a worker that is not active is not stopped.    *)
Request(c) ==
  LET seen == call[c].got
      saw == IF seen.st \in Active THEN seen.pid ELSE 0
      stage == IF seen.st \in Active THEN "stop_source" ELSE "attach_destination"
  IN /\ At(c, "request")
     /\ switches' = Append(switches, [rec |-> "requested", saw |-> saw, halted |-> 0,
                                      started |-> 0, died |-> FALSE])
     /\ call' = [Enter(c, stage) EXCEPT ![c].sw = Len(switches) + 1]
     /\ UNCHANGED <<log, host, alive, pids, left>>

Raise(c) == Goto(c, "failing")

(* Mutant: the source is not stopped.                                      *)
SkipStop(c) ==
  /\ At(c, "stop_source")
  /\ call' = Enter(c, "attach_destination")
  /\ switches' = [switches EXCEPT ![call[c].sw].halted = host[call[c].cfg].pid]
  /\ UNCHANGED <<log, host, alive, pids, left>>

(* stop_worker of the source, by the same rules as any stop.               *)
StopSource(c) ==
  LET f == call[c].cfg IN
  /\ At(c, "stop_source")
  /\ \/ /\ StopWorker(f)
        /\ switches' = [switches EXCEPT ![call[c].sw].halted = host[f].pid]
     \/ UNCHANGED <<host, alive, switches>>
  /\ call' = Enter(c, "attach_destination") \/ Raise(c)
  /\ UNCHANGED <<log, pids, left>>

AttachDestination(c) ==
  /\ At(c, "attach_destination")
  /\ host' = [host EXCEPT ![call[c].dst].up = TRUE]
  /\ call' = Enter(c, "start_destination")
  /\ UNCHANGED <<log, alive, switches, pids, left>>

(* The destination must be active, or the hand-over fails.                 *)
StartDestination(c) ==
  LET f == call[c].dst IN
  /\ At(c, "start_destination")
  /\ StartWorker(f)
  /\ switches' = [switches EXCEPT ![call[c].sw].started = IF pids' = pids THEN 0 ELSE pids']
  /\ \/ host'[f].session \in Active /\ Goto(c, "complete")
     \/ Raise(c)
  /\ UNCHANGED <<log, left>>

(* The completion is appended without an expected head.                    *)
Complete(c) ==
  /\ At(c, "complete")
  /\ switches' = [switches EXCEPT ![call[c].sw].rec = "completed"]
  /\ Return(c)
  /\ UNCHANGED <<log, host, alive, pids, left>>

(* Mutant: a failure is not recorded.                                      *)
SwitchRaisesSilently(c) ==
  /\ call[c].pc \in Stage \cup {"complete"}
  /\ IF At(c, "complete") THEN Return(c) ELSE Raise(c)
  /\ UNCHANGED <<log, host, alive, switches, pids, left>>

(* Whatever raises after the request: a port, a check, the ledger.         *)
SwitchRaises(c) ==
  /\ call[c].pc \in Stage \cup {"complete"}
  /\ Raise(c)
  /\ UNCHANGED <<log, host, alive, switches, pids, left>>

(* The except clause records the stage; its own append may fail.           *)
RecordFailure(c) ==
  /\ At(c, "failing")
  /\ switches' = [switches EXCEPT ![call[c].sw] =
       [@ EXCEPT !.rec = call[c].stage]]
  /\ Return(c)
  /\ UNCHANGED <<log, host, alive, pids, left>>

-----------------------------------------------------------------------------
(* A call of the worker service raises: a port that refuses, a worktree    *)
(* that is missing, a ledger that stays busy.                              *)
Fails(c) ==
  /\ call[c].pc \in Pc \ ({"idle", "failing", "complete"} \cup Stage)
  /\ Return(c)
  /\ UNCHANGED <<log, host, alive, switches, pids, left>>

(* The calling process dies, or cannot record that its hand-over failed.   *)
Crash(c) ==
  /\ call[c].pc \in {"failing", "complete"} \cup Stage
  /\ switches' = [switches EXCEPT ![call[c].sw].died = TRUE]
  /\ Return(c)
  /\ UNCHANGED <<log, host, alive, pids, left>>

(* The prompt thread: a turn ends, or its request fails.                   *)
TurnEnds(f) ==
  /\ host[f].session = "running"
  /\ \E st \in {"awaiting_input", "failed"} : host' = [host EXCEPT ![f].session = st]
  /\ UNCHANGED <<log, alive, switches, call, pids, left>>

AgentEnds(p) ==
  /\ p \in alive
  /\ alive' = alive \ {p}
  /\ UNCHANGED <<log, host, switches, call, pids, left>>

(* A host leaves or is killed; an agent it had may run on.                 *)
HostGoes(f) ==
  /\ host[f].up
  /\ host' = [host EXCEPT ![f] = NoHost]
  /\ UNCHANGED <<log, alive, switches, call, pids, left>>

Next ==
  \/ \E c \in Caller :
       \/ Begin(c) \/ Latest(c) \/ Ensure(c) \/ Launch(c) \/ Send(c)
       \/ Observe(c) \/ Reread(c) \/ Halt(c) \/ AppendRecord(c)
       \/ Summarise(c) \/ Request(c) \/ StopSource(c) \/ AttachDestination(c)
       \/ StartDestination(c) \/ Complete(c) \/ SwitchRaises(c) \/ RecordFailure(c)
       \/ Fails(c) \/ Crash(c)
  \/ \E f \in Config : TurnEnds(f) \/ HostGoes(f)
  \/ \E p \in Pid : AgentEnds(p)

Spec == Init /\ [][Next]_vars

-----------------------------------------------------------------------------
(* Every call appended its record to the record it had read.               *)
Serial == \A i \in DOMAIN log : log[i].read = i - 1

(* Every record is the answer of a host that had a session.                *)
Answered == \A i \in DOMAIN log : log[i].pid # 0

Quiet == \A c \in Caller : At(c, "idle")

(* When no record passed another on its way and none stands for a host     *)
(* that did not answer, the last record shows the worker that runs: no     *)
(* recorded worker works on unseen beside a later one or behind a record   *)
(* that says exited, and a stop can reach it.                              *)
KnownWorkerIsShown ==
  Serial /\ Answered /\ Quiet =>
    \A f \in Config :
      /\ host[f].session \in Active /\ host[f].pid \in alive
      /\ \E i \in DOMAIN log : log[i].pid = host[f].pid
      => /\ Last(log).print = f /\ Last(log).name = NameOf[f]
         /\ Last(log).pid = host[f].pid
         /\ Last(log).st # "exited"

(* A process that a record says has exited has exited, however late the    *)
(* record was appended.                                                    *)
ExitedHasExited ==
  \A i \in DOMAIN log : log[i].st = "exited" => log[i].pid \notin alive

(* Once the source's host has answered the stop, the worker the hand-over  *)
(* saw active does not run there, however often the host went and came:    *)
(* it has ended, or a host that went has left it behind.                   *)
StoppedSourceEnds ==
  \A i \in DOMAIN switches :
    LET s == switches[i] IN
    s.halted # 0 => s.saw \notin alive \/ \A f \in Config : host[f].pid # s.saw

(* A hand-over that is over is recorded as completed or with the stage it  *)
(* failed in, unless its process died; and a worker it started is never    *)
(* behind a record that says the start was not reached.                    *)
SwitchIsAccountedFor ==
  \A i \in DOMAIN switches :
    LET s == switches[i] IN
    /\ s.rec = "requested" => s.died \/ \E c \in Caller : call[c].sw = i
    /\ s.started # 0 => s.rec \notin {"stop_source", "attach_destination"}
=============================================================================
