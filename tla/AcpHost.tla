------------------------------ MODULE AcpHost ------------------------------
(***************************************************************************)
(* adapters/acp.py, the reconnectable half: commands talk to a detached    *)
(* control host over a Unix socket at one path (one repository, provider   *)
(* and Change Set).  A command that creates the workspace spawns the host  *)
(* when a ping finds none; the host serves one connection at a time and    *)
(* owns the pipes of the one worker of its adapter.                        *)
(*                                                                         *)
(* Every connect, accept, reply and file operation is a step of its own.   *)
(* A command stops waiting when its socket timeout passes; its connection  *)
(* stays in the host's backlog without anybody at the other end.  A host   *)
(* takes as long for a request as its agent lets it, perhaps for ever.     *)
(***************************************************************************)
EXTENDS Naturals, Sequences, FiniteSets

CONSTANTS
  Command,      \* commands that use the proxy
  HostProcess,  \* host processes that can be launched
  Asked,        \* the operations each command asks for
  Nobody,
  Backlog,      \* connections that may wait for a host (code: listen(8))
  MaxPolls      \* pings of a spawner (code: 100)

HostOp == {"ensure", "get", "start", "input", "changes", "status", "stop", "cleanup"}

ASSUME HostAssumption ==
  /\ Asked \in [Command -> SUBSET HostOp]
  /\ Nobody \notin Command /\ Nobody \notin HostProcess
  /\ Backlog \in Nat /\ MaxPolls \in Nat

VARIABLES
  sock,       \* the host whose socket the path names
  hosts,      \* host processes
  command     \* the call each command is in

hostVars == <<sock, hosts, command>>

Waits == {"pingwait", "pollwait", "sendwait"}

CommandPc == {"idle", "ping", "probe", "unlink", "popen", "poll", "send"} \cup Waits

(* One accepted or waiting connection: who reads it and what was sent.     *)
(* Nobody reads the connection of a probe, which closes it without sending *)
(* anything, and of a command that has given up.                           *)
Orphan == [from |-> Nobody, sent |-> "nothing"]

Conn == [from : Command, sent : HostOp \cup {"ping"}] \cup {Orphan}

HostState == {"unborn", "starting", "checked", "bound", "serving", "closing", "dead"}

(* due: stopped_deadline is set; told: a command was answered that its     *)
(* worker is stopped.                                                      *)
HostRecord ==
  [st : HostState, queue : Seq(Conn), cur : Conn \cup {Nobody},
   worker : {"none", "live", "ended"}, due : BOOLEAN, told : BOOLEAN]

CommandRecord ==
  [pc : CommandPc, op : HostOp, own : HostProcess \cup {Nobody}, polls : 0..MaxPolls]

HostTypeOK ==
  /\ sock \in HostProcess \cup {Nobody}
  /\ hosts \in [HostProcess -> HostRecord]
  /\ command \in [Command -> CommandRecord]

IdleCommand == [pc |-> "idle", op |-> "get", own |-> Nobody, polls |-> 0]

(* A host that holds nothing: it has not served yet, or not any more.      *)
Holding(st) ==
  [st |-> st, queue |-> <<>>, cur |-> Nobody, worker |-> "none", due |-> FALSE,
   told |-> FALSE]

HostInit ==
  /\ sock = Nobody
  /\ hosts = [h \in HostProcess |-> Holding("unborn")]
  /\ command = [c \in Command |-> IdleCommand]

Listening(h) == h # Nobody /\ hosts[h].st = "serving"

HasRoom(h) == Len(hosts[h].queue) < Backlog

(* Host processes are alike: which of the unborn is launched is no matter.   *)
Unborn == {h \in HostProcess : hosts[h].st = "unborn"}

-----------------------------------------------------------------------------
(* The proxy and _spawn_host.                                              *)

Jump(c, pc) == [command EXCEPT ![c].pc = pc]

Done(c) == [command EXCEPT ![c] = IdleCommand]

(* start, send_input and changes go to the host at once; the others ping   *)
(* it first.                                                               *)
BeginCommand(c) ==
  /\ command[c].pc = "idle"
  /\ \E op \in Asked[c] :
       command' = [command EXCEPT ![c] =
         [pc |-> IF op \in {"start", "input", "changes"} THEN "send" ELSE "ping",
          op |-> op, own |-> Nobody, polls |-> 0]]
  /\ UNCHANGED <<sock, hosts>>

(* When no host answers its ping, ensure spawns one; get falls back to the *)
(* workspace itself, status answers unknown, stop exited, cleanup fails.   *)
Unavailable(c) == IF command[c].op = "ensure" THEN Jump(c, "probe") ELSE Done(c)

(* The request of a call fails where it stands: no host, a connection the  *)
(* host dropped, or a timeout.                                             *)
Failed(c) ==
  CASE command[c].pc \in {"ping", "pingwait"} -> Unavailable(c)
    [] command[c].pc = "pollwait"             -> Jump(c, "poll")
    [] command[c].pc \in {"send", "sendwait"} -> Done(c)

Sends(c) == IF command[c].pc = "send" THEN command[c].op ELSE "ping"

(* Between two polls; the last of them is followed by SpawnFails.          *)
MayConnect(c) ==
  \/ command[c].pc \in {"ping", "send"}
  \/ command[c].pc = "poll" /\ command[c].polls < MaxPolls

Polled(c) == command[c].polls + IF command[c].pc = "poll" THEN 1 ELSE 0

Connect(c) ==
  /\ MayConnect(c)
  /\ Listening(sock) /\ HasRoom(sock)
  /\ hosts' = [hosts EXCEPT ![sock].queue = Append(@, [from |-> c, sent |-> Sends(c)])]
  /\ command' = [command EXCEPT ![c] =
       [@ EXCEPT !.pc = CASE command[c].pc = "ping" -> "pingwait"
                          [] command[c].pc = "poll" -> "pollwait"
                          [] command[c].pc = "send" -> "sendwait",
                 !.polls = Polled(c)]]
  /\ UNCHANGED sock

(* Mutant: a spawner polls until its host answers.                         *)
RefusedForEver(c) ==
  /\ MayConnect(c)
  /\ ~(Listening(sock) /\ HasRoom(sock))
  /\ command' = IF command[c].pc = "poll" THEN command ELSE Failed(c)
  /\ UNCHANGED <<sock, hosts>>

(* Nobody listens at the path, or the socket timeout passes while the host *)
(* has no room for another connection.                                     *)
Refused(c) ==
  /\ MayConnect(c)
  /\ ~(Listening(sock) /\ HasRoom(sock))
  /\ command' = IF command[c].pc = "poll"
                THEN [command EXCEPT ![c].polls = Polled(c)]
                ELSE Failed(c)
  /\ UNCHANGED <<sock, hosts>>

Holds(h, c) ==
  \/ \E i \in DOMAIN hosts[h].queue : hosts[h].queue[i].from = c
  \/ hosts[h].cur # Nobody /\ hosts[h].cur.from = c

(* The host closed the connection without a reply.                         *)
Dropped(c) ==
  /\ command[c].pc \in Waits
  /\ \A h \in HostProcess : ~Holds(h, c)
  /\ command' = Failed(c)
  /\ UNCHANGED <<sock, hosts>>

Orphaned(conn, c) == IF conn # Nobody /\ conn.from = c THEN Orphan ELSE conn

(* The socket timeout of the command passes.                               *)
GiveUp(c) ==
  /\ command[c].pc \in Waits
  /\ \E h \in HostProcess : Holds(h, c)
  /\ hosts' = [h \in HostProcess |->
       [hosts[h] EXCEPT !.queue = [i \in DOMAIN @ |-> Orphaned(@[i], c)],
                        !.cur = Orphaned(@, c)]]
  /\ command' = Failed(c)
  /\ UNCHANGED sock

(* _spawn_host looks at what is at the path before it starts a process.    *)
Probe(c) ==
  /\ command[c].pc = "probe"
  /\ \/ /\ sock = Nobody
        /\ command' = Jump(c, "popen")
        /\ UNCHANGED hosts
     \/ /\ sock # Nobody /\ ~Listening(sock)
        /\ command' = Jump(c, "unlink")
        /\ UNCHANGED hosts
     \/ /\ Listening(sock)
        /\ command' = Done(c)
        /\ hosts' = IF HasRoom(sock)
                    THEN [hosts EXCEPT ![sock].queue =
                            Append(@, Orphan)]
                    ELSE hosts
  /\ UNCHANGED sock

UnlinkStale(c) ==
  /\ command[c].pc = "unlink"
  /\ command' = IF sock = Nobody THEN Done(c) ELSE Jump(c, "popen")
  /\ sock' = Nobody
  /\ UNCHANGED hosts

(* The host is launched, or cannot be.                                     *)
Popen(c) ==
  /\ command[c].pc = "popen"
  /\ \/ /\ Unborn # {}
        /\ LET h == CHOOSE g \in Unborn : TRUE IN
           /\ hosts' = [hosts EXCEPT ![h].st = "starting"]
           /\ command' = [command EXCEPT ![c] = [@ EXCEPT !.pc = "poll", !.own = h]]
     \/ command' = Done(c) /\ UNCHANGED hosts
  /\ UNCHANGED sock

(* The process ended or its pings are over: a host still running is        *)
(* terminated, and its socket stays behind.                                *)
SpawnFails(c) ==
  /\ command[c].pc = "poll"
  /\ command[c].polls = MaxPolls \/ hosts[command[c].own].st = "dead"
  /\ command' = Done(c)
  /\ hosts' = IF hosts[command[c].own].st = "dead" THEN hosts
              ELSE [hosts EXCEPT ![command[c].own] = Holding("dead")]
  /\ UNCHANGED sock

-----------------------------------------------------------------------------
(* The host process: _run_host and _dispatch_host.                         *)

CheckPath(h) ==
  /\ hosts[h].st = "starting"
  /\ hosts' = [hosts EXCEPT ![h].st = IF sock = Nobody THEN "checked" ELSE "closing"]
  /\ UNCHANGED <<sock, command>>

Bind(h) ==
  /\ hosts[h].st = "checked"
  /\ hosts' = [hosts EXCEPT ![h].st = IF sock = Nobody THEN "bound" ELSE "closing"]
  /\ sock' = IF sock = Nobody THEN h ELSE sock
  /\ UNCHANGED command

Listen(h) ==
  /\ hosts[h].st = "bound"
  /\ hosts' = [hosts EXCEPT ![h].st = "serving"]
  /\ UNCHANGED <<sock, command>>

Accept(h) ==
  /\ hosts[h].st = "serving" /\ hosts[h].cur = Nobody /\ hosts[h].queue # <<>>
  /\ hosts' = [hosts EXCEPT ![h] = [@ EXCEPT !.cur = Head(hosts[h].queue),
                                    !.queue = Tail(hosts[h].queue)]]
  /\ UNCHANGED <<sock, command>>

(* What becomes of the worker, and whether the operation was done or       *)
(* refused; a refused one leaves the worker as it was.                     *)
Outcomes(worker, op) ==
  {[worker |-> worker, ok |-> FALSE]} \cup
  CASE op = "start"   -> IF worker = "none" THEN {[worker |-> "live", ok |-> TRUE]} ELSE {}
    [] op = "stop"    -> {[worker |-> "none", ok |-> TRUE]}
    [] op = "cleanup" -> IF worker = "none" THEN {[worker |-> worker, ok |-> TRUE]} ELSE {}
    [] OTHER          -> {[worker |-> worker, ok |-> TRUE]}

(* The answer to a request ends the call; behind a ping comes its request. *)
Receive(c) ==
  IF command[c].pc = "sendwait" THEN Done(c)
  ELSE [command EXCEPT ![c] = [@ EXCEPT !.pc = "send", !.own = Nobody, !.polls = 0]]

(* Mutant: a stop that found no worker sets no deadline.                   *)
SetsDeadlineOnce(worker, op, ok) == op = "stop" /\ ok /\ worker # "none"

(* Every stop that was done sets the deadline for leaving when idle.       *)
SetsDeadline(worker, op, ok) == op = "stop" /\ ok

(* A request is served and answered.  A cleanup that was done ends the loop. *)
Serve(h) ==
  LET conn == hosts[h].cur IN
  /\ hosts[h].st = "serving" /\ conn \notin {Nobody, Orphan}
  /\ \E o \in Outcomes(hosts[h].worker, conn.sent) :
       hosts' = [hosts EXCEPT ![h] =
         IF conn.sent = "cleanup" /\ o.ok THEN Holding("closing")
         ELSE [@ EXCEPT
           !.worker = o.worker, !.cur = Nobody,
           !.due = hosts[h].due \/ SetsDeadline(hosts[h].worker, conn.sent, o.ok),
           !.told = hosts[h].told \/ (conn.sent = "stop" /\ o.ok)]]
  /\ command' = Receive(conn.from)
  /\ UNCHANGED sock

(* The request of a command that gave up is served like any other, but the *)
(* OSError of its reply, or of a probe that sent nothing, is not caught:   *)
(* the host leaves its loop, with whatever worker it has then.             *)
ServeOrphan(h) ==
  /\ hosts[h].st = "serving" /\ hosts[h].cur = Orphan
  /\ hosts' = [hosts EXCEPT ![h] = Holding("closing")]
  /\ UNCHANGED <<sock, command>>

(* accept timed out, and five seconds have passed since some stop, whether *)
(* or not a worker was started after it.                                   *)
IdleExit(h) ==
  /\ hosts[h].st = "serving" /\ hosts[h].cur = Nobody /\ hosts[h].queue = <<>>
  /\ hosts[h].due
  /\ hosts' = [hosts EXCEPT ![h] = Holding("closing")]
  /\ UNCHANGED <<sock, command>>

(* The finally clause: whatever socket the path names goes.                *)
UnlinkOnExit(h) ==
  /\ hosts[h].st = "closing"
  /\ hosts' = [hosts EXCEPT ![h].st = "dead"]
  /\ sock' = Nobody
  /\ UNCHANGED command

(* A host killed from outside leaves its socket behind.                    *)
Killed(h) ==
  /\ hosts[h].st \in {"starting", "checked", "bound", "serving", "closing"}
  /\ hosts' = [hosts EXCEPT ![h] = Holding("dead")]
  /\ UNCHANGED <<sock, command>>

(* The agent whose pipes the host owns ends by itself.                     *)
WorkerEnds(h) ==
  /\ hosts[h].worker = "live"
  /\ hosts' = [hosts EXCEPT ![h].worker = "ended"]
  /\ UNCHANGED <<sock, command>>

-----------------------------------------------------------------------------
CommandStep(c) ==
  \/ Connect(c) \/ Refused(c) \/ Dropped(c) \/ GiveUp(c) \/ Probe(c) \/ UnlinkStale(c)
  \/ Popen(c) \/ SpawnFails(c)

HostStep(h) ==
  \/ CheckPath(h) \/ Bind(h) \/ Listen(h) \/ Accept(h) \/ IdleExit(h) \/ UnlinkOnExit(h)

HostNext ==
  \/ \E c \in Command : BeginCommand(c) \/ CommandStep(c)
  \/ \E h \in HostProcess : HostStep(h) \/ Serve(h) \/ ServeOrphan(h) \/ Killed(h) \/ WorkerEnds(h)

HostSpec == HostInit /\ [][HostNext]_hostVars

(* A command runs on, for every socket of it has a timeout, and a host     *)
(* that is not busy with a request runs on.  That a request is ever served *)
(* is not supposed: an operation may wait for an agent that does nothing.  *)
HostFairness ==
  /\ \A c \in Command : WF_hostVars(CommandStep(c))
  /\ \A h \in HostProcess : WF_hostVars(HostStep(h))

FairHostSpec == HostSpec /\ HostFairness

-----------------------------------------------------------------------------
(* The host owns the pipes of the worker so that later commands observe,   *)
(* prompt and stop the same worker, says the contract of the adapter: a    *)
(* worker that runs has its host at the path.  Two commands that spawn at  *)
(* once, or a host that leaves, can take the path from it.                 *)
LiveWorkerIsReached == \A h \in HostProcess : hosts[h].worker = "live" => sock = h

(* Every call returns, however long a host takes for a request, whatever   *)
(* hosts are killed, and however many other calls there are.               *)
CallsReturn == \A c \in Command : command[c].pc # "idle" ~> command[c].pc = "idle"

(* A host has work as long as somebody asks it or its worker runs.         *)
HasWork(h) ==
  hosts[h].queue # <<>> \/ hosts[h].cur # Nobody \/ hosts[h].worker = "live"

(* A host that has told a command that its worker is stopped leaves in the *)
(* end, unless it gets work again and again: no host without a worker      *)
(* stays behind, reached or out of reach.                                  *)
StoppedHostLeaves ==
  \A h \in HostProcess : []<>HasWork(h) \/ (hosts[h].told ~> hosts[h].st = "dead")

=============================================================================
