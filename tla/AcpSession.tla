----------------------------- MODULE AcpSession -----------------------------
(***************************************************************************)
(* adapters/acp.py, the half inside a host: AcpConnection and the session  *)
(* of one worker in AcpRuntimeAdapter, from the launch of the agent to the *)
(* end of its session.  One thread calls the adapter (the host serves one  *)
(* request at a time), one background thread per prompt waits for the end  *)
(* of the turn, the reader thread takes the agent's messages, and the      *)
(* agent is a process at the other end of two pipes.                       *)
(*                                                                         *)
(* A step is what runs between two points where another thread can get in: *)
(* taking a lock, waiting on an event, reading or writing a pipe.  One     *)
(* lock is held while the pipe to the agent is written, and a message that *)
(* the pipe has no room for waits, with the lock, until the agent reads.   *)
(***************************************************************************)
EXTENDS Naturals, Sequences, FiniteSets

CONSTANTS
  Prompt,      \* prompts, each sent by a thread of its own
  Nothing,
  MaxMessages  \* bound on what the agent writes

Handshake == {"initialize", "session/new"}

RpcRequest == Handshake \cup Prompt

Reply == {"result", "error", "invalid"}

(* What the agent may write: the answer to a request, a request of its own *)
(* (a file or a permission), or a line the reader refuses.                 *)
Message == [id : RpcRequest, kind : Reply]
             \cup [id : {Nothing}, kind : {"inbound", "oversized"}]

ASSUME SessionAssumption ==
  /\ Prompt \cap Handshake = {} /\ MaxMessages \in Nat
  /\ Nothing \notin RpcRequest \cup Message \cup Reply \cup {"transport", "reader", "main"}
  /\ Prompt \cap {"reader", "main", "reply"} = {}

SessionState == {"idle", "running", "awaiting_input", "failed", "exited"}

VARIABLES
  agent,     \* the agent process: "none" before the launch, "up", "down"
  out,       \* what the agent wrote and the reader has not read
  sent,      \* how many messages the agent wrote
  heard,     \* the requests written to the agent, and "reply" after an answer
  closed,    \* AcpConnection._closed
  stdin,     \* whether the pipe to the agent is open on this side
  writer,    \* who holds _write_lock: a request, "reader", "main" or Nothing
  pipe,      \* the write in progress: "full" when it waits for the agent to
             \* read, "drained" when it has waited, else "free"
  pending,   \* the requests of AcpConnection._pending
  settled,   \* the answer set into a pending call, with its event
  req,       \* where the thread of each request is
  hand,      \* the call and message the reader took and has not settled
  failing,   \* the calls _fail_pending took and has not settled, by thread
  reader,    \* the reader thread
  state,     \* _SessionState.state
  present,   \* the session is in AcpRuntimeAdapter._sessions
  main,      \* where the calling thread is
  shown,     \* the state the last summary returned
  late       \* requests of the agent served after its session was over

wire == <<stdin, writer, pipe>>
conn == <<closed, wire, pending, settled, hand, failing, reader>>
sessionVars == <<agent, out, sent, heard, closed, wire, pending, settled, req, hand,
                 failing, reader, state, present, main, shown, late>>

ReqState == {"unused", "new", "check", "write", "wait", "ok", "bad", "dead", "over"}

Main == {"idle", "handshake", "status", "cancel", "cancelling", "closing", "stdin",
         "drain", "release", "kill", "mark", "summary", "gone"}

SessionTypeOK ==
  /\ agent \in {"none", "up", "down"}
  /\ out \in Seq(Message) /\ sent \in 0..MaxMessages
  /\ heard \subseteq RpcRequest \cup {"reply"}
  /\ closed \in BOOLEAN /\ stdin \in BOOLEAN
  /\ writer \in RpcRequest \cup {"reader", "main", Nothing}
  /\ pipe \in {"free", "full", "drained"}
  /\ pending \subseteq RpcRequest
  /\ settled \in [RpcRequest -> Reply \cup {"transport", Nothing}]
  /\ req \in [RpcRequest -> ReqState]
  /\ hand \in Message \cup {Nothing}
  /\ failing \in [{"main", "reader"} -> SUBSET RpcRequest]
  /\ reader \in {"off", "reading", "serve", "reply", "write", "fail", "release",
                "done"}
  /\ state \in SessionState /\ present \in BOOLEAN
  /\ main \in Main /\ shown \in SessionState \cup {Nothing}
  /\ late \in 0..MaxMessages

SessionInit ==
  /\ agent = "none" /\ out = <<>> /\ sent = 0 /\ heard = {}
  /\ closed = FALSE /\ stdin = FALSE /\ writer = Nothing /\ pipe = "free"
  /\ pending = {} /\ settled = [r \in RpcRequest |-> Nothing]
  /\ req = [r \in RpcRequest |-> "unused"]
  /\ hand = Nothing /\ failing = [t \in {"main", "reader"} |-> {}]
  /\ reader = "off"
  /\ state = "idle" /\ present = FALSE /\ main = "idle" /\ shown = Nothing
  /\ late = 0

-----------------------------------------------------------------------------
(* AcpConnection.request, in the calling thread for the handshake and in a *)
(* thread of its own for a prompt.                                         *)

Step(r, to) == req' = [req EXCEPT ![r] = to]

Register(r) ==
  /\ req[r] = "new"
  /\ pending' = pending \cup {r}
  /\ Step(r, "check")
  /\ UNCHANGED <<agent, out, sent, heard, closed, wire, settled, hand, failing,
                 reader, state, present, main, shown, late>>

-----------------------------------------------------------------------------
(* The pipe to the agent, and the lock around it.                          *)

Lock(w) == writer = Nothing /\ writer' = w

(* The write is over, done or not, and the lock is given up.               *)
Unlock(w) == writer = w /\ writer' = Nothing /\ pipe' = "free"

Room == pipe # "full"

(* A prompt, or the answer to a request of the agent, can be more than the *)
(* pipe takes, or leave it too full for what is written next.              *)
PipeFills ==
  /\ writer # Nothing /\ pipe = "free" /\ stdin /\ agent = "up"
  /\ \/ writer \in Prompt \cup {"reader"}
     \/ heard \cap (Prompt \cup {"reply"}) # {}
  /\ pipe' = "full"
  /\ UNCHANGED <<agent, out, sent, heard, closed, stdin, writer, pending, settled, req,
                 hand, failing, reader, state, present, main, shown, late>>

AgentReads ==
  /\ pipe = "full" /\ agent = "up"
  /\ pipe' = "drained"
  /\ UNCHANGED <<agent, out, sent, heard, closed, stdin, writer, pending, settled, req,
                 hand, failing, reader, state, present, main, shown, late>>

(* A message of more than 1 MiB is refused before the lock is asked for,   *)
(* as JSON a prompt can be that long.  _closed is read under the lock.     *)
Check(r) ==
  /\ req[r] = "check"
  /\ \/ /\ r \in Prompt
        /\ Step(r, "bad") /\ pending' = pending \ {r}
        /\ UNCHANGED writer
     \/ /\ writer = Nothing /\ closed
        /\ Step(r, "bad") /\ pending' = pending \ {r}
        /\ UNCHANGED writer
     \/ /\ Lock(r) /\ ~closed
        /\ Step(r, "write")
        /\ UNCHANGED pending
  /\ UNCHANGED <<agent, out, sent, heard, closed, stdin, pipe, settled, hand, failing,
                 reader, state, present, main, shown, late>>

(* A write to a pipe this side closed in between raises ValueError, which  *)
(* nothing catches: the thread ends and its call stays registered.         *)
Write(r) ==
  /\ req[r] = "write" /\ Unlock(r)
  /\ \/ /\ ~stdin
        /\ Step(r, "dead") /\ UNCHANGED <<pending, heard>>
     \/ /\ stdin /\ agent = "down"
        /\ Step(r, "bad") /\ pending' = pending \ {r} /\ UNCHANGED heard
     \/ /\ stdin /\ agent = "up" /\ Room
        /\ Step(r, "wait") /\ heard' = heard \cup {r} /\ UNCHANGED pending
  /\ UNCHANGED <<agent, out, sent, closed, stdin, settled, hand, failing,
                 reader, state, present, main, shown, late>>

(* The event is set: a result that is malformed for this request is an     *)
(* error too.                                                              *)
Wake(r) ==
  /\ req[r] = "wait" /\ settled[r] # Nothing
  /\ Step(r, IF settled[r] = "result" THEN "ok" ELSE "bad")
  /\ UNCHANGED <<agent, out, sent, heard, conn, state, present, main, shown, late>>

TimeOut(r) ==
  /\ req[r] = "wait"
  /\ Step(r, "bad")
  /\ pending' = pending \ {r}
  /\ UNCHANGED <<agent, out, sent, heard, closed, wire, settled, hand, failing,
                 reader, state, present, main, shown, late>>

(* The end of a prompt thread: _send_prompt.run.                           *)
EndTurn(p) ==
  /\ p \in Prompt
  /\ \/ /\ req[p] = "ok"
        /\ state' = "awaiting_input"
     \/ /\ req[p] = "bad"
        /\ state' = IF state = "exited" THEN state ELSE "failed"
  /\ Step(p, "over")
  /\ UNCHANGED <<agent, out, sent, heard, conn, present, main, shown, late>>

-----------------------------------------------------------------------------
(* The reader thread: _read_loop, _dispatch and their handlers.            *)

(* Mutant: a malformed answer is dropped.                                 *)
ReadDroppingInvalid ==
  /\ reader = "reading" /\ hand = Nothing /\ out # <<>>
  /\ out' = Tail(out)
  /\ LET m == Head(out) IN
     /\ reader' = CASE closed                           -> "done"
                    [] ~closed /\ m.kind = "oversized" -> "fail"
                    [] ~closed /\ m.kind = "inbound"   -> "serve"
                    [] ~closed /\ m.kind \in Reply     -> "reading"
     /\ hand' = IF m.id \in pending /\ ~closed /\ m.kind # "invalid" THEN m ELSE Nothing
     /\ pending' = IF closed THEN pending ELSE pending \ {m.id}
  /\ UNCHANGED <<agent, sent, heard, closed, wire, settled, req, failing, state,
                 present, main, shown, late>>

Read ==
  /\ reader = "reading" /\ hand = Nothing /\ out # <<>>
  /\ out' = Tail(out)
  /\ LET m == Head(out) IN
     /\ reader' = CASE closed                           -> "done"
                    [] ~closed /\ m.kind = "oversized" -> "fail"
                    [] ~closed /\ m.kind = "inbound"   -> "serve"
                    [] ~closed /\ m.kind \in Reply     -> "reading"
     /\ hand' = IF m.id \in pending /\ ~closed THEN m ELSE Nothing
     /\ pending' = IF closed THEN pending ELSE pending \ {m.id}
  /\ UNCHANGED <<agent, sent, heard, closed, wire, settled, req, failing, state,
                 present, main, shown, late>>

(* _handle_response sets the answer and the event after giving up the lock. *)
Settle ==
  /\ hand # Nothing
  /\ settled' = [settled EXCEPT ![hand.id] = hand.kind]
  /\ hand' = Nothing
  /\ UNCHANGED <<agent, out, sent, heard, closed, wire, pending, req, failing,
                 reader, state, present, main, shown, late>>

(* The handler of a request, in the reader thread: a file of the worktree  *)
(* is read or written, a permission is given or not; a path outside the    *)
(* worktree is an error, which is an answer too.  Only the connection is   *)
(* closed by a stop, so a handler may still be at work when it is over.    *)
ServeInbound ==
  /\ reader = "serve"
  /\ reader' = "reply"
  /\ late' = IF main = "gone" THEN late + 1 ELSE late
  /\ UNCHANGED <<agent, out, sent, heard, closed, wire, pending, settled, req,
                 hand, failing, state, present, main, shown>>

(* The answer to a request of the agent: one of more than 1 MiB ends the   *)
(* reader, with the agent up and the connection open.                      *)
ReplyInbound ==
  /\ reader = "reply"
  /\ \/ reader' = "fail" /\ UNCHANGED writer
     \/ writer = Nothing /\ closed /\ reader' = "fail" /\ UNCHANGED writer
     \/ Lock("reader") /\ ~closed /\ reader' = "write"
  /\ UNCHANGED <<agent, out, sent, heard, closed, stdin, pipe, pending, settled, req,
                 hand, failing, state, present, main, shown, late>>

(* An error of the transport ends the reader, a ValueError is passed over. *)
WriteReply ==
  /\ reader = "write" /\ Unlock("reader")
  /\ \/ ~stdin /\ reader' = "reading" /\ UNCHANGED heard
     \/ stdin /\ agent = "down" /\ reader' = "fail" /\ UNCHANGED heard
     \/ /\ stdin /\ agent = "up" /\ Room
        /\ reader' = "reading" /\ heard' = heard \cup {"reply"}
  /\ UNCHANGED <<agent, out, sent, closed, stdin, pending, settled, req,
                 hand, failing, state, present, main, shown, late>>

EndOfFile ==
  /\ reader = "reading" /\ hand = Nothing /\ out = <<>> /\ agent = "down"
  /\ reader' = "fail"
  /\ UNCHANGED <<agent, out, sent, heard, closed, wire, pending, settled, req,
                 hand, failing, state, present, main, shown, late>>

(* _fail_pending: take every registered call, then settle them.            *)
TakePending(t) ==
  /\ failing' = [failing EXCEPT ![t] = pending]
  /\ pending' = {}

Release(t) ==
  /\ settled' = [r \in RpcRequest |-> IF r \in failing[t] THEN "transport" ELSE settled[r]]
  /\ failing' = [failing EXCEPT ![t] = {}]

ReaderFails ==
  /\ reader = "fail"
  /\ TakePending("reader")
  /\ reader' = "release"
  /\ UNCHANGED <<agent, out, sent, heard, closed, wire, settled, req, hand,
                 state, present, main, shown, late>>

ReaderReleases ==
  /\ reader = "release"
  /\ Release("reader")
  /\ reader' = "done"
  /\ UNCHANGED <<agent, out, sent, heard, closed, wire, pending, req, hand,
                 state, present, main, shown, late>>

-----------------------------------------------------------------------------
(* AcpRuntimeAdapter, in the calling thread.                               *)

StartSession ==
  /\ main = "idle" /\ agent = "none"
  /\ agent' = "up" /\ stdin' = TRUE /\ reader' = "reading"
  /\ present' = TRUE /\ state' = "idle"
  /\ main' = "handshake"
  /\ Step("initialize", "new")
  /\ UNCHANGED <<out, sent, heard, closed, writer, pipe, pending, settled, hand, failing,
                 shown, late>>

(* The answer of initialize and session/new is validated; the worker then  *)
(* gets its prompt.                                                        *)
Initialized ==
  /\ main = "handshake" /\ req["initialize"] = "ok" /\ req["session/new"] = "unused"
  /\ Step("session/new", "new")
  /\ UNCHANGED <<agent, out, sent, heard, conn, state, present, main, shown, late>>

(* Mutant: a running worker may be prompted.                               *)
CanPromptAnyLive == state \notin {"failed", "exited"}

CanPrompt == state \in {"idle", "awaiting_input"}

SendPrompt ==
  /\ state' = "running"
  /\ \E p \in Prompt :
       /\ req[p] = "unused"
       /\ Step(p, "new")

Created ==
  /\ main = "handshake" /\ req["session/new"] = "ok"
  /\ SendPrompt
  /\ main' = "summary"
  /\ UNCHANGED <<agent, out, sent, heard, conn, present, shown, late>>

HandshakeFails ==
  /\ main = "handshake" /\ \E r \in Handshake : req[r] = "bad"
  /\ state' = "failed" /\ present' = FALSE
  /\ main' = "closing"
  /\ UNCHANGED <<agent, out, sent, heard, conn, req, shown, late>>

SendInput ==
  /\ main = "idle" /\ present /\ CanPrompt
  /\ SendPrompt
  /\ main' = "summary"
  /\ UNCHANGED <<agent, out, sent, heard, conn, present, shown, late>>

(* worker_summary looks at the process and at the state without the lock,  *)
(* and writes the state with it.                                           *)
WorkerSummary ==
  /\ main = "idle" /\ present
  /\ main' = IF agent = "down" /\ state \notin {"exited", "failed"}
             THEN "status" ELSE "summary"
  /\ UNCHANGED <<agent, out, sent, heard, conn, req, state, present, shown, late>>

MarkEnded ==
  /\ main = "status"
  /\ state' = "exited"
  /\ main' = "summary"
  /\ UNCHANGED <<agent, out, sent, heard, conn, req, present, shown, late>>

ReturnSummary ==
  /\ main = "summary"
  /\ shown' = state
  /\ main' = IF present THEN "idle" ELSE "gone"
  /\ UNCHANGED <<agent, out, sent, heard, conn, req, state, present, late>>

(* stop_worker: session/cancel (whose failure is ignored), close, wait for *)
(* the process or kill it.                                                 *)
StopSession ==
  /\ main = "idle" /\ present
  /\ present' = FALSE
  /\ main' = "cancel"
  /\ UNCHANGED <<agent, out, sent, heard, conn, req, state, shown, late>>

Cancel ==
  /\ main = "cancel" /\ Lock("main")
  /\ main' = "cancelling"
  /\ UNCHANGED <<agent, out, sent, heard, closed, stdin, pipe, pending, settled, req, hand,
                 failing, reader, state, present, shown, late>>

WriteCancel ==
  /\ main = "cancelling" /\ Unlock("main")
  /\ agent = "down" \/ Room
  /\ main' = "closing"
  /\ UNCHANGED <<agent, out, sent, heard, closed, stdin, pending, settled, req, hand,
                 failing, reader, state, present, shown, late>>

CloseConnection ==
  /\ main = "closing"
  /\ closed' = TRUE
  /\ main' = "stdin"
  /\ UNCHANGED <<agent, out, sent, heard, wire, pending, settled, req, hand,
                 failing, reader, state, present, shown, late>>

(* The pipe is not closed under a write that waits in it.                  *)
CloseStdin ==
  /\ main = "stdin" /\ pipe = "free"
  /\ stdin' = FALSE
  /\ main' = "drain"
  /\ UNCHANGED <<agent, out, sent, heard, closed, writer, pipe, pending, settled, req, hand,
                 failing, reader, state, present, shown, late>>

(* Mutant: the calls that wait are left to the reader.                     *)
CloseFailsNothing ==
  /\ main = "drain"
  /\ main' = "release"
  /\ UNCHANGED <<agent, out, sent, heard, conn, req, state, present, shown, late>>

CloseFails ==
  /\ main = "drain"
  /\ TakePending("main")
  /\ main' = "release"
  /\ UNCHANGED <<agent, out, sent, heard, closed, wire, settled, req, hand,
                 reader, state, present, shown, late>>

CloseReleases ==
  /\ main = "release"
  /\ Release("main")
  /\ main' = "kill"
  /\ UNCHANGED <<agent, out, sent, heard, closed, wire, pending, req, hand,
                 reader, state, present, shown, late>>

(* Mutant: the process is waited for and not killed.                       *)
WaitForProcess ==
  /\ main = "kill" /\ agent = "down"
  /\ main' = IF \E r \in Handshake : req[r] = "bad" THEN "gone" ELSE "mark"
  /\ UNCHANGED <<agent, out, sent, heard, conn, req, state, present, shown, late>>

(* Mutant: a process that does not end by itself is left alone.            *)
LeaveProcess ==
  /\ main = "kill"
  /\ main' = IF \E r \in Handshake : req[r] = "bad" THEN "gone" ELSE "mark"
  /\ UNCHANGED <<agent, out, sent, heard, conn, req, state, present, shown, late>>

KillProcess ==
  /\ main = "kill"
  /\ agent' = "down"
  /\ main' = IF \E r \in Handshake : req[r] = "bad" THEN "gone" ELSE "mark"
  /\ UNCHANGED <<out, sent, heard, conn, req, state, present, shown, late>>

MarkStopped ==
  /\ main = "mark"
  /\ state' = "exited"
  /\ main' = "summary"
  /\ UNCHANGED <<agent, out, sent, heard, conn, req, present, shown, late>>

-----------------------------------------------------------------------------
(* The agent.                                                              *)

AgentWrites ==
  /\ agent = "up" /\ sent < MaxMessages
  /\ \E m \in Message :
       /\ m.id \in heard \cup {Nothing}
       /\ out' = Append(out, m)
  /\ sent' = sent + 1
  /\ UNCHANGED <<agent, heard, conn, req, state, present, main, shown, late>>

AgentExits ==
  /\ agent = "up"
  /\ agent' = "down"
  /\ UNCHANGED <<out, sent, heard, conn, req, state, present, main, shown, late>>

-----------------------------------------------------------------------------
RequestStep(r) == Register(r) \/ Check(r) \/ Write(r) \/ Wake(r) \/ EndTurn(r)

ReaderStep ==
  Read \/ Settle \/ ServeInbound \/ ReplyInbound \/ WriteReply \/ EndOfFile \/ ReaderFails \/ ReaderReleases

MainStep ==
  \/ Initialized \/ Created \/ HandshakeFails \/ MarkEnded \/ ReturnSummary
  \/ Cancel \/ WriteCancel \/ CloseConnection \/ CloseStdin \/ CloseFails \/ CloseReleases
  \/ KillProcess \/ MarkStopped

AdapterCall == StartSession \/ SendInput \/ WorkerSummary \/ StopSession

SessionNext ==
  \/ \E r \in RpcRequest : RequestStep(r) \/ TimeOut(r)
  \/ ReaderStep \/ MainStep \/ AdapterCall
  \/ PipeFills \/ AgentReads \/ AgentWrites \/ AgentExits

SessionSpec == SessionInit /\ [][SessionNext]_sessionVars

(* Every thread runs on where it is not blocked, and the answers to the    *)
(* handshake have a timeout of half a minute.  The agent need do nothing.  *)
SessionFairness ==
  /\ \A r \in RpcRequest : WF_sessionVars(RequestStep(r))
  /\ WF_sessionVars(ReaderStep)
  /\ WF_sessionVars(MainStep)
  /\ \A r \in Handshake : WF_sessionVars(TimeOut(r))

FairSessionSpec == SessionSpec /\ SessionFairness

-----------------------------------------------------------------------------
InRequest(r) == req[r] \in {"new", "check", "write", "wait"}

InTurn(p) == InRequest(p) \/ req[p] \in {"ok", "bad"}

(* The reader has ended and nobody closes the connection.                  *)
Deaf == reader \in {"release", "done"} /\ ~closed

ReaderRuns == reader \in {"reading", "serve", "reply", "write", "fail"}

(* A stop is under way that has not taken the registered calls yet.        *)
CloseIsNear == main \in {"cancel", "cancelling", "closing", "stdin", "drain"}

(* Somebody will still set the event that a thread waits for: the thread   *)
(* that took its call, or a reader that runs, or a stop under way.  The    *)
(* exception are the calls registered after a reader has ended by itself,  *)
(* on a line or an answer too long, or with its agent, while the           *)
(* connection stays open: they wait for their timeout of an hour.          *)
WaiterIsHeld ==
  \A r \in RpcRequest :
    req[r] = "wait" /\ settled[r] = Nothing =>
      \/ r \in failing["main"] \cup failing["reader"]
      \/ hand # Nothing /\ hand.id = r
      \/ r \in pending /\ (ReaderRuns \/ CloseIsNear \/ Deaf)

(* One turn at a time, and a session that is running has one: the state    *)
(* and the background threads agree until the connection is closed.        *)
RunningHasItsTurn ==
  /\ \A p, q \in Prompt : InTurn(p) /\ InTurn(q) => p = q
  /\ state = "running" /\ ~closed => \E p \in Prompt : InTurn(p)

(* No worker is exited whose process runs; a session that was stopped or   *)
(* failed to start leaves no process behind, and of all the requests that  *)
(* the agent had written it serves one more at most, so that one file of   *)
(* the worktree may change after the stop was answered, not several.       *)
EndedLeavesNoProcess ==
  /\ (state = "exited" \/ main = "gone") => agent = "down"
  /\ late <= 1

(* A write waits for ever in the pipe of an agent that does not read.      *)
Stuck == <>[](pipe = "full")

(* Every call of the adapter returns, unless some write to the agent never *)
(* ends: stop and close wait for the write lock and for the pipe.          *)
AdapterReturns == Stuck \/ (main \notin {"idle", "gone"} ~> main \in {"idle", "gone"})

(* A stop ends the turn of a prompt, also one the reader would not answer  *)
(* any more, without the timeout of an hour.                               *)
StopEndsTurns ==
  Stuck \/ \A p \in Prompt : (closed /\ InRequest(p)) ~> ~InRequest(p)

=============================================================================
