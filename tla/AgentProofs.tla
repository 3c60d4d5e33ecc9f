---------------------------- MODULE AgentProofs ----------------------------
(***************************************************************************)
(* The agents, proved about layer by layer: the session of one ACP agent   *)
(* (AcpSession), the control host that serves a workspace (AcpHost), and   *)
(* what RuntimeWorkers records of the workers behind the hosts.  Sessions  *)
(* and records have an inductive invariant each: SessionInv, and           *)
(* RuntimeInv with ShownInv; of the hosts only the types are proved.       *)
(***************************************************************************)
EXTENDS AcpSession, AcpHost, RuntimeWorkers, SequenceTheorems, TLAPS


(* Where the calling thread, the process and the connection stand to one   *)
(* another.                                                                *)
PhaseOK ==
  /\ agent = "none" => /\ main = "idle" /\ reader = "off" /\ ~present /\ ~closed
                       /\ \A r \in RpcRequest : req[r] = "unused"
  /\ agent # "none" => (stdin \/ closed) /\ reader # "off"
  /\ main = "idle" => present \/ agent = "none"
  /\ main \in {"handshake", "status"} => present
  /\ main = "summary" => present \/ (agent = "down" /\ closed)
  /\ main = "status" => agent = "down"
  /\ main \in {"mark", "gone"} => agent = "down"
  /\ main \in {"stdin", "drain", "release", "kill", "mark", "gone"} => closed
  /\ main = "handshake" => \A p \in Prompt : req[p] = "unused"
  /\ state = "exited" => agent = "down"

(* The messages of the agent: none is served before one was written, and   *)
(* after the connection is closed the reader takes no more.                *)
ReaderOK ==
  /\ out # <<>> \/ reader = "serve" => sent >= 1
  /\ late <= 1
  /\ late # 0 => main = "gone" /\ reader # "serve"

Awaited(r) == req[r] \in {"check", "write", "wait"}

(* A request is held from its registration on: the calls that a thread     *)
(* took of the pending ones stay its own until it has settled them.        *)
HeldOK ==
  /\ main # "release" => failing["main"] = {}
  /\ reader # "release" => failing["reader"] = {}
  /\ hand # Nothing => hand.id \in RpcRequest /\ hand.kind \in Reply
  /\ \A r \in RpcRequest : Awaited(r) =>
       \/ settled[r] # Nothing
       \/ r \in pending \cup failing["main"] \cup failing["reader"]
       \/ hand # Nothing /\ hand.id = r

(* The session is over before its connection closes; and once the stop has *)
(* taken the registered calls, none that waits for an answer is registered *)
(* again: whatever registers then finds the connection closed.             *)
CloseOK ==
  /\ CloseIsNear \/ closed => ~present
  /\ closed => main \in {"stdin", "drain", "release", "kill", "mark", "summary", "gone"}
  /\ closed /\ ~CloseIsNear =>
       \A r \in RpcRequest : req[r] \in {"write", "wait"} => r \notin pending

(* A turn keeps the session from being prompted.                           *)
TurnsOK ==
  /\ \A p, q \in Prompt : InTurn(p) /\ InTurn(q) => p = q
  /\ \A p \in Prompt : InTurn(p) => state \notin {"idle", "awaiting_input"}
  /\ state = "running" /\ ~closed => \E p \in Prompt : InTurn(p)

SessionInv == SessionTypeOK /\ PhaseOK /\ ReaderOK /\ HeldOK /\ CloseOK /\ TurnsOK

LEMMA Messages ==
  ASSUME NEW m \in Message
  PROVE  /\ m # Nothing /\ m.kind \in Reply \cup {"inbound", "oversized"}
         /\ m.id \in RpcRequest => m.kind \in Reply
BY SessionAssumption DEF Message

(* A thread of a request moves, and no other does.                         *)
LEMMA Moves ==
  ASSUME SessionTypeOK, NEW r \in RpcRequest, NEW to \in ReqState, Step(r, to)
  PROVE  /\ req' \in [RpcRequest -> ReqState] /\ req'[r] = to
         /\ \A q \in RpcRequest : q # r => req'[q] = req[q]
BY DEF SessionTypeOK, Step

(* The requests of the handshake are no prompts.                           *)
LEMMA Requests ==
  /\ "initialize" \in RpcRequest /\ "session/new" \in RpcRequest /\ Prompt \subseteq RpcRequest
  /\ "initialize" \notin Prompt /\ "session/new" \notin Prompt
BY SessionAssumption DEF RpcRequest, Handshake

(* A request is written to the agent, or its thread is told otherwise.     *)
LEMMA Writes ==
  ASSUME SessionTypeOK, PhaseOK, NEW r \in RpcRequest, Write(r)
  PROVE  /\ req[r] = "write" /\ agent # "none"
         /\ \E to \in {"dead", "bad", "wait"} : Step(r, to) /\ (to = "dead" => closed)
         /\ heard' \subseteq RpcRequest \cup {"reply"} /\ pending' \subseteq pending
         /\ Step(r, "wait") => pending' = pending
         /\ \A q \in RpcRequest : q # r => (q \in pending' <=> q \in pending)
         /\ UNCHANGED <<agent, out, sent, closed, stdin, settled, hand, failing,
                        reader, state, present, main, shown, late>>
<1>1. /\ req[r] = "write"
      /\ UNCHANGED <<agent, out, sent, closed, stdin, settled, hand, failing,
                     reader, state, present, main, shown, late>>
  BY DEF Write, Unlock
<1>2. agent \in {"up", "down"} /\ (stdin \/ closed)
  BY <1>1 DEF PhaseOK, SessionTypeOK
<1>3. heard \subseteq RpcRequest \cup {"reply"} /\ req[r] \in ReqState
  BY DEF SessionTypeOK
<1>4. CASE ~stdin
  BY <1>1, <1>2, <1>3, <1>4, Moves DEF Write, Unlock
<1>5. CASE stdin /\ agent = "down"
  BY <1>1, <1>2, <1>3, <1>5, Moves DEF Write, Unlock, ReqState
<1>6. CASE stdin /\ agent = "up"
  BY <1>1, <1>2, <1>3, <1>6, Moves DEF Write, Unlock
<1>. QED BY <1>2, <1>4, <1>5, <1>6

LEMMA SessionTypeStep ==
  ASSUME SessionTypeOK, PhaseOK, ReaderOK, HeldOK, [SessionNext]_sessionVars
  PROVE  SessionTypeOK'
<1>1. CASE UNCHANGED sessionVars
  BY <1>1 DEF SessionTypeOK, sessionVars, conn, wire
<1>2. ASSUME NEW r \in RpcRequest, Register(r) PROVE SessionTypeOK'
  BY <1>2 DEF SessionTypeOK, ReqState, Register, Step, conn, wire
<1>3. ASSUME NEW r \in RpcRequest, Check(r) PROVE SessionTypeOK'
  BY <1>3 DEF SessionTypeOK, ReqState, Check, Lock, Step, conn, wire
<1>4. ASSUME NEW r \in RpcRequest, Write(r) PROVE SessionTypeOK'
  <2>1. PICK to \in {"dead", "bad", "wait"} : Step(r, to) /\ (to = "dead" => closed)
    BY <1>4, Writes
  <2>2. /\ req' \in [RpcRequest -> ReqState] /\ req'[r] = to
        /\ \A q \in RpcRequest : q # r => req'[q] = req[q]
    BY <2>1, Moves DEF ReqState
  <2>3. heard' \subseteq RpcRequest \cup {"reply"} /\ pending' \subseteq RpcRequest
    BY <1>4, Writes DEF SessionTypeOK
  <2>. QED BY <1>4, <2>2, <2>3 DEF SessionTypeOK, Write, Unlock
<1>5. ASSUME NEW r \in RpcRequest, Wake(r) PROVE SessionTypeOK'
  BY <1>5 DEF SessionTypeOK, ReqState, Wake, Step, conn, wire
<1>6. ASSUME NEW r \in RpcRequest, EndTurn(r) PROVE SessionTypeOK'
  BY <1>6 DEF SessionTypeOK, ReqState, SessionState, EndTurn, Step, conn, wire
<1>7. ASSUME NEW r \in RpcRequest, TimeOut(r) PROVE SessionTypeOK'
  BY <1>7 DEF SessionTypeOK, ReqState, TimeOut, Step, conn, wire
<1>8. CASE Read
  BY <1>8, Messages DEF SessionTypeOK, Read, conn, wire
<1>9. CASE Settle
  <2>1. hand \in Message
    BY <1>9 DEF Settle, SessionTypeOK
  <2>2. settled' \in [RpcRequest -> Reply \cup {"transport", Nothing}]
    BY <1>9, <2>1 DEF Settle, SessionTypeOK, HeldOK
  <2>. QED BY <1>9, <2>2 DEF SessionTypeOK, Settle, wire
<1>10. CASE ServeInbound
  BY <1>10, SessionAssumption DEF SessionTypeOK, ReaderOK, ServeInbound, conn, wire
<1>11. CASE ReplyInbound
  BY <1>11 DEF SessionTypeOK, ReplyInbound, Lock, conn, wire
<1>12. CASE EndOfFile
  BY <1>12 DEF SessionTypeOK, EndOfFile, conn, wire
<1>13. CASE ReaderFails
  BY <1>13 DEF SessionTypeOK, ReaderFails, TakePending, conn, wire
<1>14. CASE ReaderReleases
  BY <1>14 DEF SessionTypeOK, ReaderReleases, Release, conn, wire
<1>15. CASE Initialized
  <2>1. req' \in [RpcRequest -> ReqState]
    BY <1>15, Moves, Requests DEF Initialized, ReqState
  <2>. QED BY <1>15, <2>1 DEF SessionTypeOK, Initialized, conn, wire
<1>16. CASE Created
  <2>1. req' \in [RpcRequest -> ReqState]
    BY <1>16, Moves, Requests DEF Created, SendPrompt, ReqState
  <2>. QED BY <1>16, <2>1
           DEF SessionTypeOK, Created, SendPrompt, SessionState, Main, conn, wire
<1>17. CASE HandshakeFails
  <2>1. /\ state' \in SessionState /\ present' \in BOOLEAN /\ main' \in Main
        /\ UNCHANGED <<agent, out, sent, heard, closed, stdin, writer, pipe, pending,
                       settled, req, hand, failing, reader, shown, late>>
    BY <1>17 DEF HandshakeFails, SessionState, Main, conn, wire
  <2>. QED BY <2>1 DEF SessionTypeOK
<1>18. CASE MarkEnded
  BY <1>18 DEF SessionTypeOK, SessionState, Main, MarkEnded, conn, wire
<1>19. CASE ReturnSummary
  BY <1>19 DEF SessionTypeOK, Main, ReturnSummary, conn, wire
<1>20. CASE CloseConnection
  BY <1>20 DEF SessionTypeOK, Main, CloseConnection, conn, wire
<1>21. CASE CloseStdin
  BY <1>21 DEF SessionTypeOK, CloseStdin, Main, conn, wire
<1>22. CASE CloseFails
  BY <1>22 DEF SessionTypeOK, Main, CloseFails, TakePending, conn, wire
<1>23. CASE CloseReleases
  BY <1>23 DEF SessionTypeOK, Main, CloseReleases, Release, conn, wire
<1>24. CASE KillProcess
  BY <1>24 DEF SessionTypeOK, Main, KillProcess, conn, wire
<1>25. CASE MarkStopped
  BY <1>25 DEF SessionTypeOK, SessionState, Main, MarkStopped, conn, wire
<1>26. CASE StartSession
  BY <1>26 DEF SessionTypeOK, ReqState, SessionState, Main, StartSession, Step, conn, wire
<1>27. CASE SendInput
  <2>1. /\ state' = "running" /\ main' = "summary"
        /\ UNCHANGED <<agent, out, sent, heard, closed, stdin, writer, pipe, pending,
                       settled, hand, failing, reader, present, shown, late>>
    BY <1>27 DEF SendInput, SendPrompt, conn, wire
  <2>2. req' \in [RpcRequest -> ReqState]
    BY <1>27, Moves, Requests DEF SendInput, SendPrompt, ReqState
  <2>. QED BY <2>1, <2>2 DEF SessionTypeOK, SessionState, Main
<1>28. CASE WorkerSummary
  BY <1>28 DEF SessionTypeOK, Main, WorkerSummary, conn, wire
<1>29. CASE StopSession
  <2>1. /\ present' \in BOOLEAN /\ main' \in Main
        /\ UNCHANGED <<agent, out, sent, heard, closed, stdin, writer, pipe, pending,
                       settled, req, hand, failing, reader, state, shown, late>>
    BY <1>29 DEF StopSession, Main, conn, wire
  <2>. QED BY <2>1 DEF SessionTypeOK
<1>30. CASE AgentWrites
  BY <1>30, SessionAssumption DEF SessionTypeOK, AgentWrites, conn, wire
<1>31. CASE AgentExits
  BY <1>31 DEF SessionTypeOK, AgentExits, conn, wire
<1>32. CASE WriteReply
  BY <1>32 DEF SessionTypeOK, Main, WriteReply, Unlock, wire
<1>33. CASE Cancel
  BY <1>33 DEF SessionTypeOK, Main, Cancel, Lock, wire
<1>34. CASE WriteCancel
  BY <1>34 DEF SessionTypeOK, Main, WriteCancel, Unlock, wire
<1>35. CASE PipeFills
  BY <1>35 DEF SessionTypeOK, Main, PipeFills, wire
<1>36. CASE AgentReads
  BY <1>36 DEF SessionTypeOK, Main, AgentReads, wire
<1>. QED
  BY <1>1, <1>2, <1>3, <1>4, <1>5, <1>6, <1>7, <1>8, <1>9, <1>10, <1>11, <1>12, <1>13,
     <1>14, <1>15, <1>16, <1>17, <1>18, <1>19, <1>20, <1>21, <1>22, <1>23, <1>24, <1>25,
     <1>26, <1>27, <1>28, <1>29, <1>30, <1>31, <1>32, <1>33, <1>34, <1>35, <1>36
  DEF SessionNext, RequestStep, ReaderStep, MainStep, AdapterCall

LEMMA PhaseStep ==
  ASSUME SessionTypeOK, PhaseOK, [SessionNext]_sessionVars
  PROVE  PhaseOK'
<1>1. CASE UNCHANGED sessionVars
  BY <1>1 DEF PhaseOK, SessionTypeOK, sessionVars, conn, wire
<1>2. ASSUME NEW r \in RpcRequest, Register(r) PROVE PhaseOK'
  BY <1>2 DEF PhaseOK, SessionTypeOK, Register, Step, conn, wire
<1>3. ASSUME NEW r \in RpcRequest, Check(r) PROVE PhaseOK'
  <2>1. PICK to \in {"bad", "write"} : Step(r, to)
    BY <1>3 DEF Check, Lock
  <2>2. req'[r] # "unused" /\ req[r] \notin {"unused", "ok", "bad"}
        /\ \A q \in RpcRequest : q # r => req'[q] = req[q]
    BY <1>3, <2>1, Moves DEF Check, Lock, ReqState
  <2>3. agent # "none" /\ (r \in Prompt => main # "handshake")
    BY <2>2 DEF PhaseOK
  <2>. QED BY <1>3, <2>2, <2>3, Requests DEF PhaseOK, Check, Lock
<1>4. ASSUME NEW r \in RpcRequest, Write(r) PROVE PhaseOK'
  <2>1. PICK to \in {"dead", "bad", "wait"} : Step(r, to) /\ (to = "dead" => closed)
    BY <1>4, Writes
  <2>2. /\ req' \in [RpcRequest -> ReqState] /\ req'[r] = to
        /\ \A q \in RpcRequest : q # r => req'[q] = req[q]
    BY <2>1, Moves DEF ReqState
  <2>3. agent # "none" /\ (r \in Prompt => main # "handshake")
    BY <1>4 DEF PhaseOK, Write, Unlock
  <2>. QED BY <1>4, <2>2, <2>3, Requests, Writes DEF PhaseOK
<1>5. ASSUME NEW r \in RpcRequest, Wake(r) PROVE PhaseOK'
  BY <1>5 DEF PhaseOK, SessionTypeOK, Wake, Step, conn, wire
<1>6. ASSUME NEW r \in RpcRequest, EndTurn(r) PROVE PhaseOK'
  BY <1>6 DEF PhaseOK, SessionTypeOK, EndTurn, Step, conn, wire
<1>7. ASSUME NEW r \in RpcRequest, TimeOut(r) PROVE PhaseOK'
  BY <1>7 DEF PhaseOK, SessionTypeOK, TimeOut, Step, conn, wire
<1>8. CASE Read
  <2>1. /\ reader = "reading"
        /\ UNCHANGED <<agent, closed, stdin, req, state, present, main>>
    BY <1>8 DEF Read, wire
  <2>2. Head(out).kind \in Reply \cup {"inbound", "oversized"} /\ closed \in BOOLEAN
    BY <1>8, Messages DEF Read, SessionTypeOK
  <2>3. reader' # "off"
    BY <1>8, <2>2, Zenon DEF Read
  <2>. QED BY <2>1, <2>3 DEF PhaseOK
<1>9. CASE Settle
  BY <1>9 DEF PhaseOK, SessionTypeOK, Settle, conn, wire
<1>10. CASE ServeInbound
  BY <1>10 DEF PhaseOK, SessionTypeOK, ServeInbound, conn, wire
<1>11. CASE ReplyInbound
  BY <1>11 DEF PhaseOK, SessionTypeOK, ReplyInbound, Lock, conn, wire
<1>12. CASE EndOfFile
  BY <1>12 DEF PhaseOK, SessionTypeOK, EndOfFile, conn, wire
<1>13. CASE ReaderFails
  BY <1>13 DEF PhaseOK, SessionTypeOK, ReaderFails, TakePending, conn, wire
<1>14. CASE ReaderReleases
  BY <1>14 DEF PhaseOK, SessionTypeOK, ReaderReleases, Release, conn, wire
<1>15. CASE Initialized
  <2>1. \A p \in Prompt : req'[p] = req[p]
    BY <1>15, Moves, Requests DEF Initialized, ReqState
  <2>. QED BY <1>15, <2>1 DEF PhaseOK, Initialized, conn, wire
<1>16. CASE Created
  BY <1>16 DEF PhaseOK, SessionTypeOK, Created, SendPrompt, Step, conn, wire
<1>17. CASE HandshakeFails
  BY <1>17 DEF PhaseOK, SessionTypeOK, HandshakeFails, conn, wire
<1>18. CASE MarkEnded
  BY <1>18 DEF PhaseOK, SessionTypeOK, MarkEnded, conn, wire
<1>19. CASE ReturnSummary
  BY <1>19 DEF PhaseOK, SessionTypeOK, ReturnSummary, conn, wire
<1>20. CASE CloseConnection
  BY <1>20 DEF PhaseOK, SessionTypeOK, CloseConnection, conn, wire
<1>21. CASE CloseStdin
  BY <1>21 DEF PhaseOK, SessionTypeOK, CloseStdin, conn, wire
<1>22. CASE CloseFails
  BY <1>22 DEF PhaseOK, SessionTypeOK, CloseFails, TakePending, conn, wire
<1>23. CASE CloseReleases
  BY <1>23 DEF PhaseOK, SessionTypeOK, CloseReleases, Release, conn, wire
<1>24. CASE KillProcess
  BY <1>24 DEF PhaseOK, SessionTypeOK, KillProcess, conn, wire
<1>25. CASE MarkStopped
  BY <1>25 DEF PhaseOK, SessionTypeOK, MarkStopped, conn, wire
<1>26. CASE StartSession
  <2>1. \A p \in Prompt : req'[p] = req[p]
    BY <1>26, Moves, Requests DEF StartSession, ReqState
  <2>. QED BY <1>26, <2>1, Requests DEF PhaseOK, StartSession
<1>27. CASE SendInput
  BY <1>27 DEF PhaseOK, SessionTypeOK, SendInput, SendPrompt, CanPrompt, Step, conn, wire
<1>28. CASE WorkerSummary
  BY <1>28 DEF PhaseOK, SessionTypeOK, WorkerSummary, conn, wire
<1>29. CASE StopSession
  BY <1>29 DEF PhaseOK, SessionTypeOK, StopSession, conn, wire
<1>30. CASE AgentWrites
  BY <1>30 DEF PhaseOK, SessionTypeOK, AgentWrites, conn, wire
<1>31. CASE AgentExits
  BY <1>31 DEF PhaseOK, SessionTypeOK, AgentExits, conn, wire
<1>32. CASE WriteReply
  BY <1>32 DEF PhaseOK, SessionTypeOK, WriteReply, Unlock, wire
<1>33. CASE Cancel
  BY <1>33 DEF PhaseOK, SessionTypeOK, Cancel, Lock, wire
<1>34. CASE WriteCancel
  BY <1>34 DEF PhaseOK, SessionTypeOK, WriteCancel, Unlock, wire
<1>35. CASE PipeFills
  BY <1>35 DEF PhaseOK, SessionTypeOK, PipeFills, wire
<1>36. CASE AgentReads
  BY <1>36 DEF PhaseOK, SessionTypeOK, AgentReads, wire
<1>. QED
  BY <1>1, <1>2, <1>3, <1>4, <1>5, <1>6, <1>7, <1>8, <1>9, <1>10, <1>11, <1>12, <1>13,
     <1>14, <1>15, <1>16, <1>17, <1>18, <1>19, <1>20, <1>21, <1>22, <1>23, <1>24, <1>25,
     <1>26, <1>27, <1>28, <1>29, <1>30, <1>31, <1>32, <1>33, <1>34, <1>35, <1>36
  DEF SessionNext, RequestStep, ReaderStep, MainStep, AdapterCall

LEMMA ReaderThreadStep ==
  ASSUME SessionTypeOK, PhaseOK, ReaderOK, [SessionNext]_sessionVars
  PROVE  ReaderOK'
<1>1. CASE UNCHANGED sessionVars
  BY <1>1 DEF SessionTypeOK, ReaderOK, sessionVars, conn, wire
<1>2. ASSUME NEW r \in RpcRequest, Register(r) PROVE ReaderOK'
  BY <1>2 DEF SessionTypeOK, ReaderOK, Register, Step, conn, wire
<1>3. ASSUME NEW r \in RpcRequest, Check(r) PROVE ReaderOK'
  BY <1>3 DEF SessionTypeOK, ReaderOK, Check, Lock, Step, conn, wire
<1>4. ASSUME NEW r \in RpcRequest, Write(r) PROVE ReaderOK'
  BY <1>4 DEF SessionTypeOK, ReaderOK, Write, Unlock, Step, conn, wire
<1>5. ASSUME NEW r \in RpcRequest, Wake(r) PROVE ReaderOK'
  BY <1>5 DEF SessionTypeOK, ReaderOK, Wake, Step, conn, wire
<1>6. ASSUME NEW r \in RpcRequest, EndTurn(r) PROVE ReaderOK'
  BY <1>6 DEF SessionTypeOK, ReaderOK, EndTurn, Step, conn, wire
<1>7. ASSUME NEW r \in RpcRequest, TimeOut(r) PROVE ReaderOK'
  BY <1>7 DEF SessionTypeOK, ReaderOK, TimeOut, Step, conn, wire
<1>8. CASE Read
  BY <1>8 DEF PhaseOK, SessionTypeOK, ReaderOK, Read, conn, wire
<1>9. CASE Settle
  BY <1>9 DEF SessionTypeOK, ReaderOK, Settle, conn, wire
<1>10. CASE ServeInbound
  BY <1>10 DEF SessionTypeOK, ReaderOK, ServeInbound, conn, wire
<1>11. CASE ReplyInbound
  BY <1>11 DEF SessionTypeOK, ReaderOK, ReplyInbound, Lock, conn, wire
<1>12. CASE EndOfFile
  BY <1>12 DEF SessionTypeOK, ReaderOK, EndOfFile, conn, wire
<1>13. CASE ReaderFails
  BY <1>13 DEF SessionTypeOK, ReaderOK, ReaderFails, TakePending, conn, wire
<1>14. CASE ReaderReleases
  BY <1>14 DEF SessionTypeOK, ReaderOK, ReaderReleases, Release, conn, wire
<1>15. CASE Initialized
  BY <1>15 DEF SessionTypeOK, ReaderOK, Initialized, Step, conn, wire
<1>16. CASE Created
  BY <1>16 DEF SessionTypeOK, ReaderOK, Created, SendPrompt, Step, conn, wire
<1>17. CASE HandshakeFails
  BY <1>17 DEF SessionTypeOK, ReaderOK, HandshakeFails, conn, wire
<1>18. CASE MarkEnded
  BY <1>18 DEF SessionTypeOK, ReaderOK, MarkEnded, conn, wire
<1>19. CASE ReturnSummary
  BY <1>19 DEF SessionTypeOK, ReaderOK, ReturnSummary, conn, wire
<1>20. CASE CloseConnection
  BY <1>20 DEF SessionTypeOK, ReaderOK, CloseConnection, conn, wire
<1>21. CASE CloseStdin
  BY <1>21 DEF SessionTypeOK, ReaderOK, CloseStdin, conn, wire
<1>22. CASE CloseFails
  BY <1>22 DEF SessionTypeOK, ReaderOK, CloseFails, TakePending, conn, wire
<1>23. CASE CloseReleases
  BY <1>23 DEF SessionTypeOK, ReaderOK, CloseReleases, Release, conn, wire
<1>24. CASE KillProcess
  BY <1>24 DEF SessionTypeOK, ReaderOK, KillProcess, conn, wire
<1>25. CASE MarkStopped
  BY <1>25 DEF SessionTypeOK, ReaderOK, MarkStopped, conn, wire
<1>26. CASE StartSession
  BY <1>26 DEF SessionTypeOK, ReaderOK, StartSession, Step, conn, wire
<1>27. CASE SendInput
  BY <1>27 DEF SessionTypeOK, ReaderOK, SendInput, SendPrompt, CanPrompt, Step, conn, wire
<1>28. CASE WorkerSummary
  BY <1>28 DEF SessionTypeOK, ReaderOK, WorkerSummary, conn, wire
<1>29. CASE StopSession
  BY <1>29 DEF SessionTypeOK, ReaderOK, StopSession, conn, wire
<1>30. CASE AgentWrites
  BY <1>30 DEF SessionTypeOK, ReaderOK, AgentWrites, conn, wire
<1>31. CASE AgentExits
  BY <1>31 DEF SessionTypeOK, ReaderOK, AgentExits, conn, wire
<1>32. CASE WriteReply
  BY <1>32 DEF SessionTypeOK, ReaderOK, WriteReply, Unlock, wire
<1>33. CASE Cancel
  BY <1>33 DEF SessionTypeOK, ReaderOK, Cancel, Lock, wire
<1>34. CASE WriteCancel
  BY <1>34 DEF SessionTypeOK, ReaderOK, WriteCancel, Unlock, wire
<1>35. CASE PipeFills
  BY <1>35 DEF SessionTypeOK, ReaderOK, PipeFills, wire
<1>36. CASE AgentReads
  BY <1>36 DEF SessionTypeOK, ReaderOK, AgentReads, wire
<1>. QED
  BY <1>1, <1>2, <1>3, <1>4, <1>5, <1>6, <1>7, <1>8, <1>9, <1>10, <1>11, <1>12, <1>13,
     <1>14, <1>15, <1>16, <1>17, <1>18, <1>19, <1>20, <1>21, <1>22, <1>23, <1>24, <1>25,
     <1>26, <1>27, <1>28, <1>29, <1>30, <1>31, <1>32, <1>33, <1>34, <1>35, <1>36
  DEF SessionNext, RequestStep, ReaderStep, MainStep, AdapterCall

LEMMA HeldStep ==
  ASSUME SessionTypeOK, PhaseOK, HeldOK, [SessionNext]_sessionVars
  PROVE  HeldOK'
<1>1. CASE UNCHANGED sessionVars
  BY <1>1 DEF HeldOK, Awaited, SessionTypeOK, sessionVars, conn, wire
<1>2. ASSUME NEW r \in RpcRequest, Register(r) PROVE HeldOK'
  BY <1>2 DEF HeldOK, Awaited, SessionTypeOK, Register, Step, conn, wire
<1>3. ASSUME NEW r \in RpcRequest, Check(r) PROVE HeldOK'
  BY <1>3 DEF HeldOK, Awaited, SessionTypeOK, Check, Lock, Step, conn, wire
<1>4. ASSUME NEW r \in RpcRequest, Write(r) PROVE HeldOK'
  <2>1. PICK to \in {"dead", "bad", "wait"} : Step(r, to) /\ (to = "dead" => closed)
    BY <1>4, Writes
  <2>2. /\ req' \in [RpcRequest -> ReqState] /\ req'[r] = to
        /\ \A q \in RpcRequest : q # r => req'[q] = req[q]
    BY <2>1, Moves DEF ReqState
  <2>3. /\ \A q \in RpcRequest : q # r => (q \in pending' <=> q \in pending)
        /\ to = "wait" => pending' = pending
        /\ UNCHANGED <<settled, hand, failing, main, reader>> /\ req[r] = "write"
    BY <1>4, <2>1, Writes
  <2>. QED BY <2>2, <2>3 DEF HeldOK, Awaited
<1>5. ASSUME NEW r \in RpcRequest, Wake(r) PROVE HeldOK'
  BY <1>5 DEF HeldOK, Awaited, SessionTypeOK, Wake, Step, conn, wire
<1>6. ASSUME NEW r \in RpcRequest, EndTurn(r) PROVE HeldOK'
  BY <1>6 DEF HeldOK, Awaited, SessionTypeOK, EndTurn, Step, conn, wire
<1>7. ASSUME NEW r \in RpcRequest, TimeOut(r) PROVE HeldOK'
  BY <1>7 DEF HeldOK, Awaited, SessionTypeOK, TimeOut, Step, conn, wire
<1>8. CASE Read
  BY <1>8, Messages DEF HeldOK, Awaited, SessionTypeOK, Read, conn, wire
<1>9. CASE Settle
  BY <1>9, SessionAssumption DEF HeldOK, Awaited, SessionTypeOK, Settle, conn, wire
<1>10. CASE ServeInbound
  BY <1>10 DEF HeldOK, Awaited, SessionTypeOK, ServeInbound, conn, wire
<1>11. CASE ReplyInbound
  BY <1>11 DEF HeldOK, Awaited, SessionTypeOK, ReplyInbound, Lock, conn, wire
<1>12. CASE EndOfFile
  BY <1>12 DEF HeldOK, Awaited, SessionTypeOK, EndOfFile, conn, wire
<1>13. CASE ReaderFails
  BY <1>13 DEF HeldOK, Awaited, SessionTypeOK, ReaderFails, TakePending, conn, wire
<1>14. CASE ReaderReleases
  BY <1>14, SessionAssumption
  DEF HeldOK, Awaited, SessionTypeOK, ReaderReleases, Release, conn, wire
<1>15. CASE Initialized
  BY <1>15 DEF HeldOK, Awaited, SessionTypeOK, Initialized, Step, conn, wire
<1>16. CASE Created
  BY <1>16 DEF HeldOK, Awaited, SessionTypeOK, Created, SendPrompt, Step, conn, wire
<1>17. CASE HandshakeFails
  BY <1>17 DEF HeldOK, Awaited, SessionTypeOK, HandshakeFails, conn, wire
<1>18. CASE MarkEnded
  BY <1>18 DEF HeldOK, Awaited, SessionTypeOK, MarkEnded, conn, wire
<1>19. CASE ReturnSummary
  BY <1>19 DEF HeldOK, Awaited, SessionTypeOK, ReturnSummary, conn, wire
<1>20. CASE CloseConnection
  BY <1>20 DEF HeldOK, Awaited, SessionTypeOK, CloseConnection, conn, wire
<1>21. CASE CloseStdin
  BY <1>21 DEF HeldOK, Awaited, SessionTypeOK, CloseStdin, conn, wire
<1>22. CASE CloseFails
  BY <1>22 DEF HeldOK, Awaited, SessionTypeOK, CloseFails, TakePending, conn, wire
<1>23. CASE CloseReleases
  BY <1>23, SessionAssumption
  DEF HeldOK, Awaited, SessionTypeOK, CloseReleases, Release, conn, wire
<1>24. CASE KillProcess
  BY <1>24 DEF HeldOK, Awaited, SessionTypeOK, KillProcess, conn, wire
<1>25. CASE MarkStopped
  BY <1>25 DEF HeldOK, Awaited, SessionTypeOK, MarkStopped, conn, wire
<1>26. CASE StartSession
  <2>1. /\ req'["initialize"] = "new"
        /\ \A q \in RpcRequest : q # "initialize" => req'[q] = req[q]
    BY <1>26, Moves, Requests DEF StartSession, ReqState
  <2>2. \A q \in RpcRequest : Awaited(q)' => Awaited(q)
    BY <2>1 DEF Awaited
  <2>3. failing["reader"] = {} /\ failing["main"] = {}
    BY <1>26 DEF StartSession, HeldOK, PhaseOK
  <2>. QED BY <1>26, <2>2, <2>3 DEF HeldOK, StartSession
<1>27. CASE SendInput
  BY <1>27
  DEF HeldOK, Awaited, SessionTypeOK, SendInput, SendPrompt, CanPrompt, Step, conn, wire
<1>28. CASE WorkerSummary
  BY <1>28 DEF HeldOK, Awaited, SessionTypeOK, WorkerSummary, conn, wire
<1>29. CASE StopSession
  BY <1>29 DEF HeldOK, Awaited, SessionTypeOK, StopSession, conn, wire
<1>30. CASE AgentWrites
  BY <1>30 DEF HeldOK, Awaited, SessionTypeOK, AgentWrites, conn, wire
<1>31. CASE AgentExits
  BY <1>31 DEF HeldOK, Awaited, SessionTypeOK, AgentExits, conn, wire
<1>32. CASE WriteReply
  BY <1>32 DEF HeldOK, Awaited, SessionTypeOK, WriteReply, Unlock, wire
<1>33. CASE Cancel
  BY <1>33 DEF HeldOK, Awaited, SessionTypeOK, Cancel, Lock, wire
<1>34. CASE WriteCancel
  BY <1>34 DEF HeldOK, Awaited, SessionTypeOK, WriteCancel, Unlock, wire
<1>35. CASE PipeFills
  BY <1>35 DEF HeldOK, Awaited, SessionTypeOK, PipeFills, wire
<1>36. CASE AgentReads
  BY <1>36 DEF HeldOK, Awaited, SessionTypeOK, AgentReads, wire
<1>. QED
  BY <1>1, <1>2, <1>3, <1>4, <1>5, <1>6, <1>7, <1>8, <1>9, <1>10, <1>11, <1>12, <1>13,
     <1>14, <1>15, <1>16, <1>17, <1>18, <1>19, <1>20, <1>21, <1>22, <1>23, <1>24, <1>25,
     <1>26, <1>27, <1>28, <1>29, <1>30, <1>31, <1>32, <1>33, <1>34, <1>35, <1>36
  DEF SessionNext, RequestStep, ReaderStep, MainStep, AdapterCall

LEMMA CloseKept ==
  ASSUME CloseOK, UNCHANGED <<closed, present, main>>,
         closed => \A r \in RpcRequest : req'[r] \in {"write", "wait"} /\ r \in pending' =>
                     req[r] \in {"write", "wait"} /\ r \in pending
  PROVE  CloseOK'
BY DEF CloseOK, CloseIsNear

LEMMA CloseStep ==
  ASSUME SessionTypeOK, PhaseOK, CloseOK, [SessionNext]_sessionVars
  PROVE  CloseOK'
<1>1. CASE UNCHANGED sessionVars
  BY <1>1, CloseKept DEF sessionVars, conn
<1>2. ASSUME NEW r \in RpcRequest, RequestStep(r) \/ TimeOut(r) PROVE CloseOK'
  <2>1. CASE Register(r)
    <3>1. req'[r] = "check" /\ \A q \in RpcRequest : q # r => req'[q] = req[q]
      BY <2>1, Moves DEF Register, ReqState
    <3>. QED BY <2>1, <3>1, CloseKept DEF Register
  <2>2. CASE Check(r)
    <3>1. PICK to \in {"bad", "write"} : Step(r, to) /\ (to = "write" => ~closed)
      BY <2>2 DEF Check
    <3>2. req'[r] = to /\ \A q \in RpcRequest : q # r => req'[q] = req[q]
      BY <3>1, Moves DEF ReqState
    <3>3. pending' \subseteq pending /\ UNCHANGED <<closed, present, main>>
      BY <2>2 DEF Check
    <3>. QED BY <3>1, <3>2, <3>3, CloseKept
  <2>3. CASE Write(r)
    <3>1. PICK to \in {"dead", "bad", "wait"} : Step(r, to)
      BY <2>3, Writes
    <3>2. \A q \in RpcRequest : q # r => req'[q] = req[q]
      BY <3>1, Moves DEF ReqState
    <3>3. req[r] = "write" /\ pending' \subseteq pending /\ UNCHANGED <<closed, present, main>>
      BY <2>3, Writes
    <3>. QED BY <3>2, <3>3, CloseKept
  <2>4. CASE Wake(r) \/ EndTurn(r) \/ TimeOut(r)
    <3>1. PICK to \in {"ok", "bad", "over"} : Step(r, to)
      BY <2>4 DEF Wake, EndTurn, TimeOut
    <3>2. req'[r] = to /\ \A q \in RpcRequest : q # r => req'[q] = req[q]
      BY <3>1, Moves DEF ReqState
    <3>3. pending' \subseteq pending /\ UNCHANGED <<closed, present, main>>
      BY <2>4 DEF Wake, EndTurn, TimeOut, conn
    <3>. QED BY <3>1, <3>2, <3>3, CloseKept
  <2>. QED BY <1>2, <2>1, <2>2, <2>3, <2>4 DEF RequestStep
<1>3. CASE ReaderStep \/ PipeFills \/ AgentReads \/ AgentWrites \/ AgentExits
  <2>1. req' = req /\ pending' \subseteq pending /\ UNCHANGED <<closed, present, main>>
    BY <1>3 DEF ReaderStep, Read, Settle, ServeInbound, ReplyInbound, WriteReply, EndOfFile,
       ReaderFails, ReaderReleases, TakePending, Release, PipeFills, AgentReads, AgentWrites,
       AgentExits, conn
  <2>. QED BY <2>1, CloseKept
<1>4. CASE AdapterCall
  <2>1. ~closed /\ closed' = closed
    BY <1>4 DEF AdapterCall, StartSession, SendInput, WorkerSummary, StopSession, CloseOK, conn
  <2>2. CloseIsNear' => ~present'
    BY <1>4 DEF AdapterCall, StartSession, SendInput, WorkerSummary, StopSession, CloseIsNear
  <2>. QED BY <2>1, <2>2 DEF CloseOK
<1>5. CASE Initialized \/ Created \/ HandshakeFails \/ MarkEnded \/ Cancel \/ WriteCancel
  <2>1. ~closed /\ closed' = closed
    BY <1>5 DEF Initialized, Created, HandshakeFails, MarkEnded, Cancel, WriteCancel, CloseOK, conn
  <2>2. CloseIsNear' => ~present'
    BY <1>5 DEF Initialized, Created, HandshakeFails, MarkEnded, Cancel, WriteCancel,
       CloseIsNear, CloseOK
  <2>. QED BY <2>1, <2>2 DEF CloseOK
<1>6. CASE ReturnSummary \/ CloseReleases \/ KillProcess \/ MarkStopped
  <2>1. UNCHANGED <<closed, present, req, pending>>
    BY <1>6 DEF ReturnSummary, CloseReleases, KillProcess, MarkStopped, conn
  <2>2. ~CloseIsNear /\ ~CloseIsNear'
    BY <1>6 DEF ReturnSummary, CloseReleases, KillProcess, MarkStopped, CloseIsNear
  <2>3. closed => main' \in {"stdin", "drain", "release", "kill", "mark", "summary", "gone"}
    BY <1>6 DEF ReturnSummary, CloseReleases, KillProcess, MarkStopped, CloseOK
  <2>. QED BY <2>1, <2>2, <2>3 DEF CloseOK
<1>7. CASE CloseConnection \/ CloseStdin
  BY <1>7 DEF CloseConnection, CloseStdin, CloseOK, CloseIsNear
<1>8. CASE CloseFails
  BY <1>8 DEF CloseFails, TakePending, CloseOK, CloseIsNear
<1>. QED BY <1>1, <1>2, <1>3, <1>4, <1>5, <1>6, <1>7, <1>8 DEF SessionNext, MainStep

LEMMA TurnsStep ==
  ASSUME SessionTypeOK, PhaseOK, TurnsOK, [SessionNext]_sessionVars
  PROVE  TurnsOK'
<1>1. CASE UNCHANGED sessionVars
  BY <1>1 DEF TurnsOK, InTurn, InRequest, SessionTypeOK, sessionVars, conn, wire
<1>2. ASSUME NEW r \in RpcRequest, Register(r) PROVE TurnsOK'
  BY <1>2 DEF TurnsOK, InTurn, InRequest, SessionTypeOK, Register, Step, conn, wire
<1>3. ASSUME NEW r \in RpcRequest, Check(r) PROVE TurnsOK'
  <2>1. PICK to \in {"bad", "write"} : Step(r, to)
    BY <1>3 DEF Check, Lock
  <2>2. /\ req'[r] \in {"bad", "write"} /\ req[r] = "check"
        /\ \A q \in RpcRequest : q # r => req'[q] = req[q]
    BY <1>3, <2>1, Moves DEF Check, Lock, ReqState
  <2>3. \A p \in Prompt : InTurn(p)' <=> InTurn(p)
    BY <2>2, Requests DEF InTurn, InRequest
  <2>. QED BY <1>3, <2>3 DEF TurnsOK, Check, Lock
<1>4. ASSUME NEW r \in RpcRequest, Write(r) PROVE TurnsOK'
  <2>1. PICK to \in {"dead", "bad", "wait"} : Step(r, to) /\ (to = "dead" => closed)
    BY <1>4, Writes
  <2>2. /\ req' \in [RpcRequest -> ReqState] /\ req'[r] = to
        /\ \A q \in RpcRequest : q # r => req'[q] = req[q]
    BY <2>1, Moves DEF ReqState
  <2>3. req[r] = "write" /\ UNCHANGED <<state, closed>>
    BY <1>4, Writes
  <2>4. \A p \in Prompt : InTurn(p)' => InTurn(p)
    BY <2>2, <2>3, Requests DEF InTurn, InRequest
  <2>5. ~ closed => \A p \in Prompt : InTurn(p) => InTurn(p)'
    BY <2>1, <2>2, <2>3, Requests DEF InTurn, InRequest
  <2>. QED BY <2>3, <2>4, <2>5 DEF TurnsOK
<1>5. ASSUME NEW r \in RpcRequest, Wake(r) PROVE TurnsOK'
  BY <1>5 DEF TurnsOK, InTurn, InRequest, SessionTypeOK, Wake, Step, conn, wire
<1>6. ASSUME NEW r \in RpcRequest, EndTurn(r) PROVE TurnsOK'
  BY <1>6 DEF TurnsOK, InTurn, InRequest, SessionTypeOK, EndTurn, Step, conn, wire
<1>7. ASSUME NEW r \in RpcRequest, TimeOut(r) PROVE TurnsOK'
  BY <1>7 DEF TurnsOK, InTurn, InRequest, SessionTypeOK, TimeOut, Step, conn, wire
<1>8. CASE Read
  BY <1>8 DEF TurnsOK, InTurn, InRequest, SessionTypeOK, Read, conn, wire
<1>9. CASE Settle
  BY <1>9 DEF TurnsOK, InTurn, InRequest, SessionTypeOK, Settle, conn, wire
<1>10. CASE ServeInbound
  BY <1>10 DEF TurnsOK, InTurn, InRequest, SessionTypeOK, ServeInbound, conn, wire
<1>11. CASE ReplyInbound
  BY <1>11 DEF TurnsOK, InTurn, InRequest, SessionTypeOK, ReplyInbound, Lock, conn, wire
<1>12. CASE EndOfFile
  BY <1>12 DEF TurnsOK, InTurn, InRequest, SessionTypeOK, EndOfFile, conn, wire
<1>13. CASE ReaderFails
  BY <1>13 DEF TurnsOK, InTurn, InRequest, SessionTypeOK, ReaderFails, TakePending, conn, wire
<1>14. CASE ReaderReleases
  BY <1>14 DEF TurnsOK, InTurn, InRequest, SessionTypeOK, ReaderReleases, Release, conn, wire
<1>15. CASE Initialized
  <2>1. \A p \in Prompt : req'[p] = req[p]
    BY <1>15, Moves, Requests DEF Initialized, ReqState
  <2>2. \A p \in Prompt : InTurn(p)' <=> InTurn(p)
    BY <2>1 DEF InTurn, InRequest
  <2>. QED BY <1>15, <2>2 DEF TurnsOK, Initialized, conn, wire
<1>16. CASE Created
  <2>1. PICK p \in Prompt : Step(p, "new")
    BY <1>16 DEF Created, SendPrompt
  <2>2. req'[p] = "new" /\ \A q \in Prompt : q # p => req'[q] = req[q]
    BY <2>1, Moves, Requests DEF ReqState
  <2>3. \A q \in Prompt : ~ InTurn(q)
    BY <1>16 DEF Created, PhaseOK, InTurn, InRequest
  <2>4. \A q \in Prompt : InTurn(q)' <=> q = p
    BY <2>2, <2>3 DEF InTurn, InRequest
  <2>. QED BY <1>16, <2>4 DEF TurnsOK, Created, SendPrompt
<1>17. CASE HandshakeFails
  BY <1>17 DEF TurnsOK, InTurn, InRequest, SessionTypeOK, HandshakeFails, conn, wire
<1>18. CASE MarkEnded
  BY <1>18 DEF TurnsOK, InTurn, InRequest, SessionTypeOK, MarkEnded, conn, wire
<1>19. CASE ReturnSummary
  BY <1>19 DEF TurnsOK, InTurn, InRequest, SessionTypeOK, ReturnSummary, conn, wire
<1>20. CASE CloseConnection
  BY <1>20 DEF TurnsOK, InTurn, InRequest, SessionTypeOK, CloseConnection, conn, wire
<1>21. CASE CloseStdin
  BY <1>21 DEF TurnsOK, InTurn, InRequest, SessionTypeOK, CloseStdin, conn, wire
<1>22. CASE CloseFails
  BY <1>22 DEF TurnsOK, InTurn, InRequest, SessionTypeOK, CloseFails, TakePending, conn, wire
<1>23. CASE CloseReleases
  BY <1>23 DEF TurnsOK, InTurn, InRequest, SessionTypeOK, CloseReleases, Release, conn, wire
<1>24. CASE KillProcess
  BY <1>24 DEF TurnsOK, InTurn, InRequest, SessionTypeOK, KillProcess, conn, wire
<1>25. CASE MarkStopped
  BY <1>25 DEF TurnsOK, InTurn, InRequest, SessionTypeOK, MarkStopped, conn, wire
<1>26. CASE StartSession
  <2>1. \A p \in Prompt : req'[p] = "unused"
    BY <1>26, Moves, Requests DEF StartSession, ReqState, PhaseOK
  <2>2. \A p \in Prompt : ~ InTurn(p)'
    BY <2>1 DEF InTurn, InRequest
  <2>. QED BY <1>26, <2>2 DEF TurnsOK, StartSession
<1>27. CASE SendInput
  <2>1. PICK p \in Prompt : Step(p, "new")
    BY <1>27 DEF SendInput, SendPrompt
  <2>2. req'[p] = "new" /\ \A q \in Prompt : q # p => req'[q] = req[q]
    BY <2>1, Moves, Requests DEF ReqState
  <2>3. \A q \in Prompt : ~ InTurn(q)
    BY <1>27 DEF SendInput, TurnsOK, CanPrompt
  <2>4. \A q \in Prompt : InTurn(q)' <=> q = p
    BY <2>2, <2>3 DEF InTurn, InRequest
  <2>. QED BY <1>27, <2>4 DEF TurnsOK, SendInput, SendPrompt
<1>28. CASE WorkerSummary
  BY <1>28 DEF TurnsOK, InTurn, InRequest, SessionTypeOK, WorkerSummary, conn, wire
<1>29. CASE StopSession
  BY <1>29 DEF TurnsOK, InTurn, InRequest, SessionTypeOK, StopSession, conn, wire
<1>30. CASE AgentWrites
  BY <1>30 DEF TurnsOK, InTurn, InRequest, SessionTypeOK, AgentWrites, conn, wire
<1>31. CASE AgentExits
  BY <1>31 DEF TurnsOK, InTurn, InRequest, SessionTypeOK, AgentExits, conn, wire
<1>32. CASE WriteReply
  BY <1>32 DEF TurnsOK, InTurn, InRequest, SessionTypeOK, WriteReply, Unlock, wire
<1>33. CASE Cancel
  BY <1>33 DEF TurnsOK, InTurn, InRequest, SessionTypeOK, Cancel, Lock, wire
<1>34. CASE WriteCancel
  BY <1>34 DEF TurnsOK, InTurn, InRequest, SessionTypeOK, WriteCancel, Unlock, wire
<1>35. CASE PipeFills
  BY <1>35 DEF TurnsOK, InTurn, InRequest, SessionTypeOK, PipeFills, wire
<1>36. CASE AgentReads
  BY <1>36 DEF TurnsOK, InTurn, InRequest, SessionTypeOK, AgentReads, wire
<1>. QED
  BY <1>1, <1>2, <1>3, <1>4, <1>5, <1>6, <1>7, <1>8, <1>9, <1>10, <1>11, <1>12, <1>13,
     <1>14, <1>15, <1>16, <1>17, <1>18, <1>19, <1>20, <1>21, <1>22, <1>23, <1>24, <1>25,
     <1>26, <1>27, <1>28, <1>29, <1>30, <1>31, <1>32, <1>33, <1>34, <1>35, <1>36
  DEF SessionNext, RequestStep, ReaderStep, MainStep, AdapterCall

LEMMA SessionInvariance == SessionSpec => []SessionInv
<1>1. ASSUME SessionInit PROVE SessionInv
  <2>1. SessionTypeOK
    <3>1. out \in Seq(Message) /\ sent \in 0..MaxMessages /\ late \in 0..MaxMessages
      BY <1>1, SessionAssumption DEF SessionInit
    <3>2. /\ settled \in [RpcRequest -> Reply \cup {"transport", Nothing}]
          /\ req \in [RpcRequest -> ReqState]
          /\ failing \in [{"main", "reader"} -> SUBSET RpcRequest]
      BY <1>1 DEF SessionInit, ReqState
    <3>. QED BY <1>1, <3>1, <3>2 DEF SessionInit, SessionTypeOK, SessionState, Main
  <2>2. \A r \in RpcRequest : req[r] = "unused"
    BY <1>1 DEF SessionInit
  <2>3. PhaseOK /\ ReaderOK
    BY <1>1, <2>2, Requests DEF SessionInit, PhaseOK, ReaderOK
  <2>4. HeldOK
    BY <1>1, <2>2 DEF SessionInit, HeldOK, Awaited
  <2>5. TurnsOK
    BY <1>1, <2>2, Requests DEF SessionInit, TurnsOK, InTurn, InRequest
  <2>6. CloseOK
    BY <1>1 DEF SessionInit, CloseOK, CloseIsNear
  <2>. QED BY <2>1, <2>3, <2>4, <2>5, <2>6 DEF SessionInv
<1>2. SessionInv /\ [SessionNext]_sessionVars => SessionInv'
  BY SessionTypeStep, PhaseStep, ReaderThreadStep, HeldStep, CloseStep, TurnsStep DEF SessionInv
<1>. QED BY <1>1, <1>2, PTL DEF SessionSpec

(* The state of a session, its threads and its connection keep their types *)
(* whatever the agent writes, and however often.                           *)
THEOREM SessionTypeCorrect == SessionSpec => []SessionTypeOK
<1>1. SessionInv => SessionTypeOK
  BY DEF SessionInv
<1>. QED BY <1>1, SessionInvariance, PTL

(* WaiterIsHeld, for any number of prompts and messages: the event of a    *)
(* thread that waits will be set by a thread that has its call, by the     *)
(* reader or by a stop under way, unless it was registered with the reader *)
(* already gone.                                                           *)
THEOREM WaitersAreHeld == SessionSpec => []WaiterIsHeld
<1>1. ASSUME SessionInv PROVE WaiterIsHeld
  <2>1. SUFFICES ASSUME NEW r \in RpcRequest, req[r] = "wait", settled[r] = Nothing,
                        r \notin failing["main"] \cup failing["reader"],
                        ~(hand # Nothing /\ hand.id = r)
                 PROVE  r \in pending /\ (ReaderRuns \/ CloseIsNear \/ Deaf)
    BY DEF WaiterIsHeld
  <2>2. r \in pending
    BY <1>1, <2>1 DEF SessionInv, HeldOK, Awaited
  <2>3. reader # "off"
    BY <1>1, <2>1 DEF SessionInv, PhaseOK
  <2>4. ASSUME ~ReaderRuns, ~CloseIsNear PROVE Deaf
    <3>1. ~closed
      BY <1>1, <2>1, <2>2, <2>4 DEF SessionInv, CloseOK
    <3>2. reader \in {"release", "done"}
      BY <1>1, <2>3, <2>4 DEF SessionInv, SessionTypeOK, ReaderRuns
    <3>. QED BY <3>1, <3>2 DEF Deaf
  <2>. QED BY <2>2, <2>4
<1>. QED BY <1>1, SessionInvariance, PTL

(* RunningHasItsTurn, for any number of prompts: turns follow one another, *)
(* and the state that admits a prompt is that of a session without a turn. *)
THEOREM OneTurnAtATime == SessionSpec => []RunningHasItsTurn
<1>1. SessionInv => RunningHasItsTurn
  BY DEF SessionInv, TurnsOK, RunningHasItsTurn
<1>. QED BY <1>1, SessionInvariance, PTL

(* EndedLeavesNoProcess, for any number of messages: a worker that is      *)
(* exited or whose session is over has no process, and once the connection *)
(* is closed the reader serves the request it has at hand and no other.    *)
THEOREM EndedSessionsAreOver == SessionSpec => []EndedLeavesNoProcess
<1>1. SessionInv => EndedLeavesNoProcess
  BY DEF SessionInv, PhaseOK, ReaderOK, EndedLeavesNoProcess
<1>. QED BY <1>1, SessionInvariance, PTL

-----------------------------------------------------------------------------
(* A command moves, and no other does.                                     *)
LEMMA CommandMoves ==
  ASSUME HostTypeOK, NEW c \in Command, NEW k \in CommandRecord,
         command' = [command EXCEPT ![c] = k]
  PROVE  command' \in [Command -> CommandRecord]
BY DEF HostTypeOK

LEMMA CommandFields ==
  ASSUME HostTypeOK, NEW c \in Command
  PROVE  /\ command[c] \in CommandRecord
         /\ command[c].pc \in CommandPc /\ command[c].op \in HostOp
         /\ command[c].own \in HostProcess \cup {Nobody}
         /\ command[c].polls \in 0..MaxPolls
BY DEF HostTypeOK, CommandRecord

LEMMA JumpIs ==
  ASSUME HostTypeOK, NEW c \in Command, NEW pc \in CommandPc, command' = Jump(c, pc)
  PROVE  command' \in [Command -> CommandRecord]
<1>. DEFINE k == [command[c] EXCEPT !.pc = pc]
<1>1. k \in CommandRecord
  BY CommandFields DEF CommandRecord
<1>2. command' = [command EXCEPT ![c] = k]
  BY DEF Jump
<1>. HIDE DEF k
<1>. QED BY <1>1, <1>2, CommandMoves

LEMMA DoneIs ==
  ASSUME HostTypeOK, NEW c \in Command, command' = Done(c)
  PROVE  command' \in [Command -> CommandRecord]
<1>1. IdleCommand \in CommandRecord
  BY HostAssumption DEF IdleCommand, CommandRecord, CommandPc, HostOp, Waits
<1>. QED BY <1>1, CommandMoves DEF Done

LEMMA FailedIs ==
  ASSUME HostTypeOK, NEW c \in Command, command[c].pc \in {"ping", "send"} \cup Waits,
         command' = Failed(c)
  PROVE  command' \in [Command -> CommandRecord]
<1>1. CASE command[c].pc \in {"ping", "pingwait"}
  <2>1. command' = IF command[c].op = "ensure" THEN Jump(c, "probe") ELSE Done(c)
    BY <1>1 DEF Failed, Unavailable
  <2>. QED BY <1>1, <2>1, JumpIs, DoneIs DEF CommandPc
<1>2. CASE command[c].pc = "pollwait"
  BY <1>2, JumpIs DEF Failed, CommandPc
<1>3. CASE command[c].pc \in {"send", "sendwait"}
  BY <1>3, DoneIs DEF Failed
<1>. QED BY <1>1, <1>2, <1>3 DEF Waits

(* A spawner polls once more, and has polls left.                          *)
LEMMA PolledIs ==
  ASSUME HostTypeOK, NEW c \in Command, MayConnect(c)
  PROVE  Polled(c) \in 0..MaxPolls
<1>1. command[c].polls \in 0..MaxPolls
  BY CommandFields
<1>2. CASE command[c].pc = "poll"
  BY <1>1, <1>2, HostAssumption DEF MayConnect, Polled
<1>3. CASE command[c].pc # "poll"
  BY <1>1, <1>3, HostAssumption DEF Polled
<1>. QED BY <1>2, <1>3

LEMMA HostMoves ==
  ASSUME HostTypeOK, NEW h \in HostProcess, NEW k \in HostRecord,
         hosts' = [hosts EXCEPT ![h] = k]
  PROVE  hosts' \in [HostProcess -> HostRecord]
BY DEF HostTypeOK

LEMMA HostFields ==
  ASSUME HostTypeOK, NEW h \in HostProcess
  PROVE  /\ hosts[h] \in HostRecord /\ hosts[h].st \in HostState
         /\ hosts[h].queue \in Seq(Conn) /\ hosts[h].cur \in Conn \cup {Nobody}
         /\ hosts[h].worker \in {"none", "live", "ended"}
         /\ hosts[h].due \in BOOLEAN /\ hosts[h].told \in BOOLEAN
BY DEF HostTypeOK, HostRecord

LEMMA StateMoves ==
  ASSUME HostTypeOK, NEW h \in HostProcess, NEW st \in HostState,
         hosts' = [hosts EXCEPT ![h].st = st]
  PROVE  hosts' \in [HostProcess -> HostRecord]
<1>. DEFINE k == [hosts[h] EXCEPT !.st = st]
<1>1. k \in HostRecord
  BY HostFields DEF HostRecord
<1>2. hosts' = [hosts EXCEPT ![h] = k]
  OBVIOUS
<1>. HIDE DEF k
<1>. QED BY <1>1, <1>2, HostMoves

LEMMA HoldingIs ==
  ASSUME NEW st \in HostState
  PROVE  Holding(st) \in HostRecord
<1>1. <<>> \in Seq(Conn) /\ Nobody \in Conn \cup {Nobody}
  OBVIOUS
<1>. QED BY <1>1 DEF Holding, HostRecord

LEMMA OrphanIs == Orphan \in Conn
BY DEF Orphan, Conn

(* A connection waits for the host.                                        *)
LEMMA QueueGrows ==
  ASSUME HostTypeOK, NEW h \in HostProcess, NEW link \in Conn,
         hosts' = [hosts EXCEPT ![h].queue = Append(@, link)]
  PROVE  hosts' \in [HostProcess -> HostRecord]
<1>. DEFINE k == [hosts[h] EXCEPT !.queue = Append(@, link)]
<1>1. Append(hosts[h].queue, link) \in Seq(Conn)
  BY HostFields
<1>2. k \in HostRecord
  BY <1>1, HostFields DEF HostRecord
<1>3. hosts' = [hosts EXCEPT ![h] = k]
  OBVIOUS
<1>. HIDE DEF k
<1>. QED BY <1>2, <1>3, HostMoves

-----------------------------------------------------------------------------
(* The steps of a command, and those of a host.                            *)
LEMMA BeginCommandStep ==
  ASSUME HostTypeOK, NEW c \in Command, BeginCommand(c)
  PROVE  HostTypeOK'
<1>1. PICK op \in HostOp :
        command' = [command EXCEPT ![c] =
          [pc |-> IF op \in {"start", "input", "changes"} THEN "send" ELSE "ping",
           op |-> op, own |-> Nobody, polls |-> 0]]
  BY HostAssumption DEF BeginCommand
<1>. DEFINE k == [pc |-> IF op \in {"start", "input", "changes"} THEN "send" ELSE "ping",
                  op |-> op, own |-> Nobody, polls |-> 0]
<1>2. 0 \in 0..MaxPolls
  BY HostAssumption
<1>3. k \in CommandRecord
  BY <1>2 DEF CommandRecord, CommandPc
<1>4. command' = [command EXCEPT ![c] = k]
  BY <1>1
<1>. HIDE DEF k
<1>5. command' \in [Command -> CommandRecord]
  BY <1>3, <1>4, CommandMoves
<1>. QED BY <1>5 DEF BeginCommand, HostTypeOK

LEMMA ConnectStep ==
  ASSUME HostTypeOK, NEW c \in Command, Connect(c)
  PROVE  HostTypeOK'
<1>. DEFINE link == [from |-> c, sent |-> Sends(c)]
            pc == CASE command[c].pc = "ping" -> "pingwait"
                    [] command[c].pc = "poll" -> "pollwait"
                    [] command[c].pc = "send" -> "sendwait"
            k == [command[c] EXCEPT !.pc = pc, !.polls = Polled(c)]
<1>1. link \in Conn
  BY CommandFields DEF Conn, Sends
<1>2. sock \in HostProcess
  BY DEF Connect, Listening, HostTypeOK
<1>3. hosts' \in [HostProcess -> HostRecord]
  <2>. HIDE DEF link
  <2>1. hosts' = [hosts EXCEPT ![sock].queue = Append(@, link)]
    BY DEF Connect, link
  <2>. QED BY <1>1, <1>2, <2>1, QueueGrows
<1>4. pc \in CommandPc
  BY DEF Connect, MayConnect, CommandPc, Waits
<1>5. Polled(c) \in 0..MaxPolls
  BY PolledIs DEF Connect
<1>6. k \in CommandRecord
  <2>. HIDE DEF pc
  <2>. QED BY <1>4, <1>5, CommandFields DEF CommandRecord
<1>7. command' = [command EXCEPT ![c] = k]
  BY DEF Connect
<1>. HIDE DEF k, pc, link
<1>8. command' \in [Command -> CommandRecord]
  BY <1>6, <1>7, CommandMoves
<1>. QED BY <1>3, <1>8 DEF Connect, HostTypeOK

LEMMA RefusedStep ==
  ASSUME HostTypeOK, NEW c \in Command, Refused(c)
  PROVE  HostTypeOK'
<1>1. CASE command[c].pc = "poll"
  <2>. DEFINE k == [command[c] EXCEPT !.polls = Polled(c)]
  <2>1. Polled(c) \in 0..MaxPolls
    BY PolledIs DEF Refused
  <2>2. k \in CommandRecord
    BY <2>1, CommandFields DEF CommandRecord
  <2>3. command' = [command EXCEPT ![c] = k]
    BY <1>1 DEF Refused
  <2>. HIDE DEF k
  <2>. QED BY <2>2, <2>3, CommandMoves DEF Refused, HostTypeOK
<1>2. CASE command[c].pc # "poll"
  <2>1. command[c].pc \in {"ping", "send"} /\ command' = Failed(c)
    BY <1>2 DEF Refused, MayConnect
  <2>. QED BY <2>1, FailedIs DEF Refused, HostTypeOK
<1>. QED BY <1>1, <1>2

LEMMA DroppedStep ==
  ASSUME HostTypeOK, NEW c \in Command, Dropped(c)
  PROVE  HostTypeOK'
BY FailedIs DEF Dropped, HostTypeOK

LEMMA GiveUpStep ==
  ASSUME HostTypeOK, NEW c \in Command, GiveUp(c)
  PROVE  HostTypeOK'
<1>1. ASSUME NEW link \in Conn \cup {Nobody}
      PROVE  /\ Orphaned(link, c) \in Conn \cup {Nobody}
             /\ link \in Conn => Orphaned(link, c) \in Conn
  BY OrphanIs DEF Orphaned
<1>2. ASSUME NEW h \in HostProcess
      PROVE  hosts'[h] \in HostRecord
  <2>. DEFINE q == [i \in DOMAIN hosts[h].queue |-> Orphaned(hosts[h].queue[i], c)]
              cur == Orphaned(hosts[h].cur, c)
              k == [hosts[h] EXCEPT !.queue = q, !.cur = cur]
  <2>1. hosts'[h] = k
    BY DEF GiveUp
  <2>2. q \in Seq(Conn)
    <3>1. /\ DOMAIN hosts[h].queue = 1..Len(hosts[h].queue) /\ Len(hosts[h].queue) \in Nat
          /\ \A i \in DOMAIN hosts[h].queue : hosts[h].queue[i] \in Conn
      BY HostFields
    <3>2. \A i \in DOMAIN hosts[h].queue : Orphaned(hosts[h].queue[i], c) \in Conn
      BY <1>1, <3>1
    <3>3. q \in [1..Len(hosts[h].queue) -> Conn]
      BY <3>1, <3>2
    <3>. QED BY <3>1, <3>3, SeqDef
  <2>3. cur \in Conn \cup {Nobody}
    BY <1>1, HostFields
  <2>4. k \in HostRecord
    <3>. HIDE DEF q, cur
    <3>. QED BY <2>2, <2>3, HostFields DEF HostRecord
  <2>. HIDE DEF k
  <2>. QED BY <2>1, <2>4
<1>3. hosts' \in [HostProcess -> HostRecord]
  BY <1>2 DEF GiveUp
<1>4. command[c].pc \in Waits /\ command' = Failed(c) /\ sock' = sock
  BY DEF GiveUp
<1>. QED BY <1>3, <1>4, FailedIs DEF HostTypeOK

LEMMA ProbeStep ==
  ASSUME HostTypeOK, NEW c \in Command, Probe(c)
  PROVE  HostTypeOK'
<1>1. CASE sock = Nobody \/ ~Listening(sock)
  <2>1. hosts' = hosts /\ \E pc \in {"popen", "unlink"} : command' = Jump(c, pc)
    BY <1>1 DEF Probe, Listening
  <2>. QED BY <2>1, JumpIs DEF Probe, HostTypeOK, CommandPc
<1>2. CASE sock # Nobody /\ Listening(sock)
  <2>1. sock \in HostProcess /\ command' = Done(c)
    BY <1>2 DEF Probe, HostTypeOK
  <2>2. hosts' = hosts \/ hosts' = [hosts EXCEPT ![sock].queue = Append(@, Orphan)]
    BY <1>2 DEF Probe
  <2>3. hosts' \in [HostProcess -> HostRecord]
    BY <2>1, <2>2, OrphanIs, QueueGrows DEF HostTypeOK
  <2>. QED BY <2>1, <2>3, DoneIs DEF Probe, HostTypeOK
<1>. QED BY <1>1, <1>2

LEMMA UnlinkStaleStep ==
  ASSUME HostTypeOK, NEW c \in Command, UnlinkStale(c)
  PROVE  HostTypeOK'
BY JumpIs, DoneIs DEF UnlinkStale, HostTypeOK, CommandPc

LEMMA PopenStep ==
  ASSUME HostTypeOK, NEW c \in Command, Popen(c)
  PROVE  HostTypeOK'
<1>1. CASE command' = Done(c) /\ UNCHANGED hosts
  BY <1>1, DoneIs DEF Popen, HostTypeOK
<1>2. CASE ~(command' = Done(c) /\ UNCHANGED hosts)
  <2>1. PICK h \in HostProcess :
          /\ hosts' = [hosts EXCEPT ![h].st = "starting"]
          /\ command' = [command EXCEPT ![c] = [@ EXCEPT !.pc = "poll", !.own = h]]
    <3>1. Unborn # {}
      BY <1>2 DEF Popen
    <3>2. (CHOOSE g \in Unborn : TRUE) \in HostProcess
      BY <3>1 DEF Unborn
    <3>. QED BY <1>2, <3>2 DEF Popen
  <2>. DEFINE k == [command[c] EXCEPT !.pc = "poll", !.own = h]
  <2>2. k \in CommandRecord
    BY CommandFields DEF CommandRecord, CommandPc
  <2>3. command' = [command EXCEPT ![c] = k]
    BY <2>1
  <2>. HIDE DEF k
  <2>4. command' \in [Command -> CommandRecord]
    BY <2>2, <2>3, CommandMoves
  <2>5. hosts' \in [HostProcess -> HostRecord]
    BY <2>1, StateMoves DEF HostState
  <2>. QED BY <2>4, <2>5 DEF Popen, HostTypeOK
<1>. QED BY <1>1, <1>2

LEMMA SpawnFailsStep ==
  ASSUME HostTypeOK, NEW c \in Command, SpawnFails(c)
  PROVE  HostTypeOK'
<1>1. command' = Done(c) /\ sock' = sock
      /\ (hosts' = hosts \/ hosts' = [hosts EXCEPT ![command[c].own] = Holding("dead")])
  BY DEF SpawnFails
<1>2. Holding("dead") \in HostRecord
  BY HoldingIs DEF HostState
<1>3. hosts' \in [HostProcess -> HostRecord]
  BY <1>1, <1>2 DEF HostTypeOK
<1>. QED BY <1>1, <1>3, DoneIs DEF HostTypeOK

(* A host goes on, is bound or leaves, and no command moves.               *)
LEMMA AloneStep ==
  ASSUME HostTypeOK, NEW h \in HostProcess,
         CheckPath(h) \/ Bind(h) \/ Listen(h) \/ UnlinkOnExit(h)
  PROVE  HostTypeOK'
<1>1. PICK st \in {"checked", "bound", "serving", "closing", "dead"} :
        hosts' = [hosts EXCEPT ![h].st = st]
  BY DEF CheckPath, Bind, Listen, UnlinkOnExit
<1>2. hosts' \in [HostProcess -> HostRecord]
  BY <1>1, StateMoves DEF HostState
<1>. QED BY <1>2 DEF CheckPath, Bind, Listen, UnlinkOnExit, HostTypeOK

LEMMA AcceptStep ==
  ASSUME HostTypeOK, NEW h \in HostProcess, Accept(h)
  PROVE  HostTypeOK'
<1>. DEFINE queue == hosts[h].queue
            k == [hosts[h] EXCEPT !.cur = Head(queue), !.queue = Tail(queue)]
<1>1. queue \in Seq(Conn) /\ queue # <<>>
  BY HostFields DEF Accept
<1>2. Head(queue) \in Conn /\ Tail(queue) \in Seq(Conn)
  BY <1>1, HeadTailProperties
<1>3. hosts' = [hosts EXCEPT ![h] = k]
  BY DEF Accept
<1>4. k \in HostRecord
  <2>. HIDE DEF queue
  <2>. QED BY <1>2, HostFields DEF HostRecord
<1>. HIDE DEF k
<1>. QED BY <1>3, <1>4, HostMoves DEF Accept, HostTypeOK

LEMMA ServeStep ==
  ASSUME HostTypeOK, NEW h \in HostProcess, Serve(h)
  PROVE  HostTypeOK'
<1>. DEFINE link == hosts[h].cur
<1>1. link \in Conn /\ link # Orphan
  BY HostFields DEF Serve
<1>2. link.from \in Command
  BY <1>1 DEF Conn
<1>3. PICK o \in Outcomes(hosts[h].worker, link.sent) :
        hosts' = [hosts EXCEPT ![h] =
          IF link.sent = "cleanup" /\ o.ok THEN Holding("closing")
          ELSE [@ EXCEPT
            !.worker = o.worker, !.cur = Nobody,
            !.due = hosts[h].due \/ SetsDeadline(hosts[h].worker, link.sent, o.ok),
            !.told = hosts[h].told \/ (link.sent = "stop" /\ o.ok)]]
  BY DEF Serve
<1>. DEFINE due == hosts[h].due \/ SetsDeadline(hosts[h].worker, link.sent, o.ok)
            told == hosts[h].told \/ (link.sent = "stop" /\ o.ok)
            k == [hosts[h] EXCEPT !.worker = o.worker, !.cur = Nobody, !.due = due,
                                  !.told = told]
<1>4. o.worker \in {"none", "live", "ended"}
  BY <1>3, HostFields DEF Outcomes
<1>5. due \in BOOLEAN /\ told \in BOOLEAN
  BY HostFields DEF SetsDeadline
<1>6. k \in HostRecord
  <2>. HIDE DEF due, told, link
  <2>. QED BY <1>4, <1>5, HostFields DEF HostRecord
<1>7. Holding("closing") \in HostRecord
  BY HoldingIs DEF HostState
<1>8. hosts' = [hosts EXCEPT ![h] = k] \/ hosts' = [hosts EXCEPT ![h] = Holding("closing")]
  <2>1. CASE link.sent = "cleanup" /\ o.ok
    BY <1>3, <2>1
  <2>2. CASE ~(link.sent = "cleanup" /\ o.ok)
    <3>1. hosts' = [hosts EXCEPT ![h] =
            [@ EXCEPT !.worker = o.worker, !.cur = Nobody,
               !.due = hosts[h].due \/ SetsDeadline(hosts[h].worker, link.sent, o.ok),
               !.told = hosts[h].told \/ (link.sent = "stop" /\ o.ok)]]
      BY <1>3, <2>2
    <3>. QED BY <3>1
  <2>. QED BY <2>1, <2>2
<1>. HIDE DEF k
<1>9. hosts' \in [HostProcess -> HostRecord]
  BY <1>6, <1>7, <1>8, HostMoves
<1>10. command' = Receive(link.from) /\ sock' = sock
  BY DEF Serve
<1>. HIDE DEF link
<1>11. command' \in [Command -> CommandRecord]
  <2>1. PICK c \in Command : command' = Receive(c)
    BY <1>2, <1>10
  <2>. DEFINE m == [command[c] EXCEPT !.pc = "send", !.own = Nobody, !.polls = 0]
  <2>2. 0 \in 0..MaxPolls
    BY HostAssumption
  <2>3. m \in CommandRecord
    BY <2>2, CommandFields DEF CommandRecord, CommandPc
  <2>4. command' = Done(c) \/ command' = [command EXCEPT ![c] = m]
    BY <2>1 DEF Receive
  <2>. HIDE DEF m
  <2>. QED BY <2>3, <2>4, DoneIs, CommandMoves
<1>. QED BY <1>9, <1>10, <1>11 DEF HostTypeOK

(* A host leaves, or is gone, with whatever it held.                       *)
LEMMA LeavesStep ==
  ASSUME HostTypeOK, NEW h \in HostProcess, ServeOrphan(h) \/ IdleExit(h) \/ Killed(h)
  PROVE  HostTypeOK'
<1>1. PICK st \in {"closing", "dead"} : hosts' = [hosts EXCEPT ![h] = Holding(st)]
  BY DEF ServeOrphan, IdleExit, Killed
<1>2. hosts' \in [HostProcess -> HostRecord]
  BY <1>1, HoldingIs, HostMoves DEF HostState
<1>. QED BY <1>2 DEF ServeOrphan, IdleExit, Killed, HostTypeOK

LEMMA WorkerEndsStep ==
  ASSUME HostTypeOK, NEW h \in HostProcess, WorkerEnds(h)
  PROVE  HostTypeOK'
<1>. DEFINE k == [hosts[h] EXCEPT !.worker = "ended"]
<1>1. hosts' = [hosts EXCEPT ![h] = k]
  BY DEF WorkerEnds
<1>2. k \in HostRecord
  BY HostFields DEF HostRecord
<1>. HIDE DEF k
<1>. QED BY <1>1, <1>2, HostMoves DEF WorkerEnds, HostTypeOK

(* What a host's record, its connections and a command's call may hold,    *)
(* however many commands spawn hosts, however many hosts are at the path,  *)
(* and whatever is killed, times out or ends.                              *)
THEOREM HostTypeCorrect == HostSpec => []HostTypeOK
<1>1. ASSUME HostInit PROVE HostTypeOK
  <2>1. IdleCommand \in CommandRecord
    BY HostAssumption DEF IdleCommand, CommandRecord, CommandPc, HostOp
  <2>2. Holding("unborn") \in HostRecord
    BY HoldingIs DEF HostState
  <2>. QED BY <1>1, <2>1, <2>2 DEF HostInit, HostTypeOK
<1>2. ASSUME HostTypeOK, [HostNext]_hostVars PROVE HostTypeOK'
  <2>1. ASSUME NEW c \in Command, BeginCommand(c) \/ CommandStep(c) PROVE HostTypeOK'
    BY <1>2, <2>1, BeginCommandStep, ConnectStep, RefusedStep, DroppedStep, GiveUpStep,
       ProbeStep, UnlinkStaleStep, PopenStep, SpawnFailsStep DEF CommandStep
  <2>2. ASSUME NEW h \in HostProcess,
               HostStep(h) \/ Serve(h) \/ ServeOrphan(h) \/ Killed(h) \/ WorkerEnds(h)
        PROVE  HostTypeOK'
    BY <1>2, <2>2, AloneStep, AcceptStep, ServeStep, LeavesStep, WorkerEndsStep DEF HostStep
  <2>3. CASE UNCHANGED hostVars
    BY <1>2, <2>3 DEF hostVars, HostTypeOK
  <2>. QED BY <1>2, <2>1, <2>2, <2>3 DEF HostNext
<1>. QED BY <1>1, <1>2, PTL DEF HostSpec

-----------------------------------------------------------------------------
(* RuntimeWorkers.                                                         *)

(* The calls that have a record to write or an agent to reach, and those   *)
(* of a hand-over that is recorded.                                        *)
WorkPc == {"ensure", "launch", "send", "observe", "reread", "halt", "record"}
SwitchPc == Stage \cup {"failing", "complete"}

(* No agent process is known before it was launched, none has two hosts,   *)
(* and a session that says exited has no process.                          *)
AgentsOK ==
  /\ alive \subseteq 1..pids
  /\ \A f \in Config :
       /\ host[f].pid <= pids
       /\ host[f].session = "exited" => host[f].pid \notin alive
  /\ \A f, g \in Config : host[f].pid = host[g].pid /\ host[f].pid # 0 => f = g

(* An agent a call or a hand-over knows of is at the host it was seen at,  *)
(* or at none.                                                             *)
AtHome(p, f) == p # 0 => \A g \in Config : host[g].pid = p => g = f

CallOK(k) ==
  /\ k.got.pid <= pids
  /\ k.got.st = "exited" => k.got.pid \notin alive
  /\ AtHome(k.got.pid, k.cfg)
  /\ k.pc = "latest" => /\ k.got.pid = 0 /\ k.reg \in Registries
                         /\ k.op \in {"start", "input", "status", "stop"}
  /\ k.pc \in WorkPc => k.cfg \in Config /\ k.print \in Config
  /\ k.pc \in SwitchPc \cup {"summary", "request"} => k.cfg \in Config /\ k.dst \in Config
  /\ k.sw # 0 <=> k.pc \in SwitchPc
  /\ k.sw # 0 =>
       /\ k.sw \in DOMAIN switches /\ switches[k.sw].rec = "requested"
       /\ AtHome(switches[k.sw].saw, k.cfg)
       /\ switches[k.sw].started # 0 => k.stage = "start_destination"
  /\ k.pc \in Stage => k.stage = k.pc
  /\ k.pc = "complete" => k.stage = "start_destination"

CallsOK ==
  /\ \A c \in Caller : CallOK(call[c])
  /\ \A c, d \in Caller : call[c].sw = call[d].sw /\ call[c].sw # 0 => c = d

LogOK == \A i \in DOMAIN log : log[i].pid <= pids

SwitchesOK == \A i \in DOMAIN switches : switches[i].saw <= pids

RuntimeInv ==
  /\ TypeOK /\ AgentsOK /\ CallsOK /\ LogOK /\ SwitchesOK
  /\ ExitedHasExited /\ StoppedSourceEnds /\ SwitchIsAccountedFor

(* What may become of the agents in a step: one that was not running and   *)
(* had been launched stays ended, a host takes over none but a new one,    *)
(* and a session that is over stays over while it has its process.         *)
AgentsMove ==
  /\ pids' \in Nat /\ pids <= pids'
  /\ \A p \in Nat : p <= pids /\ p \notin alive => p \notin alive'
  /\ \A f \in Config : \/ host'[f].pid \in {0, host[f].pid}
                       \/ host'[f].pid > pids
  /\ \A f \in Config : host[f].session \in Ended /\ host'[f].pid = host[f].pid
                         => host'[f].session \in Ended \/ host[f].pid = 0

AgentsStep ==
  /\ host' \in [Config -> Host] /\ alive' \subseteq Pid /\ pids' \in 0..MaxStarts
  /\ AgentsOK' /\ AgentsMove

LEMMA HostAt ==
  ASSUME TypeOK, NEW f \in Config
  PROVE  /\ host[f] \in Host /\ host[f].up \in BOOLEAN /\ host[f].pid \in Pid \cup {0}
         /\ host[f].session \in {"none"} \cup WorkerState
         /\ host[f].pid \in Nat /\ pids \in Nat
BY RuntimeAssumption DEF TypeOK, Host, Pid

LEMMA AgentsStand ==
  ASSUME TypeOK, AgentsOK, UNCHANGED <<host, alive, pids>>
  PROVE  AgentsStep
<1>1. pids \in Nat /\ pids <= pids
  BY RuntimeAssumption DEF TypeOK
<1>. QED BY <1>1 DEF TypeOK, AgentsOK, AgentsStep, AgentsMove

(* One host changes its session, and keeps its process.                    *)
LEMMA SessionMoves ==
  ASSUME TypeOK, AgentsOK, NEW f \in Config, UNCHANGED <<alive, pids>>,
         NEW k \in Host, host' = [host EXCEPT ![f] = k], k.pid = host[f].pid,
         k.session = "exited" => host[f].pid \notin alive,
         host[f].session \in Ended => k.session \in Ended
  PROVE  AgentsStep
<1>1. /\ host' \in [Config -> Host] /\ host'[f] = k
      /\ \A g \in Config : g # f => host'[g] = host[g]
  BY DEF TypeOK
<1>2. \A g \in Config : host'[g].pid = host[g].pid
  BY <1>1
<1>3. AgentsOK'
  BY <1>1, <1>2 DEF AgentsOK
<1>4. AgentsMove
  BY <1>1, <1>2, HostAt DEF AgentsMove
<1>. QED BY <1>1, <1>3, <1>4 DEF AgentsStep, TypeOK

(* A host loses its session.                                               *)
LEMMA SessionGoes ==
  ASSUME TypeOK, AgentsOK, NEW f \in Config, UNCHANGED pids,
         NEW k \in Host, host' = [host EXCEPT ![f] = k], k.pid = 0, k.session = "none",
         alive' \in {alive, alive \ {host[f].pid}}
  PROVE  /\ AgentsStep /\ host'[f].pid = 0
         /\ \A g \in Config : host'[g].pid \in {0, host[g].pid}
<1>1. /\ host' \in [Config -> Host] /\ host'[f] = k
      /\ \A g \in Config : g # f => host'[g] = host[g]
  BY DEF TypeOK
<1>2. alive' \subseteq alive /\ pids \in Nat
  BY RuntimeAssumption DEF TypeOK
<1>3. AgentsOK'
  BY <1>1, <1>2, HostAt DEF AgentsOK
<1>4. AgentsMove
  BY <1>1, <1>2, HostAt DEF AgentsMove
<1>. QED BY <1>1, <1>2, <1>3, <1>4 DEF AgentsStep, TypeOK

LEMMA SessionSeenStep ==
  ASSUME TypeOK, AgentsOK, NEW f \in Config, UNCHANGED <<alive, pids>>, host' = SessionSeen(f)
  PROVE  AgentsStep /\ \A g \in Config : host'[g].pid = host[g].pid
<1>. DEFINE st == IF host[f].session = "none" THEN host[f].session ELSE Observed(f).st
            k == [host[f] EXCEPT !.session = st]
<1>1. /\ st \in {"none"} \cup WorkerState
      /\ st = "exited" => host[f].pid \notin alive
      /\ host[f].session \in Ended => st \in Ended
  BY HostAt DEF Observed, Empty, WorkerState, Ended, AgentsOK
<1>2. host' = [host EXCEPT ![f] = k]
  BY DEF SessionSeen
<1>. HIDE DEF st
<1>3. k \in Host /\ k.pid = host[f].pid /\ k.session = st
  BY <1>1, HostAt DEF Host
<1>. HIDE DEF k
<1>. QED BY <1>1, <1>2, <1>3, SessionMoves, HostAt DEF TypeOK

LEMMA HostComesUp ==
  ASSUME TypeOK, AgentsOK, NEW f \in Config, UNCHANGED <<alive, pids>>,
         host' = [host EXCEPT ![f].up = TRUE]
  PROVE  AgentsStep /\ \A g \in Config : host'[g].pid = host[g].pid
<1>. DEFINE k == [host[f] EXCEPT !.up = TRUE]
<1>1. k \in Host /\ k.pid = host[f].pid /\ k.session = host[f].session
  BY HostAt DEF Host
<1>2. host' = [host EXCEPT ![f] = k]
  OBVIOUS
<1>. HIDE DEF k
<1>3. host[f].session = "exited" => host[f].pid \notin alive
  BY DEF AgentsOK
<1>. QED BY <1>1, <1>2, <1>3, SessionMoves, HostAt DEF TypeOK

LEMMA SessionTurns ==
  ASSUME TypeOK, AgentsOK, NEW f \in Config, UNCHANGED <<alive, pids>>,
         NEW st \in WorkerState \ {"exited"}, host' = [host EXCEPT ![f].session = st],
         host[f].session \notin Ended
  PROVE  AgentsStep /\ \A g \in Config : host'[g].pid = host[g].pid
<1>. DEFINE k == [host[f] EXCEPT !.session = st]
<1>1. k \in Host /\ k.pid = host[f].pid /\ k.session = st
  BY HostAt DEF Host
<1>2. host' = [host EXCEPT ![f] = k]
  OBVIOUS
<1>. HIDE DEF k
<1>. QED BY <1>1, <1>2, SessionMoves, HostAt DEF TypeOK

LEMMA HostGoesStep ==
  ASSUME TypeOK, AgentsOK, NEW f \in Config, HostGoes(f)
  PROVE  AgentsStep /\ \A g \in Config : host'[g].pid \in {0, host[g].pid}
<1>1. NoHost \in Host /\ NoHost.pid = 0 /\ NoHost.session = "none"
  BY DEF NoHost, Host
<1>. QED BY <1>1, SessionGoes DEF HostGoes

LEMMA AgentEndsStep ==
  ASSUME TypeOK, AgentsOK, NEW p \in Pid, alive' = alive \ {p}, UNCHANGED <<host, pids>>
  PROVE  AgentsStep
<1>1. pids \in Nat
  BY RuntimeAssumption DEF TypeOK
<1>. QED BY <1>1 DEF TypeOK, AgentsOK, AgentsStep, AgentsMove

LEMMA StopWorkerStep ==
  ASSUME TypeOK, AgentsOK, NEW f \in Config, StopWorker(f), UNCHANGED pids
  PROVE  /\ AgentsStep /\ host[f].pid \notin alive' /\ host'[f].pid = 0
         /\ \A g \in Config : host'[g].pid \in {0, host[g].pid}
<1>. DEFINE k == [host[f] EXCEPT !.session = "none", !.pid = 0]
<1>1. k \in Host /\ k.pid = 0 /\ k.session = "none"
  BY HostAt DEF Host
<1>2. host' = [host EXCEPT ![f] = k] /\ alive' = alive \ {host[f].pid}
  BY DEF StopWorker
<1>. HIDE DEF k
<1>. QED BY <1>1, <1>2, SessionGoes

(* A launch answers the session it finds, or that of a new process.        *)
LEMMA StartWorkerStep ==
  ASSUME TypeOK, AgentsOK, NEW f \in Config, StartWorker(f)
  PROVE  /\ AgentsStep
         /\ host'[f].session \in WorkerState /\ host'[f].pid \in Pid \cup {0}
         /\ host'[f].pid <= pids'
         /\ host'[f].session = "exited" => host'[f].pid \notin alive'
         /\ pids' # pids => pids' \in Pid
         /\ \A g \in Config : host'[g].pid = host[g].pid \/ (g = f /\ host'[g].pid = pids' /\ pids' > pids)
<1>1. CASE host[f].session = "none"
  <2>. DEFINE k == [host[f] EXCEPT !.session = "running", !.pid = pids + 1]
  <2>1. pids' = pids + 1 /\ pids' \in 1..MaxStarts /\ pids \in Nat
    BY <1>1, RuntimeAssumption DEF StartWorker, TypeOK
  <2>2. alive' = alive \cup {pids + 1}
    BY <1>1 DEF StartWorker
  <2>3. host' = [host EXCEPT ![f] = k]
    BY <1>1, <2>1 DEF StartWorker
  <2>4. k \in Host /\ k.pid = pids + 1 /\ k.session = "running"
    BY <2>1, HostAt DEF Host, Pid, WorkerState
  <2>. HIDE DEF k
  <2>5. /\ host' \in [Config -> Host] /\ host'[f] = k
        /\ \A g \in Config : g # f => host'[g] = host[g]
    BY <2>3, <2>4 DEF TypeOK
  <2>6. \A g \in Config : g # f => host'[g].pid = host[g].pid /\ host[g].pid < pids + 1
    BY <2>1, <2>5, HostAt DEF AgentsOK
  <2>7. alive' \subseteq Pid /\ alive' \subseteq 1..pids' /\ pids + 1 \in Pid
    BY <2>1, <2>2 DEF AgentsOK, TypeOK, Pid
  <2>8. AgentsOK'
    <3>1. \A g \in Config : /\ host'[g].pid <= pids'
                            /\ host'[g].session = "exited" => host'[g].pid \notin alive'
      BY <2>1, <2>2, <2>4, <2>5, <2>6, HostAt DEF AgentsOK
    <3>2. \A g, e \in Config : host'[g].pid = host'[e].pid /\ host'[g].pid # 0 => g = e
      BY <2>1, <2>4, <2>5, <2>6, HostAt DEF AgentsOK
    <3>. QED BY <2>7, <3>1, <3>2 DEF AgentsOK
  <2>9. AgentsMove
    <3>1. \A g \in Config : host'[g].pid \in {0, host[g].pid} \/ host'[g].pid > pids
      BY <2>1, <2>4, <2>5
    <3>2. \A g \in Config : host[g].session \in Ended /\ host'[g].pid = host[g].pid
                              => host'[g].session \in Ended \/ host[g].pid = 0
      BY <1>1, <2>5 DEF Ended
    <3>3. \A p \in Nat : p <= pids /\ p \notin alive => p \notin alive'
      BY <2>1, <2>2
    <3>. QED BY <2>1, <3>1, <3>2, <3>3 DEF AgentsMove
  <2>. QED BY <2>1, <2>4, <2>5, <2>6, <2>7, <2>8, <2>9 DEF AgentsStep, WorkerState
<1>2. CASE host[f].session # "none"
  <2>1. UNCHANGED <<host, alive, pids>>
    BY <1>2 DEF StartWorker
  <2>. QED BY <1>2, <2>1, AgentsStand, HostAt DEF AgentsOK
<1>. QED BY <1>1, <1>2

-----------------------------------------------------------------------------
(* What a step of the agents leaves of what is known of them.              *)
LEMMA HomeKept ==
  ASSUME AgentsMove, pids \in Nat, NEW p \in Nat, p <= pids, NEW f, AtHome(p, f)
  PROVE  AtHome(p, f)'
BY DEF AgentsMove, AtHome

LEMMA CallFields ==
  ASSUME NEW k \in Call
  PROVE  /\ k.got \in Summary /\ k.got.pid \in Nat /\ k.sw \in Nat /\ k.read \in Nat
         /\ k.got.st \in WorkerState /\ k.pc \in Pc /\ k.stage \in Stage
         /\ k.cfg \in Config \cup {None} /\ k.dst \in Config \cup {None}
         /\ k.print \in Config \cup {None} /\ k.reg \in Registries \cup {{}}
         /\ k.op \in Op \cup {"none"}
BY RuntimeAssumption DEF Call, Summary, Pid

LEMMA SwitchFields ==
  ASSUME TypeOK, NEW i \in DOMAIN switches
  PROVE  /\ switches[i] \in Switch /\ switches[i].saw \in Nat /\ switches[i].halted \in Nat
         /\ switches[i].started \in Nat
         /\ DOMAIN switches = 1..Len(switches) /\ Len(switches) \in Nat /\ i # 0
<1>1. switches \in Seq(Switch)
  BY DEF TypeOK
<1>2. switches[i] \in Switch /\ DOMAIN switches = 1..Len(switches) /\ Len(switches) \in Nat
  BY <1>1
<1>. QED BY <1>2, RuntimeAssumption DEF Switch, Pid

LEMMA IdleOK ==
  ASSUME AgentsStep
  PROVE  Idle \in Call /\ CallOK(Idle)' /\ Idle.sw = 0
<1>1. pids' \in Nat
  BY DEF AgentsStep, AgentsMove
<1>2. Idle \in Call
  BY DEF Idle, Call, Empty, Summary, WorkerState, Pc, Stage
<1>. QED BY <1>1, <1>2 DEF Idle, CallOK, Empty, AtHome, WorkPc, SwitchPc, Stage

(* A call nobody touches, while its hand-over stays as it is.              *)
LEMMA CallKept ==
  ASSUME TypeOK, SwitchesOK, AgentsStep, NEW k \in Call, CallOK(k),
         k.sw # 0 => /\ k.sw \in DOMAIN switches'
                     /\ switches'[k.sw].saw = switches[k.sw].saw
                     /\ switches'[k.sw].started = switches[k.sw].started
                     /\ switches'[k.sw].rec = switches[k.sw].rec
  PROVE  CallOK(k)'
<1>1. pids \in Nat /\ pids' \in Nat /\ pids <= pids'
  BY RuntimeAssumption DEF TypeOK, AgentsStep, AgentsMove
<1>2. k.got.pid \in Nat /\ k.got.pid <= pids /\ k.got.pid <= pids'
  BY <1>1, CallFields DEF CallOK
<1>3. k.got.st = "exited" => k.got.pid \notin alive'
  BY <1>2 DEF CallOK, AgentsStep, AgentsMove
<1>4. AtHome(k.got.pid, k.cfg)'
  BY <1>1, <1>2, HomeKept DEF CallOK, AgentsStep
<1>5. k.sw # 0 => AtHome(switches[k.sw].saw, k.cfg)'
  <2>1. ASSUME NEW p \in Nat, p <= pids, AtHome(p, k.cfg) PROVE AtHome(p, k.cfg)'
    BY <1>1, <2>1, HomeKept DEF AgentsStep
  <2>2. ASSUME k.sw # 0, NEW p, p = switches[k.sw].saw PROVE AtHome(p, k.cfg)'
    BY <2>1, <2>2, SwitchFields DEF CallOK, SwitchesOK
  <2>3. ASSUME k.sw # 0, NEW p, p = switches'[k.sw].saw PROVE AtHome(p, k.cfg)'
    BY <2>2, <2>3
  <2>. QED BY <2>3 DEF AtHome
<1>. QED BY <1>2, <1>3, <1>4, <1>5 DEF CallOK

(* One call moves and the others stand.  No other call has the hand-over   *)
(* of the one that moves.                                                  *)
LEMMA CallsKept ==
  ASSUME TypeOK, CallsOK, SwitchesOK, AgentsStep, NEW c \in Caller, NEW k \in Call,
         call' = [call EXCEPT ![c] = k], CallOK(k)',
         k.sw \in {0, call[c].sw} \/ k.sw \notin DOMAIN switches,
         \A i \in DOMAIN switches : i # call[c].sw =>
           i \in DOMAIN switches' /\ switches'[i] = switches[i]
  PROVE  call' \in [Caller -> Call] /\ CallsOK' /\ call'[c] = k
         /\ \A d \in Caller : d # c => call'[d] = call[d]
<1>1. /\ call' \in [Caller -> Call] /\ call'[c] = k
      /\ \A d \in Caller : d # c => call'[d] = call[d]
  BY DEF TypeOK
<1>2. ASSUME NEW d \in Caller, NEW l \in Call, l = call'[d] PROVE CallOK(l)'
  <2>1. CASE d = c
    BY <1>1, <1>2, <2>1
  <2>2. CASE d # c
    <3>1. l = call[d] /\ CallOK(l)
      BY <1>1, <1>2, <2>2 DEF CallsOK
    <3>2. l.sw # 0 => l.sw \in DOMAIN switches /\ l.sw # call[c].sw
      BY <2>2, <3>1 DEF CallsOK, CallOK
    <3>3. l.sw # 0 => l.sw \in DOMAIN switches' /\ switches'[l.sw] = switches[l.sw]
      BY <3>2
    <3>. QED BY <3>1, <3>3, CallKept
  <2>. QED BY <2>1, <2>2
<1>3. \A d \in Caller : CallOK(call[d])'
  BY <1>1, <1>2
<1>4. \A d \in Caller : call[d].sw # 0 => call[d].sw \in DOMAIN switches
  BY DEF CallsOK, CallOK
<1>5. \A d, e \in Caller : call'[d].sw = call'[e].sw /\ call'[d].sw # 0 => d = e
  BY <1>1, <1>4 DEF CallsOK
<1>. QED BY <1>1, <1>3, <1>5 DEF CallsOK

(* What a hand-over's record says when its call is over or has moved on.   *)
SwitchOK(s) ==
  /\ s.saw <= pids
  /\ s.halted # 0 => s.saw \notin alive \/ \A f \in Config : host[f].pid # s.saw
  /\ s.started # 0 => s.rec \notin {"stop_source", "attach_destination"}

LEMMA SwitchesAre ==
  RuntimeInv <=> /\ TypeOK /\ AgentsOK /\ CallsOK /\ LogOK /\ ExitedHasExited
                 /\ \A i \in DOMAIN switches : SwitchOK(switches[i])
                 /\ \A i \in DOMAIN switches : switches[i].rec = "requested" =>
                      switches[i].died \/ \E c \in Caller : call[c].sw = i
BY DEF RuntimeInv, SwitchOK, SwitchesOK, StoppedSourceEnds, SwitchIsAccountedFor

LEMMA SwitchKept ==
  ASSUME TypeOK, AgentsStep, NEW s \in Switch, SwitchOK(s)
  PROVE  SwitchOK(s)'
<1>1. pids \in Nat /\ pids' \in Nat /\ pids <= pids' /\ s.saw \in Nat /\ s.saw <= pids
  BY RuntimeAssumption DEF TypeOK, AgentsStep, AgentsMove, SwitchOK, Switch, Pid
<1>2. s.saw \notin alive => s.saw \notin alive'
  BY <1>1 DEF AgentsStep, AgentsMove
<1>3. CASE s.saw = 0
  BY <1>1, <1>3 DEF SwitchOK, AgentsStep, AgentsOK
<1>4. CASE s.saw # 0
  <2>1. \A f \in Config : host[f].pid # s.saw => host'[f].pid # s.saw
    BY <1>1, <1>4, HostAt DEF AgentsStep, AgentsMove
  <2>. QED BY <1>1, <1>2, <2>1 DEF SwitchOK
<1>. QED BY <1>3, <1>4

LEMMA LogKept ==
  ASSUME TypeOK, LogOK, ExitedHasExited, AgentsStep
  PROVE  \A i \in DOMAIN log : /\ log[i].pid <= pids'
                               /\ log[i].st = "exited" => log[i].pid \notin alive'
<1>1. \A i \in DOMAIN log : log[i] \in Record
  BY DEF TypeOK
<1>2. \A i \in DOMAIN log : log[i].pid \in Nat /\ log[i].pid <= pids
  BY <1>1, RuntimeAssumption DEF Record, Pid, LogOK
<1>. QED BY <1>2, RuntimeAssumption DEF ExitedHasExited, AgentsStep, AgentsMove, TypeOK

(* A step that records nothing.                                            *)
LEMMA PlainStep ==
  ASSUME RuntimeInv, AgentsStep, NEW c \in Caller, NEW k \in Call,
         call' = [call EXCEPT ![c] = k], CallOK(k)', k.sw = call[c].sw,
         UNCHANGED <<log, switches>>, left' \in 0..MaxCalls
  PROVE  RuntimeInv'
<1>1. /\ TypeOK /\ AgentsOK /\ CallsOK /\ LogOK /\ ExitedHasExited /\ SwitchesOK
      /\ \A i \in DOMAIN switches : SwitchOK(switches[i])
  BY SwitchesAre DEF RuntimeInv
<1>2. call' \in [Caller -> Call] /\ CallsOK' /\ call'[c] = k
      /\ \A d \in Caller : d # c => call'[d] = call[d]
  BY <1>1, CallsKept
<1>3. TypeOK'
  BY <1>1, <1>2 DEF TypeOK, AgentsStep
<1>4. LogOK' /\ ExitedHasExited'
  BY <1>1, LogKept DEF LogOK, ExitedHasExited
<1>5. \A s \in Switch : SwitchOK(s) => SwitchOK(s)'
  BY <1>1, SwitchKept
<1>6. \A i \in DOMAIN switches' : \A s \in Switch : s = switches'[i] => SwitchOK(s)'
  BY <1>1, <1>5
<1>7. (\A i \in DOMAIN switches : SwitchOK(switches[i]))'
  BY <1>1, <1>6, SwitchFields DEF SwitchOK
<1>8. \A d \in Caller : call'[d].sw = call[d].sw
  BY <1>2
<1>9. (\A i \in DOMAIN switches : switches[i].rec = "requested" =>
         switches[i].died \/ \E d \in Caller : call[d].sw = i)'
  BY <1>8 DEF RuntimeInv, SwitchIsAccountedFor
<1>10. AgentsOK'
  BY DEF AgentsStep
<1>11. SwitchesOK' /\ StoppedSourceEnds' /\ SwitchIsAccountedFor'
  BY <1>7, <1>9 DEF SwitchOK, SwitchesOK, StoppedSourceEnds, SwitchIsAccountedFor
<1>. QED BY <1>2, <1>3, <1>4, <1>10, <1>11 DEF RuntimeInv

(* A step that only the agents take.                                       *)
LEMMA AgentsOnly ==
  ASSUME RuntimeInv, AgentsStep, UNCHANGED <<log, switches, call, left>>
  PROVE  RuntimeInv'
<1>1. /\ TypeOK /\ AgentsOK /\ CallsOK /\ LogOK /\ ExitedHasExited /\ SwitchesOK
      /\ \A i \in DOMAIN switches : SwitchOK(switches[i])
  BY SwitchesAre DEF RuntimeInv
<1>2. TypeOK' /\ AgentsOK'
  BY <1>1 DEF TypeOK, AgentsStep
<1>3. LogOK' /\ ExitedHasExited'
  BY <1>1, LogKept DEF LogOK, ExitedHasExited
<1>4. \A s \in Switch : SwitchOK(s) => SwitchOK(s)'
  BY <1>1, SwitchKept
<1>5. \A i \in DOMAIN switches' : \A s \in Switch : s = switches'[i] => SwitchOK(s)'
  BY <1>1, <1>4
<1>6. (\A i \in DOMAIN switches : SwitchOK(switches[i]))'
  BY <1>1, <1>5, SwitchFields DEF SwitchOK
<1>7. SwitchesOK' /\ StoppedSourceEnds' /\ SwitchIsAccountedFor'
  BY <1>6 DEF SwitchOK, SwitchesOK, StoppedSourceEnds, SwitchIsAccountedFor, RuntimeInv
<1>8. \A k \in Call : CallOK(k) /\ (k.sw # 0 => k.sw \in DOMAIN switches) => CallOK(k)'
  BY <1>1, CallKept
<1>9. \A d \in Caller : \A k \in Call : k = call'[d] => CallOK(k)'
  BY <1>1, <1>8 DEF CallsOK, CallOK
<1>10. \A d \in Caller : CallOK(call[d])'
  BY <1>2, <1>9 DEF TypeOK
<1>. QED BY <1>1, <1>2, <1>3, <1>7, <1>10 DEF RuntimeInv, CallsOK

(* A step that writes the record of the hand-over of its call.             *)
LEMMA SwitchStep ==
  ASSUME RuntimeInv, AgentsStep, NEW c \in Caller, NEW k \in Call, NEW s \in Switch,
         call' = [call EXCEPT ![c] = k], CallOK(k)', k.sw \in {0, call[c].sw},
         call[c].sw # 0, switches' = [switches EXCEPT ![call[c].sw] = s],
         SwitchOK(s)', s.rec = "requested" => s.died \/ k.sw # 0,
         UNCHANGED <<log, left>>
  PROVE  RuntimeInv'
<1>. DEFINE j == call[c].sw
<1>1. /\ TypeOK /\ AgentsOK /\ CallsOK /\ LogOK /\ ExitedHasExited /\ SwitchesOK
      /\ \A i \in DOMAIN switches : SwitchOK(switches[i])
  BY SwitchesAre DEF RuntimeInv
<1>2. j \in DOMAIN switches
  BY <1>1 DEF CallsOK, CallOK
<1>3. /\ switches' \in Seq(Switch) /\ DOMAIN switches' = DOMAIN switches /\ switches'[j] = s
      /\ \A i \in DOMAIN switches : i # j => switches'[i] = switches[i]
  <2>. HIDE DEF j
  <2>1. switches' = [switches EXCEPT ![j] = s] /\ switches \in Seq(Switch)
    BY <1>1 DEF j, TypeOK
  <2>2. j \in 1..Len(switches) /\ DOMAIN switches = 1..Len(switches)
    BY <1>2, <2>1
  <2>. DEFINE q == [switches EXCEPT ![j] = s]
  <2>3. /\ q \in Seq(Switch) /\ Len(q) = Len(switches)
        /\ \A i \in 1..Len(switches) : q[i] = IF i = j THEN s ELSE switches[i]
    BY <2>1, <2>2, ExceptSeq
  <2>4. DOMAIN q = 1..Len(q)
    BY <2>3
  <2>. HIDE DEF q
  <2>5. switches' = q
    BY <2>1 DEF q
  <2>. QED BY <2>2, <2>3, <2>4, <2>5
<1>4. call' \in [Caller -> Call] /\ CallsOK' /\ call'[c] = k
      /\ \A d \in Caller : d # c => call'[d] = call[d]
  BY <1>1, <1>3, CallsKept
<1>5. TypeOK' /\ AgentsOK'
  BY <1>1, <1>3, <1>4 DEF TypeOK, AgentsStep
<1>6. LogOK' /\ ExitedHasExited'
  BY <1>1, LogKept DEF LogOK, ExitedHasExited
<1>7. \A t \in Switch : SwitchOK(t) => SwitchOK(t)'
  BY <1>1, SwitchKept
<1>8. \A i \in DOMAIN switches' : \A t \in Switch : t = switches'[i] => SwitchOK(t)'
  <2>1. \A i \in DOMAIN switches : switches[i] \in Switch
    BY <1>1, SwitchFields
  <2>2. \A t \in Switch : t = s => SwitchOK(t)'
    OBVIOUS
  <2>. HIDE DEF j
  <2>. QED BY <1>1, <1>3, <1>7, <2>1, <2>2
<1>9. \A i \in DOMAIN switches' : switches'[i] \in Switch
  BY <1>3
<1>10. (\A i \in DOMAIN switches : SwitchOK(switches[i]))'
  BY <1>8, <1>9 DEF SwitchOK
<1>11. \A i \in DOMAIN switches' : switches'[i].rec = "requested" =>
         switches'[i].died \/ \E d \in Caller : call'[d].sw = i
  <2>1. ASSUME NEW i \in DOMAIN switches', i # j, switches'[i].rec = "requested",
               ~ switches'[i].died
        PROVE  \E d \in Caller : call'[d].sw = i
    <3>1. PICK d \in Caller : call[d].sw = i
      BY <1>3, <2>1 DEF RuntimeInv, SwitchIsAccountedFor
    <3>2. d # c
      BY <2>1, <3>1
    <3>. QED BY <1>4, <3>1, <3>2
  <2>2. k.sw # 0 => call'[c].sw = j
    BY <1>4
  <2>. QED BY <1>3, <2>1, <2>2
<1>12. SwitchesOK' /\ StoppedSourceEnds' /\ SwitchIsAccountedFor'
  BY <1>10, <1>11 DEF SwitchOK, SwitchesOK, StoppedSourceEnds, SwitchIsAccountedFor
<1>. QED BY <1>4, <1>5, <1>6, <1>12 DEF RuntimeInv

-----------------------------------------------------------------------------
(* One lemma for each action.                                              *)
LEMMA Parts ==
  ASSUME RuntimeInv
  PROVE  /\ TypeOK /\ AgentsOK /\ CallsOK /\ LogOK /\ SwitchesOK
         /\ \A c \in Caller : call[c] \in Call /\ CallOK(call[c])
         /\ \A i \in DOMAIN switches : SwitchOK(switches[i])
         /\ pids \in Nat
BY SwitchesAre, RuntimeAssumption DEF RuntimeInv, TypeOK, CallsOK

(* A call that returns before it has recorded anything.                    *)
LEMMA ReturnStep ==
  ASSUME RuntimeInv, AgentsStep, NEW c \in Caller, call[c].pc \notin SwitchPc, Return(c),
         UNCHANGED <<log, switches, left>>
  PROVE  RuntimeInv'
<1>1. TypeOK /\ call[c].sw = 0
  BY Parts DEF CallOK
<1>2. Idle \in Call /\ Idle.sw = 0
  BY IdleOK
<1>3. CallOK(Idle)'
  BY IdleOK
<1>. QED BY <1>1, <1>2, <1>3, PlainStep DEF Return, TypeOK

(* A call of the worker service, or a hand-over that has not been recorded *)
(* yet, that goes on with an answer of its own provider.                   *)
LEMMA WorkOK ==
  ASSUME RuntimeInv, AgentsStep, NEW c \in Caller, NEW k \in Call,
         k.cfg = call[c].cfg, k.dst = call[c].dst, k.sw = call[c].sw,
         k.got.pid <= pids', k.got.st = "exited" => k.got.pid \notin alive',
         k.got.pid # 0 => \A g \in Config : host'[g].pid = k.got.pid => g = k.cfg,
         \/ call[c].pc \in WorkPc /\ k.pc \in WorkPc /\ k.print \in Config
         \/ call[c].pc = "summary" /\ k.pc = "request"
  PROVE  CallOK(k)' /\ k.sw = 0
<1>1. CallOK(call[c])
  BY Parts
<1>2. /\ k.sw = 0 /\ k.pc \notin SwitchPc /\ k.pc \notin Stage /\ k.pc # "latest"
      /\ k.pc # "complete"
  BY <1>1 DEF CallOK, WorkPc, SwitchPc, Stage
<1>3. AtHome(k.got.pid, k.cfg)'
  BY DEF AtHome
<1>4. k.pc \in WorkPc => k.cfg \in Config /\ k.print \in Config
  BY <1>1 DEF CallOK, WorkPc
<1>5. k.pc \in {"summary", "request"} => k.cfg \in Config /\ k.dst \in Config
  BY <1>1 DEF CallOK, WorkPc
<1>. QED BY <1>2, <1>3, <1>4, <1>5 DEF CallOK

(* What the host of a call's provider tells it.                            *)
LEMMA AnswerStep ==
  ASSUME RuntimeInv, AgentsStep, NEW c \in Caller, NEW pc \in WorkPc, NEW got \in Summary,
         got.pid <= pids', got.st = "exited" => got.pid \notin alive',
         got.pid # 0 => \A g \in Config : host'[g].pid = got.pid => g = call[c].cfg,
         call[c].pc \in WorkPc, Answer(c, pc, got), UNCHANGED <<log, switches, left>>
  PROVE  RuntimeInv'
<1>1. TypeOK /\ call[c] \in Call /\ CallOK(call[c])
  BY Parts
<1>2. CASE Return(c)
  BY <1>2, ReturnStep DEF WorkPc, SwitchPc, Stage
<1>3. CASE call' = [call EXCEPT ![c] = [call[c] EXCEPT !.pc = pc, !.got = got]]
  <2>1. pc \in Pc
    BY DEF WorkPc, Pc
  <2>2. [call[c] EXCEPT !.pc = pc, !.got = got] \in Call
    BY <1>1, <2>1 DEF Call
  <2>3. PICK k \in Call : k = [call[c] EXCEPT !.pc = pc, !.got = got]
    BY <2>2
  <2>4. /\ k.pc = pc /\ k.got = got /\ k.cfg = call[c].cfg /\ k.dst = call[c].dst
        /\ k.print = call[c].print /\ k.sw = call[c].sw
    BY <1>1, <2>3 DEF Call
  <2>5. k.print \in Config
    BY <1>1, <2>4 DEF CallOK
  <2>6. CallOK(k)'
    BY <2>4, <2>5, WorkOK
  <2>7. call' = [call EXCEPT ![c] = k]
    BY <1>3, <2>3
  <2>. QED BY <1>1, <2>4, <2>6, <2>7, PlainStep DEF TypeOK
<1>. QED BY <1>2, <1>3 DEF Answer

(* A call goes on with what it has.                                        *)
LEMMA GoesOn ==
  ASSUME RuntimeInv, AgentsStep, NEW c \in Caller, NEW pc \in WorkPc,
         call[c].pc \in WorkPc, NEW print \in Config,
         call' = [call EXCEPT ![c] = [call[c] EXCEPT !.pc = pc, !.print = print]],
         UNCHANGED <<log, switches, left>>
  PROVE  RuntimeInv'
<1>1. TypeOK /\ call[c] \in Call /\ CallOK(call[c]) /\ pids \in Nat
  BY Parts
<1>2. pc \in Pc
  BY DEF WorkPc, Pc
<1>3. [call[c] EXCEPT !.pc = pc, !.print = print] \in Call
  BY <1>1, <1>2 DEF Call
<1>4. PICK k \in Call : k = [call[c] EXCEPT !.pc = pc, !.print = print]
  BY <1>3
<1>5. /\ k.pc = pc /\ k.got = call[c].got /\ k.cfg = call[c].cfg /\ k.dst = call[c].dst
      /\ k.print = print /\ k.sw = call[c].sw
  BY <1>1, <1>4 DEF Call
<1>6. /\ k.got.pid <= pids'
      /\ k.got.st = "exited" => k.got.pid \notin alive'
      /\ AtHome(k.got.pid, k.cfg)'
  <2>2. k.got.pid \in Nat /\ k.got.pid <= pids /\ AtHome(k.got.pid, k.cfg)
        /\ (k.got.st = "exited" => k.got.pid \notin alive)
    BY <1>1, <1>5, CallFields DEF CallOK
  <2>3. AtHome(k.got.pid, k.cfg)'
    BY <1>1, <2>2, HomeKept DEF AgentsStep
  <2>. QED BY <1>1, <2>2, <2>3 DEF AgentsStep, AgentsMove
<1>7. k.got.pid # 0 => \A g \in Config : host'[g].pid = k.got.pid => g = k.cfg
  BY <1>6 DEF AtHome
<1>8. CallOK(k)'
  BY <1>5, <1>6, <1>7, WorkOK
<1>9. call' = [call EXCEPT ![c] = k]
  BY <1>4
<1>. QED BY <1>1, <1>5, <1>8, <1>9, PlainStep DEF TypeOK

LEMMA BeginStep ==
  ASSUME RuntimeInv, NEW c \in Caller, Begin(c)
  PROVE  RuntimeInv'
<1>1. TypeOK /\ AgentsOK /\ call[c] \in Call /\ CallOK(call[c]) /\ call[c].pc = "idle"
  BY Parts DEF Begin, At
<1>2. AgentsStep
  BY <1>1, AgentsStand DEF Begin
<1>3. PICK op \in Op, reg \in Registries : \E f \in reg, d \in reg :
        /\ op # "switch" => d = f
        /\ call' = [call EXCEPT ![c] =
             [Idle EXCEPT !.op = op, !.reg = reg,
                          !.cfg = IF op \in {"start", "switch"} THEN f ELSE None,
                          !.dst = IF op = "switch" THEN d ELSE None,
                          !.pc = IF op = "switch" THEN "summary" ELSE "latest"]]
  BY DEF Begin
<1>4. PICK f \in reg, d \in reg :
        call' = [call EXCEPT ![c] =
             [Idle EXCEPT !.op = op, !.reg = reg,
                          !.cfg = IF op \in {"start", "switch"} THEN f ELSE None,
                          !.dst = IF op = "switch" THEN d ELSE None,
                          !.pc = IF op = "switch" THEN "summary" ELSE "latest"]]
  BY <1>3
<1>5. f \in Config /\ d \in Config
  BY RuntimeAssumption
<1>. DEFINE cfg == IF op \in {"start", "switch"} THEN f ELSE None
            dst == IF op = "switch" THEN d ELSE None
            pc == IF op = "switch" THEN "summary" ELSE "latest"
            new == [Idle EXCEPT !.op = op, !.reg = reg, !.cfg = cfg, !.dst = dst, !.pc = pc]
<1>6. Idle \in Call /\ Idle.got = Empty("unknown") /\ Idle.sw = 0
  BY <1>2, IdleOK DEF Idle
<1>7. cfg \in Config \cup {None} /\ dst \in Config \cup {None} /\ pc \in Pc
  BY <1>5 DEF Pc
<1>8. /\ new \in Call /\ new.op = op /\ new.reg = reg /\ new.cfg = cfg /\ new.dst = dst
      /\ new.pc = pc /\ new.got = Empty("unknown") /\ new.sw = 0
  <2>. HIDE DEF cfg, dst, pc
  <2>. QED BY <1>6, <1>7 DEF Call
<1>9. call' = [call EXCEPT ![c] = new]
  BY <1>4
<1>. HIDE DEF new
<1>10. PICK k \in Call : k = new
  BY <1>8
<1>11. Empty("unknown").pid = 0 /\ Empty("unknown").st = "unknown" /\ pids' \in Nat
  BY <1>2 DEF Empty, AgentsStep, AgentsMove
<1>12. k.got.pid <= pids' /\ k.got.st # "exited" /\ AtHome(k.got.pid, k.cfg)' /\ k.got.pid = 0
  BY <1>8, <1>10, <1>11 DEF AtHome
<1>13. k.pc = "latest" => k.reg \in Registries /\ k.op \in {"start", "input", "status", "stop"}
  BY <1>8, <1>10, RuntimeAssumption
<1>14. /\ k.pc \notin WorkPc \cup SwitchPc \cup Stage \cup {"request", "complete"}
       /\ k.pc = "summary" => k.cfg \in Config /\ k.dst \in Config
  BY <1>5, <1>8, <1>10 DEF WorkPc, SwitchPc, Stage
<1>15. CallOK(k)'
  BY <1>8, <1>10, <1>12, <1>13, <1>14 DEF CallOK, SwitchPc
<1>16. k.sw = call[c].sw
  BY <1>1, <1>8, <1>10 DEF CallOK, SwitchPc, Stage
<1>17. left' \in 0..MaxCalls
  BY <1>1, RuntimeAssumption DEF Begin, TypeOK
<1>. QED BY <1>2, <1>9, <1>10, <1>15, <1>16, <1>17, PlainStep DEF Begin

(* Where a call goes, it knows a provider of its registry.                 *)
LEMMA RouteIs ==
  ASSUME NEW op \in {"start", "input", "status", "stop"}, NEW reg \in Registries, NEW f,
         Route(op, reg, f) # "idle"
  PROVE  /\ Route(op, reg, f) \in {"ensure", "observe", "send", "halt"}
         /\ op # "start" => Started(reg)
         /\ op = "start" => Route(op, reg, f) \in {"ensure", "observe"}
         /\ Route(op, reg, f) = "ensure" => op = "start" /\ Fresh
         /\ Route(op, reg, f) = "observe" => ~ Fresh
BY DEF Route

LEMMA LastRecord ==
  ASSUME TypeOK, log # <<>>
  PROVE  Last(log) \in Record /\ Len(log) \in DOMAIN log /\ Last(log) = log[Len(log)]
BY DEF TypeOK, Last

LEMMA LatestStep ==
  ASSUME RuntimeInv, NEW c \in Caller, Latest(c)
  PROVE  RuntimeInv'
<1>1. TypeOK /\ AgentsOK /\ call[c] \in Call /\ CallOK(call[c]) /\ call[c].pc = "latest"
  BY Parts DEF Latest, At
<1>2. AgentsStep
  BY <1>1, AgentsStand DEF Latest
<1>. DEFINE op == call[c].op
            reg == call[c].reg
            pc == Route(op, reg, call[c].cfg)
<1>3. CASE pc = "idle"
  BY <1>1, <1>2, <1>3, ReturnStep DEF Latest, SwitchPc, Stage
<1>4. CASE pc # "idle"
  <2>1. op \in {"start", "input", "status", "stop"} /\ reg \in Registries /\ reg \subseteq Config
    BY <1>1, RuntimeAssumption DEF CallOK
  <2>2. pc \in {"ensure", "observe", "send", "halt"} /\ (op # "start" => Started(reg))
    <3>. HIDE DEF op, reg
    <3>. QED BY <1>4, <2>1, RouteIs
  <2>3. PICK g \in reg :
          call' = [call EXCEPT ![c] =
            [call[c] EXCEPT !.pc = pc, !.read = Len(log), !.cfg = g,
                            !.print = IF op = "start" THEN g ELSE Last(log).print]]
    BY <1>4 DEF Latest
  <2>. DEFINE print == IF op = "start" THEN g ELSE Last(log).print
              new == [call[c] EXCEPT !.pc = pc, !.read = Len(log), !.cfg = g, !.print = print]
  <2>4. g \in Config /\ print \in Config
    BY <2>1, <2>2 DEF Started
  <2>5. Len(log) \in Nat /\ pc \in Pc
    BY <1>1, <2>2 DEF TypeOK, Pc
  <2>6. /\ new \in Call /\ new.pc = pc /\ new.cfg = g /\ new.print = print
        /\ new.got = call[c].got /\ new.sw = call[c].sw
    <3>. HIDE DEF pc, print
    <3>. QED BY <1>1, <2>4, <2>5 DEF Call
  <2>7. call' = [call EXCEPT ![c] = new]
    BY <2>3
  <2>. HIDE DEF new
  <2>8. PICK k \in Call : k = new
    BY <2>6
  <2>9. k.sw = call[c].sw /\ k.sw = 0 /\ k.got = call[c].got /\ k.got.pid = 0
    BY <1>1, <2>6, <2>8 DEF CallOK, SwitchPc, Stage
  <2>10. k.got.pid <= pids' /\ k.got.pid \notin alive' /\ AtHome(k.got.pid, k.cfg)'
    BY <1>2, <2>9, RuntimeAssumption DEF AgentsStep, AtHome, Pid, AgentsMove
  <2>11. /\ k.pc \in WorkPc /\ k.cfg \in Config /\ k.print \in Config
         /\ k.pc \notin SwitchPc \cup Stage \cup {"request", "complete", "summary", "latest"}
    BY <2>2, <2>4, <2>6, <2>8 DEF WorkPc, SwitchPc, Stage
  <2>12. CallOK(k)'
    BY <2>9, <2>10, <2>11 DEF CallOK
  <2>. QED BY <1>1, <1>2, <2>7, <2>8, <2>9, <2>12, PlainStep DEF Latest, TypeOK
<1>. QED BY <1>3, <1>4

LEMMA EnsureStep ==
  ASSUME RuntimeInv, NEW c \in Caller, Ensure(c)
  PROVE  RuntimeInv'
<1>1. /\ TypeOK /\ AgentsOK /\ call[c] \in Call /\ CallOK(call[c]) /\ call[c].pc = "ensure"
      /\ call[c].pc \in WorkPc
  BY Parts DEF Ensure, At, WorkPc
<1>2. AgentsStep
  BY <1>1, HostComesUp DEF Ensure, CallOK
<1>3. call' = [call EXCEPT ![c] = [call[c] EXCEPT !.pc = "launch", !.print = call[c].print]]
  <2>1. [call[c] EXCEPT !.pc = "launch"] = [call[c] EXCEPT !.pc = "launch", !.print = call[c].print]
    BY <1>1 DEF Call
  <2>. QED BY <2>1 DEF Ensure, Goto
<1>4. call[c].print \in Config /\ "launch" \in WorkPc
  BY <1>1 DEF CallOK, WorkPc
<1>. QED BY <1>1, <1>2, <1>3, <1>4, GoesOn DEF Ensure

LEMMA LaunchStep ==
  ASSUME RuntimeInv, NEW c \in Caller, Launch(c)
  PROVE  RuntimeInv'
<1>. DEFINE f == call[c].cfg
<1>1. /\ TypeOK /\ AgentsOK /\ call[c] \in Call /\ CallOK(call[c]) /\ call[c].pc \in WorkPc
      /\ f \in Config
  BY Parts DEF Launch, At, WorkPc, CallOK
<1>. DEFINE got == [st |-> host'[f].session, pid |-> host'[f].pid]
<1>2. StartWorker(f) /\ Answer(c, "record", got) /\ UNCHANGED <<log, switches, left>>
  BY DEF Launch
<1>. HIDE DEF f
<1>3. /\ AgentsStep /\ got \in Summary /\ got.pid <= pids'
      /\ (got.st = "exited" => got.pid \notin alive')
  BY <1>1, <1>2, StartWorkerStep DEF Summary
<1>4. got.pid # 0 => \A g \in Config : host'[g].pid = got.pid => g = f
  BY <1>1, <1>3 DEF AgentsStep, AgentsOK
<1>5. "record" \in WorkPc
  BY DEF WorkPc
<1>. HIDE DEF got
<1>6. got.pid # 0 => \A g \in Config : host'[g].pid = got.pid => g = call[c].cfg
  BY <1>4 DEF f
<1>. QED BY <1>1, <1>2, <1>3, <1>5, <1>6, AnswerStep

LEMMA SendStep ==
  ASSUME RuntimeInv, NEW c \in Caller, Send(c)
  PROVE  RuntimeInv'
<1>. DEFINE f == call[c].cfg
<1>1. /\ TypeOK /\ AgentsOK /\ call[c] \in Call /\ CallOK(call[c]) /\ call[c].pc \in WorkPc
      /\ f \in Config
  BY Parts DEF Send, At, WorkPc, CallOK
<1>. DEFINE got == [st |-> "running", pid |-> host[f].pid]
<1>2. /\ host[f].session = "awaiting_input" /\ host' = [host EXCEPT ![f].session = "running"]
      /\ Answer(c, "record", got) /\ UNCHANGED <<log, alive, switches, pids, left>>
  BY DEF Send
<1>3. AgentsStep /\ \A g \in Config : host'[g].pid = host[g].pid
  <2>1. "running" \in WorkerState \ {"exited"} /\ "awaiting_input" \notin Ended
    BY DEF WorkerState, Ended
  <2>. HIDE DEF f
  <2>. QED BY <1>1, <1>2, <2>1, SessionTurns
<1>4. /\ got \in Summary /\ got.pid <= pids' /\ got.st # "exited"
      /\ got.pid # 0 => \A g \in Config : host'[g].pid = got.pid => g = call[c].cfg
  BY <1>1, <1>2, <1>3, HostAt DEF Summary, WorkerState, AgentsOK
<1>5. "record" \in WorkPc
  BY DEF WorkPc
<1>. HIDE DEF got
<1>. QED BY <1>1, <1>2, <1>3, <1>4, <1>5, AnswerStep

LEMMA ObservedIs ==
  ASSUME TypeOK, AgentsOK, NEW f \in Config
  PROVE  /\ Observed(f) \in Summary /\ Observed(f).pid \in {0, host[f].pid}
         /\ Observed(f).pid <= pids
         /\ Observed(f).st = "exited" => Observed(f).pid \notin alive
<1>1. host[f].pid <= pids /\ 0 <= pids
  BY RuntimeAssumption DEF AgentsOK, TypeOK
<1>. QED BY <1>1, HostAt DEF Observed, Empty, Summary, WorkerState, AgentsOK, Ended

LEMMA ObserveStep ==
  ASSUME RuntimeInv, NEW c \in Caller, Observe(c)
  PROVE  RuntimeInv'
<1>. DEFINE f == call[c].cfg
<1>1. /\ TypeOK /\ AgentsOK /\ call[c] \in Call /\ CallOK(call[c]) /\ call[c].pc \in WorkPc
      /\ call[c].pc \notin SwitchPc /\ f \in Config
  BY Parts DEF Observe, At, WorkPc, CallOK, SwitchPc, Stage
<1>2. CASE host' = SessionSeen(f) /\ Answer(c, "reread", Observed(f))
  <2>. DEFINE got == Observed(f)
  <2>1. AgentsStep /\ \A g \in Config : host'[g].pid = host[g].pid
    BY <1>1, <1>2, SessionSeenStep DEF Observe
  <2>2. /\ got \in Summary /\ got.pid <= pids' /\ (got.st = "exited" => got.pid \notin alive')
        /\ got.pid \in {0, host[f].pid}
    BY <1>1, ObservedIs DEF Observe
  <2>3. got.pid # 0 => \A g \in Config : host'[g].pid = got.pid => g = call[c].cfg
    BY <1>1, <2>1, <2>2 DEF AgentsOK
  <2>4. "reread" \in WorkPc
    BY DEF WorkPc
  <2>. HIDE DEF got
  <2>5. Answer(c, "reread", got) /\ UNCHANGED <<log, switches, left>>
    BY <1>2 DEF Observe, got
  <2>. QED BY <1>1, <2>1, <2>2, <2>3, <2>4, <2>5, AnswerStep
<1>3. CASE UNCHANGED host /\ Return(c)
  <2>1. AgentsStep
    BY <1>1, <1>3, AgentsStand DEF Observe
  <2>. QED BY <1>1, <1>3, <2>1, ReturnStep DEF Observe
<1>. QED BY <1>2, <1>3 DEF Observe

LEMMA RereadStep ==
  ASSUME RuntimeInv, NEW c \in Caller, Reread(c)
  PROVE  RuntimeInv'
<1>1. /\ TypeOK /\ AgentsOK /\ call[c] \in Call /\ CallOK(call[c]) /\ call[c].pc \in WorkPc
      /\ call[c].pc \notin SwitchPc
  BY Parts DEF Reread, At, WorkPc, SwitchPc, Stage
<1>2. AgentsStep
  BY <1>1, AgentsStand DEF Reread
<1>3. CASE Started(call[c].reg)
  <2>1. Last(log).print \in Config /\ "record" \in WorkPc
    BY <1>1, <1>3, LastRecord DEF Started, Record, WorkPc
  <2>. QED BY <1>1, <1>2, <1>3, <2>1, GoesOn DEF Reread
<1>4. CASE ~ Started(call[c].reg)
  BY <1>1, <1>2, <1>4, ReturnStep DEF Reread
<1>. QED BY <1>3, <1>4

LEMMA HaltStep ==
  ASSUME RuntimeInv, NEW c \in Caller, Halt(c)
  PROVE  RuntimeInv'
<1>. DEFINE f == call[c].cfg
<1>1. /\ TypeOK /\ AgentsOK /\ call[c] \in Call /\ CallOK(call[c]) /\ call[c].pc \in WorkPc
      /\ f \in Config
  BY Parts DEF Halt, At, WorkPc, CallOK
<1>2. "record" \in WorkPc
  BY DEF WorkPc
<1>3. CASE StopWorker(f) /\ Answer(c, "record", [st |-> "exited", pid |-> host[f].pid])
  <2>. DEFINE got == [st |-> "exited", pid |-> host[f].pid]
  <2>1. /\ AgentsStep /\ host[f].pid \notin alive'
        /\ \A g \in Config : host'[g].pid \in {0, host[g].pid}
    BY <1>1, <1>3, StopWorkerStep DEF Halt
  <2>2. /\ got \in Summary /\ got.pid <= pids' /\ got.pid \notin alive'
        /\ got.pid # 0 => \A g \in Config : host'[g].pid = got.pid => g = call[c].cfg
    BY <1>1, <2>1, HostAt DEF Summary, WorkerState, AgentsOK, Halt
  <2>. HIDE DEF got
  <2>3. Answer(c, "record", got) /\ UNCHANGED <<log, switches, left>>
    BY <1>3 DEF Halt, got
  <2>. QED BY <1>1, <1>2, <2>1, <2>2, <2>3, AnswerStep
<1>4. CASE UNCHANGED <<host, alive>> /\ Answer(c, "record", Empty("exited"))
  <2>. DEFINE got == Empty("exited")
  <2>1. AgentsStep
    BY <1>1, <1>4, AgentsStand DEF Halt
  <2>2. got \in Summary /\ got.pid <= pids' /\ got.pid = 0 /\ got.pid \notin alive'
    BY <2>1 DEF AgentsStep, AgentsMove, AgentsOK, Summary, Empty, WorkerState
  <2>. HIDE DEF got
  <2>3. Answer(c, "record", got) /\ UNCHANGED <<log, switches, left>>
    BY <1>4 DEF Halt, got
  <2>. QED BY <1>1, <1>2, <2>1, <2>2, <2>3, AnswerStep
<1>. QED BY <1>3, <1>4 DEF Halt

LEMMA FailsStep ==
  ASSUME RuntimeInv, NEW c \in Caller, Fails(c)
  PROVE  RuntimeInv'
<1>1. AgentsStep
  BY Parts, AgentsStand DEF Fails
<1>2. call[c].pc \notin SwitchPc
  BY DEF Fails, SwitchPc
<1>. QED BY <1>1, <1>2, ReturnStep DEF Fails

LEMMA AgentSteps ==
  ASSUME RuntimeInv, \/ \E f \in Config : TurnEnds(f) \/ HostGoes(f)
                     \/ \E p \in Pid : AgentEnds(p)
  PROVE  RuntimeInv'
<1>1. TypeOK /\ AgentsOK
  BY Parts
<1>2. ASSUME NEW f \in Config, TurnEnds(f) PROVE RuntimeInv'
  <2>1. PICK st \in {"awaiting_input", "failed"} : host' = [host EXCEPT ![f].session = st]
    BY <1>2 DEF TurnEnds
  <2>2. st \in WorkerState \ {"exited"} /\ host[f].session \notin Ended
    BY <1>2 DEF TurnEnds, WorkerState, Ended
  <2>3. AgentsStep
    BY <1>1, <1>2, <2>1, <2>2, SessionTurns DEF TurnEnds
  <2>. QED BY <1>2, <2>3, AgentsOnly DEF TurnEnds
<1>3. ASSUME NEW f \in Config, HostGoes(f) PROVE RuntimeInv'
  BY <1>1, <1>3, HostGoesStep, AgentsOnly DEF HostGoes
<1>4. ASSUME NEW p \in Pid, AgentEnds(p) PROVE RuntimeInv'
  BY <1>1, <1>4, AgentEndsStep, AgentsOnly DEF AgentEnds
<1>. QED BY <1>2, <1>3, <1>4

LEMMA AppendRecordStep ==
  ASSUME RuntimeInv, NEW c \in Caller, AppendRecord(c)
  PROVE  RuntimeInv'
<1>1. /\ TypeOK /\ AgentsOK /\ call[c] \in Call /\ CallOK(call[c]) /\ call[c].pc = "record"
      /\ CallsOK /\ SwitchesOK
  BY Parts DEF AppendRecord, At
<1>2. AgentsStep
  BY <1>1, AgentsStand DEF AppendRecord
<1>. DEFINE r == RecordOf(c)
<1>3. r \in Record /\ r.pid <= pids /\ (r.st = "exited" => r.pid \notin alive)
  <2>1. call[c].cfg \in Config /\ call[c].print \in Config /\ NameOf[call[c].cfg] \in Name
    BY <1>1 DEF CallOK, WorkPc, Name
  <2>2. /\ call[c].got \in Summary /\ call[c].read \in Nat
        /\ call[c].got.st \in WorkerState /\ call[c].got.pid \in Pid \cup {0}
    BY <1>1, CallFields DEF Summary
  <2>. QED BY <1>1, <2>1, <2>2 DEF RecordOf, Record, CallOK
<1>. HIDE DEF r
<1>4. log' = Append(log, r) /\ UNCHANGED <<host, alive, switches, pids, left>> /\ Return(c)
  BY DEF AppendRecord, r
<1>5. /\ log' \in Seq(Record) /\ DOMAIN log' = 1..(Len(log) + 1) /\ log'[Len(log) + 1] = r
      /\ \A i \in 1..Len(log) : log'[i] = log[i]
      /\ Len(log) \in Nat /\ DOMAIN log = 1..Len(log)
  <2>1. log \in Seq(Record)
    BY <1>1 DEF TypeOK
  <2>. QED BY <1>3, <1>4, <2>1
<1>6. LogOK' /\ ExitedHasExited'
  <2>1. \A i \in 1..(Len(log) + 1) : i \in 1..Len(log) \/ i = Len(log) + 1
    BY <1>5
  <2>2. \A i \in 1..Len(log) : /\ log[i].pid <= pids
                               /\ log[i].st = "exited" => log[i].pid \notin alive
    BY <1>5 DEF RuntimeInv, LogOK, ExitedHasExited
  <2>. QED BY <1>3, <1>4, <1>5, <2>1, <2>2 DEF LogOK, ExitedHasExited
<1>7. Idle \in Call /\ CallOK(Idle)' /\ Idle.sw = 0
  BY <1>2, IdleOK
<1>8. /\ call' \in [Caller -> Call] /\ CallsOK' /\ call'[c] = Idle
      /\ \A d \in Caller : d # c => call'[d] = call[d]
  BY <1>1, <1>2, <1>4, <1>7, CallsKept DEF Return
<1>9. \A d \in Caller : call'[d].sw = call[d].sw
  BY <1>1, <1>7, <1>8 DEF CallOK, SwitchPc, Stage
<1>10. SwitchesOK' /\ StoppedSourceEnds' /\ SwitchIsAccountedFor'
  BY <1>4, <1>9 DEF RuntimeInv, SwitchesOK, StoppedSourceEnds, SwitchIsAccountedFor
<1>11. TypeOK' /\ AgentsOK'
  BY <1>1, <1>2, <1>4, <1>5, <1>8 DEF TypeOK, AgentsStep
<1>. QED BY <1>6, <1>8, <1>10, <1>11 DEF RuntimeInv

LEMMA SummariseStep ==
  ASSUME RuntimeInv, NEW c \in Caller, Summarise(c)
  PROVE  RuntimeInv'
<1>. DEFINE f == call[c].cfg
<1>1. /\ TypeOK /\ AgentsOK /\ call[c] \in Call /\ CallOK(call[c]) /\ call[c].pc = "summary"
      /\ f \in Config
  BY Parts DEF Summarise, At, CallOK
<1>2. PICK got : /\ call' = [call EXCEPT ![c] = [call[c] EXCEPT !.pc = "request", !.got = got]]
                 /\ \/ got = Observed(f) /\ host' = SessionSeen(f)
                    \/ got = Empty("unknown") /\ UNCHANGED host
  BY DEF Summarise
<1>3. AgentsStep /\ \A g \in Config : host'[g].pid = host[g].pid
  <2>1. CASE host' = SessionSeen(f)
    BY <1>1, <2>1, SessionSeenStep DEF Summarise
  <2>2. CASE UNCHANGED host
    BY <1>1, <2>2, AgentsStand DEF Summarise
  <2>. QED BY <1>2, <2>1, <2>2
<1>4. UNCHANGED <<log, alive, switches, pids, left>>
  BY DEF Summarise
<1>5. /\ got \in Summary /\ got.pid <= pids' /\ (got.st = "exited" => got.pid \notin alive')
      /\ got.pid \in {0, host[f].pid}
  <2>1. CASE got = Observed(f)
    BY <1>1, <1>4, <2>1, ObservedIs
  <2>2. CASE got = Empty("unknown")
    BY <1>3, <2>2 DEF Empty, Summary, WorkerState, AgentsStep, AgentsMove
  <2>. QED BY <1>2, <2>1, <2>2
<1>6. got.pid # 0 => \A g \in Config : host'[g].pid = got.pid => g = call[c].cfg
  BY <1>1, <1>3, <1>5 DEF AgentsOK
<1>7. [call[c] EXCEPT !.pc = "request", !.got = got] \in Call
  BY <1>1, <1>5 DEF Call, Pc
<1>8. PICK k \in Call : k = [call[c] EXCEPT !.pc = "request", !.got = got]
  BY <1>7
<1>9. /\ k.pc = "request" /\ k.got = got /\ k.cfg = call[c].cfg /\ k.dst = call[c].dst
      /\ k.sw = call[c].sw
  BY <1>1, <1>8 DEF Call
<1>10. CallOK(k)'
  BY <1>1, <1>3, <1>4, <1>5, <1>6, <1>9, WorkOK
<1>. QED BY <1>1, <1>2, <1>3, <1>4, <1>8, <1>9, <1>10, PlainStep DEF TypeOK

LEMMA RequestedStep ==
  ASSUME RuntimeInv, NEW c \in Caller, Request(c)
  PROVE  RuntimeInv'
<1>1. /\ TypeOK /\ AgentsOK /\ call[c] \in Call /\ CallOK(call[c]) /\ call[c].pc = "request"
      /\ CallsOK /\ SwitchesOK /\ pids \in Nat
      /\ \A i \in DOMAIN switches : SwitchOK(switches[i])
  BY Parts DEF Request, At
<1>2. AgentsStep
  BY <1>1, AgentsStand DEF Request
<1>. DEFINE seen == call[c].got
            saw == IF seen.st \in Active THEN seen.pid ELSE 0
            stage == IF seen.st \in Active THEN "stop_source" ELSE "attach_destination"
            s == [rec |-> "requested", saw |-> saw, halted |-> 0, started |-> 0, died |-> FALSE]
            n == Len(switches) + 1
            new == [[call[c] EXCEPT !.pc = stage, !.stage = stage] EXCEPT !.sw = n]
<1>3. seen \in Summary /\ saw \in Pid \cup {0} /\ saw \in Nat /\ saw <= pids
  BY <1>1, CallFields DEF CallOK, Summary
<1>4. s \in Switch /\ s.saw = saw /\ s.halted = 0 /\ s.started = 0 /\ s.rec = "requested"
  <2>. HIDE DEF saw
  <2>. QED BY <1>3 DEF Switch
<1>5. stage \in Stage /\ stage \in Pc
  BY DEF Stage, Pc
<1>6. /\ switches \in Seq(Switch) /\ n \in Nat /\ n \notin DOMAIN switches /\ n # 0
      /\ DOMAIN switches = 1..Len(switches) /\ Len(switches) \in Nat
  BY <1>1 DEF TypeOK
<1>. HIDE DEF s
<1>7. switches' = Append(switches, s) /\ UNCHANGED <<log, host, alive, pids, left>>
  BY DEF Request, s
<1>8. /\ switches' \in Seq(Switch) /\ DOMAIN switches' = 1..(Len(switches) + 1)
      /\ switches'[n] = s /\ \A i \in DOMAIN switches : switches'[i] = switches[i]
  BY <1>4, <1>6, <1>7
<1>9. /\ new \in Call /\ new.sw = n /\ new.pc = stage /\ new.stage = stage
      /\ new.got = call[c].got /\ new.cfg = call[c].cfg /\ new.dst = call[c].dst
  <2>. HIDE DEF stage, n
  <2>. QED BY <1>1, <1>5, <1>6 DEF Call
<1>10. call' = [call EXCEPT ![c] = new]
  <2>1. call' = [[call EXCEPT ![c] = [call[c] EXCEPT !.pc = stage, !.stage = stage]]
                   EXCEPT ![c].sw = n]
    BY DEF Request, Enter
  <2>. HIDE DEF stage, n
  <2>. QED BY <1>1, <2>1 DEF TypeOK
<1>. HIDE DEF new, n
<1>11. PICK k \in Call : k = new
  BY <1>9
<1>12. /\ k.got.pid \in Nat /\ k.got.pid <= pids' /\ AtHome(k.got.pid, k.cfg)'
       /\ (k.got.st = "exited" => k.got.pid \notin alive')
  <2>1. k.got.pid \in Nat /\ AtHome(k.got.pid, k.cfg) /\ k.got.pid <= pids
    BY <1>1, <1>9, <1>11, CallFields DEF CallOK
  <2>2. AtHome(k.got.pid, k.cfg)'
    BY <1>1, <1>2, <2>1, HomeKept DEF AgentsStep
  <2>. QED BY <1>1, <1>7, <1>9, <1>11, <2>1, <2>2 DEF CallOK
<1>13. k.pc \in Stage /\ k.pc = k.stage /\ k.pc \in SwitchPc /\ k.pc \notin WorkPc
       /\ k.pc \notin {"latest", "complete"}
  BY <1>5, <1>9, <1>11 DEF Stage, SwitchPc, WorkPc
<1>14. k.cfg \in Config /\ k.dst \in Config
  BY <1>1, <1>9, <1>11 DEF CallOK
<1>15. AtHome(switches[k.sw].saw, k.cfg)'
  <2>1. switches'[k.sw].saw \in {0, k.got.pid}
    BY <1>4, <1>8, <1>9, <1>11
  <2>. QED BY <1>12, <2>1 DEF AtHome
<1>16. /\ k.sw # 0 /\ k.sw \in DOMAIN switches' /\ switches'[k.sw].started = 0
       /\ switches'[k.sw].rec = "requested"
  BY <1>4, <1>6, <1>8, <1>9, <1>11 DEF n
<1>17. CallOK(k)'
  BY <1>12, <1>13, <1>14, <1>15, <1>16 DEF CallOK
<1>18. \A i \in DOMAIN switches : i \in DOMAIN switches' /\ switches'[i] = switches[i]
  BY <1>6, <1>8
<1>19. /\ call' \in [Caller -> Call] /\ CallsOK' /\ call'[c] = k
       /\ \A d \in Caller : d # c => call'[d] = call[d]
  BY <1>1, <1>2, <1>6, <1>9, <1>10, <1>11, <1>17, <1>18, CallsKept
<1>20. TypeOK' /\ AgentsOK' /\ LogOK' /\ ExitedHasExited'
  BY <1>1, <1>2, <1>7, <1>8, <1>19 DEF TypeOK, AgentsStep, RuntimeInv, LogOK, ExitedHasExited
<1>21. \A t \in Switch : SwitchOK(t) => SwitchOK(t)'
  BY <1>1, <1>2, SwitchKept
<1>22. \A t : t = s => SwitchOK(t)'
  BY <1>3, <1>4, <1>7 DEF SwitchOK
<1>23. \A i \in DOMAIN switches' : i = n \/ i \in DOMAIN switches
  BY <1>6, <1>8 DEF n
<1>24. \A i \in DOMAIN switches' : \A t : t = switches'[i] => SwitchOK(t)'
  BY <1>1, <1>8, <1>21, <1>22, <1>23, SwitchFields
<1>25. (\A i \in DOMAIN switches : SwitchOK(switches[i]))'
  BY <1>24 DEF SwitchOK
<1>26. \A i \in DOMAIN switches' : switches'[i].rec = "requested" =>
         switches'[i].died \/ \E d \in Caller : call'[d].sw = i
  <2>1. ASSUME NEW i \in DOMAIN switches, switches'[i].rec = "requested", ~ switches'[i].died
        PROVE  \E d \in Caller : call'[d].sw = i
    <3>1. PICK d \in Caller : call[d].sw = i
      BY <1>8, <2>1 DEF RuntimeInv, SwitchIsAccountedFor
    <3>2. d # c
      BY <1>1, <1>6, <2>1, <3>1 DEF CallOK, SwitchPc, Stage
    <3>. QED BY <1>19, <3>1, <3>2
  <2>. QED BY <1>9, <1>11, <1>19, <1>23, <2>1
<1>27. SwitchesOK' /\ StoppedSourceEnds' /\ SwitchIsAccountedFor'
  BY <1>25, <1>26 DEF SwitchOK, SwitchesOK, StoppedSourceEnds, SwitchIsAccountedFor
<1>. QED BY <1>19, <1>20, <1>27 DEF RuntimeInv

(* A recorded hand-over that goes on or is about to end.                   *)
LEMMA StageOK ==
  ASSUME RuntimeInv, AgentsStep, NEW c \in Caller, call[c].pc \in SwitchPc, NEW k \in Call,
         k.got = call[c].got, k.cfg = call[c].cfg, k.dst = call[c].dst,
         k.sw = call[c].sw, k.pc \in SwitchPc,
         call[c].sw \in DOMAIN switches', switches'[call[c].sw].rec = "requested",
         switches'[call[c].sw].saw = switches[call[c].sw].saw,
         switches'[call[c].sw].started # 0 => k.stage = "start_destination",
         k.pc \in Stage => k.stage = k.pc, k.pc = "complete" => k.stage = "start_destination"
  PROVE  CallOK(k)'
<1>1. TypeOK /\ SwitchesOK /\ CallOK(call[c]) /\ call[c] \in Call /\ pids \in Nat /\ k.sw # 0
  BY Parts DEF CallOK
<1>2. /\ k.got.pid \in Nat /\ k.got.pid <= pids /\ AtHome(k.got.pid, k.cfg)
      /\ k.got.st = "exited" => k.got.pid \notin alive
  BY <1>1, CallFields DEF CallOK
<1>3. /\ k.got.pid <= pids' /\ AtHome(k.got.pid, k.cfg)'
      /\ k.got.st = "exited" => k.got.pid \notin alive'
  <2>1. AtHome(k.got.pid, k.cfg)'
    BY <1>1, <1>2, HomeKept DEF AgentsStep
  <2>. QED BY <1>1, <1>2, <2>1 DEF AgentsStep, AgentsMove
<1>4. AtHome(switches[k.sw].saw, k.cfg)'
  <2>1. ASSUME NEW p \in Nat, p <= pids, AtHome(p, k.cfg) PROVE AtHome(p, k.cfg)'
    BY <1>1, <2>1, HomeKept DEF AgentsStep
  <2>2. ASSUME NEW p, p = switches[k.sw].saw PROVE AtHome(p, k.cfg)'
    BY <1>1, <2>1, <2>2, SwitchFields DEF CallOK, SwitchesOK
  <2>3. ASSUME NEW p, p = switches'[k.sw].saw PROVE AtHome(p, k.cfg)'
    BY <2>2, <2>3
  <2>. QED BY <2>3 DEF AtHome
<1>5. k.cfg \in Config /\ k.dst \in Config
  BY <1>1 DEF CallOK
<1>6. k.pc \notin WorkPc /\ k.pc # "latest"
  BY DEF SwitchPc, WorkPc, Stage
<1>. QED BY <1>1, <1>3, <1>4, <1>5, <1>6 DEF CallOK

(* Where a hand-over may go from a stage.                                  *)
LEMMA StageMoves ==
  ASSUME RuntimeInv, NEW c \in Caller, call[c].pc \in SwitchPc,
         \/ \E stage \in Stage : call' = Enter(c, stage)
         \/ call' = [call EXCEPT ![c].pc = "failing"]
         \/ call' = [call EXCEPT ![c].pc = "complete"]
  PROVE  \E k \in Call :
           /\ call' = [call EXCEPT ![c] = k]
           /\ k.got = call[c].got /\ k.cfg = call[c].cfg /\ k.dst = call[c].dst
           /\ k.sw = call[c].sw /\ k.pc = call'[c].pc /\ k.pc \in SwitchPc
           /\ k.stage = call[c].stage \/ (k.pc \in Stage /\ k.stage = k.pc)
           /\ k.pc \in Stage => k.stage = k.pc
<1>1. TypeOK /\ call[c] \in Call
  BY Parts
<1>2. ASSUME NEW stage \in Stage, call' = Enter(c, stage)
      PROVE  \E k \in Call : /\ call' = [call EXCEPT ![c] = k]
                             /\ k.got = call[c].got /\ k.cfg = call[c].cfg /\ k.dst = call[c].dst
                             /\ k.sw = call[c].sw /\ k.pc = call'[c].pc /\ k.pc \in SwitchPc
                             /\ k.stage = k.pc /\ k.pc \in Stage
  <2>. DEFINE k == [call[c] EXCEPT !.pc = stage, !.stage = stage]
  <2>1. /\ k \in Call /\ k.pc = stage /\ k.stage = stage /\ k.got = call[c].got
        /\ k.cfg = call[c].cfg /\ k.dst = call[c].dst /\ k.sw = call[c].sw
    BY <1>1 DEF Call, Stage, Pc
  <2>2. call' = [call EXCEPT ![c] = k]
    BY <1>2 DEF Enter
  <2>. HIDE DEF k
  <2>3. call'[c] = k
    BY <1>1, <2>2 DEF TypeOK
  <2>. QED BY <2>1, <2>2, <2>3 DEF SwitchPc
<1>3. ASSUME NEW pc \in {"failing", "complete"}, call' = [call EXCEPT ![c].pc = pc]
      PROVE  \E k \in Call : /\ call' = [call EXCEPT ![c] = k]
                             /\ k.got = call[c].got /\ k.cfg = call[c].cfg /\ k.dst = call[c].dst
                             /\ k.sw = call[c].sw /\ k.pc = call'[c].pc /\ k.pc \in SwitchPc
                             /\ k.stage = call[c].stage /\ k.pc \notin Stage
  <2>. DEFINE k == [call[c] EXCEPT !.pc = pc]
  <2>1. /\ k \in Call /\ k.pc = pc /\ k.stage = call[c].stage /\ k.got = call[c].got
        /\ k.cfg = call[c].cfg /\ k.dst = call[c].dst /\ k.sw = call[c].sw
    BY <1>1 DEF Call, Pc
  <2>2. call' = [call EXCEPT ![c] = k]
    BY <1>3
  <2>. HIDE DEF k
  <2>3. call'[c] = k
    BY <1>1, <2>2 DEF TypeOK
  <2>. QED BY <2>1, <2>2, <2>3 DEF SwitchPc, Stage
<1>4. CASE \E stage \in Stage : call' = Enter(c, stage)
  BY <1>2, <1>4
<1>5. CASE \/ call' = [call EXCEPT ![c].pc = "failing"]
           \/ call' = [call EXCEPT ![c].pc = "complete"]
  BY <1>3, <1>5
<1>. QED BY <1>4, <1>5

LEMMA InSwitch ==
  ASSUME RuntimeInv, NEW c \in Caller, call[c].pc \in SwitchPc
  PROVE  LET i == call[c].sw IN
         /\ TypeOK /\ AgentsOK /\ pids \in Nat /\ call[c] \in Call
         /\ i # 0 /\ i \in DOMAIN switches /\ switches[i] \in Switch /\ SwitchOK(switches[i])
         /\ switches[i].rec = "requested" /\ switches[i].saw \in Nat
         /\ AtHome(switches[i].saw, call[c].cfg)
         /\ switches[i].started # 0 => call[c].stage = "start_destination"
         /\ call[c].cfg \in Config /\ call[c].dst \in Config
         /\ call[c].pc \in Stage => call[c].stage = call[c].pc
         /\ call[c].pc = "complete" => call[c].stage = "start_destination"
BY Parts, SwitchFields DEF CallOK

(* A hand-over that goes on without a word of its record.                  *)
LEMMA SwitchPlain ==
  ASSUME RuntimeInv, AgentsStep, NEW c \in Caller, call[c].pc \in SwitchPc,
         UNCHANGED <<log, switches, left>>,
         \/ \E stage \in Stage : /\ call' = Enter(c, stage)
                                 /\ switches[call[c].sw].started # 0 => stage = "start_destination"
         \/ call' = [call EXCEPT ![c].pc = "failing"]
  PROVE  RuntimeInv'
<1>1. PICK k \in Call :
        /\ call' = [call EXCEPT ![c] = k]
        /\ k.got = call[c].got /\ k.cfg = call[c].cfg /\ k.dst = call[c].dst
        /\ k.sw = call[c].sw /\ k.pc = call'[c].pc /\ k.pc \in SwitchPc
        /\ k.stage = call[c].stage \/ (k.pc \in Stage /\ k.stage = k.pc)
        /\ k.pc \in Stage => k.stage = k.pc
  BY StageMoves
<1>2. /\ call'[c].pc \in Stage /\ switches[call[c].sw].started # 0
           => call'[c].pc = "start_destination"
      /\ call'[c].pc # "complete"
  <2>1. call \in [Caller -> Call] /\ call[c] \in Call
    BY Parts DEF TypeOK
  <2>2. ASSUME NEW stage \in Stage, call' = Enter(c, stage),
               switches[call[c].sw].started # 0 => stage = "start_destination"
        PROVE  call'[c].pc = stage
    BY <2>1, <2>2 DEF Enter, Call
  <2>3. ASSUME call' = [call EXCEPT ![c].pc = "failing"] PROVE call'[c].pc = "failing"
    BY <2>1, <2>3 DEF Call
  <2>4. "failing" \notin Stage /\ "complete" \notin Stage
    BY DEF Stage
  <2>. QED BY <2>2, <2>3, <2>4
<1>4. switches'[call[c].sw].started # 0 => k.stage = "start_destination"
  BY <1>1, <1>2, InSwitch
<1>5. CallOK(k)'
  BY <1>1, <1>2, <1>4, InSwitch, StageOK
<1>6. left' \in 0..MaxCalls
  BY InSwitch DEF TypeOK
<1>. QED BY <1>1, <1>5, <1>6, PlainStep

LEMMA AttachDestinationStep ==
  ASSUME RuntimeInv, NEW c \in Caller, AttachDestination(c)
  PROVE  RuntimeInv'
<1>1. call[c].pc \in SwitchPc
  BY DEF AttachDestination, At, SwitchPc, Stage
<1>2. AgentsStep
  BY <1>1, InSwitch, HostComesUp DEF AttachDestination
<1>3. "start_destination" \in Stage
  BY DEF Stage
<1>. QED BY <1>1, <1>2, <1>3, SwitchPlain DEF AttachDestination

LEMMA SwitchRaisesStep ==
  ASSUME RuntimeInv, NEW c \in Caller, SwitchRaises(c)
  PROVE  RuntimeInv'
<1>1. call[c].pc \in SwitchPc
  BY DEF SwitchRaises, SwitchPc
<1>2. AgentsStep
  BY <1>1, InSwitch, AgentsStand DEF SwitchRaises
<1>. QED BY <1>1, <1>2, SwitchPlain DEF SwitchRaises, Raise, Goto

LEMMA StopSourceStep ==
  ASSUME RuntimeInv, NEW c \in Caller, StopSource(c)
  PROVE  RuntimeInv'
<1>. DEFINE i == call[c].sw
            f == call[c].cfg
            s == [switches[i] EXCEPT !.halted = host[f].pid]
<1>1. call[c].pc = "stop_source" /\ call[c].pc \in SwitchPc /\ call[c].pc \in Stage
  BY DEF StopSource, At, SwitchPc, Stage
<1>2. /\ TypeOK /\ AgentsOK /\ pids \in Nat /\ i # 0 /\ i \in DOMAIN switches
      /\ switches[i] \in Switch /\ SwitchOK(switches[i]) /\ switches[i].saw \in Nat
      /\ AtHome(switches[i].saw, f) /\ f \in Config /\ switches[i].rec = "requested"
      /\ switches[i].started = 0
  BY <1>1, InSwitch
<1>3. "attach_destination" \in Stage
  BY DEF Stage
<1>4. call' = Enter(c, "attach_destination") \/ call' = [call EXCEPT ![c].pc = "failing"]
  BY DEF StopSource, Raise, Goto
<1>5. CASE UNCHANGED <<host, alive, switches>>
  <2>1. AgentsStep
    BY <1>2, <1>5, AgentsStand DEF StopSource
  <2>. QED BY <1>1, <1>2, <1>3, <1>4, <1>5, <2>1, SwitchPlain DEF StopSource
<1>6. CASE StopWorker(f) /\ switches' = [switches EXCEPT ![i].halted = host[f].pid]
  <2>1. /\ AgentsStep /\ host[f].pid \notin alive'
        /\ \A g \in Config : host'[g].pid \in {0, host[g].pid}
    BY <1>2, <1>6, StopWorkerStep DEF StopSource
  <2>2. /\ s \in Switch /\ s.saw = switches[i].saw /\ s.halted = host[f].pid
        /\ s.started = 0 /\ s.rec = "requested"
    BY <1>2, HostAt DEF Switch
  <2>3. switches' = [switches EXCEPT ![i] = s]
    BY <1>6
  <2>. HIDE DEF s
  <2>4. switches'[i] = s /\ i \in DOMAIN switches'
    BY <1>2, <2>3
  <2>5. PICK k \in Call :
          /\ call' = [call EXCEPT ![c] = k]
          /\ k.got = call[c].got /\ k.cfg = call[c].cfg /\ k.dst = call[c].dst
          /\ k.sw = call[c].sw /\ k.pc = call'[c].pc /\ k.pc \in SwitchPc
          /\ k.stage = call[c].stage \/ (k.pc \in Stage /\ k.stage = k.pc)
          /\ k.pc \in Stage => k.stage = k.pc
    BY <1>1, <1>3, <1>4, StageMoves
  <2>6. k.pc # "complete"
    <3>1. call \in [Caller -> Call] /\ call[c] \in Call
      BY <1>2 DEF TypeOK
    <3>2. ASSUME call' = Enter(c, "attach_destination")
          PROVE  call'[c].pc = "attach_destination"
      BY <3>1, <3>2 DEF Enter, Call
    <3>3. ASSUME call' = [call EXCEPT ![c].pc = "failing"] PROVE call'[c].pc = "failing"
      BY <3>1, <3>3 DEF Call
    <3>. QED BY <1>4, <2>5, <3>2, <3>3
  <2>7. CallOK(k)'
    BY <1>1, <2>1, <2>2, <2>4, <2>5, <2>6, StageOK
  <2>8. PICK t \in Switch : t = s
    BY <2>2
  <2>9. t.saw \notin alive' \/ \A g \in Config : host'[g].pid # t.saw
    <3>1. CASE t.saw = 0
      BY <2>1, <3>1 DEF AgentsStep, AgentsOK
    <3>2. CASE t.saw = host[f].pid
      BY <2>1, <3>2
    <3>3. CASE t.saw # 0 /\ t.saw # host[f].pid
      <4>1. \A g \in Config : host[g].pid # t.saw
        BY <1>2, <2>2, <2>8, <3>3 DEF AtHome
      <4>. QED BY <2>1, <3>3, <4>1
    <3>. QED BY <3>1, <3>2, <3>3
  <2>10. SwitchOK(t)'
    <3>1. t.saw <= pids'
      BY <1>2, <2>2, <2>8 DEF SwitchOK, StopSource
    <3>. QED BY <2>2, <2>8, <2>9, <3>1 DEF SwitchOK
  <2>. QED BY <1>2, <2>1, <2>3, <2>5, <2>7, <2>8, <2>10, SwitchStep DEF StopSource
<1>. QED BY <1>5, <1>6 DEF StopSource

LEMMA StartDestinationStep ==
  ASSUME RuntimeInv, NEW c \in Caller, StartDestination(c)
  PROVE  RuntimeInv'
<1>. DEFINE i == call[c].sw
            f == call[c].dst
            p == IF pids' = pids THEN 0 ELSE pids'
            s == [switches[i] EXCEPT !.started = p]
<1>1. call[c].pc = "start_destination" /\ call[c].pc \in SwitchPc /\ call[c].pc \in Stage
  BY DEF StartDestination, At, SwitchPc, Stage
<1>2. /\ TypeOK /\ AgentsOK /\ pids \in Nat /\ i # 0 /\ i \in DOMAIN switches
      /\ switches[i] \in Switch /\ SwitchOK(switches[i]) /\ switches[i].saw \in Nat
      /\ f \in Config /\ switches[i].rec = "requested"
      /\ call[c].stage = "start_destination"
  BY <1>1, InSwitch
<1>3. \/ call' = [call EXCEPT ![c].pc = "failing"]
      \/ call' = [call EXCEPT ![c].pc = "complete"]
  BY DEF StartDestination, Raise, Goto
<1>4. AgentsStep /\ p \in Pid \cup {0}
  BY <1>2, StartWorkerStep DEF StartDestination
<1>5. /\ s \in Switch /\ s.saw = switches[i].saw /\ s.rec = "requested"
      /\ s.halted = switches[i].halted
  <2>. HIDE DEF p
  <2>. QED BY <1>2, <1>4 DEF Switch
<1>6. switches' = [switches EXCEPT ![i] = s]
  BY DEF StartDestination
<1>. HIDE DEF s, p
<1>7. switches'[i] = s /\ i \in DOMAIN switches'
  BY <1>2, <1>6
<1>8. PICK k \in Call :
        /\ call' = [call EXCEPT ![c] = k]
        /\ k.got = call[c].got /\ k.cfg = call[c].cfg /\ k.dst = call[c].dst
        /\ k.sw = call[c].sw /\ k.pc = call'[c].pc /\ k.pc \in SwitchPc
        /\ k.stage = call[c].stage \/ (k.pc \in Stage /\ k.stage = k.pc)
        /\ k.pc \in Stage => k.stage = k.pc
  BY <1>1, <1>3, StageMoves
<1>9. k.stage = "start_destination"
  <2>1. call \in [Caller -> Call] /\ call[c] \in Call
    BY <1>2 DEF TypeOK
  <2>2. call'[c].pc \in {"complete", "failing"}
    BY <1>3, <2>1 DEF Call
  <2>. QED BY <1>2, <1>8, <2>2 DEF Stage
<1>10. CallOK(k)'
  BY <1>1, <1>4, <1>5, <1>7, <1>8, <1>9, StageOK
<1>11. PICK t \in Switch : t = s
  BY <1>5
<1>12. SwitchOK(t)'
  <2>1. PICK u \in Switch : u = switches[i]
    BY <1>2
  <2>2. SwitchOK(u)'
    BY <1>2, <1>4, <2>1, SwitchKept
  <2>. QED BY <1>5, <1>11, <2>1, <2>2 DEF SwitchOK
<1>. QED BY <1>2, <1>4, <1>6, <1>8, <1>10, <1>11, <1>12, SwitchStep DEF StartDestination

(* The end of a hand-over: its record says how it ended.                   *)
LEMMA SwitchEnds ==
  ASSUME RuntimeInv, NEW c \in Caller, call[c].pc \in SwitchPc, Return(c),
         UNCHANGED <<log, host, alive, pids, left>>,
         NEW s \in Switch, switches' = [switches EXCEPT ![call[c].sw] = s],
         s.saw = switches[call[c].sw].saw, s.halted = switches[call[c].sw].halted,
         s.started = switches[call[c].sw].started, s.rec = "requested" => s.died,
         s.started # 0 => s.rec \notin {"stop_source", "attach_destination"}
  PROVE  RuntimeInv'
<1>1. /\ TypeOK /\ AgentsOK /\ SwitchOK(switches[call[c].sw]) /\ call[c].sw # 0
  BY InSwitch
<1>2. AgentsStep
  BY <1>1, AgentsStand
<1>3. Idle \in Call /\ CallOK(Idle)' /\ Idle.sw = 0
  BY <1>2, IdleOK
<1>4. SwitchOK(s)'
  BY <1>1 DEF SwitchOK
<1>. QED BY <1>1, <1>2, <1>3, <1>4, SwitchStep DEF Return

LEMMA CompleteStep ==
  ASSUME RuntimeInv, NEW c \in Caller, Complete(c)
  PROVE  RuntimeInv'
<1>. DEFINE s == [switches[call[c].sw] EXCEPT !.rec = "completed"]
<1>1. call[c].pc \in SwitchPc
  BY DEF Complete, At, SwitchPc
<1>2. /\ s \in Switch /\ s.saw = switches[call[c].sw].saw
      /\ s.halted = switches[call[c].sw].halted
      /\ s.started = switches[call[c].sw].started /\ s.rec = "completed"
  BY <1>1, InSwitch DEF Switch
<1>3. switches' = [switches EXCEPT ![call[c].sw] = s]
  BY DEF Complete
<1>. HIDE DEF s
<1>4. PICK t \in Switch : t = s
  BY <1>2
<1>. QED BY <1>1, <1>2, <1>3, <1>4, SwitchEnds DEF Complete

LEMMA RecordFailureStep ==
  ASSUME RuntimeInv, NEW c \in Caller, RecordFailure(c)
  PROVE  RuntimeInv'
<1>. DEFINE s == [switches[call[c].sw] EXCEPT !.rec = call[c].stage]
<1>1. call[c].pc \in SwitchPc
  BY DEF RecordFailure, At, SwitchPc
<1>2. /\ s \in Switch /\ s.saw = switches[call[c].sw].saw
      /\ s.halted = switches[call[c].sw].halted
      /\ s.started = switches[call[c].sw].started /\ s.rec = call[c].stage
      /\ s.rec \in Stage
      /\ s.started # 0 => s.rec = "start_destination"
  <2>1. call[c].stage \in Stage
    BY <1>1, InSwitch, CallFields
  <2>. QED BY <1>1, <2>1, InSwitch DEF Switch
<1>3. switches' = [switches EXCEPT ![call[c].sw] = s]
  BY DEF RecordFailure
<1>. HIDE DEF s
<1>4. PICK t \in Switch : t = s
  BY <1>2
<1>. QED BY <1>1, <1>2, <1>3, <1>4, SwitchEnds DEF RecordFailure, Stage

LEMMA CrashStep ==
  ASSUME RuntimeInv, NEW c \in Caller, Crash(c)
  PROVE  RuntimeInv'
<1>. DEFINE s == [switches[call[c].sw] EXCEPT !.died = TRUE]
<1>1. call[c].pc \in SwitchPc
  BY DEF Crash, SwitchPc
<1>2. /\ s \in Switch /\ s.saw = switches[call[c].sw].saw
      /\ s.halted = switches[call[c].sw].halted
      /\ s.started = switches[call[c].sw].started /\ s.rec = "requested" /\ s.died
  BY <1>1, InSwitch DEF Switch
<1>3. switches' = [switches EXCEPT ![call[c].sw] = s]
  BY DEF Crash
<1>. HIDE DEF s
<1>4. PICK t \in Switch : t = s
  BY <1>2
<1>. QED BY <1>1, <1>2, <1>3, <1>4, SwitchEnds DEF Crash

-----------------------------------------------------------------------------
LEMMA RuntimeStart ==
  ASSUME Init
  PROVE  RuntimeInv
<1>1. /\ pids = 0 /\ pids \in 0..MaxStarts /\ left \in 0..MaxCalls /\ alive = {}
      /\ log = <<>> /\ switches = <<>>
  BY RuntimeAssumption DEF Init
<1>2. NoHost \in Host /\ NoHost.pid = 0 /\ NoHost.session = "none"
  BY DEF NoHost, Host
<1>3. \A f \in Config : host[f] = NoHost
  BY DEF Init
<1>4. Idle \in Call /\ CallOK(Idle) /\ Idle.sw = 0
  <2>1. Idle \in Call
    BY DEF Idle, Call, Empty, Summary, WorkerState, Pc, Stage
  <2>. QED BY <1>1, <2>1 DEF Idle, CallOK, Empty, AtHome, WorkPc, SwitchPc, Stage
<1>5. \A c \in Caller : call[c] = Idle
  BY DEF Init
<1>6. TypeOK
  BY <1>1, <1>2, <1>4 DEF Init, TypeOK
<1>7. AgentsOK
  BY <1>1, <1>2, <1>3 DEF AgentsOK
<1>8. CallsOK
  BY <1>4, <1>5 DEF CallsOK
<1>9. DOMAIN log = {} /\ DOMAIN switches = {}
  BY <1>1
<1>10. LogOK /\ SwitchesOK /\ ExitedHasExited /\ StoppedSourceEnds /\ SwitchIsAccountedFor
  BY <1>9 DEF LogOK, SwitchesOK, ExitedHasExited, StoppedSourceEnds, SwitchIsAccountedFor
<1>. QED BY <1>6, <1>7, <1>8, <1>10 DEF RuntimeInv

LEMMA RuntimeInvariance == Spec => []RuntimeInv
<1>1. Init => RuntimeInv
  BY RuntimeStart
<1>2. RuntimeInv /\ [Next]_vars => RuntimeInv'
  <2>1. ASSUME RuntimeInv, UNCHANGED vars PROVE RuntimeInv'
    <3>1. AgentsStep
      BY <2>1, Parts, AgentsStand DEF vars
    <3>. QED BY <2>1, <3>1, AgentsOnly DEF vars
  <2>2. ASSUME RuntimeInv, NEW c \in Caller,
               \/ Begin(c) \/ Latest(c) \/ Ensure(c) \/ Launch(c) \/ Send(c)
               \/ Observe(c) \/ Reread(c) \/ Halt(c) \/ AppendRecord(c)
               \/ Summarise(c) \/ Request(c) \/ StopSource(c) \/ AttachDestination(c)
               \/ StartDestination(c) \/ Complete(c) \/ SwitchRaises(c) \/ RecordFailure(c)
               \/ Fails(c) \/ Crash(c)
        PROVE  RuntimeInv'
    BY <2>2, BeginStep, LatestStep, EnsureStep, LaunchStep, SendStep, ObserveStep,
       RereadStep, HaltStep, AppendRecordStep, SummariseStep, RequestedStep,
       StopSourceStep, AttachDestinationStep, StartDestinationStep, CompleteStep,
       SwitchRaisesStep, RecordFailureStep, FailsStep, CrashStep
  <2>. QED BY <2>1, <2>2, AgentSteps DEF Next
<1>. QED BY <1>1, <1>2, PTL DEF Spec

(* The records of workers and of hand-overs, and the calls, hold what they *)
(* may hold.                                                               *)
THEOREM RuntimeTypeCorrect == Spec => []TypeOK
BY RuntimeInvariance, PTL DEF RuntimeInv

(* A process that a record says has exited has exited, and no start brings *)
(* it back.                                                                *)
THEOREM RecordedExitsAreTrue == Spec => []ExitedHasExited
BY RuntimeInvariance, PTL DEF RuntimeInv

(* The worker a hand-over saw does not run at its host once a stop was     *)
(* answered, however often the host went and came in between.              *)
THEOREM StoppedSourcesEnd == Spec => []StoppedSourceEnds
BY RuntimeInvariance, PTL DEF RuntimeInv

(* A hand-over that is over is recorded as completed or with the stage it  *)
(* failed in, unless its process died.                                     *)
THEOREM SwitchesAreAccountedFor == Spec => []SwitchIsAccountedFor
BY RuntimeInvariance, PTL DEF RuntimeInv

-----------------------------------------------------------------------------
(* The last record shows the worker that runs.                             *)

(* A recorded worker that a call could still reach at its host.            *)
Known(f) ==
  /\ host[f].session \notin Ended /\ host[f].pid \in alive
  /\ \E i \in DOMAIN log : log[i].pid = host[f].pid

(* The agent has ended, or its session is over for good.                   *)
Over(p) ==
  \A f \in Config : host[f].pid = p => host[f].session \in Ended \/ p \notin alive

(* What holds of a call whose record would still be the next one in order. *)
NextInLine(k) ==
  /\ k.print = k.cfg
  /\ k.pc \in {"send", "observe", "reread", "halt"} => log # <<>> /\ k.cfg = Last(log).print
  /\ k.pc \in {"ensure", "launch"} => Fresh
  /\ k.pc \in {"reread", "record"} /\ Answered /\ k.got.pid # 0 =>
       \A f \in Config : Known(f) => k.got.pid = host[f].pid

CallShown(k) ==
  /\ k.read <= Len(log)
  /\ k.got.st \in Ended => Over(k.got.pid)
  /\ Serial /\ k.read = Len(log) /\ k.pc \in WorkPc => NextInLine(k)

RecordsShown ==
  /\ \A i \in DOMAIN log : log[i].st \in Ended => Over(log[i].pid)
  /\ Serial => \A i \in DOMAIN log : log[i].name = NameOf[log[i].print]
  /\ Serial /\ Answered =>
       \A f \in Config : Known(f) => Last(log).print = f /\ Last(log).pid = host[f].pid

ShownInv == (\A c \in Caller : CallShown(call[c])) /\ RecordsShown

LEMMA NextAgents ==
  ASSUME RuntimeInv, [Next]_vars
  PROVE  AgentsStep
<1>1. TypeOK /\ AgentsOK
  BY Parts
<1>2. ASSUME NEW c \in Caller, \/ Begin(c) \/ Latest(c) \/ Reread(c) \/ AppendRecord(c)
                               \/ Request(c) \/ Complete(c) \/ SwitchRaises(c)
                               \/ RecordFailure(c) \/ Fails(c) \/ Crash(c)
      PROVE  AgentsStep
  BY <1>1, <1>2, AgentsStand DEF Begin, Latest, Reread, AppendRecord, Request, Complete,
     SwitchRaises, RecordFailure, Fails, Crash
<1>3. ASSUME NEW c \in Caller, \/ Ensure(c) \/ Launch(c) \/ Send(c) \/ Observe(c) \/ Halt(c)
      PROVE  AgentsStep
  <2>. DEFINE f == call[c].cfg
  <2>1. f \in Config
    <3>1. call[c].pc \in WorkPc
      BY <1>3 DEF Ensure, Launch, Send, Observe, Halt, At, WorkPc
    <3>. QED BY <3>1, Parts DEF CallOK
  <2>2. CASE Ensure(c)
    BY <1>1, <2>1, <2>2, HostComesUp DEF Ensure
  <2>3. CASE Launch(c)
    BY <1>1, <2>1, <2>3, StartWorkerStep DEF Launch
  <2>4. CASE Send(c)
    <3>1. "running" \in WorkerState \ {"exited"} /\ "awaiting_input" \notin Ended
      BY DEF WorkerState, Ended
    <3>2. /\ host[f].session = "awaiting_input" /\ host' = [host EXCEPT ![f].session = "running"]
          /\ UNCHANGED <<alive, pids>>
      BY <2>4 DEF Send
    <3>. HIDE DEF f
    <3>. QED BY <1>1, <2>1, <3>1, <3>2, SessionTurns
  <2>5. CASE Observe(c)
    <3>1. UNCHANGED <<alive, pids>> /\ (host' = SessionSeen(f) \/ UNCHANGED host)
      BY <2>5 DEF Observe
    <3>. QED BY <1>1, <2>1, <3>1, SessionSeenStep, AgentsStand
  <2>6. CASE Halt(c)
    <3>1. UNCHANGED pids /\ (StopWorker(f) \/ UNCHANGED <<host, alive>>)
      BY <2>6 DEF Halt
    <3>. QED BY <1>1, <2>1, <3>1, StopWorkerStep, AgentsStand
  <2>. QED BY <1>3, <2>2, <2>3, <2>4, <2>5, <2>6
<1>4. ASSUME NEW c \in Caller, Summarise(c) PROVE AgentsStep
  <2>1. call[c].cfg \in Config
    BY <1>4, Parts DEF CallOK, Summarise, At
  <2>2. UNCHANGED <<alive, pids>> /\ (host' = SessionSeen(call[c].cfg) \/ UNCHANGED host)
    BY <1>4 DEF Summarise
  <2>. QED BY <1>1, <2>1, <2>2, SessionSeenStep, AgentsStand
<1>5. ASSUME NEW c \in Caller, StopSource(c) \/ AttachDestination(c) \/ StartDestination(c)
      PROVE  AgentsStep
  <2>1. call[c].pc \in SwitchPc
    BY <1>5 DEF StopSource, AttachDestination, StartDestination, At, SwitchPc, Stage
  <2>2. call[c].cfg \in Config /\ call[c].dst \in Config
    BY <2>1, InSwitch
  <2>3. CASE StopSource(c)
    <3>1. UNCHANGED pids /\ (StopWorker(call[c].cfg) \/ UNCHANGED <<host, alive>>)
      BY <2>3 DEF StopSource
    <3>. QED BY <1>1, <2>2, <3>1, StopWorkerStep, AgentsStand
  <2>4. CASE AttachDestination(c)
    BY <1>1, <2>2, <2>4, HostComesUp DEF AttachDestination
  <2>5. CASE StartDestination(c)
    BY <1>1, <2>2, <2>5, StartWorkerStep DEF StartDestination
  <2>. QED BY <1>5, <2>3, <2>4, <2>5
<1>6. ASSUME NEW f \in Config, TurnEnds(f) PROVE AgentsStep
  <2>1. PICK st \in {"awaiting_input", "failed"} : host' = [host EXCEPT ![f].session = st]
    BY <1>6 DEF TurnEnds
  <2>2. st \in WorkerState \ {"exited"} /\ host[f].session \notin Ended
    BY <1>6 DEF TurnEnds, WorkerState, Ended
  <2>. QED BY <1>1, <1>6, <2>1, <2>2, SessionTurns DEF TurnEnds
<1>7. ASSUME NEW f \in Config, HostGoes(f) PROVE AgentsStep
  BY <1>1, <1>7, HostGoesStep
<1>8. ASSUME NEW p \in Pid, AgentEnds(p) PROVE AgentsStep
  BY <1>1, <1>8, AgentEndsStep DEF AgentEnds
<1>9. ASSUME UNCHANGED vars PROVE AgentsStep
  BY <1>1, <1>9, AgentsStand DEF vars
<1>. QED BY <1>2, <1>3, <1>4, <1>5, <1>6, <1>7, <1>8, <1>9 DEF Next

-----------------------------------------------------------------------------
LEMMA OverKept ==
  ASSUME TypeOK, AgentsStep, NEW p \in Nat, p <= pids, Over(p)
  PROVE  Over(p)'
<1>1. pids \in Nat
  BY RuntimeAssumption DEF TypeOK
<1>2. ASSUME NEW f \in Config, host'[f].pid = p
      PROVE  host'[f].session \in Ended \/ p \notin alive'
  <2>1. CASE p = 0
    BY <2>1 DEF AgentsStep, AgentsOK
  <2>2. CASE p # 0
    <3>1. host[f].pid = p
      BY <1>1, <1>2, <2>2, HostAt DEF AgentsStep, AgentsMove
    <3>. QED BY <1>2, <2>2, <3>1 DEF Over, AgentsStep, AgentsMove
  <2>. QED BY <2>1, <2>2
<1>. QED BY <1>2 DEF Over

(* No step of the agents makes a worker known.                             *)
LEMMA KnownBefore ==
  ASSUME RuntimeInv, AgentsStep, log' = log, NEW f \in Config, Known(f)'
  PROVE  Known(f) /\ host'[f].pid = host[f].pid
<1>1. TypeOK /\ AgentsOK /\ LogOK /\ pids \in Nat
  BY Parts
<1>2. PICK i \in DOMAIN log : log[i].pid = host'[f].pid
  BY DEF Known
<1>3. log[i].pid \in Nat /\ log[i].pid <= pids
  <2>1. log[i] \in Record
    BY <1>1, <1>2 DEF TypeOK
  <2>. QED BY <1>1, <1>2, <2>1, RuntimeAssumption DEF LogOK, Record, Pid
<1>4. host'[f].pid # 0 /\ host'[f].pid \in alive'
  BY DEF Known, AgentsStep, AgentsOK
<1>5. host'[f].pid = host[f].pid
  BY <1>1, <1>2, <1>3, <1>4, HostAt DEF AgentsStep, AgentsMove
<1>6. host[f].pid \in alive
  BY <1>1, <1>2, <1>3, <1>4, <1>5, HostAt DEF AgentsStep, AgentsMove
<1>7. host[f].session \notin Ended
  BY <1>4, <1>5 DEF Known, AgentsStep, AgentsMove
<1>. QED BY <1>2, <1>5, <1>6, <1>7 DEF Known

LEMMA ShownParts ==
  ASSUME RuntimeInv
  PROVE  /\ TypeOK /\ pids \in Nat /\ Len(log) \in Nat /\ DOMAIN log = 1..Len(log)
         /\ \A c \in Caller : /\ call[c] \in Call /\ call[c].got.pid \in Nat
                              /\ call[c].got.pid <= pids /\ call[c].read \in Nat
         /\ \A i \in DOMAIN log : log[i] \in Record /\ log[i].pid \in Nat /\ log[i].pid <= pids
<1>1. TypeOK /\ LogOK /\ pids \in Nat /\ log \in Seq(Record)
  BY Parts DEF TypeOK
<1>2. \A c \in Caller : /\ call[c] \in Call /\ call[c].got.pid \in Nat
                        /\ call[c].got.pid <= pids /\ call[c].read \in Nat
  BY Parts, CallFields DEF CallOK
<1>3. \A i \in DOMAIN log : log[i] \in Record
  BY <1>1
<1>4. \A i \in DOMAIN log : log[i].pid \in Nat /\ log[i].pid <= pids
  BY <1>1, <1>3, RuntimeAssumption DEF LogOK, Record, Pid
<1>. QED BY <1>1, <1>2, <1>3, <1>4

(* While nothing is recorded, the records keep what they show.             *)
LEMMA RecordsKept ==
  ASSUME RuntimeInv, ShownInv, AgentsStep, log' = log
  PROVE  RecordsShown'
<1>1. \A p \in Nat : p <= pids /\ Over(p) => Over(p)'
  BY Parts, OverKept
<1>2. \A i \in DOMAIN log : log[i].st \in Ended => \A p : p = log[i].pid => Over(p)'
  BY <1>1, ShownParts DEF ShownInv, RecordsShown
<1>3. \A i \in DOMAIN log' : log'[i].st \in Ended => Over(log[i].pid)'
  BY <1>2 DEF Over
<1>4. ASSUME Serial', Answered', NEW f \in Config, Known(f)'
      PROVE  Last(log).print = f /\ Last(log).pid = host'[f].pid
  <2>1. Serial /\ Answered
    BY <1>4 DEF Serial, Answered
  <2>. QED BY <1>4, <2>1, KnownBefore DEF ShownInv, RecordsShown
<1>5. Serial' => \A i \in DOMAIN log : log[i].name = NameOf[log[i].print]
  BY DEF Serial, ShownInv, RecordsShown
<1>. QED BY <1>3, <1>4, <1>5 DEF RecordsShown

(* A call that neither waits to record nor is about to.                    *)
LEMMA CallShownKept ==
  ASSUME RuntimeInv, ShownInv, AgentsStep, log' = log, NEW c \in Caller,
         NEW k \in Call, k = call[c]
  PROVE  CallShown(k)'
<1>1. CallShown(k)
  BY DEF ShownInv
<1>2. k.got.st \in Ended => Over(k.got.pid)'
  BY <1>1, Parts, ShownParts, OverKept DEF CallShown
<1>3. ASSUME Serial', k.read = Len(log), k.pc \in WorkPc PROVE NextInLine(k)'
  <2>1. NextInLine(k)
    BY <1>1, <1>3 DEF CallShown, Serial
  <2>2. ASSUME Answered', k.got.pid # 0, k.pc \in {"reread", "record"}, NEW f \in Config, Known(f)'
        PROVE  k.got.pid = host'[f].pid
    BY <2>1, <2>2, KnownBefore DEF NextInLine, Answered
  <2>. QED BY <2>1, <2>2 DEF NextInLine, Fresh
<1>. QED BY <1>1, <1>2, <1>3 DEF CallShown

LEMMA ShownQuiet ==
  ASSUME RuntimeInv, RuntimeInv', ShownInv, AgentsStep, log' = log,
         \A d \in Caller : \/ call'[d] = call[d]
                           \/ /\ call'[d].pc \notin WorkPc
                              /\ call'[d].got.st \in Ended => call'[d].got = call[d].got
                              /\ call'[d].read \in {0, call[d].read}
  PROVE  ShownInv'
<1>1. \A d \in Caller : call[d] \in Call /\ call'[d] \in Call
  BY DEF RuntimeInv, TypeOK
<1>2. ASSUME NEW d \in Caller, NEW k \in Call, k = call'[d] PROVE CallShown(k)'
  <2>1. CASE call'[d] = call[d]
    BY <1>2, <2>1, CallShownKept
  <2>2. CASE /\ call'[d].pc \notin WorkPc
             /\ call'[d].got.st \in Ended => call'[d].got = call[d].got
             /\ call'[d].read \in {0, call[d].read}
    <3>1. k.got.st \in Ended => \A p : p = k.got.pid => Over(p)'
      <4>1. CallShown(call[d])
        BY DEF ShownInv
      <4>2. \A p \in Nat : p <= pids /\ Over(p) => Over(p)'
        BY Parts, OverKept
      <4>. QED BY <1>2, <2>2, <4>1, <4>2, ShownParts DEF CallShown
    <3>2. k.read <= Len(log')
      BY <1>2, <2>2, ShownParts DEF ShownInv, CallShown
    <3>. QED BY <1>2, <2>2, <3>1, <3>2 DEF CallShown
  <2>. QED BY <1>2, <2>1, <2>2
<1>3. \A d \in Caller : CallShown(call[d])'
  BY <1>1, <1>2
<1>. QED BY <1>3, RecordsKept DEF ShownInv

(* One call goes on, and what it goes on with is in order.                 *)
LEMMA ShownStep ==
  ASSUME RuntimeInv, RuntimeInv', ShownInv, AgentsStep, log' = log, NEW c \in Caller,
         NEW k \in Call, call' = [call EXCEPT ![c] = k], CallShown(k)'
  PROVE  ShownInv'
<1>1. /\ call'[c] = k /\ \A d \in Caller : d # c => call'[d] = call[d]
      /\ \A d \in Caller : call[d] \in Call /\ call'[d] \in Call
  BY DEF RuntimeInv, TypeOK
<1>2. ASSUME NEW d \in Caller, NEW l \in Call, l = call'[d] PROVE CallShown(l)'
  <2>1. CASE d = c
    BY <1>1, <1>2, <2>1
  <2>2. CASE d # c
    BY <1>1, <1>2, <2>2, CallShownKept
  <2>. QED BY <2>1, <2>2
<1>3. \A d \in Caller : CallShown(call[d])'
  BY <1>1, <1>2
<1>. QED BY <1>3, RecordsKept DEF ShownInv

(* Only the record of a call that stands in line keeps the order.          *)
LEMMA SerialGrows ==
  ASSUME RuntimeInv, NEW r \in Record, log' = Append(log, r)
  PROVE  /\ DOMAIN log' = 1..(Len(log) + 1) /\ Len(log') = Len(log) + 1
         /\ \A i \in DOMAIN log : log'[i] = log[i] /\ i \in DOMAIN log'
         /\ log'[Len(log) + 1] = r /\ Last(log') = r
         /\ Serial' => Serial /\ r.read = Len(log)
         /\ Answered' => Answered /\ r.pid # 0
         /\ \A i \in DOMAIN log' : i \in DOMAIN log \/ i = Len(log) + 1
<1>1. log \in Seq(Record) /\ Len(log) \in Nat /\ DOMAIN log = 1..Len(log)
  BY ShownParts DEF TypeOK
<1>2. /\ DOMAIN log' = 1..(Len(log) + 1) /\ Len(log') = Len(log) + 1
      /\ \A i \in 1..Len(log) : log'[i] = log[i]
      /\ log'[Len(log) + 1] = r
  BY <1>1
<1>3. Last(log') = r
  BY <1>2 DEF Last
<1>4. \A i \in DOMAIN log' : i \in DOMAIN log \/ i = Len(log) + 1
  BY <1>1, <1>2
<1>5. \A i \in DOMAIN log : log'[i] = log[i] /\ i \in DOMAIN log'
  BY <1>1, <1>2
<1>6. Len(log) + 1 \in DOMAIN log' /\ (Len(log) + 1) - 1 = Len(log)
  BY <1>1, <1>2
<1>7. Serial' => Serial /\ r.read = Len(log)
  BY <1>2, <1>5, <1>6 DEF Serial
<1>8. Answered' => Answered /\ r.pid # 0
  BY <1>2, <1>5, <1>6 DEF Answered
<1>. QED BY <1>2, <1>3, <1>4, <1>5, <1>7, <1>8

LEMMA AppendShown ==
  ASSUME RuntimeInv, RuntimeInv', ShownInv, NEW c \in Caller, AppendRecord(c)
  PROVE  ShownInv'
<1>. DEFINE k == call[c]
            r == RecordOf(c)
<1>1. /\ k.pc = "record" /\ k.pc \in WorkPc /\ UNCHANGED <<host, alive, switches, pids, left>>
      /\ CallShown(k) /\ CallOK(k) /\ k \in Call /\ k.got.pid \in Nat /\ k.cfg \in Config
  BY Parts, ShownParts DEF AppendRecord, At, WorkPc, ShownInv, CallOK
<1>2. /\ r.name = NameOf[k.cfg] /\ r.print = k.print /\ r.st = k.got.st /\ r.pid = k.got.pid
      /\ r.read = k.read
  BY DEF RecordOf
<1>3. log' = Append(log, r) /\ log' \in Seq(Record) /\ Return(c)
  BY DEF AppendRecord, RuntimeInv, TypeOK
<1>4. r \in Record
  <2>1. log \in Seq(Record) /\ Len(log) \in Nat
    BY ShownParts DEF TypeOK
  <2>2. k.print \in Config /\ NameOf[k.cfg] \in Name /\ k.got \in Summary /\ k.read \in Nat
    BY <1>1, CallFields DEF CallOK, Name
  <2>. QED BY <2>2 DEF RecordOf, Record, Summary
<1>. HIDE DEF r
<1>5. /\ DOMAIN log' = 1..(Len(log) + 1) /\ Len(log') = Len(log) + 1
      /\ \A i \in DOMAIN log : log'[i] = log[i] /\ i \in DOMAIN log'
      /\ log'[Len(log) + 1] = r /\ Last(log') = r
      /\ Serial' => Serial /\ r.read = Len(log)
      /\ Answered' => Answered /\ r.pid # 0
      /\ \A i \in DOMAIN log' : i \in DOMAIN log \/ i = Len(log) + 1
  BY <1>3, <1>4, SerialGrows
<1>6. Serial' => Serial /\ NextInLine(k)
  BY <1>1, <1>2, <1>5 DEF CallShown
<1>7. \A p : Over(p)' <=> Over(p)
  BY <1>1 DEF Over
<1>8. \A i \in DOMAIN log' : log'[i].st \in Ended => \A p : p = log'[i].pid => Over(p)
  BY <1>1, <1>2, <1>5 DEF ShownInv, RecordsShown, CallShown
<1>9. \A i \in DOMAIN log' : log'[i].st \in Ended => Over(log[i].pid)'
  BY <1>1, <1>8 DEF Over
<1>10. Serial' => \A i \in DOMAIN log' : log'[i].name = NameOf[log'[i].print]
  BY <1>2, <1>5, <1>6 DEF ShownInv, RecordsShown, NextInLine
<1>11. ASSUME Serial', Answered', NEW f \in Config, Known(f)'
       PROVE  Last(log').print = f /\ Last(log').pid = host'[f].pid
  <2>1. k.got.pid = host[f].pid
    <3>1. CASE Known(f)
      BY <1>1, <1>2, <1>5, <1>6, <1>11, <3>1 DEF NextInLine
    <3>2. CASE ~ Known(f)
      <4>1. PICK i \in DOMAIN log' : log'[i].pid = host[f].pid
        BY <1>1, <1>11 DEF Known
      <4>2. i = Len(log) + 1
        BY <1>1, <1>5, <1>11, <3>2, <4>1 DEF Known
      <4>. QED BY <1>2, <1>5, <4>1, <4>2
    <3>. QED BY <3>1, <3>2
  <2>2. f = k.cfg
    BY <1>1, <1>2, <1>5, <1>11, <2>1 DEF CallOK, AtHome
  <2>. QED BY <1>1, <1>2, <1>5, <1>6, <1>11, <2>1, <2>2 DEF NextInLine
<1>12. RecordsShown'
  BY <1>9, <1>10, <1>11 DEF RecordsShown
<1>13. Idle.got.st \notin Ended /\ Idle.read = 0 /\ Idle.pc \notin WorkPc
  BY DEF Idle, Empty, Ended, WorkPc
<1>14. /\ call'[c] = Idle /\ \A d \in Caller : d # c => call'[d] = call[d]
  BY <1>3 DEF Return, RuntimeInv, TypeOK
<1>15. \A d \in Caller : \A l : l = call'[d] => CallShown(l)'
  <2>1. ASSUME NEW d \in Caller, NEW l, l = call'[d], d = c PROVE CallShown(l)'
    BY <1>5, <1>13, <1>14, <2>1, ShownParts DEF CallShown
  <2>2. ASSUME NEW d \in Caller, NEW l, l = call'[d], d # c PROVE CallShown(l)'
    <3>1. l = call[d] /\ CallShown(l) /\ l.read \in Nat
      BY <1>14, <2>2, ShownParts DEF ShownInv
    <3>2. l.read <= Len(log') /\ l.read # Len(log')
      BY <1>5, <3>1, ShownParts DEF CallShown
    <3>. QED BY <1>7, <3>1, <3>2 DEF CallShown
  <2>. QED BY <2>1, <2>2
<1>16. \A d \in Caller : CallShown(call[d])'
  BY <1>15 DEF CallShown
<1>. QED BY <1>12, <1>16 DEF ShownInv

LEMMA LatestShown ==
  ASSUME RuntimeInv, RuntimeInv', ShownInv, NEW c \in Caller, Latest(c),
         Route(call[c].op, call[c].reg, call[c].cfg) # "idle"
  PROVE  ShownInv'
<1>1. TypeOK /\ AgentsOK /\ call[c] \in Call /\ CallOK(call[c]) /\ call[c].pc = "latest"
  BY Parts DEF Latest, At
<1>2. AgentsStep
  BY <1>1, AgentsStand DEF Latest
<1>. DEFINE op == call[c].op
            reg == call[c].reg
            f == call[c].cfg
            pc == Route(op, reg, f)
<1>3. op \in {"start", "input", "status", "stop"} /\ reg \in Registries /\ reg \subseteq Config
  BY <1>1, RuntimeAssumption DEF CallOK
<1>4. /\ pc \in {"ensure", "observe", "send", "halt"} /\ (op # "start" => Started(reg))
      /\ pc = "ensure" => op = "start" /\ Fresh
      /\ op = "start" => pc \in {"ensure", "observe"}
      /\ pc = "observe" => ~ Fresh
  <2>1. pc # "idle"
    OBVIOUS
  <2>. HIDE DEF op, reg, f
  <2>. QED BY <1>3, <2>1, RouteIs
<1>5. op = "start" /\ pc = "observe" => Last(log).print = f
  BY <1>3 DEF Route
<1>6. PICK g \in reg :
        /\ op = "start" => g = f
        /\ op # "start" => NameOf[g] = Last(log).name
        /\ call' = [call EXCEPT ![c] =
             [call[c] EXCEPT !.pc = pc, !.read = Len(log), !.cfg = g,
                             !.print = IF op = "start" THEN g ELSE Last(log).print]]
  BY DEF Latest
<1>. DEFINE print == IF op = "start" THEN g ELSE Last(log).print
            new == [call[c] EXCEPT !.pc = pc, !.read = Len(log), !.cfg = g, !.print = print]
<1>7. print \in Config /\ Len(log) \in Nat /\ pc \in Pc /\ g \in Config
  BY <1>1, <1>3, <1>4, ShownParts DEF Started, Pc
<1>8. /\ new \in Call /\ new.pc = pc /\ new.cfg = g /\ new.print = print
      /\ new.got = call[c].got /\ new.read = Len(log)
  <2>. HIDE DEF pc, print
  <2>. QED BY <1>1, <1>7 DEF Call
<1>9. call' = [call EXCEPT ![c] = new]
  BY <1>6
<1>. HIDE DEF new, pc
<1>10. PICK k \in Call : k = new
  BY <1>8
<1>11. Serial => print = g
  <2>1. ASSUME Serial, op # "start" PROVE Last(log).print = g
    <3>1. log # <<>> /\ Last(log).print \in reg
      BY <1>4, <2>1 DEF Started
    <3>2. Last(log).name = NameOf[Last(log).print]
      BY <1>1, <2>1, <3>1, LastRecord DEF ShownInv, RecordsShown
    <3>. QED BY <1>3, <1>6, <2>1, <3>1, <3>2, RuntimeAssumption
  <2>. QED BY <2>1
<1>12. ~ Fresh => log # <<>>
  BY DEF Fresh
<1>13. Serial /\ pc # "ensure" => log # <<>> /\ g = Last(log).print
  BY <1>4, <1>5, <1>6, <1>11, <1>12 DEF Started
<1>14. Serial => NextInLine(k)'
  BY <1>4, <1>8, <1>10, <1>11, <1>13 DEF NextInLine, Fresh, Latest
<1>15. k.got.st \in Ended => Over(k.got.pid)'
  <2>1. k.got.pid = 0
    BY <1>1, <1>8, <1>10 DEF CallOK
  <2>. QED BY <1>2, <2>1 DEF Over, AgentsStep, AgentsOK
<1>16. CallShown(k)'
  <2>1. log' = log
    BY DEF Latest
  <2>. QED BY <1>7, <1>8, <1>10, <1>14, <1>15, <2>1 DEF CallShown, Serial
<1>. QED BY <1>2, <1>9, <1>10, <1>16, ShownStep DEF Latest

(* What stays in line when a call goes on to be recorded: its provider is  *)
(* that of the last record, or no recorded worker is left at all.          *)
LEMMA StaysInLine ==
  ASSUME RuntimeInv, RuntimeInv', ShownInv, AgentsStep, log' = log, NEW c \in Caller,
         call[c].pc \in WorkPc, NEW k \in Call, call' = [call EXCEPT ![c] = k],
         k.read = call[c].read, k.got.st \in Ended => Over(k.got.pid)',
         Serial /\ NextInLine(call[c]) /\ k.read = Len(log) /\ k.pc \in WorkPc
           => NextInLine(k)'
  PROVE  ShownInv'
<1>1. CallShown(call[c])
  BY DEF ShownInv
<1>2. Serial' <=> Serial
  BY DEF Serial
<1>3. CallShown(k)'
  BY <1>1, <1>2 DEF CallShown
<1>. QED BY <1>3, ShownStep

LEMMA EnsureShown ==
  ASSUME RuntimeInv, RuntimeInv', ShownInv, AgentsStep, NEW c \in Caller, Ensure(c)
  PROVE  ShownInv'
<1>1. TypeOK /\ call[c] \in Call /\ call[c].pc = "ensure" /\ log' = log
  BY Parts DEF Ensure, At
<1>2. [call[c] EXCEPT !.pc = "launch"] \in Call
  BY <1>1 DEF Call, Pc
<1>3. PICK k \in Call : k = [call[c] EXCEPT !.pc = "launch"]
  BY <1>2
<1>4. /\ k.pc = "launch" /\ k.read = call[c].read /\ k.print = call[c].print
      /\ k.cfg = call[c].cfg /\ k.got = call[c].got
  BY <1>1, <1>3 DEF Call
<1>5. call' = [call EXCEPT ![c] = k]
  BY <1>3 DEF Ensure, Goto
<1>6. NextInLine(call[c]) => NextInLine(k)'
  BY <1>1, <1>4 DEF NextInLine, Fresh
<1>7. k.got.st \in Ended => Over(k.got.pid)'
  <2>1. \A p \in Nat : p <= pids /\ Over(p) => Over(p)'
    BY <1>1, OverKept
  <2>. QED BY <1>4, <2>1, ShownParts DEF ShownInv, CallShown
<1>8. call[c].pc \in WorkPc
  BY <1>1 DEF WorkPc
<1>. QED BY <1>1, <1>4, <1>5, <1>6, <1>7, <1>8, StaysInLine

LEMMA RereadShown ==
  ASSUME RuntimeInv, RuntimeInv', ShownInv, AgentsStep, NEW c \in Caller, Reread(c),
         Started(call[c].reg)
  PROVE  ShownInv'
<1>1. /\ TypeOK /\ call[c] \in Call /\ call[c].pc = "reread"
      /\ UNCHANGED <<log, host, alive, switches, pids, left>>
  BY Parts DEF Reread, At
<1>2. [call[c] EXCEPT !.pc = "record", !.print = Last(log).print] \in Call
  <2>1. Last(log).print \in Config
    BY <1>1, LastRecord DEF Started, Record
  <2>. QED BY <1>1, <2>1 DEF Call, Pc
<1>3. PICK k \in Call : k = [call[c] EXCEPT !.pc = "record", !.print = Last(log).print]
  BY <1>2
<1>4. /\ k.pc = "record" /\ k.read = call[c].read /\ k.print = Last(log).print
      /\ k.cfg = call[c].cfg /\ k.got = call[c].got
  BY <1>1, <1>3 DEF Call
<1>5. call' = [call EXCEPT ![c] = k]
  BY <1>3 DEF Reread
<1>6. NextInLine(call[c]) => NextInLine(k)'
  BY <1>1, <1>4 DEF NextInLine, Known, Answered
<1>7. k.got.st \in Ended => Over(k.got.pid)'
  BY <1>1, <1>4 DEF ShownInv, CallShown, Over
<1>8. call[c].pc \in WorkPc
  BY <1>1 DEF WorkPc
<1>. QED BY <1>1, <1>4, <1>5, <1>6, <1>7, <1>8, StaysInLine

(* A call that takes the answer of its provider's host.                    *)
LEMMA AnswerShown ==
  ASSUME RuntimeInv, RuntimeInv', ShownInv, AgentsStep, log' = log, NEW c \in Caller,
         call[c].pc \in WorkPc, NEW pc \in {"reread", "record"}, NEW got \in Summary,
         Answer(c, pc, got), got.st \in Ended => Over(got.pid)',
         pc = "reread" => call[c].pc = "observe",
         Serial /\ Answered /\ got.pid # 0 /\ NextInLine(call[c]) =>
           \A f \in Config : Known(f)' => got.pid = host'[f].pid
  PROVE  ShownInv'
<1>1. TypeOK /\ call \in [Caller -> Call] /\ call[c] \in Call
  BY Parts DEF TypeOK
<1>2. CASE Return(c)
  <2>1. Idle.got.st \notin Ended /\ Idle.read = 0 /\ Idle.pc \notin WorkPc
    BY DEF Idle, Empty, Ended, WorkPc
  <2>2. call'[c] = Idle /\ \A d \in Caller : d # c => call'[d] = call[d]
    BY <1>1, <1>2 DEF Return
  <2>. QED BY <2>1, <2>2, ShownQuiet
<1>3. CASE call' = [call EXCEPT ![c] = [call[c] EXCEPT !.pc = pc, !.got = got]]
  <2>1. [call[c] EXCEPT !.pc = pc, !.got = got] \in Call
    BY <1>1 DEF Call, Pc
  <2>2. PICK k \in Call : k = [call[c] EXCEPT !.pc = pc, !.got = got]
    BY <2>1
  <2>3. /\ k.pc = pc /\ k.read = call[c].read /\ k.print = call[c].print
        /\ k.cfg = call[c].cfg /\ k.got = got
    BY <1>1, <2>2 DEF Call
  <2>4. k.got.st \in Ended => Over(k.got.pid)'
    BY <2>3 DEF Over
  <2>5. ASSUME Serial, NextInLine(call[c]) PROVE NextInLine(k)'
    <3>1. Answered' <=> Answered
      BY DEF Answered
    <3>. QED BY <2>3, <2>5, <3>1 DEF NextInLine
  <2>6. call' = [call EXCEPT ![c] = k]
    BY <1>3, <2>2
  <2>. QED BY <2>3, <2>4, <2>5, <2>6, StaysInLine
<1>. QED BY <1>2, <1>3 DEF Answer

(* The host that is asked says of its own process what holds of it.        *)
LEMMA ToldIsOver ==
  ASSUME RuntimeInv', NEW f \in Config, NEW got,
         got.pid \in {0, host'[f].pid}, host'[f].session \in Ended \/ got.pid \notin alive'
  PROVE  Over(got.pid)'
<1>1. ASSUME NEW g \in Config, host'[g].pid = got.pid
      PROVE  host'[g].session \in Ended \/ got.pid \notin alive'
  <2>1. CASE got.pid = 0
    BY <2>1 DEF RuntimeInv, AgentsOK
  <2>2. CASE got.pid # 0
    BY <1>1, <2>2 DEF RuntimeInv, AgentsOK
  <2>. QED BY <2>1, <2>2
<1>. QED BY <1>1 DEF Over

LEMMA ObservedIsOver ==
  ASSUME RuntimeInv, RuntimeInv', NEW f \in Config, UNCHANGED alive, host' = SessionSeen(f),
         NEW got, got = Observed(f), got.st \in Ended
  PROVE  Over(got.pid)'
<1>1. TypeOK /\ AgentsOK
  BY Parts
<1>2. host[f].session # "none" /\ got.pid = host[f].pid
  BY DEF Observed, Empty, Ended
<1>. DEFINE k == [host[f] EXCEPT !.session = Observed(f).st]
<1>3. k.pid = host[f].pid /\ k.session = Observed(f).st
  BY <1>1, HostAt DEF Host
<1>4. host' = [host EXCEPT ![f] = k]
  BY <1>2 DEF SessionSeen
<1>. HIDE DEF k
<1>5. host'[f].pid = got.pid /\ host'[f].session \in Ended
  BY <1>1, <1>2, <1>3, <1>4 DEF TypeOK
<1>. QED BY <1>5, ToldIsOver

(* In line behind a record that has not ended, the known worker is at the  *)
(* provider a call goes to.                                                *)
LEMMA KnownIsLast ==
  ASSUME RuntimeInv, ShownInv, AgentsStep, log' = log, Serial, Answered,
         NEW f \in Config, Known(f)'
  PROVE  /\ Known(f) /\ host'[f].pid = host[f].pid /\ host'[f].pid # 0
         /\ Last(log).print = f /\ ~ Fresh
<1>1. Known(f) /\ host'[f].pid = host[f].pid
  BY KnownBefore
<1>2. host'[f].pid # 0
  BY DEF Known, AgentsStep, AgentsOK
<1>3. Last(log).print = f /\ Last(log).pid = host[f].pid
  BY <1>1 DEF ShownInv, RecordsShown
<1>4. log # <<>>
  BY <1>1 DEF Known
<1>5. Last(log).st \notin Ended
  <2>1. Len(log) \in DOMAIN log /\ Last(log) = log[Len(log)]
    BY <1>4, Parts, LastRecord
  <2>2. ASSUME Last(log).st \in Ended PROVE FALSE
    <3>1. Over(Last(log).pid)
      BY <2>1, <2>2 DEF ShownInv, RecordsShown
    <3>. QED BY <1>1, <1>3, <3>1 DEF Over, Known
  <2>. QED BY <2>2
<1>. QED BY <1>1, <1>2, <1>3, <1>4, <1>5 DEF Fresh

LEMMA LaunchShown ==
  ASSUME RuntimeInv, RuntimeInv', ShownInv, AgentsStep, NEW c \in Caller, Launch(c)
  PROVE  ShownInv'
<1>. DEFINE f == call[c].cfg
<1>1. /\ TypeOK /\ AgentsOK /\ call[c].pc = "launch" /\ call[c].pc \in WorkPc /\ f \in Config
      /\ log' = log
  BY Parts DEF Launch, At, WorkPc, CallOK
<1>2. [st |-> host'[f].session, pid |-> host'[f].pid] \in Summary
  BY <1>1, StartWorkerStep DEF Launch, Summary
<1>3. PICK got \in Summary : got = [st |-> host'[f].session, pid |-> host'[f].pid]
  BY <1>2
<1>4. Answer(c, "record", got)
  BY <1>3 DEF Launch
<1>5. got.pid = host'[f].pid /\ got.st = host'[f].session
  BY <1>3
<1>6. got.st \in Ended => Over(got.pid)'
  <2>. HIDE DEF f
  <2>. QED BY <1>1, <1>5, ToldIsOver
<1>7. NextInLine(call[c]) => Fresh
  BY <1>1 DEF NextInLine
<1>. QED BY <1>1, <1>4, <1>6, <1>7, KnownIsLast, AnswerShown

LEMMA SendShown ==
  ASSUME RuntimeInv, RuntimeInv', ShownInv, AgentsStep, NEW c \in Caller, Send(c)
  PROVE  ShownInv'
<1>. DEFINE f == call[c].cfg
<1>1. /\ TypeOK /\ call[c].pc = "send" /\ call[c].pc \in WorkPc /\ f \in Config
      /\ log' = log
  BY Parts DEF Send, At, WorkPc, CallOK
<1>2. [st |-> "running", pid |-> host[f].pid] \in Summary
  BY <1>1, HostAt DEF Summary, WorkerState
<1>3. PICK got \in Summary : got = [st |-> "running", pid |-> host[f].pid]
  BY <1>2
<1>4. Answer(c, "record", got)
  BY <1>3 DEF Send
<1>5. got.pid = host[f].pid /\ got.st \notin Ended
  BY <1>3 DEF Ended
<1>6. NextInLine(call[c]) => f = Last(log).print
  BY <1>1 DEF NextInLine
<1>. QED BY <1>1, <1>4, <1>5, <1>6, KnownIsLast, AnswerShown

LEMMA ObserveShown ==
  ASSUME RuntimeInv, RuntimeInv', ShownInv, AgentsStep, NEW c \in Caller, Observe(c),
         ~ Return(c)
  PROVE  ShownInv'
<1>. DEFINE f == call[c].cfg
<1>1. /\ TypeOK /\ AgentsOK /\ call[c].pc = "observe" /\ call[c].pc \in WorkPc /\ f \in Config
      /\ log' = log /\ alive' = alive /\ host' = SessionSeen(f)
      /\ host[f].session # "none" /\ Answer(c, "reread", Observed(f))
  BY Parts DEF Observe, At, WorkPc, CallOK
<1>2. PICK got \in Summary : got = Observed(f)
  BY <1>1, ObservedIs
<1>3. got.pid = host[f].pid
  BY <1>1, <1>2 DEF Observed
<1>4. got.st \in Ended => Over(got.pid)'
  <2>. HIDE DEF f
  <2>. QED BY <1>1, <1>2, ObservedIsOver
<1>5. NextInLine(call[c]) => f = Last(log).print
  BY <1>1 DEF NextInLine
<1>6. Answer(c, "reread", got)
  BY <1>1, <1>2
<1>. QED BY <1>1, <1>3, <1>4, <1>5, <1>6, KnownIsLast, AnswerShown

LEMMA HaltShown ==
  ASSUME RuntimeInv, RuntimeInv', ShownInv, AgentsStep, NEW c \in Caller, Halt(c)
  PROVE  ShownInv'
<1>. DEFINE f == call[c].cfg
<1>1. /\ TypeOK /\ AgentsOK /\ call[c].pc = "halt" /\ call[c].pc \in WorkPc /\ f \in Config
      /\ log' = log /\ pids' = pids
  BY Parts DEF Halt, At, WorkPc, CallOK
<1>2. CASE StopWorker(f) /\ Answer(c, "record", [st |-> "exited", pid |-> host[f].pid])
  <2>1. host[f].pid \notin alive' /\ host'[f].pid = 0
    BY <1>1, <1>2, StopWorkerStep
  <2>2. [st |-> "exited", pid |-> host[f].pid] \in Summary
    BY <1>1, HostAt DEF Summary, WorkerState
  <2>3. PICK got \in Summary : got = [st |-> "exited", pid |-> host[f].pid]
    BY <2>2
  <2>4. Answer(c, "record", got) /\ got.pid \notin alive'
    BY <1>2, <2>1, <2>3
  <2>5. Over(got.pid)'
    BY <2>4 DEF Over
  <2>6. NextInLine(call[c]) => f = Last(log).print
    BY <1>1 DEF NextInLine
  <2>. QED BY <1>1, <2>1, <2>4, <2>5, <2>6, KnownIsLast, AnswerShown
<1>3. CASE UNCHANGED <<host, alive>> /\ Answer(c, "record", Empty("exited"))
  <2>1. Empty("exited") \in Summary /\ Empty("exited").pid = 0
    BY DEF Summary, WorkerState, Empty
  <2>2. PICK got \in Summary : got = Empty("exited")
    BY <2>1
  <2>3. Answer(c, "record", got) /\ got.pid = 0
    BY <1>3, <2>1, <2>2
  <2>4. got.pid \notin alive'
    BY <2>3 DEF AgentsStep, AgentsOK
  <2>5. Over(got.pid)'
    BY <2>4 DEF Over
  <2>. QED BY <1>1, <2>3, <2>5, AnswerShown
<1>. QED BY <1>2, <1>3 DEF Halt

LEMMA SummariseShown ==
  ASSUME RuntimeInv, RuntimeInv', ShownInv, AgentsStep, NEW c \in Caller, Summarise(c)
  PROVE  ShownInv'
<1>. DEFINE f == call[c].cfg
<1>1. /\ TypeOK /\ AgentsOK /\ call[c] \in Call /\ f \in Config /\ log' = log /\ alive' = alive
  BY Parts DEF Summarise, At, CallOK
<1>2. PICK got \in Summary :
        /\ call' = [call EXCEPT ![c] = [call[c] EXCEPT !.pc = "request", !.got = got]]
        /\ \/ got = Observed(f) /\ host' = SessionSeen(f)
           \/ got = Empty("unknown") /\ UNCHANGED host
  <2>1. Observed(f) \in Summary /\ Empty("unknown") \in Summary
    BY <1>1, ObservedIs DEF Empty, Summary, WorkerState
  <2>. QED BY <2>1 DEF Summarise
<1>3. got.st \in Ended => Over(got.pid)'
  <2>1. Empty("unknown").st \notin Ended
    BY DEF Empty, Ended
  <2>. HIDE DEF f
  <2>. QED BY <1>1, <1>2, <2>1, ObservedIsOver
<1>4. [call[c] EXCEPT !.pc = "request", !.got = got] \in Call
  BY <1>1 DEF Call, Pc
<1>5. PICK k \in Call : k = [call[c] EXCEPT !.pc = "request", !.got = got]
  BY <1>4
<1>6. k.pc = "request" /\ k.got = got /\ k.read = call[c].read
  BY <1>1, <1>5 DEF Call
<1>7. k.read <= Len(log) /\ k.pc \notin WorkPc
  BY <1>6 DEF ShownInv, CallShown, WorkPc
<1>8. k.got.st \in Ended => Over(k.got.pid)'
  BY <1>3, <1>6 DEF Over
<1>9. CallShown(k)'
  BY <1>1, <1>7, <1>8 DEF CallShown
<1>10. call' = [call EXCEPT ![c] = k]
  BY <1>2, <1>5
<1>. QED BY <1>1, <1>9, <1>10, ShownStep

(* A call that neither waits to record nor is about to.                    *)
LEMMA AsideShown ==
  ASSUME RuntimeInv, RuntimeInv', ShownInv, AgentsStep, log' = log, NEW c \in Caller,
         NEW k, call' = [call EXCEPT ![c] = k], k.pc \notin WorkPc,
         k.got.st \in Ended => k.got = call[c].got, k.read \in {0, call[c].read}
  PROVE  ShownInv'
<1>1. call \in [Caller -> Call]
  BY Parts DEF TypeOK
<1>2. call'[c] = k /\ \A d \in Caller : d # c => call'[d] = call[d]
  BY <1>1
<1>. QED BY <1>2, ShownQuiet

LEMMA ReturnShown ==
  ASSUME RuntimeInv, RuntimeInv', ShownInv, AgentsStep, log' = log, NEW c \in Caller,
         Return(c)
  PROVE  ShownInv'
<1>1. Idle.got.st \notin Ended /\ Idle.read = 0 /\ Idle.pc \notin WorkPc
  BY DEF Idle, Empty, Ended, WorkPc
<1>. QED BY <1>1, AsideShown DEF Return

LEMMA BeginShown ==
  ASSUME RuntimeInv, RuntimeInv', ShownInv, AgentsStep, NEW c \in Caller, Begin(c)
  PROVE  ShownInv'
<1>1. PICK op \in Op, f \in {None} \cup Config, d \in {None} \cup Config, reg \in Registries,
           pc \in {"summary", "latest"} :
        call' = [call EXCEPT ![c] = [Idle EXCEPT !.op = op, !.reg = reg, !.cfg = f,
                                                 !.dst = d, !.pc = pc]]
  BY RuntimeAssumption DEF Begin
<1>. DEFINE k == [Idle EXCEPT !.op = op, !.reg = reg, !.cfg = f, !.dst = d, !.pc = pc]
<1>2. k.pc = pc /\ k.got = Empty("unknown") /\ k.read = 0
  BY DEF Idle
<1>3. call' = [call EXCEPT ![c] = k]
  BY <1>1
<1>. HIDE DEF k
<1>4. k.got.st \notin Ended /\ k.pc \notin WorkPc
  BY <1>2 DEF Empty, Ended, WorkPc
<1>. QED BY <1>2, <1>3, <1>4, AsideShown DEF Begin

(* A hand-over records nothing of the workers it talks to.                 *)
LEMMA StageShown ==
  ASSUME RuntimeInv, RuntimeInv', ShownInv, AgentsStep, log' = log, NEW c \in Caller,
         call[c].pc \in SwitchPc,
         \/ \E stage \in Stage : call' = Enter(c, stage)
         \/ call' = [call EXCEPT ![c].pc = "failing"]
         \/ call' = [call EXCEPT ![c].pc = "complete"]
  PROVE  ShownInv'
<1>1. call \in [Caller -> Call] /\ call[c] \in Call
  BY Parts DEF TypeOK
<1>2. ASSUME NEW stage \in Stage, call' = Enter(c, stage) PROVE ShownInv'
  <2>. DEFINE k == [call[c] EXCEPT !.pc = stage, !.stage = stage]
  <2>1. k.pc = stage /\ k.got = call[c].got /\ k.read = call[c].read
    BY <1>1 DEF Call
  <2>2. call' = [call EXCEPT ![c] = k]
    BY <1>2 DEF Enter
  <2>3. stage \notin WorkPc
    BY DEF Stage, WorkPc
  <2>. HIDE DEF k
  <2>. QED BY <2>1, <2>2, <2>3, AsideShown
<1>3. ASSUME NEW pc \in {"failing", "complete"}, call' = [call EXCEPT ![c].pc = pc]
      PROVE  ShownInv'
  <2>. DEFINE k == [call[c] EXCEPT !.pc = pc]
  <2>1. k.pc = pc /\ k.got = call[c].got /\ k.read = call[c].read
    BY <1>1 DEF Call
  <2>2. call' = [call EXCEPT ![c] = k]
    BY <1>3
  <2>3. pc \notin WorkPc
    BY DEF WorkPc
  <2>. HIDE DEF k
  <2>. QED BY <2>1, <2>2, <2>3, AsideShown
<1>. QED BY <1>2, <1>3

LEMMA RequestShown ==
  ASSUME RuntimeInv, RuntimeInv', ShownInv, AgentsStep, NEW c \in Caller, Request(c)
  PROVE  ShownInv'
<1>1. call \in [Caller -> Call] /\ call[c] \in Call /\ log' = log
  BY Parts DEF TypeOK, Request
<1>2. PICK stage \in {"stop_source", "attach_destination"} :
        call' = [Enter(c, stage) EXCEPT ![c].sw = Len(switches) + 1]
  BY DEF Request
<1>. DEFINE l == [call[c] EXCEPT !.pc = stage, !.stage = stage]
            k == [l EXCEPT !.sw = Len(switches) + 1]
<1>3. /\ l.pc = stage /\ l.got = call[c].got /\ l.read = call[c].read
      /\ k.pc = l.pc /\ k.got = l.got /\ k.read = l.read
  BY <1>1 DEF Call
<1>4. Enter(c, stage) = [call EXCEPT ![c] = l]
  BY DEF Enter
<1>5. call' = [call EXCEPT ![c] = k]
  <2>. HIDE DEF l
  <2>1. [call EXCEPT ![c] = l][c] = l
    BY <1>1
  <2>. QED BY <1>1, <1>2, <1>4, <2>1
<1>6. stage \notin WorkPc
  BY DEF WorkPc
<1>. HIDE DEF k, l
<1>. QED BY <1>1, <1>3, <1>5, <1>6, AsideShown

-----------------------------------------------------------------------------
LEMMA ShownStart ==
  ASSUME Init
  PROVE  ShownInv
<1>1. log = <<>> /\ DOMAIN log = {} /\ Len(log) = 0
  BY DEF Init
<1>2. ASSUME NEW c \in Caller PROVE CallShown(call[c])
  <2>1. call[c] = Idle
    BY DEF Init
  <2>2. Idle.got.st \notin Ended /\ Idle.read = 0 /\ Idle.pc \notin WorkPc
    BY DEF Idle, Empty, Ended, WorkPc
  <2>. QED BY <1>1, <2>1, <2>2 DEF CallShown
<1>3. RecordsShown
  BY <1>1 DEF RecordsShown, Known
<1>. QED BY <1>2, <1>3 DEF ShownInv

LEMMA ShownCallerStep ==
  ASSUME RuntimeInv, RuntimeInv', ShownInv, AgentsStep, NEW c \in Caller,
         \/ Begin(c) \/ Latest(c) \/ Ensure(c) \/ Launch(c) \/ Send(c)
         \/ Observe(c) \/ Reread(c) \/ Halt(c) \/ AppendRecord(c)
         \/ Summarise(c) \/ Request(c) \/ StopSource(c) \/ AttachDestination(c)
         \/ StartDestination(c) \/ Complete(c) \/ SwitchRaises(c) \/ RecordFailure(c)
         \/ Fails(c) \/ Crash(c)
  PROVE  ShownInv'
<1>1. CASE \/ Begin(c) \/ Ensure(c) \/ Launch(c) \/ Send(c) \/ Halt(c) \/ AppendRecord(c)
           \/ Summarise(c) \/ Request(c)
  BY <1>1, BeginShown, EnsureShown, LaunchShown, SendShown, HaltShown, AppendShown,
     SummariseShown, RequestShown
<1>2. CASE Latest(c)
  <2>1. CASE Route(call[c].op, call[c].reg, call[c].cfg) = "idle"
    BY <1>2, <2>1, ReturnShown DEF Latest
  <2>. QED BY <1>2, <2>1, LatestShown
<1>3. CASE Observe(c)
  <2>1. log' = log
    BY <1>3 DEF Observe
  <2>. QED BY <1>3, <2>1, ReturnShown, ObserveShown
<1>4. CASE Reread(c)
  <2>1. CASE Started(call[c].reg)
    BY <1>4, <2>1, RereadShown
  <2>2. CASE ~ Started(call[c].reg)
    BY <1>4, <2>2, ReturnShown DEF Reread
  <2>. QED BY <2>1, <2>2
<1>5. CASE StopSource(c) \/ AttachDestination(c) \/ StartDestination(c) \/ SwitchRaises(c)
  <2>1. call[c].pc \in SwitchPc /\ log' = log
    BY <1>5 DEF StopSource, AttachDestination, StartDestination, SwitchRaises, At, Stage,
                SwitchPc
  <2>2. \/ \E stage \in Stage : call' = Enter(c, stage)
        \/ call' = [call EXCEPT ![c].pc = "failing"]
        \/ call' = [call EXCEPT ![c].pc = "complete"]
    <3>1. "attach_destination" \in Stage /\ "start_destination" \in Stage
      BY DEF Stage
    <3>. QED BY <1>5, <3>1 DEF StopSource, AttachDestination, StartDestination, SwitchRaises,
                               Raise, Goto
  <2>. QED BY <2>1, <2>2, StageShown
<1>6. CASE Complete(c) \/ RecordFailure(c) \/ Fails(c) \/ Crash(c)
  BY <1>6, ReturnShown DEF Complete, RecordFailure, Fails, Crash
<1>. QED BY <1>1, <1>2, <1>3, <1>4, <1>5, <1>6

LEMMA ShownKept ==
  ASSUME RuntimeInv, RuntimeInv', ShownInv, [Next]_vars
  PROVE  ShownInv'
<1>1. AgentsStep
  BY NextAgents
<1>2. CASE UNCHANGED <<log, call>>
  BY <1>1, <1>2, ShownQuiet
<1>3. CASE ~ UNCHANGED <<log, call>>
  <2>1. PICK c \in Caller :
          \/ Begin(c) \/ Latest(c) \/ Ensure(c) \/ Launch(c) \/ Send(c)
          \/ Observe(c) \/ Reread(c) \/ Halt(c) \/ AppendRecord(c)
          \/ Summarise(c) \/ Request(c) \/ StopSource(c) \/ AttachDestination(c)
          \/ StartDestination(c) \/ Complete(c) \/ SwitchRaises(c) \/ RecordFailure(c)
          \/ Fails(c) \/ Crash(c)
    BY <1>3 DEF Next, vars, TurnEnds, HostGoes, AgentEnds
  <2>. QED BY <1>1, <2>1, ShownCallerStep
<1>. QED BY <1>2, <1>3

(* While no record passed another and none stands for a host that did not  *)
(* answer, the last record names the worker that runs.                     *)
THEOREM TheWorkerThatRunsIsShown == Spec => []KnownWorkerIsShown
<1>1. Spec => []ShownInv
  <2>1. Init => ShownInv
    BY ShownStart
  <2>2. RuntimeInv /\ RuntimeInv' /\ ShownInv /\ [Next]_vars => ShownInv'
    BY ShownKept
  <2>. QED BY <2>1, <2>2, RuntimeInvariance, PTL DEF Spec
<1>2. RuntimeInv /\ ShownInv => KnownWorkerIsShown
  <2>. SUFFICES ASSUME RuntimeInv, ShownInv, Serial, Answered, NEW f \in Config,
                       host[f].session \in Active, host[f].pid \in alive,
                       \E i \in DOMAIN log : log[i].pid = host[f].pid
                PROVE  /\ Last(log).print = f /\ Last(log).name = NameOf[f]
                       /\ Last(log).pid = host[f].pid /\ Last(log).st # "exited"
    BY DEF KnownWorkerIsShown
  <2>1. Known(f)
    BY DEF Known, Active, Ended
  <2>2. Last(log).print = f /\ Last(log).pid = host[f].pid
    BY <2>1 DEF ShownInv, RecordsShown
  <2>3. Len(log) \in DOMAIN log /\ Last(log) = log[Len(log)]
    BY Parts, LastRecord
  <2>4. Last(log).name = NameOf[f]
    BY <2>2, <2>3 DEF ShownInv, RecordsShown
  <2>5. Last(log).st # "exited"
    BY <2>2, <2>3 DEF RuntimeInv, ExitedHasExited
  <2>. QED BY <2>2, <2>4, <2>5
<1>. QED BY <1>1, <1>2, RuntimeInvariance, PTL
=============================================================================
