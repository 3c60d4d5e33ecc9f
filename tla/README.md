# WeftMark in TLA+

WeftMark (`src/src/weftmark`) is a control plane for software work done by
several agents and people on one repository. Everything it knows is an
append-only, hash-chained ledger; every service reads a snapshot of it, decides,
and appends. There is no server that orders requests: command line invocations,
HTTP and MCP handlers and a terminal interface run as separate processes over
one ledger file. What can go wrong is what happens between a read and an append.

## The system

| Component | State | Operations | Hard behaviours |
| --- | --- | --- | --- |
| JSONL ledger (`adapters/jsonl_ledger.py`) | a file of chained records | `append`, `append_if_head`, `entries` under `flock` | torn writes, failing fsync, process death, power loss, lock released on every path |
| SQL ledger (`adapters/sql_ledger.py`, `sqlite_ledger.py`, `ledger_api.py`) | streams, entries, receipts | idempotent append in atomic batches, import, paged reads | lost answers, 16 attempts, one operation id for two requests, tables that must agree |
| Ledger service (`application/ledger.py`) | none | `record`, `record_if_head`, `snapshot`, `history`, `latest` | passes through |
| Semantic lock (`domain/lock.py`) | one lease on one scope | `acquire`, `renew`, `reacquire`, `release`, `state_at`, `conflicts_with` | the instant of expiry |
| Claim service (`application/claims.py`) | latest record of each claim | `acquire`, `renew`, `reacquire`, `extend_scope`, `release` | stale timestamps, bounded optimistic retries, crash between lock and declaration |
| Change Sets (`domain/changeset.py`, `application/workspace.py`, `change_binding.py`) | latest record of each Change Set | create, refresh, transition, amend scope | unconditional read-modify-append |
| Lifecycle, review, evidence, handoff (`application/lifecycle.py`, `local_workflow.py`, `review_service.py`, `evidence_runner.py`) | records bound to an observed head | gate and transition, audit, run evidence, review, hand off | check of one record, use of another; a command that dies |
| Tasks (`application/tasks.py`, `task_planning.py`) | tasks, dependencies, conflicts | create, transition, relate, select | acyclicity under concurrent additions, three separate reads |
| Plan and Frog import (`application/plan_import.py`, `frog_task_import.py`) | receipts of documents | import a document record by record | resumption, two documents of one label |
| Task claim and completion (`application/task_claims.py`, `task_completion.py`) | the binding of a task to its Change Set and claim | reserve, create, acquire, transition, finish; release, done | multi-append sagas that die and are retried |
| Frog promotion and claim (`application/frog_receipts.py`, `frog_planning.py`, `frog_promotions.py`, `frog_task_claims.py`, `bundle_import.py`) | snapshots, bundles, promotions | record a snapshot, promote and claim a task of it | a command of five appends, repeated after a death, against others that finish it |
| Control (`application/control.py`, `http/`, `mcp/`) | idempotency records, one lock | retry-safe mutations | effect without idempotency record, retries under another key |
| Runtime workers (`application/runtime_workers.py`, `runtime_provider_handoff.py`, `runtime_registry.py`) | last observed worker per task | start, input, status, stop, switch provider | worker started and not recorded, observations out of order, a switch that fails half way |
| ACP (`adapters/acp.py`) | a host process with a socket; pending calls, a session | ping, spawn, request, stop, cleanup; request, response, close, prompt | processes that find a dead socket; three threads on one worker state, time limits against late answers |
| Forges (`application/ports/forge.py`, `adapters/github.py`, `gitlab.py`, `gitea_like.py`, `bitbucket.py`, `azure_devops.py`) | none | observe changes, checks, runs, reviews, comments, files | listings that change while they are read page by page |
| Projections, status, CAD evidence, interfaces | none of their own | parse, fold, format | not modelled; see the end |

Services call each other downwards only: lifecycle and task sagas call the
workspace and claim services, these the ledger service, this one ledger port.
They share nothing in memory but the ledger object; two processes share the file.
Runtime services talk to a provider's host, a process of its own, over a socket;
the host and its agent talk over two pipes.

What makes each component correct, in a sentence. Ledgers: what was acknowledged
stays, in one order, once. Claims: no two owners of overlapping scopes. Change
Sets: a record follows from the one it replaces, and a merge rests on a review.
Tasks: one session has a task, an interrupted claim or completion is finished or
started over and never half believed, the graph is acyclic, what is offered is
ready. Imports: a document is imported once, whoever finishes it. Workers: what is
recorded as ended has ended, and a worker that runs can be reached through its host
(which the code does not keep: see the finding). Control: a
repeated request has one effect and one answer. Forges: an answer lists what was
there, or says that it could not be had.

## The modules

    SemanticLock        the lease of one scope, as operators
      ClaimService      the claim service over the ledger          (state machine)
        MCClaimService, ClaimServiceProofs
    ScopeOwnership      what claims promise                        (abstract)
    ChangeWorkflow      one Change Set: lineage, lifecycle, evidence, review
      MCChangeWorkflow, ChangeWorkflowProofs
    TaskGraph           tasks, relations, imports, selection
      MCTaskGraph, TaskGraphProofs
    TaskWork            a task claimed and completed in several appends
      MCTaskWork, TaskWorkProofs
    FrogIntent          from an external plan to a Change Set and a claim
      MCFrogIntent, FrogIntentProofs
    Control             the retry-safe boundary of the servers
      MCControl, BoundaryProofs
    RuntimeWorkers      what is recorded of agents against what runs
      MCRuntimeWorkers
    AcpHost             the host process and its socket
      MCAcpHost
    AcpSession          one agent's connection and threads inside a host
      MCAcpSession
    Forge               observations of a code forge, page by page
      MCForge; MCBoundary, which runs Control and Forge
    LedgerLog           what a ledger port promises                (abstract)
    JsonlLedger         the locked, chained file, a LedgerLog      (state machine)
      MCJsonlLedger
    SqlLedger           atomic batches behind a service, a LedgerLog
      MCSqlLedger

`LedgerProofs` holds the proofs about the two ledgers, `AgentProofs` those about
`RuntimeWorkers`, `AcpHost` and `AcpSession`, `BoundaryProofs` those about `Control`
and `Forge`, `ClaimServiceProofs` those about `ScopeOwnership` too. A module of proofs extends what it is about, which is why the
modules that share one have operators of different names (`HostInit`, `SessionInit`).

The modules meet at what one promises and another uses. A snapshot and a
compare-and-append are single steps everywhere because that is what `LedgerLog`
promises and both ledgers are proved to keep. `ClaimService` and `TaskWork` take their leases
from `SemanticLock`; where a module has claims that do not run out (`FrogIntent`,
`Control`), their rules are those of `ClaimService`. `RuntimeWorkers` sees a host
as `AcpHost` and `AcpSession` say it behaves from outside: it may be gone, it may
answer or not, and an agent may outlive it.

### ClaimService

The ledger is represented by its length `head`, which stands for the digest of
its last entry, and by the latest record of every claim and Change Set, which is
all the services fold out of a snapshot. Reading a snapshot and an append are
single steps: that a ledger port may be used this way is what `JsonlLedger`
shows. A call lives in `pc[p]` and `call[p]` (its local variables):

| Action | Code |
| --- | --- |
| `Begin` | the caller reads the clock (`cli/main.py`, `http/server.py`) and enters the service; the timestamp never changes afterwards |
| `ReadChangeSet` | `acquire` reads the declared scopes before its loop |
| `Acquire`, `Renew`, `Reacquire`, `Extend`, `Release` | one turn of the loop: snapshot, checks, new record |
| `Refuse` | a check of that turn raises |
| `AppendClaim` | `_append` with the head of the snapshot; `extend_scope` goes on to `amend_scope` |
| `Retry`, `GiveUp` | `LedgerHeadChanged` with and without attempts left |
| `TransitionChangeSet`, `AmendScope`, `WorkspaceRefuse`, `RecordBinding` | `WorkspaceService`: read and compute in one step, append in a later one, unconditionally |
| `Crash`, `Tick` | the process dies at any point; time passes between any two steps |

Time is a natural number, a lease a number of ticks. Scopes are elements with a
reflexive, symmetric relation `Overlap` in the place of `scopes_overlap`: the
services use nothing else of it.

`ScopeOwnership` is the promise: an owner holds scopes for a term; a term is
granted, widened, prolonged or closed at one instant, never over scopes that
somebody else holds. `ClaimService` maps onto it by reading each claim record as
a lease (`LeaseOf`).

### ChangeWorkflow

One Change Set from its creation to its end, the records bound to it, and the
worktree it describes. The services of this component never compare the head
before they append: a call reads the latest record, asks Git, and writes what it
computed. So the state keeps the latest Change Set record (`binding`), the
evidence, reviews and handoffs in ledger order, the intents of evidence, the
worktree (`git`), and for each call its local variables: the record it read, the
Git head it saw, the record and the document it will append.

| Action | Code |
| --- | --- |
| `Begin`, `CheckNew` | the caller's timestamp and id; create, evidence, review and handoff look for an earlier one of that id |
| `Read` | `get_change_set` of the call; a transition checks lifecycle and time on this record |
| `Gate`, `TransitionChangeSet` | `LifecycleService.transition` checks reviews and handoffs against the record it read; `WorkspaceService` reads the Change Set again and computes from that |
| `ObserveHead`, `ObserveStatus` | `_observe`, several Git commands: the worktree may move in between |
| `RecordBinding` | the append of the Change Set, for a review its scope audit too |
| `Rebind` | `ReviewService.summarize` reads the Change Set again and compares observation ids |
| `RecordIntent`, `RunCommand`, `AppendDocument` | evidence: the intent, the command, the outcome |
| `Gather`, `AppendDocument` | review and handoff: the lists they are made of, the decision, the append |
| `Refuse`, `Crash` | a check raises, the process dies; what has been appended stays |
| `WorktreeMoves`, `Tick` | whoever works in the tree, and the clock |

An observation's id is the Change Set's id and the number of observations in the
record that the call read; `n` is that number. A commit is in scope when it is
in `Covered`, a dirty worktree when its status is `inside`. Left out: base and
branch, which take part in the lineage as the head does; amendment of scope
(`ClaimService`); supersession of handoffs, optional evidence kinds, further
findings and waivers of a review, which change what a decision says and not when
it is made.

### TaskWork

One native task from its reservation to done. The binding of a task names one
Change Set and one claim; these, the task itself and the last review of the
Change Set are the records kept, each by its latest value, together with what
they were when the task became done (`before`: the code reads the entries that
precede the `done` entry). The lease of the claim is an instance of
`SemanticLock`.

| Action | Code |
| --- | --- |
| `GetBinding`, `Eligible`, `Reserve`, `AppendReservation` | `claim` and `_reserve`: whose the task is |
| `FindChangeSet`, `CheckNewChangeSet`, `CreateChangeSet` | `_finish` and `create_change_set`, whose append compares nothing |
| `FindClaim`, `Acquire`, `AppendAcquired` | `_finish` and `ClaimService.acquire` |
| `Recover`, `Runnable`, `AppendReacquired` | `_reacquire_for_runnable_task`: task and claim at one head |
| `FindTask`, `Start`, `AppendStarted` | `_finish` and `TaskService.transition` |
| `Finish`, `AppendFinished` | `_complete` |
| `GetWork`, `Prove`, `Release`, `AppendReleased` | `complete`: the proof, then the release |
| `Complete`, `AppendDone` | the proof once more, then done |
| `Retry`, `Refuse`, `Crash` | a lost race, a check that raises, the death of the process |
| `MoveTask`, `RecordChangeSet`, `RecordReview`, `RecordClaim` | the same records written by direct calls of the other services |

Every loop is in two steps, a snapshot with its checks and an append that needs
the head of that snapshot. Direct calls are single steps, since a
compare-and-append takes effect at one instant; their timestamps may be stale.
What other tasks, claims and Change Sets say to a call (eligibility, conflicting
scopes, a Change Set of another intent under the same id, Git) can refuse it at
those points at any time.

### TaskGraph

`tasks`, `deps`, `conflicts` and `receipts` are the latest records, `head` the
length of the ledger. A document is the sequence of records it asks for; a direct
call of the task service is a document of one. A call is at one item of its
document in one of the phases `receipt`, `tasks`, `conflicts`, `reserve`, `items`,
`close`, and within it has read at a head or not yet.

| Action | Code |
| --- | --- |
| `Begin`, `CheckReceipt` | an import looks for the receipt of its label: the same document, another one (drift), a reservation to be finished |
| `SurveyTasks`, `SurveyConflicts` | existing tasks and conflicts are compared with the document before anything is written, in two reads |
| `ReadReservation`, `AppendReservation` | `frog_task_import.py` reserves its receipt first |
| `ReadItem`, `AppendItem` | `TaskService.create`, `add_dependency`, `add_conflict`, by themselves or for an import, which takes what is there already |
| `ReadClose`, `AppendClose` | the receipt is recorded or completed |
| `Retry`, `Crash` | a lost race, the last of which an import of a task may survive; the death of the process |
| `MoveTask` | transitions by anybody |
| `PlanTasks`, `PlanDependencies`, `PlanConflicts` | the three reads of `TaskPlanningService._evaluate` |

`plan` also keeps, for the property of the answer and for nothing else, which
relations were on record at the first of the three reads (`had`, `foes`).

Reachability is defined by closed sets, not by recursion, so that it can be
proved about.

### FrogIntent

The ledger itself is the state, a sequence of snapshot receipts, bundles,
promotions, Change Sets and claims, because which record is the first or the last
of its kind is what the services ask of it. A claim of an external task is one
command of up to five appends.

| Action | Code |
| --- | --- |
| `ReadSnapshots`, `RecordSnapshot`, `ReadBundles`, `RecordBundle` | a snapshot or a bundle is recorded once |
| `CheckEligible` | `FrogPlanningService` on the recorded snapshot |
| `FindPromotion`, `ReadPromotions`, `Reserve` | `promote`: an earlier promotion is adopted, otherwise a Change Set id is reserved at the head that was read |
| `GetChangeSet`, `CreateChangeSet`, `PlanChangeSet`, `Complete` | the Change Set is created unless it is there, and the promotion completed, both without comparing the head |
| `FindClaim`, `ReadScopes`, `ReadClaims`, `Acquire` | the session's open claim is looked for, in a snapshot of its own, or acquired |
| `LoadChangeSet`, `StoreChangeSet`, `ReadClaim`, `Release` | what others do to the Change Set and the claim meanwhile |
| `Begin`, `Crash` | commands, and their death at any point |

### Control

Each claim, handoff and review is one entry with what a retry can see of it;
`stored` holds the idempotency records, `lock` the one lock of a server. `effects`
counts for each object how often an operation wrote it.

| Action | Code |
| --- | --- |
| `Begin`, `Acquire` | a request arrives in a thread and waits for the lock |
| `LookUp` | the key is known: its answer, or a conflict |
| `Recover`, `CheckNew` | an effect of this request that is there already answers it; a handoff or review that exists is refused |
| `WriteDocument`, `Reserve`, `FinishClaim`, `Release`, `Refuse` | the operation |
| `Record` | the idempotency record, whose append may fail, and the answer |
| `Crash`, `LocalWrite` | the server dies in any step; other programs write the same objects |

`docs/contracts/http-control-v0.md` promises replay for one control process per
ledger, and so has the run one server; the module takes any number.

### RuntimeWorkers

`log` holds the worker records of one task, `host` and `alive` what there is
behind the port: for each provider configuration a host that is up or not with its
session, and the agents that run. A record remembers, as history, how many
records its call had seen.

| Action | Code |
| --- | --- |
| `Begin`, `Latest` | `start`, `send_input`, `status`, `stop`: the last record, its provider and fingerprint decide where the call goes |
| `Ensure`, `Launch`, `Send`, `Observe`, `Halt` | the request to the host, which may be served although its answer is lost |
| `Reread`, `AppendRecord` | `_observe` reads the last record again; `_record` compares a head that it reads at that moment |
| `Summarise`, `Request`, `StopSource`, `AttachDestination`, `StartDestination`, `Complete` | `RuntimeProviderHandoffService.switch`, recorded stage by stage |
| `SwitchRaises`, `RecordFailure`, `Fails`, `Crash` | what raises, what is recorded of it, and processes that die |
| `TurnEnds`, `AgentEnds`, `HostGoes` | what agents and hosts do by themselves |

### AcpHost

One socket path. A command pings it, spawns a host when nobody answers, and sends
its request; a host binds, serves one connection at a time and leaves after a stop
when it is idle, after a cleanup, or when a reply cannot be written. Any number of
commands may spawn at once, and a host looks at the path, binds, listens and unlinks
whatever the other hosts do in between: nothing orders them but the file system.

| Action | Code |
| --- | --- |
| `BeginCommand`, `Connect`, `Refused`, `Dropped`, `GiveUp` | `AcpRuntimeProxy`, `_socket_request` and their timeouts |
| `Probe`, `UnlinkStale`, `Popen`, `SpawnFails` | `_spawn_host` |
| `CheckPath`, `Bind`, `Listen`, `Accept`, `IdleExit`, `UnlinkOnExit` | `_run_host` |
| `Serve`, `ServeOrphan` | `_dispatch_host`, `_host_reply`: an operation that succeeds or is refused, for a client that still waits or has gone |
| `Killed`, `WorkerEnds` | a host is killed and leaves its socket; the agent ends |

`due` is `stopped_deadline`: set by a stop that succeeded, with or without a worker,
and never taken back, also when a worker is started later. `told` is history: some
command was answered that the worker is stopped.

### AcpSession

The threads of a host around one agent: the thread that calls the adapter
(`main`), one for each prompt (`req`), the reader. A step is what runs between two
points where another thread can get in. `writer` holds the write lock, and `pipe`
says whether the write of its holder waits for the agent to read: a prompt or a reply
may be more than the pipe takes, and what is written behind one may find it full.

| Action | Code |
| --- | --- |
| `Register`, `Wake`, `TimeOut` | `AcpConnection.request`: registered, answered or not |
| `Check`, `Write` | `_write`: refused as too long, or closed; then written under the lock |
| `PipeFills`, `AgentReads` | a write waits in the pipe, until the agent reads |
| `EndTurn` | `_send_prompt.run` sets the state when the turn is over |
| `Read`, `Settle` | `_read_loop`, `_dispatch` and the answers to requests |
| `ServeInbound`, `ReplyInbound`, `WriteReply` | the agent's file and permission requests, and the reply: too long (the reader ends), or written under the lock |
| `EndOfFile`, `ReaderFails`, `ReaderReleases` | the agent is gone, a line was refused: `_fail_pending` |
| `StartSession`, `Initialized`, `Created`, `HandshakeFails`, `SendInput` | launch, `initialize`, `session/new`, the first and later prompts |
| `WorkerSummary`, `MarkEnded`, `ReturnSummary` | `worker_summary` looks at process and state without one lock around both |
| `StopSession`, `Cancel`, `WriteCancel` | `stop_worker` forgets the session and sends `session/cancel`, for which it takes the write lock |
| `CloseConnection`, `CloseStdin`, `CloseFails`, `CloseReleases`, `KillProcess`, `MarkStopped` | `close` and the rest of `stop_worker` |
| `AgentWrites`, `AgentExits` | the agent |

### Forge

One observation by one adapter: a list of listings, each read in pages. The forge
changes between two requests; two listings are ordered by when their objects changed,
Gitea's checks and Azure's builds (`ToTheFront`), the others keep an object at its
place. The words of the five providers are tables (`GithubRun`, `GitlabReview`, ...)
from which an outcome is translated.

| Action | Code |
| --- | --- |
| `Create`, `Delete`, `Update` | the forge changes |
| `PageArrives` | one request: the page is added, the next is asked for, or the observation concludes (`Convert`, `KeepAsked`, `Conclude`) |
| `NotFound`, `Fail` | 404 and every other failure |

### SqlLedger

The three tables, and for each caller what it is doing, which head it last learned
and which pages it has read.

| Action | Code |
| --- | --- |
| `Begin`, `Repeat` | an append through the ledger or the API, and its repetition under the same operation id |
| `Recognise`, `HeadMoved`, `Compile` | the verified snapshot: recorded already, not at the expected head, or a batch for this head |
| `Accepted`, `Retry`, `GiveUp` | the batch is executed or loses the race |
| `Fail` | storage fails or the process dies, before or after the batch was executed |
| `Import`, `Look`, `Page` | `import_jsonl`, `head`, `entries` by pages |

As a `LedgerLog` (below), the log is what the entries say, `asked` is what a caller
may still have recorded, by a call it is in or by one that failed in the storage
(`InDoubt`), and what is promised reaches to the last entry of an answer.

### JsonlLedger

The file is a sequence of records, newlines and fragments. A record carries the
contents before it, which is what its chained digest stands for, so `Readable`
is the validation of `_read_locked`: one record per line, each continuing the
contents before it. A last line without newline is readable, as with
`splitlines`. `synced` is the part that survives a power loss.

| Action | Code |
| --- | --- |
| `Open`, `Lock` | `_open`, then `flock`, exclusive for appends and shared for `entries` |
| `Entries`, `Prepare`, `Reject` | `_read_locked`, and the comparison of `append_if_head`: the result, the record to write, or `LedgerCorruption` / `LedgerHeadChanged` |
| `Write`, `Sync` | `write` with `flush`, and `fsync` with the return |
| `WriteFails`, `SyncFails`, `Crash` | the process dies or the call raises: any part of the line is in the file, nobody is told, the kernel drops the lock |
| `PowerLoss` | every process is gone; any end of what was not synchronised is gone, a record perhaps cut |

`LedgerLog` is the promise of either ledger. A caller asks for one append at a time,
with or without a head it expects (`Ask`); the append takes effect at one moment, at
the end of the log and, if a head is named, with the log being exactly that (`Record`,
or `Acknowledge` with its return), or never (`Drop`). An answer names an entry that
says what was asked and has before it what was expected, recorded now or before, and
after it the log up to that entry is not lost any more, where `Lose` may take away
the rest. `Look` sees the whole log, and `Import` fills an empty one. In the file,
the log is what its records say, torn ones left out, `asked` is the append a process
is in, and what is promised reaches to the last record that was acknowledged. That an
append is recorded once however often it is repeated is no part of this promise, for
the file has no operation ids; of the tables `AnswersAgree` says it.

## Runs

Eleven pass and one, `acp_host_path`, is expected to be violated. Each configuration
is one question about one component; `boundary` holds two components that share
nothing, side by side, so that a behaviour is one of either.

| Run | Specification | Shows |
| --- | --- | --- |
| `claim_leases` | `Spec` | lease rules under races, expiry, widening, retries and crashes; the abstract leases behind them |
| `change_records` | `MCSpec` | what the records of a Change Set rest on, however calls race and die |
| `task_graph` | `Spec` | the graph, the receipts and the selection under racing imports |
| `task_work` | `MCSpec` | whose a task is and what done rests on, under retries, races and deaths |
| `frog_intent` | `Spec` | promotion and claim of external tasks, repeated and raced |
| `runtime_workers` | `Spec` | records of workers against the agents that run |
| `acp_host` | `FairHostSpec` | calls return and stopped hosts leave, over hosts that race, die and hang |
| `acp_host_path` | `HostSpec` | the counterexample to the contract's "observe, prompt, and stop the same worker" |
| `acp_session` | `FairSessionSpec` | pending calls, turns, writes that wait, stop and the threads of one session |
| `boundary` | `BoundarySpec` | retries against dying servers and other writers; answers of five adapters against a forge that changes |
| `jsonl_safety` | `FairFileSpec` | durability, fail-closed corruption, refinement of `LedgerLog`, the lock given up on every path |
| `sql_ledger` | `Spec` | refinement of `LedgerLog` and one log for all callers under lost answers, repeated operations, imports and paging |

What the properties say:

* `OnlyOverdueRenewalClashes`: a step after which two claims compete and before
  which they did not is the append of a renewal whose lease has run out. All the
  other operations are safe however old their timestamp is and however often
  they are retried. This is the most that holds of the code: that claims never
  compete does not, because `renew` is the one operation that does not look at
  other claims.
* `ImplementsOwnership`: apart from that append the whole service is equivalent to
  instantaneous leases: every step grants, widens, prolongs or closes one term, or
  changes nothing.
* `ClaimNeverRegresses`: no racing call replaces a newer claim record by one
  built from an older record.
* `WideningIsLocked`: nothing is declared before it is locked.
* `LostAttemptsAreProgress`: "ledger remained busy" means contention.
* `NeverMergedUnreviewed`: no interleaving merges a Change Set for which there
  is no releasable review at all, or closes one without a handoff. Stronger
  claims fail: the review may be of another head (see the divergences).
* `ReleasableIsProven`: a releasable decision is justified by the evidence it
  lists, ties of timestamps included, at the head it names.
* `UncontendedRecordsFollow`: lineage, lifecycle and gates hold of a record that is
  appended while the head is where the call read it, whatever calls came before,
  moved the worktree or died. It says nothing of what a race does: there the later
  record wins, and no property forbids it.
* `Acyclic`: two additions that close a cycle only together never both succeed.
* `ReceiptIsFinal`: a label keeps its first document, and completed stays so.
* `OfferedWasReady`: a task that an evaluation offers could have been taken up when it
  began. Every dependency on record at the first read was done, and still is at the
  answer, and no task then in conflict with it was in progress. This rests on the
  order of the reads and on relations and done being final. What is recorded or
  started during the evaluation is not covered, for the code does not see it: a
  dependency added behind the second read, or a rival that starts, makes an offer that
  is not ready any more, and the claim of the task has to judge again.
* `CompletedIsBacked`: however many calls run the claim of a task, a completed
  binding has its Change Set and a claim of the session that reserved it.
* `RecoversRunnableOnly`: a lease that ran out comes back only while the task is
  in progress at that instant, which is what the heads handed from
  `_reacquire_for_runnable_task` to `reacquire` are for.
* `DoneWasProven`, `DoneHoldsNoLease`: done rests on a proof that held at that
  instant, which every later retry finds again, and nobody holds the claim of a
  task that is done.
* `AnswerIsBacked` (`FrogIntent`): what a caller of the claim was told stays true:
  the task is promoted into that Change Set, with these scopes, and the claim is
  its session's. `NothingTwice`: one reservation per task, one record per snapshot
  and bundle, one open claim per session and Change Set.
* `AnswersAgree`, `AnswerIsBacked`, `EffectOnce` (`Control`): a key has one answer,
  the answer tells of an effect of this very request, and the effect is there once,
  whatever died in between and under whichever keys it was asked for.
* `KnownWorkerIsShown`: when nothing is under way, an agent of which some record
  tells is the one the last record shows, unless records passed each other or a
  host never answered. `ExitedHasExited`: no record ever says exited of a process
  that runs. `StoppedSourceEnds`: once a switch was told that its source has stopped, the
  worker it saw has ended, or its host went and left it behind, however often hosts
  came and went meanwhile. `SwitchIsAccountedFor`: what a switch did is recorded up to
  the stage it reached.
* `StoppedHostLeaves`: a host that answered a stop is gone in the end, also one whose
  socket was taken over, unless it gets work again and again: connections, which keep
  `accept` from timing out, or a worker. `CallsReturn`: a command returns however long
  its host takes, since every socket operation of it has a timeout.
* `LiveWorkerIsReached`, which fails: a worker that runs has its host at the path.
* `WaiterIsHeld`: a thread that waits for an answer is in the hands of a thread that
  will settle it, or registered with a reader that runs or a stop that will take it.
  The one exception is `Deaf`: the reader has ended by itself and the connection is
  open, and then a call waits for its timeout, or for a stop. `StopEndsTurns` says of
  the stop that it ends every turn, also one that nobody would have answered.
* `RunningHasItsTurn`: one turn at a time, and a running session has one.
  `EndedLeavesNoProcess`: exited, stopped or failed to start means that no process is
  left, and that at most one more request of the agent is served after the stop was
  answered.
* `AdapterReturns`: every call of the adapter returns, provided that no write to the
  agent waits for ever (`Stuck`). With an agent that stops reading, a stop can wait for
  the write lock without end, and nothing says otherwise.
* `NothingIsOverlooked`: an object that was there all along is in an available
  answer, unless another one left a listing or moved to its front while the pages
  were being read; and "missing" is never said of what was there all along. It does
  not say when an answer must be available: an error is always allowed.
  `ValuesAreReported`: what is listed was on the forge and means what it says; a
  word nobody knows is never passed, failed or approved.
* `AcknowledgedSurvives`, `CorruptionIsFinal`, `ImplementsLedgerPort`,
  `CallsReturn`: the ledger contract under failures of the file. The refinement says
  with the rest that a compare-and-append is directly behind the head it names.
* `CallersSeeOneLog`: the tables implement `LedgerLog`, answers to one operation id
  are one answer, and pages read while the ledger grows are that ledger. `StoreStaysReadable`: no sequence of
  calls leaves tables that the next snapshot would refuse.
  `LostRacesAreProgress`: sixteen lost attempts are sixteen entries of others.

Bounds. They are stated in the configurations, and each is the least with which
the case the run is about happens. Two callers, processes, threads or commands
race; a third call acts on what they left, so that calls are bounded by three
(`MaxCalls`; four where a command comes in several). Attempts are two or three in
place of 8 or 16, so that using them up is within reach; `MaxHead`, `MaxEntries`
and `MaxRecords` bound the ledger at which a call begins, and calls under way may
append beyond. Failures, crashes and lost answers are one or two.

* Claims: two claims on overlapping scopes of two Change Sets, three scopes;
  `MaxTime = 3` lets a lease of one tick be acquired, expire, be reacquired and
  expire again.
* Change Set: a clock that moves once; a worktree that is clean at a covered
  commit or dirty outside the scopes at another one. A merge takes four calls that
  do not race, so runs begin at the empty ledger or at a Change Set in review, as
  create, evidence, review and transition leave it (`InReview`).
* Task: from a new task or from one whose Change Set is merged (`Merged`); a lease
  and a clock of one tick, so that a lease can run out between any two steps, and
  one record written by others.
* Task graph: two tasks, since a cycle needs no more; two documents, of
  two importers, that close it, a third under the label of the first that is a part of
  it, and single operations that compete with the documents; one evaluation of the
  plan; a ledger of six entries, which hold the longer document with its receipt.
* Frog: from the empty ledger, or from one with a snapshot and a bundle; one snapshot
  with an eligible task, one that is done, one in conflict and one that must wait;
  named and generated identities.
* Control: one server with two threads, two keys, six requests on three objects.
* Runtime: two configurations of two providers, two agents.
* Host: two commands and two hosts, one poll (100 in the code), a backlog of one
  (8 in the code), any number of calls, kills and timeouts. In `acp_host` each
  command asks for some of the operations, one for the workspace and the stop, the
  other for workspace, start and cleanup, since all states must be visited; in
  `acp_host_path`, which ends at its counterexample, for all of them.
* Session: two prompts after the handshake, four messages of the agent, any of them
  an answer, a malformed one, a request of its own or a line too long.
* Forge: pages of one object and at most three of them in place of 100 and 100, two
  objects to begin with and two changes of the forge, so that a page boundary lies
  before, between and behind the objects.
* JSONL: two processes, two contents, two failures, and no append begins on a file
  of more than one line, so that an append can follow a failure that follows an
  append. SQL: two operation ids, two entries, pages of one, one failure.

Symmetry of processes, commits and operation ids is used where they are alike and
no liveness is checked.

Deadlock is not checked: calls stop beginning at the bounds, and a system whose
callers make no calls stands still. That callers do not wait for each other for
ever is what `CallsReturn` and `AdapterReturns` say.

Fairness is assumed in three runs. In `JsonlLedger` a call keeps running unless its
process dies (`WF` of `Run(p)`, the disjunction of its own steps): the operating
system schedules the process, and death is a step of its own that fairness does not
forbid. `SF` of `Lock(p)`: a lock that becomes free again and again is at some time
granted to each of its waiters, as `flock` wakes them. In `AcpHost` a command runs on
(`WF` of `CommandStep`, whose waits end with the timeout of its socket), and so does a
host outside a request (`HostStep`). That a request is ever served is not assumed
(`Serve` is not fair): an operation may wait for its agent, a stop too. In `AcpSession`
the threads run on where neither lock nor pipe stops them, and the time limit of the
handshake passes at some time (30 seconds in the code); that of a prompt, an hour, is
not needed. The agent owes nothing: it may never answer and never read. What depends on
its reading says so (`Stuck`). Nowhere is anything assumed of a caller's beginning a call, nor of
the clock.

## Proofs

`ClaimServiceProofs` rests on an inductive invariant: the types; that a claim's
locks are uniform; that every call under way
carries a timestamp not later than the clock and not more lost attempts than
entries appended since it began; and, for each call that waits at its append,
that *if the head has not moved* the operation is still allowed and its draft is
still the record the operation builds (`Justified`). The condition is what the
compare-and-append makes true at the moment of the append, and why no more is
needed of the steps in between. Expiry only ever takes conflicts away as time
passes, so a judgement made at an old timestamp errs on the side of refusing,
except for `renew`, which makes none.

* `TypeCorrect`, `ClaimsMoveAsOne`, `BusyMeansContention` follow from the
  invariant; `ClashNeedsOverdueRenewal` and `NeverRegresses` from the invariant
  and a step each; `TimelyExclusive` by a second induction, and
  `WideningComesSecond` by a third: what a widening is about to declare is locked in
  the ledger (`WidensLocked`), and stays so because no record drops a scope.
  Each append is a `Grant`, `Widen`, `Prolong` or `Close` of `ScopeOwnership`, every
  other step a `Pass` or a stutter: `Implements` says so of every behaviour, the
  appends of overdue renewals excepted, and `TimelyImplements` that without those the
  service implements `ScopeOwnership`; by `OwnershipExcludes` exclusion follows once
  more, from the abstraction.
* `ChangeWorkflowProofs`, by four inductions, each on the ones before: the types,
  with what a call holds at each point of its program; what a record that is
  merged or closed rests on, which must also be said of the records that calls
  are about to write (`NeverMergedUnreviewed`); what a call knows as long as the
  head is where it read it (`UncontendedRecordsFollow`); and that the listed
  evidence is a prefix of the ledger's, since it only grows
  (`ReleasableIsProven`). `AbandonedIsFinal` needs a step only.
* `TaskWorkProofs`, by two inductions: the types, and what a call may rely on at
  each point of its program. Part of that it knows for good, because no step of
  anybody takes back a binding, a Change Set or the owner of a claim (`Holds`,
  `Grows`): which steps have been made, by whichever call. The other part it knows
  as long as the head is where its snapshot was (`Knows`), which is what its next
  append compares: that nobody reserved, that the task is in progress, that the
  whole proof of the completion holds. The properties of `task_work` follow, and that a binding stays
  with its session.
* `TaskGraphProofs`, from one invariant: the types; that the graph is acyclic, which
  is kept because an edge is only added when the head is where its reachability was
  decided, and reachability in a larger graph is decided by the sets closed in it;
  that relations name recorded tasks; that behind an import at item n the items
  before n are present, and stay so because no record takes back an intent, an edge
  or a reason; that what the plan has read is a part of what is recorded. The last
  makes `OfferedReady`, with relations that only grow, so that what the later reads saw
  includes what was there at the first, and a task that is done and stays done. `ReceiptsFinal` follows from what
  a call has read as long as the head has not moved.
* `LedgerProofs`, the file: the invariant says that holders of the lock exclude each
  other as shared and exclusive locks do, that what an append has read is still
  the file when it writes, and that its record is still last when it syncs;
  `FileTypeCorrect`, `AcknowledgedIsDurable`, `AppendsAreCompared` and
  `UnreadableStays` follow. `FileIsALog`, the refinement of `LedgerLog`, rests on a
  second invariant (`LogInv`): the synchronised part of the file says at least what
  has been acknowledged (`PromiseKept`), and the log of a file that is about to be
  synchronised ends with the record its writer read and wrote, behind the head it was
  to expect (`EndsWithMine`). A call to append is an `Ask`, its refusal or the death of
  its process a `Drop`, a write, whole or torn, a `Record` or a stutter of the log, a
  sync its `Acknowledge`, a read its `Look`, a power loss its `Lose`. What a file says (`LogUpTo`) is a recursive
  function along its tokens; that a prefix of a file says a prefix, and that a readable
  file says its `Contents`, are inductions along a file. No theorem of the library does
  them, because these take an operator; `AlongSet` does them on the *set* of the places
  where the claim holds, which has a greatest element (`GreatestOf`, from the
  well-founded order of the subsets of a finite set).
* `LedgerProofs`, the tables: the invariant says that stream, entries and receipts are three
  views of one log in which no operation is recorded twice (`Tables`), that answers
  name the entry of their own request (`Backed`), that what a call compiled against
  is the log up to some entry, and each attempt it lost was lost to an entry since
  it began (`Placed`), and that the pages of a caller are the log up to its cursor
  (`Paged`). The batch inserts only when its compiled head is still the head, which
  is what keeps `Tables`; the log only grows, which keeps the others. `TypeCorrect`,
  `StaysReadable` and `RacesAreProgress` follow. `TablesAreALog`, the refinement of
  `LedgerLog`, needs no further invariant. The batch that inserts makes its append take
  effect: the entry it adds is behind the head the request named, by `Placed`
  (`InsertTakesEffect`). That is an `Acknowledge` if the answer arrives and a `Record`
  if it is lost, and then the caller stays in doubt until a repetition recognises the
  entry. An answer names a recorded entry of the request, behind what it expected, by
  `Tables` (`ReturnAcknowledges`); a batch that finds the receipt of another request
  has inserted nothing, so that its conflict is a `Drop` (`AcceptedAnswers`). That the
  last answer is well defined and moves with a new one (`LastAnswer`, `NewAnswer`) is
  `GreatestOf` again. `OneLog` puts it together with what answers and pages say.
* `FrogIntentProofs`: what a caller may rely on at each point of its command it reads
  off the log, which only grows: the promotion it found or reserved is the first one of
  its task, the Change Set and the claim it names are recorded, and a search that ended
  at the head it compares with has found what there is. An id that is generated is in
  nobody's record or call, and there is always one left, because every call uses one at
  most (`Used`). `AnswersStayTrue`, `RecordedOnce`, and `ClaimsExclude`, which says more
  than the run checks, follow.
* `BoundaryProofs`, the servers, by two inductions. With any number of servers: a thread in the
  with-statement has the lock of its server, and what it is about to record answers its
  request (`AnswersAreBacked`); a claim is taken and released once, because its own
  state tells what has been done (`ClaimOnce`). With all threads in one server
  (`OneServer`): the key of the thread inside is still new when it records, and the
  document it is about to write was not written by a request (`Undisturbed`), so that
  `OneAnswerForAKey` and `EffectsAreOnce`. `docs/contracts/http-control-v0.md` promises
  no more, and no more holds: with two servers TLC finds two answers under one key in
  14 states and an effect twice in 13.
* `BoundaryProofs`, the forge, from one invariant (`ForgeInv`): what is being asked for
  has words that the provider's tables know (`ListingsOK`), what was read so far was on
  the forge, in words of the question (`Seen`), and while nothing has left a listing
  (`past.left`), an object that has been there since the observation began is either
  among what was read, or in a listing still to come, or in the one being read behind
  the last page (`Ahead`), or it is an inline comment whose review is ahead
  (`ChildAhead`): `Covered`. The place of an object among those a listing shows
  (`Place`) does not change when others appear behind it or change in ways that keep
  them in their listings (`Settled`, `PlacesStay`), so that the page number keeps
  telling what has been read. Deleting an object, or moving one out of a listing, is
  what breaks it, and there is nothing to say then. `ForgeInvariance` is the
  invariant, `ValuesAreReportedAlways` and `NothingIsOverlookedAlways` its ends. What a
  listing shows is `Only`, a recursive function along the list of objects; what it
  contains, where, and after a change, are inductions with `AlongSet` again. `past`
  and its stay-behind are history variables: no adapter reads them.
* `AgentProofs`, a session: a waiting thread is registered or in somebody's hands, in
  each phase of reader, caller and connection (`PhaseOK`, `ReaderOK`, `HeldOK`), a call
  that is still registered behind a closed connection has a stop on its way that has
  not taken the calls yet (`CloseOK`), and a turn keeps the session from being prompted
  (`TurnsOK`): `WaitersAreHeld`, `OneTurnAtATime`, `EndedSessionsAreOver`, for any number
  of prompts and messages.
* `AgentProofs`, a host: the types only (`HostTypeCorrect`). That a host with a worker is
  reached is false, and what is true of hosts is liveness.
* `AgentProofs`, the workers: process numbers are given out once, so that what has
  ended stays ended (`AgentsMove`); a record, a call or a switch speaks of numbers given
  out before (`RecordedExitsAreTrue`, `StoppedSourcesEnd`, `SwitchesAreAccountedFor`).
  `TheWorkerThatRunsIsShown` needs a second invariant of what each call in flight has
  seen of hosts and records (`ShownInv`). Its proof attempt corrected the model:
  `StoppedSourceEnds` first said that the source's host has no running agent, which
  holds with two starts and not with three, when a third starts a new agent there; it
  now speaks of the worker that the switch saw.

The assumptions are those the modules name: `OverlapAssumption` (overlap is
reflexive and symmetric, as in `scopes_overlap`), `ConstantsAssumption`,
`TokenAssumption`, `WorkflowAssumption`, `WorkAssumption`, `DocumentsAssumption`,
`RequestsAssumption`, `BoundsAssumption`, `SqlLedgerAssumption`, `FrogAssumption`,
`ForgeAssumption`, `ControlAssumption`, `SessionAssumption`, `HostAssumption`, `RuntimeAssumption`; they
give constants their types and keep the null values apart from what they stand beside.
Two theorems, `OneAnswerForAKey` and `EffectsAreOnce`, suppose `OneServer` in their
statement. All of it holds for any number of processes, claims, scopes, tasks,
documents, records, attempts, hosts, prompts and failures.

Model-checked only: liveness (`CallsReturn`, `StoppedHostLeaves`, `AdapterReturns`,
`StopEndsTurns`), which is out of this prover's reach. Every invariant and every
action property of every passing run is stated by a theorem.

## Where the code does less than one might expect

The first item contradicts a contract and is the finding of `acp_host_path`. Of the
others some say less than a document does, where it is named; all are why the
properties above are not stronger. Most were met as a counterexample to a stronger form.

* `docs/contracts/acp-runtime-adapter-v0.md:51-53`: later commands observe, prompt and
  stop the same worker. `_spawn_host` removes a socket that refused its probe
  (`acp.py:1413`) without looking again. A socket refuses between the bind and the
  listen of its host, and another host may have bound since the probe, so that of two
  commands that create the workspace at once, one can remove the socket of the other's
  host, which serves on out of reach with the worker started through it. A leaving host
  does the same to its successor when it unlinks whatever the path names (`acp.py:1585`).

* `renew` does not look at other claims, so that a renewal computed in time and
  appended late revives a lease over a scope somebody else has taken.
* Change Set records are appended without comparing the head: a transition can
  narrow a scope declared meanwhile, and two refreshes can give one observation id
  to two observations, so that an audit is not told from that of another head.
* The gate of a merge and the merge read the Change Set separately: what is merged
  need not be what the gate looked at, although head movement must prevent the reuse
  of a review (`docs/security.md:46-48`).
* The retry of an interrupted claim of a task is refused for good once its lease has
  run out before the task was started.
* A JSONL record without its newline is accepted and then written to, after which
  the ledger cannot be read.
* Two tasks of a snapshot can be promoted into one Change Set when callers name it
  for both, and two finishers of one promotion can both create the Change Set, the
  later record replacing the earlier (`Shared` in `AnswerIsBacked`).
* An observation of a worker is recorded behind later ones, with the fingerprint of
  whatever record is then the last; a stop that gets no answer is recorded as exited
  without a process number; an agent whose record could not be appended, or whose
  host was killed, runs on unknown until a start finds its session.
* A host leaves with its worker alive when it cannot write a reply, or when the deadline
  of an earlier stop passes after the worker was started again; the agent is left to
  itself. Requests less than half a second apart keep a stopped host.
* `docs/contracts/acp-runtime-adapter-v0.md:37-38`: a transport failure becomes `failed`.
  When the reader ends on a line or a reply of its own above 1 MiB while no prompt is under way, the
  session stays `awaiting_input` with its process up; the next prompt is sent, nobody
  reads its answer, and the session says `running` for the hour of the timeout.
* `stop_worker` sends `session/cancel` before it closes and kills, under the lock that a
  prompt or the reader holds while its write waits in the pipe (`acp.py:164`, `626`): an
  agent that does not read keeps its stop waiting.
* `docs/contracts/runtime-provider-handoff-v0.md:48` asks for a fresh process: a start
  that the destination answers with a session it has already counts as completed.
* A summary marks a worker exited when its process has ended, while the reader still
  serves the requests it had sent; a stop may be answered while one of them is being
  served.
* A review is recognised by a retry by its Change Set and author, whatever it said.
* The forge is read page by page by number: when objects leave a listing, others are
  missed, and no answer says so. That includes a check of Gitea or a build of Azure
  that moves to the front of its listing. A full last allowed page of Bitbucket is an error.

## Not modelled

* `frog_parity.py`, `frog_projection.py`, `status.py`, `kanban_projection.py`,
  `bundle.py`, `handoff_context.py`, `nostoi.py`, `runtime_status.py`: folds of one
  snapshot into a report; they change nothing and read once.
* The parsers of plans, Frog documents, bundles and provider answers beyond the
  words the properties tell apart; canonical JSON, secret screening, digests, which
  stand here for what they are computed from.
* The Git commands of `git_local.py` and the worktrees that `acp.py` makes: one
  command each, whose refusals the models have as refusals. No service removes a
  worktree: `cleanup_change_workspace` can be asked of a host and nothing asks it.
* CAD evidence: one sequential validation of one document.
* Request parsing, routing and authentication of the HTTP and MCP servers, the
  command line and the terminal interface, and the web, desktop and edge code outside
  `src/src/weftmark`.
* In modelled components: base and branch of a Change Set (lineage treats them as the
  head), superseded handoffs, optional evidence kinds, waivers and further findings,
  environment fingerprints, `observe_expiry`, which nothing calls.

## Plan

1. `TaskWork` with two tasks over `TaskGraph`: what eligibility is worth when a
   conflicting task is reserved between its judgement and the reservation.
2. `ClaimService` and `ScopeOwnership` under `TaskWork` and `FrogIntent` in place of
   refusals at any time.
3. The path of `AcpHost` with one command that spawns: which of the commands then reach
   the worker, given that a leaving host still unlinks its successor's socket.
