# A TLA+ model of server-ops-agent

server-ops-agent (`src/serverAgentProgarm`) watches a Linux server. A Runner
collects snapshots, a detector turns them into incidents, an LLM investigates
each incident and recommends a runbook, and a permission engine decides whether
the runbook's command may run at once or has to wait for a human. Around that
loop stand a knowledge base of past recoveries, a conversation that is cut down
when it grows, a memory kept in files, tools of other people's servers, and the
SSH connection everything is measured over. This directory models these parts
in TLA+, checks them with TLC, and proves every safety property that is checked,
for all values of the constants, with TLAPS. Paths below are relative to
`src/serverAgentProgarm/app/` unless they start with `src/`.

## The system

| component | state it keeps | operations | talks to |
|---|---|---|---|
| Detector (`detect/detector.py`, `rules.py`) | two streaks per kind and the set of kinds ever opened; memory only | `check` | called by the Runner |
| Incident service (`detect/incident_service.py`) | table `incidents` | `apply`, `update_status`, `find_open_kind_set` | Runner, alerter |
| Runner (`runtime/runner.py`) | none between ticks but the detector; `detail["investigate_retry_count"]` of an incident | `run`, `tick`, `_handle_open`, `_handle_awaiting` | everything below |
| Investigator and agent loop (`runtime/investigator.py`, `agent/loop.py`) | the conversation | `investigate`, `run_agent` | LLM, executor, memory |
| Remediation service (`remediation/`) | tables `remediation_records`, `remediation_contexts` | `execute_runbook`, `verify` | executor |
| Executor and permission engine (`agent/executor.py`, `security/policy.py`, `audit.py`) | table `audit_logs` | `execute`, `check` | tools, approval desk |
| Approval desk (`security/approval.py`) | table `approval_requests` | `create_pending`, `approve`, `reject`, `expire_stale` | executor; called by web, CLI, Runner |
| Recovery cases and index (`knowledge/`) | table `recovery_case_records`, a vector index, a coordinator thread | `record_outcome`, `reconcile`, `sync`, `notify`, `stop` | Runner, embeddings |
| Long-term memory (`agent/memory.py`) | files, their index `MEMORY.md`, one temporary directory | `load_memories`, `extract_memories`, `consolidate_memories` | LLM; called by the agent loop |
| Compaction (`agent/compact.py`) | a count of failed summaries, for the whole process | `snip_compact`, `micro_compact`, `compact_history`, `reactive_compact` | LLM; called by the agent loop |
| Collector, scheduler and SSH client (`monitor/`, `ssh/`) | the connection | `collect`, `run_once`, `run`, `connect` | the server, the detector |
| MCP tools (`mcp/client.py`, `tools/mcp.py`) | the names registered at the start | `register_mcp_tools`, `invoke_tool` | somebody else's servers |
| LLM client, built-in tools | none | ask the model, run a command | the outside |
| Web API, CLI, auth, Vue front end | users, chat | read the tables; call `approve`, `reject`, `knowledge sync`, `revoke-case` | approval desk, knowledge |

Processes do not share memory. The Runner is one process and the only one that
moves incidents, records and contexts; web requests and CLI commands are other
threads and processes that call `approve` and `reject`. They meet in database
rows, and no row is locked: each operation is a sequence of short transactions
with model calls, tool runs and sleeps between them. That is where the hard
behaviour is: two callers of `approve`, a decision next to an expiry, a crash
between two commits, an event that is reported once and lost, retries, and
statuses nothing ever looks at again. `PROJECT.json` lists each such hazard at
its line, and the properties that would notice it.

What makes each component correct, in a sentence:

* detector: one event per confirmed change of a kind, whatever the stream and
  the restarts;
* incidents: one open incident per kind, only allowed transitions, every
  incident ends, and `resolved` means somebody verified it or the detector saw
  the recovery;
* approvals: what runs is what a human was shown, once, before the deadline;
  decisions stand; a request is settled however its callers end;
* remediation: each incident gets one record at most, which belongs to its request
  and its incident; a recorded outcome is what its record said;
* knowledge: one sync at a time, no notification lost, a verified case is in the
  index or on record as work, a revoked one stays out of it;
* conversation: the instructions and the newest results reach the model, calls
  and results stay paired, a turn ends once its tools have come back, and an
  investigation cites only what the model was shown;
* memory: nothing that was written down is lost by a failure or a crash, and the
  index lists what there is;
* monitor: a command is repeated once at most, a broken connection is not
  reported as a service that is down, a snapshot ends if the server answers;
* MCP: a tool is called under the agreed contract, once, and one bad tool costs
  no other.

## The modules

| module | what it is |
|---|---|
| `Approvals` | the approval desk: rows, concurrent callers of `approve` and `reject`, sweep, clock |
| `Detector` | the debouncing detector |
| `Runner` | the Runner, composed of `Detector` and `Approvals` (both by `INSTANCE`) with incidents, records, contexts and cases |
| `KnowledgeSync` | the coordinator: one background worker, notifications, retries, stop |
| `Knowledge` | cases, reconcile, the index and its marks, with `KnowledgeSync` (by `INSTANCE`), the command line's sync and crashes |
| `Compaction` | snipping and shortening as functions on a sequence of messages |
| `Conversation` | the agent loop over `Compaction` (by `EXTENDS`): chats and investigations, summaries, the breaker, the emergency |
| `Memory` | memory files: loads, extractions and consolidations of several sessions |
| `Monitor` | the patrol: collector, SSH client and `Detector` (by `INSTANCE`) |
| `Mcp` | registration and calls of external tools |
| `MCApprovals`, `MCDetector`, `MCRunner`, `MCKnowledge`, `MCConversation`, `MCMemory`, `MCMonitor`, `MCMcp` | the instances TLC checks; `MCDetector` also adds the history the detector is compared with, `MCApprovals` the history of callers that met or died |
| `ApprovalsProofs`, `DetectorProofs`, `RunnerProofs`, `KnowledgeProofs`, `ConversationProofs`, `MemoryProofs`, `MonitorProofs`, `McpProofs` | theorems; `RunnerProofs` begins with what the Runner keeps of the desk (the lemmas of `ApprovalsProofs` stated of its instance, since a theorem cannot be cited through `INSTANCE`) |

A definition whose comment says "Mutant" is the definition after it with a
plausible bug. No specification uses it. It is there to show that a property of
the runs notices the bug: with the definition replaced by its mutant, TLC finds
the property violated (`PROJECT.json`, "mutants").

### Approvals

`req[r]` is the row with id `r`; `left[r]` is `expires_at - now`. `op[p]` is
the program counter and the locals of operator `p` inside `approve` or
`reject`. `asked`, `ran` and `runs` are history variables: the call a row was
created for and the tool runs made under it. `MCApprovals` adds `met` and
`lost`: the requests two callers were inside for at once, and those whose tool
was run by a caller that then died.

| action | code |
|---|---|
| `CreatePending` | `create_pending` (27-39), one commit |
| `ApproveStart`, `ApproveLate` | `approve` up to the tool call: the one read of the row and the checks on it (57-76). The outcomes "missing", "decided" and "tampered" return a message and change nothing |
| `ExpireWrite` | the "expired" branch's commit (69-73) |
| `ApproveRun`, `ApproveRefused` | `executor.execute(..., approved=True)` (77; `executor.py` 33-118): the tool runs, or the call is denied or unknown |
| `ApproveCommit` | the final UPDATE (78-82), keyed by id only |
| `RejectStart`, `RejectWrite` | `reject`: check (94-99), UPDATE by id (100-108) |
| `ExpireStale` | `expire_stale`: one UPDATE with a WHERE on status and deadline |
| `OperatorFail` | the caller dies, or its commit raises |
| `Tick`, `Tamper` | the clock; somebody edits the `args` column |

Two abstractions matter. Time: only `now > expires_at` is ever asked, so
`left` stays at -1 once it is there. Digests: SHA-256 over canonical JSON is the
constant function `Fingerprint`, assumed injective on the argument objects.

### Detector

`Check` maps one snapshot, as a reading per kind (breached, normal, or missing
when the field is absent), to new streaks, `openKinds` and at most one event per
kind; `Restart(known)` is a new process with the kinds found on record. Streaks
are compared with `==` in the code, so a streak past `Sustain[k]` is kept at
`Sustain[k] + 1`.

### Runner

`run` is the process: where it is in `tick()`, the ids its loop has still to
visit, and its locals. `inc`, `job` and `cases` are the tables (a job is a
record and its context, which the code creates in pairs). Between two actions
lies at least one commit, one model call or one tool run of the code, so
operators, faults and the clock can come in wherever they can in the program.

| actions | code |
|---|---|
| `Collect`, `Apply`, `Sweep`, `ListAwaiting`, `EndTick` | `tick` (70-124), `IncidentService.apply` |
| `Claim`, `NoConclusion`, `NoRunbook`, `ChooseRunbook` | `_handle_open` (127-205) |
| `ModelRestarts` | a `restart_service` call the model makes while investigating, suspended without an incident id |
| `CreateRecord`, `CreateContext`, `Suspend`, `Link`, `ExecuteNow`, `ExecuteFails`, `VerifyNow` | `execute_runbook`, commit by commit, with the executor's gate |
| `StillPending`, `Refused`, `ApprovedInVain`, `ApprovedAndRun`, `CompleteContext` | `_handle_awaiting` (235-337) |
| `Settle`, `RecordCase` | the `update_status` and the case at the end of both handlers |
| `Reconcile` | `reconcile` (`knowledge/case_service.py` 144-157), in the background worker or in `knowledge sync`: at any moment it files the case of a record with a verdict |
| `ModelRaises`, `DatabaseRaises`, `Crash`, `Boot` | an exception leaves `tick` and is logged by `run`; the process dies; `run` starts |
| `Desk` | any step of `Approvals` that belongs to operators, or the clock |

A database failure is modelled as abandoning the tick at any point after the
detector has moved; one inside the recording of a case is swallowed by the code
and so changes nothing.

The verdict of a record is committed before its incident moves on, so a tick
that is cut off in between is followed by another that verifies again and
rewrites the record. `verdicts`, a history component of a record, counts its
verdicts up to 2. `Waiting` names the states in which the process waits for the
server, for the model or for somebody to start it.

### KnowledgeSync and Knowledge

`KnowledgeSync` is the coordinator object: `dirty` and `stopped`, the `_run`
tasks of its one-thread pool, and where the thread is in `_run`. `Knowledge`
adds the tables: `record[r]` (a remediation record: running, closed, or
"unsettled", closed by a tick that was cut off and so to be rewritten), `case[r]`
(its case, `NoCase` if none), `index` (the rows the index file was built from)
and `syn[p]`, the locals of `RecoveryIndexer.sync` of the background worker and
of the command line.

| action | code |
|---|---|
| `K!Notify`, `K!Begin`, `K!StartSync`, `K!TryAgain`, `K!Decide`, `K!Leave`, `K!Stop` | `KnowledgeSyncCoordinator` (`knowledge/background.py`), between two acquisitions of its lock |
| `CutOff` | a tick that ends between the verdict and the incident's move (`runtime/runner.py` 317-325) |
| `Close`, `Look`, `Insert`, `Notify`, `RecordingFails` | `_record_recovery_outcome_if_enabled` of the Runner, `record_outcome` |
| `ListRecords`, `LookUp`, `AddMissing`, `AddedByOther` | `reconcile` (`knowledge/case_service.py`): list, then one `record_outcome` per record; the unique column |
| `ReadCases`, `Build`, `BuildFails`, `Mark`, `MarkFailed`, `SyncFails` | `sync` (`knowledge/indexer.py`), `index_documents`, the index file written aside and moved into place (`knowledge/retriever.py`) |
| `CliSync`, `Revoke` | `serveragent knowledge sync`, `revoke-case` |
| `Shutdown`, `Exit`, `Crash`, `Boot` | the Runner's `run`: stop and wait, or die; at the start announce what is left |

`owed`, `raced` and `gone` are history variables. `owed`: a notification was
accepted outside the exit window and no sync has begun since. `raced`: cases
added after a sync had read the rows and before it marked them. `gone`: revoked
cases a later sync has put out of the index.

### Compaction and Conversation

A message is its role, the ids of the calls it makes or the id it answers, a
size and the citation ids in it. `Compaction` defines `Snip`, `Micro` and their
helpers as the code computes them (blocks from the end, unseen results, oldest
first until the target); the tests' sizes are a weight for a long result and 1
for anything else.

| action | code |
|---|---|
| `Chat`, `ChatOn`, `Investigate` | a web request or the first turn on the command line; the next turn; `investigate` |
| `Compact`, `SendAll`, `GuardStops` | the head of the loop in `run_agent` (`agent/loop.py`) with and without a context; `max_steps` |
| `SummaryArrives`, `SummaryFails` | `compact_history` and `reactive_compact` with and without an answer |
| `Answers`, `CallsTools`, `Overflows`, `RequestFails` | what the model's API does with a request |
| `RunTool`, `ToolRaises` | one tool call: a result, an error, or arguments that are no JSON |
| `OtherAsks`, `OtherReturns` | `compact_history` in other chats of the process, which share `_consecutive_failures` |

### Memory

`files`, `tmp` and `index` are the directory, `.memory_tmp` and `MEMORY.md`; a
file is a set of facts, an empty set standing for one whose front matter was
never written. `sess[s]` is where a session is in the code, and its locals.

| action | code (`agent/memory.py`) |
|---|---|
| `Load`, `ReadBody` | `select_relevant_memories`, `load_memories` |
| `Extract`, `CheckName`, `WriteFile`, `Scan`, `WriteIndex` | `extract_memories`, `write_memory_file`, `_rebuild_index` |
| `ListAll`, `ReadCorpus`, `NoAnswer`, `Prepare`, `Fill`, `Place`, `Move`, `Clean`, `Sweep` | `consolidate_memories`, change by change |
| `Raises`, `Killed` | a file system error, with its `finally`; a killed process |

### Monitor

| action | code |
|---|---|
| `Wake`, `Detects`, `StoreFails` | `monitor/scheduler.py`: collect, commit, show to the detector |
| `CheckTransport`, `Connects`, `ConnectFails`, `Send`, `Accepted`, `Refused`, `Exits`, `ExitFails` | `SSHClient.run` (`ssh/ssh_client.py`), once per query of the collector |
| `Answered`, `Failed` | what a query's answer or failure does to the snapshot (`monitor/collector.py`) |
| `Changes`, `Breaks`, `Noticed` | the server, the network, and the transport's notice of it |

`link` tells a connection that was cut from one whose peer fell silent. A request
may be refused on a connection that is alive (`Refused`), and a command need not
end on one (`Exits` is never owed, see Fairness). `torn`
and `wasDown` are history variables of a service.

### Mcp

| action | code |
|---|---|
| `Discover`, `Admit`, `Restart` | `register_mcp_tools` (`tools/mcp.py`), per server |
| `Invoke`, `SendCall`, `RefuseCall`, `Returns` | `invoke_tool` (`mcp/client.py`) |
| `Opened`, `Page`, `BadPage` | `_open_client`, `_list_all`: pages, cursors, limits |
| `Fails` | the server fails, or `asyncio.timeout` ends the session |
| `Upgrade` | the server changes its tools, at any time |

A contract is what the digest of a tool's definition stands for: the agreed
one, another, or the agreed one declared to write.

## What is checked

| run | instance | properties |
|---|---|---|
| `approvals` | one request, two operators that may die or hang, two argument objects, `Ttl` 1 | `IInv` (the inductive invariant of the proofs), `ConsentBound`, `SuccessIsReal`, `RunsOnceUnlessCutOff`, `SettledIsFinal`, `DecisionStandsUnlessMet`, `EveryRequestSettles` |
| `detector` | two kinds with sustain 3 and 2, up to 7 snapshots between restarts | `OpensExactlyOnce`, `ResolvesExactlyOnce` |
| `runner_faults` | one incident, two operators, a gated runbook and one that is not, every fault, cases filed at any moment | `AwaitingCanProceed`, `OneJobPerIncident`, `CasesAgree`, `VerifiedCasesAreReal`, `ResolvedIsProven`, `EveryIncidentRests`, `AwaitingSurvivesFaults` |
| `runner_two` | two incidents of one kind, two requests, one operator, one restart call of the model's own, crashes and a model that raises | `OneOpenPerKind`, `TicketMatchesJob`, `RecoveryCloses` |
| `knowledge` | two records of one signature, two attempts per sync, the worker, the command line, crashes, failures | `OneWorker`, `HeardIsKept`, `FoundUnlessRaced`, `RevokedStaysOut`, `EveryCaseFound` |
| `conversation` | histories of up to 12 messages, two calls per answer, two rounds, two turns, one other chat | `InstructionsStay`, `NewestIsSent`, `PairedUnlessCut`, `BreakerHolds`, `ConclusionIsGrounded`, `EveryTurnEnds` |
| `memory` | two sessions, two names, two facts, consolidation from two files on | `KeptUnlessRaced`, `IndexIsTrue`, `LoadMissesNothing` |
| `monitor` | one metric and one service, sustain 1 and 2, connections that are cut or fall silent | `RunsTwiceAtMost`, `FalseAlarmIsEarned`, `EverySnapshotEnds` |
| `mcp` | two servers with three tools, two pages and two cursors, upgrades at any time | `CalledAsAgreed`, `CalledOnceAtMost`, `OfferedIffAgreed`, `EverySessionEnds` |

Three runs show the code doing something else than a comment or the
documentation says (`PROJECT.json`, "findings"):

* `stuck_investigating`: if the model call raises, the incident stays
  "investigating" for ever (`NoneLeftInvestigating`).
* `retries`: an incident is given up when it was investigated
  `INVESTIGATE_MAX_RETRIES` times, and so after one retry fewer than
  `src/README.en.md:70` and `src/README.md:67` say (`RetriedAsDocumented`).
* `snip_splits_pairs`: snipping can separate a call from its results when a
  batch of results is longer than the room left for the tail, although the
  comment says it does not (`PairsStayTogether`).

### What else the models showed

Read these next to the properties: they say why several are stated with an
exception. None has a run of its own.

Approvals and Runner:

* two callers of `approve` that both read "pending" run the tool twice, which
  the root README lists as still to do; a caller that dies between the tool run
  and its commit leaves the row pending, so even one operator may run it twice.
  These are the only two ways (`RunsOnceUnlessCutOff`);
* the commit after a tool run is keyed by id only: it overwrites an "expired"
  that the sweep has written meanwhile, and two operators that are inside
  together overwrite each other's answers, but only they do
  (`DecisionStandsUnlessMet`);
* a case can go stale: a verdict is committed, `reconcile` files it, the process
  dies before the incident moves on, and the next tick verifies again and
  rewrites the record. The case keeps the first verdict for good. `CasesAgree`
  excepts records with a second verdict, and no other;
* `collect` comes first in a tick: while it hangs or raises, nothing is swept and
  no incident moves;
* after an approval the record keeps `exec_status = "approval_required"`, and a
  failed verification is filed as "execution_failed";
* a streak equals its length only once, so a "resolve" whose commit raises is
  never reported again: `RecoveryCloses` fails with `"db"` among the faults.

Knowledge:

* a case added between a sync's read and its mark is marked as indexed although
  it is not in the index (`knowledge/indexer.py:42`, against
  `src/README.md:211`); `raced` excepts it. In the same way a sync holding rows
  read before a revocation puts the case back;
* a failed outcome's `aggregate_dirty` is never cleared, so every start notifies;
* `stop()` waits for a sync that is queued, and lets it run;
* the unique column ends a reconcile, or suppresses a notification, when the
  other side was first; a record closed before a crash is picked up by a later
  reconcile only;
* a notification in the exit window of `_run` goes unheard, as
  `src/README.md:211` acknowledges; `Unheard` excepts it.

Conversation:

* `reactive_compact` promises a shorter history, but if no summary can be had
  it returns ten messages or fewer as they are; the tail a snip keeps may be
  empty;
* once open, with no request in flight, the breaker stays open for the life of
  the process;
* `micro_compact` changes messages in place, so the history memories are
  extracted from is not the full one.

Memory:

* sessions share no lock. A check for a name and the write after it are two
  steps; a consolidation lists the old files after the model has answered and
  deletes what others wrote meanwhile; two consolidations share the temporary
  directory, and one removing it can make the other delete every old file.
  `raced` excepts all that;
* facts that move between two files of which one is overwritten are lost if the
  process dies between the moves, since the next consolidation empties the
  temporary directory; `adrift` excepts them;
* a file without front matter blocks its name and is deleted unread by the next
  consolidation; a file that is gone makes a load raise.

Monitor:

* `recv_exit_status` has no time limit and no keepalive is set; the 10 seconds of
  `exec_command` do not bound it. A server that falls silent, a command that
  hangs, or one that fills the channel before its output is read stops the patrol
  for ever, and so it does a tick, a turn or a caller of `approve` that runs a
  command. `EverySnapshotEnds` names that wait as the only one;
* a query of a service that fails is read as "unknown", which counts as down:
  a connection lost within snapshots, often enough, raises a false alarm.
  `FalseAlarmIsEarned` says exactly when;
* `EOFError` is not retried; streaks survive snapshots that were abandoned.

MCP:

* a contract may change between the listing and the call of one session, which
  `CalledAsAgreed` excepts; a call that timed out may have taken effect.

### Bounds, and why they are enough

* Requests and incidents are independent rows: the code never reads two of them
  to decide about one, except `Latest(RequestsOf(i))` and the deduplication per
  kind. One row with two callers shows all interleavings of `approve`, `reject`
  and sweep; two incidents of one kind and two requests show deduplication and
  mismatched links.
* Two operators: every read-check-write of the desk involves one caller and one
  that comes in between. The same holds for two memory sessions and for the two
  syncs, of which the code has no more.
* `Ttl` of 0 or 1 gives a request that is on time, on its deadline and late.
* `MaxHistory` 7 is more than twice the longest sustain: breach run, recovery
  run and a second run fit into one history.
* `MaxRetries` 2 is the default setting. `MaxOrphans` bounds the calls the model
  makes by itself.
* `Sustain` is 1 where the debouncing plays no part in the property, and 2 for
  the service of `monitor`, so that one lost query alone must not be enough.
* Two records of one signature show a group that a case joins or leaves; one of
  them may be closed before the knowledge base is switched on (`Earlier`).
* `MaxMessages` 12 and `HeadKept` 3 stand for 50 and 3: `RoomForTwoBatches`
  states what of the real proportion the properties need, and that run's bounds
  reach histories that are snipped, shortened and summarised. `MaxSteps` 2 gives
  a second round after results; `MaxOthers` 1 lets a summary be in flight when
  the breaker opens.
* `PageSize` 1 with `MaxPages` 2 and `MaxTools` 2 makes the limits bite.

`MaxIncidents` and `MaxJobs` bound the rows: `Collect` does not take a snapshot
that would open an incident too many, and no property speaks of the moment the
tables are full. Only `memory` uses symmetry (sessions, names and facts are
treated alike, and its properties are invariants) and a constraint: states after
two sessions have raced are not explored, because its properties claim nothing
of them. Every `TypeOK` and every inductive invariant of the proofs was checked on
the same instances, and every `TypeOK` is proved. Two operators that may die are
checked in `approvals`; next to the Runner (`runner_faults`) they do not die, which
keeps its liveness within reach, while the theorems about the Runner have no such bound.

### Fairness

No call to the watched server, and no answer of a human, is ever owed: a command
that runs over SSH is waited for without limit (`ssh/ssh_client.py:62`). Each
specification is weakly fair in what its process does by itself, and where a
liveness property needs more, that is a premise of the property and can be read
in it.

* `Approvals` assumes that time passes, and that a caller which is not in a tool run
  goes on to its commit. A caller may stay in a tool run for ever. That the sweep
  goes on, which the Runner reaches only when `collect` has returned, is the premise
  of `EveryRequestSettles`: then every request settles, whatever its callers do, and
  what is left are callers whose tool never came back.
* `Runner` assumes the clock, and the steps of the loop outside `Waiting`: between
  commits there are only statements and database calls. `GetsOn` is the premise of
  `EveryIncidentRests` and `AwaitingSurvivesFaults`: faults stop, and the process is
  not in `Waiting` for ever (`collect` and the model return, a verification ends,
  a process that is down is started). What the properties add is that nothing else
  can hold an incident up: no status, no lost commit, no request that nobody
  answers.
* `Conversation` and `Monitor` assume the steps of their loop outside `Waiting`, where
  `Waiting` is a tool that runs, or a request or command that was sent to the server;
  requests to the model (`llm/llm_client.py:14`) and the connect have a time limit.
  `EveryTurnEnds` and `EverySnapshotEnds` have the premise that no such wait lasts for
  ever.
* `Knowledge` assumes that threads and the command line go on with what they
  began; that somebody calls the command line's sync again and again is a premise
  of `EveryCaseFound`, and so is that faults stop.
* `Mcp` assumes the time limit of a session (`Fails`, `mcp/client.py:138`) and the
  client's own decisions, nothing of servers. `Memory` states no liveness.

## What is proved

Every safety invariant and every action property of the passing runs is the
statement of a theorem. The runs show it on a small instance, the theorem for
any sets and numbers the assumptions allow.

`ApprovalsProofs.tla` proves, for any sets of requests, operators, argument
objects and incidents and any `Ttl`:

* `TypeCorrect`: `Spec => []TypeOK`;
* `InvariantHolds`: `Spec => [](TypeOK /\ IInv)`, and from it
  `ConsentIsBinding`, `SuccessIsARun` and `ExpiryIsLate`;
* `SettledStays`: `Spec => SettledIsFinal`;
* `RunsOnce` and `DecisionsStand`, of the desk with the history `MCApprovals` adds:
  `MCSpec => []RunsOnceUnlessCutOff` and `MCSpec => DecisionStandsUnlessMet`, for any
  number of callers that may overlap and die.

The three safety properties are not inductive. That a tool ran with the
arguments that were asked for depends on what its caller carried since it
checked the digest; that in turn depends on the row still holding the digest of
the original call although its args may have been edited. `IInv` adds those two
parts (`RowInv`: a row keeps its digest; `CallInv`: every caller inside
`approve` carries what it has checked). The step from an equal digest to equal
arguments is `FingerprintAssumption`. For the last two theorems `MetInv` says of
every request outside `met` and `lost` that it ran once at most, and that if it is
pending all the same a caller is about to commit that run (`RunsCounted`); and of
one outside `met` that nobody is inside for it once it was answered
(`DecidedAlone`). The desk does not see the history (`HistoriesWatch`).

`DetectorProofs.tla` proves, for any kinds, streak lengths and histories,
`DetectorTypeCorrect`, `OpenedExactlyOnce` and `ResolvedExactlyOnce`, of the
detector together with the history `MCDetector` adds. The detector never sees
the history: it has two counters and a set. `Counts` says what a counter is of
the history, the length of its last run, exact up to `Sustain` and stuck one past
it, which is what makes "equal to `Sustain`" true once per run; `OpenInv` says the
same of the set and the runs that were ever long enough. A missing reading
changes neither, which is why `EventInv` asks for the latest reading as well.

`RunnerProofs.tla` proves, for any kinds, runbooks, operators, faults, retry budget
and bounds on the tables:

* `TypeCorrect` and `InvariantHolds`: `Spec => []TypeOK`, `Spec => []IInv`;
* `TicketsMatch`, `RemediatedOnce` and `AwaitingProceeds`: requests, records and
  incidents belong together, one record per incident, and what awaits can go on;
* `ResolvedProven` and `GivesUpLate`: what must be true when an incident is
  resolved, and when it is given up (the latter is no promise of the
  documentation, see the run `retries`);
* `CasesStayTrue` and `VerifiedCasesReal`: a case disagrees with its record only if
  that was given a second verdict, and a gated recovery is recorded as verified
  only if its call really ran;
* `OpenedOnce`: one open incident per kind; and `RecoveryClosed`, if the database
  does not fail (`"db" \notin Faults`);
* `DeskImplemented`: `Spec => A!Spec`, the Runner with everything around it is a
  user of the approval desk as `Approvals` specifies it, step by step.

The three tables are written in different commits, so no property is inductive
alone. `IInv` says what the process has in hand at every statement of `tick`
(`OpenInv` for an incident it took up as open, `AwaitInv` for one that awaits), what
is true of the incidents nobody has in hand (`IncidentInv`) and how records and
requests refer to each other (`TablesInv`), next to what the desk keeps by itself
(`A!IInv`) and what a result stands for (`ResultInv`). A fault throws the hand away and
leaves the tables, so every part about tables has to hold without a process.
`OpenedOnce` and `RecoveryClosed` need more: an incident counts as held (`Held`) also
while a tick may still put it back to open, and a held one's kind is one the
detector will report as recovered and has not reported yet (`KindInv`,
`ClosingInv`). A case may be filed by the Runner or, at any moment, by `reconcile`,
so `CaseInv` is about the record: one that has a case has been given a verdict, and
as long as it has been given only one, the case says what its columns say
(`CaseOf`), whatever operators wrote over each other meanwhile; and a record the
Runner is about to tell of has a verdict (`TellInv`). The ids that new incidents of
one commit get are counted, and that they are free is an argument about finite sets
(`LatestIs`).

`KnowledgeProofs.tla` proves, for any set of records, any signatures and any
number of attempts:

* `TypeCorrect`: `Spec => []TypeOK`;
* `OneWorkerOnly` and `NoticesAreKept`, from an invariant of the coordinator
  alone: at most one task exists, and what is owed is on its way to a sync in
  one of the places `HeardIsKept` lists;
* `CasesAreFound` and `RevokedCasesStayOut`, from `IndexInv`. That an indexed
  mark is true depends on what a sync in progress will put in the index and on
  what it read: the invariant says of every verified case outside `raced` that
  each sync between its read and its mark holds it, and of every case in `gone`
  that no sync still to build holds it. `Quiet` covers the many steps that
  touch none of this.

`McpProofs.tla` proves, for any servers, tools, limits and page sizes,
`TypeCorrect`, `CallsAreAgreed`, `CallsAreSingle` and `OffersAreAgreed`. What a
session has listed is what its server has until it changes (`Agrees`); what
discovery found at a server is recorded once, when it is admitted, and is empty
until then (`Unasked`), which is why admitting one server changes nothing for
the tools of another.

`MonitorProofs.tla` proves, for any metrics, services and streak lengths,
`TypeCorrect`, `RepeatedOnce` and `AlarmsAreEarned`. The first query of a
snapshot is a metric's (`MetricsFirst`), and a metric that fails makes the
snapshot void; so when a service's query is lost another one has got through,
and `AlarmInv` accounts for every reading in a service's streak by an outage of
the service or by a torn snapshot.

`ConversationProofs.tla` proves, for any lengths, weights, thresholds and bounds:

* `TypeCorrect`: `Spec => []TypeOK`;
* `BreakerIsKept`. The failures there are and the summaries waited for are bounded
  together (`BreakerInv`): one is only asked for while the breaker is closed;
* `ConclusionsAreGrounded`;
* `InstructionsAreKept`, from a shape every history has (`MessagesInv`): it opens with
  the system prompt and has more than that, and no run of results is longer than
  `MaxCalls`;
* `NewestReachesModel`, if `MaxMessages >= HeadKept + 3 * MaxCalls + 3`, which is
  `RoomForTwoBatches` on the instances and holds of the code's 50 and 3 for up to 14
  calls per answer. The last batch of results is then in the tail a snip keeps:
  the boundary `Snip` moves to the front of a batch moves over one batch at most
  (`SnipKeepsNewest`), and `Micro` shortens only what was read;
* `UncutIsPaired`: calls and results pair up but for those a batch under way still
  lacks (`PairInv`), through every way out of the loop.

`MemoryProofs.tla` proves, for any sessions, names, facts and bounds, `TypeCorrect`,
`MemoriesAreKept`, `IndexStaysTrue` and `LoadsMissNothing`. A session acts on what it
read some steps ago, and nothing stops another from changing it, so the invariant
holds until two have been busy at once (`raced`), and then nothing is claimed. Until
then `WorkInv` says, step by step, how the answer of the model, the temporary
directory and the files agree: in the middle of a replacement a file says what the
answer says, or still has its old contents, and what an overwritten file said and
the answer puts elsewhere is `adrift`. That a file which is replaced goes on saying
what is owed (`Overwrites`) is what both the files and a load in progress need;
`LoadInv` speaks of the facts a load is due, and of the files it has still to read.

The proofs rest on the named assumptions of the modules (`ApprovalsAssumption`,
`FingerprintAssumption`, `DetectorAssumption`, `RunnerAssumption`,
`KnowledgeAssumption`, `CompactionAssumption`, `ConversationAssumption`,
`MemoryAssumption`, `MonitorAssumption`, `McpAssumption`), which TLC evaluates on every
instance, and on the premises named above. Model-checked only: the liveness
properties (`EveryRequestSettles`, `EveryIncidentRests`, `AwaitingSurvivesFaults`,
`EveryCaseFound`, `EveryTurnEnds`, `EverySnapshotEnds`, `EverySessionEnds`): the provers
do not handle fairness and ENABLED.

## What is not modelled

Output truncation, audit rows, alerts, wording and logging; the comparison of
values in `Verifier` (a verification passes or fails freely); thresholds; what
the model says, beyond "nothing usable", "no runbook" and "this runbook"; the
text of an incident's history; ranking and scoring in the retriever and in the
choice of memories; the JSON schemas of MCP tools (a schema fits or does not);
what a chat does with recovery cases. Authentication, web views, CLI and front
end read the tables or call operations that are modelled, and keep no state of
their own that several steps depend on.

## Plan

1. `IncidentLifecycle`: what an incident promises (its status and what must be
   proved before it is resolved), with `Runner` shown to implement it.
2. Action properties that would say more of `Memory` and `Mcp` than their
   invariants do (what one step may take out of a file, or out of the registry).
