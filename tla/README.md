# Formal model of the ops control plane

TLA+ modules that model the control plane of this repository, the TLC
configurations that check them on small instances, and TLAPS proofs of the
properties that matter most for every instance. Paths below are relative to
`src/`.

## 1. Inventory

The control plane lets agents (models) operate machines under a policy. An agent
asks the **broker** for an action of a runbook; class A runs at once, class B
within a budget, class C after a person has approved it in Zulip. The **bridge**
carries pending approvals, alerts and reports to Zulip, and reactions and
commands from there to the broker. The **orchestrator** routes model calls to
providers under budgets, and offers a chat endpoint (the façade) to Hermes. The
**memory** keeps what the agents learn in a catalogue and a vector index, fed by
a collector. **native_ops** answers people in a Zulip channel through the paid
API or a supervised CLI, and runs workflows. Timers back up the broker, the
memory and OpenBao.

| Component | State | Operations | What is hard | What makes it correct |
|---|---|---|---|---|
| Broker, actions and approvals (`broker/src/ops_broker/service.py`) | SQLite tables `actions`, `approvals`, `budget_usage`, `events` | `request_action`, `execute_action`, `decide_approval`, recovery at start | several processes share one database; rows read in one transaction and written in another; clocks sampled before transactions; crashes between claim and result; duplicated chat events | the helper of an action runs at most once; class C only after another allowlisted person approved; one decision per action and event; budget windows; complete audit; running actions end |
| Broker, missions (`mission_control.py`, `service.py`) | `missions`, `mission_runtime`, `mission_claim_operations`, `resource_locks` | `claim_next`, heartbeat, release, lock operations, status changes, recovery | leases against stale clock samples; late heartbeats; restarts; retries | no two workers hold a mission or a resource; the queue follows the status |
| Broker, mission context and backup (`mission_control.py`, `service.py`, `backup.py`) | runtime fields, checkpoints, records, traces, incidents, artifacts; backups | idempotent calls, copy, publish, prune | lost answers and retries after newer calls; request ids that come back with another content; a backup beside writers | what was answered is stored and counted once; every backup verifies |
| Broker, audit log (`database.py`), model trace (`orchestrator/.../trace.py`) | hash-linked events | append, verify | damage below SQLite | damage is noticed |
| Broker policy and runbooks (`policy.py`, `runbooks.py`) | loaded files | lookups, rendering of commands | spellings, combined grants | only reviewed commands, one budget per target |
| Bridge, producers (`bridges/zulip/.../publishers.py`) | `publications`, `alert_state` | publish, poll | non-idempotent send, lost answers, crash between send and record, late requests | one message per marker; episodes are announced and resolved |
| Bridge, reactions and mobile commands (`bridge.py`, `mobile.py`) | cursor, processed events, mobile intents | poll a batch, decide, create and resume missions, reply | lost answers, repeated event ids, expired queues, messages edited or moved between attempts | an event acts once; the reply says what the broker did; the queue goes on |
| Orchestrator, ledger and routes (`budget.py`, `service.py`) | `usage_reservations`, `mission_runs`, the lock of the local model | reserve, call, settle, verify | concurrent reservations, midnight, failing database, crash in the middle | caps hold; important results are verified independently; routes end |
| Orchestrator, façade (`hermes_facade.py`, `bounded_server.py`) | chats in progress | price, reserve, send, stream, settle | a provider that may have seen the chat; clients that leave | a chat is sent once and accounted for |
| Orchestrator, start and balances (`config.py`, `catalogue.py`, `catalogue_runtime.py`, `provider_*.py`) | three files read at different times; snapshots of balances | load, bind accounts, refresh | files edited between two readings; a worker with another registry; timeouts; exceptions that nobody catches | only reviewed models, paid from one account; what is reported is stored |
| Orchestrator, outcomes and scores (`database.py`, `adaptive.py`) | `model_result_validations`, `adaptive_score_audit`, `metric_counters` | rank, record an outcome, summarise, migrate, bind calls to accounts | histories read in two SELECTs between calls and outcomes of others; databases of older releases, other accounts; deaths | outcomes are facts, counted once; scores rest on them; what an account spent stays on it |
| Orchestrator, policies (`routing.py`, `capability_routing.py`, `adaptive.py`) | none | plan, requirements, score | thresholds | stakes reach experts; a record of failures lowers no price |
| Local models (`benchmarks/ollama_benchmark.py`, `config.py`) | reports, promotion registry | campaign, simulation, approval, gate | interruption, heat, exchanged reports, reports of two shapes | a chat model serves only after the campaign, measured or simulated, whose report was approved |
| Memory (`memory/src/ops_memory`) | catalogue, points, paid vectors | ingest, replace, invalidate, maintain, paid calls | two stores, requests that fail or apply unanswered, deaths | one line of versions; what is indexed is found; budgets of a day |
| Memory, collector (`native_ops/memory_sync.py`) | cursor, captured ids | capture, history page | answers lost after the effect; sources refused for good; documents that are reverted | nothing skipped, nothing twice |
| Backups (`memory/backup`, `openbao/backup`, `native_ops/deploy/backup-recovery-bundle.py`) | directories, gauges | copy, publish, verify, prune, bundle | kill between two steps, readers without the lock | the last success is on disk; a backup restores |
| native_ops (`native_ops/ops_native`) | jobs, attempts, workflow steps | intake, dispatch, deliver, follow up; workflow | crash while sending, changed mode, resumed runs | nothing answered, billed or run twice |
| Transports, apps, installers, provider discovery | | | | not modelled (section 6) |

## 2. Modules

| Module | Part | Composed or used by |
|---|---|---|
| `ActionGate` | abstract specification of the gate in front of the helpers | refined by `BrokerActions` |
| `BrokerActions` | actions, approvals, budgets, recovery | `MCBrokerActions`, `MCBrokerRecords` |
| `MissionLeases` | queue, leases, locks | `MCMissionLeases` |
| `AuditChain` | the two hash chains | `MissionContext`, `MCPolicies` |
| `MissionContext` | mission context, incidents, evidence, broker backups | `MCBrokerRecords` |
| `BridgePublisher` | producers of the bridge | `MCBridgePublisher`, `MCBridgeReactions` |
| `BridgeReactions`, `MobileCommands` | consumer of the event queue | `MCBridgeReactions` |
| `BudgetLedger` | `usage_reservations` | extended by the next two |
| `OrchestratorRoutes`, `HermesFacade` | the two users of the ledger | `MCOrchestratorRoutes`, `MCHermesFacade` |
| `ModelOutcomes` | outcomes, histories and scores of the models | `MCOrchestratorRoutes` |
| `RoutingPolicy` | pure decisions of the orchestrator | `OrchestratorRoutes`, `MCPolicies` |
| `MemoryStore`, `SemanticIndex`, `MemorySync` | catalogue and index, paid calls, collector | `MCMemory` |
| `MemoryBackup`, `RaftBackup` | backups of memory and OpenBao, recovery bundle | `MCMemory` |
| `NativeConnector`, `NativeWorkflow` | worker, pilot and CLI; workflows | `MCNative` |
| `LocalPromotion`, `ModelAdmission`, `ProviderFinance` | campaigns and promotion, start of the orchestrator, balances | `MCPolicies` |
| `BrokerPolicy`, `MemoryPolicy` | pure policies | `MCPolicies` |
| `BrokerActionsProofs`, `OrchestratorRoutesProofs`, `HermesFacadeProofs` | proofs of the modules they are named for; the second also of `ModelOutcomes` | |
| `MissionProofs`, `BridgeProofs`, `NativeProofs`, `MemoryProofs`, `PolicyProofs` | proofs of `MissionLeases` and `MissionContext`, of `BridgePublisher`, `BridgeReactions` and `MobileCommands`, of `NativeConnector` and `NativeWorkflow`, of the five modules of `MCMemory`, of `LocalPromotion`, `ModelAdmission`, `ProviderFinance` and the pure policies | |

Components that share no table are checked in one run where that keeps the
number of runs small: the MC module has a variable `part`, chosen in the initial
state, and a behaviour takes steps of that part only. Nothing is lost by it,
because no property relates two parts, and the state space is the sum, not the
product, of the parts.

A property of a module is a conjunction of named parts where several facts make
one claim (`ContextHolds`, `StoreHolds`, ...); each part has its own definition
and comment.

## 3. Modules and the code

A step of every module is one transaction, one read that a later step relies on,
or one request to another process: these are the points where another process, a
failure or a crash can come in.

### BrokerActions

`actions`, `approvals`, `usage` and `log` are the tables; `log[r]` is the
sequence of status-changing audit events of the action of request `r` (the
request id is UNIQUE, so it names the action). `launches[r]` is the outside
world: the instants at which the helper was run. A member of `Procs` is one
thread of control of a broker process: `pc` tells where it stands between two
transactions and `call` what it carries in its locals. A step is exactly one
transaction, one read, or the run of the helper, because those are the points
where another process can come in. The clock is sampled where the code samples
it, so a sample can be older than the commit that uses it.

| Code | Actions |
|---|---|
| `BrokerService.__init__` → `recover_after_restart` | `StartProcess` |
| `request_action` | `RequestDenied`, `RequestLookup`, `RequestRaced`, `RequestInsert` |
| `execute_action` | `ExecuteCall`, `ExecuteDenied`, `ExecuteRead`, `ExecuteExpirePending`, `ExecuteApproval`, `ExecuteExpire`, `ExecuteClaim`, `ExecuteRun`, `ExecuteFinish` |
| `decide_approval` | `DecideCall`, `DecideReplayed`, `DecideDenied`, `DecideCommit` |
| death of a process | `Crash` |

Policy, RBAC and runbooks are constants (`ClassOf`, `Granted`, `Approvers`,
`ApprovalTTL`, `MaxAttempts`, `Window`). They are reloaded at each start and may
differ from what a stored action was made with; `ExecuteDenied` may therefore
happen for any action.

`ActionGate` is the abstract specification: an action waits, is granted, is
closed or passes, it passes once, and a class C action is granted by an
allowlisted person other than its owner. The mapping (`PhaseOf`, `ApproverOf`)
reads the audit log and the tables.

### MissionLeases

`status`, `runtime`, `locks`, `claimOps` are the tables. Each operation is one
transaction and samples the clock before it waits for the write lock: `Begin` is
the sample, the operation that follows uses it. `claimLeases` and `lockLeases`
are what workers were told; a worker relies on its lease until it has passed.
`SetMissionStatus` withdraws the leases of the mission, as it is the operator's
way to take a mission back. The order in which `claim_next` prefers missions
(priority, age) is left open.

### BridgePublisher

`pubs` and `alerts` are the tables `publications` and `alert_state`; `firing`,
`last` are Alertmanager's, `posted`, `lastId`, `inflight` Zulip's. The bridge has
one producer thread: `stage` is the publisher it runs, `pc` where it stands,
`seen` the snapshot of alerts, `key` the publication in progress. A step is one
transaction of the SQLite state or one request. An episode of an alert is a
number (`startsAt` in the code), and a publication key is what the marker says:
kind, subject, episode.

| Code | Actions |
|---|---|
| `publish_once` | `BeginPublication`, `Search`, `Send`, `MarkPublished`, `RequestFails` |
| `PendingApprovalPublisher`, `DailyReportPublisher` | `PollApprovals`, `PollReport`, `Publish`, `Save` |
| `AlertPublisher.poll_once` | `PollAlerts`, `Publish`, `Save` |
| `ProducerRunner.run_forever` | `EndStage`, `PollFails`, `GiveUp` |
| `ServiceSupervisor`, systemd | `Crash`, `Restart` |
| Alertmanager, Zulip, network (external) | `StartAlert`, `EndAlert`, `Reappear`, `Arrive` |

A POST without an answer (`Unanswered`: the request failed, or the process died while it
waited) tells the client nothing: it was lost, or it took effect, or (a POST of a key in
`Late`) it takes effect later. The order of alerts within a poll is left open,
pages of pending approvals are read as one.

### BridgeReactions

`cursor` and `processed` are the tables `queues` and `processed_events`; `polled`
is the cursor `run_forever` holds while `poll_once` works on a batch with
`current`. A failed batch goes back to `polled`, as in the code, although events
of it may be committed. Event ids start again in each queue, and so does the
model. The broker side is `decide_approval` as a whole: the same submission gets
the same answer, a used source is refused. What the fresh look at
the person and the message finds is left open, so that the reaction of an
allowlisted person may be ignored as well.

| Code | Actions |
|---|---|
| `BridgeRunner.cursor` | `LoadCursor`, `SaveCursor` |
| `BridgeRunner.poll_once` | `GetEvents`, `Skip`, `HandleEvent`, `EndBatch` |
| `ApprovalProcessor.process` | `HandleEvent`, `LookupFails`, `Submit`, `SubmitFails` |
| `EventState.commit_event` | `CommitEvent` |
| `BridgeRunner.run_forever` | `QueueExpired`, `Retry` |

A `get_events` that fails changes nothing and is a stuttering step. A failed
registration ends the thread and with it the process (`ConsumerDies`).

### MissionContext and AuditChain

Every call is [entity, actor, payload] with a request id, stored per table in
`rows`. A new id is carried out, stored and audited in one transaction; the id of
the same call is answered again (`Again`); the id of another call is a Conflict,
except for model traces, whose prior row is returned unconditionally. Only
`create_incident` reads and inserts in separate transactions (`creating`).
`told` is what callers were answered. The trail and its head follow
`Database.append_event`; SHA-256 is an injective function, so a hash is its
fields. A backup is a copy of trail and head (`BackupCopy`), published by a
rename and pruned in separate steps, between which the broker goes on or the
process dies.

| Code | Actions |
|---|---|
| `update_mission_state`, `create_checkpoint`, `add_record`, `record_model_trace` | `UpdateMissionState`, `CreateCheckpoint`, `AddRecord`, `RecordModelTrace` |
| `create_incident`, `update_incident_details`, `set_incident_status` | `CreateIncidentLookup`, `CreateIncidentInsert`, `UpdateIncidentDetails`, `SetIncidentStatus` |
| `record_action_artifacts` | `RecordActionArtifacts` |
| `backup.py` | `BackupCopy`, `BackupPublish`, `BackupPrune`, `BackupCrash` |

### MobileCommands

`inbox` is what Zulip shows of each message, which people may edit, move or
withdraw between two attempts; `effects` are the rows the broker wrote, by the
request id that the bridge derives from the event; `intents` and `posts` are the
two sides of the reply. The mission may be paused, resumed and completed by
others, and the artifact on disk may become unusable.

### BudgetLedger, OrchestratorRoutes, HermesFacade

`rows` is the table of reservations; `reserve` compares the caps of the day of
its first clock sample (`asOf`) and stamps the row with a second one (`day`).
`mark_uncertain` keeps the larger of reservation and report. A route is a thread
(`run[r].pc`) that goes through roles, candidates, the lock of the local model,
reservation, call, settlement and verification; a chat is a thread from the
accepted connection to the end of its answer. The sorted list of candidates of the
code is a set here (`todo`), of which the cheapest is in use, the first configured one
among equals (`FirstOf`): that is the order of the code's sort by cost and position.
`faults` counts a busy database, a call that fails and a death of the process. Which candidate of a role comes
first depends on the history of all routes; any order is possible in the model.

### MemoryStore, SemanticIndex, MemorySync

`memories` is the catalogue, `points` what Qdrant has. `ingest` reads, inserts and
upserts in three steps; `invalidate` marks and deletes in two; the maintenance
expires, lists, deletes and indexes. A request to Qdrant may be applied and not
answered. `SemanticIndex` has the daily budget (`providerCalls`), the lock around
reserve, cache and upsert, and the vectors that were paid for. `MemorySync` is
the collector with its own database: `captured`, `known` and `cursor`; the memory
service decides by content whether a memory is new. A source may be left out
(`Private`: `payload` returns None) or refused for good (`Unusable`: it looks like a
secret); the document and the mission may change back to what they were (`Change`).
`Rejected` says what the collector is refused at every retry: such a source, or a
replacement of a memory that has been replaced. The latter happens after a lost answer,
and also when a document is reverted: it is pointed at its first memory (`Point`), which
the next edit wants to replace again.

### MemoryBackup, RaftBackup

One directory per backup, published by a rename; `disk` and `raftDir` keep which
files are there and whether they are intact, because retention of OpenBao's
backups unlinks file by file and the restore test, the metric and the recovery
bundle read without the lock. `older` is the order of modification times, which
the bundle goes by.

### NativeConnector, NativeWorkflow

`jobs` is the worker's table, `attempts` the pilot's, `broker` what the missions
hold. `ghost` counts paid generations and CLI processes. Worker, pilot and CLI
interleave; the CLI survives the pilot. In a workflow, `steps` is the table,
`actions` and `created` what the broker made of the request ids.

### LocalPromotion, ModelAdmission, ProviderFinance

`LocalPromotion` goes through a campaign request by request, with readings of the
temperature between them, or through a simulation (`--simulate`), which waits for
nothing and cannot be interrupted; `truth` is a ghost that records which models passed
everything. `VerifyPromotion` has the two branches of the code: a report with a list of
models (`EligibleByCampaign`), and the flat one (`EligibleByItself`), which only
embedding and rerank providers may use and which nothing in the repository writes
(`WriteFlat`). `ModelAdmission` reads the three files in the order of the code while
people edit them, and binds the reservations of earlier starts to accounts.
`ProviderFinance` has the worker and its lock, the client that gives up after its
timeout, and the table, result by result. An answer of a provider may end the whole
refresh in an exception that `_refresh_one_locked` does not catch (`ExamineRaises`:
`http.client.HTTPException`, `RecursionError`): the lock is released, the caller gets a
500, and what the other accounts answered is lost.

### ModelOutcomes

`runs`, `calls`, `outcomes`, `counted` and `scores` are the tables `mission_runs`,
`usage_reservations`, `model_result_validations`, `metric_counters` and
`adaptive_score_audit`; `drafts` is what a thread has read of its candidates so far,
`half` the calls of a candidate whose outcomes it has still to read, since the two
SELECTs are not one transaction. The daemon is down, opening or up: `Initialize` takes
databases of every version, those of the first with missions of two projects and calls
on no account; `BindAccounts` puts those calls on the configured accounts, or
`RefuseBinding` ends the start because a call is on another account than its model has
now; `Die` leaves runs and calls open, in the middle of a start too. A call in progress
counts as uncertain in a history, and an outcome carries the account configured when it
is recorded: both are what the code does. A summary lists `MaxGroups` groups at most
(`Listings`; 200 in the code). Only the first ranking of a route is modelled; the others
read and write in the same way. The façade opens the same database without binding
accounts and reads the configuration for itself; that start is left out.

| Code | Actions |
|---|---|
| `OrchestratorService.__init__`, `Database.initialize`, `bind_provider_accounts` | `Initialize`, `RefuseDatabase`, `BindAccounts`, `RefuseBinding`, `Die` |
| `start_run`, `finish_run` | `OpenRun`, `EndRun` |
| `model_performance_history`, `record_adaptive_score_audit` | `ReadCalls`, `ReadOutcomes`, `RecordScores` |
| `reserve`, `complete`, `mark_uncertain` | `CallModel`, `AnswerCall` |
| `record_model_outcome`, `model_performance_summary` | `RecordOutcome`, `ReadSummary` |

### BrokerPolicy, MemoryPolicy, RoutingPolicy

Operators, no state. `MCPolicies` asks each of them about every input of a small
set (`Ask`), so that an answer is a state and a property is an invariant.

## 4. Runs

| Run | Instance | Shows |
|---|---|---|
| `actions` | 2 processes (1 supervised), 1 request, all classes, 3 instants, fair | `HelperRunsAtMostOnce`, `AuditTellsStatus`, `RefusalsAreFinal`, `ImplementsGate`, `RunningEnds` |
| `broker_records` | 2 processes, 2 requests of classes B and C, 2 decision ids; 2 missions, 2 request ids per table, 3 audited calls, 2 backups | `ClassCNeedsHuman`, `OneDecision`, `BudgetHolds`; `ContextHolds`, `TrailHolds` |
| `missions` | 2 threads, 2 workers, 1 mission, 1 resource, 3 operation ids, 4 instants | `QueueFollowsStatus`, `ClaimExclusive`, `LockExclusive`, `TakeoverRaisesToken` |
| `bridge_posts` | 1 alert with 2 episodes, 1 approval, 1 report that may be late, 2 failures, fair | `ExactlyOnce`, `AlertsReachZulip` |
| `bridge_events` | 2 queues, 3 events, 2 people, 1 failure; 2 commands of every kind, 1 failure, 1 change by others; 2 alerts with late posts, 2 failures; fair | `AnnouncedBeforeResolved`, `ReactionsHold`, `CommandsHold`, `EverythingSettled` |
| `routes` | 2 routes, 4 providers (two can verify the third), 2 days, 1 fault; 2 routes of 2 kinds that rank and ask 2 models, from every version of the database, 3 configurations of accounts, 2 calls, 1 death, 1 group per summary | `CallCapsHold`, `RoutesHold`, `NeverStuck`, `RoutesEnd`; `OutcomesHold` |
| `chats` | 2 chats, 2 providers of one account, 2 days, 1 fault, fair | `SpendCapsHold`, `ChatsHold`, `ChatsEnd` |
| `memory` | 2 threads and the maintenance, 2 calls, 1 fault; 2 clients of the paid index, 2 days, 1 death; 4 records in pages of 2 (one left out, one refused for good), 3 contents of a document and a mission, 2 changes, 1 loss; 2 backups of the memory with 2 faults, 4 runs for OpenBao with 2 faults; fair | `StoreHolds`, `PaidCallsHold`, `SyncHolds`, `BackupsHold`, `MemorySettles` |
| `native_ops` | 2 messages, 1 fault, 1 change of mode or account; 3 steps, 2 interruptions, 1 upgrade; fair | `JobsHold`, `StepsHold`, `HandoffReaches` |
| `policies` | 2 campaigns of 2 models (the second may be simulated, or a flat report instead), 1 damage; 2 edits during starts; 2 refreshing threads, 5 kinds of answers, 1 fault; the pure policies over bounded inputs; fair | `PromotionHolds`, `AdmissionHolds`, `PoliciesHold`, `PoliciesEnd` |
| `live_recovered` | as `actions` | `RecoveryFailsOnlyInterrupted` is violated |
| `paused_status` | as the commands of `bridge_events` | `PausedMissionsAreAnswered` is violated |

Bounds. Two processes are enough for every race between two calls, and a third
party appears through crash and restart; one request suffices where the property
speaks of one action, two where it relates decisions or fills a budget of one.
`ApprovalTTL` and `Window` of 1 put samples before, at and after every deadline.
That a longer history does not exceed a window is proved, not checked
(`WindowsKeepTheirBudget`). `MaxRefusals` caps the counter of audited refusals,
`Ids` the claim operations, `MaxTime` the clock. One mission and one resource
suffice for the leases: claims of different missions meet only in the order of
the queue.

`MaxFailures` bounds failed requests and deaths of the bridge: two are needed to
lose an answer and then fail or die during its reconciliation. Two episodes are
needed for one to supersede another. Three events in a batch are needed for two
of them to be committed before the third fails, so that the next poll meets one
duplicate and skips one event. Two request ids per table are a call, its retry,
another call under its id, and a second call. `MaxFaults`, `MaxMishaps`,
`MaxRaftFaults`, `MaxLosses`, `MaxDeaths`, `MaxDamages` and `MaxEdits` bound what
goes wrong; one is a failure at any point, two are a failure during the recovery
from the first. Budgets are set to one or two calls so that every instance reaches
its caps, `RaftKeep` and `Retain` to one so that every second backup is pruned,
`PendingLimit` to one (20 in the code) so that the limit is met with two messages;
`MaxRows` and `MaxGroups` to one (500 and 200) so that a second row pushes out the first
and a second group is not listed. In `memory`, record 3 is refused for good, and record 4
is on its page or, when pages were short before, behind it; three contents let a document change, change back and
change again. In `policies` the last campaign finds its models installed: what a missing
or large model does to a campaign is seen in the first. Histories take every completed
call with its latency, fast, mixed or slow, at each urgency.

Symmetry is used over threads, routes, requests and ids that the specification
does not tell apart, and in no run whose property is a temporal one (`RoutesEnd`
is a property of single steps, which symmetry preserves). In
`broker_records` two sets of different parts are exchanged together
(`Together`): a behaviour is of one part, so each part has its full symmetry.

Deadlock is not checked where the system may rest: a consumer in its long poll, a
bounded number of calls that were all made, a timer that is not due.

Fairness. For the broker (`FairSpec`), a call in progress in the supervised process
goes on (a thread is not stopped for ever between two statements), and systemd
starts the service again (`Restart=on-failure`,
`broker/deploy/systemd/ops-broker.service`). Clients, people, the clock and the MCP
processes are not fair. The transactions of a live process are assumed to succeed
in the end. For the bridge, its thread goes on and systemd starts it again
(`bridges/zulip/systemd/zulip-approval-bridge.service`, at most 5 starts in 300 s;
failures are finitely many, so that limit is not met). The thread of a chat goes on
until the process dies. For the memory, the timers start maintenance and collector
again and again; the two steps that another thread can disable for a moment (the
listing and the upsert of the maintenance) are strongly fair, because a run of
the maintenance reaches them every time and the failures are finitely many. For
native_ops the worker goes round its loop. A campaign goes on until it is killed;
the worker of the balances and the threads that wait for it go on. Zulip,
Alertmanager, providers' answers, people and editors are never fair.

### Where the code and its documents differ

| Run | Property | In short |
|---|---|---|
| `live_recovered` | `RecoveryFailsOnlyInterrupted` | a starting process fails what another one is executing, although `recover_after_restart` says "Fail interrupted actions" |
| `paused_status` | `PausedMissionsAreAnswered` | the broker says `blocked` of a paused mission, the bridge takes only `queued`, `claimed` and `done`: the command is retried for ever and holds up all events behind it |

Limits that the models show and that no run states as a property:

- `execute_action` compares the approval with the clock once, before the claim;
  the helper of a class C action may start a moment after the approval expired.
  The expiry itself is an update by id alone: it may overwrite the status of an
  action that was claimed or finished meanwhile.
- The budget of a class B runbook counts reservations made at request time; an
  action executed late runs beside the attempt of the next window.
- The fencing token of a lock starts again at 1 when its row was deleted, so a
  token is unique among takeovers of a row, not for ever.
- The retry of a `claim_next` that found nothing raises instead of answering.
- `publish_once` is exactly-once as long as a POST does not outlive its client.
  One that arrives after the search for its marker is posted beside its
  repetition, and later reconciliations of that marker are errors. An
  announcement whose answer was lost, of an alert that ended before the retry, is
  never resolved.
- A mobile command that is moved to another topic after an ambiguous reply is
  answered a second time.
- A reservation that passes midnight between the two clock samples of `reserve`
  counts against a day whose caps it was not compared with; usage that a provider
  reports beyond the reservation is recorded beyond the caps.
- A request id reused for another model trace is answered with the prior trace.
- The collector retries for ever what it is refused for good (`Rejected`): a replacement whose first answer was lost; the next edit of a
  document that was reverted to an earlier content; a record that looks like a secret,
  behind whose page no record is reached (`Behind`). A refused document ends every run
  before the records are looked at. `EveryRecordCaptured` names these cases and no other.
- The promotion gate does not tell a simulated campaign from a measured one, although
  the report says so (`host.simulation`), and takes a flat report of an embedding or
  rerank model at its word (`ServedIsApproved`).
- A model all of whose results failed may be ranked below its price for its speed: by
  what the urgency allows, from five completed calls on (`FailuresEarnNothing`).
- A summary of more than 200 groups does not list all (`NoOutcomeLost`).
- A removal of an old OpenBao backup that was interrupted makes every later
  retention end with an error.
- Jobs that wait for a person fill `pending()`: with twenty of them no later
  message is looked at.
- A balance of exactly 10^15 is taken by worker and orchestrator and refused by
  the table, which ends a refresh half stored; minus zero is refused by the
  orchestrator; an exception that the worker does not catch ends the refresh of all
  accounts in a 500.

## 5. Proofs

`BrokerActionsProofs` proves `TypeCorrect` and, for any
processes, requests, actors, policies and bounds, from `ConstantsAssumption`:
`AtMostOnce`, `HumanApproval`, `DecidedOnce` and `RefusalIsFinal`. The inductive
invariant has two parts beside the types. `StartInv` ties the number of threads
between claim and run, the length of `launches` and the `action.started` event
together: the claim is conditional on the status and no status an action can have
after its claim is claimable again, which the property alone does not say.
`ApprovalInv` says that every decision was made by another allowlisted person on
a class C action that is no longer pending, and that an action approved has such
a decision; threads past the approval check carry that knowledge to the claim.

`BrokerImplementsGate`, in the same module, proves `ImplementsGate` step by step.
Only four kinds of transaction change what the gate sees of an action: its row is
inserted (`AsksIt`), the decision that approves it is recorded (`GrantsIt`), a thread
claims it (`PassesIt`), or its status becomes one that is closed (`ClosesIt`). Each is
shown to be a step of `ActionGate` for that action which leaves the other actions as
they were (`OthersUnseen`); every other step leaves the mapped variables alone
(`UnseenStutters`). The steps need the invariant: the decision that grants must find
no earlier approval (`ApprovalInv`), and the claim must find the action neither
claimed nor closed before (`StartInv`), whatever the thread read at the start.

`MissionProofs` proves `TypeCorrect`, `QueueAndStatus`, `OneClaimant` and
`OneHolder`. The inductive invariant adds: clock samples are not in the future
(`SampleInv`), a claimed row has a claimant exactly when it is claimed
(`QueueInv`), and every lease a worker may still rely on is covered by the row:
either the worker holds the row with at least that lease, or the lease has passed
(`ClaimInv`, `LockInv`). The exclusion follows, although expiry is judged by a
sample that may be old: an older sample sees fewer expired leases.

`FencingTokens` proves `TakeoverRaisesToken` from the same invariant. The token is
raised only by the branch of the transaction for another owner, and that branch is
taken only when the lease has passed for the sample; as samples are not in the
future (`SampleInv`), it has passed for the clock too (`TakeoverStep`).

`BridgeProofs` proves `TypeCorrect`, `StoryInOrder` and
`PostedExactlyOnce`, for any alerts, episodes, documents, late posts and number
of failures. `LocalInv` ties the thread's locals to the tables: which key is in
progress at which site, and that a message about to be marked, or recorded as
published, is on Zulip with that key. `StoryInv` says that an active alert row,
and a resolution that is in progress, in flight or on Zulip, comes after the
firing was recorded as published. `OnceInv` says, of every key outside `Late`, that
its message has a row and that it has no message when it is about to be sent: a
POST that is late disturbs its own marker only.

`BridgeProofs` also proves `ReactionsAreSettled` (`ReactionsHold`) for any number
of queues and events, lost answers and deaths of the process. The invariant says
that what is left of a batch are successive events of the current queue and that
none is missing between the cursor in memory and the first of them (`BatchInv`),
that the cursor in memory is never ahead of the stored one (`CursorInv`), and that
every stored decision says what the event it came from says (`SentInv`): event ids
repeat from queue to queue, but a source is one event of one queue. An event is
submitted only while nothing is stored of it, and the outcome about to be stored is
what the broker did (`OutcomeInv`). Events are only added (`Grows`), so what was
stored of one stays true (`SentStays`).

`BrokerActionsProofs` also proves two properties that TLC sees only on small
instances. `WindowsKeepTheirBudget` (`BudgetHolds`): the reservations of a runbook
in any window of length `Window` are at most `MaxAttempts`. Transactions commit in
another order than their clock samples, so a reservation may be inserted between
older and newer ones; the argument is that `Used` counts every reservation at or
after the start of the window that ends with the sample, also those of its
future, so that any window which takes the new reservation was part of what was
counted (`BudgetStep`), and that the table is finite. `LogTellsStatus`
(`AuditTellsStatus`): every transaction writes a status and the event that tells it
(`EventStatus`, `RecordTells`, `InsertTells`), or neither.

`OrchestratorRoutesProofs` proves `RoutesAreSound` (`RoutesHold`), `CallsStayUnderCaps`
(`CallCapsHold`) and `RoutesShrink` (`RoutesEnd`), for any finite set of providers and
any number of routes, calls and failures. The invariant is one formula per route
(`RouteInv`), so that a step has to be examined for the route that takes it only: for
the others it is enough that their thread, their rows and their hold on the lock
stay (`UntouchedKeeps`). It says that the only open call of a route is the one in
progress, which is that of the current candidate (`OpenInv`, `CallInv`), that the
candidate may be called and is still on the list (`TryInv`), that a thread which uses
a local model holds the lock (`LockInv`; a thread that was cut off may hold it too,
which is why the lock says less than it seems), that during the verification the
result has a completed call and every candidate is independent of it (`PhaseInv`),
and that an accepted result needs no verification or has it (`AcceptInv`).
For the caps, `ReserveKeepsCaps` shows that the rows a cap counts after a
reservation are rows that were compared with it, or the new one: a row counts for a
period only if the first clock sample, which chose the rows to compare, lies in the
period of the second, which stamps the row. `MovesShrink` is the arithmetic of the
measure `WorkLeft`, and `StepMoves` shows that each action is one of its moves; that
the loop over candidates makes progress rests on `TryInv`.

`OrchestratorRoutesProofs` also proves `OutcomesAreTrue` (`OutcomesHold`) for any routes,
missions, projects, candidates, limits and configurations of accounts, any finite set of
runs, and any number of calls, outcomes and deaths, from a database of any version.

- The calls are on the accounts of the running daemon because the start binds them all or
  fails (`BindKeeps`), a death takes the daemon down (`DieKeeps`), and while it serves
  only calls on its own accounts are added (`CallKeeps`).
- A score rests on the outcomes of some moment between the start of its run and now, but
  the run does not say which: `RunInv` and `ScoresInv` keep the two bounds instead, and
  the bounds only move apart because one more row in a table, whatever it is about, makes
  no history shorter (`LatestGrows`). That holds in spite of the limit on rows: the new
  row may push one out of the latest ones, and then it is one of them itself. A history
  is never longer than the limit (`LatestAreFew`).
- An outcome stays a fact because the columns of a route that is over are not written
  again and a completed call is not reopened (`FactsStay`).
- The calls of a candidate and its outcomes are read in two steps; what was read first is
  kept in the invariant (`half` in `RunInv`), and the bounds of the score are those of the
  moment of the second (`HistoryIsEvident`, `ReadOutcomesKeeps`).
- The counters are those of the table (`CountInv`), and the joins of the summary drop no
  outcome, since every outcome finds its run and a call of it (`OutcomesAreFacts`); hence a
  listed group is counted rightly, and a summary shorter than its limit is of all groups
  (`OutcomesInvIsEnough`).
- No mission gets a second project after the check at the opening of the database
  (`InitializeKeeps`), because `start_run` compares with every recorded run (`OpenKeeps`).

`MissionProofs` also proves `ContextIsTold` (`ContextHolds`) and `TrailIsSound`
(`TrailHolds`), for any missions, actions, callers, request ids, and number of events
and backups. Every operation either stores its call (`First`) or answers a retry
(`Again`), so each part of the invariant has one lemma about `First`, and an action
only has to show what it does to the entity it is about. The parts that had to be
strengthened: the resume point is a statement about a latest entry of the trail that
sets the step, which exists (`ResumeInv`), since a CHOOSE says nothing when there is
none; a column that an accepted call gave is set, and not only right when it is
(`EvidenceInv`), or a later call might take it for free; the tables are finite, so that
counting makes sense without a bound on request ids (`TablesInv`); and a backup in
progress, not only a published one, is a prefix of the trail (`BackupInv`).
`DamageShows` is about the chain itself: what a fault leaves of it has another length
than the head tells, or a row whose hash is that of another content.

`NativeProofs` proves `WorkflowIsDurable` (`StepsHold`) for any definitions,
dependencies and number of interruptions. The invariant relates the process, the
checkpoint on disk and the broker: a running process works from the recorded
definition, the broker has an action of a step exactly when the step was created, a
step recorded as succeeded has an action that succeeded, and a step about to be
requested waits for nothing. The checkpoint on disk may be behind the broker, where a
process died in between, and is never ahead of it.

`BridgeProofs` also proves `CommandsAreSound` (`CommandsHold`) for any orders,
changes by others and failures. An attempt may end anywhere, so the reply of one may
follow the call of another, and `CommandsHold` says nothing of what an attempt holds
in between. The invariant adds: what was read is what the message says unless it was
edited or moved since (`ReadInv`), a row of a command that was not edited is the one
it asks for (`RowInv`), a text is true from the call on (`TrueOf`, `AttemptInv`), a
post has an intent and, unless its command was moved, the first topic (`TopicInv`),
so that a marker which is not found was not posted. `ExecuteFacts` says what the
broker's routes may do, `Settling`, `RowStep`, `PostStep`, `IntentStep` and
`InboxStep` what a step may do to each table; an action cites the one it takes.

`NativeProofs` also proves `JobsAreDoneOnce` (`JobsHold`) for any messages, changes of
mode and account, failures and kills of worker, pilot and CLI. The invariant is one
formula per message (`MessageInv`): an answer exists only from the phase that is stored
before it is sent (`AnswerInv`), money was spent and the CLI was started only for the
backend that was chosen first, which does not change afterwards (`WorkInv`), and a
followup that is ready is of an action that is over, which stays what it is
(`TellInv`). `PlaceInv` says what the place of the worker tells of the job in its hands
and `IntakeInv` that the message is stored before the cursor moves.

`MemoryProofs` is about the memory and the backups.

- `MemoriesAreKept` (`StoreHolds`), for any threads, actors and contents. What makes
  the interleavings harmless is that a row, once it is not current, never is again
  (`TableKept`): a worker that deletes the point of a memory, or is going to, has one
  that is not current (`Dead`, `ThreadJobOK`, `MaintainerJobOK`), and a request to
  replace one was compared with a row whose rank and roles cannot have changed since
  (`RequestOK`). The audience is a statement about chains of replacements, not single
  ones; the new row ends every chain it is in (`AudienceByChains`, `Insert_Inv`).
- `PaidCallsAreBounded` (`PaidCallsHold`), for any number of threads and days. A thread
  counts the calls since the day it read before it got the database, and the row is
  stamped later: the day of a thread is never ahead of the clock, so the calls of today
  are among those it counted (`BudgetInv`). `LockInv` says that the vector of a memory
  which is about to be bought is not stored, and `BillInv` that an answer which is paid
  for and not stored is in the hands of a thread or was lost with the service.
- `CursorLosesNothing` (`SyncHolds`), for any records, page size, sets of sources that are
  left out or refused, edits and lost answers. The
  strengthening is about the page in hand (`PageInv`): it begins after the cursor, and
  what was struck out of it without a failure needs no capture any more; and about the
  memory (`MemoInv`): a record has one current memory, the private one or its copy, and
  the copy of a captured record is not replaced.
- `BackupsAreSound` (`BackupsHold`). For the memory (`BackupInv`): the directory of a
  running backup is the newest and says how far the run is (`JobOK`); what its copy of
  the catalogue calls indexed is in the index until the snapshot is made, or was given
  up meanwhile (`Searchable`), which is why the catalogue has to be copied first; what
  the gauge promises does not rest on a backup that is published and not verified yet
  (`Promised`); the snapshot that a run is going to remove is not counted as lost
  (`Owned`). For the secrets (`RaftInv`): what is not whole has `RaftKeep` backups above
  it (`KeptInv`), also after another one has gone, since what is removed has as many
  above it itself (`UnlinkDirectory_Inv`); a directory that still has its manifest was
  last modified when it was published (`TimesInv`), because the manifest is the first
  file to go, so that the directory modified last is the newest backup or cannot be
  read (`Select_Inv`).

`PolicyProofs` proves `PromotionIsEarned` (`PromotionHolds`) for any models,
scenarios, repetitions, campaigns, measured or simulated, flat reports and exchanged
files. That a chat model serves only with the report of a campaign it passed follows from
the branch its provider takes in `VerifyPromotion`; that the report is the one which was
approved, from the digest. The invariant says of every
configured model that it has its result or its turn is still to come, never both
(`ResultsInv`, which needs that no model is configured twice), and that what went wrong
with the model at work is on its record, as a failed warm-up or as a request that did
not pass (`Noted`), so that the gate sees it: the property speaks of everything that
happened, the gate reads only what was kept. `CoolInv` relates the counter of cool
readings to the readings themselves (`CooldownKeeps`). That a set of positions has a
first one (`MinIsIn`) is proved from the well-foundedness of the naturals.

`PolicyProofs` also proves `AdmissionIsReviewed` (`AdmissionHolds`), for any files and
edits of them, callers, accounts and answers, and for the questions that the
run asks of the three pure rules.

- The start (`AdmissionInv`). What the start has put together depends on when each file
  was read, so the invariant keeps, by how far it is, what was checked of which reading:
  the plan reserves the highest price of the cards as they were read (`Prepared`,
  `PlanIsPrepared`), and the catalogue that is served was compared with that plan
  (`CatalogueAccepted`), from which `AcceptedIsReviewed` counts the claims on a
  deployment. `OnAccount` holds from the transaction that binds the rows on, since ids
  of providers are unique: generated ids collide with no configured one.
- The balances (`FinanceInv`). The accounts of the results and those that are left make
  up what was asked for, in the worker (`JobInv`) and again in the thread that stores
  (`StoreInv`): moving the head of one sequence to the end of the other leaves both
  together as they were (`MovedOver`). What the worker says under its registry the
  orchestrator would understand under the same one (`ExaminedIsUnderstood`); a thread
  waits or stores only while the orchestrator lives, so its registry does not change
  under it.
- The rules. `ReservationsCover` stands for price tiers of any number, prices and
  tokens: rates do not fall from tier to tier (`RatesGrow`), and fewer tokens fit an
  earlier tier. `CredentialsAreSeparate` stands for any registry whose endpoints name
  capabilities of their accounts, and `AdaptersAreAccepted` for every account of the
  reviewed table.

- The pure policies, `PoliciesAnswerRightly` (`PoliciesHold`). `QuestionInv` says what a
  question looks like; one lemma per policy answers it, for more than the sets of
  `MCPolicies`: every request (`StakesMatter`, `DoubtMatters`, with `JoinedGrows` for
  the dictionaries of minimums), every history whose results all failed
  (`FailuresCost`: a sum of points of at most 250 each, `SumBounded`, keeps the observed
  quality below the prior of 750; what speed may take off is bounded by the urgency, and
  nothing unless the median is under the target, `SpeedIsLimited`), every schedule of
  attempts (`CeilingsHold`), every
  template, value and spelling (`CommandsAreReviewed`, `SpellingsAgree`), every finite
  set of memories (`SearchesAgree`, `AudiencesAreKept`). Of the trace, `Whole` says
  that every event is the one appended at its place; `DamageNoticed` follows for every
  whole chain from `LinkedMeans`, which reads the verification event by event, since no
  hash names two places (`HashesTell`).

`HermesFacadeProofs` proves `SpendingStaysUnderCaps` (`SpendCapsHold`) and
`ChatsAreSound` (`ChatsHold`) for any chats, bodies, prices and caps.

- The caps bound sums over sets of rows. `SumFunctionOnSet` is defined by a CHOOSE of a
  recursive function; that such a function exists, is the only one and yields a natural
  number (`SumsExist`, `SumsAgree`, `SumFacts`) is proved without an induction rule,
  from a smallest set for which the fact fails (`SmallestSubset`). It follows that fewer
  and smaller summands have a smaller sum (`SumGrows`), and what the sum is after one
  row was let in (`SumAfter`). What is charged to a row is not more than what the caps
  were compared with: the usage of a completed call fits its reservation, and its cost
  does because a cost grows with the tokens (`CostGrows`, `OwedFacts`, `RowInv`).
  `SpendInv` states the caps also of the periods, missions and routes that have no row
  yet; `ReserveKeepsCaps` and `SettleKeepsCaps` are the two ways in which the table
  changes.
- A chat has no row before it reserves and then one, of the candidate in use
  (`CallInv`), which is one of the cheapest that are left (`UsingInv`, `FirstFacts`);
  only a chat that is over has an answer (`AnswerInv`). A settled row is never open
  again, so that the whole answer, which is given in the step that settles, stays
  accounted for.

The proofs use the assumptions on constants stated in `ConstantsAssumption` and its
counterparts (`LedgerAssumption`, `FacadeAssumption`, `StoreAssumption`, `IndexAssumption`, `SyncAssumption`,
`RetainAssumption`, `RaftKeepAssumption`, `MessagesAssumption`, `CampaignAssumption`, `AdmissionAssumption`,
`FinanceAssumption`, `AbsoluteAssumption`, `OutcomesAssumption`), which TLC evaluates in
the runs. The inductive invariants were checked by TLC, on the instances of the runs,
before they were proved.

Only model-checked: liveness (`RunningEnds`, `AlertsReachZulip`,
`EverythingSettled`, `ChatsEnd`, `MemorySettles`, `HandoffReaches`, `PoliciesEnd`) and
`NeverStuck`, which uses ENABLED: out of reach of the prover. Every other invariant that a
passing run checks is stated by a theorem.

## 6. Not modelled

- Transports of the broker, memory and orchestrator (HTTP, MCP): authentication,
  schemas and dispatch, no state. They decide how many threads there are.
- Parsing and validation of files and requests beyond the policies above,
  formatting of messages, payloads of audit events, wire formats of providers:
  input checking whose outcome is one condition of the models.
- Process groups, output limits, file permissions, encryption: operating system
  calls. The executor is one step with two outcomes.
- `native_ops` installers, telemetry, logs and patches, provider discovery,
  deployment scripts: one-shot scripts over files and network.
- The approvals PWA and the desktop applications: views over the services.
