# AutoOnCall: TLA+ models of the alert, diagnosis, approval and safe-change core

AutoOnCall is an on-call assistant. An alert or an operator opens an *incident*; an agent diagnoses it with read-only
tools; a risky action waits for a human *approval*; an approved *change plan* is executed under control (pre-checks,
dry-run, then a simulated sandbox step or receipts that operators record). All state lives in one SQL store (SQLite or
MySQL) that several handlers and processes share. The difficulty is in that sharing: a handler reads a row, works on a
copy, writes it back under a condition, and then writes projections of it (incident state, report, trace) one by one,
any of which may fail or be cut short.

## 1. Inventory

| Component | State it keeps | Operations | Hard behaviour | Module |
|---|---|---|---|---|
| Lifecycle rules (`policies/lifecycle.py`, `incident_lifecycle.py`, `incident_state_builder.py`, `report_lifecycle.py`) | none: functions from statuses to statuses | merge of an update into the stored IncidentState, status mappings | late or reordered updates must not reopen or regress an incident | `IncidentLifecycle` |
| Store (`sqlite_store.py`, `mysql_store.py`) | rows of approvals, change executions, incidents, reports, alerts, sessions, A2A tasks | one transaction each, several conditional | compare-and-set conditions are the only concurrency control between processes | `Store` |
| Approval service (`approval_service.py`) | approval rows with `projection_pending` | create, reuse, get, list, decide, cancel, expiry sweep, repair | two deciders, decision against sweep, stale copies, failed projections, crash between commit and projections | `Approval`, proofs in `ApprovalProofs` |
| Safe change service (`change_execution_service.py`, `change_execution_checks.py`, `change_execution_projections.py`) | execution rows with `projection_pending` | start/resume in three modes, pre-check, dry-run, sandbox, receipts, repair | concurrent starts, resume after a crash, plan or approval expiring meanwhile, concurrent receipts | `ChangeExecution`, composed in `SafeChange`, abstract `SafeChangeContract`, proofs in `ChangeProofs` |
| Alert ingestion and automatic diagnosis (`api/alerts.py`, `alert_ingestion_service.py`) | alert rows, claims with lease and token, the in-flight set, a semaphore | webhook, claim, release, failure record | reordered generations, a lease that expires under its holder | `AlertDiagnosis`, proofs in `AlertProofs` |
| Diagnosis runs (`aiops_service.py`, snapshots) | session snapshots, run status | diagnose, reconcile after restart, resume after approval | restart while a run is in progress, resumes in two processes, a resume overtaking the run it continues | `DiagnosisRun`, proofs in `DiagnosisProofs` |
| Agent loop (planner, executor, replanner) | plan, executed steps, budgets | plan, execute a step or a batch, postpone, retry, add steps, stop | the budget over batches and retries, risky steps behind harmless ones, lost records of a batch, termination | `AgentLoop`, proofs in `AgentProofs` |
| Risk controller, tool registry | none | classification of actions | precedence of forbid, approve, allow | `AgentLoop` (classes instead of text) |
| Resilience (`core/resilience.py`) | breaker state, call slots | acquire, success, failure, release, bounded pools | late outcomes of old calls, half-open probes, cancelled callers | `Resilience`, proofs in `ResilienceProofs` |
| A2A facade (`a2a_facade_core.py`) | task records | send, stream, get, fail | resent messages, two processes inserting one record, late saves, readers that leave | `A2ATask`, proofs in `A2AProofs` |
| Upload and indexing (`api/file.py`, vector and lexical index services) | files, backups, two indexes, file locks | upload, index, roll back | failure between the two indexes, cancellation under a running thread, late vectors | `IndexPublish`, proofs in `IndexProofs` |
| Retention (`store_maintenance.py`) | none of its own | delete old incidents | one SQL predicate, run offline | not modelled |
| Retrieval and answering, evidence scoring, report text, read models, feedback, evaluation | none beyond a request, or append-only rows | ranking, rendering | floating-point scores and natural language, nothing to interleave | not modelled |
| Integrations, MCP client, HTTP shell, auth, console, scripts, deployment | connections, static configuration | I/O | not part of the core's own logic | not modelled |

Interaction: the API and the diagnosis runs call the approval service; the change service reads approvals through
`ApprovalService.get_request`, so the repair of approval projections runs inside change handlers; both services write
incident state and the latest report through the same store and the same merge rules. An alert starts a diagnosis run,
a run executes the agent's graph, and the graph's risk gate is what raises an approval request. The A2A facade starts the
same runs for other agents. The agent's tools, the model and the indexes call their back-ends through the breaker.

## 2. Modules

* **`IncidentLifecycle`** holds no variables. `merge_incident_state` and the predicates it uses are translated clause by
  clause; an IncidentState keeps the fields they read (status, metadata source, whether a `change_execution_id` is
  there, `starts_at`, alert status, auto-diagnosis status).
* **`Store`** declares the shared rows for one incident and the store's transactions as operators, with the conditions
  of their SQL: `DecisionAccepted` is `WHERE status = 'pending'`, `ExecutionMatches` is `WHERE status IN (...)`, the
  upsert of an approval only writes over a row of the same status.
* **`Approval`** gives each handler (`worker`) a program counter and the request object it holds (`row`). One action per
  store transaction or per decision the code takes between two of them: `CreateRequest`, `ReuseRequest`, `ReadRequest`,
  `DecideRequest`, `SweepPending`, `CheckRequest`, `CommitDecision`, `DecisionConflict`, then the projections
  `SyncIncidentState`, `SyncTrace`, `SyncReportRead`, `SyncReportSave`, and `MarkProjections`, which stores the new
  `projection_pending`. `cancel_request` is a decision with the value `cancelled`; `create_request` is a creation with a key of its own;
  `decide_latest_pending` is a sweep followed by a decision. `SaveWaitingReport` is the diagnosis run that stores its
  `waiting_approval` report once its request exists: it is a second, independent writer of the report.
* **`ChangeExecution`** extends `Approval`: a handler of the change service is a worker that, while it reads its
  approval, runs the approval actions, and otherwise follows its `job`. `FindExecution` lists what each status of an
  existing execution allows; `Saving` and `SaveExecution`/`SaveConflict` are `_save_execution`; `rev` stands for
  `updated_at` and tells two saves apart. `pre_check_passes` keeps of the sixteen items of `build_pre_check_result`
  the plan's age (it changes while a workflow runs) and one Boolean for the rest (fixed with the plan).
* **`SafeChangeContract`** is the abstract specification: statuses of approvals and executions and the edges between
  them, an execution moving only while its approval is approved. `ImplementsContract` states that the detailed modules
  refine it through `INSTANCE ... WITH`.
* **`SafeChange`** is both services together from an empty store.
* **`DiagnosisRun`** is on its own: sessions of one incident, their snapshots and the incident row, handlers in processes
  that crash and start. `Continue` is what an uninterrupted handler does next. A run is `RequestRun`,
  `CreateSession` (insert if absent), any number of `SaveProgress`, perhaps `RaiseApproval`, `FinishGraph`
  (which stores the report), `FinishRun`; `RunFails` ends it anywhere. A resume is `RequestResume` (the checks of the
  endpoint), `LoadResume` (the checks repeated on the snapshot read then), `ClaimResume` (conditional update),
  `ResumeReport`, `ResumeSnapshot`, `CompleteResume`, with `RejectResume` and `ResumeFails`. `StartProcess`,
  `ReconcileSession` and `ServeRequests` are a process start: the scan keeps copies, each row is closed under the
  condition that its status is still that of the copy. A required write that raises is the failure of its run, so the
  two are one action. The graph's own nodes are left to `AgentLoop`: here it is a choice of outcomes. The approval is
  reduced to its status, decided once, which is what `DecisionFinalHolds` proves of the approval service.

* **`AlertDiagnosis`** extends the lifecycle rules. A webhook handler is synchronous up to its answer, so a process is busy
  with one at a time (`LoopFree`); its steps are the store transactions `Ingest` (the stale-event rule and the merge in one)
  and, for each new or reopened firing alert, `Claim`, under the in-flight mark. The background tasks of a request run
  one after the other: `BeginTask` (takes the semaphore), `CreateSession`, `SaveProgress`, `EndRun` or `Timeout`, on failure
  `ReadForRecord` and `RecordFailure` with the copy that was read, then `Release` under the token. The claim's age counts
  from the claim, not from the semaphore. Of the run it starts only the incident's rows are kept.
* **`Resilience`** is one dependency: `breaker`, callers of four kinds (`call_with_resilience`, its synchronous twin,
  `run_bounded_sync_call`, and the model stream of `rag_agent_service.py`, which uses the breaker by hand), the work items
  they submit and the permits. Time is in ticks and a timer fires before time passes it; the dependency answers,
  fails, or never does either. `Abandon` is the two places where a call leaves without reporting.
* **`IndexPublish`** is one knowledge file: the request side (`ReceiveUpload`, `BackupFile`, `SaveFile`, `UploadReady`,
  `AnswerPartial`, `UndoUpload` and the cancellations), and the indexing thread (`SnapshotSource`, `MarkStale`, `LoadSource`,
  `AddVectors`, `ReplaceLexical`, `DeleteOtherVectors`, `ClearStale`, and the compensation `DropVectors`, `DropLexical`,
  `Compensate`, `Rollback`, `MarkAfterFailure`). The thread outlives a cancelled request; file locks die with their process.
* **`A2ATask`** has one record per messageId. A send is `Arrive`, `Lookup`, `CreateTask` (insert if absent, else `Conflict`),
  `StartRun`, `EndRun`, `FinishRun`, `SaveRun`; `RunRaises`/`SaveFailed` is the except branch, `LeaveStream` a reader that
  goes away, `ReadSnapshot`/`SaveRead` the status read that saves what it derives. `SessionMoves` is the environment: the
  session's status as approvals, resumes and changes move it.
* **`AgentLoop`** is the graph of one run: `Planner`, then per turn one of `ExecuteSteps`, `ExecutionRaises`,
  `PostponeRiskyStep`, `BlockRiskyStep`, `GateRaises`, and one of `KeepResponse`, `StopAtLimit`, `Replan`, the last over every
  conclusion `analyze_evidence` may reach (`Deciding`). A step is a tool with its arguments, of a class of tool, a class of
  text and a level: all the risk controller looks at. `NameOf` is the name of its tool, which several steps may share: evidence
  and failures are compared by it. The risk gate is called inside the executor's `try` (`executor.py:129`), so storing what a
  batch did (`ExecutionRaises`) or what the gate refused (`GateRaises`) ends in the same `except` branch, `HeadFails`: the head
  alone counts as failed and leaves the queue. `risky` keeps the steps of the plan that may not run by themselves, `dropped` those
  whose refusal was lost that way. What a model proposes is any sequence of steps its validation lets pass
  (`normalize_llm_replan_decision`), what a tool returns is usable, unusable or failed. The planner always returns valid
  structured steps, so the branches for text-only or invalid plans are not there. `Picked` takes the entries of a queue at a
  set of positions, in their order; it carries the comprehensions of the code (deduplication, what was executed, low steps).
  `invoked` counts the tools really called, which `executed` does not when the records of a batch are lost. An entry that is a
  retry has level low whatever it repeats (`Level`), as `build_retry_steps` writes it.

Concurrency. The services are synchronous functions called by `async` endpoints, so inside one process a call is
interrupted only at the `yield`s of `start_after_approval`. The conditional updates, the idempotency keys and the outbox
marker exist for handlers in several processes (and the tests drive them from several threads), and that is what is
modelled: any two store transactions of two handlers may interleave. A client that disconnects does not stop a handler
(`_stream_with_disconnect_survival` drains it); a process that dies does (`Crash`, `Abandon`). A trace write that raises
between two steps of the change workflow does not: `_record_change_event` logs it and goes on. In `DiagnosisRun` the interleaving is real inside one process
too: runs and resumes are asynchronous generators that give way at every `yield` and at every step of the graph. The
same holds for `AlertDiagnosis` (handlers never interleave with each other inside a process, background tasks do),
`Resilience` (coroutines and worker threads of one process), `IndexPublish` and `A2ATask` (several processes).

## 3. What is checked

Every run names its constants in a `.cfg`; model values stand for request ids (`a1`, `a2`), handlers (`w1`, `w2`) and
the idempotency key (`k1`). `Symmetry` permutes handlers only, in runs without liveness properties: handlers are
interchangeable in `Init` and `Next`. Requests and actors are never permuted.

| Run | Question | Properties |
|---|---|---|
| `approval` | Two handlers create, read, decide (approve, reject) and expire one request while one write fails or one process dies. Can a decision be overwritten, a projection be forgotten, a closed incident be reopened? | `DecisionFinal`, `OutboxComplete`, `HardTerminalHolds`, `ApprovalTypeOK` |
| `approval_settle` | Two handlers raise, decide and expire two requests for one risky action, every write succeeding. Is there ever a second pending request, and is every marker cleared in the end? | `OnePendingPerKey`, `MarkersSettle` |
| `change` | Two handlers start and restart one change in all three modes, under every plan, with one fault. Does a row get past its gates, is a projection forgotten? | `GatesPassed`, `ExecutionOutboxComplete`, `ChangeTypeOK` |
| `change_settle` | Concurrent starts and resumes, the plan expiring meanwhile, no process dying. Does the workflow leave every interim status, and along the contract's edges only? | `ExecutionSettles`, `ImplementsContract` |
| `receipts_lost` | Two receipts read the same row. Is the history of both kept? It is not. | `ReceiptsNeverLost` (violated) |
| `safe_change` | Both services together from an empty store: request, decision, expiry, change, two concurrent receipts by two operators. Can a change run without a standing approval, can its approver confirm it, do the rows follow the contract? | `ExecutionAuthorized`, `SeparationOfDuties`, `ImplementsContract` |
| `diagnosis` | Two processes, three handlers, one session; one crash, one lost write. Can two workflows run for one session, can a resume happen without an approval, can a failed resume be retried, does anything stay in progress although nothing failed? | `OneRunPerSession`, `ResumeAuthorized`, `ResumeRetryable`, `RunsSettle`, `DiagnosisTypeOK` |
| `alert` | Three deliveries of one alert (first; its resolution, or a second generation together with another alert; third generation) to two processes in any order; runs hang, fail, outlive their lease; one process dies or one store call raises. Do alert and incident keep the order of generations, is the in-flight set exact, does a claim change hands only as it may (released by its holder, taken once inactive, or lost in the two places where the code loses it), does every scheduled diagnosis end? | `GenerationsOrdered`, `InFlightExact`, `ClaimReleasedByHolder`, `DiagnosesEnd` |
| `resilience` | Two callers of every pair of kinds, three attempts, one permit, cancellation anywhere. Does the breaker's count agree with its state, do calls keep their budget, do permits come back, is a probe always settled? | `BreakerSound`, `CallsBounded`, `SlotsBack`, `ProbeSettles` |
| `index` | Two uploads of one file and a directory run, three versions (two that share a chunk, one empty), two troubles among failures, crashes and cancellations. Do the indexes agree, is a ready answer true, is the last ready version kept, is a source given back to retrieval? | `IndexesAgree`, `ReadyIsIndexed`, `ReadyVersionKept`, `StaleOnlyWhileIndexed` |
| `a2a` | Two callers send, stream, resend, reuse the messageId for another request and poll, with two troubles. Is a message run once, is everyone answered about their own request, does the record come to say how the run ended? | `OneRunPerMessage`, `AnswersOwnRequest`, `RecordSettles` |
| `agent` | Every plan of up to three of seven steps (two queries, one whose text is forbidden, two manual analyses that need approval, an action, an advice), every result, with and without the critic, one store call of the executor that raises (for a batch or for a refusal). Is the budget kept, is nothing risky invoked, does a planned risky action vanish from the plan before a report only when its refusal could not be stored, is a tool retried once, does a run end with an answer? | `BudgetKept`, `NothingRiskyRuns`, `RiskNeverSkipped`, `RetriedOnce`, `RunEnds`, `AgentTypeOK` |

Each property of a passing run has a mutant in `PROJECT.json`: a definition of the model with one plausible bug put in
(a missing status condition in an update, an outbox marker not stored, a gate skipped), under which the same run finds
the property violated. `AlertTypeOK`, `ResilienceTypeOK`, `PublishTypeOK` and `A2ATypeOK` are checked as conjuncts of
`InFlightExact`, `BreakerSound`, `ReadyIsIndexed` and `OneRunPerMessage`.

### Bounds

* `MaxTime` ticks of one expiry unit, `TTL` and `PlanTTL` in the same unit. Code compares `now > expires_at`, so a
  lifetime of 0 expires after one tick and a lifetime of 1 after two: both sides of the comparison occur, and time passes
  between any two steps of a handler.
* `MaxFaults = 1`: a failed projection write or a crash happens at most once, anywhere. The markers
  have to survive one fault, the repair included; a second fault during a repair repeats the same states with another
  value of the marker. The proof of `OutboxComplete` has no such bound.
* Two handlers. Every hazard listed is a conflict between two of them (reader against writer, two writers, sweep
  against decision), and a handler that ended is free to take the next call, so a run has any number of calls one after
  the other. The proofs are for any number.
* One request in most runs; two in `approval_settle`, where the subject is their shared key. Requests with different
  keys meet only in the incident row, whose merge rules do not depend on the request.
* `MaxResults = 2` keeps two receipts of the `history[-20:]` the code stores: what is said about losing one receipt
  does not need the truncation, which is therefore outside the model (and `ReceiptsNeverLost` is not claimed beyond 20).
* `Receipts = {"partial", "rolled_back"}` are the two results whose source statuses overlap without being equal.
  `ImplementsContract` is checked for these and, in the modes without receipts, in `change_settle`.

* `diagnosis`: two handlers in one process and one in the other give both kinds of conflict, with the in-process sets and
  without them. `Stale = 1` tick: a snapshot is either fresh or stale, and which of the two is all the code asks.
  `MaxAttempts = 2` allows one retry; attempts are only counted. `MaxCrashes = 1` and `MaxLostWrites = 1` may both
  happen. One session: sessions share only the incident row. `Outcomes = {"completed"}`: the statuses a report without an
  approval ends with are not told apart by anything here. Deadlock is not checked: with no request the system rests.
* `alert`: one holder at a time (`MaxConcurrency = 1`) and a lease of one tick, so that a diagnosis waits for the semaphore
  longer than its claim lasts; the second and third delivery go to another process, which claims meanwhile. `MaxFaults = 1`. The
  batches are fixed but for the second delivery, their order is free. A batch is not empty: an empty
  one is refused (400). Deadlock is not checked: with every delivery answered the system rests.
* `resilience`: `Threshold = 2` separates one failure from an open circuit, `Budget = 3` ticks hold two attempts with a
  back-off of one between them, so the third of `MaxAttempts = 3` is the one the budget cuts. One permit and one abandoned
  call are enough to block a caller. Deadlock is not checked: callers end.
* `index`: two uploads and one directory run are three writers of one file. `MaxTroubles = 2` lets a compensation fail after
  the failure it compensates. `Versions` holds two that share a chunk (deleting one must not take the other's) and an
  empty one. The two uploads are interchangeable, hence `UploadSymmetry`.
* `a2a`: one message; messages share nothing. Two requests under the same messageId are the conflict the code looks for.
* `agent`: `MaxPlan = 3`, `MaxSteps = 4`, `Fanout = 3`, where the code has 8, 8 and 4: a batch that does not fit the rest of the
  budget, a risky step behind two others, and a budget that retries use up all occur. `MaxPlan` is no constant of the code: a
  plan of at most `MAX_PLAN_STEPS` steps is merged with those of the runbooks and may be longer; the proofs hold for any. The two
  queries share a tool name, and so do the two manual analyses. `MaxFaults = 1`.

### Fairness

`ApprovalFairSpec` and `ChangeFairSpec` assume weak fairness of each handler's own steps: the code between two store
transactions is straight-line, and the request is drained even if its client is gone. `ApprovalFairSpec` also assumes
that somebody keeps reading the requests (`get_request` and the listing run the repair, and the console polls them;
strong fairness, because a handler must be free). Nobody is assumed to decide, to raise a request, to start a change
or to send a receipt.

`DiagnosisFairSpec` assumes weak fairness of `Continue` for each handler (the graph takes at most `MAX_STEPS` steps, the
rest is straight-line), of each process's start (a supervisor restarts what died) and of the clock. Saving progress,
approving, requesting a resume, failing and crashing are never forced.

`AlertFairSpec` assumes weak fairness of each webhook's and task's own steps and of the clock, and strong fairness of
`BeginTask`: an `asyncio.Semaphore` serves its waiters in order, while it is taken and free in turns. A run that
hangs is ended by `asyncio.timeout`, which is the clock and the task's own step. `ResilienceFairSpec` assumes the clock and each
caller's own steps, and nothing of the dependency or of the thread that waits for it. `A2AFairSpec` assumes each call's own
steps and a client that polls `get` (strong, because a caller must be free). `AgentSpec` has weak fairness of the graph's
next node, which is a loop of LangGraph.

### Disagreements between the code and what is said of it

One is kept as a run:

* **`receipts_lost`.** A receipt is committed if the row's status is *any* source status of its result, not the one the
  handler read. Two receipts read `waiting_manual_execution`; `partial` commits, then `rolled_back` (whose sources contain
  `partial_success`) commits over it with the history it read before. The topic document says only one can commit.

The others were met while modelling; the runs' properties are stated so that they hold beside them, and say so. In the
approval and change services:

* A projection write fails, the marker stays. `repair_pending_projections` passes the projections a *copy* of the row
  whose `projection_pending` is already empty, and `_sync_committed_*` saves the row only if the list it computed differs from
  that copy's. A repair in which everything succeeds therefore stores nothing (`approval_service.py:346`): each later read
  finds the marker and writes all projections again, for ever.
* `start_after_approval` continues from `created` and `dry_run_completed` only. A process that died in `precheck_running`,
  `dry_run_running` or `sandbox_executing` leaves the row there, and every start returns it as it is, although the docstring
  says "start or resume".
* `mark_approval_decided` reads the report, and saves it with its incident state later. When the change starts and writes its
  statuses in between, the saved state carries change executions and an approval status, a combination the merge lets
  through: the incident goes from the change lifecycle back to `approval_approved`.
* The marker of a creation is replaced by the one of the decision, so a creation projection that failed is not repaired
  once the request is decided; `waiting_approval` may follow `approval_approved` in the incident when a creation's
  projection is slow; a stale repair may leave the incident behind the execution with no marker left. These concern
  projections, not the rows that authorize a change.

In the diagnosis runs and the alerts that start them:

* `reconcile_incomplete_runs` skips snapshots younger than 1800 s, because another worker may still own them, and runs once,
  before the process serves. A process back within that time skips its own abandoned runs, and nothing looks again: they
  stay `running` until some later restart, although the docstring promises to close them for inspection or a retry.
* The snapshot already says `waiting_approval` when a node meets the risky action; the run then stores its required final
  snapshot, with the same status and no look at the row. When the approval is granted and resumed in between, that
  snapshot puts `waiting_approval` over `approval_resumed` and `resume_attempt` back to 0, and the next resume is accepted. The topic
  document says a completed resume is rejected because of its status.
* A failed resume makes the incident `failed` for good, so a retry that succeeds never shows in it; a process that rejects
  a resume request marks the snapshot failed even while another process holds the claim, and both may then complete.
* A new session stores its first incident state without a merge (`sqlite_store.py:743-776`): it takes away the alert's
  `starts_at` and the token of its claim, and a newer generation of the alert then no longer reopens a completed incident
  (`tests/test_alert_ingestion_service.py:215` expects that it does; the test stores no session in between).
* When `_record_alert_diagnosis_failure` raises (`alerts.py:202`) the tasks behind it are dropped and their in-flight marks
  stay until the process ends. The lease starts with the claim and not with the semaphore (170); only a timeout is
  recorded as failed although the topic document speaks of any failure.
* A run may lose the live claim of another, in two ways. The failure record writes over a row it read before (210-273): a run
  times out and reads the metadata; meanwhile another process claims; the record stores what it read, `failed` and its own old
  token, or an empty one that was released before, over the live claim, and a further run may start. And a task that waited for
  the semaphore longer than its lease, while another process claimed, stores the first snapshot of its session
  (`sqlite_store.py:743-776`), which takes that process's token away. The topic document says only the worker with the same
  token can release a claim (`02-告警如何变成故障事件.md:230`). `ClaimReleasedByHolder` names both, says what each may
  leave behind, and allows no third way.

In the resilience layer and the index:

* The docstring of the breaker says "reserve at most one half-open probe". Every outcome clears the probe's mark, whoever
  reports it: a call that began before the circuit opened frees the mark while a probe is out (`release_request` at
  81-85, called at 215), and a second probe starts. A call cancelled in its retry sleep (229) or a stream its reader leaves
  (`rag_agent_service.py:1191`) never returns the probe: the circuit then refuses every call. Waiting for a permit and the
  synchronous call itself each get the same remaining time, so together they last up to twice the budget. Cancelling work
  that is still queued loses its permit (150, 281).
* An overwriting upload that is answered "not ready" keeps what it indexed (`file.py:293-294`), where the topic document has it
  undone. A compensation that fails leaves the two indexes apart without a stale mark, when the mark fails too. A crash
  after line 239 leaves the old file as an orphan backup; a second cancellation releases the file's lock while the thread
  runs (329-335); an upload cancelled at its last rename leaves a file that is not indexed (437); a timed-out upsert goes on in its
  worker and may bring back vectors that were compensated; `mark_source_stale` after a failure is written without the lock
  of the source (`vector_index_service.py:360-367`) and may follow the next indexing.

In the A2A facade and the agent:

* A process that dies between the record and the first snapshot of its run leaves the record `SUBMITTED` for ever. The
  except branch saves `FAILED` over a run that waits for its approval or completed; `get_task` saves what it derived from a read
  (`a2a_facade_core.py:245-251`) over a newer status, until the next poll. (`COMPLETED` going back to `WORKING` when a change starts is
  meant.)
* The executor postpones a risky step behind the diagnostics of the plan (`executor.py:671-710`), and the replanner's
  continue raises the risk gate over the whole remaining plan in the same turn (`replanner.py:252`): the approval is asked
  for before the diagnostics the message says come first.
* A retry whose evidence stays failed is proposed again until `MAX_STEPS` when other steps run in between
  (`evidence_analyzer.py:384-398`). With the model's critic on, two manual steps of level low that need approval may be
  postponed behind each other for ever; only LangGraph's recursion limit, outside this code, ends it. A trace write that
  raises in a batch (`executor.py:396`) loses the results of tools that ran, and they run again. A model that escalates while a
  risky step is still planned ends the run without the gate.
* The gate stops a risky step by storing a trace record (`executor.py:594`) and perhaps an approval request (619), inside the
  `try` of 108. When one of them raises, the except branch (227-254) records the refused step as a tool that failed, takes it
  out of the plan and leaves no response. The retry of a failed tool brings a refused
  action back to the gate, unless the budget is used up or another step of the same tool succeeded; a `manual_analysis` is never
  retried (`evidence_recommendations.py:96`). The run may then end in a plain report. The request may
  have been stored before the raise, and then waits for a decision that no run waits for. Nothing risky is invoked
  (`NothingRiskyRuns` has no exception); `RiskNeverSkipped` names the steps lost this way. The except branch itself stores a trace record
  (252); when that raises too, the exception leaves the graph and the run fails, which is `RunFails` of `DiagnosisRun`.

## 4. What is proved

Every invariant and every action property that a passing run checks is also a theorem, and so is the refinement. The
theorems hold for every set of handlers, processes, requests, steps, versions or messages, and every bound on time,
attempts and faults. Assumed are the named `ASSUME`s of the modules alone, which give the constants their types
(`StoreAssumption`, `ApprovalAssumption`, `ChangeAssumption`, `DiagnosisAssumption`, `AlertAssumption`,
`ResilienceAssumption`, `IndexAssumption`, `A2AAssumption`, `AgentAssumption`); TLC evaluates each on every run of its module.
The sets need not be finite. Each proof module states its inductive invariant (`...Inv`), shows that `Init` implies it and
that each action keeps it, one lemma per action, and derives the properties.

| Module | Theorem | Statement |
|---|---|---|
| `ApprovalProofs` | `TypeCorrect` | `ApprovalSpec => []ApprovalTypeOK` |
| | `OnePendingPerKeyHolds` | `ApprovalSpec => []OnePendingPerKey` |
| | `DecisionFinalHolds` | `ApprovalSpec => DecisionFinal` |
| | `HardTerminalHeld` | `ApprovalSpec => HardTerminalHolds` |
| | `OutboxCompleteHolds` | `ApprovalSpec => []OutboxComplete` |
| `ChangeProofs` | `ChangeTypeHolds` | `ChangeSpec \/ SafeChangeSpec => []ChangeTypeOK` |
| | `GatesPassedHolds` | `ChangeSpec \/ SafeChangeSpec => []GatesPassed` |
| | `SeparationOfDutiesHolds` | `ChangeSpec \/ SafeChangeSpec => []SeparationOfDuties` |
| | `ExecutionOutboxHolds` | `ChangeSpec \/ SafeChangeSpec => []ExecutionOutboxComplete` |
| | `ExecutionAuthorizedHolds` | `ChangeSpec \/ SafeChangeSpec => []ExecutionAuthorized` |
| | `ContractImplemented` | `ChangeSpec \/ SafeChangeSpec => ImplementsContract` |
| `DiagnosisProofs` | `DiagnosisTypeHolds` | `DiagnosisSpec => []DiagnosisTypeOK` |
| | `OneRunPerSessionHolds` | `DiagnosisSpec => []OneRunPerSession` |
| | `ResumeAuthorizedHolds` | `DiagnosisSpec => []ResumeAuthorized` |
| | `ResumeRetryableHolds` | `DiagnosisSpec => []ResumeRetryable` |
| `AlertProofs` | `InFlightExactHolds` | `AlertSpec => []InFlightExact` |
| | `GenerationsOrderedHolds` | `AlertSpec => []GenerationsOrdered` |
| | `ClaimReleasedByHolderHolds` | `AlertSpec => ClaimReleasedByHolder` |
| `ResilienceProofs` | `BreakerSoundHolds` | `ResilienceSpec => []BreakerSound` |
| | `CallsBoundedHolds` | `ResilienceSpec => []CallsBounded` |
| | `SlotsBackHolds` | `ResilienceSpec => []SlotsBack` |
| `IndexProofs` | `IndexesAgreeHolds` | `PublishSpec => []IndexesAgree` |
| | `ReadyIsIndexedHolds` | `PublishSpec => []ReadyIsIndexed` |
| | `ReadyVersionKeptHolds` | `PublishSpec => []ReadyVersionKept` |
| | `StaleOnlyWhileIndexedHolds` | `PublishSpec => []StaleOnlyWhileIndexed` |
| `A2AProofs` | `OneRunPerMessageHolds` | `A2ASpec => []OneRunPerMessage` |
| | `AnswersOwnRequestHolds` | `A2ASpec => []AnswersOwnRequest` |
| `AgentProofs` | `AgentTypeHolds` | `AgentSpec => []AgentTypeOK` |
| | `BudgetKeptHolds` | `AgentSpec => []BudgetKept` |
| | `NothingRiskyRunsHolds` | `AgentSpec => []NothingRiskyRuns` |
| | `RiskNeverSkippedHolds` | `AgentSpec => []RiskNeverSkipped` |
| | `RetriedOnceHolds` | `AgentSpec => []RetriedOnce` |

The theorems are about the specifications without fairness (`ApprovalSpec`, ...; `AgentSpec` has its fairness, which safety does
not need); those with fairness imply them.

### The inductive invariants

**Approval service.**

* *Types.* `ApprovalTypeOK` is inductive. The lemmas before it type the operators: what the report helpers return, what the
  merge returns, where a handler continues after a projection.
* *Decisions.* A row alone does not tell whether a write of a handler's copy is harmless. `RowsInv` adds `HeldRows`: for
  every request object in a handler's hands, the stored row exists with the same creation time, and if the object shows
  a decision the row has the same status and decider. Then the marker's upsert, the only write that is not guarded by
  `status = 'pending'`, writes a decided row over the same decision, and `DecisionFinal` follows step by step.
* *One pending per key* holds because a creation inserts under the condition that no other pending row has the key, and no
  other step makes a row pending; the second half needs `RowsInv`.
* *Hard terminal statuses.* `MergeKeepsTerminal` is a lemma on `merge_incident_state` alone, for all updates, and is used by
  the actions that write the incident.
* *Outbox.* `OutboxComplete` speaks of the row; between commit and marker the truth is in a handler. `OutboxInv` adds
  `SyncsRecorded`: what the handler did not note as failed and already passed has been written. A concurrent repair may
  clear or set the marker in any order, which is why the fact is stated per handler and not per row.

**Change service, alone and with the approval service.** Every step of `ChangeNext` is a step of `SafeChangeNext`, so one
invariant, `ChangeInv == RowsInv /\ ChangeTypeOK /\ AllLinked /\ AllJobsFit /\ AllRowsFit`, serves both specifications and
takes `RowsInv` over from the approval service.

* *Gates.* A handler works on a copy while the stored row may move on. `JobGates` says that each copy either passed the gates
  its status demands, or its save is `Doomed`: the row is past every status the save expects, and stays past it, because
  `BeyondDryRun` and `BeyondSandbox` are never left backwards.
* *Authorization.* `AllLinked` ties what a handler read of its approval to the job that waits for it; a decision is final
  (the invariant of the approval service), so an approval found granted still is when the execution is inserted.
* *Duties* and *outbox* follow from facts about each handler's job (who records; what it has written so far), as above.
* *Refinement.* `ContractImplemented` is a step simulation: by `ChangeInv` every save moves the row along an edge of
  `SafeChangeContract` or keeps its status, and a decision is an edge of the contract's approval; all else stutters.

**Diagnosis runs** (`DiagnosisInv`). Only an insert into an absent row starts a run, and rows are never removed; a row that
runs for the first time has attempt 0, so a handler in `graph` and one in a resume are told apart. Handlers inside a resume
hold an approved decision, decisions never leave `approved`. The copies that a starting process scanned (`ScansFit`)
need a fact of their own: they are written back long after they were read.

**Alerts** (`AlertInv`). `Follows` relates an incident's row to the stored alert and is kept by the merge for any delivery that
is not stale; `RequestsFit` keeps a request's tasks distinct and the rows of its incidents there; `TasksFit` says the same
of the copy that a failure record has read, and `MarksFit` which task owns which mark, with a mark nobody owns only after a
fault. `ClaimReleasedByHolder` follows action by action: a
claim's token changes only in `Claim` (under the lookup that found it inactive), `Release` (under `holds_claim`), `CreateSession` and
`RecordFailure`. The form the documents give it, without the last two, is false for the reasons given among the disagreements above.

**Resilience** (`ResilienceInv`). `PoolFits` counts: free permits and work that holds one add up to all permits, or to fewer once
work was given up while queued. `InTime` bounds each kind's elapsed time at each of its steps (`Due`), where a waiting call still owes a
whole attempt and its back-off; `CallsBounded` is the last of these bounds.

**Index** (`IndexInv`). `ThreadFits` says, at each step of an indexing thread, what it knows of the two indexes: untouched,
vectors added, lexical replaced, marked stale. Locks make it the only one that can change them. `Safe` strengthens
`ReadyVersionKept`, which is not inductive: while a newer version is being indexed, the last ready one must be in a backup and
not only at the path that the newer one will take. Once an upload is indexed, every thread inside the section
can only publish that version or restore it (`PublishedFit`).

**A2A facade.** `A2AInv` says that whoever executes a task inserted its record (`RunsOwned`) and that records keep their
request; a task that ran has a record, so the conditional insert never succeeds twice.

**Agent loop** (`AgentInv == TypesFit /\ GraphFits /\ CountsFit /\ OnlyAllowedRuns /\ RiskFits /\ RetriesFit`).

* *Queues.* `PickedShape` shows that `Picked` takes each position once and in order; from it follow the lemmas on deduplication,
  replanning (`Replanned`: nothing that waited is lost, nothing else is added) and postponing (`PostponedQueue`: the same
  entries in another order). `Least`, the least-number principle for a set, stands in for induction: it gives the first
  entry of a kind and the batch that `BatchSize` chooses.
* *Budget.* The executor is entered only below `MaxSteps`, and `BatchFits` bounds a batch by what is left; a batch whose
  records are lost adds at most `Fanout - 1` calls that are not counted. `CountsFit` says that a step with evidence is allowed
  and ran, and a failed one too unless its refusal was lost.
* *Risk.* `RiskFits`: while there is no answer, each risky step of the plan is still queued or was dropped with its refusal,
  because an executed entry is allowed, and replanning and postponing lose none; a report needs a silent gate.
* *Retries.* `RetriesFit`: without the critic no step is queued twice; an entry waits only if its step has not run, or ran once
  and the entry is its retry; a step that ran twice has its evidence or its failed retry, which `build_retry_steps` excludes.

### Only model-checked

Liveness: `MarkersSettle`, `ExecutionSettles`, `RunsSettle`, `DiagnosesEnd`, `ProbeSettles`, `RecordSettles` and `RunEnds` stay
with TLC, because the prover has no rules for fairness and `ENABLED`. `ReceiptsNeverLost` is refuted, not proved. What a
recursive definition computes for all inputs is out of the prover's reach as well; the queue operators are therefore written
with `Picked` instead of a recursive filter.

## 5. What is not modelled

* Of the modelled services: the wording of reports and timelines, the sixteen pre-check items one by one (one Boolean and
  the plan's age), simulated sandbox observations, list filters, the 20-entry cap of receipt history, and the MySQL store's
  own SQL except where its conditions equal SQLite's.
* `get_latest_report` orders by `created_at` (`sqlite_store.py:1291`), the models take the report written last. The two differ
  when a projection saves the older report it read after a run has stored a newer one.
* `_mark_resume_failed` reads the snapshot (`aiops_service.py:1205`) and updates it under a condition (1225); the model has one
  step. It leaves out that the row is closed and claimed by another resume in between, which is then failed with the content
  of the older one.
* Restoring the old version of a file is one step. A cancellation between its unlink and its rename (`file.py:280`, 292-294,
  561-562), after which the old version is in its backup and not at its path, is not modelled.
* One incident. Incidents share no rows with each other in these services.
* Of the diagnosis runs: the report fallback of a resume (for a snapshot that retention deleted), progress events and
  cursors, and what the events of a stream say.
* `SeparationOfDuties` is about authenticated principals as the code compares them; how an identity is established is
  the authentication layer's and outside the model.
* Of the alerts: the normalisation of vendor payloads, fingerprints and severities (an alert here is its incident, status and
  times). Of the agent: the patterns that recognise an action or a forbidden command in text (a step has its class), the
  scores that rank evidence and hypotheses (a conclusion is any the code can reach from the results), plans that are
  text only or invalid (the planner validates its own), and what the critic says. Of the A2A facade: the agent card, listing
  and the text of artifacts. Of the index: chunking, the quality log, the rebuild script and ranking.
* Retention is one SQL predicate over old rows, run offline by a script that takes no lock and keeps nothing.
* Retrieval, scoring, language-model output, integrations, the HTTP shell, the console, scripts and deployment (see the
  inventory): no state the core's correctness rests on, or I/O. Most of the repository's lines are of this kind: evaluation
  cases and their scripts, demonstration data, Markdown reports, the SQL text of two dialects, prompts, clients of external
  systems, views. Their state is a request, a file written once or a row appended, their result is text or a number;
  a model of them would restate them. What holds state that several actors change is modelled.

## 6. Plan

In order of importance:

1. `AlertDiagnosis` composed with `DiagnosisRun`, which it replaces by its outcomes so far; with the abstract specification
   that an incident has at most one live claim, and the two places that break it as a run of their own.
2. Abstract specifications for the smaller modules (a run that is executed once, an index that publishes whole versions),
   with the refinements proved from the invariants of section 4.
3. Action properties that the invariants already carry: executions never regress, retries are counted, an answer is final.
