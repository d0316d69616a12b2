-------------------------- MODULE ChangeExecution --------------------------
(***************************************************************************)
(* ChangeExecutionService (app/services/change_execution_service.py): the  *)
(* pre-check, dry-run, sandbox and manual-record workflow an approval      *)
(* authorizes, and the receipts other operators record.  A client that     *)
(* disconnects does not stop the workflow, which is drained in a task of   *)
(* its own; a dying process, or a trace write that raises between two      *)
(* steps, does.                                                            *)
(*                                                                         *)
(* A handler is a worker of Approval: it reads its approval with           *)
(* get_request, projection repair included, and then works on a copy of    *)
(* the execution row that it saves by compare-and-set on the status.       *)
(***************************************************************************)
EXTENDS Approval

CONSTANTS PlanTTL,         \* expires_in_seconds of a change plan, in clock ticks
          StartModes,      \* modes operators ask for
          Receipts,        \* manual results operators submit
          MaxResults       \* bound on the receipts of one execution

ASSUME ChangeAssumption ==
    /\ PlanTTL \in Nat
    /\ StartModes \subseteq Modes
    /\ Receipts \subseteq ManualResults
    /\ MaxResults \in Nat

VARIABLES plan,            \* the approved ChangePlan, as its checks see it
          job,             \* what each handler does for the change service
          audit            \* which saved executions reached which projection

changeVars == <<plan, job, audit>>
allVars == <<approvals, executions, incident, report, projected, now, worker, faults,
             plan, job, audit>>

\* valid: every item of build_pre_check_result but the plan's age; dryRunOk: no
\* blocked step; nonProd: its environment is a known non-production one.
Plans == [valid : BOOLEAN, dryRunOk : BOOLEAN, nonProd : BOOLEAN]

JobPCs == {"idle", "loading", "find", "create", "save", "incident_state", "report",
           "save_report", "trace", "mark", "precheck", "dry_run", "sandbox",
           "manual_check", "manual_loading"}

\* row is the ChangeExecution object in hand, expected the statuses the next save
\* accepts, next what follows once the projections of row are written.
Job == [pc : JobPCs, next : JobPCs, id : ApprovalIds, mode : Modes,
        actor : Actors \cup {"nobody"}, result : ManualResults, row : Execution,
        expected : SUBSET ExecutionStatuses, failed : SUBSET Projections,
        seen : Reports \cup {NoReport}]

IdleJob == [pc |-> "idle", next |-> "idle", id |-> NoId, mode |-> "dry_run_only",
            actor |-> "nobody", result |-> "succeeded", row |-> AbsentExecution,
            expected |-> {}, failed |-> {}, seen |-> NoReport]

-----------------------------------------------------------------------------
(* Helpers *)

\* build_pre_check_result on the approval in hand; an approval and its plan are
\* created together.
pre_check_passes(a) == plan[a].valid /\ now <= approvals[a].createdAt + PlanTTL

\* Mutant: the environment is not looked at.
status_after_dry_run_anywhere(mode, a) ==
    CASE mode = "manual_record" -> "waiting_manual_execution"
      [] mode = "sandbox" -> "sandbox_executing"
      [] OTHER -> "dry_run_completed"

\* Mutant: a dry-run-only call goes on to the sandbox status.
status_after_dry_run_no_stop(mode, a) ==
    CASE mode = "manual_record" -> "waiting_manual_execution"
      [] plan[a].nonProd -> "sandbox_executing"
      [] OTHER -> "escalated"

status_after_dry_run(mode, a) ==
    CASE mode = "manual_record" -> "waiting_manual_execution"
      [] mode = "sandbox" /\ plan[a].nonProd -> "sandbox_executing"
      [] mode = "sandbox" /\ ~plan[a].nonProd -> "escalated"
      [] OTHER -> "dry_run_completed"

At(j, pc) == IF pc = "idle" THEN IdleJob ELSE [j EXCEPT !.pc = pc]

\* A handler is about to save row (_save_execution) and continue at next.
Saving(j, row, expected, next) ==
    [j EXCEPT !.pc = "save", !.row = [row EXCEPT !.rev = @ + 1], !.expected = expected,
              !.next = next]

\* get_execution and _repair_execution_if_needed.
get_execution(j, a, next) ==
    IF executions[a].pending = {}
      THEN At([j EXCEPT !.id = a, !.row = executions[a]], next)
      ELSE [j EXCEPT !.pc = "incident_state", !.id = a, !.next = next, !.failed = {},
                     !.row = [executions[a] EXCEPT !.pending = {}]]

\* Mutant: the approval's status is not checked.
authorized_by_any(w) == ~is_expired(worker[w].row)

\* _load_approved_request, on the approval object the worker read.
authorized(w) == worker[w].row.status = "approved" /\ ~is_expired(worker[w].row)

\* Mutant: the approver may record the result.
receipt_accepted_from_any(w) == authorized(w) /\ pre_check_passes(job[w].id)

\* The conditions of record_manual_result on the approval it read.
receipt_accepted(w) ==
    /\ authorized(w)
    /\ worker[w].row.decidedBy # job[w].actor
    /\ pre_check_passes(job[w].id)

\* Mutant: the names of failed projections are not kept.
NothingLeft(w) == {}

\* The names ChangeExecutionProjector.sync returns.
Left(w) == job[w].failed

Free(w) == Idle(w) /\ job[w].pc = "idle"

SetJob(w, j) == job' = [job EXCEPT ![w] = j]

ChangeFact(w, name) == <<job[w].id, job[w].row.rev, job[w].row.status, name>>

-----------------------------------------------------------------------------
(* start_after_approval *)

StartAfterApproval(w, a, mode) ==
    /\ Free(w)
    /\ approvals[a].status # "absent"
    /\ worker' = [worker EXCEPT ![w] = get_request(@, a, "start")]
    /\ SetJob(w, [IdleJob EXCEPT !.pc = "loading", !.id = a, !.mode = mode])
    /\ UNCHANGED <<storeVars, faults, plan, audit>>

LoadedForStart(w) ==
    /\ worker[w].pc = "returned" /\ worker[w].op = "start"
    /\ worker' = [worker EXCEPT ![w] = IdleWorker]
    /\ SetJob(w, IF authorized(w) THEN [job[w] EXCEPT !.pc = "find"] ELSE IdleJob)
    /\ UNCHANGED <<storeVars, faults, plan, audit>>

\* _find_existing_execution and what its status allows.
FindExecution(w) ==
    LET j == job[w]
        row == executions[j.id]
        resuming == row.status = "dry_run_completed" /\ j.mode # "dry_run_only"
    IN  /\ j.pc = "find"
        /\ \/ /\ row.status = "absent"
              /\ SetJob(w, [j EXCEPT !.pc = "create"])
           \/ /\ row.status = "created"
              /\ SetJob(w, Saving(j, [row EXCEPT !.status = "precheck_running"],
                                  {"created"}, "precheck"))
           \/ /\ resuming /\ ~pre_check_passes(j.id)
              /\ SetJob(w, Saving(j, [row EXCEPT !.status = "precheck_failed",
                                                 !.precheck = FALSE],
                                  {"dry_run_completed"}, "idle"))
           \/ /\ resuming /\ pre_check_passes(j.id)
              /\ SetJob(w, Saving(j, [row EXCEPT !.mode = j.mode,
                                                 !.status = status_after_dry_run(j.mode, j.id)],
                                  {"dry_run_completed"},
                                  IF j.mode = "sandbox" THEN "sandbox" ELSE "idle"))
           \/ /\ row.status \notin {"absent", "created"} /\ ~resuming
              /\ SetJob(w, IdleJob)
        /\ UNCHANGED <<storeVars, worker, faults, plan, audit>>

\* create_change_execution_once; an existing row is only reported back.
CreateExecution(w) ==
    LET j == job[w]
        row == [AbsentExecution EXCEPT !.status = "created", !.mode = j.mode]
    IN  /\ j.pc = "create"
        /\ \/ /\ executions[j.id].status = "absent"
              /\ create_change_execution_once(j.id, row)
              /\ SetJob(w, Saving(j, [row EXCEPT !.status = "precheck_running"],
                                  {"created"}, "precheck"))
           \/ /\ executions[j.id].status # "absent"
              /\ SetJob(w, IdleJob)
              /\ UNCHANGED executions
        /\ UNCHANGED <<approvals, incident, report, projected, now, worker, faults, plan,
                       audit>>

\* _continue_from_precheck_running, resumed after the precheck_running event.
RunPreChecks(w) ==
    LET j == job[w]
        passes == pre_check_passes(j.id)
    IN  /\ j.pc = "precheck"
        /\ SetJob(w, Saving(j, [j.row EXCEPT
                                  !.status = IF passes THEN "dry_run_running"
                                                       ELSE "precheck_failed",
                                  !.precheck = passes],
                            {"precheck_running"}, IF passes THEN "dry_run" ELSE "idle"))
        /\ UNCHANGED <<storeVars, worker, faults, plan, audit>>

\* Resumed after the dry_run_running event.
RunDryRun(w) ==
    LET j == job[w]
        ok == plan[j.id].dryRunOk
    IN  /\ j.pc = "dry_run"
        /\ SetJob(w, Saving(j, [j.row EXCEPT
                                  !.status = IF ok THEN status_after_dry_run(j.mode, j.id)
                                                   ELSE "dry_run_failed",
                                  !.dryRun = ok],
                            {"dry_run_running"},
                            IF ok /\ j.mode = "sandbox" THEN "sandbox" ELSE "idle"))
        /\ UNCHANGED <<storeVars, worker, faults, plan, audit>>

\* _run_sandbox_execution: an escalated row gets its rollback_result, an executing
\* one its observation.
RunSandbox(w) ==
    LET j == job[w]
    IN  /\ j.pc = "sandbox"
        /\ \/ /\ j.row.status = "escalated"
              /\ SetJob(w, Saving(j, j.row, {"escalated"}, "idle"))
           \/ /\ j.row.status # "escalated"
              /\ SetJob(w, Saving(j, [j.row EXCEPT !.status = "sandbox_validated"],
                                  {"sandbox_executing"}, "idle"))
        /\ UNCHANGED <<storeVars, worker, faults, plan, audit>>

-----------------------------------------------------------------------------
(* record_manual_result *)

RecordManualResult(w, a, result, actor) ==
    /\ Free(w)
    /\ executions[a].status # "absent"
    /\ Len(executions[a].results) < MaxResults
    /\ SetJob(w, get_execution([IdleJob EXCEPT !.result = result, !.actor = actor], a,
                               "manual_check"))
    /\ UNCHANGED <<storeVars, worker, faults, plan, audit>>

ManualCheck(w) ==
    LET j == job[w]
    IN  /\ j.pc = "manual_check"
        /\ \/ /\ j.row.status \in manual_result_source_statuses(j.result)
              /\ SetJob(w, [j EXCEPT !.pc = "manual_loading"])
              /\ worker' = [worker EXCEPT ![w] = get_request(@, j.id, "manual")]
           \/ /\ j.row.status \notin manual_result_source_statuses(j.result)
              /\ SetJob(w, IdleJob)
              /\ UNCHANGED worker
        /\ UNCHANGED <<storeVars, faults, plan, audit>>

\* The receipt is built on the row read at the start; its step results are the
\* plan's (_validate_manual_step_results refuses the others and changes nothing).
LoadedForManual(w) ==
    LET j == job[w]
        receipt == [j.row EXCEPT !.status = status_from_manual_result(j.result),
                                 !.results = Append(@, j.result), !.recordedBy = j.actor]
    IN  /\ worker[w].pc = "returned" /\ worker[w].op = "manual"
        /\ worker' = [worker EXCEPT ![w] = IdleWorker]
        /\ SetJob(w, IF receipt_accepted(w)
                       THEN Saving(j, receipt, manual_result_source_statuses(j.result), "idle")
                       ELSE IdleJob)
        /\ UNCHANGED <<storeVars, faults, plan, audit>>

\* get_execution from a read endpoint.
ReadExecution(w, a) ==
    /\ Free(w)
    /\ executions[a].pending # {}
    /\ SetJob(w, get_execution(IdleJob, a, "idle"))
    /\ UNCHANGED <<storeVars, worker, faults, plan, audit>>

-----------------------------------------------------------------------------
(* _save_execution and the projections of ChangeExecutionProjector.sync *)

\* The projections are named in the row before any of them is written.
SaveExecution(w) ==
    LET j == job[w]
        row == [j.row EXCEPT !.pending = Projections]
    IN  /\ j.pc = "save"
        /\ ExecutionMatches(j.id, j.expected)
        /\ save_change_execution_if_status(j.id, row, j.expected)
        /\ SetJob(w, [j EXCEPT !.pc = "incident_state", !.row = row, !.failed = {},
                               !.expected = {}])
        /\ UNCHANGED <<approvals, incident, report, projected, now, worker, faults, plan,
                       audit>>

\* The status moved meanwhile: the row is read again, repaired, and the call raises.
SaveConflict(w) ==
    LET j == job[w]
    IN  /\ j.pc = "save"
        /\ ~ExecutionMatches(j.id, j.expected)
        /\ SetJob(w, get_execution([j EXCEPT !.expected = {}], j.id, "idle"))
        /\ UNCHANGED <<storeVars, worker, faults, plan, audit>>

\* A projection of the change service raised.
JobRaise(w, name, next) ==
    /\ faults > 0
    /\ faults' = faults - 1
    /\ SetJob(w, [job[w] EXCEPT !.pc = next, !.failed = @ \cup {name}, !.seen = NoReport])

ProjectIncidentState(w) ==
    /\ job[w].pc = "incident_state"
    /\ \/ /\ save_incident_state(build_incident_state_from_change_execution(job[w].row.status))
          /\ audit' = audit \cup {ChangeFact(w, "incident_state")}
          /\ SetJob(w, [job[w] EXCEPT !.pc = "report"])
          /\ UNCHANGED faults
       \/ /\ JobRaise(w, "incident_state", "report")
          /\ UNCHANGED <<incident, audit>>
    /\ UNCHANGED <<approvals, executions, report, projected, now, worker, plan>>

ProjectReportRead(w) ==
    /\ job[w].pc = "report"
    /\ IF report = NoReport
         THEN /\ SetJob(w, [job[w] EXCEPT !.pc = "trace"])
              /\ audit' = audit \cup {ChangeFact(w, "report")}
         ELSE /\ SetJob(w, [job[w] EXCEPT !.pc = "save_report", !.seen = report])
              /\ UNCHANGED audit
    /\ UNCHANGED <<storeVars, worker, faults, plan>>

ProjectReportSave(w) ==
    /\ job[w].pc = "save_report"
    /\ \/ /\ save_report_with_incident(apply_change_execution(job[w].seen, job[w].row.status))
          /\ audit' = audit \cup {ChangeFact(w, "report")}
          /\ SetJob(w, [job[w] EXCEPT !.pc = "trace", !.seen = NoReport])
          /\ UNCHANGED faults
       \/ /\ JobRaise(w, "report", "trace")
          /\ UNCHANGED <<incident, report, audit>>
    /\ UNCHANGED <<approvals, executions, projected, now, worker, plan>>

ProjectTrace(w) ==
    /\ job[w].pc = "trace"
    /\ \/ /\ audit' = audit \cup {ChangeFact(w, "trace")}
          /\ SetJob(w, [job[w] EXCEPT !.pc = "mark"])
          /\ UNCHANGED faults
       \/ /\ JobRaise(w, "trace", "mark")
          /\ UNCHANGED audit
    /\ UNCHANGED <<approvals, executions, incident, report, projected, now, worker, plan>>

\* _sync_committed_execution: save the new projection_pending if the status still
\* is the one in hand, else go on with the latest row.
MarkExecution(w) ==
    LET j == job[w]
        updated == [j.row EXCEPT !.pending = Left(w)]
        current == ExecutionMatches(j.id, {j.row.status})
        changed == updated.pending # j.row.pending
        row == IF changed /\ ~current THEN executions[j.id] ELSE updated
    IN  /\ j.pc = "mark"
        /\ IF changed THEN save_change_execution_if_status(j.id, updated, {j.row.status})
                      ELSE UNCHANGED executions
        /\ SetJob(w, At([j EXCEPT !.row = row, !.failed = {}, !.next = "idle"], j.next))
        /\ UNCHANGED <<approvals, incident, report, projected, now, worker, faults, plan,
                       audit>>

\* The process dies between two steps: what the handler held is gone.  Nothing else stops a
\* workflow there: _record_change_event keeps what it raises to itself.
Abandon(w) ==
    /\ ~Free(w)
    /\ faults > 0
    /\ faults' = faults - 1
    /\ worker' = [worker EXCEPT ![w] = IdleWorker]
    /\ SetJob(w, IdleJob)
    /\ UNCHANGED <<storeVars, plan, audit>>

-----------------------------------------------------------------------------

\* Every request was approved at time 0 and the decision's projections are written.
ChangeInit ==
    /\ \E approver \in Actors :
        approvals = [a \in ApprovalIds |->
                        [status |-> "approved", createdAt |-> 0, decidedBy |-> approver,
                         pending |-> {}]]
    /\ executions = [a \in ApprovalIds |-> AbsentExecution]
    /\ incident = PlainUpdate("approval_approved", "diagnosis_report", FALSE)
    /\ report = [status |-> "approval_approved", changed |-> FALSE]
    /\ projected = (ApprovalIds \X {"pending"} \X creation_projection_names)
                        \cup (ApprovalIds \X {"approved"} \X decision_projection_names)
    /\ now = 0
    /\ worker = [w \in Workers |-> IdleWorker]
    /\ faults = MaxFaults
    /\ plan \in [ApprovalIds -> Plans]
    /\ job = [w \in Workers |-> IdleJob]
    /\ audit = {}

\* What a handler does once it has begun.
ChangeStep(w) ==
    \/ LoadedForStart(w)
    \/ FindExecution(w)
    \/ CreateExecution(w)
    \/ RunPreChecks(w)
    \/ RunDryRun(w)
    \/ RunSandbox(w)
    \/ ManualCheck(w)
    \/ LoadedForManual(w)
    \/ SaveExecution(w)
    \/ SaveConflict(w)
    \/ ProjectIncidentState(w)
    \/ ProjectReportRead(w)
    \/ ProjectReportSave(w)
    \/ ProjectTrace(w)
    \/ MarkExecution(w)

ChangeArrival(w) ==
    \E a \in ApprovalIds :
        \/ \E mode \in StartModes : StartAfterApproval(w, a, mode)
        \/ \E result \in Receipts, actor \in Actors : RecordManualResult(w, a, result, actor)
        \/ ReadExecution(w, a)

ChangeNext ==
    \/ \E w \in Workers : ChangeArrival(w) \/ ChangeStep(w) \/ Abandon(w)
    \/ Tick /\ UNCHANGED changeVars

ChangeSpec == ChangeInit /\ [][ChangeNext]_allVars

\* A handler whose process lives runs on.
StepsFair == \A w \in Workers : WF_allVars(ChangeStep(w))

ChangeFairSpec == ChangeSpec /\ StepsFair
-----------------------------------------------------------------------------
(* Properties *)

\* Rows, projections, request objects and execution objects hold values of their type.
ChangeTypeOK ==
    /\ ApprovalTypeOK
    /\ plan \in [ApprovalIds -> Plans]
    /\ job \in [Workers -> Job]
    /\ audit \subseteq ApprovalIds \X Nat \X ExecutionStatuses \X Projections

Gated == ExecutionStatuses \ {"created", "precheck_running", "precheck_failed",
                              "dry_run_running", "dry_run_failed"}

\* No execution gets past the gates without them, whatever copies of the row
\* concurrent starts, repairs and receipts save over each other: a status beyond
\* the dry-run keeps a passed pre-check and a passed dry-run in the row, and
\* sandbox work happens only in a known non-production environment.
GatesPassed ==
    \A a \in ApprovalIds :
        /\ executions[a].status \in Gated => executions[a].precheck /\ executions[a].dryRun
        /\ executions[a].status \in {"sandbox_executing", "sandbox_validated"}
              => plan[a].nonProd

\* Whoever records the result of a change is not who approved it.
SeparationOfDuties ==
    \A a \in ApprovalIds :
        executions[a].recordedBy # "nobody" =>
            /\ approvals[a].status = "approved"
            /\ executions[a].recordedBy # approvals[a].decidedBy

\* Every projection of the row stored last has been written for that very save, or
\* is still named in the row's projection_pending.
ExecutionOutboxComplete ==
    \A a \in ApprovalIds :
        executions[a].status \notin {"absent", "created"} =>
            \A p \in Projections :
                \/ p \in executions[a].pending
                \/ <<a, executions[a].rev, executions[a].status, p>> \in audit

\* The approval and execution rows move as the contract says, and an execution moves
\* only while its approval is approved.
Contract == INSTANCE SafeChangeContract
                WITH Ids <- ApprovalIds,
                     approval <- [a \in ApprovalIds |-> approvals[a].status],
                     execution <- [a \in ApprovalIds |-> executions[a].status]
ImplementsContract == Contract!Spec

Interim == {"created", "precheck_running", "dry_run_running", "sandbox_executing"}

\* When no process dies, of any number of concurrent starts one carries the
\* execution to a state that waits for an operator or is final.
ExecutionSettles ==
    \A a \in ApprovalIds : executions[a].status \in Interim ~> executions[a].status \notin Interim

\* A committed receipt stays in the history: of two receipts that read the same
\* status only one is accepted (11-*.md:317).
ReceiptsNeverLost ==
    [][\A a \in ApprovalIds :
         LET old == executions[a].results
             new == executions'[a].results
         IN  /\ Len(old) <= Len(new)
             /\ SubSeq(new, 1, Len(old)) = old]_allVars

=============================================================================
