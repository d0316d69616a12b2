-------------------------- MODULE IncidentLifecycle --------------------------
(***************************************************************************)
(* The lifecycle rules every writer of an IncidentState goes through       *)
(* (app/services/policies/lifecycle.py, incident_lifecycle.py,             *)
(* incident_state_builder.py, report_lifecycle.py): which statuses exist,  *)
(* how the status of a report, an approval or a change execution becomes   *)
(* an incident status, and how an update is merged into the stored row.    *)
(*                                                                         *)
(* An IncidentState keeps the fields the merge reads: the status and, of   *)
(* its metadata, the source, whether a change_execution_id is present,     *)
(* starts_at (0 when the key is missing), alert_status and                 *)
(* alert_auto_diagnosis_status ("" when missing).  Titles, summaries and   *)
(* the other display fields follow the status and are left out.            *)
(***************************************************************************)
EXTENDS Naturals

CHANGE_LIFECYCLE_STATUSES ==
    {"change_prechecking", "change_dry_run", "change_validated", "sandbox_validated",
     "waiting_manual_execution", "change_executing_sandbox", "observing",
     "partial_success", "recovery_pending", "resolved", "rollback_recommended",
     "rolled_back", "rollback_failed", "precheck_failed", "dry_run_failed", "escalated"}

REPORT_ONLY_STATUSES ==
    {"completed", "incomplete", "degraded", "needs_human", "waiting_approval",
     "approval_approved", "approval_rejected", "approval_resumed", "blocked", "failed"}

ACTIVE_DIAGNOSIS_STATUSES ==
    {"created", "investigating", "diagnosing", "running", "planning", "executing",
     "alert_firing", "alert_resolved"}

APPROVAL_LIFECYCLE_STATUSES ==
    {"waiting_approval", "approval_approved", "approval_rejected", "approval_cancelled",
     "approval_resumed"}

HARD_TERMINAL_INCIDENT_STATUSES ==
    {"completed", "incomplete", "degraded", "needs_human", "approval_rejected",
     "approval_cancelled", "blocked", "failed", "escalated", "resolved", "closed",
     "precheck_failed", "dry_run_failed"}

IncidentStatuses ==
    CHANGE_LIFECYCLE_STATUSES \cup REPORT_ONLY_STATUSES \cup ACTIVE_DIAGNOSIS_STATUSES
        \cup APPROVAL_LIFECYCLE_STATUSES \cup HARD_TERMINAL_INCIDENT_STATUSES
        \cup {"change_pending", "resume_running"}

Sources == {"aiops_state", "incident_input", "diagnosis_report", "approval",
            "change_execution", "alertmanager", "alert_auto_diagnosis"}

IncidentState ==
    [status : IncidentStatuses, source : Sources, change : BOOLEAN, startsAt : Nat,
     alertStatus : {"", "firing", "resolved"}, diag : {"", "idle", "running", "queued",
                                                       "failed", "completed"}]

-----------------------------------------------------------------------------
(* Status mappings *)

\* Statuses a ChangeExecution row can hold.
ExecutionStatuses ==
    {"created", "precheck_running", "precheck_failed", "dry_run_running", "dry_run_failed",
     "dry_run_completed", "waiting_manual_execution", "sandbox_executing",
     "sandbox_validated", "escalated", "closed", "rollback_recommended",
     "partial_success", "recovery_pending", "rolled_back", "rollback_failed"}

\* Mutant: a running pre-check has no incident status of its own.
status_from_change_execution_unmapped(s) ==
    CASE s = "dry_run_running" -> "change_dry_run"
      [] s \in {"dry_run_completed", "sandbox_validated"} -> "change_validated"
      [] s = "sandbox_executing" -> "change_executing_sandbox"
      [] s = "closed" -> "resolved"
      [] OTHER -> s

status_from_change_execution(s) ==
    CASE s = "precheck_running" -> "change_prechecking"
      [] s = "dry_run_running" -> "change_dry_run"
      [] s \in {"dry_run_completed", "sandbox_validated"} -> "change_validated"
      [] s = "sandbox_executing" -> "change_executing_sandbox"
      [] s = "closed" -> "resolved"
      [] OTHER -> s

ManualResults == {"succeeded", "failed", "partial", "recovery_pending", "rolled_back",
                  "rollback_failed"}

status_from_manual_result(r) ==
    CASE r = "succeeded" -> "closed"
      [] r = "failed" -> "rollback_recommended"
      [] r = "partial" -> "partial_success"
      [] OTHER -> r

manual_result_source_statuses(r) ==
    CASE r = "succeeded" -> {"waiting_manual_execution", "recovery_pending"}
      [] r = "failed" -> {"waiting_manual_execution", "partial_success", "recovery_pending"}
      [] r = "partial" -> {"waiting_manual_execution"}
      [] r = "recovery_pending" -> {"waiting_manual_execution", "partial_success",
                                    "rollback_recommended", "rolled_back",
                                    "rollback_failed"}
      [] r = "rolled_back" -> {"waiting_manual_execution", "partial_success",
                               "rollback_recommended", "rollback_failed"}
      [] OTHER -> {"waiting_manual_execution", "partial_success", "rollback_recommended"}

\* Mutant: every approval is labelled by its own status.
approval_incident_status_unmapped(s) ==
    CASE s = "pending" -> "approval_pending"
      [] s = "approved" -> "approval_approved"
      [] s = "rejected" -> "approval_rejected"
      [] OTHER -> "approval_cancelled"

\* incident_status of an approval: f"approval_{request.status}" once decided.
approval_incident_status(s) ==
    CASE s = "pending" -> "waiting_approval"
      [] s = "approved" -> "approval_approved"
      [] s = "rejected" -> "approval_rejected"
      [] OTHER -> "approval_cancelled"

-----------------------------------------------------------------------------
(* The merge of an update into the stored row *)

is_change_lifecycle_state(s) ==
    \/ s.source = "change_execution"
    \/ s.change
    \/ s.status \in CHANGE_LIFECYCLE_STATUSES

is_explicit_alert_reopen(existing, update) ==
    /\ update.source = "alertmanager"
    /\ update.alertStatus = "firing"
    /\ existing.startsAt # 0
    /\ update.startsAt > existing.startsAt

is_alert_failure_recovery(existing, update) ==
    /\ existing.status = "failed"
    /\ existing.diag = "failed"
    /\ update.source = "alertmanager"
    /\ update.status \in {"alert_firing", "resolved"}

\* Mutant: hard terminal statuses are not checked.
transition_allowed_from_terminal(existing, update) ==
    \/ existing.status = update.status
    \/ existing.status \notin APPROVAL_LIFECYCLE_STATUSES
    \/ update.status \notin ACTIVE_DIAGNOSIS_STATUSES

is_incident_status_transition_allowed(existing, update) ==
    \/ existing.status = update.status
    \/ /\ ~ /\ existing.status \in APPROVAL_LIFECYCLE_STATUSES
            /\ \/ update.status \in ACTIVE_DIAGNOSIS_STATUSES
               \/ update.status = "failed" /\ update.source = "alert_auto_diagnosis"
       /\ IF is_change_lifecycle_state(existing) /\ ~is_change_lifecycle_state(update)
            THEN /\ existing.status \in HARD_TERMINAL_INCIDENT_STATUSES
                 /\ is_explicit_alert_reopen(existing, update)
            ELSE \/ existing.status \notin HARD_TERMINAL_INCIDENT_STATUSES
                 \/ is_explicit_alert_reopen(existing, update)
                 \/ is_alert_failure_recovery(existing, update)

should_preserve_existing_lifecycle_status(existing, update) ==
    /\ is_change_lifecycle_state(existing)
    /\ ~is_change_lifecycle_state(update)
    /\ update.status \in REPORT_ONLY_STATUSES

\* A rejected update leaves the stored metadata alone; an accepted one overrides
\* exactly the keys it carries.
merge_incident_state(existing, update) ==
    LET rejected == ~is_incident_status_transition_allowed(existing, update)
        preserve == rejected \/ should_preserve_existing_lifecycle_status(existing, update)
    IN  IF rejected THEN existing
        ELSE [status |-> IF preserve THEN existing.status ELSE update.status,
              source |-> update.source,
              change |-> existing.change \/ update.change,
              startsAt |-> IF update.startsAt = 0 THEN existing.startsAt
                                                  ELSE update.startsAt,
              alertStatus |-> IF update.alertStatus = "" THEN existing.alertStatus
                                                         ELSE update.alertStatus,
              diag |-> IF update.diag = "" THEN existing.diag ELSE update.diag]

-----------------------------------------------------------------------------
(* Builders of updates *)

\* The metadata keys an update without alert information carries.
PlainUpdate(status, source, change) ==
    [status |-> status, source |-> source, change |-> change,
     startsAt |-> 0, alertStatus |-> "", diag |-> ""]

build_incident_state_from_approval(status) ==
    PlainUpdate(approval_incident_status(status), "approval", FALSE)

build_incident_state_from_change_execution(status) ==
    PlainUpdate(status_from_change_execution(status), "change_execution", TRUE)

\* A DiagnosisReport is kept as its status and whether change_executions is non-empty.
Reports == [status : IncidentStatuses, changed : BOOLEAN]
NoReport == [status |-> "none", changed |-> FALSE]

build_incident_state_from_report(report) ==
    PlainUpdate(report.status, "diagnosis_report", report.changed)

apply_approval_decision(report, status) ==
    [status |-> approval_incident_status(status), changed |-> report.changed]

apply_change_execution(report, status) ==
    [status |-> status_from_change_execution(status), changed |-> TRUE]
=============================================================================
