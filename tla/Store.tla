------------------------------- MODULE Store -------------------------------
(***************************************************************************)
(* The AIOps store (app/services/sqlite_store.py; mysql_store.py keeps the *)
(* same contract) as the approval and safe-change services use it, for one *)
(* incident: the approval and change-execution rows, the latest            *)
(* IncidentState and DiagnosisReport, and the clock.  Every operator below *)
(* is one transaction of the store, so one atomic step.                    *)
(***************************************************************************)
EXTENDS IncidentLifecycle, Sequences

CONSTANTS ApprovalIds,     \* approval requests of the incident
          Keys,            \* idempotency keys of risky actions
          KeyOf,           \* the key of the action a request is about
          Actors,          \* authenticated principals
          TTL,             \* expires_in_seconds of an approval, in clock ticks
          MaxTime          \* bound on the clock

ASSUME StoreAssumption ==
    /\ ApprovalIds # {}
    /\ KeyOf \in [ApprovalIds -> Keys]
    /\ TTL \in Nat
    /\ MaxTime \in Nat

VARIABLES approvals,       \* approval_requests, by approval_id
          executions,      \* change_executions, by the approval that authorizes them
          incident,        \* incident_states: the row of the incident
          report,          \* diagnosis_reports: the latest report, or NoReport
          projected,       \* which approval facts reached which projection: the
                           \* trace_events rows, and the same record for the others
          now              \* utc_now()

storeVars == <<approvals, executions, incident, report, projected, now>>

Projections == {"incident_state", "report", "trace"}

Decided == {"approved", "rejected", "cancelled"}
ApprovalStatuses == {"absent", "pending"} \cup Decided

Approval == [status : ApprovalStatuses, createdAt : Nat,
             decidedBy : Actors \cup {"nobody", "system"}, pending : SUBSET Projections]

AbsentApproval == [status |-> "absent", createdAt |-> 0, decidedBy |-> "nobody",
                   pending |-> {}]

Modes == {"dry_run_only", "manual_record", "sandbox"}

\* precheck and dryRun: the check's status once it ran; results: the manual results
\* recorded so far, latest last; rev stands for updated_at.
Execution == [status : ExecutionStatuses \cup {"absent"}, mode : Modes,
              precheck : BOOLEAN, dryRun : BOOLEAN, results : Seq(ManualResults),
              recordedBy : Actors \cup {"nobody"}, rev : Nat, pending : SUBSET Projections]

AbsentExecution == [status |-> "absent", mode |-> "dry_run_only", precheck |-> FALSE,
                    dryRun |-> FALSE, results |-> <<>>, recordedBy |-> "nobody",
                    rev |-> 0, pending |-> {}]

-----------------------------------------------------------------------------
(* Store operations *)

\* Mutant: the key is not looked at.
CanCreateAnyApproval(a) == approvals[a].status = "absent"

\* Insert unless the idempotency key already has a pending row; a fresh
\* approval_id never collides.
CanCreateApproval(a) ==
    /\ approvals[a].status = "absent"
    /\ \A b \in ApprovalIds : KeyOf[b] = KeyOf[a] => approvals[b].status # "pending"

create_approval_request_once(a, row) ==
    approvals' = [approvals EXCEPT ![a] = row]

\* Mutant: the update has no status condition.
AnyDecisionAccepted(a) == approvals[a].status # "absent"

\* UPDATE ... WHERE approval_id = ? AND status = 'pending'
DecisionAccepted(a) == approvals[a].status = "pending"

save_approval_decision_if_pending(a, row) ==
    /\ DecisionAccepted(a)
    /\ approvals' = [approvals EXCEPT ![a] = row]

\* Mutant: the upsert writes pending rows only.
save_pending_request(a, row) ==
    approvals' = IF approvals[a].status = row.status /\ row.status = "pending"
                   THEN [approvals EXCEPT ![a] = row]
                   ELSE approvals

\* The upsert never changes the status column: WHERE status = excluded.status
save_approval_request(a, row) ==
    approvals' = IF approvals[a].status = row.status
                   THEN [approvals EXCEPT ![a] = row]
                   ELSE approvals

save_incident_state(update) == incident' = merge_incident_state(incident, update)

\* The report and its IncidentState projection, in one transaction.  get_latest_report orders
\* by created_at; here the report written last is the latest.  The two differ when a projection
\* saves the older report it read after a run has stored a newer one.
save_report_with_incident(r) ==
    /\ report' = r
    /\ incident' = merge_incident_state(incident, build_incident_state_from_report(r))

create_change_execution_once(a, row) ==
    executions' = [executions EXCEPT ![a] = row]

\* Mutant: the update has no status condition.
AnyExecutionMatches(a, expected) == executions[a].status # "absent"

\* UPDATE ... WHERE change_execution_id = ? AND status IN (expected)
ExecutionMatches(a, expected) == executions[a].status \in expected

save_change_execution_if_status(a, row, expected) ==
    executions' = IF ExecutionMatches(a, expected)
                    THEN [executions EXCEPT ![a] = row]
                    ELSE executions

StoreTypeOK ==
    /\ approvals \in [ApprovalIds -> Approval]
    /\ executions \in [ApprovalIds -> Execution]
    /\ incident \in IncidentState
    /\ projected \subseteq ApprovalIds \X ApprovalStatuses \X Projections
    /\ report \in Reports \cup {NoReport}
    /\ now \in 0..MaxTime
=============================================================================
