--------------------------- MODULE ApprovalProofs ---------------------------
(***************************************************************************)
(* Proofs of the safety properties of Approval, for every set of requests, *)
(* keys, handlers and actors, every expiry and any number of faults.       *)
(***************************************************************************)
EXTENDS Approval, TLAPS

-----------------------------------------------------------------------------
(* The lifecycle rules *)

\* An approval status becomes an incident status.
LEMMA ApprovalStatusType ==
    ASSUME NEW s \in ApprovalStatuses
    PROVE  /\ approval_incident_status(s) \in IncidentStatuses
           /\ build_incident_state_from_approval(s) \in IncidentState
BY DEF ApprovalStatuses, Decided, approval_incident_status, IncidentStatuses,
       APPROVAL_LIFECYCLE_STATUSES, build_incident_state_from_approval, PlainUpdate,
       IncidentState, Sources

\* The update built from a report is an IncidentState.
LEMMA ReportStateType ==
    ASSUME NEW r \in Reports
    PROVE  build_incident_state_from_report(r) \in IncidentState
BY DEF Reports, build_incident_state_from_report, PlainUpdate, IncidentState, Sources

\* A decision applied to a report, or to none, yields a report.
LEMMA DecisionOnReportType ==
    ASSUME NEW r \in Reports \cup {NoReport}, NEW s \in ApprovalStatuses
    PROVE  apply_approval_decision(r, s) \in Reports
<1>1. approval_incident_status(s) \in IncidentStatuses
  BY ApprovalStatusType
<1>2. r.changed \in BOOLEAN
  <2>1. CASE r \in Reports
    BY <2>1 DEF Reports
  <2>2. CASE r = NoReport
    BY <2>2 DEF NoReport
  <2>3. QED
    BY <2>1, <2>2
<1>3. QED
  BY <1>1, <1>2 DEF apply_approval_decision, Reports

\* A merge yields an IncidentState.
LEMMA MergeType ==
    ASSUME NEW existing \in IncidentState, NEW update \in IncidentState
    PROVE  merge_incident_state(existing, update) \in IncidentState
BY DEF merge_incident_state, IncidentState

\* merge_incident_state keeps a hard terminal status against every update that is not
\* an alert's.
LEMMA MergeKeepsTerminal ==
    ASSUME NEW existing \in IncidentState, NEW update \in IncidentState,
           existing.status \in HARD_TERMINAL_INCIDENT_STATUSES,
           update.source # "alertmanager"
    PROVE  merge_incident_state(existing, update).status = existing.status
<1>1. CASE is_incident_status_transition_allowed(existing, update)
  <2>1. existing.status = update.status
    BY <1>1 DEF is_incident_status_transition_allowed, is_explicit_alert_reopen,
                is_alert_failure_recovery
  <2>2. QED
    BY <1>1, <2>1 DEF merge_incident_state
<1>2. CASE ~is_incident_status_transition_allowed(existing, update)
  BY <1>2 DEF merge_incident_state
<1>3. QED
  BY <1>1, <1>2

-----------------------------------------------------------------------------
(* Handlers' states *)

\* The states the helpers build are handler states.
LEMMA HoldingType ==
    ASSUME NEW j \in Worker, NEW pc \in PCs, NEW op \in Ops, NEW a \in ApprovalIds,
           NEW row \in Approval
    PROVE  /\ IdleWorker \in Worker
           /\ Holding(j, pc, op, a, row) \in Worker
<1>1. NoId \in ApprovalIds
  BY StoreAssumption DEF NoId
<1>2. IdleWorker \in Worker
  BY <1>1 DEF IdleWorker, Worker, PCs, Ops, AbsentApproval, Approval, ApprovalStatuses,
              Decided
<1>3. QED
  BY <1>2 DEF Holding, Worker

LEMMA ContinuationType ==
    ASSUME NEW op \in Ops
    PROVE  Continuation(op) \in PCs
BY DEF Continuation, Ops, PCs

LEMMA GetRequestType ==
    ASSUME NEW j \in Worker, NEW a \in ApprovalIds, NEW op \in Ops,
           approvals \in [ApprovalIds -> Approval]
    PROVE  get_request(j, a, op) \in Worker
<1>1. approvals[a] \in Approval /\ [approvals[a] EXCEPT !.pending = {}] \in Approval
  BY DEF Approval
<1>2. Continuation(op) \in PCs /\ "incident_state" \in PCs
  BY ContinuationType DEF PCs
<1>3. QED
  BY <1>1, <1>2, HoldingType DEF get_request

-----------------------------------------------------------------------------
(* Type correctness *)

\* A worker whose record is replaced by a handler state leaves a typed function.
LEMMA WorkerUpdate ==
    ASSUME worker \in [Workers -> Worker], NEW w \in Workers, NEW j \in Worker
    PROVE  [worker EXCEPT ![w] = j] \in [Workers -> Worker]
OBVIOUS

\* The rows CreateRequest and DecidedRow build are rows.
LEMMA RowType ==
    ASSUME ApprovalTypeOK
    PROVE  /\ [status |-> "pending", createdAt |-> now, decidedBy |-> "nobody",
               pending |-> creation_projection_names] \in Approval
           /\ \A w \in Workers : /\ DecidedRow(w) \in Approval
                                 /\ DecidedRow(w).status \in Decided
           /\ \A w \in Workers : [worker[w].row EXCEPT !.pending = Unsynced(w)] \in Approval
<1>1. now \in Nat
  BY StoreAssumption DEF ApprovalTypeOK, StoreTypeOK
<1>2. \A w \in Workers : worker[w] \in Worker
  BY DEF ApprovalTypeOK
<1>3. [status |-> "pending", createdAt |-> now, decidedBy |-> "nobody",
       pending |-> creation_projection_names] \in Approval
  BY <1>1 DEF Approval, creation_projection_names, Projections, ApprovalStatuses
<1>4. ASSUME NEW w \in Workers
      PROVE  /\ worker[w].row \in Approval
             /\ worker[w].decision \in Decided
             /\ worker[w].actor \in Actors \cup {"system"}
             /\ worker[w].failed \in SUBSET Projections
  BY <1>2 DEF Worker
<1>5. ASSUME NEW w \in Workers
      PROVE  DecidedRow(w) \in Approval /\ DecidedRow(w).status \in Decided
  BY <1>4 DEF Approval, decision_projection_names, ApprovalStatuses, DecidedRow
<1>6. ASSUME NEW w \in Workers
      PROVE  [worker[w].row EXCEPT !.pending = Unsynced(w)] \in Approval
  BY <1>4 DEF Approval, Unsynced
<1>7. QED
  BY <1>3, <1>5, <1>6

\* Init establishes the types.
LEMMA TypeInit == ApprovalInit => ApprovalTypeOK
<1> SUFFICES ASSUME ApprovalInit
             PROVE  ApprovalTypeOK
  OBVIOUS
<1>1. NoId \in ApprovalIds
  BY StoreAssumption DEF NoId
<1>2. approvals \in [ApprovalIds -> Approval]
  BY DEF ApprovalInit, AbsentApproval, Approval, ApprovalStatuses, Decided
<1>3. executions \in [ApprovalIds -> Execution]
  BY DEF ApprovalInit, AbsentExecution, Execution, Modes
<1>4. incident \in IncidentState
  BY DEF ApprovalInit, PlainUpdate, IncidentState, IncidentStatuses, Sources,
         ACTIVE_DIAGNOSIS_STATUSES
<1>5. IdleWorker \in Worker
  BY <1>1 DEF IdleWorker, Worker, PCs, Ops, AbsentApproval, Approval, ApprovalStatuses,
              Decided
<1>6. worker \in [Workers -> Worker]
  BY <1>5 DEF ApprovalInit
<1>7. now \in 0..MaxTime /\ faults \in 0..MaxFaults
  BY StoreAssumption, ApprovalAssumption DEF ApprovalInit
<1>8. QED
  BY <1>2, <1>3, <1>4, <1>6, <1>7 DEF ApprovalInit, ApprovalTypeOK, StoreTypeOK

\* Every step of Approval, by itself, keeps the types.
LEMMA TypeStep ==
    ASSUME ApprovalTypeOK, [ApprovalNext]_approvalVars
    PROVE  ApprovalTypeOK'
<1> USE DEF ApprovalTypeOK, StoreTypeOK
<1>1. ASSUME NEW w \in Workers, NEW a \in ApprovalIds, CreateRequest(w, a)
      PROVE  ApprovalTypeOK'
  <2>1. "incident_state" \in PCs /\ "create" \in Ops
    BY DEF PCs, Ops
  <2>2. worker' \in [Workers -> Worker]
    BY <1>1, <2>1, RowType, HoldingType DEF CreateRequest
  <2>3. approvals' \in [ApprovalIds -> Approval]
    BY <1>1, RowType DEF CreateRequest, create_approval_request_once
  <2>4. QED
    BY <1>1, <2>2, <2>3 DEF CreateRequest
<1>2. ASSUME NEW w \in Workers, NEW a \in ApprovalIds, ReuseRequest(w, a)
      PROVE  ApprovalTypeOK'
  <2>1. "waiting_report" \in PCs /\ "create" \in Ops
    BY DEF PCs, Ops
  <2>2. worker' \in [Workers -> Worker]
    BY <1>2, <2>1, HoldingType DEF ReuseRequest
  <2>3. QED
    BY <1>2, <2>2 DEF ReuseRequest, storeVars
<1>3. ASSUME NEW w \in Workers, NEW a \in ApprovalIds, ReadRequest(w, a)
      PROVE  ApprovalTypeOK'
  <2>1. worker' \in [Workers -> Worker]
    BY <1>3, GetRequestType DEF ReadRequest, Ops
  <2>2. QED
    BY <1>3, <2>1 DEF ReadRequest, storeVars
<1>4. ASSUME NEW w \in Workers, NEW a \in ApprovalIds, SweepPending(w, a)
      PROVE  ApprovalTypeOK'
  <2>1. worker' \in [Workers -> Worker]
    BY <1>4, GetRequestType DEF SweepPending, Ops
  <2>2. QED
    BY <1>4, <2>1 DEF SweepPending, storeVars
<1>5. ASSUME NEW w \in Workers, NEW a \in ApprovalIds, NEW decision \in Decisions,
             NEW actor \in Actors, DecideRequest(w, a, decision, actor)
      PROVE  ApprovalTypeOK'
  <2>1. [worker[w] EXCEPT !.decision = decision, !.actor = actor] \in Worker
    BY ApprovalAssumption DEF Worker
  <2>2. worker' \in [Workers -> Worker]
    BY <1>5, <2>1, GetRequestType DEF DecideRequest, Ops
  <2>3. QED
    BY <1>5, <2>2 DEF DecideRequest, storeVars
<1>6. ASSUME NEW w \in Workers, CheckRequest(w)
      PROVE  ApprovalTypeOK'
  <2>1. IdleWorker \in Worker
    BY TypeInit, StoreAssumption DEF IdleWorker, Worker, PCs, Ops, AbsentApproval, Approval,
       ApprovalStatuses, Decided, NoId
  <2>2. /\ [worker[w] EXCEPT !.pc = "commit"] \in Worker
        /\ [worker[w] EXCEPT !.pc = "commit", !.decision = "cancelled",
                             !.actor = "system"] \in Worker
    BY DEF Worker, PCs, Decided
  <2>3. worker' \in [Workers -> Worker]
    BY <1>6, <2>1, <2>2, Zenon DEF CheckRequest
  <2>4. QED
    BY <1>6, <2>3 DEF CheckRequest, storeVars
<1>7. ASSUME NEW w \in Workers, CommitDecision(w)
      PROVE  ApprovalTypeOK'
  <2>1. worker[w].id \in ApprovalIds /\ "incident_state" \in PCs /\ "get" \in Ops
    BY DEF Worker, PCs, Ops
  <2>2. worker' \in [Workers -> Worker]
    BY <1>7, <2>1, RowType, HoldingType DEF CommitDecision
  <2>3. approvals' \in [ApprovalIds -> Approval]
    BY <1>7, RowType DEF CommitDecision, save_approval_decision_if_pending
  <2>4. QED
    BY <1>7, <2>2, <2>3 DEF CommitDecision
<1>8. ASSUME NEW w \in Workers, DecisionConflict(w)
      PROVE  ApprovalTypeOK'
  <2>1. worker[w].id \in ApprovalIds /\ "get" \in Ops
    BY DEF Worker, Ops
  <2>2. worker' \in [Workers -> Worker]
    BY <1>8, <2>1, GetRequestType DEF DecisionConflict
  <2>3. QED
    BY <1>8, <2>2 DEF DecisionConflict, storeVars
<1>9. ASSUME NEW w \in Workers, NEW name \in Projections, NEW next \in PCs, Raise(w, name, next)
      PROVE  worker' \in [Workers -> Worker] /\ faults' \in 0..MaxFaults
  <2> DEFINE j == [worker[w] EXCEPT !.pc = next, !.failed = worker[w].failed \cup {name}]
  <2>1. j \in Worker
    BY DEF Worker
  <2>2. worker' = [worker EXCEPT ![w] = j]
    BY <1>9 DEF Raise
  <2> HIDE DEF j
  <2>5. worker' \in [Workers -> Worker]
    BY <2>1, <2>2
  <2>3. faults' \in 0..MaxFaults
    BY <1>9, ApprovalAssumption DEF Raise
  <2>4. QED
    BY <2>3, <2>5
<1>10. ASSUME NEW w \in Workers, NEW name \in Projections
       PROVE  {Fact(w, name)} \subseteq ApprovalIds \X ApprovalStatuses \X Projections
  BY <1>10 DEF Fact, Worker, Approval
<1>11. ASSUME NEW w \in Workers, SyncIncidentState(w)
       PROVE  ApprovalTypeOK'
  <2>1. "trace" \in PCs /\ "incident_state" \in Projections
    BY DEF PCs, Projections
  <2>2. CASE Raise(w, "incident_state", "trace") /\ UNCHANGED <<incident, projected>>
    BY <1>11, <1>9, <2>1, <2>2 DEF SyncIncidentState
  <2>3. CASE save_incident_state(build_incident_state_from_approval(worker[w].row.status))
    <3>1. incident' \in IncidentState
      BY <2>3, ApprovalStatusType, MergeType DEF save_incident_state, Worker, Approval
    <3>2. worker' \in [Workers -> Worker] \/ Raise(w, "incident_state", "trace")
      BY <1>11, <2>1 DEF SyncIncidentState, Worker
    <3>3. QED
      BY <1>11, <1>9, <1>10, <2>1, <3>1, <3>2 DEF SyncIncidentState
  <2>4. QED
    BY <1>11, <2>2, <2>3 DEF SyncIncidentState
<1>12. ASSUME NEW w \in Workers, SyncTrace(w)
       PROVE  ApprovalTypeOK'
  <2> DEFINE next == IF worker[w].row.status = "pending" THEN "mark" ELSE "report"
  <2>1. next \in PCs /\ "trace" \in Projections
    BY DEF PCs, Projections
  <2>2. [worker[w] EXCEPT !.pc = next] \in Worker
    BY <2>1 DEF Worker
  <2> HIDE DEF next
  <2>3. CASE Raise(w, "trace", next) /\ UNCHANGED projected
    BY <1>12, <1>9, <2>1, <2>3 DEF SyncTrace
  <2>4. CASE /\ projected' = projected \cup {Fact(w, "trace")}
             /\ worker' = [worker EXCEPT ![w].pc = next]
             /\ UNCHANGED faults
    BY <1>12, <1>10, <2>1, <2>2, <2>4 DEF SyncTrace
  <2>5. QED
    BY <1>12, <2>3, <2>4 DEF SyncTrace, next
<1>13. ASSUME NEW w \in Workers, SyncReportRead(w)
       PROVE  ApprovalTypeOK'
  <2>1. /\ [worker[w] EXCEPT !.pc = "mark"] \in Worker
        /\ [worker[w] EXCEPT !.pc = "save_report", !.seen = report] \in Worker
        /\ "report" \in Projections
    BY DEF Worker, PCs, Projections
  <2>2. worker' \in [Workers -> Worker]
    BY <1>13, <2>1 DEF SyncReportRead
  <2>3. projected' \subseteq ApprovalIds \X ApprovalStatuses \X Projections
    BY <1>13, <1>10, <2>1 DEF SyncReportRead
  <2>4. QED
    BY <1>13, <2>2, <2>3 DEF SyncReportRead
<1>14. ASSUME NEW w \in Workers, SyncReportSave(w)
       PROVE  ApprovalTypeOK'
  <2> DEFINE saved == apply_approval_decision(worker[w].seen, worker[w].row.status)
  <2>1. "mark" \in PCs /\ "report" \in Projections
    BY DEF PCs, Projections
  <2>2. [worker[w] EXCEPT !.pc = "mark"] \in Worker
    BY <2>1 DEF Worker
  <2>3. saved \in Reports
    BY DecisionOnReportType DEF Worker, Approval
  <2> HIDE DEF saved
  <2>4. CASE Raise(w, "report", "mark") /\ UNCHANGED <<incident, report, projected>>
    BY <1>14, <1>9, <2>1, <2>4 DEF SyncReportSave
  <2>5. CASE /\ save_report_with_incident(saved)
             /\ projected' = projected \cup {Fact(w, "report")}
             /\ worker' = [worker EXCEPT ![w].pc = "mark"]
             /\ UNCHANGED faults
    <3>1. incident' \in IncidentState /\ report' \in Reports
      BY <2>3, <2>5, ReportStateType, MergeType DEF save_report_with_incident
    <3>2. QED
      BY <1>14, <1>10, <2>1, <2>2, <2>5, <3>1 DEF SyncReportSave
  <2>6. QED
    BY <1>14, <2>4, <2>5 DEF SyncReportSave, saved
<1>15. ASSUME NEW w \in Workers, MarkProjections(w)
       PROVE  ApprovalTypeOK'
  <2> DEFINE updated == [worker[w].row EXCEPT !.pending = Unsynced(w)]
  <2>1. updated \in Approval /\ worker[w].id \in ApprovalIds /\ worker[w].op \in Ops
    BY RowType DEF Worker
  <2> HIDE DEF updated
  <2>2. Continuation(worker[w].op) \in PCs
    BY <2>1, ContinuationType
  <2>3. worker' \in [Workers -> Worker]
    BY <1>15, <2>1, <2>2, HoldingType DEF MarkProjections, updated
  <2>4. approvals' \in [ApprovalIds -> Approval]
    BY <1>15, <2>1 DEF MarkProjections, save_approval_request, updated
  <2>5. QED
    BY <1>15, <2>3, <2>4 DEF MarkProjections
<1>16. IdleWorker \in Worker
  BY StoreAssumption DEF IdleWorker, Worker, PCs, Ops, AbsentApproval, Approval,
     ApprovalStatuses, Decided, NoId
<1>17. ASSUME NEW w \in Workers, SaveWaitingReport(w)
       PROVE  ApprovalTypeOK'
  <2>1. [status |-> "waiting_approval", changed |-> FALSE] \in Reports
    BY DEF Reports, IncidentStatuses, APPROVAL_LIFECYCLE_STATUSES
  <2>2. incident' \in IncidentState /\ report' \in Reports
    BY <1>17, <2>1, ReportStateType, MergeType
    DEF SaveWaitingReport, save_report_with_incident
  <2>3. QED
    BY <1>16, <1>17, <2>2 DEF SaveWaitingReport
<1>18. ASSUME NEW w \in Workers, Crash(w)
       PROVE  ApprovalTypeOK'
  BY <1>16, <1>18, ApprovalAssumption DEF Crash, storeVars
<1>19. CASE Tick
  BY <1>19, StoreAssumption DEF Tick
<1>20. CASE UNCHANGED approvalVars
  BY <1>20 DEF approvalVars
<1>21. QED
  BY <1>1, <1>2, <1>3, <1>4, <1>5, <1>6, <1>7, <1>8, <1>11, <1>12, <1>13, <1>14, <1>15,
     <1>17, <1>18, <1>19, <1>20, ApprovalTypeOK, [ApprovalNext]_approvalVars
  DEF ApprovalNext, Arrival, HandlerStep

\* Every row, projection and handler of a reachable state has its type.
THEOREM TypeCorrect == ApprovalSpec => []ApprovalTypeOK
<1>1. ApprovalInit => ApprovalTypeOK
  BY TypeInit
<1>2. ApprovalTypeOK /\ [ApprovalNext]_approvalVars => ApprovalTypeOK'
  BY TypeStep
<1>3. QED
  BY <1>1, <1>2, PTL DEF ApprovalSpec

-----------------------------------------------------------------------------
(* One pending request per key, and decisions that are final *)

\* What a request object in a handler's hands says of the stored rows: it is the row,
\* or it is still pending and the row was decided since.
HeldAgrees(job, rows) ==
    job.pc # "idle" =>
        /\ job.row.status # "absent"
        /\ rows[job.id].status # "absent"
        /\ rows[job.id].createdAt = job.row.createdAt
        /\ job.row.status # "pending" =>
              /\ rows[job.id].status = job.row.status
              /\ rows[job.id].decidedBy = job.row.decidedBy

HeldRows == \A w \in Workers : HeldAgrees(worker[w], approvals)

RowsInv == ApprovalTypeOK /\ HeldRows /\ OnePendingPerKey

\* A handler that has just read the row of a request agrees with it.
LEMMA ReadAgrees ==
    ASSUME ApprovalTypeOK, NEW job \in Worker, NEW a \in ApprovalIds, NEW op \in Ops,
           approvals[a].status # "absent"
    PROVE  HeldAgrees(get_request(job, a, op), approvals)
<1>1. approvals[a] \in Approval
  BY DEF ApprovalTypeOK, StoreTypeOK
<1>2. ASSUME NEW pc \in PCs, NEW row \in Approval,
             row = approvals[a] \/ row = [approvals[a] EXCEPT !.pending = {}]
      PROVE  HeldAgrees(Holding(job, pc, op, a, row), approvals)
  <2>1. CASE pc = "idle"
    BY <2>1 DEF Holding, IdleWorker, HeldAgrees
  <2>2. CASE pc # "idle"
    <3>1. /\ row.status = approvals[a].status
          /\ row.createdAt = approvals[a].createdAt
          /\ row.decidedBy = approvals[a].decidedBy
      BY <1>1, <1>2 DEF Approval
    <3>2. /\ Holding(job, pc, op, a, row).id = a
          /\ Holding(job, pc, op, a, row).row = row
      BY <2>2 DEF Holding, Worker
    <3>3. QED
      BY <3>1, <3>2 DEF HeldAgrees
  <2>3. QED
    BY <2>1, <2>2
<1>3. [approvals[a] EXCEPT !.pending = {}] \in Approval
  BY <1>1 DEF Approval
<1>4. Continuation(op) \in PCs /\ "incident_state" \in PCs
  BY ContinuationType DEF PCs
<1>5. QED
  BY <1>1, <1>2, <1>3, <1>4 DEF get_request

\* Only the handler that moves changes, and the rows stay: its new state decides.
LEMMA HeldByMover ==
    ASSUME ApprovalTypeOK, HeldRows, NEW w \in Workers, NEW job,
           worker' = [worker EXCEPT ![w] = job], UNCHANGED approvals,
           HeldAgrees(job, approvals)
    PROVE  HeldRows'
<1>1. ASSUME NEW v \in Workers
      PROVE  HeldAgrees(worker'[v], approvals)
  <2>1. CASE v = w
    BY <2>1 DEF ApprovalTypeOK
  <2>2. CASE v # w
    <3>1. worker'[v] = worker[v]
      BY <2>2 DEF ApprovalTypeOK
    <3>2. QED
      BY <3>1 DEF HeldRows
  <2>3. QED
    BY <2>1, <2>2
<1>2. QED
  BY <1>1 DEF HeldRows, HeldAgrees

\* A handler that keeps its request and goes on elsewhere still agrees.
LEMMA HeldByContinuing ==
    ASSUME ApprovalTypeOK, HeldRows, NEW w \in Workers, NEW job \in Worker,
           worker' = [worker EXCEPT ![w] = job], UNCHANGED approvals,
           ~Idle(w), job.id = worker[w].id, job.row = worker[w].row
    PROVE  HeldRows'
<1>1. HeldAgrees(job, approvals)
  BY DEF HeldRows, HeldAgrees, Idle
<1>2. QED
  BY <1>1, HeldByMover

\* An idle handler holds nothing.
LEMMA HeldByNobody ==
    ASSUME ApprovalTypeOK, HeldRows, NEW w \in Workers,
           worker' = [worker EXCEPT ![w] = IdleWorker], UNCHANGED approvals
    PROVE  HeldRows'
<1>1. HeldAgrees(IdleWorker, approvals)
  BY DEF HeldAgrees, IdleWorker
<1>2. QED
  BY <1>1, HeldByMover

\* The steps of a handler that change a row: a creation, a decision, a marker.
LEMMA CreateKeepsRows ==
    ASSUME RowsInv, NEW w \in Workers, NEW a \in ApprovalIds, CreateRequest(w, a)
    PROVE  HeldRows' /\ OnePendingPerKey'
<1> DEFINE row == [status |-> "pending", createdAt |-> now, decidedBy |-> "nobody",
                   pending |-> creation_projection_names]
           job == Holding(worker[w], "incident_state", "create", a, row)
<1>1. /\ approvals' = [approvals EXCEPT ![a] = row]
      /\ worker' = [worker EXCEPT ![w] = job]
      /\ approvals[a].status = "absent"
      /\ \A b \in ApprovalIds : KeyOf[b] = KeyOf[a] => approvals[b].status # "pending"
  BY DEF CreateRequest, create_approval_request_once, CanCreateApproval
<1>2. /\ approvals \in [ApprovalIds -> Approval]
      /\ worker \in [Workers -> Worker]
  BY DEF RowsInv, ApprovalTypeOK, StoreTypeOK
<1>3. job.id = a /\ job.row = row
  BY <1>2 DEF Holding, Worker
<1>4. approvals'[a] = row /\ \A b \in ApprovalIds : b # a => approvals'[b] = approvals[b]
  BY <1>1, <1>2
<1>5. ASSUME NEW v \in Workers
      PROVE  HeldAgrees(worker'[v], approvals')
  <2>1. CASE v = w
    BY <1>1, <1>2, <1>3, <1>4, <2>1 DEF HeldAgrees
  <2>2. CASE v # w
    <3>1. worker'[v] = worker[v] /\ worker[v].id \in ApprovalIds
      BY <1>1, <1>2, <2>2 DEF Worker
    <3>2. HeldAgrees(worker[v], approvals)
      BY DEF RowsInv, HeldRows
    <3>3. QED
      BY <1>1, <1>4, <3>1, <3>2 DEF HeldAgrees
  <2>3. QED
    BY <2>1, <2>2
<1>6. OnePendingPerKey'
  BY <1>1, <1>4 DEF RowsInv, OnePendingPerKey
<1>7. QED
  BY <1>5, <1>6 DEF HeldRows, HeldAgrees

LEMMA CommitKeepsRows ==
    ASSUME RowsInv, NEW w \in Workers, CommitDecision(w)
    PROVE  HeldRows' /\ OnePendingPerKey'
<1> DEFINE a == worker[w].id
           row == DecidedRow(w)
           job == Holding(worker[w], "incident_state", "get", a, row)
<1>1. /\ approvals' = [approvals EXCEPT ![a] = row]
      /\ worker' = [worker EXCEPT ![w] = job]
      /\ approvals[a].status = "pending"
      /\ worker[w].pc = "commit"
  BY DEF CommitDecision, save_approval_decision_if_pending, DecisionAccepted
<1>2. /\ approvals \in [ApprovalIds -> Approval]
      /\ worker \in [Workers -> Worker]
      /\ worker[w] \in Worker
      /\ a \in ApprovalIds
  BY DEF RowsInv, ApprovalTypeOK, StoreTypeOK, Worker
<1>3. row.status \in Decided /\ row \in Approval
  BY RowType DEF RowsInv
<1>4. row.createdAt = approvals[a].createdAt
  <2>1. HeldAgrees(worker[w], approvals)
    BY DEF RowsInv, HeldRows
  <2>2. worker[w].row \in Approval
    BY <1>2 DEF Worker
  <2>3. row.createdAt = worker[w].row.createdAt
    BY <2>2 DEF DecidedRow, Approval
  <2>4. QED
    BY <1>1, <2>1, <2>3 DEF HeldAgrees
<1> HIDE DEF row
<1>5. job.id = a /\ job.row = row
  BY <1>2 DEF Holding, Worker
<1>6. approvals'[a] = row /\ \A b \in ApprovalIds : b # a => approvals'[b] = approvals[b]
  BY <1>1, <1>2
<1>7. row.status # "absent" /\ row.status # "pending"
  BY <1>3 DEF Decided
<1>8. ASSUME NEW v \in Workers
      PROVE  HeldAgrees(worker'[v], approvals')
  <2>1. CASE v = w
    BY <1>1, <1>2, <1>5, <1>6, <1>7, <2>1 DEF HeldAgrees
  <2>2. CASE v # w
    <3>1. worker'[v] = worker[v] /\ worker[v].id \in ApprovalIds
      BY <1>1, <1>2, <2>2 DEF Worker
    <3>2. HeldAgrees(worker[v], approvals)
      BY DEF RowsInv, HeldRows
    <3>3. CASE worker[v].id = a
      BY <1>1, <1>4, <1>6, <1>7, <3>1, <3>2, <3>3 DEF HeldAgrees
    <3>4. CASE worker[v].id # a
      BY <1>6, <3>1, <3>2, <3>4 DEF HeldAgrees
    <3>5. QED
      BY <3>3, <3>4
  <2>3. QED
    BY <2>1, <2>2
<1>9. OnePendingPerKey'
  BY <1>6, <1>7 DEF RowsInv, OnePendingPerKey
<1>10. QED
  BY <1>8, <1>9 DEF HeldRows, HeldAgrees

LEMMA MarkKeepsRows ==
    ASSUME RowsInv, NEW w \in Workers, MarkProjections(w)
    PROVE  /\ HeldRows' /\ OnePendingPerKey'
           /\ \A a \in ApprovalIds :
                /\ approvals'[a].status = approvals[a].status
                /\ approvals'[a].createdAt = approvals[a].createdAt
                /\ approvals[a].status # "pending" =>
                      approvals'[a].decidedBy = approvals[a].decidedBy
<1> DEFINE a == worker[w].id
           row == [worker[w].row EXCEPT !.pending = Unsynced(w)]
           job == Holding(worker[w], Continuation(worker[w].op), worker[w].op, a, row)
<1>1. /\ \/ approvals' = approvals
         \/ /\ approvals[a].status = row.status
            /\ approvals' = [approvals EXCEPT ![a] = row]
      /\ worker' = [worker EXCEPT ![w] = job]
      /\ worker[w].pc = "mark"
  BY DEF MarkProjections, save_approval_request
<1>2. /\ approvals \in [ApprovalIds -> Approval]
      /\ worker \in [Workers -> Worker]
      /\ worker[w] \in Worker
      /\ a \in ApprovalIds
  BY DEF RowsInv, ApprovalTypeOK, StoreTypeOK, Worker
<1>3. /\ row.status = worker[w].row.status
      /\ row.createdAt = worker[w].row.createdAt
      /\ row.decidedBy = worker[w].row.decidedBy
  BY <1>2 DEF Worker, Approval
<1>4. HeldAgrees(worker[w], approvals)
  BY DEF RowsInv, HeldRows
<1> HIDE DEF row
<1>5. job.pc # "idle" => job.id = a /\ job.row = row
  BY <1>2 DEF Holding, Worker, IdleWorker
<1>6. ASSUME NEW b \in ApprovalIds
      PROVE  /\ approvals'[b].status = approvals[b].status
             /\ approvals'[b].createdAt = approvals[b].createdAt
             /\ approvals[b].status # "pending" =>
                   approvals'[b].decidedBy = approvals[b].decidedBy
  <2>1. CASE approvals'[b] = approvals[b]
    BY <2>1
  <2>2. CASE b = a /\ approvals[a].status = row.status /\ approvals'[a] = row
    BY <1>1, <1>3, <1>4, <2>2 DEF HeldAgrees
  <2>3. QED
    BY <1>1, <1>2, <2>1, <2>2
<1>7. ASSUME NEW v \in Workers
      PROVE  HeldAgrees(worker'[v], approvals')
  <2>1. CASE v = w
    <3>1. worker'[v] = job
      BY <1>1, <1>2, <2>1
    <3>2. QED
      BY <1>1, <1>2, <1>3, <1>4, <1>5, <1>6, <3>1 DEF HeldAgrees
  <2>2. CASE v # w
    <3>1. worker'[v] = worker[v] /\ worker[v].id \in ApprovalIds
      BY <1>1, <1>2, <2>2 DEF Worker
    <3>2. HeldAgrees(worker[v], approvals)
      BY DEF RowsInv, HeldRows
    <3>3. QED
      BY <1>6, <3>1, <3>2 DEF HeldAgrees
  <2>3. QED
    BY <2>1, <2>2
<1>8. OnePendingPerKey'
  BY <1>6 DEF RowsInv, OnePendingPerKey
<1>9. QED
  BY <1>6, <1>7, <1>8 DEF HeldRows, HeldAgrees

LEMMA RowsInit == ApprovalInit => RowsInv
<1> SUFFICES ASSUME ApprovalInit
             PROVE  RowsInv
  OBVIOUS
<1>1. ApprovalTypeOK
  BY TypeInit
<1>2. HeldRows
  BY DEF ApprovalInit, HeldRows, HeldAgrees, IdleWorker
<1>3. OnePendingPerKey
  BY DEF ApprovalInit, OnePendingPerKey, AbsentApproval
<1>4. QED
  BY <1>1, <1>2, <1>3 DEF RowsInv

LEMMA RowsStep ==
    ASSUME RowsInv, [ApprovalNext]_approvalVars
    PROVE  RowsInv'
<1>1. ApprovalTypeOK /\ HeldRows /\ OnePendingPerKey
  BY DEF RowsInv
<1>2. ApprovalTypeOK'
  BY <1>1, TypeStep
<1> DEFINE Goal == HeldRows' /\ OnePendingPerKey'
<1>3. UNCHANGED approvals => OnePendingPerKey'
  BY <1>1 DEF OnePendingPerKey
<1>4. worker \in [Workers -> Worker] /\ approvals \in [ApprovalIds -> Approval]
  BY <1>1 DEF ApprovalTypeOK, StoreTypeOK
<1>5. ASSUME NEW w \in Workers, NEW a \in ApprovalIds, CreateRequest(w, a)
      PROVE  Goal
  BY <1>5, CreateKeepsRows
<1>6. ASSUME NEW w \in Workers, NEW a \in ApprovalIds, ReuseRequest(w, a)
      PROVE  Goal
  <2> DEFINE job == Holding(worker[w], "waiting_report", "create", a, approvals[a])
  <2>1. job.id = a /\ job.row = approvals[a]
    BY <1>4 DEF Holding, Worker
  <2>2. HeldAgrees(job, approvals)
    BY <1>6, <2>1 DEF HeldAgrees, ReuseRequest
  <2>3. worker' = [worker EXCEPT ![w] = job] /\ UNCHANGED approvals
    BY <1>6 DEF ReuseRequest, storeVars
  <2>4. QED
    BY <1>1, <1>3, <2>2, <2>3, HeldByMover
<1>7. ASSUME NEW w \in Workers, NEW a \in ApprovalIds, ReadRequest(w, a)
      PROVE  Goal
  <2>1. /\ worker' = [worker EXCEPT ![w] = get_request(worker[w], a, "get")]
        /\ UNCHANGED approvals
        /\ approvals[a].status # "absent"
    BY <1>7 DEF ReadRequest, storeVars
  <2>2. QED
    BY <1>1, <1>3, <1>4, <2>1, ReadAgrees, HeldByMover DEF Ops
<1>8. ASSUME NEW w \in Workers, NEW a \in ApprovalIds, SweepPending(w, a)
      PROVE  Goal
  <2>1. /\ worker' = [worker EXCEPT ![w] = get_request(worker[w], a, "sweep")]
        /\ UNCHANGED approvals
        /\ approvals[a].status # "absent"
    BY <1>8 DEF SweepPending, storeVars
  <2>2. QED
    BY <1>1, <1>3, <1>4, <2>1, ReadAgrees, HeldByMover DEF Ops
<1>9. ASSUME NEW w \in Workers, NEW a \in ApprovalIds, NEW decision \in Decisions,
             NEW actor \in Actors, DecideRequest(w, a, decision, actor)
      PROVE  Goal
  <2> DEFINE job == [worker[w] EXCEPT !.decision = decision, !.actor = actor]
  <2>1. job \in Worker
    BY <1>4, ApprovalAssumption DEF Worker
  <2>2. /\ worker' = [worker EXCEPT ![w] = get_request(job, a, "decide")]
        /\ UNCHANGED approvals
        /\ approvals[a].status # "absent"
    BY <1>9 DEF DecideRequest, storeVars
  <2> HIDE DEF job
  <2>3. QED
    BY <1>1, <1>3, <2>1, <2>2, ReadAgrees, HeldByMover DEF Ops
<1>10. ASSUME NEW w \in Workers, CheckRequest(w)
       PROVE  Goal
  <2> DEFINE go == [worker[w] EXCEPT !.pc = "commit"]
             cancel == [worker[w] EXCEPT !.pc = "commit", !.decision = "cancelled",
                                         !.actor = "system"]
  <2>1. /\ \/ worker' = [worker EXCEPT ![w] = IdleWorker]
           \/ worker' = [worker EXCEPT ![w] = go]
           \/ worker' = [worker EXCEPT ![w] = cancel]
        /\ UNCHANGED approvals
        /\ ~Idle(w)
    BY <1>10 DEF CheckRequest, storeVars, Idle
  <2>2. /\ go \in Worker /\ go.id = worker[w].id /\ go.row = worker[w].row
        /\ cancel \in Worker /\ cancel.id = worker[w].id /\ cancel.row = worker[w].row
    BY <1>4 DEF Worker, PCs, Decided
  <2> HIDE DEF go, cancel
  <2>3. HeldRows'
    BY <1>1, <2>1, <2>2, HeldByNobody, HeldByContinuing
  <2>4. QED
    BY <1>3, <2>1, <2>3
<1>11. ASSUME NEW w \in Workers, CommitDecision(w)
       PROVE  Goal
  BY <1>11, CommitKeepsRows
<1>12. ASSUME NEW w \in Workers, DecisionConflict(w)
       PROVE  Goal
  <2>1. /\ worker' = [worker EXCEPT ![w] = get_request(worker[w], worker[w].id, "get")]
        /\ UNCHANGED approvals
        /\ worker[w].pc # "idle"
    BY <1>12 DEF DecisionConflict, storeVars
  <2>2. worker[w] \in Worker /\ worker[w].id \in ApprovalIds
    BY <1>4 DEF Worker
  <2>3. approvals[worker[w].id].status # "absent"
    BY <1>1, <2>1 DEF HeldRows, HeldAgrees
  <2>4. QED
    BY <1>1, <1>3, <2>1, <2>2, <2>3, ReadAgrees, HeldByMover DEF Ops
<1>13. ASSUME NEW w \in Workers, NEW job \in Worker,
              worker' = [worker EXCEPT ![w] = job], UNCHANGED approvals,
              ~Idle(w), job.id = worker[w].id, job.row = worker[w].row
       PROVE  Goal
  BY <1>1, <1>3, <1>13, HeldByContinuing
<1>14. ASSUME NEW w \in Workers, NEW pc \in PCs
       PROVE  LET job == [worker[w] EXCEPT !.pc = pc]
              IN  job \in Worker /\ job.id = worker[w].id /\ job.row = worker[w].row
  BY <1>4 DEF Worker
<1>15. ASSUME NEW w \in Workers, NEW name \in Projections, NEW pc \in PCs,
              Raise(w, name, pc), UNCHANGED approvals, ~Idle(w)
       PROVE  Goal
  <2> DEFINE job == [worker[w] EXCEPT !.pc = pc, !.failed = worker[w].failed \cup {name}]
  <2>1. job \in Worker /\ job.id = worker[w].id /\ job.row = worker[w].row
    BY <1>4 DEF Worker
  <2>2. worker' = [worker EXCEPT ![w] = job]
    BY <1>15 DEF Raise
  <2> HIDE DEF job
  <2>3. QED
    BY <1>13, <1>15, <2>1, <2>2
<1>16. ASSUME NEW w \in Workers, SyncIncidentState(w)
       PROVE  Goal
  <2>1. ~Idle(w) /\ UNCHANGED approvals
    BY <1>16 DEF SyncIncidentState, Idle
  <2>2. "trace" \in PCs /\ "incident_state" \in Projections
    BY DEF PCs, Projections
  <2>3. \/ Raise(w, "incident_state", "trace")
        \/ worker' = [worker EXCEPT ![w] = [worker[w] EXCEPT !.pc = "trace"]]
    BY <1>16, <1>4 DEF SyncIncidentState
  <2>4. QED
    BY <1>13, <1>14, <1>15, <2>1, <2>2, <2>3
<1>17. ASSUME NEW w \in Workers, SyncTrace(w)
       PROVE  Goal
  <2> DEFINE next == IF worker[w].row.status = "pending" THEN "mark" ELSE "report"
  <2>1. ~Idle(w) /\ UNCHANGED approvals
    BY <1>17 DEF SyncTrace, Idle
  <2>2. next \in PCs /\ "trace" \in Projections
    BY DEF PCs, Projections
  <2>3. \/ Raise(w, "trace", next)
        \/ worker' = [worker EXCEPT ![w] = [worker[w] EXCEPT !.pc = next]]
    BY <1>17, <1>4 DEF SyncTrace
  <2> HIDE DEF next
  <2>4. QED
    BY <1>13, <1>14, <1>15, <2>1, <2>2, <2>3
<1>18. ASSUME NEW w \in Workers, SyncReportRead(w)
       PROVE  Goal
  <2> DEFINE job == [worker[w] EXCEPT !.pc = "save_report", !.seen = report]
  <2>1. ~Idle(w) /\ UNCHANGED approvals
    BY <1>18 DEF SyncReportRead, Idle
  <2>2. job \in Worker /\ job.id = worker[w].id /\ job.row = worker[w].row /\ "mark" \in PCs
    BY <1>1, <1>4 DEF Worker, PCs, ApprovalTypeOK, StoreTypeOK
  <2>3. \/ worker' = [worker EXCEPT ![w] = job]
        \/ worker' = [worker EXCEPT ![w] = [worker[w] EXCEPT !.pc = "mark"]]
    BY <1>18, <1>4 DEF SyncReportRead
  <2> HIDE DEF job
  <2>4. QED
    BY <1>13, <1>14, <2>1, <2>2, <2>3
<1>19. ASSUME NEW w \in Workers, SyncReportSave(w)
       PROVE  Goal
  <2>1. ~Idle(w) /\ UNCHANGED approvals
    BY <1>19 DEF SyncReportSave, Idle
  <2>2. "mark" \in PCs /\ "report" \in Projections
    BY DEF PCs, Projections
  <2>3. \/ Raise(w, "report", "mark")
        \/ worker' = [worker EXCEPT ![w] = [worker[w] EXCEPT !.pc = "mark"]]
    BY <1>19, <1>4 DEF SyncReportSave
  <2>4. QED
    BY <1>13, <1>14, <1>15, <2>1, <2>2, <2>3
<1>20. ASSUME NEW w \in Workers, MarkProjections(w)
       PROVE  Goal
  BY <1>20, MarkKeepsRows
<1>21. ASSUME NEW w \in Workers, SaveWaitingReport(w) \/ Crash(w)
       PROVE  Goal
  <2>1. worker' = [worker EXCEPT ![w] = IdleWorker] /\ UNCHANGED approvals
    BY <1>21 DEF SaveWaitingReport, Crash, storeVars
  <2>2. QED
    BY <1>1, <1>3, <2>1, HeldByNobody
<1>22. ASSUME Tick \/ UNCHANGED approvalVars
       PROVE  Goal
  <2>1. worker' = worker /\ approvals' = approvals
    BY <1>22 DEF Tick, approvalVars
  <2>2. QED
    BY <1>1, <1>3, <2>1 DEF HeldRows, HeldAgrees
<1>23. Goal
  BY <1>5, <1>6, <1>7, <1>8, <1>9, <1>10, <1>11, <1>12, <1>16, <1>17, <1>18, <1>19, <1>20,
     <1>21, <1>22, [ApprovalNext]_approvalVars DEF ApprovalNext, Arrival, HandlerStep
<1>24. QED
  BY <1>2, <1>23 DEF RowsInv

\* Concurrent requests for one risky action never leave two pending approvals.
THEOREM OnePendingPerKeyHolds == ApprovalSpec => []OnePendingPerKey
<1>1. ApprovalInit => RowsInv
  BY RowsInit
<1>2. RowsInv /\ [ApprovalNext]_approvalVars => RowsInv'
  BY RowsStep
<1>3. RowsInv => OnePendingPerKey
  BY DEF RowsInv
<1>4. QED
  BY <1>1, <1>2, <1>3, PTL DEF ApprovalSpec

\* A step leaves decided rows decided as they were.
LEMMA DecisionFinalStep ==
    ASSUME RowsInv, [ApprovalNext]_approvalVars, NEW a \in ApprovalIds,
           approvals[a].status \in Decided
    PROVE  /\ approvals'[a].status = approvals[a].status
           /\ approvals'[a].decidedBy = approvals[a].decidedBy
           /\ approvals'[a].createdAt = approvals[a].createdAt
<1>1. approvals[a].status # "pending" /\ approvals[a].status # "absent"
  BY DEF Decided
<1> DEFINE Same == approvals'[a] = approvals[a]
<1>2. approvals \in [ApprovalIds -> Approval]
  BY DEF RowsInv, ApprovalTypeOK, StoreTypeOK
<1>3. ASSUME NEW w \in Workers, NEW b \in ApprovalIds, CreateRequest(w, b)
      PROVE  Same
  BY <1>1, <1>2, <1>3 DEF CreateRequest, CanCreateApproval, create_approval_request_once
<1>4. ASSUME NEW w \in Workers, CommitDecision(w)
      PROVE  Same
  BY <1>1, <1>2, <1>4
  DEF CommitDecision, save_approval_decision_if_pending, DecisionAccepted
<1>5. ASSUME NEW w \in Workers, MarkProjections(w)
      PROVE  /\ approvals'[a].status = approvals[a].status
             /\ approvals'[a].decidedBy = approvals[a].decidedBy
             /\ approvals'[a].createdAt = approvals[a].createdAt
  BY <1>1, <1>5, MarkKeepsRows
<1>6. ASSUME NEW w \in Workers,
             \/ \E b \in ApprovalIds :
                  \/ ReuseRequest(w, b) \/ ReadRequest(w, b) \/ SweepPending(w, b)
                  \/ \E decision \in Decisions, actor \in Actors :
                        DecideRequest(w, b, decision, actor)
             \/ CheckRequest(w) \/ DecisionConflict(w) \/ SyncIncidentState(w)
             \/ SyncTrace(w) \/ SyncReportRead(w) \/ SyncReportSave(w)
             \/ SaveWaitingReport(w) \/ Crash(w)
      PROVE  Same
  BY <1>6 DEF ReuseRequest, ReadRequest, SweepPending, DecideRequest, CheckRequest,
     DecisionConflict, SyncIncidentState, SyncTrace, SyncReportRead, SyncReportSave,
     SaveWaitingReport, Crash, storeVars
<1>7. CASE Tick \/ UNCHANGED approvalVars
  BY <1>7 DEF Tick, approvalVars
<1>8. QED
  BY <1>3, <1>4, <1>5, <1>6, <1>7, [ApprovalNext]_approvalVars
  DEF ApprovalNext, Arrival, HandlerStep

\* No stale handler, repair or sweep changes who decided a request and how.
THEOREM DecisionFinalHolds == ApprovalSpec => DecisionFinal
<1>1. ApprovalInit => RowsInv
  BY RowsInit
<1>2. RowsInv /\ [ApprovalNext]_approvalVars => RowsInv'
  BY RowsStep
<1>3. RowsInv /\ [ApprovalNext]_approvalVars =>
        [\A a \in ApprovalIds :
           approvals[a].status \in Decided =>
              /\ approvals'[a].status = approvals[a].status
              /\ approvals'[a].decidedBy = approvals[a].decidedBy
              /\ approvals'[a].createdAt = approvals[a].createdAt]_approvalVars
  BY DecisionFinalStep
<1>4. QED
  BY <1>1, <1>2, <1>3, PTL DEF ApprovalSpec, DecisionFinal

-----------------------------------------------------------------------------
(* Hard terminal incident statuses *)

\* Every write of an incident by Approval merges an update of its own sources.
LEMMA TerminalStep ==
    ASSUME ApprovalTypeOK, [ApprovalNext]_approvalVars,
           incident.status \in HARD_TERMINAL_INCIDENT_STATUSES
    PROVE  incident'.status = incident.status
<1>1. incident \in IncidentState /\ report \in Reports \cup {NoReport}
  BY DEF ApprovalTypeOK, StoreTypeOK
<1>2. ASSUME NEW s \in ApprovalStatuses,
             save_incident_state(build_incident_state_from_approval(s))
      PROVE  incident'.status = incident.status
  <2>1. build_incident_state_from_approval(s).source # "alertmanager"
    BY DEF build_incident_state_from_approval, PlainUpdate
  <2>2. QED
    BY <1>1, <1>2, <2>1, ApprovalStatusType, MergeKeepsTerminal DEF save_incident_state
<1>3. ASSUME NEW r \in Reports, save_report_with_incident(r)
      PROVE  incident'.status = incident.status
  <2>1. build_incident_state_from_report(r).source # "alertmanager"
    BY DEF build_incident_state_from_report, PlainUpdate
  <2>2. QED
    BY <1>1, <1>3, <2>1, ReportStateType, MergeKeepsTerminal DEF save_report_with_incident
<1>4. ASSUME NEW w \in Workers, SyncIncidentState(w)
      PROVE  incident'.status = incident.status
  <2>1. worker[w].row.status \in ApprovalStatuses
    BY DEF ApprovalTypeOK, Worker, Approval
  <2>2. QED
    BY <1>2, <1>4, <2>1 DEF SyncIncidentState
<1>5. ASSUME NEW w \in Workers, SyncReportSave(w)
      PROVE  incident'.status = incident.status
  <2>1. apply_approval_decision(worker[w].seen, worker[w].row.status) \in Reports
    BY DecisionOnReportType DEF ApprovalTypeOK, Worker, Approval
  <2>2. QED
    BY <1>3, <1>5, <2>1 DEF SyncReportSave
<1>6. ASSUME NEW w \in Workers, SaveWaitingReport(w)
      PROVE  incident'.status = incident.status
  <2>1. [status |-> "waiting_approval", changed |-> FALSE] \in Reports
    BY DEF Reports, IncidentStatuses, APPROVAL_LIFECYCLE_STATUSES
  <2>2. QED
    BY <1>3, <1>6, <2>1 DEF SaveWaitingReport
<1>7. ASSUME NEW w \in Workers,
             \/ Arrival(w) \/ Crash(w)
             \/ CheckRequest(w) \/ CommitDecision(w) \/ DecisionConflict(w) \/ SyncTrace(w)
             \/ SyncReportRead(w) \/ MarkProjections(w)
      PROVE  incident' = incident
  BY <1>7 DEF Arrival, CreateRequest, ReuseRequest, ReadRequest, SweepPending,
     DecideRequest, Crash, CheckRequest, CommitDecision, DecisionConflict, SyncTrace,
     SyncReportRead, MarkProjections, storeVars
<1>8. CASE Tick \/ UNCHANGED approvalVars
  BY <1>8 DEF Tick, approvalVars
<1>9. QED
  BY <1>4, <1>5, <1>6, <1>7, <1>8, [ApprovalNext]_approvalVars DEF ApprovalNext, HandlerStep

\* Late approval and report projections never reopen a hard terminal incident.
THEOREM HardTerminalHeld == ApprovalSpec => HardTerminalHolds
<1>1. ApprovalInit => ApprovalTypeOK
  BY TypeInit
<1>2. ApprovalTypeOK /\ [ApprovalNext]_approvalVars => ApprovalTypeOK'
  BY TypeStep
<1>3. ApprovalTypeOK /\ [ApprovalNext]_approvalVars =>
        [incident.status \in HARD_TERMINAL_INCIDENT_STATUSES
           => incident'.status = incident.status]_approvalVars
  BY TerminalStep
<1>4. QED
  BY <1>1, <1>2, <1>3, PTL DEF ApprovalSpec, HardTerminalHolds

-----------------------------------------------------------------------------
(* The outbox of projections *)

SyncPCs == {"trace", "report", "save_report", "mark"}

\* The projections a handler has tried at its place in a sync.
Tried(job) ==
    IF job.pc = "trace" THEN {"incident_state"}
    ELSE IF job.pc \in {"report", "save_report"} THEN {"incident_state", "trace"}
    ELSE IF job.pc = "mark" THEN ProjectionsDue(job.row.status)
    ELSE {}

\* What it tried was written, or is among the failures it remembers.
Recorded(job, facts) ==
    \A p \in Tried(job) : p \in job.failed \/ <<job.id, job.row.status, p>> \in facts

SyncsRecorded == \A w \in Workers : Recorded(worker[w], projected)

OutboxInv == RowsInv /\ SyncsRecorded /\ OutboxComplete

LEMMA Due ==
    /\ ProjectionsDue("pending") = {"incident_state", "trace"}
    /\ \A s \in Decided : ProjectionsDue(s) = Projections
    /\ \A s \in ApprovalStatuses : ProjectionsDue(s) \subseteq Projections
<1>1. ProjectionsDue("pending") = {"incident_state", "trace"}
  BY DEF ProjectionsDue, creation_projection_names
<1>2. ASSUME NEW s \in Decided
      PROVE  ProjectionsDue(s) = Projections
  BY DEF ProjectionsDue, decision_projection_names, Decided
<1>3. ProjectionsDue("absent") = {}
  BY DEF ProjectionsDue
<1>4. QED
  BY <1>1, <1>2, <1>3 DEF ApprovalStatuses, Projections

\* Facts are only added, so the other handlers' records stand.
LEMMA RecordedByMover ==
    ASSUME ApprovalTypeOK, SyncsRecorded, NEW w \in Workers, NEW job,
           worker' = [worker EXCEPT ![w] = job], projected \subseteq projected',
           Recorded(job, projected')
    PROVE  SyncsRecorded'
<1>1. ASSUME NEW v \in Workers
      PROVE  Recorded(worker'[v], projected')
  <2>1. CASE v = w
    BY <2>1 DEF ApprovalTypeOK
  <2>2. CASE v # w
    <3>1. worker'[v] = worker[v]
      BY <2>2 DEF ApprovalTypeOK
    <3>2. Recorded(worker[v], projected)
      BY DEF SyncsRecorded
    <3>3. Recorded(worker[v], projected')
      BY <3>2 DEF Recorded
    <3>4. QED
      BY <3>1, <3>3
  <2>3. QED
    BY <2>1, <2>2
<1>2. QED
  BY <1>1 DEF SyncsRecorded, Recorded, Tried

\* A handler outside a sync has nothing to record.
LEMMA NothingTried ==
    ASSUME NEW job, job.pc \notin SyncPCs, NEW facts
    PROVE  Recorded(job, facts)
BY DEF Recorded, Tried, SyncPCs

\* A handler that starts to hold a request is not inside a sync.
LEMMA HoldingOutsideSync ==
    ASSUME NEW job \in Worker, NEW op \in Ops, NEW a \in ApprovalIds, NEW row \in Approval,
           NEW pc \in PCs \ SyncPCs
    PROVE  Holding(job, pc, op, a, row).pc \notin SyncPCs
BY DEF Holding, IdleWorker, Worker, SyncPCs

LEMMA ContinuationOutsideSync ==
    ASSUME NEW op \in Ops
    PROVE  Continuation(op) \in PCs \ SyncPCs
BY DEF Continuation, Ops, PCs, SyncPCs

LEMMA GetRequestOutsideSync ==
    ASSUME ApprovalTypeOK, NEW job \in Worker, NEW a \in ApprovalIds, NEW op \in Ops
    PROVE  get_request(job, a, op).pc \notin SyncPCs
<1>1. approvals[a] \in Approval /\ [approvals[a] EXCEPT !.pending = {}] \in Approval
  BY DEF ApprovalTypeOK, StoreTypeOK, Approval
<1>2. "incident_state" \in PCs \ SyncPCs
  BY DEF PCs, SyncPCs
<1>3. QED
  BY <1>1, <1>2, HoldingOutsideSync, ContinuationOutsideSync DEF get_request

\* Rows that do not change stay complete.
LEMMA CompleteIfSame ==
    ASSUME OutboxComplete, UNCHANGED approvals, projected \subseteq projected'
    PROVE  OutboxComplete'
BY DEF OutboxComplete

\* A write or a failed write of the next projection, at any place of a sync.
LEMMA TriedOneMore ==
    ASSUME NEW job \in Worker, NEW next \in Worker, NEW name \in Projections,
           NEW facts, NEW facts2, Recorded(job, facts), facts \subseteq facts2,
           next.id = job.id, next.row = job.row, job.failed \subseteq next.failed,
           Tried(next) \subseteq Tried(job) \cup {name},
           name \in next.failed \/ <<job.id, job.row.status, name>> \in facts2
    PROVE  Recorded(next, facts2)
BY DEF Recorded

LEMMA OutboxInit == ApprovalInit => OutboxInv
<1> SUFFICES ASSUME ApprovalInit
             PROVE  OutboxInv
  OBVIOUS
<1>1. RowsInv
  BY RowsInit
<1>2. \A w \in Workers : worker[w].pc \notin SyncPCs
  BY DEF ApprovalInit, IdleWorker, SyncPCs
<1>3. SyncsRecorded
  BY <1>2, NothingTried DEF SyncsRecorded
<1>4. OutboxComplete
  BY DEF ApprovalInit, OutboxComplete, AbsentApproval, ProjectionsDue
<1>5. QED
  BY <1>1, <1>3, <1>4 DEF OutboxInv

\* One projection of a sync: it is written, or it fails and is remembered.
LEMMA ProjectionStep ==
    ASSUME ApprovalTypeOK, SyncsRecorded, OutboxComplete,
           NEW w \in Workers, NEW name \in Projections, NEW pc \in PCs,
           UNCHANGED approvals,
           \/ /\ worker' = [worker EXCEPT ![w] = [worker[w] EXCEPT !.pc = pc]]
              /\ projected' = projected \cup {Fact(w, name)}
           \/ Raise(w, name, pc) /\ UNCHANGED projected,
           Tried([worker[w] EXCEPT !.pc = pc]) \subseteq Tried(worker[w]) \cup {name}
    PROVE  SyncsRecorded' /\ OutboxComplete'
<1> DEFINE wrote == [worker[w] EXCEPT !.pc = pc]
           failed == [worker[w] EXCEPT !.pc = pc, !.failed = worker[w].failed \cup {name}]
<1>1. worker[w] \in Worker /\ Recorded(worker[w], projected)
  BY DEF ApprovalTypeOK, SyncsRecorded
<1>2. /\ wrote \in Worker /\ wrote.id = worker[w].id /\ wrote.row = worker[w].row
      /\ wrote.failed = worker[w].failed /\ wrote.pc = pc
      /\ failed \in Worker /\ failed.id = worker[w].id /\ failed.row = worker[w].row
      /\ failed.failed = worker[w].failed \cup {name} /\ failed.pc = pc
  BY <1>1 DEF Worker
<1> HIDE DEF wrote, failed
<1>3. Tried(failed) = Tried(wrote) /\ Tried(wrote) \subseteq Tried(worker[w]) \cup {name}
  BY <1>2 DEF Tried, wrote
<1>4. CASE worker' = [worker EXCEPT ![w] = wrote] /\ projected' = projected \cup {Fact(w, name)}
  <2>1. Recorded(wrote, projected')
    <3>1. <<worker[w].id, worker[w].row.status, name>> \in projected'
      BY <1>4 DEF Fact
    <3>2. projected \subseteq projected'
      BY <1>4
    <3>3. QED
      BY <1>1, <1>2, <1>3, <3>1, <3>2, TriedOneMore
  <2>2. QED
    BY <1>4, <2>1, RecordedByMover, CompleteIfSame
<1>5. CASE worker' = [worker EXCEPT ![w] = failed] /\ projected' = projected
  <2>1. Recorded(failed, projected')
    <3>1. /\ name \in failed.failed /\ worker[w].failed \subseteq failed.failed
          /\ projected \subseteq projected'
          /\ Tried(failed) \subseteq Tried(worker[w]) \cup {name}
      BY <1>2, <1>3, <1>5
    <3>2. QED
      BY <1>1, <1>2, <3>1, TriedOneMore
  <2>2. QED
    BY <1>5, <2>1, RecordedByMover, CompleteIfSame
<1>6. QED
  BY <1>4, <1>5 DEF Raise, wrote, failed

\* A marker is written only for the status it belongs to, after that status' own sync.
LEMMA MarkerStep ==
    ASSUME OutboxInv, NEW w \in Workers, MarkProjections(w)
    PROVE  SyncsRecorded' /\ OutboxComplete'
<1> DEFINE a == worker[w].id
           row == [worker[w].row EXCEPT !.pending = Unsynced(w)]
           job == Holding(worker[w], Continuation(worker[w].op), worker[w].op, a, row)
<1>1. /\ ApprovalTypeOK /\ SyncsRecorded /\ OutboxComplete
      /\ approvals \in [ApprovalIds -> Approval] /\ worker[w] \in Worker
      /\ a \in ApprovalIds /\ worker[w].op \in Ops
  BY DEF OutboxInv, RowsInv, ApprovalTypeOK, StoreTypeOK, Worker
<1>2. /\ \/ approvals' = approvals
         \/ /\ approvals[a].status = row.status
            /\ approvals' = [approvals EXCEPT ![a] = row]
      /\ worker' = [worker EXCEPT ![w] = job]
      /\ worker[w].pc = "mark"
      /\ projected' = projected
  BY DEF MarkProjections, save_approval_request
<1>3. row.status = worker[w].row.status /\ row.pending = worker[w].failed /\ row \in Approval
  BY <1>1, RowType DEF Worker, Approval, Unsynced
<1> HIDE DEF row
<1>4. job.pc \notin SyncPCs
  BY <1>1, <1>3, HoldingOutsideSync, ContinuationOutsideSync
<1>5. SyncsRecorded'
  BY <1>1, <1>2, <1>4, NothingTried, RecordedByMover
<1>6. ASSUME NEW p \in ProjectionsDue(row.status)
      PROVE  p \in row.pending \/ <<a, row.status, p>> \in projected
  <2>1. Recorded(worker[w], projected)
    BY <1>1 DEF SyncsRecorded
  <2>2. Tried(worker[w]) = ProjectionsDue(worker[w].row.status)
    BY <1>2 DEF Tried
  <2>3. QED
    BY <1>3, <1>6, <2>1, <2>2 DEF Recorded
<1>7. CASE approvals' = approvals
  BY <1>1, <1>2, <1>5, <1>7 DEF OutboxComplete
<1>8. CASE approvals[a].status = row.status /\ approvals' = [approvals EXCEPT ![a] = row]
  <2>1. ASSUME NEW b \in ApprovalIds, NEW p \in ProjectionsDue(approvals'[b].status)
        PROVE  p \in approvals'[b].pending \/ <<b, approvals'[b].status, p>> \in projected'
    <3>1. CASE b = a
      BY <1>1, <1>2, <1>6, <1>8, <2>1, <3>1
    <3>2. CASE b # a
      BY <1>1, <1>2, <1>8, <2>1, <3>2 DEF OutboxComplete
    <3>3. QED
      BY <3>1, <3>2
  <2>2. QED
    BY <1>5, <2>1 DEF OutboxComplete
<1>9. QED
  BY <1>2, <1>5, <1>7, <1>8

\* A new fact goes into the row together with the names of all its projections.
LEMMA FactStep ==
    ASSUME OutboxInv, NEW w \in Workers,
           CommitDecision(w) \/ \E a \in ApprovalIds : CreateRequest(w, a)
    PROVE  SyncsRecorded' /\ OutboxComplete'
<1>1. ApprovalTypeOK /\ SyncsRecorded /\ OutboxComplete
  BY DEF OutboxInv, RowsInv
<1>2. approvals \in [ApprovalIds -> Approval] /\ worker[w] \in Worker
  BY <1>1 DEF ApprovalTypeOK, StoreTypeOK
<1>3. "incident_state" \in PCs \ SyncPCs /\ "get" \in Ops /\ "create" \in Ops
  BY DEF PCs, SyncPCs, Ops
<1>4. ASSUME NEW a \in ApprovalIds, NEW row \in Approval, NEW op \in Ops,
             ProjectionsDue(row.status) \subseteq row.pending,
             approvals' = [approvals EXCEPT ![a] = row], projected' = projected,
             worker' = [worker EXCEPT ![w] =
                           Holding(worker[w], "incident_state", op, a, row)]
      PROVE  SyncsRecorded' /\ OutboxComplete'
  <2>1. SyncsRecorded'
    BY <1>1, <1>2, <1>3, <1>4, HoldingOutsideSync, NothingTried, RecordedByMover
  <2>2. ASSUME NEW b \in ApprovalIds, NEW p \in ProjectionsDue(approvals'[b].status)
        PROVE  p \in approvals'[b].pending \/ <<b, approvals'[b].status, p>> \in projected'
    BY <1>1, <1>2, <1>4, <2>2 DEF OutboxComplete
  <2>3. QED
    BY <2>1, <2>2 DEF OutboxComplete
<1>5. CASE CommitDecision(w)
  <2>1. DecidedRow(w) \in Approval /\ DecidedRow(w).status \in Decided
    BY <1>1, RowType
  <2>2. DecidedRow(w).pending = Projections
    BY <1>2 DEF DecidedRow, Worker, Approval, decision_projection_names
  <2>3. worker[w].id \in ApprovalIds
    BY <1>2 DEF Worker
  <2>4. QED
    BY <1>3, <1>4, <1>5, <2>1, <2>2, <2>3, Due
    DEF CommitDecision, save_approval_decision_if_pending
<1>6. ASSUME NEW a \in ApprovalIds, CreateRequest(w, a)
      PROVE  SyncsRecorded' /\ OutboxComplete'
  <2> DEFINE row == [status |-> "pending", createdAt |-> now, decidedBy |-> "nobody",
                     pending |-> creation_projection_names]
  <2>1. row \in Approval
    BY <1>1, RowType
  <2>2. ProjectionsDue(row.status) \subseteq row.pending
    BY Due DEF creation_projection_names
  <2>3. /\ approvals' = [approvals EXCEPT ![a] = row]
        /\ worker' = [worker EXCEPT ![w] =
                         Holding(worker[w], "incident_state", "create", a, row)]
        /\ projected' = projected
    BY <1>6 DEF CreateRequest, create_approval_request_once
  <2> HIDE DEF row
  <2>4. QED
    BY <1>3, <1>4, <2>1, <2>2, <2>3
<1>7. QED
  BY <1>5, <1>6

\* Every step keeps the records of the syncs and the completeness of the outbox.
LEMMA OutboxStep ==
    ASSUME OutboxInv, [ApprovalNext]_approvalVars
    PROVE  OutboxInv'
<1> DEFINE Goal == SyncsRecorded' /\ OutboxComplete'
<1>1. RowsInv /\ ApprovalTypeOK /\ SyncsRecorded /\ OutboxComplete
  BY DEF OutboxInv, RowsInv
<1>2. RowsInv'
  BY <1>1, RowsStep
<1>3. worker \in [Workers -> Worker] /\ approvals \in [ApprovalIds -> Approval]
  BY <1>1 DEF ApprovalTypeOK, StoreTypeOK
<1>4. ASSUME NEW w \in Workers, NEW job, job.pc \notin SyncPCs,
             worker' = [worker EXCEPT ![w] = job], UNCHANGED <<approvals, projected>>
      PROVE  Goal
  BY <1>1, <1>4, NothingTried, RecordedByMover, CompleteIfSame
<1>5. ASSUME NEW w \in Workers, NEW a \in ApprovalIds, ReuseRequest(w, a)
      PROVE  Goal
  <2> DEFINE job == Holding(worker[w], "waiting_report", "create", a, approvals[a])
  <2>1. job.pc \notin SyncPCs
    BY <1>3, HoldingOutsideSync DEF PCs, SyncPCs, Ops
  <2>2. worker' = [worker EXCEPT ![w] = job] /\ UNCHANGED <<approvals, projected>>
    BY <1>5 DEF ReuseRequest, storeVars
  <2>3. QED
    BY <1>4, <2>1, <2>2
<1>6. ASSUME NEW w \in Workers, NEW job \in Worker, NEW a \in ApprovalIds, NEW op \in Ops,
             worker' = [worker EXCEPT ![w] = get_request(job, a, op)],
             UNCHANGED <<approvals, projected>>
      PROVE  Goal
  BY <1>1, <1>4, <1>6, GetRequestOutsideSync
<1>7. ASSUME NEW w \in Workers, NEW a \in ApprovalIds,
             \/ ReadRequest(w, a) \/ SweepPending(w, a)
             \/ \E decision \in Decisions, actor \in Actors :
                   DecideRequest(w, a, decision, actor)
      PROVE  Goal
  <2>1. worker[w] \in Worker /\ {"get", "sweep", "decide"} \subseteq Ops
    BY <1>3 DEF Ops
  <2>2. CASE ReadRequest(w, a)
    BY <1>6, <2>1, <2>2 DEF ReadRequest, storeVars
  <2>3. CASE SweepPending(w, a)
    BY <1>6, <2>1, <2>3 DEF SweepPending, storeVars
  <2>4. ASSUME NEW decision \in Decisions, NEW actor \in Actors,
               DecideRequest(w, a, decision, actor)
        PROVE  Goal
    <3> DEFINE job == [worker[w] EXCEPT !.decision = decision, !.actor = actor]
    <3>1. job \in Worker
      BY <2>1, ApprovalAssumption DEF Worker
    <3>2. /\ worker' = [worker EXCEPT ![w] = get_request(job, a, "decide")]
          /\ UNCHANGED <<approvals, projected>>
      BY <2>4 DEF DecideRequest, storeVars
    <3> HIDE DEF job
    <3>3. QED
      BY <1>6, <2>1, <3>1, <3>2
  <2>5. QED
    BY <1>7, <2>2, <2>3, <2>4
<1>8. ASSUME NEW w \in Workers, DecisionConflict(w)
      PROVE  Goal
  <2>1. worker[w] \in Worker /\ worker[w].id \in ApprovalIds /\ "get" \in Ops
    BY <1>3 DEF Worker, Ops
  <2>2. QED
    BY <1>6, <1>8, <2>1 DEF DecisionConflict, storeVars
<1>9. IdleWorker.pc \notin SyncPCs
  BY DEF IdleWorker, SyncPCs
<1>10. ASSUME NEW w \in Workers, SaveWaitingReport(w) \/ Crash(w)
       PROVE  Goal
  BY <1>4, <1>9, <1>10 DEF SaveWaitingReport, Crash, storeVars
<1>11. ASSUME NEW w \in Workers, CheckRequest(w)
       PROVE  Goal
  <2> DEFINE go == [worker[w] EXCEPT !.pc = "commit"]
             cancel == [worker[w] EXCEPT !.pc = "commit", !.decision = "cancelled",
                                         !.actor = "system"]
  <2>1. go.pc \notin SyncPCs /\ cancel.pc \notin SyncPCs
    BY <1>3 DEF Worker, SyncPCs
  <2>2. /\ \/ worker' = [worker EXCEPT ![w] = IdleWorker]
           \/ worker' = [worker EXCEPT ![w] = go]
           \/ worker' = [worker EXCEPT ![w] = cancel]
        /\ UNCHANGED <<approvals, projected>>
    BY <1>11 DEF CheckRequest, storeVars
  <2> HIDE DEF go, cancel
  <2>3. QED
    BY <1>4, <1>9, <2>1, <2>2
<1>12. ASSUME NEW w \in Workers,
              CommitDecision(w) \/ \E a \in ApprovalIds : CreateRequest(w, a)
       PROVE  Goal
  BY <1>12, FactStep
<1>13. ASSUME NEW w \in Workers, MarkProjections(w)
       PROVE  Goal
  BY <1>13, MarkerStep
<1>14. ASSUME NEW w \in Workers, SyncIncidentState(w)
       PROVE  Goal
  <2>1. "trace" \in PCs /\ "incident_state" \in Projections /\ UNCHANGED approvals
    BY <1>14 DEF PCs, Projections, SyncIncidentState
  <2>2. Tried([worker[w] EXCEPT !.pc = "trace"])
           \subseteq Tried(worker[w]) \cup {"incident_state"}
    BY <1>3 DEF Tried, Worker
  <2>3. \/ /\ worker' = [worker EXCEPT ![w] = [worker[w] EXCEPT !.pc = "trace"]]
           /\ projected' = projected \cup {Fact(w, "incident_state")}
        \/ Raise(w, "incident_state", "trace") /\ UNCHANGED projected
    BY <1>3, <1>14 DEF SyncIncidentState
  <2>4. QED
    BY <1>1, <2>1, <2>2, <2>3, ProjectionStep
<1>15. ASSUME NEW w \in Workers, SyncTrace(w)
       PROVE  Goal
  <2> DEFINE next == IF worker[w].row.status = "pending" THEN "mark" ELSE "report"
  <2>1. next \in PCs /\ "trace" \in Projections /\ UNCHANGED approvals
    BY <1>15 DEF PCs, Projections, SyncTrace
  <2>2. Tried([worker[w] EXCEPT !.pc = next]) \subseteq Tried(worker[w]) \cup {"trace"}
    <3>1. worker[w].pc = "trace"
      BY <1>15 DEF SyncTrace
    <3>2. CASE worker[w].row.status = "pending"
      BY <1>3, <3>1, <3>2, Due DEF Tried, Worker
    <3>3. CASE worker[w].row.status # "pending"
      BY <1>3, <3>1, <3>3 DEF Tried, Worker
    <3>4. QED
      BY <3>2, <3>3
  <2>3. \/ /\ worker' = [worker EXCEPT ![w] = [worker[w] EXCEPT !.pc = next]]
           /\ projected' = projected \cup {Fact(w, "trace")}
        \/ Raise(w, "trace", next) /\ UNCHANGED projected
    BY <1>3, <1>15 DEF SyncTrace
  <2> HIDE DEF next
  <2>4. QED
    BY <1>1, <2>1, <2>2, <2>3, ProjectionStep
<1>16. ASSUME NEW w \in Workers, SyncReportRead(w)
       PROVE  Goal
  <2> DEFINE job == [worker[w] EXCEPT !.pc = "save_report", !.seen = report]
  <2>1. /\ worker[w].pc = "report" /\ worker[w] \in Worker /\ UNCHANGED approvals
        /\ "mark" \in PCs /\ "report" \in Projections
    BY <1>3, <1>16 DEF SyncReportRead, PCs, Projections
  <2>2. CASE worker' = [worker EXCEPT ![w] = job] /\ projected' = projected
    <3>1. /\ job.pc = "save_report" /\ job.id = worker[w].id
          /\ job.row = worker[w].row /\ job.failed = worker[w].failed
      BY <2>1 DEF Worker
    <3> HIDE DEF job
    <3>2. Recorded(job, projected')
      BY <1>1, <2>1, <2>2, <3>1 DEF SyncsRecorded, Recorded, Tried
    <3>3. QED
      BY <1>1, <2>1, <2>2, <3>2, RecordedByMover, CompleteIfSame
  <2>3. Tried([worker[w] EXCEPT !.pc = "mark"]) \subseteq Tried(worker[w]) \cup {"report"}
    <3>1. ProjectionsDue(worker[w].row.status) \subseteq {"incident_state", "trace", "report"}
      BY <2>1, Due DEF Worker, Approval, Projections
    <3>2. QED
      BY <2>1, <3>1 DEF Tried, Worker
  <2>4. \/ /\ worker' = [worker EXCEPT ![w] = [worker[w] EXCEPT !.pc = "mark"]]
           /\ projected' = projected \cup {Fact(w, "report")}
        \/ worker' = [worker EXCEPT ![w] = job] /\ projected' = projected
    BY <1>3, <1>16 DEF SyncReportRead
  <2>5. QED
    BY <1>1, <2>1, <2>2, <2>3, <2>4, ProjectionStep
<1>17. ASSUME NEW w \in Workers, SyncReportSave(w)
       PROVE  Goal
  <2>1. /\ worker[w].pc = "save_report" /\ worker[w] \in Worker /\ UNCHANGED approvals
        /\ "mark" \in PCs /\ "report" \in Projections
    BY <1>3, <1>17 DEF SyncReportSave, PCs, Projections
  <2>2. Tried([worker[w] EXCEPT !.pc = "mark"]) \subseteq Tried(worker[w]) \cup {"report"}
    <3>1. ProjectionsDue(worker[w].row.status) \subseteq {"incident_state", "trace", "report"}
      BY <2>1, Due DEF Worker, Approval, Projections
    <3>2. QED
      BY <2>1, <3>1 DEF Tried, Worker
  <2>3. \/ /\ worker' = [worker EXCEPT ![w] = [worker[w] EXCEPT !.pc = "mark"]]
           /\ projected' = projected \cup {Fact(w, "report")}
        \/ Raise(w, "report", "mark") /\ UNCHANGED projected
    BY <1>3, <1>17 DEF SyncReportSave
  <2>4. QED
    BY <1>1, <2>1, <2>2, <2>3, ProjectionStep
<1>18. ASSUME Tick \/ UNCHANGED approvalVars
       PROVE  Goal
  <2>1. worker' = worker /\ approvals' = approvals /\ projected' = projected
    BY <1>18 DEF Tick, approvalVars
  <2>2. QED
    BY <1>1, <2>1 DEF SyncsRecorded, OutboxComplete
<1>19. Goal
  BY <1>5, <1>7, <1>8, <1>10, <1>11, <1>12, <1>13, <1>14, <1>15, <1>16, <1>17, <1>18,
     [ApprovalNext]_approvalVars DEF ApprovalNext, Arrival, HandlerStep
<1>20. QED
  BY <1>2, <1>19 DEF OutboxInv

\* Whatever fails or dies, no projection of a committed row is forgotten.
THEOREM OutboxCompleteHolds == ApprovalSpec => []OutboxComplete
<1>1. ApprovalInit => OutboxInv
  BY OutboxInit
<1>2. OutboxInv /\ [ApprovalNext]_approvalVars => OutboxInv'
  BY OutboxStep
<1>3. OutboxInv => OutboxComplete
  BY DEF OutboxInv
<1>4. QED
  BY <1>1, <1>2, <1>3, PTL DEF ApprovalSpec
=============================================================================
