------------------------------ MODULE Approval ------------------------------
(***************************************************************************)
(* ApprovalService (app/services/approval_service.py): creating, reading,  *)
(* deciding and expiring approval requests from several request handlers   *)
(* and worker processes that share one store.                              *)
(*                                                                         *)
(* A handler commits its fact (the row) in one transaction, with the names *)
(* of the projections still to write in projection_pending, and then       *)
(* writes the projections one by one: any of these writes may raise, and   *)
(* the process may die between any two of them.  A reader that finds a     *)
(* non-empty projection_pending repeats the projections.                   *)
(***************************************************************************)
EXTENDS Store

CONSTANTS Workers,         \* concurrent request handlers
          Decisions,       \* decisions operators submit, as the status they lead to
          MaxFaults        \* bound on failed projection writes and crashes

ASSUME ApprovalAssumption == Decisions \subseteq Decided /\ MaxFaults \in Nat

VARIABLES worker,          \* what each handler is doing
          faults           \* faults that can still happen

approvalVars == <<approvals, executions, incident, report, projected, now, worker, faults>>

NoId == CHOOSE a \in ApprovalIds : TRUE

\* "start" and "manual" are the ChangeExecutionService's uses of get_request.
Ops == {"none", "create", "get", "decide", "sweep", "start", "manual"}

PCs == {"idle", "check", "commit", "incident_state", "trace", "report", "save_report",
        "mark", "waiting_report", "returned"}

\* row is the ApprovalRequest object in the handler's hands, row.pending the
\* projection_pending it carries, failed the projections that raised, seen the
\* report read by mark_approval_decided.
Worker == [pc : PCs, op : Ops, id : ApprovalIds, row : Approval,
           decision : Decided, actor : Actors \cup {"system"},
           failed : SUBSET Projections, seen : Reports \cup {NoReport}]

IdleWorker == [pc |-> "idle", op |-> "none", id |-> NoId, row |-> AbsentApproval,
               decision |-> "cancelled", actor |-> "system", failed |-> {},
               seen |-> NoReport]

Idle(w) == worker[w].pc = "idle"

-----------------------------------------------------------------------------
(* Helpers *)

is_expired(row) == now > row.createdAt + TTL

creation_projection_names == {"incident_state", "trace"}
decision_projection_names == Projections

\* What the caller of get_request or of a sync does when it returns.
Continuation(op) ==
    CASE op = "create" -> "waiting_report"
      [] op \in {"decide", "sweep"} -> "check"
      [] op \in {"start", "manual"} -> "returned"
      [] OTHER -> "idle"

\* The handler's state when it holds the request object row of a and goes on at pc.
Holding(job, pc, op, a, row) ==
    IF pc = "idle" THEN IdleWorker
    ELSE [job EXCEPT !.pc = pc, !.op = op, !.id = a, !.row = row,
                     !.failed = {}, !.seen = NoReport]

\* get_request and _repair_request_if_needed: the repair works on a copy whose
\* projection_pending is empty.
get_request(job, a, op) ==
    IF approvals[a].pending = {}
      THEN Holding(job, Continuation(op), op, a, approvals[a])
      ELSE Holding(job, "incident_state", op, a, [approvals[a] EXCEPT !.pending = {}])

\* A projection write raised; the handler remembers its name and goes on.
Raise(w, name, next) ==
    /\ faults > 0
    /\ faults' = faults - 1
    /\ worker' = [worker EXCEPT ![w] = [@ EXCEPT !.pc = next,
                                                  !.failed = worker[w].failed \cup {name}]]

\* Mutant: the names of failed projections are not kept.
NothingUnsynced(w) == {}

\* What the row's projection_pending becomes once its projections were tried.
Unsynced(w) == worker[w].failed

Fact(w, name) == <<worker[w].id, worker[w].row.status, name>>

-----------------------------------------------------------------------------
(* Handlers *)

\* create_request_once commits the pending row.
CreateRequest(w, a) ==
    /\ Idle(w)
    /\ CanCreateApproval(a)
    /\ LET row == [status |-> "pending", createdAt |-> now, decidedBy |-> "nobody",
                   pending |-> creation_projection_names]
       IN  /\ create_approval_request_once(a, row)
           /\ worker' = [worker EXCEPT ![w] =
                            Holding(@, "incident_state", "create", a, row)]
    /\ UNCHANGED <<executions, incident, report, projected, now, faults>>

\* create_request_once finds a pending row for the key and returns it.
ReuseRequest(w, a) ==
    /\ Idle(w)
    /\ approvals[a].status = "pending"
    /\ worker' = [worker EXCEPT ![w] =
                     Holding(@, "waiting_report", "create", a, approvals[a])]
    /\ UNCHANGED <<storeVars, faults>>

\* The diagnosis run that asked for the approval stores its waiting_approval report.
SaveWaitingReport(w) ==
    /\ worker[w].pc = "waiting_report"
    /\ save_report_with_incident([status |-> "waiting_approval", changed |-> FALSE])
    /\ worker' = [worker EXCEPT ![w] = IdleWorker]
    /\ UNCHANGED <<approvals, executions, projected, now, faults>>

\* get_request from a read endpoint, or the read of list_requests.
ReadRequest(w, a) ==
    /\ Idle(w)
    /\ approvals[a].status # "absent" /\ approvals[a].pending # {}
    /\ worker' = [worker EXCEPT ![w] = get_request(@, a, "get")]
    /\ UNCHANGED <<storeVars, faults>>

DecideRequest(w, a, decision, actor) ==
    /\ Idle(w)
    /\ approvals[a].status # "absent"
    /\ LET job == [worker[w] EXCEPT !.decision = decision, !.actor = actor]
       IN  worker' = [worker EXCEPT ![w] = get_request(job, a, "decide")]
    /\ UNCHANGED <<storeVars, faults>>

\* list_pending looks at every pending row and cancels the expired ones.
SweepPending(w, a) ==
    /\ Idle(w)
    /\ approvals[a].status = "pending"
    /\ worker' = [worker EXCEPT ![w] = get_request(@, a, "sweep")]
    /\ UNCHANGED <<storeVars, faults>>

\* decide_request and list_pending after the read: the conditions of the commit.
CheckRequest(w) ==
    LET row == worker[w].row
        deciding == worker[w].op = "decide"
        cancel == [worker[w] EXCEPT !.pc = "commit", !.decision = "cancelled",
                                    !.actor = "system"]
    IN  /\ worker[w].pc = "check"
        /\ \/ /\ deciding /\ row.status # "pending"
              /\ worker' = [worker EXCEPT ![w] = IdleWorker]
           \/ /\ ~deciding /\ ~is_expired(row)
              /\ worker' = [worker EXCEPT ![w] = IdleWorker]
           \/ /\ deciding => row.status = "pending"
              /\ is_expired(row)
              /\ worker' = [worker EXCEPT ![w] = cancel]
           \/ /\ deciding /\ row.status = "pending" /\ ~is_expired(row)
              /\ worker' = [worker EXCEPT ![w].pc = "commit"]
        /\ UNCHANGED <<storeVars, faults>>

DecidedRow(w) == [worker[w].row EXCEPT !.status = worker[w].decision,
                                       !.decidedBy = worker[w].actor,
                                       !.pending = decision_projection_names]

\* The conditional update wins, and the decision's projections start.
CommitDecision(w) ==
    /\ worker[w].pc = "commit"
    /\ save_approval_decision_if_pending(worker[w].id, DecidedRow(w))
    /\ worker' = [worker EXCEPT ![w] =
                     Holding(@, "incident_state", "get", @.id, DecidedRow(w))]
    /\ UNCHANGED <<executions, incident, report, projected, now, faults>>

\* The conditional update finds the row decided: read it again, then raise.
DecisionConflict(w) ==
    /\ worker[w].pc = "commit"
    /\ ~DecisionAccepted(worker[w].id)
    /\ worker' = [worker EXCEPT ![w] = get_request(@, @.id, "get")]
    /\ UNCHANGED <<storeVars, faults>>

-----------------------------------------------------------------------------
(* The projections of a committed row, in the order of _sync_committed_* *)

SyncIncidentState(w) ==
    /\ worker[w].pc = "incident_state"
    /\ \/ /\ save_incident_state(build_incident_state_from_approval(worker[w].row.status))
          /\ projected' = projected \cup {Fact(w, "incident_state")}
          /\ worker' = [worker EXCEPT ![w].pc = "trace"]
          /\ UNCHANGED faults
       \/ /\ Raise(w, "incident_state", "trace")
          /\ UNCHANGED <<incident, projected>>
    /\ UNCHANGED <<approvals, executions, report, now>>

\* A trace event is inserted once; writing it again changes nothing.
SyncTrace(w) ==
    LET next == IF worker[w].row.status = "pending" THEN "mark" ELSE "report"
    IN  /\ worker[w].pc = "trace"
        /\ \/ /\ projected' = projected \cup {Fact(w, "trace")}
              /\ worker' = [worker EXCEPT ![w].pc = next]
              /\ UNCHANGED faults
           \/ /\ Raise(w, "trace", next)
              /\ UNCHANGED projected
        /\ UNCHANGED <<approvals, executions, incident, report, now>>

\* mark_approval_decided reads the latest report; without one it is done.
SyncReportRead(w) ==
    /\ worker[w].pc = "report"
    /\ IF report = NoReport
         THEN /\ projected' = projected \cup {Fact(w, "report")}
              /\ worker' = [worker EXCEPT ![w].pc = "mark"]
         ELSE /\ worker' = [worker EXCEPT ![w] = [@ EXCEPT !.pc = "save_report",
                                                            !.seen = report]]
              /\ UNCHANGED projected
    /\ UNCHANGED <<approvals, executions, incident, report, now, faults>>

\* It saves the report it read, with the decision applied, and its IncidentState.
SyncReportSave(w) ==
    /\ worker[w].pc = "save_report"
    /\ \/ /\ save_report_with_incident(
                apply_approval_decision(worker[w].seen, worker[w].row.status))
          /\ projected' = projected \cup {Fact(w, "report")}
          /\ worker' = [worker EXCEPT ![w].pc = "mark"]
          /\ UNCHANGED faults
       \/ /\ Raise(w, "report", "mark")
          /\ UNCHANGED <<incident, report, projected>>
    /\ UNCHANGED <<approvals, executions, now>>

\* The row is saved again only if its projection_pending changed.
MarkProjections(w) ==
    LET row == worker[w].row
        updated == [row EXCEPT !.pending = Unsynced(w)]
    IN  /\ worker[w].pc = "mark"
        /\ IF updated.pending # row.pending
             THEN save_approval_request(worker[w].id, updated)
             ELSE UNCHANGED approvals
        /\ worker' = [worker EXCEPT ![w] = Holding(@, Continuation(@.op), @.op, @.id, updated)]
        /\ UNCHANGED <<executions, incident, report, projected, now, faults>>

\* The process dies: the handler is gone, its committed writes stay.
Crash(w) ==
    /\ ~Idle(w)
    /\ faults > 0
    /\ faults' = faults - 1
    /\ worker' = [worker EXCEPT ![w] = IdleWorker]
    /\ UNCHANGED storeVars

Tick ==
    /\ now < MaxTime
    /\ now' = now + 1
    /\ UNCHANGED <<approvals, executions, incident, report, projected, worker, faults>>

-----------------------------------------------------------------------------

ApprovalInit ==
    /\ approvals = [a \in ApprovalIds |-> AbsentApproval]
    /\ executions = [a \in ApprovalIds |-> AbsentExecution]
    /\ incident = PlainUpdate("diagnosing", "incident_input", FALSE)
    /\ report = NoReport
    /\ projected = {}
    /\ now = 0
    /\ worker = [w \in Workers |-> IdleWorker]
    /\ faults = MaxFaults

\* What a handler does once it has begun.
HandlerStep(w) ==
    \/ CheckRequest(w)
    \/ CommitDecision(w)
    \/ DecisionConflict(w)
    \/ SyncIncidentState(w)
    \/ SyncTrace(w)
    \/ SyncReportRead(w)
    \/ SyncReportSave(w)
    \/ MarkProjections(w)
    \/ SaveWaitingReport(w)

\* A request arrives.
Arrival(w) ==
    \E a \in ApprovalIds :
        \/ CreateRequest(w, a)
        \/ ReuseRequest(w, a)
        \/ ReadRequest(w, a)
        \/ SweepPending(w, a)
        \/ \E decision \in Decisions, actor \in Actors : DecideRequest(w, a, decision, actor)

ApprovalNext ==
    \/ \E w \in Workers : Arrival(w) \/ HandlerStep(w) \/ Crash(w)
    \/ Tick

ApprovalSpec == ApprovalInit /\ [][ApprovalNext]_approvalVars
\* Handlers run to completion unless they crash; a UI keeps polling the requests.
HandlersFair == \A w \in Workers : WF_approvalVars(HandlerStep(w))
ReadersFair == \A a \in ApprovalIds : SF_approvalVars(\E w \in Workers : ReadRequest(w, a))

ApprovalFairSpec == ApprovalSpec /\ HandlersFair /\ ReadersFair

-----------------------------------------------------------------------------
(* Properties *)

\* Every row, projection and handler holds values of its type.
ApprovalTypeOK ==
    /\ StoreTypeOK
    /\ worker \in [Workers -> Worker]
    /\ faults \in 0..MaxFaults

\* Two handlers asking for the same risky action at once end with one pending
\* request: create_request_once is atomic per idempotency key.
OnePendingPerKey ==
    \A a, b \in ApprovalIds :
        /\ approvals[a].status = "pending"
        /\ approvals[b].status = "pending"
        /\ KeyOf[a] = KeyOf[b]
        => a = b

\* A decision is final: whatever stale request object a concurrent handler, a
\* repair or the expiry sweep still holds, nobody changes a decided row's status,
\* decider or creation time.
DecisionFinal ==
    [][\A a \in ApprovalIds :
         approvals[a].status \in Decided =>
            /\ approvals'[a].status = approvals[a].status
            /\ approvals'[a].decidedBy = approvals[a].decidedBy
            /\ approvals'[a].createdAt = approvals[a].createdAt]_approvalVars

ProjectionsDue(status) ==
    CASE status = "absent" -> {}
      [] status = "pending" -> creation_projection_names
      [] OTHER -> decision_projection_names

\* The outbox loses nothing: each projection that the stored row owes has been
\* written, or is still named in the row's durable projection_pending, through
\* failed writes, crashes and concurrent repairs.
OutboxComplete ==
    \A a \in ApprovalIds : \A p \in ProjectionsDue(approvals[a].status) :
        \/ p \in approvals[a].pending
        \/ <<a, approvals[a].status, p>> \in projected

\* A rejected or cancelled approval, and any other hard terminal incident status,
\* is not reopened by late approval or report projections.
HardTerminalHolds ==
    [][incident.status \in HARD_TERMINAL_INCIDENT_STATUSES
        => incident'.status = incident.status]_approvalVars

\* When no write fails and no process dies, every projection_pending marker is
\* cleared after the fact it belongs to is committed.
MarkersSettle ==
    \A a \in ApprovalIds : approvals[a].pending # {} ~> approvals[a].pending = {}

=============================================================================
