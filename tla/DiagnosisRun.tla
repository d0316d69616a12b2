---------------------------- MODULE DiagnosisRun ----------------------------
(***************************************************************************)
(* AIOpsService (app/services/aiops_service.py, aiops_snapshot_service.py):*)
(* diagnosis runs of one incident, the session snapshots they leave in the *)
(* store, the resume of a run after its approval, and the reconciliation   *)
(* of abandoned runs when a process starts.                                *)
(*                                                                         *)
(* Handlers live in processes.  The sets of active sessions and approvals  *)
(* are local to a process; across processes only the store's insert-if-    *)
(* absent and its conditional update of a snapshot count.  Every approval  *)
(* is decided as SafeChangeContract says: once, and for good.              *)
(***************************************************************************)
EXTENDS IncidentLifecycle, FiniteSets

CONSTANTS Processes,       \* server processes
          Handlers,        \* request handlers
          ProcessOf,       \* the process a handler runs in
          Sessions,        \* session_ids of the incident
          Outcomes,        \* report statuses a run that needs no approval ends with
          Stale,           \* aiops_reconciliation_stale_seconds, in clock ticks
          MaxAttempts,     \* bound on resume_attempt
          MaxCrashes,      \* bound on processes that die
          MaxLostWrites    \* bound on snapshot writes that raise

ASSUME DiagnosisAssumption ==
    /\ ProcessOf \in [Handlers -> Processes]
    /\ Outcomes \subseteq REPORT_ONLY_STATUSES \ APPROVAL_LIFECYCLE_STATUSES
    /\ Stale \in Nat
    /\ MaxAttempts \in Nat
    /\ MaxCrashes \in Nat
    /\ MaxLostWrites \in Nat

VARIABLES session,         \* aiops_sessions, by session_id
          incident,        \* incident_states: the row of the incident
          decision,        \* the approval a session's run asked for
          job,             \* what each handler is doing
          phase,           \* what each process is doing
          scan,            \* snapshots a starting process read and found abandoned
          crashes, lost    \* processes that died, writes that raised

storeVars == <<session, incident>>
diagnosisVars == <<session, incident, decision, job, phase, scan, crashes, lost>>

\* pending: pending_approval is set; attempt: resume_attempt; age: ticks since
\* updated_at of a snapshot that is in progress, counted up to Stale.
InProgress == {"running", "resume_running"}
SessionStatuses == {"absent", "running", "waiting_approval", "resume_running",
                    "approval_resumed", "failed"} \cup Outcomes

Session == [status : SessionStatuses, pending : BOOLEAN, attempt : 0..MaxAttempts,
            age : 0..Stale]

Snapshot(status, pending, attempt) ==
    [status |-> status, pending |-> pending, attempt |-> attempt, age |-> 0]

Decisions == {"none", "pending", "approved", "rejected"}

RunPCs == {"create", "graph", "finish"}
ResumePCs == {"claim", "report", "resumed", "complete"}

\* paused: the run's own state holds a pending approval; outcome: the status of its
\* report; attempt: the resume_attempt computed before the claim.
Job == [pc : {"idle", "load"} \cup RunPCs \cup ResumePCs, session : Sessions,
        paused : BOOLEAN, outcome : SessionStatuses, attempt : 0..MaxAttempts]

Up(h) == phase[ProcessOf[h]] = "up"
Idle(h) == job[h].pc = "idle"
IdleJob(s) == [pc |-> "idle", session |-> s, paused |-> FALSE, outcome |-> "absent",
               attempt |-> 0]
Goto(h, pc) == job' = [job EXCEPT ![h].pc = pc]
GoIdle(h) == job' = [job EXCEPT ![h] = IdleJob(job[h].session)]
Untouched == UNCHANGED <<decision, phase, scan, crashes, lost>>

\* A write that raises instead of being stored.
LosesWrite == /\ lost < MaxLostWrites
              /\ lost' = lost + 1
              /\ UNCHANGED <<session, incident, decision, phase, scan, crashes>>

-----------------------------------------------------------------------------
(* Store transactions: the snapshot and its incident projection together *)

incident_status_from_runtime_status(status) ==
    IF status = "running" THEN "diagnosing" ELSE status

build_incident_state_from_state(status) ==
    PlainUpdate(incident_status_from_runtime_status(status), "aiops_state", FALSE)

\* Mutant: the insert replaces an existing snapshot.
always_inserts(s) == TRUE

\* INSERT OR IGNORE
inserts(s) == session[s].status = "absent"

\* The first snapshot.  Its incident state is stored as it is, without a merge.
create_session_snapshot(s, row) ==
    /\ session' = [session EXCEPT ![s] = row]
    /\ incident' = build_incident_state_from_state(row.status)

\* The unconditional upsert.
save_session_snapshot(s, row) ==
    /\ session' = [session EXCEPT ![s] = row]
    /\ incident' = merge_incident_state(incident,
                                        build_incident_state_from_state(row.status))

\* UPDATE ... WHERE session_id = ? AND status IN (expected)
transition_session_snapshot(s, row, expected) ==
    IF session[s].status \in expected
      THEN save_session_snapshot(s, row)
      ELSE UNCHANGED storeVars

-----------------------------------------------------------------------------
(* A diagnosis run *)

\* _claim_diagnosis_session and the first look at the store.
RequestRun(h, s) ==
    /\ Up(h) /\ Idle(h)
    /\ ~\E g \in Handlers : /\ ProcessOf[g] = ProcessOf[h]
                            /\ job[g].session = s
                            /\ job[g].pc \in RunPCs
    /\ session[s].status = "absent"
    /\ job' = [job EXCEPT ![h] = [IdleJob(s) EXCEPT !.pc = "create"]]
    /\ UNCHANGED storeVars /\ Untouched

\* A handler whose insert finds a row reports AIOpsRunConflictError and stops.
CreateSession(h) ==
    LET s == job[h].session
    IN  /\ job[h].pc = "create"
        /\ IF inserts(s)
             THEN create_session_snapshot(s, Snapshot("running", FALSE, 0)) /\ Goto(h, "graph")
             ELSE UNCHANGED storeVars /\ GoIdle(h)
        /\ Untouched

\* Best effort, after every node: the run's own state, whatever the row says by now.
SaveProgress(h) ==
    LET j == job[h]
    IN  /\ j.pc \in {"graph", "finish"}
        /\ save_session_snapshot(j.session,
               Snapshot(IF j.pc = "finish" THEN j.outcome
                        ELSE IF j.paused THEN "waiting_approval" ELSE "running",
                        j.paused, 0))
        /\ UNCHANGED job /\ Untouched

\* A node meets a risky action: the approval is stored and projected.
RaiseApproval(h) ==
    LET s == job[h].session
    IN  /\ job[h].pc = "graph" /\ ~job[h].paused
        /\ decision[s] = "none"
        /\ decision' = [decision EXCEPT ![s] = "pending"]
        /\ incident' = merge_incident_state(incident,
                                            build_incident_state_from_approval("pending"))
        /\ job' = [job EXCEPT ![h].paused = TRUE]
        /\ UNCHANGED <<session, phase, scan, crashes, lost>>

\* The graph ends, paused or not, and its report is stored.
FinishGraph(h) ==
    /\ job[h].pc = "graph"
    /\ \E outcome \in IF job[h].paused THEN {"waiting_approval"} ELSE Outcomes :
          /\ job' = [job EXCEPT ![h].pc = "finish", ![h].outcome = outcome]
          /\ incident' = merge_incident_state(incident,
                 build_incident_state_from_report([status |-> outcome, changed |-> FALSE]))
    /\ UNCHANGED session /\ Untouched

\* The final snapshot is required: a run whose final write raises fails instead.
FinishRun(h) ==
    /\ job[h].pc = "finish"
    /\ save_session_snapshot(job[h].session, Snapshot(job[h].outcome, job[h].paused, 0))
    /\ GoIdle(h)
    /\ Untouched

\* A node or the store raises, or the run is cancelled.  The failed snapshot is best
\* effort: its own write may raise too.
RunFails(h) ==
    /\ job[h].pc \in RunPCs
    /\ GoIdle(h)
    /\ \/ /\ save_session_snapshot(job[h].session, Snapshot("failed", job[h].paused, 0))
          /\ Untouched
       \/ LosesWrite

-----------------------------------------------------------------------------
(* The approval and the resume *)

Decide(s, d) ==
    /\ decision[s] = "pending"
    /\ decision' = [decision EXCEPT ![s] = d]
    /\ incident' = merge_incident_state(incident, build_incident_state_from_approval(d))
    /\ UNCHANGED <<session, job, phase, scan, crashes, lost>>

\* Mutant: any decision resumes the run.
decided(s) == decision[s] # "none"

\* resolve_resume_approval and _resume_after_approval_impl: approved, nothing else.
authorizes_resume(s) == decision[s] = "approved"

\* resolve_resume_approval and resolve_resume_session_id, before the stream opens.
RequestResume(h, s) ==
    /\ Up(h) /\ Idle(h)
    /\ authorizes_resume(s)
    /\ session[s].pending
    /\ session[s].attempt < MaxAttempts
    /\ job' = [job EXCEPT ![h] = [IdleJob(s) EXCEPT !.pc = "load"]]
    /\ UNCHANGED storeVars /\ Untouched

\* _claim_resume_approval: another resume of this process holds the approval.
ResumeInProgress(h) ==
    \E g \in Handlers \ {h} : /\ ProcessOf[g] = ProcessOf[h]
                              /\ job[g].session = job[h].session
                              /\ job[g].pc \in ResumePCs

\* The snapshot is read again; resume_attempt is counted from this copy.
LoadResume(h) ==
    LET row == session[job[h].session]
    IN  /\ job[h].pc = "load"
        /\ IF ResumeInProgress(h) THEN GoIdle(h)
           ELSE /\ row.pending
                /\ row.attempt < MaxAttempts
                /\ job' = [job EXCEPT ![h].pc = "claim", ![h].attempt = row.attempt + 1]
        /\ UNCHANGED storeVars /\ Untouched

claimable == {"waiting_approval", "approval_approved", "failed"}

\* A handler that loses the claim reports AIOpsResumeConflictError and stops.
ClaimResume(h) ==
    LET s == job[h].session
    IN  /\ job[h].pc = "claim"
        /\ transition_session_snapshot(s, Snapshot("resume_running", TRUE, job[h].attempt),
                                       claimable)
        /\ IF session[s].status \in claimable THEN Goto(h, "report") ELSE GoIdle(h)
        /\ Untouched

ResumeReport(h) ==
    /\ job[h].pc = "report"
    /\ Goto(h, "resumed")
    /\ incident' = merge_incident_state(incident,
           build_incident_state_from_report([status |-> "approval_resumed",
                                             changed |-> FALSE]))
    /\ UNCHANGED session /\ Untouched

\* Best effort.
ResumeSnapshot(h) ==
    /\ job[h].pc = "resumed"
    /\ Goto(h, "complete")
    /\ \/ /\ save_session_snapshot(job[h].session,
                                   Snapshot("resume_running", FALSE, job[h].attempt))
          /\ Untouched
       \/ LosesWrite

\* Required: a resume whose final write raises fails instead.
CompleteResume(h) ==
    /\ job[h].pc = "complete"
    /\ save_session_snapshot(job[h].session,
                             Snapshot("approval_resumed", FALSE, job[h].attempt))
    /\ GoIdle(h)
    /\ Untouched

\* Mutant: the failed snapshot gets a status nobody knows.
resume_failed_row_unknown(row) == [row EXCEPT !.status = "resume_failed", !.pending = TRUE]

\* Mutant: the failed snapshot keeps what the resume had cleared.
resume_failed_row_unrestored(row) == [row EXCEPT !.status = "failed", !.age = 0]

resume_failed_row(row) == [row EXCEPT !.status = "failed", !.pending = TRUE, !.age = 0]

\* Mutant: a failed resume is not marked.
mark_resume_forgotten(h) == GoIdle(h) /\ UNCHANGED storeVars /\ Untouched

\* Best effort.  The code reads the snapshot before its conditional update; as one step it leaves
\* out that, in between, the row is closed and claimed by another resume, which the update
\* then fails with the content of the older one.
mark_resume_failed(h) ==
    LET s == job[h].session
    IN  /\ GoIdle(h)
        /\ \/ /\ transition_session_snapshot(s, resume_failed_row(session[s]),
                                             {"resume_running"})
              /\ Untouched
           \/ LosesWrite

\* The checks made again before the claim fail: the snapshot no longer names the
\* approval, or (at any read) the authorization has expired.  The handler that never
\* claimed the snapshot marks it failed all the same.
RejectResume(h) ==
    /\ job[h].pc = "load" /\ ~ResumeInProgress(h)
    /\ mark_resume_failed(h)

\* The report or the store raises, or the stream is cancelled.
ResumeFails(h) ==
    /\ job[h].pc \in {"report", "resumed", "complete"}
    /\ mark_resume_failed(h)

-----------------------------------------------------------------------------
(* Processes and the clock *)

Crash(p) ==
    /\ phase[p] # "down"
    /\ crashes < MaxCrashes
    /\ crashes' = crashes + 1
    /\ phase' = [phase EXCEPT ![p] = "down"]
    /\ scan' = [scan EXCEPT ![p] = {}]
    /\ job' = [h \in Handlers |-> IF ProcessOf[h] = p THEN IdleJob(job[h].session)
                                                     ELSE job[h]]
    /\ UNCHANGED <<session, incident, decision, lost>>

\* reconcile_incomplete_runs lists the snapshots before the process serves requests.
StartProcess(p) ==
    /\ phase[p] = "down"
    /\ phase' = [phase EXCEPT ![p] = "starting"]
    /\ scan' = [scan EXCEPT ![p] = {[session |-> s, row |-> session[s]] :
                    s \in {t \in Sessions : /\ session[t].status \in InProgress
                                            /\ session[t].age >= Stale}}]
    /\ UNCHANGED <<session, incident, decision, job, crashes, lost>>

\* The row read before, closed under the condition that its status is still the same.
ReconcileSession(p) ==
    \E found \in scan[p] :
        LET row == found.row
        IN  /\ scan' = [scan EXCEPT ![p] = @ \ {found}]
            /\ transition_session_snapshot(found.session,
                   [row EXCEPT !.status = "failed", !.age = 0,
                               !.pending = @ \/ row.status = "resume_running"],
                   {row.status})
            /\ UNCHANGED <<decision, job, phase, crashes, lost>>

ServeRequests(p) ==
    /\ phase[p] = "starting" /\ scan[p] = {}
    /\ phase' = [phase EXCEPT ![p] = "up"]
    /\ UNCHANGED <<session, incident, decision, job, scan, crashes, lost>>

Tick ==
    /\ \E s \in Sessions : session[s].status \in InProgress /\ session[s].age < Stale
    /\ session' = [s \in Sessions |->
           IF session[s].status \in InProgress /\ session[s].age < Stale
             THEN [session[s] EXCEPT !.age = @ + 1] ELSE session[s]]
    /\ UNCHANGED <<incident, decision, job, phase, scan, crashes, lost>>

-----------------------------------------------------------------------------
Init ==
    /\ session = [s \in Sessions |-> Snapshot("absent", FALSE, 0)]
    /\ incident = [PlainUpdate("alert_firing", "alertmanager", FALSE)
                      EXCEPT !.startsAt = 1, !.alertStatus = "firing"]
    /\ decision = [s \in Sessions |-> "none"]
    /\ job \in [Handlers -> {IdleJob(s) : s \in Sessions}]
    /\ phase = [p \in Processes |-> "down"]
    /\ scan = [p \in Processes |-> {}]
    /\ crashes = 0 /\ lost = 0

\* What a handler that was not interrupted does next.
Continue(h) ==
    \/ CreateSession(h) \/ FinishGraph(h) \/ FinishRun(h)
    \/ LoadResume(h) \/ RejectResume(h) \/ ClaimResume(h) \/ ResumeReport(h)
    \/ ResumeSnapshot(h) \/ CompleteResume(h)

Boot(p) == StartProcess(p) \/ ReconcileSession(p) \/ ServeRequests(p)

Next ==
    \/ \E h \in Handlers :
          \/ \E s \in Sessions : RequestRun(h, s) \/ RequestResume(h, s)
          \/ SaveProgress(h) \/ RaiseApproval(h) \/ RunFails(h) \/ ResumeFails(h)
          \/ Continue(h)
    \/ \E s \in Sessions, d \in {"approved", "rejected"} : Decide(s, d)
    \/ \E p \in Processes : Crash(p) \/ Boot(p)
    \/ Tick

DiagnosisSpec == Init /\ [][Next]_diagnosisVars

\* A handler goes on until its call ends (the graph's steps are bounded), a process
\* that died is started again, and time passes.
DiagnosisFairSpec ==
    /\ DiagnosisSpec
    /\ \A h \in Handlers : WF_diagnosisVars(Continue(h))
    /\ \A p \in Processes : WF_diagnosisVars(Boot(p))
    /\ WF_diagnosisVars(Tick)

-----------------------------------------------------------------------------
(* Properties *)

\* The type invariant: statuses, counters and handlers' jobs stay in their sets.
DiagnosisTypeOK ==
    /\ session \in [Sessions -> Session]
    /\ incident \in IncidentState
    /\ decision \in [Sessions -> Decisions]
    /\ job \in [Handlers -> Job]
    /\ phase \in [Processes -> {"down", "starting", "up"}]
    /\ scan \in [Processes -> SUBSET [session : Sessions, row : Session]]
    /\ crashes \in 0..MaxCrashes
    /\ lost \in 0..MaxLostWrites

\* Requests for the same session_id that reach several processes start one workflow,
\* also after crashes, reconciliation and failed writes (_claim_diagnosis_session,
\* create_session_snapshot).
OneRunPerSession ==
    \A g, h \in Handlers :
        job[g].pc \in {"graph", "finish"} /\ job[h].pc \in {"graph", "finish"}
            /\ job[g].session = job[h].session => g = h

\* Neither a snapshot nor the incident shows a resume that no approved decision
\* authorizes (_resume_after_approval_impl).
ResumeAuthorized ==
    /\ \A s \in Sessions : session[s].status \in {"resume_running", "approval_resumed"}
                                => decision[s] = "approved"
    /\ incident.status \in {"resume_running", "approval_resumed"}
           => \E s \in Sessions : decision[s] = "approved"

\* A run that waits for its approval, and a resume that failed at any point or was
\* abandoned, still names the approval, so that it can be resumed (again)
\* (_mark_resume_failed, reconcile_incomplete_runs, _validate_resume_state).
ResumeRetryable ==
    \A s \in Sessions :
        /\ session[s].status = "waiting_approval" => session[s].pending
        /\ session[s].status = "failed" /\ session[s].attempt > 0 => session[s].pending

\* As long as no process dies and no write raises, no snapshot stays in progress, whatever
\* runs, resumes and starting processes do to each other's rows.
RunsSettle ==
    \A s \in Sessions : session[s].status \in InProgress
                           ~> \/ session[s].status \notin InProgress
                              \/ crashes + lost > 0

=============================================================================
