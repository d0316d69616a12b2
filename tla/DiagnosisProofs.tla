--------------------------- MODULE DiagnosisProofs ---------------------------
(***************************************************************************)
(* Proofs of the safety properties of diagnosis runs, their snapshots and  *)
(* their resumes, for every set of processes, handlers and sessions, every *)
(* staleness and any number of crashes and lost writes.                    *)
(***************************************************************************)
EXTENDS DiagnosisRun, TLAPS

-----------------------------------------------------------------------------
(* The inductive invariant *)

Running == {"graph", "finish"}
Resuming == {"resume_running", "approval_resumed"}

\* A snapshot, next to the decision on its session's approval.  A run writes attempt 0,
\* so that a running snapshot found abandoned is never a resume.
RowFits(row, d) ==
    /\ row.status \in Resuming => d = "approved"
    /\ row.status = "waiting_approval" => row.pending
    /\ row.status = "failed" /\ row.attempt > 0 => row.pending
    /\ row.status = "running" => row.attempt = 0

\* A handler, next to its session's snapshot and decision.
JobFits(k, row, d) ==
    /\ k.pc \in Running => row.status # "absent"
    /\ k.pc = "finish" => /\ k.outcome \in Outcomes \cup {"waiting_approval"}
                          /\ k.outcome = "waiting_approval" => k.paused
    /\ k.pc \in ResumePCs \cup {"load"} => d = "approved"

\* A snapshot a starting process holds a copy of.
FoundFits(row) ==
    /\ row.status \in InProgress
    /\ row.status = "running" => row.attempt = 0

IncidentFits(state, decisions) ==
    state.status \in Resuming => \E s \in Sessions : decisions[s] = "approved"

StoreFits ==
    /\ session \in [Sessions -> Session]
    /\ incident \in IncidentState
    /\ \A s \in Sessions : RowFits(session[s], decision[s])
    /\ IncidentFits(incident, decision)

JobsFit == \A h \in Handlers :
               JobFits(job[h], session[job[h].session], decision[job[h].session])

ScansFit == \A p \in Processes : \A found \in scan[p] : FoundFits(found.row)

DiagnosisInv ==
    /\ DiagnosisTypeOK
    /\ StoreFits
    /\ JobsFit
    /\ ScansFit
    /\ OneRunPerSession

\* What a step of the store leaves in force: a snapshot never disappears.
NoneRemoved == \A s \in Sessions : session'[s].status = "absent" => session[s].status = "absent"

-----------------------------------------------------------------------------
(* Updates and merges *)

\* No report status is a status of a resume or of an approval that waits.
LEMMA OutcomeStatus ==
    ASSUME NEW status \in Outcomes
    PROVE  /\ status \in IncidentStatuses \ Resuming
           /\ status \notin InProgress \cup {"absent", "waiting_approval"}
BY DiagnosisAssumption
   DEF REPORT_ONLY_STATUSES, APPROVAL_LIFECYCLE_STATUSES, IncidentStatuses, Resuming, InProgress

\* A merge leaves the stored status or the update's.
LEMMA MergeResult ==
    ASSUME NEW existing \in IncidentState, NEW update \in IncidentState
    PROVE  /\ merge_incident_state(existing, update) \in IncidentState
           /\ merge_incident_state(existing, update).status
                 \in {existing.status, update.status}
<1>1. CASE ~is_incident_status_transition_allowed(existing, update)
  BY <1>1 DEF merge_incident_state
<1>2. CASE is_incident_status_transition_allowed(existing, update)
  BY <1>2 DEF merge_incident_state, IncidentState
<1>3. QED
  BY <1>1, <1>2

\* An update that says nothing of a resume fits every decision.
LEMMA MergeFits ==
    ASSUME NEW existing \in IncidentState, NEW update \in IncidentState,
           NEW decisions, IncidentFits(existing, decisions), IncidentFits(update, decisions)
    PROVE  /\ merge_incident_state(existing, update) \in IncidentState
           /\ IncidentFits(merge_incident_state(existing, update), decisions)
BY MergeResult DEF IncidentFits

LEMMA PlainUpdateShape ==
    ASSUME NEW status \in IncidentStatuses, NEW source \in Sources, NEW change \in BOOLEAN
    PROVE  /\ PlainUpdate(status, source, change) \in IncidentState
           /\ PlainUpdate(status, source, change).status = status
BY DEF PlainUpdate, IncidentState

\* The projection of a stored snapshot.
LEMMA SnapshotUpdate ==
    ASSUME NEW row \in Session, row.status # "absent"
    PROVE  LET update == build_incident_state_from_state(row.status)
           IN  /\ update \in IncidentState
               /\ update.status \in Resuming => row.status \in Resuming
<1>1. incident_status_from_runtime_status(row.status) \in IncidentStatuses
  <2>1. row.status \in SessionStatuses
    BY DEF Session
  <2>2. CASE row.status \in Outcomes
    <3>1. row.status \in IncidentStatuses /\ row.status # "running"
      BY <2>2, OutcomeStatus DEF InProgress
    <3>2. QED
      BY <3>1 DEF incident_status_from_runtime_status
  <2>3. CASE row.status \notin Outcomes
    BY <2>1, <2>3
       DEF SessionStatuses, incident_status_from_runtime_status, IncidentStatuses,
           ACTIVE_DIAGNOSIS_STATUSES, REPORT_ONLY_STATUSES
  <2>4. QED
    BY <2>2, <2>3
<1>2. "aiops_state" \in Sources /\ FALSE \in BOOLEAN
  BY DEF Sources
<1>3. PlainUpdate(incident_status_from_runtime_status(row.status), "aiops_state", FALSE).status
          = incident_status_from_runtime_status(row.status)
  BY <1>1, <1>2, PlainUpdateShape
<1>4. incident_status_from_runtime_status(row.status) \in Resuming => row.status \in Resuming
  BY DEF incident_status_from_runtime_status, Resuming
<1>5. PlainUpdate(incident_status_from_runtime_status(row.status), "aiops_state", FALSE)
          \in IncidentState
  BY <1>1, <1>2, PlainUpdateShape
<1>6. QED
  BY <1>3, <1>4, <1>5 DEF build_incident_state_from_state

\* The projection of a report and of an approval.
LEMMA ReportUpdate ==
    ASSUME NEW status \in IncidentStatuses
    PROVE  LET update == build_incident_state_from_report([status |-> status,
                                                           changed |-> FALSE])
           IN  update \in IncidentState /\ update.status = status
<1>1. "diagnosis_report" \in Sources /\ FALSE \in BOOLEAN
  BY DEF Sources
<1>2. QED
  BY <1>1, PlainUpdateShape DEF build_incident_state_from_report

LEMMA ApprovalUpdate ==
    ASSUME NEW d \in {"pending", "approved", "rejected"}
    PROVE  LET update == build_incident_state_from_approval(d)
           IN  update \in IncidentState /\ update.status \notin Resuming
<1>1. "approval" \in Sources /\ FALSE \in BOOLEAN
  BY DEF Sources
<1>2. approval_incident_status(d) \in IncidentStatuses \ Resuming
  BY DEF approval_incident_status, IncidentStatuses, APPROVAL_LIFECYCLE_STATUSES, Resuming
<1>3. QED
  BY <1>1, <1>2, PlainUpdateShape DEF build_incident_state_from_approval

-----------------------------------------------------------------------------
(* Store transactions *)

LEMMA SnapshotType ==
    ASSUME NEW status \in SessionStatuses, NEW pending \in BOOLEAN,
           NEW attempt \in 0..MaxAttempts
    PROVE  /\ Snapshot(status, pending, attempt) \in Session
           /\ Snapshot(status, pending, attempt).status = status
           /\ Snapshot(status, pending, attempt).pending = pending
           /\ Snapshot(status, pending, attempt).attempt = attempt
<1>1. 0 \in 0..Stale
  BY DiagnosisAssumption
<1>2. QED
  BY <1>1 DEF Snapshot, Session

\* A row that fits its decision, written over the stored one.
LEMMA RowStored ==
    ASSUME StoreFits, NEW s \in Sessions, NEW row \in Session, row.status # "absent",
           RowFits(row, decision[s]), session' = [session EXCEPT ![s] = row]
    PROVE  /\ session' \in [Sessions -> Session]
           /\ \A t \in Sessions : RowFits(session'[t], decision[t])
           /\ NoneRemoved
BY DEF StoreFits, NoneRemoved

\* The projection of a row that fits its decision.
LEMMA RowProjected ==
    ASSUME StoreFits, NEW s \in Sessions, NEW row \in Session, row.status # "absent",
           RowFits(row, decision[s])
    PROVE  LET update == build_incident_state_from_state(row.status)
           IN  update \in IncidentState /\ IncidentFits(update, decision)
<1>1. row.status \in Resuming => decision[s] = "approved"
  BY DEF RowFits
<1>2. QED
  BY <1>1, SnapshotUpdate DEF IncidentFits

LEMMA SaveKeeps ==
    ASSUME StoreFits, NEW s \in Sessions, NEW row \in Session, row.status # "absent",
           RowFits(row, decision[s]), save_session_snapshot(s, row), decision' = decision
    PROVE  StoreFits' /\ NoneRemoved
<1>1. /\ session' = [session EXCEPT ![s] = row]
      /\ incident' = merge_incident_state(incident,
                                          build_incident_state_from_state(row.status))
  BY DEF save_session_snapshot
<1>2. /\ build_incident_state_from_state(row.status) \in IncidentState
      /\ IncidentFits(build_incident_state_from_state(row.status), decision)
  BY RowProjected
<1>3. incident' \in IncidentState /\ IncidentFits(incident', decision)
  BY <1>1, <1>2, MergeFits DEF StoreFits
<1>4. QED
  BY <1>1, <1>3, RowStored DEF StoreFits

LEMMA CreateKeeps ==
    ASSUME StoreFits, NEW s \in Sessions, NEW row \in Session, row.status # "absent",
           RowFits(row, decision[s]), create_session_snapshot(s, row), decision' = decision
    PROVE  StoreFits' /\ NoneRemoved
<1>1. /\ session' = [session EXCEPT ![s] = row]
      /\ incident' = build_incident_state_from_state(row.status)
  BY DEF create_session_snapshot
<1>2. incident' \in IncidentState /\ IncidentFits(incident', decision)
  BY <1>1, RowProjected
<1>3. QED
  BY <1>1, <1>2, RowStored DEF StoreFits

LEMMA StoreUnchanged ==
    ASSUME StoreFits, UNCHANGED storeVars, decision' = decision
    PROVE  StoreFits' /\ NoneRemoved
BY DEF StoreFits, NoneRemoved, storeVars

\* The row needs to fit only where the conditional update happens.
LEMMA TransitionKeeps ==
    ASSUME StoreFits, NEW s \in Sessions, NEW row, NEW expected,
           session[s].status \in expected =>
               row \in Session /\ row.status # "absent" /\ RowFits(row, decision[s]),
           transition_session_snapshot(s, row, expected), decision' = decision
    PROVE  StoreFits' /\ NoneRemoved
<1>1. CASE session[s].status \in expected
  BY <1>1, SaveKeeps DEF transition_session_snapshot
<1>2. CASE session[s].status \notin expected
  BY <1>2, StoreUnchanged DEF transition_session_snapshot
<1>3. QED
  BY <1>1, <1>2

\* An incident projection next to unchanged snapshots.
LEMMA ProjectedKeeps ==
    ASSUME StoreFits, NEW update \in IncidentState, IncidentFits(update, decision),
           incident' = merge_incident_state(incident, update), session' = session,
           decision' = decision
    PROVE  StoreFits' /\ NoneRemoved
<1>1. incident' \in IncidentState /\ IncidentFits(incident', decision)
  BY MergeFits DEF StoreFits
<1>2. QED
  BY <1>1 DEF StoreFits, NoneRemoved

-----------------------------------------------------------------------------
(* Steps of one handler *)

\* The handler's own record, with what it may claim after the step: a handler runs a
\* session's workflow only if it did before, or if nobody had started one.
LEMMA HandlerStep ==
    ASSUME DiagnosisInv, NEW h \in Handlers, NEW k \in Job,
           job' = [job EXCEPT ![h] = k],
           StoreFits', NoneRemoved,
           JobFits(k, session'[k.session], decision[k.session]),
           k.pc \in Running => \/ job[h].pc \in Running /\ job[h].session = k.session
                               \/ session[k.session].status = "absent",
           UNCHANGED <<decision, phase, scan, crashes>>, lost' \in 0..MaxLostWrites
    PROVE  DiagnosisInv'
<1>1. job \in [Handlers -> Job]
  BY DEF DiagnosisInv, DiagnosisTypeOK
<1>2. job' \in [Handlers -> Job] /\ job'[h] = k
  BY <1>1
<1>3. \A g \in Handlers : g # h => job'[g] = job[g]
  BY <1>1
<1>4. DiagnosisTypeOK'
  BY <1>2 DEF DiagnosisInv, DiagnosisTypeOK, StoreFits
<1>5. JobsFit'
  <2> SUFFICES ASSUME NEW g \in Handlers
               PROVE  JobFits(job'[g], session'[job'[g].session], decision'[job'[g].session])
    BY DEF JobsFit
  <2>1. CASE g = h
    BY <2>1, <1>2
  <2>2. CASE g # h
    <3>1. JobFits(job[g], session[job[g].session], decision[job[g].session])
      BY DEF DiagnosisInv, JobsFit
    <3>2. job[g].session \in Sessions
      BY <1>1 DEF Job
    <3>3. QED
      BY <2>2, <1>3, <3>1, <3>2 DEF JobFits, NoneRemoved
  <2>3. QED
    BY <2>1, <2>2
<1>6. ScansFit'
  BY DEF DiagnosisInv, ScansFit
<1>7. OneRunPerSession'
  <2>1. ASSUME NEW g \in Handlers, g # h, job[g].pc \in Running, k.pc \in Running,
               job[g].session = k.session
        PROVE  FALSE
    <3>1. JobFits(job[g], session[job[g].session], decision[job[g].session])
      BY DEF DiagnosisInv, JobsFit
    <3>2. session[k.session].status # "absent"
      BY <2>1, <3>1 DEF JobFits
    <3>3. job[h].pc \in Running /\ job[h].session = k.session
      BY <2>1, <3>2
    <3>4. QED
      BY <2>1, <3>3 DEF DiagnosisInv, OneRunPerSession, Running
  <2>2. SUFFICES ASSUME NEW f \in Handlers, NEW g \in Handlers,
                        job'[f].pc \in Running, job'[g].pc \in Running,
                        job'[f].session = job'[g].session, f # g
                 PROVE  FALSE
    BY DEF OneRunPerSession, Running
  <2>3. CASE f = h
    BY <2>1, <2>2, <2>3, <1>2, <1>3
  <2>4. CASE g = h
    BY <2>1, <2>2, <2>4, <1>2, <1>3
  <2>5. CASE f # h /\ g # h
    BY <2>2, <2>5, <1>3 DEF DiagnosisInv, OneRunPerSession, Running
  <2>6. QED
    BY <2>3, <2>4, <2>5
<1>8. QED
  BY <1>4, <1>5, <1>6, <1>7 DEF DiagnosisInv

\* What the invariant says of a handler's record.
LEMMA HandlerFacts ==
    ASSUME DiagnosisInv, NEW h \in Handlers
    PROVE  /\ job[h] \in Job /\ job[h].session \in Sessions
           /\ job[h].paused \in BOOLEAN /\ job[h].attempt \in 0..MaxAttempts
           /\ JobFits(job[h], session[job[h].session], decision[job[h].session])
           /\ session[job[h].session] \in Session
           /\ RowFits(session[job[h].session], decision[job[h].session])
           /\ lost \in 0..MaxLostWrites
           /\ StoreFits
<1>1. job[h] \in Job
  BY DEF DiagnosisInv, DiagnosisTypeOK
<1>2. job[h].session \in Sessions /\ job[h].paused \in BOOLEAN /\ job[h].attempt \in 0..MaxAttempts
  BY <1>1 DEF Job
<1>3. QED
  BY <1>1, <1>2 DEF DiagnosisInv, DiagnosisTypeOK, JobsFit, StoreFits

LEMMA IdleJobShape ==
    ASSUME NEW s \in Sessions
    PROVE  /\ IdleJob(s) \in Job
           /\ IdleJob(s).pc = "idle" /\ IdleJob(s).session = s
           /\ \A row, d : JobFits(IdleJob(s), row, d)
<1>1. 0 \in 0..MaxAttempts
  BY DiagnosisAssumption
<1>2. IdleJob(s) \in Job /\ IdleJob(s).pc = "idle" /\ IdleJob(s).session = s
  BY <1>1 DEF IdleJob, Job, SessionStatuses
<1>3. QED
  BY <1>2 DEF JobFits, Running, ResumePCs

\* The end of a call, whatever it left in the store.
LEMMA CallEnds ==
    ASSUME DiagnosisInv, NEW h \in Handlers, GoIdle(h), StoreFits', NoneRemoved,
           UNCHANGED <<decision, phase, scan, crashes>>, lost' \in 0..MaxLostWrites
    PROVE  DiagnosisInv'
<1> DEFINE k == IdleJob(job[h].session)
<1>1. job[h].session \in Sessions
  BY HandlerFacts
<1>2. k \in Job /\ k.pc = "idle" /\ JobFits(k, session'[k.session], decision[k.session])
  BY <1>1, IdleJobShape
<1>3. job' = [job EXCEPT ![h] = k]
  BY DEF GoIdle
<1>4. k.pc \notin Running
  BY <1>2 DEF Running
<1> HIDE DEF k
<1>5. QED
  BY <1>2, <1>3, <1>4, HandlerStep

\* A handler that goes on within its call.
LEMMA CallGoesOn ==
    ASSUME DiagnosisInv, NEW h \in Handlers,
           NEW pc \in {"graph"} \cup ResumePCs, Goto(h, pc), StoreFits', NoneRemoved,
           pc = "graph" => /\ session[job[h].session].status = "absent"
                           /\ session'[job[h].session].status # "absent",
           pc # "graph" => decision[job[h].session] = "approved",
           UNCHANGED <<decision, phase, scan, crashes>>, lost' \in 0..MaxLostWrites
    PROVE  DiagnosisInv'
<1> DEFINE k == [job[h] EXCEPT !.pc = pc]
<1>1. job[h] \in Job
  BY HandlerFacts
<1>2. k \in Job /\ k.pc = pc /\ k.session = job[h].session
  BY <1>1 DEF Job, RunPCs
<1>3. job' = [job EXCEPT ![h] = k]
  BY DEF Goto
<1> HIDE DEF k
<1>4. JobFits(k, session'[k.session], decision[k.session])
  BY <1>2 DEF JobFits, Running, ResumePCs
<1>5. k.pc \in Running => session[k.session].status = "absent"
  BY <1>2 DEF Running, ResumePCs
<1>6. QED
  BY <1>2, <1>3, <1>4, <1>5, HandlerStep

\* A write that raises.
LEMMA WriteLost ==
    ASSUME DiagnosisInv, LosesWrite
    PROVE  /\ StoreFits' /\ NoneRemoved
           /\ UNCHANGED <<decision, phase, scan, crashes>> /\ lost' \in 0..MaxLostWrites
<1>1. lost' \in 0..MaxLostWrites
  BY DiagnosisAssumption DEF LosesWrite, DiagnosisInv, DiagnosisTypeOK
<1>2. QED
  BY <1>1, StoreUnchanged DEF LosesWrite, DiagnosisInv, storeVars

-----------------------------------------------------------------------------
(* A diagnosis run *)

LEMMA RequestRunKeeps ==
    ASSUME DiagnosisInv, NEW h \in Handlers, NEW s \in Sessions, RequestRun(h, s)
    PROVE  DiagnosisInv'
<1> DEFINE k == [IdleJob(s) EXCEPT !.pc = "create"]
<1>1. k \in Job /\ k.pc = "create"
  BY IdleJobShape DEF Job, RunPCs
<1>2. job' = [job EXCEPT ![h] = k]
  BY DEF RequestRun
<1> HIDE DEF k
<1>3. StoreFits' /\ NoneRemoved
  BY StoreUnchanged DEF RequestRun, Untouched, DiagnosisInv
<1>4. k.pc \notin Running /\ JobFits(k, session'[k.session], decision[k.session])
  BY <1>1 DEF JobFits, Running, ResumePCs
<1>5. lost \in 0..MaxLostWrites
  BY HandlerFacts
<1>6. QED
  BY <1>1, <1>2, <1>3, <1>4, <1>5, HandlerStep DEF RequestRun, Untouched

LEMMA CreateSessionKeeps ==
    ASSUME DiagnosisInv, NEW h \in Handlers, CreateSession(h)
    PROVE  DiagnosisInv'
<1> DEFINE s == job[h].session
           row == Snapshot("running", FALSE, 0)
<1>1. s \in Sessions /\ lost \in 0..MaxLostWrites /\ StoreFits
  BY HandlerFacts
<1>2. UNCHANGED <<decision, phase, scan, crashes>> /\ lost' \in 0..MaxLostWrites
  BY <1>1 DEF CreateSession, Untouched
<1>3. CASE inserts(s)
  <2>1. row \in Session /\ row.status = "running" /\ row.attempt = 0
    <3>1. "running" \in SessionStatuses /\ FALSE \in BOOLEAN /\ 0 \in 0..MaxAttempts
      BY DiagnosisAssumption DEF SessionStatuses
    <3>2. QED
      BY <3>1, SnapshotType
  <2>2. create_session_snapshot(s, row) /\ Goto(h, "graph")
    BY <1>3 DEF CreateSession
  <2>3. session[s].status = "absent"
    BY <1>3 DEF inserts
  <2> HIDE DEF row
  <2>4. RowFits(row, decision[s]) /\ row.status # "absent"
    BY <2>1 DEF RowFits, Resuming
  <2>5. StoreFits' /\ NoneRemoved
    BY <1>1, <1>2, <2>1, <2>2, <2>4, CreateKeeps
  <2>6. session'[s].status # "absent"
    BY <1>1, <2>2, <2>4 DEF create_session_snapshot, StoreFits
  <2>7. QED
    BY <1>2, <2>2, <2>3, <2>5, <2>6, CallGoesOn
<1>4. CASE ~inserts(s)
  <2>1. UNCHANGED storeVars /\ GoIdle(h)
    BY <1>4 DEF CreateSession
  <2>2. QED
    BY <1>1, <1>2, <2>1, StoreUnchanged, CallEnds
<1>5. QED
  BY <1>3, <1>4

\* A snapshot of a run that has no resume status.
LEMMA RunSnapshot ==
    ASSUME NEW status \in SessionStatuses \ (Resuming \cup {"absent"}), NEW pending \in BOOLEAN,
           status = "waiting_approval" => pending, NEW d
    PROVE  LET row == Snapshot(status, pending, 0)
           IN  row \in Session /\ row.status # "absent" /\ RowFits(row, d)
<1> DEFINE row == Snapshot(status, pending, 0)
<1>1. 0 \in 0..MaxAttempts
  BY DiagnosisAssumption
<1>2. row \in Session /\ row.status = status /\ row.pending = pending /\ row.attempt = 0
  BY <1>1, SnapshotType
<1> HIDE DEF row
<1>3. row \in Session /\ row.status # "absent" /\ RowFits(row, d)
  BY <1>2 DEF RowFits
<1>4. QED
  BY <1>3 DEF row

\* The outcome a run that has ended holds.
LEMMA OutcomeInHand ==
    ASSUME DiagnosisInv, NEW h \in Handlers, job[h].pc = "finish"
    PROVE  /\ job[h].outcome \in SessionStatuses \ (Resuming \cup {"absent"})
           /\ job[h].outcome = "waiting_approval" => job[h].paused
<1>1. /\ job[h].outcome \in Outcomes \cup {"waiting_approval"}
      /\ job[h].outcome = "waiting_approval" => job[h].paused
  BY HandlerFacts DEF JobFits
<1>2. QED
  BY <1>1, OutcomeStatus DEF SessionStatuses, Resuming

LEMMA SaveProgressKeeps ==
    ASSUME DiagnosisInv, NEW h \in Handlers, SaveProgress(h)
    PROVE  DiagnosisInv'
<1> DEFINE j == job[h]
           status == IF j.pc = "finish" THEN j.outcome
                     ELSE IF j.paused THEN "waiting_approval" ELSE "running"
           row == Snapshot(status, j.paused, 0)
<1>1. /\ j \in Job /\ j.session \in Sessions /\ j.paused \in BOOLEAN
      /\ JobFits(j, session[j.session], decision[j.session])
      /\ lost \in 0..MaxLostWrites /\ StoreFits
  BY HandlerFacts
<1>2. j.pc \in Running /\ save_session_snapshot(j.session, row) /\ UNCHANGED job /\ Untouched
  BY DEF SaveProgress, Running
<1>3. status \in SessionStatuses \ (Resuming \cup {"absent"})
  <2>1. CASE j.pc = "finish"
    BY <2>1, OutcomeInHand
  <2>2. CASE j.pc # "finish"
    BY <2>2 DEF SessionStatuses, Resuming
  <2>3. QED
    BY <2>1, <2>2
<1>4. status = "waiting_approval" => j.paused
  <2>1. CASE j.pc = "finish"
    BY <2>1, OutcomeInHand
  <2>2. CASE j.pc # "finish"
    BY <2>2
  <2>3. QED
    BY <2>1, <2>2
<1> HIDE DEF status
<1>5. row \in Session /\ row.status # "absent" /\ RowFits(row, decision[j.session])
  BY <1>1, <1>3, <1>4, RunSnapshot
<1> HIDE DEF row
<1>6. StoreFits' /\ NoneRemoved
  BY <1>1, <1>2, <1>5, SaveKeeps DEF Untouched
<1>7. session'[j.session].status # "absent"
  BY <1>1, <1>2, <1>6 DEF NoneRemoved, JobFits
<1>8. JobFits(j, session'[j.session], decision[j.session])
  BY <1>1, <1>7 DEF JobFits
<1>9. job' = [job EXCEPT ![h] = j]
  BY <1>2 DEF DiagnosisInv, DiagnosisTypeOK
<1>10. QED
  BY <1>1, <1>2, <1>6, <1>8, <1>9, HandlerStep DEF Untouched

LEMMA FinishGraphKeeps ==
    ASSUME DiagnosisInv, NEW h \in Handlers, FinishGraph(h)
    PROVE  DiagnosisInv'
<1>1. PICK outcome \in IF job[h].paused THEN {"waiting_approval"} ELSE Outcomes :
          /\ job' = [job EXCEPT ![h].pc = "finish", ![h].outcome = outcome]
          /\ incident' = merge_incident_state(incident,
                 build_incident_state_from_report([status |-> outcome, changed |-> FALSE]))
  BY DEF FinishGraph
<1> DEFINE k == [job[h] EXCEPT !.pc = "finish", !.outcome = outcome]
<1>2. /\ job[h] \in Job /\ job[h].paused \in BOOLEAN /\ job[h].session \in Sessions
      /\ JobFits(job[h], session[job[h].session], decision[job[h].session])
      /\ lost \in 0..MaxLostWrites /\ StoreFits
  BY HandlerFacts
<1>3. /\ outcome \in Outcomes \cup {"waiting_approval"}
      /\ outcome = "waiting_approval" => job[h].paused
  <2>1. CASE job[h].paused
    BY <1>1, <2>1
  <2>2. CASE ~job[h].paused
    BY <1>1, <2>2, OutcomeStatus
  <2>3. QED
    BY <2>1, <2>2
<1>4. outcome \in IncidentStatuses \ Resuming
  BY <1>3, OutcomeStatus DEF IncidentStatuses, APPROVAL_LIFECYCLE_STATUSES, Resuming
<1>5. /\ k \in Job /\ k.pc = "finish" /\ k.outcome = outcome
      /\ k.session = job[h].session /\ k.paused = job[h].paused
  BY <1>2, <1>3 DEF Job, RunPCs, SessionStatuses
<1>6. job' = [job EXCEPT ![h] = k]
  BY <1>1, <1>2 DEF DiagnosisInv, DiagnosisTypeOK
<1> HIDE DEF k
<1>7. job[h].pc = "graph" /\ UNCHANGED session /\ Untouched
  BY DEF FinishGraph
<1>8. StoreFits' /\ NoneRemoved
  <2> DEFINE update == build_incident_state_from_report([status |-> outcome,
                                                         changed |-> FALSE])
  <2>1. update \in IncidentState /\ IncidentFits(update, decision)
    BY <1>4, ReportUpdate DEF IncidentFits
  <2> HIDE DEF update
  <2>2. incident' = merge_incident_state(incident, update)
    BY <1>1 DEF update
  <2>3. QED
    BY <1>2, <1>7, <2>1, <2>2, ProjectedKeeps DEF Untouched
<1>9. JobFits(k, session'[k.session], decision[k.session])
  BY <1>2, <1>3, <1>5, <1>7 DEF JobFits, Running, ResumePCs
<1>10. job[h].pc \in Running
  BY <1>7 DEF Running
<1>11. QED
  BY <1>2, <1>5, <1>6, <1>7, <1>8, <1>9, <1>10, HandlerStep DEF Untouched

LEMMA FinishRunKeeps ==
    ASSUME DiagnosisInv, NEW h \in Handlers, FinishRun(h)
    PROVE  DiagnosisInv'
<1> DEFINE row == Snapshot(job[h].outcome, job[h].paused, 0)
<1>1. job[h].session \in Sessions /\ job[h].paused \in BOOLEAN /\ lost \in 0..MaxLostWrites
      /\ StoreFits
  BY HandlerFacts
<1>2. job[h].pc = "finish" /\ save_session_snapshot(job[h].session, row) /\ GoIdle(h) /\ Untouched
  BY DEF FinishRun
<1>3. row \in Session /\ row.status # "absent" /\ RowFits(row, decision[job[h].session])
  BY <1>1, <1>2, OutcomeInHand, RunSnapshot
<1> HIDE DEF row
<1>4. StoreFits' /\ NoneRemoved
  BY <1>1, <1>2, <1>3, SaveKeeps DEF Untouched
<1>5. QED
  BY <1>1, <1>2, <1>4, CallEnds DEF Untouched

LEMMA RunFailsKeeps ==
    ASSUME DiagnosisInv, NEW h \in Handlers, RunFails(h)
    PROVE  DiagnosisInv'
<1> DEFINE row == Snapshot("failed", job[h].paused, 0)
<1>1. job[h].session \in Sessions /\ job[h].paused \in BOOLEAN /\ lost \in 0..MaxLostWrites
      /\ StoreFits
  BY HandlerFacts
<1>2. CASE save_session_snapshot(job[h].session, row) /\ Untouched
  <2>1. "failed" \in SessionStatuses \ (Resuming \cup {"absent"})
    BY DEF SessionStatuses, Resuming
  <2>2. row \in Session /\ row.status # "absent" /\ RowFits(row, decision[job[h].session])
    BY <1>1, <2>1, RunSnapshot
  <2> HIDE DEF row
  <2>3. StoreFits' /\ NoneRemoved
    BY <1>1, <1>2, <2>2, SaveKeeps DEF Untouched
  <2>4. QED
    BY <1>1, <1>2, <2>3, CallEnds DEF Untouched, RunFails
<1>3. CASE LosesWrite
  BY <1>3, WriteLost, CallEnds DEF RunFails
<1>4. QED
  BY <1>2, <1>3 DEF RunFails

\* A decision that changes from none, or from pending: nothing that was authorized is
\* authorized no longer.
LEMMA DecisionMoves ==
    ASSUME DiagnosisInv, NEW s \in Sessions, NEW d \in Decisions \ {"none"},
           decision[s] # "approved", decision' = [decision EXCEPT ![s] = d],
           incident' = merge_incident_state(incident, build_incident_state_from_approval(d)),
           UNCHANGED session
    PROVE  /\ StoreFits'
           /\ \A t \in Sessions : decision[t] = "approved" => decision'[t] = "approved"
           /\ decision' \in [Sessions -> Decisions]
<1>1. decision \in [Sessions -> Decisions] /\ StoreFits
  BY DEF DiagnosisInv, DiagnosisTypeOK
<1>2. /\ \A t \in Sessions : decision[t] = "approved" => decision'[t] = "approved"
      /\ decision' \in [Sessions -> Decisions]
  BY <1>1
<1>3. \A t \in Sessions : RowFits(session[t], decision'[t])
  BY <1>1, <1>2 DEF StoreFits, RowFits
<1>4. incident' \in IncidentState /\ IncidentFits(incident', decision')
  <2> DEFINE update == build_incident_state_from_approval(d)
  <2>1. update \in IncidentState /\ update.status \notin Resuming
    BY ApprovalUpdate DEF Decisions
  <2> HIDE DEF update
  <2>2. incident' = merge_incident_state(incident, update)
    BY DEF update
  <2>3. IncidentFits(update, decision') /\ IncidentFits(incident, decision')
    BY <1>1, <1>2, <2>1 DEF IncidentFits, StoreFits
  <2>4. QED
    BY <1>1, <2>1, <2>2, <2>3, MergeFits DEF StoreFits
<1>5. QED
  BY <1>1, <1>2, <1>3, <1>4 DEF StoreFits

LEMMA RaiseApprovalKeeps ==
    ASSUME DiagnosisInv, NEW h \in Handlers, RaiseApproval(h)
    PROVE  DiagnosisInv'
<1> DEFINE s == job[h].session
<1>1. s \in Sessions /\ job[h] \in Job
  BY HandlerFacts
<1>2. /\ decision[s] = "none" /\ job[h].pc = "graph"
      /\ decision' = [decision EXCEPT ![s] = "pending"]
      /\ incident' = merge_incident_state(incident,
                                          build_incident_state_from_approval("pending"))
      /\ job' = [job EXCEPT ![h].paused = TRUE]
      /\ UNCHANGED <<session, phase, scan, crashes, lost>>
  BY DEF RaiseApproval
<1>3. /\ StoreFits'
      /\ \A t \in Sessions : decision[t] = "approved" => decision'[t] = "approved"
      /\ decision' \in [Sessions -> Decisions]
  BY <1>1, <1>2, DecisionMoves DEF Decisions
<1>4. /\ job' \in [Handlers -> Job]
      /\ job'[h].pc = "graph" /\ job'[h].session = s
      /\ \A g \in Handlers : g # h => job'[g] = job[g]
  BY <1>1, <1>2 DEF DiagnosisInv, DiagnosisTypeOK, Job
<1>5. \A g \in Handlers : job'[g].pc = job[g].pc /\ job'[g].session = job[g].session
  BY <1>2, <1>4
<1>6. JobsFit'
  <2> SUFFICES ASSUME NEW g \in Handlers
               PROVE  JobFits(job'[g], session'[job'[g].session], decision'[job'[g].session])
    BY DEF JobsFit
  <2>1. JobFits(job[g], session[job[g].session], decision[job[g].session])
    BY HandlerFacts
  <2>2. job[g].session \in Sessions
    BY HandlerFacts
  <2>3. CASE g = h
    BY <2>1, <2>3, <1>2, <1>4 DEF JobFits, Running, ResumePCs
  <2>4. CASE g # h
    BY <2>1, <2>2, <2>4, <1>2, <1>3, <1>4 DEF JobFits
  <2>5. QED
    BY <2>3, <2>4
<1>7. OneRunPerSession'
  BY <1>5 DEF DiagnosisInv, OneRunPerSession
<1>8. ScansFit' /\ DiagnosisTypeOK'
  BY <1>2, <1>3, <1>4 DEF DiagnosisInv, DiagnosisTypeOK, ScansFit, StoreFits
<1>9. QED
  BY <1>3, <1>6, <1>7, <1>8 DEF DiagnosisInv

LEMMA DecideKeeps ==
    ASSUME DiagnosisInv, NEW s \in Sessions, NEW d \in {"approved", "rejected"}, Decide(s, d)
    PROVE  DiagnosisInv'
<1>1. /\ decision[s] = "pending" /\ decision' = [decision EXCEPT ![s] = d]
      /\ incident' = merge_incident_state(incident, build_incident_state_from_approval(d))
      /\ UNCHANGED <<session, job, phase, scan, crashes, lost>>
  BY DEF Decide
<1>2. /\ StoreFits'
      /\ \A t \in Sessions : decision[t] = "approved" => decision'[t] = "approved"
      /\ decision' \in [Sessions -> Decisions]
  BY <1>1, DecisionMoves DEF Decisions
<1>3. JobsFit'
  <2> SUFFICES ASSUME NEW g \in Handlers
               PROVE  JobFits(job'[g], session'[job'[g].session], decision'[job'[g].session])
    BY DEF JobsFit
  <2>1. /\ JobFits(job[g], session[job[g].session], decision[job[g].session])
        /\ job[g].session \in Sessions
    BY HandlerFacts
  <2>2. QED
    BY <2>1, <1>1, <1>2 DEF JobFits
<1>4. OneRunPerSession' /\ ScansFit' /\ DiagnosisTypeOK'
  BY <1>1, <1>2
     DEF DiagnosisInv, OneRunPerSession, ScansFit, DiagnosisTypeOK, StoreFits
<1>5. QED
  BY <1>2, <1>3, <1>4 DEF DiagnosisInv

-----------------------------------------------------------------------------
(* The resume *)

LEMMA RequestResumeKeeps ==
    ASSUME DiagnosisInv, NEW h \in Handlers, NEW s \in Sessions, RequestResume(h, s)
    PROVE  DiagnosisInv'
<1> DEFINE k == [IdleJob(s) EXCEPT !.pc = "load"]
<1>1. k \in Job /\ k.pc = "load" /\ k.session = s
  BY IdleJobShape DEF Job
<1>2. job' = [job EXCEPT ![h] = k] /\ decision[s] = "approved"
  BY DEF RequestResume, authorizes_resume
<1> HIDE DEF k
<1>3. StoreFits' /\ NoneRemoved
  BY StoreUnchanged DEF RequestResume, Untouched, DiagnosisInv
<1>4. k.pc \notin Running /\ JobFits(k, session'[k.session], decision[k.session])
  BY <1>1, <1>2 DEF JobFits, Running, ResumePCs
<1>5. lost \in 0..MaxLostWrites
  BY HandlerFacts
<1>6. QED
  BY <1>1, <1>2, <1>3, <1>4, <1>5, HandlerStep DEF RequestResume, Untouched

\* A handler inside a resume holds an approved decision.
LEMMA ResumeHeld ==
    ASSUME DiagnosisInv, NEW h \in Handlers, job[h].pc \in ResumePCs \cup {"load"}
    PROVE  decision[job[h].session] = "approved"
BY HandlerFacts DEF JobFits

LEMMA LoadResumeKeeps ==
    ASSUME DiagnosisInv, NEW h \in Handlers, LoadResume(h)
    PROVE  DiagnosisInv'
<1> DEFINE row == session[job[h].session]
           k == [job[h] EXCEPT !.pc = "claim", !.attempt = row.attempt + 1]
<1>1. /\ job[h] \in Job /\ job[h].session \in Sessions /\ row \in Session
      /\ lost \in 0..MaxLostWrites /\ StoreFits
  BY HandlerFacts
<1>2. job[h].pc = "load" /\ UNCHANGED storeVars /\ Untouched
  BY DEF LoadResume
<1>3. StoreFits' /\ NoneRemoved
  BY <1>1, <1>2, StoreUnchanged DEF Untouched
<1>4. CASE ResumeInProgress(h)
  <2>1. GoIdle(h)
    BY <1>4 DEF LoadResume
  <2>2. QED
    BY <1>1, <1>2, <1>3, <2>1, CallEnds DEF Untouched
<1>5. CASE ~ResumeInProgress(h)
  <2>1. /\ row.attempt < MaxAttempts
        /\ job' = [job EXCEPT ![h].pc = "claim", ![h].attempt = row.attempt + 1]
    BY <1>5 DEF LoadResume
  <2>2. row.attempt + 1 \in 0..MaxAttempts
    <3>1. row.attempt \in 0..MaxAttempts
      BY <1>1 DEF Session
    <3>2. QED
      BY <2>1, <3>1, DiagnosisAssumption
  <2>3. k \in Job /\ k.pc = "claim" /\ k.session = job[h].session
    BY <1>1, <2>2 DEF Job, ResumePCs
  <2>4. job' = [job EXCEPT ![h] = k]
    BY <1>1, <2>1 DEF DiagnosisInv, DiagnosisTypeOK
  <2>5. decision[job[h].session] = "approved"
    BY <1>2, ResumeHeld
  <2> HIDE DEF k
  <2>6. k.pc \notin Running /\ JobFits(k, session'[k.session], decision[k.session])
    BY <2>3, <2>5 DEF JobFits, Running, ResumePCs
  <2>7. QED
    BY <1>1, <1>2, <1>3, <2>3, <2>4, <2>6, HandlerStep DEF Untouched
<1>6. QED
  BY <1>4, <1>5

\* A snapshot of a resume that an approved decision authorizes.
LEMMA ResumedSnapshot ==
    ASSUME NEW status \in Resuming, NEW pending \in BOOLEAN, NEW attempt \in 0..MaxAttempts
    PROVE  LET row == Snapshot(status, pending, attempt)
           IN  row \in Session /\ row.status # "absent" /\ RowFits(row, "approved")
<1> DEFINE row == Snapshot(status, pending, attempt)
<1>1. row \in Session /\ row.status = status
  BY SnapshotType DEF Resuming, SessionStatuses
<1> HIDE DEF row
<1>2. row \in Session /\ row.status # "absent" /\ RowFits(row, "approved")
  BY <1>1 DEF RowFits, Resuming
<1>3. QED
  BY <1>2 DEF row

LEMMA ClaimResumeKeeps ==
    ASSUME DiagnosisInv, NEW h \in Handlers, ClaimResume(h)
    PROVE  DiagnosisInv'
<1> DEFINE s == job[h].session
           row == Snapshot("resume_running", TRUE, job[h].attempt)
<1>1. s \in Sessions /\ job[h].attempt \in 0..MaxAttempts /\ lost \in 0..MaxLostWrites
      /\ StoreFits
  BY HandlerFacts
<1>2. /\ job[h].pc = "claim" /\ transition_session_snapshot(s, row, claimable) /\ Untouched
      /\ IF session[s].status \in claimable THEN Goto(h, "report") ELSE GoIdle(h)
  BY DEF ClaimResume
<1>3. decision[s] = "approved"
  BY <1>2, ResumeHeld DEF ResumePCs
<1>4. row \in Session /\ row.status # "absent" /\ RowFits(row, decision[s])
  BY <1>1, <1>3, ResumedSnapshot DEF Resuming
<1> HIDE DEF row
<1>5. StoreFits' /\ NoneRemoved
  BY <1>1, <1>2, <1>4, TransitionKeeps DEF Untouched
<1>6. CASE session[s].status \in claimable
  BY <1>1, <1>2, <1>3, <1>5, <1>6, CallGoesOn DEF Untouched, ResumePCs
<1>7. CASE session[s].status \notin claimable
  BY <1>1, <1>2, <1>5, <1>7, CallEnds DEF Untouched
<1>8. QED
  BY <1>6, <1>7

LEMMA ResumeReportKeeps ==
    ASSUME DiagnosisInv, NEW h \in Handlers, ResumeReport(h)
    PROVE  DiagnosisInv'
<1> DEFINE update == build_incident_state_from_report([status |-> "approval_resumed",
                                                       changed |-> FALSE])
<1>1. job[h].session \in Sessions /\ lost \in 0..MaxLostWrites /\ StoreFits
  BY HandlerFacts
<1>2. /\ job[h].pc = "report" /\ Goto(h, "resumed")
      /\ incident' = merge_incident_state(incident, update)
      /\ UNCHANGED session /\ Untouched
  BY DEF ResumeReport
<1>3. decision[job[h].session] = "approved"
  BY <1>2, ResumeHeld DEF ResumePCs
<1>4. update \in IncidentState
  BY ReportUpdate DEF IncidentStatuses, APPROVAL_LIFECYCLE_STATUSES
<1> HIDE DEF update
<1>5. IncidentFits(update, decision)
  BY <1>1, <1>3 DEF IncidentFits
<1>6. StoreFits' /\ NoneRemoved
  BY <1>1, <1>2, <1>4, <1>5, ProjectedKeeps DEF Untouched
<1>7. QED
  BY <1>1, <1>2, <1>3, <1>6, CallGoesOn DEF Untouched, ResumePCs

LEMMA ResumeSnapshotKeeps ==
    ASSUME DiagnosisInv, NEW h \in Handlers, ResumeSnapshot(h)
    PROVE  DiagnosisInv'
<1> DEFINE row == Snapshot("resume_running", FALSE, job[h].attempt)
<1>1. job[h].session \in Sessions /\ job[h].attempt \in 0..MaxAttempts
      /\ lost \in 0..MaxLostWrites /\ StoreFits
  BY HandlerFacts
<1>2. job[h].pc = "resumed" /\ Goto(h, "complete")
  BY DEF ResumeSnapshot
<1>3. decision[job[h].session] = "approved"
  BY <1>2, ResumeHeld DEF ResumePCs
<1>4. CASE save_session_snapshot(job[h].session, row) /\ Untouched
  <2>1. row \in Session /\ row.status # "absent" /\ RowFits(row, decision[job[h].session])
    BY <1>1, <1>3, ResumedSnapshot DEF Resuming
  <2> HIDE DEF row
  <2>2. StoreFits' /\ NoneRemoved
    BY <1>1, <1>4, <2>1, SaveKeeps DEF Untouched
  <2>3. QED
    BY <1>1, <1>2, <1>3, <1>4, <2>2, CallGoesOn DEF Untouched, ResumePCs
<1>5. CASE LosesWrite
  BY <1>2, <1>3, <1>5, WriteLost, CallGoesOn DEF ResumePCs
<1>6. QED
  BY <1>4, <1>5 DEF ResumeSnapshot

LEMMA CompleteResumeKeeps ==
    ASSUME DiagnosisInv, NEW h \in Handlers, CompleteResume(h)
    PROVE  DiagnosisInv'
<1> DEFINE row == Snapshot("approval_resumed", FALSE, job[h].attempt)
<1>1. job[h].session \in Sessions /\ job[h].attempt \in 0..MaxAttempts
      /\ lost \in 0..MaxLostWrites /\ StoreFits
  BY HandlerFacts
<1>2. /\ job[h].pc = "complete" /\ GoIdle(h) /\ Untouched
      /\ save_session_snapshot(job[h].session, row)
  BY DEF CompleteResume
<1>3. decision[job[h].session] = "approved"
  BY <1>2, ResumeHeld DEF ResumePCs
<1>4. row \in Session /\ row.status # "absent" /\ RowFits(row, decision[job[h].session])
  BY <1>1, <1>3, ResumedSnapshot DEF Resuming
<1> HIDE DEF row
<1>5. StoreFits' /\ NoneRemoved
  BY <1>1, <1>2, <1>4, SaveKeeps DEF Untouched
<1>6. QED
  BY <1>1, <1>2, <1>5, CallEnds DEF Untouched

\* A failed resume keeps naming its approval.
LEMMA MarkFailedKeeps ==
    ASSUME DiagnosisInv, NEW h \in Handlers, mark_resume_failed(h)
    PROVE  DiagnosisInv'
<1> DEFINE s == job[h].session
           row == resume_failed_row(session[s])
<1>1. /\ s \in Sessions /\ session[s] \in Session /\ lost \in 0..MaxLostWrites /\ StoreFits
  BY HandlerFacts
<1>2. CASE transition_session_snapshot(s, row, {"resume_running"}) /\ Untouched
  <2>1. 0 \in 0..Stale
    BY DiagnosisAssumption
  <2>2. row \in Session /\ row.status = "failed" /\ row.pending
    BY <1>1, <2>1 DEF resume_failed_row, Session, SessionStatuses
  <2> HIDE DEF row
  <2>3. row.status # "absent" /\ RowFits(row, decision[s])
    BY <2>2 DEF RowFits, Resuming
  <2>4. StoreFits' /\ NoneRemoved
    BY <1>1, <1>2, <2>2, <2>3, TransitionKeeps DEF Untouched
  <2>5. QED
    BY <1>1, <1>2, <2>4, CallEnds DEF Untouched, mark_resume_failed
<1>3. CASE LosesWrite
  BY <1>3, WriteLost, CallEnds DEF mark_resume_failed
<1>4. QED
  BY <1>2, <1>3 DEF mark_resume_failed

-----------------------------------------------------------------------------
(* Processes and the clock *)

LEMMA CrashKeeps ==
    ASSUME DiagnosisInv, NEW p \in Processes, Crash(p)
    PROVE  DiagnosisInv'
<1>1. /\ UNCHANGED <<session, incident, decision, lost>>
      /\ phase' = [phase EXCEPT ![p] = "down"] /\ scan' = [scan EXCEPT ![p] = {}]
      /\ crashes' = crashes + 1 /\ crashes < MaxCrashes
      /\ job' = [h \in Handlers |-> IF ProcessOf[h] = p THEN IdleJob(job[h].session)
                                                       ELSE job[h]]
  BY DEF Crash
<1>2. \A h \in Handlers :
          \/ job'[h] = job[h]
          \/ job'[h] = IdleJob(job[h].session)
  BY <1>1
<1>3. \A h \in Handlers : /\ job[h] \in Job /\ job[h].session \in Sessions
                          /\ JobFits(job[h], session[job[h].session], decision[job[h].session])
  BY HandlerFacts
<1>4. ASSUME NEW h \in Handlers
      PROVE  /\ job'[h] \in Job
             /\ JobFits(job'[h], session[job'[h].session], decision[job'[h].session])
             /\ job'[h].pc \in Running => job'[h] = job[h]
  <2>1. CASE job'[h] = job[h]
    BY <2>1, <1>3
  <2>2. CASE job'[h] = IdleJob(job[h].session)
    BY <2>2, <1>3, IdleJobShape DEF Running
  <2>3. QED
    BY <2>1, <2>2, <1>2
<1>5. job' \in [Handlers -> Job]
  BY <1>1, <1>4
<1>6. crashes' \in 0..MaxCrashes
  BY <1>1, DiagnosisAssumption DEF DiagnosisInv, DiagnosisTypeOK
<1>7. DiagnosisTypeOK' /\ StoreFits'
  BY <1>1, <1>5, <1>6 DEF DiagnosisInv, DiagnosisTypeOK, StoreFits
<1>8. JobsFit'
  BY <1>1, <1>4 DEF JobsFit
<1>9. ScansFit'
  <2> SUFFICES ASSUME NEW q \in Processes, NEW found \in scan'[q]
               PROVE  FoundFits(found.row)
    BY DEF ScansFit
  <2>1. found \in scan[q]
    BY <1>1 DEF DiagnosisInv, DiagnosisTypeOK
  <2>2. QED
    BY <2>1 DEF DiagnosisInv, ScansFit
<1>10. OneRunPerSession'
  BY <1>4 DEF DiagnosisInv, OneRunPerSession, Running
<1>11. QED
  BY <1>7, <1>8, <1>9, <1>10 DEF DiagnosisInv

LEMMA StartProcessKeeps ==
    ASSUME DiagnosisInv, NEW p \in Processes, StartProcess(p)
    PROVE  DiagnosisInv'
<1> DEFINE abandoned == {t \in Sessions : /\ session[t].status \in InProgress
                                          /\ session[t].age >= Stale}
           found == {[session |-> s, row |-> session[s]] : s \in abandoned}
<1>1. /\ phase' = [phase EXCEPT ![p] = "starting"] /\ scan' = [scan EXCEPT ![p] = found]
      /\ UNCHANGED <<session, incident, decision, job, crashes, lost>>
  BY DEF StartProcess
<1>2. /\ \A s \in Sessions : session[s] \in Session /\ RowFits(session[s], decision[s])
      /\ phase \in [Processes -> {"down", "starting", "up"}]
      /\ scan \in [Processes -> SUBSET [session : Sessions, row : Session]]
  BY DEF DiagnosisInv, DiagnosisTypeOK, StoreFits
<1>3. ASSUME NEW f \in found
      PROVE  f \in [session : Sessions, row : Session] /\ FoundFits(f.row)
  <2>1. PICK s \in abandoned : f = [session |-> s, row |-> session[s]]
    BY <1>3
  <2>2. QED
    BY <2>1, <1>2 DEF RowFits, FoundFits
<1> HIDE DEF found
<1>4. scan' \in [Processes -> SUBSET [session : Sessions, row : Session]]
  BY <1>1, <1>2, <1>3
<1>5. ScansFit'
  <2> SUFFICES ASSUME NEW q \in Processes, NEW f \in scan'[q]
               PROVE  FoundFits(f.row)
    BY DEF ScansFit
  <2>1. CASE q = p
    BY <2>1, <1>1, <1>2, <1>3
  <2>2. CASE q # p
    BY <2>2, <1>1, <1>2 DEF DiagnosisInv, ScansFit
  <2>3. QED
    BY <2>1, <2>2
<1>6. phase' \in [Processes -> {"down", "starting", "up"}]
  BY <1>1, <1>2
<1>7. DiagnosisTypeOK' /\ StoreFits' /\ JobsFit' /\ OneRunPerSession'
  BY <1>1, <1>4, <1>6
     DEF DiagnosisInv, DiagnosisTypeOK, StoreFits, JobsFit, OneRunPerSession
<1>8. QED
  BY <1>5, <1>7 DEF DiagnosisInv

LEMMA ReconcileSessionKeeps ==
    ASSUME DiagnosisInv, NEW p \in Processes, ReconcileSession(p)
    PROVE  DiagnosisInv'
<1>1. PICK found \in scan[p] :
          /\ scan' = [scan EXCEPT ![p] = @ \ {found}]
          /\ transition_session_snapshot(found.session,
                 [found.row EXCEPT !.status = "failed", !.age = 0,
                                   !.pending = @ \/ found.row.status = "resume_running"],
                 {found.row.status})
          /\ UNCHANGED <<decision, job, phase, crashes, lost>>
  BY DEF ReconcileSession
<1> DEFINE s == found.session
           row == [found.row EXCEPT !.status = "failed", !.age = 0,
                                    !.pending = @ \/ found.row.status = "resume_running"]
<1>2. /\ scan \in [Processes -> SUBSET [session : Sessions, row : Session]]
      /\ FoundFits(found.row) /\ StoreFits
  BY DEF DiagnosisInv, DiagnosisTypeOK, ScansFit
<1>3. s \in Sessions /\ found.row \in Session
  BY <1>2
<1>4. 0 \in 0..Stale
  BY DiagnosisAssumption
<1>5. row.status = "failed" /\ row.attempt = found.row.attempt
  BY <1>3 DEF Session
<1>6. found.row.pending \in BOOLEAN
  BY <1>3 DEF Session
<1>7. row \in Session
  BY <1>3, <1>4, <1>6 DEF Session, SessionStatuses
<1>8. found.row.status = "resume_running" => row.pending
  BY <1>3, <1>6 DEF Session
<1> HIDE DEF row
<1>9. row.attempt > 0 => row.pending
  BY <1>2, <1>5, <1>8 DEF FoundFits, InProgress
<1>10. row.status # "absent" /\ RowFits(row, decision[s])
  BY <1>5, <1>9 DEF RowFits, Resuming
<1>11. transition_session_snapshot(s, row, {found.row.status})
  BY <1>1 DEF row
<1>12. StoreFits' /\ NoneRemoved
  BY <1>1, <1>2, <1>3, <1>7, <1>10, <1>11, TransitionKeeps
<1>13. /\ scan' \in [Processes -> SUBSET [session : Sessions, row : Session]]
       /\ \A q \in Processes : scan'[q] \subseteq scan[q]
  BY <1>1, <1>2
<1>14. ScansFit'
  BY <1>13 DEF DiagnosisInv, ScansFit
<1>15. JobsFit'
  <2> SUFFICES ASSUME NEW g \in Handlers
               PROVE  JobFits(job[g], session'[job[g].session], decision[job[g].session])
    BY <1>1 DEF JobsFit
  <2>1. /\ JobFits(job[g], session[job[g].session], decision[job[g].session])
        /\ job[g].session \in Sessions
    BY HandlerFacts
  <2>2. QED
    BY <2>1, <1>12 DEF JobFits, NoneRemoved
<1>16. DiagnosisTypeOK' /\ OneRunPerSession'
  BY <1>1, <1>12, <1>13 DEF DiagnosisInv, DiagnosisTypeOK, StoreFits, OneRunPerSession
<1>17. QED
  BY <1>12, <1>14, <1>15, <1>16 DEF DiagnosisInv

LEMMA ServeRequestsKeeps ==
    ASSUME DiagnosisInv, NEW p \in Processes, ServeRequests(p)
    PROVE  DiagnosisInv'
<1>1. phase' \in [Processes -> {"down", "starting", "up"}]
  BY DEF ServeRequests, DiagnosisInv, DiagnosisTypeOK
<1>2. QED
  BY <1>1 DEF ServeRequests, DiagnosisInv, DiagnosisTypeOK, StoreFits, JobsFit, ScansFit,
              OneRunPerSession

LEMMA TickKeeps ==
    ASSUME DiagnosisInv, Tick
    PROVE  DiagnosisInv'
<1>1. /\ session' = [s \in Sessions |->
             IF session[s].status \in InProgress /\ session[s].age < Stale
               THEN [session[s] EXCEPT !.age = @ + 1] ELSE session[s]]
      /\ UNCHANGED <<incident, decision, job, phase, scan, crashes, lost>>
  BY DEF Tick
<1>2. ASSUME NEW s \in Sessions
      PROVE  /\ session'[s] \in Session
             /\ session'[s].status = session[s].status
             /\ session'[s].pending = session[s].pending
             /\ session'[s].attempt = session[s].attempt
  <2>1. session[s] \in Session
    BY DEF DiagnosisInv, DiagnosisTypeOK
  <2>2. CASE session[s].status \in InProgress /\ session[s].age < Stale
    <3>1. session'[s] = [session[s] EXCEPT !.age = session[s].age + 1]
      BY <1>1, <2>2
    <3>2. session[s].age + 1 \in 0..Stale
      <4>1. session[s].age \in 0..Stale
        BY <2>1 DEF Session
      <4>2. QED
        BY <2>2, <4>1, DiagnosisAssumption
    <3>3. QED
      BY <2>1, <3>1, <3>2 DEF Session
  <2>3. CASE ~(session[s].status \in InProgress /\ session[s].age < Stale)
    BY <1>1, <2>1, <2>3
  <2>4. QED
    BY <2>2, <2>3
<1>3. session' \in [Sessions -> Session]
  BY <1>1, <1>2
<1>4. StoreFits'
  <2>1. \A s \in Sessions : RowFits(session'[s], decision[s])
    BY <1>2 DEF DiagnosisInv, StoreFits, RowFits
  <2>2. QED
    BY <1>1, <1>3, <2>1 DEF DiagnosisInv, StoreFits
<1>5. JobsFit'
  <2> SUFFICES ASSUME NEW g \in Handlers
               PROVE  JobFits(job[g], session'[job[g].session], decision[job[g].session])
    BY <1>1 DEF JobsFit
  <2>1. /\ JobFits(job[g], session[job[g].session], decision[job[g].session])
        /\ job[g].session \in Sessions
    BY HandlerFacts
  <2>2. QED
    BY <2>1, <1>2 DEF JobFits
<1>6. DiagnosisTypeOK' /\ ScansFit' /\ OneRunPerSession'
  BY <1>1, <1>3 DEF DiagnosisInv, DiagnosisTypeOK, ScansFit, OneRunPerSession
<1>7. QED
  BY <1>4, <1>5, <1>6 DEF DiagnosisInv

-----------------------------------------------------------------------------
(* The theorems *)

LEMMA DiagnosisInvInit == Init => DiagnosisInv
<1> SUFFICES ASSUME Init PROVE DiagnosisInv
  OBVIOUS
<1>1. /\ session = [s \in Sessions |-> Snapshot("absent", FALSE, 0)]
      /\ incident = [PlainUpdate("alert_firing", "alertmanager", FALSE)
                        EXCEPT !.startsAt = 1, !.alertStatus = "firing"]
      /\ decision = [s \in Sessions |-> "none"]
      /\ job \in [Handlers -> {IdleJob(s) : s \in Sessions}]
      /\ phase = [p \in Processes |-> "down"] /\ scan = [p \in Processes |-> {}]
      /\ crashes = 0 /\ lost = 0
  BY DEF Init
<1>2. /\ Snapshot("absent", FALSE, 0) \in Session
      /\ Snapshot("absent", FALSE, 0).status = "absent"
  <2>1. "absent" \in SessionStatuses /\ FALSE \in BOOLEAN /\ 0 \in 0..MaxAttempts
    BY DiagnosisAssumption DEF SessionStatuses
  <2>2. QED
    BY <2>1, SnapshotType
<1>3. incident \in IncidentState /\ incident.status = "alert_firing"
  <2>1. "alert_firing" \in IncidentStatuses /\ "alertmanager" \in Sources /\ FALSE \in BOOLEAN
    BY DEF IncidentStatuses, ACTIVE_DIAGNOSIS_STATUSES, Sources
  <2>2. /\ PlainUpdate("alert_firing", "alertmanager", FALSE) \in IncidentState
        /\ PlainUpdate("alert_firing", "alertmanager", FALSE).status = "alert_firing"
    BY <2>1, PlainUpdateShape
  <2>3. QED
    BY <1>1, <2>2 DEF IncidentState
<1>4. \A h \in Handlers :
          /\ job[h] \in Job /\ job[h].pc = "idle"
          /\ \A row, d : JobFits(job[h], row, d)
  <2> SUFFICES ASSUME NEW h \in Handlers
               PROVE  /\ job[h] \in Job /\ job[h].pc = "idle"
                      /\ \A row, d : JobFits(job[h], row, d)
    OBVIOUS
  <2>1. PICK s \in Sessions : job[h] = IdleJob(s)
    BY <1>1
  <2>2. QED
    BY <2>1, IdleJobShape
<1>5. StoreFits
  <2>1. \A s \in Sessions : RowFits(session[s], decision[s])
    BY <1>1, <1>2 DEF RowFits, Resuming
  <2>2. IncidentFits(incident, decision)
    BY <1>3 DEF IncidentFits, Resuming
  <2>3. QED
    BY <1>1, <1>2, <1>3, <2>1, <2>2 DEF StoreFits
<1>6. DiagnosisTypeOK
  <2>1. 0 \in 0..MaxCrashes /\ 0 \in 0..MaxLostWrites
    BY DiagnosisAssumption
  <2>2. job \in [Handlers -> Job]
    BY <1>1, <1>4
  <2>3. QED
    BY <1>1, <1>5, <2>1, <2>2 DEF DiagnosisTypeOK, StoreFits, Decisions
<1>7. JobsFit /\ ScansFit /\ OneRunPerSession
  BY <1>1, <1>4 DEF JobsFit, ScansFit, OneRunPerSession
<1>8. QED
  BY <1>5, <1>6, <1>7 DEF DiagnosisInv

LEMMA DiagnosisInvStep == DiagnosisInv /\ [Next]_diagnosisVars => DiagnosisInv'
<1> SUFFICES ASSUME DiagnosisInv, [Next]_diagnosisVars PROVE DiagnosisInv'
  OBVIOUS
<1>1. CASE UNCHANGED diagnosisVars
  BY <1>1 DEF diagnosisVars, DiagnosisInv, DiagnosisTypeOK, StoreFits, JobsFit, ScansFit,
              OneRunPerSession
<1>2. ASSUME NEW h \in Handlers, NEW s \in Sessions, RequestRun(h, s) \/ RequestResume(h, s)
      PROVE  DiagnosisInv'
  BY <1>2, RequestRunKeeps, RequestResumeKeeps
<1>3. ASSUME NEW h \in Handlers,
             SaveProgress(h) \/ RaiseApproval(h) \/ RunFails(h) \/ ResumeFails(h)
      PROVE  DiagnosisInv'
  BY <1>3, SaveProgressKeeps, RaiseApprovalKeeps, RunFailsKeeps, MarkFailedKeeps
     DEF ResumeFails
<1>4. ASSUME NEW h \in Handlers, Continue(h)
      PROVE  DiagnosisInv'
  BY <1>4, CreateSessionKeeps, FinishGraphKeeps, FinishRunKeeps, LoadResumeKeeps,
     MarkFailedKeeps, ClaimResumeKeeps, ResumeReportKeeps, ResumeSnapshotKeeps,
     CompleteResumeKeeps
     DEF Continue, RejectResume
<1>5. ASSUME NEW p \in Processes, Crash(p) \/ Boot(p)
      PROVE  DiagnosisInv'
  BY <1>5, CrashKeeps, StartProcessKeeps, ReconcileSessionKeeps, ServeRequestsKeeps DEF Boot
<1>6. QED
  BY <1>1, <1>2, <1>3, <1>4, <1>5, DecideKeeps, TickKeeps DEF Next

LEMMA DiagnosisInvHolds == DiagnosisSpec => []DiagnosisInv
BY DiagnosisInvInit, DiagnosisInvStep, PTL DEF DiagnosisSpec

\* Snapshots, the incident, decisions, handlers' jobs and counters stay in their types.
THEOREM DiagnosisTypeHolds == DiagnosisSpec => []DiagnosisTypeOK
<1>1. DiagnosisInv => DiagnosisTypeOK
  BY DEF DiagnosisInv
<1>2. QED
  BY <1>1, DiagnosisInvHolds, PTL

\* However many processes receive the session_id, and whatever crashes, reconciliations
\* and failed writes lie between, at most one handler runs its workflow
\* (_claim_diagnosis_session, create_session_snapshot).
THEOREM OneRunPerSessionHolds == DiagnosisSpec => []OneRunPerSession
<1>1. DiagnosisInv => OneRunPerSession
  BY DEF DiagnosisInv
<1>2. QED
  BY <1>1, DiagnosisInvHolds, PTL

\* No snapshot and no incident shows a resume that no approved decision authorizes
\* (resolve_resume_approval, _resume_after_approval_impl).
THEOREM ResumeAuthorizedHolds == DiagnosisSpec => []ResumeAuthorized
<1>1. DiagnosisInv => ResumeAuthorized
  BY DEF DiagnosisInv, StoreFits, RowFits, IncidentFits, Resuming, ResumeAuthorized
<1>2. QED
  BY <1>1, DiagnosisInvHolds, PTL

\* A waiting run and a resume that failed or was abandoned still name their approval
\* (_mark_resume_failed, reconcile_incomplete_runs).
THEOREM ResumeRetryableHolds == DiagnosisSpec => []ResumeRetryable
<1>1. DiagnosisInv => ResumeRetryable
  BY DEF DiagnosisInv, StoreFits, RowFits, ResumeRetryable
<1>2. QED
  BY <1>1, DiagnosisInvHolds, PTL
=============================================================================
