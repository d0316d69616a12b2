---------------------------- MODULE AlertProofs ----------------------------
(***************************************************************************)
(* Proofs of the safety properties of alert ingestion and automatic        *)
(* diagnosis, for every number of processes, webhooks and incidents, every *)
(* content of the deliveries, lease and number of faults.                  *)
(***************************************************************************)
EXTENDS AlertDiagnosis, FiniteSetTheorems, TLAPS

-----------------------------------------------------------------------------
(* The inductive invariant *)

\* The two keys an alert leaves in the metadata of an incident come and go together, and
\* row r shows nothing newer than alert a.
Follows(r, a) ==
    /\ r.startsAt = 0 <=> r.alertStatus = ""
    /\ r.startsAt <= a.startsAt
    /\ r.startsAt = a.startsAt /\ r.alertStatus = "resolved" => a.status = "resolved"

RowsFit ==
    /\ alert \in [Incidents -> [status : AlertStatuses \cup {"absent"}, startsAt : Nat,
                                endsAt : Nat]]
    /\ incident \in [Incidents -> IncidentState \cup {NoIncident}]
    /\ \A i \in Incidents : Follows(incident[i], alert[i])

ClaimsFit == claim \in [Incidents -> [token : Webhooks \cup {"", "absent"}, age : 0..Lease]]

Among(i, s) == \E k \in DOMAIN s : s[k] = i

\* A request has no task before its answer, and none twice; the incidents it is to diagnose
\* have a row.
RequestFits(r, rows) ==
    /\ r.pc \in {"unsent", "ingest", "done"} => r.tasks = <<>>
    /\ r.pc = "ingest" => r.events # <<>>
    /\ r.pc = "claim" => r.events = <<>> /\ r.diagnose # <<>>
    /\ \A j, k \in DOMAIN r.tasks : r.tasks[j] = r.tasks[k] => j = k
    /\ \A i \in Incidents : Among(i, r.diagnose) \/ Among(i, r.tasks) => rows[i] \in IncidentState

RequestsFit ==
    /\ request \in [Webhooks -> Request]
    /\ \A w \in Webhooks : RequestFits(request[w], incident)

\* A task runs for the first incident of an answered request, and what its failure record
\* has read of that incident is no newer than the alert either.
TaskFits(t, r, alerts, n) ==
    /\ t.pc # "idle" => r.pc = "background" /\ r.tasks # <<>>
    /\ t.pc = "record" => t.row \in IncidentState /\ Follows(t.row, alerts[Head(r.tasks)])
    /\ t.raised => n > 0

TasksFit ==
    /\ task \in [Webhooks -> Task]
    /\ faults \in 0..MaxFaults
    /\ \A w \in Webhooks : TaskFits(task[w], request[w], alert, faults)

\* Of the requests r of process p, at most one has a task for i, and then i is marked.
MarksFit ==
    /\ inFlight \in [Processes -> SUBSET Incidents]
    /\ \A v, w \in Webhooks, i \in Incidents :
          /\ ProcessOf[v] = ProcessOf[w]
          /\ Among(i, request[v].tasks) /\ Among(i, request[w].tasks)
          => v = w
    /\ \A w \in Webhooks, i \in Incidents :
          Among(i, request[w].tasks) => i \in inFlight[ProcessOf[w]]
    /\ \A p \in Processes : \A i \in inFlight[p] :
          \/ \E w \in Webhooks : ProcessOf[w] = p /\ Among(i, request[w].tasks)
          \/ faults > 0

AlertInv == RowsFit /\ ClaimsFit /\ RequestsFit /\ TasksFit /\ MarksFit

-----------------------------------------------------------------------------
(* Incident rows *)

Rows == IncidentState \cup {NoIncident}

LEMMA NoIncidentIsNoRow == NoIncident \notin IncidentState
BY DEF NoIncident, PlainUpdate, IncidentState, IncidentStatuses, CHANGE_LIFECYCLE_STATUSES,
       REPORT_ONLY_STATUSES, ACTIVE_DIAGNOSIS_STATUSES, APPROVAL_LIFECYCLE_STATUSES,
       HARD_TERMINAL_INCIDENT_STATUSES

LEMMA MergeIsRow ==
    ASSUME NEW r \in IncidentState, NEW u \in IncidentState
    PROVE  merge_incident_state(r, u) \in IncidentState
<1> DEFINE ok == is_incident_status_transition_allowed(r, u)
           keep == should_preserve_existing_lifecycle_status(r, u)
<1> HIDE DEF ok, keep
<1>1. CASE ~ok
  BY <1>1 DEF merge_incident_state, ok
<1>2. CASE ok
  BY <1>2 DEF merge_incident_state, IncidentState, ok
<1>3. QED
  BY <1>1, <1>2

\* An update follows whatever its row does, unless it names an alert of its own.
LEMMA MergeFollows ==
    ASSUME NEW r \in IncidentState, NEW u \in IncidentState,
           NEW a \in [status : AlertStatuses \cup {"absent"}, startsAt : Nat, endsAt : Nat],
           Follows(r, a), Follows(u, a)
    PROVE  Follows(merge_incident_state(r, u), a)
<1> DEFINE ok == is_incident_status_transition_allowed(r, u)
<1> HIDE DEF ok
<1>1. CASE ~ok
  BY <1>1 DEF merge_incident_state, ok
<1>2. CASE ok
  <2> DEFINE m == merge_incident_state(r, u)
  <2>1. /\ m.startsAt = IF u.startsAt = 0 THEN r.startsAt ELSE u.startsAt
        /\ m.alertStatus = IF u.alertStatus = "" THEN r.alertStatus ELSE u.alertStatus
    BY <1>2 DEF merge_incident_state, ok
  <2> HIDE DEF m
  <2>2. Follows(m, a)
    BY <2>1 DEF Follows
  <2>3. QED
    BY <2>2 DEF m
<1>3. QED
  BY <1>1, <1>2

\* What a diagnosis writes is a row, and says nothing of an alert.
LEMMA PlainRow ==
    ASSUME NEW s \in REPORT_ONLY_STATUSES \cup {"diagnosing"},
           NEW a \in [status : AlertStatuses \cup {"absent"}, startsAt : Nat, endsAt : Nat]
    PROVE  /\ PlainUpdate(s, "aiops_state", FALSE) \in IncidentState
           /\ Follows(PlainUpdate(s, "aiops_state", FALSE), a)
<1>1. s \in IncidentStatuses
  BY DEF IncidentStatuses, ACTIVE_DIAGNOSIS_STATUSES
<1>2. PlainUpdate(s, "aiops_state", FALSE) \in IncidentState
  BY <1>1 DEF PlainUpdate, IncidentState, Sources
<1>3. Follows(PlainUpdate(s, "aiops_state", FALSE), a)
  BY DEF PlainUpdate, Follows
<1>4. QED
  BY <1>2, <1>3

LEMMA FailureRow ==
    ASSUME NEW r \in IncidentState,
           NEW a \in [status : AlertStatuses \cup {"absent"}, startsAt : Nat, endsAt : Nat],
           Follows(r, a)
    PROVE  failure_state(r) \in IncidentState /\ Follows(failure_state(r), a)
<1>1. failure_state(r) \in IncidentState
  BY DEF failure_state, IncidentState, IncidentStatuses, REPORT_ONLY_STATUSES, Sources
<1>2. /\ failure_state(r).startsAt = r.startsAt
      /\ failure_state(r).alertStatus = r.alertStatus
  BY DEF failure_state, IncidentState
<1>3. QED
  BY <1>1, <1>2 DEF Follows

LEMMA RowShape ==
    ASSUME NEW r \in Rows
    PROVE  /\ r.startsAt \in Nat
           /\ r.change \in BOOLEAN
           /\ r.diag \in {"", "idle", "running", "queued", "failed", "completed"}
           /\ r # NoIncident => r.status \in IncidentStatuses
<1>1. CASE r = NoIncident
  BY <1>1 DEF NoIncident, PlainUpdate
<1>2. CASE r \in IncidentState
  BY <1>2 DEF IncidentState
<1>3. QED
  BY <1>1, <1>2 DEF Rows

\* The stored form of an event.
AlertOf(e) == [status |-> e.status, startsAt |-> e.startsAt, endsAt |-> e.endsAt]

LEMMA EventShape ==
    ASSUME NEW e \in Events
    PROVE  /\ e.incident \in Incidents /\ e.status \in {"firing", "resolved"}
           /\ e.startsAt \in Nat /\ e.startsAt # 0
           /\ AlertOf(e) \in [status : AlertStatuses \cup {"absent"}, startsAt : Nat,
                              endsAt : Nat]
           /\ AlertOf(e).status = e.status /\ AlertOf(e).startsAt = e.startsAt
BY DEF Events, AlertStatuses, AlertOf

LEMMA AlertRow ==
    ASSUME NEW e \in Events, NEW r \in Rows
    PROVE  /\ build_incident_state_from_alert(e, r) \in IncidentState
           /\ Follows(build_incident_state_from_alert(e, r), AlertOf(e))
<1> DEFINE u == build_incident_state_from_alert(e, r)
<1>1. {"resolved", "alert_firing"} \subseteq IncidentStatuses
  BY DEF IncidentStatuses, CHANGE_LIFECYCLE_STATUSES, ACTIVE_DIAGNOSIS_STATUSES
<1>2. u.status \in IncidentStatuses
  <2>1. CASE r = NoIncident
    BY <2>1, <1>1 DEF build_incident_state_from_alert
  <2>2. CASE r # NoIncident
    BY <2>2, <1>1, RowShape DEF build_incident_state_from_alert
  <2>3. QED
    BY <2>1, <2>2
<1>3. u \in [status : IncidentStatuses, source : {"alertmanager"}, change : {r.change},
              startsAt : {e.startsAt}, alertStatus : {e.status}, diag : {r.diag}]
  BY <1>2 DEF build_incident_state_from_alert
<1> HIDE DEF u
<1>4. u \in IncidentState
  BY <1>3, RowShape, EventShape DEF IncidentState, Sources
<1>5. u.startsAt = e.startsAt /\ u.alertStatus = e.status
  BY <1>3
<1>6. e.startsAt <= AlertOf(e).startsAt /\ e.startsAt # 0 /\ e.status # ""
  <2>1. e.startsAt \in Nat /\ AlertOf(e).startsAt = e.startsAt
    BY EventShape
  <2>2. e.startsAt <= e.startsAt
    BY <2>1
  <2>3. e.startsAt <= AlertOf(e).startsAt
    BY <2>1, <2>2
  <2>4. QED
    BY <2>3, EventShape
<1>7. e.status = "resolved" => AlertOf(e).status = "resolved"
  BY EventShape
<1>8. Follows(u, AlertOf(e))
  BY <1>5, <1>6, <1>7 DEF Follows
<1>9. QED
  BY <1>4, <1>8 DEF u

\* What followed the stored alert follows one that is not stale.
LEMMA ForwardFollows ==
    ASSUME NEW r \in Rows, NEW e \in Events,
           NEW a \in [status : AlertStatuses \cup {"absent"}, startsAt : Nat, endsAt : Nat],
           Follows(r, a), ~is_stale_alert_event(a, e)
    PROVE  Follows(r, AlertOf(e))
<1>1. /\ r.startsAt \in Nat /\ a.startsAt \in Nat
      /\ e.status \in {"firing", "resolved"} /\ e.startsAt \in Nat
  BY RowShape, EventShape
<1>2. a.startsAt <= e.startsAt
  BY <1>1 DEF is_stale_alert_event
<1>3. e.startsAt = a.startsAt /\ a.status = "resolved" => e.status = "resolved"
  BY <1>1 DEF is_stale_alert_event
<1> DEFINE b == AlertOf(e)
<1>4. b.startsAt = e.startsAt /\ b.status = e.status
  BY EventShape
<1> HIDE DEF b
<1>5. Follows(r, b)
  <2>1. r.startsAt <= a.startsAt
    BY DEF Follows
  <2>2. ASSUME r.startsAt = b.startsAt, r.alertStatus = "resolved" PROVE b.status = "resolved"
    <3>1. r.startsAt = a.startsAt /\ e.startsAt = a.startsAt
      BY <1>1, <1>2, <1>4, <2>1, <2>2
    <3>2. QED
      BY <1>3, <1>4, <2>2, <3>1 DEF Follows
  <2>3. r.startsAt <= b.startsAt
    BY <1>1, <1>2, <1>4, <2>1
  <2>4. r.startsAt = 0 <=> r.alertStatus = ""
    BY DEF Follows
  <2>5. QED
    BY <2>2, <2>3, <2>4 DEF Follows
<1>6. QED
  BY <1>5 DEF b

-----------------------------------------------------------------------------
(* The parts of the invariant that a step leaves alone *)

\* No incident loses its row.
RowsRemain == \A i \in Incidents : incident[i] \in IncidentState => incident'[i] \in IncidentState

FaultsGrow == faults' \in 0..MaxFaults /\ faults' >= faults

LEMMA ConstantTypes == MaxFaults \in Nat /\ Lease \in Nat /\ Lease # 0
BY AlertAssumption

LEMMA FaultSteps ==
    ASSUME TasksFit, faults' = faults \/ StoreRaises
    PROVE  FaultsGrow
BY ConstantTypes DEF TasksFit, StoreRaises, FaultsGrow

LEMMA RowsStay ==
    ASSUME RowsFit, UNCHANGED <<alert, incident>>
    PROVE  RowsFit' /\ RowsRemain
BY DEF RowsFit, RowsRemain

LEMMA ClaimsStay ==
    ASSUME ClaimsFit, UNCHANGED claim
    PROVE  ClaimsFit'
BY DEF ClaimsFit

LEMMA RequestsStay ==
    ASSUME RequestsFit, RowsRemain, UNCHANGED request
    PROVE  RequestsFit'
BY DEF RequestsFit, RequestFits, RowsRemain

LEMMA TasksStay ==
    ASSUME TasksFit, FaultsGrow, UNCHANGED <<alert, task, request>>
    PROVE  TasksFit'
<1>1. task' \in [Webhooks -> Task] /\ faults' \in 0..MaxFaults
  BY DEF TasksFit, FaultsGrow
<1>2. ASSUME NEW w \in Webhooks PROVE TaskFits(task'[w], request'[w], alert', faults')
  <2>1. TaskFits(task[w], request[w], alert, faults)
    BY DEF TasksFit
  <2>2. faults > 0 => faults' > 0
    BY ConstantTypes DEF FaultsGrow, TasksFit
  <2>3. QED
    BY <2>1, <2>2 DEF TaskFits
<1>3. QED
  BY <1>1, <1>2 DEF TasksFit

LEMMA MarksStay ==
    ASSUME MarksFit, TasksFit, FaultsGrow, UNCHANGED inFlight,
           \A w \in Webhooks : request'[w].tasks = request[w].tasks
    PROVE  MarksFit'
<1>1. faults > 0 => faults' > 0
  BY ConstantTypes DEF FaultsGrow, TasksFit
<1>2. \A w \in Webhooks, i \in Incidents :
          Among(i, request'[w].tasks) <=> Among(i, request[w].tasks)
  OBVIOUS
<1>3. QED
  BY <1>1, <1>2 DEF MarksFit

\* One request changes.
LEMMA RequestStep ==
    ASSUME RequestsFit, RowsRemain, NEW w \in Webhooks, NEW r \in Request,
           request' = [request EXCEPT ![w] = r], RequestFits(r, incident')
    PROVE  RequestsFit'
<1>1. request \in [Webhooks -> Request]
  BY DEF RequestsFit
<1>2. request' \in [Webhooks -> Request] /\ request'[w] = r
  BY <1>1
<1>3. ASSUME NEW v \in Webhooks PROVE RequestFits(request'[v], incident')
  <2>1. CASE v = w
    BY <2>1, <1>2
  <2>2. CASE v # w
    <3>1. request'[v] = request[v]
      BY <1>1, <2>2
    <3>2. QED
      BY <3>1 DEF RequestsFit, RequestFits, RowsRemain
  <2>3. QED
    BY <2>1, <2>2
<1>4. QED
  BY <1>2, <1>3 DEF RequestsFit

\* One task changes.
LEMMA TaskStep ==
    ASSUME TasksFit, FaultsGrow, NEW w \in Webhooks, NEW t \in Task,
           task' = [task EXCEPT ![w] = t], TaskFits(t, request'[w], alert', faults'),
           UNCHANGED alert, \A v \in Webhooks : v # w => request'[v] = request[v]
    PROVE  TasksFit'
<1>1. task \in [Webhooks -> Task]
  BY DEF TasksFit
<1>2. task' \in [Webhooks -> Task] /\ task'[w] = t
  BY <1>1
<1>3. ASSUME NEW v \in Webhooks PROVE TaskFits(task'[v], request'[v], alert', faults')
  <2>1. CASE v = w
    BY <2>1, <1>2
  <2>2. CASE v # w
    <3>1. task'[v] = task[v] /\ request'[v] = request[v]
      BY <1>1, <2>2
    <3>2. TaskFits(task[v], request[v], alert, faults)
      BY DEF TasksFit
    <3>3. faults > 0 => faults' > 0
      BY ConstantTypes DEF FaultsGrow, TasksFit
    <3>4. QED
      BY <3>1, <3>2, <3>3 DEF TaskFits
  <2>3. QED
    BY <2>1, <2>2
<1>4. QED
  BY <1>2, <1>3 DEF TasksFit, FaultsGrow

\* One incident, with a row, is written.
LEMMA RowStep ==
    ASSUME RowsFit, UNCHANGED alert, NEW i \in Incidents, NEW r \in IncidentState,
           Follows(r, alert[i]), incident' = [incident EXCEPT ![i] = r]
    PROVE  RowsFit' /\ RowsRemain
<1>1. incident \in [Incidents -> IncidentState \cup {NoIncident}]
  BY DEF RowsFit
<1>2. incident' \in [Incidents -> IncidentState \cup {NoIncident}] /\ incident'[i] = r
  BY <1>1
<1>3. \A j \in Incidents : j # i => incident'[j] = incident[j]
  BY <1>1
<1>4. QED
  BY <1>2, <1>3 DEF RowsFit, RowsRemain

\* One claim is written.
LEMMA ClaimStep ==
    ASSUME ClaimsFit, NEW i \in Incidents,
           NEW c \in [token : Webhooks \cup {"", "absent"}, age : 0..Lease],
           claim' = [claim EXCEPT ![i] = c]
    PROVE  ClaimsFit'
BY DEF ClaimsFit

\* The incident of a running task, and what its request is doing.
LEMMA TaskShape ==
    ASSUME AlertInv, NEW w \in Webhooks, task[w].pc # "idle"
    PROVE  /\ request[w].pc = "background" /\ request[w].tasks \in Seq(Incidents)
           /\ request[w].tasks # <<>>
           /\ Inc(w) \in Incidents /\ Among(Inc(w), request[w].tasks)
           /\ incident[Inc(w)] \in IncidentState
           /\ Follows(incident[Inc(w)], alert[Inc(w)])
           /\ alert[Inc(w)] \in [status : AlertStatuses \cup {"absent"}, startsAt : Nat,
                                 endsAt : Nat]
<1>1. request[w].pc = "background" /\ request[w].tasks # <<>>
  BY DEF AlertInv, TasksFit, TaskFits
<1>2. request[w].tasks \in Seq(Incidents)
  BY DEF AlertInv, RequestsFit, Request
<1>3. /\ Inc(w) \in Incidents /\ 1 \in DOMAIN request[w].tasks
      /\ request[w].tasks[1] = Inc(w)
  BY <1>1, <1>2 DEF Inc
<1>4. Among(Inc(w), request[w].tasks)
  BY <1>3 DEF Among
<1>5. incident[Inc(w)] \in IncidentState
  BY <1>3, <1>4 DEF AlertInv, RequestsFit, RequestFits
<1>6. QED
  BY <1>1, <1>2, <1>3, <1>4, <1>5 DEF AlertInv, RowsFit

-----------------------------------------------------------------------------
(* Initial states *)

LEMMA NoTaskType ==
    /\ NoTask \in Task
    /\ NoClaim \in [token : Webhooks \cup {"", "absent"}, age : 0..Lease]
<1>1. NoClaim \in [token : Webhooks \cup {"", "absent"}, age : 0..Lease]
  BY ConstantTypes DEF NoClaim
<1>2. 0 \in 0..Lease
  BY ConstantTypes
<1>3. QED
  BY <1>1, <1>2 DEF NoTask, Task

LEMMA EmptyType == <<>> \in Seq(Events) /\ <<>> \in Seq(Incidents)
OBVIOUS

LEMMA AlertInvInit == Init => AlertInv
<1> SUFFICES ASSUME Init PROVE AlertInv
  OBVIOUS
<1> DEFINE empty == [pc |-> "unsent", events |-> <<>>, diagnose |-> <<>>, tasks |-> <<>>]
<1>1. NoAlert \in [status : AlertStatuses \cup {"absent"}, startsAt : Nat, endsAt : Nat]
  BY DEF NoAlert
<1>2. Follows(NoIncident, NoAlert)
  BY DEF Follows, NoIncident, PlainUpdate, NoAlert
<1>3. RowsFit
  BY <1>1, <1>2 DEF Init, RowsFit
<1>4. ClaimsFit
  BY NoTaskType DEF Init, ClaimsFit
<1>5. empty \in Request
  BY EmptyType DEF Request
<1>6. RequestFits(empty, incident)
  BY DEF RequestFits, Among
<1>7. RequestsFit
  <2> HIDE DEF empty
  <2>1. request = [w \in Webhooks |-> empty]
    BY DEF Init, empty
  <2>2. QED
    BY <1>5, <1>6, <2>1 DEF RequestsFit
<1>8. TasksFit
  <2>1. NoTask.pc = "idle" /\ NoTask.raised = FALSE
    BY DEF NoTask
  <2>2. task = [w \in Webhooks |-> NoTask] /\ faults = 0
    BY DEF Init
  <2>3. faults \in 0..MaxFaults
    BY <2>2, ConstantTypes
  <2>4. QED
    BY <2>1, <2>2, <2>3, NoTaskType DEF TasksFit, TaskFits
<1>9. MarksFit
  <2>1. \A w \in Webhooks : request[w].tasks = <<>>
    BY DEF Init
  <2>2. inFlight = [p \in Processes |-> {}]
    BY DEF Init
  <2>3. QED
    BY <2>1, <2>2 DEF MarksFit, Among
<1>10. QED
  BY <1>3, <1>4, <1>7, <1>8, <1>9 DEF AlertInv

-----------------------------------------------------------------------------
(* The webhook handler *)

LEMMA RequestShape ==
    ASSUME AlertInv, NEW w \in Webhooks
    PROVE  /\ request[w] \in Request /\ RequestFits(request[w], incident)
           /\ request[w].pc \in {"unsent", "ingest", "claim", "background", "done"}
           /\ request[w].events \in Seq(Events)
           /\ request[w].diagnose \in Seq(Incidents)
           /\ request[w].tasks \in Seq(Incidents)
           /\ request[w].pc # "background" => task[w].pc = "idle"
BY DEF AlertInv, RequestsFit, Request, TasksFit, TaskFits

\* What follows an alert goes on to follow it.
AlertsForward ==
    \A i \in Incidents : \A r \in Rows : Follows(r, alert[i]) => Follows(r, alert'[i])

\* A step of a handler before its tasks start leaves the tasks of all requests alone.
LEMMA TasksUnmoved ==
    ASSUME AlertInv, NEW w \in Webhooks, request[w].pc # "background", NEW r \in Request,
           request' = [request EXCEPT ![w] = r], AlertsForward, UNCHANGED task, FaultsGrow
    PROVE  TasksFit'
<1>1. task \in [Webhooks -> Task] /\ faults' \in 0..MaxFaults
  BY DEF AlertInv, TasksFit, FaultsGrow
<1>2. \A v \in Webhooks : v # w => request'[v] = request[v]
  BY DEF AlertInv, RequestsFit
<1>3. faults > 0 => faults' > 0
  BY ConstantTypes DEF FaultsGrow, TasksFit, AlertInv
<1>4. ASSUME NEW v \in Webhooks PROVE TaskFits(task[v], request'[v], alert', faults')
  <2>1. TaskFits(task[v], request[v], alert, faults)
    BY DEF AlertInv, TasksFit
  <2>2. CASE v = w
    BY <2>1, <2>2, <1>3 DEF TaskFits
  <2>3. CASE v # w
    <3>1. request'[v] = request[v]
      BY <1>2, <2>3
    <3>2. ASSUME task[v].pc = "record"
          PROVE  /\ task[v].row \in IncidentState
                 /\ Follows(task[v].row, alert'[Head(request[v].tasks)])
      <4>1. Head(request[v].tasks) \in Incidents
        BY <3>2, TaskShape DEF Inc
      <4>2. QED
        BY <2>1, <3>2, <4>1 DEF TaskFits, AlertsForward, Rows
    <3>3. QED
      BY <2>1, <1>3, <3>1, <3>2 DEF TaskFits
  <2>4. QED
    BY <2>2, <2>3
<1>5. QED
  BY <1>1, <1>4 DEF TasksFit

\* A step of a handler that claims nothing.
LEMMA HandlerStep ==
    ASSUME AlertInv, NEW w \in Webhooks, request[w].pc # "background", NEW r \in Request,
           request' = [request EXCEPT ![w] = r], RequestFits(r, incident'),
           r.tasks = request[w].tasks,
           RowsFit', RowsRemain, AlertsForward, FaultsGrow, UNCHANGED <<claim, inFlight, task>>
    PROVE  AlertInv'
<1>1. RequestsFit'
  BY RequestStep DEF AlertInv
<1>2. TasksFit'
  BY TasksUnmoved
<1>3. \A v \in Webhooks : request'[v].tasks = request[v].tasks
  BY DEF AlertInv, RequestsFit
<1>4. MarksFit'
  BY <1>3, MarksStay DEF AlertInv
<1>5. QED
  BY <1>1, <1>2, <1>4, ClaimsStay DEF AlertInv

LEMMA ReceiveWebhookKeeps ==
    ASSUME AlertInv, NEW w \in Webhooks, ReceiveWebhook(w)
    PROVE  AlertInv'
<1>1. PICK batch \in Batches[w] :
        request' = [request EXCEPT ![w].pc = "ingest", ![w].events = batch]
  BY DEF ReceiveWebhook
<1>2. batch \in Seq(Events) /\ batch # <<>>
  BY AlertAssumption
<1> DEFINE r == [request[w] EXCEPT !.pc = "ingest", !.events = batch]
<1>3. request[w] \in Request /\ RequestFits(request[w], incident) /\ request[w].pc = "unsent"
  BY RequestShape DEF ReceiveWebhook
<1>4. r \in Request
  BY <1>2, <1>3 DEF Request
<1>5. /\ r.pc = "ingest" /\ r.events = batch /\ r.diagnose = request[w].diagnose
      /\ r.tasks = request[w].tasks
  BY <1>3 DEF Request
<1>6. request' = [request EXCEPT ![w] = r]
  BY <1>1
<1> HIDE DEF r
<1>7. UNCHANGED <<alert, incident, claim, inFlight, task, faults>>
  BY DEF ReceiveWebhook, storeVars
<1>8. FaultsGrow /\ RowsFit' /\ RowsRemain /\ AlertsForward
  BY <1>7, FaultSteps, RowsStay DEF AlertInv, AlertsForward
<1>9. RequestFits(r, incident')
  BY <1>2, <1>3, <1>5, <1>7 DEF RequestFits
<1>10. QED
  BY <1>3, <1>4, <1>5, <1>6, <1>7, <1>8, <1>9, HandlerStep

LEMMA AnsweredFits ==
    ASSUME NEW r \in Request, NEW rows,
           r.events # <<>> => r.tasks = <<>>,
           \A j, k \in DOMAIN r.tasks : r.tasks[j] = r.tasks[k] => j = k,
           \A i \in Incidents :
               Among(i, r.diagnose) \/ Among(i, r.tasks) => rows[i] \in IncidentState
    PROVE  /\ Answered(r) \in Request /\ RequestFits(Answered(r), rows)
           /\ Answered(r).tasks = r.tasks
<1> DEFINE a == Answered(r)
<1>1. /\ a \in Request /\ a.events = r.events /\ a.diagnose = r.diagnose
      /\ a.tasks = r.tasks
      /\ a.pc = IF r.events # <<>> THEN "ingest"
                ELSE IF r.diagnose # <<>> THEN "claim" ELSE "background"
  BY DEF Answered, Request
<1> HIDE DEF a
<1>2. RequestFits(a, rows)
  BY <1>1 DEF RequestFits
<1>3. QED
  BY <1>1, <1>2 DEF a

LEMMA StoredShape ==
    ASSUME NEW r \in Request, r.events # <<>>, NEW a, NEW e \in Events
    PROVE  /\ Stored(r, a, e) \in Request
           /\ Stored(r, a, e).tasks = r.tasks
           /\ \A i : Among(i, Stored(r, a, e).diagnose)
                      => Among(i, r.diagnose) \/ (starts_diagnosis(a, e) /\ i = e.incident)
<1> DEFINE d == IF starts_diagnosis(a, e) THEN Append(r.diagnose, e.incident) ELSE r.diagnose
<1>1. Tail(r.events) \in Seq(Events) /\ r.diagnose \in Seq(Incidents)
  BY DEF Request
<1>2. /\ d \in Seq(Incidents)
      /\ \A i : Among(i, d) => Among(i, r.diagnose) \/ (starts_diagnosis(a, e) /\ i = e.incident)
  <2>1. e.incident \in Incidents
    BY EventShape
  <2>2. CASE ~starts_diagnosis(a, e)
    <3>1. d = r.diagnose
      BY <2>2
    <3> HIDE DEF d
    <3>2. QED
      BY <1>1, <3>1 DEF Among
  <2>3. CASE starts_diagnosis(a, e)
    <3>1. d = Append(r.diagnose, e.incident)
      BY <2>3
    <3> HIDE DEF d
    <3>2. d \in Seq(Incidents)
      BY <1>1, <2>1, <3>1
    <3>3. \A i : Among(i, d) => Among(i, r.diagnose) \/ i = e.incident
      BY <1>1, <2>1, <3>1 DEF Among
    <3>4. QED
      BY <2>3, <3>2, <3>3 DEF Among
  <2>4. QED
    BY <2>2, <2>3
<1>3. Stored(r, a, e) = [r EXCEPT !.events = Tail(r.events), !.diagnose = d]
  BY DEF Stored
<1> HIDE DEF d
<1>4. QED
  BY <1>1, <1>2, <1>3 DEF Request

\* A delivery stores its alert, unless it is stale, and its incident's row.
LEMMA PersistKeeps ==
    ASSUME RowsFit, NEW e \in Events, ~is_stale_alert_event(alert[e.incident], e),
           persist_alert_ingestion(e)
    PROVE  RowsFit' /\ RowsRemain /\ AlertsForward /\ incident'[e.incident] \in IncidentState
<1> DEFINE i == e.incident
           a == [j \in Incidents |-> alert[j]]
           u == build_incident_state_from_alert(e, incident[i])
           m == IF incident[i] = NoIncident THEN u ELSE merge_incident_state(incident[i], u)
<1>1. i \in Incidents
  BY EventShape
<1>2. /\ alert \in [Incidents -> [status : AlertStatuses \cup {"absent"}, startsAt : Nat,
                                  endsAt : Nat]]
      /\ incident \in [Incidents -> Rows]
  BY DEF RowsFit, Rows
<1>3. alert' = [alert EXCEPT ![i] = AlertOf(e)] /\ incident' = [incident EXCEPT ![i] = m]
  BY DEF persist_alert_ingestion, AlertOf
<1>4. u \in IncidentState /\ Follows(u, AlertOf(e))
  BY <1>1, <1>2, AlertRow
<1>5. AlertsForward
  <2> SUFFICES ASSUME NEW j \in Incidents, NEW r \in Rows, Follows(r, alert[j])
               PROVE  Follows(r, alert'[j])
    BY DEF AlertsForward
  <2>1. CASE j = i
    BY <1>1, <1>2, <1>3, <2>1, ForwardFollows
  <2>2. CASE j # i
    BY <1>1, <1>2, <1>3, <2>2
  <2>3. QED
    BY <2>1, <2>2
<1>6. m \in IncidentState /\ Follows(m, AlertOf(e))
  <2>1. CASE incident[i] = NoIncident
    BY <1>4, <2>1
  <2>2. CASE incident[i] # NoIncident
    <3>1. incident[i] \in IncidentState /\ Follows(incident[i], AlertOf(e))
      BY <1>1, <1>2, <2>2, ForwardFollows DEF RowsFit, Rows
    <3>2. QED
      BY <1>4, <2>2, <3>1, EventShape, MergeIsRow, MergeFollows
  <2>3. QED
    BY <2>1, <2>2
<1> HIDE DEF i, u, m
<1>7. /\ incident' \in [Incidents -> Rows] /\ incident'[i] = m
      /\ \A j \in Incidents : j # i => incident'[j] = incident[j]
  BY <1>1, <1>2, <1>3, <1>6 DEF Rows
<1>8. /\ alert' \in [Incidents -> [status : AlertStatuses \cup {"absent"}, startsAt : Nat,
                                   endsAt : Nat]]
      /\ alert'[i] = AlertOf(e)
  BY <1>1, <1>2, <1>3, EventShape
<1>9. \A j \in Incidents : Follows(incident'[j], alert'[j])
  BY <1>2, <1>5, <1>6, <1>7, <1>8 DEF RowsFit, AlertsForward
<1>10. QED
  BY <1>5, <1>6, <1>7, <1>8, <1>9 DEF RowsFit, RowsRemain, Rows, i

LEMMA IngestKeeps ==
    ASSUME AlertInv, NEW w \in Webhooks, Ingest(w)
    PROVE  AlertInv'
<1> DEFINE e == Head(request[w].events)
           a == alert[e.incident]
           s == Stored(request[w], a, e)
<1>1. /\ request[w] \in Request /\ RequestFits(request[w], incident)
      /\ request[w].pc = "ingest" /\ request[w].events \in Seq(Events)
  BY RequestShape DEF Ingest
<1>2. request[w].events # <<>> /\ request[w].tasks = <<>>
  BY <1>1 DEF RequestFits
<1>3. e \in Events
  BY <1>1, <1>2
<1>4. /\ request' = [request EXCEPT ![w] = Answered(s)]
      /\ UNCHANGED <<claim, inFlight, task, faults>>
  BY DEF Ingest
<1>5. IF is_stale_alert_event(a, e) THEN UNCHANGED <<alert, incident>>
                                   ELSE persist_alert_ingestion(e)
  BY DEF Ingest
<1>6. a \in [status : AlertStatuses \cup {"absent"}, startsAt : Nat, endsAt : Nat]
  BY <1>3, EventShape DEF AlertInv, RowsFit
<1>7. starts_diagnosis(a, e) => ~is_stale_alert_event(a, e)
  <2>1. e.startsAt \in Nat /\ e.startsAt # 0 /\ a.startsAt \in Nat
    BY <1>3, <1>6, EventShape
  <2>2. CASE a = NoAlert
    <3>1. a.startsAt = 0
      BY <2>2 DEF NoAlert
    <3>2. QED
      BY <2>1, <3>1 DEF is_stale_alert_event
  <2>3. CASE e.startsAt > a.startsAt
    BY <2>1, <2>3 DEF is_stale_alert_event
  <2>4. QED
    BY <2>2, <2>3 DEF starts_diagnosis, is_new_alert_generation
<1>8. /\ RowsFit' /\ RowsRemain /\ AlertsForward
      /\ starts_diagnosis(a, e) => incident'[e.incident] \in IncidentState
  <2>1. CASE is_stale_alert_event(a, e)
    BY <1>5, <1>7, <2>1, RowsStay DEF AlertInv, AlertsForward
  <2>2. CASE ~is_stale_alert_event(a, e)
    BY <1>3, <1>5, <2>2, PersistKeeps DEF AlertInv
  <2>3. QED
    BY <2>1, <2>2
<1>9. FaultsGrow
  BY <1>4, FaultSteps DEF AlertInv
<1> HIDE DEF e, a
<1>10. /\ s \in Request /\ s.tasks = <<>>
       /\ \A i : Among(i, s.diagnose)
                  => Among(i, request[w].diagnose) \/ (starts_diagnosis(a, e) /\ i = e.incident)
  <2>1. /\ Stored(request[w], a, e) \in Request
        /\ Stored(request[w], a, e).tasks = request[w].tasks
        /\ \A i : Among(i, Stored(request[w], a, e).diagnose)
                  => Among(i, request[w].diagnose) \/ (starts_diagnosis(a, e) /\ i = e.incident)
    BY <1>1, <1>2, <1>3, StoredShape
  <2>2. QED
    BY <1>2, <2>1
<1> HIDE DEF s
<1>11. \A i \in Incidents :
          Among(i, s.diagnose) \/ Among(i, s.tasks) => incident'[i] \in IncidentState
  <2>1. \A i \in Incidents : ~Among(i, s.tasks)
    BY <1>10 DEF Among
  <2>2. QED
    BY <1>1, <1>8, <1>10, <2>1 DEF RequestFits, RowsRemain
<1>12. \A j, k \in DOMAIN s.tasks : s.tasks[j] = s.tasks[k] => j = k
  BY <1>10
<1>13. /\ Answered(s) \in Request /\ RequestFits(Answered(s), incident')
       /\ Answered(s).tasks = request[w].tasks
  BY <1>2, <1>10, <1>11, <1>12, AnsweredFits
<1>14. QED
  BY <1>1, <1>4, <1>8, <1>9, <1>13, HandlerStep

LEMMA IngestFailsKeeps ==
    ASSUME AlertInv, NEW w \in Webhooks, IngestFails(w)
    PROVE  AlertInv'
<1> DEFINE r == [request[w] EXCEPT !.pc = "done", !.events = <<>>, !.diagnose = <<>>]
<1>1. request[w] \in Request /\ RequestFits(request[w], incident) /\ request[w].pc = "ingest"
  BY RequestShape DEF IngestFails
<1>2. /\ r \in Request /\ r.pc = "done" /\ r.diagnose = <<>>
      /\ r.tasks = request[w].tasks
  BY <1>1, EmptyType DEF Request
<1>3. /\ request' = [request EXCEPT ![w] = r] /\ StoreRaises
      /\ UNCHANGED <<alert, incident, claim, inFlight, task>>
  BY DEF IngestFails, storeVars
<1> HIDE DEF r
<1>4. FaultsGrow /\ RowsFit' /\ RowsRemain /\ AlertsForward
  BY <1>3, FaultSteps, RowsStay DEF AlertInv, AlertsForward
<1>5. RequestFits(r, incident')
  BY <1>1, <1>2, <1>3 DEF RequestFits, Among
<1>6. QED
  BY <1>1, <1>2, <1>3, <1>4, <1>5, HandlerStep

\* The rest of a handler's claims, after the incident it comes to next.
LEMMA ClaimShape ==
    ASSUME AlertInv, NEW w \in Webhooks, request[w].pc = "claim"
    PROVE  LET i == Head(request[w].diagnose)
               rest == [request[w] EXCEPT !.diagnose = Tail(request[w].diagnose)]
           IN  /\ i \in Incidents /\ incident[i] \in IncidentState
               /\ rest \in Request /\ rest.events = <<>> /\ rest.tasks = request[w].tasks
               /\ \A j \in Incidents : Among(j, rest.diagnose) => Among(j, request[w].diagnose)
               /\ \A j, k \in DOMAIN rest.tasks : rest.tasks[j] = rest.tasks[k] => j = k
<1> DEFINE d == request[w].diagnose
           i == Head(d)
           rest == [request[w] EXCEPT !.diagnose = Tail(d)]
<1>1. /\ request[w] \in Request /\ RequestFits(request[w], incident)
      /\ d \in Seq(Incidents) /\ d # <<>> /\ request[w].events = <<>>
  BY RequestShape DEF RequestFits
<1>2. /\ rest \in Request /\ rest.events = <<>> /\ rest.tasks = request[w].tasks
      /\ rest.diagnose = Tail(d)
  <2>1. Tail(d) \in Seq(Incidents)
    <3> HIDE DEF d
    <3>1. QED
      BY <1>1
  <2> HIDE DEF d
  <2>2. QED
    BY <1>1, <2>1 DEF Request
<1>3. i \in Incidents /\ Among(i, d)
  <2> HIDE DEF d
  <2>1. 1 \in DOMAIN d /\ d[1] = Head(d) /\ Head(d) \in Incidents
    BY <1>1
  <2>2. QED
    BY <2>1 DEF Among
<1>4. \A j : Among(j, Tail(d)) => Among(j, d)
  <2> HIDE DEF d
  <2>1. ASSUME NEW j, NEW k \in DOMAIN Tail(d), Tail(d)[k] = j
        PROVE  k + 1 \in DOMAIN d /\ d[k + 1] = j
    BY <1>1, <2>1
  <2>2. QED
    BY <2>1 DEF Among
<1>5. incident[i] \in IncidentState
  BY <1>1, <1>3 DEF RequestFits
<1>6. \A j, k \in DOMAIN rest.tasks : rest.tasks[j] = rest.tasks[k] => j = k
  BY <1>1, <1>2 DEF RequestFits
<1> HIDE DEF rest, i, d
<1>7. QED
  BY <1>2, <1>3, <1>4, <1>5, <1>6 DEF i, rest, d

\* An incident that is not claimed leaves the handler's rest.
LEMMA UnclaimedKeeps ==
    ASSUME AlertInv, NEW w \in Webhooks, request[w].pc = "claim",
           request' = [request EXCEPT ![w] =
               Answered([request[w] EXCEPT !.diagnose = Tail(request[w].diagnose)])],
           UNCHANGED <<alert, incident, claim, inFlight, task>>, FaultsGrow
    PROVE  AlertInv'
<1> DEFINE rest == [request[w] EXCEPT !.diagnose = Tail(request[w].diagnose)]
<1>1. /\ rest \in Request /\ rest.events = <<>> /\ rest.tasks = request[w].tasks
      /\ \A j \in Incidents : Among(j, rest.diagnose) => Among(j, request[w].diagnose)
      /\ \A j, k \in DOMAIN rest.tasks : rest.tasks[j] = rest.tasks[k] => j = k
  BY ClaimShape
<1>2. request' = [request EXCEPT ![w] = Answered(rest)]
  OBVIOUS
<1> HIDE DEF rest
<1>3. RequestFits(request[w], incident)
  BY RequestShape
<1>4. \A j \in Incidents :
          Among(j, rest.diagnose) \/ Among(j, rest.tasks) => incident'[j] \in IncidentState
  BY <1>1, <1>3 DEF RequestFits
<1>5. /\ Answered(rest) \in Request /\ RequestFits(Answered(rest), incident')
      /\ Answered(rest).tasks = request[w].tasks
  BY <1>1, <1>4, AnsweredFits
<1>6. RowsFit' /\ RowsRemain /\ AlertsForward
  BY RowsStay DEF AlertInv, AlertsForward
<1>7. QED
  BY <1>2, <1>5, <1>6, HandlerStep

\* Of an incident's row only the diagnosis status changes.
LEMMA DiagRow ==
    ASSUME NEW r \in IncidentState, NEW a, Follows(r, a), NEW d \in {"idle", "running"}
    PROVE  [r EXCEPT !.diag = d] \in IncidentState /\ Follows([r EXCEPT !.diag = d], a)
<1> DEFINE u == [r EXCEPT !.diag = d]
<1>1. u \in IncidentState
  BY DEF IncidentState
<1>2. u.startsAt = r.startsAt /\ u.alertStatus = r.alertStatus
  BY DEF IncidentState
<1> HIDE DEF u
<1>3. Follows(u, a)
  BY <1>2 DEF Follows
<1>4. QED
  BY <1>1, <1>3 DEF u

LEMMA NowHeld ==
    ASSUME NEW w \in Webhooks
    PROVE  /\ [token |-> w, age |-> 0] \in [token : Webhooks \cup {"", "absent"}, age : 0..Lease]
           /\ [token |-> "", age |-> Lease]
                 \in [token : Webhooks \cup {"", "absent"}, age : 0..Lease]
<1>1. 0 \in 0..Lease /\ Lease \in 0..Lease
  BY ConstantTypes
<1>2. QED
  BY <1>1

\* The incident is claimed, marked and scheduled.
LEMMA ClaimedKeeps ==
    ASSUME AlertInv, NEW w \in Webhooks, request[w].pc = "claim",
           NEW i, i = Head(request[w].diagnose), NEW p, p = ProcessOf[w],
           i \notin inFlight[p], claim_alert_auto_diagnosis(w, i),
           inFlight' = [inFlight EXCEPT ![p] = @ \cup {i}],
           NEW rest, rest = [request[w] EXCEPT !.diagnose = Tail(request[w].diagnose)],
           request' = [request EXCEPT ![w] =
                          Answered([rest EXCEPT !.tasks = Append(rest.tasks, i)])],
           UNCHANGED <<alert, task, faults>>
    PROVE  AlertInv'
<1> DEFINE old == request[w].tasks
           r == [rest EXCEPT !.tasks = Append(rest.tasks, i)]
<1>1. /\ i \in Incidents /\ incident[i] \in IncidentState
      /\ rest \in Request /\ rest.events = <<>> /\ rest.tasks = old
      /\ \A j \in Incidents : Among(j, rest.diagnose) => Among(j, request[w].diagnose)
      /\ \A j, k \in DOMAIN old : old[j] = old[k] => j = k
  BY ClaimShape
<1>2. p \in Processes
  BY AlertAssumption
<1>3. old \in Seq(Incidents) /\ RequestFits(request[w], incident)
  BY RequestShape
<1>4. ~Among(i, old)
  BY <1>1 DEF AlertInv, MarksFit
<1>5. /\ r \in Request /\ r.events = <<>> /\ r.diagnose = rest.diagnose
      /\ r.tasks = Append(old, i)
  <2>1. Append(old, i) \in Seq(Incidents)
    BY <1>1, <1>3
  <2> HIDE DEF old
  <2>2. QED
    BY <1>1, <2>1 DEF Request
<1>6. request' = [request EXCEPT ![w] = Answered(r)]
  OBVIOUS
<1> HIDE DEF r, old
<1>7. \A j : Among(j, r.tasks) <=> Among(j, old) \/ j = i
  <2> DEFINE new == Append(old, i)
             n == Len(old)
  <2>1. /\ n \in Nat /\ DOMAIN old = 1..n /\ DOMAIN new = 1..(n + 1) /\ new[n + 1] = i
        /\ \A k \in 1..n : new[k] = old[k]
    BY <1>1, <1>3
  <2> HIDE DEF new, n
  <2>2. \A j : Among(j, new) <=> Among(j, old) \/ j = i
    BY <2>1 DEF Among
  <2>3. QED
    BY <1>5, <2>2 DEF new
<1>8. \A j, k \in DOMAIN r.tasks : r.tasks[j] = r.tasks[k] => j = k
  <2> DEFINE new == Append(old, i)
             n == Len(old)
  <2>1. /\ n \in Nat /\ DOMAIN old = 1..n /\ DOMAIN new = 1..(n + 1) /\ new[n + 1] = i
        /\ \A k \in 1..n : new[k] = old[k]
    BY <1>1, <1>3
  <2> HIDE DEF new, n
  <2>2. \A k \in 1..n : old[k] # i
    BY <1>4, <2>1 DEF Among
  <2>3. \A j, k \in 1..n : old[j] = old[k] => j = k
    BY <1>1, <2>1
  <2>4. \A j, k \in DOMAIN new : new[j] = new[k] => j = k
    BY <2>1, <2>2, <2>3
  <2>5. QED
    BY <1>5, <2>4 DEF new
<1>9. RowsFit' /\ RowsRemain
  <2>1. Follows(incident[i], alert[i])
    BY <1>1 DEF AlertInv, RowsFit
  <2>2. incident' = [incident EXCEPT ![i] = [incident[i] EXCEPT !.diag = "running"]]
    BY DEF claim_alert_auto_diagnosis
  <2>3. QED
    BY <1>1, <2>1, <2>2, DiagRow, RowStep DEF AlertInv
<1>10. ClaimsFit'
  BY <1>1, NowHeld, ClaimStep DEF AlertInv, claim_alert_auto_diagnosis
<1>11. AlertsForward /\ FaultsGrow
  BY FaultSteps DEF AlertInv, AlertsForward
<1>12. \A j \in Incidents :
          Among(j, r.diagnose) \/ Among(j, r.tasks) => incident'[j] \in IncidentState
  BY <1>1, <1>3, <1>5, <1>7, <1>9 DEF RequestFits, RowsRemain, old
<1>13. /\ Answered(r) \in Request /\ RequestFits(Answered(r), incident')
       /\ Answered(r).tasks = r.tasks
  BY <1>5, <1>8, <1>12, AnsweredFits
<1>14. RequestsFit' /\ TasksFit'
  BY <1>6, <1>9, <1>11, <1>13, RequestStep, TasksUnmoved DEF AlertInv
<1>15. /\ inFlight' \in [Processes -> SUBSET Incidents] /\ inFlight'[p] = inFlight[p] \cup {i}
       /\ \A q \in Processes : q # p => inFlight'[q] = inFlight[q]
  BY <1>1, <1>2 DEF AlertInv, MarksFit
<1>16. \A v \in Webhooks : \A j :
          Among(j, request'[v].tasks) <=> Among(j, request[v].tasks) \/ (v = w /\ j = i)
  BY <1>6, <1>7, <1>13 DEF AlertInv, RequestsFit, old
<1>17. \A v \in Webhooks, j \in Incidents :
          Among(j, request'[v].tasks) => j \in inFlight'[ProcessOf[v]]
  <2>1. \A v \in Webhooks : ProcessOf[v] \in Processes
    BY AlertAssumption
  <2>2. QED
    BY <1>15, <1>16, <2>1 DEF AlertInv, MarksFit
<1>18. ASSUME NEW v \in Webhooks, NEW u \in Webhooks, NEW j \in Incidents,
              ProcessOf[v] = ProcessOf[u],
              Among(j, request'[v].tasks), Among(j, request'[u].tasks)
       PROVE  v = u
  <2>1. Among(i, request[v].tasks) \/ Among(i, request[u].tasks) => ProcessOf[v] # p
    BY <1>1, <1>18 DEF AlertInv, MarksFit
  <2>2. QED
    BY <1>16, <1>18, <2>1 DEF AlertInv, MarksFit
<1>19. ASSUME NEW q \in Processes, NEW j \in inFlight'[q]
       PROVE  \/ \E v \in Webhooks : ProcessOf[v] = q /\ Among(j, request'[v].tasks)
              \/ faults' > 0
  <2>1. CASE j \in inFlight[q]
    <3>1. \/ \E v \in Webhooks : ProcessOf[v] = q /\ Among(j, request[v].tasks)
          \/ faults > 0
      BY <2>1 DEF AlertInv, MarksFit
    <3>2. QED
      BY <1>16, <3>1
  <2>2. CASE j \notin inFlight[q]
    <3>1. q = p /\ j = i
      BY <1>15, <1>19, <2>2
    <3>2. QED
      BY <1>16, <3>1
  <2>3. QED
    BY <2>1, <2>2
<1>20. MarksFit'
  BY <1>15, <1>17, <1>18, <1>19 DEF MarksFit
<1>21. QED
  BY <1>9, <1>10, <1>14, <1>20 DEF AlertInv

LEMMA ClaimKeeps ==
    ASSUME AlertInv, NEW w \in Webhooks, Claim(w)
    PROVE  AlertInv'
<1> DEFINE i == Head(request[w].diagnose)
           p == ProcessOf[w]
           rest == [request[w] EXCEPT !.diagnose = Tail(request[w].diagnose)]
<1>1. request[w].pc = "claim" /\ UNCHANGED <<alert, task>>
  BY DEF Claim
<1>2. rest.tasks = request[w].tasks
  BY <1>1, ClaimShape
<1>3. CASE /\ request' = [request EXCEPT ![w] = Answered(rest)]
           /\ UNCHANGED <<incident, claim, inFlight, faults>>
  <2>1. FaultsGrow
    BY <1>3, FaultSteps DEF AlertInv
  <2>2. QED
    BY <1>1, <1>3, <2>1, UnclaimedKeeps
<1>4. CASE /\ i \notin inFlight[p] /\ claim_alert_auto_diagnosis(w, i)
           /\ inFlight' = [inFlight EXCEPT ![p] = @ \cup {i}]
           /\ request' = [request EXCEPT ![w] = Answered([rest EXCEPT !.tasks = Append(@, i)])]
           /\ UNCHANGED faults
  <2>1. request' = [request EXCEPT ![w] =
                       Answered([rest EXCEPT !.tasks = Append(rest.tasks, i)])]
    BY <1>4
  <2> HIDE DEF i, p, rest
  <2>2. QED
    BY <1>1, <1>4, <2>1, ClaimedKeeps DEF i, p, rest
<1>5. CASE /\ i \notin inFlight[p]
           /\ (alert_auto_diagnosis_claim_is_active(i) /\ UNCHANGED faults) \/ StoreRaises
           /\ inFlight' = [inFlight EXCEPT ![p] = unclaimed(p, i)]
           /\ request' = [request EXCEPT ![w] = Answered(rest)]
           /\ UNCHANGED <<incident, claim>>
  <2>1. FaultsGrow
    BY <1>5, FaultSteps DEF AlertInv
  <2>2. p \in Processes
    BY AlertAssumption
  <2>3. unclaimed(p, i) = inFlight[p]
    BY <1>5 DEF unclaimed
  <2>4. inFlight' = inFlight
    BY <1>5, <2>2, <2>3 DEF AlertInv, MarksFit
  <2>5. QED
    BY <1>1, <1>5, <2>1, <2>4, UnclaimedKeeps
<1>6. QED
  BY <1>3, <1>4, <1>5 DEF Claim

-----------------------------------------------------------------------------
(* The background tasks *)

\* A step of the task of w that leaves its request's tasks and marks.
LEMMA WorkStep ==
    ASSUME AlertInv, NEW w \in Webhooks, NEW t \in Task, task' = [task EXCEPT ![w] = t],
           TaskFits(t, request[w], alert, faults'), UNCHANGED <<alert, inFlight, request>>,
           RowsFit', RowsRemain, ClaimsFit', FaultsGrow
    PROVE  AlertInv'
<1>1. RequestsFit'
  BY RequestsStay DEF AlertInv
<1>2. TasksFit'
  BY TaskStep DEF AlertInv
<1>3. MarksFit'
  BY MarksStay DEF AlertInv
<1>4. QED
  BY <1>1, <1>2, <1>3 DEF AlertInv

LEMMA WorkShape ==
    ASSUME AlertInv, NEW w \in Webhooks
    PROVE  /\ task \in [Webhooks -> Task] /\ task[w] \in Task
           /\ TaskFits(task[w], request[w], alert, faults)
           /\ FaultsGrow => TaskFits(task[w], request[w], alert, faults')
<1>1. task \in [Webhooks -> Task] /\ TaskFits(task[w], request[w], alert, faults)
  BY DEF AlertInv, TasksFit
<1>2. faults > 0 /\ FaultsGrow => faults' > 0
  BY ConstantTypes DEF FaultsGrow, TasksFit, AlertInv
<1>3. QED
  BY <1>1, <1>2 DEF TaskFits

\* A task that moves on to another step than its failure record.
LEMMA MoveKeeps ==
    ASSUME AlertInv, NEW w \in Webhooks, request[w].pc = "background", request[w].tasks # <<>>,
           NEW pc \in {"create", "run", "read", "release"}, NEW age \in 0..Lease,
           task' = [task EXCEPT ![w] = [task[w] EXCEPT !.pc = pc, !.age = age]],
           UNCHANGED <<alert, inFlight, request, faults>>, RowsFit', RowsRemain, ClaimsFit'
    PROVE  AlertInv'
<1> DEFINE t == [task[w] EXCEPT !.pc = pc, !.age = age]
<1>1. task[w] \in Task /\ TaskFits(task[w], request[w], alert, faults)
  BY WorkShape
<1>2. t \in Task /\ t.pc = pc /\ t.raised = task[w].raised
  BY <1>1 DEF Task
<1>3. FaultsGrow
  BY FaultSteps DEF AlertInv
<1>4. task' = [task EXCEPT ![w] = t]
  OBVIOUS
<1> HIDE DEF t
<1>5. TaskFits(t, request[w], alert, faults')
  BY <1>1, <1>2 DEF TaskFits
<1>6. QED
  BY <1>2, <1>3, <1>4, <1>5, WorkStep

\* Moving on without setting the age.
LEMMA SameAge ==
    ASSUME AlertInv, NEW w \in Webhooks, NEW pc, task' = [task EXCEPT ![w].pc = pc]
    PROVE  /\ task' = [task EXCEPT ![w] = [task[w] EXCEPT !.pc = pc, !.age = task[w].age]]
           /\ task[w].age \in 0..Lease
<1>1. task \in [Webhooks -> Task] /\ task[w] \in Task
  BY WorkShape
<1>2. [task[w] EXCEPT !.pc = pc] = [task[w] EXCEPT !.pc = pc, !.age = task[w].age]
  BY <1>1 DEF Task
<1>3. task[w].age \in 0..Lease
  BY <1>1 DEF Task
<1>4. QED
  BY <1>2, <1>3

LEMMA BeginTaskKeeps ==
    ASSUME AlertInv, NEW w \in Webhooks, BeginTask(w)
    PROVE  AlertInv'
<1>1. /\ request[w].pc = "background" /\ request[w].tasks # <<>>
      /\ task' = [task EXCEPT ![w].pc = "create"]
      /\ UNCHANGED <<alert, incident, claim, inFlight, request, faults>>
  BY DEF BeginTask, storeVars
<1>2. RowsFit' /\ RowsRemain /\ ClaimsFit'
  BY <1>1, RowsStay, ClaimsStay DEF AlertInv
<1>3. QED
  BY <1>1, <1>2, SameAge, MoveKeeps

\* What a diagnosis writes into the incident of its task keeps the rows.
LEMMA RunWritesKeeps ==
    ASSUME AlertInv, NEW w \in Webhooks, task[w].pc # "idle", UNCHANGED alert,
           NEW s \in REPORT_ONLY_STATUSES \cup {"diagnosing"}, RunWrites(Inc(w), s)
    PROVE  RowsFit' /\ RowsRemain
<1> DEFINE i == Inc(w)
           u == PlainUpdate(s, "aiops_state", FALSE)
           m == merge_incident_state(incident[i], u)
<1>1. /\ i \in Incidents /\ incident[i] \in IncidentState /\ Follows(incident[i], alert[i])
      /\ alert[i] \in [status : AlertStatuses \cup {"absent"}, startsAt : Nat, endsAt : Nat]
  BY TaskShape
<1>2. u \in IncidentState /\ Follows(u, alert[i])
  BY <1>1, PlainRow
<1>3. incident' = [incident EXCEPT ![i] = m]
  BY DEF RunWrites
<1> HIDE DEF u, i
<1>4. m \in IncidentState /\ Follows(m, alert[i])
  BY <1>1, <1>2, MergeIsRow, MergeFollows
<1>5. QED
  BY <1>1, <1>3, <1>4, RowStep DEF AlertInv

LEMMA CreateSessionKeeps ==
    ASSUME AlertInv, NEW w \in Webhooks, CreateSession(w)
    PROVE  AlertInv'
<1> DEFINE i == Inc(w)
           u == PlainUpdate("diagnosing", "aiops_state", FALSE)
<1>1. /\ task[w].pc = "create" /\ task' = [task EXCEPT ![w].pc = "run"]
      /\ incident' = [incident EXCEPT ![i] = u] /\ claim' = [claim EXCEPT ![i] = NoClaim]
      /\ UNCHANGED <<alert, inFlight, request, faults>>
  BY DEF CreateSession, At, Goto
<1>2. /\ request[w].pc = "background" /\ request[w].tasks # <<>> /\ i \in Incidents
      /\ alert[i] \in [status : AlertStatuses \cup {"absent"}, startsAt : Nat, endsAt : Nat]
  BY <1>1, TaskShape
<1>3. u \in IncidentState /\ Follows(u, alert[i])
  BY <1>2, PlainRow
<1> HIDE DEF u, i
<1>4. RowsFit' /\ RowsRemain
  BY <1>1, <1>2, <1>3, RowStep DEF AlertInv
<1>5. ClaimsFit'
  BY <1>1, <1>2, NoTaskType, ClaimStep DEF AlertInv
<1>6. QED
  BY <1>1, <1>2, <1>4, <1>5, SameAge, MoveKeeps

LEMMA SaveProgressKeeps ==
    ASSUME AlertInv, NEW w \in Webhooks, SaveProgress(w)
    PROVE  AlertInv'
<1>1. /\ task[w].pc = "run" /\ RunWrites(Inc(w), "diagnosing")
      /\ UNCHANGED <<alert, claim, inFlight, request, task, faults>>
  BY DEF SaveProgress, At
<1>2. RowsFit' /\ RowsRemain
  BY <1>1, RunWritesKeeps
<1>3. FaultsGrow /\ ClaimsFit'
  BY <1>1, FaultSteps, ClaimsStay DEF AlertInv
<1>4. QED
  BY <1>1, <1>2, <1>3, RequestsStay, TasksStay, MarksStay DEF AlertInv

\* A run that ends leaves its task in pc with a fresh age.
LEMMA LeaveKeeps ==
    ASSUME AlertInv, NEW w \in Webhooks, task[w].pc \in {"create", "run"},
           NEW s \in REPORT_ONLY_STATUSES, RunWrites(Inc(w), s),
           NEW pc \in {"read", "release"}, Leave(w, pc),
           UNCHANGED <<alert, claim, inFlight, request, faults>>
    PROVE  AlertInv'
<1>1. RowsFit' /\ RowsRemain
  BY RunWritesKeeps
<1>2. ClaimsFit'
  BY ClaimsStay DEF AlertInv
<1>3. request[w].pc = "background" /\ request[w].tasks # <<>>
  BY TaskShape
<1>4. 0 \in 0..Lease
  BY ConstantTypes
<1>5. task' = [task EXCEPT ![w] = [task[w] EXCEPT !.pc = pc, !.age = 0]]
  BY DEF Leave
<1>6. QED
  BY <1>1, <1>2, <1>3, <1>4, <1>5, MoveKeeps

LEMMA EndRunKeeps ==
    ASSUME AlertInv, NEW w \in Webhooks, EndRun(w)
    PROVE  AlertInv'
<1>1. /\ task[w].pc \in {"create", "run"} /\ Leave(w, "release")
      /\ UNCHANGED <<alert, claim, inFlight, request, faults>>
  BY DEF EndRun
<1>2. PICK s \in Outcomes \cup {"failed"} : RunWrites(Inc(w), s)
  BY DEF EndRun
<1>3. s \in REPORT_ONLY_STATUSES
  BY <1>2, AlertAssumption DEF REPORT_ONLY_STATUSES
<1>4. QED
  BY <1>1, <1>2, <1>3, LeaveKeeps

LEMMA TimeoutKeeps ==
    ASSUME AlertInv, NEW w \in Webhooks, Timeout(w)
    PROVE  AlertInv'
BY LeaveKeeps DEF Timeout, REPORT_ONLY_STATUSES

LEMMA ReadForRecordKeeps ==
    ASSUME AlertInv, NEW w \in Webhooks, ReadForRecord(w)
    PROVE  AlertInv'
<1> DEFINE i == Inc(w)
           t == [task[w] EXCEPT !.pc = "record", !.row = incident[i], !.held = claim[i]]
<1>1. /\ task[w].pc = "read"
      /\ UNCHANGED <<alert, incident, claim, inFlight, request, faults>>
  BY DEF ReadForRecord, At, storeVars
<1>2. task \in [Webhooks -> Task] /\ task[w] \in Task
      /\ TaskFits(task[w], request[w], alert, faults)
  BY WorkShape
<1>3. task' = [task EXCEPT ![w] = t]
  BY <1>2 DEF ReadForRecord, Task
<1>4. /\ i \in Incidents /\ incident[i] \in IncidentState /\ Follows(incident[i], alert[i])
      /\ request[w].pc = "background" /\ request[w].tasks # <<>> /\ i = Head(request[w].tasks)
  BY <1>1, TaskShape DEF Inc
<1>5. claim[i] \in [token : Webhooks \cup {"", "absent"}, age : 0..Lease]
  BY <1>4 DEF AlertInv, ClaimsFit
<1> HIDE DEF i
<1>6. t \in Task /\ t.pc = "record" /\ t.row = incident[i] /\ t.raised = task[w].raised
  BY <1>2, <1>4, <1>5 DEF Task
<1> HIDE DEF t
<1>7. TaskFits(t, request[w], alert, faults')
  BY <1>1, <1>2, <1>4, <1>6 DEF TaskFits
<1>8. FaultsGrow /\ RowsFit' /\ RowsRemain /\ ClaimsFit'
  BY <1>1, FaultSteps, RowsStay, ClaimsStay DEF AlertInv
<1>9. QED
  BY <1>1, <1>3, <1>6, <1>7, <1>8, WorkStep

\* A task that has written its failure record, or failed to.
LEMMA RecordedFits ==
    ASSUME NEW b \in BOOLEAN, NEW r, r.pc = "background", r.tasks # <<>>, NEW a, NEW n,
           b => n > 0
    PROVE  /\ [NoTask EXCEPT !.pc = "release", !.raised = b] \in Task
           /\ TaskFits([NoTask EXCEPT !.pc = "release", !.raised = b], r, a, n)
<1> DEFINE t == [NoTask EXCEPT !.pc = "release", !.raised = b]
<1>1. t \in Task /\ t.pc = "release" /\ t.raised = b
  BY NoTaskType DEF Task
<1> HIDE DEF t
<1>2. TaskFits(t, r, a, n)
  BY <1>1 DEF TaskFits
<1>3. QED
  BY <1>1, <1>2 DEF t

LEMMA RecordFailureKeeps ==
    ASSUME AlertInv, NEW w \in Webhooks, RecordFailure(w)
    PROVE  AlertInv'
<1> DEFINE i == Inc(w)
           u == failure_state(task[w].row)
           m == merge_incident_state(incident[i], u)
           t(b) == [NoTask EXCEPT !.pc = "release", !.raised = b]
<1>1. task[w].pc = "record" /\ UNCHANGED <<alert, inFlight, request>>
  BY DEF RecordFailure, At
<1>2. /\ i \in Incidents /\ incident[i] \in IncidentState /\ Follows(incident[i], alert[i])
      /\ request[w].pc = "background" /\ request[w].tasks # <<>> /\ i = Head(request[w].tasks)
      /\ alert[i] \in [status : AlertStatuses \cup {"absent"}, startsAt : Nat, endsAt : Nat]
  BY <1>1, TaskShape DEF Inc
<1>3. task[w] \in Task /\ task[w].row \in IncidentState /\ Follows(task[w].row, alert[i])
  BY <1>1, <1>2, WorkShape DEF TaskFits
<1>4. u \in IncidentState /\ Follows(u, alert[i])
  BY <1>2, <1>3, FailureRow
<1>5. m \in IncidentState /\ Follows(m, alert[i])
  BY <1>2, <1>4, MergeIsRow, MergeFollows
<1>6. CASE /\ incident' = [incident EXCEPT ![i] = m]
           /\ claim' = [claim EXCEPT ![i] =
                  IF /\ is_incident_status_transition_allowed(incident[i], u)
                     /\ task[w].held.token # "absent"
                    THEN task[w].held ELSE @]
           /\ task' = [task EXCEPT ![w] = [NoTask EXCEPT !.pc = "release"]]
           /\ UNCHANGED faults
  <2> DEFINE c == IF /\ is_incident_status_transition_allowed(incident[i], u)
                     /\ task[w].held.token # "absent"
                    THEN task[w].held ELSE claim[i]
  <2>1. RowsFit' /\ RowsRemain
    <3> HIDE DEF m, i
    <3>1. QED
      BY <1>1, <1>2, <1>5, <1>6, RowStep DEF AlertInv
  <2>2. ClaimsFit'
    <3>1. task[w].held \in [token : Webhooks \cup {"", "absent"}, age : 0..Lease]
      BY <1>3 DEF Task
    <3>2. claim[i] \in [token : Webhooks \cup {"", "absent"}, age : 0..Lease]
      BY <1>2 DEF AlertInv, ClaimsFit
    <3>3. c \in [token : Webhooks \cup {"", "absent"}, age : 0..Lease]
      BY <3>1, <3>2
    <3>4. claim' = [claim EXCEPT ![i] = c]
      BY <1>6
    <3> HIDE DEF c, i
    <3>5. QED
      BY <1>2, <3>3, <3>4, ClaimStep DEF AlertInv
  <2>3. FaultsGrow
    BY <1>6, FaultSteps DEF AlertInv
  <2>4. task' = [task EXCEPT ![w] = t(FALSE)]
    <3>1. NoTask \in Task /\ NoTask.raised = FALSE
      BY NoTaskType DEF NoTask
    <3>2. [NoTask EXCEPT !.pc = "release"] = t(FALSE)
      BY <3>1 DEF Task
    <3>3. QED
      BY <1>6, <3>2
  <2>5. t(FALSE) \in Task /\ TaskFits(t(FALSE), request[w], alert, faults')
    BY <1>2, RecordedFits
  <2> HIDE DEF t
  <2>6. QED
    BY <1>1, <2>1, <2>2, <2>3, <2>4, <2>5, WorkStep
<1>7. CASE /\ StoreRaises
           /\ task' = [task EXCEPT ![w] = [NoTask EXCEPT !.pc = "release", !.raised = TRUE]]
           /\ UNCHANGED <<incident, claim>>
  <2>1. RowsFit' /\ RowsRemain /\ ClaimsFit' /\ FaultsGrow
    BY <1>1, <1>7, FaultSteps, RowsStay, ClaimsStay DEF AlertInv
  <2>2. faults' > 0
    BY <1>7, ConstantTypes DEF StoreRaises, AlertInv, TasksFit
  <2>3. t(TRUE) \in Task /\ TaskFits(t(TRUE), request[w], alert, faults')
    BY <1>2, <2>2, RecordedFits
  <2>4. task' = [task EXCEPT ![w] = t(TRUE)]
    BY <1>7
  <2> HIDE DEF t
  <2>5. QED
    BY <1>1, <2>1, <2>3, <2>4, WorkStep
<1>8. QED
  BY <1>6, <1>7 DEF RecordFailure

\* What is left of a request's tasks when its first one is over.
LEMMA RestShape ==
    ASSUME NEW s \in Seq(Incidents), s # <<>>, \A j, k \in DOMAIN s : s[j] = s[k] => j = k
    PROVE  /\ Tail(s) \in Seq(Incidents)
           /\ \A i : Among(i, Tail(s)) <=> Among(i, s) /\ i # Head(s)
           /\ \A j, k \in DOMAIN Tail(s) : Tail(s)[j] = Tail(s)[k] => j = k
<1> DEFINE n == Len(s)
           t == Tail(s)
<1>1. /\ t \in Seq(Incidents) /\ n \in Nat /\ n >= 1 /\ DOMAIN s = 1..n /\ DOMAIN t = 1..(n - 1)
      /\ Head(s) = s[1] /\ \A k \in 1..(n - 1) : t[k] = s[k + 1]
  OBVIOUS
<1> HIDE DEF n, t
<1>2. ASSUME NEW i, Among(i, t) PROVE Among(i, s) /\ i # Head(s)
  <2>1. PICK k \in 1..(n - 1) : t[k] = i
    BY <1>1, <1>2 DEF Among
  <2>2. k + 1 \in 1..n /\ 1 \in 1..n /\ k + 1 # 1 /\ s[k + 1] = i
    BY <1>1, <2>1
  <2>3. s[1] # s[k + 1]
    BY <1>1, <2>2
  <2>4. QED
    BY <1>1, <2>2, <2>3 DEF Among
<1>3. ASSUME NEW i, Among(i, s), i # Head(s) PROVE Among(i, t)
  <2>1. PICK k \in 1..n : s[k] = i
    BY <1>1, <1>3 DEF Among
  <2>2. k # 1 /\ k - 1 \in 1..(n - 1) /\ (k - 1) + 1 = k
    BY <1>1, <1>3, <2>1
  <2>3. t[k - 1] = s[(k - 1) + 1]
    BY <1>1, <2>2
  <2>4. k - 1 \in DOMAIN t /\ t[k - 1] = i
    BY <1>1, <2>1, <2>2, <2>3
  <2>5. QED
    BY <2>4 DEF Among
<1>4. ASSUME NEW j \in DOMAIN t, NEW k \in DOMAIN t, t[j] = t[k] PROVE j = k
  <2>1. j + 1 \in 1..n /\ k + 1 \in 1..n /\ s[j + 1] = s[k + 1]
    BY <1>1, <1>4
  <2>2. j + 1 = k + 1
    BY <1>1, <2>1
  <2>3. QED
    BY <1>1, <2>2
<1>5. QED
  BY <1>1, <1>2, <1>3, <1>4 DEF t

\* The rows and claims after a release, whether or not there was a claim to give up.
LEMMA ReleaseWrites ==
    ASSUME AlertInv, NEW w \in Webhooks, Release(w)
    PROVE  RowsFit' /\ RowsRemain /\ ClaimsFit' /\ FaultsGrow
<1> DEFINE i == Inc(w)
<1>1. task[w].pc = "release" /\ UNCHANGED alert
  BY DEF Release, At
<1>2. i \in Incidents /\ incident[i] \in IncidentState /\ Follows(incident[i], alert[i])
  BY <1>1, TaskShape
<1>3. FaultsGrow
  BY FaultSteps DEF Release, AlertInv
<1>4. CASE UNCHANGED <<incident, claim>>
  BY <1>1, <1>3, <1>4, RowsStay, ClaimsStay DEF AlertInv
<1>5. CASE /\ incident' = [incident EXCEPT ![i].diag = "idle"]
           /\ claim' = [claim EXCEPT ![i] = [token |-> "", age |-> Lease]]
  <2>1. incident' = [incident EXCEPT ![i] = [incident[i] EXCEPT !.diag = "idle"]]
    BY <1>5
  <2> HIDE DEF i
  <2>2. RowsFit' /\ RowsRemain
    BY <1>1, <1>2, <2>1, DiagRow, RowStep DEF AlertInv
  <2>3. ClaimsFit'
    BY <1>2, <1>5, NowHeld, ClaimStep DEF AlertInv
  <2>4. QED
    BY <1>3, <2>2, <2>3
<1>6. QED
  BY <1>4, <1>5 DEF Release

LEMMA ReleaseKeeps ==
    ASSUME AlertInv, NEW w \in Webhooks, Release(w)
    PROVE  AlertInv'
<1> DEFINE i == Inc(w)
           p == ProcessOf[w]
           old == request[w].tasks
           rest == IF task[w].raised THEN <<>> ELSE Tail(old)
           r == [request[w] EXCEPT !.tasks = rest]
<1>1. /\ task[w].pc = "release" /\ UNCHANGED alert
      /\ inFlight' = [inFlight EXCEPT ![p] = inFlight[p] \ {i}]
      /\ task' = [task EXCEPT ![w] = NoTask]
      /\ request' = [request EXCEPT ![w] = r]
  BY DEF Release, At
<1>2. RowsFit' /\ RowsRemain /\ ClaimsFit' /\ FaultsGrow
  BY ReleaseWrites
<1>3. /\ request[w] \in Request /\ RequestFits(request[w], incident)
      /\ request[w].pc = "background" /\ old \in Seq(Incidents) /\ old # <<>>
      /\ i \in Incidents /\ i = Head(old) /\ Among(i, old)
      /\ \A j, k \in DOMAIN old : old[j] = old[k] => j = k
  BY <1>1, RequestShape, TaskShape DEF Inc, RequestFits
<1>4. p \in Processes
  BY AlertAssumption
<1> HIDE DEF old, i
<1>5. /\ Tail(old) \in Seq(Incidents)
      /\ \A j : Among(j, Tail(old)) <=> Among(j, old) /\ j # i
      /\ \A j, k \in DOMAIN Tail(old) : Tail(old)[j] = Tail(old)[k] => j = k
  BY <1>3, RestShape
<1>6. /\ rest \in Seq(Incidents)
      /\ \A j, k \in DOMAIN rest : rest[j] = rest[k] => j = k
      /\ \A j : Among(j, rest) => Among(j, old) /\ j # i
      /\ \A j : Among(j, old) /\ j # i => Among(j, rest) \/ task[w].raised
  <2>1. CASE task[w].raised
    <3>1. rest = <<>>
      BY <2>1
    <3> HIDE DEF rest
    <3>2. QED
      BY <2>1, <3>1, EmptyType DEF Among
  <2>2. CASE ~task[w].raised
    <3>1. rest = Tail(old)
      BY <2>2
    <3> HIDE DEF rest
    <3>2. QED
      BY <1>5, <3>1
  <2>3. QED
    BY <2>1, <2>2
<1> HIDE DEF rest
<1>7. /\ r \in Request /\ r.pc = "background" /\ r.diagnose = request[w].diagnose
      /\ r.tasks = rest
  BY <1>3, <1>6 DEF Request
<1> HIDE DEF r
<1>8. RequestFits(r, incident')
  BY <1>2, <1>3, <1>6, <1>7 DEF RequestFits, RowsRemain, old
<1>9. RequestsFit'
  BY <1>1, <1>2, <1>7, <1>8, RequestStep DEF AlertInv
<1>10. \A v \in Webhooks : v # w => request'[v] = request[v]
  BY <1>1 DEF AlertInv, RequestsFit
<1>11. TasksFit'
  <2>1. NoTask.pc = "idle" /\ NoTask.raised = FALSE
    BY DEF NoTask
  <2>2. TaskFits(NoTask, request'[w], alert', faults')
    BY <2>1 DEF TaskFits
  <2>3. QED
    BY <1>1, <1>2, <1>10, <2>2, NoTaskType, TaskStep DEF AlertInv
<1>12. request'[w].tasks = rest
  BY <1>1, <1>7 DEF AlertInv, RequestsFit
<1>13. /\ inFlight' \in [Processes -> SUBSET Incidents]
       /\ inFlight'[p] = inFlight[p] \ {i}
       /\ \A q \in Processes : q # p => inFlight'[q] = inFlight[q]
  BY <1>1, <1>4 DEF AlertInv, MarksFit
<1>14. \A v \in Webhooks : \A j : Among(j, request'[v].tasks) => Among(j, request[v].tasks)
  BY <1>6, <1>10, <1>12 DEF old
<1>15. ASSUME NEW v \in Webhooks, NEW j \in Incidents, Among(j, request'[v].tasks)
       PROVE  j \in inFlight'[ProcessOf[v]]
  <2>1. ProcessOf[v] \in Processes
    BY AlertAssumption
  <2>2. j \in inFlight[ProcessOf[v]] /\ Among(j, request[v].tasks)
    BY <1>14, <1>15 DEF AlertInv, MarksFit
  <2>3. ProcessOf[v] = p => j # i
    <3>1. ASSUME ProcessOf[v] = p, j = i PROVE v = w
      BY <1>3, <2>2, <3>1 DEF AlertInv, MarksFit, old
    <3>2. v = w => j # i
      BY <1>6, <1>12, <1>15
    <3>3. QED
      BY <3>1, <3>2
  <2>4. QED
    BY <1>13, <2>1, <2>2, <2>3
<1>16. ASSUME NEW q \in Processes, NEW j \in inFlight'[q]
       PROVE  \/ \E v \in Webhooks : ProcessOf[v] = q /\ Among(j, request'[v].tasks)
              \/ faults' > 0
  <2>1. j \in inFlight[q] /\ (q = p => j # i)
    BY <1>13, <1>16
  <2>2. faults > 0 => faults' > 0
    BY <1>2, ConstantTypes DEF FaultsGrow, AlertInv, TasksFit
  <2>3. task[w].raised => faults' > 0
    BY <2>2 DEF AlertInv, TasksFit, TaskFits
  <2>4. CASE faults > 0
    BY <2>2, <2>4
  <2>5. CASE ~(faults > 0)
    <3>1. PICK v \in Webhooks : ProcessOf[v] = q /\ Among(j, request[v].tasks)
      BY <2>1, <2>5 DEF AlertInv, MarksFit
    <3>2. CASE v = w
      BY <1>6, <1>12, <2>1, <2>3, <3>1, <3>2 DEF old
    <3>3. CASE v # w
      BY <1>10, <3>1, <3>3
    <3>4. QED
      BY <3>2, <3>3
  <2>6. QED
    BY <2>4, <2>5
<1>17. ASSUME NEW v \in Webhooks, NEW u \in Webhooks, NEW j \in Incidents,
              ProcessOf[v] = ProcessOf[u],
              Among(j, request'[v].tasks), Among(j, request'[u].tasks)
       PROVE  v = u
  BY <1>14, <1>17 DEF AlertInv, MarksFit
<1>18. MarksFit'
  BY <1>13, <1>15, <1>16, <1>17 DEF MarksFit
<1>19. QED
  BY <1>2, <1>9, <1>11, <1>18 DEF AlertInv

-----------------------------------------------------------------------------
(* Processes and the clock *)

LEMMA CrashKeeps ==
    ASSUME AlertInv, NEW p \in Processes, Crash(p)
    PROVE  AlertInv'
<1> DEFINE mine == {w \in Webhooks : ProcessOf[w] = p /\ request[w].pc # "unsent"}
           gone == [pc |-> "done", events |-> <<>>, diagnose |-> <<>>, tasks |-> <<>>]
<1>1. /\ faults < MaxFaults /\ faults' = faults + 1
      /\ inFlight' = [inFlight EXCEPT ![p] = {}]
      /\ task' = [w \in Webhooks |-> IF w \in mine THEN NoTask ELSE task[w]]
      /\ request' = [w \in Webhooks |-> IF w \notin mine THEN request[w] ELSE gone]
      /\ UNCHANGED <<alert, incident, claim>>
  BY DEF Crash, storeVars
<1>2. RowsFit' /\ RowsRemain /\ ClaimsFit'
  BY <1>1, RowsStay, ClaimsStay DEF AlertInv
<1>3. FaultsGrow /\ faults' > 0
  BY <1>1, ConstantTypes DEF AlertInv, TasksFit, FaultsGrow
<1>4. gone \in Request /\ RequestFits(gone, incident')
  BY EmptyType DEF Request, RequestFits, Among
<1>5. gone.tasks = <<>> /\ NoTask.pc = "idle" /\ NoTask.raised = FALSE
  BY DEF NoTask
<1> HIDE DEF gone, mine
<1>6. RequestsFit'
  <2>1. request' \in [Webhooks -> Request]
    BY <1>1, <1>4 DEF AlertInv, RequestsFit
  <2>2. ASSUME NEW w \in Webhooks PROVE RequestFits(request'[w], incident')
    <3>1. CASE w \in mine
      BY <1>1, <1>4, <3>1
    <3>2. CASE w \notin mine
      <4>1. request'[w] = request[w] /\ incident' = incident
        BY <1>1, <3>2
      <4>2. QED
        BY <4>1 DEF AlertInv, RequestsFit
    <3>3. QED
      BY <3>1, <3>2
  <2>3. QED
    BY <2>1, <2>2 DEF RequestsFit
<1>7. TasksFit'
  <2>1. task' \in [Webhooks -> Task]
    BY <1>1, NoTaskType DEF AlertInv, TasksFit
  <2>2. ASSUME NEW w \in Webhooks PROVE TaskFits(task'[w], request'[w], alert', faults')
    <3>1. CASE w \in mine
      <4>1. task'[w] = NoTask
        BY <1>1, <3>1
      <4>2. QED
        BY <1>5, <4>1 DEF TaskFits
    <3>2. CASE w \notin mine
      <4>1. request'[w] = request[w] /\ task'[w] = task[w] /\ alert' = alert
        BY <1>1, <3>2
      <4>2. TaskFits(task[w], request[w], alert, faults')
        BY <1>3, WorkShape
      <4>3. QED
        BY <4>1, <4>2
    <3>3. QED
      BY <3>1, <3>2
  <2>3. QED
    BY <1>3, <2>1, <2>2 DEF TasksFit, FaultsGrow
<1>8. MarksFit'
  <2>1. /\ inFlight' \in [Processes -> SUBSET Incidents] /\ inFlight'[p] = {}
        /\ \A q \in Processes : q # p => inFlight'[q] = inFlight[q]
    BY <1>1 DEF AlertInv, MarksFit
  <2>2. ASSUME NEW w \in Webhooks, NEW i, Among(i, request'[w].tasks)
        PROVE  ProcessOf[w] # p /\ Among(i, request[w].tasks)
    <3>1. w \notin mine
      BY <1>1, <1>5, <2>2 DEF Among
    <3>2. request'[w] = request[w]
      BY <1>1, <3>1
    <3>3. request[w].tasks # <<>>
      BY <2>2, <3>2 DEF Among
    <3>4. request[w].pc # "unsent"
      BY <3>3, RequestShape DEF RequestFits
    <3>5. QED
      BY <2>2, <3>1, <3>2, <3>4 DEF mine
  <2>3. \A w \in Webhooks : ProcessOf[w] \in Processes
    BY AlertAssumption
  <2>4. ASSUME NEW w \in Webhooks, NEW i \in Incidents, Among(i, request'[w].tasks)
        PROVE  i \in inFlight'[ProcessOf[w]]
    BY <2>1, <2>2, <2>3, <2>4 DEF AlertInv, MarksFit
  <2>5. ASSUME NEW v \in Webhooks, NEW u \in Webhooks, NEW j \in Incidents,
               ProcessOf[v] = ProcessOf[u],
               Among(j, request'[v].tasks), Among(j, request'[u].tasks)
        PROVE  v = u
    BY <2>2, <2>5 DEF AlertInv, MarksFit
  <2>6. QED
    BY <1>3, <2>1, <2>4, <2>5 DEF MarksFit
<1>9. QED
  BY <1>2, <1>6, <1>7, <1>8 DEF AlertInv

\* Ages are all that changes with time.
LEMMA OlderType ==
    ASSUME NEW age \in 0..Lease
    PROVE  Older(age) \in 0..Lease
BY ConstantTypes DEF Older

LEMMA TickKeeps ==
    ASSUME AlertInv, Tick
    PROVE  AlertInv'
<1>1. /\ claim' = [i \in Incidents |-> [claim[i] EXCEPT !.age = Older(claim[i].age)]]
      /\ UNCHANGED <<alert, incident, inFlight, request, faults>>
  BY DEF Tick
<1>2. RowsFit' /\ RowsRemain /\ FaultsGrow
  BY <1>1, RowsStay, FaultSteps DEF AlertInv
<1>3. ClaimsFit'
  <2> SUFFICES ASSUME NEW i \in Incidents
               PROVE  [claim[i] EXCEPT !.age = Older(claim[i].age)]
                         \in [token : Webhooks \cup {"", "absent"}, age : 0..Lease]
    BY <1>1 DEF ClaimsFit
  <2>1. claim[i] \in [token : Webhooks \cup {"", "absent"}, age : 0..Lease]
    BY DEF AlertInv, ClaimsFit
  <2>2. Older(claim[i].age) \in 0..Lease
    BY <2>1, OlderType
  <2>3. QED
    BY <2>1, <2>2
<1>4. \A w \in Webhooks :
          task'[w] = CASE task[w].pc \in {"create", "run"} ->
                             [task[w] EXCEPT !.age = Older(task[w].age)]
                       [] task[w].pc = "record" ->
                             [task[w] EXCEPT !.held = [task[w].held EXCEPT
                                 !.age = Older(task[w].held.age)]]
                       [] OTHER -> task[w]
  BY DEF Tick
<1>5. ASSUME NEW w \in Webhooks
      PROVE  /\ task'[w] \in Task /\ task'[w].pc = task[w].pc
             /\ task'[w].row = task[w].row /\ task'[w].raised = task[w].raised
  <2>1. /\ task[w] \in Task /\ task[w].age \in 0..Lease /\ task[w].held.age \in 0..Lease
        /\ task[w].held \in [token : Webhooks \cup {"", "absent"}, age : 0..Lease]
    BY WorkShape DEF Task
  <2>2. CASE task[w].pc \in {"create", "run"}
    <3>1. task'[w] = [task[w] EXCEPT !.age = Older(task[w].age)]
      BY <1>4, <2>2
    <3>2. Older(task[w].age) \in 0..Lease
      BY <2>1, OlderType
    <3>3. QED
      BY <2>1, <3>1, <3>2 DEF Task
  <2>3. CASE task[w].pc = "record"
    <3> DEFINE h == [task[w].held EXCEPT !.age = Older(task[w].held.age)]
    <3>1. task'[w] = [task[w] EXCEPT !.held = h]
      BY <1>4, <2>3
    <3>2. Older(task[w].held.age) \in 0..Lease
      BY <2>1, OlderType
    <3>3. h \in [token : Webhooks \cup {"", "absent"}, age : 0..Lease]
      BY <2>1, <3>2
    <3> HIDE DEF h
    <3>4. QED
      BY <2>1, <3>1, <3>3 DEF Task
  <2>4. CASE task[w].pc \notin {"create", "run", "record"}
    BY <1>4, <2>1, <2>4
  <2>5. QED
    BY <2>2, <2>3, <2>4
<1>6. TasksFit'
  <2>1. task' \in [Webhooks -> Task]
    BY <1>5 DEF Tick
  <2>2. ASSUME NEW w \in Webhooks PROVE TaskFits(task'[w], request'[w], alert', faults')
    BY <1>1, <1>5, WorkShape DEF TaskFits
  <2>3. QED
    BY <1>2, <2>1, <2>2 DEF TasksFit, FaultsGrow
<1>7. QED
  BY <1>1, <1>2, <1>3, <1>6, RequestsStay, MarksStay DEF AlertInv

-----------------------------------------------------------------------------
(* The theorems *)

LEMMA AlertInvStep == AlertInv /\ [Next]_alertVars => AlertInv'
<1> SUFFICES ASSUME AlertInv, [Next]_alertVars PROVE AlertInv'
  OBVIOUS
<1>1. CASE UNCHANGED alertVars
  BY <1>1 DEF alertVars, AlertInv, RowsFit, ClaimsFit, RequestsFit, TasksFit, MarksFit
<1>2. ASSUME NEW w \in Webhooks,
             \/ ReceiveWebhook(w) \/ IngestFails(w) \/ BeginTask(w)
             \/ CreateSession(w) \/ SaveProgress(w) \/ EndRun(w)
      PROVE  AlertInv'
  BY <1>2, ReceiveWebhookKeeps, IngestFailsKeeps, BeginTaskKeeps, CreateSessionKeeps,
     SaveProgressKeeps, EndRunKeeps
<1>3. ASSUME NEW w \in Webhooks, Continue(w)
      PROVE  AlertInv'
  BY <1>3, IngestKeeps, ClaimKeeps, TimeoutKeeps, ReadForRecordKeeps, RecordFailureKeeps,
     ReleaseKeeps
     DEF Continue
<1>4. QED
  BY <1>1, <1>2, <1>3, CrashKeeps, TickKeeps DEF Next

LEMMA AlertInvHolds == AlertSpec => []AlertInv
BY AlertInvInit, AlertInvStep, PTL DEF AlertSpec

\* A process schedules at most one diagnosis of an incident at a time, and but for tasks
\* dropped by a fault the incidents it has marked in flight are those it diagnoses
\* (_mark_alert_diagnosis_in_flight, _run_alert_diagnosis_guarded).
THEOREM InFlightExactHolds == AlertSpec => []InFlightExact
<1>1. ASSUME AlertInv PROVE InFlightExact
  <2>1. AlertTypeOK
    BY <1>1 DEF AlertInv, RowsFit, ClaimsFit, RequestsFit, TasksFit, MarksFit, AlertTypeOK
  <2>2. ASSUME NEW p \in Processes, NEW i \in Incidents
        PROVE  /\ Cardinality(TasksFor(p, i)) <= 1
               /\ TasksFor(p, i) # {} => i \in inFlight[p]
               /\ i \in inFlight[p] => TasksFor(p, i) # {} \/ faults > 0
    <3>1. TasksFor(p, i) = {w \in Webhooks : ProcessOf[w] = p /\ Among(i, request[w].tasks)}
      BY DEF TasksFor, Among
    <3>2. Cardinality(TasksFor(p, i)) <= 1
      <4>1. CASE TasksFor(p, i) = {}
        BY <4>1, FS_EmptySet
      <4>2. CASE TasksFor(p, i) # {}
        <5>1. PICK w : w \in TasksFor(p, i)
          BY <4>2
        <5>2. TasksFor(p, i) = {w}
          BY <1>1, <3>1, <5>1 DEF AlertInv, MarksFit
        <5>3. Cardinality({w}) = 1
          BY FS_Singleton
        <5>4. QED
          BY <5>2, <5>3
      <4>3. QED
        BY <4>1, <4>2
    <3>3. TasksFor(p, i) # {} => i \in inFlight[p]
      BY <1>1, <3>1 DEF AlertInv, MarksFit
    <3>4. i \in inFlight[p] => TasksFor(p, i) # {} \/ faults > 0
      BY <1>1, <3>1 DEF AlertInv, MarksFit
    <3>5. QED
      BY <3>2, <3>3, <3>4
  <2>3. QED
    BY <2>1, <2>2 DEF InFlightExact
<1>2. QED
  BY <1>1, AlertInvHolds, PTL

\* In whatever order deliveries reach the processes, no incident shows an alert newer than
\* the stored one, or resolved while that one fires (is_stale_alert_event).
THEOREM GenerationsOrderedHolds == AlertSpec => []GenerationsOrdered
<1>1. AlertInv => GenerationsOrdered
  BY DEF AlertInv, RowsFit, Follows, GenerationsOrdered
<1>2. QED
  BY <1>1, AlertInvHolds, PTL

\* The claim of i loses its token as ClaimReleasedByHolder says, if at all.
ReleasedByHolder(i) ==
    LET w == claim[i].token IN
    w \in Webhooks /\ claim'[i].token # w
        => \/ Steps(w, i, "release", "idle")
           \/ ~alert_auto_diagnosis_claim_is_active(i) /\ claim'[i].token \in Webhooks \ {w}
           \/ \E v \in Webhooks : Steps(v, i, "create", "run") /\ claim'[i] = NoClaim
           \/ \E v \in Webhooks : /\ Steps(v, i, "record", "release")
                                  /\ claim'[i] = task[v].held

LEMMA TokenKept ==
    ASSUME NEW i \in Incidents, claim'[i].token = claim[i].token
    PROVE  ReleasedByHolder(i)
BY DEF ReleasedByHolder

\* A step that writes the claim of incident j leaves those of the others alone.
LEMMA OthersKept ==
    ASSUME AlertInv, NEW j \in Incidents, NEW c, claim' = [claim EXCEPT ![j] = c],
           NEW i \in Incidents, i # j
    PROVE  ReleasedByHolder(i)
<1>1. claim'[i] = claim[i]
  BY DEF AlertInv, ClaimsFit
<1>2. QED
  BY <1>1, TokenKept

LEMMA ReleaseByHolder ==
    ASSUME AlertInv, NEW w \in Webhooks, Release(w), NEW i \in Incidents
    PROVE  ReleasedByHolder(i)
<1>1. task[w].pc = "release" /\ task' = [task EXCEPT ![w] = NoTask]
  BY DEF Release, At
<1>2. task'[w].pc = "idle" /\ Inc(w) \in Incidents
  BY <1>1, WorkShape, TaskShape DEF NoTask
<1>3. CASE UNCHANGED claim
  BY <1>3, TokenKept
<1>4. CASE /\ holds_claim(w, Inc(w))
           /\ claim' = [claim EXCEPT ![Inc(w)] = [token |-> "", age |-> Lease]]
  <2>1. CASE i = Inc(w)
    <3>1. claim[i].token = w
      BY <1>4, <2>1 DEF holds_claim
    <3>2. Steps(w, i, "release", "idle")
      BY <1>1, <1>2, <2>1 DEF Steps
    <3>3. QED
      BY <3>1, <3>2 DEF ReleasedByHolder
  <2>2. CASE i # Inc(w)
    BY <1>2, <1>4, <2>2, OthersKept
  <2>3. QED
    BY <2>1, <2>2
<1>5. QED
  BY <1>3, <1>4 DEF Release

LEMMA RecordByHolder ==
    ASSUME AlertInv, NEW w \in Webhooks, RecordFailure(w), NEW i \in Incidents
    PROVE  ReleasedByHolder(i)
<1> DEFINE j == Inc(w)
           held == task[w].held
           c == IF /\ is_incident_status_transition_allowed(incident[j],
                                                            failure_state(task[w].row))
                   /\ held.token # "absent"
                  THEN held ELSE claim[j]
<1>1. task[w].pc = "record" /\ task \in [Webhooks -> Task]
  BY WorkShape DEF RecordFailure, At
<1>2. j \in Incidents
  BY <1>1, TaskShape
<1>3. CASE claim' = claim
  BY <1>3, TokenKept
<1>4. CASE /\ claim' = [claim EXCEPT ![j] = c]
           /\ task' = [task EXCEPT ![w] = [NoTask EXCEPT !.pc = "release"]]
  <2>1. c \in {held, claim[j]}
    OBVIOUS
  <2>2. task'[w].pc = "release"
    BY <1>1, <1>4, NoTaskType DEF Task
  <2> HIDE DEF c
  <2>3. CASE i = j
    <3>1. claim'[i] = c
      BY <1>2, <1>4, <2>3 DEF AlertInv, ClaimsFit
    <3>2. CASE c = claim[j]
      BY <2>3, <3>1, <3>2, TokenKept
    <3>3. CASE c = held
      <4>1. Steps(w, i, "record", "release") /\ claim'[i] = task[w].held
        BY <1>1, <2>2, <2>3, <3>1, <3>3 DEF Steps
      <4>2. QED
        BY <4>1 DEF ReleasedByHolder
    <3>4. QED
      BY <2>1, <3>2, <3>3
  <2>4. CASE i # j
    BY <1>2, <1>4, <2>4, OthersKept
  <2>5. QED
    BY <2>3, <2>4
<1>5. QED
  BY <1>3, <1>4 DEF RecordFailure

LEMMA ClaimByHolder ==
    ASSUME AlertInv, NEW w \in Webhooks, Claim(w), NEW i \in Incidents
    PROVE  ReleasedByHolder(i)
<1> DEFINE j == Head(request[w].diagnose)
           c == [token |-> w, age |-> 0]
<1>1. request[w].pc = "claim"
  BY DEF Claim
<1>2. j \in Incidents
  BY <1>1, ClaimShape
<1>3. CASE UNCHANGED claim
  BY <1>3, TokenKept
<1>4. CASE ~alert_auto_diagnosis_claim_is_active(j) /\ claim_alert_auto_diagnosis(w, j)
  <2>1. claim' = [claim EXCEPT ![j] = c]
    BY <1>4 DEF claim_alert_auto_diagnosis
  <2>2. c.token = w
    OBVIOUS
  <2> HIDE DEF j, c
  <2>3. CASE i = j
    <3>1. claim'[i].token = w
      BY <2>1, <2>2, <2>3 DEF AlertInv, ClaimsFit
    <3>2. ~alert_auto_diagnosis_claim_is_active(i)
      BY <1>4, <2>3
    <3>3. QED
      BY <3>1, <3>2 DEF ReleasedByHolder
  <2>4. CASE i # j
    BY <1>2, <2>1, <2>4, OthersKept
  <2>5. QED
    BY <2>3, <2>4
<1>5. QED
  BY <1>3, <1>4 DEF Claim

\* The first snapshot of a session may take the claim of another webhook away.
LEMMA SessionByHolder ==
    ASSUME AlertInv, NEW w \in Webhooks, CreateSession(w), NEW i \in Incidents
    PROVE  ReleasedByHolder(i)
<1>1. /\ task[w].pc = "create" /\ claim' = [claim EXCEPT ![Inc(w)] = NoClaim]
      /\ task' = [task EXCEPT ![w].pc = "run"] /\ task \in [Webhooks -> Task]
  BY WorkShape DEF CreateSession, At, Goto
<1>2. Inc(w) \in Incidents
  BY <1>1, TaskShape
<1>3. CASE i = Inc(w)
  <2>1. claim'[i] = NoClaim
    BY <1>1, <1>2, <1>3 DEF AlertInv, ClaimsFit
  <2>2. task'[w].pc = "run"
    BY <1>1 DEF Task
  <2>3. Steps(w, i, "create", "run")
    BY <1>1, <1>3, <2>2 DEF Steps
  <2>4. QED
    BY <2>1, <2>3 DEF ReleasedByHolder
<1>4. CASE i # Inc(w)
  BY <1>1, <1>2, <1>4, OthersKept
<1>5. QED
  BY <1>3, <1>4

LEMMA TickByHolder ==
    ASSUME AlertInv, Tick, NEW i \in Incidents
    PROVE  ReleasedByHolder(i)
<1>1. claim'[i] = [claim[i] EXCEPT !.age = Older(@)]
  BY DEF Tick
<1>2. claim[i] \in [token : Webhooks \cup {"", "absent"}, age : 0..Lease]
  BY DEF AlertInv, ClaimsFit
<1>3. claim'[i].token = claim[i].token
  BY <1>1, <1>2
<1>4. QED
  BY <1>3, TokenKept

\* A claim is released only by the task that holds it, and taken by another webhook only once
\* it is not active.  The two places where the code loses one all the same, live claims
\* included, are named: a session's first snapshot, whoever holds the claim, and a failure
\* record that writes the claim back as it read it (release_alert_auto_diagnosis,
\* claim_alert_auto_diagnosis, _record_alert_diagnosis_failure).
THEOREM ClaimReleasedByHolderHolds == AlertSpec => ClaimReleasedByHolder
<1>1. ASSUME AlertInv, [Next]_alertVars, NEW i \in Incidents PROVE ReleasedByHolder(i)
  <2>1. CASE UNCHANGED claim
    BY <2>1, TokenKept
  <2>2. ASSUME NEW w \in Webhooks,
               Claim(w) \/ CreateSession(w) \/ RecordFailure(w) \/ Release(w)
        PROVE  ReleasedByHolder(i)
    BY <1>1, <2>2, ClaimByHolder, SessionByHolder, RecordByHolder, ReleaseByHolder
  <2>3. CASE Tick
    BY <1>1, <2>3, TickByHolder
  <2>4. ASSUME NEW w \in Webhooks,
               \/ ReceiveWebhook(w) \/ IngestFails(w) \/ BeginTask(w) \/ SaveProgress(w)
               \/ EndRun(w) \/ Ingest(w) \/ Timeout(w) \/ ReadForRecord(w)
        PROVE  UNCHANGED claim
    BY <2>4 DEF ReceiveWebhook, IngestFails, BeginTask, SaveProgress, EndRun, Ingest, Timeout,
                ReadForRecord, storeVars
  <2>5. ASSUME NEW p \in Processes, Crash(p) PROVE UNCHANGED claim
    BY <2>5 DEF Crash, storeVars
  <2>6. UNCHANGED alertVars => UNCHANGED claim
    BY DEF alertVars
  <2>7. QED
    BY <1>1, <2>1, <2>2, <2>3, <2>4, <2>5, <2>6 DEF Next, Continue
<1>2. AlertInv /\ [Next]_alertVars
        => [\A i \in Incidents :
              LET w == claim[i].token IN
              w \in Webhooks /\ claim'[i].token # w
                  => \/ Steps(w, i, "release", "idle")
                     \/ ~alert_auto_diagnosis_claim_is_active(i) /\ claim'[i].token \in Webhooks \ {w}
                     \/ \E v \in Webhooks : Steps(v, i, "create", "run") /\ claim'[i] = NoClaim
                     \/ \E v \in Webhooks : /\ Steps(v, i, "record", "release")
                                            /\ claim'[i] = task[v].held]_alertVars
  BY <1>1 DEF ReleasedByHolder
<1>3. QED
  BY <1>2, AlertInvHolds, PTL DEF AlertSpec, ClaimReleasedByHolder
=============================================================================
