--------------------------- MODULE AlertDiagnosis ---------------------------
(***************************************************************************)
(* Alert ingestion and automatic diagnosis (app/api/alerts.py,             *)
(* alert_ingestion_service.py, the alert transactions of sqlite_store.py): *)
(* webhooks deliver batches of Alertmanager events to server processes,    *)
(* which store them, claim the diagnosis of every new firing generation    *)
(* and run it in the background.                                           *)
(*                                                                         *)
(* A webhook handler is synchronous: while it runs, its process runs no    *)
(* other coroutine.  Its background tasks run one after the other, and an  *)
(* exception that leaves one drops the rest.  The store is shared, each of *)
(* its operations is one transaction.  Of the diagnosis only its writes to *)
(* the incident are kept (DiagnosisRun has the rest); it may hang.         *)
(***************************************************************************)
EXTENDS IncidentLifecycle, Sequences, FiniteSets

CONSTANTS Processes,       \* server processes
          Webhooks,        \* webhook requests, each delivered once
          ProcessOf,       \* the process a request reaches
          Incidents,       \* incident_ids, one for each alert fingerprint
          Batches,         \* contents each request may have: sequences of events, an
                           \* empty one is refused with a 400
          Outcomes,        \* statuses a diagnosis that ends by itself leaves
          Lease,           \* alert_auto_diagnosis_timeout_seconds, in clock ticks
          MaxConcurrency,  \* ALERT_AUTO_DIAGNOSIS_MAX_CONCURRENCY
          MaxFaults        \* bound on processes that die and store calls that raise

AlertStatuses == {"firing", "resolved"}

\* endsAt is 0 for a firing alert.
Events == [incident : Incidents, status : AlertStatuses, startsAt : Nat \ {0}, endsAt : Nat]

ASSUME AlertAssumption ==
    /\ ProcessOf \in [Webhooks -> Processes] /\ Webhooks \cap {"", "absent"} = {}
    /\ Batches \in [Webhooks -> SUBSET (Seq(Events) \ {<<>>})]
    /\ Outcomes \subseteq REPORT_ONLY_STATUSES
    /\ Lease \in Nat \ {0}
    /\ MaxConcurrency \in Nat \ {0}
    /\ MaxFaults \in Nat

VARIABLES alert,           \* alert_events, by incident
          incident,        \* incident_states
          claim,           \* claim token and claimed_at of the incidents' metadata
          inFlight,        \* _alert_auto_diagnosis_in_flight of each process
          request,         \* what each webhook request is doing
          task,            \* what its current background task is doing
          faults           \* processes that died and store calls that raised

storeVars == <<alert, incident, claim>>
alertVars == <<alert, incident, claim, inFlight, request, task, faults>>

NoAlert == [status |-> "absent", startsAt |-> 0, endsAt |-> 0]
NoIncident == PlainUpdate("none", "none", FALSE)

\* token: the webhook that claimed, "" once released, "absent" when the metadata has no
\* such key; age: ticks since claimed_at, counted up to Lease.
NoClaim == [token |-> "absent", age |-> Lease]

\* events: still to be stored; diagnose: created or reopened, still to be claimed;
\* tasks: claimed, to be diagnosed.
Request == [pc : {"unsent", "ingest", "claim", "background", "done"}, events : Seq(Events),
            diagnose : Seq(Incidents), tasks : Seq(Incidents)]

\* age: ticks since the timeout was armed; row, held: the incident as the failure record
\* read it; raised: an exception leaves the task.
Task == [pc : {"idle", "create", "run", "read", "record", "release"}, age : 0..Lease,
         row : IncidentState \cup {NoIncident},
         held : [token : Webhooks \cup {"", "absent"}, age : 0..Lease], raised : BOOLEAN]

NoTask == [pc |-> "idle", age |-> 0, row |-> NoIncident, held |-> NoClaim, raised |-> FALSE]

Inc(w) == Head(request[w].tasks)
Handling(w) == request[w].pc \in {"ingest", "claim"}

\* The event loop of w's process is free for w.
LoopFree(w) == ~\E v \in Webhooks \ {w} : ProcessOf[v] = ProcessOf[w] /\ Handling(v)

Running(p) == {w \in Webhooks : ProcessOf[w] = p /\ task[w].pc # "idle"}

StoreRaises == faults < MaxFaults /\ faults' = faults + 1

-----------------------------------------------------------------------------
(* The rules of a delivery *)

\* Mutant: generations are not compared.
stale_within_generation(existing, event) ==
    /\ event.startsAt = existing.startsAt
    /\ existing.status = "resolved" /\ event.status = "firing"

is_stale_alert_event(existing, event) ==
    \/ event.startsAt < existing.startsAt
    \/ /\ event.startsAt = existing.startsAt /\ existing.status = "resolved"
       /\ event.status = "firing" \/ event.endsAt < existing.endsAt

is_new_alert_generation(existing, event) ==
    event.status = "firing" /\ event.startsAt > existing.startsAt

ALERT_MUTABLE_INCIDENT_STATUSES ==
    {"created", "investigating", "alert_firing", "alert_resolved", "resolved"}

alert_event_can_reopen_incident(existing, event) ==
    event.status = "firing" /\ existing.startsAt # 0 /\ event.startsAt > existing.startsAt

build_incident_state_from_alert(event, existing) ==
    [status |-> IF \/ existing = NoIncident
                   \/ existing.status \in ALERT_MUTABLE_INCIDENT_STATUSES
                   \/ existing.status = "failed" /\ existing.diag = "failed"
                   \/ alert_event_can_reopen_incident(existing, event)
                  THEN IF event.status = "resolved" THEN "resolved" ELSE "alert_firing"
                  ELSE existing.status,
     source |-> "alertmanager", change |-> existing.change,
     startsAt |-> event.startsAt, alertStatus |-> event.status, diag |-> existing.diag]

alert_auto_diagnosis_claim_is_active(i) ==
    /\ incident[i].diag \in {"running", "queued"}
    /\ claim[i].token \in Webhooks
    /\ claim[i].age < Lease

-----------------------------------------------------------------------------
(* The webhook handler *)

ReceiveWebhook(w) ==
    /\ request[w].pc = "unsent" /\ LoopFree(w)
    /\ \E batch \in Batches[w] :
          request' = [request EXCEPT ![w].pc = "ingest", ![w].events = batch]
    /\ UNCHANGED <<storeVars, inFlight, task, faults>>

\* The alert and its incident, in one transaction.
persist_alert_ingestion(event) ==
    LET i == event.incident
        row == [status |-> event.status, startsAt |-> event.startsAt,
                endsAt |-> event.endsAt]
        update == build_incident_state_from_alert(event, incident[i])
    IN  /\ alert' = [alert EXCEPT ![i] = row]
        /\ incident' = [incident EXCEPT ![i] =
               IF @ = NoIncident THEN update ELSE merge_incident_state(@, update)]

\* Whether the route schedules a diagnosis for the event.
starts_diagnosis(existing, event) ==
    /\ event.status = "firing"
    /\ existing = NoAlert \/ is_new_alert_generation(existing, event)

\* The response is sent, and the background tasks start, once nothing is left to do.
Answered(r) ==
    [r EXCEPT !.pc = IF r.events # <<>> THEN "ingest"
                     ELSE IF r.diagnose # <<>> THEN "claim" ELSE "background"]

\* The request after event: what it still has to store, and to claim.
Stored(r, existing, event) ==
    [r EXCEPT !.events = Tail(r.events),
              !.diagnose = IF starts_diagnosis(existing, event)
                             THEN Append(r.diagnose, event.incident) ELSE r.diagnose]

Ingest(w) ==
    LET event == Head(request[w].events)
        existing == alert[event.incident]
    IN  /\ request[w].pc = "ingest"
        /\ IF is_stale_alert_event(existing, event)
             THEN UNCHANGED <<alert, incident>>
             ELSE persist_alert_ingestion(event)
        /\ request' = [request EXCEPT ![w] = Answered(Stored(request[w], existing, event))]
        /\ UNCHANGED <<claim, inFlight, task, faults>>

\* A store that raises fails the request; the events stored before stay.
IngestFails(w) ==
    /\ request[w].pc = "ingest"
    /\ StoreRaises
    /\ request' = [request EXCEPT ![w].pc = "done", ![w].events = <<>>, ![w].diagnose = <<>>]
    /\ UNCHANGED <<storeVars, inFlight, task>>

\* What is in flight after an incident could not be claimed.
\* Mutant: the marker stays.
unclaimed_stays_marked(p, i) == inFlight[p] \cup {i}

unclaimed(p, i) == inFlight[p] \ {i}

\* The claim of an incident that has no active one: a fresh token and the time.
claim_alert_auto_diagnosis(w, i) ==
    /\ incident' = [incident EXCEPT ![i].diag = "running"]
    /\ claim' = [claim EXCEPT ![i] = [token |-> w, age |-> 0]]

\* Mark the incident in flight, then claim it in the store, or take the mark back.
Claim(w) ==
    LET i == Head(request[w].diagnose)
        p == ProcessOf[w]
        rest == [request[w] EXCEPT !.diagnose = Tail(@)]
    IN  /\ request[w].pc = "claim"
        /\ \/ /\ i \in inFlight[p]
              /\ request' = [request EXCEPT ![w] = Answered(rest)]
              /\ UNCHANGED <<incident, claim, inFlight, faults>>
           \/ /\ i \notin inFlight[p] /\ ~alert_auto_diagnosis_claim_is_active(i)
              /\ claim_alert_auto_diagnosis(w, i)
              /\ inFlight' = [inFlight EXCEPT ![p] = @ \cup {i}]
              /\ request' = [request EXCEPT ![w] = Answered([rest EXCEPT !.tasks = Append(@, i)])]
              /\ UNCHANGED faults
           \/ /\ i \notin inFlight[p]
              /\ \/ alert_auto_diagnosis_claim_is_active(i) /\ UNCHANGED faults
                 \/ StoreRaises
              /\ inFlight' = [inFlight EXCEPT ![p] = unclaimed(p, i)]
              /\ request' = [request EXCEPT ![w] = Answered(rest)]
              /\ UNCHANGED <<incident, claim>>
        /\ UNCHANGED <<alert, task>>

-----------------------------------------------------------------------------
(* The background tasks *)

\* async with _alert_auto_diagnosis_semaphore, and the timeout armed inside it.
BeginTask(w) ==
    /\ request[w].pc = "background" /\ request[w].tasks # <<>>
    /\ task[w].pc = "idle" /\ LoopFree(w)
    /\ Cardinality(Running(ProcessOf[w])) < MaxConcurrency
    /\ task' = [task EXCEPT ![w].pc = "create"]
    /\ UNCHANGED <<storeVars, inFlight, request, faults>>

At(w, pc) == task[w].pc = pc /\ LoopFree(w)
Goto(w, pc) == task' = [task EXCEPT ![w].pc = pc]
Leave(w, pc) == task' = [task EXCEPT ![w].pc = pc, ![w].age = 0]

RunWrites(i, status) ==
    incident' = [incident EXCEPT ![i] =
                    merge_incident_state(@, PlainUpdate(status, "aiops_state", FALSE))]

\* The session's first snapshot stores its incident state without a merge: every key the
\* alert and the claim left in the metadata is gone.
CreateSession(w) ==
    /\ At(w, "create")
    /\ incident' = [incident EXCEPT ![Inc(w)] = PlainUpdate("diagnosing", "aiops_state", FALSE)]
    /\ claim' = [claim EXCEPT ![Inc(w)] = NoClaim]
    /\ Goto(w, "run")
    /\ UNCHANGED <<alert, inFlight, request, faults>>

\* A snapshot after a node.
SaveProgress(w) ==
    /\ At(w, "run")
    /\ RunWrites(Inc(w), "diagnosing")
    /\ UNCHANGED <<alert, claim, inFlight, request, task, faults>>

\* The run ends: with its report, waiting for an approval, or failed (diagnose() reports
\* an exception of its own as an event and returns).
EndRun(w) ==
    /\ task[w].pc \in {"create", "run"} /\ LoopFree(w)
    /\ \E status \in IF task[w].pc = "run" THEN Outcomes \cup {"failed"} ELSE {"failed"} :
          RunWrites(Inc(w), status)
    /\ Leave(w, "release")
    /\ UNCHANGED <<alert, claim, inFlight, request, faults>>

\* Mutant: a run that hangs is never interrupted.
never_times_out(w) == FALSE

times_out(w) == task[w].age = Lease

\* asyncio.timeout cancels the run, which saves a failed snapshot first.
Timeout(w) ==
    /\ task[w].pc \in {"create", "run"} /\ LoopFree(w)
    /\ times_out(w)
    /\ RunWrites(Inc(w), "failed")
    /\ Leave(w, "read")
    /\ UNCHANGED <<alert, claim, inFlight, request, faults>>

ReadForRecord(w) ==
    /\ At(w, "read")
    /\ task' = [task EXCEPT ![w].pc = "record", ![w].row = incident[Inc(w)],
                            ![w].held = claim[Inc(w)]]
    /\ UNCHANGED <<storeVars, inFlight, request, faults>>

\* The failure, written over the metadata as they were read.
failure_state(row) ==
    IF row.status \in APPROVAL_LIFECYCLE_STATUSES
      THEN [row EXCEPT !.diag = "failed"]
      ELSE [row EXCEPT !.status = "failed", !.source = "alert_auto_diagnosis",
                       !.diag = "failed"]

\* _record_alert_diagnosis_failure: its save may raise, and then leaves the task.
RecordFailure(w) ==
    LET i == Inc(w)
        update == failure_state(task[w].row)
    IN  /\ At(w, "record")
        /\ \/ /\ incident' = [incident EXCEPT ![i] = merge_incident_state(@, update)]
              /\ claim' = [claim EXCEPT ![i] =
                     IF /\ is_incident_status_transition_allowed(incident[i], update)
                        /\ task[w].held.token # "absent"
                       THEN task[w].held ELSE @]
              /\ task' = [task EXCEPT ![w] = [NoTask EXCEPT !.pc = "release"]]
              /\ UNCHANGED faults
           \/ /\ StoreRaises
              /\ task' = [task EXCEPT ![w] = [NoTask EXCEPT !.pc = "release", !.raised = TRUE]]
              /\ UNCHANGED <<incident, claim>>
        /\ UNCHANGED <<alert, inFlight, request>>

\* Mutant: the token is not compared.
holds_any_claim(w, i) == incident[i].diag = "running"

holds_claim(w, i) == incident[i].diag = "running" /\ claim[i].token = w

\* The finally block: the claim is released (or its release raises and is logged), the
\* mark is taken back, and the next task of the request starts unless this one raised.
Release(w) ==
    LET i == Inc(w)
        rest == IF task[w].raised THEN <<>> ELSE Tail(request[w].tasks)
    IN  /\ At(w, "release")
        /\ \/ /\ IF holds_claim(w, i)
                   THEN /\ incident' = [incident EXCEPT ![i].diag = "idle"]
                        /\ claim' = [claim EXCEPT ![i] = [token |-> "", age |-> Lease]]
                   ELSE UNCHANGED <<incident, claim>>
              /\ UNCHANGED faults
           \/ /\ StoreRaises
              /\ UNCHANGED <<incident, claim>>
        /\ inFlight' = [inFlight EXCEPT ![ProcessOf[w]] = @ \ {i}]
        /\ task' = [task EXCEPT ![w] = NoTask]
        /\ request' = [request EXCEPT ![w].tasks = rest]
        /\ UNCHANGED alert

-----------------------------------------------------------------------------
(* Processes and the clock *)

\* The process dies with its tasks and marks, and starts again without them.
Crash(p) ==
    LET mine == {w \in Webhooks : ProcessOf[w] = p /\ request[w].pc # "unsent"}
    IN  /\ mine # {}
        /\ faults < MaxFaults /\ faults' = faults + 1
        /\ inFlight' = [inFlight EXCEPT ![p] = {}]
        /\ task' = [w \in Webhooks |-> IF w \in mine THEN NoTask ELSE task[w]]
        /\ request' = [w \in Webhooks |-> IF w \notin mine THEN request[w]
               ELSE [pc |-> "done", events |-> <<>>, diagnose |-> <<>>, tasks |-> <<>>]]
        /\ UNCHANGED storeVars

Older(age) == IF age < Lease THEN age + 1 ELSE age

Tick ==
    /\ claim' = [i \in Incidents |-> [claim[i] EXCEPT !.age = Older(@)]]
    /\ task' = [w \in Webhooks |->
           CASE task[w].pc \in {"create", "run"} -> [task[w] EXCEPT !.age = Older(@)]
             [] task[w].pc = "record" -> [task[w] EXCEPT !.held.age = Older(@)]
             [] OTHER -> task[w]]
    /\ <<claim, task>>' # <<claim, task>>
    /\ UNCHANGED <<alert, incident, inFlight, request, faults>>

-----------------------------------------------------------------------------
Init ==
    /\ alert = [i \in Incidents |-> NoAlert]
    /\ incident = [i \in Incidents |-> NoIncident]
    /\ claim = [i \in Incidents |-> NoClaim]
    /\ inFlight = [p \in Processes |-> {}]
    /\ request = [w \in Webhooks |-> [pc |-> "unsent", events |-> <<>>, diagnose |-> <<>>,
                                      tasks |-> <<>>]]
    /\ task = [w \in Webhooks |-> NoTask]
    /\ faults = 0

\* What the handler and its tasks do next without help from the diagnosis itself.
Continue(w) ==
    \/ Ingest(w) \/ Claim(w)
    \/ Timeout(w) \/ ReadForRecord(w) \/ RecordFailure(w) \/ Release(w)

Next ==
    \/ \E w \in Webhooks :
          \/ ReceiveWebhook(w) \/ IngestFails(w) \/ BeginTask(w)
          \/ CreateSession(w) \/ SaveProgress(w) \/ EndRun(w)
          \/ Continue(w)
    \/ \E p \in Processes : Crash(p)
    \/ Tick

AlertSpec == Init /\ [][Next]_alertVars

\* Handlers and the tasks around a diagnosis go on, the semaphore serves its waiters in
\* turn, and time passes.  A diagnosis may hang.
AlertFairSpec ==
    /\ AlertSpec
    /\ \A w \in Webhooks : WF_alertVars(Continue(w)) /\ SF_alertVars(BeginTask(w))
    /\ WF_alertVars(Tick)

-----------------------------------------------------------------------------
(* Properties *)

\* The type invariant, checked as part of InFlightExact: rows, marks, requests and tasks stay
\* in their sets.
AlertTypeOK ==
    /\ alert \in [Incidents -> [status : AlertStatuses \cup {"absent"}, startsAt : Nat,
                                endsAt : Nat]]
    /\ incident \in [Incidents -> IncidentState \cup {NoIncident}]
    /\ claim \in [Incidents -> [token : Webhooks \cup {"", "absent"}, age : 0..Lease]]
    /\ inFlight \in [Processes -> SUBSET Incidents]
    /\ request \in [Webhooks -> Request]
    /\ task \in [Webhooks -> Task]
    /\ faults \in 0..MaxFaults

\* Tasks of process p that are scheduled or running for incident i.
TasksFor(p, i) ==
    {w \in Webhooks : ProcessOf[w] = p /\ \E k \in DOMAIN request[w].tasks :
                                               request[w].tasks[k] = i}

\* A process schedules at most one diagnosis of an incident at a time, and an incident is
\* marked in flight as long as there is one; while no store call has raised and no process died
\* also only as long, so that none is refused for ever.  After such a fault marks may stay:
\* those of tasks dropped because an earlier one of their request raised
\* (_mark_alert_diagnosis_in_flight, _run_alert_diagnosis_guarded).
InFlightExact ==
    /\ AlertTypeOK
    /\ \A p \in Processes, i \in Incidents :
        /\ Cardinality(TasksFor(p, i)) <= 1
        /\ TasksFor(p, i) # {} => i \in inFlight[p]
        /\ i \in inFlight[p] => TasksFor(p, i) # {} \/ faults > 0

\* Whatever order deliveries reach the processes in, the incident never shows an alert newer
\* than the stored one, or resolved while the stored one is firing: the stored alert has not
\* gone back to an older generation, nor from resolved to firing within one
\* (persist_alert_ingestion, is_stale_alert_event).
GenerationsOrdered ==
    \A i \in Incidents :
        /\ incident[i].startsAt <= alert[i].startsAt
        /\ incident[i].startsAt = alert[i].startsAt /\ incident[i].alertStatus = "resolved"
               => alert[i].status = "resolved"

\* The task of v for incident i goes from one place to the next.
Steps(v, i, from, to) == task[v].pc = from /\ task'[v].pc = to /\ Inc(v) = i

\* A claim, of whatever age, is released by no task but its holder's, so that one that
\* outlived its lease does not release its successor's, and no other webhook takes it while it is
\* active.  Besides, the code loses claims, live ones included, in two places, and in no other:
\* a session's first snapshot takes the claim's keys away, its own or those of another
\* webhook that claimed meanwhile; and a failure record writes back the claim as it read it,
\* an older one over one made since included (release_alert_auto_diagnosis,
\* claim_alert_auto_diagnosis, _record_alert_diagnosis_failure).
ClaimReleasedByHolder ==
    [][\A i \in Incidents :
          LET w == claim[i].token IN
          w \in Webhooks /\ claim'[i].token # w
              => \/ Steps(w, i, "release", "idle")
                 \/ ~alert_auto_diagnosis_claim_is_active(i) /\ claim'[i].token \in Webhooks \ {w}
                 \/ \E v \in Webhooks : Steps(v, i, "create", "run") /\ claim'[i] = NoClaim
                 \/ \E v \in Webhooks : /\ Steps(v, i, "record", "release")
                                        /\ claim'[i] = task[v].held]_alertVars

\* Every scheduled diagnosis ends and gives its place up, also when diagnoses hang: no
\* incident waits for ever behind them (_alert_auto_diagnosis_semaphore, asyncio.timeout).
DiagnosesEnd ==
    \A w \in Webhooks : []<>(request[w].tasks = <<>>)

=============================================================================
