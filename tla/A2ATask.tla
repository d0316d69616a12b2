------------------------------- MODULE A2ATask -------------------------------
(***************************************************************************)
(* The A2A facade (a2a_facade_core.py, api/a2a.py, the task records of     *)
(* sqlite_store.py): clients of several server processes send messages,    *)
(* resend them, reuse their messageId for another request, leave a stream  *)
(* and poll tasks.  A task belongs to one messageId and is run by the call *)
(* that inserted its record.                                               *)
(*                                                                         *)
(* A task of skill "diagnosis" has a session, whose run status the record  *)
(* follows; DiagnosisRun has the session's own rules, here its status      *)
(* moves along RunMoves.  A task of skill "answer" (replay and runbook     *)
(* questions) has its record only.  Each store operation is one            *)
(* transaction, and calls of different processes interleave between them.  *)
(***************************************************************************)
EXTENDS Naturals

CONSTANTS Callers,
          Tasks,           \* task ids: one for each messageId
          Skills,          \* the assignments of skills to tasks that are considered
          Requests,        \* contents a message may have (request_fingerprint)
          MaxFaults        \* bound on calls that raise, clients that leave, processes that die

ASSUME A2AAssumption ==
    /\ Skills \subseteq [Tasks -> {"diagnosis", "answer"}]
    /\ MaxFaults \in Nat

VARIABLES skill,           \* the skill of each task
          record,          \* a2a_tasks
          session,         \* the run status of each task's session
          call,            \* what each caller is doing
          runs,            \* how often each task was run
          faults

a2aVars == <<skill, record, session, call, runs, faults>>

\* effective_run_status of a session, and where operators and a restart take it next; what
\* a run ends with is up to the run.
RunMoves ==
    [none |-> {}, running |-> {}, waiting_approval |-> {"approval_approved", "approval_rejected"},
     approval_approved |-> {"resume_running"},
     resume_running |-> {"approval_approved", "approval_resumed"},
     approval_resumed |-> {"observing"}, observing |-> {"resolved"},
     approval_rejected |-> {}, resolved |-> {},
     completed |-> {}, needs_human |-> {}, failed |-> {}]

RunStatuses == DOMAIN RunMoves
Outcomes == {"completed", "needs_human", "waiting_approval", "failed"}
Over == {s \in RunStatuses \ {"none", "running"} : RunMoves[s] = {}}

a2a_state_from_autooncall_status(status) ==
    CASE status \in {"waiting_approval", "approval_approved", "needs_human"} -> "INPUT_REQUIRED"
      [] status = "approval_rejected" -> "REJECTED"
      [] status = "failed" -> "FAILED"
      [] status \in {"running", "resume_running", "observing"} -> "WORKING"
      [] status \in {"completed", "approval_resumed", "resolved"} -> "COMPLETED"
      [] OTHER -> "UNSPECIFIED"

States == {"UNSPECIFIED", "SUBMITTED", "WORKING", "INPUT_REQUIRED", "REJECTED", "FAILED", "COMPLETED"}

NoRecord == [request |-> "none", state |-> "none"]

\* seen: the state the call will save or answer; answer: what the last call was told.
Call == [pc : {"idle", "lookup", "snapshot", "save", "create", "conflict", "run", "running",
               "finish", "save_run", "fail"},
         op : {"none", "send", "stream", "get"}, task : Tasks \cup {"none"},
         request : Requests \cup {"none"}, seen : States \cup {"none"}, answer : States \cup {"none", "error"}]

NoCall == [pc |-> "idle", op |-> "none", task |-> "none", request |-> "none",
           seen |-> "none", answer |-> "none"]

Goto(c, pc) == call' = [call EXCEPT ![c].pc = pc]
At(c, pc) == call[c].pc = pc
T(c) == call[c].task
Answer(c, answer) ==
    call' = [call EXCEPT ![c] = [@ EXCEPT !.pc = "idle", !.seen = "none", !.answer = answer]]

Raises == faults < MaxFaults /\ faults' = faults + 1

-----------------------------------------------------------------------------
(* Reading a task *)

\* The content of a client's requests; get_task rebuilds it from the record.
Arrive(c, op, t) ==
    /\ At(c, "idle")
    /\ \E q \in IF op = "get" THEN {"none"} ELSE Requests :
          call' = [call EXCEPT ![c] = [pc |-> "lookup", op |-> op, task |-> t, request |-> q,
                                       seen |-> "none", answer |-> "none"]]
    /\ UNCHANGED <<skill, record, session, runs, faults>>

matches(c) == call[c].op = "get" \/ record[T(c)].request = call[c].request

\* _get_task_record, _ensure_record_matches
Lookup(c) ==
    LET r == record[T(c)]
    IN  /\ At(c, "lookup")
        /\ IF r = NoRecord
             THEN IF call[c].op = "get" THEN Answer(c, "error") ELSE Goto(c, "create")
             ELSE IF ~matches(c) THEN Answer(c, "error")
             ELSE IF skill[T(c)] = "answer" THEN Answer(c, r.state)
             ELSE call' = [call EXCEPT ![c] = [@ EXCEPT !.pc = "snapshot", !.seen = r.state]]
        /\ UNCHANGED <<skill, record, session, runs, faults>>

\* Without a snapshot the record that was read is the answer.
ReadSnapshot(c) ==
    /\ At(c, "snapshot")
    /\ IF session[T(c)] = "none"
         THEN Answer(c, call[c].seen)
         ELSE call' = [call EXCEPT ![c] = [@ EXCEPT !.pc = "save",
                          !.seen = a2a_state_from_autooncall_status(session[T(c)])]]
    /\ UNCHANGED <<skill, record, session, runs, faults>>

\* Mutant: a record once saved is not saved again.
saves_submitted_only(t, state) ==
    record' = [record EXCEPT ![t].state = IF @ = "SUBMITTED" THEN state ELSE @]

\* The last save wins.
save_a2a_task_record(t, state) == record' = [record EXCEPT ![t].state = state]

\* _save_task_record of a task that was read: the caller is told what it saved.
SaveRead(c) ==
    /\ At(c, "save")
    /\ IF matches(c)
         THEN save_a2a_task_record(T(c), call[c].seen) /\ Answer(c, call[c].seen)
         ELSE Answer(c, "error") /\ UNCHANGED record
    /\ UNCHANGED <<skill, session, runs, faults>>

-----------------------------------------------------------------------------
(* Running a task: send_message and stream_message *)

\* Mutant: a record that is there already is replaced.
creates_anyway(t) == TRUE

\* INSERT OR IGNORE
creates(t) == record[t] = NoRecord

CreateTask(c) ==
    /\ At(c, "create")
    /\ IF creates(T(c))
         THEN /\ record' = [record EXCEPT ![T(c)] = [request |-> call[c].request,
                                                     state |-> "SUBMITTED"]]
              /\ Goto(c, "run")
         ELSE Goto(c, "conflict") /\ UNCHANGED record
    /\ UNCHANGED <<skill, session, runs, faults>>

\* Mutant: the record that is there already is answered as it is.
answers_any_request(c) == TRUE

\* Whether a call that lost the insert is answered with the other call's task.
answers_conflict(c) == matches(c)

Conflict(c) ==
    /\ At(c, "conflict")
    /\ Answer(c, IF answers_conflict(c) THEN record[T(c)].state ELSE "error")
    /\ UNCHANGED <<skill, record, session, runs, faults>>

\* diagnose() takes the session or finds it taken; the other skills ask their service.
StartRun(c) ==
    LET t == T(c)
    IN  /\ At(c, "run")
        /\ runs' = [runs EXCEPT ![t] = @ + 1]
        /\ \/ /\ IF skill[t] = "answer" THEN Goto(c, "running") /\ UNCHANGED session
                 ELSE IF session[t] = "none"
                   THEN Goto(c, "running") /\ session' = [session EXCEPT ![t] = "running"]
                   ELSE Goto(c, "fail") /\ UNCHANGED session
              /\ UNCHANGED faults
           \/ Raises /\ Goto(c, "fail") /\ UNCHANGED session
        /\ UNCHANGED <<skill, record>>

\* The events of the run are over; what its last snapshot says, or the answer.
EndRun(c) ==
    LET t == T(c)
    IN  /\ At(c, "running")
        /\ IF skill[t] = "answer"
             THEN /\ call' = [call EXCEPT ![c] = [@ EXCEPT !.pc = "save_run", !.seen = "COMPLETED"]]
                  /\ UNCHANGED session
             ELSE /\ Goto(c, "finish")
                  /\ \E status \in Outcomes : session' = [session EXCEPT ![t] = status]
        /\ UNCHANGED <<skill, record, runs, faults>>

\* An exception leaves the run: its snapshot stays as it was last saved.
RunRaises(c) ==
    /\ call[c].pc \in {"running", "finish", "save_run"}
    /\ Raises
    /\ Goto(c, "fail")
    /\ UNCHANGED <<skill, record, session, runs>>

FinishRun(c) ==
    /\ At(c, "finish")
    /\ call' = [call EXCEPT ![c] = [@ EXCEPT !.pc = "save_run",
                   !.seen = a2a_state_from_autooncall_status(session[T(c)])]]
    /\ UNCHANGED <<skill, record, session, runs, faults>>

SaveRun(c) ==
    /\ At(c, "save_run")
    /\ IF matches(c)
         THEN save_a2a_task_record(T(c), call[c].seen) /\ Answer(c, call[c].seen)
         ELSE Goto(c, "fail") /\ UNCHANGED record
    /\ UNCHANGED <<skill, session, runs, faults>>

\* _save_failed_task_record, which may raise too.
SaveFailed(c) ==
    /\ At(c, "fail")
    /\ Answer(c, "error")
    /\ \/ /\ IF matches(c) THEN save_a2a_task_record(T(c), "FAILED") ELSE UNCHANGED record
          /\ UNCHANGED faults
       \/ Raises /\ UNCHANGED record
    /\ UNCHANGED <<skill, session, runs>>

\* The reader of a stream goes away: after the first event the run never starts, later it is
\* interrupted and saved as failed.  The record is not touched.
LeaveStream(c) ==
    LET t == T(c)
    IN  /\ call[c].op = "stream" /\ call[c].pc \in {"run", "running"}
        /\ skill[t] = "diagnosis"
        /\ Raises
        /\ session' = [session EXCEPT ![t] = IF At(c, "running") THEN "failed" ELSE @]
        /\ Answer(c, "none")
        /\ UNCHANGED <<skill, record, runs>>

\* The process of a call dies.
Crash(c) ==
    /\ ~At(c, "idle")
    /\ Raises
    /\ Answer(c, "none")
    /\ UNCHANGED <<skill, record, session, runs>>

-----------------------------------------------------------------------------
(* The sessions, outside of the facade *)

Runner(t) == {c \in Callers : T(c) = t /\ At(c, "running")}

\* Decisions, resumes and changes, as the read model shows them.
SessionMoves(t) ==
    /\ \E status \in RunMoves[session[t]] : session' = [session EXCEPT ![t] = status]
    /\ UNCHANGED <<skill, record, call, runs, faults>>

\* reconcile_incomplete_runs: a run nobody runs is closed.
Reconcile(t) ==
    /\ session[t] = "running" /\ Runner(t) = {}
    /\ session' = [session EXCEPT ![t] = "failed"]
    /\ UNCHANGED <<skill, record, call, runs, faults>>

-----------------------------------------------------------------------------
Init ==
    /\ skill \in Skills
    /\ record = [t \in Tasks |-> NoRecord]
    /\ session = [t \in Tasks |-> "none"]
    /\ call = [c \in Callers |-> NoCall]
    /\ runs = [t \in Tasks |-> 0]
    /\ faults = 0

Continue(c) ==
    \/ Lookup(c) \/ ReadSnapshot(c) \/ SaveRead(c) \/ CreateTask(c) \/ Conflict(c)
    \/ StartRun(c) \/ EndRun(c) \/ FinishRun(c) \/ SaveRun(c) \/ SaveFailed(c)

Next ==
    \/ \E c \in Callers :
          \/ \E t \in Tasks, op \in {"send", "stream", "get"} : Arrive(c, op, t)
          \/ Continue(c) \/ RunRaises(c) \/ LeaveStream(c) \/ Crash(c)
    \/ \E t \in Tasks : SessionMoves(t) \/ Reconcile(t)

A2ASpec == Init /\ [][Next]_a2aVars

\* Handlers go on, and clients poll a task for as long as they like.
A2AFairSpec ==
    /\ A2ASpec
    /\ \A c \in Callers : WF_a2aVars(Continue(c))
    /\ \A t \in Tasks : SF_a2aVars(\E c \in Callers : Arrive(c, "get", t))

-----------------------------------------------------------------------------
(* Properties *)

\* The type invariant, checked as part of OneRunPerMessage: records, sessions and calls stay in their sets.
A2ATypeOK ==
    /\ skill \in Skills
    /\ record \in [Tasks -> [request : Requests, state : States] \cup {NoRecord}]
    /\ session \in [Tasks -> RunStatuses]
    /\ call \in [Callers -> Call]
    /\ runs \in [Tasks -> Nat]
    /\ faults \in 0..MaxFaults

\* However often and to however many processes a message is sent, and whoever dies in
\* between, it is run at most once (create_a2a_task_record).
OneRunPerMessage == A2ATypeOK /\ \A t \in Tasks : runs[t] <= 1

\* A client is never told the state of a task that runs another request than the one it has
\* sent under that messageId, also when both are inserted at once
\* (_ensure_record_matches, before the insert, after a lost one and at each save).
AnswersOwnRequest ==
    \A c \in Callers :
        call[c].op \in {"send", "stream"} /\ call[c].answer \in States
            => record[T(c)].request = call[c].request

\* While clients poll, the record of a run that is over comes to say how it ended and stays
\* so, whatever older states other processes still save and though the call that ran it
\* raised, was left or died (get_task, _save_task_record).
RecordSettles ==
    \A t \in Tasks :
        <>[](session[t] \in Over)
            => <>[](record[t].state = a2a_state_from_autooncall_status(session[t]))
=============================================================================
