------------------------------ MODULE A2AProofs ------------------------------
(***************************************************************************)
(* Proofs about A2ATask for every set of callers, messages and requests,   *)
(* every assignment of skills and any number of faults: a message is run   *)
(* at most once, and a client is answered about its own request.           *)
(***************************************************************************)
EXTENDS A2ATask, TLAPS

Steps == {"lookup", "snapshot", "save", "create", "conflict", "run", "running", "finish",
          "save_run", "fail"}

\* Where a call has found or inserted the record of its task.
WithRecord == {"snapshot", "save", "conflict", "run", "running", "finish", "save_run", "fail"}

\* A call knows its message; past the lookup its record is there, and what it was told to
\* be its own is.
CallSound(c) ==
    /\ call[c].op # "none" => call[c].task \in Tasks
    /\ call[c].op \in {"send", "stream"} => call[c].request \in Requests
    /\ call[c].pc # "idle" => call[c].op # "none" /\ call[c].answer = "none"
    /\ call[c].pc \in WithRecord => record[T(c)] # NoRecord
    /\ call[c].pc \in Steps \ {"lookup", "snapshot", "save"} => call[c].op # "get"
    /\ call[c].pc \in {"snapshot", "save", "save_run"} => call[c].seen \in States
    /\ call[c].pc = "snapshot" => matches(c)
    /\ call[c].op \in {"send", "stream"} /\ call[c].answer \in States
          => record[T(c)] # NoRecord /\ record[T(c)].request = call[c].request

\* Only the call that inserted a record runs its task, and it has not run before.
RunsOwned ==
    /\ \A t \in Tasks : /\ runs[t] <= 1
                        /\ record[t] = NoRecord => runs[t] = 0
    /\ \A c \in Callers : call[c].pc = "run" => runs[T(c)] = 0
    /\ \A c, d \in Callers :
          call[c].pc = "run" /\ call[d].pc = "run" /\ T(c) = T(d) => c = d

A2AInv ==
    /\ A2ATypeOK
    /\ \A c \in Callers : CallSound(c)
    /\ RunsOwned

-----------------------------------------------------------------------------
(* Operators *)

\* Every run status has its A2A state.
LEMMA StateType == \A status : a2a_state_from_autooncall_status(status) \in States
BY DEF a2a_state_from_autooncall_status, States

LEMMA MovesType == \A s \in RunStatuses : RunMoves[s] \subseteq RunStatuses
BY DEF RunStatuses, RunMoves

\* A record's save changes its state and nothing else.
LEMMA SaveType ==
    ASSUME A2ATypeOK, NEW t \in Tasks, NEW s \in States, record[t] # NoRecord,
           save_a2a_task_record(t, s)
    PROVE  /\ record' \in [Tasks -> [request : Requests, state : States] \cup {NoRecord}]
           /\ \A u \in Tasks : record[u] # NoRecord
                 => record'[u] # NoRecord /\ record'[u].request = record[u].request
           /\ \A u \in Tasks : record[u] = NoRecord => record'[u] = NoRecord
BY DEF save_a2a_task_record, A2ATypeOK, NoRecord, States

\* What each step does to the records: none goes away, none changes its request.
RecordsKept ==
    \A t \in Tasks : record[t] # NoRecord
        => record'[t] # NoRecord /\ record'[t].request = record[t].request

\* A call that does not move stays sound while records keep their requests.
LEMMA CallKept ==
    ASSUME NEW d \in Callers, CallSound(d), call'[d] = call[d], RecordsKept
    PROVE  CallSound(d)'
BY DEF CallSound, matches, T, WithRecord, Steps, RecordsKept

\* The answer a call may be given.
Told(c, a) ==
    \/ a \in {"none", "error"}
    \/ a \in States /\ record[T(c)] # NoRecord /\ matches(c)

\* A call that is answered is sound and holds no task to run.
LEMMA Answered ==
    ASSUME A2AInv, NEW c \in Callers, NEW a, Told(c, a), call[c].pc # "idle",
           RecordsKept, Answer(c, a)
    PROVE  /\ call' \in [Callers -> Call]
           /\ \A d \in Callers : CallSound(d)'
           /\ \A d \in Callers : call'[d].pc = "run" => d # c /\ call'[d] = call[d]
<1>1. call[c] \in Call /\ a \in States \cup {"none", "error"}
  BY DEF A2AInv, A2ATypeOK, Told
<1>2. /\ call' \in [Callers -> Call]
      /\ \A d \in Callers \ {c} : call'[d] = call[d]
      /\ call'[c].pc = "idle" /\ call'[c].answer = a
      /\ call'[c].op = call[c].op /\ call'[c].task = call[c].task
      /\ call'[c].request = call[c].request
  BY <1>1 DEF Answer, A2AInv, A2ATypeOK, Call
<1>3. CallSound(c)'
  <2>1. CallSound(c) /\ call[c].op # "none" /\ T(c) \in Tasks
    BY DEF A2AInv, CallSound, T
  <2>2. call[c].op \in {"send", "stream"} /\ a \in States
          => record[T(c)] # NoRecord /\ record[T(c)].request = call[c].request
    BY DEF Told, matches, States
  <2>3. QED
    BY <1>2, <2>1, <2>2 DEF CallSound, RecordsKept, T, WithRecord, Steps
<1>4. QED
  BY <1>2, <1>3, CallKept DEF A2AInv

\* What a call needs at the step it goes to.
Ready(c, pc, seen) ==
    /\ pc \in Steps \ {"lookup"}
    /\ pc \in WithRecord => record'[T(c)] # NoRecord
    /\ pc \in Steps \ {"snapshot", "save"} => call[c].op # "get"
    /\ pc \in {"snapshot", "save", "save_run"} => seen \in States
    /\ pc = "snapshot" => matches(c) /\ record[T(c)] # NoRecord

\* Call c is at step pc with what it has seen; nothing else of the calls changes.
MovesTo(c, pc, seen) ==
    /\ call' \in [Callers -> Call]
    /\ \A d \in Callers \ {c} : call'[d] = call[d]
    /\ call'[c].pc = pc /\ call'[c].seen = seen
    /\ call'[c].op = call[c].op /\ call'[c].task = call[c].task
    /\ call'[c].request = call[c].request /\ call'[c].answer = call[c].answer

LEMMA MovesToStep ==
    ASSUME A2ATypeOK, NEW c \in Callers, NEW pc \in Steps
    PROVE  /\ Goto(c, pc) => MovesTo(c, pc, call[c].seen)
           /\ \A seen \in States \cup {"none"} :
                 call' = [call EXCEPT ![c] = [@ EXCEPT !.pc = pc, !.seen = seen]]
                    => MovesTo(c, pc, seen)
<1>1. call[c] \in Call /\ call \in [Callers -> Call]
  BY DEF A2ATypeOK
<1>2. ASSUME Goto(c, pc)
      PROVE  MovesTo(c, pc, call[c].seen)
  <2>1. [call[c] EXCEPT !.pc = pc] \in Call
    BY <1>1 DEF Call, Steps
  <2>2. QED
    BY <1>1, <1>2, <2>1 DEF Goto, MovesTo, Call
<1>3. ASSUME NEW seen \in States \cup {"none"},
             call' = [call EXCEPT ![c] = [@ EXCEPT !.pc = pc, !.seen = seen]]
      PROVE  MovesTo(c, pc, seen)
  <2>1. [call[c] EXCEPT !.pc = pc, !.seen = seen] \in Call
    BY <1>1 DEF Call, Steps
  <2>2. QED
    BY <1>1, <1>3, <2>1 DEF MovesTo, Call
<1>4. QED
  BY <1>2, <1>3

\* A call that goes on to a step it is ready for is sound.
LEMMA Moved ==
    ASSUME A2AInv, NEW c \in Callers, NEW pc, NEW seen, MovesTo(c, pc, seen),
           Ready(c, pc, seen), call[c].pc # "idle", RecordsKept
    PROVE  \A d \in Callers : CallSound(d)'
<1>1. CallSound(c)'
  <2>1. CallSound(c) /\ call[c].op # "none" /\ T(c) \in Tasks
    BY DEF A2AInv, CallSound, T
  <2>2. T(c)' = T(c)
    BY DEF T, MovesTo
  <2>3. pc = "snapshot" => matches(c)'
    BY <2>1, <2>2 DEF Ready, RecordsKept, matches, MovesTo
  <2>4. call[c].answer = "none"
    BY <2>1 DEF CallSound
  <2>5. QED
    BY <2>1, <2>2, <2>3, <2>4 DEF CallSound, MovesTo, Ready, WithRecord, Steps, States
<1>2. QED
  BY <1>1, CallKept DEF A2AInv, MovesTo

\* Runs and records stay, and no call comes to run a task.
LEMMA RunsKept ==
    ASSUME A2AInv, runs' = runs,
           \A t \in Tasks : record'[t] = NoRecord => record[t] = NoRecord,
           \A d \in Callers : call'[d].pc = "run" => call'[d] = call[d]
    PROVE  RunsOwned'
BY DEF A2AInv, RunsOwned, T

-----------------------------------------------------------------------------
LEMMA A2AInit == Init => A2AInv
BY A2AAssumption DEF Init, A2AInv, A2ATypeOK, CallSound, RunsOwned, NoCall, Call, NoRecord,
       RunStatuses, RunMoves, WithRecord, Steps, States


\* A call past its arrival has a task, and the record it relies on.
LEMMA AtStep ==
    ASSUME A2AInv, NEW c \in Callers, call[c].pc # "idle"
    PROVE  /\ T(c) \in Tasks /\ CallSound(c) /\ call[c] \in Call
           /\ call[c].pc \in WithRecord => record[T(c)] # NoRecord
           /\ record[T(c)] # NoRecord => record[T(c)].state \in States
BY DEF A2AInv, A2ATypeOK, CallSound, T, NoRecord

\* A step that leaves the records and the runs alone.
LEMMA RecordsAlone ==
    ASSUME UNCHANGED record
    PROVE  /\ RecordsKept
           /\ \A t \in Tasks : record'[t] = NoRecord => record[t] = NoRecord
BY DEF RecordsKept

LEMMA LookupStep ==
    ASSUME A2AInv, NEW c \in Callers, Lookup(c)
    PROVE  A2AInv'
<1> DEFINE r == record[T(c)]
<1>1. /\ At(c, "lookup") /\ call[c].pc # "idle"
      /\ UNCHANGED <<skill, record, session, runs, faults>>
  BY DEF Lookup, At
<1>2. RecordsKept /\ \A t \in Tasks : record'[t] = NoRecord => record[t] = NoRecord
  BY <1>1, RecordsAlone
<1>3. T(c) \in Tasks /\ CallSound(c) /\ call[c] \in Call
  BY <1>1, AtStep
<1>4. /\ call' \in [Callers -> Call]
      /\ \A d \in Callers : CallSound(d)'
      /\ \A d \in Callers : call'[d].pc = "run" => call'[d] = call[d]
  <2>1. CASE r = NoRecord /\ call[c].op = "get"
    <3>1. Answer(c, "error")
      BY <2>1 DEF Lookup
    <3>2. QED
      BY <1>1, <1>2, <3>1, Answered DEF Told
  <2>2. CASE r = NoRecord /\ call[c].op # "get"
    <3>1. Goto(c, "create")
      BY <2>2 DEF Lookup
    <3>2. MovesTo(c, "create", call[c].seen)
      BY <3>1, MovesToStep DEF A2AInv, Steps
    <3>3. Ready(c, "create", call[c].seen)
      BY <2>2 DEF Ready, Steps, WithRecord
    <3>4. QED
      BY <1>1, <1>2, <3>2, <3>3, Moved DEF MovesTo
  <2>3. CASE r # NoRecord /\ ~matches(c)
    <3>1. Answer(c, "error")
      BY <2>3 DEF Lookup
    <3>2. QED
      BY <1>1, <1>2, <3>1, Answered DEF Told
  <2>4. CASE r # NoRecord /\ matches(c) /\ skill[T(c)] = "answer"
    <3>1. Answer(c, r.state)
      BY <2>4 DEF Lookup
    <3>2. Told(c, r.state)
      BY <1>1, <2>4, AtStep DEF Told
    <3>3. QED
      BY <1>1, <1>2, <3>1, <3>2, Answered
  <2>5. CASE r # NoRecord /\ matches(c) /\ skill[T(c)] # "answer"
    <3>1. call' = [call EXCEPT ![c] = [@ EXCEPT !.pc = "snapshot", !.seen = r.state]]
      BY <2>5 DEF Lookup
    <3>2. r.state \in States
      BY <1>1, <2>5, AtStep
    <3>3. MovesTo(c, "snapshot", r.state)
      BY <3>1, <3>2, MovesToStep DEF A2AInv, Steps
    <3>4. Ready(c, "snapshot", r.state)
      BY <1>1, <2>5, <3>2 DEF Ready, Steps, WithRecord
    <3>5. QED
      BY <1>1, <1>2, <3>3, <3>4, Moved DEF MovesTo
  <2>6. QED
    BY <2>1, <2>2, <2>3, <2>4, <2>5
<1>5. RunsOwned'
  BY <1>1, <1>2, <1>4, RunsKept
<1>6. QED
  BY <1>1, <1>4, <1>5 DEF A2AInv, A2ATypeOK

LEMMA ReadSnapshotStep ==
    ASSUME A2AInv, NEW c \in Callers, ReadSnapshot(c)
    PROVE  A2AInv'
<1> DEFINE s == a2a_state_from_autooncall_status(session[T(c)])
<1>1. /\ At(c, "snapshot") /\ call[c].pc # "idle" /\ call[c].pc \in WithRecord
      /\ UNCHANGED <<skill, record, session, runs, faults>>
  BY DEF ReadSnapshot, At, WithRecord
<1>2. RecordsKept /\ \A t \in Tasks : record'[t] = NoRecord => record[t] = NoRecord
  BY <1>1, RecordsAlone
<1>3. T(c) \in Tasks /\ CallSound(c) /\ record[T(c)] # NoRecord
  BY <1>1, AtStep
<1>4. /\ call' \in [Callers -> Call]
      /\ \A d \in Callers : CallSound(d)'
      /\ \A d \in Callers : call'[d].pc = "run" => call'[d] = call[d]
  <2>1. CASE session[T(c)] = "none"
    <3>1. Answer(c, call[c].seen)
      BY <2>1 DEF ReadSnapshot
    <3>2. Told(c, call[c].seen)
      BY <1>1, <1>3 DEF Told, CallSound, At
    <3>3. QED
      BY <1>1, <1>2, <3>1, <3>2, Answered
  <2>2. CASE session[T(c)] # "none"
    <3>1. call' = [call EXCEPT ![c] = [@ EXCEPT !.pc = "save", !.seen = s]]
      BY <2>2 DEF ReadSnapshot
    <3>2. s \in States
      BY StateType
    <3>3. MovesTo(c, "save", s)
      BY <3>1, <3>2, MovesToStep DEF A2AInv, Steps
    <3>4. Ready(c, "save", s)
      BY <1>1, <1>3, <3>2 DEF Ready, Steps, WithRecord
    <3>5. QED
      BY <1>1, <1>2, <3>3, <3>4, Moved DEF MovesTo
  <2>3. QED
    BY <2>1, <2>2
<1>5. RunsOwned'
  BY <1>1, <1>2, <1>4, RunsKept
<1>6. QED
  BY <1>1, <1>4, <1>5 DEF A2AInv, A2ATypeOK

\* A call arrives: it holds nothing yet.
LEMMA ArriveStep ==
    ASSUME A2AInv, NEW c \in Callers, NEW t \in Tasks, NEW op \in {"send", "stream", "get"},
           Arrive(c, op, t)
    PROVE  A2AInv'
<1>1. PICK q \in IF op = "get" THEN {"none"} ELSE Requests :
         call' = [call EXCEPT ![c] = [pc |-> "lookup", op |-> op, task |-> t, request |-> q,
                                      seen |-> "none", answer |-> "none"]]
  BY DEF Arrive
<1>2. UNCHANGED <<skill, record, session, runs, faults>>
  BY DEF Arrive
<1>3. RecordsKept /\ \A u \in Tasks : record'[u] = NoRecord => record[u] = NoRecord
  BY <1>2, RecordsAlone
<1>4. call' \in [Callers -> Call]
  BY <1>1 DEF A2AInv, A2ATypeOK, Call
<1>5. CallSound(c)'
  BY <1>1 DEF A2AInv, A2ATypeOK, CallSound, WithRecord, Steps, States
<1>6. \A d \in Callers : CallSound(d)'
  BY <1>1, <1>3, <1>5, CallKept DEF A2AInv, A2ATypeOK
<1>7. \A d \in Callers : call'[d].pc = "run" => call'[d] = call[d]
  BY <1>1 DEF A2AInv, A2ATypeOK
<1>8. RunsOwned'
  BY <1>2, <1>3, <1>7, RunsKept
<1>9. QED
  BY <1>2, <1>4, <1>6, <1>8 DEF A2AInv, A2ATypeOK

\* A call that saves the record of its task, or finds that it is another's, and is answered.
LEMMA SaveReadStep ==
    ASSUME A2AInv, NEW c \in Callers, SaveRead(c)
    PROVE  A2AInv'
<1>1. /\ At(c, "save") /\ call[c].pc # "idle" /\ call[c].pc \in WithRecord
      /\ UNCHANGED <<skill, session, runs, faults>>
  BY DEF SaveRead, At, WithRecord
<1>2. T(c) \in Tasks /\ CallSound(c) /\ record[T(c)] # NoRecord /\ call[c].seen \in States
  BY <1>1, AtStep DEF CallSound, At
<1>3. PICK a : /\ Answer(c, a) /\ Told(c, a)
               /\ UNCHANGED record \/ save_a2a_task_record(T(c), call[c].seen)
  BY <1>2 DEF SaveRead, Told
<1>4. /\ RecordsKept /\ \A t \in Tasks : record'[t] = NoRecord => record[t] = NoRecord
      /\ record' \in [Tasks -> [request : Requests, state : States] \cup {NoRecord}]
  BY <1>2, <1>3, SaveType, RecordsAlone DEF A2AInv, A2ATypeOK, RecordsKept
<1>5. /\ call' \in [Callers -> Call]
      /\ \A d \in Callers : CallSound(d)'
      /\ \A d \in Callers : call'[d].pc = "run" => call'[d] = call[d]
  BY <1>1, <1>3, <1>4, Answered
<1>6. RunsOwned'
  BY <1>1, <1>4, <1>5, RunsKept
<1>7. QED
  BY <1>1, <1>4, <1>5, <1>6 DEF A2AInv, A2ATypeOK

\* The insert gives the task to one call, before it ran.
LEMMA CreateStep ==
    ASSUME A2AInv, NEW c \in Callers, CreateTask(c)
    PROVE  A2AInv'
<1>1. /\ At(c, "create") /\ call[c].pc # "idle"
      /\ UNCHANGED <<skill, session, runs, faults>>
  BY DEF CreateTask, At
<1>2. /\ T(c) \in Tasks /\ CallSound(c)
      /\ call[c].op # "get" /\ call[c].request \in Requests /\ call[c] \in Call
  BY <1>1, AtStep DEF CallSound, At, Steps, Call
<1>3. CASE record[T(c)] = NoRecord
  <2>1. /\ record' = [record EXCEPT ![T(c)] = [request |-> call[c].request, state |-> "SUBMITTED"]]
        /\ Goto(c, "run")
    BY <1>3 DEF CreateTask, creates
  <2>2. /\ record' \in [Tasks -> [request : Requests, state : States] \cup {NoRecord}]
        /\ \A t \in Tasks \ {T(c)} : record'[t] = record[t]
        /\ record'[T(c)] # NoRecord
    BY <1>2, <2>1 DEF A2AInv, A2ATypeOK, States, NoRecord
  <2>3. RecordsKept
    BY <1>3, <2>2 DEF RecordsKept
  <2>4. MovesTo(c, "run", call[c].seen)
    BY <2>1, MovesToStep DEF A2AInv, Steps
  <2>5. Ready(c, "run", call[c].seen)
    BY <1>2, <2>2 DEF Ready, Steps, WithRecord
  <2>6. \A d \in Callers : CallSound(d)'
    BY <1>1, <2>3, <2>4, <2>5, Moved
  <2>7. RunsOwned'
    <3>1. runs[T(c)] = 0
      BY <1>2, <1>3 DEF A2AInv, RunsOwned
    <3>2. \A d \in Callers : call[d].pc = "run" => T(d) # T(c)
      BY <1>3, AtStep DEF WithRecord
    <3>3. \A d \in Callers : call'[d].task = call[d].task
      BY <2>4 DEF MovesTo
    <3>4. QED
      BY <1>1, <2>2, <2>4, <3>1, <3>2, <3>3 DEF A2AInv, RunsOwned, MovesTo, T
  <2>8. QED
    BY <1>1, <2>2, <2>4, <2>6, <2>7 DEF A2AInv, A2ATypeOK, MovesTo
<1>4. CASE record[T(c)] # NoRecord
  <2>1. Goto(c, "conflict") /\ UNCHANGED record
    BY <1>4 DEF CreateTask, creates
  <2>2. RecordsKept /\ \A t \in Tasks : record'[t] = NoRecord => record[t] = NoRecord
    BY <2>1, RecordsAlone
  <2>3. MovesTo(c, "conflict", call[c].seen)
    BY <2>1, MovesToStep DEF A2AInv, Steps
  <2>4. Ready(c, "conflict", call[c].seen)
    BY <1>2, <1>4, <2>1 DEF Ready, Steps, WithRecord
  <2>5. \A d \in Callers : CallSound(d)'
    BY <1>1, <2>2, <2>3, <2>4, Moved
  <2>6. RunsOwned'
    BY <1>1, <2>2, <2>3, RunsKept DEF MovesTo
  <2>7. QED
    BY <1>1, <2>1, <2>3, <2>5, <2>6 DEF A2AInv, A2ATypeOK, MovesTo
<1>5. QED
  BY <1>3, <1>4

\* A call that lost the insert is told about the record only if it is its own.
LEMMA ConflictStep ==
    ASSUME A2AInv, NEW c \in Callers, Conflict(c)
    PROVE  A2AInv'
<1>1. /\ At(c, "conflict") /\ call[c].pc # "idle" /\ call[c].pc \in WithRecord
      /\ UNCHANGED <<skill, record, session, runs, faults>>
  BY DEF Conflict, At, WithRecord
<1>2. RecordsKept /\ \A t \in Tasks : record'[t] = NoRecord => record[t] = NoRecord
  BY <1>1, RecordsAlone
<1>3. PICK a : Answer(c, a) /\ Told(c, a)
  BY <1>1, AtStep DEF Conflict, answers_conflict, Told
<1>4. /\ call' \in [Callers -> Call]
      /\ \A d \in Callers : CallSound(d)'
      /\ \A d \in Callers : call'[d].pc = "run" => call'[d] = call[d]
  BY <1>1, <1>2, <1>3, Answered
<1>5. RunsOwned'
  BY <1>1, <1>2, <1>4, RunsKept
<1>6. QED
  BY <1>1, <1>4, <1>5 DEF A2AInv, A2ATypeOK

\* The call that inserted the record runs the task, once.
LEMMA StartRunStep ==
    ASSUME A2AInv, NEW c \in Callers, StartRun(c)
    PROVE  A2AInv'
<1>1. /\ At(c, "run") /\ call[c].pc # "idle" /\ call[c].pc \in WithRecord
      /\ runs' = [runs EXCEPT ![T(c)] = @ + 1]
      /\ UNCHANGED <<skill, record>>
  BY DEF StartRun, At, WithRecord
<1>2. /\ T(c) \in Tasks /\ record[T(c)] # NoRecord /\ call[c].op # "get" /\ runs[T(c)] = 0
  BY <1>1, AtStep DEF CallSound, At, Steps, A2AInv, RunsOwned
<1>3. RecordsKept
  BY <1>1, RecordsAlone
<1>4. PICK pc \in {"running", "fail"} : Goto(c, pc)
  BY DEF StartRun
<1>5. MovesTo(c, pc, call[c].seen)
  BY <1>4, MovesToStep DEF A2AInv, Steps
<1>6. Ready(c, pc, call[c].seen)
  BY <1>1, <1>2, <1>4 DEF Ready, Steps, WithRecord
<1>7. \A d \in Callers : CallSound(d)'
  BY <1>1, <1>3, <1>5, <1>6, Moved
<1>8. RunsOwned'
  <2>1. \A d \in Callers : call'[d].pc = "run" => d # c /\ call'[d] = call[d]
    BY <1>4, <1>5 DEF MovesTo
  <2>2. \A d \in Callers : call'[d].pc = "run" => T(d) # T(c)
    BY <1>1, <2>1 DEF A2AInv, RunsOwned, At
  <2>3. runs'[T(c)] = 1 /\ \A t \in Tasks \ {T(c)} : runs'[t] = runs[t]
    BY <1>1, <1>2 DEF A2AInv, A2ATypeOK
  <2>4. \A d \in Callers : call'[d].pc = "run" => T(d) \in Tasks
    BY <2>1, AtStep
  <2>5. QED
    BY <1>1, <1>2, <2>1, <2>2, <2>3, <2>4 DEF A2AInv, RunsOwned, T
<1>9. session' \in [Tasks -> RunStatuses] /\ faults' \in 0..MaxFaults
  <2>1. faults' \in 0..MaxFaults
    BY A2AAssumption DEF StartRun, Raises, A2AInv, A2ATypeOK
  <2>2. session' = session \/ session' = [session EXCEPT ![T(c)] = "running"]
    BY DEF StartRun
  <2>3. QED
    BY <2>1, <2>2 DEF A2AInv, A2ATypeOK, RunStatuses, RunMoves
<1>10. runs' \in [Tasks -> Nat]
  BY <1>1, <1>2 DEF A2AInv, A2ATypeOK
<1>11. QED
  BY <1>1, <1>5, <1>7, <1>8, <1>9, <1>10 DEF A2AInv, A2ATypeOK, MovesTo

\* A call goes on with its run, records alone.
LEMMA RunGoesOn ==
    ASSUME A2AInv, NEW c \in Callers, call[c].pc \in {"running", "finish", "save_run"},
           NEW pc \in {"finish", "save_run", "fail"}, NEW seen, MovesTo(c, pc, seen),
           pc = "save_run" => seen \in States,
           UNCHANGED <<skill, record, runs>>,
           session' \in [Tasks -> RunStatuses], faults' \in 0..MaxFaults
    PROVE  A2AInv'
<1>1. call[c].pc # "idle" /\ call[c].pc \in WithRecord
  BY DEF WithRecord
<1>2. T(c) \in Tasks /\ record[T(c)] # NoRecord /\ call[c].op # "get"
  BY <1>1, AtStep DEF CallSound, Steps
<1>3. RecordsKept /\ \A t \in Tasks : record'[t] = NoRecord => record[t] = NoRecord
  BY RecordsAlone
<1>4. Ready(c, pc, seen)
  BY <1>2 DEF Ready, Steps, WithRecord
<1>5. \A d \in Callers : CallSound(d)'
  BY <1>1, <1>3, <1>4, Moved
<1>6. RunsOwned'
  BY <1>3, RunsKept DEF MovesTo
<1>7. QED
  BY <1>5, <1>6 DEF A2AInv, A2ATypeOK, MovesTo

LEMMA EndRunStep ==
    ASSUME A2AInv, NEW c \in Callers, EndRun(c) \/ FinishRun(c) \/ RunRaises(c)
    PROVE  A2AInv'
<1>1. /\ call[c].pc \in {"running", "finish", "save_run"}
      /\ UNCHANGED <<skill, record, runs>>
  BY DEF EndRun, FinishRun, RunRaises, At
<1>2. PICK pc \in {"finish", "save_run", "fail"}, seen \in States \cup {call[c].seen} :
         MovesTo(c, pc, seen) /\ (pc = "save_run" => seen \in States)
  <2>1. ASSUME NEW pc \in {"finish", "fail"}, Goto(c, pc)
        PROVE  MovesTo(c, pc, call[c].seen)
    BY <2>1, MovesToStep DEF A2AInv, Steps
  <2>2. ASSUME NEW s \in States,
               call' = [call EXCEPT ![c] = [@ EXCEPT !.pc = "save_run", !.seen = s]]
        PROVE  MovesTo(c, "save_run", s)
    BY <2>2, MovesToStep DEF A2AInv, Steps
  <2>3. CASE EndRun(c)
    BY <2>1, <2>2, <2>3 DEF EndRun, States
  <2>4. CASE FinishRun(c)
    BY <2>2, <2>4, StateType DEF FinishRun
  <2>5. CASE RunRaises(c)
    BY <2>1, <2>5 DEF RunRaises
  <2>6. QED
    BY <2>3, <2>4, <2>5
<1>3. faults' \in 0..MaxFaults
  BY A2AAssumption DEF EndRun, FinishRun, RunRaises, Raises, A2AInv, A2ATypeOK
<1>4. session' \in [Tasks -> RunStatuses]
  <2>1. \/ session' = session
        \/ \E status \in Outcomes : session' = [session EXCEPT ![T(c)] = status]
    BY DEF EndRun, FinishRun, RunRaises
  <2>2. QED
    BY <2>1 DEF A2AInv, A2ATypeOK, RunStatuses, RunMoves, Outcomes
<1>5. QED
  BY <1>1, <1>2, <1>3, <1>4, RunGoesOn

\* The record of a run is saved, or saved as failed.
LEMMA SaveRunStep ==
    ASSUME A2AInv, NEW c \in Callers, SaveRun(c) \/ SaveFailed(c)
    PROVE  A2AInv'
<1>1. /\ call[c].pc \in {"save_run", "fail"} /\ call[c].pc # "idle" /\ call[c].pc \in WithRecord
      /\ UNCHANGED <<skill, session, runs>>
  BY DEF SaveRun, SaveFailed, At, WithRecord
<1>2. /\ T(c) \in Tasks /\ CallSound(c) /\ record[T(c)] # NoRecord /\ call[c].op # "get"
      /\ call[c].pc = "save_run" => call[c].seen \in States
  BY <1>1, AtStep DEF CallSound, Steps
<1>3. /\ \/ UNCHANGED record
         \/ save_a2a_task_record(T(c), "FAILED")
         \/ call[c].seen \in States /\ save_a2a_task_record(T(c), call[c].seen)
      /\ (\E a : Answer(c, a) /\ Told(c, a)) \/ (Goto(c, "fail") /\ UNCHANGED record)
      /\ faults' \in 0..MaxFaults
  <2>1. faults' \in 0..MaxFaults
    BY A2AAssumption DEF SaveRun, SaveFailed, Raises, A2AInv, A2ATypeOK
  <2>2. CASE SaveRun(c)
    BY <1>2, <2>1, <2>2 DEF SaveRun, At, Told
  <2>3. CASE SaveFailed(c)
    BY <2>1, <2>3 DEF SaveFailed, Told
  <2>4. QED
    BY <2>2, <2>3
<1>4. /\ RecordsKept /\ \A t \in Tasks : record'[t] = NoRecord => record[t] = NoRecord
      /\ record' \in [Tasks -> [request : Requests, state : States] \cup {NoRecord}]
  BY <1>2, <1>3, SaveType, RecordsAlone DEF A2AInv, A2ATypeOK, RecordsKept, States
<1>5. CASE \E a : Answer(c, a) /\ Told(c, a)
  <2>1. /\ call' \in [Callers -> Call]
        /\ \A d \in Callers : CallSound(d)'
        /\ \A d \in Callers : call'[d].pc = "run" => call'[d] = call[d]
    BY <1>1, <1>4, <1>5, Answered
  <2>2. RunsOwned'
    BY <1>1, <1>4, <2>1, RunsKept
  <2>3. QED
    BY <1>1, <1>3, <1>4, <2>1, <2>2 DEF A2AInv, A2ATypeOK
<1>6. CASE Goto(c, "fail") /\ UNCHANGED record
  <2>1. MovesTo(c, "fail", call[c].seen)
    BY <1>6, MovesToStep DEF A2AInv, Steps
  <2>2. Ready(c, "fail", call[c].seen)
    BY <1>2, <1>6 DEF Ready, Steps, WithRecord
  <2>3. \A d \in Callers : CallSound(d)'
    BY <1>1, <1>4, <2>1, <2>2, Moved
  <2>4. RunsOwned'
    BY <1>1, <1>4, <2>1, RunsKept DEF MovesTo
  <2>5. QED
    BY <1>1, <1>3, <1>6, <2>1, <2>3, <2>4 DEF A2AInv, A2ATypeOK, MovesTo
<1>7. QED
  BY <1>3, <1>5, <1>6

\* The reader leaves or the process dies: the call is over, its record stays.
LEMMA LeaveStep ==
    ASSUME A2AInv, NEW c \in Callers, LeaveStream(c) \/ Crash(c)
    PROVE  A2AInv'
<1>1. /\ call[c].pc # "idle" /\ Answer(c, "none")
      /\ UNCHANGED <<skill, record, runs>>
  BY DEF LeaveStream, Crash, At
<1>2. RecordsKept /\ \A t \in Tasks : record'[t] = NoRecord => record[t] = NoRecord
  BY <1>1, RecordsAlone
<1>3. /\ call' \in [Callers -> Call]
      /\ \A d \in Callers : CallSound(d)'
      /\ \A d \in Callers : call'[d].pc = "run" => call'[d] = call[d]
  BY <1>1, <1>2, Answered DEF Told
<1>4. RunsOwned'
  BY <1>1, <1>2, <1>3, RunsKept
<1>5. faults' \in 0..MaxFaults
  BY A2AAssumption DEF LeaveStream, Crash, Raises, A2AInv, A2ATypeOK
<1>6. session' \in [Tasks -> RunStatuses]
  <2>1. \/ session' = session
        \/ session' = [session EXCEPT ![T(c)] = "failed"]
        \/ session' = [session EXCEPT ![T(c)] = @]
    BY DEF LeaveStream, Crash
  <2>2. QED
    BY <2>1 DEF A2AInv, A2ATypeOK, RunStatuses, RunMoves
<1>7. QED
  BY <1>1, <1>3, <1>4, <1>5, <1>6 DEF A2AInv, A2ATypeOK

\* The sessions move on their own.
LEMMA SessionStep ==
    ASSUME A2AInv, NEW t \in Tasks, SessionMoves(t) \/ Reconcile(t)
    PROVE  A2AInv'
<1>1. UNCHANGED <<skill, record, call, runs, faults>>
  BY DEF SessionMoves, Reconcile
<1>2. session' \in [Tasks -> RunStatuses]
  <2>1. PICK status \in RunStatuses : session' = [session EXCEPT ![t] = status]
    <3>1. RunMoves[session[t]] \subseteq RunStatuses /\ "failed" \in RunStatuses
      BY MovesType DEF A2AInv, A2ATypeOK, RunStatuses, RunMoves
    <3>2. QED
      BY <3>1 DEF SessionMoves, Reconcile
  <2>2. QED
    BY <2>1 DEF A2AInv, A2ATypeOK
<1>3. RecordsKept
  BY <1>1, RecordsAlone
<1>4. (\A d \in Callers : CallSound(d)') /\ RunsOwned'
  BY <1>1, <1>3, CallKept, RunsKept DEF A2AInv
<1>5. QED
  BY <1>1, <1>2, <1>4 DEF A2AInv, A2ATypeOK

-----------------------------------------------------------------------------
LEMMA A2AStep == A2AInv /\ [Next]_a2aVars => A2AInv'
<1> SUFFICES ASSUME A2AInv, [Next]_a2aVars
             PROVE  A2AInv'
  OBVIOUS
<1>1. ASSUME NEW c \in Callers, NEW t \in Tasks, NEW op \in {"send", "stream", "get"},
             Arrive(c, op, t)
      PROVE  A2AInv'
  BY <1>1, ArriveStep
<1>2. ASSUME NEW c \in Callers, Continue(c)
      PROVE  A2AInv'
  BY <1>2, LookupStep, ReadSnapshotStep, SaveReadStep, CreateStep, ConflictStep, StartRunStep,
     EndRunStep, SaveRunStep DEF Continue
<1>3. ASSUME NEW c \in Callers, RunRaises(c) \/ LeaveStream(c) \/ Crash(c)
      PROVE  A2AInv'
  BY <1>3, EndRunStep, LeaveStep
<1>4. ASSUME NEW t \in Tasks, SessionMoves(t) \/ Reconcile(t)
      PROVE  A2AInv'
  BY <1>4, SessionStep
<1>5. CASE UNCHANGED a2aVars
  BY <1>5 DEF a2aVars, A2AInv, A2ATypeOK, CallSound, T, matches, RunsOwned
<1>6. QED
  BY <1>1, <1>2, <1>3, <1>4, <1>5 DEF Next

LEMMA A2AInvariant == A2ASpec => []A2AInv
<1>1. Init => A2AInv
  BY A2AInit
<1>2. A2AInv /\ [Next]_a2aVars => A2AInv'
  BY A2AStep
<1>3. QED
  BY <1>1, <1>2, PTL DEF A2ASpec

\* Any number of clients may send a message to any number of processes, which may raise or
\* die anywhere: it is run at most once (create_a2a_task_record), and every variable keeps
\* its type.
THEOREM OneRunPerMessageHolds == A2ASpec => []OneRunPerMessage
<1>1. A2AInv => OneRunPerMessage
  BY DEF A2AInv, RunsOwned, OneRunPerMessage
<1>2. QED
  BY <1>1, A2AInvariant, PTL

\* No client is told the state of a task that runs another request than its own
\* (_ensure_record_matches).
THEOREM AnswersOwnRequestHolds == A2ASpec => []AnswersOwnRequest
<1>1. A2AInv => AnswersOwnRequest
  BY DEF A2AInv, CallSound, AnswersOwnRequest
<1>2. QED
  BY <1>1, A2AInvariant, PTL
=============================================================================
