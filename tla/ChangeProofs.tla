---------------------------- MODULE ChangeProofs ----------------------------
(***************************************************************************)
(* Proofs of the safety properties of the safe-change workflow, alone and  *)
(* at work together with the approval service (SafeChange), for every set  *)
(* of requests, handlers and actors, every expiry and any number of        *)
(* faults: types, gates, outbox, authorization, separation of duties, and  *)
(* the refinement of SafeChangeContract.                                   *)
(*                                                                         *)
(* Every step of ChangeNext is a step of SafeChangeNext, so one inductive  *)
(* invariant serves the two specifications.                                *)
(***************************************************************************)
EXTENDS SafeChange, ApprovalProofs

-----------------------------------------------------------------------------
(* The inductive invariant *)

\* Where a handler works on a copy of the execution row, and where it writes the
\* projections of a row it has just saved or read.
Projecting == {"incident_state", "report", "save_report", "trace", "mark"}
HasRow == Projecting \cup {"save", "precheck", "dry_run", "sandbox", "manual_check",
                           "manual_loading"}

\* Statuses an execution never leaves towards a running dry-run, or towards a running
\* sandbox execution: a save that expects these comes too late.
BeyondDryRun == ExecutionStatuses \ {"created", "precheck_running", "dry_run_running"}
BeyondSandbox == BeyondDryRun \ {"dry_run_completed", "sandbox_executing"}

Moves == Contract!AgentMoves \cup Contract!ReceiptMoves

\* What GatesPassed says of one row, whose plan is for a non-production environment
\* or not.
Gates(row, nonProd) ==
    /\ row.status \in Gated => row.precheck /\ row.dryRun
    /\ row.status \in {"sandbox_executing", "sandbox_validated"} => nonProd

\* The row in hand has all that going on at next takes.
Ready(row, next, nonProd) ==
    /\ next = "dry_run" => row.status = "dry_run_running" /\ row.precheck
    /\ next = "sandbox" =>
          \/ row.status = "escalated"
          \/ row.status = "sandbox_executing" /\ row.precheck /\ row.dryRun /\ nonProd

\* The stored row is past the step at pc: whatever that step saves is refused.
Past(pc, stored) ==
    \/ pc = "dry_run" /\ stored \in BeyondDryRun
    \/ pc = "sandbox" /\ stored \in BeyondSandbox

\* The save at hand cannot succeed any more.
Doomed(expected, stored) ==
    \/ expected = {"dry_run_running"} /\ stored \in BeyondDryRun
    \/ expected = {"sandbox_executing"} /\ stored \in BeyondSandbox

\* A row that is copied, or about to be, exists.
JobRow(k, execs) ==
    k.pc \in HasRow => k.row.status # "absent" /\ execs[k.id].status # "absent"

\* A save moves the status along an edge of the lifecycle, or not at all; a receipt
\* is built on a row whose status takes it.
JobMoves(k) ==
    /\ k.pc = "save" => \A s \in k.expected : s = k.row.status \/ <<s, k.row.status>> \in Moves
    /\ k.pc \in Projecting \cup {"save"} =>
          k.next \in {"idle", "precheck", "dry_run", "sandbox", "manual_check"}
    /\ k.pc = "manual_loading" => k.row.status \in manual_result_source_statuses(k.result)

\* The copy in hand passed the gates, or its save is doomed.
JobGates(k, stored, nonProd) ==
    /\ k.pc \in HasRow \ {"save"} => Gates(k.row, nonProd)
    /\ k.pc = "save" => \/ Doomed(k.expected, stored)
                        \/ Gates(k.row, nonProd) /\ Ready(k.row, k.next, nonProd)
    /\ k.pc \in Projecting =>
          /\ Ready(k.row, k.next, nonProd)
          /\ k.next \in {"dry_run", "sandbox"} =>
                stored = k.row.status \/ Past(k.next, stored)
    /\ k.pc \in {"dry_run", "sandbox"} =>
          Ready(k.row, k.pc, nonProd) \/ Past(k.pc, stored)

\* approval stands approved, and whoever recorded row is not who approved.
Duties(row, approval) ==
    row.recordedBy # "nobody" =>
        approval.status = "approved" /\ row.recordedBy # approval.decidedBy

JobDuties(k, approval) ==
    /\ k.pc \in HasRow => Duties(k.row, approval)
    /\ k.pc \in {"find", "create"} => approval.status = "approved"

\* The projections a handler at pc has tried.
TriedChange(pc) ==
    CASE pc \in {"report", "save_report"} -> {"incident_state"}
      [] pc = "trace" -> {"incident_state", "report"}
      [] pc = "mark" -> Projections
      [] OTHER -> {}

\* A projection that was tried is written for the row in hand, or its name is kept.
JobWritten(k, facts) ==
    \A p \in TriedChange(k.pc) :
        p \in k.failed \/ <<k.id, k.row.rev, k.row.status, p>> \in facts

JobFits(k, rows, execs, facts, plans) ==
    /\ JobRow(k, execs)
    /\ JobMoves(k)
    /\ JobGates(k, execs[k.id].status, plans[k.id].nonProd)
    /\ JobDuties(k, rows[k.id])
    /\ JobWritten(k, facts)

\* What a stored execution row of request a satisfies: the four properties, and that
\* no projection of a row that does not exist is pending.
RowFits(row, a, approval, facts, nonProd) ==
    /\ Gates(row, nonProd)
    /\ Duties(row, approval)
    /\ row.status # "absent" => approval.status = "approved"
    /\ row.status \notin {"absent", "created"} =>
          \A p \in Projections : p \in row.pending \/ <<a, row.rev, row.status, p>> \in facts
    /\ row.status = "absent" => row.pending = {}

\* The read of an approval a handler performs for the change service, if any.
Serves(u) == IF u.pc # "idle" /\ u.op \in {"start", "manual"} THEN u.op ELSE "none"

\* A handler reads an approval for the change service exactly while its job waits
\* for that approval.
Linked(u, k) ==
    /\ Serves(u) = CASE k.pc = "loading" -> "start"
                     [] k.pc = "manual_loading" -> "manual"
                     [] OTHER -> "none"
    /\ Serves(u) # "none" => u.id = k.id
    /\ u.pc \in {"check", "commit"} => u.op \in {"decide", "sweep"}
    /\ u.pc = "waiting_report" => u.op = "create"

AllLinked == \A w \in Workers : Linked(worker[w], job[w])
AllJobsFit == \A w \in Workers : JobFits(job[w], approvals, executions, audit, plan)
AllRowsFit ==
    \A a \in ApprovalIds : RowFits(executions[a], a, approvals[a], audit, plan[a].nonProd)

ChangeInv == RowsInv /\ ChangeTypeOK /\ AllLinked /\ AllJobsFit /\ AllRowsFit

-----------------------------------------------------------------------------
(* What the steps of other handlers leave intact *)

\* How a step may change what jobs and rows rest on: a standing approval stands, an
\* execution moves along the lifecycle, and facts only accumulate.
StoreMoves ==
    /\ \A a \in ApprovalIds :
          approvals[a].status = "approved" =>
              /\ approvals'[a].status = "approved"
              /\ approvals'[a].decidedBy = approvals[a].decidedBy
    /\ \A a \in ApprovalIds :
          \/ executions'[a].status = executions[a].status
          \/ <<executions[a].status, executions'[a].status>> \in Moves
    /\ audit \subseteq audit'
    /\ plan' = plan

\* A move of the lifecycle ends in a status, leaves the running steps behind, and never
\* comes back to them.
LEMMA MovesForward ==
    ASSUME NEW s, NEW t, <<s, t>> \in Moves
    PROVE  /\ t \in ExecutionStatuses
           /\ s # "escalated"
           /\ s \in BeyondDryRun \cup {"dry_run_running"} => t \in BeyondDryRun
           /\ s \in BeyondSandbox \cup {"sandbox_executing"} => t \in BeyondSandbox
<1>1. CASE <<s, t>> \in Contract!AgentMoves
  BY <1>1 DEF Contract!AgentMoves, BeyondDryRun, BeyondSandbox, ExecutionStatuses
<1>2. CASE <<s, t>> \in Contract!ReceiptMoves
  BY <1>2 DEF Contract!ReceiptMoves, BeyondDryRun, BeyondSandbox, ExecutionStatuses
<1>3. QED
  BY <1>1, <1>2 DEF Moves

\* "absent" is none of the statuses of a stored row.
LEMMA AbsentIsNoStatus == "absent" \notin ExecutionStatuses
BY DEF ExecutionStatuses

\* What a handler relies on survives the steps of the others.
LEMMA JobFrame ==
    ASSUME StoreMoves, NEW k \in Job, JobFits(k, approvals, executions, audit, plan)
    PROVE  JobFits(k, approvals', executions', audit', plan')
<1>1. k.id \in ApprovalIds
  BY DEF Job
<1> DEFINE old == executions[k.id].status
           new == executions'[k.id].status
<1>2. old = new \/ <<old, new>> \in Moves
  BY <1>1 DEF StoreMoves
<1>3. JobRow(k, executions')
  BY <1>2, MovesForward, AbsentIsNoStatus DEF JobFits, JobRow
<1>4. JobMoves(k)
  BY DEF JobFits
<1>5. JobGates(k, new, plan'[k.id].nonProd)
  <2>1. JobGates(k, old, plan[k.id].nonProd) /\ plan' = plan
    BY DEF JobFits, StoreMoves
  <2> HIDE DEF old, new
  <2>2. \A expected : Doomed(expected, old) => Doomed(expected, new)
    BY <1>2, MovesForward DEF Doomed
  <2>3. \A pc : Past(pc, old) => Past(pc, new)
    BY <1>2, MovesForward DEF Past
  <2>4. ASSUME NEW nonProd, NEW pc \in {"dry_run", "sandbox"}, old = k.row.status,
               Ready(k.row, pc, nonProd)
        PROVE  new = k.row.status \/ Past(pc, new)
    BY <1>2, <2>4, MovesForward DEF Past, Ready, BeyondDryRun, BeyondSandbox
  <2>5. QED
    BY <2>1, <2>2, <2>3, <2>4 DEF JobGates
<1>6. JobDuties(k, approvals'[k.id])
  BY <1>1 DEF JobFits, JobDuties, Duties, StoreMoves
<1>7. JobWritten(k, audit')
  BY DEF JobFits, JobWritten, StoreMoves
<1>8. QED
  BY <1>3, <1>4, <1>5, <1>6, <1>7 DEF JobFits

\* A row that fits keeps fitting.
LEMMA RowFrame ==
    ASSUME StoreMoves, NEW a \in ApprovalIds, NEW row,
           RowFits(row, a, approvals[a], audit, plan[a].nonProd)
    PROVE  RowFits(row, a, approvals'[a], audit', plan'[a].nonProd)
BY DEF RowFits, Duties, StoreMoves

\* One handler moves: the others' jobs still fit.
LEMMA JobsByMover ==
    ASSUME ChangeInv, StoreMoves, NEW w \in Workers, NEW k \in Job,
           job' = [job EXCEPT ![w] = k], JobFits(k, approvals', executions', audit', plan')
    PROVE  AllJobsFit'
<1>1. job \in [Workers -> Job] /\ AllJobsFit
  BY DEF ChangeInv, ChangeTypeOK
<1>2. ASSUME NEW v \in Workers
      PROVE  JobFits(job'[v], approvals', executions', audit', plan')
  <2>1. CASE v = w
    BY <1>1, <2>1
  <2>2. CASE v # w
    <3>1. job'[v] = job[v] /\ job[v] \in Job
      BY <1>1, <2>2
    <3>2. JobFits(job[v], approvals, executions, audit, plan)
      BY <1>1 DEF AllJobsFit
    <3>3. QED
      BY <3>1, <3>2, JobFrame
  <2>3. QED
    BY <2>1, <2>2
<1>3. QED
  BY <1>2 DEF AllJobsFit

\* No row is written: the rows still fit.
LEMMA RowsUnwritten ==
    ASSUME ChangeInv, StoreMoves, executions' = executions
    PROVE  AllRowsFit'
BY RowFrame DEF ChangeInv, AllRowsFit

\* One row is written, and fits: all rows fit.
LEMMA RowWritten ==
    ASSUME ChangeInv, StoreMoves, NEW a \in ApprovalIds, NEW row,
           executions' = [executions EXCEPT ![a] = row],
           RowFits(row, a, approvals'[a], audit', plan'[a].nonProd)
    PROVE  AllRowsFit'
<1>1. executions \in [ApprovalIds -> Execution]
  BY DEF ChangeInv, ChangeTypeOK, ApprovalTypeOK, StoreTypeOK
<1>2. ASSUME NEW b \in ApprovalIds
      PROVE  RowFits(executions'[b], b, approvals'[b], audit', plan'[b].nonProd)
  <2>1. CASE b = a
    BY <1>1, <2>1
  <2>2. CASE b # a
    <3>1. executions'[b] = executions[b]
      BY <1>1, <2>2
    <3>2. RowFits(executions[b], b, approvals[b], audit, plan[b].nonProd)
      BY DEF ChangeInv, AllRowsFit
    <3>3. QED
      BY <3>1, <3>2, RowFrame
  <2>3. QED
    BY <2>1, <2>2
<1>3. QED
  BY <1>2 DEF AllRowsFit

\* The links of the handlers that do not move are not touched.
LEMMA LinkedByMover ==
    ASSUME ChangeInv, NEW w \in Workers, NEW k, NEW u,
           job' = [job EXCEPT ![w] = k], worker' = [worker EXCEPT ![w] = u], Linked(u, k)
    PROVE  AllLinked'
<1>1. job \in [Workers -> Job] /\ worker \in [Workers -> Worker] /\ AllLinked
  BY DEF ChangeInv, ChangeTypeOK, ApprovalTypeOK
<1>2. ASSUME NEW v \in Workers
      PROVE  Linked(worker'[v], job'[v])
  <2>1. CASE v = w
    BY <1>1, <2>1
  <2>2. CASE v # w
    <3>1. job'[v] = job[v] /\ worker'[v] = worker[v]
      BY <1>1, <2>2
    <3>2. QED
      BY <1>1, <3>1 DEF AllLinked
  <2>3. QED
    BY <2>1, <2>2
<1>3. QED
  BY <1>2 DEF AllLinked

-----------------------------------------------------------------------------
(* Steps of the change service *)

\* The facts about the current state the steps below use.
LEMMA StateFacts ==
    ASSUME ChangeInv
    PROVE  /\ approvals \in [ApprovalIds -> Approval]
           /\ executions \in [ApprovalIds -> Execution]
           /\ worker \in [Workers -> Worker]
           /\ plan \in [ApprovalIds -> Plans]
           /\ job \in [Workers -> Job]
           /\ \A w \in Workers :
                /\ job[w] \in Job /\ worker[w] \in Worker
                /\ job[w].id \in ApprovalIds
                /\ job[w].row \in Execution
                /\ JobFits(job[w], approvals, executions, audit, plan)
                /\ Linked(worker[w], job[w])
                /\ HeldAgrees(worker[w], approvals)
           /\ \A a \in ApprovalIds :
                /\ approvals[a] \in Approval /\ executions[a] \in Execution
                /\ plan[a] \in Plans
                /\ RowFits(executions[a], a, approvals[a], audit, plan[a].nonProd)
<1>1. /\ approvals \in [ApprovalIds -> Approval]
      /\ executions \in [ApprovalIds -> Execution]
      /\ worker \in [Workers -> Worker]
      /\ plan \in [ApprovalIds -> Plans]
      /\ job \in [Workers -> Job]
      /\ AllJobsFit /\ AllLinked /\ AllRowsFit /\ HeldRows
  BY DEF ChangeInv, ChangeTypeOK, ApprovalTypeOK, StoreTypeOK, RowsInv
<1>2. \A k \in Job : k.id \in ApprovalIds /\ k.row \in Execution
  BY DEF Job
<1>3. QED
  BY <1>1, <1>2 DEF AllJobsFit, AllLinked, AllRowsFit, HeldRows

\* A handler without a job: nothing is asked of it.
LEMMA IdleJobFits ==
    ASSUME NEW rows, NEW execs, NEW facts, NEW plans
    PROVE  JobFits(IdleJob, rows, execs, facts, plans)
BY DEF JobFits, JobRow, JobMoves, JobGates, JobDuties, JobWritten, IdleJob, HasRow,
       Projecting, TriedChange

LEMMA IdleJobType ==
    /\ IdleJob \in Job
    /\ IdleWorker \in Worker
    /\ Linked(IdleWorker, IdleJob)
<1>1. NoId \in ApprovalIds
  BY StoreAssumption DEF NoId
<1>2. AbsentExecution \in Execution
  BY DEF AbsentExecution, Execution, Modes
<1>3. IdleJob \in Job
  BY <1>1, <1>2 DEF IdleJob, Job, JobPCs, Modes, ManualResults
<1>4. IdleWorker \in Worker
  BY <1>1 DEF IdleWorker, Worker, PCs, Ops, AbsentApproval, Approval, ApprovalStatuses,
              Decided
<1>5. Linked(IdleWorker, IdleJob)
  BY DEF IdleJob, IdleWorker, Linked, Serves
<1>6. QED
  BY <1>3, <1>4, <1>5

\* A step of one handler w that keeps the approval rows keeps the invariant, when what
\* it does to w's job, to w's approval read and to the store does.
LEMMA StepOfOne ==
    ASSUME ChangeInv, NEW w \in Workers, NEW k \in Job, NEW u \in Worker,
           job' = [job EXCEPT ![w] = k], worker' = [worker EXCEPT ![w] = u],
           UNCHANGED <<approvals, projected, now, plan>>,
           executions' \in [ApprovalIds -> Execution],
           incident' \in IncidentState, report' \in Reports \cup {NoReport},
           faults' \in 0..MaxFaults,
           audit' \subseteq ApprovalIds \X Nat \X ExecutionStatuses \X Projections,
           StoreMoves, AllRowsFit', HeldAgrees(u, approvals), Linked(u, k),
           JobFits(k, approvals', executions', audit', plan')
    PROVE  ChangeInv'
<1>1. ApprovalTypeOK /\ HeldRows /\ OnePendingPerKey /\ plan \in [ApprovalIds -> Plans]
      /\ job \in [Workers -> Job] /\ worker \in [Workers -> Worker]
  BY DEF ChangeInv, RowsInv, ChangeTypeOK, ApprovalTypeOK
<1>2. ApprovalTypeOK'
  BY <1>1 DEF ApprovalTypeOK, StoreTypeOK
<1>3. HeldRows' /\ OnePendingPerKey'
  BY <1>1, HeldByMover DEF OnePendingPerKey
<1>4. ChangeTypeOK'
  BY <1>1, <1>2 DEF ChangeTypeOK
<1>5. AllJobsFit'
  BY JobsByMover
<1>6. AllLinked'
  BY LinkedByMover
<1>7. QED
  BY <1>2, <1>3, <1>4, <1>5, <1>6 DEF ChangeInv, RowsInv

\* The same when the store is left alone, with or without a new approval read.
LEMMA QuietStep ==
    ASSUME ChangeInv, NEW w \in Workers, NEW k \in Job,
           job' = [job EXCEPT ![w] = k],
           UNCHANGED <<storeVars, plan, audit>>, faults' \in 0..MaxFaults,
           JobFits(k, approvals, executions, audit, plan),
           \/ worker' = worker /\ Linked(worker[w], k)
           \/ \E u \in Worker : /\ worker' = [worker EXCEPT ![w] = u]
                                /\ HeldAgrees(u, approvals)
                                /\ Linked(u, k)
    PROVE  ChangeInv'
<1>1. StoreMoves
  BY DEF StoreMoves, storeVars
<1>2. AllRowsFit'
  BY <1>1, RowsUnwritten DEF storeVars
<1>3. /\ executions' \in [ApprovalIds -> Execution]
      /\ incident' \in IncidentState /\ report' \in Reports \cup {NoReport}
      /\ audit' \subseteq ApprovalIds \X Nat \X ExecutionStatuses \X Projections
      /\ JobFits(k, approvals', executions', audit', plan')
      /\ UNCHANGED <<approvals, projected, now, plan>>
  BY DEF ChangeInv, ChangeTypeOK, ApprovalTypeOK, StoreTypeOK, storeVars
<1>4. ASSUME NEW u \in Worker, worker' = [worker EXCEPT ![w] = u],
             HeldAgrees(u, approvals), Linked(u, k)
      PROVE  ChangeInv'
  BY <1>1, <1>2, <1>3, <1>4, StepOfOne
<1>5. CASE worker' = worker /\ Linked(worker[w], k)
  <2>1. worker[w] \in Worker /\ HeldAgrees(worker[w], approvals)
    BY StateFacts
  <2>2. worker' = [worker EXCEPT ![w] = worker[w]]
    BY <1>5, StateFacts
  <2>3. QED
    BY <1>4, <1>5, <2>1, <2>2
<1>6. QED
  BY <1>4, <1>5

\* A job that neither waits for an approval read nor starts one leaves the link alone.
LEMMA LinkKept ==
    ASSUME ChangeInv, NEW w \in Workers, NEW k,
           job[w].pc \notin {"loading", "manual_loading"},
           k.pc \notin {"loading", "manual_loading"}
    PROVE  Linked(worker[w], k)
BY StateFacts DEF Linked

\* What Saving builds.
LEMMA SavingShape ==
    ASSUME NEW j \in Job, NEW row \in Execution,
           NEW expected \in SUBSET ExecutionStatuses, NEW next \in JobPCs
    PROVE  LET k == Saving(j, row, expected, next)
           IN  /\ k \in Job /\ k.pc = "save" /\ k.id = j.id
               /\ k.expected = expected /\ k.next = next
               /\ k.row.status = row.status /\ k.row.recordedBy = row.recordedBy
               /\ k.row.precheck = row.precheck /\ k.row.dryRun = row.dryRun
<1> DEFINE rev == row.rev + 1
           new == [row EXCEPT !.rev = rev]
           k == Saving(j, row, expected, next)
<1>5. rev \in Nat
  BY DEF Execution
<1> HIDE DEF rev
<1>1. /\ new \in Execution
      /\ new.status = row.status /\ new.precheck = row.precheck
      /\ new.dryRun = row.dryRun /\ new.recordedBy = row.recordedBy
  BY <1>5 DEF Execution
<1>2. k = [j EXCEPT !.pc = "save", !.row = new, !.expected = expected, !.next = next]
  BY DEF Saving, rev
<1> HIDE DEF new
<1>3. k \in Job
  BY <1>1, <1>2 DEF Job, JobPCs
<1>4. /\ k.pc = "save" /\ k.id = j.id /\ k.row = new /\ k.expected = expected
      /\ k.next = next
  BY <1>2 DEF Job
<1>6. QED
  BY <1>1, <1>3, <1>4

\* A handler may save row when row exists, the save moves along the lifecycle, passed
\* the gates or is doomed, and row's recorder is not the approver.
LEMMA SavingFits ==
    ASSUME NEW j \in Job, NEW row \in Execution, NEW execs,
           NEW expected \in SUBSET ExecutionStatuses,
           NEW next \in {"idle", "precheck", "dry_run", "sandbox"},
           row.status # "absent", execs[j.id].status # "absent",
           \A s \in expected : s = row.status \/ <<s, row.status>> \in Moves,
           \/ Doomed(expected, execs[j.id].status)
           \/ /\ Gates(row, plan[j.id].nonProd)
              /\ Ready(row, next, plan[j.id].nonProd),
           Duties(row, approvals[j.id])
    PROVE  LET k == Saving(j, row, expected, next)
           IN  /\ k \in Job /\ k.pc = "save"
               /\ JobFits(k, approvals, execs, audit, plan)
<1> DEFINE k == Saving(j, row, expected, next)
<1>1. next \in JobPCs
  BY DEF JobPCs
<1>2. /\ k \in Job /\ k.pc = "save" /\ k.id = j.id
      /\ k.expected = expected /\ k.next = next
      /\ k.row.status = row.status /\ k.row.recordedBy = row.recordedBy
      /\ k.row.precheck = row.precheck /\ k.row.dryRun = row.dryRun
  BY <1>1, SavingShape
<1> HIDE DEF k
<1>3. JobRow(k, execs) /\ JobMoves(k) /\ JobDuties(k, approvals[k.id])
  BY <1>2 DEF JobRow, JobMoves, JobDuties, Duties
<1>4. JobGates(k, execs[k.id].status, plan[k.id].nonProd)
  BY <1>2 DEF JobGates, Gates, Ready, HasRow, Projecting
<1>5. JobWritten(k, audit)
  BY <1>2 DEF JobWritten, TriedChange
<1>6. QED
  BY <1>2, <1>3, <1>4, <1>5 DEF JobFits, k

\* A handler that has just read the stored row holds one that fits.
LEMMA RereadFits ==
    ASSUME ChangeInv, NEW j \in Job, NEW a \in ApprovalIds,
           NEW next \in {"idle", "manual_check"}, executions[a].status # "absent"
    PROVE  LET k == get_execution(j, a, next)
           IN  /\ k \in Job /\ k.pc \notin {"loading", "manual_loading"}
               /\ JobFits(k, approvals, executions, audit, plan)
<1> DEFINE row == executions[a]
           bare == [row EXCEPT !.pending = {}]
           k == get_execution(j, a, next)
<1>1. row \in Execution /\ RowFits(row, a, approvals[a], audit, plan[a].nonProd)
  BY StateFacts
<1>2. /\ bare \in Execution
      /\ bare.status = row.status /\ bare.precheck = row.precheck
      /\ bare.dryRun = row.dryRun /\ bare.recordedBy = row.recordedBy
  BY <1>1 DEF Execution
<1>3. CASE row.pending = {} /\ next = "idle"
  <2>1. k = IdleJob /\ IdleJob.pc = "idle"
    BY <1>3 DEF get_execution, At, IdleJob
  <2>2. QED
    BY <2>1, IdleJobType, IdleJobFits
<1>4. CASE row.pending = {} /\ next = "manual_check"
  <2>1. k = [[j EXCEPT !.id = a, !.row = row] EXCEPT !.pc = "manual_check"]
    BY <1>4 DEF get_execution, At
  <2>2. k \in Job
    BY <1>1, <2>1 DEF Job, JobPCs
  <2>3. k.pc = "manual_check" /\ k.id = a /\ k.row = row
    BY <2>1 DEF Job
  <2> HIDE DEF k, row
  <2>4. JobFits(k, approvals, executions, audit, plan)
    BY <1>1, <2>3 DEF JobFits, JobRow, JobMoves, JobGates, JobDuties, JobWritten, RowFits,
                      HasRow, Projecting, TriedChange, row
  <2>5. QED
    BY <2>2, <2>3, <2>4 DEF k
<1>5. CASE row.pending # {}
  <2>1. k = [j EXCEPT !.pc = "incident_state", !.id = a, !.next = next, !.failed = {},
                      !.row = bare]
    BY <1>5 DEF get_execution
  <2> HIDE DEF bare
  <2>2. k \in Job
    BY <1>2, <2>1 DEF Job, JobPCs
  <2>3. k.pc = "incident_state" /\ k.id = a /\ k.row = bare /\ k.next = next
    BY <2>1 DEF Job
  <2> HIDE DEF k, row
  <2>4. Gates(bare, plan[a].nonProd) /\ Duties(bare, approvals[a])
    BY <1>1, <1>2 DEF RowFits, Gates, Duties
  <2>5. JobFits(k, approvals, executions, audit, plan)
    BY <1>2, <2>3, <2>4 DEF JobFits, JobRow, JobMoves, JobGates, JobDuties, JobWritten, Ready,
                            HasRow, Projecting, TriedChange, row
  <2>6. QED
    BY <2>2, <2>3, <2>5 DEF k
<1>6. QED
  BY <1>3, <1>4, <1>5

\* What status_after_dry_run yields.
LEMMA AfterDryRun ==
    ASSUME NEW mode \in Modes, NEW a
    PROVE  LET s == status_after_dry_run(mode, a)
           IN  /\ s \in {"waiting_manual_execution", "sandbox_executing", "escalated",
                         "dry_run_completed"}
               /\ s = "sandbox_executing" => plan[a].nonProd
               /\ mode = "sandbox" => s \in {"sandbox_executing", "escalated"}
               /\ mode # "dry_run_only" => s # "dry_run_completed"
BY DEF status_after_dry_run, Modes

\* The lifecycle edges a start takes and the ones a receipt takes.
LEMMA StartMoves ==
    /\ <<"absent", "created">> \in Moves /\ <<"created", "precheck_running">> \in Moves
    /\ <<"precheck_running", "precheck_failed">> \in Moves
    /\ <<"precheck_running", "dry_run_running">> \in Moves
    /\ \A s \in {"dry_run_failed", "dry_run_completed", "waiting_manual_execution",
                 "sandbox_executing", "escalated"} : <<"dry_run_running", s>> \in Moves
    /\ \A s \in {"precheck_failed", "waiting_manual_execution", "sandbox_executing",
                 "escalated"} : <<"dry_run_completed", s>> \in Moves
    /\ <<"sandbox_executing", "sandbox_validated">> \in Moves
BY DEF Moves, Contract!AgentMoves

LEMMA ReceiptMove ==
    ASSUME NEW r \in ManualResults
    PROVE  /\ manual_result_source_statuses(r) \in SUBSET (Gated \cap ExecutionStatuses)
           /\ status_from_manual_result(r) \in Gated \ {"sandbox_executing",
                                                        "sandbox_validated"}
           /\ \A s \in manual_result_source_statuses(r) :
                <<s, status_from_manual_result(r)>> \in Moves
<1>1. \A s \in manual_result_source_statuses(r) :
         <<s, status_from_manual_result(r)>> \in Contract!ReceiptMoves
  BY DEF ManualResults, manual_result_source_statuses, status_from_manual_result,
         Contract!ReceiptMoves
<1>2. QED
  BY <1>1 DEF ManualResults, manual_result_source_statuses, status_from_manual_result,
              Moves, Gated, ExecutionStatuses

\* The faults a step may leave.
LEMMA FaultsType ==
    ASSUME ChangeInv
    PROVE  faults \in 0..MaxFaults /\ (faults > 0 => faults - 1 \in 0..MaxFaults)
BY ApprovalAssumption DEF ChangeInv, RowsInv, ApprovalTypeOK

\* A step that only sets w's job.
LEMMA JobOnly ==
    ASSUME ChangeInv, NEW w \in Workers, NEW k \in Job, SetJob(w, k),
           UNCHANGED <<storeVars, worker, faults, plan, audit>>,
           job[w].pc \notin {"loading", "manual_loading"},
           k.pc \notin {"loading", "manual_loading"},
           JobFits(k, approvals, executions, audit, plan)
    PROVE  ChangeInv'
<1>1. Linked(worker[w], k)
  BY LinkKept
<1>2. faults' \in 0..MaxFaults
  BY FaultsType
<1>3. QED
  BY <1>1, <1>2, QuietStep DEF SetJob

\* A handler gives its job up.
LEMMA JobDropped ==
    ASSUME ChangeInv, NEW w \in Workers, SetJob(w, IdleJob),
           UNCHANGED <<storeVars, worker, faults, plan, audit>>,
           job[w].pc \notin {"loading", "manual_loading"}
    PROVE  ChangeInv'
BY JobOnly, IdleJobType, IdleJobFits DEF IdleJob

\* A handler reads an approval for the change service.
LEMMA ApprovalReadFor ==
    ASSUME ChangeInv, NEW w \in Workers, NEW a \in ApprovalIds, approvals[a].status # "absent",
           NEW op \in {"start", "manual"}, NEW k \in Job,
           k.pc = IF op = "start" THEN "loading" ELSE "manual_loading", k.id = a
    PROVE  LET u == get_request(worker[w], a, op)
           IN  u \in Worker /\ HeldAgrees(u, approvals) /\ Linked(u, k)
<1> DEFINE u == get_request(worker[w], a, op)
<1>1. op \in Ops /\ worker[w] \in Worker /\ approvals[a] \in Approval
  BY StateFacts DEF Ops
<1>2. u \in Worker
  BY <1>1, GetRequestType, StateFacts
<1>3. HeldAgrees(u, approvals)
  BY <1>1, ReadAgrees DEF ChangeInv, RowsInv
<1>4. u.pc \in {"returned", "incident_state"} /\ u.op = op /\ u.id = a
  BY <1>1 DEF get_request, Holding, Continuation, Worker
<1> HIDE DEF u
<1>5. Linked(u, k)
  BY <1>4 DEF Linked, Serves
<1>6. QED
  BY <1>2, <1>3, <1>5 DEF u

LEMMA StartAfterApprovalKeeps ==
    ASSUME ChangeInv, NEW w \in Workers, NEW a \in ApprovalIds, NEW mode \in Modes,
           StartAfterApproval(w, a, mode)
    PROVE  ChangeInv'
<1> DEFINE k == [IdleJob EXCEPT !.pc = "loading", !.id = a, !.mode = mode]
           u == get_request(worker[w], a, "start")
<1>1. approvals[a].status # "absent" /\ SetJob(w, k) /\ worker' = [worker EXCEPT ![w] = u]
      /\ UNCHANGED <<storeVars, faults, plan, audit>>
  BY StateFacts DEF StartAfterApproval
<1>2. k \in Job /\ k.pc = "loading" /\ k.id = a
  BY IdleJobType DEF Job, JobPCs
<1> HIDE DEF k
<1>3. JobFits(k, approvals, executions, audit, plan)
  BY <1>2 DEF JobFits, JobRow, JobMoves, JobGates, JobDuties, JobWritten, HasRow, Projecting,
              TriedChange
<1>4. u \in Worker /\ HeldAgrees(u, approvals) /\ Linked(u, k)
  BY <1>1, <1>2, ApprovalReadFor
<1> HIDE DEF u
<1>5. QED
  BY <1>1, <1>2, <1>3, <1>4, FaultsType, QuietStep DEF SetJob

LEMMA LoadedForStartKeeps ==
    ASSUME ChangeInv, NEW w \in Workers, LoadedForStart(w)
    PROVE  ChangeInv'
<1> DEFINE k == [job[w] EXCEPT !.pc = "find"]
<1>1. /\ worker[w].pc = "returned" /\ worker[w].op = "start"
      /\ worker' = [worker EXCEPT ![w] = IdleWorker]
      /\ UNCHANGED <<storeVars, faults, plan, audit>>
      /\ SetJob(w, IF authorized(w) THEN k ELSE IdleJob)
  BY DEF LoadedForStart
<1>2. HeldAgrees(IdleWorker, approvals) /\ faults' \in 0..MaxFaults
  BY <1>1, FaultsType DEF HeldAgrees, IdleWorker
<1>3. CASE ~authorized(w)
  BY <1>1, <1>2, <1>3, IdleJobType, IdleJobFits, QuietStep DEF SetJob
<1>4. CASE authorized(w)
  <2>1. job[w] \in Job /\ worker[w] \in Worker
    BY StateFacts
  <2>2. job[w].pc = "loading" /\ worker[w].id = job[w].id
    <3>1. Linked(worker[w], job[w]) /\ Serves(worker[w]) = "start"
      BY <1>1, StateFacts DEF Serves
    <3>2. QED
      BY <3>1 DEF Linked
  <2>3. approvals[job[w].id].status = "approved"
    BY <1>1, <1>4, <2>2, StateFacts DEF authorized, HeldAgrees
  <2>4. k \in Job /\ k.pc = "find" /\ k.id = job[w].id
    BY <2>1 DEF Job, JobPCs
  <2> HIDE DEF k
  <2>5. JobFits(k, approvals, executions, audit, plan)
    BY <2>3, <2>4 DEF JobFits, JobRow, JobMoves, JobGates, JobDuties, JobWritten, HasRow,
                      Projecting, TriedChange
  <2>6. Linked(IdleWorker, k)
    BY <2>4 DEF Linked, IdleWorker, Serves
  <2>7. QED
    BY <1>1, <1>2, <1>4, <2>4, <2>5, <2>6, IdleJobType, QuietStep DEF SetJob
<1>5. QED
  BY <1>3, <1>4

LEMMA FindExecutionKeeps ==
    ASSUME ChangeInv, NEW w \in Workers, FindExecution(w)
    PROVE  ChangeInv'
<1> DEFINE j == job[w]
           row == executions[j.id]
           resuming == row.status = "dry_run_completed" /\ j.mode # "dry_run_only"
           np == plan[j.id].nonProd
<1>1. /\ j \in Job /\ row \in Execution /\ j.mode \in Modes
      /\ JobFits(j, approvals, executions, audit, plan)
      /\ RowFits(row, j.id, approvals[j.id], audit, np)
      /\ j.pc = "find" /\ UNCHANGED <<storeVars, worker, faults, plan, audit>>
  BY StateFacts DEF FindExecution, Job
<1>2. Gates(row, np) /\ Duties(row, approvals[j.id]) /\ approvals[j.id].status = "approved"
  BY <1>1 DEF RowFits, JobFits, JobDuties
<1>3. ASSUME NEW new \in Execution, NEW expected \in SUBSET ExecutionStatuses,
             NEW next \in {"idle", "precheck", "dry_run", "sandbox"},
             SetJob(w, Saving(j, new, expected, next)),
             new.status # "absent", row.status # "absent",
             \A s \in expected : <<s, new.status>> \in Moves,
             Gates(new, np), Ready(new, next, np), new.recordedBy = row.recordedBy
      PROVE  ChangeInv'
  <2>1. Duties(new, approvals[j.id])
    BY <1>2, <1>3 DEF Duties
  <2> DEFINE k == Saving(j, new, expected, next)
  <2>2. k \in Job /\ k.pc = "save" /\ JobFits(k, approvals, executions, audit, plan)
    BY <1>1, <1>3, <2>1, SavingFits
  <2> HIDE DEF k
  <2>3. SetJob(w, k)
    BY <1>3 DEF k
  <2>4. QED
    BY <1>1, <2>2, <2>3, JobOnly
<1>4. CASE row.status = "absent" /\ SetJob(w, [j EXCEPT !.pc = "create"])
  <2> DEFINE k == [j EXCEPT !.pc = "create"]
  <2>1. k \in Job /\ k.pc = "create" /\ k.id = j.id
    BY <1>1 DEF Job, JobPCs
  <2>2. SetJob(w, k)
    BY <1>4
  <2> HIDE DEF k
  <2>3. JobFits(k, approvals, executions, audit, plan)
    BY <1>2, <2>1 DEF JobFits, JobRow, JobMoves, JobGates, JobDuties, JobWritten, HasRow,
                      Projecting, TriedChange
  <2>4. QED
    BY <1>1, <2>1, <2>2, <2>3, JobOnly
<1>5. CASE /\ row.status = "created"
           /\ SetJob(w, Saving(j, [row EXCEPT !.status = "precheck_running"],
                               {"created"}, "precheck"))
  <2> DEFINE new == [row EXCEPT !.status = "precheck_running"]
  <2>1. /\ new \in Execution /\ new.status = "precheck_running"
        /\ new.recordedBy = row.recordedBy /\ {"created"} \in SUBSET ExecutionStatuses
    BY <1>1 DEF Execution, ExecutionStatuses
  <2>2. SetJob(w, Saving(j, new, {"created"}, "precheck"))
    BY <1>5
  <2> HIDE DEF new
  <2>3. Gates(new, np) /\ Ready(new, "precheck", np)
    BY <2>1 DEF Gates, Ready, Gated
  <2>4. QED
    BY <1>3, <1>5, <2>1, <2>2, <2>3, StartMoves
<1>6. CASE /\ resuming
           /\ SetJob(w, Saving(j, [row EXCEPT !.status = "precheck_failed",
                                              !.precheck = FALSE],
                               {"dry_run_completed"}, "idle"))
  <2> DEFINE new == [row EXCEPT !.status = "precheck_failed", !.precheck = FALSE]
  <2>1. /\ new \in Execution /\ new.status = "precheck_failed"
        /\ new.recordedBy = row.recordedBy
        /\ {"dry_run_completed"} \in SUBSET ExecutionStatuses
    BY <1>1 DEF Execution, ExecutionStatuses
  <2>2. SetJob(w, Saving(j, new, {"dry_run_completed"}, "idle"))
    BY <1>6
  <2> HIDE DEF new
  <2>3. Gates(new, np) /\ Ready(new, "idle", np)
    BY <2>1 DEF Gates, Ready, Gated
  <2>4. QED
    BY <1>3, <1>6, <2>1, <2>2, <2>3, StartMoves
<1>7. CASE /\ resuming
           /\ SetJob(w, Saving(j, [row EXCEPT !.mode = j.mode,
                                              !.status = status_after_dry_run(j.mode, j.id)],
                               {"dry_run_completed"},
                               IF j.mode = "sandbox" THEN "sandbox" ELSE "idle"))
  <2> DEFINE status == status_after_dry_run(j.mode, j.id)
             new == [row EXCEPT !.mode = j.mode, !.status = status]
             next == IF j.mode = "sandbox" THEN "sandbox" ELSE "idle"
  <2>1. /\ status \in {"waiting_manual_execution", "sandbox_executing", "escalated"}
        /\ status = "sandbox_executing" => np
        /\ next = "sandbox" => status \in {"sandbox_executing", "escalated"}
    BY <1>1, <1>7, AfterDryRun
  <2>2. SetJob(w, Saving(j, new, {"dry_run_completed"}, next))
    BY <1>7
  <2> HIDE DEF status
  <2>3. /\ new \in Execution /\ new.status = status
        /\ new.precheck = row.precheck /\ new.dryRun = row.dryRun
        /\ new.recordedBy = row.recordedBy
        /\ {"dry_run_completed"} \in SUBSET ExecutionStatuses
    BY <1>1, <2>1 DEF Execution, ExecutionStatuses
  <2> HIDE DEF new
  <2>4. row.precheck /\ row.dryRun
    BY <1>2, <1>7 DEF Gates, Gated, ExecutionStatuses
  <2>5. Gates(new, np) /\ Ready(new, next, np)
    BY <2>1, <2>3, <2>4 DEF Gates, Ready
  <2>6. next \in {"idle", "precheck", "dry_run", "sandbox"}
    OBVIOUS
  <2> HIDE DEF next
  <2>7. QED
    BY <1>3, <1>7, <2>1, <2>2, <2>3, <2>5, <2>6, StartMoves
<1>8. CASE SetJob(w, IdleJob)
  BY <1>1, <1>8, JobDropped
<1>9. QED
  BY <1>4, <1>5, <1>6, <1>7, <1>8 DEF FindExecution

LEMMA RunPreChecksKeeps ==
    ASSUME ChangeInv, NEW w \in Workers, RunPreChecks(w)
    PROVE  ChangeInv'
<1> DEFINE j == job[w]
           passes == pre_check_passes(j.id)
           status == IF passes THEN "dry_run_running" ELSE "precheck_failed"
           next == IF passes THEN "dry_run" ELSE "idle"
           new == [j.row EXCEPT !.status = status, !.precheck = passes]
           k == Saving(j, new, {"precheck_running"}, next)
           np == plan[j.id].nonProd
<1>1. /\ j \in Job /\ j.row \in Execution /\ j.pc = "precheck"
      /\ JobFits(j, approvals, executions, audit, plan)
      /\ SetJob(w, k) /\ UNCHANGED <<storeVars, worker, faults, plan, audit>>
  BY StateFacts DEF RunPreChecks
<1>2. passes \in BOOLEAN
  BY StateFacts DEF pre_check_passes, Plans
<1>3. /\ status \in {"dry_run_running", "precheck_failed"}
      /\ next \in {"idle", "dry_run"}
      /\ next = "dry_run" => status = "dry_run_running" /\ passes
  BY <1>2
<1> HIDE DEF passes, status, next
<1>4. /\ new \in Execution /\ new.status = status /\ new.precheck = passes
      /\ new.recordedBy = j.row.recordedBy
      /\ {"precheck_running"} \in SUBSET ExecutionStatuses
  BY <1>1, <1>2, <1>3 DEF Execution, ExecutionStatuses
<1> HIDE DEF new
<1>5. Gates(new, np) /\ Ready(new, next, np)
  BY <1>3, <1>4 DEF Gates, Ready, Gated
<1>6. Duties(new, approvals[j.id]) /\ executions[j.id].status # "absent"
  BY <1>1, <1>4 DEF JobFits, JobDuties, JobRow, Duties, HasRow
<1>7. /\ new.status # "absent" /\ next \in {"idle", "precheck", "dry_run", "sandbox"}
      /\ \A s \in {"precheck_running"} : <<s, new.status>> \in Moves
  BY <1>3, <1>4, StartMoves
<1>8. k \in Job /\ k.pc = "save" /\ JobFits(k, approvals, executions, audit, plan)
  BY <1>1, <1>3, <1>4, <1>5, <1>6, <1>7, SavingFits
<1> HIDE DEF k
<1>9. QED
  BY <1>1, <1>8, JobOnly

LEMMA RunDryRunKeeps ==
    ASSUME ChangeInv, NEW w \in Workers, RunDryRun(w)
    PROVE  ChangeInv'
<1> DEFINE j == job[w]
           ok == plan[j.id].dryRunOk
           status == IF ok THEN status_after_dry_run(j.mode, j.id) ELSE "dry_run_failed"
           next == IF ok /\ j.mode = "sandbox" THEN "sandbox" ELSE "idle"
           new == [j.row EXCEPT !.status = status, !.dryRun = ok]
           k == Saving(j, new, {"dry_run_running"}, next)
           np == plan[j.id].nonProd
<1>1. /\ j \in Job /\ j.row \in Execution /\ j.pc = "dry_run" /\ j.mode \in Modes
      /\ JobFits(j, approvals, executions, audit, plan)
      /\ SetJob(w, k) /\ UNCHANGED <<storeVars, worker, faults, plan, audit>>
  BY StateFacts DEF RunDryRun, Job
<1>2. ok \in BOOLEAN
  BY StateFacts DEF Plans
<1>3. /\ status \in {"dry_run_failed", "dry_run_completed", "waiting_manual_execution",
                     "sandbox_executing", "escalated"}
      /\ status = "sandbox_executing" => np
      /\ status # "dry_run_failed" => ok
      /\ next \in {"idle", "sandbox"}
      /\ next = "sandbox" => status \in {"sandbox_executing", "escalated"}
  BY <1>1, <1>2, AfterDryRun
<1> HIDE DEF ok, status, next
<1>4. /\ new \in Execution /\ new.status = status /\ new.dryRun = ok
      /\ new.precheck = j.row.precheck /\ new.recordedBy = j.row.recordedBy
      /\ {"dry_run_running"} \in SUBSET ExecutionStatuses
  BY <1>1, <1>2, <1>3 DEF Execution, ExecutionStatuses
<1> HIDE DEF new
<1>5. \/ Doomed({"dry_run_running"}, executions[j.id].status)
      \/ Gates(new, np) /\ Ready(new, next, np)
  <2>1. \/ Ready(j.row, "dry_run", np)
        \/ Past("dry_run", executions[j.id].status)
    BY <1>1 DEF JobFits, JobGates
  <2>2. CASE Ready(j.row, "dry_run", np)
    BY <1>3, <1>4, <2>2 DEF Gates, Ready, Gated
  <2>3. CASE Past("dry_run", executions[j.id].status)
    BY <2>3 DEF Past, Doomed
  <2>4. QED
    BY <2>1, <2>2, <2>3
<1>6. Duties(new, approvals[j.id]) /\ executions[j.id].status # "absent"
  BY <1>1, <1>4 DEF JobFits, JobDuties, JobRow, Duties, HasRow
<1>7. /\ new.status # "absent" /\ next \in {"idle", "precheck", "dry_run", "sandbox"}
      /\ \A s \in {"dry_run_running"} : <<s, new.status>> \in Moves
  BY <1>3, <1>4, StartMoves
<1>8. k \in Job /\ k.pc = "save" /\ JobFits(k, approvals, executions, audit, plan)
  BY <1>1, <1>3, <1>4, <1>5, <1>6, <1>7, SavingFits
<1> HIDE DEF k
<1>9. QED
  BY <1>1, <1>8, JobOnly

LEMMA RunSandboxKeeps ==
    ASSUME ChangeInv, NEW w \in Workers, RunSandbox(w)
    PROVE  ChangeInv'
<1> DEFINE j == job[w]
           np == plan[j.id].nonProd
<1>1. /\ j \in Job /\ j.row \in Execution /\ j.pc = "sandbox"
      /\ JobFits(j, approvals, executions, audit, plan)
      /\ UNCHANGED <<storeVars, worker, faults, plan, audit>>
  BY StateFacts DEF RunSandbox
<1>2. /\ Gates(j.row, np) /\ Duties(j.row, approvals[j.id])
      /\ j.row.status # "absent" /\ executions[j.id].status # "absent"
      /\ Ready(j.row, "sandbox", np) \/ Past("sandbox", executions[j.id].status)
  BY <1>1 DEF JobFits, JobGates, JobDuties, JobRow, HasRow
<1>3. {"escalated"} \in SUBSET ExecutionStatuses /\ {"sandbox_executing"} \in SUBSET ExecutionStatuses
  BY DEF ExecutionStatuses
<1>4. CASE j.row.status = "escalated" /\ SetJob(w, Saving(j, j.row, {"escalated"}, "idle"))
  <2> DEFINE k == Saving(j, j.row, {"escalated"}, "idle")
  <2>1. Ready(j.row, "idle", np)
    BY DEF Ready
  <2>2. k \in Job /\ k.pc = "save" /\ JobFits(k, approvals, executions, audit, plan)
    BY <1>1, <1>2, <1>3, <1>4, <2>1, SavingFits
  <2>3. SetJob(w, k)
    BY <1>4
  <2> HIDE DEF k
  <2>4. QED
    BY <1>1, <2>2, <2>3, JobOnly
<1>5. CASE /\ j.row.status # "escalated"
           /\ SetJob(w, Saving(j, [j.row EXCEPT !.status = "sandbox_validated"],
                               {"sandbox_executing"}, "idle"))
  <2> DEFINE new == [j.row EXCEPT !.status = "sandbox_validated"]
             k == Saving(j, new, {"sandbox_executing"}, "idle")
  <2>1. /\ new \in Execution /\ new.status = "sandbox_validated"
        /\ new.precheck = j.row.precheck /\ new.dryRun = j.row.dryRun
        /\ new.recordedBy = j.row.recordedBy
    BY <1>1 DEF Execution, ExecutionStatuses
  <2>2. SetJob(w, k)
    BY <1>5
  <2> HIDE DEF new
  <2>3. \/ Doomed({"sandbox_executing"}, executions[j.id].status)
        \/ Gates(new, np) /\ Ready(new, "idle", np)
    BY <1>2, <1>5, <2>1 DEF Doomed, Past, Ready, Gates
  <2>4. Duties(new, approvals[j.id])
    BY <1>2, <2>1 DEF Duties
  <2>5. k \in Job /\ k.pc = "save" /\ JobFits(k, approvals, executions, audit, plan)
    BY <1>1, <1>2, <1>3, <2>1, <2>3, <2>4, StartMoves, SavingFits
  <2> HIDE DEF k
  <2>6. QED
    BY <1>1, <2>2, <2>5, JobOnly
<1>6. QED
  BY <1>4, <1>5 DEF RunSandbox

LEMMA RecordManualResultKeeps ==
    ASSUME ChangeInv, NEW w \in Workers, NEW a \in ApprovalIds, NEW result \in ManualResults,
           NEW actor \in Actors, RecordManualResult(w, a, result, actor)
    PROVE  ChangeInv'
<1> DEFINE j == [IdleJob EXCEPT !.result = result, !.actor = actor]
           k == get_execution(j, a, "manual_check")
<1>1. /\ job[w].pc = "idle" /\ executions[a].status # "absent" /\ SetJob(w, k)
      /\ UNCHANGED <<storeVars, worker, faults, plan, audit>>
  BY DEF RecordManualResult, Free
<1>2. j \in Job
  BY IdleJobType DEF Job
<1> HIDE DEF j
<1>3. /\ k \in Job /\ k.pc \notin {"loading", "manual_loading"}
      /\ JobFits(k, approvals, executions, audit, plan)
  BY <1>1, <1>2, RereadFits
<1> HIDE DEF k
<1>4. QED
  BY <1>1, <1>3, JobOnly

LEMMA ReadExecutionKeeps ==
    ASSUME ChangeInv, NEW w \in Workers, NEW a \in ApprovalIds, ReadExecution(w, a)
    PROVE  ChangeInv'
<1> DEFINE k == get_execution(IdleJob, a, "idle")
<1>1. /\ job[w].pc = "idle" /\ executions[a].pending # {} /\ SetJob(w, k)
      /\ UNCHANGED <<storeVars, worker, faults, plan, audit>>
  BY DEF ReadExecution, Free
<1>2. executions[a].status # "absent"
  BY <1>1, StateFacts DEF RowFits
<1>3. /\ k \in Job /\ k.pc \notin {"loading", "manual_loading"}
      /\ JobFits(k, approvals, executions, audit, plan)
  BY <1>1, <1>2, IdleJobType, RereadFits
<1> HIDE DEF k
<1>4. QED
  BY <1>1, <1>3, JobOnly

LEMMA SaveConflictKeeps ==
    ASSUME ChangeInv, NEW w \in Workers, SaveConflict(w)
    PROVE  ChangeInv'
<1> DEFINE j == [job[w] EXCEPT !.expected = {}]
           k == get_execution(j, job[w].id, "idle")
<1>1. /\ job[w].pc = "save" /\ SetJob(w, k) /\ job[w] \in Job /\ job[w].id \in ApprovalIds
      /\ UNCHANGED <<storeVars, worker, faults, plan, audit>>
  BY StateFacts DEF SaveConflict
<1>2. j \in Job
  BY <1>1 DEF Job
<1>3. executions[job[w].id].status # "absent"
  BY <1>1, StateFacts DEF JobFits, JobRow, HasRow
<1> HIDE DEF j
<1>4. /\ k \in Job /\ k.pc \notin {"loading", "manual_loading"}
      /\ JobFits(k, approvals, executions, audit, plan)
  BY <1>1, <1>2, <1>3, RereadFits
<1> HIDE DEF k
<1>5. QED
  BY <1>1, <1>4, JobOnly

LEMMA ManualCheckKeeps ==
    ASSUME ChangeInv, NEW w \in Workers, ManualCheck(w)
    PROVE  ChangeInv'
<1> DEFINE j == job[w]
           k == [j EXCEPT !.pc = "manual_loading"]
           u == get_request(worker[w], j.id, "manual")
<1>1. /\ j.pc = "manual_check" /\ j \in Job /\ j.id \in ApprovalIds
      /\ JobFits(j, approvals, executions, audit, plan)
      /\ RowFits(executions[j.id], j.id, approvals[j.id], audit, plan[j.id].nonProd)
      /\ UNCHANGED <<storeVars, faults, plan, audit>>
  BY StateFacts DEF ManualCheck
<1>2. CASE SetJob(w, IdleJob) /\ UNCHANGED worker
  BY <1>1, <1>2, JobDropped
<1>3. CASE /\ j.row.status \in manual_result_source_statuses(j.result)
           /\ SetJob(w, k) /\ worker' = [worker EXCEPT ![w] = u]
  <2>1. /\ k \in Job /\ k.pc = "manual_loading" /\ k.id = j.id /\ k.row = j.row
        /\ k.result = j.result
    BY <1>1 DEF Job, JobPCs
  <2>2. SetJob(w, k)
    BY <1>3
  <2> HIDE DEF k
  <2>3. JobFits(k, approvals, executions, audit, plan)
    BY <1>1, <1>3, <2>1 DEF JobFits, JobRow, JobMoves, JobGates, JobDuties, JobWritten,
                            HasRow, Projecting, TriedChange
  <2>4. executions[j.id].status # "absent"
    BY <1>1 DEF JobFits, JobRow, HasRow
  <2>5. approvals[j.id].status # "absent"
    BY <1>1, <2>4 DEF RowFits
  <2>6. u \in Worker /\ HeldAgrees(u, approvals) /\ Linked(u, k)
    BY <1>1, <2>1, <2>5, ApprovalReadFor
  <2> HIDE DEF u
  <2>7. QED
    BY <1>1, <1>3, <2>1, <2>2, <2>3, <2>6, FaultsType, QuietStep DEF SetJob
<1>4. QED
  BY <1>2, <1>3 DEF ManualCheck

LEMMA LoadedForManualKeeps ==
    ASSUME ChangeInv, NEW w \in Workers, LoadedForManual(w)
    PROVE  ChangeInv'
<1> DEFINE j == job[w]
           status == status_from_manual_result(j.result)
           expected == manual_result_source_statuses(j.result)
           results == Append(j.row.results, j.result)
           new == [j.row EXCEPT !.status = status, !.results = results,
                                !.recordedBy = j.actor]
           k == Saving(j, new, expected, "idle")
           np == plan[j.id].nonProd
<1>1. /\ worker[w].pc = "returned" /\ worker[w].op = "manual"
      /\ worker' = [worker EXCEPT ![w] = IdleWorker]
      /\ UNCHANGED <<storeVars, faults, plan, audit>>
      /\ SetJob(w, IF receipt_accepted(w) THEN k ELSE IdleJob)
      /\ j \in Job /\ j.row \in Execution /\ j.result \in ManualResults
      /\ j.actor \in Actors \cup {"nobody"}
      /\ JobFits(j, approvals, executions, audit, plan)
  BY StateFacts DEF LoadedForManual, Job
<1>2. HeldAgrees(IdleWorker, approvals) /\ faults' \in 0..MaxFaults
  BY <1>1, FaultsType DEF HeldAgrees, IdleWorker
<1>3. CASE ~receipt_accepted(w)
  BY <1>1, <1>2, <1>3, IdleJobType, IdleJobFits, QuietStep DEF SetJob
<1>4. CASE receipt_accepted(w)
  <2>1. j.pc = "manual_loading" /\ worker[w].id = j.id
    <3>1. Linked(worker[w], job[w]) /\ Serves(worker[w]) = "manual"
      BY <1>1, StateFacts DEF Serves
    <3>2. QED
      BY <3>1 DEF Linked
  <2>2. /\ approvals[j.id].status = "approved"
        /\ j.actor # approvals[j.id].decidedBy
    BY <1>1, <1>4, <2>1, StateFacts DEF receipt_accepted, authorized, HeldAgrees
  <2>3. /\ Gates(j.row, np)
        /\ executions[j.id].status # "absent"
        /\ j.row.status \in expected
    BY <1>1, <2>1 DEF JobFits, JobGates, JobRow, JobMoves, HasRow, Projecting
  <2>4. /\ expected \in SUBSET (Gated \cap ExecutionStatuses)
        /\ status \in Gated \ {"sandbox_executing", "sandbox_validated"}
        /\ \A s \in expected : <<s, status>> \in Moves
    BY <1>1, ReceiptMove
  <2>12. results \in Seq(ManualResults)
    <3>1. j.row.results \in Seq(ManualResults)
      BY <1>1 DEF Execution
    <3>2. QED
      BY <1>1, <3>1
  <2> HIDE DEF status, expected, results
  <2>5. /\ new \in Execution /\ new.status = status
        /\ new.precheck = j.row.precheck /\ new.dryRun = j.row.dryRun
        /\ new.recordedBy = j.actor
    BY <1>1, <2>4, <2>12 DEF Execution, Gated
  <2> HIDE DEF new
  <2>6. Gates(new, np) /\ Ready(new, "idle", np) /\ Duties(new, approvals[j.id])
    BY <2>2, <2>3, <2>4, <2>5 DEF Gates, Ready, Duties
  <2>7. new.status # "absent" /\ expected \in SUBSET ExecutionStatuses
    BY <2>4, <2>5, AbsentIsNoStatus DEF Gated
  <2>8. k \in Job /\ k.pc = "save" /\ JobFits(k, approvals, executions, audit, plan)
    BY <1>1, <2>3, <2>4, <2>5, <2>6, <2>7, SavingFits
  <2>9. SetJob(w, k)
    BY <1>1, <1>4
  <2> HIDE DEF k
  <2>10. Linked(IdleWorker, k)
    BY <2>8 DEF Linked, IdleWorker, Serves
  <2>11. QED
    BY <1>1, <1>2, <2>8, <2>9, <2>10, IdleJobType, QuietStep DEF SetJob
<1>5. QED
  BY <1>3, <1>4

\* The process dies.
LEMMA AbandonKeeps ==
    ASSUME ChangeInv, NEW w \in Workers, Abandon(w)
    PROVE  ChangeInv'
<1>1. /\ worker' = [worker EXCEPT ![w] = IdleWorker] /\ job' = [job EXCEPT ![w] = IdleJob]
      /\ UNCHANGED <<storeVars, plan, audit>> /\ faults' \in 0..MaxFaults
  BY FaultsType DEF Abandon, SetJob
<1>2. HeldAgrees(IdleWorker, approvals)
  BY DEF HeldAgrees, IdleWorker
<1>3. QED
  BY <1>1, <1>2, IdleJobType, IdleJobFits, QuietStep

-----------------------------------------------------------------------------
(* Steps that write the store *)

\* The incident status, the IncidentState and the report of an execution's status.
LEMMA ChangeStatusType ==
    ASSUME NEW s \in ExecutionStatuses, NEW r
    PROVE  /\ build_incident_state_from_change_execution(s) \in IncidentState
           /\ apply_change_execution(r, s) \in Reports
<1>1. status_from_change_execution(s) \in IncidentStatuses
  BY DEF ExecutionStatuses, status_from_change_execution, IncidentStatuses,
         CHANGE_LIFECYCLE_STATUSES, HARD_TERMINAL_INCIDENT_STATUSES,
         REPORT_ONLY_STATUSES, ACTIVE_DIAGNOSIS_STATUSES
<1>2. QED
  BY <1>1 DEF build_incident_state_from_change_execution, PlainUpdate, IncidentState,
              Sources, apply_change_execution, Reports

\* A row in hand exists, so it has a status of an execution.
LEMMA RowInHand ==
    ASSUME ChangeInv, NEW w \in Workers, job[w].pc \in HasRow
    PROVE  /\ job[w].row.status \in ExecutionStatuses
           /\ executions[job[w].id].status \in ExecutionStatuses
           /\ approvals[job[w].id].status = "approved"
<1>1. /\ job[w].row \in Execution /\ executions[job[w].id] \in Execution
      /\ JobRow(job[w], executions) /\ job[w].id \in ApprovalIds
      /\ RowFits(executions[job[w].id], job[w].id, approvals[job[w].id], audit,
                 plan[job[w].id].nonProd)
  BY StateFacts DEF JobFits
<1>2. job[w].row.status # "absent" /\ executions[job[w].id].status # "absent"
  BY <1>1 DEF JobRow
<1>3. QED
  BY <1>1, <1>2 DEF Execution, RowFits

\* A handler writes one projection of the row in hand, or keeps its name, and goes on
\* to the next.
LEMMA ProjectionKeeps ==
    ASSUME ChangeInv, NEW w \in Workers, NEW name \in Projections, NEW k \in Job,
           job[w].pc \in Projecting, k.pc \in Projecting,
           k.id = job[w].id, k.row = job[w].row, k.next = job[w].next,
           TriedChange(k.pc) \subseteq TriedChange(job[w].pc) \cup {name},
           SetJob(w, k),
           \/ k.failed = job[w].failed /\ audit' = audit \cup {ChangeFact(w, name)}
           \/ k.failed = job[w].failed \cup {name} /\ audit' = audit,
           UNCHANGED <<approvals, executions, projected, now, worker, plan>>,
           incident' \in IncidentState, report' \in Reports \cup {NoReport},
           faults' \in 0..MaxFaults
    PROVE  ChangeInv'
<1> DEFINE j == job[w]
<1>1. /\ j \in Job /\ j.id \in ApprovalIds /\ j.row \in Execution
      /\ JobFits(j, approvals, executions, audit, plan)
      /\ worker[w] \in Worker /\ HeldAgrees(worker[w], approvals)
      /\ worker \in [Workers -> Worker]
      /\ executions \in [ApprovalIds -> Execution]
  BY StateFacts
<1>2. j.row.status \in ExecutionStatuses
  BY RowInHand DEF HasRow
<1>3. StoreMoves
  BY DEF StoreMoves
<1>4. audit' \subseteq ApprovalIds \X Nat \X ExecutionStatuses \X Projections
  <2>1. ChangeFact(w, name) \in ApprovalIds \X Nat \X ExecutionStatuses \X Projections
    BY <1>1, <1>2 DEF ChangeFact, Execution
  <2>2. QED
    BY <2>1 DEF ChangeInv, ChangeTypeOK
<1>5. JobWritten(k, audit')
  <2>1. ASSUME NEW p \in TriedChange(k.pc)
        PROVE  p \in k.failed \/ <<k.id, k.row.rev, k.row.status, p>> \in audit'
    <3>1. CASE p = name
      BY <3>1 DEF ChangeFact
    <3>2. CASE p \in TriedChange(j.pc)
      BY <1>1, <3>2 DEF JobFits, JobWritten
    <3>3. QED
      BY <2>1, <3>1, <3>2
  <2>2. QED
    BY <2>1 DEF JobWritten
<1>6. JobFits(k, approvals', executions', audit', plan')
  <2>1. JobRow(k, executions) /\ JobMoves(k) /\ JobDuties(k, approvals[k.id])
    BY <1>1 DEF JobFits, JobRow, JobMoves, JobDuties, HasRow, Projecting
  <2>2. JobGates(k, executions[k.id].status, plan[k.id].nonProd)
    BY <1>1 DEF JobFits, JobGates, HasRow, Projecting
  <2>3. QED
    BY <1>5, <2>1, <2>2 DEF JobFits
<1>7. Linked(worker[w], k)
  BY LinkKept DEF Projecting
<1>8. AllRowsFit'
  BY <1>3, RowsUnwritten
<1>9. worker' = [worker EXCEPT ![w] = worker[w]]
  BY <1>1
<1>10. QED
  BY <1>1, <1>3, <1>4, <1>6, <1>7, <1>8, <1>9, StepOfOne DEF SetJob

\* What JobRaise leaves.
LEMMA RaiseShape ==
    ASSUME ChangeInv, NEW w \in Workers, NEW name \in Projections,
           NEW next \in {"report", "trace", "mark"}, JobRaise(w, name, next)
    PROVE  \E k \in Job : /\ SetJob(w, k)
                          /\ k.pc = next
                          /\ k.id = job[w].id /\ k.row = job[w].row
                          /\ k.next = job[w].next
                          /\ k.failed = job[w].failed \cup {name}
                          /\ faults' \in 0..MaxFaults
<1> DEFINE k == [job[w] EXCEPT !.pc = next, !.failed = job[w].failed \cup {name},
                               !.seen = NoReport]
<1>1. job[w] \in Job
  BY StateFacts
<1>2. SetJob(w, k) /\ faults' \in 0..MaxFaults
  BY <1>1, FaultsType DEF JobRaise, Job
<1>3. k \in Job
  BY <1>1 DEF Job, JobPCs
<1>4. /\ k.pc = next /\ k.id = job[w].id /\ k.row = job[w].row /\ k.next = job[w].next
      /\ k.failed = job[w].failed \cup {name}
  BY <1>1 DEF Job
<1> HIDE DEF k
<1>5. QED
  BY <1>2, <1>3, <1>4

LEMMA ProjectIncidentStateKeeps ==
    ASSUME ChangeInv, NEW w \in Workers, ProjectIncidentState(w)
    PROVE  ChangeInv'
<1> DEFINE k == [job[w] EXCEPT !.pc = "report"]
<1>1. /\ job[w] \in Job /\ job[w].pc = "incident_state" /\ "incident_state" \in Projections
      /\ UNCHANGED <<approvals, executions, report, projected, now, worker, plan>>
      /\ incident \in IncidentState /\ report \in Reports \cup {NoReport}
  BY StateFacts
  DEF ProjectIncidentState, Projections, ChangeInv, ChangeTypeOK, ApprovalTypeOK, StoreTypeOK
<1>2. TriedChange("report") = {"incident_state"} /\ {"incident_state", "report"} \subseteq Projecting
  BY DEF TriedChange, Projecting
<1>3. CASE /\ save_incident_state(build_incident_state_from_change_execution(job[w].row.status))
           /\ audit' = audit \cup {ChangeFact(w, "incident_state")}
           /\ SetJob(w, k)
           /\ UNCHANGED faults
  <2>1. /\ k \in Job /\ k.pc = "report" /\ k.id = job[w].id /\ k.row = job[w].row
        /\ k.next = job[w].next /\ k.failed = job[w].failed
    BY <1>1 DEF Job, JobPCs
  <2>2. SetJob(w, k)
    BY <1>3
  <2> HIDE DEF k
  <2>3. incident' \in IncidentState
    <3>1. job[w].row.status \in ExecutionStatuses
      BY <1>1, <1>2, RowInHand DEF HasRow
    <3>2. QED
      BY <1>1, <1>3, <3>1, ChangeStatusType, MergeType DEF save_incident_state
  <2>4. QED
    BY <1>1, <1>2, <1>3, <2>1, <2>2, <2>3, FaultsType, ProjectionKeeps
<1>4. CASE JobRaise(w, "incident_state", "report") /\ UNCHANGED <<incident, audit>>
  <2>1. PICK r \in Job : /\ SetJob(w, r)
                         /\ r.pc = "report"
                         /\ r.id = job[w].id /\ r.row = job[w].row
                         /\ r.next = job[w].next
                         /\ r.failed = job[w].failed \cup {"incident_state"}
                         /\ faults' \in 0..MaxFaults
    BY <1>1, <1>4, RaiseShape
  <2>2. QED
    BY <1>1, <1>2, <1>4, <2>1, ProjectionKeeps
<1>5. QED
  BY <1>3, <1>4 DEF ProjectIncidentState

LEMMA ProjectReportReadKeeps ==
    ASSUME ChangeInv, NEW w \in Workers, ProjectReportRead(w)
    PROVE  ChangeInv'
<1> DEFINE k == [job[w] EXCEPT !.pc = "trace"]
           r == [job[w] EXCEPT !.pc = "save_report", !.seen = report]
<1>1. /\ job[w] \in Job /\ job[w].pc = "report" /\ "report" \in Projections
      /\ UNCHANGED <<storeVars, worker, faults, plan>>
      /\ incident \in IncidentState /\ report \in Reports \cup {NoReport}
      /\ JobFits(job[w], approvals, executions, audit, plan)
  BY StateFacts
  DEF ProjectReportRead, Projections, ChangeInv, ChangeTypeOK, ApprovalTypeOK, StoreTypeOK
<1>2. /\ TriedChange("report") = {"incident_state"}
      /\ TriedChange("save_report") = {"incident_state"}
      /\ TriedChange("trace") = {"incident_state", "report"}
      /\ {"report", "trace", "save_report"} \subseteq Projecting
  BY DEF TriedChange, Projecting
<1>3. CASE SetJob(w, k) /\ audit' = audit \cup {ChangeFact(w, "report")}
  <2>1. /\ k \in Job /\ k.pc = "trace" /\ k.id = job[w].id /\ k.row = job[w].row
        /\ k.next = job[w].next /\ k.failed = job[w].failed
    BY <1>1 DEF Job, JobPCs
  <2>2. SetJob(w, k)
    BY <1>3
  <2> HIDE DEF k
  <2>3. QED
    BY <1>1, <1>2, <1>3, <2>1, <2>2, FaultsType, ProjectionKeeps DEF storeVars
<1>4. CASE SetJob(w, r) /\ UNCHANGED audit
  <2>1. /\ r \in Job /\ r.pc = "save_report" /\ r.id = job[w].id /\ r.row = job[w].row
        /\ r.next = job[w].next /\ r.failed = job[w].failed
    BY <1>1 DEF Job, JobPCs
  <2>2. SetJob(w, r)
    BY <1>4
  <2> HIDE DEF r
  <2>3. JobFits(r, approvals, executions, audit, plan)
    <3>1. JobRow(r, executions) /\ JobMoves(r) /\ JobDuties(r, approvals[r.id])
      BY <1>1, <1>2, <2>1 DEF JobFits, JobRow, JobMoves, JobDuties, HasRow, Projecting
    <3>2. JobGates(r, executions[r.id].status, plan[r.id].nonProd)
      BY <1>1, <2>1 DEF JobFits, JobGates, HasRow, Projecting
    <3>3. JobWritten(r, audit)
      BY <1>1, <1>2, <2>1 DEF JobFits, JobWritten
    <3>4. QED
      BY <3>1, <3>2, <3>3 DEF JobFits
  <2>4. QED
    BY <1>1, <1>4, <2>1, <2>2, <2>3, JobOnly
<1>5. QED
  BY <1>3, <1>4 DEF ProjectReportRead

LEMMA ProjectReportSaveKeeps ==
    ASSUME ChangeInv, NEW w \in Workers, ProjectReportSave(w)
    PROVE  ChangeInv'
<1> DEFINE k == [job[w] EXCEPT !.pc = "trace", !.seen = NoReport]
           saved == apply_change_execution(job[w].seen, job[w].row.status)
<1>1. /\ job[w] \in Job /\ job[w].pc = "save_report" /\ "report" \in Projections
      /\ UNCHANGED <<approvals, executions, projected, now, worker, plan>>
      /\ incident \in IncidentState /\ report \in Reports \cup {NoReport}
  BY StateFacts
  DEF ProjectReportSave, Projections, ChangeInv, ChangeTypeOK, ApprovalTypeOK, StoreTypeOK
<1>2. /\ TriedChange("save_report") = {"incident_state"}
      /\ TriedChange("trace") = {"incident_state", "report"}
      /\ {"trace", "save_report"} \subseteq Projecting
  BY DEF TriedChange, Projecting
<1>3. CASE /\ save_report_with_incident(saved)
           /\ audit' = audit \cup {ChangeFact(w, "report")}
           /\ SetJob(w, k)
           /\ UNCHANGED faults
  <2>1. /\ k \in Job /\ k.pc = "trace" /\ k.id = job[w].id /\ k.row = job[w].row
        /\ k.next = job[w].next /\ k.failed = job[w].failed
    BY <1>1 DEF Job, JobPCs
  <2>2. SetJob(w, k)
    BY <1>3
  <2> HIDE DEF k
  <2>3. saved \in Reports
    BY <1>1, <1>2, RowInHand, ChangeStatusType DEF HasRow
  <2> HIDE DEF saved
  <2>4. incident' \in IncidentState /\ report' \in Reports
    BY <1>1, <1>3, <2>3, ReportStateType, MergeType DEF save_report_with_incident
  <2>5. QED
    BY <1>1, <1>2, <1>3, <2>1, <2>2, <2>4, FaultsType, ProjectionKeeps
<1>4. CASE JobRaise(w, "report", "trace") /\ UNCHANGED <<incident, report, audit>>
  <2>1. PICK r \in Job : /\ SetJob(w, r)
                         /\ r.pc = "trace"
                         /\ r.id = job[w].id /\ r.row = job[w].row
                         /\ r.next = job[w].next
                         /\ r.failed = job[w].failed \cup {"report"}
                         /\ faults' \in 0..MaxFaults
    BY <1>1, <1>4, RaiseShape
  <2>2. QED
    BY <1>1, <1>2, <1>4, <2>1, ProjectionKeeps
<1>5. QED
  BY <1>3, <1>4 DEF ProjectReportSave

LEMMA ProjectTraceKeeps ==
    ASSUME ChangeInv, NEW w \in Workers, ProjectTrace(w)
    PROVE  ChangeInv'
<1> DEFINE k == [job[w] EXCEPT !.pc = "mark"]
<1>1. /\ job[w] \in Job /\ job[w].pc = "trace" /\ "trace" \in Projections
      /\ UNCHANGED <<approvals, executions, incident, report, projected, now, worker, plan>>
      /\ incident \in IncidentState /\ report \in Reports \cup {NoReport}
  BY StateFacts
  DEF ProjectTrace, Projections, ChangeInv, ChangeTypeOK, ApprovalTypeOK, StoreTypeOK
<1>2. /\ TriedChange("trace") = {"incident_state", "report"}
      /\ TriedChange("mark") = {"incident_state", "report", "trace"}
      /\ {"trace", "mark"} \subseteq Projecting
  BY DEF TriedChange, Projecting, Projections
<1>3. CASE /\ audit' = audit \cup {ChangeFact(w, "trace")}
           /\ SetJob(w, k)
           /\ UNCHANGED faults
  <2>1. /\ k \in Job /\ k.pc = "mark" /\ k.id = job[w].id /\ k.row = job[w].row
        /\ k.next = job[w].next /\ k.failed = job[w].failed
    BY <1>1 DEF Job, JobPCs
  <2>2. SetJob(w, k)
    BY <1>3
  <2> HIDE DEF k
  <2>3. QED
    BY <1>1, <1>2, <1>3, <2>1, <2>2, FaultsType, ProjectionKeeps
<1>4. CASE JobRaise(w, "trace", "mark") /\ UNCHANGED audit
  <2>1. PICK r \in Job : /\ SetJob(w, r)
                         /\ r.pc = "mark"
                         /\ r.id = job[w].id /\ r.row = job[w].row
                         /\ r.next = job[w].next
                         /\ r.failed = job[w].failed \cup {"trace"}
                         /\ faults' \in 0..MaxFaults
    BY <1>1, <1>4, RaiseShape
  <2>2. QED
    BY <1>1, <1>2, <1>4, <2>1, ProjectionKeeps
<1>5. QED
  BY <1>3, <1>4 DEF ProjectTrace

\* A handler writes an execution row: a step along the lifecycle to a row that fits.
LEMMA RowStep ==
    ASSUME ChangeInv, NEW w \in Workers, NEW k \in Job, NEW a \in ApprovalIds,
           NEW row \in Execution, SetJob(w, k),
           executions' = [executions EXCEPT ![a] = row],
           \/ row.status = executions[a].status
           \/ <<executions[a].status, row.status>> \in Moves,
           RowFits(row, a, approvals[a], audit, plan[a].nonProd),
           UNCHANGED <<approvals, incident, report, projected, now, worker, faults, plan,
                       audit>>,
           Linked(worker[w], k),
           JobFits(k, approvals, executions', audit, plan)
    PROVE  ChangeInv'
<1>1. /\ executions \in [ApprovalIds -> Execution]
      /\ worker[w] \in Worker /\ HeldAgrees(worker[w], approvals)
      /\ worker \in [Workers -> Worker]
  BY StateFacts
<1>2. executions' \in [ApprovalIds -> Execution]
  BY <1>1
<1>3. StoreMoves
  BY <1>1 DEF StoreMoves
<1>4. AllRowsFit'
  BY <1>3, RowWritten
<1>5. /\ incident' \in IncidentState /\ report' \in Reports \cup {NoReport}
      /\ faults' \in 0..MaxFaults
      /\ audit' \subseteq ApprovalIds \X Nat \X ExecutionStatuses \X Projections
  BY DEF ChangeInv, ChangeTypeOK, ApprovalTypeOK, StoreTypeOK
<1>6. worker' = [worker EXCEPT ![w] = worker[w]]
  BY <1>1
<1>7. QED
  BY <1>1, <1>2, <1>3, <1>4, <1>5, <1>6, StepOfOne DEF SetJob

LEMMA CreateExecutionKeeps ==
    ASSUME ChangeInv, NEW w \in Workers, CreateExecution(w)
    PROVE  ChangeInv'
<1> DEFINE j == job[w]
           row == [AbsentExecution EXCEPT !.status = "created", !.mode = j.mode]
           new == [row EXCEPT !.status = "precheck_running"]
           k == Saving(j, new, {"created"}, "precheck")
<1>1. /\ j \in Job /\ j.pc = "create" /\ j.id \in ApprovalIds /\ j.mode \in Modes
      /\ JobFits(j, approvals, executions, audit, plan)
      /\ UNCHANGED <<approvals, incident, report, projected, now, worker, faults, plan, audit>>
      /\ executions \in [ApprovalIds -> Execution]
  BY StateFacts DEF CreateExecution, Job
<1>2. CASE executions[j.id].status # "absent" /\ SetJob(w, IdleJob) /\ UNCHANGED executions
  BY <1>1, <1>2, JobDropped DEF storeVars
<1>3. CASE /\ executions[j.id].status = "absent"
           /\ create_change_execution_once(j.id, row)
           /\ SetJob(w, k)
  <2>1. AbsentExecution \in Execution /\ AbsentExecution.recordedBy = "nobody"
    BY DEF AbsentExecution, Execution, Modes
  <2>2. /\ row \in Execution /\ row.status = "created" /\ row.recordedBy = "nobody"
    BY <1>1, <2>1 DEF Execution, ExecutionStatuses
  <2>3. executions' = [executions EXCEPT ![j.id] = row] /\ SetJob(w, k)
    BY <1>3 DEF create_change_execution_once
  <2> HIDE DEF row
  <2>4. /\ new \in Execution /\ new.status = "precheck_running"
        /\ new.recordedBy = "nobody" /\ {"created"} \in SUBSET ExecutionStatuses
    BY <2>2 DEF Execution, ExecutionStatuses
  <2> HIDE DEF new
  <2>5. approvals[j.id].status = "approved"
    BY <1>1 DEF JobFits, JobDuties
  <2>6. RowFits(row, j.id, approvals[j.id], audit, plan[j.id].nonProd)
    BY <2>2, <2>5 DEF RowFits, Gates, Duties, Gated
  <2>7. executions'[j.id] = row
    BY <1>1, <2>3
  <2>8. /\ Gates(new, plan[j.id].nonProd) /\ Ready(new, "precheck", plan[j.id].nonProd)
        /\ Duties(new, approvals[j.id])
    BY <2>4 DEF Gates, Ready, Duties, Gated
  <2>9. k \in Job /\ k.pc = "save" /\ JobFits(k, approvals, executions', audit, plan)
    BY <1>1, <2>2, <2>4, <2>7, <2>8, StartMoves, SavingFits
  <2> HIDE DEF k
  <2>10. Linked(worker[w], k)
    BY <1>1, <2>9, LinkKept
  <2>11. QED
    BY <1>1, <1>3, <2>2, <2>3, <2>6, <2>9, <2>10, StartMoves, RowStep
<1>4. QED
  BY <1>1, <1>2, <1>3 DEF CreateExecution

LEMMA SaveExecutionKeeps ==
    ASSUME ChangeInv, NEW w \in Workers, SaveExecution(w)
    PROVE  ChangeInv'
<1> DEFINE j == job[w]
           row == [j.row EXCEPT !.pending = Projections]
           k == [j EXCEPT !.pc = "incident_state", !.row = row, !.failed = {},
                          !.expected = {}]
           stored == executions[j.id].status
           np == plan[j.id].nonProd
<1>1. /\ j \in Job /\ j.pc = "save" /\ j.id \in ApprovalIds /\ j.row \in Execution
      /\ JobFits(j, approvals, executions, audit, plan)
      /\ UNCHANGED <<approvals, incident, report, projected, now, worker, faults, plan, audit>>
      /\ executions \in [ApprovalIds -> Execution]
      /\ stored \in j.expected
      /\ executions' = [executions EXCEPT ![j.id] = row]
      /\ SetJob(w, k)
  BY StateFacts DEF SaveExecution, save_change_execution_if_status, ExecutionMatches
<1>2. /\ row \in Execution /\ row.status = j.row.status /\ row.pending = Projections
      /\ row.precheck = j.row.precheck /\ row.dryRun = j.row.dryRun
      /\ row.recordedBy = j.row.recordedBy
  BY <1>1 DEF Execution
<1>3. /\ stored = row.status \/ <<stored, row.status>> \in Moves
      /\ j.next \in {"idle", "precheck", "dry_run", "sandbox", "manual_check"}
      /\ row.status # "absent" /\ Duties(j.row, approvals[j.id])
      /\ approvals[j.id].status = "approved"
  BY <1>1, <1>2, RowInHand DEF JobFits, JobMoves, JobRow, JobDuties, HasRow, Projecting
<1>4. Gates(row, np) /\ Ready(row, j.next, np)
  <2>1. ~Doomed(j.expected, stored)
    BY <1>1 DEF Doomed, BeyondDryRun, BeyondSandbox
  <2>2. Gates(j.row, np) /\ Ready(j.row, j.next, np)
    BY <1>1, <2>1 DEF JobFits, JobGates
  <2>3. QED
    BY <1>2, <2>2 DEF Gates, Ready
<1> HIDE DEF row
<1>5. Duties(row, approvals[j.id])
  BY <1>2, <1>3 DEF Duties
<1>6. RowFits(row, j.id, approvals[j.id], audit, np)
  BY <1>2, <1>3, <1>4, <1>5 DEF RowFits
<1>7. k \in Job
  BY <1>1, <1>2 DEF Job, JobPCs
<1>8. k.pc = "incident_state" /\ k.id = j.id /\ k.row = row /\ k.next = j.next
  BY <1>1 DEF Job
<1> HIDE DEF k
<1>9. executions'[j.id] = row
  BY <1>1
<1>10. JobFits(k, approvals, executions', audit, plan)
  <2>1. JobRow(k, executions') /\ JobMoves(k)
    BY <1>3, <1>8, <1>9 DEF JobRow, JobMoves
  <2>2. JobGates(k, executions'[k.id].status, plan[k.id].nonProd)
    BY <1>4, <1>8, <1>9 DEF JobGates
  <2>3. JobDuties(k, approvals[k.id]) /\ JobWritten(k, audit)
    BY <1>5, <1>8 DEF JobDuties, JobWritten, TriedChange
  <2>4. QED
    BY <2>1, <2>2, <2>3 DEF JobFits
<1>11. Linked(worker[w], k)
  BY <1>1, <1>8, LinkKept
<1>12. QED
  BY <1>1, <1>2, <1>3, <1>6, <1>7, <1>10, <1>11, RowStep

LEMMA MarkExecutionKeeps ==
    ASSUME ChangeInv, NEW w \in Workers, MarkExecution(w)
    PROVE  ChangeInv'
<1> DEFINE j == job[w]
           updated == [j.row EXCEPT !.pending = j.failed]
           stored == executions[j.id]
           np == plan[j.id].nonProd
<1>1. /\ j \in Job /\ j.pc = "mark" /\ j.id \in ApprovalIds /\ j.row \in Execution
      /\ j.failed \subseteq Projections
      /\ JobFits(j, approvals, executions, audit, plan)
      /\ UNCHANGED <<approvals, incident, report, projected, now, worker, faults, plan, audit>>
      /\ executions \in [ApprovalIds -> Execution] /\ stored \in Execution
      /\ RowFits(stored, j.id, approvals[j.id], audit, np)
  BY StateFacts DEF MarkExecution, Job
<1>2. /\ updated \in Execution /\ updated.status = j.row.status
      /\ updated.pending = j.failed /\ updated.rev = j.row.rev
      /\ updated.precheck = j.row.precheck /\ updated.dryRun = j.row.dryRun
      /\ updated.recordedBy = j.row.recordedBy
  BY <1>1 DEF Execution
<1>3. PICK row \in {updated, stored} :
         /\ row = stored => stored.status # j.row.status \/ stored = updated
         /\ SetJob(w, At([j EXCEPT !.row = row, !.failed = {}, !.next = "idle"], j.next))
  <2>1. CASE updated.pending # j.row.pending /\ stored.status # j.row.status
    BY <1>2, <2>1 DEF MarkExecution, ExecutionMatches, Left
  <2>2. CASE ~(updated.pending # j.row.pending /\ stored.status # j.row.status)
    <3>1. SetJob(w, At([j EXCEPT !.row = updated, !.failed = {}, !.next = "idle"], j.next))
      BY <1>2, <2>2 DEF MarkExecution, ExecutionMatches, Left
    <3>2. CASE updated = stored
      BY <3>1, <3>2
    <3>3. CASE updated # stored
      BY <3>1, <3>3
    <3>4. QED
      BY <3>2, <3>3
  <2>3. QED
    BY <2>1, <2>2
<1>4. \/ executions' = executions
      \/ /\ stored.status = j.row.status
         /\ executions' = [executions EXCEPT ![j.id] = updated]
  BY DEF MarkExecution, save_change_execution_if_status, ExecutionMatches, Left
<1>5. /\ Gates(j.row, np) /\ Ready(j.row, j.next, np) /\ Duties(j.row, approvals[j.id])
      /\ j.next \in {"dry_run", "sandbox"} =>
            stored.status = j.row.status \/ Past(j.next, stored.status)
      /\ j.next \in {"idle", "precheck", "dry_run", "sandbox", "manual_check"}
      /\ j.row.status # "absent" /\ stored.status # "absent"
      /\ \A p \in Projections : \/ p \in j.failed
                                \/ <<j.id, j.row.rev, j.row.status, p>> \in audit
  BY <1>1 DEF JobFits, JobGates, JobDuties, JobMoves, JobRow, JobWritten, TriedChange,
              HasRow, Projecting
<1>6. /\ Gates(updated, np) /\ Duties(updated, approvals[j.id])
      /\ Ready(updated, j.next, np)
  BY <1>2, <1>5 DEF Gates, Duties, Ready
<1>7. RowFits(updated, j.id, approvals[j.id], audit, np)
  BY <1>1, <1>2, <1>5, <1>6 DEF RowFits
<1> HIDE DEF updated
<1>8. row \in Execution /\ Gates(row, np) /\ Duties(row, approvals[j.id])
      /\ row.status # "absent"
  BY <1>1, <1>2, <1>3, <1>5, <1>6 DEF RowFits
<1>9. j.next \in {"dry_run", "sandbox"} =>
         Ready(row, j.next, np) \/ Past(j.next, stored.status)
  BY <1>3, <1>5, <1>6
<1>10. executions'[j.id].status = stored.status
  BY <1>1, <1>2, <1>4
<1> DEFINE k == At([j EXCEPT !.row = row, !.failed = {}, !.next = "idle"], j.next)
<1>11. /\ k \in Job /\ k.pc = j.next
       /\ JobFits(k, approvals, executions', audit, plan)
  <2>1. CASE j.next = "idle"
    <3>1. k = IdleJob
      BY <2>1 DEF At
    <3>2. QED
      BY <2>1, <3>1, IdleJobType, IdleJobFits DEF IdleJob
  <2>2. CASE j.next # "idle"
    <3>1. k = [[j EXCEPT !.row = row, !.failed = {}, !.next = "idle"] EXCEPT !.pc = j.next]
      BY <2>2 DEF At
    <3>2. k \in Job
      BY <1>1, <1>8, <3>1 DEF Job, JobPCs
    <3>3. k.pc = j.next /\ k.id = j.id /\ k.row = row
      BY <1>1, <3>1 DEF Job
    <3> HIDE DEF k
    <3>4. JobRow(k, executions') /\ JobMoves(k) /\ JobDuties(k, approvals[k.id])
      BY <1>5, <1>8, <1>10, <2>2, <3>3 DEF JobRow, JobMoves, JobDuties, Projecting
    <3>5. JobGates(k, executions'[k.id].status, plan[k.id].nonProd)
      BY <1>5, <1>8, <1>9, <1>10, <2>2, <3>3 DEF JobGates, Projecting
    <3>6. JobWritten(k, audit)
      BY <1>5, <3>3 DEF JobWritten, TriedChange
    <3>7. QED
      BY <3>2, <3>3, <3>4, <3>5, <3>6 DEF JobFits
  <2>3. QED
    BY <2>1, <2>2
<1>12. SetJob(w, k)
  BY <1>3
<1> HIDE DEF k
<1>13. k.pc \notin {"loading", "manual_loading"}
  BY <1>5, <1>11
<1>14. CASE executions' = executions
  BY <1>1, <1>11, <1>12, <1>13, <1>14, JobOnly DEF storeVars
<1>15. CASE /\ stored.status = j.row.status
            /\ executions' = [executions EXCEPT ![j.id] = updated]
  <2>1. Linked(worker[w], k)
    BY <1>1, <1>13, LinkKept
  <2>2. QED
    BY <1>1, <1>2, <1>7, <1>11, <1>12, <1>15, <2>1, RowStep
<1>16. QED
  BY <1>4, <1>14, <1>15

-----------------------------------------------------------------------------
(* Steps of the approval service *)

\* A handler that moves from u to v in the approval service goes on serving the same
\* read of the change service, or none.
ServiceKept(u, v) ==
    /\ Serves(v) = Serves(u)
    /\ Serves(u) # "none" => v.id = u.id
    /\ v.pc \in {"check", "commit"} => v.op \in {"decide", "sweep"}
    /\ v.pc = "waiting_report" => v.op = "create"

\* The handler's state when it has read a request, or goes on with one.
LEMMA ReadShape ==
    ASSUME ChangeInv, NEW u \in Worker, NEW a \in ApprovalIds, NEW op \in Ops, NEW row,
           NEW pc \in {Continuation(op), "incident_state"}
    PROVE  LET v == Holding(u, pc, op, a, row)
           IN  /\ op \notin {"start", "manual"} => Serves(v) = "none"
               /\ op \in {"start", "manual"} => Serves(v) = op /\ v.id = a
               /\ v.pc \in {"check", "commit"} => v.op \in {"decide", "sweep"}
               /\ v.pc = "waiting_report" => v.op = "create"
<1> DEFINE v == Holding(u, pc, op, a, row)
<1>1. CASE pc = "idle"
  <2>1. v = IdleWorker /\ IdleWorker.pc = "idle" /\ op \notin {"start", "manual"}
    BY <1>1 DEF Holding, IdleWorker, Continuation
  <2>2. QED
    BY <2>1 DEF Serves
<1>2. CASE pc # "idle"
  <2>1. v.pc = pc /\ v.op = op /\ v.id = a
    BY <1>2 DEF Holding, Worker
  <2>2. pc = Continuation(op) => /\ pc \in {"check", "commit"} => op \in {"decide", "sweep"}
                                 /\ pc = "waiting_report" => op = "create"
    BY DEF Continuation, Ops
  <2> HIDE DEF v
  <2>3. QED
    BY <1>2, <2>1, <2>2 DEF Serves, v
<1>3. QED
  BY <1>1, <1>2

LEMMA GetRequestShape ==
    ASSUME ChangeInv, NEW u \in Worker, NEW a \in ApprovalIds,
           NEW op \in Ops \ {"start", "manual"}
    PROVE  LET v == get_request(u, a, op)
           IN  /\ Serves(v) = "none"
               /\ v.pc \in {"check", "commit"} => v.op \in {"decide", "sweep"}
               /\ v.pc = "waiting_report" => v.op = "create"
BY ReadShape DEF get_request

\* A handler that is called.
LEMMA ArrivalShape ==
    ASSUME ChangeInv, NEW w \in Workers, Arrival(w)
    PROVE  /\ executions' = executions
           /\ \E v : worker' = [worker EXCEPT ![w] = v] /\ ServiceKept(worker[w], v)
<1>1. worker[w] \in Worker /\ {"get", "sweep", "decide", "create"} \subseteq Ops
  BY StateFacts DEF Ops
<1>2. ASSUME NEW v, worker' = [worker EXCEPT ![w] = v], Idle(w), Serves(v) = "none",
             v.pc \in {"check", "commit"} => v.op \in {"decide", "sweep"},
             v.pc = "waiting_report" => v.op = "create"
      PROVE  \E x : worker' = [worker EXCEPT ![w] = x] /\ ServiceKept(worker[w], x)
  <2>1. ServiceKept(worker[w], v)
    BY <1>2 DEF ServiceKept, Serves, Idle
  <2>2. QED
    BY <1>2, <2>1
<1> DEFINE Goal == \E x : worker' = [worker EXCEPT ![w] = x] /\ ServiceKept(worker[w], x)
<1> HIDE DEF Goal
<1>3. ASSUME NEW a \in ApprovalIds, CreateRequest(w, a)
      PROVE  executions' = executions /\ Goal
  <2> DEFINE row == [status |-> "pending", createdAt |-> now, decidedBy |-> "nobody",
                     pending |-> creation_projection_names]
             v == Holding(worker[w], "incident_state", "create", a, row)
  <2>1. Idle(w) /\ worker' = [worker EXCEPT ![w] = v] /\ executions' = executions
    BY <1>3 DEF CreateRequest
  <2>2. /\ Serves(v) = "none"
        /\ v.pc \in {"check", "commit"} => v.op \in {"decide", "sweep"}
        /\ v.pc = "waiting_report" => v.op = "create"
    BY <1>1, ReadShape
  <2> HIDE DEF v
  <2>3. QED
    BY <1>2, <2>1, <2>2 DEF Goal
<1>4. ASSUME NEW a \in ApprovalIds, ReuseRequest(w, a)
      PROVE  executions' = executions /\ Goal
  <2> DEFINE v == Holding(worker[w], "waiting_report", "create", a, approvals[a])
  <2>1. Idle(w) /\ worker' = [worker EXCEPT ![w] = v] /\ executions' = executions
    BY <1>4 DEF ReuseRequest, storeVars
  <2>2. /\ Serves(v) = "none"
        /\ v.pc \in {"check", "commit"} => v.op \in {"decide", "sweep"}
        /\ v.pc = "waiting_report" => v.op = "create"
    <3>1. Continuation("create") = "waiting_report"
      BY DEF Continuation
    <3>2. QED
      BY <1>1, <3>1, ReadShape
  <2> HIDE DEF v
  <2>3. QED
    BY <1>2, <2>1, <2>2 DEF Goal
<1>5. ASSUME NEW a \in ApprovalIds, NEW u \in Worker, NEW op \in {"get", "sweep", "decide"},
             Idle(w), worker' = [worker EXCEPT ![w] = get_request(u, a, op)]
      PROVE  Goal
  <2> DEFINE v == get_request(u, a, op)
  <2>1. /\ Serves(v) = "none"
        /\ v.pc \in {"check", "commit"} => v.op \in {"decide", "sweep"}
        /\ v.pc = "waiting_report" => v.op = "create"
    BY <1>1, GetRequestShape
  <2>2. worker' = [worker EXCEPT ![w] = v]
    BY <1>5
  <2> HIDE DEF v
  <2>3. QED
    BY <1>2, <1>5, <2>1, <2>2 DEF Goal
<1>6. ASSUME NEW a \in ApprovalIds, ReadRequest(w, a) \/ SweepPending(w, a)
      PROVE  executions' = executions /\ Goal
  BY <1>1, <1>5, <1>6, StateFacts DEF ReadRequest, SweepPending, storeVars
<1>7. ASSUME NEW a \in ApprovalIds, NEW decision \in Decisions, NEW actor \in Actors,
             DecideRequest(w, a, decision, actor)
      PROVE  executions' = executions /\ Goal
  <2> DEFINE u == [worker[w] EXCEPT !.decision = decision, !.actor = actor]
  <2>1. u \in Worker
    BY <1>1, ApprovalAssumption DEF Worker
  <2>2. /\ Idle(w) /\ executions' = executions
        /\ worker' = [worker EXCEPT ![w] = get_request(u, a, "decide")]
    BY <1>7, StateFacts DEF DecideRequest, storeVars
  <2> HIDE DEF u
  <2>3. QED
    BY <1>5, <2>1, <2>2
<1>8. QED
  BY <1>3, <1>4, <1>6, <1>7 DEF Arrival, Goal

\* A handler that goes on.
LEMMA HandlerShape ==
    ASSUME ChangeInv, NEW w \in Workers, HandlerStep(w)
    PROVE  /\ executions' = executions
           /\ \E v : worker' = [worker EXCEPT ![w] = v] /\ ServiceKept(worker[w], v)
<1> DEFINE u == worker[w]
           Goal == \E x : worker' = [worker EXCEPT ![w] = x] /\ ServiceKept(worker[w], x)
<1>1. /\ u \in Worker /\ u.id \in ApprovalIds /\ u.op \in Ops /\ worker \in [Workers -> Worker]
      /\ {"get", "create"} \subseteq Ops
      /\ u.pc \in {"check", "commit"} => u.op \in {"decide", "sweep"}
      /\ u.pc = "waiting_report" => u.op = "create"
  BY StateFacts DEF Ops, Worker, Linked
<1>2. ASSUME NEW v, worker' = [worker EXCEPT ![w] = v], ServiceKept(u, v)
      PROVE  Goal
  BY <1>2
<1> HIDE DEF Goal
<1>3. ASSUME NEW v, worker' = [worker EXCEPT ![w] = v], u.pc # "idle",
             v.pc \in {"trace", "report", "save_report", "mark"}, v.op = u.op, v.id = u.id
      PROVE  Goal
  <2>1. ServiceKept(u, v)
    BY <1>3 DEF ServiceKept, Serves
  <2>2. QED
    BY <1>2, <1>3, <2>1
<1>4. ASSUME worker' = [worker EXCEPT ![w] = IdleWorker], Serves(u) = "none"
      PROVE  Goal
  <2>1. ServiceKept(u, IdleWorker)
    BY <1>4 DEF ServiceKept, Serves, IdleWorker
  <2>2. QED
    BY <1>2, <1>4, <2>1
<1>5. ASSUME NEW name, NEW next \in {"trace", "report", "mark"}, Raise(w, name, next),
             u.pc # "idle"
      PROVE  Goal
  <2> DEFINE v == [u EXCEPT !.pc = next, !.failed = u.failed \cup {name}]
  <2>1. worker' = [worker EXCEPT ![w] = v]
    BY <1>1, <1>5 DEF Raise
  <2>2. v.pc = next /\ v.op = u.op /\ v.id = u.id
    BY <1>1 DEF Worker
  <2> HIDE DEF v
  <2>3. QED
    BY <1>3, <1>5, <2>1, <2>2
<1>6. ASSUME NEW next \in {"trace", "report", "mark"}, u.pc # "idle",
             worker' = [worker EXCEPT ![w].pc = next]
      PROVE  Goal
  <2> DEFINE v == [u EXCEPT !.pc = next]
  <2>1. worker' = [worker EXCEPT ![w] = v]
    BY <1>1, <1>6
  <2>2. v.pc = next /\ v.op = u.op /\ v.id = u.id
    BY <1>1 DEF Worker
  <2> HIDE DEF v
  <2>3. QED
    BY <1>3, <1>6, <2>1, <2>2
<1>7. ASSUME CheckRequest(w)
      PROVE  executions' = executions /\ Goal
  <2> DEFINE go == [u EXCEPT !.pc = "commit"]
             cancel == [u EXCEPT !.pc = "commit", !.decision = "cancelled",
                                 !.actor = "system"]
  <2>1. u.pc = "check" /\ executions' = executions
    BY <1>7 DEF CheckRequest, storeVars
  <2>2. Serves(u) = "none" /\ u.op \in {"decide", "sweep"}
    BY <1>1, <2>1 DEF Serves
  <2>3. /\ go.pc = "commit" /\ go.op = u.op /\ go.id = u.id
        /\ cancel.pc = "commit" /\ cancel.op = u.op /\ cancel.id = u.id
    BY <1>1 DEF Worker
  <2>4. \/ worker' = [worker EXCEPT ![w] = IdleWorker]
        \/ worker' = [worker EXCEPT ![w] = go]
        \/ worker' = [worker EXCEPT ![w] = cancel]
    BY <1>1, <1>7 DEF CheckRequest
  <2> HIDE DEF go, cancel
  <2>5. ServiceKept(u, go) /\ ServiceKept(u, cancel)
    BY <2>2, <2>3 DEF ServiceKept, Serves
  <2>6. QED
    BY <1>2, <1>4, <2>1, <2>2, <2>4, <2>5
<1>8. ASSUME CommitDecision(w) \/ DecisionConflict(w)
      PROVE  executions' = executions /\ Goal
  <2> DEFINE v == Holding(u, "incident_state", "get", u.id, DecidedRow(w))
             x == get_request(u, u.id, "get")
  <2>1. /\ u.pc = "commit" /\ executions' = executions
        /\ \/ worker' = [worker EXCEPT ![w] = v]
           \/ worker' = [worker EXCEPT ![w] = x]
    BY <1>1, <1>8 DEF CommitDecision, DecisionConflict, storeVars
  <2>2. Serves(u) = "none"
    BY <1>1, <2>1 DEF Serves
  <2>3. /\ Serves(v) = "none"
        /\ v.pc \in {"check", "commit"} => v.op \in {"decide", "sweep"}
        /\ v.pc = "waiting_report" => v.op = "create"
    BY <1>1, ReadShape
  <2>4. /\ Serves(x) = "none"
        /\ x.pc \in {"check", "commit"} => x.op \in {"decide", "sweep"}
        /\ x.pc = "waiting_report" => x.op = "create"
    BY <1>1, GetRequestShape
  <2> HIDE DEF v, x
  <2>5. ServiceKept(u, v) /\ ServiceKept(u, x)
    BY <2>2, <2>3, <2>4 DEF ServiceKept
  <2>6. QED
    BY <1>2, <2>1, <2>5
<1>9. ASSUME SyncIncidentState(w) \/ SyncReportSave(w)
      PROVE  executions' = executions /\ Goal
  BY <1>5, <1>6, <1>9 DEF SyncIncidentState, SyncReportSave
<1>10. ASSUME SyncTrace(w)
       PROVE  executions' = executions /\ Goal
  <2> DEFINE next == IF worker[w].row.status = "pending" THEN "mark" ELSE "report"
  <2>1. next \in {"trace", "report", "mark"}
    OBVIOUS
  <2>2. /\ u.pc = "trace" /\ executions' = executions
        /\ worker' = [worker EXCEPT ![w].pc = next] \/ Raise(w, "trace", next)
    BY <1>10 DEF SyncTrace
  <2> HIDE DEF next
  <2>3. QED
    BY <1>5, <1>6, <2>1, <2>2
<1>11. ASSUME SyncReportRead(w)
       PROVE  executions' = executions /\ Goal
  <2> DEFINE v == [u EXCEPT !.pc = "save_report", !.seen = report]
  <2>1. v.pc = "save_report" /\ v.op = u.op /\ v.id = u.id
    BY <1>1 DEF Worker
  <2>2. /\ u.pc = "report" /\ executions' = executions
        /\ \/ worker' = [worker EXCEPT ![w].pc = "mark"]
           \/ worker' = [worker EXCEPT ![w] = v]
    BY <1>1, <1>11 DEF SyncReportRead
  <2> HIDE DEF v
  <2>3. QED
    BY <1>3, <1>6, <2>1, <2>2
<1>12. ASSUME MarkProjections(w)
       PROVE  executions' = executions /\ Goal
  <2> DEFINE row == [worker[w].row EXCEPT !.pending = Unsynced(w)]
             v == Holding(u, Continuation(u.op), u.op, u.id, row)
  <2>1. /\ u.pc = "mark" /\ executions' = executions
        /\ worker' = [worker EXCEPT ![w] = v]
    BY <1>1, <1>12 DEF MarkProjections
  <2> HIDE DEF row
  <2>2. /\ u.op \notin {"start", "manual"} => Serves(v) = "none"
        /\ u.op \in {"start", "manual"} => Serves(v) = u.op /\ v.id = u.id
        /\ v.pc \in {"check", "commit"} => v.op \in {"decide", "sweep"}
        /\ v.pc = "waiting_report" => v.op = "create"
    BY <1>1, ReadShape
  <2> HIDE DEF v
  <2>3. ServiceKept(u, v)
    BY <2>1, <2>2 DEF ServiceKept, Serves
  <2>4. QED
    BY <1>2, <2>1, <2>3
<1>13. ASSUME SaveWaitingReport(w)
       PROVE  executions' = executions /\ Goal
  BY <1>1, <1>4, <1>13 DEF SaveWaitingReport, Serves
<1>14. QED
  BY <1>7, <1>8, <1>9, <1>10, <1>11, <1>12, <1>13 DEF HandlerStep, Goal

\* A step of the approval service keeps the invariant of the change service.
LEMMA ApprovalKeeps ==
    ASSUME ChangeInv, NEW w \in Workers, ApprovalArrival(w) \/ ApprovalStep(w)
    PROVE  ChangeInv'
<1>1. /\ Arrival(w) \/ HandlerStep(w)
      /\ UNCHANGED changeVars
  BY DEF ApprovalArrival, ApprovalStep
<1>2. PICK v : worker' = [worker EXCEPT ![w] = v] /\ ServiceKept(worker[w], v)
  BY <1>1, ArrivalShape, HandlerShape
<1>3. executions' = executions
  BY <1>1, ArrivalShape, HandlerShape
<1>4. [ApprovalNext]_approvalVars
  BY <1>1 DEF ApprovalNext
<1>5. RowsInv'
  BY <1>4, RowsStep DEF ChangeInv
<1>6. StoreMoves
  <2>1. RowsInv /\ "approved" \in Decided
    BY DEF ChangeInv, Decided
  <2>2. ASSUME NEW a \in ApprovalIds, approvals[a].status = "approved"
        PROVE  /\ approvals'[a].status = "approved"
               /\ approvals'[a].decidedBy = approvals[a].decidedBy
    BY <1>4, <2>1, <2>2, DecisionFinalStep
  <2>3. QED
    BY <1>1, <1>3, <2>2 DEF StoreMoves, changeVars
<1>7. AllRowsFit'
  BY <1>3, <1>6, RowsUnwritten
<1>8. AllJobsFit'
  BY <1>1, <1>6, StateFacts, JobFrame DEF AllJobsFit, changeVars
<1>9. AllLinked'
  <2>1. Linked(v, job[w])
    BY <1>2, StateFacts DEF ServiceKept, Linked
  <2>2. job' = [job EXCEPT ![w] = job[w]]
    BY <1>1, StateFacts DEF changeVars
  <2>3. QED
    BY <1>2, <2>1, <2>2, LinkedByMover
<1>10. ChangeTypeOK'
  BY <1>1, <1>5 DEF ChangeInv, ChangeTypeOK, RowsInv, changeVars
<1>11. QED
  BY <1>5, <1>7, <1>8, <1>9, <1>10 DEF ChangeInv

-----------------------------------------------------------------------------
(* The theorems *)

\* Whichever service starts first, the invariant holds: no request, or every request
\* approved.
LEMMA ChangeInvInit == ChangeInit \/ SafeChangeInit => ChangeInv
<1> SUFFICES ASSUME ChangeInit \/ SafeChangeInit
             PROVE  ChangeInv
  OBVIOUS
<1>1. /\ plan \in [ApprovalIds -> Plans] /\ job = [w \in Workers |-> IdleJob] /\ audit = {}
      /\ executions = [a \in ApprovalIds |-> AbsentExecution]
      /\ worker = [w \in Workers |-> IdleWorker]
  BY DEF ChangeInit, SafeChangeInit, ApprovalInit
<1>2. RowsInv
  <2>1. CASE SafeChangeInit
    BY <2>1, RowsInit DEF SafeChangeInit
  <2>2. CASE ChangeInit
    <3>1. PICK approver \in Actors :
             approvals = [a \in ApprovalIds |->
                             [status |-> "approved", createdAt |-> 0,
                              decidedBy |-> approver, pending |-> {}]]
      BY <2>2 DEF ChangeInit
    <3>2. approvals \in [ApprovalIds -> Approval]
      BY <3>1 DEF Approval, ApprovalStatuses, Decided
    <3>3. executions \in [ApprovalIds -> Execution]
      BY <1>1 DEF AbsentExecution, Execution, Modes
    <3>4. incident \in IncidentState /\ report \in Reports
      BY <2>2 DEF ChangeInit, PlainUpdate, IncidentState, IncidentStatuses, Sources, Reports,
                  APPROVAL_LIFECYCLE_STATUSES
    <3>5. worker \in [Workers -> Worker]
      BY <1>1, IdleJobType
    <3>6. projected \subseteq ApprovalIds \X ApprovalStatuses \X Projections
      BY <2>2 DEF ChangeInit, creation_projection_names, decision_projection_names,
                  ApprovalStatuses, Decided, Projections
    <3>7. now \in 0..MaxTime /\ faults \in 0..MaxFaults
      BY <2>2, StoreAssumption, ApprovalAssumption DEF ChangeInit
    <3>8. ApprovalTypeOK
      BY <3>2, <3>3, <3>4, <3>5, <3>6, <3>7 DEF ApprovalTypeOK, StoreTypeOK
    <3>9. HeldRows
      BY <1>1 DEF HeldRows, HeldAgrees, IdleWorker
    <3>10. OnePendingPerKey
      BY <3>1 DEF OnePendingPerKey
    <3>11. QED
      BY <3>8, <3>9, <3>10 DEF RowsInv
  <2>3. QED
    BY <2>1, <2>2
<1>3. ChangeTypeOK
  BY <1>1, <1>2, IdleJobType DEF ChangeTypeOK, RowsInv
<1>4. AllLinked
  BY <1>1, IdleJobType DEF AllLinked
<1>5. AllJobsFit
  BY <1>1, IdleJobFits DEF AllJobsFit
<1>6. AllRowsFit
  BY <1>1 DEF AllRowsFit, RowFits, Gates, Duties, Gated, ExecutionStatuses, AbsentExecution
<1>7. QED
  BY <1>2, <1>3, <1>4, <1>5, <1>6 DEF ChangeInv

LEMMA ChangeInvStep ==
    ASSUME ChangeInv, [SafeChangeNext]_allVars
    PROVE  ChangeInv'
<1>1. ASSUME NEW w \in Workers, ChangeArrival(w)
      PROVE  ChangeInv'
  <2>1. StartModes \subseteq Modes /\ Receipts \subseteq ManualResults
    BY ChangeAssumption
  <2>2. QED
    BY <1>1, <2>1, StartAfterApprovalKeeps, RecordManualResultKeeps, ReadExecutionKeeps
    DEF ChangeArrival
<1>2. ASSUME NEW w \in Workers, ChangeStep(w)
      PROVE  ChangeInv'
  BY <1>2, LoadedForStartKeeps, FindExecutionKeeps, CreateExecutionKeeps, RunPreChecksKeeps,
     RunDryRunKeeps, RunSandboxKeeps, ManualCheckKeeps, LoadedForManualKeeps,
     SaveExecutionKeeps, SaveConflictKeeps, ProjectIncidentStateKeeps,
     ProjectReportReadKeeps, ProjectReportSaveKeeps, ProjectTraceKeeps, MarkExecutionKeeps
  DEF ChangeStep
<1>3. ASSUME UNCHANGED <<approvals, executions, worker, plan, job, audit>>, ApprovalTypeOK'
      PROVE  ChangeInv'
  <2>1. AllLinked' /\ AllJobsFit' /\ AllRowsFit'
    BY <1>3 DEF ChangeInv, AllLinked, AllJobsFit, AllRowsFit
  <2>2. HeldRows' /\ OnePendingPerKey'
    BY <1>3 DEF ChangeInv, RowsInv, HeldRows, OnePendingPerKey
  <2>3. QED
    BY <1>3, <2>1, <2>2 DEF ChangeInv, RowsInv, ChangeTypeOK
<1>4. CASE (Tick /\ UNCHANGED changeVars) \/ UNCHANGED allVars
  <2>1. ApprovalTypeOK'
    BY <1>4, TypeStep DEF ChangeInv, RowsInv, ApprovalNext, allVars, approvalVars
  <2>2. QED
    BY <1>3, <1>4, <2>1 DEF Tick, changeVars, allVars
<1>5. QED
  BY <1>1, <1>2, <1>4, AbandonKeeps, ApprovalKeeps, [SafeChangeNext]_allVars
  DEF SafeChangeNext, ChangeNext

\* The invariant holds in every reachable state, of the change service alone and of the
\* two services together.
LEMMA ChangeInvHolds == ChangeSpec \/ SafeChangeSpec => []ChangeInv
<1>1. ChangeInit \/ SafeChangeInit => ChangeInv
  BY ChangeInvInit
<1>2. ChangeInv /\ [SafeChangeNext]_allVars => ChangeInv'
  BY ChangeInvStep
<1>3. [ChangeNext]_allVars => [SafeChangeNext]_allVars
  BY DEF SafeChangeNext
<1>4. QED
  BY <1>1, <1>2, <1>3, PTL DEF ChangeSpec, SafeChangeSpec

\* Rows, projections, request objects and execution objects hold values of their type.
THEOREM ChangeTypeHolds == ChangeSpec \/ SafeChangeSpec => []ChangeTypeOK
<1>1. ChangeInv => ChangeTypeOK
  BY DEF ChangeInv
<1>2. QED
  BY <1>1, ChangeInvHolds, PTL

\* No execution gets past the gates without them, whatever copies of its row are saved
\* over each other.
THEOREM GatesPassedHolds == ChangeSpec \/ SafeChangeSpec => []GatesPassed
<1>1. ChangeInv => GatesPassed
  BY DEF ChangeInv, AllRowsFit, RowFits, Gates, GatesPassed
<1>2. QED
  BY <1>1, ChangeInvHolds, PTL

\* Whoever records the result of a change is not who approved it.
THEOREM SeparationOfDutiesHolds == ChangeSpec \/ SafeChangeSpec => []SeparationOfDuties
<1>1. ChangeInv => SeparationOfDuties
  BY DEF ChangeInv, AllRowsFit, RowFits, Duties, SeparationOfDuties
<1>2. QED
  BY <1>1, ChangeInvHolds, PTL

\* No projection of a saved execution is forgotten.
THEOREM ExecutionOutboxHolds == ChangeSpec \/ SafeChangeSpec => []ExecutionOutboxComplete
<1>1. ChangeInv => ExecutionOutboxComplete
  BY DEF ChangeInv, AllRowsFit, RowFits, ExecutionOutboxComplete
<1>2. QED
  BY <1>1, ChangeInvHolds, PTL

\* No change execution without an approval that stands.
THEOREM ExecutionAuthorizedHolds == ChangeSpec \/ SafeChangeSpec => []ExecutionAuthorized
<1>1. ChangeInv => ExecutionAuthorized
  BY DEF ChangeInv, AllRowsFit, RowFits, ExecutionAuthorized
<1>2. QED
  BY <1>1, ChangeInvHolds, PTL

-----------------------------------------------------------------------------
(* The refinement of SafeChangeContract *)

\* How a step of the approval service moves the approval rows.
LEMMA DecisionShape ==
    ASSUME ChangeInv, NEW w \in Workers, Arrival(w) \/ HandlerStep(w)
    PROVE  \/ \A a \in ApprovalIds : approvals'[a].status = approvals[a].status
           \/ \E a \in ApprovalIds, row \in Approval :
                 /\ approvals' = [approvals EXCEPT ![a] = row]
                 /\ <<approvals[a].status, row.status>> \in Contract!DecisionMoves
<1>1. RowsInv /\ ApprovalTypeOK /\ worker[w] \in Worker /\ worker[w].id \in ApprovalIds
  BY StateFacts DEF ChangeInv, RowsInv, Worker
<1>2. ASSUME NEW a \in ApprovalIds, CreateRequest(w, a)
      PROVE  \E row \in Approval :
                /\ approvals' = [approvals EXCEPT ![a] = row]
                /\ <<approvals[a].status, row.status>> \in Contract!DecisionMoves
  <2>1. <<"absent", "pending">> \in Contract!DecisionMoves
    BY DEF Contract!DecisionMoves
  <2>2. QED
    BY <1>1, <1>2, <2>1, RowType
    DEF CreateRequest, create_approval_request_once, CanCreateApproval
<1>3. ASSUME CommitDecision(w)
      PROVE  \E row \in Approval :
                /\ approvals' = [approvals EXCEPT ![worker[w].id] = row]
                /\ <<approvals[worker[w].id].status, row.status>> \in Contract!DecisionMoves
  <2>1. DecidedRow(w) \in Approval /\ DecidedRow(w).status \in Decided
    BY <1>1, RowType
  <2>2. \A s \in Decided : <<"pending", s>> \in Contract!DecisionMoves
    BY DEF Contract!DecisionMoves, Decided
  <2>3. QED
    BY <1>3, <2>1, <2>2
    DEF CommitDecision, save_approval_decision_if_pending, DecisionAccepted
<1>4. ASSUME MarkProjections(w)
      PROVE  \A a \in ApprovalIds : approvals'[a].status = approvals[a].status
  BY <1>1, <1>4, MarkKeepsRows
<1>5. ASSUME \/ \E b \in ApprovalIds :
                  \/ ReuseRequest(w, b) \/ ReadRequest(w, b) \/ SweepPending(w, b)
                  \/ \E decision \in Decisions, actor \in Actors :
                        DecideRequest(w, b, decision, actor)
             \/ CheckRequest(w) \/ DecisionConflict(w) \/ SyncIncidentState(w)
             \/ SyncTrace(w) \/ SyncReportRead(w) \/ SyncReportSave(w)
             \/ SaveWaitingReport(w)
      PROVE  approvals' = approvals
  BY <1>5 DEF ReuseRequest, ReadRequest, SweepPending, DecideRequest, CheckRequest,
     DecisionConflict, SyncIncidentState, SyncTrace, SyncReportRead, SyncReportSave,
     SaveWaitingReport, storeVars
<1>6. QED
  BY <1>1, <1>2, <1>3, <1>4, <1>5 DEF Arrival, HandlerStep

\* How a step of the change service moves the execution rows.
LEMMA ExecutionShape ==
    ASSUME ChangeInv, NEW w \in Workers, ChangeArrival(w) \/ ChangeStep(w) \/ Abandon(w)
    PROVE  /\ approvals' = approvals
           /\ \/ \A a \in ApprovalIds : executions'[a].status = executions[a].status
              \/ \E a \in ApprovalIds, row \in Execution :
                    /\ executions' = [executions EXCEPT ![a] = row]
                    /\ <<executions[a].status, row.status>> \in Moves
                    /\ approvals[a].status = "approved"
<1> DEFINE j == job[w]
           Moved(a, row) == /\ executions' = [executions EXCEPT ![a] = row]
                            /\ \/ executions[a].status = row.status
                               \/ <<executions[a].status, row.status>> \in Moves
                            /\ approvals[a].status = "approved"
<1>1. /\ executions \in [ApprovalIds -> Execution] /\ j \in Job /\ j.id \in ApprovalIds
      /\ j.row \in Execution /\ j.mode \in Modes /\ j.failed \subseteq Projections
      /\ JobFits(j, approvals, executions, audit, plan)
  BY StateFacts DEF Job
<1>2. ASSUME NEW a \in ApprovalIds, NEW row \in Execution, Moved(a, row)
      PROVE  \/ \A b \in ApprovalIds : executions'[b].status = executions[b].status
             \/ \E b \in ApprovalIds, r \in Execution :
                   /\ executions' = [executions EXCEPT ![b] = r]
                   /\ <<executions[b].status, r.status>> \in Moves
                   /\ approvals[b].status = "approved"
  BY <1>1, <1>2
<1>3. ASSUME CreateExecution(w)
      PROVE  executions' = executions \/ \E row \in Execution : Moved(j.id, row)
  <2> DEFINE row == [AbsentExecution EXCEPT !.status = "created", !.mode = j.mode]
  <2>1. row \in Execution /\ row.status = "created"
    <3>1. AbsentExecution \in Execution
      BY DEF AbsentExecution, Execution, Modes
    <3>2. QED
      BY <1>1, <3>1 DEF Execution, ExecutionStatuses
  <2>2. \/ executions' = executions
        \/ /\ executions[j.id].status = "absent"
           /\ executions' = [executions EXCEPT ![j.id] = row]
    BY <1>3 DEF CreateExecution, create_change_execution_once
  <2>3. approvals[j.id].status = "approved"
    BY <1>1, <1>3 DEF CreateExecution, JobFits, JobDuties
  <2> HIDE DEF row
  <2>4. QED
    BY <2>1, <2>2, <2>3, StartMoves
<1>4. ASSUME SaveExecution(w)
      PROVE  \E row \in Execution : Moved(j.id, row)
  <2> DEFINE row == [j.row EXCEPT !.pending = Projections]
  <2>1. row \in Execution /\ row.status = j.row.status
    BY <1>1 DEF Execution
  <2>2. /\ executions[j.id].status \in j.expected /\ j.pc = "save"
        /\ executions' = [executions EXCEPT ![j.id] = row]
    BY <1>4 DEF SaveExecution, save_change_execution_if_status, ExecutionMatches
  <2> HIDE DEF row
  <2>3. approvals[j.id].status = "approved"
    BY <2>2, RowInHand DEF HasRow
  <2>4. QED
    BY <1>1, <2>1, <2>2, <2>3 DEF JobFits, JobMoves
<1>5. ASSUME MarkExecution(w)
      PROVE  executions' = executions \/ \E row \in Execution : Moved(j.id, row)
  <2> DEFINE row == [j.row EXCEPT !.pending = j.failed]
  <2>1. row \in Execution /\ row.status = j.row.status
    BY <1>1 DEF Execution
  <2>2. /\ j.pc = "mark"
        /\ \/ executions' = executions
           \/ /\ executions[j.id].status = j.row.status
              /\ executions' = [executions EXCEPT ![j.id] = row]
    BY <1>5 DEF MarkExecution, save_change_execution_if_status, ExecutionMatches, Left
  <2> HIDE DEF row
  <2>3. approvals[j.id].status = "approved"
    BY <2>2, RowInHand DEF HasRow, Projecting
  <2>4. QED
    BY <2>1, <2>2, <2>3
<1>6. ASSUME \/ ChangeArrival(w) \/ Abandon(w)
             \/ LoadedForStart(w) \/ FindExecution(w) \/ RunPreChecks(w) \/ RunDryRun(w)
             \/ RunSandbox(w) \/ ManualCheck(w) \/ LoadedForManual(w) \/ SaveConflict(w)
             \/ ProjectIncidentState(w) \/ ProjectReportRead(w) \/ ProjectReportSave(w)
             \/ ProjectTrace(w)
      PROVE  executions' = executions /\ approvals' = approvals
  BY <1>6 DEF ChangeArrival, Abandon, StartAfterApproval, RecordManualResult, ReadExecution,
     LoadedForStart, FindExecution, RunPreChecks, RunDryRun, RunSandbox, ManualCheck,
     LoadedForManual, SaveConflict, ProjectIncidentState, ProjectReportRead,
     ProjectReportSave, ProjectTrace, storeVars
<1>7. ASSUME CreateExecution(w) \/ SaveExecution(w) \/ MarkExecution(w)
      PROVE  approvals' = approvals
  BY <1>7 DEF CreateExecution, SaveExecution, MarkExecution
<1> HIDE DEF Moved
<1>8. QED
  BY <1>1, <1>2, <1>3, <1>4, <1>5, <1>6, <1>7 DEF ChangeStep

\* A step of the approval rows is a step of the contract, or none.
LEMMA DecideRefined ==
    ASSUME ChangeInv, NEW a \in ApprovalIds, NEW row \in Approval,
           approvals' = [approvals EXCEPT ![a] = row], executions' = executions,
           <<approvals[a].status, row.status>> \in Contract!DecisionMoves
    PROVE  Contract!Next
<1> DEFINE approval == [b \in ApprovalIds |-> approvals[b].status]
           execution == [b \in ApprovalIds |-> executions[b].status]
<1>1. approvals \in [ApprovalIds -> Approval]
  BY StateFacts
<1>2. approval' = [approval EXCEPT ![a] = row.status] /\ execution' = execution
  BY <1>1
<1>3. row.status \in {"pending", "approved", "rejected", "cancelled"}
  BY DEF Contract!DecisionMoves
<1>4. <<approval[a], row.status>> \in Contract!DecisionMoves
  OBVIOUS
<1>5. Contract!Decide(a)
  BY <1>2, <1>3, <1>4 DEF Contract!Decide
<1>6. QED
  BY <1>5 DEF Contract!Next

\* A step of the execution rows is a step of the contract, or none.
LEMMA ExecuteRefined ==
    ASSUME ChangeInv, NEW a \in ApprovalIds, NEW row \in Execution,
           executions' = [executions EXCEPT ![a] = row], approvals' = approvals,
           <<executions[a].status, row.status>> \in Moves,
           approvals[a].status = "approved"
    PROVE  Contract!Next
<1> DEFINE approval == [b \in ApprovalIds |-> approvals[b].status]
           execution == [b \in ApprovalIds |-> executions[b].status]
<1>1. executions \in [ApprovalIds -> Execution]
  BY StateFacts
<1>2. execution' = [execution EXCEPT ![a] = row.status] /\ approval' = approval
  BY <1>1
<1>3. row.status \in Contract!ExecutionStatuses
  BY MovesForward DEF ExecutionStatuses, Contract!ExecutionStatuses
<1>4. /\ approval[a] = "approved"
      /\ <<execution[a], row.status>> \in Contract!AgentMoves \cup Contract!ReceiptMoves
  BY DEF Moves
<1>5. Contract!Execute(a)
  BY <1>2, <1>3, <1>4 DEF Contract!Execute
<1>6. QED
  BY <1>5 DEF Contract!Next

\* Every step of the two services is a step of the contract, or changes no status.
LEMMA ContractStep ==
    ASSUME ChangeInv, [SafeChangeNext]_allVars
    PROVE  [Contract!Next]_<<[a \in ApprovalIds |-> approvals[a].status],
                             [a \in ApprovalIds |-> executions[a].status]>>
<1> DEFINE approval == [b \in ApprovalIds |-> approvals[b].status]
           execution == [b \in ApprovalIds |-> executions[b].status]
           Goal == Contract!Next \/ (approval' = approval /\ execution' = execution)
<1>1. ASSUME \A a \in ApprovalIds : approvals'[a].status = approvals[a].status,
             \A a \in ApprovalIds : executions'[a].status = executions[a].status
      PROVE  Goal
  BY <1>1
<1>2. ASSUME NEW w \in Workers, ChangeArrival(w) \/ ChangeStep(w) \/ Abandon(w)
      PROVE  Goal
  <2>1. approvals' = approvals
    BY <1>2, ExecutionShape
  <2>2. CASE \A a \in ApprovalIds : executions'[a].status = executions[a].status
    BY <1>1, <2>1, <2>2
  <2>3. CASE \E a \in ApprovalIds, row \in Execution :
                /\ executions' = [executions EXCEPT ![a] = row]
                /\ <<executions[a].status, row.status>> \in Moves
                /\ approvals[a].status = "approved"
    BY <2>1, <2>3, ExecuteRefined
  <2>4. QED
    BY <1>2, <2>2, <2>3, ExecutionShape
<1>3. ASSUME NEW w \in Workers, ApprovalArrival(w) \/ ApprovalStep(w)
      PROVE  Goal
  <2>1. Arrival(w) \/ HandlerStep(w)
    BY <1>3 DEF ApprovalArrival, ApprovalStep
  <2>2. executions' = executions
    BY <2>1, ArrivalShape, HandlerShape
  <2>3. CASE \A a \in ApprovalIds : approvals'[a].status = approvals[a].status
    BY <1>1, <2>2, <2>3
  <2>4. CASE \E a \in ApprovalIds, row \in Approval :
                /\ approvals' = [approvals EXCEPT ![a] = row]
                /\ <<approvals[a].status, row.status>> \in Contract!DecisionMoves
    BY <2>2, <2>4, DecideRefined
  <2>5. QED
    BY <2>1, <2>3, <2>4, DecisionShape
<1>4. CASE (Tick /\ UNCHANGED changeVars) \/ UNCHANGED allVars
  BY <1>1, <1>4 DEF Tick, allVars
<1>5. Goal
  BY <1>2, <1>3, <1>4, [SafeChangeNext]_allVars DEF SafeChangeNext, ChangeNext
<1>6. QED
  BY <1>5

\* The two services implement the contract: approvals are decided once, and executions
\* move along the lifecycle only while their approval stands.
THEOREM ContractImplemented == ChangeSpec \/ SafeChangeSpec => ImplementsContract
<1>1. ChangeInit \/ SafeChangeInit => Contract!Init
  <2>1. ASSUME SafeChangeInit
        PROVE  Contract!Init
    BY <2>1 DEF SafeChangeInit, ApprovalInit, AbsentApproval, AbsentExecution, Contract!Init
  <2>2. ASSUME ChangeInit
        PROVE  Contract!Init
    BY <2>2 DEF ChangeInit, AbsentExecution, Contract!Init
  <2>3. QED
    BY <2>1, <2>2
<1>2. ChangeInv /\ [SafeChangeNext]_allVars =>
         [Contract!Next]_<<[a \in ApprovalIds |-> approvals[a].status],
                           [a \in ApprovalIds |-> executions[a].status]>>
  BY ContractStep
<1>3. [ChangeNext]_allVars => [SafeChangeNext]_allVars
  BY DEF SafeChangeNext
<1>4. QED
  BY <1>1, <1>2, <1>3, ChangeInvHolds, PTL
  DEF ChangeSpec, SafeChangeSpec, ImplementsContract, Contract!Spec
=============================================================================
