------------------------------ MODULE AgentLoop ------------------------------
(***************************************************************************)
(* The plan-execute-replan loop of one diagnosis run                       *)
(* (src/app/agent/aiops, graph built in aiops_service.py): the planner      *)
(* makes a queue of steps once, the executor takes a step or a batch from   *)
(* its head, the replanner decides how to go on, until there is a response. *)
(* What a language model or a tool answers is a choice; what the code makes *)
(* of the answer is not.                                                   *)
(***************************************************************************)
EXTENDS Naturals, Sequences, FiniteSets

CONSTANTS
    Steps,      \* what a step asks for: a tool with its arguments
    NameOf,     \* the name of that tool, which several steps may share
    ToolOf,     \* the kind of tool of a step, an element of Tools
    TextOf,     \* what the action patterns find in the step's text
    LevelOf,    \* the risk_level the plan gives it
    MaxPlan,    \* longest plan of the planner: at most MAX_PLAN_STEPS of the model's or the
                \* fallback's, and the steps of the runbooks put before them
    MaxSteps,   \* MAX_AGENT_EXECUTED_STEPS
    Fanout,     \* READ_ONLY_EVIDENCE_FANOUT_LIMIT
    MaxNew,     \* most steps one replanning adds (MAX_REPLAN_STEPS)
    Critics,    \* the values of aiops_replanner_llm_enabled that are explored
    MaxFaults   \* how often storing what a batch did, or a refusal, raises

Tools == {"query", "manual_analysis", "suggest_remediation", "action", "hard_forbidden"}
Texts == {"plain", "approval", "forbidden"}
Levels == {"low", "medium", "high"}

ASSUME AgentAssumption ==
    /\ ToolOf \in [Steps -> Tools]
    /\ \A s, t \in Steps : NameOf[s] = NameOf[t] => ToolOf[s] = ToolOf[t]
    /\ TextOf \in [Steps -> Texts]
    /\ LevelOf \in [Steps -> Levels]
    /\ MaxSteps \in Nat \ {0} /\ Fanout \in Nat \ {0}
    /\ MaxPlan \in Nat \ {0} /\ MaxNew \in Nat \ {0} /\ MaxFaults \in Nat
    /\ Critics \subseteq BOOLEAN

VARIABLES
    critic,      \* is the LLM critic of the replanner enabled
    node,        \* the node of the graph that runs next, or "end"
    plan,        \* current_plan: entries [step, retry]
    executed,    \* number of executed_steps
    postponed,   \* actions that past_steps reports as postponed
    times,       \* how often a step is in executed_steps
    calls,       \* how often a step's tool was really invoked
    invoked,     \* how many tools were really invoked
    good,        \* steps with usable evidence (_successful_tools)
    failed,      \* steps with a failed record whose id is not that of a retry
    retryFailed, \* steps with a failed record of a retry
    stale,       \* steps whose retry succeeded with unusable evidence
    response,    \* what the run answers: "none" until it ends
    risky,       \* the steps of the planner's plan that may not run by themselves
    dropped,     \* steps the gate refused whose refusal could not be stored
    faults

vars == << critic, node, plan, executed, postponed, times, calls, invoked, good, failed,
           retryFailed, stale, response, risky, dropped, faults >>
invocations == << calls, invoked >>
history == << risky, dropped >>
evidence == << good, failed, retryFailed, stale >>
-----------------------------------------------------------------------------
\* The risk controller.

resolve_read_only(s) == ToolOf[s] \in {"query", "manual_analysis", "suggest_remediation"}

matched_forbidden_rules(s) == ToolOf[s] = "hard_forbidden" \/ TextOf[s] = "forbidden"

\* A trusted read-only tool needs no approval whatever its text says, except
\* manual_analysis, whose text is all there is.
matched_approval_rules(s) ==
    \/ ~resolve_read_only(s)
    \/ ToolOf[s] = "manual_analysis" /\ (LevelOf[s] = "high" \/ TextOf[s] = "approval")

assess_plan_step(s) ==
    IF matched_forbidden_rules(s) THEN "forbidden"
    ELSE IF matched_approval_rules(s) THEN "approval_required" ELSE "allow"

Allowed == {s \in Steps : assess_plan_step(s) = "allow"}

\* The answer that refuses step s.
RiskStop(s) == IF assess_plan_step(s) = "forbidden" THEN "forbidden" ELSE "approval"

\* Mutant: the gate believes the plan's risk level.
extract_labelled_risk(queue) ==
    {i \in DOMAIN queue :
        /\ LevelOf[queue[i].step] # "low"
        /\ \A j \in 1..(i - 1) : LevelOf[queue[j].step] = "low"}

\* The first entry of the remaining plan that may not run by itself, if any.
extract_risk_decision(queue) ==
    {i \in DOMAIN queue :
        /\ queue[i].step \notin Allowed
        /\ \A j \in 1..(i - 1) : queue[j].step \in Allowed}

-----------------------------------------------------------------------------
\* Queues of steps.

Entry(s) == [step |-> s, retry |-> FALSE]

\* The risk_level of an entry: a retry says "low" whatever it repeats.
Level(e) == IF e.retry THEN "low" ELSE LevelOf[e.step]

Queued(queue) == {queue[i].step : i \in DOMAIN queue}

\* The entries of a queue at the positions I, in their order.
Picked(queue, I) ==
    LET place(i) == Cardinality({j \in I : j <= i})
    IN  [k \in 1..Cardinality(I) |-> queue[CHOOSE i \in I : place(i) = k]]

\* deduplicate_plan_steps: the first of the entries with one tool and arguments.
deduplicate_plan_steps(queue) ==
    LET first(i) == \A j \in 1..(i - 1) : queue[j].step # queue[i].step
    IN  Picked(queue, {i \in DOMAIN queue : first(i)})

\* What a replanning adds: what was executed is left out unless it is a retry.
novel_steps(new, duplicates) ==
    Picked(new, {i \in DOMAIN new : duplicates \/ times[new[i].step] = 0})

\* Mutant: replanned steps replace the rest of the queue.
steps_without_remaining_plan(new, duplicates) ==
    deduplicate_plan_steps(novel_steps(new, duplicates))

\* Mutant: a retry, too, leaves out what was executed.
steps_never_repeated(new, duplicates) ==
    deduplicate_plan_steps(novel_steps(new, FALSE) \o plan)

\* The replanned steps before the rest of the queue.
steps_with_remaining_plan(new, duplicates) ==
    deduplicate_plan_steps(novel_steps(new, duplicates) \o plan)

\* Sequences of distinct steps of S that a planner or a model may propose.
Proposals(S, n) ==
    {q \in UNION {[1..k -> S] : k \in 1..n} : \A i, j \in DOMAIN q : q[i] = q[j] => i = j}

\* Records of executed steps; before the first, of postponed ones (nothing is
\* postponed twice before a step was executed).
executed_step_count == IF executed > 0 THEN executed ELSE Cardinality(postponed)

-----------------------------------------------------------------------------
Init ==
    /\ critic \in Critics
    /\ node = "planner" /\ plan = <<>> /\ executed = 0 /\ postponed = {}
    /\ times = [s \in Steps |-> 0] /\ calls = [s \in Steps |-> 0] /\ invoked = 0
    /\ good = {} /\ failed = {} /\ retryFailed = {} /\ stale = {}
    /\ response = "none" /\ risky = {} /\ dropped = {} /\ faults = 0

\* The planner always comes back with a plan: the model's, or the fallback.
Planner ==
    /\ node = "planner"
    /\ \E q \in Proposals(Steps, MaxPlan) :
         /\ plan' = [i \in DOMAIN q |-> Entry(q[i])]
         /\ risky' = {q[i] : i \in DOMAIN q} \ Allowed
    /\ node' = "executor"
    /\ UNCHANGED << critic, executed, postponed, times, invocations, evidence, response, dropped,
                    faults >>

-----------------------------------------------------------------------------
\* The executor.

\* Mutant: a batch takes every query the plan calls low, without asking the risk controller.
fanout_step_unassessed(e) == ToolOf[e.step] = "query" /\ Level(e) = "low"

is_read_only_evidence_fanout_step(e) ==
    ToolOf[e.step] = "query" /\ Level(e) = "low" /\ e.step \in Allowed

\* Mutant: the batch is not cut to what is left of the budget.
BatchSize_any_budget ==
    LET ready(n) == \A i \in 1..n : is_read_only_evidence_fanout_step(plan[i])
    IN  CHOOSE n \in 1..Len(plan) :
          /\ n = 1 \/ (n <= Fanout /\ ready(n))
          /\ n = Len(plan) \/ n >= Fanout \/ ~ready(n + 1)

\* How many steps run together: a prefix of evidence steps, within the fan-out
\* limit and what is left of the budget, and at least the head of the queue.
BatchSize ==
    LET left == IF MaxSteps > executed_step_count THEN MaxSteps - executed_step_count ELSE 1
        limit == IF Fanout < left THEN Fanout ELSE left
        ready(n) == \A i \in 1..n : is_read_only_evidence_fanout_step(plan[i])
    IN  CHOOSE n \in 1..Len(plan) :
          /\ n = 1 \/ (n <= limit /\ ready(n))
          /\ n = Len(plan) \/ n >= limit \/ ~ready(n + 1)

Results == {"usable", "stale", "failed"}

\* What the records and the evidence of n results add.
Record(n, result) ==
    LET with(r, retry) ==
            {plan[i].step : i \in {j \in 1..n : result[j] = r /\ plan[j].retry = retry}}
    IN  /\ good' = good \union with("usable", TRUE) \union with("usable", FALSE)
        /\ failed' = failed \union with("failed", FALSE)
        /\ retryFailed' = retryFailed \union with("failed", TRUE)
        /\ stale' = stale \union with("stale", TRUE)

Invoke(n) ==
    /\ calls' = [s \in Steps |-> calls[s] + Cardinality({i \in 1..n : plan[i].step = s})]
    /\ invoked' = invoked + n

\* The head of the queue, or a batch of evidence steps, is executed.
ExecuteSteps ==
    /\ node = "executor" /\ plan[1].step \in Allowed
    /\ LET n == BatchSize
       IN  /\ \E result \in [1..n -> Results] : Record(n, result)
           /\ Invoke(n)
           /\ times' = [s \in Steps |-> times[s] + Cardinality({i \in 1..n : plan[i].step = s})]
           /\ executed' = executed + n
           /\ plan' = SubSeq(plan, n + 1, Len(plan))
    /\ node' = "replanner"
    /\ UNCHANGED << critic, postponed, response, history, faults >>

\* The except branch of the executor: something raised on the way to the head's result, so
\* the head alone counts as executed, failed, and leaves the queue; there is no response.
HeadFails ==
    /\ faults < MaxFaults
    /\ faults' = faults + 1
    /\ Record(1, <<"failed">>)
    /\ times' = [times EXCEPT ![plan[1].step] = @ + 1]
    /\ executed' = executed + 1
    /\ plan' = Tail(plan)
    /\ node' = "replanner"
    /\ UNCHANGED << critic, postponed, response, risky >>

\* Storing a trace record of the batch raises: the batch's results are lost.
ExecutionRaises ==
    /\ node = "executor" /\ plan[1].step \in Allowed
    /\ Invoke(BatchSize)
    /\ HeadFails
    /\ UNCHANGED dropped

\* The steps behind the head that a risky head is put behind: whatever the plan
\* calls low, advice excepted.
LowSteps(queue) ==
    Picked(queue, {i \in DOMAIN queue : /\ Level(queue[i]) = "low"
                                        /\ ToolOf[queue[i].step] # "suggest_remediation"})

PostponeRiskyStep ==
    /\ node = "executor" /\ assess_plan_step(plan[1].step) = "approval_required"
    /\ LowSteps(Tail(plan)) # <<>>
    /\ LET rest == Tail(plan)
           low == LowSteps(rest)
           others == Picked(rest, {i \in DOMAIN rest : rest[i].step \notin Queued(low)})
       IN  plan' = low \o others \o <<plan[1]>>
    /\ postponed' = postponed \union {plan[1].step}
    /\ node' = "replanner"
    /\ UNCHANGED << critic, executed, times, invocations, evidence, response, history, faults >>

\* The risk gate refuses the head: it is forbidden, or cannot be postponed.
GateRefuses ==
    /\ node = "executor" /\ plan[1].step \notin Allowed
    /\ \/ assess_plan_step(plan[1].step) = "forbidden"
       \/ LowSteps(Tail(plan)) = <<>>

\* The refusal: nothing is invoked, the step is skipped, the run has its response.
BlockRiskyStep ==
    /\ GateRefuses
    /\ response' = RiskStop(plan[1].step)
    /\ executed' = executed + 1
    /\ node' = "replanner"
    /\ UNCHANGED << critic, plan, postponed, times, invocations, evidence, history, faults >>

\* Storing the refusal, its trace record or the approval request, raises: the refused step
\* counts as one that failed, though nothing was invoked, and the run goes on without it.
GateRaises ==
    /\ GateRefuses
    /\ HeadFails
    /\ dropped' = dropped \union {plan[1].step}
    /\ UNCHANGED invocations

-----------------------------------------------------------------------------
\* The replanner. Each action ends with the conditional edge should_continue.

Respond(r) == response' = r /\ node' = "end" /\ UNCHANGED plan

GoOn(queue) ==
    /\ plan' = queue
    /\ node' = IF queue # <<>> THEN "executor" ELSE "end"
    /\ UNCHANGED response

\* A response, unless the remaining plan holds an action that may not run by itself.
risk_gate(otherwise) ==
    IF extract_risk_decision(plan) = {} THEN otherwise
    ELSE \E i \in extract_risk_decision(plan) : Respond(RiskStop(plan[i].step))

\* The names of the tools that steps of S ask for; failures and successes are compared by
\* name, not by arguments.
Names(S) == {NameOf[s] : s \in S}

\* Mutant: a failed retry is retried.
build_retry_steps_again ==
    {s \in failed : NameOf[s] \notin Names(good) /\ ToolOf[s] # "manual_analysis"}

build_retry_steps ==
    {s \in failed : /\ NameOf[s] \notin Names(good \union retryFailed)
                    /\ ToolOf[s] # "manual_analysis"}

\* What analyze_evidence may conclude: a failed tool is retried first; a report is
\* sufficient only with evidence, and may be written without (conflicts, exhausted retries,
\* low confidence); new steps need an empty queue.
analyze_evidence ==
    LET concludes(d, new, b) == [decision |-> d, new |-> new, sufficient |-> b]
        missing == {s \in Allowed : ToolOf[s] = "query" /\ NameOf[s] \notin Names(good)}
        report == {concludes("generate_report", <<>>, b) : b \in {b \in BOOLEAN : b => good # {}}}
    IN  IF build_retry_steps # {}
        THEN {concludes("retry_failed_tool", <<[step |-> s, retry |-> TRUE]>>, FALSE) :
                s \in build_retry_steps}
        ELSE IF plan # <<>>
        THEN {concludes("continue_investigation", <<>>, FALSE)} \union report
        ELSE {concludes("escalate_to_human", <<>>, FALSE)} \union report
               \union {concludes("add_steps", [i \in DOMAIN q |-> Entry(q[i])], FALSE) :
                         q \in Proposals(missing, MaxNew)}

\* The answers of the critic that normalize_llm_replan_decision lets pass.
normalize_llm_replan_decision(analysis) ==
    LET safe == Proposals(Allowed, MaxNew)
        answer(d, q, retry) ==
            [decision |-> d, new |-> [i \in DOMAIN q |-> [step |-> q[i], retry |-> retry]],
             sufficient |-> analysis.sufficient]
        sound == {"request_approval", "escalate_to_human"}
                   \union (IF analysis.sufficient THEN {"generate_report"} ELSE {})
                   \union (IF plan # <<>> THEN {"continue_investigation"} ELSE {})
        extending == {"add_steps"} \union (IF failed # {} THEN {"retry_failed_tool"} ELSE {})
    IN  {answer(d, <<>>, FALSE) : d \in sound}
          \union {answer(d, q, retry) : d \in extending, q \in safe, retry \in BOOLEAN}

\* The critic is asked unless the analysis retries; when it fails or is refused the
\* analysis stands.
decide_with_llm_or_analysis(analysis) ==
    {analysis} \union
    (IF critic /\ analysis.decision # "retry_failed_tool"
     THEN normalize_llm_replan_decision(analysis) ELSE {})

ReplannerKeeps ==
    UNCHANGED << critic, executed, postponed, times, invocations, evidence, history, faults >>

\* A response of the executor stands; the report is attached to it.
KeepResponse ==
    /\ node = "replanner" /\ response # "none"
    /\ node' = "end"
    /\ UNCHANGED << plan, response >> /\ ReplannerKeeps

StopAtLimit ==
    /\ node = "replanner" /\ response = "none" /\ executed_step_count >= MaxSteps
    /\ risk_gate(Respond("report"))
    /\ ReplannerKeeps

\* The replanner takes decision d below the limit.
Deciding(d) ==
    /\ node = "replanner" /\ response = "none" /\ executed_step_count < MaxSteps
    /\ ReplannerKeeps
    /\ CASE d.decision = "generate_report" -> risk_gate(Respond("report"))
         [] d.decision = "retry_failed_tool" -> GoOn(steps_with_remaining_plan(d.new, TRUE))
         [] d.decision = "add_steps" ->
              LET queue == steps_with_remaining_plan(d.new, FALSE)
              IN  IF queue = <<>> THEN Respond("escalated") ELSE GoOn(queue)
         [] d.decision = "escalate_to_human" -> Respond("escalated")
         [] d.decision = "request_approval" -> risk_gate(Respond("approval"))
         [] d.decision = "continue_investigation" -> risk_gate(GoOn(plan))

Replan ==
    \E analysis \in analyze_evidence :
        \E d \in decide_with_llm_or_analysis(analysis) : Deciding(d)

Ended == node = "end" /\ UNCHANGED vars

Next ==
    \/ Planner
    \/ ExecuteSteps \/ ExecutionRaises \/ PostponeRiskyStep
    \/ BlockRiskyStep \/ GateRaises
    \/ KeepResponse \/ StopAtLimit \/ Replan
    \/ Ended

AgentSpec == Init /\ [][Next]_vars /\ WF_vars(Next)

-----------------------------------------------------------------------------
Entries == [step : Steps, retry : BOOLEAN]
Nodes == {"planner", "executor", "replanner", "end"}
Responses == {"none", "report", "escalated", "approval", "forbidden"}

\* Every value is of its type; the executor always has a step to take; a run that ends
\* has something to say, because the conditional edge never finds an empty queue and no
\* response; evidence, and every failure but that of a refused step, is of a step whose tool
\* was really invoked, as often as it counts (planner.py, executor.py, replanner.py).
AgentTypeOK ==
    /\ critic \in BOOLEAN /\ faults \in 0..MaxFaults
    /\ risky \subseteq Steps /\ dropped \subseteq Steps
    /\ node \in Nodes /\ response \in Responses
    /\ plan \in Seq(Entries) /\ (node = "executor" => plan # <<>>)
    /\ node = "end" => response # "none"
    /\ postponed \subseteq Steps
    /\ executed \in Nat /\ invoked \in Nat
    /\ times \in [Steps -> Nat] /\ calls \in [Steps -> Nat]
    /\ \A s \in good \union stale \union ((failed \union retryFailed) \ dropped) :
          calls[s] >= times[s] /\ times[s] > 0

\* However the plan is replanned, retried or run in batches, a run counts at most
\* MaxSteps steps; and it invokes tools at most that often, plus, for every batch
\* whose records could not be stored, the steps that batch will repeat.
BudgetKept ==
    /\ executed <= MaxSteps
    /\ invoked <= MaxSteps + faults * (Fanout - 1)

\* Nothing that changes the system, and nothing whose text asks for such a change,
\* is ever invoked by the loop: not behind an allowed head in a batch, not because
\* a model proposed it, not after a postponement.
NothingRiskyRuns ==
    \A s \in Steps : calls[s] > 0 =>
        /\ ToolOf[s] \in {"query", "manual_analysis", "suggest_remediation"}
        /\ TextOf[s] # "forbidden"
        /\ ToolOf[s] = "manual_analysis" => (TextOf[s] = "plain" /\ LevelOf[s] # "high")

\* A run whose plan held steps that may not run by themselves never ends in a plain report:
\* retries, added steps, batches and lost results do not make such a step disappear before
\* the risk gate has spoken.  The one exception: steps the gate did refuse while it could not
\* store the refusal, which the executor takes for failed tools (executor.py:227-254); with
\* no fault there are none.
RiskNeverSkipped == response = "report" => risky \subseteq dropped

\* Without the LLM critic a step runs twice at most, once planned and once as the
\* retry, unless the retry returned data that cannot be used.
RetriedOnce == ~critic => \A s \in Steps \ stale : times[s] <= 2

\* Without the LLM critic every run ends: postponing, retrying and adding steps
\* never go round for ever.
RunEnds == ~critic ~> node = "end"

=============================================================================
