----------------------------- MODULE AgentProofs -----------------------------
(***************************************************************************)
(* Proofs of the safety properties of the plan-execute-replan loop, for    *)
(* every set of steps, every classification of them, every limit and every *)
(* answer of a model or a tool.                                            *)
(***************************************************************************)
EXTENDS AgentLoop, FiniteSetTheorems, SequenceTheorems, TLAPS

-----------------------------------------------------------------------------
(* The inductive invariant *)

TypesFit ==
    /\ critic \in BOOLEAN /\ risky \subseteq Steps /\ dropped \subseteq Steps
    /\ faults \in 0..MaxFaults
    /\ node \in Nodes /\ response \in Responses
    /\ plan \in Seq(Entries)
    /\ postponed \subseteq Steps /\ IsFiniteSet(postponed)
    /\ executed \in Nat /\ invoked \in Nat
    /\ times \in [Steps -> Nat] /\ calls \in [Steps -> Nat]

\* The graph: the executor has a step to take and no answer yet; the end has an answer.
GraphFits ==
    /\ node = "executor" => plan # <<>>
    /\ node \in {"planner", "executor"} => response = "none"
    /\ node = "end" => response # "none"
    /\ node = "planner" => executed = 0 /\ \A s \in Steps : times[s] = 0

\* The tool of a step that may run was called as often as the step counts, evidence is of such
\* steps, failures are of such steps or of refused ones; and the budget was left for all.
CountsFit ==
    /\ \A s \in Allowed : times[s] <= calls[s]
    /\ \A s \in good \union stale : s \in Allowed /\ times[s] > 0
    /\ \A s \in failed \union retryFailed : s \in Allowed \union dropped /\ times[s] > 0
    /\ executed <= MaxSteps /\ (node = "executor" => executed < MaxSteps)
    /\ invoked <= executed + faults * (Fanout - 1)

OnlyAllowedRuns == \A s \in Steps : calls[s] > 0 => s \in Allowed

\* A risky step of the plan is still queued, until the run has an answer, unless its refusal
\* could not be stored.
RiskFits ==
    /\ risky \cap Allowed = {}
    /\ response = "report" => risky \subseteq dropped
    /\ response = "none" => risky \ dropped \subseteq Queued(plan)

\* No two entries of a queue ask for one step.
Distinct(q) == \A i, j \in DOMAIN q : q[i].step = q[j].step => i = j

\* Entry e waits: planned or added before its step ran, or a retry of a step that ran once.
Waits(e, count, unusable) ==
    \/ e.step \in unusable
    \/ count[e.step] <= IF e.retry THEN 1 ELSE 0

\* A step that ran twice has its evidence, or the failure of its retry.
RanTwice(s, count, unusable, settled) ==
    s \in unusable \/ count[s] <= 1 \/ (count[s] = 2 /\ s \in settled)

RetriesFit ==
    ~critic => /\ Distinct(plan)
               /\ \A i \in DOMAIN plan : Waits(plan[i], times, stale)
               /\ \A s \in Steps : RanTwice(s, times, stale, good \union retryFailed)

AgentInv ==
    TypesFit /\ GraphFits /\ CountsFit /\ OnlyAllowedRuns /\ RiskFits /\ RetriesFit

-----------------------------------------------------------------------------
(* Least numbers, and the entries picked from a queue *)

\* The least-number principle, for a set: its segments 0..n are well-founded by inclusion.
LEMMA Least ==
    ASSUME NEW M \in SUBSET Nat, M # {}
    PROVE  \E n \in M : \A m \in M : n <= m
<1> DEFINE T == {0..n : n \in M}
           R == StrictSubsetOrdering(Nat)
<1>1. IsWellFoundedOn(R, FiniteSubsetsOf(Nat))
  BY FS_StrictSubsetOrderingWellFounded
<1>2. T \subseteq FiniteSubsetsOf(Nat) /\ T # {}
  <2>1. \A n \in M : 0..n \in SUBSET Nat /\ IsFiniteSet(0..n)
    BY FS_Interval
  <2>2. QED
    BY <2>1 DEF FiniteSubsetsOf
<1>3. PICK x \in T : \A y \in T : <<y, x>> \notin R
  BY <1>1, <1>2, WFMin
<1>4. PICK n \in M : x = 0..n
  OBVIOUS
<1>5. ASSUME NEW m \in M, m < n PROVE FALSE
  <2>1. 0..m \in T /\ 0..m \subseteq 0..n /\ n \in 0..n /\ n \notin 0..m
    BY <1>5
  <2>2. <<0..m, 0..n>> \in R
    BY <2>1 DEF StrictSubsetOrdering
  <2>3. QED
    BY <1>3, <1>4, <2>1, <2>2
<1>6. QED
  BY <1>5

LEMMA PositionsFinite ==
    ASSUME NEW S, NEW queue \in Seq(S), NEW I \in SUBSET (DOMAIN queue)
    PROVE  I \subseteq Nat /\ IsFiniteSet(I) /\ Cardinality(I) \in Nat
<1>1. DOMAIN queue = 1..Len(queue) /\ Len(queue) \in Nat
  OBVIOUS
<1>2. IsFiniteSet(1..Len(queue))
  BY <1>1, FS_Interval
<1>3. IsFiniteSet(I)
  BY <1>1, <1>2, FS_Subset
<1>4. QED
  BY <1>1, <1>3, FS_CardinalityType

\* Picking the positions I of a queue takes each of them once.
LEMMA PickedShape ==
    ASSUME NEW S, NEW queue \in Seq(S), NEW I \in SUBSET (DOMAIN queue)
    PROVE  \E idx \in [1..Cardinality(I) -> I] :
              /\ Picked(queue, I) = [k \in 1..Cardinality(I) |-> queue[idx[k]]]
              /\ \A k, l \in 1..Cardinality(I) : idx[k] = idx[l] => k = l
              /\ \A i \in I : \E k \in 1..Cardinality(I) : idx[k] = i
<1> DEFINE upto(i) == {j \in I : j <= i}
           n == Cardinality(I)
           place == [i \in I |-> Cardinality(upto(i))]
           idx == [k \in 1..n |-> CHOOSE i \in I : Cardinality(upto(i)) = k]
<1>1. I \subseteq Nat
  BY PositionsFinite
<1>2. IsFiniteSet(I) /\ n \in Nat
  BY PositionsFinite
<1>3. ASSUME NEW i \in I PROVE /\ IsFiniteSet(upto(i)) /\ Cardinality(upto(i)) \in 1..n
  <2>1. upto(i) \in SUBSET I /\ i \in upto(i)
    BY <1>1
  <2>2. IsFiniteSet(upto(i)) /\ Cardinality(upto(i)) <= n
    BY <1>2, <2>1, FS_Subset
  <2>3. Cardinality(upto(i)) \in Nat /\ Cardinality(upto(i)) # 0
    BY <2>1, <2>2, FS_CardinalityType, FS_EmptySet
  <2>4. QED
    BY <1>2, <2>2, <2>3
<1>4. ASSUME NEW i \in I, NEW j \in I, i < j PROVE Cardinality(upto(i)) # Cardinality(upto(j))
  <2>1. upto(i) \in SUBSET upto(j) /\ j \in upto(j) /\ j \notin upto(i)
    BY <1>1, <1>4
  <2>2. IsFiniteSet(upto(j))
    BY <1>3
  <2>3. QED
    BY <2>1, <2>2, FS_Subset
<1>5. ASSUME NEW i \in I, NEW j \in I, Cardinality(upto(i)) = Cardinality(upto(j)) PROVE i = j
  <2>1. i < j \/ j < i \/ i = j
    BY <1>1
  <2>2. QED
    BY <1>4, <1>5, <2>1
<1>6. place \in Injection(I, 1..n)
  BY <1>3, <1>5 DEF Injection, IsInjective
<1>7. IsFiniteSet(1..n) /\ Cardinality(1..n) = n
  BY <1>2, FS_Interval
<1>8. place \in Surjection(I, 1..n)
  BY <1>6, <1>7, FS_Injection
<1>9. ASSUME NEW k \in 1..n PROVE \E i \in I : Cardinality(upto(i)) = k
  BY <1>8 DEF Surjection
<1>10. \A k \in 1..n : idx[k] \in I /\ Cardinality(upto(idx[k])) = k
  BY <1>9
<1>11. idx \in [1..n -> I]
  BY <1>10
<1>12. Picked(queue, I) = [k \in 1..n |-> queue[idx[k]]]
  BY DEF Picked
<1> HIDE DEF idx
<1>13. \A k, l \in 1..n : idx[k] = idx[l] => k = l
  BY <1>10
<1>14. \A i \in I : \E k \in 1..n : idx[k] = i
  BY <1>3, <1>5, <1>10
<1>15. QED
  BY <1>11, <1>12, <1>13, <1>14

LEMMA PickedEntries ==
    ASSUME NEW S, NEW queue \in Seq(S), NEW I \in SUBSET (DOMAIN queue)
    PROVE  /\ Picked(queue, I) \in Seq(S)
           /\ \A k \in DOMAIN Picked(queue, I) : \E i \in I : Picked(queue, I)[k] = queue[i]
           /\ \A i \in I : \E k \in DOMAIN Picked(queue, I) : Picked(queue, I)[k] = queue[i]
           /\ (\A i, j \in I : queue[i].step = queue[j].step => i = j)
                 => Distinct(Picked(queue, I))
<1> DEFINE n == Cardinality(I)
<1>1. PICK idx \in [1..n -> I] :
         /\ Picked(queue, I) = [k \in 1..n |-> queue[idx[k]]]
         /\ \A k, l \in 1..n : idx[k] = idx[l] => k = l
         /\ \A i \in I : \E k \in 1..n : idx[k] = i
  BY PickedShape
<1>2. n \in Nat
  BY PositionsFinite
<1> HIDE DEF n
<1>3. \A k \in 1..n : idx[k] \in I /\ queue[idx[k]] \in S
  OBVIOUS
<1>4. Picked(queue, I) \in Seq(S) /\ DOMAIN Picked(queue, I) = 1..n
  BY <1>1, <1>2, <1>3
<1>5. QED
  BY <1>1, <1>3, <1>4 DEF Distinct

\* The first entry of a queue of which something holds.
LEMMA FirstPosition ==
    ASSUME NEW S, NEW queue \in Seq(S), NEW J \in SUBSET (DOMAIN queue), J # {}
    PROVE  \E i \in J : \A j \in 1..(i - 1) : j \notin J
<1>1. J \subseteq Nat
  BY PositionsFinite
<1>2. PICK i \in J : \A j \in J : i <= j
  BY <1>1, Least
<1>3. QED
  BY <1>1, <1>2

\* The queues of the run ask for the same steps without duplicates.
LEMMA Deduplicated ==
    ASSUME NEW q \in Seq(Entries)
    PROVE  /\ deduplicate_plan_steps(q) \in Seq(Entries)
           /\ Queued(deduplicate_plan_steps(q)) = Queued(q)
           /\ Distinct(deduplicate_plan_steps(q))
           /\ \A k \in DOMAIN deduplicate_plan_steps(q) :
                 \E i \in DOMAIN q : deduplicate_plan_steps(q)[k] = q[i]
<1> DEFINE first(i) == \A j \in 1..(i - 1) : q[j].step # q[i].step
           I == {i \in DOMAIN q : first(i)}
           d == Picked(q, I)
<1>1. deduplicate_plan_steps(q) = d
  BY DEF deduplicate_plan_steps
<1>2. I \in SUBSET (DOMAIN q) /\ DOMAIN q = 1..Len(q) /\ Len(q) \in Nat
  OBVIOUS
<1>3. ASSUME NEW i \in I, NEW j \in I, q[i].step = q[j].step PROVE i = j
  <2>1. i \in Nat /\ j \in Nat /\ 1 <= i /\ 1 <= j /\ first(i) /\ first(j)
    BY <1>2
  <2>2. ~(i < j) /\ ~(j < i)
    BY <1>3, <2>1
  <2>3. QED
    BY <2>1, <2>2
<1>4. ASSUME NEW i \in DOMAIN q PROVE \E j \in I : q[j].step = q[i].step
  <2> DEFINE J == {j \in DOMAIN q : q[j].step = q[i].step}
  <2>1. J \in SUBSET (DOMAIN q) /\ i \in J
    OBVIOUS
  <2>2. PICK j \in J : \A k \in 1..(j - 1) : k \notin J
    BY <2>1, FirstPosition
  <2>3. first(j)
    <3>1. SUFFICES ASSUME NEW k \in 1..(j - 1) PROVE q[k].step # q[j].step
      OBVIOUS
    <3>2. k \in DOMAIN q
      BY <1>2
    <3>3. QED
      BY <2>2, <3>2
  <2>4. QED
    BY <2>2, <2>3
<1> HIDE DEF I
<1>5. /\ d \in Seq(Entries) /\ Distinct(d)
      /\ \A k \in DOMAIN d : \E i \in I : d[k] = q[i]
      /\ \A i \in I : \E k \in DOMAIN d : d[k] = q[i]
  <2>1. \A i, j \in I : q[i].step = q[j].step => i = j
    BY <1>3
  <2>2. QED
    BY <1>2, <2>1, PickedEntries
<1> HIDE DEF d
<1>6. Queued(d) = Queued(q)
  <2>1. ASSUME NEW k \in DOMAIN d PROVE d[k].step \in Queued(q)
    <3>1. PICK i \in I : d[k] = q[i]
      BY <1>5
    <3>2. QED
      BY <1>2, <3>1 DEF Queued
  <2>2. ASSUME NEW i \in DOMAIN q PROVE q[i].step \in Queued(d)
    <3>1. PICK j \in I : q[j].step = q[i].step
      BY <1>4
    <3>2. PICK k \in DOMAIN d : d[k] = q[j]
      BY <1>5
    <3>3. QED
      BY <3>1, <3>2 DEF Queued
  <2>3. QED
    BY <2>1, <2>2 DEF Queued
<1>7. QED
  BY <1>1, <1>2, <1>5, <1>6

\* What is queued, entry by entry, in a concatenation.
LEMMA Concatenated ==
    ASSUME NEW q \in Seq(Entries), NEW r \in Seq(Entries)
    PROVE  /\ q \o r \in Seq(Entries)
           /\ \A i \in DOMAIN (q \o r) :
                 \/ i \in DOMAIN q /\ (q \o r)[i] = q[i]
                 \/ i - Len(q) \in DOMAIN r /\ (q \o r)[i] = r[i - Len(q)]
           /\ \A i \in DOMAIN q : i \in DOMAIN (q \o r) /\ (q \o r)[i] = q[i]
           /\ \A i \in DOMAIN r : /\ i + Len(q) \in DOMAIN (q \o r)
                                  /\ (q \o r)[i + Len(q)] = r[i]
<1>1. /\ q \o r \in Seq(Entries) /\ Len(q \o r) = Len(q) + Len(r)
      /\ \A i \in 1..(Len(q) + Len(r)) :
            (q \o r)[i] = IF i <= Len(q) THEN q[i] ELSE r[i - Len(q)]
  BY ConcatProperties
<1>2. /\ DOMAIN q = 1..Len(q) /\ DOMAIN r = 1..Len(r) /\ Len(q) \in Nat /\ Len(r) \in Nat
      /\ DOMAIN (q \o r) = 1..(Len(q) + Len(r))
  BY <1>1
<1>3. ASSUME NEW i \in DOMAIN (q \o r)
      PROVE  \/ i \in DOMAIN q /\ (q \o r)[i] = q[i]
             \/ i - Len(q) \in DOMAIN r /\ (q \o r)[i] = r[i - Len(q)]
  <2>1. CASE i <= Len(q)
    BY <1>1, <1>2, <2>1
  <2>2. CASE ~(i <= Len(q))
    <3>1. i - Len(q) \in DOMAIN r
      BY <1>2, <2>2
    <3>2. QED
      BY <1>1, <1>2, <2>2, <3>1
  <2>3. QED
    BY <2>1, <2>2
<1>4. ASSUME NEW i \in DOMAIN q PROVE i \in DOMAIN (q \o r) /\ (q \o r)[i] = q[i]
  BY <1>1, <1>2
<1>5. ASSUME NEW i \in DOMAIN r
      PROVE  i + Len(q) \in DOMAIN (q \o r) /\ (q \o r)[i + Len(q)] = r[i]
  <2>1. /\ i + Len(q) \in 1..(Len(q) + Len(r)) /\ ~(i + Len(q) <= Len(q))
        /\ (i + Len(q)) - Len(q) = i
    BY <1>2
  <2>2. QED
    BY <1>1, <1>2, <2>1
<1>6. QED
  BY <1>1, <1>3, <1>4, <1>5

\* The queue after a replanning: nothing that waited is lost, and nothing else is added.
LEMMA Replanned ==
    ASSUME TypesFit, NEW new \in Seq(Entries), NEW duplicates \in BOOLEAN
    PROVE  /\ steps_with_remaining_plan(new, duplicates) \in Seq(Entries)
           /\ Distinct(steps_with_remaining_plan(new, duplicates))
           /\ Queued(plan) \subseteq Queued(steps_with_remaining_plan(new, duplicates))
           /\ duplicates => Queued(new) \subseteq Queued(steps_with_remaining_plan(new, duplicates))
           /\ \A k \in DOMAIN steps_with_remaining_plan(new, duplicates) :
                 \/ \E i \in DOMAIN plan :
                       steps_with_remaining_plan(new, duplicates)[k] = plan[i]
                 \/ \E i \in DOMAIN new :
                       /\ steps_with_remaining_plan(new, duplicates)[k] = new[i]
                       /\ duplicates \/ times[new[i].step] = 0
<1> DEFINE I == {i \in DOMAIN new : duplicates \/ times[new[i].step] = 0}
           novel == Picked(new, I)
           queue == deduplicate_plan_steps(novel \o plan)
<1>1. steps_with_remaining_plan(new, duplicates) = queue
  BY DEF steps_with_remaining_plan, novel_steps
<1>2. plan \in Seq(Entries)
  BY DEF TypesFit
<1>0. /\ I \in SUBSET (DOMAIN new) /\ (duplicates => I = DOMAIN new)
      /\ \A i \in I : duplicates \/ times[new[i].step] = 0
  OBVIOUS
<1> HIDE DEF I
<1>3. /\ novel \in Seq(Entries)
      /\ \A k \in DOMAIN novel : \E i \in I : novel[k] = new[i]
      /\ \A i \in I : \E k \in DOMAIN novel : novel[k] = new[i]
  BY <1>0, PickedEntries
<1> HIDE DEF novel
<1>4. novel \o plan \in Seq(Entries)
  BY <1>2, <1>3, Concatenated
<1>5. /\ queue \in Seq(Entries) /\ Distinct(queue) /\ Queued(queue) = Queued(novel \o plan)
      /\ \A k \in DOMAIN queue : \E i \in DOMAIN (novel \o plan) : queue[k] = (novel \o plan)[i]
  BY <1>4, Deduplicated
<1> HIDE DEF queue
<1>6. Queued(plan) \subseteq Queued(queue) /\ Queued(novel) \subseteq Queued(queue)
  <2>1. ASSUME NEW i \in DOMAIN plan PROVE plan[i].step \in Queued(novel \o plan)
    <3>1. /\ i + Len(novel) \in DOMAIN (novel \o plan)
          /\ (novel \o plan)[i + Len(novel)] = plan[i]
      BY <1>2, <1>3, Concatenated
    <3>2. QED
      BY <3>1 DEF Queued
  <2>2. ASSUME NEW i \in DOMAIN novel PROVE novel[i].step \in Queued(novel \o plan)
    BY <1>2, <1>3, Concatenated DEF Queued
  <2>3. QED
    BY <1>5, <2>1, <2>2 DEF Queued
<1>7. duplicates => Queued(new) \subseteq Queued(novel)
  BY <1>0, <1>3 DEF Queued
<1>8. ASSUME NEW k \in DOMAIN queue
      PROVE  \/ \E i \in DOMAIN plan : queue[k] = plan[i]
             \/ \E i \in DOMAIN new : queue[k] = new[i] /\ (duplicates \/ times[new[i].step] = 0)
  <2>1. PICK i \in DOMAIN (novel \o plan) : queue[k] = (novel \o plan)[i]
    BY <1>5
  <2>2. CASE i \in DOMAIN novel /\ (novel \o plan)[i] = novel[i]
    BY <1>0, <1>3, <2>1, <2>2
  <2>3. CASE i - Len(novel) \in DOMAIN plan /\ (novel \o plan)[i] = plan[i - Len(novel)]
    BY <2>1, <2>3
  <2>4. QED
    BY <1>2, <1>3, <2>2, <2>3, Concatenated
<1>9. QED
  BY <1>1, <1>5, <1>6, <1>7, <1>8

-----------------------------------------------------------------------------
(* The risk gate, the batch, and what an execution adds *)

LEMMA ConstantTypes ==
    /\ ToolOf \in [Steps -> Tools] /\ TextOf \in [Steps -> Texts] /\ LevelOf \in [Steps -> Levels]
    /\ MaxSteps \in Nat /\ MaxSteps > 0 /\ Fanout \in Nat /\ Fanout > 0 /\ MaxFaults \in Nat
    /\ Critics \subseteq BOOLEAN
BY AgentAssumption

\* The gate lets pass only a plan without a risky action.
LEMMA GateFits ==
    ASSUME TypesFit
    PROVE  /\ extract_risk_decision(plan) = {} => Queued(plan) \subseteq Allowed
           /\ \A i \in extract_risk_decision(plan) : i \in DOMAIN plan /\ plan[i].step \notin Allowed
<1> DEFINE J == {i \in DOMAIN plan : plan[i].step \notin Allowed}
<1>1. plan \in Seq(Entries) /\ DOMAIN plan = 1..Len(plan) /\ Len(plan) \in Nat
  BY DEF TypesFit
<1>2. ASSUME J # {} PROVE extract_risk_decision(plan) # {}
  <2>1. PICK i \in J : \A j \in 1..(i - 1) : j \notin J
    BY <1>1, <1>2, FirstPosition
  <2>2. \A j \in 1..(i - 1) : j \in DOMAIN plan
    BY <1>1
  <2>3. i \in extract_risk_decision(plan)
    BY <2>1, <2>2 DEF extract_risk_decision
  <2>4. QED
    BY <2>3
<1>3. J = {} => Queued(plan) \subseteq Allowed
  BY DEF Queued
<1>4. QED
  BY <1>2, <1>3 DEF extract_risk_decision

LEMMA CountShape ==
    ASSUME TypesFit
    PROVE  /\ executed_step_count \in Nat /\ executed <= executed_step_count
           /\ executed > 0 => executed_step_count = executed
BY FS_CardinalityType DEF TypesFit, executed_step_count

\* A batch is the head of the queue alone, or evidence steps only; it fits the fan-out and,
\* while there is a budget, what is left of it.
LEMMA BatchFits ==
    ASSUME TypesFit, plan # <<>>
    PROVE  /\ BatchSize \in 1..Len(plan) /\ BatchSize <= Fanout
           /\ executed < MaxSteps => executed + BatchSize <= MaxSteps
           /\ \A i \in 1..BatchSize : i = 1 \/ plan[i].step \in Allowed
<1> DEFINE left == IF MaxSteps > executed_step_count THEN MaxSteps - executed_step_count ELSE 1
           limit == IF Fanout < left THEN Fanout ELSE left
           ready(n) == \A i \in 1..n : is_read_only_evidence_fanout_step(plan[i])
           full(n) == n = Len(plan) \/ n >= limit \/ ~ready(n + 1)
           fits(n) == (n = 1 \/ (n <= limit /\ ready(n))) /\ full(n)
           M == {n \in 1..Len(plan) : full(n)}
<1>1. plan \in Seq(Entries) /\ Len(plan) \in Nat /\ Len(plan) >= 1
  BY DEF TypesFit
<1>2. /\ left \in Nat /\ limit \in Nat /\ limit >= 1 /\ limit <= Fanout
      /\ executed < MaxSteps => executed + limit <= MaxSteps
  <2>1. /\ executed_step_count \in Nat /\ executed \in Nat /\ executed <= executed_step_count
    BY CountShape DEF TypesFit
  <2>2. left \in Nat /\ left >= 1
    BY <2>1, ConstantTypes
  <2>3. executed < MaxSteps => executed + left <= MaxSteps
    BY <2>1, ConstantTypes
  <2> HIDE DEF left
  <2>4. QED
    BY <2>1, <2>2, <2>3, ConstantTypes
<1> HIDE DEF left, limit, ready
<1>3. Len(plan) \in M /\ M \in SUBSET Nat
  BY <1>1
<1>4. PICK n \in M : \A m \in M : n <= m
  BY <1>3, Least
<1>5. n \in 1..Len(plan) /\ fits(n)
  <2>1. CASE n = 1
    BY <1>4, <2>1
  <2>2. CASE n # 1
    <3>1. n - 1 \in 1..Len(plan) /\ n - 1 < n
      BY <1>1, <1>4, <2>2
    <3>2. ~full(n - 1)
      <4>1. full(n - 1) => n - 1 \in M
        BY <3>1
      <4> HIDE DEF full
      <4>2. QED
        BY <1>3, <1>4, <3>1, <4>1
    <3>3. n - 1 < limit /\ ready(n)
      BY <1>1, <1>2, <1>4, <3>1, <3>2
    <3>4. QED
      BY <1>1, <1>2, <1>4, <3>3
  <2>3. QED
    BY <2>1, <2>2
<1>6. BatchSize = CHOOSE m \in 1..Len(plan) : fits(m)
  BY DEF BatchSize, left, limit, ready
<1>7. BatchSize \in 1..Len(plan) /\ fits(BatchSize)
  BY <1>5, <1>6
<1>8. BatchSize = 1 \/ (BatchSize <= limit /\ ready(BatchSize))
  BY <1>7
<1>9. BatchSize <= Fanout /\ (executed < MaxSteps => executed + BatchSize <= MaxSteps)
  <2>1. executed \in Nat /\ BatchSize \in Nat
    BY <1>1, <1>7 DEF TypesFit
  <2>2. QED
    BY <1>2, <1>8, <2>1, ConstantTypes
<1>10. \A i \in 1..BatchSize : i = 1 \/ plan[i].step \in Allowed
  BY <1>8 DEF ready, is_read_only_evidence_fanout_step
<1>11. QED
  BY <1>7, <1>9, <1>10

\* How often step s is among the first n of the queue.
Ran(n, s) == Cardinality({i \in 1..n : plan[i].step = s})

LEMMA RanShape ==
    ASSUME NEW n \in Nat, NEW s
    PROVE  /\ Ran(n, s) \in Nat
           /\ Ran(n, s) > 0 <=> \E i \in 1..n : plan[i].step = s
           /\ Distinct(plan) /\ 1..n \subseteq DOMAIN plan => Ran(n, s) <= 1
<1> DEFINE I == {i \in 1..n : plan[i].step = s}
<1>1. IsFiniteSet(I) /\ Cardinality(I) \in Nat
  <2>1. IsFiniteSet(1..n)
    BY FS_Interval
  <2>2. QED
    BY <2>1, FS_Subset, FS_CardinalityType
<1>2. Cardinality(I) = 0 <=> I = {}
  BY <1>1, FS_EmptySet
<1>3. ASSUME Distinct(plan), 1..n \subseteq DOMAIN plan PROVE Cardinality(I) <= 1
  <2>1. CASE I = {}
    BY <1>2, <2>1
  <2>2. CASE I # {}
    <3>1. PICK i \in I : TRUE
      BY <2>2
    <3>2. ASSUME NEW j \in I PROVE j = i
      BY <1>3, <3>1 DEF Distinct
    <3>3. I = {i}
      BY <3>1, <3>2
    <3> HIDE DEF I
    <3>4. QED
      BY <3>3, FS_Singleton
  <2>3. QED
    BY <2>1, <2>2
<1>4. (\E i \in 1..n : plan[i].step = s) <=> I # {}
  OBVIOUS
<1> HIDE DEF I
<1>5. Ran(n, s) = Cardinality(I)
  BY DEF Ran, I
<1>6. QED
  BY <1>1, <1>2, <1>3, <1>4, <1>5

LEMMA QueueShape ==
    ASSUME TypesFit
    PROVE  /\ plan \in Seq(Entries) /\ Len(plan) \in Nat /\ DOMAIN plan = 1..Len(plan)
           /\ \A i \in DOMAIN plan : /\ plan[i] \in Entries /\ plan[i].step \in Steps
                                     /\ plan[i].retry \in BOOLEAN
<1>1. plan \in Seq(Entries) /\ Len(plan) \in Nat /\ DOMAIN plan = 1..Len(plan)
  BY DEF TypesFit
<1>2. \A i \in DOMAIN plan : plan[i] \in Entries
  BY <1>1
<1>3. \A e \in Entries : e.step \in Steps /\ e.retry \in BOOLEAN
  BY DEF Entries
<1>4. QED
  BY <1>1, <1>2, <1>3

\* The queue behind its first n entries.
LEMMA RestShape ==
    ASSUME TypesFit, NEW n \in 1..Len(plan)
    PROVE  /\ SubSeq(plan, n + 1, Len(plan)) \in Seq(Entries)
           /\ DOMAIN SubSeq(plan, n + 1, Len(plan)) = 1..(Len(plan) - n)
           /\ \A k \in 1..(Len(plan) - n) :
                 n + k \in DOMAIN plan /\ SubSeq(plan, n + 1, Len(plan))[k] = plan[n + k]
<1>1. Len(plan) \in Nat /\ \A i \in (n + 1)..Len(plan) : plan[i] \in Entries
  BY QueueShape
<1>2. /\ SubSeq(plan, n + 1, Len(plan)) \in Seq(Entries)
      /\ Len(SubSeq(plan, n + 1, Len(plan)))
            = IF n + 1 <= Len(plan) THEN Len(plan) - (n + 1) + 1 ELSE 0
      /\ \A k \in 1..(Len(plan) - (n + 1) + 1) :
            SubSeq(plan, n + 1, Len(plan))[k] = plan[(n + 1) + k - 1]
  BY <1>1, SubSeqProperties
<1>3. Len(SubSeq(plan, n + 1, Len(plan))) = Len(plan) - n
  BY <1>1, <1>2
<1>4. ASSUME NEW k \in 1..(Len(plan) - n)
      PROVE  n + k \in DOMAIN plan /\ SubSeq(plan, n + 1, Len(plan))[k] = plan[n + k]
  <2>1. k \in 1..(Len(plan) - (n + 1) + 1) /\ (n + 1) + k - 1 = n + k
    BY <1>1
  <2>2. n + k \in DOMAIN plan
    BY <1>1, QueueShape
  <2>3. QED
    BY <1>2, <2>1, <2>2
<1>5. QED
  BY <1>2, <1>3, <1>4

\* What the records of n results leave of the evidence.
Recorded(n, result) ==
    /\ good \subseteq good' /\ failed \subseteq failed'
    /\ retryFailed \subseteq retryFailed' /\ stale \subseteq stale'
    /\ \A s \in good' \union stale' :
          s \in good \union stale \/ \E i \in 1..n : plan[i].step = s /\ result[i] # "failed"
    /\ \A s \in failed' \union retryFailed' :
          s \in failed \union retryFailed \/ \E i \in 1..n : plan[i].step = s
    /\ \A i \in 1..n : plan[i].retry => plan[i].step \in good' \union retryFailed' \union stale'

LEMMA RecordShape ==
    ASSUME TypesFit, NEW n \in 1..Len(plan), NEW result \in [1..n -> Results], Record(n, result)
    PROVE  Recorded(n, result)
<1> DEFINE with(r, retry) ==
              {plan[i].step : i \in {j \in 1..n : result[j] = r /\ plan[j].retry = retry}}
<1>1. /\ good' = good \union with("usable", TRUE) \union with("usable", FALSE)
      /\ failed' = failed \union with("failed", FALSE)
      /\ retryFailed' = retryFailed \union with("failed", TRUE)
      /\ stale' = stale \union with("stale", TRUE)
  BY DEF Record
<1>2. \A r, retry : \A s \in with(r, retry) : \E i \in 1..n : plan[i].step = s /\ result[i] = r
  OBVIOUS
<1>3. ASSUME NEW i \in 1..n, plan[i].retry
      PROVE  plan[i].step \in
                with("usable", TRUE) \union with("failed", TRUE) \union with("stale", TRUE)
  <2>1. plan[i].retry = TRUE
    BY <1>3, QueueShape
  <2>2. plan[i].step \in with(result[i], TRUE)
    BY <2>1
  <2>3. result[i] \in {"usable", "stale", "failed"}
    BY DEF Results
  <2> HIDE DEF with
  <2>4. QED
    BY <2>2, <2>3
<1> HIDE DEF with
<1>4. ASSUME NEW s \in good' \union stale', s \notin good \union stale
      PROVE  \E i \in 1..n : plan[i].step = s /\ result[i] # "failed"
  <2>1. PICK r \in {"usable", "stale"} : \E retry \in BOOLEAN : s \in with(r, retry)
    BY <1>1, <1>4
  <2>2. PICK i \in 1..n : plan[i].step = s /\ result[i] = r
    BY <1>2, <2>1
  <2>3. QED
    BY <2>1, <2>2
<1>5. ASSUME NEW s \in failed' \union retryFailed', s \notin failed \union retryFailed
      PROVE  \E i \in 1..n : plan[i].step = s
  <2>1. PICK retry \in BOOLEAN : s \in with("failed", retry)
    BY <1>1, <1>5
  <2>2. QED
    BY <1>2, <2>1
<1>6. \A i \in 1..n : plan[i].retry => plan[i].step \in good' \union retryFailed' \union stale'
  BY <1>1, <1>3
<1>7. QED
  BY <1>1, <1>4, <1>5, <1>6 DEF Recorded

-----------------------------------------------------------------------------
(* Steps of the planner and the executor *)

\* The first n entries of the queue leave it with a result; the tools of the first m were
\* invoked, and an entry behind those was refused.
LEMMA ExecutedStep ==
    ASSUME AgentInv, node = "executor",
           NEW n \in 1..Len(plan), NEW m \in 0..Len(plan),
           \A i \in 1..m : plan[i].step \in Allowed,
           NEW result \in [1..n -> Results],
           \A i \in 1..n : i <= m \/ (plan[i].step \in dropped' \ Allowed /\ result[i] = "failed"),
           Record(n, result), Invoke(m), dropped \subseteq dropped', dropped' \subseteq Steps,
           times' = [s \in Steps |-> times[s] + Ran(n, s)],
           executed' = executed + n, executed' <= MaxSteps,
           plan' = SubSeq(plan, n + 1, Len(plan)), node' = "replanner",
           faults' \in 0..MaxFaults, invoked + m <= executed + n + faults' * (Fanout - 1),
           UNCHANGED << critic, postponed, response, risky >>
    PROVE  AgentInv'
<1>1. /\ TypesFit /\ times \in [Steps -> Nat] /\ calls \in [Steps -> Nat]
      /\ executed \in Nat /\ invoked \in Nat /\ Len(plan) \in Nat /\ n \in Nat /\ m \in Nat
      /\ DOMAIN plan = 1..Len(plan) /\ response = "none"
      /\ \A i \in DOMAIN plan : plan[i].step \in Steps
  BY QueueShape DEF AgentInv, TypesFit, GraphFits
<1>1a. Recorded(n, result)
  BY <1>1, RecordShape
<1>2. /\ calls' = [s \in Steps |-> calls[s] + Ran(m, s)] /\ invoked' = invoked + m
  BY DEF Invoke, Ran
<1>3. \A k \in Nat : \A s \in Steps : Ran(k, s) \in Nat
  BY RanShape
<1>4. times' \in [Steps -> Nat] /\ calls' \in [Steps -> Nat] /\ invoked' \in Nat
  <2>1. ASSUME NEW s \in Steps PROVE times[s] + Ran(n, s) \in Nat /\ calls[s] + Ran(m, s) \in Nat
    <3>1. Ran(n, s) \in Nat /\ Ran(m, s) \in Nat /\ times[s] \in Nat /\ calls[s] \in Nat
      BY <1>1, <1>3
    <3>2. QED
      BY <3>1
  <2>2. invoked' \in Nat
    BY <1>1, <1>2
  <2>3. QED
    BY <1>2, <2>1, <2>2
<1>5. TypesFit'
  <2>1. plan' \in Seq(Entries)
    BY <1>1, RestShape
  <2>2. executed' \in Nat /\ node' \in Nodes
    BY <1>1 DEF Nodes
  <2>3. QED
    BY <1>1, <1>4, <2>1, <2>2 DEF TypesFit
<1>6. GraphFits'
  BY <1>1 DEF GraphFits
<1>7. CountsFit'
  <2>0. Allowed \subseteq Steps
    BY DEF Allowed
  <2>1. ASSUME NEW s \in Allowed PROVE times'[s] <= calls'[s]
    <3>1. s \in Steps /\ times[s] <= calls[s] /\ times[s] \in Nat /\ calls[s] \in Nat
      BY <1>1, <2>0 DEF AgentInv, CountsFit
    <3>2. Ran(n, s) <= Ran(m, s)
      <4> DEFINE I == {i \in 1..n : plan[i].step = s}
                 J == {i \in 1..m : plan[i].step = s}
      <4>1. IsFiniteSet(1..m)
        BY <1>1, FS_Interval
      <4>2. I \in SUBSET J /\ J \in SUBSET (1..m)
        BY <1>1
      <4>3. IsFiniteSet(J)
        BY <4>1, <4>2, FS_Subset
      <4> HIDE DEF I, J
      <4>4. Cardinality(I) <= Cardinality(J)
        BY <4>2, <4>3, FS_Subset
      <4>5. QED
        BY <4>4 DEF Ran, I, J
    <3>3. times'[s] = times[s] + Ran(n, s) /\ calls'[s] = calls[s] + Ran(m, s)
      BY <1>1, <1>2, <3>1
    <3>4. QED
      BY <1>1, <1>3, <3>1, <3>2, <3>3
  <2>2. ASSUME NEW s \in Steps, times[s] > 0 \/ \E i \in 1..n : plan[i].step = s
        PROVE  times'[s] > 0
    <3>1. times'[s] = times[s] + Ran(n, s) /\ Ran(n, s) \in Nat /\ times[s] \in Nat
      BY <1>1, <1>3
    <3>2. (\E i \in 1..n : plan[i].step = s) => Ran(n, s) > 0
      BY <1>1, RanShape
    <3>3. QED
      BY <2>2, <3>1, <3>2
  <2>3. ASSUME NEW i \in 1..n
        PROVE  /\ plan[i].step \in Steps /\ plan[i].step \in Allowed \union dropped'
               /\ result[i] # "failed" => plan[i].step \in Allowed
    <3>1. i \in DOMAIN plan /\ (i <= m => i \in 1..m)
      BY <1>1
    <3>2. QED
      BY <1>1, <3>1
  <2>3a. /\ \A s \in good' \union stale' :
              s \in good \union stale \/ \E i \in 1..n : plan[i].step = s /\ result[i] # "failed"
        /\ \A s \in failed' \union retryFailed' :
              s \in failed \union retryFailed \/ \E i \in 1..n : plan[i].step = s
    BY <1>1a DEF Recorded
  <2>4. ASSUME NEW s \in good' \union stale' PROVE s \in Allowed /\ times'[s] > 0
    <3>1. CASE s \in good \union stale
      <4>1. s \in Allowed /\ times[s] > 0
        BY <3>1 DEF AgentInv, CountsFit
      <4>2. QED
        BY <2>0, <2>2, <4>1
    <3>2. CASE \E i \in 1..n : plan[i].step = s /\ result[i] # "failed"
      BY <2>2, <2>3, <3>2
    <3>3. QED
      BY <2>3a, <3>1, <3>2
  <2>5. ASSUME NEW s \in failed' \union retryFailed'
        PROVE  s \in Allowed \union dropped' /\ times'[s] > 0
    <3>1. CASE s \in failed \union retryFailed
      <4>1. s \in Allowed \union dropped /\ times[s] > 0
        BY <3>1 DEF AgentInv, CountsFit
      <4>2. QED
        BY <1>1, <2>0, <2>2, <4>1 DEF TypesFit
    <3>2. CASE \E i \in 1..n : plan[i].step = s
      BY <2>2, <2>3, <3>2
    <3>3. QED
      BY <2>3a, <3>1, <3>2
  <2>6. QED
    <3>1. /\ executed' <= MaxSteps /\ node' # "executor"
          /\ invoked' <= executed' + faults' * (Fanout - 1)
      BY <1>2
    <3>2. Allowed' = Allowed
      BY DEF Allowed, assess_plan_step, matched_forbidden_rules, matched_approval_rules,
             resolve_read_only
    <3>3. QED
      BY <2>1, <2>4, <2>5, <3>1, <3>2 DEF CountsFit
<1>8. OnlyAllowedRuns'
  <2>1. ASSUME NEW s \in Steps, calls'[s] > 0 PROVE s \in Allowed
    <3>1. calls'[s] = calls[s] + Ran(m, s) /\ calls[s] \in Nat /\ Ran(m, s) \in Nat
      BY <1>1, <1>2, <1>3
    <3>2. CASE calls[s] > 0
      BY <3>2 DEF AgentInv, OnlyAllowedRuns
    <3>3. CASE Ran(m, s) > 0
      <4>1. PICK i \in 1..m : plan[i].step = s
        BY <1>1, <3>3, RanShape
      <4>2. QED
        BY <4>1
    <3>4. QED
      BY <2>1, <3>1, <3>2, <3>3
  <2>2. QED
    BY <2>1 DEF OnlyAllowedRuns
<1>9. RiskFits'
  <2>1. ASSUME NEW i \in DOMAIN plan, plan[i].step \notin Allowed \union dropped'
        PROVE  plan[i].step \in Queued(plan')
    <3>0. i \in 1..Len(plan) /\ Len(plan) \in Nat /\ n \in Nat /\ m \in Nat
      BY <1>1, <2>1
    <3>1. ~(i <= n)
      <4>1. i <= n => i \in 1..n
        BY <3>0
      <4>2. i <= m => i \in 1..m
        BY <3>0
      <4>3. QED
        BY <2>1, <4>1, <4>2
    <3>2. i - n \in 1..(Len(plan) - n) /\ n + (i - n) = i
      <4>1. \A a, b, c \in Nat : a <= b /\ ~(a <= c) => a - c \in 1..(b - c) /\ c + (a - c) = a
        OBVIOUS
      <4>2. i \in Nat /\ i <= Len(plan)
        BY <3>0
      <4>3. QED
        BY <3>0, <3>1, <4>1, <4>2
    <3>3. i - n \in DOMAIN plan' /\ plan'[i - n] = plan[i]
      BY <1>1, <3>2, RestShape
    <3>4. QED
      BY <3>3 DEF Queued
  <2>2. risky \cap Allowed = {} /\ risky \ dropped \subseteq Queued(plan)
    BY <1>1 DEF AgentInv, RiskFits
  <2>3. ASSUME NEW s \in risky \ dropped' PROVE s \in Queued(plan')
    <3>1. s \in Queued(plan) /\ s \notin Allowed
      BY <2>2, <2>3
    <3>2. PICK i \in DOMAIN plan : plan[i].step = s
      BY <3>1 DEF Queued
    <3>3. QED
      BY <2>1, <2>3, <3>1, <3>2
  <2>4. QED
    BY <1>1, <2>2, <2>3 DEF RiskFits, Queued
<1>10. RetriesFit'
  <2>1. SUFFICES ASSUME ~critic
                 PROVE  /\ Distinct(plan')
                        /\ \A k \in DOMAIN plan' : Waits(plan'[k], times', stale')
                        /\ \A s \in Steps : RanTwice(s, times', stale', good' \union retryFailed')
    BY DEF RetriesFit, Distinct
  <2>2. /\ Distinct(plan)
        /\ \A i \in DOMAIN plan : Waits(plan[i], times, stale)
        /\ \A s \in Steps : RanTwice(s, times, stale, good \union retryFailed)
    BY <2>1 DEF AgentInv, RetriesFit
  <2>3. /\ DOMAIN plan' = 1..(Len(plan) - n)
        /\ \A k \in DOMAIN plan' : n + k \in DOMAIN plan /\ plan'[k] = plan[n + k]
    BY <1>1, RestShape
  <2>4. Distinct(plan')
    <3>1. ASSUME NEW k \in DOMAIN plan', NEW l \in DOMAIN plan', plan'[k].step = plan'[l].step
          PROVE  k = l
      <4>1. n + k = n + l
        BY <2>2, <2>3, <3>1 DEF Distinct
      <4>2. QED
        BY <1>1, <2>3, <4>1
    <3>2. QED
      BY <3>1 DEF Distinct
  <2>5. ASSUME NEW k \in DOMAIN plan' PROVE Waits(plan'[k], times', stale')
    <3>1. Waits(plan[n + k], times, stale) /\ plan'[k] = plan[n + k] /\ n + k \in DOMAIN plan
      BY <2>2, <2>3
    <3>2. ASSUME NEW i \in 1..n PROVE plan[i].step # plan[n + k].step
      <4>1. i \in DOMAIN plan /\ i # n + k
        BY <1>1, <2>3
      <4>2. QED
        BY <2>2, <3>1, <4>1 DEF Distinct
    <3>3. /\ plan[n + k].step \in Steps /\ Ran(n, plan[n + k].step) \in Nat
          /\ ~(Ran(n, plan[n + k].step) > 0)
      <4>1. plan[n + k].step \in Steps
        BY <1>1, <3>1
      <4>2. ~\E i \in 1..n : plan[i].step = plan[n + k].step
        BY <3>2
      <4>3. QED
        BY <1>1, <4>1, <4>2, RanShape
    <3>4. times'[plan[n + k].step] = times[plan[n + k].step]
      BY <1>1, <3>3
    <3>5. stale \subseteq stale'
      BY <1>1a DEF Recorded
    <3>6. QED
      BY <3>1, <3>4, <3>5 DEF Waits
  <2>6. ASSUME NEW s \in Steps PROVE RanTwice(s, times', stale', good' \union retryFailed')
    <3>1. /\ RanTwice(s, times, stale, good \union retryFailed)
          /\ times'[s] = times[s] + Ran(n, s) /\ times[s] \in Nat /\ Ran(n, s) \in Nat
      BY <1>1, <1>3, <2>2
    <3>2. good \subseteq good' /\ retryFailed \subseteq retryFailed' /\ stale \subseteq stale'
      BY <1>1a DEF Recorded
    <3>3. CASE ~(Ran(n, s) > 0)
      BY <3>1, <3>2, <3>3 DEF RanTwice
    <3>4. CASE Ran(n, s) > 0
      <4>1. PICK i \in 1..n : plan[i].step = s
        BY <1>1, <3>4, RanShape
      <4>2. i \in DOMAIN plan /\ 1..n \subseteq DOMAIN plan
        BY <1>1
      <4>3. Ran(n, s) <= 1
        BY <1>1, <2>2, <4>2, RanShape
      <4>4. times'[s] = times[s] + 1
        BY <3>1, <3>4, <4>3
      <4>5. Waits(plan[i], times, stale)
        BY <2>2, <4>2
      <4>6. plan[i].retry => s \in good' \union retryFailed' \union stale'
        BY <1>1a, <4>1 DEF Recorded
      <4>7. CASE s \in stale
        BY <3>2, <4>7 DEF RanTwice
      <4>8. CASE plan[i].retry /\ times[s] <= 1
        BY <3>1, <4>4, <4>6, <4>8 DEF RanTwice
      <4>9. CASE ~plan[i].retry /\ times[s] <= 0
        BY <3>1, <4>4, <4>9 DEF RanTwice
      <4>10. QED
        BY <4>1, <4>5, <4>7, <4>8, <4>9 DEF Waits
    <3>5. QED
      BY <3>3, <3>4
  <2>7. QED
    BY <2>4, <2>5, <2>6
<1>11. QED
  BY <1>5, <1>6, <1>7, <1>8, <1>9, <1>10 DEF AgentInv

LEMMA ProposalShape ==
    ASSUME NEW S, NEW k \in Nat, NEW q \in Proposals(S, k)
    PROVE  /\ q \in Seq(S) /\ DOMAIN q = 1..Len(q) /\ Len(q) \in Nat /\ Len(q) >= 1
           /\ \A i \in DOMAIN q : q[i] \in S
           /\ \A i, j \in DOMAIN q : q[i] = q[j] => i = j
<1>1. PICK n \in 1..k : q \in [1..n -> S]
  BY DEF Proposals
<1>2. \A i, j \in DOMAIN q : q[i] = q[j] => i = j
  BY DEF Proposals
<1>3. n \in Nat /\ n >= 1
  OBVIOUS
<1>4. q \in Seq(S)
  BY <1>1, <1>3
<1>5. Len(q) = n
  BY <1>1, <1>3, <1>4
<1>6. QED
  BY <1>1, <1>2, <1>3, <1>4, <1>5

\* The steps of a proposal as entries of a queue.
AsEntries(q, retry) == [i \in DOMAIN q |-> [step |-> q[i], retry |-> retry]]

FitEntries(new, q, retry) ==
    /\ new \in Seq(Entries) /\ new # <<>> /\ DOMAIN new = DOMAIN q
    /\ \A i \in DOMAIN q : new[i].step = q[i] /\ new[i].retry = retry
    /\ Distinct(new)

LEMMA EntriesOf ==
    ASSUME NEW S \in SUBSET Steps, NEW k \in Nat, NEW q \in Proposals(S, k), NEW retry \in BOOLEAN
    PROVE  FitEntries(AsEntries(q, retry), q, retry)
<1> DEFINE new == AsEntries(q, retry)
<1>1. /\ q \in Seq(S) /\ DOMAIN q = 1..Len(q) /\ Len(q) \in Nat /\ Len(q) >= 1
      /\ \A i \in DOMAIN q : q[i] \in S
      /\ \A i, j \in DOMAIN q : q[i] = q[j] => i = j
  BY ProposalShape
<1>2. \A i \in 1..Len(q) : [step |-> q[i], retry |-> retry] \in Entries
  BY <1>1 DEF Entries
<1>3. new \in [1..Len(q) -> Entries]
  BY <1>1, <1>2 DEF AsEntries
<1>4. \A i \in DOMAIN q : new[i].step = q[i] /\ new[i].retry = retry
  BY DEF AsEntries
<1> HIDE DEF new
<1>5. new \in Seq(Entries) /\ DOMAIN new = 1..Len(q) /\ Len(new) = Len(q)
  BY <1>1, <1>3
<1>6. new # <<>>
  BY <1>1, <1>5
<1>7. Distinct(new)
  BY <1>1, <1>4, <1>5 DEF Distinct
<1>8. QED
  BY <1>1, <1>4, <1>5, <1>6, <1>7 DEF FitEntries, new

LEMMA PlannerKept ==
    ASSUME AgentInv, Planner
    PROVE  AgentInv'
<1>1. PICK q \in Proposals(Steps, MaxPlan) :
         /\ plan' = [i \in DOMAIN q |-> Entry(q[i])]
         /\ risky' = {q[i] : i \in DOMAIN q} \ Allowed
  BY DEF Planner
<1>2. /\ node = "planner" /\ node' = "executor" /\ response = "none"
      /\ UNCHANGED << critic, executed, postponed, times, calls, invoked, response, dropped >>
      /\ faults' = faults
      /\ UNCHANGED << good, failed, retryFailed, stale >>
      /\ executed = 0 /\ \A s \in Steps : times[s] = 0
  BY DEF Planner, invocations, evidence, AgentInv, GraphFits
<1>3. plan' = [i \in DOMAIN q |-> [step |-> q[i], retry |-> FALSE]]
  BY <1>1 DEF Entry
<1>4. MaxPlan \in Nat /\ MaxSteps \in Nat /\ MaxSteps > 0
  BY AgentAssumption
<1>5. /\ plan' \in Seq(Entries) /\ DOMAIN plan' = DOMAIN q /\ plan' # <<>>
      /\ \A i \in DOMAIN plan' : plan'[i].step = q[i] /\ plan'[i].retry = FALSE
      /\ Distinct(plan')
  <2>1. PICK no \in BOOLEAN : no = FALSE
    OBVIOUS
  <2>2. FitEntries(AsEntries(q, no), q, no)
    <3>1. MaxPlan \in Nat /\ Steps \in SUBSET Steps
      BY <1>4
    <3>2. QED
      BY <3>1, EntriesOf
  <2>3. plan' = AsEntries(q, no)
    BY <1>3, <2>1 DEF AsEntries
  <2>4. QED
    BY <2>1, <2>2, <2>3 DEF FitEntries
<1>6. \A i \in DOMAIN q : q[i] \in Steps
  BY <1>4, ProposalShape
<1> HIDE <1>3
<1>7. TypesFit'
  <2>1. risky' \subseteq Steps /\ node' \in Nodes
    BY <1>1, <1>2, <1>6 DEF Nodes
  <2>2. QED
    BY <1>2, <1>5, <2>1 DEF AgentInv, TypesFit
<1>8. GraphFits'
  BY <1>2, <1>5 DEF GraphFits
<1>9. CountsFit' /\ OnlyAllowedRuns'
  BY <1>2, <1>4 DEF AgentInv, CountsFit, OnlyAllowedRuns
<1>10. RiskFits'
  <2>1. risky' \cap Allowed = {} /\ risky' \subseteq Queued(plan')
    BY <1>1, <1>5 DEF Queued
  <2>2. QED
    BY <1>2, <2>1 DEF RiskFits, Queued
<1>11. RetriesFit'
  <2>1. \A i \in DOMAIN plan' : Waits(plan'[i], times', stale')
    BY <1>2, <1>5, <1>6 DEF Waits
  <2>2. \A s \in Steps : RanTwice(s, times', stale', good' \union retryFailed')
    BY <1>2 DEF RanTwice
  <2>3. QED
    BY <1>5, <2>1, <2>2 DEF RetriesFit, Distinct
<1>12. QED
  BY <1>7, <1>8, <1>9, <1>10, <1>11 DEF AgentInv

LEMMA ExecuteStepsKept ==
    ASSUME AgentInv, ExecuteSteps
    PROVE  AgentInv'
<1> DEFINE n == BatchSize
<1>1. /\ node = "executor" /\ node' = "replanner" /\ plan[1].step \in Allowed
      /\ UNCHANGED << critic, postponed, response, risky, dropped >> /\ faults' = faults
      /\ Invoke(n) /\ executed' = executed + n
      /\ times' = [s \in Steps |-> times[s] + Ran(n, s)]
      /\ plan' = SubSeq(plan, n + 1, Len(plan))
  BY DEF ExecuteSteps, Ran, history
<1>2. PICK result \in [1..n -> Results] : Record(n, result)
  BY DEF ExecuteSteps
<1>3. /\ TypesFit /\ plan # <<>> /\ executed < MaxSteps /\ faults \in 0..MaxFaults
      /\ invoked <= executed + faults * (Fanout - 1) /\ executed \in Nat /\ invoked \in Nat
      /\ Len(plan) \in Nat
  BY <1>1, QueueShape DEF AgentInv, GraphFits, CountsFit, TypesFit
<1>4. /\ n \in 1..Len(plan) /\ executed + n <= MaxSteps
      /\ \A i \in 1..n : i = 1 \/ plan[i].step \in Allowed
  BY <1>3, BatchFits
<1> HIDE DEF n
<1>5. /\ n \in 0..Len(plan) /\ \A i \in 1..n : plan[i].step \in Allowed /\ i <= n
      /\ dropped' = dropped /\ dropped \subseteq Steps
  BY <1>1, <1>3, <1>4 DEF TypesFit
<1>6. invoked + n <= executed + n + faults' * (Fanout - 1)
  <2> DEFINE repeats == faults * (Fanout - 1)
  <2>1. repeats \in Int
    BY <1>3, ConstantTypes
  <2>2. invoked <= executed + repeats /\ faults' * (Fanout - 1) = repeats
    BY <1>1, <1>3
  <2> HIDE DEF repeats
  <2>3. QED
    BY <1>3, <1>4, <2>1, <2>2
<1>7. QED
  BY <1>1, <1>2, <1>3, <1>4, <1>5, <1>6, ExecutedStep

\* The head leaves the queue failed; the tools of the first m entries were invoked for it.
LEMMA HeadFailsKept ==
    ASSUME AgentInv, node = "executor", HeadFails, NEW m \in 0..Len(plan), m <= Fanout, Invoke(m),
           \A i \in 1..m : plan[i].step \in Allowed,
           m >= 1 \/ plan[1].step \in dropped' \ Allowed,
           dropped \subseteq dropped', dropped' \subseteq Steps
    PROVE  AgentInv'
<1>1. /\ node' = "replanner"
      /\ UNCHANGED << critic, postponed, response, risky >>
      /\ faults < MaxFaults /\ faults' = faults + 1
      /\ executed' = executed + 1 /\ Record(1, <<"failed">>)
      /\ times' = [times EXCEPT ![plan[1].step] = times[plan[1].step] + 1]
      /\ plan' = Tail(plan)
  BY DEF HeadFails
<1>2. /\ TypesFit /\ plan # <<>> /\ executed < MaxSteps /\ faults \in 0..MaxFaults
      /\ invoked <= executed + faults * (Fanout - 1) /\ executed \in Nat /\ invoked \in Nat
      /\ Len(plan) \in Nat /\ plan \in Seq(Entries) /\ DOMAIN plan = 1..Len(plan)
      /\ times \in [Steps -> Nat]
  BY QueueShape DEF AgentInv, GraphFits, CountsFit, TypesFit
<1>3. 1 \in 1..Len(plan) /\ m \in Nat
  BY <1>2
<1>4. /\ <<"failed">> \in [1..1 -> Results] /\ (<<"failed">>)[1] = "failed"
      /\ \A i \in 1..1 : i = 1
  BY DEF Results
<1>5. \A i \in 1..1 :
         i <= m \/ (plan[i].step \in dropped' \ Allowed /\ (<<"failed">>)[i] = "failed")
  BY <1>4
<1>6. plan' = SubSeq(plan, 1 + 1, Len(plan))
  BY <1>1, <1>2, TailIsSubSeq
<1>7. times' = [s \in Steps |-> times[s] + Ran(1, s)]
  <2>1. ASSUME NEW s \in Steps PROVE Ran(1, s) = IF plan[1].step = s THEN 1 ELSE 0
    <3>1. {i \in 1..1 : plan[i].step = s} = IF plan[1].step = s THEN {1} ELSE {}
      OBVIOUS
    <3>2. QED
      BY <3>1, FS_Singleton, FS_EmptySet DEF Ran
  <2>2. \A s \in Steps : times[s] \in Nat
    BY <1>2
  <2>3. plan[1].step \in Steps
    BY <1>2, <1>3, QueueShape
  <2>4. \A s \in Steps : times'[s] = times[s] + Ran(1, s)
    BY <1>1, <1>2, <2>1, <2>2, <2>3
  <2>5. times' \in [Steps -> Nat]
    BY <1>1, <1>2, <2>3
  <2>6. QED
    BY <2>4, <2>5
<1>8. invoked + m <= executed + 1 + faults' * (Fanout - 1)
  <2>1. faults \in Nat /\ Fanout \in Nat
    BY <1>2, ConstantTypes
  <2>2. faults' * (Fanout - 1) = faults * (Fanout - 1) + (Fanout - 1)
    BY <1>1, <2>1
  <2> DEFINE repeats == faults * (Fanout - 1)
  <2>3. repeats \in Int
    BY <2>1
  <2>4. invoked <= executed + repeats /\ faults' * (Fanout - 1) = repeats + (Fanout - 1)
    BY <1>2, <2>2
  <2> HIDE DEF repeats
  <2>5. QED
    BY <1>2, <1>3, <2>1, <2>3, <2>4
<1>9. faults' \in 0..MaxFaults /\ executed' <= MaxSteps
  BY <1>1, <1>2, ConstantTypes
<1>10. QED
  BY <1>1, <1>2, <1>3, <1>4, <1>5, <1>6, <1>7, <1>8, <1>9, ExecutedStep

\* Storing a record raised: the whole batch ran, only its head counts.
LEMMA ExecutionRaisesKept ==
    ASSUME AgentInv, ExecutionRaises
    PROVE  AgentInv'
<1> DEFINE m == BatchSize
<1>1. /\ node = "executor" /\ plan[1].step \in Allowed
      /\ Invoke(m) /\ HeadFails /\ dropped' = dropped
  BY DEF ExecutionRaises
<1>2. TypesFit /\ plan # <<>> /\ dropped \subseteq Steps /\ Len(plan) \in Nat
  BY <1>1, QueueShape DEF AgentInv, GraphFits, TypesFit
<1>3. /\ m \in 1..Len(plan) /\ m <= Fanout
      /\ \A i \in 1..m : i = 1 \/ plan[i].step \in Allowed
  BY <1>2, BatchFits
<1> HIDE DEF m
<1>4. m \in 0..Len(plan) /\ m >= 1 /\ \A i \in 1..m : plan[i].step \in Allowed
  BY <1>1, <1>2, <1>3
<1>5. QED
  BY <1>1, <1>2, <1>3, <1>4, HeadFailsKept

\* Storing a refusal raised: nothing ran, and the refused head counts as failed.
LEMMA GateRaisesKept ==
    ASSUME AgentInv, GateRaises
    PROVE  AgentInv'
<1>1. /\ node = "executor" /\ plan[1].step \notin Allowed
      /\ HeadFails /\ dropped' = dropped \union {plan[1].step}
      /\ calls' = calls /\ invoked' = invoked
  BY DEF GateRaises, GateRefuses, invocations
<1>2. /\ TypesFit /\ plan # <<>> /\ dropped \subseteq Steps /\ Len(plan) \in Nat
      /\ calls \in [Steps -> Nat] /\ invoked \in Nat
  BY <1>1, QueueShape DEF AgentInv, GraphFits, TypesFit
<1>3. plan[1].step \in Steps
  BY <1>2, QueueShape
<1> DEFINE m == 0
<1>4. m \in 0..Len(plan) /\ m <= Fanout /\ \A i \in 1..m : plan[i].step \in Allowed
  BY <1>2, ConstantTypes
<1>5. Invoke(m)
  <2>1. ASSUME NEW s \in Steps PROVE Ran(m, s) = 0
    <3>1. {i \in 1..m : plan[i].step = s} = {}
      OBVIOUS
    <3>2. QED
      BY <3>1, FS_EmptySet DEF Ran
  <2>2. calls = [s \in Steps |-> calls[s] + Ran(m, s)]
    BY <1>2, <2>1
  <2>3. invoked = invoked + m
    BY <1>2
  <2> HIDE DEF m
  <2>4. QED
    BY <1>1, <2>2, <2>3 DEF Invoke, Ran
<1> HIDE DEF m
<1>6. dropped' \subseteq Steps /\ dropped \subseteq dropped' /\ plan[1].step \in dropped' \ Allowed
  BY <1>1, <1>2, <1>3
<1>7. QED
  BY <1>1, <1>4, <1>5, <1>6, HeadFailsKept

\* What is queued in a concatenation, and when its steps are distinct.
LEMMA ConcatQueued ==
    ASSUME NEW q \in Seq(Entries), NEW r \in Seq(Entries)
    PROVE  /\ Queued(q \o r) = Queued(q) \union Queued(r)
           /\ Distinct(q) /\ Distinct(r) /\ Queued(q) \cap Queued(r) = {} => Distinct(q \o r)
<1>1. /\ q \o r \in Seq(Entries)
      /\ \A i \in DOMAIN (q \o r) :
            \/ i \in DOMAIN q /\ (q \o r)[i] = q[i]
            \/ i - Len(q) \in DOMAIN r /\ (q \o r)[i] = r[i - Len(q)]
      /\ \A i \in DOMAIN q : i \in DOMAIN (q \o r) /\ (q \o r)[i] = q[i]
      /\ \A i \in DOMAIN r : /\ i + Len(q) \in DOMAIN (q \o r)
                             /\ (q \o r)[i + Len(q)] = r[i]
  BY Concatenated
<1>2. Queued(q \o r) \subseteq Queued(q) \union Queued(r)
  BY <1>1 DEF Queued
<1>3. Queued(q) \subseteq Queued(q \o r)
  BY <1>1 DEF Queued
<1>4. Queued(r) \subseteq Queued(q \o r)
  <2>1. ASSUME NEW i \in DOMAIN r PROVE r[i].step \in Queued(q \o r)
    BY <1>1 DEF Queued
  <2>2. QED
    BY <2>1 DEF Queued
<1>5. ASSUME Distinct(q), Distinct(r), Queued(q) \cap Queued(r) = {} PROVE Distinct(q \o r)
  <2>1. ASSUME NEW i \in DOMAIN (q \o r), NEW j \in DOMAIN (q \o r),
               (q \o r)[i].step = (q \o r)[j].step
        PROVE  i = j
    <3>1. Len(q) \in Int /\ i \in Int /\ j \in Int
      BY <1>1
    <3>2. \A a \in DOMAIN q : q[a].step \in Queued(q)
      BY DEF Queued
    <3>3. \A b \in DOMAIN r : r[b].step \in Queued(r)
      BY DEF Queued
    <3>4. CASE i \in DOMAIN q /\ (q \o r)[i] = q[i] /\ j \in DOMAIN q /\ (q \o r)[j] = q[j]
      BY <1>5, <2>1, <3>4 DEF Distinct
    <3>5. CASE /\ i - Len(q) \in DOMAIN r /\ (q \o r)[i] = r[i - Len(q)]
               /\ j - Len(q) \in DOMAIN r /\ (q \o r)[j] = r[j - Len(q)]
      <4>1. i - Len(q) = j - Len(q)
        BY <1>5, <2>1, <3>5 DEF Distinct
      <4>2. QED
        BY <3>1, <4>1
    <3>6. CASE /\ i \in DOMAIN q /\ (q \o r)[i] = q[i]
               /\ j - Len(q) \in DOMAIN r /\ (q \o r)[j] = r[j - Len(q)]
      BY <1>5, <2>1, <3>2, <3>3, <3>6
    <3>7. CASE /\ j \in DOMAIN q /\ (q \o r)[j] = q[j]
               /\ i - Len(q) \in DOMAIN r /\ (q \o r)[i] = r[i - Len(q)]
      BY <1>5, <2>1, <3>2, <3>3, <3>7
    <3>8. QED
      BY <1>1, <3>4, <3>5, <3>6, <3>7
  <2>2. QED
    BY <2>1 DEF Distinct
<1>6. QED
  BY <1>2, <1>3, <1>4, <1>5

\* The entries of a concatenation, as one formula.
LEMMA ConcatEntry ==
    \A q, r \in Seq(Entries) : \A k \in DOMAIN (q \o r) :
        \/ k \in DOMAIN q /\ (q \o r)[k] = q[k]
        \/ k - Len(q) \in DOMAIN r /\ (q \o r)[k] = r[k - Len(q)]
BY Concatenated

\* The queue after the risky head was postponed.
PostponedPlan ==
    LET rest == Tail(plan)
        low == LowSteps(rest)
        others == Picked(rest, {i \in DOMAIN rest : rest[i].step \notin Queued(low)})
    IN  low \o others \o <<plan[1]>>

\* Postponing puts the same entries in another order.
LEMMA PostponedQueue ==
    ASSUME TypesFit, plan # <<>>
    PROVE  /\ PostponedPlan \in Seq(Entries)
           /\ Queued(plan) \subseteq Queued(PostponedPlan)
           /\ Distinct(plan) => Distinct(PostponedPlan)
           /\ \A k \in DOMAIN PostponedPlan : \E i \in DOMAIN plan : PostponedPlan[k] = plan[i]
<1> DEFINE rest == Tail(plan)
           I == {i \in DOMAIN rest : /\ Level(rest[i]) = "low"
                                     /\ ToolOf[rest[i].step] # "suggest_remediation"}
           low == Picked(rest, I)
           O == {i \in DOMAIN rest : rest[i].step \notin Queued(low)}
           others == Picked(rest, O)
           head == <<plan[1]>>
<1>1. plan \in Seq(Entries) /\ DOMAIN plan = 1..Len(plan) /\ Len(plan) \in Nat /\ 1 \in DOMAIN plan
  BY DEF TypesFit
<1>2. /\ rest \in Seq(Entries) /\ Len(rest) = Len(plan) - 1
      /\ \A i \in 1..Len(rest) : rest[i] = plan[i + 1]
  BY <1>1, HeadTailProperties
<1>3. PostponedPlan = low \o others \o head
  BY DEF PostponedPlan, LowSteps
<1> HIDE DEF rest, low, others
<1>4. DOMAIN rest = 1..Len(rest)
  BY <1>2
<1>5. \A i \in DOMAIN rest : i + 1 \in DOMAIN plan /\ rest[i] = plan[i + 1] /\ i + 1 # 1
  BY <1>1, <1>2, <1>4
<1>6. I \in SUBSET (DOMAIN rest) /\ O \in SUBSET (DOMAIN rest)
  OBVIOUS
<1>7. /\ \A i \in O : rest[i].step \notin Queued(low)
      /\ \A i \in DOMAIN rest : i \in O \/ rest[i].step \in Queued(low)
  OBVIOUS
<1> HIDE DEF I, O
<1>8. /\ low \in Seq(Entries) /\ others \in Seq(Entries)
      /\ \A k \in DOMAIN low : \E i \in I : low[k] = rest[i]
      /\ \A k \in DOMAIN others : \E i \in O : others[k] = rest[i]
      /\ \A i \in O : \E k \in DOMAIN others : others[k] = rest[i]
      /\ (\A i, j \in I : rest[i].step = rest[j].step => i = j) => Distinct(low)
      /\ (\A i, j \in O : rest[i].step = rest[j].step => i = j) => Distinct(others)
  <2>1. /\ low \in Seq(Entries) /\ \A k \in DOMAIN low : \E i \in I : low[k] = rest[i]
        /\ (\A i, j \in I : rest[i].step = rest[j].step => i = j) => Distinct(low)
    BY <1>2, <1>6, PickedEntries DEF low
  <2>2. /\ others \in Seq(Entries) /\ \A k \in DOMAIN others : \E i \in O : others[k] = rest[i]
        /\ \A i \in O : \E k \in DOMAIN others : others[k] = rest[i]
        /\ (\A i, j \in O : rest[i].step = rest[j].step => i = j) => Distinct(others)
    BY <1>2, <1>6, PickedEntries DEF others
  <2>3. QED
    BY <2>1, <2>2
<1>9. /\ head \in Seq(Entries) /\ DOMAIN head = {1} /\ head[1] = plan[1]
      /\ Queued(head) = {plan[1].step} /\ Distinct(head)
  <2>1. plan[1] \in Entries
    BY <1>1
  <2>2. head \in Seq(Entries) /\ DOMAIN head = {1} /\ head[1] = plan[1]
    BY <2>1
  <2> HIDE DEF head
  <2>3. QED
    BY <2>2 DEF Queued, Distinct
<1> HIDE DEF head
<1>10. /\ low \o others \in Seq(Entries) /\ low \o others \o head \in Seq(Entries)
       /\ Queued(low \o others) = Queued(low) \union Queued(others)
       /\ Queued(low \o others \o head) = Queued(low \o others) \union {plan[1].step}
  <2> DEFINE lo == low \o others
  <2>1. lo \in Seq(Entries) /\ Queued(lo) = Queued(low) \union Queued(others)
    BY <1>8, Concatenated, ConcatQueued
  <2> HIDE DEF lo
  <2>2. lo \o head \in Seq(Entries) /\ Queued(lo \o head) = Queued(lo) \union Queued(head)
    BY <1>9, <2>1, Concatenated, ConcatQueued
  <2>3. QED
    BY <1>9, <2>1, <2>2 DEF lo
<1>11. Queued(plan) \subseteq Queued(low \o others \o head)
  <2>1. ASSUME NEW i \in DOMAIN plan PROVE plan[i].step \in Queued(low \o others \o head)
    <3>1. CASE i = 1
      BY <1>10, <3>1
    <3>2. CASE i # 1
      <4>1. i - 1 \in DOMAIN rest /\ rest[i - 1] = plan[i]
        BY <1>1, <1>2, <1>4, <3>2
      <4>2. CASE rest[i - 1].step \in Queued(low)
        BY <1>10, <4>1, <4>2
      <4>3. CASE i - 1 \in O
        <5>1. PICK k \in DOMAIN others : others[k] = rest[i - 1]
          BY <1>8, <4>3
        <5>2. plan[i].step \in Queued(others)
          BY <4>1, <5>1 DEF Queued
        <5>3. QED
          BY <1>10, <5>2
      <4>4. QED
        BY <1>7, <4>1, <4>2, <4>3
    <3>3. QED
      BY <3>1, <3>2
  <2>2. QED
    BY <2>1 DEF Queued
<1>12. ASSUME NEW k \in DOMAIN low PROVE \E i \in DOMAIN plan : low[k] = plan[i] /\ i # 1
  <2>1. PICK i \in I : low[k] = rest[i]
    BY <1>8
  <2>2. QED
    BY <1>5, <1>6, <2>1
<1>13. ASSUME NEW k \in DOMAIN others
       PROVE  \E i \in DOMAIN plan : others[k] = plan[i] /\ i # 1
  <2>1. PICK i \in O : others[k] = rest[i]
    BY <1>8
  <2>2. QED
    BY <1>5, <1>6, <2>1
<1>14. ASSUME NEW k \in DOMAIN (low \o others \o head)
       PROVE  \E i \in DOMAIN plan : (low \o others \o head)[k] = plan[i]
  <2>1. \/ k \in DOMAIN (low \o others) /\ (low \o others \o head)[k] = (low \o others)[k]
        \/ (low \o others \o head)[k] = head[1]
    <3> DEFINE lo == low \o others
    <3>1. lo \in Seq(Entries) /\ k \in DOMAIN (lo \o head)
      BY <1>10, <1>14
    <3> HIDE DEF lo
    <3>2. \/ k \in DOMAIN lo /\ (lo \o head)[k] = lo[k]
          \/ k - Len(lo) \in DOMAIN head /\ (lo \o head)[k] = head[k - Len(lo)]
      BY <1>9, <3>1, Concatenated
    <3>3. QED
      BY <1>9, <3>2 DEF lo
  <2>2. CASE k \in DOMAIN (low \o others) /\ (low \o others \o head)[k] = (low \o others)[k]
    <3>1. \/ k \in DOMAIN low /\ (low \o others)[k] = low[k]
          \/ k - Len(low) \in DOMAIN others /\ (low \o others)[k] = others[k - Len(low)]
      BY <1>8, <2>2, ConcatEntry
    <3>2. CASE k \in DOMAIN low /\ (low \o others)[k] = low[k]
      BY <1>12, <2>2, <3>2
    <3>3. CASE k - Len(low) \in DOMAIN others /\ (low \o others)[k] = others[k - Len(low)]
      BY <1>13, <2>2, <3>3
    <3>4. QED
      BY <3>1, <3>2, <3>3
  <2>3. QED
    BY <1>1, <1>9, <2>1, <2>2
<1>15. ASSUME Distinct(plan) PROVE Distinct(low \o others \o head)
  <2>1. \A i, j \in DOMAIN rest : rest[i].step = rest[j].step => i = j
    <3>1. ASSUME NEW i \in DOMAIN rest, NEW j \in DOMAIN rest, rest[i].step = rest[j].step
          PROVE  i = j
      <4>1. i + 1 = j + 1
        BY <1>5, <1>15, <3>1 DEF Distinct
      <4>2. QED
        BY <1>4, <4>1
    <3>2. QED
      BY <3>1
  <2>2. Distinct(low) /\ Distinct(others)
    BY <1>6, <1>8, <2>1
  <2>3. Queued(low) \cap Queued(others) = {}
    <3>1. ASSUME NEW k \in DOMAIN others PROVE others[k].step \notin Queued(low)
      BY <1>7, <1>8
    <3>2. QED
      BY <3>1 DEF Queued
  <2>4. Distinct(low \o others)
    BY <1>8, <2>2, <2>3, ConcatQueued
  <2>5. plan[1].step \notin Queued(low) /\ plan[1].step \notin Queued(others)
    <3>1. \A i \in DOMAIN plan : i # 1 => plan[i].step # plan[1].step
      BY <1>1, <1>15 DEF Distinct
    <3>2. QED
      BY <1>12, <1>13, <3>1 DEF Queued
  <2>6. Queued(low \o others) \cap Queued(head) = {}
    BY <1>9, <1>10, <2>5
  <2>7. QED
    BY <1>9, <1>10, <2>4, <2>6, ConcatQueued
<1>16. QED
  BY <1>3, <1>10, <1>11, <1>14, <1>15

\* A step that counts nothing: the queue and the answer alone change.
LEMMA QueueStep ==
    ASSUME AgentInv,
           UNCHANGED << critic, executed, times, calls, invoked, risky, dropped, faults >>,
           UNCHANGED << good, failed, retryFailed, stale >>,
           plan' \in Seq(Entries), node' \in Nodes, response' \in Responses,
           postponed' \subseteq Steps, IsFiniteSet(postponed'),
           node' # "planner", node' = "executor" => plan' # <<>> /\ executed < MaxSteps,
           node' = "executor" => response' = "none", node' = "end" => response' # "none",
           response' = "report" => risky \subseteq dropped,
           response' = "none" => response = "none" /\ Queued(plan) \subseteq Queued(plan'),
           ~critic => /\ Distinct(plan')
                      /\ \A i \in DOMAIN plan' : Waits(plan'[i], times, stale)
    PROVE  AgentInv'
<1>1. TypesFit'
  BY DEF AgentInv, TypesFit
<1>2. GraphFits'
  BY DEF GraphFits
<1>3. CountsFit' /\ OnlyAllowedRuns'
  BY DEF AgentInv, CountsFit, OnlyAllowedRuns
<1>4. RiskFits'
  <2>1. Queued(plan)' = Queued(plan')
    BY DEF Queued
  <2>2. /\ risky \cap Allowed = {}
        /\ response' = "none" => risky \ dropped \subseteq Queued(plan')
    BY DEF AgentInv, RiskFits
  <2>3. QED
    BY <2>1, <2>2 DEF RiskFits
<1>5. RetriesFit'
  <2>1. \A s \in Steps : ~critic => RanTwice(s, times, stale, good \union retryFailed)
    BY DEF AgentInv, RetriesFit
  <2>2. \A e : Waits(e, times, stale) => Waits(e, times', stale')
    BY DEF Waits
  <2>3. \A s \in Steps : ~critic => RanTwice(s, times', stale', good' \union retryFailed')
    BY <2>1 DEF RanTwice
  <2>4. QED
    BY <2>2, <2>3 DEF RetriesFit, Distinct
<1>6. QED
  BY <1>1, <1>2, <1>3, <1>4, <1>5 DEF AgentInv

LEMMA PostponeRiskyStepKept ==
    ASSUME AgentInv, PostponeRiskyStep
    PROVE  AgentInv'
<1> DEFINE queue == PostponedPlan
<1>1. /\ node = "executor" /\ node' = "replanner" /\ plan' = queue
      /\ postponed' = postponed \union {plan[1].step}
      /\ UNCHANGED << critic, executed, times, calls, invoked, response, risky, dropped, faults >>
      /\ UNCHANGED << good, failed, retryFailed, stale >>
  BY DEF PostponeRiskyStep, PostponedPlan, invocations, evidence, history
<1>2. TypesFit /\ plan # <<>> /\ response = "none" /\ plan[1].step \in Steps
  <2>1. TypesFit /\ plan # <<>> /\ response = "none"
    BY <1>1 DEF AgentInv, GraphFits
  <2>2. 1 \in DOMAIN plan
    BY <2>1, QueueShape
  <2>3. QED
    BY <2>1, <2>2, QueueShape
<1>3. /\ queue \in Seq(Entries) /\ Queued(plan) \subseteq Queued(queue)
      /\ Distinct(plan) => Distinct(queue)
      /\ \A k \in DOMAIN queue : \E i \in DOMAIN plan : queue[k] = plan[i]
  BY <1>2, PostponedQueue
<1> HIDE DEF queue
<1>4. postponed' \subseteq Steps /\ IsFiniteSet(postponed')
  <2>1. postponed \subseteq Steps /\ IsFiniteSet(postponed)
    BY DEF AgentInv, TypesFit
  <2>2. QED
    BY <1>1, <1>2, <2>1, FS_AddElement
<1>5. ~critic => Distinct(queue) /\ \A i \in DOMAIN queue : Waits(queue[i], times, stale)
  <2>1. SUFFICES ASSUME ~critic
                 PROVE  Distinct(queue) /\ \A i \in DOMAIN queue : Waits(queue[i], times, stale)
    OBVIOUS
  <2>2. Distinct(plan) /\ \A i \in DOMAIN plan : Waits(plan[i], times, stale)
    BY <2>1 DEF AgentInv, RetriesFit
  <2>3. QED
    BY <1>3, <2>2
<1>6. node' \in Nodes /\ response' \in Responses /\ response' = "none"
  BY <1>1, <1>2 DEF Nodes, Responses
<1>7. QED
  BY <1>1, <1>2, <1>3, <1>4, <1>5, <1>6, QueueStep

LEMMA BlockRiskyStepKept ==
    ASSUME AgentInv, BlockRiskyStep
    PROVE  AgentInv'
<1>1. /\ node = "executor" /\ node' = "replanner" /\ executed' = executed + 1
      /\ response' \in {"forbidden", "approval"}
      /\ UNCHANGED << critic, plan, postponed, times, calls, invoked, risky, dropped, faults >>
      /\ UNCHANGED << good, failed, retryFailed, stale >>
  BY DEF BlockRiskyStep, GateRefuses, RiskStop, invocations, evidence, history
<1>2. executed \in Nat /\ invoked \in Nat /\ executed < MaxSteps /\ faults \in Nat
  BY <1>1 DEF AgentInv, TypesFit, CountsFit
<1>3. TypesFit'
  <2>1. executed' \in Nat /\ node' \in Nodes /\ response' \in Responses
    BY <1>1, <1>2 DEF Nodes, Responses
  <2>2. QED
    BY <1>1, <2>1 DEF AgentInv, TypesFit
<1>4. GraphFits'
  BY <1>1 DEF GraphFits
<1>5. CountsFit'
  <2> DEFINE repeats == faults * (Fanout - 1)
  <2>1. repeats \in Int /\ MaxSteps \in Nat
    BY <1>2, ConstantTypes
  <2>2. invoked <= executed + repeats /\ faults' * (Fanout - 1) = repeats
    BY <1>1 DEF AgentInv, CountsFit
  <2> HIDE DEF repeats
  <2>3. executed' <= MaxSteps /\ invoked' <= executed' + faults' * (Fanout - 1)
    BY <1>1, <1>2, <2>1, <2>2
  <2>4. QED
    BY <1>1, <2>3 DEF AgentInv, CountsFit
<1>6. OnlyAllowedRuns' /\ RiskFits'
  BY <1>1 DEF AgentInv, OnlyAllowedRuns, RiskFits
<1>7. RetriesFit'
  BY <1>1 DEF AgentInv, RetriesFit, Distinct, Waits, RanTwice
<1>8. QED
  BY <1>3, <1>4, <1>5, <1>6, <1>7 DEF AgentInv

-----------------------------------------------------------------------------
(* Steps of the replanner *)

LEMMA KeepResponseKept ==
    ASSUME AgentInv, KeepResponse
    PROVE  AgentInv'
<1>1. /\ node' = "end" /\ response # "none"
      /\ UNCHANGED << plan, response, critic, executed, postponed, times, calls, invoked >>
      /\ UNCHANGED << good, failed, retryFailed, stale, risky, dropped, faults >>
  BY DEF KeepResponse, ReplannerKeeps, invocations, evidence, history
<1>2. TypesFit' /\ GraphFits' /\ CountsFit' /\ OnlyAllowedRuns' /\ RiskFits'
  <2>1. TypesFit'
    BY <1>1 DEF AgentInv, TypesFit, Nodes
  <2>2. GraphFits'
    BY <1>1 DEF GraphFits
  <2>3. CountsFit'
    BY <1>1 DEF AgentInv, CountsFit
  <2>4. OnlyAllowedRuns' /\ RiskFits'
    BY <1>1 DEF AgentInv, OnlyAllowedRuns, RiskFits
  <2>5. QED
    BY <2>1, <2>2, <2>3, <2>4
<1>3. RetriesFit'
  BY <1>1 DEF AgentInv, RetriesFit, Distinct, Waits, RanTwice
<1>4. QED
  BY <1>2, <1>3 DEF AgentInv

\* The replanner has to decide: nothing but the queue and the answer will change.
Undecided == AgentInv /\ node = "replanner" /\ response = "none" /\ ReplannerKeeps

\* What a decision leaves as it is, and what the queue is like before it.
LEMMA DecidingShape ==
    ASSUME Undecided
    PROVE  /\ UNCHANGED << critic, executed, postponed, times, calls, invoked, risky, dropped, faults >>
           /\ UNCHANGED << good, failed, retryFailed, stale >>
           /\ plan \in Seq(Entries) /\ postponed' \subseteq Steps /\ IsFiniteSet(postponed')
           /\ ~critic => /\ Distinct(plan)
                         /\ \A i \in DOMAIN plan : Waits(plan[i], times, stale)
<1>1. /\ UNCHANGED << critic, executed, postponed, times, calls, invoked, risky, dropped, faults >>
      /\ UNCHANGED << good, failed, retryFailed, stale >>
  BY DEF Undecided, ReplannerKeeps, invocations, evidence, history
<1>2. QED
  BY <1>1 DEF Undecided, AgentInv, TypesFit, RetriesFit

\* An answer ends the run; only a report needs that nothing risky was lost without a fault.
LEMMA Responded ==
    ASSUME Undecided, NEW r \in Responses \ {"none"}, r = "report" => risky \subseteq dropped,
           Respond(r)
    PROVE  AgentInv'
<1>1. /\ response' = r /\ node' = "end" /\ plan' = plan
  BY DEF Respond
<1>2. node' \in Nodes /\ response' \in Responses
  BY <1>1 DEF Nodes
<1>3. AgentInv
  BY DEF Undecided
<1>4. QED
  BY <1>1, <1>2, <1>3, DecidingShape, QueueStep

\* The queue the run goes on with holds what was queued, and what may still run.
LEMMA WentOn ==
    ASSUME Undecided, executed < MaxSteps, NEW queue \in Seq(Entries), queue # <<>>,
           Queued(plan) \subseteq Queued(queue),
           ~critic => Distinct(queue) /\ \A i \in DOMAIN queue : Waits(queue[i], times, stale),
           GoOn(queue)
    PROVE  AgentInv'
<1>1. response' = response /\ node' = "executor" /\ plan' = queue /\ response = "none" /\ AgentInv
  BY DEF GoOn, Undecided
<1>2. node' \in Nodes /\ response' \in Responses
  BY <1>1 DEF Nodes, Responses
<1>3. QED
  BY <1>1, <1>2, DecidingShape, QueueStep

\* The gate speaks.
LEMMA GateStops ==
    ASSUME Undecided, NEW i, Respond(RiskStop(plan[i].step))
    PROVE  AgentInv'
<1>1. RiskStop(plan[i].step) \in Responses \ {"none"} /\ RiskStop(plan[i].step) # "report"
  BY DEF RiskStop, Responses
<1>2. QED
  BY <1>1, Responded

\* The gate is silent only when nothing risky is left.
LEMMA GateSilent ==
    ASSUME Undecided, extract_risk_decision(plan) = {}
    PROVE  risky \subseteq dropped
<1>1. TypesFit /\ risky \cap Allowed = {} /\ risky \ dropped \subseteq Queued(plan)
  BY DEF Undecided, AgentInv, RiskFits
<1>2. QED
  BY <1>1, GateFits

LEMMA StopAtLimitKept ==
    ASSUME AgentInv, StopAtLimit
    PROVE  AgentInv'
<1>1. Undecided
  BY DEF StopAtLimit, Undecided
<1>2. CASE extract_risk_decision(plan) = {}
  <2>1. Respond("report") /\ "report" \in Responses \ {"none"}
    BY <1>2 DEF StopAtLimit, risk_gate, Responses
  <2>2. QED
    BY <1>1, <1>2, <2>1, GateSilent, Responded
<1>3. CASE extract_risk_decision(plan) # {}
  BY <1>1, <1>3, GateStops DEF StopAtLimit, risk_gate
<1>4. QED
  BY <1>2, <1>3

Decisions == {"generate_report", "retry_failed_tool", "add_steps", "escalate_to_human",
              "request_approval", "continue_investigation"}

\* What every decision of the replanner is good for.
SoundDecision(d) ==
    /\ d.decision \in Decisions /\ d.new \in Seq(Entries)
    /\ d.decision = "retry_failed_tool" => d.new # <<>>
    /\ d.decision = "continue_investigation" => plan # <<>>

\* What the decision of the analysis alone is good for: a retry is the first one.
PlainDecision(d) ==
    /\ d.decision = "add_steps" => \A i \in DOMAIN d.new : ~d.new[i].retry
    /\ d.decision = "retry_failed_tool" => \A i \in DOMAIN d.new : Waits(d.new[i], times, stale)

\* The retry of a failed step is its first, unless the answers to its retries were unusable.
LEMMA RetrySound ==
    ASSUME AgentInv, NEW s \in build_retry_steps
    PROVE  /\ <<[step |-> s, retry |-> TRUE]>> \in Seq(Entries)
           /\ \A i \in DOMAIN <<[step |-> s, retry |-> TRUE]>> :
                 ~critic => Waits(<<[step |-> s, retry |-> TRUE]>>[i], times, stale)
<1> DEFINE e == [step |-> s, retry |-> TRUE]
<1>1. s \in failed /\ s \notin good \union retryFailed /\ s \in Steps
  <2>1. s \in failed /\ s \notin good \union retryFailed
    BY DEF build_retry_steps, Names
  <2>2. s \in Allowed \union dropped /\ dropped \subseteq Steps
    BY <2>1 DEF AgentInv, CountsFit, TypesFit
  <2>3. QED
    BY <2>1, <2>2 DEF Allowed
<1>2. e \in Entries /\ e.step = s /\ e.retry = TRUE
  BY <1>1 DEF Entries
<1>3. ~critic => Waits(e, times, stale)
  <2>1. ~critic => RanTwice(s, times, stale, good \union retryFailed)
    BY <1>1 DEF AgentInv, RetriesFit
  <2>2. ~critic => s \in stale \/ times[s] <= 1
    BY <1>1, <2>1 DEF RanTwice
  <2> HIDE DEF e
  <2>3. QED
    BY <1>2, <2>2 DEF Waits
<1> HIDE DEF e
<1>4. <<e>> \in Seq(Entries) /\ DOMAIN <<e>> = {1} /\ <<e>>[1] = e
  BY <1>2
<1>5. \A i \in DOMAIN <<e>> : ~critic => Waits(<<e>>[i], times, stale)
  BY <1>3, <1>4
<1>6. QED
  BY <1>4, <1>5 DEF e

\* The steps a model proposes, as the steps a decision adds.
LEMMA ProposedSound ==
    ASSUME NEW S \in SUBSET Steps, NEW q \in Proposals(S, MaxNew), NEW retry \in BOOLEAN
    PROVE  /\ AsEntries(q, retry) \in Seq(Entries) /\ AsEntries(q, retry) # <<>>
           /\ \A i \in DOMAIN AsEntries(q, retry) : AsEntries(q, retry)[i].retry = retry
<1>1. MaxNew \in Nat
  BY AgentAssumption
<1>2. FitEntries(AsEntries(q, retry), q, retry)
  BY <1>1, EntriesOf
<1>3. QED
  BY <1>2 DEF FitEntries

\* Every conclusion of the analysis is a sound decision, and without the critic a plain one.
LEMMA AnalysisSound ==
    ASSUME AgentInv, NEW analysis \in analyze_evidence
    PROVE  SoundDecision(analysis) /\ (~critic => PlainDecision(analysis))
<1>1. CASE build_retry_steps # {}
  <2>1. PICK s \in build_retry_steps :
           analysis = [decision |-> "retry_failed_tool",
                       new |-> <<[step |-> s, retry |-> TRUE]>>, sufficient |-> FALSE]
    BY <1>1 DEF analyze_evidence
  <2> DEFINE one == <<[step |-> s, retry |-> TRUE]>>
  <2>2. one \in Seq(Entries) /\ \A i \in DOMAIN one : ~critic => Waits(one[i], times, stale)
    BY RetrySound
  <2>3. one # <<>>
    OBVIOUS
  <2>4. analysis.decision = "retry_failed_tool" /\ analysis.new = one
    BY <2>1
  <2> HIDE DEF one
  <2>5. QED
    BY <2>2, <2>3, <2>4 DEF SoundDecision, PlainDecision, Decisions
<1>2. CASE build_retry_steps = {}
  <2> DEFINE missing == {s \in Allowed : ToolOf[s] = "query" /\ NameOf[s] \notin Names(good)}
  <2>1. \/ /\ analysis.decision \in
                 {"generate_report", "escalate_to_human", "continue_investigation"}
           /\ analysis.decision = "continue_investigation" => plan # <<>>
           /\ analysis.new = <<>>
        \/ \E q \in Proposals(missing, MaxNew) :
              analysis = [decision |-> "add_steps", new |-> [i \in DOMAIN q |-> Entry(q[i])],
                          sufficient |-> FALSE]
    <3>1. CASE plan # <<>>
      BY <1>2, <3>1 DEF analyze_evidence
    <3>2. CASE plan = <<>>
      <4> DEFINE adding == {[decision |-> "add_steps", new |-> [i \in DOMAIN q |-> Entry(q[i])],
                             sufficient |-> FALSE] : q \in Proposals(missing, MaxNew)}
                 ending == {[decision |-> "escalate_to_human", new |-> <<>>, sufficient |-> FALSE]}
                 report == {[decision |-> "generate_report", new |-> <<>>, sufficient |-> b] :
                              b \in {b \in BOOLEAN : b => good # {}}}
      <4>1. analysis \in ending \union report \union adding
        BY <1>2, <3>2, Zenon DEF analyze_evidence
      <4>2. CASE analysis \in ending \union report
        BY <4>2
      <4>3. CASE analysis \in adding
        BY <4>3, Zenon
      <4>4. QED
        BY <4>1, <4>2, <4>3
    <3>3. QED
      BY <3>1, <3>2
  <2>2. CASE /\ analysis.decision \in
                   {"generate_report", "escalate_to_human", "continue_investigation"}
             /\ analysis.decision = "continue_investigation" => plan # <<>>
             /\ analysis.new = <<>>
    <3>1. <<>> \in Seq(Entries)
      OBVIOUS
    <3>2. QED
      BY <2>2, <3>1 DEF SoundDecision, PlainDecision, Decisions
  <2>3. CASE \E q \in Proposals(missing, MaxNew) :
               analysis = [decision |-> "add_steps", new |-> [i \in DOMAIN q |-> Entry(q[i])],
                           sufficient |-> FALSE]
    <3>1. PICK q \in Proposals(missing, MaxNew) :
             analysis = [decision |-> "add_steps", new |-> [i \in DOMAIN q |-> Entry(q[i])],
                         sufficient |-> FALSE]
      BY <2>3
    <3>2. missing \in SUBSET Steps
      BY DEF Allowed
    <3> HIDE DEF missing
    <3>3. PICK no \in BOOLEAN : no = FALSE
      OBVIOUS
    <3>4. analysis.decision = "add_steps" /\ analysis.new = AsEntries(q, no)
      BY <3>1, <3>3 DEF AsEntries, Entry
    <3>5. /\ AsEntries(q, no) \in Seq(Entries)
          /\ \A i \in DOMAIN AsEntries(q, no) : AsEntries(q, no)[i].retry = no
      BY <3>2, ProposedSound
    <3>6. \A i \in DOMAIN AsEntries(q, no) : ~AsEntries(q, no)[i].retry
      BY <3>3, <3>5
    <3>7. QED
      BY <3>4, <3>5, <3>6 DEF SoundDecision, PlainDecision, Decisions
  <2>4. QED
    BY <2>1, <2>2, <2>3
<1>3. QED
  BY <1>1, <1>2

\* What the critic may answer never goes on with an empty queue either.
LEMMA CriticSound ==
    ASSUME NEW analysis, NEW d \in normalize_llm_replan_decision(analysis)
    PROVE  SoundDecision(d)
<1> DEFINE answer(x, q, retry) ==
              [decision |-> x, new |-> [i \in DOMAIN q |-> [step |-> q[i], retry |-> retry]],
               sufficient |-> analysis.sufficient]
           sound == {"request_approval", "escalate_to_human"}
                      \union (IF analysis.sufficient THEN {"generate_report"} ELSE {})
                      \union (IF plan # <<>> THEN {"continue_investigation"} ELSE {})
           extending == {"add_steps"} \union (IF failed # {} THEN {"retry_failed_tool"} ELSE {})
<1>1. /\ \A x \in sound : /\ x \in Decisions \ {"add_steps", "retry_failed_tool"}
                          /\ x = "continue_investigation" => plan # <<>>
      /\ \A x \in extending : x \in {"add_steps", "retry_failed_tool"}
  BY DEF Decisions
<1>2. \/ \E x \in sound : d = answer(x, <<>>, FALSE)
      \/ \E x \in extending, q \in Proposals(Allowed, MaxNew), retry \in BOOLEAN :
            d = answer(x, q, retry)
  BY DEF normalize_llm_replan_decision
<1> HIDE DEF sound, extending
<1>3. CASE \E x \in sound : d = answer(x, <<>>, FALSE)
  <2>1. PICK x \in sound : d = answer(x, <<>>, FALSE)
    BY <1>3
  <2>2. d.decision = x /\ d.new = <<>>
    <3>1. [i \in DOMAIN <<>> |-> [step |-> (<<>>)[i], retry |-> FALSE]] = <<>>
      OBVIOUS
    <3>2. QED
      BY <2>1, <3>1
  <2>3. <<>> \in Seq(Entries)
    OBVIOUS
  <2>4. QED
    BY <1>1, <2>2, <2>3 DEF SoundDecision
<1>4. CASE \E x \in extending, q \in Proposals(Allowed, MaxNew), retry \in BOOLEAN :
             d = answer(x, q, retry)
  <2>1. PICK x \in extending, q \in Proposals(Allowed, MaxNew), retry \in BOOLEAN :
           d = answer(x, q, retry)
    BY <1>4
  <2>2. d.decision = x /\ d.new = AsEntries(q, retry)
    BY <2>1 DEF AsEntries
  <2>3. Allowed \in SUBSET Steps
    BY DEF Allowed
  <2>4. AsEntries(q, retry) \in Seq(Entries) /\ AsEntries(q, retry) # <<>>
    BY <2>3, ProposedSound
  <2>5. x \in {"add_steps", "retry_failed_tool"}
    BY <1>1
  <2>6. QED
    BY <2>2, <2>4, <2>5 DEF SoundDecision, Decisions
<1>5. QED
  BY <1>2, <1>3, <1>4

\* The queue after a replanning waits, if what it adds does.
LEMMA ReplannedWaits ==
    ASSUME Undecided, NEW new \in Seq(Entries), NEW duplicates \in BOOLEAN, NEW queue,
           queue = steps_with_remaining_plan(new, duplicates),
           ~critic => \A i \in DOMAIN new :
                         duplicates \/ times[new[i].step] = 0 => Waits(new[i], times, stale)
    PROVE  /\ queue \in Seq(Entries) /\ Queued(plan) \subseteq Queued(queue)
           /\ ~critic => /\ Distinct(queue)
                         /\ \A k \in DOMAIN queue : Waits(queue[k], times, stale)
           /\ duplicates /\ new # <<>> => queue # <<>>
<1>1. TypesFit
  BY DEF Undecided, AgentInv
<1>2. /\ queue \in Seq(Entries) /\ Distinct(queue) /\ Queued(plan) \subseteq Queued(queue)
      /\ duplicates => Queued(new) \subseteq Queued(queue)
      /\ \A k \in DOMAIN queue :
            \/ \E i \in DOMAIN plan : queue[k] = plan[i]
            \/ \E i \in DOMAIN new : queue[k] = new[i] /\ (duplicates \/ times[new[i].step] = 0)
  BY <1>1, Replanned
<1>3. ~critic => \A i \in DOMAIN plan : Waits(plan[i], times, stale)
  BY DecidingShape
<1>4. ~critic => \A k \in DOMAIN queue : Waits(queue[k], times, stale)
  BY <1>2, <1>3
<1>5. ASSUME duplicates, new # <<>> PROVE queue # <<>>
  <2>1. 1 \in DOMAIN new
    BY <1>5
  <2>2. new[1].step \in Queued(new)
    BY <2>1 DEF Queued
  <2>3. PICK k \in DOMAIN queue : queue[k].step = new[1].step
    BY <1>2, <1>5, <2>2 DEF Queued
  <2>4. QED
    BY <2>3
<1>6. QED
  BY <1>2, <1>4, <1>5

\* A sound decision of any kind keeps the invariant.
LEMMA DecisionKept ==
    ASSUME Undecided, NEW d, SoundDecision(d), ~critic => PlainDecision(d), Deciding(d)
    PROVE  AgentInv'
<1>1. /\ d.decision \in Decisions /\ d.new \in Seq(Entries)
      /\ d.decision = "retry_failed_tool" => d.new # <<>>
      /\ d.decision = "continue_investigation" => plan # <<>>
  BY DEF SoundDecision
<1>2. executed < MaxSteps /\ AgentInv
  <2>1. executed_step_count < MaxSteps /\ TypesFit
    BY DEF Deciding, Undecided, AgentInv
  <2>2. executed_step_count \in Nat /\ executed <= executed_step_count /\ executed \in Nat
    BY <2>1, CountShape DEF TypesFit
  <2>3. QED
    BY <2>1, <2>2, ConstantTypes DEF Undecided
<1>3. \A r \in {"report", "escalated", "approval"} : r \in Responses \ {"none"}
  BY DEF Responses
<1>4. CASE d.decision = "generate_report"
  <2>1. risk_gate(Respond("report"))
    BY <1>4 DEF Deciding
  <2>2. CASE extract_risk_decision(plan) = {}
    <3>1. Respond("report")
      BY <2>1, <2>2 DEF risk_gate
    <3>2. QED
      BY <1>3, <2>2, <3>1, GateSilent, Responded
  <2>3. CASE extract_risk_decision(plan) # {}
    BY <2>1, <2>3, GateStops DEF risk_gate
  <2>4. QED
    BY <2>2, <2>3
<1>5. CASE d.decision = "request_approval"
  <2>1. risk_gate(Respond("approval"))
    BY <1>5 DEF Deciding
  <2>2. CASE extract_risk_decision(plan) = {}
    <3>1. Respond("approval") /\ "approval" # "report"
      BY <2>1, <2>2 DEF risk_gate
    <3>2. QED
      BY <1>3, <3>1, Responded
  <2>3. CASE extract_risk_decision(plan) # {}
    BY <2>1, <2>3, GateStops DEF risk_gate
  <2>4. QED
    BY <2>2, <2>3
<1>6. CASE d.decision = "continue_investigation"
  <2>1. risk_gate(GoOn(plan)) /\ plan # <<>>
    BY <1>1, <1>6 DEF Deciding
  <2>2. CASE extract_risk_decision(plan) = {}
    <3>1. GoOn(plan)
      BY <2>1, <2>2 DEF risk_gate
    <3>2. /\ plan \in Seq(Entries) /\ Queued(plan) \subseteq Queued(plan)
          /\ ~critic => Distinct(plan) /\ \A i \in DOMAIN plan : Waits(plan[i], times, stale)
      BY DecidingShape
    <3>3. QED
      BY <1>2, <2>1, <3>1, <3>2, WentOn
  <2>3. CASE extract_risk_decision(plan) # {}
    BY <2>1, <2>3, GateStops DEF risk_gate
  <2>4. QED
    BY <2>2, <2>3
<1>7. CASE d.decision = "escalate_to_human"
  <2>1. Respond("escalated") /\ "escalated" # "report"
    BY <1>7 DEF Deciding
  <2>2. QED
    BY <1>3, <2>1, Responded
<1>8. CASE d.decision = "retry_failed_tool"
  <2>1. PICK again \in BOOLEAN : again = TRUE
    OBVIOUS
  <2> DEFINE queue == steps_with_remaining_plan(d.new, again)
  <2>2. GoOn(queue)
    BY <1>8, <2>1 DEF Deciding
  <2>3. ~critic => \A i \in DOMAIN d.new :
                      again \/ times[d.new[i].step] = 0 => Waits(d.new[i], times, stale)
    BY <1>8 DEF PlainDecision
  <2>4. /\ queue \in Seq(Entries) /\ Queued(plan) \subseteq Queued(queue)
        /\ ~critic => /\ Distinct(queue)
                      /\ \A k \in DOMAIN queue : Waits(queue[k], times, stale)
        /\ queue # <<>>
    BY <1>1, <1>8, <2>1, <2>3, ReplannedWaits
  <2> HIDE DEF queue
  <2>5. QED
    BY <1>2, <2>2, <2>4, WentOn
<1>9. CASE d.decision = "add_steps"
  <2>1. PICK again \in BOOLEAN : again = FALSE
    OBVIOUS
  <2> DEFINE queue == steps_with_remaining_plan(d.new, again)
  <2>2. IF queue = <<>> THEN Respond("escalated") ELSE GoOn(queue)
    BY <1>9, <2>1 DEF Deciding
  <2>3. ~critic => \A i \in DOMAIN d.new :
                      again \/ times[d.new[i].step] = 0 => Waits(d.new[i], times, stale)
    BY <1>9, <2>1 DEF PlainDecision, Waits
  <2>4. /\ queue \in Seq(Entries) /\ Queued(plan) \subseteq Queued(queue)
        /\ ~critic => /\ Distinct(queue)
                      /\ \A k \in DOMAIN queue : Waits(queue[k], times, stale)
    BY <1>1, <2>3, ReplannedWaits
  <2> HIDE DEF queue
  <2>5. CASE queue = <<>>
    <3>1. Respond("escalated") /\ "escalated" # "report"
      BY <2>2, <2>5
    <3>2. QED
      BY <1>3, <3>1, Responded
  <2>6. CASE queue # <<>>
    BY <1>2, <2>2, <2>4, <2>6, WentOn
  <2>7. QED
    BY <2>5, <2>6
<1>10. QED
  BY <1>1, <1>4, <1>5, <1>6, <1>7, <1>8, <1>9 DEF Decisions

LEMMA ReplanKept ==
    ASSUME AgentInv, Replan
    PROVE  AgentInv'
<1>1. PICK analysis \in analyze_evidence :
         \E d \in decide_with_llm_or_analysis(analysis) : Deciding(d)
  BY DEF Replan
<1>2. PICK d \in decide_with_llm_or_analysis(analysis) : Deciding(d)
  BY <1>1
<1>3. Undecided
  BY <1>2 DEF Deciding, Undecided
<1>4. \/ d = analysis
      \/ critic /\ d \in normalize_llm_replan_decision(analysis)
  BY DEF decide_with_llm_or_analysis
<1>5. SoundDecision(d) /\ (~critic => PlainDecision(d))
  BY <1>4, AnalysisSound, CriticSound
<1>6. QED
  BY <1>2, <1>3, <1>5, DecisionKept

-----------------------------------------------------------------------------
(* The invariant, and the properties it carries *)

LEMMA AgentInvInit == Init => AgentInv
<1> SUFFICES ASSUME Init PROVE AgentInv
  OBVIOUS
<1>1. /\ critic \in Critics /\ node = "planner" /\ plan = <<>> /\ executed = 0 /\ postponed = {}
      /\ times = [s \in Steps |-> 0] /\ calls = [s \in Steps |-> 0] /\ invoked = 0
      /\ good = {} /\ failed = {} /\ retryFailed = {} /\ stale = {}
      /\ response = "none" /\ risky = {} /\ dropped = {} /\ faults = 0
  BY DEF Init
<1>2. \A s \in Steps : times[s] = 0 /\ calls[s] = 0
  BY <1>1
<1>3. times \in [Steps -> Nat] /\ calls \in [Steps -> Nat]
  BY <1>1
<1>4. TypesFit
  <2>1. plan \in Seq(Entries) /\ IsFiniteSet(postponed)
    BY <1>1, FS_EmptySet
  <2>2. critic \in BOOLEAN /\ faults \in 0..MaxFaults
    BY <1>1, ConstantTypes
  <2>3. QED
    BY <1>1, <1>3, <2>1, <2>2 DEF TypesFit, Nodes, Responses
<1>5. GraphFits
  BY <1>1, <1>2 DEF GraphFits
<1>6. CountsFit
  <2>1. Allowed \subseteq Steps
    BY DEF Allowed
  <2>2. QED
    BY <1>1, <1>2, <2>1, ConstantTypes DEF CountsFit
<1>7. OnlyAllowedRuns /\ RiskFits
  BY <1>1, <1>2 DEF OnlyAllowedRuns, RiskFits
<1>8. RetriesFit
  <2>1. DOMAIN plan = {}
    BY <1>1
  <2>2. QED
    BY <1>2, <2>1 DEF RetriesFit, Distinct, RanTwice
<1>9. QED
  BY <1>4, <1>5, <1>6, <1>7, <1>8 DEF AgentInv

LEMMA AgentInvStep == AgentInv /\ [Next]_vars => AgentInv'
<1> SUFFICES ASSUME AgentInv, [Next]_vars PROVE AgentInv'
  OBVIOUS
<1>1. CASE UNCHANGED vars
  <2>1. /\ UNCHANGED << critic, node, plan, executed, postponed, times, calls, invoked >>
        /\ UNCHANGED << good, failed, retryFailed, stale, response, risky, dropped, faults >>
    BY <1>1 DEF vars
  <2>2. TypesFit' /\ GraphFits'
    BY <2>1 DEF AgentInv, TypesFit, GraphFits
  <2>3. CountsFit' /\ OnlyAllowedRuns' /\ RiskFits'
    BY <2>1 DEF AgentInv, CountsFit, OnlyAllowedRuns, RiskFits
  <2>4. RetriesFit'
    BY <2>1 DEF AgentInv, RetriesFit, Distinct, Waits, RanTwice
  <2>5. QED
    BY <2>2, <2>3, <2>4 DEF AgentInv
<1>2. CASE Planner
  BY <1>2, PlannerKept
<1>3. CASE ExecuteSteps
  BY <1>3, ExecuteStepsKept
<1>4. CASE ExecutionRaises
  BY <1>4, ExecutionRaisesKept
<1>5. CASE PostponeRiskyStep
  BY <1>5, PostponeRiskyStepKept
<1>6. CASE BlockRiskyStep
  BY <1>6, BlockRiskyStepKept
<1>6a. CASE GateRaises
  BY <1>6a, GateRaisesKept
<1>7. CASE KeepResponse
  BY <1>7, KeepResponseKept
<1>8. CASE StopAtLimit
  BY <1>8, StopAtLimitKept
<1>9. CASE Replan
  BY <1>9, ReplanKept
<1>10. CASE Ended
  BY <1>1, <1>10 DEF Ended
<1>11. QED
  BY <1>1, <1>2, <1>3, <1>4, <1>5, <1>6, <1>6a, <1>7, <1>8, <1>9, <1>10 DEF Next

\* The inductive invariant holds of every run of the loop.
THEOREM AgentInvHolds == AgentSpec => []AgentInv
<1>1. QED
  BY AgentInvInit, AgentInvStep, PTL DEF AgentSpec

\* Every value keeps its type, the executor always has a step to take, a run that ends has
\* an answer, and a step with a verdict was really invoked, unless it is a refused one whose
\* refusal could not be stored.
THEOREM AgentTypeHolds == AgentSpec => []AgentTypeOK
<1>1. AgentInv => AgentTypeOK
  <2> SUFFICES ASSUME AgentInv PROVE AgentTypeOK
    OBVIOUS
  <2>1. ASSUME NEW s \in good \union stale \union ((failed \union retryFailed) \ dropped)
        PROVE  calls[s] >= times[s] /\ times[s] > 0
    <3>1. s \in Steps /\ times[s] > 0 /\ times[s] <= calls[s]
      BY DEF AgentInv, CountsFit, Allowed
    <3>2. times[s] \in Nat /\ calls[s] \in Nat
      BY <3>1 DEF AgentInv, TypesFit
    <3>3. QED
      BY <3>1, <3>2
  <2>2. TypesFit /\ (node = "executor" => plan # <<>>) /\ (node = "end" => response # "none")
    BY DEF AgentInv, GraphFits
  <2>3. QED
    BY <2>1, <2>2 DEF AgentTypeOK, TypesFit
<1>2. QED
  BY <1>1, AgentInvHolds, PTL

\* However the plan is replanned, retried or batched, the run counts at most MaxSteps steps,
\* and invokes no more tools than that but for batches whose records were lost.
THEOREM BudgetKeptHolds == AgentSpec => []BudgetKept
<1>1. AgentInv => BudgetKept
  <2> SUFFICES ASSUME AgentInv PROVE BudgetKept
    OBVIOUS
  <2> DEFINE repeats == faults * (Fanout - 1)
  <2>1. executed <= MaxSteps /\ invoked <= executed + repeats
    BY DEF AgentInv, CountsFit
  <2>2. executed \in Nat /\ invoked \in Nat /\ MaxSteps \in Nat /\ faults \in Nat /\ Fanout \in Nat
    BY ConstantTypes DEF AgentInv, TypesFit
  <2>3. repeats \in Int
    BY <2>2
  <2> HIDE DEF repeats
  <2>4. executed <= MaxSteps /\ invoked <= MaxSteps + repeats
    BY <2>1, <2>2, <2>3
  <2>5. QED
    BY <2>4 DEF BudgetKept, repeats
<1>2. QED
  BY <1>1, AgentInvHolds, PTL

\* No tool that changes the system, and none whose text asks for such a change, is ever
\* invoked, whatever a model proposes.
THEOREM NothingRiskyRunsHolds == AgentSpec => []NothingRiskyRuns
<1>1. AgentInv => NothingRiskyRuns
  <2> SUFFICES ASSUME AgentInv, NEW s \in Steps, calls[s] > 0
               PROVE  /\ ToolOf[s] \in {"query", "manual_analysis", "suggest_remediation"}
                      /\ TextOf[s] # "forbidden"
                      /\ ToolOf[s] = "manual_analysis" => TextOf[s] = "plain" /\ LevelOf[s] # "high"
    BY DEF NothingRiskyRuns
  <2>1. assess_plan_step(s) = "allow"
    BY DEF AgentInv, OnlyAllowedRuns, Allowed
  <2>2. ~matched_forbidden_rules(s) /\ ~matched_approval_rules(s)
    BY <2>1 DEF assess_plan_step
  <2>3. TextOf[s] \in Texts
    BY ConstantTypes
  <2>4. QED
    BY <2>2, <2>3 DEF matched_forbidden_rules, matched_approval_rules, resolve_read_only, Texts
<1>2. QED
  BY <1>1, AgentInvHolds, PTL

\* A run whose plan held steps that may not run by themselves ends in a plain report only if
\* the gate refused every one of them and could not store the refusal.
THEOREM RiskNeverSkippedHolds == AgentSpec => []RiskNeverSkipped
<1>1. AgentInv => RiskNeverSkipped
  BY DEF AgentInv, RiskFits, RiskNeverSkipped
<1>2. QED
  BY <1>1, AgentInvHolds, PTL

\* Without the LLM critic a step whose retry did not return unusable data runs twice at most.
THEOREM RetriedOnceHolds == AgentSpec => []RetriedOnce
<1>1. AgentInv => RetriedOnce
  <2> SUFFICES ASSUME AgentInv, ~critic, NEW s \in Steps \ stale PROVE times[s] <= 2
    BY DEF RetriedOnce
  <2>1. RanTwice(s, times, stale, good \union retryFailed) /\ times[s] \in Nat
    BY DEF AgentInv, RetriesFit, TypesFit
  <2>2. QED
    BY <2>1 DEF RanTwice
<1>2. QED
  BY <1>1, AgentInvHolds, PTL
=============================================================================
