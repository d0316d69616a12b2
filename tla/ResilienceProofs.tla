-------------------------- MODULE ResilienceProofs --------------------------
(***************************************************************************)
(* Proofs of the safety properties of the breaker, the retries and the     *)
(* worker slots, for every set of callers, every assignment of kinds to    *)
(* them and every threshold, budget, delay and number of slots.            *)
(***************************************************************************)
EXTENDS Resilience, FiniteSetTheorems, TLAPS

-----------------------------------------------------------------------------
(* The inductive invariant *)

InPool == {"queued", "running"}

\* The work that holds a permit.
Busy == {c \in Callers : work[c] \in InPool}

\* When the wait a call of kind k is in, and so the call as far as it is known, is over.
Due(j, k) ==
    CASE k = "bounded" -> Budget
      [] k = "stream" -> Budget + (IF j.pc = "sleep" THEN j.attempt ELSE j.attempt - 1) * Delay
      [] k = "async" -> IF j.pc = "sleep" THEN 2 * Budget ELSE Budget
      [] OTHER -> IF j.pc = "call" THEN 2 * Budget ELSE Budget

\* A wait ends no later than Due, and is not overslept.
InTime(j, k) ==
    /\ j.pc = "idle" => j.elapsed = 0
    /\ j.pc # "idle" =>
          /\ j.attempt >= 1
          /\ j.waited <= j.limit
          /\ j.elapsed + j.limit <= Due(j, k) + j.waited
          /\ k # "stream" => j.limit <= Budget
          /\ j.pc = "sleep" => j.attempt < MaxAttempts

\* Only blocking callers submit work, and they do not look for a permit, nor sleep, while
\* they have some.
OwnWork(j, k, w) ==
    /\ j.pc \in {"acquire", "sleep"} => w = "none"
    /\ k \in {"async", "stream"} => w = "none" /\ j.pc # "acquire"
    /\ k = "bounded" => j.pc # "sleep"

\* Every permit is free or held by work, but for those of work cancelled before it started.
PoolFits ==
    /\ IsFiniteSet(Busy)
    /\ free + Cardinality(Busy) <= Slots
    /\ abandoned = 0 => free + Cardinality(Busy) = Slots

CallsFit == \A c \in Callers : InTime(call[c], kind[c]) /\ OwnWork(call[c], kind[c], work[c])

ResilienceInv == BreakerSound /\ CallsFit /\ PoolFits

-----------------------------------------------------------------------------
(* Arithmetic *)

\* 2^n counts the subsets of a set of n elements.
LEMMA PowerType ==
    ASSUME NEW n \in Nat
    PROVE  2 ^ n \in Nat
<1>1. IsFiniteSet(1..n) /\ Cardinality(1..n) = n
  BY FS_Interval
<1>2. IsFiniteSet(SUBSET (1..n)) /\ Cardinality(SUBSET (1..n)) = 2 ^ n
  BY <1>1, FS_SUBSET
<1>3. QED
  BY <1>2, FS_CardinalityType

LEMMA Delays ==
    ASSUME NEW m \in Nat, NEW n \in Nat
    PROVE  /\ m * Delay \in Nat
           /\ (m + 1) * Delay = m * Delay + Delay
           /\ m <= n => m * Delay <= n * Delay
BY ResilienceAssumption

\* The delays of all attempts but the last, and the length of the longest call.
LEMMA LongestType ==
    /\ (MaxAttempts - 1) * Delay \in Nat
    /\ Longest \in Nat /\ Longest = 2 * Budget + (MaxAttempts - 1) * Delay
<1>1. MaxAttempts - 1 \in Nat
  BY ResilienceAssumption
<1>2. (MaxAttempts - 1) * Delay \in Nat
  BY <1>1, Delays
<1>3. QED
  BY <1>2, ResilienceAssumption DEF Longest

\* What a call in time has left to wait ends within CallsBounded's limits.
LEMMA DueBounded ==
    ASSUME NEW j, NEW k \in {"async", "stream", "sync", "bounded"},
           j.attempt \in 1..MaxAttempts, j.pc = "sleep" => j.attempt < MaxAttempts
    PROVE  /\ Due(j, k) \in 0..Longest
           /\ Due(j, k) <= CASE k = "bounded" -> Budget
                             [] k = "stream" -> Budget + (MaxAttempts - 1) * Delay
                             [] OTHER -> 2 * Budget
<1> DEFINE d == (MaxAttempts - 1) * Delay
<1>1. d \in Nat /\ Longest = 2 * Budget + d /\ Budget \in Nat
  BY LongestType, ResilienceAssumption
<1>2. CASE k # "stream"
  <2> HIDE DEF d
  <2>1. QED
    BY <1>1, <1>2 DEF Due
<1>3. CASE k = "stream"
  <2> DEFINE n == IF j.pc = "sleep" THEN j.attempt ELSE j.attempt - 1
  <2>1. n \in Nat /\ MaxAttempts - 1 \in Nat /\ n <= MaxAttempts - 1
    BY ResilienceAssumption
  <2>2. n * Delay \in Nat /\ n * Delay <= d
    <3> HIDE DEF n
    <3>1. QED
      BY <2>1, Delays
  <2>3. Due(j, k) = Budget + n * Delay
    BY <1>3 DEF Due
  <2> HIDE DEF d, n
  <2>4. QED
    <3>1. (CASE k = "bounded" -> Budget
             [] k = "stream" -> Budget + (MaxAttempts - 1) * Delay
             [] OTHER -> 2 * Budget) = Budget + d
      BY <1>3 DEF d
    <3>2. Due(j, k) \in 0..Longest /\ Due(j, k) <= Budget + d
      BY <1>1, <2>2, <2>3
    <3>3. QED
      BY <3>1, <3>2
<1>4. QED
  BY <1>2, <1>3

-----------------------------------------------------------------------------
(* The breaker *)

BreakerFits(b) ==
    /\ b \in Breaker
    /\ b.state = "closed" => b.failures < Threshold
    /\ b.probe => b.state = "half_open"

LEMMA FailureKeeps ==
    ASSUME NEW b, BreakerFits(b)
    PROVE  BreakerFits(record_failure(b))
<1> DEFINE counted == [b EXCEPT !.failures = Smaller(b.failures + 1, Threshold),
                                !.probe = FALSE]
<1>1. b \in Breaker /\ b.failures \in 0..Threshold
  BY DEF BreakerFits, Breaker
<1>2. Smaller(b.failures + 1, Threshold) \in 0..Threshold
  BY <1>1, ResilienceAssumption DEF Smaller
<1>3. /\ counted \in Breaker /\ counted.probe = FALSE /\ counted.state = b.state
      /\ counted.failures \in 0..Threshold
  BY <1>1, <1>2 DEF Breaker
<1>4. record_failure(b) = IF b.state = "half_open" \/ counted.failures = Threshold
                            THEN Open(counted) ELSE counted
  BY DEF record_failure
<1> HIDE DEF counted
<1>5. CASE b.state = "half_open" \/ counted.failures = Threshold
  <2>1. 0 \in 0..Recovery
    BY ResilienceAssumption
  <2>2. /\ Open(counted) \in Breaker /\ Open(counted).state = "open"
        /\ Open(counted).probe = FALSE
    BY <1>3, <2>1 DEF Open, Breaker
  <2>3. QED
    BY <1>4, <1>5, <2>2 DEF BreakerFits
<1>6. CASE ~(b.state = "half_open" \/ counted.failures = Threshold)
  BY <1>3, <1>4, <1>6, ResilienceAssumption DEF BreakerFits
<1>7. QED
  BY <1>5, <1>6

LEMMA SuccessKeeps ==
    ASSUME NEW b, BreakerFits(b)
    PROVE  BreakerFits(record_success(b))
<1>1. 0 \in 0..Threshold /\ 0 < Threshold
  BY ResilienceAssumption
<1>2. /\ record_success(b) \in Breaker
      /\ record_success(b).failures = 0 /\ record_success(b).probe = FALSE
  BY <1>1 DEF record_success, BreakerFits, Breaker
<1>3. QED
  BY <1>1, <1>2 DEF BreakerFits

LEMMA ReleaseKeeps ==
    ASSUME NEW b, BreakerFits(b)
    PROVE  BreakerFits(release_request(b)) /\ BreakerFits(record_non_retryable_failure(b))
<1>1. BreakerFits([b EXCEPT !.probe = FALSE])
  BY DEF BreakerFits, Breaker
<1>2. QED
  BY <1>1, FailureKeeps DEF release_request, record_non_retryable_failure

LEMMA AdmittedKeeps ==
    ASSUME NEW b, BreakerFits(b)
    PROVE  BreakerFits(Admitted(b))
<1> DEFINE r == Recovered(b)
<1>1. /\ r \in Breaker /\ r.failures = b.failures /\ r.probe = b.probe
      /\ r.state = b.state \/ r.state = "half_open"
  BY DEF Recovered, BreakerFits, Breaker
<1>2. Admitted(b) = [r EXCEPT !.probe = r.probe \/ r.state = "half_open"]
  BY DEF Admitted
<1> HIDE DEF r
<1>3. /\ Admitted(b) \in Breaker /\ Admitted(b).state = r.state
      /\ Admitted(b).failures = r.failures
      /\ Admitted(b).probe = (r.probe \/ r.state = "half_open")
  <2>1. (r.probe \/ r.state = "half_open") \in BOOLEAN
    OBVIOUS
  <2>2. QED
    BY <1>1, <1>2, <2>1 DEF Breaker
<1>4. r.probe => r.state = "half_open"
  BY <1>1 DEF BreakerFits
<1>5. r.state = "closed" => r.failures < Threshold
  BY <1>1 DEF BreakerFits
<1>6. QED
  BY <1>3, <1>4, <1>5 DEF BreakerFits

\* Whatever a call reports.
LEMMA ReportKeeps ==
    ASSUME BreakerFits(breaker), NEW c \in Callers,
           \/ Report(c, record_success) \/ Report(c, record_failure)
           \/ Report(c, record_non_retryable_failure) \/ Report(c, release_request)
           \/ UNCHANGED breaker
    PROVE  BreakerFits(breaker')
BY SuccessKeeps, FailureKeeps, ReleaseKeeps DEF Report

-----------------------------------------------------------------------------
(* The pool *)

\* Work changes hands without taking or freeing a permit.
LEMMA PoolSame ==
    ASSUME PoolFits, work \in [Callers -> WorkStates], NEW c \in Callers, NEW w,
           work' = [work EXCEPT ![c] = w], w \in InPool <=> work[c] \in InPool,
           free' = free, abandoned' = 0 => abandoned = 0
    PROVE  PoolFits'
<1>1. Busy' = Busy
  BY DEF Busy
<1>2. QED
  BY <1>1 DEF PoolFits

LEMMA PoolTaken ==
    ASSUME PoolFits, work \in [Callers -> WorkStates], NEW c \in Callers, work[c] = "none",
           work' = [work EXCEPT ![c] = "queued"], free \in 0..Slots,
           free > 0, free' = free - 1, abandoned' = abandoned
    PROVE  PoolFits'
<1>1. Busy' = Busy \cup {c} /\ c \notin Busy
  BY DEF Busy, InPool
<1>2. IsFiniteSet(Busy') /\ Cardinality(Busy') = Cardinality(Busy) + 1
  BY <1>1, FS_AddElement DEF PoolFits
<1>3. Cardinality(Busy) \in Nat
  BY FS_CardinalityType DEF PoolFits
<1>4. QED
  BY <1>2, <1>3, ResilienceAssumption DEF PoolFits

\* Work ends, and with it its permit comes back.
LEMMA PoolFreed ==
    ASSUME PoolFits, work \in [Callers -> WorkStates], NEW c \in Callers, NEW w,
           work[c] \in InPool, w \notin InPool, work' = [work EXCEPT ![c] = w],
           free \in 0..Slots, free' = free + 1, abandoned' = abandoned
    PROVE  PoolFits' /\ free' \in 0..Slots
<1>1. Busy' = Busy \ {c} /\ c \in Busy
  BY DEF Busy
<1>2. IsFiniteSet(Busy') /\ Cardinality(Busy') = Cardinality(Busy) - 1
  BY <1>1, FS_RemoveElement DEF PoolFits
<1>3. Cardinality(Busy) \in Nat /\ Cardinality(Busy') \in Nat
  BY <1>2, FS_CardinalityType DEF PoolFits
<1>4. QED
  BY <1>2, <1>3, ResilienceAssumption DEF PoolFits

\* Work that never runs takes its permit along, and is counted.
LEMMA PoolLost ==
    ASSUME PoolFits, work \in [Callers -> WorkStates], NEW c \in Callers,
           work[c] \in InPool, work' = [work EXCEPT ![c] = "none"],
           free \in 0..Slots, free' = free,
           abandoned \in Nat, abandoned' = abandoned + 1
    PROVE  PoolFits'
<1>1. Busy' = Busy \ {c} /\ c \in Busy
  BY DEF Busy, InPool
<1>2. IsFiniteSet(Busy') /\ Cardinality(Busy') = Cardinality(Busy) - 1
  BY <1>1, FS_RemoveElement DEF PoolFits
<1>3. Cardinality(Busy) \in Nat /\ Cardinality(Busy') \in Nat
  BY <1>2, FS_CardinalityType DEF PoolFits
<1>4. QED
  BY <1>2, <1>3, ResilienceAssumption DEF PoolFits

-----------------------------------------------------------------------------
(* Steps of one caller *)

\* What the invariant says of a caller.
LEMMA CallerFacts ==
    ASSUME ResilienceInv, NEW c \in Callers
    PROVE  /\ kind[c] \in {"async", "stream", "sync", "bounded"}
           /\ call[c] \in Call /\ work[c] \in WorkStates
           /\ InTime(call[c], kind[c]) /\ OwnWork(call[c], kind[c], work[c])
           /\ BreakerFits(breaker) /\ PoolFits
           /\ work \in [Callers -> WorkStates]
           /\ free \in 0..Slots /\ abandoned \in 0..MaxAbandoned /\ abandoned \in Nat
<1>1. kind \in [Callers -> {"async", "stream", "sync", "bounded"}]
  BY ResilienceAssumption DEF ResilienceInv, BreakerSound, ResilienceTypeOK
<1>2. call \in [Callers -> Call]
  BY DEF ResilienceInv, BreakerSound, ResilienceTypeOK
<1>3. work \in [Callers -> WorkStates]
  BY DEF ResilienceInv, BreakerSound, ResilienceTypeOK
<1>4. BreakerFits(breaker)
  BY DEF ResilienceInv, BreakerSound, ResilienceTypeOK, BreakerFits
<1>5. free \in 0..Slots /\ abandoned \in 0..MaxAbandoned /\ abandoned \in Nat
  BY ResilienceAssumption DEF ResilienceInv, BreakerSound, ResilienceTypeOK
<1>6. QED
  BY <1>1, <1>2, <1>3, <1>4, <1>5 DEF ResilienceInv, CallsFit

LEMMA CallFields ==
    ASSUME NEW j \in Call
    PROVE  /\ j.pc \in {"idle", "acquire", "call", "sleep"} /\ j.attempt \in 0..MaxAttempts
           /\ j.elapsed \in Nat /\ j.limit \in Nat /\ j.waited \in Nat
           /\ j.left \in 0..Budget /\ j.left \in Nat /\ j.probe \in BOOLEAN
<1>1. Longest \in Nat /\ Budget \in Nat
  BY LongestType, ResilienceAssumption
<1>2. QED
  BY <1>1 DEF Call

\* The caller's record and work after the step.
LEMMA CallerStep ==
    ASSUME ResilienceInv, NEW c \in Callers, NEW j \in Call, NEW w \in WorkStates,
           call' = [call EXCEPT ![c] = j], work' = [work EXCEPT ![c] = w],
           InTime(j, kind[c]), OwnWork(j, kind[c], w),
           BreakerFits(breaker'), PoolFits', UNCHANGED kind,
           free' \in 0..Slots, abandoned' \in 0..MaxAbandoned
    PROVE  ResilienceInv'
<1>1. /\ call \in [Callers -> Call] /\ work \in [Callers -> WorkStates]
  BY DEF ResilienceInv, BreakerSound, ResilienceTypeOK
<1>2. /\ call' \in [Callers -> Call] /\ work' \in [Callers -> WorkStates]
      /\ call'[c] = j /\ work'[c] = w
      /\ \A d \in Callers : d # c => call'[d] = call[d] /\ work'[d] = work[d]
  BY <1>1
<1>3. CallsFit'
  BY <1>2 DEF ResilienceInv, CallsFit
<1>4. BreakerSound'
  BY <1>2 DEF ResilienceInv, BreakerSound, ResilienceTypeOK, BreakerFits
<1>5. QED
  BY <1>3, <1>4 DEF ResilienceInv

LEMMA IdleCallFits ==
    /\ IdleCall \in Call
    /\ \A k : InTime(IdleCall, k)
    /\ \A k, w : (k \in {"async", "stream"} => w = "none") => OwnWork(IdleCall, k, w)
<1>1. 0 \in 0..MaxAttempts /\ 0 \in 0..Budget /\ 0 \in 0..Longest
  BY LongestType, ResilienceAssumption
<1>2. IdleCall \in Call
  BY <1>1 DEF IdleCall, Call
<1>3. QED
  BY <1>2 DEF IdleCall, InTime, OwnWork

\* A call ends; what becomes of its work is said by w.
LEMMA CallEnds ==
    ASSUME ResilienceInv, NEW c \in Callers, NEW w \in WorkStates, End(c),
           work' = [work EXCEPT ![c] = w], w \in {"none", work[c]},
           BreakerFits(breaker'), PoolFits', UNCHANGED kind,
           free' \in 0..Slots, abandoned' \in 0..MaxAbandoned
    PROVE  ResilienceInv'
<1>1. kind[c] \in {"async", "stream"} => w = "none"
  BY CallerFacts DEF OwnWork
<1>2. call' = [call EXCEPT ![c] = IdleCall]
  BY DEF End
<1>3. QED
  BY <1>1, <1>2, IdleCallFits, CallerStep

\* A call ends and leaves its work: a result is forgotten, the rest goes on.
LEMMA LeaveShape ==
    ASSUME ResilienceInv, NEW c \in Callers, LeaveWork(c)
    PROVE  \E w \in WorkStates :
              /\ work' = [work EXCEPT ![c] = w] /\ w \in {"none", work[c]}
              /\ w \in InPool <=> work[c] \in InPool
              /\ work[c] \in Results => w = "none"
<1> DEFINE w == IF work[c] \in Results THEN "none" ELSE work[c]
<1>1. work' = [work EXCEPT ![c] = w]
  BY CallerFacts DEF LeaveWork
<1>2. w \in WorkStates /\ w \in {"none", work[c]} /\ (work[c] \in Results => w = "none")
  BY CallerFacts DEF WorkStates
<1>3. w \in InPool <=> work[c] \in InPool
  BY DEF InPool, Results
<1> HIDE DEF w
<1>4. QED
  BY <1>1, <1>2, <1>3

LEMMA EndLeaving ==
    ASSUME ResilienceInv, NEW c \in Callers, End(c), LeaveWork(c), BreakerFits(breaker'),
           UNCHANGED <<kind, free, abandoned>>
    PROVE  ResilienceInv'
<1>1. PICK w \in WorkStates :
          /\ work' = [work EXCEPT ![c] = w] /\ w \in {"none", work[c]}
          /\ w \in InPool <=> work[c] \in InPool
  BY LeaveShape
<1>2. PoolFits'
  BY <1>1, CallerFacts, PoolSame
<1>3. free' \in 0..Slots /\ abandoned' \in 0..MaxAbandoned
  BY CallerFacts
<1>4. QED
  BY <1>1, <1>2, <1>3, CallEnds

LEMMA WorkSame ==
    ASSUME ResilienceInv, NEW c \in Callers, UNCHANGED work
    PROVE  /\ work[c] \in WorkStates
           /\ work' = [work EXCEPT ![c] = work[c]]
BY CallerFacts

\* A call ends, its work as it was.
LEMMA EndAlone ==
    ASSUME ResilienceInv, NEW c \in Callers, End(c), BreakerFits(breaker'),
           UNCHANGED <<kind, work, free>>,
           abandoned' \in 0..MaxAbandoned, abandoned' = 0 => abandoned = 0
    PROVE  ResilienceInv'
<1>1. /\ work[c] \in WorkStates /\ work' = [work EXCEPT ![c] = work[c]]
  BY WorkSame
<1>2. PoolFits'
  BY <1>1, CallerFacts, PoolSame
<1>3. free' \in 0..Slots
  BY CallerFacts
<1>4. QED
  BY <1>1, <1>2, <1>3, CallEnds

-----------------------------------------------------------------------------
(* The beginning of an attempt *)

\* The record of an attempt that begins fits its caller.
LEMMA AttemptFits ==
    ASSUME ResilienceInv, NEW c \in Callers, NEW n \in 1..MaxAttempts, NEW elapsed \in 0..Longest,
           NEW left \in 0..Budget, NEW probe \in BOOLEAN,
           kind[c] = "stream" => elapsed + left <= Budget + (n - 1) * Delay,
           kind[c] # "stream" => elapsed + left <= Budget
    PROVE  LET j == [pc |-> IF Blocking(c) THEN "acquire" ELSE "call", attempt |-> n,
                     elapsed |-> elapsed, left |-> left, limit |-> left, waited |-> 0,
                     probe |-> probe]
           IN  j \in Call /\ InTime(j, kind[c]) /\ OwnWork(j, kind[c], "none")
<1> DEFINE pc == IF Blocking(c) THEN "acquire" ELSE "call"
           j == [pc |-> pc, attempt |-> n, elapsed |-> elapsed, left |-> left,
                 limit |-> left, waited |-> 0, probe |-> probe]
<1>1. /\ kind[c] \in {"async", "stream", "sync", "bounded"}
  BY CallerFacts
<1>2. Longest \in Nat /\ Longest = 2 * Budget + (MaxAttempts - 1) * Delay
      /\ (MaxAttempts - 1) * Delay \in Nat /\ Budget \in Nat
  BY LongestType, ResilienceAssumption
<1>3. left \in 0..Longest /\ 0 \in 0..Longest /\ n \in 0..MaxAttempts /\ n >= 1
  <2> DEFINE d == (MaxAttempts - 1) * Delay
  <2>1. d \in Nat /\ Longest = 2 * Budget + d
    BY <1>2
  <2> HIDE DEF d
  <2>2. QED
    BY <1>2, <2>1, ResilienceAssumption
<1>4. /\ j \in Call /\ j.pc = pc /\ j.attempt = n /\ j.elapsed = elapsed
      /\ j.limit = left /\ j.waited = 0
  BY <1>3 DEF Call
<1>5. /\ pc \in {"acquire", "call"}
      /\ kind[c] \in {"async", "stream"} => pc = "call"
      /\ kind[c] \in {"sync", "bounded"} => pc = "acquire"
  BY <1>1 DEF Blocking
<1> HIDE DEF j, pc
<1>6. elapsed + left <= Due(j, kind[c])
  BY <1>1, <1>4, <1>5 DEF Due
<1>7. elapsed + left \in Nat /\ left <= Budget
  BY <1>2
<1>8. Due(j, kind[c]) \in Int
  BY <1>1, <1>3, <1>4, <1>5, DueBounded, LongestType
<1>9. InTime(j, kind[c])
  BY <1>3, <1>4, <1>5, <1>6, <1>7, <1>8 DEF InTime
<1>10. OwnWork(j, kind[c], "none")
  BY <1>4, <1>5 DEF OwnWork
<1>11. QED
  BY <1>4, <1>9, <1>10 DEF j, pc

\* A repeated attempt, or the report that there is no time for one.
LEMMA BeginKeeps ==
    ASSUME ResilienceInv, NEW c \in Callers, NEW n \in 1..MaxAttempts, NEW elapsed \in 0..Longest,
           NEW probe \in BOOLEAN, BeginAttempt(c, n, elapsed, probe),
           kind[c] = "stream" => elapsed <= Budget + (n - 1) * Delay,
           work' = [work EXCEPT ![c] = "none"], PoolFits',
           UNCHANGED <<kind, free, abandoned>>
    PROVE  ResilienceInv'
<1> DEFINE left == IF elapsed < Budget THEN Budget - elapsed ELSE 0
           j == [pc |-> IF Blocking(c) THEN "acquire" ELSE "call", attempt |-> n,
                 elapsed |-> elapsed, left |-> left, limit |-> left, waited |-> 0,
                 probe |-> probe]
<1>1. IF left = 0 /\ kind[c] # "stream" THEN End(c) /\ Report(c, record_failure)
      ELSE call' = [call EXCEPT ![c] = j] /\ UNCHANGED breaker
  BY DEF BeginAttempt
<1>2. free' \in 0..Slots /\ abandoned' \in 0..MaxAbandoned /\ "none" \in WorkStates
  BY CallerFacts DEF WorkStates
<1>3. BreakerFits(breaker')
  BY <1>1, CallerFacts, ReportKeeps
<1>4. CASE left = 0 /\ kind[c] # "stream"
  BY <1>1, <1>2, <1>3, <1>4, CallEnds
<1>5. CASE ~(left = 0 /\ kind[c] # "stream")
  <2>1. Budget \in Nat /\ Longest \in Nat /\ elapsed \in Nat
    BY ResilienceAssumption, LongestType
  <2>2. left \in 0..Budget
    BY <2>1
  <2>3. kind[c] # "stream" => elapsed + left <= Budget
    BY <1>5, <2>1
  <2>4. kind[c] = "stream" => elapsed + left <= Budget + (n - 1) * Delay
    <3> SUFFICES ASSUME kind[c] = "stream" PROVE elapsed + left <= Budget + (n - 1) * Delay
      OBVIOUS
    <3> DEFINE d == (n - 1) * Delay
    <3>1. n - 1 \in Nat
      OBVIOUS
    <3>2. d \in Nat
      BY <3>1, Delays
    <3>3. elapsed <= Budget + d
      OBVIOUS
    <3> HIDE DEF d
    <3>4. elapsed + left <= Budget + d
      BY <2>1, <3>2, <3>3
    <3>5. QED
      BY <3>4 DEF d
  <2> HIDE DEF left
  <2>5. j \in Call /\ InTime(j, kind[c]) /\ OwnWork(j, kind[c], "none")
    BY <2>2, <2>3, <2>4, AttemptFits
  <2>6. call' = [call EXCEPT ![c] = j]
    BY <1>1, <1>5
  <2> HIDE DEF j
  <2>7. QED
    BY <1>2, <1>3, <2>5, <2>6, CallerStep
<1>6. QED
  BY <1>4, <1>5

LEMMA StartKeeps ==
    ASSUME ResilienceInv, NEW c \in Callers, Start(c)
    PROVE  ResilienceInv'
<1> DEFINE admitted == IF Guarded(c) THEN Admitted(breaker) ELSE breaker
           probe == Guarded(c) /\ admitted.state = "half_open"
           j == [pc |-> IF Blocking(c) THEN "acquire" ELSE "call", attempt |-> 1,
                 elapsed |-> 0, left |-> Budget, limit |-> Budget, waited |-> 0,
                 probe |-> probe]
<1>1. /\ work[c] = "none" /\ breaker' = admitted /\ call' = [call EXCEPT ![c] = j]
      /\ UNCHANGED <<kind, work, free, abandoned>>
  BY DEF Start
<1>2. BreakerFits(breaker')
  BY <1>1, CallerFacts, AdmittedKeeps
<1>3. probe \in BOOLEAN
  OBVIOUS
<1> HIDE DEF probe, admitted
<1>4. /\ 1 \in 1..MaxAttempts /\ 0 \in 0..Longest /\ Budget \in 0..Budget /\ Budget \in Nat
  BY LongestType, ResilienceAssumption
<1>5. 0 + Budget <= Budget + (1 - 1) * Delay /\ 0 + Budget <= Budget
  BY <1>4, ResilienceAssumption
<1>6. j \in Call /\ InTime(j, kind[c]) /\ OwnWork(j, kind[c], "none")
  BY <1>3, <1>4, <1>5, AttemptFits
<1> HIDE DEF j
<1>7. /\ work' = [work EXCEPT ![c] = "none"] /\ "none" \in WorkStates
  BY <1>1, WorkSame
<1>8. PoolFits'
  BY <1>1, CallerFacts, PoolSame
<1>9. free' \in 0..Slots /\ abandoned' \in 0..MaxAbandoned
  BY <1>1, CallerFacts
<1>10. QED
  BY <1>1, <1>2, <1>6, <1>7, <1>8, <1>9, CallerStep

-----------------------------------------------------------------------------
(* Slots and work *)

LEMMA AcquireSlotKeeps ==
    ASSUME ResilienceInv, NEW c \in Callers, AcquireSlot(c)
    PROVE  ResilienceInv'
<1> DEFINE limit == IF kind[c] = "bounded" THEN Budget - call[c].elapsed ELSE call[c].limit
           j == [call[c] EXCEPT !.pc = "call", !.waited = 0, !.limit = limit]
<1>1. /\ call[c].pc = "acquire" /\ free > 0 /\ free' = free - 1
      /\ work' = [work EXCEPT ![c] = "queued"]
      /\ UNCHANGED <<kind, breaker, abandoned>>
  BY DEF AcquireSlot
<1>2. call' = [call EXCEPT ![c] = j]
  BY DEF AcquireSlot, ResilienceInv, BreakerSound, ResilienceTypeOK
<1>3. /\ call[c] \in Call /\ InTime(call[c], kind[c])
      /\ OwnWork(call[c], kind[c], work[c])
      /\ kind[c] \in {"async", "stream", "sync", "bounded"}
  BY CallerFacts
<1>4. kind[c] \in {"sync", "bounded"} /\ work[c] = "none"
  BY <1>1, <1>3 DEF OwnWork
<1>5. /\ call[c].elapsed \in Nat /\ call[c].limit \in Nat /\ call[c].waited \in Nat
      /\ call[c].attempt \in 0..MaxAttempts
  BY <1>3, CallFields
<1>6. /\ call[c].waited <= call[c].limit /\ call[c].limit <= Budget
      /\ call[c].elapsed + call[c].limit <= Budget + call[c].waited
      /\ call[c].attempt >= 1
  BY <1>1, <1>3, <1>4 DEF InTime, Due
<1>7. Budget \in Nat /\ Longest \in Nat /\ Budget <= Longest
  <2> DEFINE d == (MaxAttempts - 1) * Delay
  <2>1. d \in Nat /\ Longest = 2 * Budget + d /\ Budget \in Nat
    BY LongestType, ResilienceAssumption
  <2> HIDE DEF d
  <2>2. QED
    BY <2>1
<1>8. limit \in 0..Budget /\ limit \in 0..Longest /\ 0 \in 0..Longest
  BY <1>5, <1>6, <1>7
<1>9. /\ call[c].elapsed + limit <= 2 * Budget
      /\ kind[c] = "bounded" => call[c].elapsed + limit <= Budget
  BY <1>5, <1>6, <1>7
<1> HIDE DEF limit
<1>10. /\ j \in Call /\ j.pc = "call" /\ j.waited = 0 /\ j.limit = limit
       /\ j.elapsed = call[c].elapsed /\ j.attempt = call[c].attempt
  BY <1>3, <1>8 DEF Call
<1> HIDE DEF j
<1>11. InTime(j, kind[c])
  BY <1>4, <1>5, <1>6, <1>7, <1>8, <1>9, <1>10 DEF InTime, Due
<1>12. OwnWork(j, kind[c], "queued") /\ "queued" \in WorkStates
  BY <1>4, <1>10 DEF OwnWork, WorkStates
<1>13. PoolFits'
  BY <1>1, <1>4, CallerFacts, PoolTaken
<1>14. /\ free' \in 0..Slots /\ abandoned' \in 0..MaxAbandoned /\ BreakerFits(breaker')
  BY <1>1, CallerFacts, ResilienceAssumption
<1>15. QED
  BY <1>1, <1>2, <1>10, <1>11, <1>12, <1>13, <1>14, CallerStep

\* The work of a caller moves on, the caller itself does not.
LEMMA WorkStep ==
    ASSUME ResilienceInv, NEW c \in Callers, NEW w \in WorkStates,
           work' = [work EXCEPT ![c] = w], work[c] # "none", PoolFits',
           UNCHANGED <<kind, breaker, call, abandoned>>, free' \in 0..Slots
    PROVE  ResilienceInv'
<1>1. /\ call[c] \in Call /\ InTime(call[c], kind[c])
      /\ OwnWork(call[c], kind[c], work[c]) /\ BreakerFits(breaker')
      /\ abandoned' \in 0..MaxAbandoned
  BY CallerFacts
<1>2. OwnWork(call[c], kind[c], w)
  BY <1>1 DEF OwnWork
<1>3. call' = [call EXCEPT ![c] = call[c]]
  BY DEF ResilienceInv, BreakerSound, ResilienceTypeOK
<1>4. QED
  BY <1>1, <1>2, <1>3, CallerStep

LEMMA StartWorkKeeps ==
    ASSUME ResilienceInv, NEW c \in Callers, StartWork(c)
    PROVE  ResilienceInv'
<1>1. /\ work[c] = "queued" /\ work' = [work EXCEPT ![c] = "running"]
      /\ UNCHANGED <<kind, breaker, call, free, abandoned>>
  BY DEF StartWork
<1>2. PoolFits'
  BY <1>1, CallerFacts, PoolSame DEF InPool
<1>3. free' \in 0..Slots /\ "running" \in WorkStates
  BY <1>1, CallerFacts DEF WorkStates
<1>4. QED
  BY <1>1, <1>2, <1>3, WorkStep

LEMMA EndWorkKeeps ==
    ASSUME ResilienceInv, NEW c \in Callers, EndWork(c)
    PROVE  ResilienceInv'
<1>1. PICK result \in Results :
          /\ work' = [work EXCEPT ![c] = IF call[c].pc = "call" THEN result ELSE "none"]
          /\ free' = free + 1
  BY DEF EndWork, freed
<1> DEFINE w == IF call[c].pc = "call" THEN result ELSE "none"
<1>2. w \in WorkStates \ InPool
  BY DEF WorkStates, InPool, Results
<1>3. work' = [work EXCEPT ![c] = w]
  BY <1>1
<1> HIDE DEF w
<1>4. /\ work[c] = "running" /\ work[c] \in InPool
      /\ UNCHANGED <<kind, breaker, call, abandoned>>
  BY DEF EndWork, InPool
<1>5. PoolFits' /\ free' \in 0..Slots
  BY <1>1, <1>2, <1>3, <1>4, CallerFacts, PoolFreed
<1>6. QED
  BY <1>2, <1>3, <1>4, <1>5, WorkStep

-----------------------------------------------------------------------------
(* Answers, failures and timeouts *)

\* A call in time has not lasted longer than its wait may.
LEMMA ElapsedBounded ==
    ASSUME ResilienceInv, NEW c \in Callers, call[c].pc # "idle"
    PROVE  /\ call[c].elapsed <= Due(call[c], kind[c])
           /\ Due(call[c], kind[c]) \in 0..Longest
<1>1. /\ call[c] \in Call /\ InTime(call[c], kind[c])
      /\ kind[c] \in {"async", "stream", "sync", "bounded"}
  BY CallerFacts
<1>2. /\ call[c].elapsed \in Nat /\ call[c].limit \in Nat /\ call[c].waited \in Nat
      /\ call[c].attempt \in 0..MaxAttempts
  BY <1>1, CallFields
<1>3. /\ call[c].attempt >= 1 /\ call[c].waited <= call[c].limit
      /\ call[c].elapsed + call[c].limit <= Due(call[c], kind[c]) + call[c].waited
      /\ call[c].pc = "sleep" => call[c].attempt < MaxAttempts
  BY <1>1 DEF InTime
<1>4. call[c].attempt \in 1..MaxAttempts
  BY <1>2, <1>3, ResilienceAssumption
<1>5. Due(call[c], kind[c]) \in 0..Longest
  BY <1>1, <1>3, <1>4, DueBounded
<1>6. Due(call[c], kind[c]) \in Nat
  BY <1>5, LongestType
<1>7. QED
  BY <1>2, <1>3, <1>5, <1>6

LEMMA EndingKeeps ==
    ASSUME ResilienceInv, NEW c \in Callers,
           SubmitFails(c) \/ AcquireTimesOut(c) \/ Succeed(c) \/ Fail(c)
    PROVE  ResilienceInv'
<1>1. CASE SubmitFails(c) \/ AcquireTimesOut(c)
  <2>1. /\ End(c) /\ UNCHANGED <<kind, work, free, abandoned>>
        /\ Report(c, release_request) \/ Report(c, record_failure)
    BY <1>1 DEF SubmitFails, AcquireTimesOut
  <2>2. BreakerFits(breaker') /\ abandoned' \in 0..MaxAbandoned
    BY <2>1, CallerFacts, ReportKeeps
  <2>3. QED
    BY <2>1, <2>2, EndAlone
<1>2. CASE Succeed(c)
  <2>1. /\ End(c) /\ LeaveWork(c) /\ UNCHANGED <<kind, free, abandoned>>
        /\ Report(c, record_success)
    BY <1>2 DEF Succeed
  <2>2. QED
    BY <2>1, CallerFacts, ReportKeeps, EndLeaving
<1>3. CASE Fail(c)
  <2>1. PICK result \in Answers(c) \ {"ok"} :
            CASE result # "fatal" -> Report(c, record_failure)
              [] result = "fatal" /\ kind[c] = "stream" -> Report(c, record_success)
              [] OTHER -> Report(c, record_non_retryable_failure)
    BY <1>3 DEF Fail
  <2>2. \/ Report(c, record_success) \/ Report(c, record_failure)
        \/ Report(c, record_non_retryable_failure)
    <3>1. CASE result # "fatal"
      BY <2>1, <3>1
    <3>2. CASE result = "fatal" /\ kind[c] = "stream"
      BY <2>1, <3>2
    <3>3. CASE result = "fatal" /\ kind[c] # "stream"
      BY <2>1, <3>3
    <3>4. QED
      BY <3>1, <3>2, <3>3
  <2>3. End(c) /\ LeaveWork(c) /\ UNCHANGED <<kind, free, abandoned>>
    BY <1>3 DEF Fail
  <2>4. QED
    BY <2>2, <2>3, CallerFacts, ReportKeeps, EndLeaving
<1>4. QED
  BY <1>1, <1>2, <1>3

\* A call gives up work that has not started: nobody will give its permit back.
LEMMA EndLosing ==
    ASSUME ResilienceInv, NEW c \in Callers, End(c), BreakerFits(breaker'),
           work[c] = "queued", work' = [work EXCEPT ![c] = "none"],
           abandoned < MaxAbandoned, abandoned' = abandoned + 1, UNCHANGED <<kind, free>>
    PROVE  ResilienceInv'
<1>1. PoolFits'
  BY CallerFacts, PoolLost DEF InPool
<1>2. free' \in 0..Slots /\ abandoned' \in 0..MaxAbandoned /\ "none" \in WorkStates
  BY CallerFacts, ResilienceAssumption DEF WorkStates
<1>3. QED
  BY <1>1, <1>2, CallEnds

LEMMA CallTimesOutKeeps ==
    ASSUME ResilienceInv, NEW c \in Callers, CallTimesOut(c)
    PROVE  ResilienceInv'
<1>1. End(c) /\ Report(c, record_failure) /\ UNCHANGED <<kind, free>>
  BY DEF CallTimesOut
<1>2. BreakerFits(breaker')
  BY <1>1, CallerFacts, ReportKeeps
<1>3. CASE kind[c] = "sync" /\ work[c] = "queued"
  BY <1>1, <1>2, <1>3, EndLosing DEF CallTimesOut
<1>4. CASE ~(kind[c] = "sync" /\ work[c] = "queued")
  <2>1. UNCHANGED <<work, abandoned>>
    BY <1>4 DEF CallTimesOut
  <2>2. abandoned' \in 0..MaxAbandoned
    BY <2>1, CallerFacts
  <2>3. QED
    BY <1>1, <1>2, <2>1, <2>2, EndAlone
<1>5. QED
  BY <1>3, <1>4

LEMMA CancelKeeps ==
    ASSUME ResilienceInv, NEW c \in Callers, Cancel(c)
    PROVE  ResilienceInv'
<1>1. End(c) /\ Report(c, release_request) /\ UNCHANGED <<kind, free>>
  BY DEF Cancel
<1>2. BreakerFits(breaker')
  BY <1>1, CallerFacts, ReportKeeps
<1>3. CASE work[c] = "queued"
  BY <1>1, <1>2, <1>3, EndLosing DEF Cancel
<1>4. CASE work[c] # "queued"
  BY <1>1, <1>2, <1>4, EndLeaving DEF Cancel
<1>5. QED
  BY <1>3, <1>4

LEMMA AbandonKeeps ==
    ASSUME ResilienceInv, NEW c \in Callers, Abandon(c)
    PROVE  ResilienceInv'
<1>1. /\ abandoned < MaxAbandoned /\ abandoned' = abandoned + 1 /\ End(c)
      /\ UNCHANGED <<kind, breaker, work, free>>
  BY DEF Abandon
<1>2. abandoned' \in 0..MaxAbandoned /\ abandoned' # 0 /\ BreakerFits(breaker')
  BY <1>1, CallerFacts, ResilienceAssumption
<1>3. QED
  BY <1>1, <1>2, EndAlone

-----------------------------------------------------------------------------
(* Retries and the clock *)

\* A delay never lasts longer than what bounds it.
LEMMA DelayType ==
    ASSUME ResilienceInv, NEW c \in Callers, call[c].pc = "call", kind[c] # "bounded"
    PROVE  /\ delay(c) \in Nat
           /\ kind[c] = "async" => delay(c) <= Budget
           /\ kind[c] = "sync" => delay(c) <= Budget
           /\ kind[c] = "sync" /\ delay(c) # 0 => call[c].elapsed + delay(c) <= Budget
           /\ kind[c] = "stream" => delay(c) = Delay
<1> DEFINE backoff == Delay * 2 ^ (call[c].attempt - 1)
           now == call[c].elapsed
           rest == IF now < Budget THEN Budget - now ELSE 0
<1>1. /\ kind[c] \in {"async", "stream", "sync", "bounded"} /\ call[c] \in Call
      /\ call[c].attempt >= 1
  BY CallerFacts DEF InTime
<1>2. /\ call[c].attempt \in 0..MaxAttempts /\ now \in Nat /\ call[c].left \in 0..Budget
      /\ Budget \in Nat /\ Delay \in Nat
  BY <1>1, CallFields, ResilienceAssumption
<1>3. backoff \in Nat
  <2>1. call[c].attempt - 1 \in Nat
    BY <1>1, <1>2, ResilienceAssumption
  <2>2. 2 ^ (call[c].attempt - 1) \in Nat
    BY <2>1, PowerType
  <2>3. QED
    BY <1>2, <2>2
<1>4. delay(c) = CASE kind[c] = "async" -> Smaller(backoff, call[c].left)
                   [] kind[c] = "sync" -> Smaller(backoff, rest)
                   [] OTHER -> Delay
  BY DEF delay
<1> HIDE DEF backoff
<1>5. CASE kind[c] = "async"
  <2>1. delay(c) = Smaller(backoff, call[c].left)
    BY <1>4, <1>5
  <2>2. QED
    BY <1>2, <1>3, <1>5, <2>1 DEF Smaller
<1>6. CASE kind[c] = "sync"
  <2>1. delay(c) = Smaller(backoff, rest)
    BY <1>4, <1>6
  <2>2. QED
    BY <1>2, <1>3, <1>6, <2>1 DEF Smaller
<1>7. CASE kind[c] = "stream"
  BY <1>2, <1>4, <1>7
<1>8. QED
  BY <1>1, <1>5, <1>6, <1>7

\* A delay begins within what it is due.
LEMMA SleepFits ==
    ASSUME ResilienceInv, NEW c \in Callers, call[c].pc = "call", kind[c] # "bounded",
           call[c].attempt < MaxAttempts, delay(c) # 0
    PROVE  LET j == [call[c] EXCEPT !.pc = "sleep", !.waited = 0, !.limit = delay(c)]
           IN  j \in Call /\ InTime(j, kind[c]) /\ OwnWork(j, kind[c], "none")
<1> DEFINE j == [call[c] EXCEPT !.pc = "sleep", !.waited = 0, !.limit = delay(c)]
<1>1. /\ kind[c] \in {"async", "stream", "sync", "bounded"} /\ call[c] \in Call
      /\ call[c].attempt >= 1
      /\ call[c].elapsed <= Due(call[c], kind[c]) /\ Due(call[c], kind[c]) \in 0..Longest
  BY CallerFacts, ElapsedBounded DEF InTime
<1>2. /\ call[c].attempt \in 0..MaxAttempts /\ call[c].elapsed \in Nat
      /\ Budget \in Nat /\ Delay \in Nat /\ delay(c) \in Nat
  BY <1>1, CallFields, ResilienceAssumption, DelayType
<1>3. delay(c) <= Longest /\ Longest \in Nat
  <2> DEFINE d == (MaxAttempts - 1) * Delay
  <2>1. d \in Nat /\ Longest = 2 * Budget + d
    BY LongestType
  <2>2. Delay <= d
    <3>1. 1 \in Nat /\ MaxAttempts - 1 \in Nat /\ 1 <= MaxAttempts - 1
      BY <1>1, <1>2, ResilienceAssumption
    <3>2. 1 * Delay <= (MaxAttempts - 1) * Delay
      BY <3>1, Delays
    <3>3. 1 * Delay = Delay
      BY <1>2
    <3>4. QED
      BY <3>2, <3>3
  <2> HIDE DEF d
  <2>3. QED
    BY <1>1, <1>2, <2>1, <2>2, DelayType
<1>4. delay(c) \in 0..Longest /\ 0 \in 0..Longest
  BY <1>2, <1>3
<1>5. /\ j \in Call /\ j.pc = "sleep" /\ j.waited = 0 /\ j.limit = delay(c)
      /\ j.elapsed = call[c].elapsed /\ j.attempt = call[c].attempt
  BY <1>1, <1>4 DEF Call
<1> HIDE DEF j
<1>6. call[c].elapsed + delay(c) <= Due(j, kind[c])
  <2>1. CASE kind[c] = "async"
    <3>1. Due(call[c], kind[c]) = Budget /\ Due(j, kind[c]) = 2 * Budget
      BY <1>5, <2>1 DEF Due
    <3>2. QED
      BY <1>1, <1>2, <2>1, <3>1, DelayType
  <2>2. CASE kind[c] = "sync"
    <3>1. Due(j, kind[c]) = Budget
      BY <1>5, <2>2 DEF Due
    <3>2. QED
      BY <2>2, <3>1, DelayType
  <2>3. CASE kind[c] = "stream"
    <3> DEFINE n == call[c].attempt - 1
               d == n * Delay
    <3>1. n \in Nat /\ call[c].attempt = n + 1
      BY <1>1, <1>2
    <3>2. d \in Nat /\ (n + 1) * Delay = d + Delay
      BY <3>1, Delays
    <3>3. Due(call[c], kind[c]) = Budget + d
      BY <2>3 DEF Due
    <3>4. Due(j, kind[c]) = Budget + d + Delay
      <4>1. Due(j, kind[c]) = Budget + call[c].attempt * Delay
        BY <1>5, <2>3 DEF Due
      <4> HIDE DEF n, d
      <4>2. QED
        BY <1>2, <3>1, <3>2, <4>1
    <3>5. delay(c) = Delay
      BY <2>3, DelayType
    <3> HIDE DEF n, d
    <3>6. QED
      BY <1>1, <1>2, <3>2, <3>3, <3>4, <3>5
  <2>4. QED
    BY <1>1, <2>1, <2>2, <2>3
<1>7. Due(j, kind[c]) \in Int
  <2>1. j.attempt \in 1..MaxAttempts
    BY <1>1, <1>2, <1>5, ResilienceAssumption
  <2>2. QED
    BY <1>1, <1>5, <2>1, DueBounded, <1>3
<1>8. kind[c] # "stream" => delay(c) <= Budget
  BY <1>1, DelayType
<1>9. InTime(j, kind[c])
  BY <1>1, <1>2, <1>5, <1>6, <1>7, <1>8 DEF InTime
<1>10. OwnWork(j, kind[c], "none")
  BY <1>5 DEF OwnWork
<1>11. QED
  BY <1>5, <1>9, <1>10 DEF j

\* A stream begins its next attempt within the delays of the attempts before it.
LEMMA StreamInTime ==
    ASSUME ResilienceInv, NEW c \in Callers, call[c].pc \in {"call", "sleep"},
           call[c].attempt < MaxAttempts
    PROVE  /\ call[c].attempt + 1 \in 1..MaxAttempts
           /\ call[c].elapsed \in 0..Longest /\ call[c].probe \in BOOLEAN
           /\ kind[c] = "stream" =>
                 call[c].elapsed <= Budget + ((call[c].attempt + 1) - 1) * Delay
<1>1. /\ call[c] \in Call /\ call[c].attempt >= 1
      /\ call[c].elapsed <= Due(call[c], kind[c]) /\ Due(call[c], kind[c]) \in 0..Longest
  BY CallerFacts, ElapsedBounded DEF InTime
<1>2. call[c].attempt \in 0..MaxAttempts /\ call[c].elapsed \in Nat /\ Longest \in Nat
  BY <1>1, CallFields, LongestType
<1>3. kind[c] = "stream" => call[c].elapsed <= Budget + ((call[c].attempt + 1) - 1) * Delay
  <2> SUFFICES ASSUME kind[c] = "stream"
               PROVE  call[c].elapsed <= Budget + ((call[c].attempt + 1) - 1) * Delay
    OBVIOUS
  <2> DEFINE n == call[c].attempt - 1
             d == n * Delay
             e == call[c].attempt * Delay
  <2>1. n \in Nat /\ call[c].attempt \in Nat /\ n <= call[c].attempt
    BY <1>1, <1>2, ResilienceAssumption
  <2>2. d \in Nat /\ e \in Nat /\ d <= e
    <3> HIDE DEF n
    <3>1. QED
      BY <2>1, Delays
  <2>3. Due(call[c], kind[c]) \in {Budget + d, Budget + e}
    BY DEF Due
  <2>4. Budget + ((call[c].attempt + 1) - 1) * Delay = Budget + e
    <3>1. (call[c].attempt + 1) - 1 = call[c].attempt
      BY <2>1
    <3>2. QED
      BY <3>1
  <2> HIDE DEF n, d, e
  <2>5. call[c].elapsed <= Budget + e
    BY <1>1, <1>2, <2>2, <2>3, ResilienceAssumption
  <2>6. QED
    BY <2>4, <2>5
<1>4. call[c].elapsed \in 0..Longest
  BY <1>1, <1>2
<1>5. call[c].attempt + 1 \in 1..MaxAttempts /\ call[c].probe \in BOOLEAN
  BY <1>1, <1>2, CallFields, ResilienceAssumption
<1>6. QED
  BY <1>3, <1>4, <1>5

LEMMA RetryKeeps ==
    ASSUME ResilienceInv, NEW c \in Callers, Retry(c)
    PROVE  ResilienceInv'
<1>1. /\ call[c].pc = "call" /\ kind[c] # "bounded" /\ call[c].attempt < MaxAttempts
      /\ LeaveWork(c) /\ UNCHANGED <<kind, free, abandoned>>
      /\ "retryable" \in Answers(c) \/ ~Blocking(c)
  BY DEF Retry
<1>2. PICK w \in WorkStates :
          /\ work' = [work EXCEPT ![c] = w] /\ w \in {"none", work[c]}
          /\ w \in InPool <=> work[c] \in InPool
          /\ work[c] \in Results => w = "none"
  BY <1>1, LeaveShape
<1>3. w = "none"
  <2>1. CASE Blocking(c)
    BY <1>1, <1>2, <2>1 DEF Answers
  <2>2. CASE ~Blocking(c)
    <3>1. kind[c] \in {"async", "stream"}
      BY <2>2, CallerFacts DEF Blocking
    <3>2. QED
      BY <1>2, <3>1, CallerFacts DEF OwnWork
  <2>3. QED
    BY <2>1, <2>2
<1>4. PoolFits'
  BY <1>1, <1>2, CallerFacts, PoolSame
<1>5. CASE delay(c) = 0
  <2>1. BeginAttempt(c, call[c].attempt + 1, call[c].elapsed, call[c].probe)
    BY <1>5 DEF Retry
  <2>2. QED
    BY <1>1, <1>2, <1>3, <1>4, <2>1, StreamInTime, BeginKeeps
<1>6. CASE delay(c) # 0
  <2> DEFINE j == [call[c] EXCEPT !.pc = "sleep", !.waited = 0, !.limit = delay(c)]
  <2>1. j \in Call /\ InTime(j, kind[c]) /\ OwnWork(j, kind[c], "none")
    BY <1>1, <1>6, SleepFits
  <2>2. call' = [call EXCEPT ![c] = j] /\ UNCHANGED breaker
    BY <1>6 DEF Retry
  <2> HIDE DEF j
  <2>3. free' \in 0..Slots /\ abandoned' \in 0..MaxAbandoned /\ BreakerFits(breaker')
    BY <1>1, <2>2, CallerFacts
  <2>4. QED
    BY <1>1, <1>2, <1>3, <1>4, <2>1, <2>2, <2>3, CallerStep
<1>7. QED
  BY <1>5, <1>6

LEMMA EndSleepKeeps ==
    ASSUME ResilienceInv, NEW c \in Callers, EndSleep(c)
    PROVE  ResilienceInv'
<1>1. /\ call[c].pc = "sleep"
      /\ BeginAttempt(c, call[c].attempt + 1, call[c].elapsed, call[c].probe)
      /\ UNCHANGED <<kind, work, free, abandoned>>
  BY DEF EndSleep
<1>2. call[c].attempt < MaxAttempts /\ work[c] = "none"
  BY <1>1, CallerFacts DEF InTime, OwnWork
<1>3. work' = [work EXCEPT ![c] = "none"]
  BY <1>1, <1>2, WorkSame
<1>4. PoolFits'
  BY <1>1, <1>2, <1>3, CallerFacts, PoolSame
<1>5. QED
  BY <1>1, <1>2, <1>3, <1>4, StreamInTime, BeginKeeps

LEMMA TickKeeps ==
    ASSUME ResilienceInv, Tick
    PROVE  ResilienceInv'
<1>1. /\ \A c \in Callers : call[c].pc # "idle" => call[c].waited < call[c].limit
      /\ call' = [c \in Callers |-> IF call[c].pc = "idle" THEN call[c]
                     ELSE [call[c] EXCEPT !.elapsed = call[c].elapsed + 1,
                                          !.waited = call[c].waited + 1]]
      /\ breaker' = [breaker EXCEPT !.openFor = Smaller(breaker.openFor + 1, Recovery)]
      /\ UNCHANGED <<kind, work, free, abandoned>>
  BY DEF Tick
<1>2. ASSUME NEW c \in Callers
      PROVE  /\ call'[c] \in Call
             /\ InTime(call'[c], kind[c]) /\ OwnWork(call'[c], kind[c], work[c])
  <2>1. /\ call[c] \in Call /\ InTime(call[c], kind[c])
        /\ OwnWork(call[c], kind[c], work[c])
        /\ kind[c] \in {"async", "stream", "sync", "bounded"}
    BY CallerFacts
  <2>2. CASE call[c].pc = "idle"
    BY <1>1, <2>1, <2>2
  <2>3. CASE call[c].pc # "idle"
    <3> DEFINE j == [call[c] EXCEPT !.elapsed = call[c].elapsed + 1,
                                    !.waited = call[c].waited + 1]
    <3>1. call'[c] = j
      BY <1>1, <2>3
    <3>2. /\ call[c].elapsed \in Nat /\ call[c].limit \in Nat /\ call[c].waited \in Nat
          /\ call[c].limit \in 0..Longest
          /\ call[c].waited < call[c].limit /\ Longest \in Nat
      BY <1>1, <2>1, <2>3, CallFields, LongestType DEF Call
    <3>3. /\ Due(call[c], kind[c]) \in 0..Longest
          /\ call[c].elapsed + call[c].limit <= Due(call[c], kind[c]) + call[c].waited
      BY <2>1, <2>3, ElapsedBounded DEF InTime
    <3>4. call[c].elapsed + 1 \in 0..Longest /\ call[c].waited + 1 \in 0..Longest
      BY <3>2, <3>3
    <3>5. /\ j \in Call /\ j.pc = call[c].pc /\ j.attempt = call[c].attempt
          /\ j.limit = call[c].limit
          /\ j.elapsed = call[c].elapsed + 1 /\ j.waited = call[c].waited + 1
      BY <2>1, <3>4 DEF Call
    <3> HIDE DEF j
    <3>6. Due(j, kind[c]) = Due(call[c], kind[c])
      BY <3>5 DEF Due
    <3>7. InTime(j, kind[c])
      BY <2>1, <2>3, <3>2, <3>3, <3>5, <3>6 DEF InTime
    <3>8. OwnWork(j, kind[c], work[c])
      BY <2>1, <3>5 DEF OwnWork
    <3>9. QED
      BY <3>1, <3>5, <3>7, <3>8
  <2>4. QED
    BY <2>2, <2>3
<1>3. breaker' \in Breaker /\ breaker'.state = breaker.state
      /\ breaker'.failures = breaker.failures /\ breaker'.probe = breaker.probe
  <2>1. breaker \in Breaker
    BY DEF ResilienceInv, BreakerSound, ResilienceTypeOK
  <2>2. breaker.openFor \in 0..Recovery
    BY <2>1 DEF Breaker
  <2>3. Smaller(breaker.openFor + 1, Recovery) \in 0..Recovery
    BY <2>2, ResilienceAssumption DEF Smaller
  <2>4. QED
    BY <1>1, <2>1, <2>3 DEF Breaker
<1>4. call' \in [Callers -> Call]
  BY <1>1, <1>2
<1>5. BreakerSound'
  BY <1>1, <1>3, <1>4 DEF ResilienceInv, BreakerSound, ResilienceTypeOK
<1>6. CallsFit' /\ PoolFits'
  BY <1>1, <1>2 DEF CallsFit, ResilienceInv, PoolFits, Busy
<1>7. QED
  BY <1>5, <1>6 DEF ResilienceInv

-----------------------------------------------------------------------------
(* The theorems *)

LEMMA ResilienceInvInit == Init => ResilienceInv
<1> SUFFICES ASSUME Init PROVE ResilienceInv
  OBVIOUS
<1>1. /\ kind \in Kinds /\ call = [c \in Callers |-> IdleCall]
      /\ work = [c \in Callers |-> "none"] /\ free = Slots /\ abandoned = 0
      /\ breaker = [state |-> "closed", failures |-> 0, probe |-> FALSE,
                    openFor |-> Recovery]
  BY DEF Init
<1>2. 0 \in 0..Threshold /\ Recovery \in 0..Recovery /\ 0 < Threshold
      /\ Slots \in 0..Slots /\ 0 \in 0..MaxAbandoned /\ Slots \in Nat
  BY ResilienceAssumption
<1>3. BreakerSound
  BY <1>1, <1>2, IdleCallFits DEF BreakerSound, ResilienceTypeOK, Breaker, WorkStates
<1>4. CallsFit
  BY <1>1, IdleCallFits DEF CallsFit
<1>5. Busy = {}
  BY <1>1 DEF Busy, InPool
<1>6. PoolFits
  BY <1>1, <1>2, <1>5, FS_EmptySet DEF PoolFits
<1>7. QED
  BY <1>3, <1>4, <1>6 DEF ResilienceInv

LEMMA ResilienceInvStep == ResilienceInv /\ [Next]_resilienceVars => ResilienceInv'
<1> SUFFICES ASSUME ResilienceInv, [Next]_resilienceVars PROVE ResilienceInv'
  OBVIOUS
<1>1. CASE UNCHANGED resilienceVars
  BY <1>1 DEF resilienceVars, ResilienceInv, BreakerSound, ResilienceTypeOK, CallsFit,
              PoolFits, Busy
<1>2. ASSUME NEW c \in Callers,
             \/ Start(c) \/ AcquireSlot(c) \/ SubmitFails(c) \/ StartWork(c) \/ EndWork(c)
             \/ Succeed(c) \/ Fail(c) \/ Retry(c) \/ Cancel(c) \/ Abandon(c) \/ Timers(c)
      PROVE  ResilienceInv'
  BY <1>2, StartKeeps, AcquireSlotKeeps, EndingKeeps, StartWorkKeeps, EndWorkKeeps,
     RetryKeeps, CancelKeeps, AbandonKeeps, CallTimesOutKeeps, EndSleepKeeps
     DEF Timers
<1>3. QED
  BY <1>1, <1>2, TickKeeps DEF Next

LEMMA ResilienceInvHolds == ResilienceSpec => []ResilienceInv
BY ResilienceInvInit, ResilienceInvStep, PTL DEF ResilienceSpec

\* A closed circuit is below its threshold and only a half-open one reserves a probe,
\* whichever old calls report late (CircuitBreaker).
THEOREM BreakerSoundHolds == ResilienceSpec => []BreakerSound
<1>1. ResilienceInv => BreakerSound
  BY DEF ResilienceInv
<1>2. QED
  BY <1>1, ResilienceInvHolds, PTL

\* No call outlasts what its kind allows, for every budget, number of attempts and delay
\* (call_with_resilience, call_sync_with_resilience, run_bounded_sync_call).
THEOREM CallsBoundedHolds == ResilienceSpec => []CallsBounded
<1>1. ResilienceInv => CallsBounded
  <2> SUFFICES ASSUME ResilienceInv, NEW c \in Callers
               PROVE  call[c].elapsed <= CASE kind[c] = "bounded" -> Budget
                          [] kind[c] = "stream" -> Budget + (MaxAttempts - 1) * Delay
                          [] OTHER -> 2 * Budget
    BY DEF CallsBounded
  <2> DEFINE most == CASE kind[c] = "bounded" -> Budget
                       [] kind[c] = "stream" -> Budget + (MaxAttempts - 1) * Delay
                       [] OTHER -> 2 * Budget
  <2>1. /\ call[c] \in Call /\ InTime(call[c], kind[c])
        /\ kind[c] \in {"async", "stream", "sync", "bounded"}
    BY CallerFacts
  <2>2. most \in Nat
    <3> DEFINE d == (MaxAttempts - 1) * Delay
    <3>1. d \in Nat /\ Budget \in Nat
      BY LongestType, ResilienceAssumption
    <3>2. most \in {Budget, Budget + d, 2 * Budget}
      BY <2>1
    <3> HIDE DEF d, most
    <3>3. QED
      BY <3>1, <3>2
  <2>3. CASE call[c].pc = "idle"
    <3>1. call[c].elapsed = 0
      BY <2>1, <2>3 DEF InTime
    <3>2. QED
      BY <2>2, <3>1
  <2>4. CASE call[c].pc # "idle"
    <3>1. /\ call[c].attempt \in 0..MaxAttempts /\ call[c].elapsed \in Nat
      BY <2>1, CallFields
    <3>2. /\ call[c].attempt \in 1..MaxAttempts
          /\ call[c].pc = "sleep" => call[c].attempt < MaxAttempts
      BY <2>1, <2>4, <3>1, ResilienceAssumption DEF InTime
    <3>3. Due(call[c], kind[c]) <= most
      BY <2>1, <3>2, DueBounded
    <3>4. /\ call[c].elapsed <= Due(call[c], kind[c])
          /\ Due(call[c], kind[c]) \in 0..Longest
      BY <2>4, ElapsedBounded
    <3> HIDE DEF most
    <3>5. call[c].elapsed <= most
      BY <2>2, <3>1, <3>3, <3>4, LongestType
    <3>6. QED
      BY <3>5 DEF most
  <2>5. QED
    BY <2>3, <2>4
<1>2. QED
  BY <1>1, ResilienceInvHolds, PTL

\* Once no work is left and none was given up before it started, every permit is back
\* (_run_sync_call).
THEOREM SlotsBackHolds == ResilienceSpec => []SlotsBack
<1>1. ResilienceInv => SlotsBack
  <2> SUFFICES ASSUME ResilienceInv, abandoned = 0,
                      \A c \in Callers : work[c] \notin {"queued", "running"}
               PROVE  free = Slots
    BY DEF SlotsBack
  <2>1. Busy = {}
    BY DEF Busy, InPool
  <2>2. free + 0 = Slots
    BY <2>1, FS_EmptySet DEF ResilienceInv, PoolFits
  <2>3. free \in Nat
    BY ResilienceAssumption DEF ResilienceInv, BreakerSound, ResilienceTypeOK
  <2>4. QED
    BY <2>2, <2>3
<1>2. QED
  BY <1>1, ResilienceInvHolds, PTL
=============================================================================
