----------------------------- MODULE Resilience -----------------------------
(***************************************************************************)
(* Calls to one dependency (app/core/resilience.py, and the stream of      *)
(* rag_agent_service.py that uses its breaker): a circuit breaker shared   *)
(* by all calls of a process, the retries of a call within its time        *)
(* budget, and the bounded worker slots blocking calls run in.             *)
(*                                                                         *)
(* A caller is one of four kinds: "async" (call_with_resilience), "stream" *)
(* (the model stream), "sync" (call_sync_with_resilience) and "bounded"    *)
(* (run_bounded_sync_call, which has no breaker).  Time is counted in      *)
(* ticks; timers fire when they are due.  The dependency answers or fails  *)
(* at any time, or never.                                                  *)
(***************************************************************************)
EXTENDS Naturals, FiniteSets

CONSTANTS Callers,
          Kinds,           \* the assignments of kinds to callers that are considered
          Threshold,       \* failure_threshold
          Recovery,        \* recovery_timeout_seconds
          Budget,          \* timeout_seconds
          MaxAttempts,     \* max_attempts
          Delay,           \* retry_delay_seconds
          Slots,           \* permits of _sync_call_slots, workers of _sync_executor
          MaxAbandoned     \* bound on calls given up where nothing is released

ASSUME ResilienceAssumption ==
    /\ Kinds \subseteq [Callers -> {"async", "stream", "sync", "bounded"}]
    /\ Threshold \in Nat \ {0} /\ MaxAttempts \in Nat \ {0} /\ Slots \in Nat \ {0}
    /\ Budget \in Nat \ {0}
    /\ Recovery \in Nat /\ Delay \in Nat /\ MaxAbandoned \in Nat

VARIABLES kind,            \* the kind of each caller
          breaker,         \* the CircuitBreaker of the dependency
          call,            \* what each caller is doing
          work,            \* the work item each blocking caller has submitted
          free,            \* free permits of _sync_call_slots
          abandoned        \* calls given up where nothing was released

resilienceVars == <<kind, breaker, call, work, free, abandoned>>

\* openFor: ticks since _opened_at, counted up to Recovery; failures up to Threshold.
Breaker == [state : {"closed", "open", "half_open"}, failures : 0..Threshold,
            probe : BOOLEAN, openFor : 0..Recovery]

\* A longest call: the budget, and once more the remaining budget of its last wait or,
\* for a stream, its delays.
Longest == 2 * Budget + (MaxAttempts - 1) * Delay

\* limit, waited: of the wait the call is in; left: the budget its attempt began with;
\* probe: the call reserved the half-open probe.
Call == [pc : {"idle", "acquire", "call", "sleep"}, attempt : 0..MaxAttempts,
         elapsed : 0..Longest, left : 0..Budget, limit : 0..Longest, waited : 0..Longest,
         probe : BOOLEAN]

IdleCall == [pc |-> "idle", attempt |-> 0, elapsed |-> 0, left |-> 0, limit |-> 0,
             waited |-> 0, probe |-> FALSE]

Results == {"ok", "retryable", "fatal", "timeout"}
WorkStates == {"none", "queued", "running"} \cup Results

Blocking(c) == kind[c] \in {"sync", "bounded"}
Guarded(c) == kind[c] # "bounded"
Smaller(m, n) == IF m < n THEN m ELSE n

-----------------------------------------------------------------------------
(* The breaker *)

\* _advance_recovery_state
Recovered(b) ==
    IF b.state = "open" /\ b.openFor = Recovery THEN [b EXCEPT !.state = "half_open"] ELSE b

\* try_acquire_request lets the call through.
Admits(b) ==
    LET r == Recovered(b) IN r.state = "closed" \/ (r.state = "half_open" /\ ~r.probe)

Admitted(b) ==
    LET r == Recovered(b) IN [r EXCEPT !.probe = @ \/ r.state = "half_open"]

record_success(b) == [b EXCEPT !.state = "closed", !.failures = 0, !.probe = FALSE]

Open(b) == [b EXCEPT !.state = "open", !.openFor = 0]

\* Mutant: the threshold is passed before the breaker opens.
record_failure_late(b) ==
    LET counted == [b EXCEPT !.failures = @ + 1, !.probe = FALSE]
    IN  IF b.state = "half_open" \/ b.failures = Threshold THEN Open(counted) ELSE counted

record_failure(b) ==
    LET counted == [b EXCEPT !.failures = Smaller(@ + 1, Threshold), !.probe = FALSE]
    IN  IF b.state = "half_open" \/ counted.failures = Threshold THEN Open(counted)
                                                                 ELSE counted

record_non_retryable_failure(b) ==
    IF b.state = "half_open" THEN record_failure(b) ELSE [b EXCEPT !.probe = FALSE]

\* Mutant: a cancelled probe keeps its reservation.
keeps_probe(b) == b

release_request(b) == [b EXCEPT !.probe = FALSE]

-----------------------------------------------------------------------------
(* A call *)

Report(c, outcome(_)) == breaker' = IF Guarded(c) THEN outcome(breaker) ELSE breaker

End(c) == call' = [call EXCEPT ![c] = IdleCall]

\* The next attempt, with what is left of the budget, or the failure that nothing is; a
\* stream raises its timeout as the failure of that attempt.
BeginAttempt(c, k, elapsed, probe) ==
    LET left == IF elapsed < Budget THEN Budget - elapsed ELSE 0
        attempt == [pc |-> IF Blocking(c) THEN "acquire" ELSE "call", attempt |-> k,
                    elapsed |-> elapsed, left |-> left, limit |-> left, waited |-> 0,
                    probe |-> probe]
    IN  IF left = 0 /\ kind[c] # "stream" THEN End(c) /\ Report(c, record_failure)
        ELSE call' = [call EXCEPT ![c] = attempt] /\ UNCHANGED breaker

\* A rejected call (CircuitOpenError) changes nothing.
Start(c) ==
    LET admitted == IF Guarded(c) THEN Admitted(breaker) ELSE breaker
        attempt == [pc |-> IF Blocking(c) THEN "acquire" ELSE "call", attempt |-> 1,
                    elapsed |-> 0, left |-> Budget, limit |-> Budget, waited |-> 0,
                    probe |-> Guarded(c) /\ admitted.state = "half_open"]
    IN  /\ call[c].pc = "idle" /\ work[c] = "none"
        /\ Guarded(c) => Admits(breaker)
        /\ breaker' = admitted
        /\ call' = [call EXCEPT ![c] = attempt]
        /\ UNCHANGED <<kind, work, free, abandoned>>

\* A permit, and the submission.  The bounded call recomputes what remains for the wait; the
\* sync call waits once more for what remained before it waited for the permit.
AcquireSlot(c) ==
    /\ call[c].pc = "acquire" /\ free > 0
    /\ free' = free - 1
    /\ work' = [work EXCEPT ![c] = "queued"]
    /\ call' = [call EXCEPT ![c].pc = "call", ![c].waited = 0,
                   ![c].limit = IF kind[c] = "bounded" THEN Budget - call[c].elapsed ELSE @]
    /\ UNCHANGED <<kind, breaker, abandoned>>

\* The executor refuses the submission: the permit and the probe are given back.
SubmitFails(c) ==
    /\ call[c].pc = "acquire" /\ free > 0
    /\ Report(c, release_request)
    /\ End(c)
    /\ UNCHANGED <<kind, work, free, abandoned>>

AcquireTimesOut(c) ==
    /\ call[c].pc = "acquire" /\ free = 0
    /\ call[c].waited = call[c].limit
    /\ Report(c, record_failure)
    /\ End(c)
    /\ UNCHANGED <<kind, work, free, abandoned>>

StartWork(c) ==
    /\ work[c] = "queued"
    /\ work' = [work EXCEPT ![c] = "running"]
    /\ UNCHANGED <<kind, breaker, call, free, abandoned>>

\* Mutant: only work that returns gives its permit back.
freed_by_success(result) == IF result = "ok" THEN free + 1 ELSE free

freed(result) == free + 1

\* _run_sync_call: the permit comes back whether anybody still waits or not.
EndWork(c) ==
    /\ work[c] = "running"
    /\ \E result \in Results :
          /\ work' = [work EXCEPT ![c] = IF call[c].pc = "call" THEN result ELSE "none"]
          /\ free' = freed(result)
    /\ UNCHANGED <<kind, breaker, call, abandoned>>

\* The results a caller can see now; a stream that begins with nothing left only times out.
Answers(c) == CASE Blocking(c) -> {work[c]} \cap Results
                [] call[c].left = 0 -> {}
                [] OTHER -> Results

\* Work a caller leaves behind keeps running; a finished item is gone.
LeaveWork(c) == work' = [work EXCEPT ![c] = IF @ \in Results THEN "none" ELSE @]

Succeed(c) ==
    /\ call[c].pc = "call" /\ "ok" \in Answers(c)
    /\ Report(c, record_success)
    /\ End(c) /\ LeaveWork(c)
    /\ UNCHANGED <<kind, free, abandoned>>

\* An attempt that will not be repeated: the last one, one that is not retryable, every one
\* of a bounded call, a sync one whose work raised TimeoutError, and a stream that has
\* already passed on some text.
Fail(c) ==
    /\ call[c].pc = "call"
    /\ \E result \in Answers(c) \ {"ok"} :
          /\ \/ call[c].attempt = MaxAttempts \/ result = "fatal"
             \/ kind[c] \in {"bounded", "stream"}
             \/ kind[c] = "sync" /\ result = "timeout"
          /\ CASE result # "fatal" -> Report(c, record_failure)
               [] result = "fatal" /\ kind[c] = "stream" -> Report(c, record_success)
               [] OTHER -> Report(c, record_non_retryable_failure)
    /\ End(c) /\ LeaveWork(c)
    /\ UNCHANGED <<kind, free, abandoned>>

\* The wait for the answer is over.  The future of a sync call is cancelled: work that has
\* not started never runs, and its permit is gone.  A bounded call leaves its work alone.
CallTimesOut(c) ==
    /\ call[c].pc = "call" /\ call[c].waited = call[c].limit
    /\ Blocking(c) => work[c] \in {"queued", "running"}
    /\ kind[c] \in {"async", "stream"} => call[c].attempt = MaxAttempts
    /\ Report(c, record_failure)
    /\ End(c)
    /\ IF kind[c] = "sync" /\ work[c] = "queued"
         THEN /\ abandoned < MaxAbandoned /\ abandoned' = abandoned + 1
              /\ work' = [work EXCEPT ![c] = "none"]
         ELSE UNCHANGED <<work, abandoned>>
    /\ UNCHANGED <<kind, free>>

\* Mutant: the delay doubles without a limit.
uncapped_delay(c) == Delay * 2 ^ (call[c].attempt - 1)

\* The async call limits its delay by what its attempt began with, the sync call by what is
\* left now, the stream not at all.
delay(c) ==
    LET backoff == Delay * 2 ^ (call[c].attempt - 1)
        now == call[c].elapsed
    IN  CASE kind[c] = "async" -> Smaller(backoff, call[c].left)
          [] kind[c] = "sync" -> Smaller(backoff, IF now < Budget THEN Budget - now ELSE 0)
          [] OTHER -> Delay

\* A failed or timed out attempt that will be repeated.
Retry(c) ==
    /\ call[c].pc = "call" /\ kind[c] # "bounded" /\ call[c].attempt < MaxAttempts
    /\ \/ "retryable" \in Answers(c)
       \/ ~Blocking(c) /\ call[c].waited = call[c].limit
    /\ LeaveWork(c)
    /\ IF delay(c) = 0
         THEN BeginAttempt(c, call[c].attempt + 1, call[c].elapsed, call[c].probe)
         ELSE /\ call' = [call EXCEPT ![c] = [@ EXCEPT !.pc = "sleep", !.waited = 0,
                                                       !.limit = delay(c)]]
              /\ UNCHANGED breaker
    /\ UNCHANGED <<kind, free, abandoned>>

EndSleep(c) ==
    /\ call[c].pc = "sleep" /\ call[c].waited = call[c].limit
    /\ BeginAttempt(c, call[c].attempt + 1, call[c].elapsed, call[c].probe)
    /\ UNCHANGED <<kind, work, free, abandoned>>

\* CancelledError during an attempt; a bounded call cancels its future.
Cancel(c) ==
    /\ kind[c] # "sync"
    /\ call[c].pc \in {"acquire", "call"}
    /\ Report(c, release_request)
    /\ End(c)
    /\ IF work[c] = "queued"
         THEN /\ abandoned < MaxAbandoned /\ abandoned' = abandoned + 1
              /\ work' = [work EXCEPT ![c] = "none"]
         ELSE LeaveWork(c) /\ UNCHANGED abandoned
    /\ UNCHANGED <<kind, free>>

\* CancelledError in the sleep between two attempts, raised inside the handler of the first;
\* and GeneratorExit in a stream whose reader went away.  Neither reaches a handler.
Abandon(c) ==
    /\ \/ kind[c] \in {"async", "stream"} /\ call[c].pc = "sleep"
       \/ kind[c] = "stream" /\ call[c].pc = "call"
    /\ abandoned < MaxAbandoned /\ abandoned' = abandoned + 1
    /\ End(c)
    /\ UNCHANGED <<kind, breaker, work, free>>

\* No timer that is due is passed over.
Tick ==
    /\ \A c \in Callers : call[c].pc # "idle" => call[c].waited < call[c].limit
    /\ call' = [c \in Callers |-> IF call[c].pc = "idle" THEN call[c]
                   ELSE [call[c] EXCEPT !.elapsed = @ + 1, !.waited = @ + 1]]
    /\ breaker' = [breaker EXCEPT !.openFor = Smaller(@ + 1, Recovery)]
    /\ UNCHANGED <<kind, work, free, abandoned>>

-----------------------------------------------------------------------------
Init ==
    /\ kind \in Kinds
    /\ breaker = [state |-> "closed", failures |-> 0, probe |-> FALSE, openFor |-> Recovery]
    /\ call = [c \in Callers |-> IdleCall]
    /\ work = [c \in Callers |-> "none"]
    /\ free = Slots
    /\ abandoned = 0

Timers(c) == AcquireTimesOut(c) \/ CallTimesOut(c) \/ EndSleep(c)

Next ==
    \/ \E c \in Callers :
          \/ Start(c) \/ AcquireSlot(c) \/ SubmitFails(c) \/ StartWork(c) \/ EndWork(c)
          \/ Succeed(c) \/ Fail(c) \/ Retry(c) \/ Cancel(c) \/ Abandon(c) \/ Timers(c)
    \/ Tick

Progress(c) == Timers(c) \/ AcquireSlot(c) \/ Succeed(c) \/ Fail(c) \/ Retry(c)

ResilienceSpec == Init /\ [][Next]_resilienceVars

\* Time passes, timers fire, and a caller takes the answer or the permit that is there.  No
\* fairness for the dependency and its work: they may hang.
ResilienceFairSpec ==
    /\ ResilienceSpec
    /\ WF_resilienceVars(Tick)
    /\ \A c \in Callers :
          WF_resilienceVars(Progress(c))

-----------------------------------------------------------------------------
(* Properties *)

\* The type invariant, checked as part of BreakerSound: breaker, calls, work and permits stay in their sets.
ResilienceTypeOK ==
    /\ kind \in Kinds
    /\ breaker \in Breaker
    /\ call \in [Callers -> Call]
    /\ work \in [Callers -> WorkStates]
    /\ free \in 0..Slots
    /\ abandoned \in 0..MaxAbandoned

\* Whatever order late results of old calls and probes report in, a closed circuit has not
\* reached its failure threshold, and only a half-open one holds a probe back
\* (record_failure, record_success, record_non_retryable_failure).
BreakerSound ==
    /\ ResilienceTypeOK
    /\ breaker.state = "closed" => breaker.failures < Threshold
    /\ breaker.probe => breaker.state = "half_open"

\* A call with retries lasts at most twice its budget (a stream, its budget and its delays); a
\* bounded call at most its budget, the wait for a permit included
\* (call_with_resilience, call_sync_with_resilience, run_bounded_sync_call).
CallsBounded ==
    \A c \in Callers :
        call[c].elapsed <= CASE kind[c] = "bounded" -> Budget
                             [] kind[c] = "stream" -> Budget + (MaxAttempts - 1) * Delay
                             [] OTHER -> 2 * Budget

\* Once no work is left, every permit is back, whichever way the calls ended, in every run in
\* which no call was abandoned.  The one that matters is work cancelled before it started, which
\* never returns its permit; the other two, a cancelled retry sleep and a stream whose reader
\* left, share its counter (_run_sync_call, _sync_call_slots).
SlotsBack ==
    (\A c \in Callers : work[c] \notin {"queued", "running"}) /\ abandoned = 0
        => free = Slots

\* A half-open probe is decided or given back, though the dependency may hang, so that the
\* circuit can recover; unless a call was abandoned between attempts or by its reader
\* (try_acquire_request, release_request).
ProbeSettles == breaker.probe ~> (~breaker.probe \/ abandoned > 0)

=============================================================================
