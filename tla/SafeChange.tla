----------------------------- MODULE SafeChange -----------------------------
(***************************************************************************)
(* ApprovalService and ChangeExecutionService at work on one incident, as  *)
(* they are in the running program: the same store, the same handlers, and *)
(* every approval read of the change service with its projection repair.   *)
(***************************************************************************)
EXTENDS ChangeExecution

SafeChangeInit ==
    /\ ApprovalInit
    /\ plan \in [ApprovalIds -> Plans]
    /\ job = [w \in Workers |-> IdleJob]
    /\ audit = {}

\* An approval endpoint is called, on a handler that has nothing else to do.
ApprovalArrival(w) ==
    /\ Free(w)
    /\ Arrival(w)
    /\ UNCHANGED changeVars

\* The approval half of a handler's work, repairs on behalf of the change service
\* included.
ApprovalStep(w) == HandlerStep(w) /\ UNCHANGED changeVars

SafeChangeNext ==
    \/ \E w \in Workers : ApprovalArrival(w) \/ ApprovalStep(w)
    \/ ChangeNext

SafeChangeSpec == SafeChangeInit /\ [][SafeChangeNext]_allVars

-----------------------------------------------------------------------------
(* Properties *)

\* No change execution without a standing approval: whatever the two services
\* interleave, and however long after the operator read it, a row that exists
\* belongs to a request that is approved and stays approved.
ExecutionAuthorized ==
    \A a \in ApprovalIds :
        executions[a].status # "absent" => approvals[a].status = "approved"

=============================================================================
