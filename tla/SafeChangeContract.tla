------------------------- MODULE SafeChangeContract -------------------------
(***************************************************************************)
(* What the approval and safe-change services promise together, stated on  *)
(* statuses alone: an approval is decided once and for good, and the       *)
(* change execution it authorizes moves only along the edges of the change *)
(* lifecycle, and only while its approval stands approved.                 *)
(***************************************************************************)
EXTENDS IncidentLifecycle

CONSTANT Ids
VARIABLES approval,        \* status of each approval request
          execution        \* status of the change execution it authorizes

DecisionMoves == {<<"absent", "pending">>}
                    \cup {<<"pending", s>> : s \in {"approved", "rejected", "cancelled"}}

AgentMoves ==
    {<<"absent", "created">>, <<"created", "precheck_running">>,
     <<"precheck_running", "precheck_failed">>, <<"precheck_running", "dry_run_running">>,
     <<"dry_run_running", "dry_run_failed">>, <<"dry_run_running", "dry_run_completed">>,
     <<"dry_run_running", "waiting_manual_execution">>,
     <<"dry_run_running", "sandbox_executing">>, <<"dry_run_running", "escalated">>,
     <<"dry_run_completed", "precheck_failed">>,
     <<"dry_run_completed", "waiting_manual_execution">>,
     <<"dry_run_completed", "sandbox_executing">>, <<"dry_run_completed", "escalated">>,
     <<"sandbox_executing", "sandbox_validated">>}

\* What an operator's receipt may do: never before waiting_manual_execution, and
\* never out of "closed".
ReceiptMoves ==
    {<<"waiting_manual_execution", s>> :
        s \in {"closed", "rollback_recommended", "partial_success", "recovery_pending",
               "rolled_back", "rollback_failed"}}
    \cup {<<"partial_success", s>> :
        s \in {"rollback_recommended", "recovery_pending", "rolled_back",
               "rollback_failed"}}
    \cup {<<"rollback_recommended", s>> :
        s \in {"recovery_pending", "rolled_back", "rollback_failed"}}
    \cup {<<"recovery_pending", s>> : s \in {"closed", "rollback_recommended"}}
    \cup {<<"rolled_back", "recovery_pending">>,
          <<"rollback_failed", "recovery_pending">>, <<"rollback_failed", "rolled_back">>}

Decide(a) ==
    /\ \E s \in {"pending", "approved", "rejected", "cancelled"} :
        /\ approval' = [approval EXCEPT ![a] = s]
        /\ <<approval[a], s>> \in DecisionMoves
    /\ UNCHANGED execution

Execute(a) ==
    /\ approval[a] = "approved"
    /\ \E s \in ExecutionStatuses :
        /\ execution' = [execution EXCEPT ![a] = s]
        /\ <<execution[a], s>> \in AgentMoves \cup ReceiptMoves
    /\ UNCHANGED approval

Init ==
    /\ approval \in [Ids -> {"absent", "approved"}]
    /\ execution = [a \in Ids |-> "absent"]

Next == \E a \in Ids : Decide(a) \/ Execute(a)

Spec == Init /\ [][Next]_<<approval, execution>>
=============================================================================
