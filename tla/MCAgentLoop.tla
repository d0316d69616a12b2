----------------------------- MODULE MCAgentLoop -----------------------------
\* Steps of every class the risk controller tells apart; two queries of one tool, two manual
\* analyses.
EXTENDS AgentLoop, TLC

CONSTANTS q1, q2, qf, manA, manB, act, sug

MCNameOf ==
    [s \in Steps |-> CASE s \in {q1, q2} -> "query_logs"
                       [] s = qf -> "query_mysql_status"
                       [] s \in {manA, manB} -> "manual_analysis"
                       [] s = act -> "restart_service"
                       [] s = sug -> "suggest_remediation"]

MCToolOf ==
    [s \in Steps |-> CASE s \in {q1, q2, qf} -> "query"
                       [] s \in {manA, manB} -> "manual_analysis"
                       [] s = act -> "action"
                       [] s = sug -> "suggest_remediation"]

MCTextOf ==
    [s \in Steps |-> CASE s = qf -> "forbidden"
                       [] s \in {manA, manB, sug} -> "approval"
                       [] OTHER -> "plain"]

MCLevelOf == [s \in Steps |-> CASE s \in {act, sug} -> "medium" [] OTHER -> "low"]
=============================================================================
