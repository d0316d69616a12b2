-------------------------- MODULE MCAlertDiagnosis --------------------------
EXTENDS AlertDiagnosis
CONSTANTS w1, w2, w3, p1, p2, i1, i2

MCProcessOf == [w \in Webhooks |-> IF w = w1 THEN p1 ELSE p2]

Event(i, status, startsAt, endsAt) ==
    [incident |-> i, status |-> status, startsAt |-> startsAt, endsAt |-> endsAt]

\* The first delivery of an alert to one process; its resolution, or a newer generation
\* together with another alert, and the newest generation to the other; in any order.
MCBatches == [w \in Webhooks |->
    CASE w = w1 -> {<<Event(i1, "firing", 1, 0)>>}
      [] w = w2 -> {<<Event(i1, "resolved", 1, 1)>>,
                    <<Event(i1, "firing", 2, 0), Event(i2, "firing", 1, 0)>>}
      [] w = w3 -> {<<Event(i1, "firing", 3, 0)>>}]

=============================================================================
