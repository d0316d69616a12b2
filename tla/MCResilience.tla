---------------------------- MODULE MCResilience ----------------------------
EXTENDS Resilience
CONSTANTS c1, c2

\* Every pair of kinds; the pairs that only swap the two callers are left out.
MCKinds ==
    {k \in [Callers -> {"async", "stream", "sync", "bounded"}] :
        \/ k[c1] = k[c2]
        \/ <<k[c1], k[c2]>> \in {"async"} \X {"stream", "sync", "bounded"}
        \/ <<k[c1], k[c2]>> \in {"stream"} \X {"sync", "bounded"}
        \/ <<k[c1], k[c2]>> = <<"sync", "bounded">>}
=============================================================================
