-------------------------- MODULE MCDiagnosisRun --------------------------
EXTENDS DiagnosisRun
CONSTANTS h1, h2, h3, p1, p2, s1
MCProcessOf == [h \in Handlers |-> IF h = h3 THEN p2 ELSE p1]
=============================================================================
