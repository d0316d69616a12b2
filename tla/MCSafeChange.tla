---------------------------- MODULE MCSafeChange ----------------------------
EXTENDS SafeChange, TLC
CONSTANTS a1, w1, w2, k1
MCKeyOf == [a \in ApprovalIds |-> k1]
Symmetry == Permutations(Workers)
=============================================================================
