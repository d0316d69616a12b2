----------------------------- MODULE MCApproval -----------------------------
EXTENDS Approval, TLC
CONSTANTS a1, a2, w1, w2, k1
MCKeyOf == [a \in ApprovalIds |-> k1]
Symmetry == Permutations(Workers)
=============================================================================
