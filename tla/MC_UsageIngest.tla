--------------------------- MODULE MC_UsageIngest ---------------------------
EXTENDS UsageIngest, TLC
CONSTANTS m1, m2, top, child, p1, p2
MC_RootOf == [k \in Keys |-> top]
MC_OwnRoot == [k \in Keys |-> k]
MC_Symmetry == Permutations({p1, p2})
MC_AllSymmetry == MC_Symmetry \cup Permutations({m1, m2})
=============================================================================
