--------------------------- MODULE MC_UsageLedger ---------------------------
(***************************************************************************)
(* Instances of UsageLedger: the client holds the top-level key, or one of *)
(* its derived keys.                                                       *)
(***************************************************************************)
EXTENDS UsageLedger
CONSTANTS m1, m2, top, child, r1

MC_RootOf      == [k \in Keys |-> IF k = child THEN top ELSE k]
MC_TopReader   == [r \in Readers |-> top]
MC_ChildReader == [r \in Readers |-> child]
=============================================================================
