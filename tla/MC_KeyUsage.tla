---------------------------- MODULE MC_KeyUsage ----------------------------
(* Instances of KeyUsage: one client, holding the top-level key. *)
EXTENDS KeyUsage, TLC
CONSTANTS m1, m2, top, other, p1, p2, r1
MC_RootOf    == [k \in Keys |-> k]
MC_ReaderKey == [r \in Readers |-> top]
MC_Machines  == Permutations({m1, m2})
MC_Passes    == Permutations({p1, p2})

\* The TXT record names every machine: nothing is skipped for want of a name.
MC_NamesAll ==
    \A p \in Passes : at[p] = "idle" /\ at'[p] = "next" => todo'[p] = Machines

MC_NamedSpec ==
    KeyUsageInit /\ [][KeyUsageNext /\ MC_NamesAll]_<<ingestVars, readVars>>
============================================================================
