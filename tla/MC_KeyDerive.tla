----------------------------- MODULE MC_KeyDerive -----------------------------
(* Instances of KeyDerive: requests are interchangeable. *)
EXTENDS KeyDerive, TLC
CONSTANTS q1, q2
MC_Symmetry == Permutations(Requests)
===============================================================================
