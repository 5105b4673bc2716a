-------------------------------- MODULE MC_Keys --------------------------------
(* Three parts about keys that share no state: how a proxy machine decides on  *)
(* one, how sub-keys are minted from one, how a user's claims come to rule     *)
(* over them.  One of them moves, from the initial state of the others, so     *)
(* that the states of a run are the sum of theirs.                             *)
EXTENDS KeyCache, KeyDerive, TeamKeys, TLC
CONSTANTS top, sub, q1, q2, d1, d2

MC_RootOf  == [k \in Keys |-> top]
\* The derived key expires within the bounded time, the top-level key never.
MC_Expires == [k \in Keys |-> IF k = sub THEN LastInstant - 1 ELSE LastInstant + 1]

\* Once a key is minted, claims and memberships are of its team only: the syncs
\* of several teams, and the life of keys, are explored one after the other.  The
\* second key is derived from the first.
KeysInOneTeam ==
    \A k \in KeyIds : keyRow[k].status # "none" =>
        /\ userTeams \subseteq {keyRow[k].team}
        /\ \A q \in Slots : call[q].claim \subseteq {keyRow[k].team}
        /\ k = 1 \/ keyRow[k].parent = 1

KeysInit == CacheInit /\ Init /\ TeamsInit

KeysNext ==
    \/ Init /\ TeamsInit /\ CacheNext /\ UNCHANGED <<vars, teamVars>>
    \/ CacheInit /\ TeamsInit /\ Next /\ UNCHANGED <<cacheVars, teamVars>>
    \/ /\ CacheInit /\ Init
       /\ TeamsNext /\ KeysInOneTeam'
       /\ UNCHANGED <<cacheVars, vars>>

KeysSpec == KeysInit /\ [][KeysNext]_<<cacheVars, vars, teamVars>>

\* The types of the three (one type invariant for one run).
KeysTypesOK == CacheTypeOK /\ TypeOK /\ TeamsTypeOK

MC_Symmetry == Permutations(Callers) \cup Permutations(Requests)
                 \cup Permutations(Slots)
================================================================================
