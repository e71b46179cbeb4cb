-------------------------- MODULE MCAccountDirectory --------------------------
(* Small instances of the account directory for TLC. *)
EXTENDS DirectoryInvariants, TLC

\* Lookups and Carbons only ever occur as wholes.
AllAlike == Permutations(Lookups) \cup Permutations(Carbons)
=============================================================================
