--------------------------- MODULE MCStorageProofs ---------------------------
(* Small instances of the storage proofs for TLC. *)
EXTENDS StorageInvariants, TLC

\* Requests, subjects and proof ids only ever occur as wholes.
AllAlike == Permutations(Requests) \cup Permutations(Subjects) \cup Permutations(Proofs)
=============================================================================
