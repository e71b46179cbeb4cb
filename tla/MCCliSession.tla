---------------------------- MODULE MCCliSession ----------------------------
(* A small instance of the command line client's sign-in for TLC. *)
EXTENDS CliSession, TLC

\* Processes, people and sign-ins only ever occur as wholes.
Alike == Permutations(Processes) \cup Permutations(People) \cup Permutations(Families)
=============================================================================
