---------------------------- MODULE MCControlWork ----------------------------
(* A small instance of the control plane's rows for TLC. *)
EXTENDS ControlWork, TLC

\* Requests, processes, keys and bodies are interchangeable.
Alike == Permutations(Submitters) \cup Permutations(Processes)
         \cup Permutations(Keys) \cup Permutations(Bodies)
=============================================================================
