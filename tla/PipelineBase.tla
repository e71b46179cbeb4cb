---------------------------- MODULE PipelineBase ----------------------------
(* The sets shared by the modules of the speech pipeline. *)
EXTENDS Naturals, Sequences, FiniteSets

CONSTANTS
    Calls,      \* speech requests; a call also stands for the audio it makes
    Operations, \* canonical request ids: idempotent operations
    None        \* Rust's None

ASSUME CallsAssumption == IsFiniteSet(Calls) /\ None \notin Calls \cup Operations
=============================================================================
