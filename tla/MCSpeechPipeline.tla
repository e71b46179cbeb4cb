-------------------------- MODULE MCSpeechPipeline --------------------------
(* A small instance of the speech pipeline for TLC. *)
EXTENDS SpeechPipeline, TLC

CONSTANTS gem, prov, quiet

\* The chain in product order, and an account's own order.
ProductOrder == <<gem, prov, quiet>>
OwnOrder == <<prov, gem, quiet>>

Request(op, delegated, fallback, requested, saved) ==
    [op |-> op, delegated |-> delegated, fallback |-> fallback,
     requested |-> requested, saved |-> saved]

\* The requests that differ in what the pipeline does with them.
SomePlans ==
    {Request("tts", FALSE, TRUE, None, ProductOrder),
     Request("tts", FALSE, FALSE, <<prov>>, OwnOrder),
     Request("tts", TRUE, TRUE, <<quiet, prov>>, ProductOrder),
     Request("tts", FALSE, TRUE, <<prov, prov>>, ProductOrder),
     Request("stt", FALSE, TRUE, None, ProductOrder),
     Request("stt", TRUE, TRUE, <<prov>>, OwnOrder)}

\* Calls and operations only ever occur as wholes.
Alike == Permutations(Calls) \cup Permutations(Operations)
=============================================================================
