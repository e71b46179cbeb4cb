-------------------------- MODULE SpeechRefinement --------------------------
(* The speech service implements the promise of Idempotency-Key. *)
EXTENDS SpeechService

\* NULL is not a response.
ASSUME ResultsAssumption == None \notin [id : Ids, by : Calls, storage : Storages]

ResultOf(row) == [id |-> row.id, by |-> row.by, storage |-> row.storage]

\* A call asks for its key from the moment it is authorized.
Asked == [c \in Calls |-> calls[c].scope]

\* A key is settled by its completed record, for what is left of its retention.
Settled == [s \in Scopes |->
    IF records[s].state = "completed" THEN ResultOf(records[s]) ELSE None]

Left == [s \in Scopes |-> IF records[s].state = "completed" THEN records[s].ttl ELSE 0]

\* A call has been given a result once it completed the operation itself or
\* claimed a completed record.
Observed == [c \in Calls |->
    IF calls[c].pc \in Answered \cup {"replaying"} THEN ResultOf(calls[c]) ELSE None]

Promise == INSTANCE IdempotentAnswers WITH
    asked <- Asked, settled <- Settled, left <- Left, observed <- Observed

\* Every step of calls, releases, cleanup, deletion and the clock is a step of
\* the abstract promise or leaves it alone.
KeepsPromise == Promise!Spec
=============================================================================
