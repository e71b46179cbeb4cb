----------------------------- MODULE SpeechBase -----------------------------
(***************************************************************************)
(* The sets and durations shared by the modules of the speech workflow.    *)
(*                                                                         *)
(* A scope stands for one IdempotencyScope (account, operation, key); only *)
(* its account and its operation matter beyond its identity.  A call is    *)
(* one HTTP request: it claims at most once, so the call itself stands for *)
(* the random lease token it generates and for the created_at it would     *)
(* write.  Request ids are chosen by the client (X-Request-ID), so several *)
(* calls may bring the same one.  Durations count ticks of the database    *)
(* clock; every stored deadline is kept as the time still left, 0 meaning  *)
(* "at or before now".                                                     *)
(***************************************************************************)
EXTENDS Naturals, FiniteSets

CONSTANTS
    Calls,      \* HTTP speech requests (and the lease token of each)
    Scopes,     \* idempotency scopes
    Ids,        \* request ids a client may send
    Digests,    \* digests of the validated request body
    Accounts,   \* accounts (storage keys)
    OwnerOf,    \* the account of a scope
    TtsScopes,  \* the scopes whose operation is text to speech
    Lease,      \* policy.lease_duration
    Ttl,        \* record_ttl: the idempotency retention, and that of held audio
    Deadline,   \* the public request deadline
    None        \* SQL NULL

ASSUME SetsAssumption ==
    /\ OwnerOf \in [Scopes -> Accounts]
    /\ TtsScopes \subseteq Scopes
    /\ None \notin Calls \cup Scopes \cup Ids \cup Digests \cup Accounts
    /\ None \notin {"briefcase", "held", "transcript"}

\* config.rs: the lease is shorter than the retention and covers the deadlines.
ASSUME DurationsAssumption ==
    /\ Lease \in Nat \ {0}
    /\ Ttl \in Nat
    /\ Deadline \in Nat \ {0}
    /\ Lease < Ttl
    /\ Deadline <= Lease

\* One tick less, saturating: a deadline that has passed stays passed.
Elapse(left) == IF left = 0 THEN 0 ELSE left - 1

\* Where the result of a call is: AudioStorage::Briefcase, AudioStorage::Held,
\* or the transcript of an STT operation.
Storages == {"briefcase", "held", "transcript"}
=============================================================================
