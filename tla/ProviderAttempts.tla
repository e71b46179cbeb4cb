-------------------------- MODULE ProviderAttempts --------------------------
(***************************************************************************)
(* One logical attempt at a speech provider                                *)
(* (infrastructure/providers/{common,gemini,openai,elevenlabs,deepgram}):  *)
(* the permit of the provider's semaphore, the retry token that all        *)
(* exchanges of the attempt share, and the file that Gemini keeps while it *)
(* transcribes, with the guard and the detached task that delete it.       *)
(*                                                                         *)
(* An adapter is one semaphore for both of its capabilities.  Gemini's     *)
(* Files API is external: a file exists once the finalizing exchange has   *)
(* been applied, whether or not its answer arrives.                        *)
(***************************************************************************)
EXTENDS PipelineBase

CONSTANTS
    Providers,  \* provider adapters
    Gemini,     \* the adapter that uploads a file before it transcribes
    Keyed,      \* the adapters with an API key, the caller's or Waveform's own
    Permits     \* max_concurrency of every adapter

ASSUME ProvidersAssumption ==
    /\ Gemini \in Providers
    /\ Keyed \subseteq Providers
    /\ Permits \in Nat \ {0}
    /\ None \notin Providers

VARIABLES
    free,       \* free permits of each adapter's semaphore
    attempt,    \* the attempt each call is in
    files,      \* the file of each call at Gemini
    guards,     \* calls whose GeminiFileCleanup still has the file's name
    cleanups,   \* deletions spawned by spawn_cleanup
    asked       \* calls for whose file a deletion has been sent

attemptVars == <<free, attempt, files, guards, cleanups, asked>>

\* The exchanges that may be sent again (execute, execute_with_retry_budget)
\* and those that may not (execute_without_retry).
Resendable == {"poll", "interact", "transcribe"}
OneShot    == {"synthesize", "upload", "delete"}

NoAttempt == [at |-> None, spent |-> FALSE, again |-> <<>>]

\* at: the adapter whose permit is held; spent: the TransientRetryBudget;
\* again: the exchanges that were sent a second time.
AttemptTypes == [at : Providers \cup {None}, spent : BOOLEAN,
                 again : Seq(Resendable \cup OneShot)]

\* lost: the file exists, and its name never reached Waveform.
FileStates == {"none", "lost", "kept", "gone"}

AttemptsTypeOK ==
    /\ free \in [Providers -> 0 .. Permits]
    /\ attempt \in [Calls -> AttemptTypes]
    /\ files \in [Calls -> FileStates]
    /\ guards \subseteq Calls
    /\ cleanups \subseteq Calls
    /\ asked \subseteq Calls

AttemptsInit ==
    /\ free = [p \in Providers |-> Permits]
    /\ attempt = [c \in Calls |-> NoAttempt]
    /\ files = [c \in Calls |-> "none"]
    /\ guards = {}
    /\ cleanups = {}
    /\ asked = {}
-----------------------------------------------------------------------------
\* try_acquire: an adapter without a key is Configuration, one without a free
\* permit is Saturated; neither waits.
MayAcquire(p) == p \in Keyed /\ free[p] > 0

Acquire(c, p) ==
    /\ MayAcquire(p)
    /\ free' = [free EXCEPT ![p] = @ - 1]
    /\ attempt' = [attempt EXCEPT ![c] = [NoAttempt EXCEPT !.at = p]]

\* Faulty variant: the permit is not returned.
ForgetPermit(c) ==
    /\ free' = free
    /\ attempt' = [attempt EXCEPT ![c].at = None]

\* The OwnedSemaphorePermit is dropped when the attempt returns or is dropped.
Release(c) ==
    /\ free' = IF attempt[c].at = None THEN free
               ELSE [free EXCEPT ![attempt[c].at] = @ + 1]
    /\ attempt' = [attempt EXCEPT ![c].at = None]

\* Faulty variant: every exchange brings its own retry token.
ResendEach(c, exchange) ==
    attempt' = [attempt EXCEPT ![c].spent = TRUE,
                               ![c].again = Append(@, exchange)]

\* A transient failure and an unspent token: the exchange is sent again.
Resend(c, exchange) ==
    /\ ~attempt[c].spent
    /\ attempt' = [attempt EXCEPT ![c].spent = TRUE,
                                  ![c].again = Append(@, exchange)]

\* The token is spent also when too little time is left to use it.
SpendToken(c) ==
    /\ ~attempt[c].spent
    /\ attempt' = [attempt EXCEPT ![c].spent = TRUE]

\* A failure that is not transient, or no token: the exchange just fails.
KeepToken(c) == UNCHANGED attempt
-----------------------------------------------------------------------------
\* upload_file: start and finalize, neither sent twice.  GeminiFileCleanup is
\* made in the same poll that reads the answer.
FileUploaded(c) ==
    /\ files' = [files EXCEPT ![c] = "kept"]
    /\ guards' = guards \cup {c}
    /\ UNCHANGED <<cleanups, asked>>

\* The upload fails, times out or is dropped, before or after Gemini made it.
UploadLost(c) ==
    /\ \E f \in {"none", "lost"} : files' = [files EXCEPT ![c] = f]
    /\ UNCHANGED <<guards, cleanups, asked>>

\* run_until takes the name, then either deletes within the deadline ...
DeleteSent(c) ==
    /\ guards' = guards \ {c}
    /\ asked' = asked \cup {c}
    /\ UNCHANGED <<files, cleanups>>

\* Faulty variant: past the deadline the file is only logged.
DropName(c) ==
    /\ guards' = guards \ {c}
    /\ UNCHANGED <<files, cleanups, asked>>

\* ... or, past the deadline, hands the name to a detached task.
SpawnCleanup(c) ==
    /\ guards' = guards \ {c}
    /\ cleanups' = cleanups \cup {c}
    /\ UNCHANGED <<files, asked>>

\* Drop for GeminiFileCleanup: an armed guard spawns the deletion.
DropGuard(c) ==
    /\ guards' = guards \ {c}
    /\ cleanups' = IF c \in guards THEN cleanups \cup {c} ELSE cleanups
    /\ UNCHANGED asked

\* Gemini applies a deletion that was sent, or not.
DeleteApplied(c) == \E f \in {files[c], "gone"} : files' = [files EXCEPT ![c] = f]

\* The detached task sends one deletion and ends after at most a second.
RunCleanup(c) ==
    /\ c \in cleanups
    /\ cleanups' = cleanups \ {c}
    /\ asked' = asked \cup {c}
    /\ DeleteApplied(c)
    /\ UNCHANGED <<free, attempt, guards>>
=============================================================================
