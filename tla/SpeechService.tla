---------------------------- MODULE SpeechService ----------------------------
(***************************************************************************)
(* The synchronous speech workflow of application/service.rs over the      *)
(* idempotency store and the held-audio store: any number of calls, on any *)
(* replica, interleaved with each other, with detached lease releases, the *)
(* scheduled cleanup, account deletion, process crashes and the clock.     *)
(*                                                                         *)
(* Every store transaction may also fail, or commit and lose its answer    *)
(* (with_timeout); the parameter seen says whether the call gets the       *)
(* answer.                                                                 *)
(***************************************************************************)
EXTENDS IdempotencyStore, HeldAudio

CONSTANT Prompt     \* TRUE: the request deadline cuts a call exactly on time

ASSUME PromptAssumption == Prompt \in BOOLEAN

VARIABLES
    calls,      \* each HTTP request
    releases,   \* lease releases spawned by a dropped OperationLeaseGuard
    deleted     \* accounts deleted at Silicon Accounts (tombstones)

vars == <<records, jobs, held, calls, releases, deleted>>

\* Where a call is in synthesize_authorized / transcribe_authorized:
\*   authorized  authenticated, about to claim
\*   claimed     lease acquired, OperationLeaseGuard armed
\*   working     history row started, in execute_tts / execute_stt
\*   completing  the result is there, about to complete the operation
\*   failing     in OperationLeaseGuard::fail
\*   replaying   IdempotencyDecision::Replay, checking access
\*   fresh, replayed   answered 200; ended: answered an error, or nobody
Guarded == {"claimed", "working", "completing", "failing"}
Open    == Guarded \cup {"authorized", "replaying"}
Answered == {"fresh", "replayed"}
Places  == Open \cup Answered \cup {"idle", "ended"}

Idle == [pc |-> "idle", scope |-> None, digest |-> None, id |-> None,
         origin |-> None, by |-> None, storage |-> None, budget |-> 0]

\* id is the candidate request id, then the canonical one; origin, by and
\* storage are those of the record the call acquired or replays.
CallTypes ==
    [pc : Places, scope : Scopes \cup {None}, digest : Digests \cup {None},
     id : Ids \cup {None}, origin : Calls \cup {None}, by : Calls \cup {None},
     storage : Storages \cup {None}, budget : 0 .. Deadline]

CallsTypeOK ==
    /\ calls \in [Calls -> CallTypes]
    /\ \A c \in Calls :
         /\ calls[c].pc = "idle" => calls[c].scope = None
         /\ calls[c].pc # "idle" =>
              calls[c].scope # None /\ calls[c].digest # None /\ calls[c].id # None

\* The shape of every row and every call; only a call that has not arrived has
\* no key, body and request id.
TypeOK ==
    /\ StoreTypeOK
    /\ HeldTypeOK
    /\ CallsTypeOK
    /\ releases \subseteq Calls
    /\ deleted \subseteq Accounts

Init ==
    /\ StoreInit
    /\ HeldInit
    /\ calls = [c \in Calls |-> Idle]
    /\ releases = {}
    /\ deleted = {}
-----------------------------------------------------------------------------
\* Call c stands at pc and may still run: the handler is polled only within
\* its tokio timeout.
At(c, pc) == calls[c].pc = pc /\ (Prompt => calls[c].budget > 0)

Owner(c) == OwnerOf[calls[c].scope]

Move(c, pc) == calls' = [calls EXCEPT ![c].pc = pc]

\* Answer 200 with the result that call by produced.
Succeed(c, pc, by) ==
    calls' = [calls EXCEPT ![c].pc = pc, ![c].by = by, ![c].budget = 0]

\* Answer an error (or nobody); the rest of the call's state is gone.
End(c) == calls' = [calls EXCEPT ![c] =
                [Idle EXCEPT !.pc = "ended", !.scope = calls[c].scope,
                             !.digest = calls[c].digest, !.id = calls[c].id]]

\* The handler starts its deadline and authenticates; a deleted account's
\* tokens are refused.
Authorize(c, s, d, i) ==
    /\ calls[c].pc = "idle"
    /\ OwnerOf[s] \notin deleted
    /\ calls' = [calls EXCEPT ![c] =
            [Idle EXCEPT !.pc = "authorized", !.scope = s, !.digest = d,
                         !.id = i, !.budget = Deadline]]
    /\ UNCHANGED <<records, jobs, held, releases, deleted>>
-----------------------------------------------------------------------------
(***************************************************************************)
(* The claim and its five decisions                                        *)
(***************************************************************************)

\* The call leaves claim with a lease (and its guard); without the answer it
\* ends and, having no guard yet, leaves the lease to expire.
Acquired(c, id, origin, seen) ==
    IF seen
    THEN calls' = [calls EXCEPT ![c].pc = "claimed", ![c].id = id,
                                ![c].origin = origin]
    ELSE End(c)

ClaimNew(c, seen) ==
    /\ At(c, "authorized")
    /\ InsertClaim(calls[c].scope, calls[c].digest, calls[c].id, c)
    /\ Acquired(c, calls[c].id, c, seen)
    /\ UNCHANGED <<held, releases, deleted>>

ClaimAbandoned(c, seen) ==
    LET rec == records[calls[c].scope] IN
    /\ At(c, "authorized")
    /\ ReclaimClaim(calls[c].scope, calls[c].digest, c)
    /\ Acquired(c, rec.id, rec.origin, seen)
    /\ UNCHANGED <<held, releases, deleted>>

ClaimCompleted(c) ==
    LET rec == records[calls[c].scope] IN
    /\ At(c, "authorized")
    /\ Replayable(calls[c].scope, calls[c].digest)
    /\ calls' = [calls EXCEPT ![c].pc = "replaying", ![c].id = rec.id,
                    ![c].origin = rec.origin, ![c].by = rec.by,
                    ![c].storage = rec.storage]
    /\ UNCHANGED <<records, jobs, held, releases, deleted>>

\* IdempotencyKeyReused or RequestInProgress
ClaimRefused(c) ==
    /\ At(c, "authorized")
    /\ \/ KeyReused(calls[c].scope, calls[c].digest)
       \/ InProgress(calls[c].scope, calls[c].digest)
    /\ End(c)
    /\ UNCHANGED <<records, jobs, held, releases, deleted>>

\* replay_tts, and the access check before a cached transcript: held audio
\* must still be there; Briefcase may grant or refuse the rest.
Replay(c) ==
    /\ At(c, "replaying")
    /\ \/ /\ calls[c].storage = "held" => IsHeld(calls[c].id, Owner(c))
          /\ Succeed(c, "replayed", calls[c].by)
       \/ /\ calls[c].storage = "held" => ~IsHeld(calls[c].id, Owner(c))
          /\ End(c)
    /\ UNCHANGED <<records, jobs, held, releases, deleted>>
-----------------------------------------------------------------------------
(***************************************************************************)
(* A call that owns the lease                                              *)
(***************************************************************************)

\* The voice profile, resolved before start_job, may be refused.
ResolveVoiceFails(c) ==
    /\ At(c, "claimed")
    /\ calls[c].scope \in TtsScopes
    /\ Move(c, "failing")
    /\ UNCHANGED <<records, jobs, held, releases, deleted>>

Start(c) ==
    /\ At(c, "claimed")
    /\ StartJob(calls[c].scope, c)
    /\ Move(c, "working")
    /\ UNCHANGED <<held, releases, deleted>>

\* execute_tts or execute_stt fails (providers, normalization, sources).
ExecuteFails(c) ==
    /\ At(c, "working")
    /\ Move(c, "failing")
    /\ UNCHANGED <<records, jobs, held, releases, deleted>>

\* The MP3 is stored in Briefcase, or the transcript is there.
Deliver(c) ==
    /\ At(c, "working")
    /\ calls' = [calls EXCEPT ![c].pc = "completing",
                    ![c].storage = IF calls[c].scope \in TtsScopes
                                   THEN "briefcase" ELSE "transcript"]
    /\ UNCHANGED <<records, jobs, held, releases, deleted>>

\* store_audio holds the MP3 instead; without the answer of the audio store
\* the request fails.
HoldAudio(c, seen) ==
    /\ At(c, "working")
    /\ calls[c].scope \in TtsScopes
    /\ Hold(calls[c].id, Owner(c), c)
    /\ IF seen
       THEN calls' = [calls EXCEPT ![c].pc = "completing", ![c].storage = "held"]
       ELSE Move(c, "failing")
    /\ UNCHANGED <<records, jobs, releases, deleted>>

Complete(c, seen) ==
    /\ At(c, "completing")
    /\ CompleteJob(calls[c].scope, calls[c].id, c, calls[c].storage)
    /\ IF seen THEN Succeed(c, "fresh", c) ELSE Move(c, "failing")
    /\ UNCHANGED <<held, releases, deleted>>

\* Faulty variant: the result is answered although it was not recorded.
AnswerUnrecorded(c) ==
    /\ At(c, "completing")
    /\ Succeed(c, "fresh", c)
    /\ UNCHANGED <<records, jobs, held, releases, deleted>>

\* LeaseLost, InvalidRecord, or the database did not commit.
CompleteFails(c) ==
    /\ At(c, "completing")
    /\ Move(c, "failing")
    /\ UNCHANGED <<records, jobs, held, releases, deleted>>

\* OperationLeaseGuard::fail: the release is tried once, then disarmed.
Fail(c) ==
    /\ At(c, "failing")
    /\ \/ ReleaseLease(calls[c].scope, c)
       \/ UNCHANGED storeVars
    /\ End(c)
    /\ UNCHANGED <<held, releases, deleted>>

\* The deadline, a client that hangs up, or an error that `?` returns (claim
\* and start_job): the future is dropped, and an armed guard spawns a release.
Interrupt(c) ==
    /\ calls[c].pc \in Open
    /\ End(c)
    /\ releases' = IF calls[c].pc \in Guarded THEN releases \cup {c} ELSE releases
    /\ UNCHANGED <<records, jobs, held, deleted>>

\* Drop for OperationLeaseGuard: the spawned release runs once, best effort.
DetachedRelease(c) ==
    /\ c \in releases
    /\ \/ ReleaseLease(calls[c].scope, c)
       \/ UNCHANGED storeVars
    /\ releases' = releases \ {c}
    /\ UNCHANGED <<held, calls, deleted>>

\* The process dies: nobody answers and nothing is released.
Crash(c) ==
    /\ calls[c].pc \in Open
    /\ End(c)
    /\ UNCHANGED <<records, jobs, held, releases, deleted>>
-----------------------------------------------------------------------------
(***************************************************************************)
(* Background work, deletion and time                                      *)
(***************************************************************************)

Recover ==
    /\ RecoverExpiredJobs
    /\ UNCHANGED <<held, calls, releases, deleted>>

CleanRecords ==
    /\ \E batch \in SUBSET Scopes : DeleteExpiredRecords(batch)
    /\ UNCHANGED <<held, calls, releases, deleted>>

CleanAudio ==
    /\ \E batch \in SUBSET Ids : DeleteExpiredAudio(batch)
    /\ UNCHANGED <<records, jobs, calls, releases, deleted>>

\* purge_account, from the account.deleted webhook or the account sweep
PurgeAccount(a) ==
    /\ a \notin deleted
    /\ DeleteAccountRows(a)
    /\ DeleteAccountAudio(a)
    /\ deleted' = deleted \cup {a}
    /\ UNCHANGED <<calls, releases>>

\* With prompt timers no call outlives its deadline.
Tick ==
    /\ Prompt => \A c \in Calls : calls[c].pc \in Open => calls[c].budget > 0
    /\ AgeStore
    /\ AgeAudio
    /\ calls' = [c \in Calls |-> [calls[c] EXCEPT !.budget = Elapse(@)]]
    /\ UNCHANGED <<releases, deleted>>

CallStep(c) ==
    \/ \E s \in Scopes, d \in Digests, i \in Ids : Authorize(c, s, d, i)
    \/ \E seen \in BOOLEAN : ClaimNew(c, seen) \/ ClaimAbandoned(c, seen)
    \/ ClaimCompleted(c)
    \/ ClaimRefused(c)
    \/ Replay(c)
    \/ ResolveVoiceFails(c)
    \/ Start(c)
    \/ ExecuteFails(c)
    \/ Deliver(c)
    \/ \E seen \in BOOLEAN : HoldAudio(c, seen) \/ Complete(c, seen)
    \/ CompleteFails(c)
    \/ Fail(c)
    \/ Interrupt(c)
    \/ DetachedRelease(c)
    \/ Crash(c)

Next ==
    \/ \E c \in Calls : CallStep(c)
    \/ Recover
    \/ CleanRecords
    \/ CleanAudio
    \/ \E a \in Accounts : PurgeAccount(a)
    \/ Tick

Spec == Init /\ [][Next]_vars

\* Faulty variant: the timeout wraps the work and not the claim.
CutWhileGuarded(c) ==
    calls[c].budget = 0 /\ calls[c].pc \in Guarded /\ Interrupt(c)

\* The tokio timeout around the handler
DeadlineCut(c) == calls[c].budget = 0 /\ Interrupt(c)

(***************************************************************************)
(* What the runtime keeps doing: the database clock runs, timers fire, and *)
(* spawn_cleanup repeats recovery and deletion on every interval.  Nothing *)
(* is assumed of calls, clients, providers or detached releases.           *)
(***************************************************************************)
Fairness ==
    /\ WF_vars(Tick)
    /\ WF_vars(Recover)
    /\ WF_vars(CleanRecords)
    /\ WF_vars(CleanAudio)
    /\ \A c \in Calls : WF_vars(DeadlineCut(c))

LiveSpec == Spec /\ Fairness
-----------------------------------------------------------------------------
(***************************************************************************)
(* Safety                                                                  *)
(***************************************************************************)

\* With prompt timers (D-041): while a call may still work on an operation, no other call owns the
\* same scope.  Deletion of the account removes the record under a running
\* call, so the promise is for the accounts that still exist.
OneWorker ==
    \A c1, c2 \in Calls :
        /\ calls[c1].pc \in {"claimed", "working", "completing"}
        /\ calls[c2].pc \in {"claimed", "working", "completing"}
        /\ calls[c1].budget > 0 /\ calls[c2].budget > 0
        /\ calls[c1].scope = calls[c2].scope
        /\ Owner(c1) \notin deleted
        => c1 = c2

\* Two successful answers to the same operation (same key, same created_at)
\* are the same answer: one call at most ran it to the end, and everyone else
\* replayed what that call stored, whatever answers were lost on the way.
AnswersAgree ==
    \A c1, c2 \in Calls :
        /\ calls[c1].pc \in Answered /\ calls[c2].pc \in Answered
        /\ calls[c1].scope = calls[c2].scope
        /\ calls[c1].origin = calls[c2].origin
        => /\ calls[c1].by = calls[c2].by
           /\ calls[c1].id = calls[c2].id
           /\ calls[c1].storage = calls[c2].storage

\* A success answers the body that was sent: the call that produced it ran
\* under the same account, operation and key, and for the same digest.
AnswerFitsRequest ==
    \A c \in Calls : calls[c].pc \in Answered =>
        /\ calls[c].by \in Calls
        /\ calls[calls[c].by].scope = calls[c].scope
        /\ calls[calls[c].by].digest = calls[c].digest

\* docs/api.md "Job state and idempotency completion are committed together":
\* a completed record has a completed history row of its own scope, and no
\* later claim, release, recovery or colliding request id takes it away.
CompletedTogether ==
    \A s \in Scopes : records[s].state = "completed" =>
        /\ jobs[records[s].id].status = "completed"
        /\ jobs[records[s].id].scope = s
        /\ jobs[records[s].id].digest = records[s].digest

\* D-057: a history row that runs under a live lease is backed by the pending
\* record of its scope, with the same token, request id and lease end, so
\* recovery never fails the attempt of a caller whose lease is live.
JobsFollowLease ==
    \A i \in Ids : jobs[i].status = "running" /\ jobs[i].lease > 0 =>
        LET s == jobs[i].scope IN
        /\ Current(s, jobs[i].token)
        /\ records[s].id = i
        /\ records[s].lease = jobs[i].lease

\* Held audio belongs to the history row of its request id: same account, and
\* made by a call of the same key and body, although clients choose the ids.
HeldFitsHistory ==
    \A i \in Ids : held[i].owner \notin deleted \cup {None} =>
        /\ jobs[i].status # "absent"
        /\ OwnerOf[jobs[i].scope] = held[i].owner
        /\ calls[held[i].by].scope = jobs[i].scope
        /\ calls[held[i].by].digest = jobs[i].digest

\* With prompt timers: the audio behind a completed record is the audio of the attempt that
\* completed it, never that of an interrupted one.
HeldIsTheAnswer ==
    \A s \in Scopes :
        LET rec == records[s] IN
        /\ rec.state = "completed" /\ rec.storage = "held"
        /\ OwnerOf[s] \notin deleted
        /\ held[rec.id].owner # None
        => held[rec.id].owner = OwnerOf[s] /\ held[rec.id].by = rec.by

\* D-050: a completed record and its history row stay exactly as they are
\* until the retention is over or the account is deleted.
RetentionKept ==
    [][\A s \in Scopes :
         records[s].state = "completed" /\ OwnerOf[s] \notin deleted' =>
            \/ records[s].ttl = 0
            \/ /\ records'[s] = [records[s] EXCEPT !.ttl = records'[s].ttl]
               /\ jobs'[records[s].id] = jobs[records[s].id]]_vars
-----------------------------------------------------------------------------
(***************************************************************************)
(* Liveness, under Fairness and prompt timers                              *)
(***************************************************************************)

\* Every request is answered or dropped.
CallsEnd ==
    \A c \in Calls : calls[c].pc \in Open ~> calls[c].pc \notin Open

\* An attempt shown as running finishes, also after a crash or a lost release
\* (request_interrupted once its lease expires).
AttemptsFinish ==
    \A i \in Ids, c \in Calls :
        LET RunsUnder == jobs[i].status = "running" /\ jobs[i].token = c
        IN  RunsUnder ~> ~RunsUnder

\* Records and held audio do not outlive their retention for ever, also when
\* the attempts that made them were abandoned.
EverythingExpires ==
    /\ \A s \in Scopes : records[s].state # "absent" ~> records[s].state = "absent"
    /\ \A i \in Ids : held[i].owner # None ~> held[i].owner = None
-----------------------------------------------------------------------------
(***************************************************************************)
(* Promises of the documentation that the code does not keep               *)
(***************************************************************************)

\* docs/accounts.md: account.deleted deletes the account's history and held
\* audio, so none is there afterwards.
DeletedAccountsKeepNothing ==
    \A a \in deleted, i \in Ids :
        /\ held[i].owner # a
        /\ jobs[i].status # "absent" => OwnerOf[jobs[i].scope] # a

\* README.md: Waveform holds the MP3 for the idempotency retention.  An answer
\* with held audio leaves at least the retention less the request's own time.
HeldForRetention ==
    [][\A c \in Calls :
         /\ calls[c].pc = "completing" /\ calls'[c].pc = "fresh"
         /\ calls[c].storage = "held"
         => held[calls[c].id].ttl >= Ttl - Deadline]_vars

\* D-057: a retained history row does not prevent reuse of an idempotency key
\* after the retention: a call that owns the lease of its key is not stopped by
\* a history row of that key.
KeyReusableAfterRetention ==
    \A c \in Calls :
        LET s == calls[c].scope IN
        /\ calls[c].pc = "claimed"
        /\ Current(s, c)
        /\ jobs[records[s].id].scope = s
        => MayStart(records[s].id, s, records[s].digest)
=============================================================================
