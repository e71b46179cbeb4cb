# Waveform: TLA+ models, checks and proofs

Waveform turns text into speech and speech into text for accounts of Silicon
Accounts.  A request is synchronous: it authenticates, claims its
`Idempotency-Key` in PostgreSQL, calls a provider, stores the audio in the
account's Briefcase (or holds it itself), completes the operation and answers.
Everything that is hard about it happens between those steps: clients retry,
timeouts cut transactions that have committed, processes die, leases expire under
late workers, a cleanup task and account deletion run all the time, and any
number of replicas do this on the same tables.

This directory models that core, the account cache and storage proofs it rests on, the
pipeline inside it (providers, audio, Briefcase), the process around it (admission,
background tasks, shutdown, configuration) and the tools beside it (bug reports, API
versions, the linking of identities, the command line client's sign-in).  TLC checks all
of it; TLAPS proves its safety (section 5).  Paths below are relative to the repository
root; `decisions.md` entries are cited as D-nnn.

## 1. Inventory

| Component | State | Operations | Hard about it | What makes it correct |
|---|---|---|---|---|
| Idempotency store (`src/infrastructure/idempotency.rs`) | `waveform_idempotency_records`, `waveform_jobs` | claim, start_job, complete, release, recover, delete_expired | lease reclaimed under a late owner, committed transaction whose answer is lost, two tables updated together, client-chosen ids | one owner on time; a token that is no longer current changes nothing; record and history complete together; retention kept |
| Speech workflow (`src/application/service.rs`) | the call, its `OperationLeaseGuard` | synthesize, transcribe, replay, fail, drop | cancellation at every await, detached release, replay | one result per key; the result fits the body |
| Held audio (`src/infrastructure/held_audio.rs`) | `waveform_held_audio` | hold, is_held, fetch, delete_expired | rows keyed by a client-chosen id, overwritten by retries | audio belongs to the operation that names it, for the retention |
| Cleanup (`src/infrastructure/runtime.rs`, `spawn_cleanup`) | none | the deletions above, on an interval | runs beside everything | everything expires, nothing early |
| Handlers and deadlines (`src/api/mod.rs`) | the deadline of a request | timeout around the handlers | the future is dropped mid-way | every request ends |
| Account deletion (`src/infrastructure/directory_sweep.rs`) | tombstones, all of the account's rows | purge_account, sweep, pending events | runs under open requests | nothing of a deleted account is left |
| Account directory and webhooks (`src/infrastructure/directory.rs`, `src/control/webhooks.rs`) | accounts, custodians, sign-outs, freshness | see, look up, apply event | late, repeated and reordered events; lookups answered before a change | a newer fact is never undone by an older one |
| Storage proofs (`src/infrastructure/storage_proofs.rs`) | one Briefcase proof per account | approve, use, renew, refuse, revoke, invalidate | remote calls under an advisory lock that revocation does not take | a revoked proof is not used until the account approves again |
| Speech pipeline (`execute_tts`, `execute_stt` in `service.rs`) | the call's place in the provider chain, its proof, its audio | choose, attempt, normalize, upload or hold | fallback order, a proof refused once or twice, a future dropped at every await | complete fallback; audio once made is stored or held |
| Provider adapters (`src/infrastructure/providers/`) | a semaphore per adapter, a retry budget per attempt, Gemini's uploaded files | attempt, resend, upload, poll, delete | permits and files of cancelled attempts, resending what has been done | permits and files come back; unsafe exchanges are sent once |
| Briefcase client (`src/infrastructure/briefcase.rs`) | none; Briefcase keeps the upload | reserve, transfer, commit, read | late exchanges, an earlier attempt's upload under the same key | the answer names this call's audio |
| Audio normalizer (`src/infrastructure/audio.rs`, `src/domain/media.rs`) | an ffmpeg child and its pipes | transcode, measure, probe; the MP3 frame walk | three bounded pipes, limits, timeout; frame arithmetic | no mutual wait; nothing truncated; exact durations |
| Admission (`src/api/middleware.rs`) | two semaphores | admit, refuse, deadline, panic | permits of cancelled requests | permits come back; probes stay answerable |
| Runtime (`src/shutdown.rs`, `src/infrastructure/runtime.rs`) | the server, three tasks, the pool | start, drain, stop, close | tasks that do not end, requests in flight | the process ends; no child is left |
| Configuration (`src/config.rs`) | the environment | load and validate | relations between durations of different sections | what the other parts assume |
| Bug reports and API versions (`src/control/reporting.rs`, `contracts.rs`) | their rows | submit, mail; negotiate, deprecate, retire | several processes, lost answers, the end of the quiet period | limit kept, no needless second mail, no revival |
| Operator command (`src/operator.rs`) | keys, links, fences, data rows | link, merge, relink | many statements beside a serving API; run again and again | data stays with its account; fences survive; re-running is a no-op |
| CLI and Rust client (`cli/src/auth.rs`, `session.rs`, `client/src/signin.rs`) | the session file and its lock | login, refresh, call, status, logout | two commands at once, lost answers, killed commands | a token is not presented twice; a logout stands |
| Control plane reads, preferences, web application, deployment scripts | rows, cookies | single statements | | |

A request of the workflow calls the directory (authenticate), the idempotency
store (claim, start, complete, release), the storage proofs, Briefcase and the
providers, and the held-audio store.  The store tables are shared by all
replicas; rows of one scope are linearized by row locks.  The cleanup task and
`purge_account` write the same tables with no coordination with requests beyond
those locks.

The hazards of each component, at the line where they bite and with the
properties that watch them, are listed in `PROJECT.json`.

## 2. Plan

Done, in this order: the workflow over its two stores with its abstract specification and
proofs (1 to 3), storage proofs (4), the account directory (5), the speech pipeline (6),
the server process (7), bug reports and API versions, audio, the CLI session,
configuration and the linking of identities (8).

Then the proofs: the workflow, the storage proofs and the directory with their models;
after them the server process with the ffmpeg child, bug reports and versions, the
pipeline, the command line client and the linking; last the refinement `KeepsPromise` and
the held audio of the workflow, the re-run of the linking, and the configuration.

Left are compositions: `AccountDirectory` in place of the guard `OwnerOf[s] \notin
deleted` of `Authorize`; `SpeechPipeline` in place of `Deliver`, `HoldAudio` and
`ExecuteFails`, with `StorageProofs` for the proof it uses.

## 3. Modules

| Module | Models |
|---|---|
| `SpeechBase` | the sets and durations, with their assumptions |
| `IdempotencyStore` | the two tables; every transaction of `idempotency.rs` as an operator |
| `HeldAudio` | the held-audio table and its statements |
| `SpeechService` | the workflow: the actions, the specification, fairness, the properties |
| `IdempotentAnswers` | the abstract promise of `Idempotency-Key` |
| `SpeechRefinement` | the mapping of the service to that promise, with the assumption it needs |
| `SpeechInvariants` | the inductive invariants `Inv` and `AudioInv` |
| `SpeechProofs` | theorems and proofs |
| `StorageProofs` | the Briefcase proof of an account: actions, specification, properties |
| `StorageInvariants` | the inductive invariants `ProofsInv` and `RenewInv` |
| `StorageTheorems` | theorems and proofs |
| `AccountDirectory` | the cache of Silicon Accounts: credentials, events, lookups, custodian checks; properties |
| `DirectoryInvariants` | the inductive invariant `DirectoryInv` |
| `DirectoryTheorems` | theorems and proofs |
| `PipelineBase` | the sets shared by the next three |
| `ProviderAttempts` | one attempt at a provider: permit, retry budget, Gemini's file and its cleanup |
| `BriefcaseUploads` | the upload of an operation at Briefcase, exchanges under way, held audio |
| `SpeechPipeline` | the inside of `execute_tts` and `execute_stt` over both |
| `PipelineTheorems` | the inductive invariant `PipelineInv`, theorems and proofs |
| `FfmpegChild` | the ffmpeg child and its pipes |
| `Mp3Frames` | the MP3 walk: tags, frame lengths, durations |
| `AudioNormalizer` | from a provider's answer to the MP3 that is returned, over both |
| `Admission` | the two budgets and the middleware around them |
| `ServerProcess` | requests, tasks and shutdown of one process, over `Admission` |
| `ServerTheorems` | `ServerInv` of it, `FfmpegInv` of `FfmpegChild` and `SettingsInv` of `Settings`, theorems and proofs |
| `BugReports`, `ApiContracts` | the rows of bug reports and of the API version |
| `ControlWork` | the requests and the tasks of several processes over both |
| `ControlTheorems` | the inductive invariant `ControlInv`, theorems and proofs |
| `Settings` | which environments the service starts with |
| `IdentityLinks` | `link-identities`, statement by statement, beside the API |
| `IdentityTheorems` | the inductive invariants `LinksInv` and `RerunInv`, theorems and proofs |
| `CliSession` | the session file of the command line client |
| `CliTheorems` | the inductive invariant `CliInv`, theorems and proofs |
| `MC...` | instances for TLC |

### The speech workflow

**State.**  `records[s]` is the row of a scope (account, operation, key), `jobs[i]`
the history row of a request id, `held[i]` the audio held for it, `calls[c]` one
HTTP request with the local state of its handler, `releases` the releases spawned
by dropped guards that have not run, `deleted` the tombstones.  `None` is SQL
NULL.  A call claims at most once, so the call stands for the random lease token
it generates and for the `created_at` its insert would write; `origin` is thereby
the creation that a row, or the call that was told of it, belongs to.  `by` names
the call that produced a result and stands for the result itself.

**Request ids.**  `X-Request-ID` is chosen by the client, so ids are inputs, not
fresh names: two keys, two bodies or two accounts may bring the same one.  This is
what makes `CompletedTogether` and `HeldFitsHistory` say something.

**Time.**  Every deadline is stored as what is left of it, 0 meaning "at or before
now"; `Tick` ages all of them.  The comparisons of the SQL (`<=
clock_timestamp()` and `>`) become `= 0` and `> 0`.  Ages are bounded by the
durations, so time needs no bound.  A transaction reads `clock_timestamp()` after
it holds the row, which is why each is one step.

**Actions and code.**  `Authorize` is the handler up to authentication; `ClaimNew`,
`ClaimAbandoned`, `ClaimCompleted` and `ClaimRefused` are the outcomes of
`claim_inner`; `Start` is `start_job`; `Deliver`, `HoldAudio` and `ExecuteFails`
the outcomes of `execute_tts` and `execute_stt`; `Complete` and `CompleteFails`
those of `complete_inner`; `Fail` is `OperationLeaseGuard::fail`; `Interrupt` drops
the future at any await (deadline, client gone, an error returned by `?`) and, if
the guard is armed, leaves a `DetachedRelease`; `Crash` loses the call with no
release.  `PROJECT.json` maps each definition to its lines.

Points where a reader may expect something else:

- *Lost answers.*  `with_timeout` may cut a transaction that commits.  Claim, hold
  and completion take `seen`; a lost answer of `start_job` is `Start` followed by
  `Interrupt`, a lost answer of a release is `Fail`.  Transactions still in flight
  when the future is dropped commit at that instant in the model: until then they
  hold the row lock, so nobody sees the difference.
- *Crashes.*  A replica that dies is a `Crash` of each of its calls.  `Crash` is per
  call, so the model has more interleavings than replicas have.
- *Cleanup.*  Recovery and deletion are separate autocommit statements, hence
  separate actions; batches are arbitrary non-empty subsets of what is due
  (`LIMIT`, `SKIP LOCKED`).
- *Deletion.*  `purge_account` is one transaction and one action.  A deleted
  account's later requests are refused; open ones go on.
- *Not reachable.*  Recovery's clause for rows without a lease token concerns rows of
  releases that did not persist leases; none is created by this code.
- *Replay.*  A refused replay of Briefcase audio or of a cached transcript is
  `Replay`'s second disjunct; held audio must still be there.

### The storage proofs

**State.**  `row` is the account's row of `waveform_storage_proofs`, `lock` the holder
of the advisory transaction lock, `requests[r]` a task with its local variables,
`revocations` the best-effort revocations that are under way, `remote` and `issued`
what Silicon Accounts keeps: each proof with its number of rotations, and the
answers it repeats for an idempotency key.  A token `[proof, gen]` stands for the
pair of proof and refresh token after `gen` rotations.  Rows of different accounts
share nothing, so one account is modelled.  Encryption of the stored tokens is left
out, as are clock values: a row is `fresh` while more than `MINIMUM_REMAINING` is
left of the token, and `renewable` while it has a refresh token that has not
expired.

**Actions and code.**  `UseProof`, `RenewProof` and `Approve` are `briefcase_proof`,
`renew_refused_proof` and `approve` up to their first call to Silicon Accounts;
`RemoteRefresh` and `RemoteIssue` are its answers (external); `RefreshRefused`,
`IssueFails` and `Save` are the rest of the transaction, with its commit;
`Cut` rolls it back at any point.  `Finish` ends a request; that of an approval
starts the revocation of the proof it replaced.  `Invalidate` is `revoke` and
`end_sign_ins`, the two writers that do not take the advisory lock.

- *One step for save and commit.*  `save` takes the row lock, which is kept to the
  commit; nobody sees what is between.
- *`ending`.*  `briefcase_proof` and `renew_refused_proof` invalidate the row before
  they issue a replacement, in the same transaction.  The update is not visible
  before the commit, but it holds the row lock, so `Invalidate` waits for it.  A
  refresh updates nothing before `save`, so `Invalidate` can come in between.  That
  difference is what `OnlyApprovalReplaces` and section 6 are about.
- *Rotation.*  `refresh_proof` is keyed by the refresh token: a second presentation
  after a lost answer gets the same pair.  A call still under way when its future is
  dropped is therefore the same as one that was answered, and is not modelled apart.
- *Left out.*  `purge_account` deletes the row with the account.

### The account directory

**State.**  `past[t]` is what Silicon Accounts said of every account at time `t` and
`now` the present; each of its changes takes one instant and puts an event
`[type, account, at]` in `sent`, whose content is `past[at]`.  `rows[a]` joins
`waveform_account_keys` and `waveform_accounts`, `pending[a]` is the row of
`waveform_account_pending_events`, `applied` the events whose ids are in
`waveform_accounts_webhook_events`, `lookups[l]` a request or background task with a
lookup under way.  `oldest[a]` is the issue time of the oldest token that has not
expired.  Public ids are numbered in the order an account has them; `NoId` and
`NoTime` are SQL NULL, and `NoTime` is before everything it is compared with.
`Members` are the accounts that change, sign in or are named; the others are only met
as custodians.

**Actions and code.**  `RemoteChange` is Silicon Accounts (external).  `FirstSight` is
`sighting` with `ensure`, `AdoptId` is `adopt_id`, `CompleteProfile` is
`complete_profile`.  `IdChanged`, `ProfileUpdated`, `CustodianChanged`, `SignedOut` and
`AccountDeleted` are `receive` and the arms of `apply`, one transaction each.
`Refresh`, `Custody` and `SelectByLookup` start a lookup; `CustodyRead` is the answer
from the row alone; `Answer` is the response; `PurgeDeleted`, `EnsureSummary` and
`StoreSummary` are the three transactions that may follow, `Grant` is the `load` and
the check after them, and `Leave` a refusal, a failure or a timeout at any point.

- *Sightings keep no state between their statements.*  `sighting` reads the row, then
  calls `ensure` or `adopt_id`, whose SQL repeats the conditions, so each is a step of
  its own that may happen whenever a credential of that time exists.
- *Events.*  `membership.access_removed` does what `membership.signed_out` does;
  events that `apply` ignores are left out.  An event that is never delivered is one
  that is never applied.
- *Credentials.*  A token carries the id of its `iat`.  A proof carries the id of its
  verification, but the instant stored with it is read from the clock afterwards, up to
  `ProofDelay` changes at Silicon Accounts later.
- *Ids in profiles.*  `account.updated` may carry the public id (`carriesId`).  Its
  UPDATE writes the id by the version alone and leaves `id_changed_at` as it is.
- *"Unknown".*  Silicon Accounts may say that it does not know an account; nothing is
  written then but `looked_up_at`, so it is `Leave`.
- *Forgetting.*  The sweep deletes pending events after seven days, when the tokens
  they concern have expired: `ForgetPending` moves `oldest`.
- *Left out.*  Names and photos; `custodian_checked_at`, `looked_up_at` and the
  in-memory throttles, which only decide when to look up (the model may look up at any
  time); uuids retired by the migration; a stored kind that contradicts a credential.

### The speech pipeline

**State.**  `calls[c]` is one call between `start_job` and its completion: the operation,
the providers it has tried, whether it has audio, how often its proof was refused, and
its result.  `free` are the adapters' semaphores, `attempt[c]` the permit, the retry token
and what was sent again, `files`, `guards`, `cleanups` and `asked` the file at Gemini,
the `GeminiFileCleanup` that is armed, the detached deletions, and deletions sent.
`uploads[o]` is what Briefcase knows of the operation's upload, `wire` the exchanges that
were sent and not answered, `held` the held-audio store.

**Actions and code.**  `Begin` is `for_actor` with the plan of the request; `Choose` and
`ChooseFails` are `try_acquire`; `AttemptFails`, `SendAgain`, `Synthesized`,
`Transcribed` and the `Gemini...` actions are the exchanges of an attempt, with
`execute_with_retry_budget`; `Normalized` and `NormalizeFails` are the normalizer's
outcomes; `CleanInTime`, `CleanTooLate`, `Deleted`, `DeleteTimesOut` and
`DetachedCleanup` are `GeminiFileCleanup`; `ProofHandedOut` to `Unauthorized` are
`with_renewal`; `Exchanged`, `UploadFails`, `Stored` and `Held` the upload and what
follows it; `Drop` is a future dropped at any await, which leaves its exchanges on the
wire (`LateExchange`).

- *One call at a time per operation* is what `OneWorker` says of `SpeechService`, and is
  the guard of `Begin`.  Exchanges of an earlier call may still be on the wire.
- *Audio* stands for the call that made it: no two syntheses are taken for equal.
- *Briefcase and Gemini* are external: they apply an exchange whether or not its answer
  arrives; Briefcase binds a reservation to a digest, which is how the client's code uses
  it.

### The audio normalizer

`FfmpegChild` counts bytes in blocks: `stdin`, `stdout` and `stderr` hold at most
`PipeSize`; the four futures of `tokio::join!` are `WriteInput...`, `ReadOutput...`,
`ReadDiagnostics...` and `WaitEnds`; `Return` is what follows the join, `Timeout` the
drop of all of them with the child.  ffmpeg is external: it reads, writes, warns, stops
reading and ends as it likes, but waits for its pipes.  `Mp3Frames` does not build bytes:
a stream is a tag, a sequence of frame headers, a tail and a number of missing bytes,
laid out as the standard says, and the walk of the code must meet the headers at the
offsets it computes.  `RunChild` is a step of the child or of the futures, in
`NormalizerNext`.

### The server process

`permits` and `holding` are the semaphores and who holds a permit; `requests[r]` a
request with its route, `children` the ffmpeg processes, `cleanup`, `check` and
`maintenance` the tasks, `phase` the shutdown.  `Leave` is what dropping a request's
future does: the permit returns and the child is killed.  `Drained` is the end of the
drain, by the last answer or by the grace period; `StopCleanup` and `StopMaintenance`
are `stop_cleanup`, with the abort; `Exit` is the end of the process, also by a kill; children go
with it, dropped with their futures or stopped with the unit by systemd.

### Bug reports and API versions

`reports[k]` is a row of `waveform_bug_reports` of one account, `contract` the row of
the version, `submits[r]` a request with its transaction, `lock` the account's advisory
lock, `deliveries[p]` the maintenance task of a process.  `due` and `young` stand for the
comparisons with the clock.  Postmark is external; a mail it took may go unrecorded.

### The linking of identities

`keys`, `accts`, `pending`, `links` and `rows` are the tables; `cmd` the command with its
place in the file, `draft` what its transaction has written and not committed, which
others neither see nor overwrite.  `inflight` are requests that have resolved their
storage key and not written yet.  `owed`, `late` and `last` are history: the fences that
were received, rows written too late to be covered, the last run that committed.  Every
conflict is an action of its own; `Rollback` is also `--dry-run` and a database error.

### The command line client

`file` is the session file, `lock` the holder of the lock file, `grants[f]` what Silicon
Accounts knows of a sign-in (a family of refresh tokens), `cmds[p]` the command a process
runs.  `Load`, `Recheck`, `LockToRefresh`, `Rotate` and `RotatedSaved` are
`ensure_fresh`; `Answered` and `Stale` the call and its repetition; `Remember` is
`remember_account`; `SignedIn` to `ReplaceFails` are `login`, `LockToLogout` to
`RevokeFails` are `logout`.  `Die` kills a command at any point; `Damage` makes the file
unreadable.

### The configuration

`env` is the environment: a number is itself, a secret its length, a URL, a flag or a
text the class that the checks tell apart.  `Accepted` is `Settings::from_source`,
section by section.  The waits of a request are taken from the workflow's code and not
from the budgets that the configuration computes, in two parts.  `TtsRemoteWaits` and
`SttRemoteWaits` are the waits on Silicon Accounts, Briefcase, ffmpeg and the providers:
the key fetch and its repetition for an unknown key, the first lookup of a Silicon, for
STT the proof, the download and the measuring of the source, then each provider.
`TtsStoreWaits` and `SttStoreWaits` are the waits on the database of a request whose
account's row is up to date: the retired uuids, the row, the saved order, the saved keys,
for TTS the preferences, the language and the voice, for STT the transaction of the proof.
Each waits for a connection and then for its statement (`Query`); `claim` and `start_job`
end after one statement timeout each, whatever they wait for.

- *Database URLs* are classes: `verify_full` is one that asks for a verified certificate.
  How a URL with several `sslmode` parameters is read is hidden in the classes.

## 4. Runs

Deadlock is checked except where the system may stop: `pipeline` (all calls have
ended), `audio` (an answer is returned or refused), `client` (no sign-in is left to
make) and `settings` (the service runs or has refused).

| Run | Instance | Shows |
|---|---|---|
| `two_keys` | 2 calls, 2 keys (one TTS, one STT, two accounts), 2 bodies, 2 ids, prompt | one worker, one answer and its audio, across keys, bodies, ids and accounts |
| `late_timers` | 3 calls, 1 key, 1 body, not prompt | the store is safe on its token alone, with owners that act after their lease; the invariant and the refinement |
| `liveness` | 2 calls, 1 key, prompt, fairness | requests end, running attempts finish, everything expires |
| `storage_proofs` | 2 requests, 1 subject token, 2 proofs, `MaxGen` 2 | the properties of the proof row |
| `directory` | 1 Silicon, 2 Carbons, 1 lookup, 2 changes, proofs up to 1 change late | the properties of the account cache |
| `pipeline` | 2 calls, 2 operations, 3 providers (2 with keys), 1 permit each, 6 plans | permits, files, resends, fallback and stored audio |
| `server` | 3 requests, 3 routes, 1 permit per budget, fairness | permits, probes, the end of a shutdown |
| `control` | 2 submitters, 2 processes, 2 keys, 2 bodies, limit 1, 1 quiet day | the limit, deliveries, the quiet period |
| `audio` | pipes of 2 blocks, input 3, output limit 3 (up to 7), diagnostics limit 2 (up to 6); MP3 and PCM answers | pipes, limits and durations |
| `client` | 2 processes, 2 people, 2 sign-ins, 2 generations | the session file |
| `settings` | 2 environments, any 2 variables overridden | the relations the code relies on |
| `linking` | 2 accounts, 3 principals on 2 keys, 3 mappings, 2 commands, 1 write, 1 fresh key | the linking |

**Bounds.**  `Lease = 2`, `Ttl = 3`, `Deadline` 1 or 2 are the smallest durations
that keep the order the configuration enforces (deadline at most lease, lease below
retention) and let a lease be live, be expired, and expire before the retention
does.  Two calls give every race of an owner with a retry, the cleaner, deletion
and a stranger with the same id; the third call of `late_timers` is there
for the second reclaim and for a replay after it.  Two keys and two ids give every
collision of ids; more keys only add independent rows.  Symmetry permutes calls, ids and
digests, which no definition tells apart; it is off in the liveness run.

For `storage_proofs`: two requests are enough for one that holds the lock and one
that waits or uses an older token; two proofs are a proof and its replacement;
`MaxGen = 2` has a current, a previous and a spent refresh token.  At the bound a
request that refreshes can only be cut.  A third proof does not finish in five
minutes; the theorems cover it.

For `directory`: two changes are the least that can be reordered, and the first is
enough for a lookup to be answered before it and stored after it; two Carbons are an
old and a new custodian.  With `Skew = 0` an instant is as short as the allowance; a
larger allowance only keeps more of what is stored.  Only the Silicon is a member; a
second member, a third change or a second lookup does not finish in five minutes, and is
left to the theorems.

For `pipeline`: two calls may be two attempts at one operation or compete for the one
permit of a provider; the plans are the requests that the pipeline treats differently
(TTS and STT, with and without `auto_fallback`, delegated, with preferred providers that
repeat or reorder the chain); the third provider has no key.  For `server`: the third
request is the one that is refused.  For `control`: one report per hour and one quiet day
put both limits within reach of two requests.  For `audio`: input, output and diagnostics
are each larger than a pipe, so every pipe can be full; output and diagnostics go beyond
their limits.  The streams are every valid header alone, every one with seconds that fit
and do not fit it, and tags, tails and cuts at the interesting lengths.  For `client`: two
generations are a fresh and a spent token; a third sign-in does not finish in five
minutes.  For `settings`: two variables are what a relation between two sections needs,
and each takes the values at, below and above its bounds.  For `linking`: a first mapping
and a corrected one, a legacy key with two principals, and an account that has its own
key by then.  All options are given: one that is not given only refuses more.

**`Prompt`.**  `TRUE`: a call is cut exactly at its deadline, as tokio does for a
future that is polled; then the lease covers the call and `OneWorker` and
`HeldIsTheAnswer` hold.  `FALSE`: the cut may come arbitrarily late (a stalled
replica, clocks of database and replica that drift); everything else must and does
hold from the token alone.

**Fairness.**  `liveness`: weak fairness of the clock, of each call's deadline, and of
the three statements `spawn_cleanup` repeats; nothing is assumed of calls, clients,
providers, or detached releases.  `server`: weak fairness of the steps of the shutdown,
each of which has a timer of its own in the code (the grace period of the drain,
`CLEANUP_STOP_TIMEOUT` and the abort, the limit of `close_pool`); nothing is assumed of
requests and tasks.

**What the properties say.**

- `OneWorker`: while a call may still work, no other call owns its scope.
- `AnswersAgree`: two successful answers to one operation are one answer.
- `HeldIsTheAnswer`: held audio is that of the attempt that completed its operation.
- `RetentionKept`: nothing touches a completed record before its time.
- `CallsEnd`, `AttemptsFinish`, `EverythingExpires`: the liveness properties.
- `Inv`, `KeepsPromise`: the inductive invariant and the refinement.
- `NeverReuses`: a refresh token that is spent is never presented again, which
  Silicon Accounts would answer by ending the whole proof.
- `RenewedDiffers`: a renewal never hands out the token that was just refused.
- `ApprovalSurvives`: what an approval revokes after its commit is not the proof the
  row stands on.
- `SignOutsStand`: a token issued before a sign-out or deletion that has been received
  is refused, also if the event came before the account.
- `TombstonesAreTrue`: only deleted accounts become tombstones, and these stay empty.
- `GrantsAreCurrent`: nobody acts as custodian on a custody that ended, by a change
  applied before the request.
- `NewerIdsStand`: an id is not replaced by one from before its evidence, less the time a
  proof's instant may be late; `account.updated` alone is excepted.
- `PermitsAccounted`, `AdmissionAccounted`: a permit is free or with one attempt or
  request that is under way.
- `UploadsReclaimed`: a recording at Gemini always has somebody who deletes it.
- `ResendsAreSafe`: one resend per attempt, and only of what may be done twice.
- `FallbackIsComplete`: "providers exhausted" means that each was asked once, in order.
- `AnswerIsStored`, `BriefcaseNeverFails`: the audio of an answer is where the answer
  says, and Briefcase cannot fail a request that has audio.
- `ReadinessStaysObservable`, `ShutdownEnds`: probes and the end of the process.
- `HourlyLimitHolds`, `MailedTwiceOnlyAfterLoss`, `QuietPeriodStands`: reports and
  versions under several processes.
- `NeverStuck`, `TranscodeIsComplete`, `DurationIsExact`: pipes, limits, durations.
- `NeverRefreshedTwice`, `NoStraySignIn`, `SignedOutStaysOut`: the saved sign-in.
- `RemoteWaitsCovered`: in a service that runs, all waits on Silicon Accounts, Briefcase,
  ffmpeg and the providers fit in the deadline, with two statement timeouts and, for TTS,
  the headroom left for the store.
- `AssumptionsHold`: what the other modules assume of their constants.
- `ProductionIsClosed`: production sends no credential over plain http.
- `ActivityStays`, `FencesSurvive`, `RerunIsNoOp`: the linking.

Each comes with a faulty variant of the code (the operators commented
"Faulty variant") under which TLC finds it violated.

## 5. Proofs

`SpeechProofs` proves, for all sets and durations that satisfy the assumptions:

| Theorem | States |
|---|---|
| `Invariance` | `Spec => []Inv` |
| `TypeCorrect` | `[]TypeOK` |
| `CompletionIsAtomic` | `[]CompletedTogether` |
| `RecoveryIsSafe` | `[]JobsFollowLease` |
| `AnswersAgreeAlways` | `[]AnswersAgree` |
| `AnswersFit` | `[]AnswerFitsRequest` |
| `HeldAudioFits` | `[]HeldFitsHistory` |
| `OneWorkerOnTime` | `[]OneWorker`, if `Prompt` |
| `RetentionIsKept` | `RetentionKept` |
| `HeldAudioIsTheAnswer` | `[]HeldIsTheAnswer`, if `Prompt` |
| `PromiseIsKept` | `KeepsPromise`: the service implements `IdempotentAnswers` |

*Assumptions.*  `SetsAssumption` types the constants and keeps NULL apart from
values; `DurationsAssumption` is what `src/config.rs` 960-992 enforces on lease,
retention and deadlines; `PromptAssumption` types `Prompt`; `ResultsAssumption` keeps
NULL apart from a response, as the first keeps it apart from an id.

*Invariant.*  None of the properties is inductive.  `AnswersAgree` speaks of answered
calls only; a step can break it through a record that disagrees with a call that is
about to answer, and that in turn through a pending record whose token names a call
that believes in another id.  `Inv` therefore says of every name stored somewhere
(a token, an origin, a result) what it means: the call named by a pending record is
past its claim, of the same scope and body, and knows the canonical id
(`TokenFits`); history rows the same (`JobTokenFits`); a creation is that of a call
past its claim, so no future claim repeats it (`RecordOriginFits`,
`CallOriginFits`); a result was produced for its scope and body and equals the
record's while the record of that creation is there (`RecordResultFits`,
`CallResultFits`, `ResultsAgree`).  `LeaseCoversCall` relates the lease to the time
the call has left and gives `OneWorker`.

*Argument.*  First, what each operator does to the fields it writes (the `...Effect`
lemmas).  Then the actions are sorted by what they do to the invariant: steps that
only move or end one call (`QuietStep`), claims (`LeaseTaken`), steps that only let
leases fade or jobs fail (`Faded`: release, recovery, the clock), and removals
(`Removed`: cleanup, deletion).  Each class preserves `Inv` in one lemma;
`Authorize`, `ClaimCompleted`, `Start` and `Complete` have their own.

*Refinement.*  `SpeechRefinement` maps the calls' keys (`Asked`), the completed records
(`Settled`, `Left`) and the results calls carry (`Observed`) to the variables of
`IdempotentAnswers`.  Step by step: `Authorize` is `Ask`; a claim that is not a replay,
and the cleanup, are `Forget`; `ClaimCompleted` is `Observe`; `Complete`
is `Settle`; `PurgeAccount` is `Delete`; `Tick` is `Age`; a call that ends without an
answer is `Discard` or nothing; all other steps leave the four values alone.  `Inv` is
needed where a step writes a result: only the call the record names completes it
(`TokenFits`), and a replayed result is the settled one (`CallResultFits`).

*Held audio.*  `AudioInv` (`SpeechInvariants`) has a part for each place an answer's
audio is promised: the call between `HoldAudio` and `Complete` (`CallAudioFits`) and the
completed record (`RecordAudioFits`).  `AudioIs` says that the row under the request id
is that audio or has been cleaned up, and that it outlives every call that may still
write under that id, whose insert is then a conflict.  Such a call can exist: one of a
deleted account keeps its request id while the id's rows go, and another account may
take the id (`OthersAudioOutlives`); its insert is excluded because its budget is at most
the deadline, which is below the retention (`DurationsAssumption`).

`StorageTheorems` proves, for all sets of requests, subject tokens and proofs and
every `MaxGen` (`ProofsAssumption`):

| Theorem | States |
|---|---|
| `ProofsInvariance` | `ProofsSpec => []ProofsInv` |
| `ProofsTypeCorrect` | `[]ProofsTypeOK` |
| `NoTokenIsReused` | `[]NeverReuses` |
| `ApprovalIsKept` | `[]ApprovalSurvives` |
| `RevocationNeedsApproval` | `OnlyApprovalReplaces` |
| `RenewalIsNew` | `[]RenewedDiffers` |

*Invariant.*  `NeverReuses` needs to know that nothing rotates the row's proof between
the read of a request and its commit: `LockHeld` makes the holder of the advisory
lock the only request in between, and `RefreshFits`, `SaveFits` and `RowFits` relate
its token to the row and to the rotations.  A replacement could bring back an old
proof, because Silicon Accounts repeats its answer for a key.  `IssuedFits` excludes
that: an answer kept under a key that names the row's proof has never been rotated
or itself replaced.  `ReplaceFits` says why a revocation cannot slip in before a
replacement: the row has ended already, or is locked by the pending invalidation.
The proof has one lemma per action.

`RenewedDiffers` needs more: the token saved by a renewal has to differ from one that
was handed out any number of renewals ago.  `RenewInv`, on top of `ProofsInv`, orders
the tokens: one that was handed out is no newer than the row's, older than one that is
about to be saved, and if its proof is not the row's then that proof was replaced
(`TokensFit`, `SaveReplaces`), and by `IssuedFits` a replaced proof never comes back.
Steps that save nothing are one class (`Moves`, `MovesKeepRenew`); the answers of
Silicon Accounts and `Save` have lemmas of their own.

`DirectoryTheorems` proves, for all sets of accounts, members and lookups, every number
of changes and every skew allowance (`DirectoryAssumption`, which keeps Silicons, Carbons
and NULL apart):

| Theorem | States |
|---|---|
| `DirectoryInvariance` | `DirectorySpec => []DirectoryInv` |
| `DirectoryTypeCorrect` | `[]DirectoryTypeOK` |
| `SignOutsAlwaysStand` | `[]SignOutsStand` |
| `TombstonesAreAlwaysTrue` | `[]TombstonesAreTrue` |
| `CustodianIsNeverOlder` | `[]CustodianIsNoOlder` |
| `GrantsAreAlwaysCurrent` | `[]GrantsAreCurrent` |
| `NewerIdsAlwaysStand` | `NewerIdsStand` |

*Invariant.*  Every instant that is stored is past, and what is stored with it was so
then or later (`RowFits`); what a task will store was so when it was answered, which is
not before it started (`TaskFits`); what is kept for an account is kept only while it
has no row (`PendingFits`), which is why folding loses nothing; a sign-out received is
in the row, kept, or out of date (`SignOutsFit`).  All of it rests on a history in which
ids grow and deletions stay (`HistoryFits`).  For `NewerIdsStand` that history, and that
an answer is no older than its question, are enough:
an id written by a credential is that of a time at most `ProofDelay` before the instant
compared with `idAt`, one written by a lookup or an `account.id_changed` that of a time no
earlier than it.  Nothing is assumed of what profiles carry or of how late proofs are.

*Argument.*  Steps of Waveform leave the history alone (`LocalStep`) and either move a
task (`LookupStep`), replace rows by rows that say no older things (`MayReplace`,
`ReplaceStep`), or change one row together with what is kept for it (`AccountStep`).
A change at Silicon Accounts leaves the past alone (`AnnounceKeeps`).

`PipelineTheorems` proves, for every finite set of calls, all operations, providers,
chains without repetitions, plans and numbers of permits (`CallsAssumption`,
`ProvidersAssumption`, `ChainAssumption`):

| Theorem | States |
|---|---|
| `PipelineInvariant` | `PipelineSpec => []PipelineInv` |
| `PipelineTypes` | `[]PipelineTypeOK` |
| `NoPermitLeaks` | `[]PermitsAccounted` |
| `NoFileIsForgotten` | `[]UploadsReclaimed` |
| `OneSafeResend` | `[]ResendsAreSafe` |
| `AnswersNameTheirAudio` | `[]AnswerIsStored` |
| `StorageNeverFailsSpeech` | `[]BriefcaseNeverFails` |
| `AllProvidersAreAsked` | `[]FallbackIsComplete` |

*Invariant.*  Four parts, each about variables of its own: `CallsOK` (where a call is
and what it has by then; what it has asked and what is left are its order), `PermitsOK`
(permits against the attempts that hold one, the retry token against what was resent),
`FilesOK` (who deletes each file), `UploadsOK` (one call owns an operation, a begun
upload names its audio, and a call that checks the published entry has committed its
own: this is what a late exchange of an earlier call could break).

*Argument.*  First the order: `Without` and `ResolveOrder` keep what is asked for, add
the rest of the chain once and in its order.  These are recursive functions over
sequences; the lemmas go by the least counterexample, which needs no induction rule with
an operator parameter.  Then the actions are sorted by the parts they touch, so that
each part is proved only where it can break.

`ServerTheorems` proves, for every finite set of requests and all limits
(`AdmissionAssumption`), for every input, pipe size, output and limit of a child
(`FfmpegAssumption`), and for every set of environments and any number of variables
written afterwards:

| Theorem | States |
|---|---|
| `ServerInvariant` | `ServerSpec => []ServerInv` |
| `ServerTypes` | `[]ServerTypeOK` |
| `PermitsAreReturned` | `[]AdmissionAccounted` |
| `ChildrenDieWithRequests` | `[]NoOrphanChild` |
| `ProbesStayObservable` | `ReadinessStaysObservable` |
| `FfmpegInvariant` | `FfmpegSpec => []FfmpegInv` |
| `NothingIsTruncated` | `[]TranscodeIsComplete` |
| `PipesNeverBlockBoth` | while an operation waits, a guard of the futures or of the child is true |
| `RemoteWaitsAreCovered` | `SettingsSpec => []RemoteWaitsCovered` |
| `AssumptionsAreEnforced` | `[]AssumptionsHold` |
| `ProductionStaysClosed` | `[]ProductionIsClosed` |

*Invariants.*  `AdmissionAccounted` counts by request; a drain ends many requests in one
step, so `Accounted` counts the holders of each budget, and `AliveHolds` says that the
holders are exactly the requests in their handlers.  For the child, `BlocksAccounted`
counts the blocks of each pipe (written, held, received), and `FuturesFit` says what the
outcome of a future tells of its pipe and of the child: without it a reader that ended at
its limit could look like one that met the end of the output.  `PipesNeverBlockBoth` is
`NeverStuck` with its guards written out, since `ENABLED` is outside the prover.

*Configuration.*  `SettingsInv` says that a running service has accepted its environment.
The theorems assume nothing of the values: `Accepted` itself makes each timeout a number
of its range (`CheckedTimeouts`), because some section checks every range, and this is
also what a section added without a check would break.  `RemoteWaitsAreCovered` is then
the difference of two sums, one from the workflow and one from the checks.  The budget of
TTS exceeds the remote waits by the Briefcase timeout and one accounts timeout, which
cover the first lookup of a Silicon, and by two statement timeouts and the headroom; that
of STT leaves out the measuring of the source, hence the condition in
`RemoteWaitsCovered`.  It does not say that the last provider is reached: all the waits on
the store of a request have only those two statement timeouts and the headroom
(section 6).  A request that waits behind the key fetches of others, or renews a refused
proof, waits longer than the sums say.  `AssumptionsAreEnforced` is what entitles
the other modules to `DurationsAssumption` and `ProvidersAssumption`: they are not wishes
about the deployment.

`ControlTheorems` proves, for every finite set of keys, all submitters and processes and
all limits (`ReportsAssumption`, `QuietAssumption`, `ControlAssumption`):

| Theorem | States |
|---|---|
| `ControlInvariant` | `ControlSpec => []ControlInv` |
| `ControlTypes` | `[]ControlTypeOK` |
| `HourlyLimitIsKept` | `[]HourlyLimitHolds` |
| `NoDuplicateMail` | `[]MailedTwiceOnlyAfterLoss` |
| `QuietPeriodIsFinal` | `QuietPeriodStands` |

*Invariant.*  What a request saw under the advisory lock still holds when it inserts
(`LockedSubmits`); a process in a delivery has the row's lock alone, and its row is still
queued (`DeliveriesLocked`); a report that was mailed and is not marked sent is about to
be, or an attempt was lost (`MailedIsKnown`).

`CliTheorems` proves, for all processes and people, every finite set of sign-ins and
every number of rotations (`CliAssumption`: a sign-in is none of the file's other
contents):

| Theorem | States |
|---|---|
| `CliInvariant` | `SessionSpec => []CliInv` |
| `CliTypes` | `[]SessionTypeOK` |
| `RefreshIsNotRepeated` | `[]NeverRefreshedTwice` |
| `SignInsAreKeptTrackOf` | `[]NoStraySignIn` |
| `LogoutIsFinal` | `SignedOutStaysOut` |

*Invariant.*  The lock is with the one command that is past it (`LockFits`); under it the
file still holds the sign-in in hand, or was damaged (`HolderFits`); the file's tokens
are the newest of their sign-in, or they are lost or on their way to the file
(`FileFits`); a new sign-in is in one hand only until it is saved (`NewFits`).

`IdentityTheorems` proves, for all accounts, principals, keys, mapping files and options
(`LinksAssumption`: files are sequences of principal and account, NULL is neither an
account nor a key, and a fresh key, a new UUID, is not a legacy key):

| Theorem | States |
|---|---|
| `LinksInvariant` | `LinksSpec => []LinksInv` |
| `ActivityIsNotTransferred` | `[]ActivityStays` |
| `FencesStand` | `[]FencesSurvive` |
| `KeysHaveOneAccount` | no two accounts have one key, in the database and in the command's view |
| `RerunningIsANoOp` | `RerunIsNoOp` |

*Invariant.*  `Sound` says of a state of the tables that a key has one account, that
activity and fences are where the properties want them, and that a linked account has a
link of its key that is earlier than anything it has done: the reason why
`used_since_link` finds all activity.  `LinksInv` has it twice, of the committed tables
(`Committed`) and of the tables under the command's draft (`Seen`).  `DraftFits` says how
the draft differs: a key it takes away has been examined, a fence it drops is kept
elsewhere.  `RowFits` is what the command knows at each of its statements.

*Argument.*  Lemmas on `Sound` alone, one per kind of change (`KeyMadeSound`,
`FenceSound`, `RowsSound`, `PurgedSound`, `DetachedSound`, `MarkedSound`, `LinkedSound`,
`LaterSound`).  A statement of the command applies one of them to `Seen`, a commit makes
`Seen` into `Committed`, and a step of the API applies the same one to both (`ApiInv`,
`ApiFences`), which is possible because the draft's rows are locked.

*The re-run.*  `LinksInv` says nothing of the file, so `RerunningIsANoOp` has an
invariant of its own, `RerunInv`, proved beside it.  In a run that the API leaves alone,
each row of the file is still to do or done (`RunFits`, `RowDone`); `RowFound` is what the
checks of the current row have established.  A row that is done stays done: `Ambiguous`
refuses a second account for its key and a second key for its account, `ParseMapping` a
second account for its principal.  At the commit this is what the run has left
(`LastFits`), and it holds until the API acts or another run commits.  The same file
then meets only `Unmatched` and `AlreadyLinked`, which keeps `linked_at`, and finds
nothing to seal (`RerunFits`).  `UnfoldedFits` is needed because sealing adds a row under
the legacy key: of a key without rows it would make one that the next run does not
recognise.  TLC checked `RerunInv` on the instance of the run `linking` before the proof.

*Only proved.*  `NoOrphanChild` is in no run; TLC agrees on the instance of `server`.

*Only model-checked.*

- The liveness properties (fairness is outside the prover) and `NeverStuck` (`ENABLED`;
  see `PipesNeverBlockBoth`).
- `DurationIsExact`: `Mp3Frames` folds over sequences with operators of the community
  modules, whose results for every input the prover cannot establish.

## 6. Where the documents and the code differ

The models follow the code.  The disagreements met on the way, for its maintainers; where
a definition is named, it stands in the module and TLC refutes it on the instance in
parentheses.

- `DeletedAccountsKeepNothing` (`two_keys`): `docs/accounts.md:114` says
  `account.deleted` deletes the account's history and held audio.  A request authorized
  before `purge_account` goes on and writes a history row, and possibly held audio,
  afterwards; the writes do not look at the tombstone.
- `HeldForRetention` (`liveness`): `README.md:40-41` says Waveform holds the MP3 for the
  idempotency retention.  A retry that holds over the row of an interrupted attempt keeps
  that row's `expires_at`, so its audio may expire much sooner than its answer.
- `KeyReusableAfterRetention` (`two_keys`): D-057 says a retained history row does not
  prevent reuse of a key after the retention.  It does for a client that sends the same
  `X-Request-ID` again: the claim succeeds and `start_job` refuses the completed row.
- `WritesAskAgain` (`directory` with two lookups, one change): `directory.rs:84` says of writes
  "always ask Silicon Accounts".  They ask, but answer from the row, and a custodian
  stored by a lookup carries no instant: the UPDATE of a lookup that was answered earlier
  may land between the UPDATE and the `load` of the one that asked for the write.  Until
  the event of the change is applied, a former custodian may so be let write.  What does
  hold is `GrantsAreCurrent`.
- `IdsHaveEvidence` (`directory` with `ProofDelay` 0): migration 0018 says of `id_changed_at` "Older
  evidence never replaces newer".  `account.updated` writes the id it carries when its
  profile version is newer, whatever `id_changed_at` says, so a late one puts back an older
  id until the next credential or lookup.  A proof whose instant is read late
  (`authenticator.rs:158`) may do the same within its delay.  `NewerIdsStand` holds.
- `RevocationIsFinal` (`storage_proofs`): `storage_proofs.rs:39-40` says speech never
  gives the access back by itself after a decision to revoke, and `docs/api.md:74-76` that
  speech is held until the account approves again.  A revocation that lands while a
  request waits for `refresh_proof` is written over by that request's `save`, whose upsert
  does not look at the status the row has by then.
- Linking: `used_since_link` leaves `waveform_bug_reports` out, which `key_has_data`
  counts, so `--relink` hands on an account's bug reports although it "cannot transfer
  that activity".  `ActivityStays` excepts them.
- Linking: the command takes no `lock_account`.  A sign-out, deletion or first sighting
  between the statement that copies the fence and the one that deletes the row is lost
  (`FencesSurvive` excepts it); an `ensure` that inserts first makes `INSERT ... ON
  CONFLICT DO NOTHING` report a link while the account keeps its fresh key; rows written
  under a fresh key after `key_has_data` are left behind.
- Linking: a request in flight may write after its account's deletion, when no link is
  left to say that the row was used; and a reseal (`updated_at = now()`) by a later run
  makes an unused link look used, so that `--relink` is refused.
- Client: the second `ensure_fresh` of `call_with_session` loads the session anew, so a
  login as another account between the two attempts repeats the command as that account,
  although `ensure_fresh` has an error "The saved sign-in changed while this command ran".
- `FinalFallbackReachable` (`settings`): D-032 (`decisions.md:455-464`) says the
  checks keep the final fallback reachable "under configured maximums".
  `validate_workflow_deadlines` counts two statements of the store, and gives `claim` and
  `start_job` what they may take.  The request also waits, inside the same deadline, for
  `is_retired_uuid`, the account's row, the saved order, the saved keys, the preferences,
  the language and the voice, or the transaction of the storage proof, each up to its own
  statement timeout after its own wait for a connection; and STT for the measuring of the
  source.  With the defaults the waits before the end of the last TTS provider add up to
  348 s against a deadline of 300 s.  Not even these sums hold the transactions of a first
  sighting, the key fetches of others, or the renewal of a refused proof with its second
  download.  What the checks do cover is `RemoteWaitsCovered`.  After the last provider, an
  upload may take the longer of two timeouts.

## 7. Not modelled

Compositions of the modules (section 2).  For good: request parsing, error rendering,
provider formats, voices and languages, and the web application's pages (conversions and
I/O no property is about); `ffmpeg`, Briefcase, Gemini, Postmark and Silicon Accounts
themselves, beyond what the code's use of them says; the commands of the client beyond its
session; single-statement reads and preferences; deployment scripts (run once, by hand).
