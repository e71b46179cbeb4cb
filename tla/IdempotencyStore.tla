-------------------------- MODULE IdempotencyStore --------------------------
(***************************************************************************)
(* The PostgreSQL idempotency store: waveform_idempotency_records and the  *)
(* job history waveform_jobs, with each transaction of                     *)
(* infrastructure/idempotency.rs as one atomic step.  The row lock taken   *)
(* by load_claim (FOR UPDATE), or by the unique index in insert_claim,     *)
(* linearizes the transactions of one scope, and every statement reads     *)
(* clock_timestamp() after it holds that lock.                             *)
(***************************************************************************)
EXTENDS SpeechBase

VARIABLES
    records,    \* the idempotency record of each scope
    jobs        \* the history row of each request id

storeVars == <<records, jobs>>

NoRecord == [state |-> "absent", digest |-> None, id |-> None, token |-> None,
             lease |-> 0, ttl |-> 0, origin |-> None, by |-> None,
             storage |-> None]

\* waveform_pending_lease_check: a lease exactly while pending, a response
\* exactly when completed.  origin is the claim whose created_at the row keeps;
\* by and storage are the response: the call that produced it and where it is.
PendingRecords ==
    [state : {"pending"}, digest : Digests, id : Ids, token : Calls,
     lease : 0 .. Lease, ttl : 0 .. Ttl, origin : Calls, by : {None},
     storage : {None}]

CompletedRecords ==
    [state : {"completed"}, digest : Digests, id : Ids, token : {None},
     lease : {0}, ttl : 0 .. Ttl, origin : Calls, by : Calls,
     storage : Storages]

NoJob == [status |-> "absent", scope |-> None, digest |-> None,
          token |-> None, lease |-> 0]

OpenJobs == [status : {"running", "failed"}, scope : Scopes, digest : Digests,
             token : Calls, lease : 0 .. Lease]

CompletedJobs == [status : {"completed"}, scope : Scopes, digest : Digests,
                  token : {None}, lease : {0}]

StoreTypeOK ==
    /\ records \in [Scopes -> {NoRecord} \cup PendingRecords \cup CompletedRecords]
    /\ jobs \in [Ids -> {NoJob} \cup OpenJobs \cup CompletedJobs]

StoreInit ==
    /\ records = [s \in Scopes |-> NoRecord]
    /\ jobs = [i \in Ids |-> NoJob]
-----------------------------------------------------------------------------
(***************************************************************************)
(* claim_inner                                                             *)
(***************************************************************************)

\* Faulty variant: the retention is not awaited.
PurgeableAtOnce(rec) ==
    rec.state = "completed" \/ (rec.state = "pending" /\ rec.lease = 0)

\* Faulty variant: abandoned claims are never deleted.
PurgeableWhenCompleted(rec) == rec.state = "completed" /\ rec.ttl = 0

\* record_is_purgeable
Purgeable(rec) ==
    /\ rec.state # "absent"
    /\ rec.ttl = 0
    /\ rec.state = "completed" \/ rec.lease = 0

\* No row, or one that the claim deletes under its lock and inserts again.
Vacant(s) == records[s].state = "absent" \/ Purgeable(records[s])

\* insert_claim and initialize_inserted_claim, after delete_locked_claim when
\* the conflicting row is purgeable.
InsertClaim(s, d, i, c) ==
    /\ Vacant(s)
    /\ records' = [records EXCEPT ![s] =
            [NoRecord EXCEPT !.state = "pending", !.digest = d, !.id = i,
                             !.token = c, !.lease = Lease, !.ttl = Ttl,
                             !.origin = c]]
    /\ UNCHANGED jobs

KeyReused(s, d) == ~Vacant(s) /\ records[s].digest # d

Replayable(s, d) ==
    ~Vacant(s) /\ records[s].digest = d /\ records[s].state = "completed"

InProgress(s, d) ==
    /\ ~Vacant(s)
    /\ records[s].digest = d
    /\ records[s].state = "pending"
    /\ records[s].lease > 0

\* Faulty variant: a live lease is taken over.
ReclaimableAtOnce(s, d) ==
    ~Vacant(s) /\ records[s].digest = d /\ records[s].state = "pending"

Reclaimable(s, d) ==
    /\ ~Vacant(s)
    /\ records[s].digest = d
    /\ records[s].state = "pending"
    /\ records[s].lease = 0

\* reclaim_claim: a new token and lease; identity, digest, created_at and
\* expires_at stay.
ReclaimClaim(s, d, c) ==
    /\ Reclaimable(s, d)
    /\ records' = [records EXCEPT ![s].token = c, ![s].lease = Lease]
    /\ UNCHANGED jobs
-----------------------------------------------------------------------------
(***************************************************************************)
(* start_job, complete, release                                            *)
(***************************************************************************)

\* ensure_current_lease: expiry alone does not invalidate the token.
Current(s, c) == records[s].state = "pending" /\ records[s].token = c

\* The WHERE of start_job's ON CONFLICT(id) DO UPDATE.  The owner, operation
\* and key hash of a history row are those of its scope.
MayStart(i, s, d) ==
    \/ jobs[i].status = "absent"
    \/ /\ jobs[i].status # "completed"
       /\ jobs[i].scope = s
       /\ jobs[i].digest = d

StartJob(s, c) ==
    LET rec == records[s] IN
    /\ Current(s, c)
    /\ rec.lease > 0
    /\ MayStart(rec.id, s, rec.digest)
    /\ jobs' = [jobs EXCEPT ![rec.id] =
            [status |-> "running", scope |-> s, digest |-> rec.digest,
             token |-> c, lease |-> rec.lease]]
    /\ UNCHANGED records

\* Faulty variant: neither update names the lease token.
CompleteWithAnyToken(s, i, c, storage) ==
    /\ records[s].state # "absent"
    /\ records[s].id = i
    /\ records' = [records EXCEPT ![s] =
            [@ EXCEPT !.state = "completed", !.token = None, !.lease = 0,
                      !.ttl = Ttl, !.by = c, !.storage = storage]]
    /\ jobs' = [jobs EXCEPT ![i] =
            [@ EXCEPT !.status = "completed", !.token = None, !.lease = 0]]

\* complete_inner and finish_completed_job: one transaction, rolled back
\* unless exactly one record and one history row carry the token.
CompleteJob(s, i, c, storage) ==
    /\ Current(s, c)
    /\ records[s].id = i
    /\ jobs[i].token = c
    /\ records' = [records EXCEPT ![s] =
            [@ EXCEPT !.state = "completed", !.token = None, !.lease = 0,
                      !.ttl = Ttl, !.by = c, !.storage = storage]]
    /\ jobs' = [jobs EXCEPT ![i] =
            [@ EXCEPT !.status = "completed", !.token = None, !.lease = 0]]

\* Faulty variant: the history row is forgotten.
ReleaseRecordOnly(s, c) ==
    IF Current(s, c)
    THEN records' = [records EXCEPT ![s].lease = 0] /\ UNCHANGED jobs
    ELSE UNCHANGED storeVars

\* release_inner: the lease ends now but the token stays; the history row
\* fails with it when it still runs under that token.
ReleaseLease(s, c) ==
    LET i == records[s].id IN
    IF Current(s, c)
    THEN /\ records' = [records EXCEPT ![s].lease = 0]
         /\ jobs' = IF jobs[i].status = "running" /\ jobs[i].token = c
                    THEN [jobs EXCEPT ![i].status = "failed", ![i].lease = 0]
                    ELSE jobs
    ELSE UNCHANGED storeVars
-----------------------------------------------------------------------------
(***************************************************************************)
(* Scheduled cleanup, account deletion and the database clock              *)
(***************************************************************************)

\* Faulty variant: only attempts that still own their record are recovered.
AbandonedByOwner(i) ==
    /\ jobs[i].status = "running"
    /\ jobs[i].lease = 0
    /\ Current(jobs[i].scope, jobs[i].token)

Abandoned(i) == jobs[i].status = "running" /\ jobs[i].lease = 0

\* recover_expired_jobs
RecoverExpiredJobs ==
    /\ \E i \in Ids : Abandoned(i)
    /\ jobs' = [i \in Ids |-> IF Abandoned(i)
                              THEN [jobs[i] EXCEPT !.status = "failed"]
                              ELSE jobs[i]]
    /\ UNCHANGED records

\* delete_expired: a batch of purgeable rows (LIMIT, SKIP LOCKED).
DeleteExpiredRecords(batch) ==
    /\ batch # {}
    /\ \A s \in batch : Purgeable(records[s])
    /\ records' = [s \in Scopes |-> IF s \in batch THEN NoRecord ELSE records[s]]
    /\ UNCHANGED jobs

\* The part of purge_account that deletes history and idempotency records.
DeleteAccountRows(a) ==
    /\ records' = [s \in Scopes |-> IF OwnerOf[s] = a THEN NoRecord ELSE records[s]]
    /\ jobs' = [i \in Ids |-> IF jobs[i].status # "absent" /\ OwnerOf[jobs[i].scope] = a
                              THEN NoJob ELSE jobs[i]]

AgeStore ==
    /\ records' = [s \in Scopes |->
            [records[s] EXCEPT !.lease = Elapse(@), !.ttl = Elapse(@)]]
    /\ jobs' = [i \in Ids |-> [jobs[i] EXCEPT !.lease = Elapse(@)]]
=============================================================================
