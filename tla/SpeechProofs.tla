---------------------------- MODULE SpeechProofs ----------------------------
(***************************************************************************)
(* Proofs, for every number of calls, scopes, request ids and digests and  *)
(* for all durations, that the speech service keeps its safety properties. *)
(***************************************************************************)
EXTENDS SpeechInvariants, SpeechRefinement, TLAPS

(***************************************************************************)
(* What the type invariant says of each table, field by field              *)
(***************************************************************************)

\* Elapsed time never leaves the range of a duration.
LEMMA ElapseInRange ==
    ASSUME NEW n \in Nat, NEW m \in 0 .. n
    PROVE  Elapse(m) \in 0 .. n /\ (Elapse(m) > 0 => Elapse(m) = m - 1)
  BY DEF Elapse

\* The fields of a record, by its state.
LEMMA RecordFields ==
    ASSUME StoreTypeOK, NEW s \in Scopes
    PROVE  /\ records[s].state \in {"absent", "pending", "completed"}
           /\ records[s].state = "absent" => records[s] = NoRecord
           /\ records[s].state = "pending" =>
                /\ records[s] \in PendingRecords
                /\ records[s].token \in Calls
                /\ records[s].lease \in 0 .. Lease
                /\ records[s].id \in Ids
                /\ records[s].digest \in Digests
                /\ records[s].origin \in Calls
           /\ records[s].state = "completed" =>
                /\ records[s] \in CompletedRecords
                /\ records[s].token = None
                /\ records[s].lease = 0
                /\ records[s].id \in Ids
                /\ records[s].digest \in Digests
                /\ records[s].origin \in Calls
                /\ records[s].by \in Calls
                /\ records[s].storage \in Storages
  BY DEF StoreTypeOK, NoRecord, PendingRecords, CompletedRecords

\* The fields of a history row, by its status.
LEMMA JobFields ==
    ASSUME StoreTypeOK, NEW i \in Ids
    PROVE  /\ jobs[i].status \in {"absent", "running", "failed", "completed"}
           /\ jobs[i].status = "absent" => jobs[i] = NoJob /\ jobs[i].token = None
           /\ jobs[i].status \in {"running", "failed"} =>
                /\ jobs[i] \in OpenJobs
                /\ jobs[i].token \in Calls
                /\ jobs[i].lease \in 0 .. Lease
                /\ jobs[i].scope \in Scopes
                /\ jobs[i].digest \in Digests
           /\ jobs[i].status = "completed" =>
                /\ jobs[i] \in CompletedJobs
                /\ jobs[i].token = None
                /\ jobs[i].scope \in Scopes
                /\ jobs[i].digest \in Digests
  BY DEF StoreTypeOK, NoJob, OpenJobs, CompletedJobs

\* The fields of held audio.
LEMMA HeldFields ==
    ASSUME HeldTypeOK, NEW i \in Ids
    PROVE  \/ held[i] = NoAudio /\ held[i].owner = None
           \/ /\ held[i] \in HeldRows
              /\ held[i].owner \in Accounts
              /\ held[i].by \in Calls
              /\ held[i].owner # None
  BY SetsAssumption DEF HeldTypeOK, NoAudio, HeldRows

\* The fields of a call that has arrived.
LEMMA CallFields ==
    ASSUME TypeOK, NEW c \in Calls
    PROVE  /\ calls[c] \in CallTypes
           /\ calls[c].pc \in Places
           /\ calls[c].origin \in Calls \cup {None}
           /\ calls[c].by \in Calls \cup {None}
           /\ calls[c].storage \in Storages \cup {None}
           /\ calls[c].budget \in 0 .. Deadline
           /\ calls[c].pc = "idle" => calls[c].scope = None
           /\ calls[c].pc # "idle" => /\ calls[c].scope \in Scopes
                                      /\ calls[c].digest \in Digests
                                      /\ calls[c].id \in Ids
  BY DEF TypeOK, CallsTypeOK, CallTypes

-----------------------------------------------------------------------------
(***************************************************************************)
(* What each way of updating one call does to every field                  *)
(***************************************************************************)

OthersSame(c) == \A d \in Calls \ {c} : calls'[d] = calls[d]

\* Move changes the place only.
LEMMA MoveEffect ==
    ASSUME TypeOK, NEW c \in Calls, calls[c].pc # "idle", NEW p \in Places \ {"idle"}, Move(c, p)
    PROVE  /\ CallsTypeOK'
           /\ OthersSame(c)
           /\ calls'[c].pc = p
           /\ calls'[c].scope = calls[c].scope
           /\ calls'[c].digest = calls[c].digest
           /\ calls'[c].id = calls[c].id
           /\ calls'[c].origin = calls[c].origin
           /\ calls'[c].by = calls[c].by
           /\ calls'[c].storage = calls[c].storage
           /\ calls'[c].budget = calls[c].budget
  BY DEF TypeOK, CallsTypeOK, CallTypes, Move, OthersSame

\* End keeps key, body and request id, and forgets the rest.
LEMMA EndEffect ==
    ASSUME TypeOK, NEW c \in Calls, calls[c].pc # "idle", End(c)
    PROVE  /\ CallsTypeOK'
           /\ OthersSame(c)
           /\ calls'[c].pc = "ended"
           /\ calls'[c].scope = calls[c].scope
           /\ calls'[c].digest = calls[c].digest
           /\ calls'[c].id = calls[c].id
           /\ calls'[c].origin = None
           /\ calls'[c].by = None
           /\ calls'[c].storage = None
           /\ calls'[c].budget = 0
  <1> DEFINE r == [Idle EXCEPT !.pc = "ended", !.scope = calls[c].scope,
                              !.digest = calls[c].digest, !.id = calls[c].id]
  <1>1. /\ r.pc = "ended"
        /\ r.scope = calls[c].scope /\ r.digest = calls[c].digest /\ r.id = calls[c].id
        /\ r.origin = None /\ r.by = None /\ r.storage = None /\ r.budget = 0
    BY DEF Idle
  <1>a. /\ calls[c] \in CallTypes /\ calls[c].scope \in Scopes
        /\ calls[c].digest \in Digests /\ calls[c].id \in Ids
    BY CallFields
  <1>b. 0 \in 0 .. Deadline
    BY DurationsAssumption
  <1>2. r \in CallTypes
    BY <1>a, <1>b DEF Idle, CallTypes, Places
  <1>3. calls' = [calls EXCEPT ![c] = r]
    BY DEF End
  <1> HIDE DEF r
  <1>4. calls'[c] = r /\ OthersSame(c) /\ (calls \in [Calls -> CallTypes])'
    BY <1>2, <1>3 DEF TypeOK, CallsTypeOK, OthersSame
  <1>5. QED
    BY <1>1, <1>4 DEF TypeOK, CallsTypeOK, OthersSame

\* Succeed records whose result is answered.
LEMMA SucceedEffect ==
    ASSUME TypeOK, NEW c \in Calls, calls[c].pc # "idle", NEW p \in Answered,
           NEW b \in Calls \cup {None}, Succeed(c, p, b)
    PROVE  /\ CallsTypeOK'
           /\ OthersSame(c)
           /\ calls'[c].pc = p
           /\ calls'[c].scope = calls[c].scope
           /\ calls'[c].digest = calls[c].digest
           /\ calls'[c].id = calls[c].id
           /\ calls'[c].origin = calls[c].origin
           /\ calls'[c].by = b
           /\ calls'[c].storage = calls[c].storage
           /\ calls'[c].budget = 0
  <1> DEFINE r == [calls[c] EXCEPT !.pc = p, !.by = b, !.budget = 0]
  <1>1. /\ r.pc = p /\ r.by = b /\ r.budget = 0
        /\ r.scope = calls[c].scope /\ r.digest = calls[c].digest /\ r.id = calls[c].id
        /\ r.origin = calls[c].origin /\ r.storage = calls[c].storage
    BY CallFields DEF CallTypes
  <1>a. /\ calls[c] \in CallTypes /\ calls[c].scope \in Scopes
        /\ calls[c].digest \in Digests /\ calls[c].id \in Ids
    BY CallFields
  <1>b. 0 \in 0 .. Deadline
    BY DurationsAssumption
  <1>2. r \in CallTypes
    BY <1>a, <1>b DEF CallTypes, Places
  <1>3. calls' = [calls EXCEPT ![c] = r]
    BY DEF Succeed
  <1> HIDE DEF r
  <1>4. calls'[c] = r /\ OthersSame(c) /\ (calls \in [Calls -> CallTypes])'
    BY <1>2, <1>3 DEF TypeOK, CallsTypeOK, OthersSame
  <1>5. QED
    BY <1>1, <1>4 DEF TypeOK, CallsTypeOK, OthersSame, Answered

\* A call that acquires the lease learns the canonical id and creation.
LEMMA AcquiredEffect ==
    ASSUME TypeOK, NEW c \in Calls, calls[c].pc # "idle", NEW i \in Ids,
           NEW o \in Calls, Acquired(c, i, o, TRUE)
    PROVE  /\ CallsTypeOK'
           /\ OthersSame(c)
           /\ calls'[c].pc = "claimed"
           /\ calls'[c].scope = calls[c].scope
           /\ calls'[c].digest = calls[c].digest
           /\ calls'[c].id = i
           /\ calls'[c].origin = o
           /\ calls'[c].by = calls[c].by
           /\ calls'[c].storage = calls[c].storage
           /\ calls'[c].budget = calls[c].budget
  BY SetsAssumption
  DEF TypeOK, CallsTypeOK, CallTypes, Acquired, OthersSame, Places, Open, Guarded

\* A call that finishes its work has a result to complete with.
LEMMA ResultEffect ==
    ASSUME TypeOK, NEW c \in Calls, calls[c].pc # "idle", NEW st \in Storages,
           calls' = [calls EXCEPT ![c].pc = "completing", ![c].storage = st]
    PROVE  /\ CallsTypeOK'
           /\ OthersSame(c)
           /\ calls'[c].pc = "completing"
           /\ calls'[c].scope = calls[c].scope
           /\ calls'[c].digest = calls[c].digest
           /\ calls'[c].id = calls[c].id
           /\ calls'[c].origin = calls[c].origin
           /\ calls'[c].by = calls[c].by
           /\ calls'[c].storage = st
           /\ calls'[c].budget = calls[c].budget
  <1> DEFINE r == [calls[c] EXCEPT !.pc = "completing", !.storage = st]
  <1>1. /\ r.pc = "completing" /\ r.storage = st
        /\ r.scope = calls[c].scope /\ r.digest = calls[c].digest /\ r.id = calls[c].id
        /\ r.origin = calls[c].origin /\ r.by = calls[c].by /\ r.budget = calls[c].budget
    BY CallFields DEF CallTypes
  <1>2. r \in CallTypes
    BY CallFields DEF CallTypes, Places, Open, Guarded
  <1>3. calls' = [calls EXCEPT ![c] = r]
    OBVIOUS
  <1> HIDE DEF r
  <1>4. calls'[c] = r /\ OthersSame(c) /\ (calls \in [Calls -> CallTypes])'
    BY <1>2, <1>3 DEF TypeOK, CallsTypeOK, OthersSame
  <1>5. QED
    BY <1>1, <1>4 DEF TypeOK, CallsTypeOK, OthersSame

-----------------------------------------------------------------------------
(***************************************************************************)
(* What each store transaction does to every field                         *)
(***************************************************************************)

OtherRecordsSame(s) == \A z \in Scopes \ {s} : records'[z] = records[z]
OtherJobsSame(i) == \A k \in Ids \ {i} : jobs'[k] = jobs[k]

\* A new record belongs to the claiming call, with a full lease.
LEMMA InsertEffect ==
    ASSUME StoreTypeOK, NEW s \in Scopes, NEW d \in Digests, NEW i \in Ids,
           NEW c \in Calls, InsertClaim(s, d, i, c)
    PROVE  /\ StoreTypeOK' /\ jobs' = jobs /\ OtherRecordsSame(s)
           /\ records[s].state = "pending" => records[s].lease = 0
           /\ records'[s].state = "pending"
           /\ records'[s].digest = d /\ records'[s].id = i
           /\ records'[s].token = c /\ records'[s].origin = c
           /\ records'[s].lease = Lease
  <1> DEFINE r == [NoRecord EXCEPT !.state = "pending", !.digest = d, !.id = i,
                                  !.token = c, !.lease = Lease, !.ttl = Ttl,
                                  !.origin = c]
  <1>2. Lease \in 0 .. Lease /\ Ttl \in 0 .. Ttl
    BY DurationsAssumption
  <1>3. r \in PendingRecords
    BY <1>2 DEF PendingRecords, NoRecord
  <1>4. records' = [records EXCEPT ![s] = r] /\ jobs' = jobs
    BY DEF InsertClaim
  <1>5. r.state = "pending" /\ r.digest = d /\ r.id = i /\ r.token = c
        /\ r.origin = c /\ r.lease = Lease
    BY DEF NoRecord
  <1>6. records[s].state = "pending" => records[s].lease = 0
    BY DEF InsertClaim, Vacant, Purgeable
  <1> HIDE DEF r
  <1>7. records'[s] = r /\ OtherRecordsSame(s) /\ StoreTypeOK'
    BY <1>3, <1>4 DEF StoreTypeOK, OtherRecordsSame
  <1>8. QED
    BY <1>4, <1>5, <1>6, <1>7

\* A reclaimed record keeps everything but token and lease.
LEMMA ReclaimEffect ==
    ASSUME StoreTypeOK, NEW s \in Scopes, NEW d \in Digests, NEW c \in Calls,
           ReclaimClaim(s, d, c)
    PROVE  /\ StoreTypeOK' /\ jobs' = jobs /\ OtherRecordsSame(s)
           /\ records[s].state = "pending" /\ records[s].lease = 0
           /\ records[s].digest = d
           /\ records'[s].state = "pending"
           /\ records'[s].digest = d /\ records'[s].id = records[s].id
           /\ records'[s].token = c /\ records'[s].origin = records[s].origin
           /\ records'[s].lease = Lease
  <1> DEFINE r == [records[s] EXCEPT !.token = c, !.lease = Lease]
  <1>1. records[s].state = "pending" /\ records[s].lease = 0 /\ records[s].digest = d
    BY DEF ReclaimClaim, Reclaimable
  <1>2. records[s] \in PendingRecords
    BY <1>1, RecordFields
  <1>3. Lease \in 0 .. Lease
    BY DurationsAssumption
  <1>4. r \in PendingRecords
    BY <1>2, <1>3 DEF PendingRecords
  <1>5. r.state = "pending" /\ r.digest = d /\ r.id = records[s].id /\ r.token = c
        /\ r.origin = records[s].origin /\ r.lease = Lease
    BY <1>1, <1>2 DEF PendingRecords
  <1>6. records' = [records EXCEPT ![s] = r] /\ jobs' = jobs
    BY DEF ReclaimClaim
  <1> HIDE DEF r
  <1>7. records'[s] = r /\ OtherRecordsSame(s) /\ StoreTypeOK'
    BY <1>4, <1>6 DEF StoreTypeOK, OtherRecordsSame
  <1>8. QED
    BY <1>1, <1>5, <1>6, <1>7

\* A started history row follows the lease of its record, and replaces none of
\* another scope or body and no completed one.
LEMMA StartEffect ==
    ASSUME StoreTypeOK, NEW s \in Scopes, NEW c \in Calls, StartJob(s, c)
    PROVE  LET i == records[s].id IN
           /\ StoreTypeOK' /\ records' = records /\ OtherJobsSame(i)
           /\ i \in Ids /\ Current(s, c) /\ MayStart(i, s, records[s].digest)
           /\ jobs'[i].status = "running" /\ jobs'[i].scope = s
           /\ jobs'[i].digest = records[s].digest /\ jobs'[i].token = c
           /\ jobs'[i].lease = records[s].lease
  <1> DEFINE i == records[s].id
             r == [status |-> "running", scope |-> s, digest |-> records[s].digest,
                   token |-> c, lease |-> records[s].lease]
  <1>1. Current(s, c) /\ MayStart(i, s, records[s].digest)
    BY DEF StartJob
  <1>2. /\ i \in Ids /\ records[s].digest \in Digests
        /\ records[s].lease \in 0 .. Lease
    BY <1>1, RecordFields DEF Current
  <1>3. r \in OpenJobs
    BY <1>2 DEF OpenJobs
  <1>4. jobs' = [jobs EXCEPT ![i] = r] /\ records' = records
    BY DEF StartJob
  <1>5. r.status = "running" /\ r.scope = s /\ r.digest = records[s].digest
        /\ r.token = c /\ r.lease = records[s].lease
    OBVIOUS
  <1> HIDE DEF r, i
  <1>6. jobs'[i] = r /\ OtherJobsSame(i) /\ StoreTypeOK'
    BY <1>2, <1>3, <1>4 DEF StoreTypeOK, OtherJobsSame
  <1>7. QED
    BY <1>1, <1>2, <1>4, <1>5, <1>6 DEF i

\* Completion turns the record and the history row of the token.
LEMMA CompleteEffect ==
    ASSUME StoreTypeOK, NEW s \in Scopes, NEW i \in Ids, NEW c \in Calls,
           NEW st \in Storages, CompleteJob(s, i, c, st)
    PROVE  /\ StoreTypeOK' /\ OtherRecordsSame(s) /\ OtherJobsSame(i)
           /\ Current(s, c) /\ records[s].id = i /\ jobs[i].token = c
           /\ jobs[i].status \in {"running", "failed"}
           /\ records'[s].state = "completed"
           /\ records'[s].digest = records[s].digest /\ records'[s].id = i
           /\ records'[s].origin = records[s].origin
           /\ records'[s].by = c /\ records'[s].storage = st
           /\ jobs'[i].status = "completed" /\ jobs'[i].scope = jobs[i].scope
           /\ jobs'[i].digest = jobs[i].digest
  <1> DEFINE r == [records[s] EXCEPT !.state = "completed", !.token = None, !.lease = 0,
                                    !.ttl = Ttl, !.by = c, !.storage = st]
             j == [jobs[i] EXCEPT !.status = "completed", !.token = None, !.lease = 0]
  <1>1. /\ Current(s, c) /\ records[s].id = i /\ jobs[i].token = c
        /\ records' = [records EXCEPT ![s] = r] /\ jobs' = [jobs EXCEPT ![i] = j]
    BY DEF CompleteJob
  <1>2. records[s] \in PendingRecords
    BY <1>1, RecordFields DEF Current
  <1>3. jobs[i].status \in {"running", "failed"} /\ jobs[i] \in OpenJobs
    BY <1>1, JobFields, SetsAssumption
  <1>4. Ttl \in 0 .. Ttl
    BY DurationsAssumption
  <1>5. r \in CompletedRecords
    BY <1>2, <1>4 DEF PendingRecords, CompletedRecords
  <1>6. r.state = "completed" /\ r.digest = records[s].digest /\ r.id = records[s].id
        /\ r.origin = records[s].origin /\ r.by = c /\ r.storage = st
    BY <1>2 DEF PendingRecords
  <1>7. j \in CompletedJobs
    BY <1>3 DEF OpenJobs, CompletedJobs
  <1>8. j.status = "completed" /\ j.scope = jobs[i].scope /\ j.digest = jobs[i].digest
    BY <1>3 DEF OpenJobs
  <1> HIDE DEF r, j
  <1>9. records'[s] = r /\ jobs'[i] = j /\ OtherRecordsSame(s) /\ OtherJobsSame(i)
        /\ StoreTypeOK'
    BY <1>1, <1>5, <1>7 DEF StoreTypeOK, OtherRecordsSame, OtherJobsSame
  <1>10. QED
    BY <1>1, <1>3, <1>6, <1>8, <1>9

\* All fields of a record but its lease.
SameButLease(s) ==
    /\ records'[s].state = records[s].state
    /\ records'[s].digest = records[s].digest
    /\ records'[s].id = records[s].id
    /\ records'[s].token = records[s].token
    /\ records'[s].origin = records[s].origin
    /\ records'[s].by = records[s].by
    /\ records'[s].storage = records[s].storage

\* A history row keeps its identity; a running one may fail.
SameOrFailed(i) ==
    /\ jobs'[i].scope = jobs[i].scope
    /\ jobs'[i].digest = jobs[i].digest
    /\ jobs'[i].token = jobs[i].token
    /\ \/ jobs'[i].status = jobs[i].status
       \/ jobs[i].status = "running" /\ jobs'[i].status = "failed"

\* A release touches only what carries the token: it ends that lease and fails
\* that running attempt.
LEMMA ReleaseEffect ==
    ASSUME StoreTypeOK, NEW s \in Scopes, NEW c \in Calls,
           ReleaseLease(s, c) \/ UNCHANGED storeVars
    PROVE  /\ StoreTypeOK' /\ OtherRecordsSame(s) /\ SameButLease(s)
           /\ records'[s] = records[s] \/ (Current(s, c) /\ records'[s].lease = 0)
           /\ \A k \in Ids : SameOrFailed(k)
           /\ \A k \in Ids : jobs'[k].status = "running" =>
                /\ jobs'[k] = jobs[k]
                /\ \/ records'[s] = records[s]
                   \/ k # records[s].id
                   \/ jobs[k].token # c
  <1>1. CASE UNCHANGED storeVars
    BY <1>1 DEF storeVars, StoreTypeOK, OtherRecordsSame, SameButLease, SameOrFailed
  <1>2. CASE ReleaseLease(s, c) /\ ~Current(s, c)
    BY <1>1, <1>2 DEF ReleaseLease
  <1>3. CASE ReleaseLease(s, c) /\ Current(s, c)
    <2> DEFINE i == records[s].id
               r == [records[s] EXCEPT !.lease = 0]
               j == [jobs[i] EXCEPT !.status = "failed", !.lease = 0]
    <2>1. records[s] \in PendingRecords /\ i \in Ids
      BY <1>3, RecordFields DEF Current
    <2>2. 0 \in 0 .. Lease
      BY DurationsAssumption
    <2>3. r \in PendingRecords
      BY <2>1, <2>2 DEF PendingRecords
    <2>4. /\ r.state = records[s].state /\ r.digest = records[s].digest
          /\ r.id = records[s].id /\ r.token = records[s].token
          /\ r.origin = records[s].origin /\ r.by = records[s].by
          /\ r.storage = records[s].storage /\ r.lease = 0
      BY <2>1 DEF PendingRecords
    <2>5. jobs[i].status = "running" => j \in OpenJobs
      BY <2>1, <2>2, JobFields DEF OpenJobs
    <2>6. jobs[i].status = "running" =>
            /\ j.status = "failed" /\ j.scope = jobs[i].scope
            /\ j.digest = jobs[i].digest /\ j.token = jobs[i].token
      BY <2>1, JobFields DEF OpenJobs
    <2>7. /\ records' = [records EXCEPT ![s] = r]
          /\ jobs' = IF jobs[i].status = "running" /\ jobs[i].token = c
                     THEN [jobs EXCEPT ![i] = j] ELSE jobs
      BY <1>3 DEF ReleaseLease
    <2> HIDE DEF r, j, i
    <2>8. records'[s] = r /\ OtherRecordsSame(s)
          /\ (records \in [Scopes -> {NoRecord} \cup PendingRecords \cup CompletedRecords])'
      BY <2>3, <2>7 DEF StoreTypeOK, OtherRecordsSame
    <2>9. CASE jobs[i].status = "running" /\ jobs[i].token = c
      <3>1. jobs'[i] = j /\ (\A k \in Ids \ {i} : jobs'[k] = jobs[k])
            /\ (jobs \in [Ids -> {NoJob} \cup OpenJobs \cup CompletedJobs])'
        BY <2>1, <2>5, <2>7, <2>9 DEF StoreTypeOK
      <3>2. (\A k \in Ids : SameOrFailed(k)) /\ jobs'[i].status # "running"
        BY <2>6, <2>9, <3>1 DEF SameOrFailed
      <3>3. QED
        BY <1>3, <2>4, <2>8, <3>1, <3>2 DEF StoreTypeOK, SameButLease, i
    <2>10. CASE ~(jobs[i].status = "running" /\ jobs[i].token = c)
      BY <1>3, <2>4, <2>7, <2>8, <2>10 DEF StoreTypeOK, SameButLease, SameOrFailed, i
    <2>11. QED
      BY <2>9, <2>10
  <1>4. QED
    BY <1>1, <1>2, <1>3

\* Recovery fails running rows whose lease is over, and nothing else.
LEMMA RecoverEffect ==
    ASSUME StoreTypeOK, RecoverExpiredJobs
    PROVE  /\ StoreTypeOK' /\ records' = records
           /\ \A k \in Ids : SameOrFailed(k)
           /\ \A k \in Ids : jobs'[k].status = "running" => jobs'[k] = jobs[k]
  <1>1. \A k \in Ids :
           /\ jobs'[k] \in {NoJob} \cup OpenJobs \cup CompletedJobs
           /\ SameOrFailed(k)
           /\ jobs'[k].status = "running" => jobs'[k] = jobs[k]
    <2> TAKE k \in Ids
    <2>1. CASE Abandoned(k)
      <3>1. jobs'[k] = [jobs[k] EXCEPT !.status = "failed"] /\ jobs[k] \in OpenJobs
            /\ jobs[k].status = "running"
        BY <2>1, JobFields DEF RecoverExpiredJobs, Abandoned
      <3>2. QED
        BY <3>1 DEF OpenJobs, SameOrFailed
    <2>2. CASE ~Abandoned(k)
      BY <2>2 DEF RecoverExpiredJobs, StoreTypeOK, SameOrFailed
    <2>3. QED
      BY <2>1, <2>2
  <1>2. QED
    BY <1>1 DEF RecoverExpiredJobs, StoreTypeOK

\* Time shortens leases and retentions only.
LEMMA AgeEffect ==
    ASSUME StoreTypeOK, AgeStore
    PROVE  /\ StoreTypeOK'
           /\ \A s \in Scopes : /\ SameButLease(s)
                                /\ records[s].state # "absent" =>
                                      records'[s].lease = Elapse(records[s].lease)
           /\ \A i \in Ids : /\ SameOrFailed(i)
                             /\ jobs'[i].status = jobs[i].status
                             /\ jobs'[i].lease = Elapse(jobs[i].lease)
  <1>1. ASSUME NEW s \in Scopes
        PROVE  /\ records'[s] \in {NoRecord} \cup PendingRecords \cup CompletedRecords
               /\ SameButLease(s)
               /\ records'[s].lease = Elapse(records[s].lease)
    <2>1. records'[s] = [records[s] EXCEPT !.lease = Elapse(@), !.ttl = Elapse(@)]
      BY DEF AgeStore
    <2>2. Elapse(0) = 0
      BY DEF Elapse
    <2>3. CASE records[s].state = "absent"
      <3>1. records[s] = NoRecord
        BY <2>3, RecordFields
      <3>a. [NoRecord EXCEPT !.lease = 0] = NoRecord
        BY DEF NoRecord
      <3>b. [NoRecord EXCEPT !.ttl = 0] = NoRecord
        BY DEF NoRecord
      <3>c. records'[s] = [NoRecord EXCEPT !.lease = 0, !.ttl = 0]
        <4>1. NoRecord.lease = 0 /\ NoRecord.ttl = 0
          BY DEF NoRecord
        <4>2. QED
          BY <2>1, <2>2, <3>1, <4>1
      <3>2. records'[s] = NoRecord
        BY <3>a, <3>b, <3>c
      <3>3. QED
        BY <2>2, <3>1, <3>2 DEF NoRecord, SameButLease
    <2>4. CASE records[s].state = "pending"
      <3>1. records[s] \in PendingRecords
        BY <2>4, RecordFields
      <3>2. Elapse(records[s].lease) \in 0 .. Lease /\ Elapse(records[s].ttl) \in 0 .. Ttl
        BY <3>1, ElapseInRange, DurationsAssumption DEF PendingRecords
      <3>3. QED
        BY <2>1, <3>1, <3>2 DEF PendingRecords, SameButLease
    <2>5. CASE records[s].state = "completed"
      <3>1. records[s] \in CompletedRecords
        BY <2>5, RecordFields
      <3>2. Elapse(records[s].lease) = 0 /\ Elapse(records[s].ttl) \in 0 .. Ttl
        BY <2>2, <3>1, ElapseInRange, DurationsAssumption DEF CompletedRecords
      <3>3. QED
        BY <2>1, <3>1, <3>2 DEF CompletedRecords, SameButLease
    <2>6. QED
      BY <2>3, <2>4, <2>5, RecordFields
  <1>2. ASSUME NEW i \in Ids
        PROVE  /\ jobs'[i] \in {NoJob} \cup OpenJobs \cup CompletedJobs
               /\ SameOrFailed(i)
               /\ jobs'[i].status = jobs[i].status
               /\ jobs'[i].lease = Elapse(jobs[i].lease)
    <2>1. jobs'[i] = [jobs[i] EXCEPT !.lease = Elapse(@)]
      BY DEF AgeStore
    <2>2. Elapse(0) = 0
      BY DEF Elapse
    <2>3. CASE jobs[i].status = "absent"
      <3>1. jobs[i] = NoJob /\ jobs'[i] = NoJob
        BY <2>1, <2>2, <2>3, JobFields DEF NoJob
      <3>2. QED
        BY <2>2, <3>1 DEF NoJob, SameOrFailed
    <2>4. CASE jobs[i].status \in {"running", "failed"}
      <3>1. jobs[i] \in OpenJobs /\ Elapse(jobs[i].lease) \in 0 .. Lease
        BY <2>4, JobFields, ElapseInRange, DurationsAssumption
      <3>2. QED
        BY <2>1, <3>1 DEF OpenJobs, SameOrFailed
    <2>5. CASE jobs[i].status = "completed"
      <3>1. jobs[i] \in CompletedJobs
        BY <2>5, JobFields
      <3>2. QED
        BY <2>1, <2>2, <3>1 DEF CompletedJobs, SameOrFailed
    <2>6. QED
      BY <2>3, <2>4, <2>5, JobFields
  <1>3. QED
    BY <1>1, <1>2 DEF AgeStore, StoreTypeOK

-----------------------------------------------------------------------------
(***************************************************************************)
(* Steps of one call that leave records and history alone                  *)
(***************************************************************************)

Working == {"claimed", "working", "completing"}

\* What such steps have in common: an open call goes on under the lease it has,
\* answers the replay it was given, or ends.  A working call may hold its audio.
QuietStep(c) ==
    /\ UNCHANGED <<records, jobs, deleted>>
    /\ HeldTypeOK'
    /\ \A i \in Ids : \/ held'[i] = held[i]
                      \/ /\ i = calls[c].id /\ calls[c].pc = "working"
                         /\ held'[i].owner = Owner(c) /\ held'[i].by = c
    /\ \/ releases' = releases
       \/ releases' = releases \cup {c} /\ calls'[c].pc = "ended"
    /\ CallsTypeOK'
    /\ OthersSame(c)
    /\ calls[c].pc \in Open
    /\ calls'[c].pc \in Guarded \cup {"ended", "replayed"}
    /\ calls'[c].pc # "working"
    /\ calls'[c].scope = calls[c].scope
    /\ calls'[c].digest = calls[c].digest
    /\ calls'[c].origin \in {None, calls[c].origin}
    /\ calls'[c].pc \in Guarded =>
          /\ calls[c].pc \in Guarded
          /\ calls'[c].id = calls[c].id
          /\ calls'[c].origin = calls[c].origin
    /\ calls'[c].pc = "replayed" =>
          /\ calls[c].pc = "replaying"
          /\ calls'[c].id = calls[c].id
          /\ calls'[c].origin = calls[c].origin
          /\ calls'[c].by = calls[c].by
          /\ calls'[c].storage = calls[c].storage
    /\ calls'[c].pc \in Working =>
          calls[c].pc \in Working /\ calls'[c].budget = calls[c].budget
    /\ calls'[c].pc = "completing" => calls'[c].storage \in Storages

\* Steps that leave records and history alone keep the invariant.
LEMMA QuietKeepsInv ==
    ASSUME Inv, NEW c \in Calls, QuietStep(c)
    PROVE  Inv'
  <1> USE DEF Guarded, Open, Answered, Informed, Working
  <1>1. /\ TypeOK /\ StoreTypeOK /\ calls[c].pc # "idle"
        /\ records' = records /\ jobs' = jobs /\ deleted' = deleted
    BY DEF Inv, TypeOK, QuietStep
  <1>2. TypeOK'
    BY <1>1 DEF QuietStep, TypeOK, StoreTypeOK
  <1>3. TokenFits'
    BY <1>1, RecordFields DEF Inv, TokenFits, QuietStep, OthersSame
  <1>4. JobTokenFits'
    BY <1>1, JobFields DEF Inv, JobTokenFits, QuietStep, OthersSame
  <1>5. RecordOriginFits'
    BY <1>1, RecordFields DEF Inv, RecordOriginFits, QuietStep, OthersSame
  <1>6. CallOriginFits'
    BY <1>1, CallFields DEF Inv, CallOriginFits, QuietStep, OthersSame
  <1>7. RecordResultFits'
    BY <1>1, RecordFields DEF Inv, RecordResultFits, QuietStep, OthersSame
  <1>8. CallResultFits'
    BY <1>1, CallFields DEF Inv, CallResultFits, QuietStep, OthersSame
  <1>9. ResultsAgree'
    BY <1>1 DEF Inv, ResultsAgree, QuietStep, OthersSame
  <1>10. CompletedTogether' /\ JobsFollowLease'
    BY <1>1 DEF Inv, CompletedTogether, JobsFollowLease, Current
  <1>11. WorkerFits'
    BY <1>1 DEF Inv, WorkerFits, Owner, QuietStep, OthersSame
  <1>12. HeldFitsHistory'
    <2>1. SUFFICES ASSUME NEW i \in Ids, held'[i].owner \notin deleted \cup {None}
                   PROVE  /\ jobs[i].status # "absent"
                          /\ OwnerOf[jobs[i].scope] = held'[i].owner
                          /\ calls'[held'[i].by].scope = jobs[i].scope
                          /\ calls'[held'[i].by].digest = jobs[i].digest
      BY <1>1 DEF HeldFitsHistory
    <2>2. CASE held'[i] = held[i]
      BY <1>1, <2>1, <2>2, HeldFields
      DEF Inv, TypeOK, HeldFitsHistory, QuietStep, OthersSame
    <2>3. CASE /\ i = calls[c].id /\ calls[c].pc = "working"
               /\ held'[i].owner = Owner(c) /\ held'[i].by = c
      BY <1>1, <2>1, <2>3 DEF Inv, WorkerFits, Owner, QuietStep
    <2>4. QED
      BY <2>1, <2>2, <2>3 DEF QuietStep
  <1>13. ReleasesEnded' /\ CompletingHasResult'
    BY <1>1 DEF Inv, TypeOK, ReleasesEnded, CompletingHasResult, QuietStep, OthersSame
  <1>14. (Prompt => LeaseCoversCall)'
    BY <1>1 DEF Inv, LeaseCoversCall, Owner, Current, QuietStep, OthersSame
  <1>15. QED
    BY <1>2, <1>3, <1>4, <1>5, <1>6, <1>7, <1>8, <1>9, <1>10, <1>11, <1>12, <1>13, <1>14
    DEF Inv

\* An open call that ends, with or without a detached release.
LEMMA EndIsQuiet ==
    ASSUME TypeOK, NEW c \in Calls, calls[c].pc \in Open, End(c),
           releases' \in {releases, releases \cup {c}},
           UNCHANGED <<records, jobs, held, deleted>>
    PROVE  QuietStep(c)
  <1>1. calls[c].pc # "idle"
    BY DEF Open, Guarded
  <1>2. QED
    BY <1>1, EndEffect DEF QuietStep, Guarded, Working, TypeOK, HeldTypeOK

\* A call that goes on to another place of the same lease.
LEMMA MoveIsQuiet ==
    ASSUME TypeOK, NEW c \in Calls, calls[c].pc \in Working, Move(c, "failing"),
           UNCHANGED <<records, jobs, held, releases, deleted>>
    PROVE  QuietStep(c)
  <1>1. calls[c].pc # "idle" /\ "failing" \in Places \ {"idle"}
    BY DEF Working, Places, Open, Guarded
  <1>2. QED
    BY <1>1, MoveEffect DEF QuietStep, Guarded, Working, Open, TypeOK, HeldTypeOK

\* Every call step that touches no table is a quiet step.
LEMMA QuietSteps ==
    ASSUME TypeOK, NEW c \in Calls,
           \/ ClaimRefused(c) \/ Replay(c) \/ ResolveVoiceFails(c) \/ ExecuteFails(c)
           \/ Deliver(c) \/ CompleteFails(c) \/ Interrupt(c) \/ Crash(c)
    PROVE  QuietStep(c)
  <1>1. CASE ClaimRefused(c)
    BY <1>1, EndIsQuiet DEF ClaimRefused, At, Open
  <1>2. CASE Replay(c)
    <2>1. calls[c].pc = "replaying"
      BY <1>2 DEF Replay, At
    <2>2. CASE Succeed(c, "replayed", calls[c].by)
      <3>1. calls[c].by \in Calls \cup {None}
        BY CallFields
      <3>2. QED
        BY <1>2, <2>1, <2>2, <3>1, SucceedEffect
        DEF Replay, QuietStep, Guarded, Working, Open, Answered, TypeOK, HeldTypeOK
    <2>3. CASE End(c)
      BY <1>2, <2>1, <2>3, EndIsQuiet DEF Replay, Open
    <2>4. QED
      BY <1>2, <2>2, <2>3 DEF Replay
  <1>3. CASE ResolveVoiceFails(c) \/ ExecuteFails(c) \/ CompleteFails(c)
    BY <1>3, MoveIsQuiet DEF ResolveVoiceFails, ExecuteFails, CompleteFails, At, Working
  <1>4. CASE Deliver(c)
    <2> DEFINE st == IF calls[c].scope \in TtsScopes THEN "briefcase" ELSE "transcript"
    <2>1. calls[c].pc = "working" /\ st \in Storages
      BY <1>4 DEF Deliver, At, Storages
    <2>2. calls' = [calls EXCEPT ![c].pc = "completing", ![c].storage = st]
      BY <1>4 DEF Deliver
    <2> HIDE DEF st
    <2>3. QED
      BY <1>4, <2>1, <2>2, ResultEffect
      DEF Deliver, QuietStep, Guarded, Working, Open, TypeOK, HeldTypeOK
  <1>5. CASE Interrupt(c)
    BY <1>5, EndIsQuiet DEF Interrupt
  <1>6. CASE Crash(c)
    BY <1>6, EndIsQuiet DEF Crash
  <1>7. QED
    BY <1>1, <1>2, <1>3, <1>4, <1>5, <1>6

\* Holding the audio is quiet too: the row it writes is that of the call's
\* account and request id.
LEMMA HoldIsQuiet ==
    ASSUME TypeOK, NEW c \in Calls, NEW seen \in BOOLEAN, HoldAudio(c, seen)
    PROVE  QuietStep(c)
  <1> DEFINE i == calls[c].id
             a == Owner(c)
             h == IF held[i].owner = None THEN [owner |-> a, by |-> c, ttl |-> Ttl]
                  ELSE [held[i] EXCEPT !.by = c]
  <1>1. /\ calls[c].pc = "working" /\ MayHold(i, a)
        /\ held' = [held EXCEPT ![i] = h]
        /\ UNCHANGED <<records, jobs, releases, deleted>>
    BY DEF HoldAudio, At, Hold
  <1>2. i \in Ids /\ a \in Accounts /\ HeldTypeOK
    BY <1>1, CallFields, SetsAssumption DEF Owner, TypeOK
  <1>3. h \in HeldRows /\ h.owner = a /\ h.by = c
    <2>1. CASE held[i].owner = None
      <3>1. Ttl \in 0 .. Ttl
        BY DurationsAssumption
      <3>2. QED
        BY <1>2, <2>1, <3>1 DEF HeldRows
    <2>2. CASE held[i].owner # None
      <3>1. held[i] \in HeldRows /\ held[i].owner = a
        BY <1>1, <1>2, <2>2, HeldFields DEF MayHold
      <3>2. QED
        BY <2>2, <3>1 DEF HeldRows
    <2>3. QED
      BY <2>1, <2>2
  <1> HIDE DEF h, i, a
  <1>4. held'[i] = h /\ (\A k \in Ids \ {i} : held'[k] = held[k]) /\ HeldTypeOK'
    BY <1>1, <1>2, <1>3 DEF HeldTypeOK
  <1>5. \A k \in Ids : \/ held'[k] = held[k]
                       \/ /\ k = calls[c].id /\ calls[c].pc = "working"
                          /\ held'[k].owner = Owner(c) /\ held'[k].by = c
    BY <1>1, <1>3, <1>4 DEF i, a
  <1>6. CASE seen = TRUE
    <2>1. calls' = [calls EXCEPT ![c].pc = "completing", ![c].storage = "held"]
      BY <1>6 DEF HoldAudio
    <2>2. "held" \in Storages /\ calls[c].pc # "idle"
      BY <1>1 DEF Storages
    <2>3. QED
      BY <1>1, <1>4, <1>5, <2>1, <2>2, ResultEffect DEF QuietStep, Guarded, Working, Open
  <1>7. CASE seen = FALSE
    <2>1. Move(c, "failing") /\ "failing" \in Places \ {"idle"}
      BY <1>7 DEF HoldAudio, Places, Open, Guarded
    <2>2. QED
      BY <1>1, <1>4, <1>5, <2>1, MoveEffect DEF QuietStep, Guarded, Working, Open
  <1>8. QED
    BY <1>6, <1>7
-----------------------------------------------------------------------------
(***************************************************************************)
(* Steps that read or write the tables                                     *)
(***************************************************************************)

\* A call arrives; nothing refers to a call that has not.
LEMMA AuthorizeKeepsInv ==
    ASSUME Inv, NEW c \in Calls, NEW s \in Scopes, NEW d \in Digests, NEW i \in Ids,
           Authorize(c, s, d, i)
    PROVE  Inv'
  <1> USE DEF Guarded, Open, Answered, Informed
  <1> DEFINE r == [Idle EXCEPT !.pc = "authorized", !.scope = s, !.digest = d,
                              !.id = i, !.budget = Deadline]
  <1>1. /\ TypeOK /\ StoreTypeOK /\ HeldTypeOK /\ calls[c].pc = "idle"
        /\ records' = records /\ jobs' = jobs /\ held' = held
        /\ releases' = releases /\ deleted' = deleted
        /\ calls' = [calls EXCEPT ![c] = r]
    BY DEF Inv, TypeOK, Authorize
  <1>2. /\ r.pc = "authorized" /\ r.scope = s /\ r.digest = d /\ r.id = i
        /\ r.origin = None
    BY DEF Idle
  <1>3. Deadline \in 0 .. Deadline
    BY DurationsAssumption
  <1>4. r \in CallTypes
    BY <1>3 DEF CallTypes, Idle, Places
  <1> HIDE DEF r
  <1>5. calls'[c] = r /\ OthersSame(c) /\ (calls \in [Calls -> CallTypes])'
    BY <1>1, <1>4 DEF TypeOK, CallsTypeOK, OthersSame
  <1>6. TypeOK'
    BY <1>1, <1>2, <1>5, SetsAssumption
    DEF TypeOK, StoreTypeOK, HeldTypeOK, CallsTypeOK, OthersSame
  <1>7. TokenFits'
    BY <1>1, <1>2, <1>5, RecordFields DEF Inv, TokenFits, OthersSame
  <1>8. JobTokenFits'
    BY <1>1, <1>2, <1>5, JobFields DEF Inv, JobTokenFits, OthersSame
  <1>9. RecordOriginFits'
    BY <1>1, <1>2, <1>5, RecordFields DEF Inv, RecordOriginFits, OthersSame
  <1>10. CallOriginFits'
    BY <1>1, <1>2, <1>5, CallFields DEF Inv, CallOriginFits, OthersSame
  <1>11. RecordResultFits'
    BY <1>1, <1>2, <1>5, RecordFields DEF Inv, RecordResultFits, OthersSame
  <1>12. CallResultFits'
    BY <1>1, <1>2, <1>5, CallFields DEF Inv, CallResultFits, OthersSame
  <1>13. ResultsAgree'
    BY <1>1, <1>2, <1>5 DEF Inv, ResultsAgree, OthersSame
  <1>14. CompletedTogether' /\ JobsFollowLease'
    BY <1>1 DEF Inv, CompletedTogether, JobsFollowLease, Current
  <1>15. WorkerFits'
    BY <1>1, <1>2, <1>5 DEF Inv, WorkerFits, Owner, OthersSame
  <1>16. HeldFitsHistory'
    <2>1. ASSUME NEW k \in Ids, held[k].owner \notin deleted \cup {None}
          PROVE  held[k].by \in Calls \ {c}
      <3>1. held[k].by \in Calls
        BY <1>1, <2>1, HeldFields
      <3>2. calls[held[k].by].scope = jobs[k].scope /\ jobs[k].status # "absent"
        BY <2>1 DEF Inv, HeldFitsHistory
      <3>3. jobs[k].scope \in Scopes
        BY <1>1, <3>2, JobFields
      <3>4. calls[c].scope = None
        BY <1>1, CallFields
      <3>5. QED
        BY <3>1, <3>2, <3>3, <3>4, SetsAssumption
    <2>2. QED
      BY <1>1, <1>5, <2>1 DEF Inv, HeldFitsHistory, OthersSame
  <1>17. ReleasesEnded' /\ CompletingHasResult'
    BY <1>1, <1>2, <1>5 DEF Inv, TypeOK, ReleasesEnded, CompletingHasResult, OthersSame
  <1>18. (Prompt => LeaseCoversCall)'
    BY <1>1, <1>2, <1>5 DEF Inv, LeaseCoversCall, Owner, Current, OthersSame
  <1>19. QED
    BY <1>6, <1>7, <1>8, <1>9, <1>10, <1>11, <1>12, <1>13, <1>14, <1>15, <1>16, <1>17,
       <1>18
    DEF Inv

\* What a successful claim does, whether it inserts or reclaims and whether the
\* call gets the answer.
LeaseTaken(c) ==
    LET s == calls[c].scope IN
    /\ UNCHANGED <<jobs, held, releases, deleted>>
    /\ s \in Scopes /\ StoreTypeOK' /\ CallsTypeOK'
    /\ OtherRecordsSame(s) /\ OthersSame(c)
    /\ records[s].state = "pending" => records[s].lease = 0
    /\ records'[s].state = "pending"
    /\ records'[s].digest = calls[c].digest
    /\ records'[s].token = c
    /\ records'[s].lease = Lease
    /\ \/ records'[s].origin = c
       \/ records[s].state = "pending" /\ records'[s].origin = records[s].origin
    /\ calls[c].pc = "authorized"
    /\ calls'[c].pc \in {"claimed", "ended"}
    /\ calls'[c].scope = s
    /\ calls'[c].digest = calls[c].digest
    /\ calls'[c].origin \in {None, records'[s].origin}
    /\ calls'[c].pc = "claimed" =>
          /\ calls'[c].id = records'[s].id
          /\ calls'[c].origin = records'[s].origin
          /\ calls'[c].budget = calls[c].budget

\* Both claims take the lease in that way.
LEMMA ClaimsTakeLease ==
    ASSUME TypeOK, NEW c \in Calls, NEW seen \in BOOLEAN,
           ClaimNew(c, seen) \/ ClaimAbandoned(c, seen)
    PROVE  LeaseTaken(c)
  <1> DEFINE s == calls[c].scope
  <1>1. StoreTypeOK /\ calls[c].pc = "authorized"
    BY DEF TypeOK, ClaimNew, ClaimAbandoned, At
  <1>2. s \in Scopes /\ calls[c].digest \in Digests /\ calls[c].id \in Ids
    BY <1>1, CallFields
  <1>3. CASE ClaimNew(c, seen)
    <2>1. InsertClaim(s, calls[c].digest, calls[c].id, c)
          /\ Acquired(c, calls[c].id, c, seen) /\ UNCHANGED <<held, releases, deleted>>
      BY <1>3 DEF ClaimNew
    <2>2. /\ StoreTypeOK' /\ jobs' = jobs /\ OtherRecordsSame(s)
          /\ records[s].state = "pending" => records[s].lease = 0
          /\ records'[s].state = "pending"
          /\ records'[s].digest = calls[c].digest /\ records'[s].id = calls[c].id
          /\ records'[s].token = c /\ records'[s].origin = c
          /\ records'[s].lease = Lease
      BY <1>1, <1>2, <2>1, InsertEffect
    <2>3. CASE seen = TRUE
      BY <1>1, <1>2, <2>1, <2>2, <2>3, AcquiredEffect DEF LeaseTaken
    <2>4. CASE seen = FALSE
      <3>1. End(c)
        BY <2>1, <2>4 DEF Acquired
      <3>2. QED
        BY <1>1, <1>2, <2>1, <2>2, <3>1, EndEffect DEF LeaseTaken
    <2>5. QED
      BY <2>3, <2>4
  <1>4. CASE ClaimAbandoned(c, seen)
    <2>1. ReclaimClaim(s, calls[c].digest, c)
          /\ Acquired(c, records[s].id, records[s].origin, seen)
          /\ UNCHANGED <<held, releases, deleted>>
      BY <1>4 DEF ClaimAbandoned
    <2>2. /\ StoreTypeOK' /\ jobs' = jobs /\ OtherRecordsSame(s)
          /\ records[s].state = "pending" /\ records[s].lease = 0
          /\ records'[s].state = "pending"
          /\ records'[s].digest = calls[c].digest /\ records'[s].id = records[s].id
          /\ records'[s].token = c /\ records'[s].origin = records[s].origin
          /\ records'[s].lease = Lease
      BY <1>1, <1>2, <2>1, ReclaimEffect
    <2>3. records[s].id \in Ids /\ records[s].origin \in Calls
      BY <1>1, <1>2, <2>2, RecordFields
    <2>4. CASE seen = TRUE
      BY <1>1, <1>2, <2>1, <2>2, <2>3, <2>4, AcquiredEffect DEF LeaseTaken
    <2>5. CASE seen = FALSE
      <3>1. End(c)
        BY <2>1, <2>5 DEF Acquired
      <3>2. QED
        BY <1>1, <1>2, <2>1, <2>2, <3>1, EndEffect DEF LeaseTaken
    <2>6. QED
      BY <2>4, <2>5
  <1>5. QED
    BY <1>3, <1>4

\* A claim disturbs no one: the lease it takes was over, and nobody has been
\* told of an operation that this call creates.
LEMMA ClaimKeepsInv ==
    ASSUME Inv, NEW c \in Calls, LeaseTaken(c)
    PROVE  Inv'
  <1> USE DEF Guarded, Answered, Informed
  <1> DEFINE s == calls[c].scope
  <1>1. /\ TypeOK /\ StoreTypeOK /\ HeldTypeOK /\ calls[c].pc = "authorized"
        /\ s \in Scopes
        /\ jobs' = jobs /\ held' = held /\ releases' = releases /\ deleted' = deleted
    BY DEF Inv, TypeOK, LeaseTaken
  <1>2. TypeOK'
    BY <1>1 DEF LeaseTaken, TypeOK, HeldTypeOK
  <1>3. TokenFits'
    BY <1>1, RecordFields DEF Inv, TokenFits, LeaseTaken, OthersSame, OtherRecordsSame
  <1>4. JobTokenFits'
    BY <1>1, JobFields DEF Inv, JobTokenFits, LeaseTaken, OthersSame
  <1>5. RecordOriginFits'
    BY <1>1, RecordFields
    DEF Inv, RecordOriginFits, LeaseTaken, OthersSame, OtherRecordsSame
  <1>6. CallOriginFits'
    BY <1>1, CallFields, RecordFields, SetsAssumption
    DEF Inv, CallOriginFits, RecordOriginFits, LeaseTaken, OthersSame
  <1>7. RecordResultFits'
    BY <1>1, RecordFields
    DEF Inv, RecordResultFits, LeaseTaken, OthersSame, OtherRecordsSame
  <1>8. CallResultFits'
    <2>1. ASSUME NEW d \in Calls, calls'[d].pc \in Informed
          PROVE  /\ d # c /\ calls[d].pc \in Informed /\ calls'[d] = calls[d]
                 /\ calls[d].by \in Calls /\ calls[d].scope \in Scopes
                 /\ calls[d].origin # c
      <3>1. d # c /\ calls'[d] = calls[d]
        BY <2>1 DEF LeaseTaken, OthersSame
      <3>2. calls[d].origin # None /\ calls[d].by # None /\ calls[d].pc # "idle"
        BY <2>1, <3>1 DEF Inv, CallResultFits
      <3>3. QED
        BY <1>1, <2>1, <3>1, <3>2, CallFields DEF Inv, CallOriginFits
    <2>2. ASSUME NEW d \in Calls, calls'[d].pc \in Informed
          PROVE  /\ calls'[d].origin # None /\ calls'[d].by # None
                 /\ calls'[calls'[d].by].pc # "idle"
                 /\ calls'[calls'[d].by].scope = calls'[d].scope
                 /\ calls'[calls'[d].by].digest = calls'[d].digest
      BY <2>1, <2>2 DEF Inv, CallResultFits, LeaseTaken, OthersSame
    <2>3. ASSUME NEW d \in Calls, calls'[d].pc \in Informed,
                 records'[calls'[d].scope].state # "absent",
                 records'[calls'[d].scope].origin = calls'[d].origin
          PROVE  /\ records'[calls'[d].scope] = records[calls[d].scope]
                 /\ calls'[d] = calls[d] /\ calls[d].pc \in Informed
      BY <2>1, <2>3 DEF Inv, CallResultFits, LeaseTaken, OtherRecordsSame
    <2>4. QED
      BY <2>2, <2>3 DEF Inv, CallResultFits
  <1>9. ResultsAgree'
    BY <1>1 DEF Inv, ResultsAgree, LeaseTaken, OthersSame
  <1>10. CompletedTogether'
    BY <1>1 DEF Inv, CompletedTogether, LeaseTaken, OtherRecordsSame
  <1>11. JobsFollowLease'
    BY <1>1, JobFields
    DEF Inv, JobsFollowLease, Current, LeaseTaken, OtherRecordsSame
  <1>12. WorkerFits'
    BY <1>1 DEF Inv, WorkerFits, Owner, LeaseTaken, OthersSame
  <1>13. HeldFitsHistory'
    BY <1>1, HeldFields DEF Inv, HeldFitsHistory, LeaseTaken, OthersSame
  <1>14. ReleasesEnded' /\ CompletingHasResult'
    BY <1>1 DEF Inv, TypeOK, ReleasesEnded, CompletingHasResult, LeaseTaken, OthersSame
  <1>15. (Prompt => LeaseCoversCall)'
    <2>1. SUFFICES ASSUME Prompt, NEW d \in Calls,
                          calls'[d].pc \in {"claimed", "working", "completing"},
                          calls'[d].budget > 0,
                          OwnerOf[calls'[d].scope] \notin deleted
                   PROVE  /\ records'[calls'[d].scope].state = "pending"
                          /\ records'[calls'[d].scope].token = d
                          /\ records'[calls'[d].scope].lease >= calls'[d].budget
      BY <1>1 DEF LeaseCoversCall, Owner, Current
    <2>2. CASE d = c
      <3>1. calls[c].budget <= Lease
        BY CallFields, DurationsAssumption, <1>1
      <3>2. QED
        BY <2>1, <2>2, <3>1 DEF LeaseTaken
    <2>3. CASE d # c
      <3>1. /\ calls'[d] = calls[d]
            /\ Current(calls[d].scope, d)
            /\ records[calls[d].scope].lease >= calls[d].budget
        BY <1>1, <2>1, <2>3 DEF Inv, LeaseCoversCall, Owner, LeaseTaken, OthersSame
      <3>2. calls[d].scope # s /\ calls[d].scope \in Scopes
        BY <1>1, <2>1, <3>1, CallFields DEF LeaseTaken, Current
      <3>3. QED
        BY <3>1, <3>2 DEF LeaseTaken, OtherRecordsSame, Current
    <2>4. QED
      BY <2>2, <2>3
  <1>16. QED
    BY <1>2, <1>3, <1>4, <1>5, <1>6, <1>7, <1>8, <1>9, <1>10, <1>11, <1>12, <1>13,
       <1>14, <1>15
    DEF Inv

\* A replay is given the result of the record, which agrees with every result
\* given before.
LEMMA ReplayKeepsInv ==
    ASSUME Inv, NEW c \in Calls, ClaimCompleted(c)
    PROVE  Inv'
  <1> USE DEF Guarded, Answered, Informed
  <1> DEFINE s == calls[c].scope
             rec == records[s]
             r == [calls[c] EXCEPT !.pc = "replaying", !.id = rec.id,
                       !.origin = rec.origin, !.by = rec.by, !.storage = rec.storage]
  <1>1. /\ TypeOK /\ StoreTypeOK /\ HeldTypeOK /\ calls[c].pc = "authorized"
        /\ records' = records /\ jobs' = jobs /\ held' = held
        /\ releases' = releases /\ deleted' = deleted
        /\ calls' = [calls EXCEPT ![c] = r]
        /\ rec.state = "completed" /\ rec.digest = calls[c].digest
    BY DEF Inv, TypeOK, ClaimCompleted, At, Replayable
  <1>2. /\ calls[c] \in CallTypes /\ s \in Scopes
        /\ calls[c].digest \in Digests /\ calls[c].id \in Ids
    BY <1>1, CallFields
  <1>3. rec.id \in Ids /\ rec.origin \in Calls /\ rec.by \in Calls /\ rec.storage \in Storages
    BY <1>1, <1>2, RecordFields
  <1>4. /\ r.pc = "replaying" /\ r.scope = s /\ r.digest = calls[c].digest
        /\ r.id = rec.id /\ r.origin = rec.origin /\ r.by = rec.by
        /\ r.storage = rec.storage /\ r \in CallTypes
    BY <1>2, <1>3 DEF CallTypes, Places, Open
  <1> HIDE DEF r
  <1>5. calls'[c] = r /\ OthersSame(c) /\ (calls \in [Calls -> CallTypes])'
    BY <1>1, <1>4 DEF TypeOK, CallsTypeOK, OthersSame
  <1>6. TypeOK'
    BY <1>1, <1>2, <1>3, <1>4, <1>5, SetsAssumption
    DEF TypeOK, StoreTypeOK, HeldTypeOK, CallsTypeOK, OthersSame
  <1>7. TokenFits'
    BY <1>1, <1>4, <1>5, RecordFields DEF Inv, TokenFits, OthersSame
  <1>8. JobTokenFits'
    BY <1>1, <1>4, <1>5, JobFields DEF Inv, JobTokenFits, OthersSame
  <1>9. RecordOriginFits'
    BY <1>1, <1>4, <1>5, RecordFields DEF Inv, RecordOriginFits, OthersSame
  <1>10. CallOriginFits'
    BY <1>1, <1>2, <1>3, <1>4, <1>5, CallFields
    DEF Inv, CallOriginFits, RecordOriginFits, OthersSame
  <1>11. RecordResultFits'
    BY <1>1, <1>4, <1>5, RecordFields DEF Inv, RecordResultFits, OthersSame
  <1>12. CallResultFits'
    <2>1. ASSUME NEW d \in Calls, d # c, calls'[d].pc \in Informed
          PROVE  calls'[d] = calls[d] /\ calls[d].by \in Calls
      BY <1>1, <1>5, <2>1, CallFields DEF Inv, CallResultFits, OthersSame
    <2>2. rec.by # None /\ rec.origin # None
      BY <1>3, SetsAssumption
    <2>3. QED
      BY <1>1, <1>2, <1>3, <1>4, <1>5, <2>1, <2>2
      DEF Inv, CallResultFits, RecordResultFits, OthersSame
  <1>13. ResultsAgree'
    <2>1. ASSUME NEW d \in Calls, d # c, calls'[d].pc \in Informed,
                 calls'[d].origin = rec.origin
          PROVE  calls'[d] = calls[d] /\ rec.by = calls[d].by /\ rec.id = calls[d].id
                 /\ rec.storage = calls[d].storage
      <3>1. calls'[d] = calls[d]
        BY <1>5, <2>1 DEF OthersSame
      <3>2. calls[rec.origin].scope = s
        BY <1>1, <1>2 DEF Inv, RecordOriginFits
      <3>3. calls[rec.origin].scope = calls[d].scope
        BY <1>3, <2>1, <3>1, SetsAssumption DEF Inv, CallOriginFits
      <3>4. QED
        BY <1>1, <2>1, <3>1, <3>2, <3>3 DEF Inv, CallResultFits
    <2>2. QED
      BY <1>1, <1>4, <1>5, <2>1 DEF Inv, ResultsAgree, OthersSame
  <1>14. CompletedTogether' /\ JobsFollowLease'
    BY <1>1 DEF Inv, CompletedTogether, JobsFollowLease, Current
  <1>15. WorkerFits'
    BY <1>1, <1>4, <1>5 DEF Inv, WorkerFits, Owner, OthersSame
  <1>16. HeldFitsHistory'
    BY <1>1, <1>4, <1>5, HeldFields DEF Inv, HeldFitsHistory, OthersSame
  <1>17. ReleasesEnded' /\ CompletingHasResult'
    BY <1>1, <1>4, <1>5 DEF Inv, TypeOK, ReleasesEnded, CompletingHasResult, OthersSame
  <1>18. (Prompt => LeaseCoversCall)'
    BY <1>1, <1>4, <1>5 DEF Inv, LeaseCoversCall, Owner, Current, OthersSame
  <1>19. QED
    BY <1>6, <1>7, <1>8, <1>9, <1>10, <1>11, <1>12, <1>13, <1>14, <1>15, <1>16, <1>17,
       <1>18
    DEF Inv

\* A started history row fits the call and the record that started it.
LEMMA StartKeepsInv ==
    ASSUME Inv, NEW c \in Calls, Start(c)
    PROVE  Inv'
  <1> USE DEF Guarded, Answered, Informed
  <1> DEFINE s == calls[c].scope
             i == records[s].id
  <1>1. /\ TypeOK /\ StoreTypeOK /\ HeldTypeOK /\ calls[c].pc = "claimed"
        /\ held' = held /\ releases' = releases /\ deleted' = deleted
        /\ StartJob(s, c) /\ Move(c, "working")
    BY DEF Inv, TypeOK, Start, At
  <1>2. s \in Scopes /\ calls[c].pc # "idle" /\ "working" \in Places \ {"idle"}
    BY <1>1, CallFields DEF Places, Open
  <1>3. /\ CallsTypeOK' /\ OthersSame(c)
        /\ calls'[c].pc = "working" /\ calls'[c].scope = s
        /\ calls'[c].digest = calls[c].digest /\ calls'[c].id = calls[c].id
        /\ calls'[c].origin = calls[c].origin /\ calls'[c].budget = calls[c].budget
    BY <1>1, <1>2, MoveEffect
  <1>4. /\ StoreTypeOK' /\ records' = records /\ OtherJobsSame(i) /\ i \in Ids
        /\ Current(s, c) /\ MayStart(i, s, records[s].digest)
        /\ jobs'[i].status = "running" /\ jobs'[i].scope = s
        /\ jobs'[i].digest = records[s].digest /\ jobs'[i].token = c
        /\ jobs'[i].lease = records[s].lease
    BY <1>1, <1>2, StartEffect
  <1>5. calls[c].digest = records[s].digest /\ calls[c].id = i
        /\ calls[c].origin = records[s].origin
    BY <1>1, <1>2, <1>4 DEF Inv, TokenFits, Current
  <1> HIDE DEF i
  <1>6. TypeOK'
    BY <1>1, <1>3, <1>4 DEF TypeOK, HeldTypeOK
  <1>7. TokenFits'
    BY <1>1, <1>3, <1>4, RecordFields DEF Inv, TokenFits, OthersSame
  <1>8. JobTokenFits'
    BY <1>1, <1>3, <1>4, <1>5, JobFields DEF Inv, JobTokenFits, OthersSame, OtherJobsSame
  <1>9. RecordOriginFits' /\ RecordResultFits'
    BY <1>1, <1>3, <1>4, RecordFields DEF Inv, RecordOriginFits, RecordResultFits, OthersSame
  <1>10. CallOriginFits'
    BY <1>1, <1>3, CallFields DEF Inv, CallOriginFits, OthersSame
  <1>11. CallResultFits'
    BY <1>1, <1>3, <1>4, CallFields DEF Inv, CallResultFits, OthersSame
  <1>12. ResultsAgree'
    BY <1>1, <1>3 DEF Inv, ResultsAgree, OthersSame
  <1>13. CompletedTogether'
    BY <1>1, <1>4, RecordFields DEF Inv, CompletedTogether, MayStart, OtherJobsSame
  <1>14. JobsFollowLease'
    BY <1>1, <1>4 DEF Inv, JobsFollowLease, Current, OtherJobsSame, i
  <1>15. WorkerFits'
    <2>1. ASSUME NEW d \in Calls, calls'[d].pc = "working",
                 OwnerOf[calls'[d].scope] \notin deleted
          PROVE  /\ jobs'[calls'[d].id].status # "absent"
                 /\ jobs'[calls'[d].id].scope = calls'[d].scope
                 /\ jobs'[calls'[d].id].digest = calls'[d].digest
      <3>1. CASE d = c
        BY <1>3, <1>4, <1>5, <3>1
      <3>2. CASE d # c
        <4>1. /\ calls'[d] = calls[d] /\ calls[d].id \in Ids
              /\ jobs[calls[d].id].status # "absent"
              /\ jobs[calls[d].id].scope = calls[d].scope
              /\ jobs[calls[d].id].digest = calls[d].digest
          BY <1>1, <1>3, <2>1, <3>2, CallFields DEF Inv, WorkerFits, Owner, OthersSame
        <4>2. CASE calls[d].id = i
          BY <1>4, <4>1, <4>2 DEF MayStart
        <4>3. CASE calls[d].id # i
          BY <1>4, <4>1, <4>3 DEF OtherJobsSame
        <4>4. QED
          BY <4>2, <4>3
      <3>3. QED
        BY <3>1, <3>2
    <2>2. QED
      BY <1>1, <2>1 DEF WorkerFits, Owner
  <1>16. HeldFitsHistory'
    <2>1. ASSUME NEW k \in Ids, held[k].owner \notin deleted \cup {None}
          PROVE  /\ jobs'[k].status # "absent" /\ jobs'[k].scope = jobs[k].scope
                 /\ jobs'[k].digest = jobs[k].digest
      BY <1>4, <2>1 DEF Inv, HeldFitsHistory, MayStart, OtherJobsSame
    <2>2. QED
      BY <1>1, <1>3, <2>1, HeldFields DEF Inv, HeldFitsHistory, OthersSame
  <1>17. ReleasesEnded' /\ CompletingHasResult'
    BY <1>1, <1>3 DEF Inv, TypeOK, ReleasesEnded, CompletingHasResult, OthersSame
  <1>18. (Prompt => LeaseCoversCall)'
    BY <1>1, <1>3, <1>4 DEF Inv, LeaseCoversCall, Owner, Current, OthersSame
  <1>19. QED
    BY <1>6, <1>7, <1>8, <1>9, <1>10, <1>11, <1>12, <1>13, <1>14, <1>15, <1>16, <1>17,
       <1>18
    DEF Inv
\* What Complete does, whether or not the call gets the answer.
LEMMA CompletionStep ==
    ASSUME Inv, NEW c \in Calls, NEW seen \in BOOLEAN, Complete(c, seen)
    PROVE  LET s == calls[c].scope
               i == calls[c].id
           IN  /\ TypeOK' /\ held' = held /\ releases' = releases /\ deleted' = deleted
               /\ calls[c].pc = "completing" /\ s \in Scopes /\ i \in Ids
               /\ OtherRecordsSame(s) /\ OtherJobsSame(i) /\ OthersSame(c)
               /\ Current(s, c) /\ records[s].id = i /\ jobs[i].token = c
               /\ jobs[i].status \in {"running", "failed"}
               /\ jobs[i].scope = s /\ jobs[i].digest = calls[c].digest
               /\ records[s].digest = calls[c].digest
               /\ records[s].origin = calls[c].origin
               /\ records'[s].state = "completed"
               /\ records'[s].digest = calls[c].digest /\ records'[s].id = i
               /\ records'[s].origin = calls[c].origin
               /\ records'[s].by = c /\ records'[s].storage = calls[c].storage
               /\ jobs'[i].status = "completed" /\ jobs'[i].scope = s
               /\ jobs'[i].digest = calls[c].digest
               /\ calls'[c].pc \in {"fresh", "failing"}
               /\ calls'[c].scope = s /\ calls'[c].digest = calls[c].digest
               /\ calls'[c].id = i /\ calls'[c].origin = calls[c].origin
               /\ calls'[c].storage = calls[c].storage
               /\ calls'[c].pc = "fresh" => calls'[c].by = c
  <1> DEFINE s == calls[c].scope
             i == calls[c].id
  <1>1. /\ TypeOK /\ StoreTypeOK /\ HeldTypeOK /\ calls[c].pc = "completing"
        /\ held' = held /\ releases' = releases /\ deleted' = deleted
        /\ CompleteJob(s, i, c, calls[c].storage)
    BY DEF Inv, TypeOK, Complete, At
  <1>2. s \in Scopes /\ i \in Ids /\ calls[c].storage \in Storages
    BY <1>1, CallFields DEF Inv, CompletingHasResult
  <1>3. /\ StoreTypeOK' /\ OtherRecordsSame(s) /\ OtherJobsSame(i)
        /\ Current(s, c) /\ records[s].id = i /\ jobs[i].token = c
        /\ jobs[i].status \in {"running", "failed"}
        /\ records'[s].state = "completed"
        /\ records'[s].digest = records[s].digest /\ records'[s].id = i
        /\ records'[s].origin = records[s].origin
        /\ records'[s].by = c /\ records'[s].storage = calls[c].storage
        /\ jobs'[i].status = "completed" /\ jobs'[i].scope = jobs[i].scope
        /\ jobs'[i].digest = jobs[i].digest
    BY <1>1, <1>2, CompleteEffect
  <1>4. /\ jobs[i].scope = s /\ jobs[i].digest = calls[c].digest
    BY <1>2, <1>3 DEF Inv, JobTokenFits
  <1>5. records[s].digest = calls[c].digest /\ records[s].origin = calls[c].origin
    BY <1>1, <1>2, <1>3 DEF Inv, TokenFits, Current, Guarded
  <1>6. /\ CallsTypeOK' /\ OthersSame(c)
        /\ calls'[c].pc \in {"fresh", "failing"}
        /\ calls'[c].scope = s /\ calls'[c].digest = calls[c].digest
        /\ calls'[c].id = i /\ calls'[c].origin = calls[c].origin
        /\ calls'[c].storage = calls[c].storage
        /\ calls'[c].pc = "fresh" => calls'[c].by = c
    <2>1. CASE seen = TRUE
      <3>1. Succeed(c, "fresh", c) /\ "fresh" \in Answered /\ calls[c].pc # "idle"
        BY <1>1, <2>1 DEF Complete, Answered
      <3>2. QED
        BY <1>1, <3>1, SucceedEffect
    <2>2. CASE seen = FALSE
      <3>1. Move(c, "failing") /\ "failing" \in Places \ {"idle"} /\ calls[c].pc # "idle"
        BY <1>1, <2>2 DEF Complete, Places, Open, Guarded
      <3>2. QED
        BY <1>1, <3>1, MoveEffect
    <2>3. QED
      BY <2>1, <2>2
  <1>7. TypeOK'
    BY <1>1, <1>3, <1>6 DEF TypeOK, HeldTypeOK
  <1>8. QED
    BY <1>1, <1>2, <1>3, <1>4, <1>5, <1>6, <1>7
\* Completion: only the token's owner can complete, nobody has been given another
\* result of this operation, and no completed record shares the history row.
LEMMA CompleteKeepsInv ==
    ASSUME Inv, NEW c \in Calls, NEW seen \in BOOLEAN, Complete(c, seen)
    PROVE  Inv'
  <1> USE DEF Guarded, Answered, Informed
  <1> DEFINE s == calls[c].scope
             i == calls[c].id
  <1>1. /\ TypeOK' /\ held' = held /\ releases' = releases /\ deleted' = deleted
        /\ calls[c].pc = "completing" /\ s \in Scopes /\ i \in Ids
        /\ OtherRecordsSame(s) /\ OtherJobsSame(i) /\ OthersSame(c)
        /\ Current(s, c) /\ records[s].id = i /\ jobs[i].token = c
        /\ jobs[i].status \in {"running", "failed"}
        /\ jobs[i].scope = s /\ jobs[i].digest = calls[c].digest
        /\ records[s].digest = calls[c].digest
        /\ records[s].origin = calls[c].origin
    BY CompletionStep
  <1>2. /\ records'[s].state = "completed"
        /\ records'[s].digest = calls[c].digest /\ records'[s].id = i
        /\ records'[s].origin = calls[c].origin
        /\ records'[s].by = c /\ records'[s].storage = calls[c].storage
        /\ jobs'[i].status = "completed" /\ jobs'[i].scope = s
        /\ jobs'[i].digest = calls[c].digest
    BY CompletionStep
  <1>3. /\ calls'[c].pc \in {"fresh", "failing"}
        /\ calls'[c].scope = s /\ calls'[c].digest = calls[c].digest
        /\ calls'[c].id = i /\ calls'[c].origin = calls[c].origin
        /\ calls'[c].storage = calls[c].storage
        /\ calls'[c].pc = "fresh" => calls'[c].by = c
    BY CompletionStep
  <1>4. TypeOK /\ StoreTypeOK /\ HeldTypeOK /\ calls[c].origin \in Calls
    BY <1>1, RecordFields DEF Inv, TypeOK, Current
  \* Nobody has been given a result of this operation.
  <1>5. ASSUME NEW d \in Calls, calls[d].pc \in Informed
        PROVE  calls[d].origin # calls[c].origin /\ d # c
    <2>1. d # c /\ calls[d].origin # None
      BY <1>1, <1>5 DEF Inv, CallResultFits
    <2>2. SUFFICES ASSUME calls[d].origin = calls[c].origin
                   PROVE  FALSE
      BY <2>1
    <2>3. calls[d].scope = s
      BY <1>4, <2>1, <2>2, SetsAssumption DEF Inv, CallOriginFits
    <2>4. records[s].state = "completed"
      BY <1>1, <1>5, <2>2, <2>3 DEF Inv, CallResultFits, Current
    <2>5. QED
      BY <1>1, <2>4 DEF Current
  <1>6. TokenFits'
    <2>1. ASSUME NEW z \in Scopes, records'[z].state = "pending"
          PROVE  /\ z # s /\ records'[z] = records[z]
                 /\ records[z].token \in Calls \ {c}
      <3>1. z # s /\ records'[z] = records[z]
        BY <1>1, <1>2, <2>1 DEF OtherRecordsSame
      <3>2. QED
        BY <1>4, <2>1, <3>1, RecordFields DEF Inv, TokenFits
    <2>2. QED
      BY <1>1, <2>1 DEF Inv, TokenFits, OthersSame
  <1>7. JobTokenFits'
    BY <1>1, <1>2, <1>3, <1>4, JobFields DEF Inv, JobTokenFits, OthersSame, OtherJobsSame
  <1>8. RecordOriginFits'
    BY <1>1, <1>2, <1>3, <1>4, RecordFields
    DEF Inv, RecordOriginFits, OthersSame, OtherRecordsSame, Current
  <1>9. CallOriginFits'
    BY <1>1, <1>3, <1>4, CallFields DEF Inv, CallOriginFits, OthersSame
  <1>10. RecordResultFits'
    BY <1>1, <1>2, <1>3, <1>4, RecordFields
    DEF Inv, RecordResultFits, OthersSame, OtherRecordsSame
  <1>11. CallResultFits'
    <2>1. ASSUME NEW d \in Calls, d # c, calls'[d].pc \in Informed
          PROVE  /\ calls'[d] = calls[d] /\ calls[d].pc \in Informed
                 /\ calls[d].by \in Calls /\ calls[d].scope \in Scopes
                 /\ calls[d].origin # calls[c].origin
      BY <1>1, <1>4, <1>5, <2>1, CallFields DEF Inv, CallResultFits, OthersSame
    <2>2. ASSUME NEW d \in Calls, d # c, calls'[d].pc \in Informed
          PROVE  /\ calls'[d].origin # None /\ calls'[d].by # None
                 /\ calls'[calls'[d].by].pc # "idle"
                 /\ calls'[calls'[d].by].scope = calls'[d].scope
                 /\ calls'[calls'[d].by].digest = calls'[d].digest
      BY <1>1, <1>3, <2>1, <2>2 DEF Inv, CallResultFits, OthersSame
    <2>3. ASSUME NEW d \in Calls, d # c, calls'[d].pc \in Informed,
                 records'[calls'[d].scope].origin = calls'[d].origin
          PROVE  records'[calls'[d].scope] = records[calls[d].scope]
      BY <1>1, <1>2, <2>1, <2>3 DEF OtherRecordsSame
    <2>4. c # None /\ calls[c].origin # None
      BY <1>4, SetsAssumption
    <2>5. QED
      BY <1>2, <1>3, <2>1, <2>2, <2>3, <2>4 DEF Inv, CallResultFits
  <1>12. ResultsAgree'
    BY <1>1, <1>3, <1>5 DEF Inv, ResultsAgree, OthersSame
  <1>13. CompletedTogether'
    BY <1>1, <1>2, <1>4, RecordFields
    DEF Inv, CompletedTogether, OtherRecordsSame, OtherJobsSame
  <1>14. JobsFollowLease'
    <2>1. ASSUME NEW k \in Ids, jobs'[k].status = "running", jobs'[k].lease > 0
          PROVE  /\ jobs'[k] = jobs[k]
                 /\ records'[jobs[k].scope] = records[jobs[k].scope]
      <3>1. k # i /\ jobs'[k] = jobs[k]
        BY <1>1, <1>2, <2>1 DEF OtherJobsSame
      <3>2. jobs[k].scope # s /\ jobs[k].scope \in Scopes
        BY <1>1, <1>4, <2>1, <3>1, JobFields DEF Inv, JobsFollowLease
      <3>3. QED
        BY <1>1, <3>1, <3>2 DEF OtherRecordsSame
    <2>2. QED
      BY <2>1 DEF Inv, JobsFollowLease, Current
  <1>15. WorkerFits'
    <2>1. ASSUME NEW d \in Calls, calls'[d].pc = "working"
          PROVE  calls'[d] = calls[d] /\ calls[d].id \in Ids
      BY <1>1, <1>3, <1>4, <2>1, CallFields DEF OthersSame
    <2>2. \A k \in Ids : /\ jobs[k].status # "absent" => jobs'[k].status # "absent"
                         /\ jobs'[k].scope = jobs[k].scope
                         /\ jobs'[k].digest = jobs[k].digest
      BY <1>1, <1>2 DEF OtherJobsSame
    <2>3. QED
      BY <1>1, <2>1, <2>2 DEF Inv, WorkerFits, Owner
  <1>16. HeldFitsHistory'
    <2>1. ASSUME NEW k \in Ids, held[k].owner \notin deleted \cup {None}
          PROVE  /\ held[k].by \in Calls
                 /\ jobs'[k].status # "absent" /\ jobs'[k].scope = jobs[k].scope
                 /\ jobs'[k].digest = jobs[k].digest
      BY <1>1, <1>2, <1>4, <2>1, HeldFields DEF Inv, HeldFitsHistory, OtherJobsSame
    <2>2. QED
      BY <1>1, <1>3, <2>1 DEF Inv, HeldFitsHistory, OthersSame
  <1>17. ReleasesEnded' /\ CompletingHasResult'
    BY <1>1, <1>3, <1>4 DEF Inv, TypeOK, ReleasesEnded, CompletingHasResult, OthersSame
  <1>18. (Prompt => LeaseCoversCall)'
    <2>1. ASSUME Prompt, NEW d \in Calls,
                 calls'[d].pc \in {"claimed", "working", "completing"},
                 calls'[d].budget > 0, OwnerOf[calls'[d].scope] \notin deleted
          PROVE  /\ calls'[d] = calls[d]
                 /\ Current(calls[d].scope, d)
                 /\ records[calls[d].scope].lease >= calls[d].budget
                 /\ records'[calls[d].scope] = records[calls[d].scope]
      <3>1. d # c /\ calls'[d] = calls[d]
        BY <1>1, <1>3, <2>1 DEF OthersSame
      <3>2. /\ Current(calls[d].scope, d)
            /\ records[calls[d].scope].lease >= calls[d].budget
        BY <2>1, <3>1 DEF Inv, LeaseCoversCall, Owner
      <3>3. calls[d].scope # s /\ calls[d].scope \in Scopes
        BY <1>1, <1>4, <2>1, <3>1, <3>2, CallFields DEF Current
      <3>4. QED
        BY <1>1, <3>1, <3>2, <3>3 DEF OtherRecordsSame
    <2>2. QED
      BY <1>1, <2>1 DEF LeaseCoversCall, Owner, Current
  <1>19. QED
    BY <1>1, <1>6, <1>7, <1>8, <1>9, <1>10, <1>11, <1>12, <1>13, <1>14, <1>15, <1>16,
       <1>17, <1>18
    DEF Inv
\* What releases, recovery and time have in common: rows lose lease or retention,
\* running attempts may fail, calls may end; nothing else changes.
Faded ==
    /\ TypeOK' /\ deleted' = deleted
    /\ \A s \in Scopes : SameButLease(s)
    /\ \A i \in Ids : SameOrFailed(i)
    /\ \A i \in Ids : held'[i].owner = held[i].owner /\ held'[i].by = held[i].by
    /\ \A d \in Calls :
         /\ calls'[d].scope = calls[d].scope
         /\ calls'[d].digest = calls[d].digest
         /\ \/ /\ calls'[d].pc = calls[d].pc
               /\ calls'[d].id = calls[d].id
               /\ calls'[d].origin = calls[d].origin
               /\ calls'[d].by = calls[d].by
               /\ calls'[d].storage = calls[d].storage
            \/ /\ calls[d].pc \in Guarded /\ calls'[d].pc = "ended"
               /\ calls'[d].origin = None

\* Such a step keeps the invariant when it keeps the parts that speak of leases.
LEMMA FadedKeepsInv ==
    ASSUME Inv, Faded, JobsFollowLease', ReleasesEnded', (Prompt => LeaseCoversCall)'
    PROVE  Inv'
  <1> USE DEF Guarded, Answered, Informed
  <1>1. TypeOK /\ StoreTypeOK /\ HeldTypeOK /\ TypeOK' /\ deleted' = deleted
    BY DEF Inv, TypeOK, Faded
  <1>2. TokenFits'
    BY <1>1, RecordFields DEF Inv, TokenFits, Faded, SameButLease
  <1>3. JobTokenFits'
    <2>1. ASSUME NEW i \in Ids, jobs'[i].status \in {"running", "failed"}
          PROVE  /\ jobs[i].status \in {"running", "failed"} /\ jobs[i].token \in Calls
                 /\ jobs'[i].token = jobs[i].token /\ jobs'[i].scope = jobs[i].scope
                 /\ jobs'[i].digest = jobs[i].digest
      BY <1>1, <2>1, JobFields DEF Faded, SameOrFailed
    <2>2. QED
      BY <2>1 DEF Inv, JobTokenFits, Faded
  <1>4. RecordOriginFits' /\ RecordResultFits'
    BY <1>1, RecordFields DEF Inv, RecordOriginFits, RecordResultFits, Faded, SameButLease
  <1>5. CallOriginFits'
    <2>1. ASSUME NEW d \in Calls, calls'[d].origin # None
          PROVE  calls'[d].origin = calls[d].origin /\ calls[d].origin \in Calls
      BY <1>1, <2>1, CallFields DEF Faded
    <2>2. QED
      BY <2>1 DEF Inv, CallOriginFits, Faded
  <1>6. CallResultFits'
    <2>1. ASSUME NEW d \in Calls, calls'[d].pc \in Informed
          PROVE  /\ calls[d].pc \in Informed /\ calls[d].by \in Calls
                 /\ calls[d].scope \in Scopes
                 /\ calls'[d].scope = calls[d].scope /\ calls'[d].digest = calls[d].digest
                 /\ calls'[d].id = calls[d].id /\ calls'[d].origin = calls[d].origin
                 /\ calls'[d].by = calls[d].by /\ calls'[d].storage = calls[d].storage
      <3>1. /\ calls[d].pc \in Informed
            /\ calls'[d].scope = calls[d].scope /\ calls'[d].digest = calls[d].digest
            /\ calls'[d].id = calls[d].id /\ calls'[d].origin = calls[d].origin
            /\ calls'[d].by = calls[d].by /\ calls'[d].storage = calls[d].storage
        BY <2>1 DEF Faded
      <3>2. calls[d].by # None
        BY <3>1 DEF Inv, CallResultFits
      <3>3. QED
        BY <1>1, <3>1, <3>2, CallFields
    <2>2. QED
      BY <2>1 DEF Inv, CallResultFits, Faded, SameButLease
  <1>7. ResultsAgree'
    BY DEF Inv, ResultsAgree, Faded
  <1>8. CompletedTogether'
    BY <1>1, RecordFields DEF Inv, CompletedTogether, Faded, SameButLease, SameOrFailed
  <1>9. WorkerFits'
    <2>1. ASSUME NEW d \in Calls, calls'[d].pc = "working"
          PROVE  /\ calls[d].pc = "working" /\ calls[d].id \in Ids
                 /\ calls'[d].scope = calls[d].scope /\ calls'[d].digest = calls[d].digest
                 /\ calls'[d].id = calls[d].id
      BY <1>1, <2>1, CallFields DEF Faded
    <2>2. \A k \in Ids : /\ jobs[k].status # "absent" => jobs'[k].status # "absent"
                         /\ jobs'[k].scope = jobs[k].scope
                         /\ jobs'[k].digest = jobs[k].digest
      BY DEF Faded, SameOrFailed
    <2>3. QED
      BY <1>1, <2>1, <2>2 DEF Inv, WorkerFits, Owner
  <1>10. HeldFitsHistory'
    <2>1. ASSUME NEW k \in Ids, held'[k].owner \notin deleted \cup {None}
          PROVE  /\ held[k].by \in Calls /\ held'[k].by = held[k].by
                 /\ held'[k].owner = held[k].owner /\ jobs[k].status # "absent"
      BY <1>1, <2>1, HeldFields DEF Inv, HeldFitsHistory, Faded
    <2>2. QED
      BY <1>1, <2>1 DEF Inv, HeldFitsHistory, Faded, SameOrFailed
  <1>11. CompletingHasResult'
    BY DEF Inv, CompletingHasResult, Faded
  <1>12. QED
    BY <1>1, <1>2, <1>3, <1>4, <1>5, <1>6, <1>7, <1>8, <1>9, <1>10, <1>11 DEF Inv

\* A release by a call that no longer works: it ends no lease but its own.
LEMMA ReleaseKeepsInv ==
    ASSUME Inv, NEW c \in Calls, Fail(c) \/ DetachedRelease(c)
    PROVE  Inv'
  <1> USE DEF Guarded
  <1> DEFINE s == calls[c].scope
  <1>1. /\ TypeOK /\ StoreTypeOK /\ HeldTypeOK
        /\ held' = held /\ deleted' = deleted
        /\ releases' \subseteq releases
        /\ ReleaseLease(s, c) \/ UNCHANGED storeVars
        /\ calls[c].pc \in {"failing", "ended"}
    BY DEF Inv, TypeOK, Fail, DetachedRelease, At, ReleasesEnded
  <1>2. s \in Scopes
    BY <1>1, CallFields
  <1>3. /\ CallsTypeOK' /\ OthersSame(c) /\ calls'[c].pc = "ended"
        /\ calls'[c].scope = s /\ calls'[c].digest = calls[c].digest
        /\ \/ calls[c].pc = "failing" /\ calls'[c].origin = None
           \/ calls'[c] = calls[c]
    <2>1. CASE Fail(c)
      BY <1>1, <2>1, EndEffect DEF Fail, At
    <2>2. CASE DetachedRelease(c)
      BY <1>1, <2>2 DEF DetachedRelease, TypeOK, CallsTypeOK, OthersSame, Inv, ReleasesEnded
    <2>3. QED
      BY <2>1, <2>2
  <1>4. /\ StoreTypeOK' /\ OtherRecordsSame(s) /\ SameButLease(s)
        /\ records'[s] = records[s] \/ (Current(s, c) /\ records'[s].lease = 0)
        /\ \A k \in Ids : SameOrFailed(k)
        /\ \A k \in Ids : jobs'[k].status = "running" =>
             /\ jobs'[k] = jobs[k]
             /\ \/ records'[s] = records[s]
                \/ k # records[s].id
                \/ jobs[k].token # c
    BY <1>1, <1>2, ReleaseEffect
  <1>5. TypeOK'
    BY <1>1, <1>3, <1>4 DEF TypeOK, HeldTypeOK
  <1>6. Faded
    BY <1>1, <1>3, <1>4, <1>5 DEF Faded, OthersSame, OtherRecordsSame, SameButLease
  <1>7. JobsFollowLease'
    <2>1. ASSUME NEW k \in Ids, jobs'[k].status = "running", jobs'[k].lease > 0
          PROVE  jobs'[k] = jobs[k] /\ records'[jobs[k].scope] = records[jobs[k].scope]
      <3>1. /\ jobs'[k] = jobs[k] /\ Current(jobs[k].scope, jobs[k].token)
            /\ records[jobs[k].scope].id = k /\ jobs[k].scope \in Scopes
        BY <1>1, <1>4, <2>1, JobFields DEF Inv, JobsFollowLease
      <3>2. CASE jobs[k].scope = s
        BY <1>4, <2>1, <3>1, <3>2 DEF Current
      <3>3. CASE jobs[k].scope # s
        BY <1>4, <3>1, <3>3 DEF OtherRecordsSame
      <3>4. QED
        BY <3>1, <3>2, <3>3
    <2>2. QED
      BY <2>1 DEF Inv, JobsFollowLease, Current
  <1>8. ReleasesEnded'
    BY <1>1, <1>3 DEF Inv, TypeOK, ReleasesEnded, OthersSame
  <1>9. (Prompt => LeaseCoversCall)'
    <2>1. ASSUME Prompt, NEW d \in Calls,
                 calls'[d].pc \in {"claimed", "working", "completing"},
                 calls'[d].budget > 0, OwnerOf[calls'[d].scope] \notin deleted
          PROVE  /\ calls'[d] = calls[d]
                 /\ Current(calls[d].scope, d)
                 /\ records[calls[d].scope].lease >= calls[d].budget
                 /\ records'[calls[d].scope] = records[calls[d].scope]
      <3>1. d # c /\ calls'[d] = calls[d]
        BY <1>3, <2>1 DEF OthersSame
      <3>2. /\ Current(calls[d].scope, d)
            /\ records[calls[d].scope].lease >= calls[d].budget
        BY <2>1, <3>1 DEF Inv, LeaseCoversCall, Owner
      <3>3. calls[d].scope \in Scopes
        BY <1>1, <2>1, <3>1, CallFields
      <3>4. QED
        BY <1>4, <3>1, <3>2, <3>3 DEF OtherRecordsSame, Current
    <2>2. QED
      BY <1>1, <2>1 DEF LeaseCoversCall, Owner, Current
  <1>10. QED
    BY <1>6, <1>7, <1>8, <1>9, FadedKeepsInv

\* Recovery fails no attempt whose lease is live.
LEMMA RecoverKeepsInv ==
    ASSUME Inv, Recover
    PROVE  Inv'
  <1>1. /\ TypeOK /\ StoreTypeOK /\ HeldTypeOK /\ RecoverExpiredJobs
        /\ held' = held /\ calls' = calls /\ releases' = releases /\ deleted' = deleted
    BY DEF Inv, TypeOK, Recover
  <1>2. /\ StoreTypeOK' /\ records' = records
        /\ \A k \in Ids : SameOrFailed(k)
        /\ \A k \in Ids : jobs'[k].status = "running" => jobs'[k] = jobs[k]
    BY <1>1, RecoverEffect
  <1>3. TypeOK'
    BY <1>1, <1>2 DEF TypeOK, HeldTypeOK, CallsTypeOK
  <1>4. Faded
    BY <1>1, <1>2, <1>3 DEF Faded, SameButLease
  <1>5. JobsFollowLease'
    BY <1>2 DEF Inv, JobsFollowLease, Current
  <1>6. ReleasesEnded' /\ (Prompt => LeaseCoversCall)'
    BY <1>1, <1>2 DEF Inv, ReleasesEnded, LeaseCoversCall, Owner, Current
  <1>7. QED
    BY <1>4, <1>5, <1>6, FadedKeepsInv

\* Time shortens a lease and the budget of the call that owns it alike.
LEMMA TickKeepsInv ==
    ASSUME Inv, Tick
    PROVE  Inv'
  <1>1. /\ TypeOK /\ StoreTypeOK /\ HeldTypeOK /\ CallsTypeOK /\ AgeStore /\ AgeAudio
        /\ calls' = [c \in Calls |-> [calls[c] EXCEPT !.budget = Elapse(@)]]
        /\ releases' = releases /\ deleted' = deleted
    BY DEF Inv, TypeOK, Tick
  <1>2. /\ StoreTypeOK'
        /\ \A s \in Scopes : /\ SameButLease(s)
                             /\ records[s].state # "absent" =>
                                   records'[s].lease = Elapse(records[s].lease)
        /\ \A i \in Ids : /\ SameOrFailed(i)
                          /\ jobs'[i].status = jobs[i].status
                          /\ jobs'[i].lease = Elapse(jobs[i].lease)
    BY <1>1, AgeEffect
  <1>3. ASSUME NEW i \in Ids
        PROVE  /\ held'[i] \in {NoAudio} \cup HeldRows
               /\ held'[i].owner = held[i].owner /\ held'[i].by = held[i].by
    <2>1. held'[i] = [held[i] EXCEPT !.ttl = Elapse(@)]
      BY <1>1 DEF AgeAudio
    <2>2. CASE held[i] = NoAudio
      <3>1. held'[i] = NoAudio
        BY <2>1, <2>2 DEF NoAudio, Elapse
      <3>2. QED
        BY <2>2, <3>1
    <2>3. CASE held[i] \in HeldRows
      <3>1. Elapse(held[i].ttl) \in 0 .. Ttl
        BY <2>3, ElapseInRange, DurationsAssumption DEF HeldRows
      <3>2. QED
        BY <2>1, <2>3, <3>1 DEF HeldRows
    <2>4. QED
      BY <1>1, <2>2, <2>3 DEF HeldTypeOK
  <1>4. ASSUME NEW d \in Calls
        PROVE  /\ calls'[d] \in CallTypes
               /\ calls'[d].pc = calls[d].pc
               /\ calls'[d].scope = calls[d].scope /\ calls'[d].digest = calls[d].digest
               /\ calls'[d].id = calls[d].id /\ calls'[d].origin = calls[d].origin
               /\ calls'[d].by = calls[d].by /\ calls'[d].storage = calls[d].storage
               /\ calls'[d].budget = Elapse(calls[d].budget)
    <2>1. calls'[d] = [calls[d] EXCEPT !.budget = Elapse(@)] /\ calls[d] \in CallTypes
      BY <1>1, CallFields
    <2>2. Elapse(calls[d].budget) \in 0 .. Deadline
      BY <1>1, CallFields, ElapseInRange, DurationsAssumption
    <2>3. QED
      BY <2>1, <2>2 DEF CallTypes
  <1>5. HeldTypeOK'
    BY <1>1, <1>3 DEF HeldTypeOK, AgeAudio
  <1>6. CallsTypeOK'
    BY <1>1, <1>4 DEF CallsTypeOK
  <1>7. TypeOK'
    BY <1>1, <1>2, <1>5, <1>6 DEF TypeOK
  <1>8. Faded
    BY <1>1, <1>2, <1>3, <1>4, <1>7 DEF Faded
  <1>9. JobsFollowLease'
    <2>1. ASSUME NEW k \in Ids, jobs'[k].status = "running", jobs'[k].lease > 0
          PROVE  /\ jobs[k].status = "running" /\ jobs[k].lease > 0
                 /\ jobs[k].scope \in Scopes
      BY <1>1, <1>2, <2>1, JobFields DEF Elapse
    <2>2. QED
      BY <1>2, <2>1 DEF Inv, JobsFollowLease, Current, SameButLease, SameOrFailed
  <1>10. ReleasesEnded'
    BY <1>1, <1>4 DEF Inv, TypeOK, ReleasesEnded
  <1>11. (Prompt => LeaseCoversCall)'
    <2>1. ASSUME Prompt, NEW d \in Calls,
                 calls'[d].pc \in {"claimed", "working", "completing"},
                 calls'[d].budget > 0, OwnerOf[calls'[d].scope] \notin deleted
          PROVE  /\ records'[calls'[d].scope].state = "pending"
                 /\ records'[calls'[d].scope].token = d
                 /\ records'[calls'[d].scope].lease >= calls'[d].budget
      <3>1. calls[d].budget \in Nat /\ calls[d].budget > 0
            /\ calls'[d].budget = calls[d].budget - 1
        BY <1>1, <1>4, <2>1, CallFields, DurationsAssumption DEF Elapse
      <3>2. /\ Current(calls[d].scope, d)
            /\ records[calls[d].scope].lease >= calls[d].budget
            /\ calls[d].scope \in Scopes
        BY <1>1, <1>4, <2>1, <3>1, CallFields DEF Inv, LeaseCoversCall, Owner
      <3>3. records[calls[d].scope].lease \in Nat
        BY <1>1, <3>2, RecordFields, DurationsAssumption DEF Current
      <3>4. records'[calls[d].scope].lease = records[calls[d].scope].lease - 1
        BY <1>2, <3>1, <3>2, <3>3 DEF Elapse, Current
      <3>5. QED
        BY <1>2, <1>4, <3>1, <3>2, <3>3, <3>4 DEF Current, SameButLease
    <2>2. QED
      BY <1>1, <2>1 DEF LeaseCoversCall, Owner, Current
  <1>12. QED
    BY <1>8, <1>9, <1>10, <1>11, FadedKeepsInv
\* What cleanup and account deletion have in common: rows disappear.  A history
\* row goes only with its account and its record; a record only when it is
\* purgeable, or with its account and its history.
Removed ==
    /\ TypeOK' /\ calls' = calls /\ releases' = releases
    /\ deleted \subseteq deleted'
    /\ \A s \in Scopes :
         \/ records'[s] = records[s]
         \/ records'[s] = NoRecord /\ Purgeable(records[s])
         \/ /\ records'[s] = NoRecord /\ OwnerOf[s] \in deleted'
            /\ \A i \in Ids : jobs[i].status # "absent" /\ jobs[i].scope = s =>
                                 jobs'[i] = NoJob
    /\ \A i \in Ids :
         \/ jobs'[i] = jobs[i]
         \/ /\ jobs'[i] = NoJob /\ jobs[i].status # "absent"
            /\ OwnerOf[jobs[i].scope] \in deleted'
            /\ records'[jobs[i].scope] = NoRecord
    /\ \A i \in Ids : held'[i] \in {held[i], NoAudio}

\* Rows that disappear in that way take nothing with them that others rely on.
LEMMA RemovedKeepsInv ==
    ASSUME Inv, Removed
    PROVE  Inv'
  <1>1. /\ TypeOK /\ StoreTypeOK /\ HeldTypeOK /\ TypeOK'
        /\ calls' = calls /\ releases' = releases /\ deleted \subseteq deleted'
    BY DEF Inv, TypeOK, Removed
  <1>2. NoRecord.state = "absent" /\ NoJob.status = "absent" /\ NoAudio.owner = None
    BY DEF NoRecord, NoJob, NoAudio
  <1>3. ASSUME NEW s \in Scopes, records'[s].state # "absent"
        PROVE  records'[s] = records[s]
    BY <1>2, <1>3 DEF Removed
  <1>4. ASSUME NEW i \in Ids, jobs'[i].status # "absent"
        PROVE  jobs'[i] = jobs[i]
    BY <1>2, <1>4 DEF Removed
  <1>5. TokenFits' /\ RecordOriginFits' /\ RecordResultFits'
    BY <1>1, <1>3 DEF Inv, TokenFits, RecordOriginFits, RecordResultFits
  <1>6. JobTokenFits'
    BY <1>1, <1>4 DEF Inv, JobTokenFits
  <1>7. CallOriginFits' /\ ResultsAgree' /\ ReleasesEnded' /\ CompletingHasResult'
    BY <1>1 DEF Inv, CallOriginFits, ResultsAgree, ReleasesEnded, CompletingHasResult
  <1>8. CallResultFits'
    BY <1>1, <1>3, CallFields DEF Inv, CallResultFits, Informed, Answered
  <1>9. CompletedTogether'
    <2>1. ASSUME NEW s \in Scopes, records'[s].state = "completed"
          PROVE  records'[s] = records[s] /\ jobs'[records[s].id] = jobs[records[s].id]
      <3>1. records'[s] = records[s]
        BY <1>3, <2>1
      <3>2. records[s].id \in Ids /\ jobs[records[s].id].scope = s
        BY <1>1, <2>1, <3>1, RecordFields DEF Inv, CompletedTogether
      <3>3. QED
        BY <1>2, <2>1, <3>1, <3>2 DEF Removed
    <2>2. QED
      BY <2>1 DEF Inv, CompletedTogether
  <1>10. JobsFollowLease'
    <2>1. ASSUME NEW i \in Ids, jobs'[i].status = "running", jobs'[i].lease > 0
          PROVE  jobs'[i] = jobs[i] /\ records'[jobs[i].scope] = records[jobs[i].scope]
      <3>1. jobs'[i] = jobs[i] /\ jobs[i].scope \in Scopes
        BY <1>1, <1>4, <2>1, JobFields
      <3>2. /\ records[jobs[i].scope].state = "pending"
            /\ records[jobs[i].scope].lease = jobs[i].lease
        BY <2>1, <3>1 DEF Inv, JobsFollowLease, Current
      <3>3. ~Purgeable(records[jobs[i].scope])
        BY <2>1, <3>1, <3>2 DEF Purgeable
      <3>4. QED
        BY <1>2, <2>1, <3>1, <3>3 DEF Removed
    <2>2. QED
      BY <2>1 DEF Inv, JobsFollowLease, Current
  <1>11. WorkerFits'
    <2>1. ASSUME NEW d \in Calls, calls[d].pc = "working", Owner(d) \notin deleted'
          PROVE  /\ jobs'[calls[d].id] = jobs[calls[d].id]
                 /\ jobs[calls[d].id].status # "absent"
                 /\ jobs[calls[d].id].scope = calls[d].scope
                 /\ jobs[calls[d].id].digest = calls[d].digest
      <3>1. /\ jobs[calls[d].id].status # "absent" /\ calls[d].id \in Ids
            /\ jobs[calls[d].id].scope = calls[d].scope
            /\ jobs[calls[d].id].digest = calls[d].digest
        BY <1>1, <2>1, CallFields DEF Inv, WorkerFits
      <3>2. QED
        BY <2>1, <3>1 DEF Removed, Owner
    <2>2. QED
      BY <1>1, <2>1 DEF WorkerFits, Owner
  <1>12. HeldFitsHistory'
    <2>1. ASSUME NEW i \in Ids, held'[i].owner \notin deleted' \cup {None}
          PROVE  /\ held'[i] = held[i] /\ held[i].owner \notin deleted \cup {None}
                 /\ jobs'[i] = jobs[i]
      <3>1. held'[i] = held[i] /\ held[i].owner \notin deleted \cup {None}
        BY <1>1, <1>2, <2>1 DEF Removed
      <3>2. OwnerOf[jobs[i].scope] = held[i].owner
        BY <3>1 DEF Inv, HeldFitsHistory
      <3>3. QED
        BY <2>1, <3>1, <3>2 DEF Removed
    <2>2. QED
      BY <1>1, <2>1 DEF Inv, HeldFitsHistory
  <1>13. (Prompt => LeaseCoversCall)'
    <2>1. ASSUME Prompt, NEW d \in Calls,
                 calls[d].pc \in {"claimed", "working", "completing"},
                 calls[d].budget > 0, OwnerOf[calls[d].scope] \notin deleted'
          PROVE  /\ Current(calls[d].scope, d)
                 /\ records[calls[d].scope].lease >= calls[d].budget
                 /\ records'[calls[d].scope] = records[calls[d].scope]
      <3>1. /\ Current(calls[d].scope, d) /\ calls[d].scope \in Scopes
            /\ records[calls[d].scope].lease >= calls[d].budget
            /\ calls[d].budget \in Nat
        BY <1>1, <2>1, CallFields, DurationsAssumption DEF Inv, LeaseCoversCall, Owner
      <3>2. ~Purgeable(records[calls[d].scope])
        BY <2>1, <3>1 DEF Purgeable, Current
      <3>3. QED
        BY <2>1, <3>1, <3>2 DEF Removed
    <2>2. QED
      BY <1>1, <2>1 DEF LeaseCoversCall, Owner, Current
  <1>14. QED
    BY <1>1, <1>5, <1>6, <1>7, <1>8, <1>9, <1>10, <1>11, <1>12, <1>13 DEF Inv

\* Cleanup deletes in that way.
LEMMA CleanupKeepsInv ==
    ASSUME Inv, CleanRecords \/ CleanAudio
    PROVE  Inv'
  <1>1. TypeOK /\ StoreTypeOK /\ HeldTypeOK
    BY DEF Inv, TypeOK
  <1>2. CASE CleanRecords
    <2>1. PICK batch \in SUBSET Scopes : DeleteExpiredRecords(batch)
      BY <1>2 DEF CleanRecords
    <2>2. /\ jobs' = jobs /\ held' = held /\ calls' = calls /\ releases' = releases
          /\ deleted' = deleted
          /\ records' = [s \in Scopes |-> IF s \in batch THEN NoRecord ELSE records[s]]
          /\ \A s \in batch : Purgeable(records[s])
      BY <1>2, <2>1 DEF CleanRecords, DeleteExpiredRecords
    <2>3. TypeOK'
      BY <1>1, <2>2 DEF TypeOK, StoreTypeOK, HeldTypeOK, CallsTypeOK
    <2>4. Removed
      BY <2>2, <2>3 DEF Removed
    <2>5. QED
      BY <2>4, RemovedKeepsInv
  <1>3. CASE CleanAudio
    <2>1. PICK batch \in SUBSET Ids : DeleteExpiredAudio(batch)
      BY <1>3 DEF CleanAudio
    <2>2. /\ records' = records /\ jobs' = jobs /\ calls' = calls /\ releases' = releases
          /\ deleted' = deleted
          /\ held' = [i \in Ids |-> IF i \in batch THEN NoAudio ELSE held[i]]
      BY <1>3, <2>1 DEF CleanAudio, DeleteExpiredAudio
    <2>3. TypeOK'
      BY <1>1, <2>2 DEF TypeOK, StoreTypeOK, HeldTypeOK, CallsTypeOK
    <2>4. Removed
      BY <2>2, <2>3 DEF Removed
    <2>5. QED
      BY <2>4, RemovedKeepsInv
  <1>4. QED
    BY <1>2, <1>3

\* So does account deletion.
LEMMA PurgeKeepsInv ==
    ASSUME Inv, NEW a \in Accounts, PurgeAccount(a)
    PROVE  Inv'
  <1>1. TypeOK /\ StoreTypeOK /\ HeldTypeOK
    BY DEF Inv, TypeOK
  <1>2. /\ calls' = calls /\ releases' = releases /\ deleted' = deleted \cup {a}
        /\ records' = [s \in Scopes |-> IF OwnerOf[s] = a THEN NoRecord ELSE records[s]]
        /\ jobs' = [i \in Ids |-> IF jobs[i].status # "absent" /\ OwnerOf[jobs[i].scope] = a
                                  THEN NoJob ELSE jobs[i]]
        /\ held' = [i \in Ids |-> IF held[i].owner = a THEN NoAudio ELSE held[i]]
    BY DEF PurgeAccount, DeleteAccountRows, DeleteAccountAudio
  <1>3. TypeOK'
    BY <1>1, <1>2 DEF TypeOK, StoreTypeOK, HeldTypeOK, CallsTypeOK
  <1>4. ASSUME NEW s \in Scopes
        PROVE  \/ records'[s] = records[s]
               \/ /\ records'[s] = NoRecord /\ OwnerOf[s] \in deleted'
                  /\ \A i \in Ids : jobs[i].status # "absent" /\ jobs[i].scope = s =>
                                       jobs'[i] = NoJob
    BY <1>2
  <1>5. ASSUME NEW i \in Ids
        PROVE  \/ jobs'[i] = jobs[i]
               \/ /\ jobs'[i] = NoJob /\ jobs[i].status # "absent"
                  /\ OwnerOf[jobs[i].scope] \in deleted'
                  /\ records'[jobs[i].scope] = NoRecord
    <2>1. jobs[i].status # "absent" => jobs[i].scope \in Scopes
      BY <1>1, JobFields
    <2>2. QED
      BY <1>2, <2>1
  <1>6. Removed
    BY <1>2, <1>3, <1>4, <1>5 DEF Removed
  <1>7. QED
    BY <1>6, RemovedKeepsInv
-----------------------------------------------------------------------------
(***************************************************************************)
(* The invariant, and the properties it implies                            *)
(***************************************************************************)

\* Initially every table is empty and no call has arrived.
LEMMA InitInv ==
    ASSUME Init
    PROVE  Inv
  <1>1. /\ records = [s \in Scopes |-> NoRecord] /\ jobs = [i \in Ids |-> NoJob]
        /\ held = [i \in Ids |-> NoAudio] /\ calls = [c \in Calls |-> Idle]
        /\ releases = {} /\ deleted = {}
    BY DEF Init, StoreInit, HeldInit
  <1>2. /\ NoRecord.state = "absent" /\ NoJob.status = "absent" /\ NoAudio.owner = None
        /\ Idle.pc = "idle" /\ Idle.scope = None /\ Idle.origin = None
    BY DEF NoRecord, NoJob, NoAudio, Idle
  <1>3. Idle \in CallTypes
    BY DurationsAssumption DEF Idle, CallTypes, Places
  <1>4. TypeOK
    BY <1>1, <1>2, <1>3 DEF TypeOK, StoreTypeOK, HeldTypeOK, CallsTypeOK
  <1>5. TokenFits /\ JobTokenFits /\ RecordOriginFits /\ CallOriginFits /\ RecordResultFits
    BY <1>1, <1>2 DEF TokenFits, JobTokenFits, RecordOriginFits, CallOriginFits, RecordResultFits
  <1>6. CallResultFits /\ ResultsAgree /\ WorkerFits /\ LeaseCoversCall
        /\ CompletingHasResult /\ ReleasesEnded
    BY <1>1, <1>2
    DEF CallResultFits, ResultsAgree, WorkerFits, LeaseCoversCall, CompletingHasResult,
        ReleasesEnded, Informed, Answered
  <1>7. CompletedTogether /\ JobsFollowLease /\ HeldFitsHistory
    BY <1>1, <1>2 DEF CompletedTogether, JobsFollowLease, HeldFitsHistory
  <1>8. QED
    BY <1>4, <1>5, <1>6, <1>7 DEF Inv

\* Every step of a call keeps the invariant.
LEMMA CallStepKeepsInv ==
    ASSUME Inv, NEW c \in Calls, CallStep(c)
    PROVE  Inv'
  <1>1. TypeOK
    BY DEF Inv
  <1>2. CASE \E s \in Scopes, d \in Digests, i \in Ids : Authorize(c, s, d, i)
    BY <1>2, AuthorizeKeepsInv
  <1>3. CASE \E seen \in BOOLEAN : ClaimNew(c, seen) \/ ClaimAbandoned(c, seen)
    BY <1>1, <1>3, ClaimsTakeLease, ClaimKeepsInv
  <1>4. CASE ClaimCompleted(c)
    BY <1>4, ReplayKeepsInv
  <1>5. CASE \/ ClaimRefused(c) \/ Replay(c) \/ ResolveVoiceFails(c) \/ ExecuteFails(c)
             \/ Deliver(c) \/ CompleteFails(c) \/ Interrupt(c) \/ Crash(c)
    BY <1>1, <1>5, QuietSteps, QuietKeepsInv
  <1>6. CASE Start(c)
    BY <1>6, StartKeepsInv
  <1>7. CASE \E seen \in BOOLEAN : HoldAudio(c, seen)
    BY <1>1, <1>7, HoldIsQuiet, QuietKeepsInv
  <1>8. CASE \E seen \in BOOLEAN : Complete(c, seen)
    BY <1>8, CompleteKeepsInv
  <1>9. CASE Fail(c) \/ DetachedRelease(c)
    BY <1>9, ReleaseKeepsInv
  <1>10. QED
    BY <1>2, <1>3, <1>4, <1>5, <1>6, <1>7, <1>8, <1>9 DEF CallStep

\* The inductive step.
LEMMA NextKeepsInv ==
    ASSUME Inv, [Next]_vars
    PROVE  Inv'
  <1>1. CASE \E c \in Calls : CallStep(c)
    BY <1>1, CallStepKeepsInv
  <1>2. CASE Recover
    BY <1>2, RecoverKeepsInv
  <1>3. CASE CleanRecords \/ CleanAudio
    BY <1>3, CleanupKeepsInv
  <1>4. CASE \E a \in Accounts : PurgeAccount(a)
    BY <1>4, PurgeKeepsInv
  <1>5. CASE Tick
    BY <1>5, TickKeepsInv
  <1>6. CASE UNCHANGED vars
    <2>1. /\ records' = records /\ jobs' = jobs /\ held' = held /\ calls' = calls
          /\ releases' = releases /\ deleted' = deleted
      BY <1>6 DEF vars
    <2>2. TypeOK'
      BY <2>1 DEF Inv, TypeOK, StoreTypeOK, HeldTypeOK, CallsTypeOK
    <2>3. Removed
      BY <2>1, <2>2 DEF Removed
    <2>4. QED
      BY <2>3, RemovedKeepsInv
  <1>7. QED
    BY <1>1, <1>2, <1>3, <1>4, <1>5, <1>6 DEF Next

\* The inductive invariant of the speech service: what every lease token, history
\* row, creation and remembered result says about the call it names.
THEOREM Invariance == Spec => []Inv
  <1>1. Init => Inv
    BY InitInv
  <1>2. Inv /\ [Next]_vars => Inv'
    BY NextKeepsInv
  <1>3. QED
    BY <1>1, <1>2, PTL DEF Spec

\* Every row of the store and every call keeps its shape.
THEOREM TypeCorrect == Spec => []TypeOK
  <1>1. Inv => TypeOK
    BY DEF Inv
  <1>2. QED
    BY <1>1, Invariance, PTL

\* Completion commits record and history row together, for good.
THEOREM CompletionIsAtomic == Spec => []CompletedTogether
  <1>1. Inv => CompletedTogether
    BY DEF Inv
  <1>2. QED
    BY <1>1, Invariance, PTL

\* A history row under a live lease is backed by that lease, so recovery fails
\* abandoned attempts only.
THEOREM RecoveryIsSafe == Spec => []JobsFollowLease
  <1>1. Inv => JobsFollowLease
    BY DEF Inv
  <1>2. QED
    BY <1>1, Invariance, PTL

\* Whatever answers are lost, two successes of one operation are one result.
THEOREM AnswersAgreeAlways == Spec => []AnswersAgree
  <1>1. Inv => AnswersAgree
    BY DEF Inv, ResultsAgree, AnswersAgree, Informed
  <1>2. QED
    BY <1>1, Invariance, PTL

\* A success answers the body that was sent.
THEOREM AnswersFit == Spec => []AnswerFitsRequest
  <1>1. Inv => AnswerFitsRequest
    <2>1. SUFFICES ASSUME Inv, NEW c \in Calls, calls[c].pc \in Answered
                   PROVE  /\ calls[c].by \in Calls
                          /\ calls[calls[c].by].scope = calls[c].scope
                          /\ calls[calls[c].by].digest = calls[c].digest
      BY DEF AnswerFitsRequest
    <2>2. TypeOK /\ calls[c].pc \in Informed
      BY <2>1 DEF Inv, Informed
    <2>3. /\ calls[c].by # None
          /\ calls[calls[c].by].scope = calls[c].scope
          /\ calls[calls[c].by].digest = calls[c].digest
      BY <2>1, <2>2 DEF Inv, CallResultFits
    <2>4. QED
      BY <2>2, <2>3, CallFields
  <1>2. QED
    BY <1>1, Invariance, PTL

\* Held audio belongs to the history row of its request id, although clients
\* choose request ids.
THEOREM HeldAudioFits == Spec => []HeldFitsHistory
  <1>1. Inv => HeldFitsHistory
    BY DEF Inv
  <1>2. QED
    BY <1>1, Invariance, PTL

\* When the deadline cuts calls on time, the lease covers the call that owns it,
\* so no two calls work on one operation.
THEOREM OneWorkerOnTime == ASSUME Prompt PROVE Spec => []OneWorker
  <1>1. Inv => OneWorker
    <2>1. SUFFICES ASSUME Inv, NEW c1 \in Calls, NEW c2 \in Calls,
                          calls[c1].pc \in {"claimed", "working", "completing"},
                          calls[c2].pc \in {"claimed", "working", "completing"},
                          calls[c1].budget > 0, calls[c2].budget > 0,
                          calls[c1].scope = calls[c2].scope,
                          Owner(c1) \notin deleted
                   PROVE  c1 = c2
      BY DEF OneWorker
    <2>2. Owner(c2) \notin deleted
      BY <2>1 DEF Owner
    <2>3. LeaseCoversCall
      BY <2>1 DEF Inv
    <2>4. Current(calls[c1].scope, c1) /\ Current(calls[c2].scope, c2)
      BY <2>1, <2>2, <2>3 DEF LeaseCoversCall
    <2>5. QED
      BY <2>1, <2>4 DEF Current
  <1>2. QED
    BY <1>1, Invariance, PTL
\* Every step leaves a completed record of an existing account alone while its
\* retention lasts, except for the time that passes.
LEMMA RetentionStep ==
    ASSUME Inv, [Next]_vars, NEW s \in Scopes, records[s].state = "completed",
           OwnerOf[s] \notin deleted', records[s].ttl # 0
    PROVE  /\ records'[s] = [records[s] EXCEPT !.ttl = records'[s].ttl]
           /\ jobs'[records[s].id] = jobs[records[s].id]
  <1> DEFINE i == records[s].id
  <1>1. /\ TypeOK /\ StoreTypeOK /\ records[s] \in CompletedRecords /\ i \in Ids
        /\ jobs[i].status = "completed" /\ jobs[i].scope = s
        /\ jobs[i] \in CompletedJobs /\ jobs[i].token = None
    BY RecordFields, JobFields DEF Inv, TypeOK, CompletedTogether
  <1>2. ~Vacant(s) /\ ~Purgeable(records[s])
    BY DEF Vacant, Purgeable
  <1>3. records'[s] = records[s] => records'[s] = [records[s] EXCEPT !.ttl = records'[s].ttl]
    BY <1>1 DEF CompletedRecords
  <1> HIDE DEF i
  <1>4. CASE Tick
    <2>1. /\ records'[s] = [records[s] EXCEPT !.lease = Elapse(@), !.ttl = Elapse(@)]
          /\ jobs'[i] = [jobs[i] EXCEPT !.lease = Elapse(@)]
      BY <1>1, <1>4 DEF Tick, AgeStore
    <2>2. Elapse(0) = 0 /\ records[s].lease = 0 /\ jobs[i].lease = 0
      BY <1>1 DEF Elapse, CompletedRecords, CompletedJobs
    <2>3. jobs'[i] = jobs[i]
      BY <1>1, <2>1, <2>2 DEF CompletedJobs
    <2>4. records'[s] = [records[s] EXCEPT !.lease = 0, !.ttl = Elapse(records[s].ttl)]
      BY <2>1, <2>2
    <2>5. records'[s] = [records[s] EXCEPT !.ttl = Elapse(records[s].ttl)]
      BY <1>1, <2>2, <2>4 DEF CompletedRecords
    <2>6. records'[s].ttl = Elapse(records[s].ttl)
      BY <1>1, <2>5 DEF CompletedRecords
    <2>7. QED
      BY <2>3, <2>5, <2>6 DEF i
  <1>5. CASE ~Tick
    <2>1. SUFFICES records'[s] = records[s] /\ jobs'[i] = jobs[i]
      BY <1>3 DEF i
    <2>2. CASE UNCHANGED <<records, jobs>>
      BY <2>2
    <2>3. ASSUME NEW c \in Calls, NEW seen \in BOOLEAN,
                 ClaimNew(c, seen) \/ ClaimAbandoned(c, seen)
          PROVE  records'[s] = records[s] /\ jobs'[i] = jobs[i]
      <3>1. jobs' = jobs /\ calls[c].scope # s
            /\ (\E r : records' = [records EXCEPT ![calls[c].scope] = r])
        BY <1>2, <2>3
        DEF ClaimNew, ClaimAbandoned, InsertClaim, ReclaimClaim, Reclaimable
      <3>2. QED
        BY <1>1, <3>1 DEF StoreTypeOK
    <2>4. ASSUME NEW c \in Calls, Start(c)
          PROVE  records'[s] = records[s] /\ jobs'[i] = jobs[i]
      <3>1. calls[c].pc = "claimed" /\ StartJob(calls[c].scope, c)
        BY <2>4 DEF Start, At
      <3>2. calls[c].scope \in Scopes
        BY <1>1, <3>1, CallFields
      <3>3. /\ records' = records /\ OtherJobsSame(records[calls[c].scope].id)
            /\ MayStart(records[calls[c].scope].id, calls[c].scope,
                        records[calls[c].scope].digest)
        BY <1>1, <3>1, <3>2, StartEffect
      <3>4. records[calls[c].scope].id # i
        BY <1>1, <3>3 DEF MayStart
      <3>5. QED
        BY <1>1, <3>3, <3>4 DEF OtherJobsSame
    <2>5. ASSUME NEW c \in Calls, NEW seen \in BOOLEAN, Complete(c, seen)
          PROVE  records'[s] = records[s] /\ jobs'[i] = jobs[i]
      <3>1. /\ OtherRecordsSame(calls[c].scope) /\ OtherJobsSame(calls[c].id)
            /\ Current(calls[c].scope, c) /\ jobs[calls[c].id].token = c
        BY <2>5, CompletionStep
      <3>2. calls[c].scope # s /\ calls[c].id # i
        BY <1>1, <3>1, SetsAssumption DEF Current
      <3>3. QED
        BY <1>1, <3>1, <3>2 DEF OtherRecordsSame, OtherJobsSame
    <2>6. ASSUME NEW c \in Calls, ReleaseLease(calls[c].scope, c)
          PROVE  records'[s] = records[s] /\ jobs'[i] = jobs[i]
      BY <1>1, <2>6 DEF ReleaseLease, Current, storeVars, StoreTypeOK
    <2>7. CASE Recover
      BY <1>1, <2>7 DEF Recover, RecoverExpiredJobs, Abandoned
    <2>8. CASE CleanRecords
      BY <1>1, <1>2, <2>8 DEF CleanRecords, DeleteExpiredRecords
    <2>9. CASE \E a \in Accounts : PurgeAccount(a)
      BY <1>1, <2>9 DEF PurgeAccount, DeleteAccountRows
    <2>10. ASSUME NEW c \in Calls, CallStep(c)
           PROVE  records'[s] = records[s] /\ jobs'[i] = jobs[i]
      <3>1. \/ UNCHANGED <<records, jobs>>
            \/ \E seen \in BOOLEAN : ClaimNew(c, seen) \/ ClaimAbandoned(c, seen)
            \/ Start(c)
            \/ \E seen \in BOOLEAN : Complete(c, seen)
            \/ ReleaseLease(calls[c].scope, c)
        BY <2>10
        DEF CallStep, Authorize, ClaimCompleted, ClaimRefused, Replay, ResolveVoiceFails,
            ExecuteFails, Deliver, HoldAudio, CompleteFails, Interrupt, Crash, Fail,
            DetachedRelease, storeVars
      <3>2. QED
        BY <2>2, <2>3, <2>4, <2>5, <2>6, <3>1
    <2>11. QED
      BY <1>5, <2>2, <2>7, <2>8, <2>9, <2>10 DEF Next, CleanAudio, vars
  <1>6. QED
    BY <1>4, <1>5

\* What was promised for the retention stays for the retention.
THEOREM RetentionIsKept == Spec => RetentionKept
  <1>1. Inv /\ [Next]_vars =>
          [\A s \in Scopes :
             records[s].state = "completed" /\ OwnerOf[s] \notin deleted' =>
                \/ records[s].ttl = 0
                \/ /\ records'[s] = [records[s] EXCEPT !.ttl = records'[s].ttl]
                   /\ jobs'[records[s].id] = jobs[records[s].id]]_vars
    BY RetentionStep
  <1>2. QED
    BY <1>1, Invariance, PTL DEF Spec, RetentionKept
-----------------------------------------------------------------------------
(***************************************************************************)
(* The refinement of the promise                                           *)
(***************************************************************************)

\* Keys stay as they are when no completed record comes or goes.
LEMMA KeepsSettled ==
    ASSUME \A s \in Scopes :
              \/ records'[s] = records[s]
              \/ records[s].state # "completed" /\ records'[s].state # "completed"
    PROVE  Settled' = Settled /\ Left' = Left
  BY DEF Settled, Left

\* A step of one call changes at most the result that this call has been given.
LEMMA KeepsObserved ==
    ASSUME NEW c \in Calls, OthersSame(c), calls'[c].scope = calls[c].scope
    PROVE  /\ Asked' = Asked
           /\ Observed' = [Observed EXCEPT ![c] =
                 IF calls'[c].pc \in Informed THEN ResultOf(calls'[c]) ELSE None]
  BY DEF Asked, Observed, OthersSame, Informed

\* A step that the promise does not see.
Unseen == Asked' = Asked /\ Settled' = Settled /\ Left' = Left
          /\ Observed' = Observed /\ deleted' = deleted

\* Such a step is a stutter of the promise.
LEMMA UnseenStutters == Unseen => [Promise!Next]_(Promise!promise)
  BY DEF Unseen, Promise!promise

\* A call that had no result and gets none.
LEMMA ObservesNothing ==
    ASSUME NEW c \in Calls, OthersSame(c), calls'[c].scope = calls[c].scope,
           calls[c].pc \notin Informed, calls'[c].pc \notin Informed
    PROVE  Asked' = Asked /\ Observed' = Observed
  BY DEF Asked, Observed, OthersSame, Informed

\* A call arrives.
LEMMA AuthorizeAsks ==
    ASSUME Inv, NEW c \in Calls, NEW s \in Scopes, NEW d \in Digests, NEW i \in Ids,
           Authorize(c, s, d, i)
    PROVE  Promise!Ask(c, s)
  <1>1. /\ calls[c].pc = "idle" /\ calls[c].scope = None
        /\ records' = records /\ deleted' = deleted /\ calls \in [Calls -> CallTypes]
    BY CallFields DEF Authorize, Inv, TypeOK, CallsTypeOK
  <1>2. calls'[c].scope = s /\ calls'[c].pc = "authorized" /\ OthersSame(c)
    BY <1>1 DEF Authorize, Idle, OthersSame
  <1>3. Asked[c] = None /\ Asked' = [Asked EXCEPT ![c] = s]
    BY <1>1, <1>2 DEF Asked, OthersSame
  <1>4. Observed' = Observed
    BY <1>1, <1>2 DEF Observed, OthersSame, Answered
  <1>5. Settled' = Settled /\ Left' = Left
    BY <1>1, KeepsSettled
  <1>6. QED
    BY <1>1, <1>3, <1>4, <1>5 DEF Promise!Ask

\* A quiet step keeps the result that the call has been given, or discards it.
LEMMA QuietDiscards ==
    ASSUME Inv, NEW c \in Calls, QuietStep(c)
    PROVE  Promise!Discard(c) \/ Unseen
  <1>1. /\ OthersSame(c) /\ calls'[c].scope = calls[c].scope /\ records' = records
        /\ deleted' = deleted
    BY DEF QuietStep
  <1>2. Settled' = Settled /\ Left' = Left
    BY <1>1, KeepsSettled
  <1>3. CASE calls'[c].pc \notin Informed
    BY <1>1, <1>2, <1>3, KeepsObserved DEF Promise!Discard
  <1>4. CASE calls'[c].pc \in Informed
    <2>1. /\ calls[c].pc \in Informed /\ calls'[c].id = calls[c].id
          /\ calls'[c].by = calls[c].by /\ calls'[c].storage = calls[c].storage
      BY <1>4 DEF QuietStep, Informed, Answered, Guarded
    <2>2. Asked' = Asked /\ Observed' = Observed
      BY <1>1, <2>1, <1>4 DEF Asked, Observed, OthersSame, Informed, ResultOf
    <2>3. QED
      BY <1>1, <1>2, <2>2 DEF Unseen
  <1>5. QED
    BY <1>3, <1>4

\* A claim takes the key from a record that is no longer retained, if from any.
LEMMA ClaimForgets ==
    ASSUME Inv, NEW c \in Calls, NEW seen \in BOOLEAN,
           ClaimNew(c, seen) \/ ClaimAbandoned(c, seen)
    PROVE  Promise!Forget({calls[c].scope})
  <1> DEFINE s == calls[c].scope
  <1>1. LeaseTaken(c)
    BY ClaimsTakeLease DEF Inv
  <1>2. /\ s \in Scopes /\ OtherRecordsSame(s) /\ records'[s].state = "pending"
        /\ deleted' = deleted
    BY <1>1 DEF LeaseTaken
  <1>3. records[s].state = "completed" => records[s].ttl = 0
    BY DEF ClaimNew, ClaimAbandoned, InsertClaim, ReclaimClaim, Reclaimable, Vacant, Purgeable
  <1>4. Asked' = Asked /\ Observed' = Observed
    BY <1>1, ObservesNothing DEF LeaseTaken, Informed, Answered
  <1> HIDE DEF s
  <1>5. Left[s] = 0 /\ Left' = Left
    BY <1>2, <1>3 DEF Left, OtherRecordsSame
  <1>6. Settled' = [z \in Scopes |-> IF z \in {s} THEN None ELSE Settled[z]]
    BY <1>2 DEF Settled, OtherRecordsSame
  <1>7. QED
    BY <1>2, <1>4, <1>5, <1>6 DEF Promise!Forget, s

\* A replay is given what the key is settled to.
LEMMA ReplayObserves ==
    ASSUME Inv, NEW c \in Calls, ClaimCompleted(c)
    PROVE  Promise!Observe(c)
  <1> DEFINE s == calls[c].scope
             rec == records[s]
  <1>1. /\ calls[c].pc = "authorized" /\ rec.state = "completed"
        /\ records' = records /\ deleted' = deleted
        /\ calls' = [calls EXCEPT ![c].pc = "replaying", ![c].id = rec.id,
                        ![c].origin = rec.origin, ![c].by = rec.by,
                        ![c].storage = rec.storage]
    BY DEF ClaimCompleted, At, Replayable
  <1>2. s \in Scopes /\ calls[c] \in CallTypes /\ calls \in [Calls -> CallTypes]
    BY <1>1, CallFields DEF Inv, TypeOK, CallsTypeOK
  <1>3. /\ OthersSame(c) /\ calls'[c].pc = "replaying" /\ calls'[c].scope = s
        /\ calls'[c].id = rec.id /\ calls'[c].by = rec.by /\ calls'[c].storage = rec.storage
    BY <1>1, <1>2 DEF OthersSame, CallTypes
  <1>4. Settled' = Settled /\ Left' = Left
    BY <1>1, KeepsSettled
  <1> HIDE DEF s, rec
  <1>5. Asked' = Asked /\ Observed' = [Observed EXCEPT ![c] = ResultOf(calls'[c])]
    BY <1>3, KeepsObserved DEF s, Informed
  <1>6. Asked[c] = s /\ Asked[c] # None
    BY <1>2, SetsAssumption DEF Asked, s
  <1>7. Settled[s] = ResultOf(rec) /\ ResultOf(calls'[c]) = ResultOf(rec)
    BY <1>1, <1>2, <1>3 DEF Settled, ResultOf, rec
  <1>8. Observed[c] = None
    BY <1>1 DEF Observed, Answered
  <1>9. ResultOf(rec) # None
    BY <1>1, <1>2, RecordFields, ResultsAssumption DEF Inv, TypeOK, ResultOf, rec, s
  <1>10. QED
    BY <1>1, <1>4, <1>5, <1>6, <1>7, <1>8, <1>9 DEF Promise!Observe

\* A completion settles the key of the call, which may not learn of it.
LEMMA CompletionSettles ==
    ASSUME Inv, NEW c \in Calls, NEW seen \in BOOLEAN, Complete(c, seen)
    PROVE  \E s \in Scopes, r \in Promise!Results : Promise!Settle(s, r)
  <1> DEFINE s == calls[c].scope
             r == [id |-> calls[c].id, by |-> c, storage |-> calls[c].storage]
  <1>1. /\ deleted' = deleted /\ calls[c].pc = "completing" /\ s \in Scopes
        /\ calls[c].id \in Ids /\ OtherRecordsSame(s) /\ OthersSame(c)
        /\ Current(s, c) /\ records'[s].state = "completed" /\ records'[s].id = calls[c].id
        /\ records'[s].by = c /\ records'[s].storage = calls[c].storage
        /\ calls'[c].pc \in {"fresh", "failing"} /\ calls'[c].scope = s
        /\ calls'[c].id = calls[c].id /\ calls'[c].storage = calls[c].storage
        /\ calls'[c].pc = "fresh" => calls'[c].by = c
    BY CompletionStep
  <1>2. r \in Promise!Results /\ r.by = c
    BY <1>1 DEF Inv, CompletingHasResult, Promise!Results, Promise!Storages, Storages
  <1>3. records'[s].ttl = Ttl
    <2>1. records[s] \in PendingRecords /\ records \in [Scopes -> {NoRecord} \cup PendingRecords \cup CompletedRecords]
      BY <1>1, RecordFields DEF Inv, TypeOK, StoreTypeOK, Current
    <2>2. records' = [records EXCEPT ![s] =
            [@ EXCEPT !.state = "completed", !.token = None, !.lease = 0,
                      !.ttl = Ttl, !.by = c, !.storage = calls[c].storage]]
      BY DEF Complete, CompleteJob
    <2>3. QED
      BY <1>1, <2>1, <2>2 DEF PendingRecords
  <1>4. ResultOf(records'[s]) = r /\ (calls'[c].pc = "fresh" => ResultOf(calls'[c]) = r)
    BY <1>1 DEF ResultOf
  <1> HIDE DEF s, r
  <1>5. Asked[c] = s
    BY DEF Asked, s
  <1>6. Settled[s] = None /\ Settled' = [Settled EXCEPT ![s] = r]
    BY <1>1, <1>4 DEF Settled, OtherRecordsSame, Current
  <1>7. Left' = [Left EXCEPT ![s] = Ttl]
    BY <1>1, <1>3 DEF Left, OtherRecordsSame
  <1>8. Asked' = Asked /\ Observed' \in {Observed, [Observed EXCEPT ![c] = r]}
    <2>1. CASE calls'[c].pc = "fresh"
      BY <1>1, <1>4, <2>1, KeepsObserved DEF s, Informed, Answered
    <2>2. CASE calls'[c].pc = "failing"
      BY <1>1, <2>2, ObservesNothing DEF s, Informed, Answered
    <2>3. QED
      BY <1>1, <2>1, <2>2
  <1>9. Promise!Settle(s, r)
    BY <1>1, <1>2, <1>5, <1>6, <1>7, <1>8 DEF Promise!Settle
  <1>10. QED
    BY <1>1, <1>2, <1>9

\* Releases, history rows and audio are not part of the promise.
LEMMA ReleasesAreUnseen ==
    ASSUME Inv, NEW c \in Calls, Start(c) \/ Fail(c) \/ DetachedRelease(c)
    PROVE  Unseen
  <1> DEFINE s == calls[c].scope
  <1>1. /\ TypeOK /\ StoreTypeOK /\ deleted' = deleted
        /\ calls[c].pc \in {"claimed", "failing", "ended"}
    BY DEF Inv, TypeOK, Start, Fail, DetachedRelease, At, ReleasesEnded
  <1>2. s \in Scopes
    BY <1>1, CallFields
  <1>3. OthersSame(c) /\ calls'[c].scope = s /\ calls'[c].pc \in {"working", "ended"}
    <2>1. CASE Start(c)
      BY <1>1, <2>1, MoveEffect DEF Start, At, Places, Open, Guarded
    <2>2. CASE Fail(c)
      BY <1>1, <2>2, EndEffect DEF Fail, At
    <2>3. CASE DetachedRelease(c)
      BY <1>1, <2>3 DEF DetachedRelease, OthersSame, Inv, TypeOK, ReleasesEnded
    <2>4. QED
      BY <2>1, <2>2, <2>3
  <1>4. Asked' = Asked /\ Observed' = Observed
    BY <1>1, <1>3, ObservesNothing DEF Informed, Answered
  <1>5. \A z \in Scopes :
           \/ records'[z] = records[z]
           \/ records[z].state # "completed" /\ records'[z].state # "completed"
    <2>1. CASE Start(c)
      BY <2>1 DEF Start, StartJob
    <2>2. CASE ReleaseLease(s, c) \/ UNCHANGED storeVars
      BY <1>1, <1>2, <2>2, ReleaseEffect DEF OtherRecordsSame, SameButLease, Current
    <2>3. QED
      BY <2>1, <2>2 DEF Fail, DetachedRelease
  <1>6. QED
    BY <1>1, <1>4, <1>5, KeepsSettled DEF Unseen

\* Cleanup deletes records that are no longer retained.
LEMMA CleanupForgets ==
    ASSUME CleanRecords
    PROVE  \E batch \in SUBSET Scopes : Promise!Forget(batch)
  <1>1. PICK batch \in SUBSET Scopes : DeleteExpiredRecords(batch)
    BY DEF CleanRecords
  <1>2. /\ \A s \in batch : records[s].ttl = 0
        /\ records' = [s \in Scopes |-> IF s \in batch THEN NoRecord ELSE records[s]]
        /\ calls' = calls /\ deleted' = deleted /\ NoRecord.state = "absent"
    BY <1>1 DEF CleanRecords, DeleteExpiredRecords, Purgeable, NoRecord
  <1>3. \A s \in batch : Left[s] = 0
    BY <1>2 DEF Left
  <1>4. Left' = Left /\ Settled' = [s \in Scopes |-> IF s \in batch THEN None ELSE Settled[s]]
    BY <1>2 DEF Left, Settled
  <1>5. Asked' = Asked /\ Observed' = Observed
    BY <1>2 DEF Asked, Observed
  <1>6. QED
    BY <1>2, <1>3, <1>4, <1>5 DEF Promise!Forget

\* An account is deleted with its records.
LEMMA PurgeDeletes ==
    ASSUME NEW a \in Accounts, PurgeAccount(a)
    PROVE  Promise!Delete(a)
  <1>1. /\ records' = [s \in Scopes |-> IF OwnerOf[s] = a THEN NoRecord ELSE records[s]]
        /\ calls' = calls /\ deleted' = deleted \cup {a} /\ NoRecord.state = "absent"
    BY DEF PurgeAccount, DeleteAccountRows, NoRecord
  <1>2. /\ Settled' = [s \in Scopes |-> IF OwnerOf[s] = a THEN None ELSE Settled[s]]
        /\ Left' = [s \in Scopes |-> IF OwnerOf[s] = a THEN 0 ELSE Left[s]]
    BY <1>1 DEF Settled, Left
  <1>3. Asked' = Asked /\ Observed' = Observed
    BY <1>1 DEF Asked, Observed
  <1>4. QED
    BY <1>1, <1>2, <1>3 DEF Promise!Delete

\* Time shortens the retentions.
LEMMA TickAges ==
    ASSUME Inv, Tick
    PROVE  Promise!Age
  <1>1. TypeOK /\ StoreTypeOK /\ AgeStore /\ deleted' = deleted
        /\ calls' = [c \in Calls |-> [calls[c] EXCEPT !.budget = Elapse(@)]]
    BY DEF Inv, TypeOK, Tick
  <1>2. \A s \in Scopes : SameButLease(s)
    BY <1>1, AgeEffect
  <1>3. \A s \in Scopes : records[s].state = "completed" => records'[s].ttl = Elapse(records[s].ttl)
    <2> SUFFICES ASSUME NEW s \in Scopes, records[s].state = "completed"
                 PROVE  records'[s].ttl = Elapse(records[s].ttl)
      OBVIOUS
    <2>1. records'[s] = [records[s] EXCEPT !.lease = Elapse(@), !.ttl = Elapse(@)]
      BY <1>1 DEF AgeStore
    <2>2. records[s] \in CompletedRecords
      BY <1>1, RecordFields
    <2> QED BY <2>1, <2>2 DEF CompletedRecords
  <1>4. Elapse(0) = 0
    BY DEF Elapse
  <1>5. Settled' = Settled
    BY <1>2 DEF Settled, SameButLease, ResultOf
  <1>6. Left' = [s \in Scopes |-> Promise!Elapse(Left[s])]
    <2>1. \A n : Promise!Elapse(n) = Elapse(n)
      BY DEF Promise!Elapse, Elapse
    <2>2. \A s \in Scopes : Left'[s] = Elapse(Left[s])
      BY <1>2, <1>3, <1>4 DEF Left, SameButLease
    <2>3. Left' = [s \in Scopes |-> Left'[s]]
      BY DEF Left
    <2> QED BY <2>1, <2>2, <2>3
  <1>7. Asked' = Asked /\ Observed' = Observed
    <2>1. \A c \in Calls :
             /\ calls'[c].pc = calls[c].pc /\ calls'[c].scope = calls[c].scope
             /\ calls'[c].id = calls[c].id /\ calls'[c].by = calls[c].by
             /\ calls'[c].storage = calls[c].storage
      BY <1>1, CallFields DEF CallTypes
    <2> QED BY <2>1 DEF Asked, Observed, ResultOf
  <1>8. QED
    BY <1>1, <1>5, <1>6, <1>7 DEF Promise!Age

\* Every step of the service is a step of the promise, or none.
LEMMA NextKeepsPromise ==
    ASSUME Inv, [Next]_vars
    PROVE  [Promise!Next]_(Promise!promise)
  <1>1. ASSUME NEW c \in Calls, CallStep(c) PROVE Promise!Next \/ Unseen
    <2>1. TypeOK
      BY DEF Inv
    <2>2. CASE \E s \in Scopes, d \in Digests, i \in Ids : Authorize(c, s, d, i)
      BY <2>2, AuthorizeAsks DEF Promise!Next
    <2>3. CASE \E seen \in BOOLEAN : ClaimNew(c, seen) \/ ClaimAbandoned(c, seen)
      <3>1. calls[c].scope \in Scopes
        BY <2>1, <2>3, CallFields DEF ClaimNew, ClaimAbandoned, At
      <3>2. {calls[c].scope} \in SUBSET Scopes /\ Promise!Forget({calls[c].scope})
        BY <2>3, <3>1, ClaimForgets
      <3> QED BY <3>2 DEF Promise!Next
    <2>4. CASE ClaimCompleted(c)
      BY <2>4, ReplayObserves DEF Promise!Next
    <2>5. CASE \/ ClaimRefused(c) \/ Replay(c) \/ ResolveVoiceFails(c) \/ ExecuteFails(c)
               \/ Deliver(c) \/ CompleteFails(c) \/ Interrupt(c) \/ Crash(c)
      BY <2>1, <2>5, QuietSteps, QuietDiscards DEF Promise!Next
    <2>6. CASE Start(c) \/ Fail(c) \/ DetachedRelease(c)
      BY <2>6, ReleasesAreUnseen
    <2>7. CASE \E seen \in BOOLEAN : HoldAudio(c, seen)
      BY <2>1, <2>7, HoldIsQuiet, QuietDiscards DEF Promise!Next
    <2>8. CASE \E seen \in BOOLEAN : Complete(c, seen)
      BY <2>8, CompletionSettles DEF Promise!Next
    <2>9. QED
      BY <1>1, <2>2, <2>3, <2>4, <2>5, <2>6, <2>7, <2>8 DEF CallStep
  <1>2. CASE Recover \/ CleanAudio \/ UNCHANGED vars
    <2>1. records' = records /\ calls' = calls /\ deleted' = deleted
      BY <1>2 DEF Recover, RecoverExpiredJobs, CleanAudio, vars
    <2>2. Unseen
      BY <2>1 DEF Unseen, Asked, Settled, Left, Observed
    <2>3. QED
      BY <2>2, UnseenStutters
  <1>3. CASE CleanRecords
    BY <1>3, CleanupForgets DEF Promise!Next
  <1>4. CASE \E a \in Accounts : PurgeAccount(a)
    BY <1>4, PurgeDeletes DEF Promise!Next
  <1>5. CASE Tick
    BY <1>5, TickAges DEF Promise!Next
  <1>6. QED
    BY <1>1, <1>2, <1>3, <1>4, <1>5, UnseenStutters DEF Next

\* The speech service, with its leases, lost answers, crashes, cleanup and
\* deletion, implements the promise of Idempotency-Key: a key settles once, and
\* for the whole retention every success under it is that result.
THEOREM PromiseIsKept == Spec => KeepsPromise
  <1>1. Init => Promise!Init
    <2> SUFFICES ASSUME Init PROVE Promise!Init
      OBVIOUS
    <2>1. /\ records = [s \in Scopes |-> NoRecord] /\ calls = [c \in Calls |-> Idle]
          /\ deleted = {} /\ NoRecord.state = "absent"
          /\ Idle.pc = "idle" /\ Idle.scope = None
      BY DEF Init, StoreInit, NoRecord, Idle
    <2>2. Asked = [c \in Calls |-> None] /\ Observed = [c \in Calls |-> None]
      BY <2>1 DEF Asked, Observed, Answered
    <2>3. Settled = [s \in Scopes |-> None] /\ Left = [s \in Scopes |-> 0]
      BY <2>1 DEF Settled, Left
    <2>4. QED
      BY <2>1, <2>2, <2>3 DEF Promise!Init
  <1>2. Inv /\ [Next]_vars => [Promise!Next]_(Promise!promise)
    BY NextKeepsPromise
  <1>3. QED
    BY <1>1, <1>2, Invariance, PTL DEF Spec, KeepsPromise, Promise!Spec
-----------------------------------------------------------------------------
(***************************************************************************)
(* The audio behind a record, with prompt timers                           *)
(***************************************************************************)

\* Only one call with time left works on a scope whose account exists.
LEMMA SoleWorker ==
    ASSUME Prompt, Inv, NEW c \in Calls, NEW d \in Calls,
           calls[c].pc \in Working, calls[d].pc \in Working,
           calls[c].budget > 0, calls[d].budget > 0,
           calls[c].scope = calls[d].scope, Owner(c) \notin deleted
    PROVE  c = d /\ Current(calls[c].scope, c)
  BY DEF Inv, LeaseCoversCall, Owner, Current, Working

\* Steps that start no work and write no audio: a record is completed only with
\* the result of a call that had it.
AudioUntouched ==
    /\ held' = held /\ deleted' = deleted
    /\ \A i \in Ids : jobs[i].status # "absent" =>
          jobs'[i].status # "absent" /\ jobs'[i].scope = jobs[i].scope
    /\ \A s \in Scopes : records'[s].state = "completed" =>
          \/ /\ records[s].state = "completed" /\ records'[s].id = records[s].id
             /\ records'[s].by = records[s].by /\ records'[s].storage = records[s].storage
          \/ \E c \in Calls :
               /\ calls[c].pc = "completing" /\ calls[c].budget > 0 /\ calls[c].scope = s
               /\ records'[s].id = calls[c].id /\ records'[s].by = c
               /\ records'[s].storage = calls[c].storage
    /\ \A c \in Calls :
         /\ calls'[c].pc = "working" =>
              /\ calls[c].pc = "working" /\ calls'[c].scope = calls[c].scope
              /\ calls'[c].id = calls[c].id /\ calls'[c].budget = calls[c].budget
         /\ calls'[c].pc = "completing" =>
              /\ calls'[c].scope = calls[c].scope
              /\ calls'[c].id = calls[c].id /\ calls'[c].budget = calls[c].budget
              /\ \/ calls[c].pc = "completing" /\ calls'[c].storage = calls[c].storage
                 \/ calls[c].pc = "working" /\ calls'[c].storage # "held"

\* Such steps leave every audio where it belongs.
LEMMA UntouchedKeepsAudio ==
    ASSUME Prompt, Inv, AudioInv, AudioUntouched
    PROVE  AudioInv'
  <1>1. TypeOK
    BY DEF Inv
  <1>2. ASSUME NEW i, NEW a, NEW b, AudioIs(i, a, b)
        PROVE  AudioIs(i, a, b)'
    BY <1>2 DEF AudioUntouched, AudioIs, MayStillHold
  <1>3. CompletingFits'
    <2> SUFFICES ASSUME NEW c \in Calls, calls'[c].pc = "completing",
                        OwnerOf[calls'[c].scope] \notin deleted'
                 PROVE  /\ jobs'[calls'[c].id].status # "absent"
                        /\ jobs'[calls'[c].id].scope = calls'[c].scope
      BY DEF CompletingFits, Owner
    <2>1. /\ calls'[c].scope = calls[c].scope /\ calls'[c].id = calls[c].id
          /\ calls[c].pc \in {"working", "completing"} /\ Owner(c) \notin deleted
      BY DEF AudioUntouched, Owner
    <2>2. calls[c].id \in Ids
      BY <1>1, <2>1, CallFields
    <2>3. jobs[calls[c].id].status # "absent" /\ jobs[calls[c].id].scope = calls[c].scope
      BY <2>1 DEF AudioInv, CompletingFits, Inv, WorkerFits
    <2> QED BY <2>1, <2>2, <2>3 DEF AudioUntouched
  <1>4. OthersAudioOutlives'
    BY DEF AudioInv, OthersAudioOutlives, AudioUntouched, MayStillHold, Owner
  <1>5. CallAudioFits'
    <2> SUFFICES ASSUME NEW c \in Calls, calls'[c].pc = "completing",
                        calls'[c].storage = "held", calls'[c].budget > 0,
                        Owner(c)' \notin deleted'
                 PROVE  AudioIs(calls[c].id, Owner(c), c)' 
      BY DEF CallAudioFits, AudioUntouched, AudioIs, Owner, MayStillHold
    <2>1. AudioIs(calls[c].id, Owner(c), c)
      BY DEF AudioUntouched, Owner, AudioInv, CallAudioFits
    <2> QED BY <1>2, <2>1 DEF AudioUntouched, Owner
  <1>6. RecordAudioFits'
    <2> SUFFICES ASSUME NEW s \in Scopes, records'[s].state = "completed",
                        records'[s].storage = "held", OwnerOf[s] \notin deleted'
                 PROVE  AudioIs(records[s].id, OwnerOf[s], records[s].by)'
      BY DEF RecordAudioFits
    <2> DEFINE i == records'[s].id
               b == records'[s].by
    <2>1. CASE /\ records[s].state = "completed" /\ i = records[s].id
               /\ b = records[s].by /\ records'[s].storage = records[s].storage
      <3>1. AudioIs(i, OwnerOf[s], b)
        BY <2>1 DEF AudioUntouched, AudioInv, RecordAudioFits
      <3> QED BY <1>2, <3>1
    <2>2. ASSUME NEW c \in Calls,
                 calls[c].pc = "completing", calls[c].budget > 0, calls[c].scope = s,
                 i = calls[c].id, b = c, records'[s].storage = calls[c].storage
          PROVE  AudioIs(records[s].id, OwnerOf[s], records[s].by)'
      <3>1. AudioIs(i, OwnerOf[s], b)
        BY <2>2 DEF AudioUntouched, Owner, AudioInv, CallAudioFits
      <3> QED BY <1>2, <3>1
    <2> QED BY <2>1, <2>2 DEF AudioUntouched
  <1>7. QED
    BY <1>3, <1>4, <1>5, <1>6 DEF AudioInv

\* Every step but starting, holding, cleaning, deleting and waiting is one.
LEMMA UntouchedSteps ==
    ASSUME Prompt, Inv, NEW c \in Calls,
           \/ \E s \in Scopes, d \in Digests, i \in Ids : Authorize(c, s, d, i)
           \/ \E seen \in BOOLEAN : ClaimNew(c, seen) \/ ClaimAbandoned(c, seen)
           \/ ClaimCompleted(c)
           \/ ClaimRefused(c) \/ Replay(c) \/ ResolveVoiceFails(c) \/ ExecuteFails(c)
           \/ Deliver(c) \/ CompleteFails(c) \/ Interrupt(c) \/ Crash(c)
           \/ \E seen \in BOOLEAN : Complete(c, seen)
           \/ Fail(c) \/ DetachedRelease(c)
    PROVE  AudioUntouched
  <1>1. TypeOK /\ StoreTypeOK /\ calls \in [Calls -> CallTypes]
    BY DEF Inv, TypeOK, CallsTypeOK
  <1>2. CASE \E s \in Scopes, d \in Digests, i \in Ids : Authorize(c, s, d, i)
    <2>1. /\ records' = records /\ jobs' = jobs /\ held' = held /\ deleted' = deleted
          /\ OthersSame(c) /\ calls'[c].pc = "authorized"
      BY <1>1, <1>2 DEF Authorize, Idle, OthersSame
    <2> QED BY <2>1 DEF AudioUntouched, OthersSame
  <1>3. CASE \E seen \in BOOLEAN : ClaimNew(c, seen) \/ ClaimAbandoned(c, seen)
    <2>1. LeaseTaken(c)
      BY <1>1, <1>3, ClaimsTakeLease
    <2> QED BY <2>1 DEF LeaseTaken, AudioUntouched, OthersSame, OtherRecordsSame
  <1>4. CASE ClaimCompleted(c)
    <2>1. /\ records' = records /\ jobs' = jobs /\ held' = held /\ deleted' = deleted
          /\ OthersSame(c) /\ calls'[c].pc = "replaying"
      BY <1>1, <1>4 DEF ClaimCompleted, OthersSame, CallTypes
    <2> QED BY <2>1 DEF AudioUntouched, OthersSame
  <1>5. CASE \/ ClaimRefused(c) \/ Replay(c) \/ ResolveVoiceFails(c) \/ ExecuteFails(c)
             \/ CompleteFails(c) \/ Interrupt(c) \/ Crash(c)
    <2>1. QuietStep(c)
      BY <1>1, <1>5, QuietSteps
    <2>2. held' = held /\ calls'[c].pc \in {"ended", "replayed", "failing"}
      BY <1>1, <1>5
      DEF ClaimRefused, Replay, ResolveVoiceFails, ExecuteFails, CompleteFails, Interrupt,
          Crash, End, Succeed, Move, Idle, CallTypes
    <2> QED BY <2>1, <2>2 DEF QuietStep, AudioUntouched, OthersSame
  <1>6. CASE Deliver(c)
    <2>1. QuietStep(c)
      BY <1>1, <1>6, QuietSteps
    <2>2. /\ held' = held /\ calls[c].pc = "working" /\ calls'[c].pc = "completing"
          /\ calls'[c].storage # "held"
      BY <1>1, <1>6 DEF Deliver, At, CallTypes
    <2> QED BY <2>1, <2>2 DEF QuietStep, AudioUntouched, OthersSame, Working, Guarded
  <1>7. CASE \E seen \in BOOLEAN : Complete(c, seen)
    <2>1. calls[c].budget > 0
      BY <1>7 DEF Complete, At
    <2> QED BY <1>7, <2>1, CompletionStep
         DEF AudioUntouched, OthersSame, OtherRecordsSame, OtherJobsSame
  <1>8. CASE Fail(c) \/ DetachedRelease(c)
    <2>1. /\ held' = held /\ deleted' = deleted
          /\ ReleaseLease(calls[c].scope, c) \/ UNCHANGED storeVars
          /\ calls[c].pc \in {"failing", "ended"}
      BY <1>8 DEF Fail, DetachedRelease, At, Inv, ReleasesEnded
    <2>2. calls[c].scope \in Scopes
      BY <1>1, <2>1, CallFields
    <2>3. OthersSame(c) /\ calls'[c].pc = "ended"
      BY <1>1, <1>8, <2>1, EndEffect DEF Fail, DetachedRelease, OthersSame, Inv, ReleasesEnded
    <2>4. /\ OtherRecordsSame(calls[c].scope) /\ SameButLease(calls[c].scope)
          /\ \A k \in Ids : SameOrFailed(k)
      BY <1>1, <2>1, <2>2, ReleaseEffect
    <2> QED BY <2>1, <2>3, <2>4
         DEF AudioUntouched, OthersSame, OtherRecordsSame, SameButLease, SameOrFailed
  <1>9. QED
    BY <1>2, <1>3, <1>4, <1>5, <1>6, <1>7, <1>8

\* Work starts only under a request id whose history row and audio are free or
\* those of the same key.
LEMMA StartKeepsAudio ==
    ASSUME Prompt, Inv, AudioInv, NEW c \in Calls, Start(c)
    PROVE  AudioInv'
  <1> DEFINE s == calls[c].scope
             i == records[s].id
  <1>1. /\ TypeOK /\ StoreTypeOK /\ HeldTypeOK
        /\ calls[c].pc = "claimed" /\ calls[c].budget > 0
        /\ held' = held /\ deleted' = deleted /\ StartJob(s, c) /\ Move(c, "working")
    BY DEF Start, At, Inv, TypeOK
  <1>2. s \in Scopes /\ calls[c].pc # "idle" /\ "working" \in Places \ {"idle"}
    BY <1>1, CallFields DEF Places, Open, Guarded
  <1>3. /\ records' = records /\ OtherJobsSame(i) /\ i \in Ids
        /\ Current(s, c) /\ MayStart(i, s, records[s].digest)
        /\ jobs'[i].status = "running" /\ jobs'[i].scope = s
    BY <1>1, <1>2, StartEffect
  <1>4. /\ OthersSame(c) /\ calls'[c].pc = "working" /\ calls'[c].scope = s
        /\ calls'[c].id = calls[c].id /\ calls'[c].budget = calls[c].budget
    BY <1>1, <1>2, MoveEffect
  <1>5. calls[c].id = i
    BY <1>1, <1>2, <1>3 DEF Inv, TokenFits, Current, Guarded
  <1>6. jobs[i].status # "absent" => jobs[i].scope = s /\ jobs[i].status # "completed"
    BY <1>3 DEF MayStart
  <1> HIDE DEF i, s
  <1>7. ASSUME NEW k, k # i, NEW a, NEW b, AudioIs(k, a, b)
        PROVE  AudioIs(k, a, b)'
    BY <1>1, <1>4, <1>5, <1>7 DEF AudioIs, MayStillHold, OthersSame
  <1>8. CompletingFits'
    <2> SUFFICES ASSUME NEW d \in Calls, calls'[d].pc = "completing",
                        OwnerOf[calls'[d].scope] \notin deleted'
                 PROVE  /\ jobs'[calls'[d].id].status # "absent"
                        /\ jobs'[calls'[d].id].scope = calls'[d].scope
      BY DEF CompletingFits, Owner
    <2>1. calls'[d] = calls[d] /\ calls[d].id \in Ids
      BY <1>1, <1>4, CallFields DEF OthersSame
    <2>2. jobs[calls[d].id].status # "absent" /\ jobs[calls[d].id].scope = calls[d].scope
      BY <1>1, <2>1 DEF AudioInv, CompletingFits, Owner
    <2> QED BY <1>3, <1>6, <2>1, <2>2 DEF OtherJobsSame
  <1>9. OthersAudioOutlives'
    <2> SUFFICES ASSUME NEW d \in Calls, MayStillHold(d)',
                        held[calls'[d].id].owner \notin deleted \cup {None, OwnerOf[calls'[d].scope]}
                 PROVE  held[calls'[d].id].ttl > calls'[d].budget
      BY <1>1 DEF OthersAudioOutlives, Owner
    <2>1. CASE d = c
      <3>1. jobs[i].status # "absent" /\ OwnerOf[jobs[i].scope] = held[i].owner
        BY <1>3, <1>4, <1>5, <2>1 DEF Inv, HeldFitsHistory
      <3> QED BY <1>4, <1>5, <1>6, <2>1, <3>1
    <2>2. CASE d # c
      BY <1>4, <2>2 DEF OthersSame, AudioInv, OthersAudioOutlives, MayStillHold, Owner
    <2> QED BY <2>1, <2>2
  <1>10. CallAudioFits'
    <2> SUFFICES ASSUME NEW d \in Calls, calls'[d].pc = "completing",
                        calls'[d].storage = "held", calls'[d].budget > 0,
                        Owner(d)' \notin deleted'
                 PROVE  AudioIs(calls[d].id, Owner(d), d)'
      BY DEF CallAudioFits
    <2>1. d # c /\ calls'[d] = calls[d] /\ Owner(d)' = Owner(d) /\ Owner(d) \notin deleted
      BY <1>1, <1>4 DEF OthersSame, Owner
    <2>2. calls[d].id # i
      <3> SUFFICES ASSUME calls[d].id = i PROVE FALSE
        OBVIOUS
      <3>1. calls[d].scope = s
        BY <1>6, <2>1 DEF AudioInv, CompletingFits
      <3> QED BY <1>1, <2>1, <3>1, SoleWorker DEF s, Working
    <2>3. AudioIs(calls[d].id, Owner(d), d)
      BY <2>1 DEF AudioInv, CallAudioFits
    <2> QED BY <1>7, <2>1, <2>2, <2>3
  <1>11. RecordAudioFits'
    <2> SUFFICES ASSUME NEW z \in Scopes, records[z].state = "completed",
                        records[z].storage = "held", OwnerOf[z] \notin deleted
                 PROVE  AudioIs(records[z].id, OwnerOf[z], records[z].by)'
      BY <1>1, <1>3 DEF RecordAudioFits
    <2>1. records[z].id # i
      BY <1>6 DEF Inv, CompletedTogether
    <2>2. AudioIs(records[z].id, OwnerOf[z], records[z].by)
      BY DEF AudioInv, RecordAudioFits
    <2> QED BY <1>3, <1>7, <2>1, <2>2
  <1>12. QED
    BY <1>8, <1>9, <1>10, <1>11 DEF AudioInv

\* A call holds audio only where there is none or its own account's, and never
\* over the audio of a record or of another call that has its result.
LEMMA HoldKeepsAudio ==
    ASSUME Prompt, Inv, AudioInv, NEW c \in Calls, NEW seen \in BOOLEAN, HoldAudio(c, seen)
    PROVE  AudioInv'
  <1> DEFINE i == calls[c].id
             a == Owner(c)
  <1>1. /\ TypeOK /\ HeldTypeOK
        /\ calls[c].pc = "working" /\ calls[c].budget > 0 /\ MayHold(i, a)
        /\ UNCHANGED <<records, jobs, deleted>>
        /\ held' = [held EXCEPT ![i] = IF @.owner = None
                                       THEN [owner |-> a, by |-> c, ttl |-> Ttl]
                                       ELSE [@ EXCEPT !.by = c]]
    BY DEF HoldAudio, At, Hold, Inv, TypeOK
  <1>2. i \in Ids /\ a \in Accounts /\ a # None
    BY <1>1, CallFields, SetsAssumption DEF Owner
  <1>3. /\ held'[i].owner = a /\ held'[i].by = c
        /\ held'[i].ttl = IF held[i].owner = None THEN Ttl ELSE held[i].ttl
        /\ \A k \in Ids \ {i} : held'[k] = held[k]
    <2>1. held[i].owner # None => held[i] \in HeldRows /\ held[i].owner = a
      BY <1>1, <1>2, HeldFields DEF MayHold
    <2> QED BY <1>1, <1>2, <2>1 DEF HeldTypeOK, HeldRows
  <1>4. QuietStep(c)
    BY <1>1, HoldIsQuiet
  <1>5. /\ OthersSame(c) /\ calls'[c].pc # "working"
        /\ calls'[c].scope = calls[c].scope
        /\ calls'[c].pc = "completing" => calls'[c].id = i
    BY <1>4 DEF QuietStep, Guarded
  <1>6. \A d \in Calls : MayStillHold(d)' =>
           d # c /\ calls'[d] = calls[d] /\ MayStillHold(d)
    BY <1>5 DEF MayStillHold, OthersSame
  <1>7. MayStillHold(c)
    BY <1>1 DEF MayStillHold
  <1>8. a \notin deleted => /\ jobs[i].status # "absent" /\ jobs[i].scope = calls[c].scope
                            /\ Current(calls[c].scope, c)
    BY <1>1, SoleWorker DEF Inv, WorkerFits, Working
  <1> HIDE DEF i, a
  <1>9. CompletingFits'
    BY <1>1, <1>5, <1>8 DEF AudioInv, CompletingFits, OthersSame, Owner, i, a
  <1>10. OthersAudioOutlives'
    <2> SUFFICES ASSUME NEW d \in Calls, MayStillHold(d)',
                        held'[calls'[d].id].owner \notin deleted \cup {None, OwnerOf[calls'[d].scope]}
                 PROVE  held'[calls'[d].id].ttl > calls'[d].budget
      BY <1>1 DEF OthersAudioOutlives, Owner
    <2>1. calls'[d] = calls[d] /\ MayStillHold(d)
      BY <1>6
    <2>2. calls[d].id \in Ids /\ calls[d].budget \in 0 .. Deadline
      BY <1>1, <2>1, CallFields DEF MayStillHold
    <2>3. CASE calls[d].id = i /\ held[i].owner = None
      <3>1. calls[d].budget < Ttl
        BY <2>2, DurationsAssumption
      <3> QED BY <1>3, <2>1, <2>3, <3>1, DurationsAssumption, <2>2
    <2>4. CASE calls[d].id = i /\ held[i].owner # None
      <3>1. held[i].owner = a
        BY <1>1, <2>4 DEF MayHold, i, a
      <3> QED BY <1>3, <2>1, <2>4, <3>1 DEF AudioInv, OthersAudioOutlives, Owner
    <2>5. CASE calls[d].id # i
      BY <1>3, <2>1, <2>2, <2>5 DEF AudioInv, OthersAudioOutlives, Owner
    <2> QED BY <2>3, <2>4, <2>5
  <1>11. ASSUME NEW k \in Ids, k # i, NEW o, NEW b, AudioIs(k, o, b)
         PROVE  AudioIs(k, o, b)'
    BY <1>3, <1>6, <1>11 DEF AudioIs
  <1>12. ASSUME NEW o, NEW b, AudioIs(i, o, b), o \notin deleted
         PROVE  o = a /\ Current(calls[c].scope, c) /\ jobs[i].scope = calls[c].scope
    BY <1>1, <1>7, <1>8, <1>12 DEF AudioIs, MayHold, i, a
  <1>13. CallAudioFits'
    <2> SUFFICES ASSUME NEW d \in Calls, calls'[d].pc = "completing",
                        calls'[d].storage = "held", calls'[d].budget > 0,
                        Owner(d)' \notin deleted'
                 PROVE  AudioIs(calls[d].id, Owner(d), d)'
      BY DEF CallAudioFits
    <2>1. CASE d = c
      <3>1. calls'[d].id = i /\ Owner(d)' = a /\ a \notin deleted
        BY <1>1, <1>5, <2>1 DEF Owner, a
      <3>2. ASSUME NEW e \in Calls, MayStillHold(e)', calls'[e].id = i
            PROVE  held'[i].ttl > calls'[e].budget
        <4>1. e # c /\ calls'[e] = calls[e] /\ MayStillHold(e)
          BY <1>6, <3>2
        <4>2. Owner(e) \in deleted
          <5> SUFFICES ASSUME Owner(e) \notin deleted PROVE FALSE
            OBVIOUS
          <5>1. jobs[i].scope = calls[e].scope
            BY <3>2, <4>1 DEF Inv, WorkerFits, MayStillHold
          <5>2. calls[e].scope = calls[c].scope
            BY <1>8, <3>1, <5>1
          <5> QED BY <1>1, <4>1, <5>2, SoleWorker DEF MayStillHold, Working
        <4>3. held'[calls'[e].id].owner \notin deleted \cup {None, Owner(e)}
          BY <1>2, <1>3, <3>1, <3>2, <4>2
        <4> QED BY <1>1, <1>10, <3>2, <4>1, <4>3 DEF OthersAudioOutlives, Owner
      <3>3. ASSUME NEW k, k = i, NEW o, o = a PROVE AudioIs(k, o, c)'
        BY <1>2, <1>3, <3>2, <3>3 DEF AudioIs
      <3> QED BY <2>1, <3>1, <3>3
    <2>2. CASE d # c
      <3>1. calls'[d] = calls[d] /\ Owner(d)' = Owner(d) /\ Owner(d) \notin deleted
        BY <1>1, <1>5, <2>2 DEF OthersSame, Owner
      <3>2. AudioIs(calls[d].id, Owner(d), d) /\ calls[d].id \in Ids
        BY <1>1, <3>1, CallFields DEF AudioInv, CallAudioFits
      <3>3. calls[d].id # i
        <4> SUFFICES ASSUME calls[d].id = i PROVE FALSE
          OBVIOUS
        <4>1. Owner(d) = a /\ jobs[i].scope = calls[c].scope
          BY <1>12, <3>1, <3>2
        <4>2. calls[d].scope = calls[c].scope
          BY <3>1, <4>1 DEF AudioInv, CompletingFits
        <4> QED BY <1>1, <2>2, <3>1, <4>2, SoleWorker DEF Working, Owner
      <3> QED BY <1>11, <3>1, <3>2, <3>3
    <2> QED BY <2>1, <2>2
  <1>14. RecordAudioFits'
    <2> SUFFICES ASSUME NEW z \in Scopes, records[z].state = "completed",
                        records[z].storage = "held", OwnerOf[z] \notin deleted
                 PROVE  AudioIs(records[z].id, OwnerOf[z], records[z].by)'
      BY <1>1 DEF RecordAudioFits
    <2>1. AudioIs(records[z].id, OwnerOf[z], records[z].by) /\ records[z].id \in Ids
      BY <1>1, RecordFields DEF AudioInv, RecordAudioFits, TypeOK
    <2>2. records[z].id # i
      <3> SUFFICES ASSUME records[z].id = i PROVE FALSE
        OBVIOUS
      <3>1. Current(calls[c].scope, c) /\ jobs[i].scope = calls[c].scope
        BY <1>12, <2>1
      <3>2. calls[c].scope = z
        BY <3>1 DEF Inv, CompletedTogether
      <3> QED BY <3>1, <3>2 DEF Current
    <2> QED BY <1>1, <1>11, <2>1, <2>2
  <1>15. QED
    BY <1>9, <1>10, <1>13, <1>14 DEF AudioInv

\* Time takes as much from a call as from the audio that outlives it.
LEMMA TickKeepsAudio ==
    ASSUME Prompt, Inv, AudioInv, Tick
    PROVE  AudioInv'
  <1>1. /\ TypeOK /\ StoreTypeOK /\ HeldTypeOK /\ AgeStore /\ deleted' = deleted
        /\ held' = [i \in Ids |-> [held[i] EXCEPT !.ttl = Elapse(@)]]
        /\ calls' = [c \in Calls |-> [calls[c] EXCEPT !.budget = Elapse(@)]]
    BY DEF Inv, TypeOK, Tick, AgeAudio
  <1>2. \A c \in Calls :
           /\ calls'[c].pc = calls[c].pc /\ calls'[c].scope = calls[c].scope
           /\ calls'[c].id = calls[c].id /\ calls'[c].storage = calls[c].storage
           /\ calls'[c].budget = Elapse(calls[c].budget)
    BY <1>1, CallFields DEF CallTypes
  <1>3. \A i \in Ids :
           /\ held'[i].owner = held[i].owner /\ held'[i].by = held[i].by
           /\ held'[i].ttl = Elapse(held[i].ttl)
           /\ held[i].ttl \in Nat
    <2> TAKE i \in Ids
    <2>1. held[i] \in [owner : Accounts \cup {None}, by : Calls \cup {None}, ttl : Nat]
      BY <1>1, DurationsAssumption DEF HeldTypeOK, NoAudio, HeldRows
    <2> QED BY <1>1, <2>1
  <1>4. \A s \in Scopes : SameButLease(s)
    BY <1>1, AgeEffect
  <1>5. \A i \in Ids : jobs'[i].status = jobs[i].status /\ jobs'[i].scope = jobs[i].scope
    BY <1>1, AgeEffect DEF SameOrFailed
  <1>6. ASSUME NEW c \in Calls, calls'[c].budget > 0
        PROVE  calls[c].budget > 0 /\ calls'[c].budget = calls[c].budget - 1
    <2>1. calls[c].budget \in 0 .. Deadline /\ Deadline \in Nat
      BY <1>1, CallFields, DurationsAssumption
    <2> QED BY <1>2, <1>6, <2>1, ElapseInRange DEF Elapse
  <1>7. ASSUME NEW i \in Ids, NEW c \in Calls, MayStillHold(c)', held[i].ttl > calls[c].budget
        PROVE  MayStillHold(c) /\ held'[i].ttl > calls'[c].budget
    <2>1. MayStillHold(c) /\ calls'[c].budget = calls[c].budget - 1
      BY <1>2, <1>6, <1>7 DEF MayStillHold
    <2>2. calls[c].budget \in 0 .. Deadline /\ Deadline \in Nat /\ calls[c].budget > 0
      BY <1>1, <2>1, CallFields, DurationsAssumption DEF MayStillHold
    <2>3. held'[i].ttl = held[i].ttl - 1
      BY <1>3, <1>7, <2>2 DEF Elapse
    <2> QED BY <1>3, <1>7, <2>1, <2>2, <2>3
  <1>8. ASSUME NEW i \in Ids, NEW a, NEW b, AudioIs(i, a, b)
        PROVE  AudioIs(i, a, b)'
    <2>1. ASSUME NEW c \in Calls, MayStillHold(c)', calls'[c].id = i
          PROVE  held[i].owner # None /\ held'[i].ttl > calls'[c].budget
      <3>1. MayStillHold(c) /\ calls[c].id = i
        BY <1>2, <1>6, <2>1 DEF MayStillHold
      <3>2. held[i].owner # None /\ held[i].ttl > calls[c].budget
        BY <1>8, <3>1 DEF AudioIs
      <3> QED BY <1>7, <2>1, <3>2
    <2> QED BY <1>3, <1>8, <2>1 DEF AudioIs
  <1>9. CompletingFits'
    <2> SUFFICES ASSUME NEW c \in Calls, calls[c].pc = "completing", Owner(c) \notin deleted
                 PROVE  /\ jobs'[calls[c].id].status # "absent"
                        /\ jobs'[calls[c].id].scope = calls[c].scope
      BY <1>1, <1>2 DEF CompletingFits, Owner
    <2>1. calls[c].id \in Ids
      BY <1>1, CallFields
    <2> QED BY <1>5, <2>1 DEF AudioInv, CompletingFits
  <1>10. OthersAudioOutlives'
    <2> SUFFICES ASSUME NEW c \in Calls, MayStillHold(c)',
                        held'[calls'[c].id].owner \notin deleted \cup {None, OwnerOf[calls'[c].scope]}
                 PROVE  held'[calls'[c].id].ttl > calls'[c].budget
      BY <1>1 DEF OthersAudioOutlives, Owner
    <2>1. MayStillHold(c) /\ calls'[c].id = calls[c].id
      BY <1>2, <1>6 DEF MayStillHold
    <2>2. calls[c].id \in Ids
      BY <1>1, <2>1, CallFields DEF MayStillHold
    <2>3. held[calls[c].id].ttl > calls[c].budget
      BY <1>2, <1>3, <2>1, <2>2 DEF AudioInv, OthersAudioOutlives, Owner
    <2> QED BY <1>7, <2>1, <2>2, <2>3
  <1>11. CallAudioFits'
    <2> SUFFICES ASSUME NEW c \in Calls, calls'[c].pc = "completing",
                        calls'[c].storage = "held", calls'[c].budget > 0,
                        Owner(c)' \notin deleted'
                 PROVE  AudioIs(calls[c].id, Owner(c), c)'
      BY DEF CallAudioFits
    <2>1. /\ calls[c].pc = "completing" /\ calls[c].storage = "held" /\ calls[c].budget > 0
          /\ calls'[c].id = calls[c].id /\ Owner(c)' = Owner(c) /\ Owner(c) \notin deleted
      <3>1. /\ calls[c].pc = "completing" /\ calls[c].storage = "held"
            /\ calls'[c].id = calls[c].id /\ calls'[c].scope = calls[c].scope
        BY <1>2
      <3>2. calls[c].budget > 0
        <4>1. calls[c].budget \in 0 .. Deadline /\ Deadline \in Nat
          BY <1>1, CallFields, DurationsAssumption
        <4> QED BY <1>2, <4>1, ElapseInRange DEF Elapse
      <3>3. Owner(c)' = Owner(c) /\ Owner(c) \notin deleted
        BY <1>1, <3>1 DEF Owner
      <3> QED BY <3>1, <3>2, <3>3
    <2>2. AudioIs(calls[c].id, Owner(c), c) /\ calls[c].id \in Ids
      BY <1>1, <2>1, CallFields DEF AudioInv, CallAudioFits
    <2> QED BY <1>8, <2>1, <2>2
  <1>12. RecordAudioFits'
    <2> SUFFICES ASSUME NEW z \in Scopes, records'[z].state = "completed",
                        records'[z].storage = "held", OwnerOf[z] \notin deleted
                 PROVE  AudioIs(records[z].id, OwnerOf[z], records[z].by)'
      BY <1>1 DEF RecordAudioFits
    <2>1. /\ records[z].state = "completed" /\ records[z].storage = "held"
          /\ records'[z].id = records[z].id /\ records'[z].by = records[z].by
      BY <1>4 DEF SameButLease
    <2>2. AudioIs(records[z].id, OwnerOf[z], records[z].by) /\ records[z].id \in Ids
      BY <1>1, <2>1, RecordFields DEF AudioInv, RecordAudioFits
    <2> QED BY <1>8, <2>1, <2>2
  <1>13. QED
    BY <1>9, <1>10, <1>11, <1>12 DEF AudioInv

\* Rows go: expired audio, which no call with time left can replace, or all that
\* a deleted account has.
LEMMA RemovalKeepsAudio ==
    ASSUME Prompt, Inv, AudioInv, CleanAudio \/ \E a \in Accounts : PurgeAccount(a)
    PROVE  AudioInv'
  <1>1. /\ TypeOK /\ StoreTypeOK /\ HeldTypeOK /\ calls' = calls /\ deleted \subseteq deleted'
        /\ NoAudio.owner = None /\ NoRecord.state = "absent"
    BY DEF Inv, TypeOK, CleanAudio, PurgeAccount, NoAudio, NoRecord
  <1>2. \A i \in Ids :
           \/ held'[i] = held[i]
           \/ /\ held'[i] = NoAudio
              /\ held[i].owner # None
              /\ held[i].owner \in deleted' \/ held[i].ttl = 0
    BY SetsAssumption
    DEF CleanAudio, DeleteExpiredAudio, ExpiredAudio, PurgeAccount, DeleteAccountAudio
  <1>3. \A s \in Scopes : records'[s].state = "completed" => records'[s] = records[s]
    BY <1>1 DEF CleanAudio, PurgeAccount, DeleteAccountRows
  <1>4. \A i \in Ids : jobs[i].status # "absent" /\ OwnerOf[jobs[i].scope] \notin deleted' =>
           jobs'[i] = jobs[i]
    BY DEF CleanAudio, PurgeAccount, DeleteAccountRows
  <1>5. ASSUME NEW i \in Ids, NEW a, a \notin deleted', NEW b, AudioIs(i, a, b)
        PROVE  AudioIs(i, a, b)'
    <2>1. ASSUME NEW c \in Calls, MayStillHold(c), calls[c].id = i
          PROVE  held'[i] = held[i] /\ held[i].owner # None /\ held[i].ttl > calls[c].budget
      <3>1. held[i].owner = a /\ held[i].ttl > calls[c].budget /\ held[i].owner # None
        BY <1>5, <2>1 DEF AudioIs
      <3>2. calls[c].budget \in 0 .. Deadline /\ Deadline \in Nat
        BY <1>1, CallFields, DurationsAssumption
      <3>3. held[i].ttl # 0
        BY <3>1, <3>2
      <3> QED BY <1>2, <1>5, <3>1, <3>3
    <2>2. held'[i].owner # None => held'[i] = held[i]
      BY <1>1, <1>2
    <2> QED BY <1>1, <1>5, <2>1, <2>2 DEF AudioIs, MayStillHold
  <1>6. CompletingFits'
    <2> SUFFICES ASSUME NEW c \in Calls, calls[c].pc = "completing", Owner(c) \notin deleted'
                 PROVE  /\ jobs'[calls[c].id].status # "absent"
                        /\ jobs'[calls[c].id].scope = calls[c].scope
      BY <1>1 DEF CompletingFits, Owner
    <2>1. calls[c].id \in Ids
      BY <1>1, CallFields
    <2>2. jobs[calls[c].id].status # "absent" /\ jobs[calls[c].id].scope = calls[c].scope
      BY <1>1 DEF AudioInv, CompletingFits
    <2> QED BY <1>4, <2>1, <2>2 DEF Owner
  <1>7. OthersAudioOutlives'
    <2> SUFFICES ASSUME NEW c \in Calls, MayStillHold(c),
                        held'[calls[c].id].owner \notin deleted' \cup {None, Owner(c)}
                 PROVE  held'[calls[c].id].ttl > calls[c].budget
      BY <1>1 DEF OthersAudioOutlives, Owner, MayStillHold
    <2>1. calls[c].id \in Ids
      BY <1>1, CallFields DEF MayStillHold
    <2>2. held'[calls[c].id] = held[calls[c].id]
      BY <1>1, <1>2, <2>1
    <2> QED BY <1>1, <2>2 DEF AudioInv, OthersAudioOutlives
  <1>8. CallAudioFits'
    <2> SUFFICES ASSUME NEW c \in Calls, calls[c].pc = "completing",
                        calls[c].storage = "held", calls[c].budget > 0,
                        Owner(c) \notin deleted'
                 PROVE  AudioIs(calls[c].id, Owner(c), c)'
      BY <1>1 DEF CallAudioFits, Owner
    <2>1. AudioIs(calls[c].id, Owner(c), c) /\ calls[c].id \in Ids
      BY <1>1, CallFields DEF AudioInv, CallAudioFits
    <2>2. Owner(c)' = Owner(c)
      BY <1>1 DEF Owner
    <2> QED BY <1>1, <1>5, <2>1, <2>2
  <1>9. RecordAudioFits'
    <2> SUFFICES ASSUME NEW z \in Scopes, records'[z].state = "completed",
                        records'[z].storage = "held", OwnerOf[z] \notin deleted'
                 PROVE  AudioIs(records[z].id, OwnerOf[z], records[z].by)'
      BY DEF RecordAudioFits
    <2>1. records'[z] = records[z]
      BY <1>3
    <2>2. AudioIs(records[z].id, OwnerOf[z], records[z].by) /\ records[z].id \in Ids
      BY <1>1, <2>1, RecordFields DEF AudioInv, RecordAudioFits
    <2> QED BY <1>5, <2>1, <2>2
  <1>10. QED
    BY <1>6, <1>7, <1>8, <1>9 DEF AudioInv

\* The inductive step for held audio.
LEMMA NextKeepsAudio ==
    ASSUME Prompt, Inv, AudioInv, [Next]_vars
    PROVE  AudioInv'
  <1>1. CASE \E c \in Calls : CallStep(c)
    BY <1>1, UntouchedSteps, UntouchedKeepsAudio, StartKeepsAudio, HoldKeepsAudio DEF CallStep
  <1>2. CASE Recover \/ CleanRecords \/ UNCHANGED vars
    <2>1. /\ held' = held /\ deleted' = deleted /\ calls' = calls /\ StoreTypeOK
          /\ NoRecord.state = "absent"
      BY <1>2 DEF Recover, CleanRecords, vars, Inv, TypeOK, NoRecord
    <2>2. \A i \in Ids : jobs[i].status # "absent" =>
             jobs'[i].status # "absent" /\ jobs'[i].scope = jobs[i].scope
      BY <1>2, <2>1, RecoverEffect DEF Recover, CleanRecords, DeleteExpiredRecords, vars, SameOrFailed
    <2>3. \A s \in Scopes : records'[s].state = "completed" => records'[s] = records[s]
      BY <1>2, <2>1 DEF Recover, RecoverExpiredJobs, CleanRecords, DeleteExpiredRecords, vars
    <2>4. AudioUntouched
      BY <2>1, <2>2, <2>3 DEF AudioUntouched
    <2> QED BY <2>4, UntouchedKeepsAudio
  <1>3. CASE CleanAudio \/ \E a \in Accounts : PurgeAccount(a)
    BY <1>3, RemovalKeepsAudio
  <1>4. CASE Tick
    BY <1>4, TickKeepsAudio
  <1>5. QED
    BY <1>1, <1>2, <1>3, <1>4 DEF Next

\* When the deadline cuts calls on time, the audio held for a completed record is
\* that of the attempt that completed it: neither an interrupted attempt nor a
\* call that outlived its deleted account ever replaces it.
THEOREM HeldAudioIsTheAnswer == ASSUME Prompt PROVE Spec => []HeldIsTheAnswer
  <1>1. Init => AudioInv
    <2> SUFFICES ASSUME Init PROVE AudioInv
      OBVIOUS
    <2>1. /\ \A s \in Scopes : records[s].state = "absent"
          /\ \A c \in Calls : calls[c].pc = "idle"
      BY DEF Init, StoreInit, NoRecord, Idle
    <2> QED BY <2>1
         DEF AudioInv, CompletingFits, OthersAudioOutlives, CallAudioFits, RecordAudioFits,
             MayStillHold
  <1>2. Inv /\ AudioInv /\ [Next]_vars => AudioInv'
    BY NextKeepsAudio
  <1>3. AudioInv => HeldIsTheAnswer
    BY DEF AudioInv, RecordAudioFits, AudioIs, HeldIsTheAnswer
  <1>4. QED
    BY <1>1, <1>2, <1>3, Invariance, PTL DEF Spec
=============================================================================
