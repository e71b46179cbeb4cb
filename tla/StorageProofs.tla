---------------------------- MODULE StorageProofs ----------------------------
(***************************************************************************)
(* Waveform's Briefcase access for one account                             *)
(* (infrastructure/storage_proofs.rs): the proof row, the requests that    *)
(* use, renew or approve it under the account's advisory lock across their *)
(* calls to Silicon Accounts, and the revocations and webhooks that update *)
(* the row without that lock.  Rows of different accounts share nothing.   *)
(*                                                                         *)
(* A token [proof, gen] stands for the pair (proof token, refresh token)   *)
(* after gen rotations of a proof.  The time at which tokens expire only   *)
(* matters as "enough of it is left".                                      *)
(***************************************************************************)
EXTENDS Naturals

CONSTANTS
    Requests,   \* tasks that use, renew or approve the access
    Subjects,   \* access tokens of the account itself
    Proofs,     \* proof ids Silicon Accounts may issue
    MaxGen,     \* bound: rotations of one proof
    None

ASSUME ProofsAssumption ==
    /\ None \notin Requests \cup Subjects \cup Proofs
    /\ None \notin {"use", "renew", "approve"}
    /\ MaxGen \in Nat

VARIABLES
    row,            \* waveform_storage_proofs of the account
    lock,           \* the holder of the advisory transaction lock
    requests,       \* each task
    revocations,    \* proofs whose best-effort revocation is under way
    remote,         \* Silicon Accounts: each proof
    issued          \* Silicon Accounts: the answers kept by idempotency key

vars == <<row, lock, requests, revocations, remote, issued>>

NoToken == [proof |-> None, gen |-> 0]
Tokens == [proof : Proofs, gen : 0 .. MaxGen]

\* fresh: more than MINIMUM_REMAINING is left of the token; renewable: there is
\* a refresh token that has not expired.
NoRow == [status |-> "missing", token |-> NoToken, fresh |-> FALSE,
          renewable |-> FALSE, reason |-> None]

ActiveRows == [status : {"active"}, token : Tokens, fresh : BOOLEAN,
               renewable : BOOLEAN, reason : {None}]

\* is_explicit divides the reasons; an ended row keeps its proof id only.
EndedRows == [status : {"ended"}, token : [proof : Proofs, gen : {0}],
              fresh : {FALSE}, renewable : {FALSE},
              reason : {"explicit", "other"}]

\* Where a request is:
\*   refreshing  waits for refresh_proof with the refresh token it read
\*   refused     refresh_proof was refused, for the reason in verdict
\*   issuing     waits for issue_user_verification
\*   saving      has the answer, about to save and commit
\*   using       has a proof and no lock; revoking: approve after its commit
InLock == {"refreshing", "refused", "issuing", "saving"}
Places == InLock \cup {"idle", "using", "revoking"}

IdleRequest ==
    [pc |-> "idle", kind |-> None, subject |-> None, token |-> NoToken,
     refused |-> NoToken, replaced |-> None, ending |-> FALSE,
     prior |-> None, verdict |-> None]

RequestTypes ==
    [pc : Places, kind : {"use", "renew", "approve", None},
     subject : Subjects \cup {None}, token : Tokens \cup {NoToken},
     refused : Tokens \cup {NoToken}, replaced : Proofs \cup {None},
     ending : BOOLEAN, prior : Proofs \cup {None},
     verdict : {"explicit", "other", None}]

\* The shape of the row, of the tasks and of what Silicon Accounts keeps.
ProofsTypeOK ==
    /\ row \in {NoRow} \cup ActiveRows \cup EndedRows
    /\ lock \in Requests \cup {None}
    /\ requests \in [Requests -> RequestTypes]
    /\ revocations \subseteq Proofs
    /\ remote \in [Proofs -> [state : {"unissued", "alive", "ended", "revoked"},
                              gen : 0 .. MaxGen]]
    /\ issued \in [Subjects \X (Proofs \cup {None}) -> Proofs \cup {None}]

ProofsInit ==
    /\ row = NoRow
    /\ lock = None
    /\ requests = [r \in Requests |-> IdleRequest]
    /\ revocations = {}
    /\ remote = [p \in Proofs |-> [state |-> "unissued", gen |-> 0]]
    /\ issued = [k \in Subjects \X (Proofs \cup {None}) |-> None]
-----------------------------------------------------------------------------
Active == row.status = "active"
Explicit == row.status = "ended" /\ row.reason = "explicit"

\* The UPDATE shared by invalidate, revoke and the webhooks.
Ended(reason) == [NoRow EXCEPT !.status = "ended", !.reason = reason,
                               !.token = [NoToken EXCEPT !.proof = row.token.proof]]

Put(r, req) == requests' = [requests EXCEPT ![r] = req]

\* Faulty variant: no advisory lock.
MayEnterAlways == TRUE

\* lock: pg_advisory_xact_lock, held until commit or rollback
MayEnter == lock = None

\* A proof is handed out; the transaction is over.
HandOut(r, req, token) ==
    /\ Put(r, [req EXCEPT !.pc = "using", !.token = token, !.ending = FALSE,
                          !.replaced = None, !.verdict = None])
    /\ lock' = None

Refresh(r, req) ==
    /\ Put(r, [req EXCEPT !.pc = "refreshing", !.token = row.token])
    /\ lock' = r
    /\ UNCHANGED row

\* invalidate an active row, then replace: without the account's own token, or
\* after a decision to revoke, only the invalidation is committed.  Otherwise
\* the row stays locked, with the invalidation pending, while a proof is issued.
Replace(r, req) ==
    IF req.subject = None \/ Explicit
    THEN /\ row' = IF Active THEN Ended("other") ELSE row
         /\ Put(r, IdleRequest)
         /\ lock' = None
    ELSE /\ Put(r, [req EXCEPT !.pc = "issuing", !.replaced = row.token.proof,
                               !.ending = Active, !.verdict = None])
         /\ lock' = r
         /\ UNCHANGED row

\* briefcase_proof up to its first call to Silicon Accounts
UseProof(r, u) ==
    LET req == [IdleRequest EXCEPT !.kind = "use", !.subject = u] IN
    /\ requests[r].pc = "idle"
    /\ MayEnter
    /\ \/ Active /\ row.fresh /\ HandOut(r, req, row.token) /\ UNCHANGED row
       \/ Active /\ ~row.fresh /\ row.renewable /\ Refresh(r, req)
       \/ ~(Active /\ (row.fresh \/ row.renewable)) /\ Replace(r, req)
    /\ UNCHANGED <<revocations, remote, issued>>

\* The token Briefcase refuses: with_renewal starts from the proof it was given.
RefusedToken(r) ==
    IF requests[r].kind = "use" THEN requests[r].token ELSE requests[r].refused

\* Faulty variant: any fresh row is taken for a replacement.
AlreadyRenewedIfFresh(t) == Active /\ row.fresh

AlreadyRenewed(t) == Active /\ row.token # t /\ row.fresh

\* renew_refused_proof up to its first call to Silicon Accounts
RenewProof(r) ==
    LET t   == RefusedToken(r)
        req == [requests[r] EXCEPT !.kind = "renew", !.refused = t]
    IN
    /\ requests[r].pc = "using"
    /\ MayEnter
    /\ \/ AlreadyRenewed(t) /\ HandOut(r, req, row.token) /\ UNCHANGED row
       \/ Active /\ ~AlreadyRenewed(t) /\ row.renewable /\ Refresh(r, req)
       \/ ~AlreadyRenewed(t) /\ ~(Active /\ row.renewable) /\ Replace(r, req)
    /\ UNCHANGED <<revocations, remote, issued>>

\* approve up to issue_user_verification
Approve(r, u) ==
    /\ requests[r].pc = "idle"
    /\ MayEnter
    /\ Put(r, [IdleRequest EXCEPT !.kind = "approve", !.subject = u, !.pc = "issuing",
                    !.replaced = row.token.proof,
                    !.prior = IF Active THEN row.token.proof ELSE None])
    /\ lock' = r
    /\ UNCHANGED <<row, revocations, remote, issued>>
-----------------------------------------------------------------------------
(***************************************************************************)
(* Silicon Accounts                                                        *)
(***************************************************************************)

\* refresh_proof: rotates once per refresh token; a retry with the same key
\* gets the same pair.
RemoteRefresh(r) ==
    LET p == requests[r].token.proof
        g == requests[r].token.gen
        Answer(n) == Put(r, [requests[r] EXCEPT !.pc = "saving", !.token.gen = n])
        Refuse(v) == Put(r, [requests[r] EXCEPT !.pc = "refused", !.verdict = v])
    IN
    /\ requests[r].pc = "refreshing"
    /\ \/ /\ remote[p] = [state |-> "alive", gen |-> g]
          /\ g < MaxGen
          /\ remote' = [remote EXCEPT ![p].gen = g + 1]
          /\ Answer(g + 1)
       \/ /\ remote[p].gen = g + 1
          /\ Answer(g + 1)
          /\ UNCHANGED remote
       \/ /\ remote[p].state = "revoked"
          /\ Refuse("explicit")
          /\ UNCHANGED remote
       \/ /\ remote[p].state = "ended"
          /\ Refuse("other")
          /\ UNCHANGED remote
    /\ UNCHANGED <<row, lock, revocations, issued>>

\* Faulty variant: the key does not name the proof that is replaced.
IssueKeyOfSubject(req) == <<req.subject, None>>

\* issue: the idempotency key
IssueKey(req) == <<req.subject, req.replaced>>

\* issue_user_verification: the answer kept under the key, or a new proof
RemoteIssue(r) ==
    LET key == IssueKey(requests[r])
        Answer(p) == Put(r, [requests[r] EXCEPT !.pc = "saving",
                                !.token = [NoToken EXCEPT !.proof = p]])
    IN
    /\ requests[r].pc = "issuing"
    /\ \/ /\ issued[key] # None
          /\ Answer(issued[key])
          /\ UNCHANGED <<remote, issued>>
       \/ \E p \in Proofs :
            /\ issued[key] = None
            /\ remote[p].state = "unissued"
            /\ remote' = [remote EXCEPT ![p].state = "alive"]
            /\ issued' = [issued EXCEPT ![key] = p]
            /\ Answer(p)
    /\ UNCHANGED <<row, lock, revocations>>

\* The account revokes a proof at Silicon Accounts, or its sign-in ends.
RemoteEnd(p) ==
    /\ remote[p].state = "alive"
    /\ \E s \in {"ended", "revoked"} : remote' = [remote EXCEPT ![p].state = s]
    /\ UNCHANGED <<row, lock, requests, revocations, issued>>

\* revoke_remote_by_id, best effort
RemoteRevoke(p) ==
    /\ p \in revocations
    /\ revocations' = revocations \ {p}
    /\ \/ remote[p].state = "alive" /\
            \E s \in {"ended", "revoked"} : remote' = [remote EXCEPT ![p].state = s]
       \/ UNCHANGED remote
    /\ UNCHANGED <<row, lock, requests, issued>>
-----------------------------------------------------------------------------
(***************************************************************************)
(* The rest of the transaction                                             *)
(***************************************************************************)

\* A refused refresh: an explicit one ends the access; otherwise, or for use
\* when the row has ended meanwhile, a replacement is tried.
RefreshRefused(r) ==
    LET req == requests[r] IN
    /\ req.pc = "refused"
    /\ IF req.verdict = "explicit" /\ (Active \/ req.kind = "renew")
       THEN /\ row' = IF Active THEN Ended("explicit") ELSE row
            /\ Put(r, IdleRequest)
            /\ lock' = None
       ELSE Replace(r, req)
    /\ UNCHANGED <<revocations, remote, issued>>

\* issue fails or its answer is lost: approve rolls back, the others commit
\* what they learnt.
IssueFails(r) ==
    /\ requests[r].pc \in {"issuing", "saving"}
    /\ row' = IF requests[r].ending THEN Ended("other") ELSE row
    /\ Put(r, IdleRequest)
    /\ lock' = None
    /\ UNCHANGED <<revocations, remote, issued>>

\* save and commit: the upsert writes over whatever the row has become.
Save(r) ==
    LET req == requests[r] IN
    /\ req.pc = "saving"
    /\ \E renewable \in BOOLEAN :
         row' = [status |-> "active", token |-> req.token, fresh |-> TRUE,
                 renewable |-> renewable, reason |-> None]
    /\ IF req.kind # "approve"
       THEN HandOut(r, req, req.token)
       ELSE /\ Put(r, IF req.prior = None THEN IdleRequest
                      ELSE [IdleRequest EXCEPT !.pc = "revoking", !.kind = "approve",
                                               !.prior = req.prior])
            /\ lock' = None
    /\ UNCHANGED <<revocations, remote, issued>>

\* A timeout, a database error or a dropped future: the transaction is rolled
\* back and the lock is free.
Cut(r) ==
    /\ lock = r
    /\ Put(r, IdleRequest)
    /\ lock' = None
    /\ UNCHANGED <<row, revocations, remote, issued>>

\* The request is over; approve may also be dropped before it revokes.
Finish(r) ==
    /\ requests[r].pc \in {"using", "revoking"}
    /\ revocations' \in {revocations} \cup
            IF requests[r].pc = "revoking"
            THEN {revocations \cup {requests[r].prior}} ELSE {}
    /\ Put(r, IdleRequest)
    /\ UNCHANGED <<row, lock, remote, issued>>
-----------------------------------------------------------------------------
(***************************************************************************)
(* Writers without the advisory lock, and the clock                        *)
(***************************************************************************)

\* revoke (by the account or its custodian) and end_sign_ins (webhooks): one
\* UPDATE, which waits for the row lock of a pending invalidation.
Invalidate(reason) ==
    /\ Active
    /\ \A r \in Requests : ~requests[r].ending
    /\ row' = Ended(reason)
    /\ revocations' = revocations \cup {row.token.proof}
    /\ UNCHANGED <<lock, requests, remote, issued>>

\* The token, then the refresh token, runs out.
Expire ==
    /\ Active
    /\ \/ row.fresh /\ row' = [row EXCEPT !.fresh = FALSE]
       \/ row.renewable /\ row' = [row EXCEPT !.renewable = FALSE]
    /\ UNCHANGED <<lock, requests, revocations, remote, issued>>

ProofsNext ==
    \/ \E r \in Requests :
        \/ \E u \in Subjects \cup {None} : UseProof(r, u)
        \/ \E u \in Subjects : Approve(r, u)
        \/ RenewProof(r)
        \/ RemoteRefresh(r)
        \/ RemoteIssue(r)
        \/ RefreshRefused(r)
        \/ IssueFails(r)
        \/ Save(r)
        \/ Cut(r)
        \/ Finish(r)
    \/ \E p \in Proofs : RemoteEnd(p) \/ RemoteRevoke(p)
    \/ \E reason \in {"explicit", "other"} : Invalidate(reason)
    \/ Expire

ProofsSpec == ProofsInit /\ [][ProofsNext]_vars
-----------------------------------------------------------------------------
\* storage_proofs.rs 3-6: no spent refresh token is ever presented.  The token
\* a request presents is the newest of its proof, or the one before it when the
\* answer to an earlier presentation was lost.
NeverReuses ==
    \A r \in Requests : requests[r].pc = "refreshing" =>
        remote[requests[r].token.proof].gen \in
            {requests[r].token.gen, requests[r].token.gen + 1}

\* with_renewal tries once more, so what renew_refused_proof hands out is never
\* the token that Briefcase has just refused.
RenewedDiffers ==
    \A r \in Requests : requests[r].pc = "using" /\ requests[r].kind = "renew" =>
        requests[r].token # requests[r].refused

\* The proof that approve goes on to revoke, after its commit and without the
\* lock, is not the one that the account's row then stands on.
ApprovalSurvives ==
    \A r \in Requests : requests[r].pc = "revoking" /\ Active =>
        row.token.proof # requests[r].prior

\* After a decision to revoke, only approve puts another proof in the row.
OnlyApprovalReplaces ==
    [][Explicit /\ Active' /\ row'.token.proof # row.token.proof =>
        \E r \in Requests : requests[r].kind = "approve" /\ requests[r].pc = "saving"
                            /\ lock = r]_vars

\* storage_proofs.rs 38-41: speech never gives the access back by itself after
\* a decision to revoke; only approve makes the row active again.
RevocationIsFinal ==
    [][Explicit /\ Active' =>
        \E r \in Requests : requests[r].kind = "approve" /\ lock = r]_vars
=============================================================================
