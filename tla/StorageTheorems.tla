--------------------------- MODULE StorageTheorems ---------------------------
(***************************************************************************)
(* Proofs about StorageProofs: its types, that no refresh token is         *)
(* presented after it has been spent, that approve and revocation are      *)
(* kept, and that a renewal hands out another token.                       *)
(***************************************************************************)
EXTENDS StorageInvariants, TLAPS

\* The fields of a row that is there.
LEMMA RowFields ==
    ASSUME ProofsTypeOK
    PROVE  /\ row.status \in {"missing", "active", "ended"}
           /\ row.token \in Tokens \cup {NoToken}
           /\ row.token.proof \in Proofs \cup {None}
           /\ Active => row \in ActiveRows /\ row.token \in Tokens /\ row.token.proof \in Proofs
           /\ Explicit => row \in EndedRows /\ row.token.proof \in Proofs
  <1>1. CASE row = NoRow
    BY <1>1 DEF NoRow, NoToken, Active, Explicit
  <1>2. CASE row \in ActiveRows
    BY <1>2 DEF ActiveRows, Tokens, Active, Explicit
  <1>3. CASE row \in EndedRows
    <2>1. row.token.gen = 0 /\ 0 \in 0 .. MaxGen
      BY <1>3, ProofsAssumption DEF EndedRows
    <2>2. row.token = [proof |-> row.token.proof, gen |-> 0] /\ row.token.proof \in Proofs
      BY <1>3 DEF EndedRows
    <2>3. row.token \in Tokens
      BY <2>1, <2>2 DEF Tokens
    <2> QED BY <1>3, <2>2, <2>3 DEF EndedRows, Active, Explicit
  <1> QED BY <1>1, <1>2, <1>3 DEF ProofsTypeOK

\* The fields of a request.
LEMMA RequestFields ==
    ASSUME ProofsTypeOK, NEW r \in Requests
    PROVE  /\ requests[r] \in RequestTypes
           /\ requests[r].pc \in Places
           /\ requests[r].token \in Tokens \cup {NoToken}
           /\ requests[r].refused \in Tokens \cup {NoToken}
           /\ requests[r].subject \in Subjects \cup {None}
           /\ requests[r].prior \in Proofs \cup {None}
           /\ requests[r].ending \in BOOLEAN
  BY DEF ProofsTypeOK, RequestTypes

\* Put writes one request.
LEMMA PutEffect ==
    ASSUME ProofsTypeOK, NEW r \in Requests, NEW req \in RequestTypes, Put(r, req)
    PROVE  /\ requests' \in [Requests -> RequestTypes]
           /\ requests'[r] = req
           /\ \A k \in Requests \ {r} : requests'[k] = requests[k]
  BY DEF ProofsTypeOK, Put

\* A request that has nothing is a request.
LEMMA IdleTyped ==
    /\ IdleRequest \in RequestTypes
    /\ IdleRequest.pc = "idle"
    /\ ~IdleRequest.ending
    /\ IdleRequest.kind # "approve"
  BY ProofsAssumption DEF IdleRequest, RequestTypes, Places, InLock

\* An ended row keeps the proof id of the row.
LEMMA EndedEffect ==
    ASSUME ProofsTypeOK, Active, NEW reason \in {"explicit", "other"}
    PROVE  /\ Ended(reason) \in EndedRows
           /\ Ended(reason).token.proof = row.token.proof
           /\ Ended(reason).status = "ended"
  BY RowFields DEF Ended, NoRow, EndedRows, NoToken
-----------------------------------------------------------------------------
\* The row stays, or is invalidated.
KeptOrEnded ==
    \/ row' = row
    \/ Active /\ \E reason \in {"explicit", "other"} : row' = Ended(reason)

\* The proof id of the row survives both, and an active row has not changed.
LEMMA KeptOrEndedEffect ==
    ASSUME ProofsTypeOK, KeptOrEnded
    PROVE  /\ row' \in {NoRow} \cup ActiveRows \cup EndedRows
           /\ row'.token.proof = row.token.proof
           /\ Active' => Active /\ row' = row
  <1>1. CASE row' = row
    BY <1>1 DEF ProofsTypeOK, Active
  <1>2. CASE Active /\ \E reason \in {"explicit", "other"} : row' = Ended(reason)
    BY <1>2, EndedEffect DEF Active
  <1> QED BY <1>1, <1>2 DEF KeptOrEnded

\* A step takes a request out of its transaction, keeping or ending the row.
Left(r, req) ==
    /\ req \in RequestTypes
    /\ req.pc \in {"idle", "using"}
    /\ req.kind # "approve"
    /\ ~req.ending
    /\ Put(r, req)
    /\ \/ lock \in {None, r} /\ lock' = None /\ KeptOrEnded
       \/ lock # r /\ lock' = lock /\ row' = row
    /\ revocations' \subseteq Proofs
    /\ remote' = remote
    /\ issued' = issued

\* Leaving a transaction keeps the invariant.
LEMMA LeftKeepsInv ==
    ASSUME ProofsInv, NEW r \in Requests, NEW req, Left(r, req)
    PROVE  ProofsInv'
  <1>1. ProofsTypeOK
    BY DEF ProofsInv
  <1>2. KeptOrEnded
    BY DEF Left, KeptOrEnded
  <1>3. /\ row' \in {NoRow} \cup ActiveRows \cup EndedRows
        /\ row'.token.proof = row.token.proof
        /\ Active' => Active /\ row' = row
    BY <1>1, <1>2, KeptOrEndedEffect
  <1>4. /\ requests' \in [Requests -> RequestTypes]
        /\ requests'[r] = req
        /\ \A k \in Requests \ {r} : requests'[k] = requests[k]
    BY <1>1, PutEffect DEF Left
  <1>5. ProofsTypeOK'
    BY <1>1, <1>3, <1>4 DEF ProofsTypeOK, Left
  <1>6. LockHeld'
    BY <1>4, ProofsAssumption DEF ProofsInv, LockHeld, Left, ProofsTypeOK, InLock
  <1>7. ASSUME NEW k \in Requests, requests'[k].pc \in InLock \/ requests'[k].ending
        PROVE  k # r /\ requests'[k] = requests[k] /\ row' = row
    <2>1. k # r /\ requests'[k] = requests[k]
      BY <1>4, <1>7 DEF Left, InLock
    <2>2. requests[k].pc \in InLock
      BY <1>7, <2>1 DEF ProofsInv, EndingFits, InLock
    <2>3. lock = k
      BY <2>2 DEF ProofsInv, LockHeld
    <2> QED BY <2>1, <2>3, ProofsAssumption DEF Left
  <1>8. RefreshFits'
    BY <1>7 DEF ProofsInv, RefreshFits, Left, Gen, Active, InLock
  <1>9. IssueFits'
    BY <1>7 DEF ProofsInv, IssueFits, Left, InLock
  <1>10. EndingFits'
    BY <1>7 DEF ProofsInv, EndingFits, Left, Active
  <1>11. SaveFits'
    BY <1>7 DEF ProofsInv, SaveFits, Left, Gen, InLock
  <1>12. RowFits'
    BY <1>3 DEF ProofsInv, RowFits, Left, Gen
  <1>13. UnissuedFits' /\ IssuedFits'
    BY <1>3 DEF ProofsInv, UnissuedFits, IssuedFits, Left, Gen
  <1>14. ReplaceFits'
    BY <1>7 DEF ProofsInv, ReplaceFits, Active, Explicit, InLock
  <1>15. ApproveFits'
    BY <1>3, <1>4 DEF ProofsInv, ApproveFits, Left
  <1>16. PriorFits'
    BY <1>3, <1>4 DEF ProofsInv, PriorFits, Left
  <1> QED BY <1>5, <1>6, <1>8, <1>9, <1>10, <1>11, <1>12, <1>13, <1>14, <1>15, <1>16
          DEF ProofsInv
-----------------------------------------------------------------------------
\* A request begins to wait for Silicon Accounts, for the proof of the row.
Waits(r, req) ==
    /\ req \in RequestTypes
    /\ lock \in {None, r}
    /\ lock' = r
    /\ Put(r, req)
    /\ \/ /\ req.pc = "refreshing"
          /\ Active
          /\ req.token = row.token
          /\ ~req.ending
          /\ req.kind # "approve"
       \/ /\ req.pc = "issuing"
          /\ req.subject \in Subjects
          /\ req.replaced = row.token.proof
          /\ req.ending => Active
          /\ \/ req.kind = "approve" /\ req.prior \in {None, row.token.proof}
             \/ req.kind # "approve" /\ ~Explicit /\ (Active => req.ending)
    /\ UNCHANGED <<row, revocations, remote, issued>>

\* So does beginning to wait.
LEMMA WaitsKeepsInv ==
    ASSUME ProofsInv, NEW r \in Requests, NEW req, Waits(r, req)
    PROVE  ProofsInv'
  <1>1. ProofsTypeOK
    BY DEF ProofsInv
  <1>2. /\ requests' \in [Requests -> RequestTypes]
        /\ requests'[r] = req
        /\ \A k \in Requests \ {r} : requests'[k] = requests[k]
    BY <1>1, PutEffect DEF Waits
  <1>3. ProofsTypeOK'
    BY <1>1, <1>2 DEF ProofsTypeOK, Waits
  <1>4. \A k \in Requests \ {r} : requests'[k].pc \notin InLock /\ ~requests'[k].ending
    BY <1>2, ProofsAssumption DEF ProofsInv, LockHeld, EndingFits, Waits, InLock
  <1>5. LockHeld'
    BY <1>2, <1>4 DEF LockHeld, Waits, InLock
  <1>6. RefreshFits'
    BY <1>1, <1>2, <1>4, RowFields DEF ProofsInv, RefreshFits, RowFits, Waits, Gen, Active, InLock
  <1>7. IssueFits' /\ EndingFits' /\ SaveFits'
    BY <1>2, <1>4 DEF IssueFits, EndingFits, SaveFits, Waits, Active, InLock
  <1>8. RowFits' /\ UnissuedFits' /\ IssuedFits'
    BY DEF ProofsInv, RowFits, UnissuedFits, IssuedFits, Waits, Gen, Active
  <1>9. ReplaceFits' /\ ApproveFits' /\ PriorFits'
    BY <1>2, <1>4 DEF ProofsInv, ReplaceFits, ApproveFits, PriorFits, Waits, Active, Explicit, InLock
  <1> QED BY <1>3, <1>5, <1>6, <1>7, <1>8, <1>9 DEF ProofsInv

\* replace leaves the transaction or waits for a proof.
LEMMA ReplaceKeepsInv ==
    ASSUME ProofsInv, NEW r \in Requests, NEW req \in RequestTypes, lock \in {None, r},
           ~req.ending, req.kind # "approve", Replace(r, req), UNCHANGED <<revocations, remote, issued>>
    PROVE  ProofsInv'
  <1>1. ProofsTypeOK
    BY DEF ProofsInv
  <1>2. CASE req.subject = None \/ Explicit
    <2>1. Left(r, IdleRequest)
      BY <1>1, <1>2, IdleTyped DEF Replace, Left, KeptOrEnded, ProofsTypeOK, InLock
    <2> QED BY <2>1, LeftKeepsInv
  <1>3. CASE ~(req.subject = None \/ Explicit)
    <2> DEFINE new == [req EXCEPT !.pc = "issuing", !.replaced = row.token.proof,
                                  !.ending = Active, !.verdict = None]
    <2>1. Active \in BOOLEAN
      BY DEF Active
    <2>2. /\ new \in RequestTypes
          /\ new.pc = "issuing" /\ new.subject \in Subjects
          /\ new.replaced = row.token.proof /\ new.ending = Active
          /\ new.kind # "approve"
      BY <1>1, <1>3, <2>1, RowFields DEF RequestTypes, Places, InLock
    <2>3. Waits(r, new)
      BY <1>3, <2>2 DEF Replace, Waits
    <2> QED BY <2>3, WaitsKeepsInv
  <1> QED BY <1>2, <1>3
-----------------------------------------------------------------------------
(***************************************************************************)
(* One lemma per action                                                    *)
(***************************************************************************)

\* A proof of the row is handed out.
LEMMA HandOutKeepsInv ==
    ASSUME ProofsInv, NEW r \in Requests, NEW req \in RequestTypes, MayEnter, Active,
           req.kind # "approve", HandOut(r, req, row.token),
           UNCHANGED <<row, revocations, remote, issued>>
    PROVE  ProofsInv'
  <1> DEFINE new == [req EXCEPT !.pc = "using", !.token = row.token, !.ending = FALSE,
                                !.replaced = None, !.verdict = None]
  <1>1. ProofsTypeOK
    BY DEF ProofsInv
  <1>2. /\ new \in RequestTypes
        /\ new.pc = "using" /\ ~new.ending /\ new.kind # "approve"
    BY <1>1, RowFields DEF RequestTypes, Places
  <1>3. Left(r, new)
    BY <1>1, <1>2 DEF HandOut, Left, KeptOrEnded, ProofsTypeOK, MayEnter
  <1> QED BY <1>3, LeftKeepsInv

\* The token of an active row is presented to Silicon Accounts.
LEMMA RefreshKeepsInv ==
    ASSUME ProofsInv, NEW r \in Requests, NEW req \in RequestTypes, MayEnter, Active,
           req.kind # "approve", ~req.ending, Refresh(r, req),
           UNCHANGED <<revocations, remote, issued>>
    PROVE  ProofsInv'
  <1> DEFINE new == [req EXCEPT !.pc = "refreshing", !.token = row.token]
  <1>1. ProofsTypeOK
    BY DEF ProofsInv
  <1>2. /\ new \in RequestTypes
        /\ new.pc = "refreshing" /\ ~new.ending /\ new.kind # "approve"
        /\ new.token = row.token
    BY <1>1, RowFields DEF RequestTypes, Places, InLock
  <1>3. Waits(r, new)
    BY <1>2 DEF Refresh, Waits, MayEnter
  <1> QED BY <1>3, WaitsKeepsInv

\* briefcase_proof hands out, refreshes or replaces the proof of the row.
LEMMA UseKeepsInv ==
    ASSUME ProofsInv, NEW r \in Requests, NEW u \in Subjects \cup {None}, UseProof(r, u)
    PROVE  ProofsInv'
  <1> DEFINE req == [IdleRequest EXCEPT !.kind = "use", !.subject = u]
  <1>1. req \in RequestTypes /\ req.kind # "approve" /\ ~req.ending
    BY DEF IdleRequest, RequestTypes, Places, InLock
  <1>2. MayEnter /\ lock \in {None, r} /\ UNCHANGED <<revocations, remote, issued>>
    BY DEF UseProof, MayEnter
  <1>3. CASE Active /\ row.fresh /\ HandOut(r, req, row.token) /\ UNCHANGED row
    BY <1>1, <1>2, <1>3, HandOutKeepsInv
  <1>4. CASE Active /\ ~row.fresh /\ row.renewable /\ Refresh(r, req)
    BY <1>1, <1>2, <1>4, RefreshKeepsInv
  <1>5. CASE Replace(r, req)
    BY <1>1, <1>2, <1>5, ReplaceKeepsInv
  <1> QED BY <1>3, <1>4, <1>5 DEF UseProof

\* So does renew_refused_proof.
LEMMA RenewKeepsInv ==
    ASSUME ProofsInv, NEW r \in Requests, RenewProof(r)
    PROVE  ProofsInv'
  <1> DEFINE t == RefusedToken(r)
             req == [requests[r] EXCEPT !.kind = "renew", !.refused = t]
  <1>0. ProofsTypeOK
    BY DEF ProofsInv
  <1>1. t \in Tokens \cup {NoToken} /\ requests[r] \in RequestTypes
    BY <1>0, RequestFields DEF RefusedToken
  <1>2. requests[r].pc = "using" /\ ~requests[r].ending
    BY DEF RenewProof, ProofsInv, EndingFits
  <1>3. req \in RequestTypes /\ req.kind # "approve" /\ ~req.ending
    BY <1>1, <1>2 DEF RequestTypes
  <1>4. MayEnter /\ lock \in {None, r} /\ UNCHANGED <<revocations, remote, issued>>
    BY DEF RenewProof, MayEnter
  <1>5. CASE AlreadyRenewed(t) /\ HandOut(r, req, row.token) /\ UNCHANGED row
    <2>1. Active
      BY <1>5 DEF AlreadyRenewed
    <2> QED BY <1>3, <1>4, <1>5, <2>1, HandOutKeepsInv
  <1>6. CASE Active /\ Refresh(r, req)
    BY <1>3, <1>4, <1>6, RefreshKeepsInv
  <1>7. CASE Replace(r, req)
    BY <1>3, <1>4, <1>7, ReplaceKeepsInv
  <1> QED BY <1>5, <1>6, <1>7 DEF RenewProof

\* approve waits for a proof in place of the row's.
LEMMA ApproveKeepsInv ==
    ASSUME ProofsInv, NEW r \in Requests, NEW u \in Subjects, Approve(r, u)
    PROVE  ProofsInv'
  <1> DEFINE prior == IF Active THEN row.token.proof ELSE None
             new == [IdleRequest EXCEPT !.kind = "approve", !.subject = u, !.pc = "issuing",
                                        !.replaced = row.token.proof, !.prior = prior]
  <1>0. ProofsTypeOK
    BY DEF ProofsInv
  <1>1. prior \in Proofs \cup {None} /\ prior \in {None, row.token.proof}
    BY <1>0, RowFields
  <1>2. /\ new \in RequestTypes
        /\ new.pc = "issuing" /\ new.kind = "approve" /\ ~new.ending
        /\ new.subject = u /\ new.replaced = row.token.proof /\ new.prior = prior
    BY <1>0, <1>1, RowFields DEF IdleRequest, RequestTypes, Places, InLock
  <1>3. Waits(r, new)
    BY <1>1, <1>2 DEF Approve, Waits, MayEnter
  <1> QED BY <1>3, WaitsKeepsInv

\* A refused refresh ends the access or replaces the proof.
LEMMA RefusedKeepsInv ==
    ASSUME ProofsInv, NEW r \in Requests, RefreshRefused(r)
    PROVE  ProofsInv'
  <1>0. ProofsTypeOK
    BY DEF ProofsInv
  <1>1. /\ requests[r] \in RequestTypes /\ requests[r].pc = "refused"
        /\ ~requests[r].ending /\ requests[r].kind # "approve" /\ lock = r
    BY <1>0, RequestFields
       DEF RefreshRefused, ProofsInv, EndingFits, ApproveFits, LockHeld, InLock
  <1>2. CASE Replace(r, requests[r])
    BY <1>1, <1>2, ReplaceKeepsInv DEF RefreshRefused
  <1>3. CASE /\ row' = IF Active THEN Ended("explicit") ELSE row
             /\ Put(r, IdleRequest)
             /\ lock' = None
    <2>1. Left(r, IdleRequest)
      BY <1>0, <1>1, <1>3, IdleTyped DEF RefreshRefused, Left, KeptOrEnded, ProofsTypeOK
    <2> QED BY <2>1, LeftKeepsInv
  <1> QED BY <1>2, <1>3 DEF RefreshRefused

\* A request gives up or is over.
LEMMA EndsKeepInv ==
    ASSUME ProofsInv, NEW r \in Requests, IssueFails(r) \/ Cut(r) \/ Finish(r)
    PROVE  ProofsInv'
  <1>0. ProofsTypeOK
    BY DEF ProofsInv
  <1>1. CASE IssueFails(r)
    <2>1. lock = r
      BY <1>1 DEF IssueFails, ProofsInv, LockHeld, InLock
    <2>2. KeptOrEnded
      BY <1>1 DEF IssueFails, KeptOrEnded, ProofsInv, EndingFits
    <2>3. Left(r, IdleRequest)
      BY <1>0, <1>1, <2>1, <2>2, IdleTyped DEF IssueFails, Left, ProofsTypeOK
    <2> QED BY <2>3, LeftKeepsInv
  <1>2. CASE Cut(r)
    <2>1. Left(r, IdleRequest)
      BY <1>0, <1>2, IdleTyped DEF Cut, Left, KeptOrEnded, ProofsTypeOK
    <2> QED BY <2>1, LeftKeepsInv
  <1>3. CASE Finish(r)
    <2>1. lock # r
      BY <1>3 DEF Finish, ProofsInv, LockHeld, InLock
    <2>2. revocations' \subseteq Proofs
      <3>1. CASE requests[r].pc = "using"
        BY <1>0, <1>3, <3>1 DEF Finish, ProofsTypeOK
      <3>2. CASE requests[r].pc = "revoking"
        <4>1. requests[r].prior \in Proofs
          BY <3>2 DEF ProofsInv, PriorFits
        <4> QED BY <1>0, <1>3, <3>2, <4>1 DEF Finish, ProofsTypeOK
      <3> QED BY <1>3, <3>1, <3>2 DEF Finish
    <2>3. Left(r, IdleRequest)
      BY <1>3, <2>1, <2>2, IdleTyped DEF Finish, Left
    <2> QED BY <2>3, LeftKeepsInv
  <1> QED BY <1>1, <1>2, <1>3

\* The fields of what Silicon Accounts keeps.
LEMMA RemoteFields ==
    ASSUME ProofsTypeOK
    PROVE  /\ \A p \in Proofs : /\ remote[p].gen \in 0 .. MaxGen
                               /\ remote[p].state \in {"unissued", "alive", "ended", "revoked"}
           /\ \A u \in Subjects, p \in Proofs \cup {None} :
                issued[<<u, p>>] \in Proofs \cup {None}
  BY DEF ProofsTypeOK

\* A proof ends at Silicon Accounts: nothing the invariant speaks of changes.
LEMMA RemoteEndKeepsInv ==
    ASSUME ProofsInv, NEW p \in Proofs, RemoteEnd(p) \/ RemoteRevoke(p)
    PROVE  ProofsInv'
  <1>1. /\ ProofsTypeOK
        /\ UNCHANGED <<row, lock, requests, issued>>
        /\ revocations' \subseteq Proofs
    BY DEF ProofsInv, ProofsTypeOK, RemoteEnd, RemoteRevoke
  <1>2. CASE remote' = remote
    BY <1>1, <1>2 DEF ProofsInv, ProofsTypeOK, LockHeld, RefreshFits, IssueFits, EndingFits,
        SaveFits, ReplaceFits, ApproveFits, PriorFits, RowFits, UnissuedFits, IssuedFits,
        Active, Explicit, Gen
  <1>3. ASSUME NEW st \in {"ended", "revoked"}, remote[p].state = "alive",
               remote' = [remote EXCEPT ![p].state = st]
        PROVE  ProofsInv'
    <2>1. /\ ProofsTypeOK'
          /\ \A q \in Proofs : /\ remote'[q].gen = remote[q].gen
                               /\ remote'[q].state = "unissued" <=> remote[q].state = "unissued"
      BY <1>1, <1>3 DEF ProofsTypeOK
    <2>2. LockHeld' /\ IssueFits' /\ EndingFits' /\ ReplaceFits' /\ ApproveFits' /\ PriorFits'
      BY <1>1 DEF ProofsInv, LockHeld, IssueFits, EndingFits, ReplaceFits, ApproveFits,
          PriorFits, Active, Explicit
    <2>3. RefreshFits' /\ SaveFits'
      BY <1>1, <2>1 DEF ProofsInv, RefreshFits, SaveFits, Gen, Active, Tokens
    <2>4. RowFits' /\ UnissuedFits'
      BY <1>1, <2>1, RowFields DEF ProofsInv, RowFits, UnissuedFits, Gen, Active
    <2>5. IssuedFits'
      BY <1>1, <2>1, RowFields, RemoteFields DEF ProofsInv, IssuedFits, Gen
    <2> QED BY <2>1, <2>2, <2>3, <2>4, <2>5 DEF ProofsInv
  <1> QED BY <1>2, <1>3 DEF RemoteEnd, RemoteRevoke

\* Revocation and webhooks end an active row that nobody is invalidating.
LEMMA InvalidateKeepsInv ==
    ASSUME ProofsInv, NEW reason \in {"explicit", "other"}, Invalidate(reason)
    PROVE  ProofsInv'
  <1>1. /\ ProofsTypeOK /\ Active
        /\ UNCHANGED <<lock, requests, remote, issued>>
        /\ \A r \in Requests : ~requests[r].ending
    BY DEF ProofsInv, Invalidate
  <1>2. /\ row' \in EndedRows
        /\ row'.token.proof = row.token.proof
        /\ ~Active'
    BY <1>1, EndedEffect DEF Invalidate, Active
  <1>3. ProofsTypeOK'
    BY <1>1, <1>2, RowFields DEF ProofsTypeOK, Invalidate
  <1>4. LockHeld' /\ IssueFits' /\ EndingFits' /\ ApproveFits' /\ PriorFits'
    BY <1>1, <1>2 DEF ProofsInv, LockHeld, IssueFits, EndingFits, ApproveFits, PriorFits
  <1>5. RefreshFits' /\ SaveFits'
    BY <1>1, <1>2 DEF ProofsInv, RefreshFits, SaveFits, Gen
  <1>6. ReplaceFits'
    BY <1>1, <1>2 DEF ProofsInv, ReplaceFits
  <1>7. RowFits' /\ UnissuedFits' /\ IssuedFits'
    BY <1>1, <1>2 DEF ProofsInv, RowFits, UnissuedFits, IssuedFits, Gen
  <1> QED BY <1>3, <1>4, <1>5, <1>6, <1>7 DEF ProofsInv

\* The clock runs on an active row.
LEMMA ExpireKeepsInv ==
    ASSUME ProofsInv, Expire
    PROVE  ProofsInv'
  <1>1. /\ ProofsTypeOK /\ Active
        /\ UNCHANGED <<lock, requests, revocations, remote, issued>>
    BY DEF ProofsInv, Expire
  <1>2. /\ row' \in ActiveRows
        /\ row'.token = row.token
        /\ Active'
    BY <1>1, RowFields DEF Expire, ActiveRows, Active
  <1>3. ~Explicit /\ ~Explicit'
    BY <1>1, <1>2 DEF Active, Explicit
  <1>4. ProofsTypeOK'
    BY <1>1, <1>2 DEF ProofsTypeOK
  <1>5. LockHeld' /\ IssueFits' /\ EndingFits' /\ ApproveFits' /\ PriorFits' /\ ReplaceFits'
    BY <1>1, <1>2, <1>3
       DEF ProofsInv, LockHeld, IssueFits, EndingFits, ApproveFits, PriorFits, ReplaceFits
  <1>6. RefreshFits' /\ SaveFits' /\ RowFits' /\ UnissuedFits' /\ IssuedFits'
    BY <1>1, <1>2 DEF ProofsInv, RefreshFits, SaveFits, RowFits, UnissuedFits, IssuedFits, Gen
  <1> QED BY <1>4, <1>5, <1>6 DEF ProofsInv

\* Silicon Accounts answers a refresh: only the generation of the row's proof
\* can move, and the request that holds the lock is the one that learns it.
LEMMA RemoteRefreshKeepsInv ==
    ASSUME ProofsInv, NEW r \in Requests, RemoteRefresh(r)
    PROVE  ProofsInv'
  <1> DEFINE p == requests[r].token.proof
             g == requests[r].token.gen
             saving == [requests[r] EXCEPT !.pc = "saving", !.token.gen = g + 1]
             refused(v) == [requests[r] EXCEPT !.pc = "refused", !.verdict = v]
  <1>1. /\ ProofsTypeOK /\ requests[r].pc = "refreshing"
        /\ UNCHANGED <<row, lock, revocations, issued>>
    BY DEF ProofsInv, RemoteRefresh
  <1>2. /\ requests[r].token \in Tokens /\ p \in Proofs /\ g \in 0 .. MaxGen
        /\ p = row.token.proof
        /\ Active => row.token = requests[r].token
        /\ Gen(p) \in {g, g + 1}
        /\ remote[p].state # "unissued"
        /\ p # None
    BY <1>1, ProofsAssumption DEF ProofsInv, RefreshFits, RowFits, Tokens
  <1>3. /\ lock = r /\ ~requests[r].ending /\ requests[r].kind # "approve"
        /\ \A k \in Requests \ {r} : requests[k].pc \notin InLock /\ ~requests[k].ending
    BY <1>1 DEF ProofsInv, LockHeld, EndingFits, ApproveFits, InLock
  <1>4. CASE /\ remote' = [remote EXCEPT ![p].gen = g + 1] \/ remote' = remote
             /\ g + 1 \in 0 .. MaxGen
             /\ remote'[p].gen = g + 1
             /\ Put(r, saving)
    <2>1. /\ saving \in RequestTypes
          /\ saving.pc = "saving" /\ ~saving.ending /\ saving.kind # "approve"
          /\ saving.token \in Tokens /\ saving.token.proof = p /\ saving.token.gen = g + 1
      BY <1>1, <1>2, <1>3, <1>4, RequestFields DEF RequestTypes, Tokens, Places, InLock
    <2>2. /\ requests' \in [Requests -> RequestTypes]
          /\ requests'[r] = saving
          /\ \A k \in Requests \ {r} : requests'[k] = requests[k]
      BY <1>1, <1>4, <2>1, PutEffect
    <2> HIDE DEF saving, p, g
    <2>3. /\ remote' \in [Proofs -> [state : {"unissued", "alive", "ended", "revoked"},
                                     gen : 0 .. MaxGen]]
          /\ \A q \in Proofs : /\ remote'[q].state = remote[q].state
                               /\ q # p => remote'[q].gen = remote[q].gen
      BY <1>1, <1>2, <1>4 DEF ProofsTypeOK
    <2>4. ProofsTypeOK'
      BY <1>1, <2>2, <2>3 DEF ProofsTypeOK
    <2>5. LockHeld' /\ RefreshFits' /\ IssueFits' /\ EndingFits'
      BY <1>1, <1>3, <2>1, <2>2
         DEF ProofsInv, LockHeld, RefreshFits, IssueFits, EndingFits, InLock
    <2>6. SaveFits'
      BY <1>1, <1>2, <1>3, <1>4, <2>1, <2>2, <2>3 DEF SaveFits, Gen, InLock
    <2>7. ReplaceFits' /\ ApproveFits' /\ PriorFits'
      <3>1. ReplaceFits'
        BY <1>1, <1>2, <1>3, <2>1, <2>2 DEF ReplaceFits, InLock
      <3>2. ApproveFits'
        BY <1>1, <2>1, <2>2 DEF ProofsInv, ApproveFits
      <3>3. PriorFits'
        BY <1>1, <2>1, <2>2 DEF ProofsInv, PriorFits
      <3> QED BY <3>1, <3>2, <3>3
    <2>8. RowFits'
      <3>1. Active' => row.token.gen = g
        BY <1>1, <1>2 DEF Active, g
      <3> QED BY <1>1, <1>2, <1>4, <2>3, <3>1 DEF RowFits, Gen
    <2>9. UnissuedFits'
      BY <1>1, <1>2, <2>3 DEF ProofsInv, UnissuedFits, Gen
    <2>10. IssuedFits'
      BY <1>1, <1>2, <2>3, RemoteFields DEF ProofsInv, IssuedFits, Gen
    <2> QED BY <2>4, <2>5, <2>6, <2>7, <2>8, <2>9, <2>10 DEF ProofsInv
  <1>5. ASSUME NEW v \in {"explicit", "other"}, Put(r, refused(v)), remote' = remote
        PROVE  ProofsInv'
    <2>1. /\ refused(v) \in RequestTypes
          /\ refused(v).pc = "refused" /\ ~refused(v).ending /\ refused(v).kind # "approve"
          /\ refused(v).token = requests[r].token
      BY <1>1, <1>3, RequestFields DEF RequestTypes, Places, InLock
    <2>2. /\ requests' \in [Requests -> RequestTypes]
          /\ requests'[r] = refused(v)
          /\ \A k \in Requests \ {r} : requests'[k] = requests[k]
      BY <1>1, <1>5, <2>1, PutEffect
    <2> HIDE DEF refused
    <2>3. ProofsTypeOK'
      BY <1>1, <1>5, <2>2 DEF ProofsTypeOK
    <2>4. LockHeld' /\ IssueFits' /\ EndingFits' /\ SaveFits'
      BY <1>1, <1>3, <2>1, <2>2
         DEF ProofsInv, LockHeld, IssueFits, EndingFits, SaveFits, InLock
    <2>5. RefreshFits'
      BY <1>1, <1>2, <1>3, <1>5, <2>1, <2>2 DEF RefreshFits, Gen, Active, InLock
    <2>6. ReplaceFits' /\ ApproveFits' /\ PriorFits'
      <3>1. ReplaceFits'
        BY <1>1, <1>2, <1>3, <2>1, <2>2 DEF ReplaceFits, InLock
      <3>2. ApproveFits'
        BY <1>1, <2>1, <2>2 DEF ProofsInv, ApproveFits
      <3>3. PriorFits'
        BY <1>1, <2>1, <2>2 DEF ProofsInv, PriorFits
      <3> QED BY <3>1, <3>2, <3>3
    <2>7. RowFits' /\ UnissuedFits' /\ IssuedFits'
      BY <1>1, <1>5 DEF ProofsInv, RowFits, UnissuedFits, IssuedFits, Gen, Active
    <2> QED BY <2>3, <2>4, <2>5, <2>6, <2>7 DEF ProofsInv
  <1>6. CASE /\ remote[p] = [state |-> "alive", gen |-> g]
             /\ g < MaxGen
             /\ remote' = [remote EXCEPT ![p].gen = g + 1]
             /\ Put(r, saving)
    <2>1. remote'[p].gen = g + 1 /\ g + 1 \in 0 .. MaxGen
      BY <1>1, <1>2, <1>6, ProofsAssumption DEF ProofsTypeOK
    <2> QED BY <1>4, <1>6, <2>1
  <1>7. CASE remote[p].gen = g + 1 /\ Put(r, saving) /\ UNCHANGED remote
    <2>1. g + 1 \in 0 .. MaxGen
      BY <1>1, <1>2, <1>7, RemoteFields
    <2> QED BY <1>4, <1>7, <2>1
  <1> QED BY <1>5, <1>6, <1>7 DEF RemoteRefresh

\* Silicon Accounts answers an issuance under a key that names the row's proof:
\* the answer is a proof that the row has never stood on.
LEMMA RemoteIssueKeepsInv ==
    ASSUME ProofsInv, NEW r \in Requests, RemoteIssue(r)
    PROVE  ProofsInv'
  <1> DEFINE u == requests[r].subject
             old == row.token.proof
             saving(q) == [requests[r] EXCEPT !.pc = "saving",
                                !.token = [NoToken EXCEPT !.proof = q]]
  <1>1. /\ ProofsTypeOK /\ requests[r].pc = "issuing"
        /\ UNCHANGED <<row, lock, revocations>>
        /\ u \in Subjects /\ requests[r].replaced = old
        /\ old \in Proofs \cup {None}
    BY RowFields DEF ProofsInv, RemoteIssue, IssueFits
  <1>2. /\ lock = r
        /\ requests[r].kind = "approve" \/ (~Explicit /\ (Active => requests[r].ending))
        /\ requests[r].ending => Active
        /\ requests[r].kind = "approve" => requests[r].prior \in {None, old}
        /\ \A k \in Requests \ {r} : requests[k].pc \notin InLock /\ ~requests[k].ending
    <2>1. /\ lock = r
          /\ \A k \in Requests \ {r} : requests[k].pc \notin InLock /\ ~requests[k].ending
      BY <1>1 DEF ProofsInv, LockHeld, EndingFits, InLock
    <2>2. requests[r].kind = "approve" \/ (~Explicit /\ (Active => requests[r].ending))
      BY <1>1 DEF ProofsInv, ReplaceFits
    <2>3. requests[r].ending => Active
      BY DEF ProofsInv, EndingFits
    <2>4. requests[r].kind = "approve" => requests[r].prior \in {None, old}
      BY <1>1 DEF ProofsInv, ApproveFits
    <2> QED BY <2>1, <2>2, <2>3, <2>4
  <1>3. ASSUME NEW q \in Proofs, Put(r, saving(q)),
               ProofsTypeOK /\ remote' \in [Proofs ->
                    [state : {"unissued", "alive", "ended", "revoked"}, gen : 0 .. MaxGen]],
               issued' \in [Subjects \X (Proofs \cup {None}) -> Proofs \cup {None}],
               q # old, remote'[q].gen = 0, remote'[q].state # "unissued",
               \A v \in Subjects : issued'[<<v, q>>] = None,
               issued'[<<u, old>>] = q,
               RowFits', UnissuedFits', IssuedFits', PriorFits
        PROVE  /\ ProofsTypeOK' /\ LockHeld' /\ RefreshFits' /\ IssueFits' /\ EndingFits'
               /\ SaveFits' /\ ReplaceFits' /\ ApproveFits'
               /\ \A k \in Requests : requests'[k].pc = "revoking" =>
                      requests[k].pc = "revoking" /\ requests'[k] = requests[k]
    <2>1. /\ saving(q) \in RequestTypes
          /\ saving(q).pc = "saving" /\ saving(q).kind = requests[r].kind
          /\ saving(q).ending = requests[r].ending /\ saving(q).prior = requests[r].prior
          /\ saving(q).subject = u
          /\ saving(q).token \in Tokens /\ saving(q).token.proof = q /\ saving(q).token.gen = 0
      <3> DEFINE t == [NoToken EXCEPT !.proof = q]
      <3>1. t \in Tokens /\ t.proof = q /\ t.gen = 0
        BY ProofsAssumption DEF Tokens, NoToken
      <3> HIDE DEF t
      <3>2. saving(q) = [requests[r] EXCEPT !.pc = "saving", !.token = t]
        BY DEF t
      <3> QED BY <1>1, <3>1, <3>2, RequestFields DEF RequestTypes, Places, InLock
    <2>2. /\ requests' \in [Requests -> RequestTypes]
          /\ requests'[r] = saving(q)
          /\ \A k \in Requests \ {r} : requests'[k] = requests[k]
      BY <1>1, <1>3, <2>1, PutEffect
    <2> HIDE DEF saving, u, old
    <2>3. ProofsTypeOK'
      BY <1>1, <1>3, <2>2 DEF ProofsTypeOK
    <2>4. LockHeld' /\ RefreshFits' /\ IssueFits'
      BY <1>1, <1>2, <2>1, <2>2 DEF LockHeld, RefreshFits, IssueFits, InLock
    <2>5. EndingFits'
      BY <1>1, <1>2, <2>1, <2>2 DEF EndingFits, Active
    <2>6. SaveFits'
      BY <1>2, <1>3, <2>1, <2>2 DEF SaveFits, Gen, InLock
    <2>7. ReplaceFits'
      BY <1>1, <1>2, <2>1, <2>2 DEF ReplaceFits, Active, Explicit, InLock
    <2>8. ApproveFits'
      <3>1. requests[r].kind = "approve" =>
                issued'[<<saving(q).subject, row'.token.proof>>] = saving(q).token.proof
        BY <1>1, <1>3, <2>1 DEF old
      <3>2. \A k \in Requests \ {r} : requests'[k].kind = "approve" =>
                requests'[k].pc = "revoking"
        BY <1>2, <2>2 DEF ProofsInv, ApproveFits, InLock
      <3> QED BY <1>1, <1>2, <2>1, <2>2, <3>1, <3>2 DEF ApproveFits, old
    <2>9. \A k \in Requests : requests'[k].pc = "revoking" =>
              requests[k].pc = "revoking" /\ requests'[k] = requests[k]
      BY <2>1, <2>2
    <2> QED BY <2>3, <2>4, <2>5, <2>6, <2>7, <2>8, <2>9
  <1>4. CASE /\ issued[<<u, old>>] # None
             /\ Put(r, saving(issued[<<u, old>>]))
             /\ UNCHANGED <<remote, issued>>
    <2> DEFINE q == issued[<<u, old>>]
    <2>1. q \in Proofs
      BY <1>1, <1>4, RemoteFields
    <2>2. /\ q # old /\ remote[q].gen = 0 /\ remote[q].state # "unissued"
          /\ \A v \in Subjects : issued[<<v, q>>] = None
      BY <1>1, <1>4 DEF ProofsInv, IssuedFits, Gen
    <2>3. RowFits' /\ UnissuedFits' /\ IssuedFits'
      BY <1>1, <1>4 DEF ProofsInv, RowFits, UnissuedFits, IssuedFits, Gen, Active
    <2>4. PriorFits
      BY DEF ProofsInv
    <2>5. /\ ProofsTypeOK' /\ LockHeld' /\ RefreshFits' /\ IssueFits' /\ EndingFits'
          /\ SaveFits' /\ ReplaceFits' /\ ApproveFits'
          /\ \A k \in Requests : requests'[k].pc = "revoking" =>
                 requests[k].pc = "revoking" /\ requests'[k] = requests[k]
      <3> HIDE DEF q, saving, u, old
      <3>1. Put(r, saving(q)) /\ issued'[<<u, old>>] = q /\ remote' = remote /\ issued' = issued
        BY <1>4 DEF q
      <3> QED BY <1>1, <1>3, <2>1, <2>2, <2>3, <2>4, <3>1 DEF ProofsTypeOK
    <2>6. PriorFits'
      BY <1>1, <1>4, <2>4, <2>5 DEF PriorFits
    <2> QED BY <2>3, <2>5, <2>6 DEF ProofsInv
  <1>5. ASSUME NEW q \in Proofs,
               remote[q].state = "unissued",
               remote' = [remote EXCEPT ![q].state = "alive"],
               issued' = [issued EXCEPT ![<<u, old>>] = q],
               Put(r, saving(q))
        PROVE  ProofsInv'
    <2>1. /\ remote' \in [Proofs -> [state : {"unissued", "alive", "ended", "revoked"},
                                     gen : 0 .. MaxGen]]
          /\ remote'[q].state = "alive" /\ remote'[q].gen = remote[q].gen
          /\ \A p \in Proofs : /\ remote'[p].gen = remote[p].gen
                               /\ p # q => remote'[p].state = remote[p].state
      BY <1>1, <1>5 DEF ProofsTypeOK
    <2>2. /\ <<u, old>> \in Subjects \X (Proofs \cup {None})
          /\ issued' \in [Subjects \X (Proofs \cup {None}) -> Proofs \cup {None}]
          /\ issued'[<<u, old>>] = q
          /\ \A v \in Subjects, p \in Proofs \cup {None} :
                <<v, p>> # <<u, old>> => issued'[<<v, p>>] = issued[<<v, p>>]
      BY <1>1, <1>5 DEF ProofsTypeOK
    <2>3. /\ q # old
          /\ old # None => remote[old].state # "unissued"
      BY <1>5, ProofsAssumption DEF ProofsInv, RowFits
    <2>4. /\ remote[q].gen = 0
          /\ \A v \in Subjects : issued[<<v, q>>] = None
      BY <1>5 DEF ProofsInv, UnissuedFits, Gen
    <2>5. \A v \in Subjects, p \in Proofs : p # old => issued'[<<v, p>>] = issued[<<v, p>>]
      BY <2>2
    <2>6. RowFits'
      BY <1>1, <2>1, RowFields DEF ProofsInv, RowFits, Gen, Active
    <2>7. UnissuedFits'
      <3>1. \A p \in Proofs : remote'[p].state = "unissued" =>
                remote[p].state = "unissued" /\ p # old
        BY <2>1, <2>3, ProofsAssumption
      <3> QED BY <2>1, <2>5, <3>1 DEF ProofsInv, UnissuedFits, Gen
    <2>8. IssuedFits'
      <3> SUFFICES ASSUME NEW v \in Subjects, issued'[<<v, old>>] # None
                   PROVE  LET n == issued'[<<v, old>>] IN
                          /\ n # old /\ remote'[n].gen = 0 /\ remote'[n].state # "unissued"
                          /\ \A w \in Subjects : issued'[<<w, n>>] = None
        BY <1>1 DEF IssuedFits, Gen
      <3>1. CASE v = u
        BY <3>1, <2>1, <2>2, <2>3, <2>4, <2>5
      <3>2. CASE v # u
        <4>1. issued'[<<v, old>>] = issued[<<v, old>>]
          BY <3>2, <1>1, <2>2
        <4>2. issued[<<v, old>>] \in Proofs
          BY <1>1, <4>1, RemoteFields
        <4>3. LET n == issued[<<v, old>>] IN
              /\ n # old /\ remote[n].gen = 0 /\ remote[n].state # "unissued"
              /\ \A w \in Subjects : issued[<<w, n>>] = None
          BY <4>1 DEF ProofsInv, IssuedFits, Gen
        <4> QED BY <4>1, <4>2, <4>3, <2>1, <2>5
      <3> QED BY <3>1, <3>2
    <2>9. PriorFits
      BY DEF ProofsInv
    <2>10. /\ ProofsTypeOK' /\ LockHeld' /\ RefreshFits' /\ IssueFits' /\ EndingFits'
           /\ SaveFits' /\ ReplaceFits' /\ ApproveFits'
           /\ \A k \in Requests : requests'[k].pc = "revoking" =>
                  requests[k].pc = "revoking" /\ requests'[k] = requests[k]
      <3>1. \A v \in Subjects : issued'[<<v, q>>] = None
        BY <2>3, <2>4, <2>5
      <3> HIDE DEF saving, u, old
      <3> QED BY <1>1, <1>3, <1>5, <2>1, <2>2, <2>3, <2>4, <2>6, <2>7, <2>8, <2>9, <3>1
    <2>11. PriorFits'
      <3> SUFFICES ASSUME NEW k \in Requests, requests'[k].pc = "revoking"
                   PROVE  /\ requests'[k].prior \in Proofs \ {row'.token.proof}
                          /\ \E v \in Subjects : issued'[<<v, requests'[k].prior>>] # None
        BY DEF PriorFits
      <3>1. requests[k].pc = "revoking" /\ requests'[k] = requests[k]
        BY <2>10
      <3>2. /\ requests[k].prior \in Proofs \ {old}
            /\ \E v \in Subjects : issued[<<v, requests[k].prior>>] # None
        BY <2>9, <3>1 DEF PriorFits
      <3> QED BY <1>1, <3>1, <3>2, <2>5
    <2> QED BY <2>6, <2>7, <2>8, <2>10, <2>11 DEF ProofsInv
  <1>6. IssueKey(requests[r]) = <<u, old>>
    BY <1>1 DEF IssueKey
  <1> QED BY <1>4, <1>5, <1>6 DEF RemoteIssue

\* A saved token is the newest one, and belongs to the row's proof or to one
\* that no key has named yet.
LEMMA SaveKeepsInv ==
    ASSUME ProofsInv, NEW r \in Requests, Save(r)
    PROVE  ProofsInv'
  <1> DEFINE t == requests[r].token
             old == row.token.proof
             prior == requests[r].prior
             using == [requests[r] EXCEPT !.pc = "using", !.token = t, !.ending = FALSE,
                                          !.replaced = None, !.verdict = None]
             revoking == [IdleRequest EXCEPT !.pc = "revoking", !.kind = "approve",
                                             !.prior = prior]
  <1>1. /\ ProofsTypeOK /\ requests[r].pc = "saving" /\ requests[r] \in RequestTypes
        /\ lock' = None
        /\ UNCHANGED <<revocations, remote, issued>>
    BY RequestFields DEF ProofsInv, Save, HandOut
  <1>2. /\ t \in Tokens /\ t.proof \in Proofs
        /\ remote[t.proof].gen = t.gen /\ remote[t.proof].state # "unissued"
        /\ t.proof = old \/ \A u \in Subjects : issued[<<u, t.proof>>] = None
    BY <1>1 DEF ProofsInv, SaveFits, Gen, Tokens
  <1>3. row' \in ActiveRows /\ row'.token = t /\ Active'
    BY <1>2 DEF Save, ActiveRows, Active
  <1>4. \A k \in Requests \ {r} : requests[k].pc \notin InLock /\ ~requests[k].ending
    BY <1>1 DEF ProofsInv, LockHeld, EndingFits, InLock
  <1>5. \E new \in RequestTypes :
          /\ Put(r, new) /\ ~new.ending
          /\ \/ new.pc \in {"idle", "using"} /\ new.kind # "approve"
             \/ /\ new.pc = "revoking" /\ new.prior \in Proofs \ {t.proof}
                /\ \E u \in Subjects : issued[<<u, new.prior>>] # None
    <2>1. CASE requests[r].kind # "approve"
      <3>1. /\ using \in RequestTypes
            /\ using.pc = "using" /\ ~using.ending /\ using.kind # "approve"
        BY <1>1, <1>2, <2>1 DEF RequestTypes, Places
      <3>2. Put(r, using)
        BY <2>1 DEF Save, HandOut
      <3> QED BY <3>1, <3>2
    <2>2. CASE requests[r].kind = "approve" /\ prior = None
      <3>1. Put(r, IdleRequest)
        BY <2>2 DEF Save
      <3> QED BY <3>1, IdleTyped
    <2>3. CASE requests[r].kind = "approve" /\ prior # None
      <3>1. /\ prior = old /\ requests[r].subject \in Subjects
            /\ issued[<<requests[r].subject, old>>] = t.proof
        BY <1>1, <2>3 DEF ProofsInv, ApproveFits
      <3>2. t.proof # None
        BY <1>2, ProofsAssumption
      <3>3. t.proof # old
        BY <3>1, <3>2 DEF ProofsInv, IssuedFits
      <3>4. prior \in Proofs
        BY <1>1, <2>3, RequestFields
      <3>5. /\ revoking \in RequestTypes
            /\ revoking.pc = "revoking" /\ ~revoking.ending /\ revoking.prior = prior
        BY <3>4 DEF IdleRequest, RequestTypes, Places
      <3>6. Put(r, revoking)
        BY <2>3 DEF Save
      <3> HIDE DEF revoking
      <3> QED BY <3>1, <3>2, <3>3, <3>4, <3>5, <3>6
    <2> QED BY <2>1, <2>2, <2>3
  <1>6. PICK new \in RequestTypes :
          /\ Put(r, new) /\ ~new.ending
          /\ \/ new.pc \in {"idle", "using"} /\ new.kind # "approve"
             \/ /\ new.pc = "revoking" /\ new.prior \in Proofs \ {t.proof}
                /\ \E u \in Subjects : issued[<<u, new.prior>>] # None
    BY <1>5
  <1>7. /\ requests' \in [Requests -> RequestTypes]
        /\ requests'[r] = new
        /\ \A k \in Requests \ {r} : requests'[k] = requests[k]
    BY <1>1, <1>6, PutEffect
  <1> HIDE DEF t, old
  <1>8. ProofsTypeOK'
    BY <1>1, <1>3, <1>7 DEF ProofsTypeOK
  <1>9. \A k \in Requests : requests'[k].pc \notin InLock /\ ~requests'[k].ending
    BY <1>4, <1>6, <1>7 DEF InLock
  <1>10. /\ LockHeld' /\ RefreshFits' /\ IssueFits' /\ EndingFits'
         /\ SaveFits' /\ ReplaceFits'
    BY <1>1, <1>9, ProofsAssumption
       DEF LockHeld, RefreshFits, IssueFits, EndingFits, SaveFits, ReplaceFits, InLock
  <1>11. ApproveFits'
    <2>1. \A k \in Requests \ {r} : requests[k].kind = "approve" => requests[k].pc = "revoking"
      BY <1>4 DEF ProofsInv, ApproveFits, InLock
    <2> QED BY <1>6, <1>7, <2>1 DEF ApproveFits
  <1>12. PriorFits'
    <2>1. ASSUME NEW k \in Requests \ {r}, requests[k].pc = "revoking"
          PROVE  /\ requests[k].prior \in Proofs \ {t.proof}
                 /\ \E u \in Subjects : issued[<<u, requests[k].prior>>] # None
      <3>1. /\ requests[k].prior \in Proofs \ {old}
            /\ \E u \in Subjects : issued[<<u, requests[k].prior>>] # None
        BY <2>1 DEF ProofsInv, PriorFits, old
      <3> QED BY <1>2, <3>1
    <2>2. issued' = issued /\ row'.token.proof = t.proof
      BY <1>1, <1>3
    <2>3. ASSUME NEW k \in Requests, requests'[k].pc = "revoking"
          PROVE  /\ requests'[k].prior \in Proofs \ {t.proof}
                 /\ \E u \in Subjects : issued[<<u, requests'[k].prior>>] # None
      <3>1. CASE k = r
        BY <1>6, <1>7, <2>3, <3>1
      <3>2. CASE k # r
        BY <1>7, <2>1, <2>3, <3>2
      <3> QED BY <3>1, <3>2
    <2> QED BY <2>2, <2>3 DEF PriorFits
  <1>13. RowFits'
    BY <1>1, <1>2, <1>3 DEF RowFits, Gen
  <1>14. UnissuedFits'
    BY <1>1 DEF ProofsInv, UnissuedFits, Gen
  <1>15. IssuedFits'
    <2>1. CASE t.proof = old
      BY <1>1, <1>3, <2>1 DEF ProofsInv, IssuedFits, Gen, old
    <2>2. CASE \A u \in Subjects : issued[<<u, t.proof>>] = None
      BY <1>1, <1>3, <2>2 DEF IssuedFits
    <2> QED BY <1>2, <2>1, <2>2
  <1> QED BY <1>8, <1>10, <1>11, <1>12, <1>13, <1>14, <1>15 DEF ProofsInv
-----------------------------------------------------------------------------
(***************************************************************************)
(* The theorems                                                            *)
(***************************************************************************)

\* Nothing is stored or under way at first.
LEMMA InitEstablishesInv == ProofsInit => ProofsInv
  <1> SUFFICES ASSUME ProofsInit PROVE ProofsInv
    OBVIOUS
  <1>1. /\ row = NoRow /\ ~Active /\ ~Explicit /\ row.token.proof = None
        /\ row.token.proof \in Proofs \cup {None}
    BY DEF ProofsInit, NoRow, NoToken, Active, Explicit
  <1>2. /\ \A r \in Requests : requests[r] = IdleRequest
        /\ requests \in [Requests -> RequestTypes]
    BY IdleTyped DEF ProofsInit
  <1>3. /\ remote \in [Proofs -> [state : {"unissued", "alive", "ended", "revoked"},
                                  gen : 0 .. MaxGen]]
        /\ \A p \in Proofs : remote[p].gen = 0
        /\ issued \in [Subjects \X (Proofs \cup {None}) -> Proofs \cup {None}]
        /\ \A u \in Subjects, p \in Proofs \cup {None} : issued[<<u, p>>] = None
    BY ProofsAssumption DEF ProofsInit
  <1>4. ProofsTypeOK
    BY <1>1, <1>2, <1>3 DEF ProofsTypeOK, ProofsInit
  <1>5. LockHeld /\ RefreshFits /\ IssueFits /\ EndingFits /\ SaveFits /\ ReplaceFits
    BY <1>2, IdleTyped, ProofsAssumption
       DEF ProofsInit, LockHeld, RefreshFits, IssueFits, EndingFits, SaveFits, ReplaceFits, InLock
  <1>6. ApproveFits /\ PriorFits
    BY <1>2, IdleTyped DEF ApproveFits, PriorFits
  <1>7. RowFits /\ UnissuedFits /\ IssuedFits
    BY <1>1, <1>3 DEF RowFits, UnissuedFits, IssuedFits, Gen
  <1> QED BY <1>4, <1>5, <1>6, <1>7 DEF ProofsInv

\* Every step keeps the invariant.
LEMMA NextKeepsInv ==
    ASSUME ProofsInv, [ProofsNext]_vars
    PROVE  ProofsInv'
  <1>1. CASE UNCHANGED vars
    BY <1>1 DEF vars, ProofsInv, ProofsTypeOK, LockHeld, RefreshFits, IssueFits, EndingFits,
        SaveFits, ReplaceFits, ApproveFits, PriorFits, RowFits, UnissuedFits, IssuedFits,
        Active, Explicit, Gen
  <1>2. ASSUME NEW r \in Requests,
               \/ \E u \in Subjects \cup {None} : UseProof(r, u)
               \/ \E u \in Subjects : Approve(r, u)
               \/ RenewProof(r) \/ RemoteRefresh(r) \/ RemoteIssue(r) \/ RefreshRefused(r)
               \/ IssueFails(r) \/ Save(r) \/ Cut(r) \/ Finish(r)
        PROVE  ProofsInv'
    BY <1>2, UseKeepsInv, ApproveKeepsInv, RenewKeepsInv, RemoteRefreshKeepsInv,
       RemoteIssueKeepsInv, RefusedKeepsInv, SaveKeepsInv, EndsKeepInv
  <1>3. CASE \E p \in Proofs : RemoteEnd(p) \/ RemoteRevoke(p)
    BY <1>3, RemoteEndKeepsInv
  <1>4. CASE \E reason \in {"explicit", "other"} : Invalidate(reason)
    BY <1>4, InvalidateKeepsInv
  <1>5. CASE Expire
    BY <1>5, ExpireKeepsInv
  <1> QED BY <1>1, <1>2, <1>3, <1>4, <1>5 DEF ProofsNext

\* The inductive invariant holds for any number of requests, access tokens and
\* proofs.
THEOREM ProofsInvariance == ProofsSpec => []ProofsInv
  <1>1. ProofsInit => ProofsInv
    BY InitEstablishesInv
  <1>2. ProofsInv /\ [ProofsNext]_vars => ProofsInv'
    BY NextKeepsInv
  <1> QED BY <1>1, <1>2, PTL DEF ProofsSpec

\* Row, requests and remote state keep their shapes.
THEOREM ProofsTypeCorrect == ProofsSpec => []ProofsTypeOK
  <1>1. ProofsInv => ProofsTypeOK
    BY DEF ProofsInv
  <1> QED BY <1>1, ProofsInvariance, PTL

\* The advisory lock and the idempotent refresh keep spent refresh tokens from
\* being presented, whatever answers and transactions are lost.
THEOREM NoTokenIsReused == ProofsSpec => []NeverReuses
  <1>1. ProofsInv => NeverReuses
    BY DEF ProofsInv, RefreshFits, NeverReuses, Gen
  <1> QED BY <1>1, ProofsInvariance, PTL

\* approve never goes on to revoke the proof that the row stands on.
THEOREM ApprovalIsKept == ProofsSpec => []ApprovalSurvives
  <1>1. ProofsInv => ApprovalSurvives
    BY DEF ProofsInv, PriorFits, ApprovalSurvives
  <1> QED BY <1>1, ProofsInvariance, PTL

\* After a decision to revoke, no request but an approval puts another proof in
\* the row.
THEOREM RevocationNeedsApproval == ProofsSpec => OnlyApprovalReplaces
  <1>1. ASSUME ProofsInv, [ProofsNext]_vars, Explicit, Active',
               row'.token.proof # row.token.proof
        PROVE  \E r \in Requests : requests[r].kind = "approve" /\ requests[r].pc = "saving"
                                   /\ lock = r
    <2>1. ~Active
      BY <1>1 DEF Explicit, Active
    <2>2. \E r \in Requests : Save(r)
      <3>1. row' # row
        BY <1>1
      <3>2. ASSUME NEW r \in Requests, NEW req, Replace(r, req)
            PROVE  row' = row
        BY <2>1, <3>2 DEF Replace
      <3>3. ASSUME NEW r \in Requests, NEW u, UseProof(r, u)
            PROVE  row' = row
        BY <2>1, <3>3, <3>2 DEF UseProof
      <3>4. ASSUME NEW r \in Requests, RenewProof(r)
            PROVE  row' = row
        BY <2>1, <3>4, <3>2 DEF RenewProof, AlreadyRenewed
      <3>5. ASSUME NEW r \in Requests, RefreshRefused(r)
            PROVE  row' = row
        BY <2>1, <3>5, <3>2 DEF RefreshRefused
      <3>6. ASSUME NEW r \in Requests, IssueFails(r)
            PROVE  row' = row
        BY <1>1, <2>1, <3>6 DEF IssueFails, ProofsInv, EndingFits
      <3>7. ASSUME NEW r \in Requests,
                   \/ \E u \in Subjects : Approve(r, u)
                   \/ RemoteRefresh(r) \/ RemoteIssue(r) \/ Cut(r) \/ Finish(r)
            PROVE  row' = row
        BY <3>7 DEF Approve, RemoteRefresh, RemoteIssue, Cut, Finish
      <3>8. ~Expire /\ ~\E reason \in {"explicit", "other"} : Invalidate(reason)
        BY <2>1 DEF Expire, Invalidate
      <3>9. ASSUME NEW p \in Proofs, RemoteEnd(p) \/ RemoteRevoke(p)
            PROVE  row' = row
        BY <3>9 DEF RemoteEnd, RemoteRevoke
      <3>10. ProofsNext
        BY <1>1, <3>1 DEF vars
      <3> QED BY <3>1, <3>3, <3>4, <3>5, <3>6, <3>7, <3>8, <3>9, <3>10 DEF ProofsNext
    <2>3. PICK r \in Requests : Save(r)
      BY <2>2
    <2>4. requests[r].pc = "saving" /\ row'.token = requests[r].token
      BY <2>3 DEF Save
    <2>5. requests[r].kind = "approve" /\ lock = r
      BY <1>1, <2>4 DEF ProofsInv, ReplaceFits, LockHeld, InLock
    <2> QED BY <2>4, <2>5
  <1>2. ProofsInv /\ [ProofsNext]_vars =>
          [Explicit /\ Active' /\ row'.token.proof # row.token.proof =>
            \E r \in Requests : requests[r].kind = "approve" /\ requests[r].pc = "saving"
                                /\ lock = r]_vars
    BY <1>1
  <1> QED BY <1>2, ProofsInvariance, PTL DEF ProofsSpec, OnlyApprovalReplaces
-----------------------------------------------------------------------------
(***************************************************************************)
(* What is handed out after a refusal                                      *)
(***************************************************************************)

\* The token that a request with these fields may see refused.
RefusedOf(req) == IF req.kind = "use" THEN req.token ELSE req.refused

\* A step of one request that hands out nothing but the row's token, presents
\* nothing but the row's, and saves nothing.
Moves(r, req) ==
    /\ req \in RequestTypes
    /\ Put(r, req)
    /\ KeptOrEnded
    /\ issued' = issued
    /\ req.pc = "using" \/ req.kind = "renew" =>
         \/ HandedOut(r) /\ RefusedOf(req) = RefusedToken(r)
         \/ lock = None /\ Active /\ req.pc = "using" /\ RefusedOf(req) = row.token
    /\ req.pc = "refreshing" => Active /\ req.token = row.token
    /\ req.pc # "saving"
    /\ req.pc # "idle" => req.kind # None
    /\ req.pc = "using" /\ req.kind = "renew" => req.token # req.refused

\* No generation is negative.
LEMMA Generations ==
    ASSUME NEW t \in Tokens PROVE t.gen \in Nat /\ t.proof \in Proofs
  BY ProofsAssumption DEF Tokens

\* Such a step keeps what is handed out in order.
LEMMA MovesKeepRenew ==
    ASSUME ProofsInv, RenewInv, NEW r \in Requests, NEW req, Moves(r, req)
    PROVE  RenewInv'
  <1>1. ProofsTypeOK
    BY DEF ProofsInv
  <1>2. /\ requests'[r] = req
        /\ \A k \in Requests \ {r} : requests'[k] = requests[k]
    BY <1>1, PutEffect DEF Moves
  <1>3. row'.token.proof = row.token.proof /\ (Active' => Active /\ row' = row)
    BY <1>1, KeptOrEndedEffect DEF Moves
  <1>4. ASSUME NEW q \in Requests, HandedOut(q)'
        PROVE  HandedFits(RefusedToken(q))'
    <2>1. ASSUME NEW t, HandedFits(t) PROVE HandedFits(t)'
      <3>1. ASSUME NEW s \in Requests, t.proof = requests'[s].token.proof
            PROVE  /\ requests'[s].pc = "refreshing" => t.gen <= requests'[s].token.gen
                   /\ requests'[s].pc = "saving" => t.gen < requests'[s].token.gen
        BY <1>2, <2>1, <3>1 DEF Moves, HandedFits
      <3>2. Replaced(t.proof) => Replaced(t.proof)'
        BY DEF Replaced, Moves
      <3> QED BY <1>3, <2>1, <3>1, <3>2 DEF HandedFits
    <2>2. ASSUME lock = None, Active, req.pc = "using" PROVE HandedFits(row.token)
      <3>1. \A s \in Requests : requests[s].pc \notin {"refreshing", "saving"}
        BY <2>2, ProofsAssumption DEF ProofsInv, LockHeld, InLock
      <3>2. row.token \in Tokens /\ row.token.gen <= row.token.gen
        BY <1>1, <2>2, RowFields, Generations
      <3> QED BY <3>1, <3>2 DEF HandedFits
    <2>3. CASE q = r
      <3>1. RefusedToken(q)' = RefusedOf(req) /\ (req.pc = "using" \/ req.kind = "renew")
        BY <1>2, <1>4, <2>3 DEF RefusedToken, RefusedOf, HandedOut
      <3>2. HandedFits(RefusedOf(req))
        BY <2>2, <3>1 DEF Moves, RenewInv, TokensFit
      <3>3. HandedFits(RefusedOf(req))'
        BY <2>1, <3>2
      <3> QED BY <3>1, <3>3 DEF HandedFits, Replaced
    <2>4. CASE q # r
      <3>1. HandedOut(q) /\ RefusedToken(q)' = RefusedToken(q)
        BY <1>2, <1>4, <2>4 DEF HandedOut, RefusedToken
      <3>2. HandedFits(RefusedToken(q))
        BY <3>1 DEF RenewInv, TokensFit
      <3> QED BY <2>1, <3>1, <3>2 DEF HandedFits, Replaced
    <2> QED BY <2>3, <2>4
  <1>5. SaveReplaces'
    <2> SUFFICES ASSUME NEW q \in Requests, requests'[q].pc = "saving",
                        requests'[q].token.proof # row'.token.proof
                 PROVE  Replaced(row.token.proof)'
      BY <1>3 DEF SaveReplaces, Replaced
    <2>1. requests'[q] = requests[q]
      BY <1>2 DEF Moves
    <2>2. Replaced(row.token.proof)
      BY <1>3, <2>1 DEF RenewInv, SaveReplaces
    <2> QED BY <1>3, <2>2 DEF Replaced, Moves
  <1>6. RenewedDiffers' /\ KindsKnown'
    BY <1>2 DEF RenewInv, RenewedDiffers, KindsKnown, Moves
  <1> QED BY <1>4, <1>5, <1>6 DEF RenewInv, TokensFit

\* A request that is over or has given up has no token.
LEMMA IdleMoves ==
    ASSUME NEW r \in Requests, Put(r, IdleRequest), KeptOrEnded, issued' = issued
    PROVE  Moves(r, IdleRequest)
  <1>1. IdleRequest.kind = None /\ IdleRequest.pc = "idle"
    BY DEF IdleRequest
  <1> QED BY <1>1, IdleTyped, ProofsAssumption DEF Moves

\* Waiting for a replacement, a request keeps the token that was refused.
LEMMA ReplaceMoves ==
    ASSUME ProofsTypeOK, NEW r \in Requests, NEW req \in RequestTypes, Replace(r, req),
           issued' = issued, ~req.ending, req.kind # None,
           req.kind = "renew" => HandedOut(r) /\ req.refused = RefusedToken(r)
    PROVE  \E new : Moves(r, new)
  <1>1. CASE req.subject = None \/ Explicit
    <2>1. Put(r, IdleRequest) /\ KeptOrEnded
      BY <1>1 DEF Replace, KeptOrEnded
    <2> QED BY <2>1, IdleMoves
  <1>2. CASE ~(req.subject = None \/ Explicit)
    <2> DEFINE new == [req EXCEPT !.pc = "issuing", !.replaced = row.token.proof,
                                  !.ending = Active, !.verdict = None]
    <2>1. Active \in BOOLEAN
      BY DEF Active
    <2>2. new \in RequestTypes /\ new.pc = "issuing" /\ new.kind = req.kind
          /\ new.refused = req.refused
      BY <2>1, RowFields DEF RequestTypes, Places, InLock
    <2>3. Put(r, new) /\ KeptOrEnded
      BY <1>2 DEF Replace, KeptOrEnded
    <2> HIDE DEF new
    <2>4. Moves(r, new)
      BY <2>2, <2>3 DEF Moves, RefusedOf
    <2> QED BY <2>4
  <1> QED BY <1>1, <1>2

\* So does presenting the row's refresh token.
LEMMA RefreshMoves ==
    ASSUME ProofsTypeOK, NEW r \in Requests, NEW req \in RequestTypes, Refresh(r, req), Active,
           issued' = issued, req.kind # None,
           req.kind = "renew" => HandedOut(r) /\ req.refused = RefusedToken(r)
    PROVE  \E new : Moves(r, new)
  <1> DEFINE new == [req EXCEPT !.pc = "refreshing", !.token = row.token]
  <1>1. new \in RequestTypes /\ new.pc = "refreshing" /\ new.kind = req.kind
        /\ new.refused = req.refused /\ new.token = row.token
    BY RowFields DEF RequestTypes, Places, InLock
  <1>2. Put(r, new) /\ KeptOrEnded
    BY DEF Refresh, KeptOrEnded
  <1> HIDE DEF new
  <1>3. Moves(r, new)
    BY <1>1, <1>2 DEF Moves, RefusedOf
  <1> QED BY <1>3

\* briefcase_proof
LEMMA UseKeepsRenew ==
    ASSUME ProofsInv, RenewInv, NEW r \in Requests, NEW u \in Subjects \cup {None}, UseProof(r, u)
    PROVE  RenewInv'
  <1> DEFINE req == [IdleRequest EXCEPT !.kind = "use", !.subject = u]
  <1>1. req \in RequestTypes /\ req.kind = "use" /\ ~req.ending /\ ProofsTypeOK
        /\ req.kind # None
    BY ProofsAssumption DEF IdleRequest, RequestTypes, Places, InLock, ProofsInv
  <1>2. lock = None /\ issued' = issued
    BY DEF UseProof, MayEnter
  <1>3. CASE Active /\ HandOut(r, req, row.token) /\ UNCHANGED row
    <2> DEFINE new == [req EXCEPT !.pc = "using", !.token = row.token, !.ending = FALSE,
                                  !.replaced = None, !.verdict = None]
    <2>1. new \in RequestTypes /\ new.pc = "using" /\ new.kind = "use" /\ new.token = row.token
      BY <1>1, RowFields DEF RequestTypes, Places
    <2>2. Put(r, new) /\ KeptOrEnded
      BY <1>3 DEF HandOut, KeptOrEnded
    <2>3. new.kind # None
      BY <1>1, <2>1
    <2> HIDE DEF new, req
    <2>4. Moves(r, new)
      BY <1>2, <1>3, <2>1, <2>2, <2>3 DEF Moves, RefusedOf
    <2> QED BY <2>4, MovesKeepRenew
  <1>4. CASE Active /\ Refresh(r, req)
    BY <1>1, <1>2, <1>4, RefreshMoves, MovesKeepRenew
  <1>5. CASE Replace(r, req)
    BY <1>1, <1>2, <1>5, ReplaceMoves, MovesKeepRenew
  <1> QED BY <1>3, <1>4, <1>5 DEF UseProof

\* renew_refused_proof
LEMMA RenewKeepsRenew ==
    ASSUME ProofsInv, RenewInv, NEW r \in Requests, RenewProof(r)
    PROVE  RenewInv'
  <1> DEFINE t == RefusedToken(r)
             req == [requests[r] EXCEPT !.kind = "renew", !.refused = t]
  <1>0. ProofsTypeOK /\ requests[r].pc = "using" /\ HandedOut(r) /\ ~requests[r].ending
    BY DEF ProofsInv, RenewProof, HandedOut, EndingFits
  <1>1. t \in Tokens \cup {NoToken} /\ requests[r] \in RequestTypes
    BY <1>0, RequestFields DEF RefusedToken
  <1>2. /\ req \in RequestTypes /\ req.kind = "renew" /\ ~req.ending /\ req.refused = t
        /\ issued' = issued /\ req.kind # None
    BY <1>0, <1>1, ProofsAssumption DEF RequestTypes, RenewProof
  <1>3. CASE AlreadyRenewed(t) /\ HandOut(r, req, row.token) /\ UNCHANGED row
    <2> DEFINE new == [req EXCEPT !.pc = "using", !.token = row.token, !.ending = FALSE,
                                  !.replaced = None, !.verdict = None]
    <2>1. /\ new \in RequestTypes /\ new.pc = "using" /\ new.kind = "renew"
          /\ new.token = row.token /\ new.refused = t
      BY <1>0, <1>2, RowFields DEF RequestTypes, Places
    <2>2. Put(r, new) /\ KeptOrEnded /\ row.token # t
      BY <1>3 DEF HandOut, KeptOrEnded, AlreadyRenewed
    <2> HIDE DEF new, req
    <2>3. Moves(r, new)
      BY <1>0, <1>2, <2>1, <2>2 DEF Moves, RefusedOf
    <2> QED BY <2>3, MovesKeepRenew
  <1>4. CASE Active /\ Refresh(r, req)
    BY <1>0, <1>2, <1>4, RefreshMoves, MovesKeepRenew
  <1>5. CASE Replace(r, req)
    BY <1>0, <1>2, <1>5, ReplaceMoves, MovesKeepRenew
  <1> QED BY <1>3, <1>4, <1>5 DEF RenewProof

\* approve, and the ends of a transaction without a proof.
LEMMA EndsKeepRenew ==
    ASSUME ProofsInv, RenewInv, NEW r \in Requests,
           \/ \E u \in Subjects : Approve(r, u)
           \/ RefreshRefused(r) \/ IssueFails(r) \/ Cut(r) \/ Finish(r)
    PROVE  RenewInv'
  <1>0. ProofsTypeOK /\ requests[r] \in RequestTypes
    BY RequestFields DEF ProofsInv
  <1>1. ASSUME NEW u \in Subjects, Approve(r, u) PROVE RenewInv'
    <2> DEFINE prior == IF Active THEN row.token.proof ELSE None
               new == [IdleRequest EXCEPT !.kind = "approve", !.subject = u, !.pc = "issuing",
                                          !.replaced = row.token.proof, !.prior = prior]
    <2>0. prior \in Proofs \cup {None} /\ row.token.proof \in Proofs \cup {None}
      BY <1>0, RowFields
    <2> HIDE DEF prior
    <2>1. new \in RequestTypes /\ new.pc = "issuing" /\ new.kind = "approve"
      BY <2>0, IdleTyped DEF RequestTypes, Places, InLock
    <2>2. Put(r, new) /\ KeptOrEnded /\ issued' = issued
      BY <1>1 DEF Approve, KeptOrEnded, prior
    <2> HIDE DEF new
    <2>3. new.kind # None
      BY <2>1, ProofsAssumption
    <2>4. Moves(r, new)
      BY <2>1, <2>2, <2>3 DEF Moves
    <2> QED BY <2>4, MovesKeepRenew
  <1>2. CASE RefreshRefused(r)
    <2>1. /\ requests[r].pc = "refused" /\ ~requests[r].ending /\ issued' = issued
          /\ requests[r].kind # None
          /\ requests[r].kind = "renew" => HandedOut(r) /\ requests[r].refused = RefusedToken(r)
      BY <1>2 DEF RefreshRefused, ProofsInv, EndingFits, HandedOut, RefusedToken, RenewInv,
         KindsKnown
    <2>2. CASE Replace(r, requests[r])
      BY <1>0, <2>1, <2>2, ReplaceMoves, MovesKeepRenew
    <2>3. CASE (row' = IF Active THEN Ended("explicit") ELSE row) /\ Put(r, IdleRequest)
      BY <2>1, <2>3, IdleMoves, MovesKeepRenew DEF KeptOrEnded
    <2> QED BY <1>2, <2>2, <2>3 DEF RefreshRefused
  <1>3. CASE IssueFails(r)
    <2>1. KeptOrEnded /\ Put(r, IdleRequest) /\ issued' = issued
      BY <1>3 DEF IssueFails, KeptOrEnded, ProofsInv, EndingFits
    <2> QED BY <2>1, IdleMoves, MovesKeepRenew
  <1>4. CASE Cut(r) \/ Finish(r)
    <2>1. KeptOrEnded /\ Put(r, IdleRequest) /\ issued' = issued
      BY <1>4 DEF Cut, Finish, KeptOrEnded
    <2> QED BY <2>1, IdleMoves, MovesKeepRenew
  <1> QED BY <1>1, <1>2, <1>3, <1>4

\* A request has an answer to save, newer than all that was handed out.
LEMMA AnswerKeepsRenew ==
    ASSUME ProofsInv, RenewInv, NEW r \in Requests, NEW new \in RequestTypes, Put(r, new),
           row' = row, requests[r].pc \in {"refreshing", "issuing"}, new.pc = "saving",
           new.kind = requests[r].kind, new.refused = requests[r].refused,
           \A u \in Subjects, p \in Proofs \cup {None} :
              issued[<<u, p>>] # None => issued'[<<u, p>>] = issued[<<u, p>>],
           \A t : HandedFits(t) /\ t.proof = new.token.proof => t.gen < new.token.gen,
           new.token.proof # row.token.proof => Replaced(row.token.proof)'
    PROVE  RenewInv'
  <1>1. ProofsTypeOK
    BY DEF ProofsInv
  <1>2. requests'[r] = new /\ \A k \in Requests \ {r} : requests'[k] = requests[k]
    BY <1>1, PutEffect
  <1>3. \A k \in Requests \ {r} : requests[k].pc \notin InLock
    BY DEF ProofsInv, LockHeld, InLock
  <1>4. ASSUME NEW q \in Requests, HandedOut(q)'
        PROVE  HandedFits(RefusedToken(q))'
    <2>1. HandedOut(q) /\ RefusedToken(q)' = RefusedToken(q)
      BY <1>2, <1>4 DEF HandedOut, RefusedToken
    <2>2. HandedFits(RefusedToken(q))
      BY <2>1 DEF RenewInv, TokensFit
    <2>3. ASSUME NEW t, HandedFits(t) PROVE HandedFits(t)'
      <3>1. t \in Tokens /\ t.proof \in Proofs
        BY <2>3, Generations DEF HandedFits
      <3>2. Replaced(t.proof) => Replaced(t.proof)'
        BY <3>1 DEF Replaced
      <3>3. ASSUME NEW k \in Requests, t.proof = requests'[k].token.proof
            PROVE  /\ requests'[k].pc = "refreshing" => t.gen <= requests'[k].token.gen
                   /\ requests'[k].pc = "saving" => t.gen < requests'[k].token.gen
        <4>1. CASE k = r
          BY <1>2, <2>3, <3>3, <4>1
        <4>2. CASE k # r
          BY <1>2, <1>3, <3>3, <4>2 DEF InLock
        <4> QED BY <4>1, <4>2
      <3> QED BY <2>3, <3>1, <3>2, <3>3 DEF HandedFits, Active
    <2> QED BY <2>1, <2>2, <2>3 DEF HandedFits, Replaced
  <1>5. SaveReplaces'
    BY <1>2, <1>3 DEF SaveReplaces, InLock
  <1>6. RenewedDiffers' /\ KindsKnown'
    BY <1>2 DEF RenewInv, RenewedDiffers, KindsKnown
  <1> QED BY <1>4, <1>5, <1>6 DEF RenewInv, TokensFit

\* refresh_proof rotates past every token that was handed out.
LEMMA RemoteRefreshKeepsRenew ==
    ASSUME ProofsInv, RenewInv, NEW r \in Requests, RemoteRefresh(r)
    PROVE  RenewInv'
  <1> DEFINE p == requests[r].token.proof
             g == requests[r].token.gen
             saving == [requests[r] EXCEPT !.pc = "saving", !.token.gen = g + 1]
             refused(v) == [requests[r] EXCEPT !.pc = "refused", !.verdict = v]
  <1>1. /\ ProofsTypeOK /\ requests[r].pc = "refreshing" /\ requests[r] \in RequestTypes
        /\ row' = row /\ issued' = issued
        /\ requests[r].token \in Tokens /\ p \in Proofs /\ g \in 0 .. MaxGen
        /\ p = row.token.proof
    BY RequestFields DEF ProofsInv, RemoteRefresh, RefreshFits, Tokens
  <1>2. CASE Put(r, saving) /\ g + 1 \in 0 .. MaxGen
    <2>1. /\ saving \in RequestTypes /\ saving.pc = "saving" /\ saving.kind = requests[r].kind
          /\ saving.refused = requests[r].refused
          /\ saving.token.proof = p /\ saving.token.gen = g + 1
      BY <1>1, <1>2 DEF RequestTypes, Tokens, Places, InLock
    <2>2. ASSUME NEW t, HandedFits(t), t.proof = p PROVE t.gen < g + 1
      <3>1. t.gen <= g /\ t.gen \in Nat
        BY <1>1, <2>2, Generations DEF HandedFits
      <3> QED BY <1>1, <3>1, ProofsAssumption
    <2> HIDE DEF saving
    <2> QED BY <1>1, <1>2, <2>1, <2>2, AnswerKeepsRenew
  <1>3. ASSUME NEW v \in {"explicit", "other"}, Put(r, refused(v)) PROVE RenewInv'
    <2>1. /\ refused(v) \in RequestTypes /\ refused(v).pc = "refused"
          /\ refused(v).kind = requests[r].kind /\ refused(v).refused = requests[r].refused
      BY <1>1 DEF RequestTypes, Places, InLock
    <2>2. KeptOrEnded
      BY <1>1 DEF KeptOrEnded
    <2>3. Moves(r, refused(v))
      BY <1>1, <1>3, <2>1, <2>2 DEF Moves, HandedOut, RefusedOf, RefusedToken, RenewInv, KindsKnown
    <2> QED BY <2>3, MovesKeepRenew
  <1>4. CASE remote[p].gen = g + 1 /\ Put(r, saving)
    <2>1. remote[p].gen \in 0 .. MaxGen
      BY <1>1 DEF ProofsTypeOK
    <2> QED BY <1>2, <1>4, <2>1
  <1>5. CASE g < MaxGen /\ Put(r, saving)
    BY <1>1, <1>2, <1>5, ProofsAssumption
  <1> QED BY <1>3, <1>4, <1>5 DEF RemoteRefresh

\* issue_user_verification answers with a proof that was never handed out: one
\* that was is the row's or has been replaced itself.
LEMMA RemoteIssueKeepsRenew ==
    ASSUME ProofsInv, RenewInv, NEW r \in Requests, RemoteIssue(r)
    PROVE  RenewInv'
  <1> DEFINE u == requests[r].subject
             old == row.token.proof
             saving(q) == [requests[r] EXCEPT !.pc = "saving",
                                !.token = [NoToken EXCEPT !.proof = q]]
  <1>1. /\ ProofsTypeOK /\ requests[r].pc = "issuing" /\ requests[r] \in RequestTypes
        /\ row' = row /\ u \in Subjects /\ requests[r].replaced = old
        /\ old \in Proofs \cup {None}
    BY RowFields, RequestFields DEF ProofsInv, RemoteIssue, IssueFits
  <1>2. ASSUME NEW q \in Proofs, Put(r, saving(q)), q # old, issued'[<<u, old>>] = q,
               \A v \in Subjects : issued[<<v, q>>] = None,
               \A v \in Subjects, p \in Proofs \cup {None} :
                  issued[<<v, p>>] # None => issued'[<<v, p>>] = issued[<<v, p>>]
        PROVE  RenewInv'
    <2>1. /\ saving(q) \in RequestTypes /\ saving(q).pc = "saving"
          /\ saving(q).kind = requests[r].kind /\ saving(q).refused = requests[r].refused
          /\ saving(q).token.proof = q
      <3> DEFINE t == [NoToken EXCEPT !.proof = q]
      <3>1. t \in Tokens /\ t.proof = q
        BY ProofsAssumption DEF Tokens, NoToken
      <3> HIDE DEF t
      <3>2. saving(q) = [requests[r] EXCEPT !.pc = "saving", !.token = t]
        BY DEF t
      <3> QED BY <1>1, <3>1, <3>2 DEF RequestTypes, Places, InLock
    <2>2. \A t : HandedFits(t) => t.proof # q
      BY <1>2 DEF HandedFits, Replaced
    <2>3. Replaced(old)'
      BY <1>1, <1>2, ProofsAssumption DEF Replaced
    <2> HIDE DEF saving
    <2> QED BY <1>1, <1>2, <2>1, <2>2, <2>3, AnswerKeepsRenew
  <1>3. CASE /\ issued[<<u, old>>] # None /\ Put(r, saving(issued[<<u, old>>]))
             /\ issued' = issued
    <2> DEFINE q == issued[<<u, old>>]
    <2>1. q \in Proofs /\ q # old /\ \A v \in Subjects : issued[<<v, q>>] = None
      BY <1>1, <1>3 DEF ProofsInv, IssuedFits, ProofsTypeOK
    <2> HIDE DEF saving
    <2> QED BY <1>2, <1>3, <2>1
  <1>4. ASSUME NEW q \in Proofs, issued[<<u, old>>] = None, remote[q].state = "unissued",
               issued' = [issued EXCEPT ![<<u, old>>] = q], Put(r, saving(q))
        PROVE  RenewInv'
    <2>1. q # old /\ \A v \in Subjects : issued[<<v, q>>] = None
      BY <1>1, <1>4, ProofsAssumption DEF ProofsInv, UnissuedFits, RowFits
    <2>2. issued \in [Subjects \X (Proofs \cup {None}) -> Proofs \cup {None}]
      BY <1>1 DEF ProofsTypeOK
    <2>3. issued'[<<u, old>>] = q
      BY <1>1, <1>4, <2>2
    <2>4. ASSUME NEW v \in Subjects, NEW p \in Proofs \cup {None}, issued[<<v, p>>] # None
          PROVE  issued'[<<v, p>>] = issued[<<v, p>>]
      <3>1. <<v, p>> # <<u, old>> /\ <<v, p>> \in Subjects \X (Proofs \cup {None})
        BY <1>4, <2>4
      <3> QED BY <1>4, <2>2, <3>1
    <2> HIDE DEF saving
    <2> QED BY <1>2, <1>4, <2>1, <2>3, <2>4
  <1> QED BY <1>1, <1>3, <1>4 DEF RemoteIssue, IssueKey

\* What is saved is newer than what was handed out, and is handed out.
LEMMA SaveKeepsRenew ==
    ASSUME ProofsInv, RenewInv, NEW r \in Requests, Save(r)
    PROVE  RenewInv'
  <1> DEFINE n == requests[r].token
             old == row.token.proof
  <1>1. /\ ProofsTypeOK /\ requests[r].pc = "saving" /\ requests[r] \in RequestTypes
        /\ issued' = issued
    BY RequestFields DEF ProofsInv, Save
  <1>2. /\ n \in Tokens /\ n.proof \in Proofs /\ n.gen \in Nat
        /\ n.proof = old \/ \A u \in Subjects : issued[<<u, n.proof>>] = None
        /\ n.proof # old => Replaced(old)
    BY <1>1, Generations DEF ProofsInv, SaveFits, RenewInv, SaveReplaces
  <1>3. row'.token = n
    BY DEF Save
  <1>4. \A k \in Requests \ {r} : requests[k].pc \notin InLock
    BY <1>1 DEF ProofsInv, LockHeld, InLock
  <1>5. PICK new \in RequestTypes :
          /\ Put(r, new) /\ new.pc \notin InLock
          /\ new.pc = "using" => new.token = n
          /\ new.pc # "idle" => new.kind # None
          /\ new.pc = "using" \/ new.kind = "renew" =>
               /\ new.pc = "using" /\ new.kind = requests[r].kind /\ new.kind \in {"use", "renew"}
               /\ new.refused = requests[r].refused
    <2>1. CASE requests[r].kind # "approve"
      <3> DEFINE using == [requests[r] EXCEPT !.pc = "using", !.token = n, !.ending = FALSE,
                                              !.replaced = None, !.verdict = None]
      <3>1. /\ using \in RequestTypes /\ using.pc = "using" /\ using.token = n
            /\ using.kind = requests[r].kind /\ using.refused = requests[r].refused
        BY <1>1, <1>2 DEF RequestTypes, Places
      <3>2. Put(r, using)
        BY <2>1 DEF Save, HandOut
      <3>3. requests[r].kind \in {"use", "renew"} /\ requests[r].kind # None
        BY <1>1, <2>1 DEF RenewInv, KindsKnown, RequestTypes
      <3> HIDE DEF using
      <3> QED BY <3>1, <3>2, <3>3 DEF InLock
    <2>2. CASE requests[r].kind = "approve"
      <3> DEFINE revoking == [IdleRequest EXCEPT !.pc = "revoking", !.kind = "approve",
                                                 !.prior = requests[r].prior]
      <3>1. revoking \in RequestTypes /\ revoking.pc = "revoking" /\ revoking.kind = "approve"
            /\ revoking.kind # None
        BY <1>1, ProofsAssumption DEF IdleRequest, RequestTypes, Places, InLock
      <3>2. IdleRequest.kind # "renew"
        BY ProofsAssumption DEF IdleRequest
      <3>3. Put(r, revoking) \/ Put(r, IdleRequest)
        BY <2>2 DEF Save
      <3> HIDE DEF revoking
      <3> QED BY <3>1, <3>2, <3>3, IdleTyped DEF InLock
    <2> QED BY <2>1, <2>2
  <1>6. requests'[r] = new /\ \A k \in Requests \ {r} : requests'[k] = requests[k]
    BY <1>1, <1>5, PutEffect
  <1>7. \A k \in Requests : requests'[k].pc \notin InLock
    BY <1>4, <1>5, <1>6
  <1>8. ASSUME NEW t, HandedFits(t)
        PROVE  HandedFits(t)' /\ t # n
    <2>1. t \in Tokens /\ t.gen \in Nat /\ t.proof \in Proofs
      BY <1>8, Generations DEF HandedFits
    <2>2. t.proof = n.proof => t.gen < n.gen
      BY <1>1, <1>8 DEF HandedFits
    <2>3. t.proof # n.proof => Replaced(t.proof)
      <3>1. CASE t.proof # old
        BY <1>8, <3>1 DEF HandedFits
      <3>2. CASE t.proof = old
        BY <1>2, <3>2
      <3> QED BY <3>1, <3>2
    <2>4. t.proof # n.proof => Replaced(t.proof)'
      BY <1>1, <2>3 DEF Replaced
    <2> QED BY <1>2, <1>3, <1>7, <2>1, <2>2, <2>4 DEF HandedFits, InLock
  <1>9. ASSUME NEW q \in Requests, HandedOut(q)'
        PROVE  HandedFits(RefusedToken(q))' /\ (q = r /\ new.kind = "renew" => new.refused # n)
    <2>1. CASE q # r
      <3>1. HandedOut(q) /\ RefusedToken(q)' = RefusedToken(q)
        BY <1>6, <1>9, <2>1 DEF HandedOut, RefusedToken
      <3>2. HandedFits(RefusedToken(q))
        BY <3>1 DEF RenewInv, TokensFit
      <3> QED BY <1>8, <2>1, <3>1, <3>2 DEF HandedFits, Replaced
    <2>2. CASE q = r /\ new.kind = "renew"
      <3>1. HandedOut(q) /\ RefusedToken(q)' = RefusedToken(q) /\ RefusedToken(q) = new.refused
        BY <1>5, <1>6, <2>2 DEF HandedOut, RefusedToken
      <3>2. HandedFits(RefusedToken(q))
        BY <3>1 DEF RenewInv, TokensFit
      <3> QED BY <1>8, <3>1, <3>2 DEF HandedFits, Replaced
    <2>3. CASE q = r /\ new.kind = "use"
      <3>1. RefusedToken(q)' = n /\ new.kind # "renew"
        BY <1>5, <1>6, <1>9, <2>3 DEF HandedOut, RefusedToken
      <3>2. n.gen <= n.gen
        BY <1>2
      <3> QED BY <1>2, <1>3, <1>7, <3>1, <3>2 DEF HandedFits, InLock
    <2> QED BY <1>5, <1>6, <1>9, <2>1, <2>2, <2>3 DEF HandedOut
  <1>10. RenewedDiffers'
    <2> SUFFICES ASSUME NEW q \in Requests, requests'[q].pc = "using", requests'[q].kind = "renew"
                 PROVE  requests'[q].token # requests'[q].refused
      BY DEF RenewedDiffers
    <2>1. CASE q # r
      BY <1>6, <2>1 DEF RenewInv, RenewedDiffers
    <2>2. CASE q = r
      <3>1. HandedOut(q)'
        BY DEF HandedOut
      <3> QED BY <1>5, <1>6, <1>9, <2>2, <3>1
    <2> QED BY <2>1, <2>2
  <1>11. SaveReplaces' /\ KindsKnown'
    BY <1>5, <1>6, <1>7 DEF RenewInv, SaveReplaces, KindsKnown, InLock
  <1> QED BY <1>9, <1>10, <1>11 DEF RenewInv, TokensFit

\* Silicon Accounts, the webhooks and the clock leave requests and answers alone.
LEMMA OthersKeepRenew ==
    ASSUME ProofsInv, RenewInv, requests' = requests, issued' = issued,
           row'.token.proof = row.token.proof, Active' => Active /\ row'.token = row.token
    PROVE  RenewInv'
  <1>1. \A r \in Requests : (HandedOut(r)' <=> HandedOut(r)) /\ RefusedToken(r)' = RefusedToken(r)
    BY DEF HandedOut, RefusedToken
  <1>2. ASSUME NEW t, HandedFits(t) PROVE HandedFits(t)'
    BY <1>2 DEF HandedFits, Replaced
  <1>3. ASSUME NEW r \in Requests, HandedOut(r)' PROVE HandedFits(RefusedToken(r))'
    <2>1. HandedFits(RefusedToken(r))
      BY <1>1, <1>3 DEF RenewInv, TokensFit
    <2> QED BY <1>1, <1>2, <2>1 DEF HandedFits, Replaced
  <1>4. SaveReplaces' /\ KindsKnown' /\ RenewedDiffers'
    BY DEF RenewInv, SaveReplaces, KindsKnown, RenewedDiffers, Replaced
  <1> QED BY <1>3, <1>4 DEF RenewInv, TokensFit

\* Every step keeps the order of what is handed out.
LEMMA NextKeepsRenew ==
    ASSUME ProofsInv, RenewInv, [ProofsNext]_vars
    PROVE  RenewInv'
  <1>0. ProofsTypeOK
    BY DEF ProofsInv
  <1>1. ASSUME NEW r \in Requests,
               \/ \E u \in Subjects \cup {None} : UseProof(r, u)
               \/ \E u \in Subjects : Approve(r, u)
               \/ RenewProof(r) \/ RemoteRefresh(r) \/ RemoteIssue(r) \/ RefreshRefused(r)
               \/ IssueFails(r) \/ Save(r) \/ Cut(r) \/ Finish(r)
        PROVE  RenewInv'
    BY <1>1, UseKeepsRenew, RenewKeepsRenew, RemoteRefreshKeepsRenew, RemoteIssueKeepsRenew,
       SaveKeepsRenew, EndsKeepRenew
  <1>2. CASE \/ UNCHANGED vars
             \/ \E p \in Proofs : RemoteEnd(p) \/ RemoteRevoke(p)
    BY <1>2, OthersKeepRenew DEF vars, RemoteEnd, RemoteRevoke, Active
  <1>3. CASE \E reason \in {"explicit", "other"} : Invalidate(reason)
    <2>1. KeptOrEnded /\ requests' = requests /\ issued' = issued
      BY <1>3 DEF Invalidate, KeptOrEnded
    <2> QED BY <1>0, <2>1, KeptOrEndedEffect, OthersKeepRenew
  <1>4. CASE Expire
    <2>1. row \in ActiveRows /\ Active /\ requests' = requests /\ issued' = issued
      BY <1>0, <1>4, RowFields DEF Expire
    <2>2. row'.token = row.token
      BY <1>4, <2>1 DEF Expire, ActiveRows
    <2> QED BY <2>1, <2>2, OthersKeepRenew
  <1> QED BY <1>1, <1>2, <1>3, <1>4 DEF ProofsNext

\* renew_refused_proof never hands out the token that Briefcase has just refused,
\* also after lost answers, replacements and the renewals of other requests.
THEOREM RenewalIsNew == ProofsSpec => []RenewedDiffers
  <1>1. ProofsInit => RenewInv
    <2> SUFFICES ASSUME ProofsInit PROVE RenewInv
      OBVIOUS
    <2>1. \A r \in Requests : requests[r].pc = "idle" /\ requests[r].kind = None
      BY DEF ProofsInit, IdleRequest
    <2> QED BY <2>1, ProofsAssumption
         DEF RenewInv, TokensFit, HandedOut, SaveReplaces, KindsKnown, RenewedDiffers
  <1>2. ProofsInv /\ RenewInv /\ [ProofsNext]_vars => RenewInv'
    BY NextKeepsRenew
  <1>3. RenewInv => RenewedDiffers
    BY DEF RenewInv
  <1> QED BY <1>1, <1>2, <1>3, ProofsInvariance, PTL DEF ProofsSpec
=============================================================================
