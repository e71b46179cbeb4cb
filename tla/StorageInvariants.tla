-------------------------- MODULE StorageInvariants --------------------------
(***************************************************************************)
(* The inductive invariants behind the safety properties of StorageProofs: *)
(* the advisory lock makes a request the only one between its read of the  *)
(* row and its commit, and proofs answered under an idempotency key are    *)
(* new to the row; what has been handed out is older than what comes.      *)
(***************************************************************************)
EXTENDS StorageProofs

Gen(p) == remote[p].gen

\* Exactly the holder of the advisory lock is inside its transaction.
LockHeld == \A r \in Requests : requests[r].pc \in InLock <=> lock = r

\* While a request refreshes, the row keeps the proof that it read, and its
\* token while it is active; the token presented is not spent.
RefreshFits ==
    \A r \in Requests : requests[r].pc \in {"refreshing", "refused"} =>
        LET t == requests[r].token IN
        /\ t \in Tokens
        /\ t.proof = row.token.proof
        /\ Active => row.token = t
        /\ Gen(t.proof) \in {t.gen, t.gen + 1}

\* While a request issues, the row keeps the proof named in the key.
IssueFits ==
    \A r \in Requests : requests[r].pc = "issuing" =>
        /\ requests[r].subject \in Subjects
        /\ requests[r].replaced = row.token.proof

\* A pending invalidation holds the row lock, so the row is still active.
EndingFits ==
    \A r \in Requests : requests[r].ending =>
        Active /\ requests[r].pc \in {"issuing", "saving"}

\* What a request saves is the newest token of the row's proof, or of a proof
\* issued in its place.
SaveFits ==
    \A r \in Requests : requests[r].pc = "saving" =>
        LET t == requests[r].token IN
        /\ t \in Tokens
        /\ Gen(t.proof) = t.gen
        /\ remote[t.proof].state # "unissued"
        /\ \/ t.proof = row.token.proof
           \/ \A u \in Subjects : issued[<<u, t.proof>>] = None

\* A request that replaces the proof without approval does so after no decision
\* to revoke, and no decision can come in between: the row has ended already,
\* or is locked by the pending invalidation.
ReplaceFits ==
    \A r \in Requests :
        \/ requests[r].pc = "issuing"
        \/ requests[r].pc = "saving" /\ requests[r].token.proof # row.token.proof
        => \/ requests[r].kind = "approve"
           \/ ~Explicit /\ (Active => requests[r].ending)

\* approve remembers the proof of the row and saves the one issued for it.
ApproveFits ==
    \A r \in Requests : requests[r].kind = "approve" =>
        /\ requests[r].pc \in {"issuing", "saving", "revoking"}
        /\ requests[r].pc # "revoking" => requests[r].prior \in {None, row.token.proof}
        /\ requests[r].pc = "saving" =>
              /\ requests[r].subject \in Subjects
              /\ issued[<<requests[r].subject, row.token.proof>>] = requests[r].token.proof

\* A proof that approve still has to revoke has been replaced for good.
PriorFits ==
    \A r \in Requests : requests[r].pc = "revoking" =>
        /\ requests[r].prior \in Proofs \ {row.token.proof}
        /\ \E u \in Subjects : issued[<<u, requests[r].prior>>] # None

\* The row's refresh token is not spent.
RowFits ==
    /\ row.token.proof # None => remote[row.token.proof].state # "unissued"
    /\ Active => Gen(row.token.proof) \in {row.token.gen, row.token.gen + 1}

\* Silicon Accounts keeps nothing about a proof that it has not issued.
UnissuedFits ==
    \A p \in Proofs : remote[p].state = "unissued" =>
        /\ Gen(p) = 0
        /\ \A u \in Subjects : issued[<<u, p>>] = None

\* A proof kept under a key that names the row's proof has never been rotated
\* or replaced.
IssuedFits ==
    \A u \in Subjects :
        LET q == issued[<<u, row.token.proof>>] IN
        q # None =>
            /\ q # row.token.proof
            /\ Gen(q) = 0
            /\ remote[q].state # "unissued"
            /\ \A v \in Subjects : issued[<<v, q>>] = None

\* The inductive invariant of the storage proofs.
ProofsInv ==
    /\ ProofsTypeOK
    /\ LockHeld
    /\ RefreshFits
    /\ IssueFits
    /\ EndingFits
    /\ SaveFits
    /\ ReplaceFits
    /\ ApproveFits
    /\ PriorFits
    /\ RowFits
    /\ UnissuedFits
    /\ IssuedFits
-----------------------------------------------------------------------------
\* What Silicon Accounts has issued in place of a proof.
Replaced(p) == \E u \in Subjects : issued[<<u, p>>] # None

\* A request that was handed a proof which Briefcase may yet refuse, or has.
HandedOut(r) == requests[r].pc = "using" \/ requests[r].kind = "renew"

\* A token that was handed out is no newer than the row's, and older than one
\* that is about to be saved; its proof does not come back once it is replaced.
HandedFits(t) ==
    /\ t \in Tokens
    /\ Active /\ t.proof = row.token.proof => t.gen <= row.token.gen
    /\ t.proof # row.token.proof => Replaced(t.proof)
    /\ \A s \in Requests : t.proof = requests[s].token.proof =>
         /\ requests[s].pc = "refreshing" => t.gen <= requests[s].token.gen
         /\ requests[s].pc = "saving" => t.gen < requests[s].token.gen

TokensFit == \A r \in Requests : HandedOut(r) => HandedFits(RefusedToken(r))

\* A proof that is about to be saved was issued in place of the row's.
SaveReplaces ==
    \A r \in Requests :
        requests[r].pc = "saving" /\ requests[r].token.proof # row.token.proof =>
            Replaced(row.token.proof)

\* A request that is under way is one of the three operations.
KindsKnown == \A r \in Requests : requests[r].pc # "idle" => requests[r].kind # None

\* The inductive invariant of the tokens that are handed out.
RenewInv ==
    /\ KindsKnown
    /\ TokensFit
    /\ SaveReplaces
    /\ RenewedDiffers
=============================================================================
