--------------------------- MODULE AccountDirectory ---------------------------
(***************************************************************************)
(* Waveform's cache of Silicon Accounts (infrastructure/directory.rs and   *)
(* directory_sweep.rs, control/webhooks.rs): the rows of accounts, fed by  *)
(* credentials, by lookups that take time, and by webhook events that come *)
(* late, repeatedly, out of order or never, also before the account is     *)
(* first seen; and the custodian checks answered from it.                  *)
(*                                                                         *)
(* Silicon Accounts is external: past[t] is what it said at time t, and    *)
(* time moves with its changes.  Public ids are numbered in the order in   *)
(* which an account has them.  An event carries what was so at its at.     *)
(***************************************************************************)
EXTENDS Integers

CONSTANTS
    Silicons, Carbons,  \* the accounts of each kind
    Members,            \* the accounts that use Waveform, also through other apps;
                        \* others are only met as custodians
    Lookups,            \* requests and background tasks that may look accounts up
    MaxNow,             \* bound: changes at Silicon Accounts
    Skew,               \* LOOKUP_SKEW
    ProofDelay,         \* bound: changes at Silicon Accounts between its verification
                        \* of a proof and the reading of the clock that follows it
    None

ASSUME DirectoryAssumption ==
    /\ Silicons \cap Carbons = {}
    /\ None \notin Silicons \cup Carbons
    /\ Members \subseteq Silicons \cup Carbons
    /\ MaxNow \in Nat
    /\ Skew \in Nat
    /\ ProofDelay \in Nat

VARIABLES
    now, past,      \* Silicon Accounts
    sent,           \* the events it has sent
    oldest,         \* the earliest iat of the tokens that have not expired
    applied,        \* waveform_accounts_webhook_events: events handled
    rows,           \* waveform_account_keys and waveform_accounts
    pending,        \* waveform_account_pending_events
    lookups         \* tasks with a lookup under way

remoteVars == <<now, past, sent>>
vars == <<now, past, sent, oldest, applied, rows, pending, lookups>>

Accounts == Silicons \cup Carbons
Times == 0 .. MaxNow

\* NULL instants are before everything that is ever compared with them.
NoTime == -1 - Skew
NoId == -1
Instants == Times \cup {NoTime}
Ids == 0 .. MaxNow

Facts == [id : Ids, version : Ids, custodian : Carbons \cup {None}, deleted : BOOLEAN]

Events == [type : {"id_changed", "updated", "custodian_changed", "signed_out", "deleted"},
           account : Accounts, at : Times]

\* Names, photos and the instants that only schedule the next lookup
\* (custodian_checked_at, looked_up_at) are left out.
NoRow == [known |-> FALSE, id |-> NoId, idAt |-> NoTime, version |-> 0,
          custodian |-> None, custodianId |-> NoId, custodianAt |-> NoTime,
          revoked |-> NoTime, deleted |-> FALSE]

Rows == [known : BOOLEAN, id : Ids \cup {NoId}, idAt : Instants, version : Ids,
         custodian : Carbons \cup {None}, custodianId : Ids \cup {NoId},
         custodianAt : Instants, revoked : Instants,
         deleted : BOOLEAN]

NoPending == [revoked |-> NoTime, deletedAt |-> NoTime]

\* A task that looks account up, for the Carbon that wants to act as its
\* custodian or for nobody; byId: select_by_lookup.  since is the custodianAt of
\* the row when the Carbon came.
IdleLookup == [pc |-> "idle", account |-> None, caller |-> None, byId |-> FALSE,
               since |-> NoTime, started |-> 0, asOf |-> 0]

LookupTypes ==
    [pc : {"idle", "asked", "answered", "gone", "ensured", "stored", "granted", "read"},
     account : Accounts \cup {None}, caller : Carbons \cup {None}, byId : BOOLEAN,
     since : Instants, started : Times, asOf : Times]

\* The shape of the tables, of the tasks and of what Silicon Accounts keeps.
DirectoryTypeOK ==
    /\ now \in Times
    /\ past \in [Times -> [Accounts -> Facts]]
    /\ sent \subseteq Events
    /\ oldest \in [Accounts -> Times]
    /\ applied \subseteq sent
    /\ rows \in [Accounts -> Rows]
    /\ pending \in [Accounts -> [revoked : Instants, deletedAt : Instants]]
    /\ lookups \in [Lookups -> LookupTypes]

\* Any custodians; Waveform has seen nobody.
DirectoryInit ==
    /\ now = 0
    /\ \E of \in [Silicons -> Carbons] :
         past = [t \in Times |-> [a \in Accounts |->
                    [id |-> 0, version |-> 0, deleted |-> FALSE,
                     custodian |-> IF a \in Silicons THEN of[a] ELSE None]]]
    /\ sent = {}
    /\ oldest = [a \in Accounts |-> 0]
    /\ applied = {}
    /\ rows = [a \in Accounts |-> NoRow]
    /\ pending = [a \in Accounts |-> NoPending]
    /\ lookups = [l \in Lookups |-> IdleLookup]
-----------------------------------------------------------------------------
(***************************************************************************)
(* Silicon Accounts                                                        *)
(***************************************************************************)

\* One change, at the next instant, with its event.
Announce(type, a, facts) ==
    /\ now < MaxNow
    /\ ~past[now][a].deleted
    /\ now' = now + 1
    /\ past' = [past EXCEPT ![now + 1] = [past[now] EXCEPT ![a] = facts]]
    /\ sent' = sent \cup {[type |-> type, account |-> a, at |-> now + 1]}
    /\ UNCHANGED <<oldest, applied, rows, pending, lookups>>

RemoteChange(a) ==
    LET facts == past[now][a] IN
    \/ Announce("id_changed", a, [facts EXCEPT !.id = @ + 1])
    \/ Announce("updated", a, [facts EXCEPT !.version = @ + 1])
    \/ Announce("signed_out", a, facts)
    \/ Announce("deleted", a, [facts EXCEPT !.deleted = TRUE])
    \/ \E c \in Carbons \ {facts.custodian} :
         /\ a \in Silicons
         /\ Announce("custodian_changed", a, [facts EXCEPT !.custodian = c])
-----------------------------------------------------------------------------
(***************************************************************************)
(* Statements                                                              *)
(***************************************************************************)
Later(t, u) == IF t >= u THEN t ELSE u

Known(a) == rows[a].known
Live(a) == rows[a].known /\ ~rows[a].deleted

\* SELECT_RECORD folds in what was recorded before the first sighting.
RevokedBefore(a) == Later(rows[a].revoked, pending[a].revoked)
Deleted(a) == rows[a].deleted \/ pending[a].deletedAt # NoTime

\* bearer: whether a token issued at t is let through
Accepts(a, t) == ~Deleted(a) /\ t >= RevokedBefore(a)

\* record_pending_event
RecordPending(a, at, deleted) ==
    pending' = [pending EXCEPT
        ![a].revoked = Later(@, at),
        ![a].deletedAt = IF deleted /\ @ = NoTime THEN at ELSE @]

\* purge_account, as far as the row goes
Tombstone(row, at) ==
    [row EXCEPT !.deleted = TRUE, !.revoked = Later(@, at), !.id = NoId,
                !.custodian = None, !.custodianId = NoId]

PurgeAccount(a, at) ==
    IF Known(a)
    THEN /\ rows' = [rows EXCEPT ![a] = Tombstone(@, at)]
         /\ pending' = [pending EXCEPT ![a] = NoPending]
    ELSE /\ RecordPending(a, at, TRUE)
         /\ UNCHANGED rows

\* Faulty variant: only deletions are folded in.
FoldedDeletion(a, row) ==
    IF pending[a].deletedAt # NoTime THEN Tombstone(row, pending[a].deletedAt) ELSE row

\* fold_pending_events
Folded(a, row) ==
    IF pending[a].deletedAt # NoTime
    THEN Tombstone(row, pending[a].deletedAt)
    ELSE [row EXCEPT !.revoked = Later(@, pending[a].revoked)]

\* ensure: creates the row, or fills a missing id known to be right at t
Ensured(a, id, t) ==
    LET Named(row) == IF id = NoId THEN row ELSE [row EXCEPT !.id = id, !.idAt = t]
        row == rows[a]
    IN
    Folded(a, IF ~row.known THEN Named([NoRow EXCEPT !.known = TRUE])
              ELSE IF row.id = NoId /\ ~row.deleted THEN Named(row)
              ELSE row)

Ensure(a, id, t) ==
    /\ rows' = [rows EXCEPT ![a] = Ensured(a, id, t)]
    /\ pending' = [pending EXCEPT ![a] = NoPending]

\* Rows, with the row of a replaced, in which Silicons of a show its id
ShowCustodianId(a, row, id) ==
    [b \in Accounts |->
        IF b = a THEN row
        ELSE IF rows[b].custodian = a THEN [rows[b] EXCEPT !.custodianId = id]
        ELSE rows[b]]
-----------------------------------------------------------------------------
(***************************************************************************)
(* Credentials: sighting                                                   *)
(***************************************************************************)

\* The id that a credential carries is that of t; it is taken to be right as of
\* asOf: the iat of a token, the clock after the verification of a proof.
Credential(a, t, asOf) ==
    /\ t \in oldest[a] .. now
    /\ asOf \in t .. now
    /\ asOf - t <= ProofDelay
    /\ ~past[t][a].deleted

\* The account is not known, or not its id; hinted: the credential carries one.
FirstSight(a, t, asOf, hinted) ==
    /\ Credential(a, t, asOf)
    /\ ~Known(a) \/ (rows[a].id = NoId /\ hinted)
    /\ Ensure(a, IF hinted THEN past[t][a].id ELSE NoId, asOf)
    /\ UNCHANGED <<now, past, sent, oldest, applied, lookups>>

\* Faulty variant: the id of any credential is taken over, however old it is.
AdoptIdOfAnyAge(a, t, asOf) ==
    LET id == past[t][a].id IN
    /\ Credential(a, t, asOf)
    /\ Live(a)
    /\ rows[a].id # id
    /\ rows' = ShowCustodianId(a, [rows[a] EXCEPT !.id = id, !.idAt = asOf], id)
    /\ UNCHANGED <<now, past, sent, oldest, applied, pending, lookups>>

\* adopt_id
AdoptId(a, t, asOf) ==
    LET id == past[t][a].id IN
    /\ Credential(a, t, asOf)
    /\ Live(a)
    /\ rows[a].id # id
    /\ rows[a].idAt < asOf
    /\ rows' = ShowCustodianId(a, [rows[a] EXCEPT !.id = id, !.idAt = asOf], id)
    /\ UNCHANGED <<now, past, sent, oldest, applied, pending, lookups>>

\* complete_profile: userinfo as of t
CompleteProfile(a, t) ==
    /\ Credential(a, t, t)
    /\ Live(a)
    /\ rows[a].version <= past[t][a].version
    /\ rows' = [rows EXCEPT ![a].version = past[t][a].version]
    /\ UNCHANGED <<now, past, sent, oldest, applied, pending, lookups>>
-----------------------------------------------------------------------------
(***************************************************************************)
(* Events: receive and apply, in one transaction with the event id         *)
(***************************************************************************)
Receive(e, type) ==
    /\ e \in sent \ applied
    /\ e.type = type
    /\ applied' = applied \cup {e}
    /\ UNCHANGED <<now, past, sent, oldest, lookups>>

\* The Silicons' rows are updated whether or not the account's own is.
IdChanged(e) ==
    LET a   == e.account
        id  == past[e.at][a].id
        row == IF Live(a) /\ rows[a].idAt <= e.at
               THEN [rows[a] EXCEPT !.id = id, !.idAt = e.at] ELSE rows[a]
    IN
    /\ Receive(e, "id_changed")
    /\ rows' = ShowCustodianId(a, row, id)
    /\ UNCHANGED pending

\* The version decides, also about the public id, which the event may carry; idAt
\* is left as it is.
ProfileUpdated(e, carriesId) ==
    LET a     == e.account
        facts == past[e.at][a]
    IN
    /\ Receive(e, "updated")
    /\ rows' = IF Live(a) /\ rows[a].version < facts.version
               THEN [rows EXCEPT ![a].version = facts.version,
                                 ![a].id = IF carriesId THEN facts.id ELSE @]
               ELSE rows
    /\ UNCHANGED pending

\* Faulty variant: events are taken to arrive in order.
CustodianChangedInAnyOrder(e) ==
    LET a == e.account
        c == past[e.at][a].custodian
    IN
    /\ Receive(e, "custodian_changed")
    /\ rows' = IF Live(a)
               THEN [rows EXCEPT ![a].custodian = c, ![a].custodianId = past[e.at][c].id,
                                 ![a].custodianAt = e.at]
               ELSE rows
    /\ UNCHANGED pending

CustodianChanged(e) ==
    LET a == e.account
        c == past[e.at][a].custodian
    IN
    /\ Receive(e, "custodian_changed")
    /\ rows' = IF Live(a) /\ rows[a].custodianAt <= e.at
               THEN [rows EXCEPT ![a].custodian = c, ![a].custodianId = past[e.at][c].id,
                                 ![a].custodianAt = e.at]
               ELSE rows
    /\ UNCHANGED pending

\* end_sign_ins, as far as the directory goes
SignedOut(e) ==
    LET a == e.account IN
    /\ Receive(e, "signed_out")
    /\ IF Known(a)
       THEN /\ rows' = [rows EXCEPT ![a].revoked = Later(@, e.at)]
            /\ UNCHANGED pending
       ELSE /\ RecordPending(a, e.at, FALSE)
            /\ UNCHANGED rows

AccountDeleted(e) ==
    /\ Receive(e, "deleted")
    /\ PurgeAccount(e.account, e.at)

\* sweep forgets pending events after seven days, when every token that they
\* could concern has expired.
ForgetPending(a) ==
    /\ pending[a] # NoPending
    /\ pending' = [pending EXCEPT ![a] = NoPending]
    /\ oldest' = [oldest EXCEPT ![a] = Later(@, pending[a].revoked)]
    /\ UNCHANGED <<now, past, sent, applied, rows, lookups>>
-----------------------------------------------------------------------------
(***************************************************************************)
(* Lookups                                                                 *)
(***************************************************************************)
Put(l, task) == lookups' = [lookups EXCEPT ![l] = task]

Begun(pc, a, c, byId) ==
    [pc |-> pc, account |-> a, caller |-> c, byId |-> byId, started |-> now, asOf |-> 0,
     since |-> IF c = None THEN NoTime ELSE rows[a].custodianAt]

\* refresh_in_background, silicons_of, sweep, and the first lookup of sighting
Refresh(l, a) ==
    /\ lookups[l].pc = "idle"
    /\ Known(a)
    /\ Put(l, Begun("asked", a, None, FALSE))
    /\ UNCHANGED <<now, past, sent, oldest, applied, rows, pending>>

\* custody asks Silicon Accounts for every write, for a read that no recent
\* answer covers, and about a mismatch at most once a minute.
Custody(l, s, c) ==
    /\ lookups[l].pc = "idle"
    /\ Known(s) /\ ~Deleted(s)
    /\ Put(l, Begun("asked", s, c, FALSE))
    /\ UNCHANGED <<now, past, sent, oldest, applied, rows, pending>>

\* custody: a custodian that was confirmed recently reads on the row alone.
CustodyRead(l, s, c) ==
    /\ lookups[l].pc = "idle"
    /\ Known(s) /\ ~Deleted(s)
    /\ rows[s].custodian = c
    /\ Put(l, Begun("read", s, c, FALSE))
    /\ UNCHANGED <<now, past, sent, oldest, applied, rows, pending>>

\* select_by_lookup: the Carbon names a public id, or a uuid Waveform has not seen
SelectByLookup(l, a, c) ==
    /\ lookups[l].pc = "idle"
    /\ Put(l, Begun("asked", a, c, TRUE))
    /\ UNCHANGED <<now, past, sent, oldest, applied, rows, pending>>

\* Faulty variant: an account that Silicon Accounts does not know was deleted.
AnswerUnknownAsGone(l) ==
    LET task == lookups[l] IN
    /\ task.pc = "asked"
    /\ \/ Put(l, [task EXCEPT !.pc = "answered", !.asOf = now]) /\ ~past[now][task.account].deleted
       \/ Put(l, [task EXCEPT !.pc = "gone"]) /\ ~task.byId
    /\ UNCHANGED <<now, past, sent, oldest, applied, rows, pending>>

\* The answer: the account, or that it was deleted, which is only acted on for
\* accounts that Waveform holds.  "Unknown", like a failure, changes nothing.
Answer(l) ==
    LET task == lookups[l]
        gone == past[now][task.account].deleted
    IN
    /\ task.pc = "asked"
    /\ \/ ~gone /\ Put(l, [task EXCEPT !.pc = "answered", !.asOf = now])
       \/ gone /\ ~task.byId /\ Put(l, [task EXCEPT !.pc = "gone"])
    /\ UNCHANGED <<now, past, sent, oldest, applied, rows, pending>>

\* purge_deleted
PurgeDeleted(l) ==
    /\ lookups[l].pc = "gone"
    /\ PurgeAccount(lookups[l].account, now)
    /\ Put(l, IdleLookup)
    /\ UNCHANGED <<now, past, sent, oldest, applied>>

\* store_summary, its first transaction; an account that the caller merely named
\* is not cached
EnsureSummary(l) ==
    LET task  == lookups[l]
        facts == past[task.asOf][task.account]
    IN
    /\ task.pc = "answered"
    /\ task.byId => Known(task.account) \/ facts.custodian = task.caller
    /\ Ensure(task.account, facts.id, task.started)
    /\ Put(l, [task EXCEPT !.pc = "ensured"])
    /\ UNCHANGED <<now, past, sent, oldest, applied>>

\* The row after the UPDATE of store_summary: ids and custodians that changed
\* after the lookup started, or shortly before, are kept.
Summary(task) ==
    LET row     == rows[task.account]
        facts   == past[task.asOf][task.account]
        c       == facts.custodian
        earlier == task.started - Skew
        newId   == row.idAt < earlier
        newCustodian == task.account \in Silicons /\ row.custodianAt < earlier
        newCustodianId == IF rows[c].idAt >= earlier /\ rows[c].id # NoId
                          THEN rows[c].id ELSE past[task.asOf][c].id
    IN
    [row EXCEPT
        !.id = IF newId THEN facts.id ELSE @,
        !.idAt = IF newId THEN task.started ELSE @,
        !.custodian = IF newCustodian THEN c ELSE @,
        !.custodianId = IF newCustodian THEN newCustodianId ELSE @]

\* store_summary, its UPDATE
StoreSummary(l) ==
    LET task == lookups[l] IN
    /\ task.pc = "ensured"
    /\ rows' = IF Live(task.account)
               THEN [rows EXCEPT ![task.account] = Summary(task)] ELSE rows
    /\ Put(l, IF task.caller = None THEN IdleLookup ELSE [task EXCEPT !.pc = "stored", !.asOf = 0])
    /\ UNCHANGED <<now, past, sent, oldest, applied, pending>>

\* What is stored, not the answer, decides.
Grant(l) ==
    LET task == lookups[l] IN
    /\ task.pc = "stored"
    /\ rows[task.account].custodian = task.caller
    /\ ~Deleted(task.account)
    /\ Put(l, [task EXCEPT !.pc = "granted"])
    /\ UNCHANGED <<now, past, sent, oldest, applied, rows, pending>>

\* A refusal, a failure, a timeout, or the end of the request
Leave(l) ==
    /\ lookups[l].pc # "idle"
    /\ Put(l, IdleLookup)
    /\ UNCHANGED <<now, past, sent, oldest, applied, rows, pending>>

DirectoryNext ==
    \/ \E a \in Members :
        \/ RemoteChange(a)
        \/ ForgetPending(a)
        \/ \E t \in Times :
            \/ \E u \in Times, hinted \in BOOLEAN : FirstSight(a, t, u, hinted)
            \/ \E u \in Times : AdoptId(a, t, u)
            \/ CompleteProfile(a, t)
    \/ \E e \in sent :
        \/ IdChanged(e)
        \/ \E carriesId \in BOOLEAN : ProfileUpdated(e, carriesId)
        \/ CustodianChanged(e) \/ SignedOut(e) \/ AccountDeleted(e)
    \/ \E l \in Lookups :
        \/ \E a \in Members : Refresh(l, a)
        \/ \E s \in Silicons, c \in Carbons : Custody(l, s, c) \/ CustodyRead(l, s, c)
        \/ \E a \in Members, c \in Carbons : SelectByLookup(l, a, c)
        \/ Answer(l)
        \/ PurgeDeleted(l)
        \/ EnsureSummary(l)
        \/ StoreSummary(l)
        \/ Grant(l)
        \/ Leave(l)

DirectorySpec == DirectoryInit /\ [][DirectoryNext]_vars
-----------------------------------------------------------------------------
\* webhooks.rs end_sign_ins, directory_sweep.rs 124-125: a token issued before a
\* sign-out or deletion that has been received is refused, also if the event came
\* before the account was first seen.
SignOutsStand ==
    \A e \in applied : e.type \in {"signed_out", "deleted"} =>
        \A t \in oldest[e.account] .. e.at - 1 : ~Accepts(e.account, t)

\* directory_sweep.rs 9-11: data is only deleted for accounts that Silicon
\* Accounts has called deleted, and the tombstone stays empty.
TombstonesAreTrue ==
    \A a \in Accounts : rows[a].deleted =>
        /\ past[now][a].deleted
        /\ rows[a].id = NoId
        /\ rows[a].custodian = None
        /\ rows[a].custodianId = NoId

\* directory.rs 43-44: a lookup that was answered before a change of custodian
\* does not undo the change once its event is applied.
CustodianIsNoOlder ==
    \A s \in Silicons : rows[s].custodian # None /\ rows[s].custodianAt # NoTime =>
        \E t \in rows[s].custodianAt .. now : past[t][s].custodian = rows[s].custodian

\* docs/accounts.md 111: nobody is let act as custodian who lost the custody by
\* a change that was applied before the request came.
GrantsAreCurrent ==
    \A l \in Lookups : lookups[l].pc \in {"granted", "read"} =>
        \E t \in Later(0, lookups[l].since) .. now :
            past[t][lookups[l].account].custodian = lookups[l].caller

\* directory.rs 84-85: writes always ask Silicon Accounts, so a Carbon let write
\* was the custodian at some time since it asked.
WritesAskAgain ==
    \A l \in Lookups : lookups[l].pc = "granted" =>
        \E t \in lookups[l].started .. now :
            past[t][lookups[l].account].custodian = lookups[l].caller

\* adopt_id, store_summary, account.id_changed: whatever order evidence comes in,
\* an id is not replaced by one from before the instant as of which it was taken
\* to be right, less the time that a proof's instant may be late.  Only
\* account.updated, which compares versions, does that.
NewerIdsStand ==
    [][\A a \in Accounts :
         rows[a].id # NoId /\ rows'[a].id \notin {NoId, rows[a].id} =>
            \/ past[Later(0, rows[a].idAt - ProofDelay)][a].id <= rows'[a].id
            \/ \E e \in applied' \ applied : e.type = "updated" /\ e.account = a]_vars

\* migrations/0018 10-11 says it of all evidence: idAt is "the instant as of which
\* current_id is known to be right", and "older evidence never replaces newer".
IdsHaveEvidence ==
    \A a \in Accounts : rows[a].id # NoId /\ rows[a].idAt # NoTime =>
        past[rows[a].idAt][a].id <= rows[a].id
=============================================================================
