-------------------------- MODULE DirectoryTheorems --------------------------
(***************************************************************************)
(* Proofs, for any accounts, lookups and bounds, that DirectoryInv is      *)
(* inductive and implies the safety properties of AccountDirectory.        *)
(***************************************************************************)
EXTENDS DirectoryInvariants, TLAPS

\* NULL is before every instant.
LEMMA InstantsOrder ==
    /\ NoTime \in Int /\ NoTime < 0 /\ NoTime < 0 - Skew
    /\ NoTime \notin Times
    /\ 0 \in Times
    /\ \A t \in Times : t \in Int /\ t \in Instants /\ 0 <= t
    /\ \A t \in Instants : t \in Int /\ NoTime <= t
    /\ \A t \in Instants : t # NoTime => t \in Times
BY DirectoryAssumption DEF NoTime, Times, Instants

\* Later is the maximum.
LEMMA LaterIsMax ==
    ASSUME NEW t \in Instants, NEW u \in Instants
    PROVE  /\ Later(t, u) \in Instants
           /\ Later(t, u) >= t
           /\ Later(t, u) >= u
           /\ Later(t, u) \in {t, u}
BY InstantsOrder DEF Later

\* The empty row and the idle task say nothing.
LEMMA NothingFits ==
    ASSUME DirectoryTypeOK
    PROVE  /\ NoRow \in Rows
           /\ NoPending \in [revoked : Instants, deletedAt : Instants]
           /\ IdleLookup \in LookupTypes
           /\ \A a \in Accounts : RowFits(a, NoRow)
<1>1. NoRow \in Rows
  BY InstantsOrder, DirectoryAssumption DEF NoRow, Rows, Instants, Ids, Times
<1>2. NoPending \in [revoked : Instants, deletedAt : Instants]
  BY DEF NoPending, Instants
<1>3. IdleLookup \in LookupTypes
  BY InstantsOrder DEF IdleLookup, LookupTypes, Instants
<1>4. \A a \in Accounts : RowFits(a, NoRow)
  BY InstantsOrder DEF RowFits, NoRow, DirectoryTypeOK
<1> QED BY <1>1, <1>2, <1>3, <1>4
-----------------------------------------------------------------------------
(* Rows *)

\* A tombstone of an account that was deleted fits.
LEMMA TombstoneFits ==
    ASSUME DirectoryTypeOK, NEW a \in Accounts, NEW row \in Rows, RowFits(a, row),
           NEW at \in Instants, row.known, past[now][a].deleted
    PROVE  /\ Tombstone(row, at) \in Rows
           /\ RowFits(a, Tombstone(row, at))
           /\ Tombstone(row, at).known
           /\ Tombstone(row, at).deleted
           /\ Tombstone(row, at).custodianAt = row.custodianAt
           /\ Tombstone(row, at).revoked >= row.revoked
           /\ Tombstone(row, at).revoked >= at
<1> DEFINE new == Tombstone(row, at)
<1>1. row.revoked \in Instants BY DEF Rows
<1>2. /\ Later(row.revoked, at) \in Instants
      /\ Later(row.revoked, at) >= row.revoked
      /\ Later(row.revoked, at) >= at
  BY <1>1, LaterIsMax
<1>3. new = [row EXCEPT !.deleted = TRUE, !.revoked = Later(row.revoked, at), !.id = NoId,
                        !.custodian = None, !.custodianId = NoId]
  BY DEF Tombstone
<1>4. new \in Rows
  BY <1>2, <1>3 DEF Rows
<1>5. /\ new.known = row.known /\ new.deleted = TRUE /\ new.id = NoId /\ new.custodian = None
      /\ new.custodianId = NoId /\ new.custodianAt = row.custodianAt /\ new.idAt = row.idAt
      /\ new.revoked = Later(row.revoked, at)
  BY <1>3 DEF Rows
<1>6. RowFits(a, new)
  <2> HIDE DEF new
  <2> QED BY <1>5 DEF RowFits
<1> QED BY <1>2, <1>4, <1>5, <1>6

\* Setting the custodian's id, the version or the revocation of a live row.
LEMMA MarkFits ==
    ASSUME DirectoryTypeOK, NEW a \in Accounts, NEW row \in Rows, RowFits(a, row), NEW new \in Rows,
           row.known, new.known,
           new.id = row.id, new.idAt = row.idAt,
           new.custodian = row.custodian, new.custodianAt = row.custodianAt,
           new.deleted = row.deleted,
           row.deleted => new.custodianId = row.custodianId
    PROVE  RowFits(a, new)
BY DEF RowFits

\* A new id with the instant as of which it is taken to be right.
LEMMA NamedFits ==
    ASSUME DirectoryTypeOK, NEW a \in Accounts, NEW row \in Rows, RowFits(a, row), NEW new \in Rows,
           row.known, ~row.deleted, new.known, ~new.deleted,
           new.idAt <= now,
           new.custodian = row.custodian, new.custodianAt = row.custodianAt
    PROVE  RowFits(a, new)
BY DEF RowFits
-----------------------------------------------------------------------------
(* Steps of Waveform: Silicon Accounts stands still. *)

\* Before and after a step, revoked_before is an instant.
LEMMA RevokedTypes ==
    /\ DirectoryTypeOK => \A a \in Accounts : RevokedBefore(a) \in Instants
    /\ DirectoryTypeOK' => \A a \in Accounts : RevokedBefore(a)' \in Instants
<1>1. ASSUME DirectoryTypeOK, NEW a \in Accounts
      PROVE  RevokedBefore(a) \in Instants
  <2>1. rows[a].revoked \in Instants /\ pending[a].revoked \in Instants
    BY <1>1 DEF DirectoryTypeOK, Rows
  <2> QED BY <2>1, LaterIsMax DEF RevokedBefore
<1>2. ASSUME DirectoryTypeOK', NEW a \in Accounts
      PROVE  RevokedBefore(a)' \in Instants
  <2>1. rows'[a].revoked \in Instants /\ pending'[a].revoked \in Instants
    BY <1>2 DEF DirectoryTypeOK, Rows
  <2> QED BY <2>1, LaterIsMax DEF RevokedBefore
<1> QED BY <1>1, <1>2

\* The parts of the invariant that a step may disturb one by one.
LEMMA LocalStep ==
    ASSUME DirectoryInv, UNCHANGED remoteVars,
           DirectoryTypeOK',
           \A a \in Accounts : RowFits(a, rows'[a]),
           \A a \in Accounts : rows[a].custodianAt <= rows'[a].custodianAt,
           \A l \in Lookups : lookups'[l] = lookups[l] \/ TaskFits(lookups[l])',
           PendingFits',
           SignOutsFit'
    PROVE  DirectoryInv'
<1>1. HistoryFits' /\ EventsFit'
  BY DEF DirectoryInv, HistoryFits, EventsFit, remoteVars
<1>2. RowsFit'
  BY DEF RowsFit, RowFits, remoteVars
<1>3. ASSUME NEW l \in Lookups, lookups'[l] = lookups[l]
      PROVE  TaskFits(lookups[l])'
  <2>1. TaskFits(lookups[l]) /\ lookups[l] \in LookupTypes
    BY DEF DirectoryInv, LookupsFit, DirectoryTypeOK
  <2>2. CASE lookups[l].pc = "idle"
    BY <1>3, <2>2 DEF TaskFits
  <2>3. CASE lookups[l].pc # "idle"
    <3> DEFINE a == lookups[l].account
    <3>1. a \in Accounts /\ lookups[l].since <= rows[a].custodianAt
      BY <2>1, <2>3 DEF TaskFits
    <3>2. /\ rows[a].custodianAt \in Int /\ rows'[a].custodianAt \in Int
          /\ lookups[l].since \in Int
      BY <3>1, <2>1, InstantsOrder DEF DirectoryInv, DirectoryTypeOK, Rows, LookupTypes
    <3>3. lookups[l].since <= rows'[a].custodianAt
      BY <3>1, <3>2
    <3> QED BY <1>3, <2>1, <2>3, <3>3 DEF TaskFits, remoteVars
  <2> QED BY <2>2, <2>3
<1>4. LookupsFit' BY <1>3 DEF LookupsFit
<1> QED BY <1>1, <1>2, <1>4 DEF DirectoryInv

\* Sign-outs stay where they are.
LEMMA SignOutStep ==
    ASSUME DirectoryInv, DirectoryTypeOK',
           \A a \in Accounts :
              /\ rows[a].deleted => rows'[a].deleted
              /\ oldest[a] <= oldest'[a]
              /\ \/ RevokedBefore(a) <= RevokedBefore(a)'
                 \/ rows'[a].deleted
                 \/ RevokedBefore(a) <= oldest'[a],
           \A e \in applied' \ applied : e.type \in {"signed_out", "deleted"} =>
              RevokedBefore(e.account)' >= e.at
    PROVE  SignOutsFit'
<1> SUFFICES ASSUME NEW e \in applied', e.type \in {"signed_out", "deleted"}
             PROVE  \/ RevokedBefore(e.account)' >= e.at
                    \/ rows'[e.account].deleted
                    \/ oldest'[e.account] >= e.at
  BY DEF SignOutsFit
<1>1. CASE e \notin applied BY <1>1
<1>2. CASE e \in applied
  <2>1. e \in Events BY <1>2 DEF DirectoryInv, DirectoryTypeOK
  <2>2. e.account \in Accounts /\ e.at \in Int BY <2>1, InstantsOrder DEF Events
  <2>3. /\ RevokedBefore(e.account) \in Int /\ RevokedBefore(e.account)' \in Int
        /\ oldest[e.account] \in Int /\ oldest'[e.account] \in Int
    <3>1. RevokedBefore(e.account) \in Int /\ RevokedBefore(e.account)' \in Int
      BY <2>2, RevokedTypes, InstantsOrder DEF DirectoryInv
    <3>2. oldest[e.account] \in Times /\ oldest'[e.account] \in Times
      BY <2>2 DEF DirectoryInv, DirectoryTypeOK
    <3> QED BY <3>1, <3>2, InstantsOrder
  <2>4. \/ RevokedBefore(e.account) >= e.at
        \/ rows[e.account].deleted
        \/ oldest[e.account] >= e.at
    BY <1>2 DEF DirectoryInv, SignOutsFit
  <2> QED BY <2>2, <2>3, <2>4
<1> QED BY <1>1, <1>2

\* A step that only moves one task.
LEMMA LookupStep ==
    ASSUME DirectoryInv, NEW l \in Lookups, NEW task \in LookupTypes, TaskFits(task),
           UNCHANGED <<now, past, sent, oldest, applied, rows, pending>>, Put(l, task)
    PROVE  DirectoryInv'
<1>1. lookups' \in [Lookups -> LookupTypes]
  BY DEF Put, DirectoryInv, DirectoryTypeOK
<1>2. DirectoryTypeOK' BY <1>1 DEF DirectoryInv, DirectoryTypeOK
<1>3. \A m \in Lookups : lookups'[m] = lookups[m] \/ TaskFits(lookups[m])'
  <2>1. lookups'[l] = task BY DEF Put, DirectoryInv, DirectoryTypeOK
  <2>2. TaskFits(lookups[l])' BY <2>1 DEF TaskFits
  <2>3. \A m \in Lookups : m # l => lookups'[m] = lookups[m]
    BY DEF Put, DirectoryInv, DirectoryTypeOK
  <2> QED BY <2>2, <2>3
<1>4. PendingFits' /\ SignOutsFit'
  BY DEF DirectoryInv, PendingFits, SignOutsFit, RevokedBefore
<1>5. \A a \in Accounts : RowFits(a, rows'[a]) /\ rows[a].custodianAt <= rows'[a].custodianAt
  <2>1. \A a \in Accounts : RowFits(a, rows[a]) BY DEF DirectoryInv, RowsFit
  <2>2. \A a \in Accounts : rows[a].custodianAt \in Instants
    BY DEF DirectoryInv, DirectoryTypeOK, Rows
  <2> QED BY <2>1, <2>2, InstantsOrder
<1> QED BY <1>2, <1>3, <1>4, <1>5, LocalStep DEF remoteVars

\* A step that writes ids, versions and custodians to rows.
LEMMA RowStep ==
    ASSUME DirectoryInv, UNCHANGED <<now, past, sent, oldest, pending>>,
           rows' \in [Accounts -> Rows],
           lookups' \in [Lookups -> LookupTypes],
           applied' \subseteq sent,
           \A e \in applied' \ applied : e.type \notin {"signed_out", "deleted"},
           \A a \in Accounts :
              /\ RowFits(a, rows'[a])
              /\ rows'[a].known = rows[a].known
              /\ rows'[a].deleted = rows[a].deleted
              /\ rows'[a].revoked = rows[a].revoked
              /\ rows[a].custodianAt <= rows'[a].custodianAt,
           \A l \in Lookups : lookups'[l] = lookups[l] \/ TaskFits(lookups[l])'
    PROVE  DirectoryInv'
<1>1. DirectoryTypeOK' BY DEF DirectoryInv, DirectoryTypeOK
<1>2. PendingFits' BY DEF DirectoryInv, PendingFits
<1>3. \A a \in Accounts : RevokedBefore(a)' = RevokedBefore(a) BY DEF RevokedBefore
<1>4. \A a \in Accounts : /\ RevokedBefore(a) <= RevokedBefore(a)'
                          /\ oldest[a] <= oldest'[a]
                          /\ rows[a].deleted => rows'[a].deleted
  <2>1. \A a \in Accounts : RevokedBefore(a) \in Int
    BY RevokedTypes, InstantsOrder DEF DirectoryInv
  <2>2. \A a \in Accounts : oldest[a] \in Int
    BY InstantsOrder DEF DirectoryInv, DirectoryTypeOK
  <2> QED BY <1>3, <2>1, <2>2
<1>5. SignOutsFit' BY <1>1, <1>4, SignOutStep
<1> QED BY <1>1, <1>2, <1>5, LocalStep DEF remoteVars
-----------------------------------------------------------------------------
(* Lookups *)

\* A task that begins, for the Carbon c or for nobody.
LEMMA BegunFits ==
    ASSUME DirectoryInv, NEW a \in Accounts, NEW c \in Carbons \cup {None}, NEW byId \in BOOLEAN
    PROVE  /\ Begun("asked", a, c, byId) \in LookupTypes
           /\ TaskFits(Begun("asked", a, c, byId))
<1> DEFINE task == Begun("asked", a, c, byId)
           since == IF c = None THEN NoTime ELSE rows[a].custodianAt
<1>1. rows[a].custodianAt \in Instants /\ now \in Times
  BY DEF DirectoryInv, DirectoryTypeOK, Rows
<1>2. since \in Instants /\ since <= rows[a].custodianAt
  BY <1>1, InstantsOrder DEF Instants
<1> HIDE DEF since
<1>3. task = [pc |-> "asked", account |-> a, caller |-> c, byId |-> byId, since |-> since,
              started |-> now, asOf |-> 0]
  BY DEF Begun, since
<1>4. task \in LookupTypes
  BY <1>1, <1>2, <1>3, InstantsOrder DEF LookupTypes
<1>5. TaskFits(task)
  BY <1>1, <1>2, <1>3, InstantsOrder DEF TaskFits
<1> QED BY <1>4, <1>5

\* A lookup begins, to refresh a row, to select or for a custodian.
LEMMA BeginKeeps ==
    ASSUME DirectoryInv, NEW l \in Lookups, NEW a \in Accounts,
           \/ Refresh(l, a)
           \/ \E c \in Carbons : SelectByLookup(l, a, c) \/ Custody(l, a, c)
    PROVE  DirectoryInv'
<1>1. \A c \in Carbons \cup {None}, byId \in BOOLEAN :
        Begun("asked", a, c, byId) \in LookupTypes /\ TaskFits(Begun("asked", a, c, byId))
  BY BegunFits
<1>2. CASE Refresh(l, a) BY <1>1, <1>2, LookupStep DEF Refresh
<1>3. ASSUME NEW c \in Carbons, SelectByLookup(l, a, c) PROVE DirectoryInv'
  BY <1>1, <1>3, LookupStep DEF SelectByLookup
<1>4. ASSUME NEW c \in Carbons, Custody(l, a, c) PROVE DirectoryInv'
  BY <1>1, <1>4, LookupStep DEF Custody
<1> QED BY <1>2, <1>3, <1>4

\* A custodian is read from the directory alone.
LEMMA ReadKeeps ==
    ASSUME DirectoryInv, NEW l \in Lookups, NEW s \in Silicons, NEW c \in Carbons,
           CustodyRead(l, s, c)
    PROVE  DirectoryInv'
<1> DEFINE task == Begun("read", s, c, FALSE)
<1>1. s \in Accounts /\ c # None BY DirectoryAssumption DEF Accounts
<1>2. rows[s].custodianAt \in Instants /\ now \in Times /\ rows[s].custodian = c
  BY <1>1 DEF DirectoryInv, DirectoryTypeOK, Rows, CustodyRead
<1>3. task = [pc |-> "read", account |-> s, caller |-> c, byId |-> FALSE,
              since |-> rows[s].custodianAt, started |-> now, asOf |-> 0]
  BY <1>1 DEF Begun
<1>4. \E t \in Later(0, rows[s].custodianAt) .. now : past[t][s].custodian = c
  BY <1>1, <1>2 DEF DirectoryInv, RowsFit, RowFits
<1>5. Put(l, task) /\ UNCHANGED <<now, past, sent, oldest, applied, rows, pending>>
  BY DEF CustodyRead
<1> HIDE DEF task
<1>6. task \in LookupTypes
  BY <1>1, <1>2, <1>3, InstantsOrder DEF LookupTypes
<1>7. TaskFits(task)
  BY <1>1, <1>2, <1>3, <1>4, InstantsOrder DEF TaskFits
<1> QED BY <1>5, <1>6, <1>7, LookupStep

\* Silicon Accounts answers a lookup with what it knows now.
LEMMA AnswerKeeps ==
    ASSUME DirectoryInv, NEW l \in Lookups, Answer(l)
    PROVE  DirectoryInv'
<1> DEFINE old == lookups[l]
           answered == [old EXCEPT !.pc = "answered", !.asOf = now]
           gone == [old EXCEPT !.pc = "gone"]
<1>1. old \in LookupTypes /\ TaskFits(old) /\ old.pc = "asked" /\ now \in Times
  BY DEF DirectoryInv, LookupsFit, DirectoryTypeOK, Answer
<1>2. answered \in LookupTypes /\ gone \in LookupTypes
  BY <1>1 DEF LookupTypes
<1>3. TaskFits(answered)
  BY <1>1, InstantsOrder DEF TaskFits, LookupTypes
<1>4. past[now][old.account].deleted => TaskFits(gone)
  BY <1>1 DEF TaskFits, LookupTypes
<1>5. /\ Put(l, answered) \/ (past[now][old.account].deleted /\ Put(l, gone))
      /\ UNCHANGED <<now, past, sent, oldest, applied, rows, pending>>
  BY DEF Answer
<1> HIDE DEF answered, gone
<1> QED BY <1>2, <1>3, <1>4, <1>5, LookupStep

\* A request is granted from what is stored.
LEMMA GrantKeeps ==
    ASSUME DirectoryInv, NEW l \in Lookups, Grant(l)
    PROVE  DirectoryInv'
<1> DEFINE old == lookups[l]
           new == [old EXCEPT !.pc = "granted"]
           a == old.account
<1>1. old \in LookupTypes /\ TaskFits(old) /\ old.pc = "stored"
  BY DEF DirectoryInv, LookupsFit, DirectoryTypeOK, Grant
<1>2. a \in Accounts /\ old.caller \in Carbons /\ old.since <= rows[a].custodianAt
  BY <1>1 DEF TaskFits
<1>3. rows[a].custodian = old.caller /\ old.caller # None
  BY <1>2, DirectoryAssumption DEF Grant
<1>4. PICK t \in Later(0, rows[a].custodianAt) .. now : past[t][a].custodian = old.caller
  BY <1>2, <1>3 DEF DirectoryInv, RowsFit, RowFits
<1>5. /\ old.since \in Int /\ rows[a].custodianAt \in Int /\ now \in Int
  BY <1>1, <1>2, InstantsOrder DEF DirectoryInv, DirectoryTypeOK, LookupTypes, Rows
<1>6. t \in Later(0, old.since) .. now
  BY <1>2, <1>4, <1>5 DEF Later
<1>7. /\ new.pc = "granted" /\ new.account = a /\ new.started = old.started
      /\ new.asOf = old.asOf /\ new.since = old.since /\ new.caller = old.caller
  BY <1>1 DEF LookupTypes
<1>8. new \in LookupTypes BY <1>1 DEF LookupTypes
<1>9. Put(l, new) /\ UNCHANGED <<now, past, sent, oldest, applied, rows, pending>>
  BY DEF Grant
<1> HIDE DEF new
<1>10. TaskFits(new)
  BY <1>1, <1>2, <1>4, <1>6, <1>7 DEF TaskFits
<1> QED BY <1>8, <1>9, <1>10, LookupStep

\* A lookup ends.
LEMMA LeaveKeeps ==
    ASSUME DirectoryInv, NEW l \in Lookups, Leave(l)
    PROVE  DirectoryInv'
<1>1. IdleLookup \in LookupTypes BY NothingFits DEF DirectoryInv
<1>2. TaskFits(IdleLookup) BY DEF TaskFits, IdleLookup
<1> QED BY <1>1, <1>2, LookupStep DEF Leave
-----------------------------------------------------------------------------
(* Credentials and events that change rows *)

\* What was true of an account at an instant, field by field.
LEMMA FactTypes ==
    ASSUME DirectoryTypeOK, NEW t \in Times, NEW a \in Accounts
    PROVE  /\ past[t][a] \in Facts
           /\ past[t][a].id \in Ids /\ past[t][a].id # NoId /\ past[t][a].id \in Int
           /\ past[t][a].version \in Ids
<1>1. past[t][a] \in Facts BY DEF DirectoryTypeOK
<1> QED BY <1>1, DirectoryAssumption DEF Facts, Ids, NoId

\* A row that may take the place of the row of a in a RowStep.
MayReplace(a, new) ==
    /\ new \in Rows
    /\ RowFits(a, new)
    /\ new.known = rows[a].known
    /\ new.deleted = rows[a].deleted
    /\ new.revoked = rows[a].revoked
    /\ rows[a].custodianAt <= new.custodianAt

\* A row may always be replaced by itself.
LEMMA SameMayReplace ==
    ASSUME DirectoryInv
    PROVE  \A b \in Accounts : MayReplace(b, rows[b])
<1>1. \A b \in Accounts : rows[b] \in Rows /\ RowFits(b, rows[b])
  BY DEF DirectoryInv, DirectoryTypeOK, RowsFit
<1>2. \A b \in Accounts : rows[b].custodianAt \in Int BY <1>1, InstantsOrder DEF Rows
<1>3. \A b \in Accounts : rows[b].custodianAt <= rows[b].custodianAt BY <1>2
<1> QED BY <1>1, <1>3 DEF MayReplace

\* RowStep, in terms of MayReplace.
LEMMA ReplaceStep ==
    ASSUME DirectoryInv, UNCHANGED <<now, past, sent, oldest, pending>>,
           rows' \in [Accounts -> Rows],
           \A b \in Accounts : MayReplace(b, rows'[b]),
           lookups' \in [Lookups -> LookupTypes],
           applied' \subseteq sent,
           \A e \in applied' \ applied : e.type \notin {"signed_out", "deleted"},
           \A l \in Lookups : lookups'[l] = lookups[l] \/ TaskFits(lookups[l])'
    PROVE  DirectoryInv'
BY RowStep DEF MayReplace

\* ReplaceStep for a credential or an event.
LEMMA SightStep ==
    ASSUME DirectoryInv, UNCHANGED <<now, past, sent, oldest, pending, lookups>>,
           rows' \in [Accounts -> Rows],
           \A b \in Accounts : MayReplace(b, rows'[b]),
           \/ applied' = applied
           \/ \E e \in sent : applied' = applied \cup {e} /\ e.type \notin {"signed_out", "deleted"}
    PROVE  DirectoryInv'
<1>1. applied \subseteq sent /\ lookups \in [Lookups -> LookupTypes]
  BY DEF DirectoryInv, DirectoryTypeOK
<1>2. /\ applied' \subseteq sent
      /\ \A e \in applied' \ applied : e.type \notin {"signed_out", "deleted"}
  BY <1>1
<1>3. lookups' \in [Lookups -> LookupTypes] /\ \A l \in Lookups : lookups'[l] = lookups[l]
  BY <1>1
<1> QED BY <1>2, <1>3, ReplaceStep

\* One row is replaced.
LEMMA OneRow ==
    ASSUME DirectoryInv, NEW a \in Accounts, NEW new, MayReplace(a, new),
           rows' = [rows EXCEPT ![a] = new]
    PROVE  /\ rows' \in [Accounts -> Rows]
           /\ \A b \in Accounts : MayReplace(b, rows'[b])
<1>1. rows \in [Accounts -> Rows] BY DEF DirectoryInv, DirectoryTypeOK
<1>2. new \in Rows BY DEF MayReplace
<1>3. rows' \in [Accounts -> Rows] BY <1>1, <1>2
<1>4. rows'[a] = new /\ \A b \in Accounts : b # a => rows'[b] = rows[b] BY <1>1
<1> QED BY <1>3, <1>4, SameMayReplace

\* The row of a is replaced, and Silicons of a show its id.
LEMMA ShownRows ==
    ASSUME DirectoryInv, NEW a \in Accounts, NEW new, MayReplace(a, new), NEW id \in Ids,
           rows' = ShowCustodianId(a, new, id)
    PROVE  /\ rows' \in [Accounts -> Rows]
           /\ \A b \in Accounts : MayReplace(b, rows'[b])
<1>1. ASSUME NEW b \in Accounts, b # a, rows[b].custodian = a
      PROVE  MayReplace(b, [rows[b] EXCEPT !.custodianId = id])
  <2> DEFINE row == rows[b]
             shown == [row EXCEPT !.custodianId = id]
  <2>1. row \in Rows /\ RowFits(b, row) BY DEF DirectoryInv, DirectoryTypeOK, RowsFit
  <2>2. a # None BY DirectoryAssumption DEF Accounts
  <2>3. row.known /\ ~row.deleted
    BY <1>1, <2>1, <2>2 DEF RowFits, NoRow
  <2>4. shown \in Rows BY <2>1 DEF Rows
  <2>5. /\ shown.known = row.known /\ shown.id = row.id /\ shown.idAt = row.idAt
        /\ shown.custodian = row.custodian /\ shown.custodianAt = row.custodianAt
        /\ shown.deleted = row.deleted /\ shown.revoked = row.revoked
    BY <2>1 DEF Rows
  <2>6. row.custodianAt <= row.custodianAt
    BY SameMayReplace DEF MayReplace
  <2> HIDE DEF shown
  <2>7. RowFits(b, shown)
    BY <2>1, <2>3, <2>4, <2>5, MarkFits DEF DirectoryInv
  <2>8. MayReplace(b, shown) BY <2>4, <2>5, <2>6, <2>7 DEF MayReplace
  <2> QED BY <2>8 DEF shown
<1>2. rows' = [b \in Accounts |-> IF b = a THEN new
                                  ELSE IF rows[b].custodian = a
                                  THEN [rows[b] EXCEPT !.custodianId = id] ELSE rows[b]]
  BY DEF ShowCustodianId
<1>3. \A b \in Accounts : MayReplace(b, rows'[b])
  BY <1>1, <1>2, SameMayReplace
<1>4. \A b \in Accounts : rows'[b] \in Rows BY <1>3 DEF MayReplace
<1>5. rows' \in [Accounts -> Rows]
  BY <1>2, <1>4
<1> QED BY <1>3, <1>5

\* A live row with a new id, taken to be right as of an instant that is past.
LEMMA NamedMayReplace ==
    ASSUME DirectoryInv, NEW a \in Accounts, Live(a),
           NEW id \in Ids, NEW asOf \in Times, asOf <= now
    PROVE  MayReplace(a, [rows[a] EXCEPT !.id = id, !.idAt = asOf])
<1> DEFINE row == rows[a]
           new == [row EXCEPT !.id = id, !.idAt = asOf]
<1>1. row \in Rows /\ RowFits(a, row) BY DEF DirectoryInv, DirectoryTypeOK, RowsFit
<1>2. row.known /\ ~row.deleted BY DEF Live
<1>3. new \in Rows BY <1>1, InstantsOrder DEF Rows
<1>4. /\ new.known = row.known /\ new.id = id /\ new.idAt = asOf
      /\ new.custodian = row.custodian /\ new.custodianAt = row.custodianAt
      /\ new.deleted = row.deleted /\ new.revoked = row.revoked
  BY <1>1 DEF Rows
<1>5. row.custodianAt <= row.custodianAt BY SameMayReplace DEF MayReplace
<1> HIDE DEF new
<1>6. RowFits(a, new)
  BY <1>1, <1>2, <1>3, <1>4, NamedFits DEF DirectoryInv
<1>7. MayReplace(a, new) BY <1>3, <1>4, <1>5, <1>6 DEF MayReplace
<1> QED BY <1>7 DEF new

\* adopt_account_id moves the row to its new id.
LEMMA AdoptIdKeeps ==
    ASSUME DirectoryInv, NEW a \in Accounts, NEW t \in Times, NEW asOf \in Times,
           AdoptId(a, t, asOf)
    PROVE  DirectoryInv'
<1> DEFINE id == past[t][a].id
           new == [rows[a] EXCEPT !.id = id, !.idAt = asOf]
<1>1. Live(a) /\ Credential(a, t, asOf) /\ rows' = ShowCustodianId(a, new, id)
  BY DEF AdoptId
<1>2. id \in Ids /\ id \in Int BY FactTypes DEF DirectoryInv
<1>3. asOf <= now
  BY <1>1, InstantsOrder DEF Credential, DirectoryInv, DirectoryTypeOK
<1>5. MayReplace(a, new) BY <1>1, <1>2, <1>3, NamedMayReplace
<1> HIDE DEF new, id
<1>6. rows' \in [Accounts -> Rows] /\ \A b \in Accounts : MayReplace(b, rows'[b])
  BY <1>1, <1>2, <1>5, ShownRows
<1> QED BY <1>6, SightStep DEF AdoptId

\* A live row with a new version.
LEMMA CompleteProfileKeeps ==
    ASSUME DirectoryInv, NEW a \in Accounts, NEW t \in Times, CompleteProfile(a, t)
    PROVE  DirectoryInv'
<1> DEFINE row == rows[a]
           v == past[t][a].version
           new == [row EXCEPT !.version = v]
<1>1. row \in Rows /\ RowFits(a, row) /\ row.known /\ v \in Ids
  BY FactTypes DEF DirectoryInv, DirectoryTypeOK, RowsFit, CompleteProfile, Live
<1>2. new \in Rows BY <1>1 DEF Rows
<1>3. /\ new.known = row.known /\ new.id = row.id /\ new.idAt = row.idAt
      /\ new.custodian = row.custodian /\ new.custodianAt = row.custodianAt
      /\ new.deleted = row.deleted /\ new.revoked = row.revoked
      /\ new.custodianId = row.custodianId
  BY <1>1 DEF Rows
<1>4. row.custodianAt <= row.custodianAt BY SameMayReplace DEF MayReplace
<1>5. rows' = [rows EXCEPT ![a] = new]
  BY DEF CompleteProfile
<1> HIDE DEF new
<1>6. RowFits(a, new) BY <1>1, <1>2, <1>3, MarkFits DEF DirectoryInv
<1>7. MayReplace(a, new) BY <1>2, <1>3, <1>4, <1>6 DEF MayReplace
<1>8. rows' \in [Accounts -> Rows] /\ \A b \in Accounts : MayReplace(b, rows'[b])
  BY <1>5, <1>7, OneRow
<1> QED BY <1>8, SightStep DEF CompleteProfile

\* What an event says of its account.
LEMMA EventTypes ==
    ASSUME DirectoryInv, NEW e \in sent
    PROVE  e.account \in Accounts /\ e.at \in Times /\ e.at <= now
<1>1. e \in Events BY DEF DirectoryInv, DirectoryTypeOK
<1> QED BY <1>1 DEF Events, DirectoryInv, EventsFit

\* The webhook account.id_changed.
LEMMA IdChangedKeeps ==
    ASSUME DirectoryInv, NEW e \in sent, IdChanged(e)
    PROVE  DirectoryInv'
<1> DEFINE a == e.account
           id == past[e.at][a].id
           named == [rows[a] EXCEPT !.id = id, !.idAt = e.at]
           new == IF Live(a) /\ rows[a].idAt <= e.at THEN named ELSE rows[a]
<1>1. a \in Accounts /\ e.at \in Times /\ e.at <= now BY EventTypes
<1>2. id \in Ids /\ id \in Int BY <1>1, FactTypes DEF DirectoryInv
<1>4. Live(a) => MayReplace(a, named) BY <1>1, <1>2, NamedMayReplace
<1>5. MayReplace(a, new) BY <1>1, <1>4, SameMayReplace
<1>6. rows' = ShowCustodianId(a, new, id) BY DEF IdChanged
<1>7. rows' \in [Accounts -> Rows] /\ \A b \in Accounts : MayReplace(b, rows'[b])
  <2> HIDE DEF new, id, a
  <2> QED BY <1>1, <1>2, <1>5, <1>6, ShownRows
<1> QED BY <1>7, SightStep DEF IdChanged, Receive

\* The webhook account.updated.
LEMMA ProfileUpdatedKeeps ==
    ASSUME DirectoryInv, NEW e \in sent, NEW carriesId \in BOOLEAN, ProfileUpdated(e, carriesId)
    PROVE  DirectoryInv'
<1> DEFINE a == e.account
           row == rows[a]
           facts == past[e.at][a]
           id == IF carriesId THEN facts.id ELSE row.id
           new == [row EXCEPT !.version = facts.version, !.id = id]
<1>1. a \in Accounts /\ e.at \in Times /\ e.at <= now BY EventTypes
<1>2. CASE Live(a) /\ row.version < facts.version
  <2>1. row \in Rows /\ RowFits(a, row) /\ row.known /\ ~row.deleted
    BY <1>1, <1>2 DEF DirectoryInv, DirectoryTypeOK, RowsFit, Live
  <2>2. facts.version \in Ids /\ facts.id \in Ids BY <1>1, FactTypes DEF DirectoryInv
  <2>3. id \in Ids \cup {NoId} BY <2>1, <2>2 DEF Rows
  <2>4. rows' = [rows EXCEPT ![a] = new]
    BY <1>1, <1>2 DEF ProfileUpdated, DirectoryInv, DirectoryTypeOK, Rows
  <2> HIDE DEF id
  <2>6. new \in Rows BY <2>1, <2>2, <2>3 DEF Rows
  <2>7. /\ new.known = row.known /\ new.id = id /\ new.idAt = row.idAt
        /\ new.custodian = row.custodian /\ new.custodianAt = row.custodianAt
        /\ new.deleted = row.deleted /\ new.revoked = row.revoked
    BY <2>1 DEF Rows
  <2>8. row.custodianAt <= row.custodianAt BY <1>1, SameMayReplace DEF MayReplace
  <2> HIDE DEF new
  <2>9. RowFits(a, new) BY <1>1, <2>1, <2>6, <2>7 DEF RowFits
  <2>10. MayReplace(a, new) BY <2>6, <2>7, <2>8, <2>9 DEF MayReplace
  <2>11. rows' \in [Accounts -> Rows] /\ \A b \in Accounts : MayReplace(b, rows'[b])
    BY <1>1, <2>4, <2>10, OneRow
  <2> QED BY <2>11, SightStep DEF ProfileUpdated, Receive
<1>3. CASE ~(Live(a) /\ row.version < facts.version)
  <2>1. rows' = rows BY <1>3 DEF ProfileUpdated
  <2>2. rows' \in [Accounts -> Rows] /\ \A b \in Accounts : MayReplace(b, rows'[b])
    BY <2>1, SameMayReplace DEF DirectoryInv, DirectoryTypeOK
  <2> QED BY <2>2, SightStep DEF ProfileUpdated, Receive
<1> QED BY <1>2, <1>3

\* A live row with the custodian of an instant no earlier than its last change.
LEMMA CustodianFits ==
    ASSUME DirectoryTypeOK, NEW a \in Accounts, NEW row \in Rows, RowFits(a, row), NEW new \in Rows,
           row.known, ~row.deleted, new.known, ~new.deleted,
           new.id = row.id, new.idAt = row.idAt,
           new.custodianAt <= now,
           NEW t \in Times, t <= now, new.custodianAt <= t,
           past[t][a].custodian = new.custodian
    PROVE  RowFits(a, new)
<1>1. new.custodianAt \in Int /\ t \in Int /\ 0 <= t /\ now \in Int
  BY InstantsOrder DEF Rows, DirectoryTypeOK
<1>2. t \in Later(0, new.custodianAt) .. now BY <1>1 DEF Later
<1> QED BY <1>2 DEF RowFits

\* The webhook silicon.custodian_changed.
LEMMA CustodianChangedKeeps ==
    ASSUME DirectoryInv, NEW e \in sent, CustodianChanged(e)
    PROVE  DirectoryInv'
<1> DEFINE a == e.account
           row == rows[a]
           c == past[e.at][a].custodian
           cid == past[e.at][c].id
           new == [row EXCEPT !.custodian = c, !.custodianId = cid, !.custodianAt = e.at]
<1>1. a \in Accounts /\ e.at \in Times /\ e.at <= now BY EventTypes
<1>2. CASE Live(a) /\ row.custodianAt <= e.at
  <2>1. row \in Rows /\ RowFits(a, row) /\ row.known /\ ~row.deleted
    BY <1>1, <1>2 DEF DirectoryInv, DirectoryTypeOK, RowsFit, Live
  <2>2. c \in Carbons
    BY <1>1 DEF CustodianChanged, Receive, DirectoryInv, EventsFit, HistoryFits
  <2>3. cid \in Ids BY <1>1, <2>2, FactTypes DEF DirectoryInv, Accounts
  <2>4. rows' = [rows EXCEPT ![a] = new]
    BY <1>1, <1>2 DEF CustodianChanged, DirectoryInv, DirectoryTypeOK, Rows
  <2>5. past[e.at][a].custodian = c OBVIOUS
  <2> HIDE DEF c, cid
  <2>6. new \in Rows BY <1>1, <2>1, <2>2, <2>3, InstantsOrder DEF Rows
  <2>7. /\ new.known = row.known /\ new.id = row.id /\ new.idAt = row.idAt
        /\ new.custodian = c /\ new.custodianAt = e.at
        /\ new.deleted = row.deleted /\ new.revoked = row.revoked
    BY <2>1 DEF Rows
  <2>8. e.at <= e.at BY <1>1, InstantsOrder
  <2> HIDE DEF new
  <2>9. RowFits(a, new)
    BY <1>1, <2>1, <2>5, <2>6, <2>7, <2>8, CustodianFits DEF DirectoryInv
  <2>10. MayReplace(a, new) BY <1>2, <2>6, <2>7, <2>9 DEF MayReplace
  <2>11. rows' \in [Accounts -> Rows] /\ \A b \in Accounts : MayReplace(b, rows'[b])
    BY <1>1, <2>4, <2>10, OneRow
  <2> QED BY <2>11, SightStep DEF CustodianChanged, Receive
<1>3. CASE ~(Live(a) /\ row.custodianAt <= e.at)
  <2>1. rows' = rows BY <1>3 DEF CustodianChanged
  <2>2. rows' \in [Accounts -> Rows] /\ \A b \in Accounts : MayReplace(b, rows'[b])
    BY <2>1, SameMayReplace DEF DirectoryInv, DirectoryTypeOK
  <2> QED BY <2>2, SightStep DEF CustodianChanged, Receive
<1> QED BY <1>2, <1>3
-----------------------------------------------------------------------------
(* Answers that are stored *)

\* The row that a lookup leaves behind.
LEMMA SummaryMayReplace ==
    ASSUME DirectoryInv, NEW task \in LookupTypes, TaskFits(task), task.pc = "ensured",
           Live(task.account)
    PROVE  MayReplace(task.account, Summary(task))
<1> DEFINE a == task.account
           row == rows[a]
           facts == past[task.asOf][a]
           c == facts.custodian
           earlier == task.started - Skew
           newId == row.idAt < earlier
           newCustodian == a \in Silicons /\ row.custodianAt < earlier
           newCustodianId == IF rows[c].idAt >= earlier /\ rows[c].id # NoId
                             THEN rows[c].id ELSE past[task.asOf][c].id
           id == IF newId THEN facts.id ELSE row.id
           idAt == IF newId THEN task.started ELSE row.idAt
           cust == IF newCustodian THEN c ELSE row.custodian
           custId == IF newCustodian THEN newCustodianId ELSE row.custodianId
           named == [row EXCEPT !.id = id, !.idAt = idAt]
           new == [row EXCEPT !.id = id, !.idAt = idAt, !.custodian = cust, !.custodianId = custId]
<1>1. /\ a \in Accounts /\ task.started \in Times /\ task.asOf \in Times
      /\ task.started <= task.asOf /\ task.started <= now /\ task.asOf <= now
  BY DEF TaskFits, LookupTypes
<1>2. row \in Rows /\ RowFits(a, row) /\ row.known /\ ~row.deleted
  BY <1>1 DEF DirectoryInv, DirectoryTypeOK, RowsFit, Live
<1>3. facts.id \in Ids /\ facts.id \in Int BY <1>1, FactTypes DEF DirectoryInv
<1>5. Summary(task) = new
  BY DEF Summary
<1>6. id \in Ids \cup {NoId} /\ idAt \in Instants /\ idAt <= now
  BY <1>1, <1>2, <1>3, InstantsOrder DEF Rows, RowFits
<1>7. a \in Silicons => c \in Carbons
  BY <1>1 DEF DirectoryInv, HistoryFits
<1>8. ASSUME newCustodian PROVE newCustodianId \in Ids \cup {NoId}
  <2>1. c \in Carbons BY <1>7, <1>8
  <2>2. c \in Accounts BY <2>1 DEF Accounts
  <2>3. rows[c].id \in Ids \cup {NoId} BY <2>2 DEF DirectoryInv, DirectoryTypeOK, Rows
  <2>4. past[task.asOf][c].id \in Ids BY <1>1, <2>2, FactTypes DEF DirectoryInv
  <2> QED BY <2>3, <2>4
<1>9. cust \in Carbons \cup {None} /\ custId \in Ids \cup {NoId}
  <2> HIDE DEF newCustodianId
  <2> QED BY <1>2, <1>7, <1>8 DEF Rows
<1>11. cust # None => \E t \in Later(0, row.custodianAt) .. now : past[t][a].custodian = cust
  <2>1. CASE newCustodian
    <3>1. row.custodianAt \in Int /\ now \in Int /\ task.started \in Int /\ task.asOf \in Int
          /\ 0 <= task.asOf /\ Skew \in Nat
      BY <1>1, <1>2, InstantsOrder, DirectoryAssumption DEF Rows, DirectoryInv, DirectoryTypeOK
    <3>2. row.custodianAt < task.asOf BY <2>1, <1>1, <3>1
    <3>3. task.asOf \in Later(0, row.custodianAt) .. now BY <1>1, <3>1, <3>2 DEF Later
    <3>4. cust = past[task.asOf][a].custodian BY <2>1
    <3> QED BY <3>3, <3>4
  <2>2. CASE ~newCustodian
    <3>1. cust = row.custodian BY <2>2
    <3> QED BY <3>1, <1>2 DEF RowFits
  <2> QED BY <2>1, <2>2
<1> HIDE DEF id, idAt, cust, custId
<1>12. new \in Rows BY <1>2, <1>6, <1>9 DEF Rows
<1>13. /\ new.known = row.known /\ new.id = id /\ new.idAt = idAt
       /\ new.custodian = cust /\ new.custodianAt = row.custodianAt
       /\ new.deleted = row.deleted /\ new.revoked = row.revoked
  BY <1>2 DEF Rows
<1>14. row.custodianAt <= row.custodianAt BY <1>1, SameMayReplace DEF MayReplace
<1> HIDE DEF new
<1>15. RowFits(a, new)
  BY <1>2, <1>6, <1>11, <1>13 DEF RowFits
<1>16. MayReplace(a, new) BY <1>12, <1>13, <1>14, <1>15 DEF MayReplace
<1> QED BY <1>5, <1>16

\* store_summary writes what the lookup answered.
LEMMA StoreSummaryKeeps ==
    ASSUME DirectoryInv, NEW l \in Lookups, StoreSummary(l)
    PROVE  DirectoryInv'
<1> DEFINE old == lookups[l]
           a == old.account
           stored == [old EXCEPT !.pc = "stored", !.asOf = 0]
           new == IF old.caller = None THEN IdleLookup ELSE stored
<1>1. old \in LookupTypes /\ TaskFits(old) /\ old.pc = "ensured"
  BY DEF DirectoryInv, LookupsFit, DirectoryTypeOK, StoreSummary
<1>2. a \in Accounts BY <1>1 DEF TaskFits
<1>3. rows' \in [Accounts -> Rows] /\ \A b \in Accounts : MayReplace(b, rows'[b])
  <2>1. CASE Live(a)
    <3>1. MayReplace(a, Summary(old)) BY <1>1, <2>1, SummaryMayReplace
    <3>2. rows' = [rows EXCEPT ![a] = Summary(old)] BY <2>1 DEF StoreSummary
    <3> QED BY <1>2, <3>1, <3>2, OneRow
  <2>2. CASE ~Live(a)
    <3>1. rows' = rows BY <2>2 DEF StoreSummary
    <3> QED BY <3>1, SameMayReplace DEF DirectoryInv, DirectoryTypeOK
  <2> QED BY <2>1, <2>2
<1>4. lookups' = [lookups EXCEPT ![l] = new] /\ lookups \in [Lookups -> LookupTypes]
  BY DEF StoreSummary, Put, DirectoryInv, DirectoryTypeOK
<1>5. stored \in LookupTypes BY <1>1, InstantsOrder DEF LookupTypes
<1>6. new \in LookupTypes BY <1>5, NothingFits DEF DirectoryInv
<1>7. lookups'[l] = new /\ \A m \in Lookups : m # l => lookups'[m] = lookups[m] BY <1>4
<1>8. ASSUME old.caller = None PROVE TaskFits(lookups[l])'
  BY <1>7, <1>8 DEF TaskFits, IdleLookup
<1>9. ASSUME old.caller # None PROVE TaskFits(lookups[l])'
  <2> DEFINE task == lookups'[l]
  <2>1. /\ task.pc = "stored" /\ task.account = a /\ task.caller \in Carbons
        /\ task.asOf = 0 /\ task.started = old.started /\ task.since = old.since
    BY <1>1, <1>7, <1>9 DEF LookupTypes
  <2>2. old.started <= now /\ old.since <= rows[a].custodianAt BY <1>1 DEF TaskFits
  <2>3. /\ old.since \in Int /\ rows[a].custodianAt \in Int /\ rows'[a].custodianAt \in Int
        /\ now \in Times
    BY <1>1, <1>2, <1>3, InstantsOrder DEF LookupTypes, Rows, DirectoryInv, DirectoryTypeOK
  <2>4. old.since <= rows'[a].custodianAt
    BY <1>2, <1>3, <2>2, <2>3 DEF MayReplace
  <2>5. now' = now /\ past' = past BY DEF StoreSummary
  <2>6. task.asOf <= now' BY <2>1, <2>3, <2>5, InstantsOrder
  <2> QED BY <1>2, <2>1, <2>2, <2>4, <2>5, <2>6 DEF TaskFits
<1>10. TaskFits(lookups[l])' BY <1>8, <1>9
<1>11. lookups' \in [Lookups -> LookupTypes] BY <1>4, <1>6
<1>12. applied' = applied /\ applied \subseteq sent BY DEF StoreSummary, DirectoryInv, DirectoryTypeOK
<1>13. UNCHANGED <<now, past, sent, oldest, pending>> BY DEF StoreSummary
<1> QED BY <1>3, <1>7, <1>10, <1>11, <1>12, <1>13, ReplaceStep
-----------------------------------------------------------------------------
(* First sightings, sign-outs and deletions *)

PendingTypes == [revoked : Instants, deletedAt : Instants]

\* A step that changes the row of a and what is kept for it.
LEMMA AccountStep ==
    ASSUME DirectoryInv, NEW a \in Accounts, NEW row \in Rows, NEW p \in PendingTypes,
           rows' = [rows EXCEPT ![a] = row], pending' = [pending EXCEPT ![a] = p],
           UNCHANGED <<now, past, sent, oldest>>,
           RowFits(a, row),
           rows[a].custodianAt <= row.custodianAt,
           rows[a].deleted => row.deleted,
           row.known => p = NoPending,
           p.deletedAt # NoTime => past[now][a].deleted,
           row.deleted \/ RevokedBefore(a) <= Later(row.revoked, p.revoked),
           applied' \subseteq sent,
           \A e \in applied' \ applied : e.type \in {"signed_out", "deleted"} =>
              e.account = a /\ e.at <= Later(row.revoked, p.revoked),
           lookups' \in [Lookups -> LookupTypes],
           \A l \in Lookups : lookups'[l] = lookups[l] \/ TaskFits(lookups[l])'
    PROVE  DirectoryInv'
<1>1. /\ rows \in [Accounts -> Rows] /\ pending \in [Accounts -> PendingTypes]
      /\ oldest \in [Accounts -> Times]
  BY DEF DirectoryInv, DirectoryTypeOK, PendingTypes
<1>2. rows' \in [Accounts -> Rows] /\ pending' \in [Accounts -> PendingTypes] BY <1>1
<1>3. DirectoryTypeOK' BY <1>2 DEF DirectoryInv, DirectoryTypeOK, PendingTypes
<1>4. /\ rows'[a] = row /\ pending'[a] = p
      /\ \A b \in Accounts : b # a => rows'[b] = rows[b] /\ pending'[b] = pending[b]
  BY <1>1
<1>5. PendingFits' BY <1>4 DEF DirectoryInv, PendingFits
<1>6. \A b \in Accounts : RowFits(b, rows'[b])
  BY <1>4 DEF DirectoryInv, RowsFit
<1>7. \A b \in Accounts : rows[b].custodianAt <= rows'[b].custodianAt
  BY <1>4, SameMayReplace DEF MayReplace
<1>8. RevokedBefore(a)' = Later(row.revoked, p.revoked) BY <1>4 DEF RevokedBefore
<1>9. \A b \in Accounts : b # a => RevokedBefore(b)' = RevokedBefore(b)
  BY <1>4 DEF RevokedBefore
<1>10. \A b \in Accounts : RevokedBefore(b) \in Int /\ oldest[b] \in Int
  BY <1>1, RevokedTypes, InstantsOrder DEF DirectoryInv
<1>11. ASSUME NEW b \in Accounts
       PROVE  /\ rows[b].deleted => rows'[b].deleted
              /\ oldest[b] <= oldest'[b]
              /\ \/ RevokedBefore(b) <= RevokedBefore(b)'
                 \/ rows'[b].deleted
  <2>1. CASE b = a BY <2>1, <1>4, <1>8, <1>10
  <2>2. CASE b # a BY <2>2, <1>4, <1>9, <1>10
  <2> QED BY <2>1, <2>2
<1>12. \A e \in applied' \ applied : e.type \in {"signed_out", "deleted"} =>
          RevokedBefore(e.account)' >= e.at
  <2> SUFFICES ASSUME NEW e \in applied' \ applied, e.type \in {"signed_out", "deleted"}
               PROVE  RevokedBefore(e.account)' >= e.at
    OBVIOUS
  <2>1. e.account = a /\ e.at <= Later(row.revoked, p.revoked) OBVIOUS
  <2>2. e.at \in Int
    <3>1. e \in sent OBVIOUS
    <3> QED BY <3>1, EventTypes, InstantsOrder
  <2>3. RevokedBefore(a)' \in Int BY <1>3, RevokedTypes, InstantsOrder
  <2> QED BY <2>1, <2>2, <2>3, <1>8
<1>13. SignOutsFit' BY <1>3, <1>11, <1>12, SignOutStep
<1> QED BY <1>3, <1>5, <1>6, <1>7, <1>13, LocalStep DEF remoteVars

\* What ensure leaves behind, with all that was kept folded in.
LEMMA EnsuredFits ==
    ASSUME DirectoryInv, NEW a \in Accounts, NEW id \in Ids \cup {NoId}, NEW t \in Times, t <= now
    PROVE  /\ Ensured(a, id, t) \in Rows
           /\ RowFits(a, Ensured(a, id, t))
           /\ Ensured(a, id, t).known
           /\ rows[a].custodianAt <= Ensured(a, id, t).custodianAt
           /\ rows[a].deleted => Ensured(a, id, t).deleted
           /\ Ensured(a, id, t).deleted \/ RevokedBefore(a) <= Ensured(a, id, t).revoked
<1> DEFINE row == rows[a]
           fresh == [NoRow EXCEPT !.known = TRUE]
           base == IF ~row.known THEN fresh ELSE row
           named == [base EXCEPT !.id = id, !.idAt = t]
           pre == IF ~row.known \/ (row.id = NoId /\ ~row.deleted)
                  THEN IF id = NoId THEN base ELSE named
                  ELSE row
           new == Folded(a, pre)
<1>1. row \in Rows /\ RowFits(a, row) /\ pending[a] \in PendingTypes
  BY DEF DirectoryInv, DirectoryTypeOK, RowsFit, PendingTypes
<1>2. row.known \in BOOLEAN BY <1>1 DEF Rows
<1>3. Ensured(a, id, t) = new
  BY <1>2 DEF Ensured
<1>4. /\ fresh \in Rows /\ fresh.known /\ fresh.deleted = FALSE /\ fresh.custodian = None
      /\ fresh.id = NoId /\ fresh.idAt = NoTime /\ fresh.custodianAt = NoTime
      /\ fresh.revoked = NoTime
  <2>1. NoRow \in Rows BY NothingFits DEF DirectoryInv
  <2>2. /\ fresh \in Rows /\ fresh.known /\ fresh.deleted = NoRow.deleted
        /\ fresh.custodian = NoRow.custodian /\ fresh.id = NoRow.id /\ fresh.idAt = NoRow.idAt
        /\ fresh.custodianAt = NoRow.custodianAt /\ fresh.revoked = NoRow.revoked
    BY <2>1 DEF Rows
  <2> HIDE DEF fresh
  <2> QED BY <2>2 DEF NoRow
<1> HIDE DEF fresh
<1>5. RowFits(a, fresh)
  BY <1>4, InstantsOrder DEF RowFits, DirectoryInv, DirectoryTypeOK
<1>6. /\ base \in Rows /\ RowFits(a, base) /\ base.known
      /\ base.custodianAt = row.custodianAt /\ base.revoked = row.revoked
      /\ base.deleted = row.deleted
  <2>1. CASE ~row.known
    <3>1. row = NoRow BY <1>1, <2>1 DEF RowFits
    <3>2. /\ NoRow.custodianAt = NoTime /\ NoRow.revoked = NoTime /\ NoRow.deleted = FALSE
      BY DEF NoRow
    <3> QED BY <1>4, <1>5, <2>1, <3>1, <3>2
  <2>2. CASE row.known BY <1>1, <2>2
  <2> QED BY <2>1, <2>2
<1> HIDE DEF base
<1>7. ASSUME id # NoId, ~row.deleted
      PROVE  /\ named \in Rows /\ RowFits(a, named) /\ named.known
             /\ named.custodianAt = row.custodianAt /\ named.revoked = row.revoked
             /\ named.deleted = row.deleted
  <2>1. named \in Rows BY <1>6, InstantsOrder DEF Rows
  <2>2. /\ named.known = base.known /\ named.id = id /\ named.idAt = t
        /\ named.custodian = base.custodian /\ named.custodianAt = base.custodianAt
        /\ named.deleted = base.deleted /\ named.revoked = base.revoked
    BY <1>6 DEF Rows
  <2> HIDE DEF named
  <2>3. RowFits(a, named) BY <1>6, <1>7, <2>1, <2>2, NamedFits DEF DirectoryInv
  <2> QED BY <1>6, <2>1, <2>2, <2>3
<1>8. ~row.known => ~row.deleted
  BY <1>1 DEF RowFits, NoRow
<1>9. /\ pre \in Rows /\ RowFits(a, pre) /\ pre.known
      /\ pre.custodianAt = row.custodianAt /\ pre.revoked = row.revoked
      /\ pre.deleted = row.deleted
  <2> HIDE DEF named
  <2> QED BY <1>1, <1>6, <1>7, <1>8
<1> HIDE DEF pre
<1>10. row.custodianAt <= row.custodianAt BY SameMayReplace DEF MayReplace
<1>11. CASE pending[a].deletedAt # NoTime
  <2>1. new = Tombstone(pre, pending[a].deletedAt) BY <1>11 DEF Folded
  <2>2. past[now][a].deleted BY <1>11 DEF DirectoryInv, PendingFits
  <2>3. pending[a].deletedAt \in Instants BY <1>1 DEF PendingTypes
  <2> HIDE DEF new
  <2> QED BY <1>3, <1>9, <1>10, <2>1, <2>2, <2>3, TombstoneFits DEF DirectoryInv
<1>12. CASE pending[a].deletedAt = NoTime
  <2>1. new = [pre EXCEPT !.revoked = Later(pre.revoked, pending[a].revoked)]
    BY <1>12 DEF Folded
  <2>2. Later(pre.revoked, pending[a].revoked) = RevokedBefore(a)
    BY <1>9 DEF RevokedBefore
  <2>3. RevokedBefore(a) \in Instants /\ RevokedBefore(a) <= RevokedBefore(a)
    BY RevokedTypes, InstantsOrder DEF DirectoryInv
  <2> HIDE DEF new
  <2>4. new \in Rows BY <1>9, <2>1, <2>2, <2>3 DEF Rows
  <2>5. /\ new.known = pre.known /\ new.id = pre.id /\ new.idAt = pre.idAt
        /\ new.custodian = pre.custodian /\ new.custodianAt = pre.custodianAt
        /\ new.custodianId = pre.custodianId
        /\ new.deleted = pre.deleted /\ new.revoked = RevokedBefore(a)
    BY <1>9, <2>1, <2>2 DEF Rows
  <2>6. RowFits(a, new) BY <1>9, <2>4, <2>5, MarkFits DEF DirectoryInv
  <2> QED BY <1>3, <1>9, <1>10, <2>3, <2>4, <2>5, <2>6
<1> QED BY <1>11, <1>12

\* AccountStep for ensure.
LEMMA EnsureKeeps ==
    ASSUME DirectoryInv, NEW a \in Accounts, NEW id \in Ids \cup {NoId}, NEW t \in Times, t <= now,
           Ensure(a, id, t), UNCHANGED <<now, past, sent, oldest, applied>>,
           lookups' \in [Lookups -> LookupTypes],
           \A l \in Lookups : lookups'[l] = lookups[l] \/ TaskFits(lookups[l])'
    PROVE  DirectoryInv'
<1> DEFINE row == Ensured(a, id, t)
<1>1. /\ row \in Rows /\ RowFits(a, row) /\ row.known
      /\ rows[a].custodianAt <= row.custodianAt
      /\ rows[a].deleted => row.deleted
      /\ row.deleted \/ RevokedBefore(a) <= row.revoked
  BY EnsuredFits
<1>2. rows' = [rows EXCEPT ![a] = row] /\ pending' = [pending EXCEPT ![a] = NoPending]
  BY DEF Ensure
<1>3. NoPending \in PendingTypes /\ NoPending.revoked = NoTime /\ NoPending.deletedAt = NoTime
  BY DEF PendingTypes, NoPending, Instants
<1> HIDE DEF row
<1>4. row.revoked \in Instants BY <1>1 DEF Rows
<1>5. Later(row.revoked, NoPending.revoked) = row.revoked
  BY <1>3, <1>4, InstantsOrder DEF Later
<1>6. applied' \subseteq sent /\ applied' \ applied = {} BY DEF DirectoryInv, DirectoryTypeOK
<1> QED BY <1>1, <1>2, <1>3, <1>5, <1>6, AccountStep

\* The row of an account seen for the first time.
LEMMA FirstSightKeeps ==
    ASSUME DirectoryInv, NEW a \in Accounts, NEW t \in Times, NEW asOf \in Times,
           NEW hinted \in BOOLEAN, FirstSight(a, t, asOf, hinted)
    PROVE  DirectoryInv'
<1> DEFINE id == IF hinted THEN past[t][a].id ELSE NoId
<1>1. past[t][a].id \in Ids /\ past[t][a].id \in Int BY FactTypes DEF DirectoryInv
<1>2. asOf <= now
  BY InstantsOrder DEF FirstSight, Credential, DirectoryInv, DirectoryTypeOK
<1>3. id \in Ids \cup {NoId} BY <1>1
<1>5. Ensure(a, id, asOf) /\ UNCHANGED <<now, past, sent, oldest, applied, lookups>>
  BY DEF FirstSight
<1>6. lookups' \in [Lookups -> LookupTypes] /\ \A l \in Lookups : lookups'[l] = lookups[l]
  BY <1>5 DEF DirectoryInv, DirectoryTypeOK
<1> HIDE DEF id
<1> QED BY <1>2, <1>3, <1>5, <1>6, EnsureKeeps

\* The first transaction of store_summary.
LEMMA EnsureSummaryKeeps ==
    ASSUME DirectoryInv, NEW l \in Lookups, EnsureSummary(l)
    PROVE  DirectoryInv'
<1> DEFINE old == lookups[l]
           a == old.account
           id == past[old.asOf][a].id
           new == [old EXCEPT !.pc = "ensured"]
<1>1. old \in LookupTypes /\ TaskFits(old) /\ old.pc = "answered"
  BY DEF DirectoryInv, LookupsFit, DirectoryTypeOK, EnsureSummary
<1>2. /\ a \in Accounts /\ old.started \in Times /\ old.asOf \in Times
      /\ old.started <= old.asOf /\ old.started <= now /\ old.asOf <= now
      /\ old.since <= rows[a].custodianAt
  BY <1>1 DEF TaskFits, LookupTypes
<1>3. id \in Ids /\ id \in Int BY <1>2, FactTypes DEF DirectoryInv
<1>7. Ensure(a, id, old.started) /\ UNCHANGED <<now, past, sent, oldest, applied>>
  BY DEF EnsureSummary
<1>8. new \in LookupTypes BY <1>1 DEF LookupTypes
<1>9. /\ lookups' \in [Lookups -> LookupTypes] /\ lookups'[l] = new
      /\ \A m \in Lookups : m # l => lookups'[m] = lookups[m]
  BY <1>8 DEF EnsureSummary, Put, DirectoryInv, DirectoryTypeOK
<1>10. TaskFits(lookups[l])'
  <2> DEFINE task == lookups'[l]
             row == Ensured(a, id, old.started)
  <2>1. /\ task.pc = "ensured" /\ task.account = a /\ task.asOf = old.asOf
        /\ task.started = old.started /\ task.since = old.since
    BY <1>1, <1>9 DEF LookupTypes
  <2>2. row \in Rows /\ rows[a].custodianAt <= row.custodianAt
    BY <1>2, <1>3, EnsuredFits
  <2>3. rows'[a] = row
    BY <1>2, <1>7 DEF Ensure, DirectoryInv, DirectoryTypeOK
  <2>4. old.since \in Int /\ rows[a].custodianAt \in Int /\ row.custodianAt \in Int
    <3> HIDE DEF row
    <3> QED BY <1>1, <1>2, <2>2, InstantsOrder
            DEF LookupTypes, Rows, DirectoryInv, DirectoryTypeOK
  <2>5. old.since <= rows'[a].custodianAt
    <3> HIDE DEF row
    <3> QED BY <1>2, <2>2, <2>3, <2>4
  <2>6. now' = now /\ past' = past BY <1>7
  <2> QED BY <1>2, <2>1, <2>5, <2>6 DEF TaskFits
<1> HIDE DEF id
<1> QED BY <1>2, <1>3, <1>7, <1>9, <1>10, EnsureKeeps

\* AccountStep for purge_account.
LEMMA PurgeKeeps ==
    ASSUME DirectoryInv, NEW a \in Accounts, NEW at \in Times, past[now][a].deleted,
           PurgeAccount(a, at), UNCHANGED <<now, past, sent, oldest>>,
           applied' \subseteq sent,
           \A e \in applied' \ applied : e.account = a /\ e.at <= at,
           lookups' \in [Lookups -> LookupTypes],
           \A l \in Lookups : lookups'[l] = lookups[l] \/ TaskFits(lookups[l])'
    PROVE  DirectoryInv'
<1> DEFINE old == rows[a]
<1>1. old \in Rows /\ RowFits(a, old) /\ pending[a] \in PendingTypes /\ at \in Instants
  BY InstantsOrder DEF DirectoryInv, DirectoryTypeOK, RowsFit, PendingTypes
<1>2. /\ old.revoked \in Instants /\ old.custodianAt \in Int
      /\ pending[a].revoked \in Instants /\ pending[a].deletedAt \in Instants
  BY <1>1, InstantsOrder DEF Rows, PendingTypes
<1>3. \A e \in applied' : e.at \in Int BY EventTypes, InstantsOrder
<1>4. CASE Known(a)
  <2> DEFINE row == Tombstone(old, at)
  <2>1. /\ row \in Rows /\ RowFits(a, row) /\ row.deleted
        /\ row.custodianAt = old.custodianAt /\ row.revoked >= at
    BY <1>1, <1>4, TombstoneFits DEF DirectoryInv, Known
  <2>2. rows' = [rows EXCEPT ![a] = row] /\ pending' = [pending EXCEPT ![a] = NoPending]
    BY <1>4 DEF PurgeAccount
  <2>3. NoPending \in PendingTypes /\ NoPending.revoked = NoTime /\ NoPending.deletedAt = NoTime
    BY DEF PendingTypes, NoPending, Instants
  <2> HIDE DEF row
  <2>4. row.revoked \in Instants BY <2>1 DEF Rows
  <2>5. Later(row.revoked, NoPending.revoked) = row.revoked
    BY <2>3, <2>4, InstantsOrder DEF Later
  <2>6. \A e \in applied' \ applied : e.account = a /\ e.at <= row.revoked
    BY <1>1, <1>3, <2>1, <2>4, InstantsOrder
  <2>7. old.custodianAt <= row.custodianAt BY <1>2, <2>1
  <2> QED BY <2>1, <2>2, <2>3, <2>5, <2>6, <2>7, AccountStep
<1>5. CASE ~Known(a)
  <2> DEFINE q == Later(pending[a].revoked, at)
             d == IF pending[a].deletedAt = NoTime THEN at ELSE pending[a].deletedAt
             p == [pending[a] EXCEPT !.revoked = q, !.deletedAt = d]
  <2>1. q \in Instants /\ q >= pending[a].revoked /\ q >= at BY <1>1, <1>2, LaterIsMax
  <2>2. d \in Instants BY <1>1, <1>2
  <2>3. pending' = [pending EXCEPT ![a] = p]
    BY <1>5 DEF PurgeAccount, RecordPending, DirectoryInv, DirectoryTypeOK
  <2>4. rows' = [rows EXCEPT ![a] = old]
    BY <1>5 DEF PurgeAccount, DirectoryInv, DirectoryTypeOK
  <2> HIDE DEF q, d
  <2>5. p \in PendingTypes /\ p.revoked = q BY <1>1, <2>1, <2>2 DEF PendingTypes
  <2> HIDE DEF p
  <2>6. /\ Later(old.revoked, q) \in Instants /\ Later(old.revoked, q) >= old.revoked
        /\ Later(old.revoked, q) >= q
    BY <1>2, <2>1, LaterIsMax
  <2>7. RevokedBefore(a) \in {old.revoked, pending[a].revoked}
    BY <1>2, LaterIsMax DEF RevokedBefore
  <2>8. RevokedBefore(a) <= Later(old.revoked, p.revoked) /\ at <= Later(old.revoked, p.revoked)
    BY <1>1, <1>2, <2>1, <2>5, <2>6, <2>7, InstantsOrder
  <2>9. \A e \in applied' \ applied : e.account = a /\ e.at <= Later(old.revoked, p.revoked)
    BY <1>1, <1>3, <2>5, <2>6, <2>8, InstantsOrder
  <2>10. old.custodianAt <= old.custodianAt /\ ~old.known BY <1>2, <1>5 DEF Known
  <2> QED BY <1>1, <2>3, <2>4, <2>5, <2>8, <2>9, <2>10, AccountStep
<1> QED BY <1>4, <1>5

\* The webhook account.deleted.
LEMMA AccountDeletedKeeps ==
    ASSUME DirectoryInv, NEW e \in sent, AccountDeleted(e)
    PROVE  DirectoryInv'
<1>1. e.account \in Accounts /\ e.at \in Times /\ e.at <= now BY EventTypes
<1>2. past[e.at][e.account].deleted
  BY DEF AccountDeleted, Receive, DirectoryInv, EventsFit
<1>3. past[now][e.account].deleted
  <2>1. now \in Times /\ now <= now BY InstantsOrder DEF DirectoryInv, DirectoryTypeOK
  <2> QED BY <1>1, <1>2, <2>1 DEF DirectoryInv, HistoryFits
<1>4. applied' \subseteq sent /\ \A f \in applied' \ applied : f = e
  BY DEF AccountDeleted, Receive, DirectoryInv, DirectoryTypeOK
<1>5. e.at <= e.at BY <1>1, InstantsOrder
<1>6. lookups' \in [Lookups -> LookupTypes] /\ \A l \in Lookups : lookups'[l] = lookups[l]
  BY DEF AccountDeleted, Receive, DirectoryInv, DirectoryTypeOK
<1> QED BY <1>1, <1>3, <1>4, <1>5, <1>6, PurgeKeeps DEF AccountDeleted, Receive

\* purge_deleted after a lookup that found the account deleted.
LEMMA PurgeDeletedKeeps ==
    ASSUME DirectoryInv, NEW l \in Lookups, PurgeDeleted(l)
    PROVE  DirectoryInv'
<1> DEFINE a == lookups[l].account
<1>1. TaskFits(lookups[l]) /\ lookups[l].pc = "gone" /\ now \in Times
  BY DEF DirectoryInv, LookupsFit, DirectoryTypeOK, PurgeDeleted
<1>2. a \in Accounts /\ past[now][a].deleted BY <1>1 DEF TaskFits
<1>3. applied' \subseteq sent /\ applied' \ applied = {}
  BY DEF PurgeDeleted, DirectoryInv, DirectoryTypeOK
<1>4. IdleLookup \in LookupTypes BY NothingFits DEF DirectoryInv
<1>5. /\ lookups' \in [Lookups -> LookupTypes] /\ lookups'[l] = IdleLookup
      /\ \A m \in Lookups : m # l => lookups'[m] = lookups[m]
  BY <1>4 DEF PurgeDeleted, Put, DirectoryInv, DirectoryTypeOK
<1>6. TaskFits(lookups[l])' BY <1>5 DEF TaskFits, IdleLookup
<1>7. PurgeAccount(a, now) /\ UNCHANGED <<now, past, sent, oldest>> BY DEF PurgeDeleted
<1> QED BY <1>1, <1>2, <1>3, <1>5, <1>6, <1>7, PurgeKeeps

\* The events that end sign-ins.
LEMMA SignedOutKeeps ==
    ASSUME DirectoryInv, NEW e \in sent, SignedOut(e)
    PROVE  DirectoryInv'
<1> DEFINE a == e.account
           old == rows[a]
<1>1. a \in Accounts /\ e.at \in Times /\ e.at \in Instants /\ e.at \in Int
  BY EventTypes, InstantsOrder
<1>2. old \in Rows /\ RowFits(a, old) /\ pending[a] \in PendingTypes
  BY <1>1 DEF DirectoryInv, DirectoryTypeOK, RowsFit, PendingTypes
<1>3. /\ old.revoked \in Instants /\ old.custodianAt \in Int
      /\ pending[a].revoked \in Instants /\ pending[a].deletedAt \in Instants
  BY <1>2, InstantsOrder DEF Rows, PendingTypes
<1>4. applied' \subseteq sent /\ \A f \in applied' \ applied : f = e
  BY DEF SignedOut, Receive, DirectoryInv, DirectoryTypeOK
<1>5. lookups' \in [Lookups -> LookupTypes] /\ \A l \in Lookups : lookups'[l] = lookups[l]
  BY DEF SignedOut, Receive, DirectoryInv, DirectoryTypeOK
<1>6. UNCHANGED <<now, past, sent, oldest>> BY DEF SignedOut, Receive
<1>7. old.custodianAt <= old.custodianAt BY <1>3
<1>8. RevokedBefore(a) \in {old.revoked, pending[a].revoked} /\ RevokedBefore(a) \in Int
  BY <1>3, LaterIsMax, InstantsOrder DEF RevokedBefore
<1>9. CASE Known(a)
  <2> DEFINE q == Later(old.revoked, e.at)
             row == [old EXCEPT !.revoked = q]
  <2>1. q \in Instants /\ q >= old.revoked /\ q >= e.at BY <1>1, <1>3, LaterIsMax
  <2>2. rows' = [rows EXCEPT ![a] = row] BY <1>9 DEF SignedOut
  <2>3. pending[a] = NoPending BY <1>1, <1>9 DEF DirectoryInv, PendingFits, Known
  <2>4. pending' = [pending EXCEPT ![a] = NoPending]
    BY <1>9, <2>3 DEF SignedOut, DirectoryInv, DirectoryTypeOK
  <2>5. NoPending \in PendingTypes /\ NoPending.revoked = NoTime /\ NoPending.deletedAt = NoTime
    BY DEF PendingTypes, NoPending, Instants
  <2> HIDE DEF q
  <2>6. row \in Rows BY <1>2, <2>1 DEF Rows
  <2>7. /\ row.known = old.known /\ row.id = old.id /\ row.idAt = old.idAt
        /\ row.custodian = old.custodian /\ row.custodianAt = old.custodianAt
        /\ row.custodianId = old.custodianId
        /\ row.deleted = old.deleted /\ row.revoked = q
    BY <1>2 DEF Rows
  <2> HIDE DEF row
  <2>8. RowFits(a, row) BY <1>1, <1>2, <1>9, <2>6, <2>7, MarkFits DEF DirectoryInv, Known
  <2>9. Later(row.revoked, NoPending.revoked) = q
    BY <2>1, <2>5, <2>7, InstantsOrder DEF Later
  <2>10. RevokedBefore(a) <= q /\ e.at <= q
    BY <1>1, <1>3, <1>8, <2>1, <2>3, <2>5, InstantsOrder
  <2>11. \A f \in applied' \ applied : f.account = a /\ f.at <= q BY <1>4, <2>10
  <2>12. /\ old.custodianAt <= row.custodianAt
         /\ old.deleted => row.deleted
    BY <1>7, <2>7
  <2> HIDE DEF a
  <2> QED BY <1>1, <1>4, <1>5, <1>6, <2>2, <2>4, <2>5, <2>6, <2>8, <2>9, <2>10, <2>11, <2>12,
             AccountStep
<1>10. CASE ~Known(a)
  <2> DEFINE q == Later(pending[a].revoked, e.at)
             p == [pending[a] EXCEPT !.revoked = q]
  <2>1. q \in Instants /\ q >= pending[a].revoked /\ q >= e.at BY <1>1, <1>3, LaterIsMax
  <2>2. pending' = [pending EXCEPT ![a] = p]
    BY <1>1, <1>2, <1>10
       DEF SignedOut, RecordPending, DirectoryInv, DirectoryTypeOK, PendingTypes
  <2>3. rows' = [rows EXCEPT ![a] = old]
    BY <1>10 DEF SignedOut, DirectoryInv, DirectoryTypeOK
  <2> HIDE DEF q
  <2>4. p \in PendingTypes /\ p.revoked = q /\ p.deletedAt = pending[a].deletedAt
    BY <1>2, <2>1 DEF PendingTypes
  <2> HIDE DEF p
  <2>5. /\ Later(old.revoked, q) \in Instants /\ Later(old.revoked, q) >= old.revoked
        /\ Later(old.revoked, q) >= q
    BY <1>3, <2>1, LaterIsMax
  <2>6. RevokedBefore(a) <= Later(old.revoked, q) /\ e.at <= Later(old.revoked, q)
    BY <1>1, <1>3, <1>8, <2>1, <2>5, InstantsOrder
  <2>7. p.deletedAt # NoTime => past[now][a].deleted
    BY <1>1, <2>4 DEF DirectoryInv, PendingFits
  <2>8. ~old.known BY <1>10 DEF Known
  <2> QED BY <1>1, <1>2, <1>4, <1>5, <1>6, <1>7, <2>2, <2>3, <2>4, <2>6, <2>7, <2>8, AccountStep
<1> QED BY <1>9, <1>10

\* The sweep forgets pending events that can concern no token.
LEMMA ForgetPendingKeeps ==
    ASSUME DirectoryInv, NEW a \in Accounts, ForgetPending(a)
    PROVE  DirectoryInv'
<1> DEFINE q == Later(oldest[a], pending[a].revoked)
<1>1. /\ oldest \in [Accounts -> Times] /\ pending \in [Accounts -> PendingTypes]
      /\ rows \in [Accounts -> Rows]
  BY DEF DirectoryInv, DirectoryTypeOK, PendingTypes
<1>2. /\ oldest[a] \in Times /\ oldest[a] \in Instants /\ pending[a].revoked \in Instants
      /\ rows[a].revoked \in Instants
  BY <1>1, InstantsOrder DEF PendingTypes, Rows
<1>3. q \in Instants /\ q >= oldest[a] /\ q >= pending[a].revoked BY <1>2, LaterIsMax
<1>4. q \in Times BY <1>2, <1>3, InstantsOrder
<1>5. NoPending \in PendingTypes /\ NoPending.revoked = NoTime /\ NoPending.deletedAt = NoTime
  BY DEF PendingTypes, NoPending, Instants
<1>6. oldest' = [oldest EXCEPT ![a] = q] /\ pending' = [pending EXCEPT ![a] = NoPending]
  BY DEF ForgetPending
<1>7. UNCHANGED <<now, past, sent, applied, rows, lookups>> BY DEF ForgetPending
<1> HIDE DEF q
<1>8. oldest' \in [Accounts -> Times] /\ pending' \in [Accounts -> PendingTypes]
  BY <1>1, <1>4, <1>5, <1>6
<1>9. DirectoryTypeOK' BY <1>7, <1>8 DEF DirectoryInv, DirectoryTypeOK, PendingTypes
<1>10. /\ oldest'[a] = q /\ pending'[a] = NoPending
       /\ \A b \in Accounts : b # a => oldest'[b] = oldest[b] /\ pending'[b] = pending[b]
  BY <1>1, <1>6
<1>11. PendingFits' BY <1>5, <1>7, <1>10 DEF DirectoryInv, PendingFits
<1>12. \A b \in Accounts : RevokedBefore(b) \in Int /\ oldest[b] \in Int
  BY <1>1, RevokedTypes, InstantsOrder DEF DirectoryInv
<1>13. RevokedBefore(a) <= RevokedBefore(a)' \/ RevokedBefore(a) <= oldest'[a]
  <2>1. RevokedBefore(a) \in {rows[a].revoked, pending[a].revoked}
    BY <1>2, LaterIsMax DEF RevokedBefore
  <2>2. RevokedBefore(a)' = rows[a].revoked
    BY <1>2, <1>5, <1>7, <1>10, InstantsOrder DEF RevokedBefore, Later
  <2>3. rows[a].revoked \in Int /\ pending[a].revoked \in Int /\ q \in Int
    BY <1>2, <1>3, InstantsOrder
  <2> QED BY <1>3, <1>10, <2>1, <2>2, <2>3
<1>14. ASSUME NEW b \in Accounts
       PROVE  /\ rows[b].deleted => rows'[b].deleted
              /\ oldest[b] <= oldest'[b]
              /\ \/ RevokedBefore(b) <= RevokedBefore(b)'
                 \/ rows'[b].deleted
                 \/ RevokedBefore(b) <= oldest'[b]
  <2>1. CASE b = a
    <3>1. oldest[a] <= oldest'[a]
      BY <1>2, <1>3, <1>4, <1>10, InstantsOrder
    <3> QED BY <2>1, <3>1, <1>7, <1>13
  <2>2. CASE b # a
    <3>1. RevokedBefore(b)' = RevokedBefore(b) BY <2>2, <1>7, <1>10 DEF RevokedBefore
    <3> QED BY <2>2, <3>1, <1>7, <1>10, <1>12
  <2> QED BY <2>1, <2>2
<1>15. SignOutsFit' BY <1>7, <1>9, <1>14, SignOutStep
<1>16. \A b \in Accounts : RowFits(b, rows'[b]) /\ rows[b].custodianAt <= rows'[b].custodianAt
  BY <1>7, SameMayReplace DEF MayReplace
<1> QED BY <1>7, <1>9, <1>11, <1>15, <1>16, LocalStep DEF remoteVars
-----------------------------------------------------------------------------
(* Silicon Accounts *)

\* A change at the next instant is no news about the instants before it.
LEMMA AnnounceKeeps ==
    ASSUME DirectoryInv, NEW a \in Accounts, NEW facts \in Facts,
           NEW type \in {"id_changed", "updated", "custodian_changed", "signed_out", "deleted"},
           Announce(type, a, facts),
           past[now][a].id <= facts.id, facts.id <= now + 1, facts.version <= now + 1,
           a \in Silicons => facts.custodian \in Carbons,
           a \notin Silicons => facts.custodian = None,
           type = "deleted" => facts.deleted,
           type = "custodian_changed" => a \in Silicons
    PROVE  DirectoryInv'
<1> USE DEF Announce
<1>1. /\ now \in Times /\ past \in [Times -> [Accounts -> Facts]]
      /\ now \in Int /\ MaxNow \in Int /\ now < MaxNow
  BY InstantsOrder, DirectoryAssumption DEF DirectoryInv, DirectoryTypeOK
<1>2. now' = now + 1 /\ now' \in Times
  BY <1>1 DEF Times
<1>3. /\ past' \in [Times -> [Accounts -> Facts]]
      /\ \A t \in Times : t # now' => past'[t] = past[t]
      /\ \A t \in Times : t <= now => past'[t] = past[t]
      /\ past'[now'] = [past[now] EXCEPT ![a] = facts]
  <2>1. [past[now] EXCEPT ![a] = facts] \in [Accounts -> Facts] BY <1>1
  <2>2. \A t \in Times : t <= now => t # now' BY <1>1, <1>2, InstantsOrder
  <2> QED BY <1>1, <1>2, <2>1, <2>2
<1>4. \A b \in Accounts : past'[now'][b] = IF b = a THEN facts ELSE past[now][b]
  BY <1>1, <1>3
<1>5. \A t \in Times : t <= now' => t <= now \/ t = now'
  BY <1>1, <1>2, InstantsOrder
<1>6. \A b \in Accounts : past[now][b].deleted => past'[now'][b].deleted
  BY <1>4
<1> HIDE DEF Announce
<1>7. HistoryFits'
  <2> SUFFICES ASSUME NEW b \in Accounts, NEW t \in Times
               PROVE  /\ b \in Silicons => past'[t][b].custodian \in Carbons
                      /\ b \notin Silicons => past'[t][b].custodian = None
                      /\ t <= now' => past'[t][b].id <= t /\ past'[t][b].version <= t
                      /\ \A u \in Times : t <= u /\ u <= now' =>
                            /\ past'[t][b].id <= past'[u][b].id
                            /\ past'[t][b].deleted => past'[u][b].deleted
    BY DEF HistoryFits
  <2>1. \A u \in Times :
          /\ b \in Silicons => past[u][b].custodian \in Carbons
          /\ b \notin Silicons => past[u][b].custodian = None
          /\ u <= now => past[u][b].id <= u /\ past[u][b].version <= u
          /\ past[u][b].id \in Int /\ past[u][b].version \in Int
          /\ \A v \in Times : u <= v /\ v <= now =>
                /\ past[u][b].id <= past[v][b].id
                /\ past[u][b].deleted => past[v][b].deleted
    <3>1. \A u \in Times : past[u][b].id \in Int /\ past[u][b].version \in Int
      BY FactTypes DEF DirectoryInv, Ids
    <3> QED BY <3>1 DEF DirectoryInv, HistoryFits
  <2>2. facts.id \in Int /\ facts.version \in Int BY DEF Facts, Ids
  <2>3. t \in Int /\ now <= now BY <1>1, InstantsOrder
  <2>4. past'[now'][b].id \in Int /\ past[now][b].id <= past'[now'][b].id
        /\ past'[now'][b].id <= now' /\ past'[now'][b].version <= now'
    <3>1. CASE b = a BY <3>1, <1>2, <1>4, <2>2
    <3>2. CASE b # a BY <3>2, <1>1, <1>2, <1>4, <2>1, <2>3
    <3> QED BY <3>1, <3>2
  <2>5. /\ b \in Silicons => past'[t][b].custodian \in Carbons
        /\ b \notin Silicons => past'[t][b].custodian = None
    <3>1. CASE t = now' BY <3>1, <1>1, <1>4, <2>1
    <3>2. CASE t # now' BY <3>2, <1>3, <2>1
    <3> QED BY <3>1, <3>2
  <2>6. t <= now' => past'[t][b].id <= t /\ past'[t][b].version <= t
    <3>1. CASE t = now' BY <3>1, <2>4
    <3>2. CASE t <= now BY <3>2, <1>3, <2>1
    <3> QED BY <1>5, <3>1, <3>2
  <2>7. ASSUME NEW u \in Times, t <= u, u <= now'
        PROVE  /\ past'[t][b].id <= past'[u][b].id
               /\ past'[t][b].deleted => past'[u][b].deleted
    <3>1. u \in Int BY InstantsOrder
    <3>2. CASE u <= now
      <4>1. t <= now BY <1>1, <2>3, <2>7, <3>1, <3>2
      <4> QED BY <2>7, <3>2, <4>1, <1>3, <2>1
    <3>3. CASE u = now' /\ t <= now
      <4>1. past'[t] = past[t] BY <1>3, <3>3
      <4>2. /\ past[t][b].id <= past[now][b].id
            /\ past[t][b].deleted => past[now][b].deleted
        BY <1>1, <2>1, <2>3, <3>3
      <4>3. past[t][b].id \in Int /\ past[now][b].id \in Int BY <1>1, <2>1
      <4> QED BY <1>6, <2>4, <3>3, <4>1, <4>2, <4>3
    <3>4. CASE u = now' /\ t = now' BY <3>4, <2>4
    <3>5. t <= now' BY <1>1, <1>2, <2>3, <2>7, <3>1
    <3> QED BY <1>5, <2>7, <3>2, <3>3, <3>4, <3>5
  <2> QED BY <2>5, <2>6, <2>7
<1> USE DEF Announce
<1>8. sent' = sent \cup {[type |-> type, account |-> a, at |-> now']} BY <1>2
<1>9. UNCHANGED <<oldest, applied, rows, pending, lookups>> OBVIOUS
<1> HIDE DEF Announce
<1>10. sent' \subseteq Events
  BY <1>2, <1>8 DEF DirectoryInv, DirectoryTypeOK, Events
<1>11. DirectoryTypeOK'
  <2>1. applied' \subseteq sent' BY <1>8, <1>9 DEF DirectoryInv, DirectoryTypeOK
  <2> QED BY <1>2, <1>3, <1>9, <1>10, <2>1 DEF DirectoryInv, DirectoryTypeOK
<1>12. EventsFit'
  <2> SUFFICES ASSUME NEW e \in sent'
               PROVE  /\ e.at <= now'
                      /\ e.type = "deleted" => past'[e.at][e.account].deleted
                      /\ e.type = "custodian_changed" => e.account \in Silicons
    BY DEF EventsFit
  <2>1. CASE e \in sent
    <3>1. e.at \in Times /\ e.at <= now BY <2>1, EventTypes
    <3>2. e.at <= now'
      <4>1. e.at \in Int BY <3>1, InstantsOrder
      <4> QED BY <1>1, <1>2, <3>1, <4>1
    <3> QED BY <1>3, <2>1, <3>1, <3>2 DEF DirectoryInv, EventsFit
  <2>2. CASE e = [type |-> type, account |-> a, at |-> now']
    <3>1. e.type = type /\ e.account = a /\ e.at = now' BY <2>2
    <3>2. now' <= now' BY <1>1, <1>2
    <3> QED BY <1>4, <3>1, <3>2
  <2> QED BY <1>8, <2>1, <2>2
<1>13. RowsFit'
  <2> SUFFICES ASSUME NEW b \in Accounts PROVE RowFits(b, rows[b])'
    BY DEF RowsFit
  <2> DEFINE row == rows[b]
  <2>1. row \in Rows /\ RowFits(b, row) /\ rows' = rows
    BY <1>9 DEF DirectoryInv, DirectoryTypeOK, RowsFit
  <2>2. row.idAt \in Int /\ row.custodianAt \in Int BY <2>1, InstantsOrder DEF Rows
  <2>3. row.idAt <= now' /\ row.custodianAt <= now' BY <1>1, <1>2, <2>1, <2>2 DEF RowFits
  <2>4. ASSUME row.custodian # None
        PROVE  \E t \in Later(0, row.custodianAt) .. now' : past'[t][b].custodian = row.custodian
    <3>1. PICK t \in Later(0, row.custodianAt) .. now : past[t][b].custodian = row.custodian
      BY <2>1, <2>4 DEF RowFits
    <3>2. Later(0, row.custodianAt) \in Int /\ 0 <= Later(0, row.custodianAt) BY <2>2 DEF Later
    <3>3. t \in Times /\ t <= now BY <1>1, <3>1, <3>2 DEF Times
    <3>4. t \in Later(0, row.custodianAt) .. now' BY <1>1, <1>2, <3>1, <3>2
    <3>5. past'[t] = past[t] BY <1>3, <3>3
    <3> QED BY <3>1, <3>4, <3>5
  <2> QED BY <1>6, <2>1, <2>3, <2>4 DEF RowFits
<1>14. PendingFits' BY <1>6, <1>9 DEF DirectoryInv, PendingFits
<1>15. LookupsFit'
  <2> SUFFICES ASSUME NEW l \in Lookups, lookups[l].pc # "idle" PROVE TaskFits(lookups[l])'
    BY <1>9 DEF LookupsFit, TaskFits
  <2> DEFINE task == lookups[l]
  <2>1. task \in LookupTypes /\ TaskFits(task) /\ lookups' = lookups /\ rows' = rows
    BY <1>9 DEF DirectoryInv, DirectoryTypeOK, LookupsFit
  <2>2. task.account \in Accounts /\ task.started <= now /\ task.asOf <= now BY <2>1 DEF TaskFits
  <2>3. task.started \in Int /\ task.asOf \in Int /\ task.since \in Int
    BY <2>1, InstantsOrder DEF LookupTypes
  <2>4. task.started <= now' /\ task.asOf <= now' BY <1>1, <1>2, <2>2, <2>3
  <2>5. task.pc = "gone" => past'[now'][task.account].deleted
    BY <1>6, <2>1, <2>2 DEF TaskFits
  <2>6. ASSUME task.pc \in {"granted", "read"}
        PROVE  \E t \in Later(0, task.since) .. now' : past'[t][task.account].custodian = task.caller
    <3>1. PICK t \in Later(0, task.since) .. now : past[t][task.account].custodian = task.caller
      BY <2>1, <2>6 DEF TaskFits
    <3>2. Later(0, task.since) \in Int /\ 0 <= Later(0, task.since) BY <2>3 DEF Later
    <3>3. t \in Times /\ t <= now BY <1>1, <3>1, <3>2 DEF Times
    <3>4. t \in Later(0, task.since) .. now' BY <1>1, <1>2, <3>1, <3>2
    <3>5. past'[t] = past[t] BY <1>3, <3>3
    <3> QED BY <3>1, <3>4, <3>5
  <2> QED BY <2>1, <2>2, <2>4, <2>5, <2>6 DEF TaskFits
<1>16. SignOutsFit' BY <1>9 DEF DirectoryInv, SignOutsFit, RevokedBefore
<1> QED BY <1>7, <1>11, <1>12, <1>13, <1>14, <1>15, <1>16 DEF DirectoryInv

\* Silicon Accounts changes an account and sends its event.
LEMMA RemoteChangeKeeps ==
    ASSUME DirectoryInv, NEW a \in Accounts, RemoteChange(a)
    PROVE  DirectoryInv'
<1> DEFINE facts == past[now][a]
<1>1. now \in Times /\ now \in Int /\ MaxNow \in Int /\ now <= now
  BY InstantsOrder, DirectoryAssumption DEF DirectoryInv, DirectoryTypeOK
<1>2. facts \in Facts BY <1>1 DEF DirectoryInv, DirectoryTypeOK
<1>3. /\ facts.id \in Ids /\ facts.id \in Int /\ facts.version \in Ids /\ facts.version \in Int
      /\ facts.custodian \in Carbons \cup {None} /\ facts.deleted \in BOOLEAN
  BY <1>2 DEF Facts, Ids
<1>4. facts.id <= now /\ facts.version <= now
  BY <1>1 DEF DirectoryInv, HistoryFits
<1>5. /\ a \in Silicons => facts.custodian \in Carbons
      /\ a \notin Silicons => facts.custodian = None
  BY <1>1 DEF DirectoryInv, HistoryFits
<1>6. /\ facts.id <= facts.id /\ facts.id <= facts.id + 1 /\ facts.id <= now + 1
      /\ facts.version <= now + 1 /\ facts.id + 1 <= now + 1 /\ facts.version + 1 <= now + 1
  BY <1>1, <1>3, <1>4
<1>7. now < MaxNow BY DEF RemoteChange, Announce
<1>8. facts.id + 1 \in Ids /\ facts.version + 1 \in Ids
  BY <1>1, <1>3, <1>4, <1>7 DEF Ids
<1> HIDE DEF facts
<1>9. CASE Announce("id_changed", a, [facts EXCEPT !.id = @ + 1])
  <2> DEFINE new == [facts EXCEPT !.id = @ + 1]
  <2>1. /\ new \in Facts /\ new.id = facts.id + 1 /\ new.version = facts.version
        /\ new.custodian = facts.custodian
    BY <1>2, <1>8 DEF Facts
  <2> HIDE DEF new
  <2> QED BY <1>5, <1>6, <1>9, <2>1, AnnounceKeeps DEF facts, new
<1>10. CASE Announce("updated", a, [facts EXCEPT !.version = @ + 1])
  <2> DEFINE new == [facts EXCEPT !.version = @ + 1]
  <2>1. /\ new \in Facts /\ new.id = facts.id /\ new.version = facts.version + 1
        /\ new.custodian = facts.custodian
    BY <1>2, <1>8 DEF Facts
  <2> HIDE DEF new
  <2> QED BY <1>5, <1>6, <1>10, <2>1, AnnounceKeeps DEF facts, new
<1>11. CASE Announce("signed_out", a, facts)
  BY <1>2, <1>5, <1>6, <1>11, AnnounceKeeps DEF facts
<1>12. CASE Announce("deleted", a, [facts EXCEPT !.deleted = TRUE])
  <2> DEFINE new == [facts EXCEPT !.deleted = TRUE]
  <2>1. /\ new \in Facts /\ new.id = facts.id /\ new.version = facts.version
        /\ new.custodian = facts.custodian /\ new.deleted
    BY <1>2 DEF Facts
  <2> HIDE DEF new
  <2> QED BY <1>5, <1>6, <1>12, <2>1, AnnounceKeeps DEF facts, new
<1>13. ASSUME NEW c \in Carbons, a \in Silicons,
              Announce("custodian_changed", a, [facts EXCEPT !.custodian = c])
       PROVE  DirectoryInv'
  <2> DEFINE new == [facts EXCEPT !.custodian = c]
  <2>1. /\ new \in Facts /\ new.id = facts.id /\ new.version = facts.version
        /\ new.custodian = c
    BY <1>2 DEF Facts
  <2> HIDE DEF new
  <2> QED BY <1>6, <1>13, <2>1, AnnounceKeeps DEF facts, new
<1> QED BY <1>9, <1>10, <1>11, <1>12, <1>13 DEF RemoteChange, facts
-----------------------------------------------------------------------------
(* The theorems *)

\* The empty directory satisfies the invariant.
LEMMA InitFits ==
    ASSUME DirectoryInit
    PROVE  DirectoryInv
<1>1. PICK of \in [Silicons -> Carbons] :
        past = [t \in Times |-> [a \in Accounts |->
                  [id |-> 0, version |-> 0, deleted |-> FALSE,
                   custodian |-> IF a \in Silicons THEN of[a] ELSE None]]]
  BY DEF DirectoryInit
<1>2. 0 \in Ids /\ now = 0 /\ now \in Times
  BY InstantsOrder, DirectoryAssumption DEF Ids, DirectoryInit
<1>3. \A t \in Times, a \in Accounts :
        past[t][a] = [id |-> 0, version |-> 0, deleted |-> FALSE,
                      custodian |-> IF a \in Silicons THEN of[a] ELSE None]
  BY <1>1
<1>4. past \in [Times -> [Accounts -> Facts]]
  BY <1>1, <1>2 DEF Facts
<1>5. DirectoryTypeOK
  <2>1. /\ sent = {} /\ applied = {} /\ oldest = [a \in Accounts |-> 0]
        /\ rows = [a \in Accounts |-> NoRow] /\ pending = [a \in Accounts |-> NoPending]
        /\ lookups = [l \in Lookups |-> IdleLookup]
    BY DEF DirectoryInit
  <2>2. NoRow \in Rows
    BY InstantsOrder, DirectoryAssumption DEF NoRow, Rows, Instants, Ids, Times
  <2>3. NoPending \in [revoked : Instants, deletedAt : Instants] BY DEF NoPending, Instants
  <2>4. IdleLookup \in LookupTypes BY InstantsOrder DEF IdleLookup, LookupTypes, Instants
  <2> QED BY <1>2, <1>4, <2>1, <2>2, <2>3, <2>4 DEF DirectoryTypeOK
<1>6. HistoryFits
  <2> SUFFICES ASSUME NEW a \in Accounts, NEW t \in Times
               PROVE  /\ a \in Silicons => past[t][a].custodian \in Carbons
                      /\ a \notin Silicons => past[t][a].custodian = None
                      /\ t <= now => past[t][a].id <= t /\ past[t][a].version <= t
                      /\ \A u \in Times : t <= u /\ u <= now =>
                            /\ past[t][a].id <= past[u][a].id
                            /\ past[t][a].deleted => past[u][a].deleted
    BY DEF HistoryFits
  <2>1. \A u \in Times : /\ past[u][a].id = 0 /\ past[u][a].version = 0
                         /\ past[u][a].deleted = FALSE
                         /\ past[u][a].custodian = IF a \in Silicons THEN of[a] ELSE None
    <3> DEFINE c == IF a \in Silicons THEN of[a] ELSE None
    <3>1. \A u \in Times : past[u][a] = [id |-> 0, version |-> 0, deleted |-> FALSE, custodian |-> c]
      BY <1>3
    <3>2. \A u \in Times : past[u][a].custodian = c BY <3>1
    <3> HIDE DEF c
    <3>3. \A u \in Times : past[u][a].id = 0 /\ past[u][a].version = 0 /\ past[u][a].deleted = FALSE
      BY <3>1
    <3> QED BY <3>2, <3>3 DEF c
  <2>2. 0 <= t BY InstantsOrder
  <2> QED BY <2>1, <2>2
<1>7. EventsFit /\ SignOutsFit BY DEF EventsFit, SignOutsFit, DirectoryInit
<1>8. RowsFit BY <1>5, NothingFits DEF RowsFit, DirectoryInit
<1>9. PendingFits BY DEF PendingFits, DirectoryInit, NoPending, NoRow
<1>10. LookupsFit BY DEF LookupsFit, TaskFits, DirectoryInit, IdleLookup
<1> QED BY <1>5, <1>6, <1>7, <1>8, <1>9, <1>10 DEF DirectoryInv

\* Every step keeps the invariant.
LEMMA NextKeeps ==
    ASSUME DirectoryInv, [DirectoryNext]_vars
    PROVE  DirectoryInv'
<1>1. Members \subseteq Accounts /\ Silicons \subseteq Accounts
  BY DirectoryAssumption DEF Accounts
<1>2. CASE UNCHANGED vars
  <2>1. UNCHANGED <<now, past, sent, oldest, applied, rows, pending, lookups>> BY <1>2 DEF vars
  <2> QED BY <2>1 DEF DirectoryInv, DirectoryTypeOK, HistoryFits, EventsFit, RowsFit, RowFits,
                      PendingFits, LookupsFit, TaskFits, SignOutsFit, RevokedBefore
<1>3. ASSUME NEW a \in Members,
             \/ RemoteChange(a)
             \/ ForgetPending(a)
             \/ \E t \in Times :
                 \/ \E u \in Times, hinted \in BOOLEAN : FirstSight(a, t, u, hinted)
                 \/ \E u \in Times : AdoptId(a, t, u)
                 \/ CompleteProfile(a, t)
      PROVE  DirectoryInv'
  BY <1>1, <1>3, RemoteChangeKeeps, ForgetPendingKeeps, FirstSightKeeps, AdoptIdKeeps,
     CompleteProfileKeeps
<1>4. ASSUME NEW e \in sent,
             \/ IdChanged(e)
             \/ \E carriesId \in BOOLEAN : ProfileUpdated(e, carriesId)
             \/ CustodianChanged(e) \/ SignedOut(e) \/ AccountDeleted(e)
      PROVE  DirectoryInv'
  BY <1>4, IdChangedKeeps, ProfileUpdatedKeeps, CustodianChangedKeeps, SignedOutKeeps,
     AccountDeletedKeeps
<1>5. ASSUME NEW l \in Lookups, NEW a \in Members, Refresh(l, a)
      PROVE  DirectoryInv'
  BY <1>1, <1>5, BeginKeeps
<1>6. ASSUME NEW l \in Lookups, NEW c \in Carbons,
             \/ \E s \in Silicons : Custody(l, s, c) \/ CustodyRead(l, s, c)
             \/ \E a \in Members : SelectByLookup(l, a, c)
      PROVE  DirectoryInv'
  BY <1>1, <1>6, BeginKeeps, ReadKeeps
<1>7. ASSUME NEW l \in Lookups, Answer(l) \/ PurgeDeleted(l) \/ EnsureSummary(l)
                                \/ StoreSummary(l) \/ Grant(l) \/ Leave(l)
      PROVE  DirectoryInv'
  BY <1>7, AnswerKeeps, PurgeDeletedKeeps, EnsureSummaryKeeps, StoreSummaryKeeps, GrantKeeps,
     LeaveKeeps
<1> QED BY <1>2, <1>3, <1>4, <1>5, <1>6, <1>7 DEF DirectoryNext

\* Whatever order events, credentials and lookup answers come in, every instant
\* stored by webhooks.rs and directory.rs is past and what is stored with it was so
\* then or later.
THEOREM DirectoryInvariance == DirectorySpec => []DirectoryInv
<1>1. DirectoryInit => DirectoryInv BY InitFits
<1>2. DirectoryInv /\ [DirectoryNext]_vars => DirectoryInv' BY NextKeeps
<1> QED BY <1>1, <1>2, PTL DEF DirectorySpec

\* Rows, pending events and tasks keep their shape.
THEOREM DirectoryTypeCorrect == DirectorySpec => []DirectoryTypeOK
<1>1. DirectoryInv => DirectoryTypeOK BY DEF DirectoryInv
<1> QED BY <1>1, DirectoryInvariance, PTL

\* end_sign_ins, purge_account, fold_pending_events: a received sign-out or
\* deletion refuses every earlier token, also if it came before the account.
THEOREM SignOutsAlwaysStand == DirectorySpec => []SignOutsStand
<1>1. DirectoryInv => SignOutsStand
  <2> SUFFICES ASSUME DirectoryInv, NEW e \in applied, e.type \in {"signed_out", "deleted"},
                      NEW t \in oldest[e.account] .. e.at - 1
               PROVE  ~Accepts(e.account, t)
    BY DEF SignOutsStand
  <2>1. e \in sent BY DEF DirectoryInv, DirectoryTypeOK
  <2>2. e.account \in Accounts /\ e.at \in Times BY <2>1, EventTypes
  <2>3. e.at \in Int /\ oldest[e.account] \in Int /\ RevokedBefore(e.account) \in Int
    BY <2>2, RevokedTypes, InstantsOrder DEF DirectoryInv, DirectoryTypeOK
  <2>4. \/ RevokedBefore(e.account) >= e.at
        \/ rows[e.account].deleted
        \/ oldest[e.account] >= e.at
    BY DEF DirectoryInv, SignOutsFit
  <2>5. t \in Int /\ oldest[e.account] <= t /\ t < e.at BY <2>3
  <2> QED BY <2>3, <2>4, <2>5 DEF Accepts, Deleted
<1> QED BY <1>1, DirectoryInvariance, PTL

\* purge_account: only accounts that were deleted are, and nothing is written to
\* their tombstones.
THEOREM TombstonesAreAlwaysTrue == DirectorySpec => []TombstonesAreTrue
<1>1. DirectoryInv => TombstonesAreTrue BY DEF DirectoryInv, RowsFit, RowFits, TombstonesAreTrue
<1> QED BY <1>1, DirectoryInvariance, PTL

\* store_summary: a lookup never brings back a custodian from before an applied
\* change.
THEOREM CustodianIsNeverOlder == DirectorySpec => []CustodianIsNoOlder
<1>1. DirectoryInv => CustodianIsNoOlder
  <2> SUFFICES ASSUME DirectoryInv, NEW s \in Silicons,
                      rows[s].custodian # None, rows[s].custodianAt # NoTime
               PROVE  \E t \in rows[s].custodianAt .. now : past[t][s].custodian = rows[s].custodian
    BY DEF CustodianIsNoOlder
  <2>1. s \in Accounts BY DEF Accounts
  <2>2. rows[s].custodianAt \in Int /\ 0 <= rows[s].custodianAt
    BY <2>1, InstantsOrder DEF DirectoryInv, DirectoryTypeOK, Rows
  <2>3. Later(0, rows[s].custodianAt) = rows[s].custodianAt BY <2>2 DEF Later
  <2> QED BY <2>1, <2>3 DEF DirectoryInv, RowsFit, RowFits
<1> QED BY <1>1, DirectoryInvariance, PTL

\* custody, select_by_lookup: whoever is let act as custodian was the custodian no
\* earlier than the last change applied before the request.
THEOREM GrantsAreAlwaysCurrent == DirectorySpec => []GrantsAreCurrent
<1>1. DirectoryInv => GrantsAreCurrent
  BY DEF DirectoryInv, LookupsFit, TaskFits, GrantsAreCurrent
<1> QED BY <1>1, DirectoryInvariance, PTL

-----------------------------------------------------------------------------
(* Ids *)

\* Silicon Accounts never goes back to an id from before an instant, nor from a
\* proof's delay earlier.
LEMMA IdsGrow ==
    ASSUME DirectoryInv, NEW a \in Accounts, NEW at \in Instants,
           NEW t \in Times, t <= now, at - ProofDelay <= t
    PROVE  past[Later(0, at - ProofDelay)][a].id <= past[t][a].id
<1> DEFINE u == Later(0, at - ProofDelay)
<1>1. at \in Int /\ t \in Int /\ 0 <= t /\ t <= MaxNow /\ ProofDelay \in Nat /\ MaxNow \in Nat
  BY InstantsOrder, DirectoryAssumption DEF Times
<1>2. u \in Int /\ 0 <= u /\ u <= t BY <1>1 DEF Later
<1> HIDE DEF u
<1>3. u \in Times BY <1>1, <1>2 DEF Times
<1>4. past[u][a].id <= past[t][a].id BY <1>2, <1>3 DEF DirectoryInv, HistoryFits
<1> QED BY <1>4 DEF u

\* ensure leaves an id alone, or takes it away with everything else.
LEMMA EnsureReplacesNoId ==
    ASSUME DirectoryInv, NEW a \in Accounts, NEW b \in Accounts, NEW id, NEW t, Ensure(b, id, t),
           rows[a].id # NoId
    PROVE  rows'[a].id \in {NoId, rows[a].id}
<1>1. CASE a # b BY <1>1 DEF Ensure, DirectoryInv, DirectoryTypeOK
<1>2. CASE a = b
  <2>1. rows[a] \in Rows /\ RowFits(a, rows[a]) BY DEF DirectoryInv, DirectoryTypeOK, RowsFit
  <2>2. rows[a].known BY <2>1 DEF RowFits, NoRow
  <2>3. rows'[a] = Folded(a, rows[a])
    BY <1>2, <2>2 DEF Ensure, Ensured, DirectoryInv, DirectoryTypeOK
  <2> QED BY <2>1, <2>3 DEF Folded, Tombstone, Rows
<1> QED BY <1>1, <1>2

\* Neither does a deletion.
LEMMA PurgeReplacesNoId ==
    ASSUME DirectoryInv, NEW a \in Accounts, NEW b \in Accounts, NEW at, PurgeAccount(b, at)
    PROVE  rows'[a].id \in {NoId, rows[a].id}
<1>1. rows \in [Accounts -> Rows] BY DEF DirectoryInv, DirectoryTypeOK
<1>2. rows[a] \in Rows BY <1>1
<1>3. Tombstone(rows[a], at).id = NoId BY <1>2 DEF Tombstone, Rows
<1> QED BY <1>1, <1>3 DEF PurgeAccount

\* Showing an id to Silicons changes only the id of the row that is replaced.
LEMMA ShownIds ==
    ASSUME DirectoryInv, NEW a \in Accounts, NEW b \in Accounts, NEW new, NEW id,
           rows' = ShowCustodianId(b, new, id), a # b
    PROVE  rows'[a].id = rows[a].id
<1>1. rows[a] \in Rows BY DEF DirectoryInv, DirectoryTypeOK
<1>2. [rows[a] EXCEPT !.custodianId = id].id = rows[a].id BY <1>1 DEF Rows
<1> QED BY <1>2 DEF ShowCustodianId

\* adopt_id: a credential that replaces an id is no older than the id's evidence.
LEMMA CredentialIsNewer ==
    ASSUME DirectoryInv, NEW a \in Accounts, NEW b \in Accounts,
           NEW t \in Times, NEW asOf \in Times, AdoptId(b, t, asOf), rows'[a].id # rows[a].id
    PROVE  past[Later(0, rows[a].idAt - ProofDelay)][a].id <= rows'[a].id
<1> DEFINE id == past[t][b].id
           new == [rows[b] EXCEPT !.id = id, !.idAt = asOf]
<1>1. rows' = ShowCustodianId(b, new, id) BY DEF AdoptId
<1>2. a = b BY <1>1, ShownIds
<1>3. rows[a] \in Rows BY DEF DirectoryInv, DirectoryTypeOK
<1>4. rows'[a].id = past[t][a].id
  BY <1>1, <1>2, <1>3 DEF ShowCustodianId, Rows
<1>5. /\ rows[a].idAt < asOf /\ asOf - t <= ProofDelay /\ t \in oldest[a] .. now
      /\ rows[a].idAt \in Instants /\ now \in Times /\ oldest[a] \in Times
  BY <1>2, <1>3 DEF AdoptId, Credential, DirectoryInv, DirectoryTypeOK, Rows
<1>6. t <= now /\ rows[a].idAt - ProofDelay <= t
  BY <1>5, InstantsOrder, DirectoryAssumption
<1> QED BY <1>4, <1>5, <1>6, IdsGrow

\* account.id_changed: neither is an event.
LEMMA EventIsNewer ==
    ASSUME DirectoryInv, NEW a \in Accounts, NEW e \in sent, IdChanged(e),
           rows'[a].id # rows[a].id
    PROVE  past[Later(0, rows[a].idAt - ProofDelay)][a].id <= rows'[a].id
<1> DEFINE b == e.account
           id == past[e.at][b].id
           named == [rows[b] EXCEPT !.id = id, !.idAt = e.at]
           new == IF Live(b) /\ rows[b].idAt <= e.at THEN named ELSE rows[b]
<1>1. rows' = ShowCustodianId(b, new, id) BY DEF IdChanged
<1>2. b \in Accounts /\ e.at \in Times /\ e.at <= now BY EventTypes
<1>3. a = b BY <1>1, <1>2, ShownIds
<1>4. rows[a] \in Rows /\ rows[a].idAt \in Instants BY DEF DirectoryInv, DirectoryTypeOK, Rows
<1>5. rows'[a] = new BY <1>1, <1>3 DEF ShowCustodianId
<1>6. rows[a].idAt <= e.at /\ rows'[a] = named BY <1>3, <1>5
<1>7. rows'[a].id = past[e.at][a].id BY <1>3, <1>4, <1>6 DEF Rows
<1>8. rows[a].idAt - ProofDelay <= e.at
  BY <1>2, <1>4, <1>6, InstantsOrder, DirectoryAssumption
<1> QED BY <1>2, <1>4, <1>7, <1>8, IdsGrow

\* store_summary: nor a lookup's answer, which the skew allowance only delays.
LEMMA AnswerIsNewer ==
    ASSUME DirectoryInv, NEW a \in Accounts, NEW l \in Lookups, StoreSummary(l),
           rows'[a].id # rows[a].id
    PROVE  past[Later(0, rows[a].idAt - ProofDelay)][a].id <= rows'[a].id
<1> DEFINE task == lookups[l]
           b == task.account
<1>1. task \in LookupTypes /\ TaskFits(task) /\ task.pc = "ensured"
  BY DEF DirectoryInv, LookupsFit, DirectoryTypeOK, StoreSummary
<1>2. /\ b \in Accounts /\ task.started \in Times /\ task.asOf \in Times
      /\ task.started <= task.asOf /\ task.asOf <= now
  BY <1>1 DEF TaskFits, LookupTypes
<1>3. rows \in [Accounts -> Rows] BY DEF DirectoryInv, DirectoryTypeOK
<1>4. a = b /\ rows'[a] = Summary(task) BY <1>2, <1>3 DEF StoreSummary
<1>5. rows[a] \in Rows /\ rows[a].idAt \in Instants BY <1>3 DEF Rows
<1>6. Summary(task).id = IF rows[a].idAt < task.started - Skew
                         THEN past[task.asOf][a].id ELSE rows[a].id
  BY <1>4, <1>5 DEF Summary, Rows
<1>7. rows[a].idAt < task.started - Skew /\ rows'[a].id = past[task.asOf][a].id
  BY <1>4, <1>6
<1>8. rows[a].idAt - ProofDelay <= task.asOf
  BY <1>2, <1>5, <1>7, InstantsOrder, DirectoryAssumption
<1> QED BY <1>2, <1>5, <1>7, <1>8, IdsGrow

\* adopt_id, ensure, store_summary, account.id_changed: older evidence never
\* replaces a newer id, unless account.updated carries it.
THEOREM NewerIdsAlwaysStand == DirectorySpec => NewerIdsStand
<1>1. ASSUME DirectoryInv, [DirectoryNext]_vars, NEW a \in Accounts,
             rows[a].id # NoId, rows'[a].id \notin {NoId, rows[a].id},
             ~ \E e \in applied' \ applied : e.type = "updated" /\ e.account = a
      PROVE  past[Later(0, rows[a].idAt - ProofDelay)][a].id <= rows'[a].id
  <2>1. rows \in [Accounts -> Rows] /\ rows[a] \in Rows
    BY <1>1 DEF DirectoryInv, DirectoryTypeOK
  <2>2. rows' # rows /\ rows'[a].id # rows[a].id BY <1>1
  <2>3. Members \subseteq Accounts BY DirectoryAssumption DEF Accounts
  <2>4. ASSUME NEW b \in Members, RemoteChange(b) \/ ForgetPending(b) PROVE FALSE
    BY <2>2, <2>4 DEF RemoteChange, Announce, ForgetPending
  <2>5. ASSUME NEW b \in Members, NEW t \in Times, NEW u \in Times, NEW hinted \in BOOLEAN,
               FirstSight(b, t, u, hinted)
        PROVE  FALSE
    BY <1>1, <2>3, <2>5, EnsureReplacesNoId DEF FirstSight
  <2>6. ASSUME NEW b \in Members, NEW t \in Times, NEW u \in Times, AdoptId(b, t, u)
        PROVE  past[Later(0, rows[a].idAt - ProofDelay)][a].id <= rows'[a].id
    BY <1>1, <2>2, <2>3, <2>6, CredentialIsNewer
  <2>7. ASSUME NEW b \in Members, NEW t \in Times, CompleteProfile(b, t) PROVE FALSE
    BY <2>1, <2>2, <2>7 DEF CompleteProfile, Rows
  <2>8. ASSUME NEW e \in sent, IdChanged(e)
        PROVE  past[Later(0, rows[a].idAt - ProofDelay)][a].id <= rows'[a].id
    BY <1>1, <2>2, <2>8, EventIsNewer
  <2>9. ASSUME NEW e \in sent, NEW carriesId \in BOOLEAN, ProfileUpdated(e, carriesId)
        PROVE  FALSE
    <3>1. e \in applied' \ applied /\ e.type = "updated" BY <2>9 DEF ProfileUpdated, Receive
    <3>2. e.account # a BY <1>1, <3>1
    <3> QED BY <2>1, <2>2, <2>9, <3>2 DEF ProfileUpdated
  <2>10. ASSUME NEW e \in sent, CustodianChanged(e) \/ SignedOut(e) PROVE FALSE
    <3>1. ASSUME NEW b, NEW c, NEW id, NEW at,
                 rows' = [rows EXCEPT ![b].custodian = c, ![b].custodianId = id,
                                      ![b].custodianAt = at]
          PROVE  FALSE
      BY <2>1, <2>2, <3>1 DEF Rows
    <3>2. ASSUME NEW b, NEW at, rows' = [rows EXCEPT ![b].revoked = at] PROVE FALSE
      BY <2>1, <2>2, <3>2 DEF Rows
    <3>3. CASE CustodianChanged(e) BY <2>2, <3>1, <3>3 DEF CustodianChanged
    <3>4. CASE SignedOut(e) BY <2>2, <3>2, <3>4 DEF SignedOut
    <3> QED BY <2>10, <3>3, <3>4
  <2>11. ASSUME NEW e \in sent, AccountDeleted(e) PROVE FALSE
    <3>1. e.account \in Accounts BY <1>1, EventTypes
    <3> QED BY <1>1, <2>11, <3>1, PurgeReplacesNoId DEF AccountDeleted
  <2>12. ASSUME NEW l \in Lookups, PurgeDeleted(l) \/ EnsureSummary(l) PROVE FALSE
    <3>1. lookups[l].account \in Accounts
      BY <1>1, <2>12 DEF DirectoryInv, LookupsFit, TaskFits, PurgeDeleted, EnsureSummary
    <3> QED BY <1>1, <2>12, <3>1, PurgeReplacesNoId, EnsureReplacesNoId
            DEF PurgeDeleted, EnsureSummary
  <2>13. ASSUME NEW l \in Lookups, StoreSummary(l)
         PROVE  past[Later(0, rows[a].idAt - ProofDelay)][a].id <= rows'[a].id
    BY <1>1, <2>2, <2>13, AnswerIsNewer
  <2>14. ASSUME NEW l \in Lookups,
                \/ \E b \in Members : Refresh(l, b)
                \/ \E s \in Silicons, c \in Carbons : Custody(l, s, c) \/ CustodyRead(l, s, c)
                \/ \E b \in Members, c \in Carbons : SelectByLookup(l, b, c)
                \/ Answer(l) \/ Grant(l) \/ Leave(l)
         PROVE  FALSE
    BY <2>2, <2>14 DEF Refresh, Custody, CustodyRead, SelectByLookup, Answer, Grant, Leave
  <2>15. CASE UNCHANGED vars BY <2>2, <2>15 DEF vars
  <2> QED BY <1>1, <2>4, <2>5, <2>6, <2>7, <2>8, <2>9, <2>10, <2>11, <2>12, <2>13, <2>14, <2>15
          DEF DirectoryNext
<1>2. DirectoryInv /\ [DirectoryNext]_vars =>
        [\A a \in Accounts :
           rows[a].id # NoId /\ rows'[a].id \notin {NoId, rows[a].id} =>
              \/ past[Later(0, rows[a].idAt - ProofDelay)][a].id <= rows'[a].id
              \/ \E e \in applied' \ applied : e.type = "updated" /\ e.account = a]_vars
  BY <1>1
<1> QED BY <1>2, DirectoryInvariance, PTL DEF DirectorySpec, NewerIdsStand
=============================================================================
