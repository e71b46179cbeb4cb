---------------------------- MODULE IdentityLinks ----------------------------
(***************************************************************************)
(* waveform-api link-identities (operator.rs): a mapping file gives the    *)
(* data of IAM-era principals to Silicon Accounts uuids, and a corrected   *)
(* file moves it again.  The command is one transaction; the API may serve *)
(* meanwhile, so its statements interleave with requests, first sightings  *)
(* (directory.rs ensure) and webhooks.                                     *)
(*                                                                         *)
(* A storage key is the key of the data.  What the command has written is  *)
(* its draft until it commits: others neither see these rows nor write     *)
(* them (PostgreSQL makes a second writer wait).  The command's now() is    *)
(* the beginning of its transaction, so what the API writes while it runs  *)
(* is later.                                                               *)
(***************************************************************************)
EXTENDS Naturals, Sequences, FiniteSets

CONSTANTS
    Accounts,       \* account uuids
    Principals,     \* IAM-era principals
    KeyOf,          \* the storage key of each principal's data
    Named,          \* the principals with a public id; the others are UUIDs
    SettingsOnly,   \* legacy keys whose rows are settings alone
    Mappings,       \* the files an operator writes: sequences of [principal, account]
    Options,        \* the options given, and "vault" if the encryption key is set
    None,
    MaxCommands,    \* bounds: commands, rows that accounts write, fresh keys of one
    MaxWrites,      \* account
    MaxFresh

LegacyKeys == {KeyOf[p] : p \in Principals}
FreshKeys(a) == {a} \X (1 .. MaxFresh)
StorageKeys == LegacyKeys \cup UNION {FreshKeys(a) : a \in Accounts}

\* A fresh key is never one that is taken.
ASSUME LinksAssumption ==
    /\ Named \subseteq Principals
    /\ MaxFresh \in Nat
    /\ Options \subseteq SUBSET {"merge", "relink", "vault"}
    /\ None \notin Accounts \cup StorageKeys
    /\ Mappings \subseteq Seq([principal : Principals, account : Accounts])
    /\ \A a \in Accounts : FreshKeys(a) \cap LegacyKeys = {}

VARIABLES
    keys,       \* waveform_account_keys: [key, source] or NoKey
    accts,      \* waveform_accounts: [fence, changed] or NoAccount
    pending,    \* waveform_account_pending_events: the fences kept for a first sighting
    links,      \* waveform_identity_links: [row, account, at] or NoLink
    rows,       \* the rows of every table that are kept under a storage key
    unfolded,   \* legacy keys whose provider keys are not sealed as @ rows yet
    cmd,        \* the command that runs
    draft,      \* what it has written
    inflight,   \* the key that an account's request has resolved
    fresh,      \* fresh keys made for each account
    time,       \* commands begun
    gone,       \* accounts deleted at Silicon Accounts
    owed,       \* history: the fences that must hold for each account
    last        \* history: mapping and options of the command just committed, if the API
                \* has done nothing since it began

database == <<keys, accts, pending, links, rows, unfolded>>
linkVars == <<database, cmd, draft, inflight, fresh, time, gone, owed, last>>

NoKey == [key |-> None, source |-> "none"]
NoAccount == [fence |-> {"no_row"}, changed |-> 0]
Unlinked == [row |-> TRUE, account |-> None, at |-> 0]
NoLink == [row |-> FALSE, account |-> None, at |-> 0]
Fences == {"signed_out", "deleted"}

\* by: the account whose request wrote it, None for a legacy row or the
\* command's.  late: written under a key that its account has lost, or is about
\* to lose by a command that has already looked, or after the account's deletion.
Row(by, kind, at, late) == [by |-> by, kind |-> kind, time |-> at, late |-> late]

Now == 2 * time             \* in the command's transaction
ApiNow == 2 * time + 1

\* A conflict ends the run at once: what the code does with the rows after it is
\* rolled back anyway.
Idle == [pc |-> "idle", todo |-> <<>>, options |-> {}, holder |-> None, sources |-> <<>>,
         linked |-> {}, checked |-> {}, copied |-> {}, alone |-> TRUE, mapping |-> <<>>]

\* Written rows, by table; an account or a principal that is not in the domain
\* was not written.
NoDraft == [keys |-> <<>>, accts |-> <<>>, pending |-> <<>>, links |-> <<>>]

LinksInit ==
    /\ keys = [a \in Accounts |-> NoKey]
    /\ accts = [a \in Accounts |-> NoAccount]
    /\ pending = [a \in Accounts |-> {}]
    /\ links = [p \in Principals |-> IF p \in Named THEN Unlinked ELSE NoLink]
    /\ rows = [k \in StorageKeys |->
                IF k \notin LegacyKeys THEN {}
                ELSE {Row(None, IF k \in SettingsOnly THEN "setting" ELSE "data", 0, FALSE)}]
    /\ unfolded = LegacyKeys
    /\ cmd = Idle
    /\ draft = NoDraft
    /\ inflight = [a \in Accounts |-> None]
    /\ fresh = [a \in Accounts |-> 0]
    /\ time = 0
    /\ gone = {}
    /\ owed = [a \in Accounts |-> {}]
    /\ last = <<>>
-----------------------------------------------------------------------------
(***************************************************************************)
(* What the command sees, and what it writes                               *)
(***************************************************************************)
\* A table under the rows that a transaction has written, and one more of them.
Over(written, table) ==
    [x \in DOMAIN table |-> IF x \in DOMAIN written THEN written[x] ELSE table[x]]
Put(written, x, row) == [y \in DOMAIN written \cup {x} |-> IF y = x THEN row ELSE written[y]]

Keys == Over(draft.keys, keys)
Accts == Over(draft.accts, accts)
Pending == Over(draft.pending, pending)
Links == Over(draft.links, links)

Holders(k) == {a \in Accounts : Keys[a].key = k}

Principal == Head(cmd.todo).principal
Target == Head(cmd.todo).account
LegacyKey == KeyOf[Principal]

\* legacy_key, kind_from_rows: a public id tells the kind; of a UUID, the rows do.
Legacy(p) ==
    LET found == rows[KeyOf[p]]
        data == \E r \in found : r.kind = "data"
    IN IF p \in Named THEN IF Links[p].row THEN "found" ELSE "no_data"
       ELSE IF data THEN "found"
       ELSE IF found # {} THEN "unknown_kind" ELSE "no_data"

\* min(linked_at) of a key and its account: the links that are no later than any.
FirstLink(k, a) ==
    {p \in Principals : KeyOf[p] = k /\ Links[p].account = a
                        /\ \A q \in Principals : KeyOf[q] = k /\ Links[q].account = a
                                                 => Links[q].at >= Links[p].at}

\* used_since_link: any row but a bug report, or a new id or custodian.
UsedSinceLink(k, a) ==
    \E p \in FirstLink(k, a) :
        \/ \E r \in rows[k] : r.kind # "report" /\ r.time > Links[p].at
        \/ Accts[a] # NoAccount /\ Accts[a].changed > Links[p].at

\* Faulty variant: bug reports are left out, as in used_since_link.
KeyHasDataButReports(k) == \E r \in rows[k] : r.kind # "report"

\* key_has_data
KeyHasData(k) == rows[k] # {}

\* Faulty variant: linked_at is always now.
MarkLinkNow(p, a) == [row |-> TRUE, account |-> a, at |-> Now]

\* mark_link: linked_at stays if the account does.
MarkLink(p, a) == IF Links[p].account = a THEN Links[p] ELSE [row |-> TRUE, account |-> a, at |-> Now]

Go(pc) == cmd' = [cmd EXCEPT !.pc = pc]
NextRow(k) == [cmd EXCEPT !.pc = "row", !.todo = Tail(@), !.linked = @ \cup {k}]

Rest == <<rows, unfolded, inflight, fresh, time, gone, owed, last>>
Tables == <<keys, accts, pending, links>>
-----------------------------------------------------------------------------
(***************************************************************************)
(* The command                                                             *)
(***************************************************************************)
\* A principal has one account in a file.
ParseMapping(mapping) ==
    \A i, j \in DOMAIN mapping :
        mapping[i].principal = mapping[j].principal => mapping[i].account = mapping[j].account

\* Silicon Accounts knows every account that is to have data.
VerifyMappingAccounts(mapping) ==
    \A i \in DOMAIN mapping :
        Legacy(mapping[i].principal) = "found" => mapping[i].account \notin gone

Begin(mapping, options) ==
    /\ cmd.pc = "idle"
    /\ time < MaxCommands
    /\ ParseMapping(mapping)
    /\ VerifyMappingAccounts(mapping)
    /\ time' = time + 1
    /\ cmd' = [Idle EXCEPT !.pc = "row", !.todo = mapping, !.mapping = mapping, !.options = options]
    /\ UNCHANGED <<database, draft, inflight, fresh, gone, owed, last>>

AtRow == cmd.pc = "row" /\ cmd.todo # <<>>

Unmatched ==
    /\ AtRow
    /\ Legacy(Principal) = "no_data"
    /\ cmd' = [cmd EXCEPT !.todo = Tail(@)]
    /\ UNCHANGED <<Tables, draft, Rest>>

\* Two principals for one account, or two accounts for one key, in one file.
Ambiguous ==
    \/ \E a \in DOMAIN cmd.sources : a = Target /\ cmd.sources[a] # LegacyKey
    \/ \E a \in DOMAIN cmd.sources : a # Target /\ cmd.sources[a] = LegacyKey

UnknownOrAmbiguous ==
    /\ AtRow
    /\ Legacy(Principal) = "unknown_kind" \/ (Legacy(Principal) = "found" /\ Ambiguous)
    /\ Go("conflict")
    /\ UNCHANGED <<Tables, draft, Rest>>

Matched == AtRow /\ Legacy(Principal) = "found" /\ ~Ambiguous

AlreadyLinked ==
    /\ Matched
    /\ Keys[Target].key = LegacyKey
    /\ draft' = [draft EXCEPT !.links = Put(@, Principal, MarkLink(Principal, Target))]
    /\ cmd' = [NextRow(LegacyKey) EXCEPT !.sources = Put(@, Target, LegacyKey)]
    /\ UNCHANGED <<Tables, Rest>>

\* Another account holds the key.
HeldByAnother ==
    /\ Matched
    /\ \E other \in Holders(LegacyKey) \ {Target} :
         IF "relink" \in cmd.options /\ Keys[other].source = "link_identities"
              /\ ~UsedSinceLink(LegacyKey, other)
         THEN cmd' = [cmd EXCEPT !.pc = "copy", !.holder = other, !.checked = @ \cup {LegacyKey},
                                 !.sources = Put(@, Target, LegacyKey)]
         ELSE Go("conflict")
    /\ UNCHANGED <<Tables, draft, Rest>>

NotHeld ==
    /\ Matched
    /\ Holders(LegacyKey) = {}
    /\ cmd' = [cmd EXCEPT !.pc = "attach", !.sources = Put(@, Target, LegacyKey)]
    /\ UNCHANGED <<Tables, draft, Rest>>

\* Faulty variant: the holder's row goes without a trace.
CopyNoFence ==
    /\ cmd.pc = "copy"
    /\ cmd' = [cmd EXCEPT !.pc = "detach", !.copied = @ \cup {cmd.holder}]
    /\ UNCHANGED <<Tables, draft, Rest>>

\* The fence of the account that loses the key is kept for its next sighting ...
CopyFence ==
    /\ cmd.pc = "copy"
    /\ draft' = IF Accts[cmd.holder].fence \cap Fences = {} THEN draft
                ELSE [draft EXCEPT !.pending =
                        Put(@, cmd.holder, Pending[cmd.holder] \cup Accts[cmd.holder].fence)]
    /\ cmd' = [cmd EXCEPT !.pc = "detach", !.copied = @ \cup {cmd.holder}]
    /\ UNCHANGED <<Tables, Rest>>

\* ... and its rows are deleted.
Detach ==
    /\ cmd.pc = "detach"
    /\ draft' = [draft EXCEPT !.accts = Put(@, cmd.holder, NoAccount),
                              !.keys = Put(@, cmd.holder, NoKey)]
    /\ cmd' = [cmd EXCEPT !.pc = "attach", !.copied = @ \ {cmd.holder}]
    /\ UNCHANGED <<Tables, Rest>>

EarlierLink(a, k) == \E p \in Principals : Links[p].account = a /\ KeyOf[p] # k

\* The account has a key of its own: it is given up only with --merge and only
\* while nothing is kept under it.
Attach ==
    /\ cmd.pc = "attach"
    /\ LET own == Keys[Target].key IN
       IF own = None THEN Go("insert")
       ELSE IF EarlierLink(Target, LegacyKey) \/ "merge" \notin cmd.options \/ KeyHasData(own)
            THEN Go("conflict")
            ELSE cmd' = [cmd EXCEPT !.pc = "merge", !.checked = @ \cup {own}]
    /\ UNCHANGED <<Tables, draft, Rest>>

Linked == [key |-> LegacyKey, source |-> "link_identities"]

Merge ==
    /\ cmd.pc = "merge"
    /\ draft' = [draft EXCEPT !.keys = Put(@, Target, Linked),
                              !.links = Put(@, Principal, MarkLink(Principal, Target))]
    /\ cmd' = NextRow(LegacyKey)
    /\ UNCHANGED <<Tables, Rest>>

\* ON CONFLICT DO NOTHING: a key or a row made since stays.
Insert ==
    /\ cmd.pc = "insert"
    /\ draft' = [draft EXCEPT
         !.keys = IF Keys[Target] = NoKey THEN Put(@, Target, Linked) ELSE @,
         !.accts = IF Accts[Target] = NoAccount
                   THEN Put(@, Target, [fence |-> {}, changed |-> 0]) ELSE @,
         !.links = Put(@, Principal, MarkLink(Principal, Target))]
    /\ cmd' = NextRow(LegacyKey)
    /\ UNCHANGED <<Tables, Rest>>

\* consolidate: provider keys are sealed anew for the @ rows if none is there and
\* the encryption key is set; the copied preferences keep their time.
Resealed == IF "vault" \in cmd.options THEN cmd.linked \cap unfolded ELSE {}

Commit ==
    /\ cmd.pc = "row" /\ cmd.todo = <<>>
    /\ keys' = Keys
    /\ accts' = Accts
    /\ pending' = Pending
    /\ links' = Links
    /\ unfolded' = unfolded \ Resealed
    /\ rows' = [k \in StorageKeys |->
                  IF k \in Resealed THEN rows[k] \cup {Row(None, "setting", Now, FALSE)} ELSE rows[k]]
    /\ last' = IF cmd.alone THEN <<cmd.mapping, cmd.options>> ELSE <<>>
    /\ cmd' = Idle
    /\ draft' = NoDraft
    /\ UNCHANGED <<inflight, fresh, time, gone, owed>>

\* A conflict, --dry-run at the end, a database error, or the operator's ^C.
Rollback ==
    /\ cmd.pc # "idle"
    /\ cmd' = Idle
    /\ draft' = NoDraft
    /\ UNCHANGED <<database, inflight, fresh, time, gone, owed, last>>

Command ==
    \/ \E m \in Mappings, o \in Options : Begin(m, o)
    \/ Unmatched \/ UnknownOrAmbiguous \/ AlreadyLinked \/ HeldByAnother \/ NotHeld
    \/ CopyFence \/ Detach \/ Attach \/ Merge \/ Insert \/ Commit \/ Rollback
-----------------------------------------------------------------------------
(***************************************************************************)
(* The API meanwhile                                                       *)
(***************************************************************************)
Served == last' = <<>> /\ cmd' = [cmd EXCEPT !.alone = FALSE]

Locked(a) == a \in DOMAIN draft.keys \cup DOMAIN draft.accts \cup DOMAIN draft.pending

\* Once the command has copied a row's fence, only what is kept for a first
\* sighting is still owed.
Owe(a, fences) ==
    owed' = [owed EXCEPT ![a] = IF a \in cmd.copied THEN @ \cap Over(draft.pending, pending')[a]
                                ELSE @ \cup fences]

\* purge_account: the data goes with the links, the tombstone stays.
Purge(a) ==
    LET k == keys[a].key IN
    /\ rows' = [rows EXCEPT ![k] = {}]
    /\ links' = [p \in Principals |-> IF KeyOf[p] = k THEN NoLink ELSE links[p]]
    /\ accts' = [accts EXCEPT ![a].fence = Fences]
    /\ pending' = [pending EXCEPT ![a] = {}]
    /\ unfolded' = unfolded \ {k}

\* ensure: the first sighting makes the key and takes over what was kept for it.
Sight(a) ==
    /\ ~Locked(a)
    /\ keys[a] = NoKey => fresh[a] < MaxFresh
    /\ keys' = IF keys[a] = NoKey
               THEN [keys EXCEPT ![a] = [key |-> <<a, fresh[a] + 1>>, source |-> "sign_in"]] ELSE keys
    /\ fresh' = IF keys[a] = NoKey THEN [fresh EXCEPT ![a] = @ + 1] ELSE fresh
    /\ \/ /\ "deleted" \in pending[a]
          /\ \A p \in DOMAIN draft.links : KeyOf[p] # keys'[a].key
          /\ rows' = [rows EXCEPT ![keys'[a].key] = {}]
          /\ unfolded' = unfolded \ {keys'[a].key}
          /\ links' = [p \in Principals |-> IF KeyOf[p] = keys'[a].key THEN NoLink ELSE links[p]]
          /\ accts' = [accts EXCEPT ![a] = [fence |-> Fences, changed |-> 0]]
       \/ /\ "deleted" \notin pending[a]
          /\ accts' = [accts EXCEPT ![a] =
                IF accts[a] = NoAccount THEN [fence |-> pending[a], changed |-> 0]
                ELSE [accts[a] EXCEPT !.fence = accts[a].fence \cup pending[a]]]
          /\ UNCHANGED <<rows, links, unfolded>>
    /\ pending' = [pending EXCEPT ![a] = {}]
    /\ Owe(a, {})
    /\ Served
    /\ UNCHANGED <<draft, inflight, time, gone>>

Fence(a) == pending[a] \cup (accts[a].fence \cap Fences)

\* A request resolves its account's key, and writes under it some time later.
Resolve(a) ==
    /\ keys[a] # NoKey /\ inflight[a] = None
    /\ "deleted" \notin Fence(a)
    /\ inflight' = [inflight EXCEPT ![a] = keys[a].key]
    /\ Served
    /\ UNCHANGED <<database, draft, fresh, time, gone, owed>>

Written == UNION {{r \in rows[k] : r.by # None} : k \in StorageKeys}

Write(a, kind) ==
    LET k == inflight[a] IN
    /\ k # None
    /\ Cardinality(Written) < MaxWrites
    /\ rows' = [rows EXCEPT ![k] = @ \cup
          {Row(a, kind, ApiNow, \/ keys[a].key # k \/ "deleted" \in Fence(a)
                                \/ cmd.pc # "idle" /\ k \in cmd.checked)}]
    /\ unfolded' \in (IF kind = "data" THEN {unfolded, unfolded \ {k}} ELSE {unfolded})
    /\ inflight' = [inflight EXCEPT ![a] = None]
    /\ Served
    /\ UNCHANGED <<keys, accts, pending, links, draft, fresh, time, gone, owed>>

\* account.id_changed, custodian_changed
ChangeId(a) ==
    /\ accts[a] # NoAccount /\ a \notin DOMAIN draft.accts /\ "deleted" \notin accts[a].fence
    /\ accts' = [accts EXCEPT ![a].changed = ApiNow]
    /\ Served
    /\ UNCHANGED <<keys, pending, links, rows, unfolded, draft, inflight, fresh, time, gone, owed>>

\* end_sign_ins: on the account's row, or kept for its first sighting.
SignOut(a) ==
    /\ \/ /\ accts[a] # NoAccount /\ a \notin DOMAIN draft.accts
          /\ accts' = [accts EXCEPT ![a].fence = @ \cup {"signed_out"}]
          /\ UNCHANGED pending
       \/ /\ accts[a] = NoAccount /\ ~Locked(a)
          /\ pending' = [pending EXCEPT ![a] = @ \cup {"signed_out"}]
          /\ UNCHANGED accts
    /\ Owe(a, {"signed_out"})
    /\ Served
    /\ UNCHANGED <<keys, links, rows, unfolded, draft, inflight, fresh, time, gone>>

\* delete_account
Delete(a) ==
    /\ ~Locked(a)
    /\ \/ /\ keys[a] # NoKey
          /\ \A p \in DOMAIN draft.links : KeyOf[p] # keys[a].key
          /\ Purge(a)
       \/ /\ keys[a] = NoKey
          /\ pending' = [pending EXCEPT ![a] = Fences]
          /\ UNCHANGED <<accts, links, rows, unfolded>>
    /\ gone' = gone \cup {a}
    /\ Owe(a, Fences)
    /\ Served
    /\ UNCHANGED <<keys, draft, inflight, fresh, time>>

Api(a) ==
    \/ Sight(a) \/ Resolve(a) \/ ChangeId(a) \/ SignOut(a) \/ Delete(a)
    \/ \E kind \in {"data", "report"} : Write(a, kind)

LinksNext == Command \/ \E a \in Accounts : Api(a)

LinksSpec == LinksInit /\ [][LinksNext]_linkVars
-----------------------------------------------------------------------------
(***************************************************************************)
(* Properties                                                              *)
(***************************************************************************)

\* operator.rs: --relink "cannot transfer that activity", and --merge is refused
\* when the new key has data.  What an account's request has written stays under
\* the account's own key through any sequence of linking, relinking and merging;
\* not so what it writes after its deletion or under a key that a command has
\* already examined, and bug reports under a legacy key (used_since_link leaves
\* them out).
ActivityStays ==
    \A k \in StorageKeys : \A r \in rows[k] :
        r.by # None /\ ~r.late /\ (r.kind = "report" => k \notin LegacyKeys) => keys[r.by].key = k

\* operator.rs, link_one: "Keep the old identity's revocation/deletion fence even
\* though its storage mapping is being corrected": a sign-out or deletion that
\* was received stands through relinking and the next first sighting, unless the
\* account's row received it between the statement that copies the fence and the
\* one that deletes the row.
FencesSurvive == \A a \in Accounts : owed[a] \subseteq Fence(a)

\* operator.rs: "Re-running is a no-op": the same file, run again with the same
\* options and with nothing in between, finds no conflict and changes nothing.
RerunIsNoOp ==
    [][last = <<cmd.mapping, cmd.options>> /\ last' # <<>> =>
        cmd'.pc # "conflict" /\ UNCHANGED database]_linkVars
=============================================================================
