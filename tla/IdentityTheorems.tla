--------------------------- MODULE IdentityTheorems ---------------------------
(***************************************************************************)
(* Proofs about IdentityLinks: through any sequence of linking, relinking  *)
(* and merging, and whatever the API does meanwhile, an account's activity *)
(* stays under its own key and the fences it is owed stand.                *)
(*                                                                         *)
(* Sound(...) is said twice: of the tables as they are committed and as    *)
(* the command sees them through its draft.  A step of the API changes     *)
(* both in the same way, one of the command only the second, and a commit  *)
(* makes the second the first.                                             *)
(***************************************************************************)
EXTENDS IdentityLinks, WellFoundedInduction, TLAPS

KeyRows == [key : StorageKeys \cup {None}, source : {"none", "sign_in", "link_identities"}]
AccountRows == {NoAccount} \cup [fence : SUBSET Fences, changed : Nat]
LinkRows == [row : BOOLEAN, account : Accounts \cup {None}, at : Nat]
DataRows == [by : Accounts \cup {None}, kind : {"data", "report", "setting"}, time : Nat,
             late : BOOLEAN]
FileRows == [principal : Principals, account : Accounts]

\* The functions on some of a set.
Partial(S, T) == UNION {[D -> T] : D \in SUBSET S}

DraftTypes == [keys : Partial(Accounts, KeyRows), accts : Partial(Accounts, AccountRows),
               pending : Partial(Accounts, SUBSET Fences), links : Partial(Principals, LinkRows)]

CommandTypes ==
    [pc : {"idle", "row", "copy", "detach", "attach", "merge", "insert", "conflict"},
     todo : Seq(FileRows), options : SUBSET {"merge", "relink", "vault"},
     holder : Accounts \cup {None}, sources : Partial(Accounts, LegacyKeys),
     linked : SUBSET StorageKeys, checked : SUBSET StorageKeys, copied : SUBSET Accounts,
     alone : BOOLEAN, mapping : Seq(FileRows)]

TablesTyped(k, ac, pe, l, r, o, t) ==
    /\ k \in [Accounts -> KeyRows]
    /\ ac \in [Accounts -> AccountRows]
    /\ pe \in [Accounts -> SUBSET Fences]
    /\ l \in [Principals -> LinkRows]
    /\ r \in [StorageKeys -> SUBSET DataRows]
    /\ o \in [Accounts -> SUBSET Fences]
    /\ t \in Nat

LinksTypes ==
    /\ TablesTyped(keys, accts, pending, links, rows, owed, time)
    /\ draft \in DraftTypes
    /\ cmd \in CommandTypes
    /\ inflight \in [Accounts -> StorageKeys \cup {None}]
    /\ fresh \in [Accounts -> Nat]
-----------------------------------------------------------------------------
(***************************************************************************)
(* What is sound                                                           *)
(***************************************************************************)

\* A key has one account, ...
OneHolder(k) == \A a, b \in Accounts : k[a].key = k[b].key /\ k[a].key # None => a = b

\* ... a fresh one the account it was made for, ...
OwnKeys(k) == \A a \in Accounts : k[a] = NoKey \/ k[a].key \in LegacyKeys \cup FreshKeys(a)

\* ... a row that an account has written is under its key, ...
StaysUnder(k, r) ==
    \A s \in StorageKeys : \A x \in r[s] :
        x.by # None /\ ~x.late /\ (x.kind = "report" => s \notin LegacyKeys) => k[x.by].key = s

\* ... a linked account has a link of its key, unless it is deleted, and one that
\* is earlier than all it has done, ...
FenceOf(a, ac, pe) == pe[a] \cup (ac[a].fence \cap Fences)

HasLink(a, k, l) == \E p \in Principals : KeyOf[p] = k[a].key /\ l[p].account = a
LinkedBefore(a, at, k, l) ==
    \E p \in Principals : KeyOf[p] = k[a].key /\ l[p].account = a /\ l[p].at < at

LinksKept(k, ac, pe, l, r) ==
    \A a \in Accounts : k[a].source = "link_identities" =>
        /\ k[a].key # None
        /\ HasLink(a, k, l) \/ "deleted" \in FenceOf(a, ac, pe)
        /\ \A x \in r[k[a].key] :
             x.by = a /\ ~x.late /\ x.kind # "report" => LinkedBefore(a, x.time, k, l)

\* ... the fences that are owed hold, and nothing is linked in the future.
FencesHold(ac, pe, o) == \A a \in Accounts : o[a] \subseteq FenceOf(a, ac, pe)
LinkTimes(l, t) == \A p \in Principals : l[p].at <= 2 * t

Sound(k, ac, pe, l, r, o, t) ==
    /\ TablesTyped(k, ac, pe, l, r, o, t)
    /\ OneHolder(k)
    /\ OwnKeys(k)
    /\ StaysUnder(k, r)
    /\ LinksKept(k, ac, pe, l, r)
    /\ FencesHold(ac, pe, o)
    /\ LinkTimes(l, t)

Committed == Sound(keys, accts, pending, links, rows, owed, time)
Seen == Sound(Keys, Accts, Pending, Links, rows, owed, time)

\* What the draft says of the rows that it replaces.
DraftFits ==
    /\ cmd.pc = "idle" => draft = NoDraft /\ cmd.copied = {}
    /\ \A a \in DOMAIN draft.keys : keys[a].key \in cmd.checked \cup {None}
    /\ \A a \in Accounts \ DOMAIN draft.keys :
         FenceOf(a, Accts, Pending) \subseteq FenceOf(a, accts, pending)
    /\ \A a \in cmd.copied : owed[a] \subseteq Pending[a]

\* The row of the file at which the command is.
RowFits ==
    /\ cmd.pc \in {"copy", "detach", "attach", "merge", "insert"} => cmd.todo # <<>>
    /\ cmd.pc \in {"copy", "detach"} =>
         /\ cmd.holder \in Accounts
         /\ Keys[cmd.holder].key = LegacyKey
         /\ LegacyKey \in cmd.checked
         /\ \A x \in rows[LegacyKey] : x.by = cmd.holder /\ ~x.late => x.kind = "report"
    /\ cmd.pc = "detach" => cmd.holder \in cmd.copied
    /\ cmd.pc \in {"attach", "merge", "insert"} => \A a \in Accounts : Keys[a].key # LegacyKey
    /\ cmd.pc = "merge" =>
         /\ Keys[Target].key \in cmd.checked
         /\ \A x \in rows[Keys[Target].key] : x.late

\* The inductive invariant.
LinksInv ==
    /\ LinksTypes
    /\ Committed
    /\ Seen
    /\ DraftFits
    /\ RowFits

USE LinksAssumption
-----------------------------------------------------------------------------
(***************************************************************************)
(* A table under the rows a transaction has written                        *)
(***************************************************************************)

\* Membership in Partial.
LEMMA PartialOn ==
  ASSUME NEW S, NEW T, NEW f
  PROVE  f \in Partial(S, T) <=> DOMAIN f \subseteq S /\ f \in [DOMAIN f -> T]
  BY DEF Partial

\* A table under some rows has them, and otherwise its own.
LEMMA OverTable ==
  ASSUME NEW S, NEW T, NEW f \in [S -> T], NEW w \in Partial(S, T)
  PROVE  /\ Over(w, f) \in [S -> T]
         /\ \A x \in S : Over(w, f)[x] = IF x \in DOMAIN w THEN w[x] ELSE f[x]
  BY PartialOn DEF Over

\* One more row is written.
LEMMA PutPartial ==
  ASSUME NEW S, NEW T, NEW w \in Partial(S, T), NEW x \in S, NEW v \in T
  PROVE  /\ Put(w, x, v) \in Partial(S, T)
         /\ DOMAIN Put(w, x, v) = DOMAIN w \cup {x}
  <1>1. Put(w, x, v) \in [DOMAIN w \cup {x} -> T]
    BY PartialOn DEF Put
  <1> QED BY <1>1, PartialOn
-----------------------------------------------------------------------------
(***************************************************************************)
(* What keeps the tables sound                                             *)
(***************************************************************************)

\* The fields of the rows.
LEMMA RowFields ==
  /\ \A x \in KeyRows : x.key \in StorageKeys \cup {None}
                        /\ x.source \in {"none", "sign_in", "link_identities"}
  /\ \A x \in AccountRows : (x.fence = {"no_row"} \/ x.fence \subseteq Fences) /\ x.changed \in Nat
  /\ \A x \in LinkRows : x.account \in Accounts \cup {None} /\ x.at \in Nat
  /\ \A x \in DataRows : x.by \in Accounts \cup {None} /\ x.late \in BOOLEAN /\ x.time \in Nat
  BY DEF KeyRows, AccountRows, LinkRows, DataRows, NoAccount

\* An account's row has two fields.
LEMMA AccountRow ==
  ASSUME NEW r \in AccountRows
  PROVE  /\ r.changed \in Nat
         /\ \A f : [r EXCEPT !.fence = f] = [fence |-> f, changed |-> r.changed]
  <1>1. CASE r = NoAccount
    BY <1>1 DEF NoAccount
  <1>2. CASE r \in [fence : SUBSET Fences, changed : Nat]
    BY <1>2
  <1> QED BY <1>1, <1>2 DEF AccountRows

\* Accounts do not share fresh keys.
LEMMA FreshDiffers ==
  ASSUME NEW a, NEW b, a # b, NEW s \in FreshKeys(a), s \in FreshKeys(b) PROVE FALSE
  BY DEF FreshKeys

\* An account without a key receives a fresh one.
LEMMA KeyMadeSound ==
  ASSUME NEW k, NEW ac, NEW pe, NEW l, NEW r, NEW o, NEW t, Sound(k, ac, pe, l, r, o, t),
         NEW a \in Accounts, k[a].key = None, NEW s \in FreshKeys(a)
  PROVE  Sound([k EXCEPT ![a] = [key |-> s, source |-> "sign_in"]], ac, pe, l, r, o, t)
  <1> DEFINE n == [k EXCEPT ![a] = [key |-> s, source |-> "sign_in"]]
  <1>0. TablesTyped(k, ac, pe, l, r, o, t)
    BY DEF Sound
  <1>1. s \in StorageKeys /\ s # None
    BY DEF StorageKeys
  <1>2. n \in [Accounts -> KeyRows] /\ n[a].key = s /\ n[a].source = "sign_in"
        /\ \A b \in Accounts \ {a} : n[b] = k[b]
    BY <1>0, <1>1 DEF TablesTyped, KeyRows
  <1> HIDE DEF n
  <1>3. \A b \in Accounts \ {a} : k[b].key # s
    BY <1>1, FreshDiffers DEF Sound, OwnKeys, NoKey
  <1>4. OneHolder(n)
    BY <1>2, <1>3 DEF Sound, OneHolder
  <1>5. OwnKeys(n)
    BY <1>2 DEF Sound, OwnKeys
  <1>6. StaysUnder(n, r)
    <2> SUFFICES ASSUME NEW q \in StorageKeys, NEW x \in r[q], x.by # None, ~x.late,
                        x.kind = "report" => q \notin LegacyKeys
                 PROVE  n[x.by].key = q
      BY DEF StaysUnder
    <2>1. x.by \in Accounts
      BY <1>0, RowFields DEF TablesTyped
    <2>2. k[x.by].key = q
      BY DEF Sound, StaysUnder
    <2> QED BY <1>2, <2>1, <2>2
  <1>7. LinksKept(n, ac, pe, l, r)
    BY <1>2 DEF Sound, LinksKept, HasLink, LinkedBefore
  <1> QED BY <1>0, <1>2, <1>4, <1>5, <1>6, <1>7 DEF Sound, TablesTyped, n

\* Fences are added or moved, and what is owed to one account is among them.
LEMMA FenceSound ==
  ASSUME NEW k, NEW ac, NEW pe, NEW l, NEW r, NEW o, NEW t, Sound(k, ac, pe, l, r, o, t),
         NEW a \in Accounts, NEW x \in AccountRows, NEW y \in SUBSET Fences,
         NEW w \in SUBSET Fences,
         FenceOf(a, ac, pe) \subseteq y \cup (x.fence \cap Fences),
         w \subseteq y \cup (x.fence \cap Fences)
  PROVE  Sound(k, [ac EXCEPT ![a] = x], [pe EXCEPT ![a] = y], l, r, [o EXCEPT ![a] = w], t)
  <1> DEFINE nac == [ac EXCEPT ![a] = x]
             npe == [pe EXCEPT ![a] = y]
             no == [o EXCEPT ![a] = w]
  <1>0. TablesTyped(k, ac, pe, l, r, o, t)
    BY DEF Sound
  <1>1. /\ nac \in [Accounts -> AccountRows] /\ npe \in [Accounts -> SUBSET Fences]
        /\ no \in [Accounts -> SUBSET Fences]
        /\ nac[a] = x /\ npe[a] = y /\ no[a] = w
        /\ \A b \in Accounts \ {a} : nac[b] = ac[b] /\ npe[b] = pe[b] /\ no[b] = o[b]
    BY <1>0 DEF TablesTyped
  <1> HIDE DEF nac, npe, no
  <1>2. /\ FenceOf(a, nac, npe) = y \cup (x.fence \cap Fences)
        /\ \A b \in Accounts \ {a} : FenceOf(b, nac, npe) = FenceOf(b, ac, pe)
    BY <1>1 DEF FenceOf
  <1>3. LinksKept(k, nac, npe, l, r)
    BY <1>2 DEF Sound, LinksKept
  <1>4. FencesHold(nac, npe, no)
    BY <1>1, <1>2 DEF Sound, FencesHold
  <1> QED BY <1>0, <1>1, <1>3, <1>4 DEF Sound, TablesTyped, nac, npe, no

\* Rows go, and rows come: of nobody, late, or of an account that holds the key,
\* is not deleted and writes after every link.
LEMMA RowsSound ==
  ASSUME NEW k, NEW ac, NEW pe, NEW l, NEW r, NEW o, NEW t, Sound(k, ac, pe, l, r, o, t),
         NEW n \in [StorageKeys -> SUBSET DataRows],
         \A s \in StorageKeys : \A x \in n[s] :
            \/ x \in r[s] \/ x.by = None \/ x.late
            \/ k[x.by].key = s /\ "deleted" \notin FenceOf(x.by, ac, pe) /\ x.time = 2 * t + 1
  PROVE  Sound(k, ac, pe, l, n, o, t)
  <1>0. TablesTyped(k, ac, pe, l, r, o, t)
    BY DEF Sound
  <1>1. StaysUnder(k, n)
    BY DEF Sound, StaysUnder
  <1>2. LinksKept(k, ac, pe, l, n)
    <2> SUFFICES ASSUME NEW a \in Accounts, k[a].source = "link_identities",
                        NEW x \in n[k[a].key], x.by = a, ~x.late, x.kind # "report"
                 PROVE  LinkedBefore(a, x.time, k, l)
      BY DEF Sound, LinksKept
    <2>0. k[a].key \in StorageKeys /\ a # None
      BY <1>0, RowFields DEF Sound, LinksKept, TablesTyped
    <2>1. CASE x \in r[k[a].key]
      BY <2>1 DEF Sound, LinksKept
    <2>2. CASE "deleted" \notin FenceOf(a, ac, pe) /\ x.time = 2 * t + 1
      <3>1. PICK p \in Principals : KeyOf[p] = k[a].key /\ l[p].account = a
        BY <2>2 DEF Sound, LinksKept, HasLink
      <3>2. l[p].at \in Nat /\ l[p].at <= 2 * t /\ t \in Nat
        BY <1>0, RowFields DEF Sound, LinkTimes, TablesTyped
      <3>3. l[p].at < x.time
        BY <2>2, <3>2
      <3> QED BY <3>1, <3>3 DEF LinkedBefore
    <2> QED BY <2>0, <2>1, <2>2
  <1> QED BY <1>0, <1>1, <1>2 DEF Sound, TablesTyped

\* The links without those of a key.
Purged(l, s) == [p \in Principals |-> IF KeyOf[p] = s THEN NoLink ELSE l[p]]

\* A deleted account's key loses its rows and its links.
LEMMA PurgedSound ==
  ASSUME NEW k, NEW ac, NEW pe, NEW l, NEW r, NEW o, NEW t, Sound(k, ac, pe, l, r, o, t),
         NEW a \in Accounts, k[a].key # None, "deleted" \in FenceOf(a, ac, pe)
  PROVE  Sound(k, ac, pe, Purged(l, k[a].key), [r EXCEPT ![k[a].key] = {}], o, t)
  <1> DEFINE n == [r EXCEPT ![k[a].key] = {}]
             m == Purged(l, k[a].key)
  <1>0. TablesTyped(k, ac, pe, l, r, o, t)
    BY DEF Sound
  <1>1. n \in [StorageKeys -> SUBSET DataRows] /\ \A s \in StorageKeys : n[s] \subseteq r[s]
    BY <1>0 DEF TablesTyped
  <1>2. n[k[a].key] = {}
    BY <1>0, RowFields DEF TablesTyped
  <1>3. m \in [Principals -> LinkRows]
        /\ \A p \in Principals : m[p] = IF KeyOf[p] = k[a].key THEN NoLink ELSE l[p]
    <2>1. NoLink \in LinkRows
      BY DEF NoLink, LinkRows
    <2> QED BY <1>0, <2>1 DEF TablesTyped, Purged
  <1> HIDE DEF n, m
  <1>4. Sound(k, ac, pe, l, n, o, t)
    BY <1>1, RowsSound
  <1>5. LinksKept(k, ac, pe, m, n)
    <2> SUFFICES ASSUME NEW b \in Accounts, k[b].source = "link_identities"
                 PROVE  /\ k[b].key # None
                        /\ HasLink(b, k, m) \/ "deleted" \in FenceOf(b, ac, pe)
                        /\ \A x \in n[k[b].key] : x.by = b /\ ~x.late /\ x.kind # "report"
                             => LinkedBefore(b, x.time, k, m)
      BY DEF LinksKept
    <2>0. /\ k[b].key # None
          /\ HasLink(b, k, l) \/ "deleted" \in FenceOf(b, ac, pe)
          /\ \A x \in n[k[b].key] : x.by = b /\ ~x.late /\ x.kind # "report"
               => LinkedBefore(b, x.time, k, l)
      BY <1>4 DEF Sound, LinksKept
    <2>1. CASE b = a
      BY <1>2, <2>0, <2>1
    <2>2. CASE b # a
      <3>1. k[b].key # k[a].key
        BY <2>2 DEF Sound, OneHolder
      <3>2. HasLink(b, k, l) => HasLink(b, k, m)
        BY <1>3, <3>1 DEF HasLink
      <3>3. \A at : LinkedBefore(b, at, k, l) => LinkedBefore(b, at, k, m)
        BY <1>3, <3>1 DEF LinkedBefore
      <3> QED BY <2>0, <3>2, <3>3
    <2> QED BY <2>1, <2>2
  <1>6. LinkTimes(m, t)
    <2>1. NoLink.at = 0 /\ t \in Nat
      BY <1>0 DEF NoLink, TablesTyped
    <2> QED BY <1>3, <2>1 DEF Sound, LinkTimes
  <1> QED BY <1>3, <1>4, <1>5, <1>6 DEF Sound, TablesTyped, n, m

\* An account loses its key and its row; what it had written there is late or a
\* bug report, and what is owed to it is kept for its next sighting.
LEMMA DetachedSound ==
  ASSUME NEW k, NEW ac, NEW pe, NEW l, NEW r, NEW o, NEW t, Sound(k, ac, pe, l, r, o, t),
         NEW a \in Accounts, k[a].key \in LegacyKeys,
         \A x \in r[k[a].key] : x.by = a /\ ~x.late => x.kind = "report",
         o[a] \subseteq pe[a]
  PROVE  Sound([k EXCEPT ![a] = NoKey], [ac EXCEPT ![a] = NoAccount], pe, l, r, o, t)
  <1> DEFINE n == [k EXCEPT ![a] = NoKey]
             nac == [ac EXCEPT ![a] = NoAccount]
  <1>0. TablesTyped(k, ac, pe, l, r, o, t)
    BY DEF Sound
  <1>1. NoKey \in KeyRows /\ NoAccount \in AccountRows /\ NoKey.key = None
        /\ NoKey.source = "none"
    BY DEF NoKey, NoAccount, KeyRows, AccountRows
  <1>2. /\ n \in [Accounts -> KeyRows] /\ nac \in [Accounts -> AccountRows]
        /\ n[a] = NoKey /\ nac[a] = NoAccount
        /\ \A b \in Accounts \ {a} : n[b] = k[b] /\ nac[b] = ac[b]
    BY <1>0, <1>1 DEF TablesTyped
  <1> HIDE DEF n, nac
  <1>3. OneHolder(n)
    BY <1>1, <1>2 DEF Sound, OneHolder
  <1>4. OwnKeys(n)
    BY <1>1, <1>2 DEF Sound, OwnKeys
  <1>5. StaysUnder(n, r)
    <2> SUFFICES ASSUME NEW q \in StorageKeys, NEW x \in r[q], x.by # None, ~x.late,
                        x.kind = "report" => q \notin LegacyKeys
                 PROVE  n[x.by].key = q
      BY DEF StaysUnder
    <2>1. x.by \in Accounts
      BY <1>0, RowFields DEF TablesTyped
    <2>2. k[x.by].key = q
      BY DEF Sound, StaysUnder
    <2> QED BY <1>2, <2>1, <2>2
  <1>6. LinksKept(n, nac, pe, l, r)
    <2>1. \A b \in Accounts \ {a} : FenceOf(b, nac, pe) = FenceOf(b, ac, pe)
      BY <1>2 DEF FenceOf
    <2> QED BY <1>1, <1>2, <2>1 DEF Sound, LinksKept, HasLink, LinkedBefore
  <1>7. FencesHold(nac, pe, o)
    BY <1>2 DEF Sound, FencesHold, FenceOf
  <1> QED BY <1>0, <1>2, <1>3, <1>4, <1>5, <1>6, <1>7 DEF Sound, TablesTyped, n, nac

\* A link is marked for the only account that may hold its key.
LEMMA MarkedSound ==
  ASSUME NEW k, NEW ac, NEW pe, NEW l, NEW r, NEW o, NEW t, Sound(k, ac, pe, l, r, o, t),
         NEW a \in Accounts, NEW p \in Principals,
         \A b \in Accounts : k[b].key = KeyOf[p] => b = a,
         NEW m \in LinkRows, m.account = a, m.at <= 2 * t, l[p].account = a => m = l[p]
  PROVE  Sound(k, ac, pe, [l EXCEPT ![p] = m], r, o, t)
  <1> DEFINE n == [l EXCEPT ![p] = m]
  <1>0. TablesTyped(k, ac, pe, l, r, o, t)
    BY DEF Sound
  <1>1. n \in [Principals -> LinkRows] /\ n[p] = m /\ \A q \in Principals \ {p} : n[q] = l[q]
    BY <1>0 DEF TablesTyped
  <1> HIDE DEF n
  <1>2. ASSUME NEW b \in Accounts, NEW q \in Principals, KeyOf[q] = k[b].key, l[q].account = b
        PROVE  n[q] = l[q]
    BY <1>1, <1>2
  <1>3. \A b \in Accounts : HasLink(b, k, l) => HasLink(b, k, n)
    BY <1>2 DEF HasLink
  <1>4. \A b \in Accounts : \A at : LinkedBefore(b, at, k, l) => LinkedBefore(b, at, k, n)
    BY <1>2 DEF LinkedBefore
  <1>5. LinksKept(k, ac, pe, n, r)
    BY <1>3, <1>4 DEF Sound, LinksKept
  <1>6. LinkTimes(n, t)
    BY <1>1 DEF Sound, LinkTimes
  <1> QED BY <1>0, <1>1, <1>5, <1>6 DEF Sound, TablesTyped, n

\* An account receives a key that nobody holds and that is linked to it; what is
\* under its own key, if it had one, is late.
LEMMA LinkedSound ==
  ASSUME NEW k, NEW ac, NEW pe, NEW l, NEW r, NEW o, NEW t, Sound(k, ac, pe, l, r, o, t),
         NEW a \in Accounts, NEW p \in Principals, l[p].account = a,
         \A b \in Accounts : k[b].key # KeyOf[p],
         k[a].key # None => \A x \in r[k[a].key] : x.late
  PROVE  Sound([k EXCEPT ![a] = [key |-> KeyOf[p], source |-> "link_identities"]],
               ac, pe, l, r, o, t)
  <1> DEFINE n == [k EXCEPT ![a] = [key |-> KeyOf[p], source |-> "link_identities"]]
  <1>0. TablesTyped(k, ac, pe, l, r, o, t)
    BY DEF Sound
  <1>1. KeyOf[p] \in LegacyKeys /\ KeyOf[p] \in StorageKeys /\ KeyOf[p] # None
    BY DEF LegacyKeys, StorageKeys
  <1>2. /\ n \in [Accounts -> KeyRows] /\ n[a].key = KeyOf[p] /\ n[a].source = "link_identities"
        /\ \A b \in Accounts \ {a} : n[b] = k[b]
    BY <1>0, <1>1 DEF TablesTyped, KeyRows
  <1> HIDE DEF n
  <1>3. OneHolder(n)
    BY <1>2 DEF Sound, OneHolder
  <1>4. OwnKeys(n)
    BY <1>1, <1>2 DEF Sound, OwnKeys
  <1>5. ASSUME NEW q \in StorageKeys, NEW x \in r[q], x.by # None, ~x.late,
               x.kind = "report" => q \notin LegacyKeys
        PROVE  x.by \in Accounts \ {a} /\ n[x.by].key = q
    <2>1. x.by \in Accounts
      BY <1>0, <1>5, RowFields DEF TablesTyped
    <2>2. k[x.by].key = q
      BY <1>5 DEF Sound, StaysUnder
    <2>3. x.by # a
      BY <1>5, <2>2
    <2> QED BY <1>2, <2>1, <2>2, <2>3
  <1>6. StaysUnder(n, r)
    BY <1>5 DEF StaysUnder
  <1>7. LinksKept(n, ac, pe, l, r)
    <2>1. HasLink(a, n, l)
      BY <1>2 DEF HasLink
    <2>2. \A x \in r[n[a].key] : x.by = a /\ ~x.late => x.kind = "report"
      BY <1>1, <1>2, <1>5
    <2> QED BY <1>1, <1>2, <2>1, <2>2 DEF Sound, LinksKept, HasLink, LinkedBefore
  <1> QED BY <1>0, <1>2, <1>3, <1>4, <1>6, <1>7 DEF Sound, TablesTyped, n

\* Time goes on.
LEMMA LaterSound ==
  ASSUME NEW k, NEW ac, NEW pe, NEW l, NEW r, NEW o, NEW t, Sound(k, ac, pe, l, r, o, t)
  PROVE  Sound(k, ac, pe, l, r, o, t + 1)
  <1>1. TablesTyped(k, ac, pe, l, r, o, t)
    BY DEF Sound
  <1>2. TablesTyped(k, ac, pe, l, r, o, t + 1)
    BY <1>1 DEF TablesTyped
  <1>3. LinkTimes(l, t + 1)
    <2>1. ASSUME NEW p \in Principals PROVE l[p].at <= 2 * (t + 1)
      <3>1. l[p].at \in Nat /\ l[p].at <= 2 * t /\ t \in Nat
        BY <1>1, RowFields DEF Sound, LinkTimes, TablesTyped
      <3> QED BY <3>1
    <2> QED BY <2>1 DEF LinkTimes
  <1> QED BY <1>2, <1>3 DEF Sound
-----------------------------------------------------------------------------
(***************************************************************************)
(* What the command sees                                                   *)
(***************************************************************************)

\* The tables through the draft have the types of the tables.
LEMMA SeenTables ==
  ASSUME LinksTypes
  PROVE  /\ Keys \in [Accounts -> KeyRows]
         /\ Accts \in [Accounts -> AccountRows]
         /\ Pending \in [Accounts -> SUBSET Fences]
         /\ Links \in [Principals -> LinkRows]
         /\ \A a \in Accounts \ DOMAIN draft.keys : Keys[a] = keys[a]
         /\ \A a \in Accounts \ DOMAIN draft.accts : Accts[a] = accts[a]
         /\ \A a \in Accounts \ DOMAIN draft.pending : Pending[a] = pending[a]
  <1>0. /\ draft.keys \in Partial(Accounts, KeyRows)
        /\ draft.accts \in Partial(Accounts, AccountRows)
        /\ draft.pending \in Partial(Accounts, SUBSET Fences)
        /\ draft.links \in Partial(Principals, LinkRows)
        /\ TablesTyped(keys, accts, pending, links, rows, owed, time)
    BY DEF LinksTypes, DraftTypes
  <1>1. /\ keys \in [Accounts -> KeyRows] /\ accts \in [Accounts -> AccountRows]
        /\ pending \in [Accounts -> SUBSET Fences] /\ links \in [Principals -> LinkRows]
    BY <1>0 DEF TablesTyped
  <1>2. Keys \in [Accounts -> KeyRows] /\ \A a \in Accounts \ DOMAIN draft.keys : Keys[a] = keys[a]
    BY <1>0, <1>1, OverTable DEF Keys
  <1>3. /\ Accts \in [Accounts -> AccountRows]
        /\ \A a \in Accounts \ DOMAIN draft.accts : Accts[a] = accts[a]
    BY <1>0, <1>1, OverTable DEF Accts
  <1>4. /\ Pending \in [Accounts -> SUBSET Fences]
        /\ \A a \in Accounts \ DOMAIN draft.pending : Pending[a] = pending[a]
    BY <1>0, <1>1, OverTable DEF Pending
  <1>5. Links \in [Principals -> LinkRows]
    BY <1>0, <1>1, OverTable DEF Links
  <1> QED BY <1>2, <1>3, <1>4, <1>5

\* A non-empty set of naturals has a least element.
LEMMA LeastNatural ==
  ASSUME NEW S \in SUBSET Nat, NEW x \in S
  PROVE  \E y \in S : \A z \in S : y <= z
  <1>1. PICK y \in S : \A z \in S : ~(<<z, y>> \in OpToRel(<, Nat))
    BY WFMin, NatLessThanWellFounded
  <1>2. ASSUME NEW z \in S PROVE y <= z
    <2>1. ~(<<z, y>> \in OpToRel(<, Nat))
      BY <1>1
    <2>2. ~(z < y)
      BY <2>1 DEF OpToRel
    <2> QED BY <2>2
  <1> QED BY <1>2

\* An account that has done something under a linked key has used it since the link.
LEMMA ActivityIsUse ==
  ASSUME LinksTypes, Seen, NEW a \in Accounts, Keys[a].source = "link_identities",
         ~UsedSinceLink(Keys[a].key, a),
         NEW x \in rows[Keys[a].key], x.by = a, ~x.late
  PROVE  x.kind = "report"
  <1> SUFFICES ASSUME x.kind # "report" PROVE FALSE
    OBVIOUS
  <1>0. Links \in [Principals -> LinkRows]
    BY SeenTables
  <1> DEFINE Mine == {q \in Principals : KeyOf[q] = Keys[a].key /\ Links[q].account = a}
             Times == {Links[q].at : q \in Mine}
  <1>1. PICK p \in Principals :
            KeyOf[p] = Keys[a].key /\ Links[p].account = a /\ Links[p].at < x.time
    BY DEF Seen, Sound, LinksKept, LinkedBefore
  <1>2. Times \in SUBSET Nat /\ Links[p].at \in Times
    BY <1>0, <1>1, RowFields
  <1>3. PICK first \in Times : \A z \in Times : first <= z
    <2> HIDE DEF Times
    <2> QED BY <1>2, LeastNatural
  <1>4. PICK q \in Mine : Links[q].at = first
    BY <1>3
  <1>5. q \in FirstLink(Keys[a].key, a)
    <2>1. \A z \in Mine : Links[z].at \in Nat /\ first \in Nat /\ first <= Links[z].at
      BY <1>2, <1>3
    <2> QED BY <1>4, <2>1 DEF FirstLink
  <1>6. x.time > Links[q].at
    <2>1. x.time \in Nat
      BY SeenTables, RowFields DEF Seen, Sound, TablesTyped, LinksKept
    <2>2. first \in Nat /\ Links[p].at \in Nat /\ first <= Links[p].at
      BY <1>2, <1>3
    <2> QED BY <1>1, <1>4, <2>1, <2>2
  <1> QED BY <1>5, <1>6 DEF UsedSinceLink
-----------------------------------------------------------------------------
(***************************************************************************)
(* Steps of the command                                                    *)
(***************************************************************************)

\* The parts of the invariant.
LEMMA InvParts ==
  ASSUME LinksInv
  PROVE  /\ LinksTypes /\ Committed /\ Seen /\ DraftFits /\ RowFits
         /\ cmd \in CommandTypes /\ draft \in DraftTypes
         /\ TablesTyped(keys, accts, pending, links, rows, owed, time)
  BY DEF LinksInv, LinksTypes

\* The row of the file is of the file's type.
LEMMA FileRow ==
  ASSUME cmd \in CommandTypes, cmd.todo # <<>>
  PROVE  /\ Principal \in Principals /\ Target \in Accounts
         /\ LegacyKey \in LegacyKeys /\ LegacyKey \in StorageKeys /\ LegacyKey # None
         /\ Tail(cmd.todo) \in Seq(FileRows)
  <1>1. cmd.todo \in Seq(FileRows)
    BY DEF CommandTypes
  <1>2. Head(cmd.todo) \in FileRows /\ Tail(cmd.todo) \in Seq(FileRows)
    BY <1>1
  <1>3. Principal \in Principals /\ Target \in Accounts
    BY <1>2 DEF FileRows, Principal, Target
  <1>4. LegacyKey \in LegacyKeys
    BY <1>3 DEF LegacyKey, LegacyKeys
  <1> QED BY <1>2, <1>3, <1>4 DEF StorageKeys

\* Nothing is written: the command only goes on.
LEMMA QuietStep ==
  ASSUME LinksInv, UNCHANGED <<Tables, draft, Rest>>, cmd' \in CommandTypes, cmd'.pc # "idle",
         cmd'.copied = cmd.copied, cmd.checked \subseteq cmd'.checked
  PROVE  LinksTypes' /\ Committed' /\ Seen' /\ DraftFits' /\ UNCHANGED <<Keys, Accts, Pending, Links>>
  <1>0. LinksTypes /\ Committed /\ Seen /\ DraftFits
    BY InvParts
  <1>1. /\ UNCHANGED <<keys, accts, pending, links, rows, owed, time>>
        /\ UNCHANGED <<draft, inflight, fresh>>
    BY DEF Tables, Rest
  <1>2. UNCHANGED <<Keys, Accts, Pending, Links>>
    BY <1>1 DEF Keys, Accts, Pending, Links
  <1>3. LinksTypes'
    BY <1>0, <1>1 DEF LinksTypes, TablesTyped
  <1>4. Committed' /\ Seen'
    BY <1>0, <1>1, <1>2 DEF Committed, Seen
  <1>5. DraftFits'
    <2>1. \A a : FenceOf(a, Accts, Pending)' = FenceOf(a, Accts, Pending)
               /\ FenceOf(a, accts, pending)' = FenceOf(a, accts, pending)
      BY <1>1, <1>2 DEF FenceOf
    <2> QED BY <1>0, <1>1, <1>2, <2>1 DEF DraftFits
  <1> QED BY <1>2, <1>3, <1>4, <1>5

\* A principal without data is passed over, and a conflict ends the run.
LEMMA UnmatchedInv == ASSUME LinksInv, Unmatched \/ UnknownOrAmbiguous PROVE LinksInv'
  <1>0. cmd \in CommandTypes
    BY InvParts
  <1>1. cmd' \in CommandTypes /\ cmd'.pc \in {"row", "conflict"}
        /\ cmd'.copied = cmd.copied /\ cmd'.checked = cmd.checked
    <2>1. CASE Unmatched
      BY <1>0, <2>1, FileRow DEF Unmatched, AtRow, CommandTypes
    <2>2. CASE UnknownOrAmbiguous
      BY <1>0, <2>2 DEF UnknownOrAmbiguous, Go, CommandTypes
    <2> QED BY <2>1, <2>2
  <1>2. UNCHANGED <<Tables, draft, Rest>>
    BY DEF Unmatched, UnknownOrAmbiguous
  <1>3. LinksTypes' /\ Committed' /\ Seen' /\ DraftFits'
    BY <1>1, <1>2, QuietStep
  <1>4. RowFits'
    BY <1>1 DEF RowFits
  <1> QED BY <1>3, <1>4 DEF LinksInv

\* Another account holds the key, which it has not used since the link.
LEMMA HeldByAnotherInv == ASSUME LinksInv, HeldByAnother PROVE LinksInv'
  <1>0. cmd \in CommandTypes /\ LinksTypes /\ Seen /\ cmd.todo # <<>>
    BY InvParts DEF HeldByAnother, Matched, AtRow
  <1>1. PICK other \in Holders(LegacyKey) \ {Target} :
            IF "relink" \in cmd.options /\ Keys[other].source = "link_identities"
                 /\ ~UsedSinceLink(LegacyKey, other)
            THEN cmd' = [cmd EXCEPT !.pc = "copy", !.holder = other,
                                    !.checked = @ \cup {LegacyKey},
                                    !.sources = Put(@, Target, LegacyKey)]
            ELSE Go("conflict")
    BY DEF HeldByAnother
  <1>2. UNCHANGED <<Tables, draft, Rest>>
    BY DEF HeldByAnother
  <1>3. other \in Accounts /\ Keys[other].key = LegacyKey
    BY DEF Holders
  <1>4. CASE cmd' = [cmd EXCEPT !.pc = "conflict"]
    <2>1. cmd' \in CommandTypes /\ cmd'.pc = "conflict" /\ cmd'.copied = cmd.copied
          /\ cmd'.checked = cmd.checked
      BY <1>0, <1>4 DEF CommandTypes
    <2> QED BY <1>2, <2>1, QuietStep DEF LinksInv, RowFits
  <1>5. CASE /\ Keys[other].source = "link_identities" /\ ~UsedSinceLink(LegacyKey, other)
             /\ cmd' = [cmd EXCEPT !.pc = "copy", !.holder = other,
                                   !.checked = @ \cup {LegacyKey},
                                   !.sources = Put(@, Target, LegacyKey)]
    <2>0. Put(cmd.sources, Target, LegacyKey) \in Partial(Accounts, LegacyKeys)
      BY <1>0, FileRow, PutPartial DEF CommandTypes
    <2>1. /\ cmd' \in CommandTypes /\ cmd'.pc = "copy" /\ cmd'.copied = cmd.copied
          /\ cmd'.checked = cmd.checked \cup {LegacyKey} /\ cmd'.holder = other
          /\ cmd'.todo = cmd.todo
      BY <1>0, <1>3, <1>5, <2>0, FileRow DEF CommandTypes
    <2>2. LinksTypes' /\ Committed' /\ Seen' /\ DraftFits' /\ Keys' = Keys
      BY <1>2, <2>1, QuietStep
    <2>3. rows' = rows /\ LegacyKey' = LegacyKey
      BY <1>2, <2>1 DEF Rest, LegacyKey, Principal
    <2>4. \A x \in rows[LegacyKey] : x.by = other /\ ~x.late => x.kind = "report"
      BY <1>0, <1>3, <1>5, ActivityIsUse
    <2>5. RowFits'
      BY <1>0, <1>3, <2>1, <2>2, <2>3, <2>4 DEF RowFits
    <2> QED BY <2>2, <2>5 DEF LinksInv
  <1> QED BY <1>1, <1>4, <1>5 DEF Go

\* Nobody holds the key.
LEMMA NotHeldInv == ASSUME LinksInv, NotHeld PROVE LinksInv'
  <1>0. cmd \in CommandTypes /\ cmd.todo # <<>>
    BY InvParts DEF NotHeld, Matched, AtRow
  <1>1. Put(cmd.sources, Target, LegacyKey) \in Partial(Accounts, LegacyKeys)
    BY <1>0, FileRow, PutPartial DEF CommandTypes
  <1>2. /\ cmd' \in CommandTypes /\ cmd'.pc = "attach" /\ cmd'.copied = cmd.copied
        /\ cmd'.checked = cmd.checked /\ cmd'.todo = cmd.todo
    BY <1>0, <1>1 DEF NotHeld, CommandTypes
  <1>3. LinksTypes' /\ Committed' /\ Seen' /\ DraftFits' /\ Keys' = Keys
    BY <1>2, QuietStep DEF NotHeld
  <1>4. LegacyKey' = LegacyKey
    BY <1>2 DEF LegacyKey, Principal
  <1>5. \A a \in Accounts : Keys[a].key # LegacyKey
    BY DEF NotHeld, Holders
  <1>6. RowFits'
    BY <1>0, <1>2, <1>3, <1>4, <1>5 DEF RowFits
  <1> QED BY <1>3, <1>6 DEF LinksInv

\* The account may have a key of its own, with nothing kept under it.
LEMMA AttachInv == ASSUME LinksInv, Attach PROVE LinksInv'
  <1>0. cmd \in CommandTypes /\ cmd.todo # <<>> /\ RowFits /\ LinksTypes
        /\ \A a \in Accounts : Keys[a].key # LegacyKey
    BY InvParts DEF Attach, RowFits
  <1>1. Target \in Accounts /\ Keys[Target].key \in StorageKeys \cup {None}
    BY <1>0, FileRow, SeenTables, RowFields
  <1>2. CASE cmd' = [cmd EXCEPT !.pc = "insert"] \/ cmd' = [cmd EXCEPT !.pc = "conflict"]
    <2>1. /\ cmd' \in CommandTypes /\ cmd'.pc \in {"insert", "conflict"}
          /\ cmd'.copied = cmd.copied /\ cmd'.checked = cmd.checked /\ cmd'.todo = cmd.todo
      BY <1>0, <1>2 DEF CommandTypes
    <2>2. LinksTypes' /\ Committed' /\ Seen' /\ DraftFits' /\ Keys' = Keys
      BY <2>1, QuietStep DEF Attach
    <2>3. LegacyKey' = LegacyKey
      BY <2>1 DEF LegacyKey, Principal
    <2>4. RowFits'
      BY <1>0, <2>1, <2>2, <2>3 DEF RowFits
    <2> QED BY <2>2, <2>4 DEF LinksInv
  <1>3. CASE /\ Keys[Target].key # None /\ ~KeyHasData(Keys[Target].key)
             /\ cmd' = [cmd EXCEPT !.pc = "merge", !.checked = @ \cup {Keys[Target].key}]
    <2>1. /\ cmd' \in CommandTypes /\ cmd'.pc = "merge" /\ cmd'.copied = cmd.copied
          /\ cmd'.checked = cmd.checked \cup {Keys[Target].key} /\ cmd'.todo = cmd.todo
      BY <1>0, <1>1, <1>3 DEF CommandTypes
    <2>2. LinksTypes' /\ Committed' /\ Seen' /\ DraftFits' /\ Keys' = Keys
      BY <2>1, QuietStep DEF Attach
    <2>3. LegacyKey' = LegacyKey /\ Target' = Target /\ rows' = rows
      BY <2>1 DEF LegacyKey, Principal, Target, Attach, Rest
    <2>4. rows[Keys[Target].key] = {}
      BY <1>3 DEF KeyHasData
    <2>5. RowFits'
      BY <1>0, <2>1, <2>2, <2>3, <2>4 DEF RowFits
    <2> QED BY <2>2, <2>5 DEF LinksInv
  <1> QED BY <1>2, <1>3 DEF Attach, Go

\* What mark_link writes.
LEMMA MarkLinkFacts ==
  ASSUME LinksTypes, Seen, NEW p \in Principals, NEW a \in Accounts
  PROVE  /\ MarkLink(p, a) \in LinkRows /\ MarkLink(p, a).account = a
         /\ MarkLink(p, a).at <= 2 * time
         /\ Links[p].account = a => MarkLink(p, a) = Links[p]
  <1>1. Links[p] \in LinkRows /\ Links[p].at <= 2 * time /\ time \in Nat
    BY SeenTables DEF Seen, Sound, LinkTimes, LinksTypes, TablesTyped
  <1>2. CASE Links[p].account = a
    BY <1>1, <1>2 DEF MarkLink
  <1>3. CASE Links[p].account # a
    <2>1. MarkLink(p, a) = [row |-> TRUE, account |-> a, at |-> 2 * time]
      BY <1>3 DEF MarkLink, Now
    <2>2. 2 * time \in Nat
      BY <1>1
    <2> QED BY <1>3, <2>1, <2>2 DEF LinkRows
  <1> QED BY <1>2, <1>3

\* The parts of the draft.
LEMMA DraftParts ==
  ASSUME draft \in DraftTypes
  PROVE  /\ draft.keys \in Partial(Accounts, KeyRows)
         /\ draft.accts \in Partial(Accounts, AccountRows)
         /\ draft.pending \in Partial(Accounts, SUBSET Fences)
         /\ draft.links \in Partial(Principals, LinkRows)
  BY DEF DraftTypes

\* One more row of waveform_account_keys.
LEMMA PutKeys ==
  ASSUME LinksTypes, NEW x \in Accounts, NEW v \in KeyRows
  PROVE  /\ Put(draft.keys, x, v) \in Partial(Accounts, KeyRows)
         /\ DOMAIN Put(draft.keys, x, v) = DOMAIN draft.keys \cup {x}
         /\ Over(Put(draft.keys, x, v), keys) = [Keys EXCEPT ![x] = v]
  <1> DEFINE w == draft.keys
             n == Put(w, x, v)
  <1>1. w \in Partial(Accounts, KeyRows) /\ keys \in [Accounts -> KeyRows]
    BY DraftParts DEF LinksTypes, TablesTyped
  <1>2. DOMAIN w \subseteq Accounts /\ w \in [DOMAIN w -> KeyRows]
    BY <1>1 DEF Partial
  <1> HIDE DEF w
  <1>3. n \in [DOMAIN w \cup {x} -> KeyRows] /\ DOMAIN n = DOMAIN w \cup {x}
        /\ n[x] = v /\ \A y \in DOMAIN w \ {x} : n[y] = w[y]
    BY <1>2 DEF Put
  <1> HIDE DEF n
  <1>4. n \in Partial(Accounts, KeyRows)
    <2>1. [DOMAIN w \cup {x} -> KeyRows] \in {[D -> KeyRows] : D \in SUBSET Accounts}
      BY <1>2
    <2> QED BY <1>3, <2>1 DEF Partial
  <1>5. Over(n, keys) = [Over(w, keys) EXCEPT ![x] = v]
    BY <1>1, <1>3 DEF Over
  <1> QED BY <1>3, <1>4, <1>5 DEF Keys, w, n

\* One more row of waveform_accounts.
LEMMA PutAccts ==
  ASSUME LinksTypes, NEW x \in Accounts, NEW v \in AccountRows
  PROVE  /\ Put(draft.accts, x, v) \in Partial(Accounts, AccountRows)
         /\ DOMAIN Put(draft.accts, x, v) = DOMAIN draft.accts \cup {x}
         /\ Over(Put(draft.accts, x, v), accts) = [Accts EXCEPT ![x] = v]
  <1> DEFINE w == draft.accts
             n == Put(w, x, v)
  <1>1. w \in Partial(Accounts, AccountRows) /\ accts \in [Accounts -> AccountRows]
    BY DraftParts DEF LinksTypes, TablesTyped
  <1>2. DOMAIN w \subseteq Accounts /\ w \in [DOMAIN w -> AccountRows]
    BY <1>1 DEF Partial
  <1> HIDE DEF w
  <1>3. n \in [DOMAIN w \cup {x} -> AccountRows] /\ DOMAIN n = DOMAIN w \cup {x}
        /\ n[x] = v /\ \A y \in DOMAIN w \ {x} : n[y] = w[y]
    BY <1>2 DEF Put
  <1> HIDE DEF n
  <1>4. n \in Partial(Accounts, AccountRows)
    <2>1. [DOMAIN w \cup {x} -> AccountRows] \in {[D -> AccountRows] : D \in SUBSET Accounts}
      BY <1>2
    <2> QED BY <1>3, <2>1 DEF Partial
  <1>5. Over(n, accts) = [Over(w, accts) EXCEPT ![x] = v]
    BY <1>1, <1>3 DEF Over
  <1> QED BY <1>3, <1>4, <1>5 DEF Accts, w, n

\* One more row of waveform_account_pending_events.
LEMMA PutPending ==
  ASSUME LinksTypes, NEW x \in Accounts, NEW v \in SUBSET Fences
  PROVE  /\ Put(draft.pending, x, v) \in Partial(Accounts, SUBSET Fences)
         /\ DOMAIN Put(draft.pending, x, v) = DOMAIN draft.pending \cup {x}
         /\ Over(Put(draft.pending, x, v), pending) = [Pending EXCEPT ![x] = v]
  <1> DEFINE w == draft.pending
             n == Put(w, x, v)
  <1>1. w \in Partial(Accounts, SUBSET Fences) /\ pending \in [Accounts -> SUBSET Fences]
    BY DraftParts DEF LinksTypes, TablesTyped
  <1>2. DOMAIN w \subseteq Accounts /\ w \in [DOMAIN w -> SUBSET Fences]
    BY <1>1 DEF Partial
  <1> HIDE DEF w
  <1>3. n \in [DOMAIN w \cup {x} -> SUBSET Fences] /\ DOMAIN n = DOMAIN w \cup {x}
        /\ n[x] = v /\ \A y \in DOMAIN w \ {x} : n[y] = w[y]
    BY <1>2 DEF Put
  <1> HIDE DEF n
  <1>4. n \in Partial(Accounts, SUBSET Fences)
    <2>1. [DOMAIN w \cup {x} -> SUBSET Fences] \in {[D -> SUBSET Fences] : D \in SUBSET Accounts}
      BY <1>2
    <2> QED BY <1>3, <2>1 DEF Partial
  <1>5. Over(n, pending) = [Over(w, pending) EXCEPT ![x] = v]
    BY <1>1, <1>3 DEF Over
  <1> QED BY <1>3, <1>4, <1>5 DEF Pending, w, n

\* One more row of waveform_identity_links.
LEMMA PutLinks ==
  ASSUME LinksTypes, NEW x \in Principals, NEW v \in LinkRows
  PROVE  /\ Put(draft.links, x, v) \in Partial(Principals, LinkRows)
         /\ DOMAIN Put(draft.links, x, v) = DOMAIN draft.links \cup {x}
         /\ Over(Put(draft.links, x, v), links) = [Links EXCEPT ![x] = v]
  <1> DEFINE w == draft.links
             n == Put(w, x, v)
  <1>1. w \in Partial(Principals, LinkRows) /\ links \in [Principals -> LinkRows]
    BY DraftParts DEF LinksTypes, TablesTyped
  <1>2. DOMAIN w \subseteq Principals /\ w \in [DOMAIN w -> LinkRows]
    BY <1>1 DEF Partial
  <1> HIDE DEF w
  <1>3. n \in [DOMAIN w \cup {x} -> LinkRows] /\ DOMAIN n = DOMAIN w \cup {x}
        /\ n[x] = v /\ \A y \in DOMAIN w \ {x} : n[y] = w[y]
    BY <1>2 DEF Put
  <1> HIDE DEF n
  <1>4. n \in Partial(Principals, LinkRows)
    <2>1. [DOMAIN w \cup {x} -> LinkRows] \in {[D -> LinkRows] : D \in SUBSET Principals}
      BY <1>2
    <2> QED BY <1>3, <2>1 DEF Partial
  <1>5. Over(n, links) = [Over(w, links) EXCEPT ![x] = v]
    BY <1>1, <1>3 DEF Over
  <1> QED BY <1>3, <1>4, <1>5 DEF Links, w, n

\* The command writes its draft: the tables stay as they are.
LEMMA DraftStep ==
  ASSUME LinksInv, UNCHANGED <<Tables, Rest>>, cmd' \in CommandTypes, draft' \in DraftTypes
  PROVE  /\ LinksTypes' /\ Committed'
         /\ UNCHANGED <<keys, accts, pending, links, rows, owed, time>>
  <1>0. LinksTypes /\ Committed
    BY InvParts
  <1>1. UNCHANGED <<keys, accts, pending, links, rows, owed, time, inflight, fresh>>
    BY DEF Tables, Rest
  <1>2. LinksTypes'
    BY <1>0, <1>1 DEF LinksTypes, TablesTyped
  <1>3. Committed'
    BY <1>0, <1>1 DEF Committed
  <1> QED BY <1>1, <1>2, <1>3

\* The account has the key already: its link is marked.
LEMMA AlreadyLinkedInv == ASSUME LinksInv, AlreadyLinked PROVE LinksInv'
  <1>0. /\ LinksTypes /\ Committed /\ Seen /\ DraftFits /\ cmd \in CommandTypes
        /\ draft \in DraftTypes /\ TablesTyped(keys, accts, pending, links, rows, owed, time)
        /\ cmd.todo # <<>> /\ cmd.pc = "row"
    BY InvParts DEF AlreadyLinked, Matched, AtRow
  <1> DEFINE m == MarkLink(Principal, Target)
             ls == Put(draft.links, Principal, m)
  <1>1. /\ Principal \in Principals /\ Target \in Accounts /\ LegacyKey \in StorageKeys
        /\ LegacyKey \in LegacyKeys /\ LegacyKey # None /\ Tail(cmd.todo) \in Seq(FileRows)
        /\ LegacyKey = KeyOf[Principal]
    BY <1>0, FileRow DEF LegacyKey
  <1>2. m \in LinkRows /\ m.account = Target /\ m.at <= 2 * time
        /\ (Links[Principal].account = Target => m = Links[Principal])
    BY <1>0, <1>1, MarkLinkFacts
  <1> HIDE DEF m
  <1>3. ls \in Partial(Principals, LinkRows)
    BY <1>0, <1>1, <1>2, PutLinks
  <1>4. Over(ls, links) = [Links EXCEPT ![Principal] = m]
    BY <1>0, <1>1, <1>2, PutLinks
  <1> HIDE DEF ls
  <1>5. /\ draft' = [draft EXCEPT !.links = ls]
        /\ cmd' = [NextRow(LegacyKey) EXCEPT !.sources = Put(@, Target, LegacyKey)]
        /\ UNCHANGED <<Tables, Rest>>
    BY DEF AlreadyLinked, ls, m
  <1>6. /\ draft' \in DraftTypes /\ draft'.keys = draft.keys /\ draft'.accts = draft.accts
        /\ draft'.pending = draft.pending /\ draft'.links = ls
    BY <1>0, <1>3, <1>5 DEF DraftTypes
  <1>7. /\ cmd' \in CommandTypes /\ cmd'.pc = "row" /\ cmd'.checked = cmd.checked
        /\ cmd'.copied = cmd.copied
    <2>1. Put(cmd.sources, Target, LegacyKey) \in Partial(Accounts, LegacyKeys)
      BY <1>0, <1>1, PutPartial DEF CommandTypes
    <2> QED BY <1>0, <1>1, <1>5, <2>1 DEF CommandTypes, NextRow
  <1>8. /\ LinksTypes' /\ Committed'
        /\ UNCHANGED <<keys, accts, pending, links, rows, owed, time>>
    BY <1>5, <1>6, <1>7, DraftStep
  <1>9. Keys' = Keys /\ Accts' = Accts /\ Pending' = Pending
        /\ Links' = [Links EXCEPT ![Principal] = m]
    BY <1>4, <1>6, <1>8 DEF Keys, Accts, Pending, Links
  <1>10. \A b \in Accounts : Keys[b].key = KeyOf[Principal] => b = Target
    BY <1>0, <1>1 DEF AlreadyLinked, Seen, Sound, OneHolder
  <1>11. Sound(Keys, Accts, Pending, [Links EXCEPT ![Principal] = m], rows, owed, time)
    BY <1>0, <1>1, <1>2, <1>10, MarkedSound DEF Seen
  <1>12. Seen'
    BY <1>8, <1>9, <1>11 DEF Seen
  <1>13. DraftFits'
    BY <1>0, <1>6, <1>7, <1>8, <1>9 DEF DraftFits, FenceOf
  <1>14. RowFits'
    BY <1>7 DEF RowFits
  <1> QED BY <1>8, <1>12, <1>13, <1>14 DEF LinksInv

\* The fence of the account that loses the key is copied.
LEMMA CopyFenceInv == ASSUME LinksInv, CopyFence PROVE LinksInv'
  <1>0. /\ LinksTypes /\ Committed /\ Seen /\ DraftFits /\ RowFits /\ cmd \in CommandTypes
        /\ draft \in DraftTypes /\ TablesTyped(keys, accts, pending, links, rows, owed, time)
        /\ cmd.todo # <<>> /\ cmd.pc = "copy" /\ cmd.holder \in Accounts
    BY InvParts DEF CopyFence, RowFits
  <1> DEFINE h == cmd.holder
             kept == IF Accts[h].fence \cap Fences = {} THEN Pending[h]
                     ELSE Pending[h] \cup Accts[h].fence
  <1>1. /\ kept \in SUBSET Fences /\ kept = FenceOf(h, Accts, Pending)
        /\ Accts[h] \in AccountRows /\ owed[h] \in SUBSET Fences
        /\ owed[h] \subseteq FenceOf(h, Accts, Pending)
    <2>1. Pending[h] \in SUBSET Fences /\ Accts[h] \in AccountRows /\ owed[h] \in SUBSET Fences
      BY <1>0, SeenTables DEF TablesTyped
    <2>2. Accts[h].fence = {"no_row"} \/ Accts[h].fence \subseteq Fences
      BY <2>1, RowFields
    <2>3. {"no_row"} \cap Fences = {}
      BY DEF Fences
    <2>4. owed[h] \subseteq FenceOf(h, Accts, Pending)
      BY <1>0 DEF Seen, Sound, FencesHold
    <2> QED BY <2>1, <2>2, <2>3, <2>4 DEF FenceOf
  <1>2. /\ cmd' \in CommandTypes /\ cmd'.pc = "detach" /\ cmd'.copied = cmd.copied \cup {h}
        /\ cmd'.checked = cmd.checked /\ cmd'.holder = h /\ cmd'.todo = cmd.todo
    BY <1>0 DEF CopyFence, CommandTypes
  <1>3. /\ draft' \in DraftTypes /\ draft'.keys = draft.keys /\ draft'.accts = draft.accts
        /\ draft'.links = draft.links /\ Over(draft'.pending, pending) = [Pending EXCEPT ![h] = kept]
    <2>1. CASE Accts[h].fence \cap Fences = {}
      <3>1. draft' = draft
        BY <2>1 DEF CopyFence
      <3>2. [Pending EXCEPT ![h] = kept] = Pending
        BY <1>0, <2>1, SeenTables
      <3> QED BY <1>0, <3>1, <3>2 DEF Pending
    <2>2. CASE Accts[h].fence \cap Fences # {}
      <3> DEFINE ps == Put(draft.pending, h, kept)
      <3>1. draft' = [draft EXCEPT !.pending = ps]
        BY <2>2 DEF CopyFence
      <3>2. ps \in Partial(Accounts, SUBSET Fences)
        BY <1>0, <1>1, PutPending
      <3>3. Over(ps, pending) = [Pending EXCEPT ![h] = kept]
        <4> HIDE DEF kept
        <4> QED BY <1>0, <1>1, PutPending
      <3> HIDE DEF ps, kept
      <3> QED BY <1>0, <3>1, <3>2, <3>3 DEF DraftTypes
    <2> QED BY <2>1, <2>2
  <1> HIDE DEF kept
  <1>4. /\ LinksTypes' /\ Committed'
        /\ UNCHANGED <<keys, accts, pending, links, rows, owed, time>>
    BY <1>2, <1>3, DraftStep DEF CopyFence
  <1>5. Keys' = Keys /\ Accts' = Accts /\ Links' = Links /\ Pending' = [Pending EXCEPT ![h] = kept]
    BY <1>3, <1>4 DEF Keys, Accts, Pending, Links
  <1>6. Seen'
    <2>1. /\ [Accts EXCEPT ![h] = Accts[h]] = Accts /\ [owed EXCEPT ![h] = owed[h]] = owed
      BY <1>0, SeenTables DEF TablesTyped
    <2>2. Sound(Keys, [Accts EXCEPT ![h] = Accts[h]], [Pending EXCEPT ![h] = kept], Links, rows,
                [owed EXCEPT ![h] = owed[h]], time)
      BY <1>0, <1>1, FenceSound DEF Seen
    <2> QED BY <1>4, <1>5, <2>1, <2>2 DEF Seen
  <1>7. DraftFits'
    <2>1. Pending'[h] = kept /\ \A a \in Accounts \ {h} : Pending'[a] = Pending[a]
      BY <1>0, <1>5, SeenTables
    <2>2. \A a \in Accounts : FenceOf(a, Accts, Pending)' = FenceOf(a, Accts, Pending)
      BY <1>0, <1>1, <1>5, <2>1 DEF FenceOf
    <2>3. \A a \in Accounts : FenceOf(a, accts, pending)' = FenceOf(a, accts, pending)
      BY <1>4 DEF FenceOf
    <2>4. \A a \in cmd'.copied : owed'[a] \subseteq Pending'[a]
      <3>1. cmd.copied \subseteq Accounts
        BY <1>0 DEF CommandTypes
      <3> QED BY <1>0, <1>1, <1>2, <1>4, <2>1, <3>1 DEF DraftFits
    <2> QED BY <1>0, <1>2, <1>3, <1>4, <2>2, <2>3, <2>4 DEF DraftFits
  <1>8. RowFits'
    <2>1. LegacyKey' = LegacyKey
      BY <1>2 DEF LegacyKey, Principal
    <2> QED BY <1>0, <1>2, <1>4, <1>5, <2>1 DEF RowFits
  <1> QED BY <1>4, <1>6, <1>7, <1>8 DEF LinksInv

\* What the steps below start from.
LEMMA AtFileRow ==
  ASSUME LinksInv, cmd.pc \in {"copy", "detach", "attach", "merge", "insert"}
  PROVE  /\ LinksTypes /\ Committed /\ Seen /\ DraftFits /\ RowFits
         /\ cmd \in CommandTypes /\ draft \in DraftTypes
         /\ TablesTyped(keys, accts, pending, links, rows, owed, time)
         /\ Principal \in Principals /\ Target \in Accounts /\ LegacyKey = KeyOf[Principal]
         /\ LegacyKey \in LegacyKeys /\ LegacyKey \in StorageKeys /\ LegacyKey # None
         /\ Tail(cmd.todo) \in Seq(FileRows)
  <1>1. /\ LinksTypes /\ Committed /\ Seen /\ DraftFits /\ RowFits
        /\ cmd \in CommandTypes /\ draft \in DraftTypes
        /\ TablesTyped(keys, accts, pending, links, rows, owed, time)
    BY InvParts
  <1>2. cmd.todo # <<>>
    BY <1>1 DEF RowFits
  <1> QED BY <1>1, <1>2, FileRow DEF LegacyKey

\* The account loses the key and its row.
LEMMA DetachInv == ASSUME LinksInv, Detach PROVE LinksInv'
  <1> DEFINE h == cmd.holder
             ks == Put(draft.keys, h, NoKey)
             as == Put(draft.accts, h, NoAccount)
  <1>0. cmd.pc = "detach"
    BY DEF Detach
  <1>1. /\ LinksTypes /\ Committed /\ Seen /\ DraftFits /\ RowFits
        /\ cmd \in CommandTypes /\ draft \in DraftTypes
        /\ LegacyKey \in LegacyKeys /\ LegacyKey # None
    BY <1>0, AtFileRow
  <1>2. /\ h \in Accounts /\ Keys[h].key = LegacyKey /\ LegacyKey \in cmd.checked
        /\ h \in cmd.copied /\ owed[h] \subseteq Pending[h]
        /\ \A x \in rows[LegacyKey] : x.by = h /\ ~x.late => x.kind = "report"
    BY <1>0, <1>1 DEF RowFits, DraftFits
  <1>3. NoKey \in KeyRows /\ NoAccount \in AccountRows /\ NoKey.key = None
    BY DEF NoKey, NoAccount, KeyRows, AccountRows
  <1>4. /\ ks \in Partial(Accounts, KeyRows) /\ DOMAIN ks = DOMAIN draft.keys \cup {h}
        /\ Over(ks, keys) = [Keys EXCEPT ![h] = NoKey]
    BY <1>1, <1>2, <1>3, PutKeys
  <1>5. /\ as \in Partial(Accounts, AccountRows)
        /\ Over(as, accts) = [Accts EXCEPT ![h] = NoAccount]
    BY <1>1, <1>2, <1>3, PutAccts
  <1>6. draft' = [draft EXCEPT !.accts = as, !.keys = ks]
    BY DEF Detach
  <1> HIDE DEF ks, as
  <1>7. /\ draft' \in DraftTypes /\ draft'.keys = ks /\ draft'.accts = as
        /\ draft'.pending = draft.pending /\ draft'.links = draft.links
    BY <1>1, <1>4, <1>5, <1>6 DEF DraftTypes
  <1>8. /\ cmd' \in CommandTypes /\ cmd'.pc = "attach" /\ cmd'.copied = cmd.copied \ {h}
        /\ cmd'.checked = cmd.checked /\ cmd'.todo = cmd.todo
    BY <1>1 DEF Detach, CommandTypes
  <1>9. /\ LinksTypes' /\ Committed'
        /\ UNCHANGED <<keys, accts, pending, links, rows, owed, time>>
    BY <1>7, <1>8, DraftStep DEF Detach
  <1>10. /\ Keys' = [Keys EXCEPT ![h] = NoKey] /\ Accts' = [Accts EXCEPT ![h] = NoAccount]
         /\ Pending' = Pending /\ Links' = Links
    BY <1>4, <1>5, <1>7, <1>9 DEF Keys, Accts, Pending, Links
  <1>11. Keys'[h] = NoKey
         /\ \A a \in Accounts \ {h} : Keys'[a] = Keys[a] /\ Accts'[a] = Accts[a]
    BY <1>1, <1>2, <1>10, SeenTables
  <1>12. Seen'
    <2>1. Sound([Keys EXCEPT ![h] = NoKey], [Accts EXCEPT ![h] = NoAccount], Pending, Links, rows,
                owed, time)
      BY <1>1, <1>2, DetachedSound DEF Seen
    <2> QED BY <1>9, <1>10, <2>1 DEF Seen
  <1>13. DraftFits'
    <2>1. \A a \in DOMAIN ks : keys[a].key \in cmd.checked \cup {None}
      BY <1>1, <1>2, <1>4, SeenTables DEF DraftFits
    <2>2. \A a \in Accounts \ DOMAIN ks :
             FenceOf(a, Accts, Pending)' = FenceOf(a, Accts, Pending)
             /\ FenceOf(a, accts, pending)' = FenceOf(a, accts, pending)
      BY <1>4, <1>9, <1>10, <1>11 DEF FenceOf
    <2> QED BY <1>1, <1>4, <1>7, <1>8, <1>9, <1>10, <2>1, <2>2 DEF DraftFits
  <1>14. RowFits'
    <2>1. LegacyKey' = LegacyKey
      BY <1>8 DEF LegacyKey, Principal
    <2>2. \A a \in Accounts : Keys'[a].key # LegacyKey
      BY <1>1, <1>2, <1>3, <1>11 DEF Seen, Sound, OneHolder
    <2>3. cmd'.todo # <<>>
      BY <1>0, <1>1, <1>8 DEF RowFits
    <2> QED BY <1>8, <2>1, <2>2, <2>3 DEF RowFits
  <1> QED BY <1>9, <1>12, <1>13, <1>14 DEF LinksInv

\* The account's empty key is replaced by the linked one.
LEMMA MergeInv == ASSUME LinksInv, Merge PROVE LinksInv'
  <1> DEFINE m == MarkLink(Principal, Target)
             ks == Put(draft.keys, Target, Linked)
             ls == Put(draft.links, Principal, m)
  <1>0. cmd.pc = "merge"
    BY DEF Merge
  <1>1. /\ LinksTypes /\ Committed /\ Seen /\ DraftFits /\ RowFits
        /\ cmd \in CommandTypes /\ draft \in DraftTypes
        /\ Principal \in Principals /\ Target \in Accounts /\ LegacyKey = KeyOf[Principal]
        /\ LegacyKey \in StorageKeys /\ Tail(cmd.todo) \in Seq(FileRows)
    BY <1>0, AtFileRow
  <1>2. /\ \A a \in Accounts : Keys[a].key # LegacyKey
        /\ Keys[Target].key \in cmd.checked /\ \A x \in rows[Keys[Target].key] : x.late
    BY <1>0, <1>1 DEF RowFits
  <1>3. Linked \in KeyRows
    BY <1>1 DEF Linked, KeyRows
  <1>4. m \in LinkRows /\ m.account = Target /\ m.at <= 2 * time
        /\ (Links[Principal].account = Target => m = Links[Principal])
    BY <1>1, MarkLinkFacts
  <1> HIDE DEF m
  <1>5. /\ ks \in Partial(Accounts, KeyRows) /\ DOMAIN ks = DOMAIN draft.keys \cup {Target}
        /\ Over(ks, keys) = [Keys EXCEPT ![Target] = Linked]
    BY <1>1, <1>3, PutKeys
  <1>6. /\ ls \in Partial(Principals, LinkRows)
        /\ Over(ls, links) = [Links EXCEPT ![Principal] = m]
    BY <1>1, <1>4, PutLinks
  <1>7. draft' = [draft EXCEPT !.keys = ks, !.links = ls]
    BY DEF Merge, m
  <1> HIDE DEF ks, ls
  <1>8. /\ draft' \in DraftTypes /\ draft'.keys = ks /\ draft'.accts = draft.accts
        /\ draft'.pending = draft.pending /\ draft'.links = ls
    BY <1>1, <1>5, <1>6, <1>7 DEF DraftTypes
  <1>9. /\ cmd' \in CommandTypes /\ cmd'.pc = "row" /\ cmd'.copied = cmd.copied
        /\ cmd'.checked = cmd.checked
    BY <1>1 DEF Merge, NextRow, CommandTypes
  <1>10. /\ LinksTypes' /\ Committed'
         /\ UNCHANGED <<keys, accts, pending, links, rows, owed, time>>
    BY <1>8, <1>9, DraftStep DEF Merge
  <1>11. /\ Keys' = [Keys EXCEPT ![Target] = Linked] /\ Accts' = Accts /\ Pending' = Pending
         /\ Links' = [Links EXCEPT ![Principal] = m]
    BY <1>5, <1>6, <1>8, <1>10 DEF Keys, Accts, Pending, Links
  <1>12. Seen'
    <2>1. Sound(Keys, Accts, Pending, [Links EXCEPT ![Principal] = m], rows, owed, time)
      BY <1>1, <1>2, <1>4, MarkedSound DEF Seen
    <2>2. [Links EXCEPT ![Principal] = m][Principal].account = Target
      BY <1>1, <1>4, SeenTables
    <2>3. Sound([Keys EXCEPT ![Target] = Linked], Accts, Pending,
                [Links EXCEPT ![Principal] = m], rows, owed, time)
      BY <1>1, <1>2, <2>1, <2>2, LinkedSound DEF Linked
    <2> QED BY <1>10, <1>11, <2>3 DEF Seen
  <1>13. DraftFits'
    <2>1. \A a \in DOMAIN ks : keys[a].key \in cmd.checked \cup {None}
      BY <1>1, <1>2, <1>5, SeenTables DEF DraftFits
    <2> QED BY <1>1, <1>5, <1>8, <1>9, <1>10, <1>11, <2>1 DEF DraftFits, FenceOf
  <1>14. RowFits'
    BY <1>9 DEF RowFits
  <1> QED BY <1>10, <1>12, <1>13, <1>14 DEF LinksInv

\* The account receives the key, unless it has been seen meanwhile and has one.
LEMMA InsertInv == ASSUME LinksInv, Insert PROVE LinksInv'
  <1> DEFINE m == MarkLink(Principal, Target)
             row == [fence |-> {}, changed |-> 0]
             ks == IF Keys[Target] = NoKey THEN Put(draft.keys, Target, Linked) ELSE draft.keys
             as == IF Accts[Target] = NoAccount THEN Put(draft.accts, Target, row) ELSE draft.accts
             ls == Put(draft.links, Principal, m)
             nk == IF Keys[Target] = NoKey THEN [Keys EXCEPT ![Target] = Linked] ELSE Keys
             na == IF Accts[Target] = NoAccount THEN [Accts EXCEPT ![Target] = row] ELSE Accts
  <1>0. cmd.pc = "insert"
    BY DEF Insert
  <1>1. /\ LinksTypes /\ Committed /\ Seen /\ DraftFits /\ RowFits
        /\ cmd \in CommandTypes /\ draft \in DraftTypes
        /\ Principal \in Principals /\ Target \in Accounts /\ LegacyKey = KeyOf[Principal]
        /\ LegacyKey \in StorageKeys /\ Tail(cmd.todo) \in Seq(FileRows)
        /\ TablesTyped(keys, accts, pending, links, rows, owed, time)
    BY <1>0, AtFileRow
  <1>2. \A a \in Accounts : Keys[a].key # LegacyKey
    BY <1>0, <1>1 DEF RowFits
  <1>3. /\ Linked \in KeyRows /\ row \in AccountRows /\ NoKey.key = None
        /\ NoAccount.fence \cap Fences = {} /\ row.fence = {}
    BY <1>1 DEF Linked, KeyRows, AccountRows, NoKey, NoAccount, Fences
  <1>4. m \in LinkRows /\ m.account = Target /\ m.at <= 2 * time
        /\ (Links[Principal].account = Target => m = Links[Principal])
    BY <1>1, MarkLinkFacts
  <1>5. draft' = [draft EXCEPT !.keys = ks, !.accts = as, !.links = ls]
    BY DEF Insert
  <1> HIDE DEF m, row
  <1>6. /\ ks \in Partial(Accounts, KeyRows) /\ Over(ks, keys) = nk
        /\ DOMAIN ks = IF Keys[Target] = NoKey THEN DOMAIN draft.keys \cup {Target}
                       ELSE DOMAIN draft.keys
    BY <1>1, <1>3, PutKeys, DraftParts DEF Keys
  <1>7. as \in Partial(Accounts, AccountRows) /\ Over(as, accts) = na
    BY <1>1, <1>3, PutAccts, DraftParts DEF Accts
  <1>8. /\ ls \in Partial(Principals, LinkRows)
        /\ Over(ls, links) = [Links EXCEPT ![Principal] = m]
    BY <1>1, <1>4, PutLinks
  <1> HIDE DEF ks, as, ls
  <1>9. /\ draft' \in DraftTypes /\ draft'.keys = ks /\ draft'.accts = as
        /\ draft'.pending = draft.pending /\ draft'.links = ls
    BY <1>1, <1>5, <1>6, <1>7, <1>8 DEF DraftTypes
  <1>10. /\ cmd' \in CommandTypes /\ cmd'.pc = "row" /\ cmd'.copied = cmd.copied
         /\ cmd'.checked = cmd.checked
    BY <1>1 DEF Insert, NextRow, CommandTypes
  <1>11. /\ LinksTypes' /\ Committed'
         /\ UNCHANGED <<keys, accts, pending, links, rows, owed, time>>
    BY <1>9, <1>10, DraftStep DEF Insert
  <1>12. /\ Keys' = nk /\ Accts' = na /\ Pending' = Pending
         /\ Links' = [Links EXCEPT ![Principal] = m]
    BY <1>6, <1>7, <1>8, <1>9, <1>11 DEF Keys, Accts, Pending, Links
  <1>13. /\ \A a \in Accounts \ {Target} : na[a] = Accts[a]
         /\ FenceOf(Target, na, Pending) = FenceOf(Target, Accts, Pending)
    BY <1>1, <1>3, SeenTables DEF FenceOf
  <1>14. Seen'
    <2>1. Sound(Keys, Accts, Pending, [Links EXCEPT ![Principal] = m], rows, owed, time)
      BY <1>1, <1>2, <1>4, MarkedSound DEF Seen
    <2>2. [Links EXCEPT ![Principal] = m][Principal].account = Target
      BY <1>1, <1>4, SeenTables
    <2>3. Sound(nk, Accts, Pending, [Links EXCEPT ![Principal] = m], rows, owed, time)
      <3>1. CASE Keys[Target] = NoKey
        <4>1. Sound([Keys EXCEPT ![Target] = [key |-> KeyOf[Principal],
                                              source |-> "link_identities"]],
                    Accts, Pending, [Links EXCEPT ![Principal] = m], rows, owed, time)
          BY <1>1, <1>2, <1>3, <2>1, <2>2, <3>1, LinkedSound
        <4> QED BY <1>1, <3>1, <4>1 DEF Linked
      <3>2. CASE Keys[Target] # NoKey
        BY <2>1, <3>2
      <3> QED BY <3>1, <3>2
    <2> HIDE DEF nk
    <2>4. Sound(nk, na, Pending, [Links EXCEPT ![Principal] = m], rows, owed, time)
      <3>1. CASE Accts[Target] = NoAccount
        <4>1. /\ [Pending EXCEPT ![Target] = Pending[Target]] = Pending
              /\ [owed EXCEPT ![Target] = owed[Target]] = owed
              /\ Pending[Target] \in SUBSET Fences /\ owed[Target] \in SUBSET Fences
          BY <1>1, SeenTables DEF TablesTyped
        <4>2. /\ FenceOf(Target, Accts, Pending) \subseteq Pending[Target] \cup (row.fence \cap Fences)
              /\ owed[Target] \subseteq FenceOf(Target, Accts, Pending)
          BY <1>1, <1>3, <3>1 DEF FenceOf, Seen, Sound, FencesHold
        <4>3. Sound(nk, [Accts EXCEPT ![Target] = row], [Pending EXCEPT ![Target] = Pending[Target]],
                    [Links EXCEPT ![Principal] = m], rows,
                    [owed EXCEPT ![Target] = owed[Target]], time)
          BY <1>1, <1>3, <2>3, <4>1, <4>2, FenceSound
        <4> QED BY <3>1, <4>1, <4>3
      <3>2. CASE Accts[Target] # NoAccount
        BY <2>3, <3>2
      <3> QED BY <3>1, <3>2
    <2> HIDE DEF na
    <2> QED BY <1>11, <1>12, <2>4 DEF Seen
  <1>15. DraftFits'
    <2>1. \A a \in DOMAIN ks : keys[a].key \in cmd.checked \cup {None}
      BY <1>1, <1>3, <1>6, SeenTables DEF DraftFits
    <2>2. DOMAIN draft.keys \subseteq DOMAIN ks
      BY <1>6
    <2>3. \A a \in Accounts :
             FenceOf(a, Accts, Pending)' = FenceOf(a, Accts, Pending)
             /\ FenceOf(a, accts, pending)' = FenceOf(a, accts, pending)
      BY <1>11, <1>12, <1>13 DEF FenceOf
    <2> QED BY <1>1, <1>9, <1>10, <1>11, <1>12, <2>1, <2>2, <2>3 DEF DraftFits
  <1>16. RowFits'
    BY <1>10 DEF RowFits
  <1> QED BY <1>11, <1>14, <1>15, <1>16 DEF LinksInv

\* Nothing is written: the tables are what the command sees.
LEMMA NoDraftInv ==
  ASSUME LinksTypes', Committed', draft' = NoDraft, cmd'.copied = {}, cmd'.pc \in {"idle", "row"}
  PROVE  LinksInv'
  <1>1. TablesTyped(keys, accts, pending, links, rows, owed, time)'
    BY DEF LinksTypes
  <1>2. /\ draft'.keys = <<>> /\ draft'.accts = <<>> /\ draft'.pending = <<>>
        /\ draft'.links = <<>>
    BY DEF NoDraft
  <1>3. /\ keys' \in [Accounts -> KeyRows] /\ accts' \in [Accounts -> AccountRows]
        /\ pending' \in [Accounts -> SUBSET Fences] /\ links' \in [Principals -> LinkRows]
    BY <1>1 DEF TablesTyped
  <1>4. Keys' = keys' /\ Accts' = accts' /\ Pending' = pending' /\ Links' = links'
    BY <1>2, <1>3 DEF Keys, Accts, Pending, Links, Over
  <1>5. Seen'
    BY <1>4 DEF Committed, Seen
  <1>6. DraftFits'
    BY <1>2, <1>4 DEF DraftFits, FenceOf
  <1>7. RowFits'
    BY DEF RowFits
  <1> QED BY <1>5, <1>6, <1>7 DEF LinksInv

\* Between commands.
LEMMA IdleFacts ==
  Idle \in CommandTypes /\ NoDraft \in DraftTypes /\ Idle.pc = "idle" /\ Idle.copied = {}
  <1>1. \A S, T : <<>> \in Partial(S, T)
    <2> SUFFICES ASSUME NEW S, NEW T PROVE <<>> \in Partial(S, T)
      OBVIOUS
    <2>1. <<>> \in [{} -> T] /\ [{} -> T] \in {[D -> T] : D \in SUBSET S}
      OBVIOUS
    <2> QED BY <2>1 DEF Partial
  <1>2. NoDraft \in DraftTypes
    BY <1>1 DEF NoDraft, DraftTypes
  <1>3. Idle \in CommandTypes
    BY <1>1 DEF Idle, CommandTypes
  <1> QED BY <1>2, <1>3 DEF Idle

\* A command begins.
LEMMA BeginInv ==
  ASSUME LinksInv, NEW mapping \in Mappings, NEW options \in Options, Begin(mapping, options)
  PROVE  LinksInv'
  <1>0. LinksTypes /\ Committed /\ DraftFits /\ cmd.pc = "idle"
    BY InvParts DEF Begin
  <1>1. /\ cmd' \in CommandTypes /\ cmd'.pc = "row" /\ cmd'.copied = {}
    BY IdleFacts DEF Begin, CommandTypes, FileRows
  <1>2. draft' = NoDraft
    BY <1>0 DEF DraftFits, Begin
  <1>3. UNCHANGED <<keys, accts, pending, links, rows, owed, inflight, fresh>> /\ time' = time + 1
    BY DEF Begin, database
  <1>4. Committed'
    BY <1>0, <1>3, LaterSound DEF Committed
  <1>5. LinksTypes'
    BY <1>0, <1>1, <1>2, <1>3, IdleFacts DEF LinksTypes, TablesTyped
  <1> QED BY <1>1, <1>2, <1>4, <1>5, NoDraftInv

\* What the command saw is committed, with the provider keys sealed anew.
LEMMA CommitInv == ASSUME LinksInv, Commit PROVE LinksInv'
  <1>0. LinksTypes /\ Seen
    BY InvParts
  <1>1. /\ cmd' = Idle /\ draft' = NoDraft /\ UNCHANGED <<inflight, fresh, time, owed>>
        /\ keys' = Keys /\ accts' = Accts /\ pending' = Pending /\ links' = Links
    BY DEF Commit
  <1>2. time \in Nat /\ rows \in [StorageKeys -> SUBSET DataRows]
    BY <1>0 DEF LinksTypes, TablesTyped
  <1>3. Row(None, "setting", Now, FALSE) \in DataRows /\ Row(None, "setting", Now, FALSE).by = None
    BY <1>2 DEF Row, Now, DataRows
  <1>4. rows' \in [StorageKeys -> SUBSET DataRows]
        /\ \A s \in StorageKeys : \A x \in rows'[s] : x \in rows[s] \/ x.by = None
    BY <1>2, <1>3 DEF Commit
  <1>5. Committed'
    <2>1. Sound(Keys, Accts, Pending, Links, rows', owed, time)
      BY <1>0, <1>4, RowsSound DEF Seen
    <2> QED BY <1>1, <2>1 DEF Committed
  <1>6. LinksTypes'
    <2>1. TablesTyped(keys, accts, pending, links, rows, owed, time)'
      BY <1>5 DEF Committed, Sound
    <2> QED BY <1>0, <1>1, <2>1, IdleFacts DEF LinksTypes
  <1> QED BY <1>1, <1>5, <1>6, IdleFacts, NoDraftInv

\* Nothing is committed.
LEMMA RollbackInv == ASSUME LinksInv, Rollback PROVE LinksInv'
  <1>0. LinksTypes /\ Committed
    BY InvParts
  <1>1. /\ cmd' = Idle /\ draft' = NoDraft
        /\ UNCHANGED <<keys, accts, pending, links, rows, owed, time, inflight, fresh>>
    BY DEF Rollback, database
  <1>2. Committed'
    BY <1>0, <1>1 DEF Committed
  <1>3. LinksTypes'
    BY <1>0, <1>1, IdleFacts DEF LinksTypes, TablesTyped
  <1> QED BY <1>1, <1>2, <1>3, IdleFacts, NoDraftInv
-----------------------------------------------------------------------------
(***************************************************************************)
(* Steps of the API                                                        *)
(***************************************************************************)

\* A step of the API while the command is where it is.
LEMMA ApiInv ==
  ASSUME LinksInv, draft' = draft, cmd' = [cmd EXCEPT !.alone = FALSE],
         Committed', Seen',
         inflight' \in [Accounts -> StorageKeys \cup {None}], fresh' \in [Accounts -> Nat],
         \A b \in DOMAIN draft.keys : keys'[b] = keys[b],
         \A b \in Accounts :
            Keys'[b] = Keys[b] \/ (Keys[b].key = None /\ Keys'[b].key \notin LegacyKeys),
         \A b \in Accounts \ DOMAIN draft.keys :
            FenceOf(b, Accts, Pending)' \subseteq FenceOf(b, accts, pending)',
         \A b \in cmd.copied : owed'[b] \subseteq Pending'[b],
         \A s \in StorageKeys : \A x \in rows'[s] :
            x \in rows[s] \/ (cmd.pc # "idle" /\ s \in cmd.checked => x.late)
  PROVE  LinksInv'
  <1>0. LinksTypes /\ DraftFits /\ RowFits /\ cmd \in CommandTypes /\ draft \in DraftTypes
    BY InvParts
  <1>1. /\ cmd' \in CommandTypes /\ cmd'.pc = cmd.pc /\ cmd'.todo = cmd.todo
        /\ cmd'.holder = cmd.holder /\ cmd'.checked = cmd.checked /\ cmd'.copied = cmd.copied
    BY <1>0 DEF CommandTypes
  <1>2. LegacyKey' = LegacyKey /\ Target' = Target
    BY <1>1 DEF LegacyKey, Principal, Target
  <1>3. LinksTypes'
    BY <1>0, <1>1 DEF LinksTypes, Committed, Sound
  <1>4. DraftFits'
    BY <1>0, <1>1 DEF DraftFits
  <1>5. RowFits'
    <2>1. CASE cmd.pc \in {"copy", "detach"}
      <3>1. /\ cmd.holder \in Accounts /\ Keys[cmd.holder].key = LegacyKey
            /\ LegacyKey \in cmd.checked /\ LegacyKey \in StorageKeys /\ LegacyKey # None
            /\ \A x \in rows[LegacyKey] : x.by = cmd.holder /\ ~x.late => x.kind = "report"
        BY <2>1, AtFileRow DEF RowFits
      <3>2. \A x \in rows'[LegacyKey] : x.by = cmd.holder /\ ~x.late => x.kind = "report"
        BY <2>1, <3>1
      <3> QED BY <1>0, <1>1, <1>2, <2>1, <3>1, <3>2 DEF RowFits
    <2>2. CASE cmd.pc \in {"attach", "insert"}
      <3>1. LegacyKey \in LegacyKeys
        BY <2>2, AtFileRow
      <3> QED BY <1>0, <1>1, <1>2, <2>2, <3>1 DEF RowFits
    <2>3. CASE cmd.pc = "merge"
      <3>1. LegacyKey \in LegacyKeys /\ Target \in Accounts
        BY <2>3, AtFileRow
      <3>2. Keys[Target].key \in cmd.checked /\ \A x \in rows[Keys[Target].key] : x.late
        BY <1>0, <2>3 DEF RowFits
      <3>3. Keys[Target].key \in StorageKeys /\ Keys'[Target] = Keys[Target]
        BY <1>0, <3>1, <3>2 DEF CommandTypes
      <3>4. \A x \in rows'[Keys[Target].key] : x.late
        BY <2>3, <3>2, <3>3
      <3> QED BY <1>0, <1>1, <1>2, <2>3, <3>1, <3>2, <3>3, <3>4 DEF RowFits
    <2>4. CASE cmd.pc \notin {"copy", "detach", "attach", "insert", "merge"}
      BY <1>1, <2>4 DEF RowFits
    <2> QED BY <2>1, <2>2, <2>3, <2>4
  <1> QED BY <1>3, <1>4, <1>5 DEF LinksInv

\* A request has its account's key.
LEMMA ResolveInv == ASSUME LinksInv, NEW a \in Accounts, Resolve(a) PROVE LinksInv'
  <1>0. LinksTypes /\ Committed /\ Seen /\ DraftFits /\ keys \in [Accounts -> KeyRows]
    BY InvParts DEF TablesTyped
  <1>1. /\ draft' = draft /\ cmd' = [cmd EXCEPT !.alone = FALSE] /\ fresh' = fresh
        /\ UNCHANGED <<keys, accts, pending, links, rows, owed, time>>
    BY DEF Resolve, Served, database
  <1>2. Keys' = Keys /\ Accts' = Accts /\ Pending' = Pending /\ Links' = Links
    BY <1>1 DEF Keys, Accts, Pending, Links
  <1>3. Committed' /\ Seen'
    BY <1>0, <1>1, <1>2 DEF Committed, Seen
  <1>4. /\ inflight' \in [Accounts -> StorageKeys \cup {None}] /\ fresh' \in [Accounts -> Nat]
    BY <1>0, <1>1, RowFields DEF Resolve, LinksTypes
  <1>5. \A b \in Accounts \ DOMAIN draft.keys :
            FenceOf(b, Accts, Pending)' \subseteq FenceOf(b, accts, pending)'
    BY <1>0, <1>1, <1>2 DEF DraftFits, FenceOf
  <1>6. \A b \in cmd.copied : owed'[b] \subseteq Pending'[b]
    BY <1>0, <1>1, <1>2 DEF DraftFits
  <1> QED BY <1>1, <1>2, <1>3, <1>4, <1>5, <1>6, ApiInv

\* A request writes under the key it resolved.
LEMMA WriteInv ==
  ASSUME LinksInv, NEW a \in Accounts, NEW kind \in {"data", "report"}, Write(a, kind)
  PROVE  LinksInv'
  <1> DEFINE k == inflight[a]
             x == Row(a, kind, ApiNow, \/ keys[a].key # k \/ "deleted" \in Fence(a)
                                       \/ cmd.pc # "idle" /\ k \in cmd.checked)
  <1>0. LinksTypes /\ Committed /\ Seen /\ DraftFits
        /\ TablesTyped(keys, accts, pending, links, rows, owed, time)
    BY InvParts
  <1>1. /\ draft' = draft /\ cmd' = [cmd EXCEPT !.alone = FALSE] /\ fresh' = fresh
        /\ UNCHANGED <<keys, accts, pending, links, owed, time>>
        /\ rows' = [rows EXCEPT ![k] = @ \cup {x}] /\ k # None
        /\ inflight' = [inflight EXCEPT ![a] = None]
    BY DEF Write, Served
  <1>2. Keys' = Keys /\ Accts' = Accts /\ Pending' = Pending /\ Links' = Links
    BY <1>1 DEF Keys, Accts, Pending, Links
  <1>3. k \in StorageKeys /\ time \in Nat /\ ApiNow \in Nat /\ a # None
    BY <1>0, <1>1 DEF LinksTypes, TablesTyped, ApiNow
  <1>4. x \in DataRows /\ x.by = a /\ x.time = 2 * time + 1
        /\ (~x.late => /\ keys[a].key = k /\ "deleted" \notin FenceOf(a, accts, pending)
                       /\ (cmd.pc # "idle" => k \notin cmd.checked))
    <2> DEFINE late == \/ keys[a].key # k \/ "deleted" \in Fence(a)
                       \/ cmd.pc # "idle" /\ k \in cmd.checked
    <2>1. x = [by |-> a, kind |-> kind, time |-> ApiNow, late |-> late] /\ late \in BOOLEAN
      BY DEF Row
    <2> HIDE DEF x, k
    <2>2. ~late => /\ keys[a].key = k /\ "deleted" \notin FenceOf(a, accts, pending)
                   /\ (cmd.pc # "idle" => k \notin cmd.checked)
      BY DEF Fence, FenceOf
    <2> HIDE DEF late
    <2> QED BY <1>3, <2>1, <2>2 DEF DataRows, ApiNow
  <1> HIDE DEF x, k
  <1>5. rows' \in [StorageKeys -> SUBSET DataRows]
        /\ \A s \in StorageKeys : \A y \in rows'[s] : y \in rows[s] \/ (y = x /\ s = k)
    BY <1>0, <1>1, <1>3, <1>4 DEF TablesTyped
  <1>6. Committed'
    <2>1. Sound(keys, accts, pending, links, rows', owed, time)
      BY <1>0, <1>4, <1>5, RowsSound DEF Committed
    <2> QED BY <1>1, <2>1 DEF Committed
  <1>7. ~x.late => Keys[a].key = k /\ "deleted" \notin FenceOf(a, Accts, Pending)
    <2> SUFFICES ASSUME ~x.late PROVE Keys[a].key = k /\ "deleted" \notin FenceOf(a, Accts, Pending)
      OBVIOUS
    <2>1. a \notin DOMAIN draft.keys
      <3> SUFFICES ASSUME a \in DOMAIN draft.keys PROVE FALSE
        OBVIOUS
      <3>1. cmd.pc # "idle"
        <4>1. DOMAIN NoDraft.keys = {}
          BY DEF NoDraft
        <4> QED BY <1>0, <4>1 DEF DraftFits
      <3> QED BY <1>0, <1>1, <1>4, <3>1 DEF DraftFits
    <2> QED BY <1>0, <1>4, <2>1, SeenTables DEF DraftFits
  <1>8. Seen'
    <2>1. Sound(Keys, Accts, Pending, Links, rows', owed, time)
      BY <1>0, <1>4, <1>5, <1>7, RowsSound DEF Seen
    <2> QED BY <1>1, <1>2, <2>1 DEF Seen
  <1>9. /\ inflight' \in [Accounts -> StorageKeys \cup {None}] /\ fresh' \in [Accounts -> Nat]
    BY <1>0, <1>1 DEF LinksTypes
  <1>10. \A b \in Accounts \ DOMAIN draft.keys :
            FenceOf(b, Accts, Pending)' \subseteq FenceOf(b, accts, pending)'
    BY <1>0, <1>1, <1>2 DEF DraftFits, FenceOf
  <1>11. \A b \in cmd.copied : owed'[b] \subseteq Pending'[b]
    BY <1>0, <1>1, <1>2 DEF DraftFits
  <1>12. \A s \in StorageKeys : \A y \in rows'[s] :
            y \in rows[s] \/ (cmd.pc # "idle" /\ s \in cmd.checked => y.late)
    BY <1>4, <1>5
  <1> QED BY <1>1, <1>2, <1>6, <1>8, <1>9, <1>10, <1>11, <1>12, ApiInv

\* Fences are added to the row of an account, or what is kept for it, that the
\* command has not written.
LEMMA ApiFences ==
  ASSUME LinksInv, NEW a \in Accounts, NEW x \in AccountRows, NEW y \in SUBSET Fences,
         NEW w \in SUBSET Fences, draft' = draft,
         accts' = [accts EXCEPT ![a] = x], pending' = [pending EXCEPT ![a] = y],
         owed' = [owed EXCEPT ![a] = w],
         a \notin DOMAIN draft.accts, a \notin DOMAIN draft.pending \/ y = pending[a],
         accts[a].fence \cap Fences \subseteq x.fence, pending[a] \subseteq y \cup x.fence,
         w \subseteq y \cup x.fence, w \subseteq Pending'[a] \cup x.fence,
         a \in cmd.copied => w \subseteq Pending'[a]
  PROVE  /\ Sound(keys, accts', pending', links, rows, owed', time)
         /\ Sound(Keys, Accts', Pending', Links, rows, owed', time)
         /\ \A b \in Accounts \ DOMAIN draft.keys :
              FenceOf(b, Accts, Pending)' \subseteq FenceOf(b, accts, pending)'
         /\ \A b \in cmd.copied : owed'[b] \subseteq Pending'[b]
  <1> DEFINE z == Pending'[a]
  <1>0. LinksTypes /\ Committed /\ Seen /\ DraftFits /\ cmd.copied \subseteq Accounts
    BY InvParts DEF CommandTypes
  <1>1. /\ accts \in [Accounts -> AccountRows] /\ pending \in [Accounts -> SUBSET Fences]
        /\ owed \in [Accounts -> SUBSET Fences]
    BY InvParts DEF TablesTyped
  <1>2. Accts' = [Accts EXCEPT ![a] = x] /\ Accts[a] = accts[a]
    BY <1>0, <1>1, SeenTables DEF Accts, Over
  <1>3. /\ Pending' = [Pending EXCEPT ![a] = z] /\ z \in SUBSET Fences
        /\ \/ z = y /\ Pending[a] = pending[a]
           \/ z = Pending[a] /\ y = pending[a]
    <2>1. CASE a \in DOMAIN draft.pending
      <3>1. Pending' = Pending
        BY <1>1, <2>1 DEF Pending, Over
      <3> QED BY <1>0, <2>1, <3>1, SeenTables
    <2>2. CASE a \notin DOMAIN draft.pending
      <3>1. Pending' = [Pending EXCEPT ![a] = y]
        BY <1>1, <2>2 DEF Pending, Over
      <3>2. Pending'[a] = y
        BY <1>0, <3>1, SeenTables
      <3> QED BY <1>0, <2>2, <3>1, <3>2, SeenTables
    <2> QED BY <2>1, <2>2
  <1> HIDE DEF z
  <1>4. Sound(keys, accts', pending', links, rows, owed', time)
    <2>1. FenceOf(a, accts, pending) \subseteq y \cup (x.fence \cap Fences)
      BY <1>1 DEF FenceOf
    <2>2. w \subseteq y \cup (x.fence \cap Fences)
      OBVIOUS
    <2> QED BY <1>0, <2>1, <2>2, FenceSound DEF Committed
  <1>5. Sound(Keys, Accts', Pending', Links, rows, owed', time)
    <2>1. FenceOf(a, Accts, Pending) \subseteq z \cup (x.fence \cap Fences)
      BY <1>1, <1>2, <1>3 DEF FenceOf
    <2>2. w \subseteq z \cup (x.fence \cap Fences)
      BY DEF z
    <2> QED BY <1>0, <1>2, <1>3, <2>1, <2>2, FenceSound DEF Seen
  <1>6. ASSUME NEW b \in Accounts \ DOMAIN draft.keys
        PROVE  FenceOf(b, Accts, Pending)' \subseteq FenceOf(b, accts, pending)'
    <2>1. FenceOf(b, Accts, Pending) \subseteq FenceOf(b, accts, pending)
      BY <1>0 DEF DraftFits
    <2>2. CASE b # a
      <3>1. Accts'[b] = Accts[b] /\ Pending'[b] = Pending[b] /\ accts'[b] = accts[b]
            /\ pending'[b] = pending[b]
        BY <1>0, <1>1, <1>2, <1>3, <2>2, SeenTables
      <3> QED BY <2>1, <3>1 DEF FenceOf
    <2>3. CASE b = a
      <3>1. Accts'[a] = x /\ Pending'[a] = z /\ accts'[a] = x /\ pending'[a] = y
        BY <1>0, <1>1, <1>2, <1>3, SeenTables
      <3>2. z \cup (x.fence \cap Fences) \subseteq y \cup (x.fence \cap Fences)
        BY <1>1, <1>2, <1>3, <2>1, <2>3 DEF FenceOf
      <3> QED BY <2>3, <3>1, <3>2 DEF FenceOf
    <2> QED BY <2>2, <2>3
  <1>7. ASSUME NEW b \in cmd.copied PROVE owed'[b] \subseteq Pending'[b]
    <2>1. CASE b = a
      BY <1>1, <2>1
    <2>2. CASE b # a
      <3>1. owed'[b] = owed[b] /\ Pending'[b] = Pending[b]
        BY <1>0, <1>1, <1>3, <2>2, SeenTables
      <3> QED BY <1>0, <3>1 DEF DraftFits
    <2> QED BY <2>1, <2>2
  <1> QED BY <1>4, <1>5, <1>6, <1>7

\* What Owe leaves.
LEMMA OweFacts ==
  ASSUME LinksInv, NEW a \in Accounts, NEW f \in SUBSET Fences, Owe(a, f), draft' = draft
  PROVE  \E w \in SUBSET Fences :
            /\ owed' = [owed EXCEPT ![a] = w] /\ w \subseteq owed[a] \cup f
            /\ a \in cmd.copied => w \subseteq Pending'[a] /\ w \subseteq owed[a]
  <1>1. owed \in [Accounts -> SUBSET Fences]
    BY InvParts DEF TablesTyped
  <1>2. CASE a \in cmd.copied
    <2>1. owed' = [owed EXCEPT ![a] = owed[a] \cap Pending'[a]]
      BY <1>2 DEF Owe, Pending
    <2>2. owed[a] \cap Pending'[a] \in SUBSET Fences
      BY <1>1
    <2> WITNESS owed[a] \cap Pending'[a] \in SUBSET Fences
    <2> QED BY <2>1
  <1>3. CASE a \notin cmd.copied
    <2>1. owed' = [owed EXCEPT ![a] = owed[a] \cup f]
      BY <1>3 DEF Owe
    <2>2. owed[a] \cup f \in SUBSET Fences
      BY <1>1
    <2> WITNESS owed[a] \cup f \in SUBSET Fences
    <2> QED BY <1>3, <2>1
  <1> QED BY <1>2, <1>3

\* What is owed is in the fences that hold.
LEMMA OwedHolds ==
  ASSUME LinksInv, NEW a \in Accounts
  PROVE  /\ owed[a] \subseteq pending[a] \cup (accts[a].fence \cap Fences)
         /\ owed[a] \subseteq Pending[a] \cup (Accts[a].fence \cap Fences)
         /\ accts[a] \in AccountRows /\ pending[a] \in SUBSET Fences
         /\ owed[a] \in SUBSET Fences
  <1>1. TablesTyped(keys, accts, pending, links, rows, owed, time) /\ Committed /\ Seen
    BY InvParts
  <1> QED BY <1>1 DEF TablesTyped, Committed, Seen, Sound, FencesHold, FenceOf

\* A key row that is not NoKey has a key.
LEMMA KeyIsReal ==
  ASSUME LinksInv, NEW a \in Accounts, keys[a] # NoKey
  PROVE  keys[a].key \in StorageKeys /\ keys[a].key # None
  <1>1. OwnKeys(keys)
    BY InvParts DEF Committed, Sound
  <1> QED BY <1>1 DEF OwnKeys, StorageKeys

\* The account has a new id, or another custodian.
LEMMA ChangeIdInv == ASSUME LinksInv, NEW a \in Accounts, ChangeId(a) PROVE LinksInv'
  <1> DEFINE x == [accts[a] EXCEPT !.changed = ApiNow]
  <1>0. /\ LinksTypes /\ accts \in [Accounts -> AccountRows] /\ time \in Nat
        /\ pending \in [Accounts -> SUBSET Fences] /\ owed \in [Accounts -> SUBSET Fences]
        /\ inflight \in [Accounts -> StorageKeys \cup {None}] /\ fresh \in [Accounts -> Nat]
        /\ DraftFits
    BY InvParts DEF TablesTyped, LinksTypes
  <1>1. /\ draft' = draft /\ cmd' = [cmd EXCEPT !.alone = FALSE]
        /\ UNCHANGED <<keys, pending, links, rows, owed, time, inflight, fresh>>
        /\ accts' = [accts EXCEPT ![a] = x] /\ a \notin DOMAIN draft.accts
    BY DEF ChangeId, Served
  <1>2. x \in AccountRows /\ x.fence = accts[a].fence
    <2>1. ApiNow \in Nat /\ accts[a] \in [fence : SUBSET Fences, changed : Nat]
      BY <1>0 DEF ApiNow, AccountRows, ChangeId
    <2>2. x \in [fence : SUBSET Fences, changed : Nat] /\ x.fence = accts[a].fence
      BY <2>1
    <2> QED BY <2>2 DEF AccountRows
  <1> HIDE DEF x
  <1>3. /\ pending' = [pending EXCEPT ![a] = pending[a]] /\ owed' = [owed EXCEPT ![a] = owed[a]]
        /\ Pending' = Pending /\ Keys' = Keys /\ Links' = Links
    BY <1>0, <1>1 DEF Pending, Keys, Links
  <1>4. Accts[a] = accts[a]
    BY <1>0, <1>1, SeenTables
  <1>5. /\ owed[a] \subseteq pending[a] \cup x.fence /\ owed[a] \subseteq Pending'[a] \cup x.fence
        /\ a \in cmd.copied => owed[a] \subseteq Pending'[a]
    BY <1>0, <1>2, <1>3, <1>4, OwedHolds DEF DraftFits
  <1>6. /\ Sound(keys, accts', pending', links, rows, owed', time)
        /\ Sound(Keys, Accts', Pending', Links, rows, owed', time)
        /\ \A b \in Accounts \ DOMAIN draft.keys :
             FenceOf(b, Accts, Pending)' \subseteq FenceOf(b, accts, pending)'
        /\ \A b \in cmd.copied : owed'[b] \subseteq Pending'[b]
    BY <1>0, <1>1, <1>2, <1>3, <1>5, ApiFences
  <1>7. Committed' /\ Seen'
    BY <1>1, <1>3, <1>6 DEF Committed, Seen
  <1> QED BY <1>0, <1>1, <1>3, <1>6, <1>7, ApiInv

\* Sign-ins are ended.
LEMMA SignOutInv == ASSUME LinksInv, NEW a \in Accounts, SignOut(a) PROVE LinksInv'
  <1>0. /\ LinksTypes /\ accts \in [Accounts -> AccountRows]
        /\ pending \in [Accounts -> SUBSET Fences] /\ DraftFits
        /\ inflight \in [Accounts -> StorageKeys \cup {None}] /\ fresh \in [Accounts -> Nat]
    BY InvParts DEF TablesTyped, LinksTypes
  <1>1. /\ draft' = draft /\ cmd' = [cmd EXCEPT !.alone = FALSE] /\ Owe(a, {"signed_out"})
        /\ UNCHANGED <<keys, links, rows, time, inflight, fresh>>
        /\ {"signed_out"} \in SUBSET Fences
    BY DEF SignOut, Served, Fences
  <1>2. PICK w \in SUBSET Fences :
            /\ owed' = [owed EXCEPT ![a] = w] /\ w \subseteq owed[a] \cup {"signed_out"}
            /\ a \in cmd.copied => w \subseteq Pending'[a] /\ w \subseteq owed[a]
    BY <1>1, OweFacts
  <1>3. Keys' = Keys /\ Links' = Links
    BY <1>1 DEF Keys, Links
  <1>4. PICK x \in AccountRows, y \in SUBSET Fences :
            /\ accts' = [accts EXCEPT ![a] = x] /\ pending' = [pending EXCEPT ![a] = y]
            /\ a \notin DOMAIN draft.accts /\ (a \notin DOMAIN draft.pending \/ y = pending[a])
            /\ accts[a].fence \cap Fences \subseteq x.fence /\ pending[a] \subseteq y
            /\ "signed_out" \in x.fence \/ ("signed_out" \in y /\ a \notin DOMAIN draft.pending)
    <2>1. CASE /\ accts[a] # NoAccount /\ a \notin DOMAIN draft.accts
               /\ accts' = [accts EXCEPT ![a].fence = @ \cup {"signed_out"}]
               /\ pending' = pending
      <3> DEFINE x == [accts[a] EXCEPT !.fence = @ \cup {"signed_out"}]
      <3>1. accts[a] \in [fence : SUBSET Fences, changed : Nat]
        BY <1>0, <2>1 DEF AccountRows
      <3>2. x \in AccountRows /\ x.fence = accts[a].fence \cup {"signed_out"}
        BY <1>1, <3>1 DEF AccountRows
      <3>3. accts' = [accts EXCEPT ![a] = x] /\ pending' = [pending EXCEPT ![a] = pending[a]]
        BY <1>0, <2>1
      <3> HIDE DEF x
      <3> QED BY <1>0, <2>1, <3>2, <3>3
    <2>2. CASE /\ accts[a] = NoAccount /\ ~Locked(a) /\ accts' = accts
               /\ pending' = [pending EXCEPT ![a] = @ \cup {"signed_out"}]
      <3>1. accts' = [accts EXCEPT ![a] = accts[a]] /\ accts[a] \in AccountRows
            /\ pending[a] \cup {"signed_out"} \in SUBSET Fences
        BY <1>0, <1>1, <2>2
      <3>2. a \notin DOMAIN draft.accts /\ a \notin DOMAIN draft.pending
        BY <2>2 DEF Locked
      <3> QED BY <2>2, <3>1, <3>2
    <2> QED BY <2>1, <2>2 DEF SignOut
  <1>5. Pending'[a] = IF a \in DOMAIN draft.pending THEN Pending[a] ELSE y
    BY <1>0, <1>1, <1>4, SeenTables DEF Pending, Over
  <1>6. Accts[a] = accts[a] /\ (a \notin DOMAIN draft.pending => Pending[a] = pending[a])
    BY <1>0, <1>4, SeenTables
  <1>7. w \subseteq y \cup x.fence /\ w \subseteq Pending'[a] \cup x.fence
    BY <1>2, <1>4, <1>5, <1>6, OwedHolds
  <1>8. /\ Sound(keys, accts', pending', links, rows, owed', time)
        /\ Sound(Keys, Accts', Pending', Links, rows, owed', time)
        /\ \A b \in Accounts \ DOMAIN draft.keys :
             FenceOf(b, Accts, Pending)' \subseteq FenceOf(b, accts, pending)'
        /\ \A b \in cmd.copied : owed'[b] \subseteq Pending'[b]
    BY <1>1, <1>2, <1>4, <1>7, ApiFences
  <1>9. Committed' /\ Seen'
    BY <1>1, <1>3, <1>8 DEF Committed, Seen
  <1> QED BY <1>0, <1>1, <1>3, <1>8, <1>9, ApiInv

\* The command has not written the links of a key that is purged.
LEMMA PurgedLinks ==
  ASSUME LinksTypes, NEW s, draft' = draft, links' = Purged(links, s),
         \A p \in DOMAIN draft.links : KeyOf[p] # s
  PROVE  Links' = Purged(Links, s)
  <1>1. links \in [Principals -> LinkRows]
    BY DEF LinksTypes, TablesTyped
  <1>2. Links = [p \in Principals |-> IF p \in DOMAIN draft.links THEN draft.links[p] ELSE links[p]]
    BY <1>1 DEF Links, Over
  <1>3. Links' = [p \in Principals |->
                    IF p \in DOMAIN draft.links THEN draft.links[p] ELSE Purged(links, s)[p]]
    BY <1>1 DEF Links, Over, Purged
  <1>4. \A p \in Principals :
          (IF p \in DOMAIN draft.links THEN draft.links[p] ELSE Purged(links, s)[p])
            = IF KeyOf[p] = s THEN NoLink ELSE Links[p]
    BY <1>2 DEF Purged
  <1> QED BY <1>3, <1>4 DEF Purged

\* The account is deleted.
LEMMA DeleteInv == ASSUME LinksInv, NEW a \in Accounts, Delete(a) PROVE LinksInv'
  <1> DEFINE k == keys[a].key
  <1>0. /\ LinksTypes /\ Committed /\ Seen /\ accts \in [Accounts -> AccountRows]
        /\ keys \in [Accounts -> KeyRows] /\ rows \in [StorageKeys -> SUBSET DataRows]
        /\ pending \in [Accounts -> SUBSET Fences] /\ DraftFits
        /\ inflight \in [Accounts -> StorageKeys \cup {None}] /\ fresh \in [Accounts -> Nat]
    BY InvParts DEF TablesTyped, LinksTypes
  <1>1. /\ draft' = draft /\ cmd' = [cmd EXCEPT !.alone = FALSE] /\ Owe(a, Fences)
        /\ UNCHANGED <<keys, time, inflight, fresh>>
        /\ a \notin DOMAIN draft.keys /\ a \notin DOMAIN draft.accts
        /\ a \notin DOMAIN draft.pending /\ Fences \in SUBSET Fences
    BY DEF Delete, Served, Locked
  <1>2. PICK w \in SUBSET Fences :
            /\ owed' = [owed EXCEPT ![a] = w] /\ w \subseteq owed[a] \cup Fences
            /\ a \in cmd.copied => w \subseteq Pending'[a] /\ w \subseteq owed[a]
    BY <1>1, OweFacts
  <1>3. Keys' = Keys /\ Keys[a] = keys[a] /\ Accts[a] = accts[a] /\ Pending[a] = pending[a]
    BY <1>0, <1>1, SeenTables DEF Keys
  <1>4. CASE keys[a] # NoKey
    <2> DEFINE x == [accts[a] EXCEPT !.fence = Fences]
    <2>1. /\ \A p \in DOMAIN draft.links : KeyOf[p] # k
          /\ rows' = [rows EXCEPT ![k] = {}] /\ links' = Purged(links, k)
          /\ accts' = [accts EXCEPT ![a].fence = Fences] /\ pending' = [pending EXCEPT ![a] = {}]
      BY <1>4 DEF Delete, Purge, Purged
    <2>2. k \in StorageKeys /\ k # None
      BY <1>0, <1>4, KeyIsReal
    <2>3. x \in AccountRows /\ x.fence = Fences /\ accts' = [accts EXCEPT ![a] = x]
      <3>1. x = [fence |-> Fences, changed |-> accts[a].changed] /\ accts[a].changed \in Nat
        BY <1>0, AccountRow
      <3> QED BY <1>0, <2>1, <3>1 DEF AccountRows
    <2> HIDE DEF x
    <2>4. /\ Sound(keys, accts', pending', links, rows, owed', time)
          /\ Sound(Keys, Accts', Pending', Links, rows, owed', time)
          /\ \A b \in Accounts \ DOMAIN draft.keys :
               FenceOf(b, Accts, Pending)' \subseteq FenceOf(b, accts, pending)'
          /\ \A b \in cmd.copied : owed'[b] \subseteq Pending'[b]
      <3>1. /\ accts[a].fence \cap Fences \subseteq x.fence /\ pending[a] \subseteq {} \cup x.fence
            /\ w \subseteq {} \cup x.fence /\ w \subseteq Pending'[a] \cup x.fence
        BY <1>0, <2>3
      <3> HIDE DEF k
      <3> QED BY <1>1, <1>2, <2>1, <2>3, <3>1, ApiFences
    <2>5. accts'[a] = x /\ Accts'[a] = x
      BY <1>0, <1>1, <2>3 DEF Accts, Over
    <2>6. "deleted" \in FenceOf(a, accts', pending') /\ "deleted" \in FenceOf(a, Accts', Pending')
      BY <2>3, <2>5 DEF FenceOf, Fences
    <2>7. Committed'
      <3>1. Sound(keys, accts', pending', Purged(links, k), [rows EXCEPT ![k] = {}], owed', time)
        BY <2>2, <2>4, <2>6, PurgedSound
      <3> QED BY <1>1, <2>1, <3>1 DEF Committed
    <2>8. Seen'
      <3>1. Sound(Keys, Accts', Pending', Purged(Links, k), [rows EXCEPT ![k] = {}], owed', time)
        BY <1>3, <2>2, <2>4, <2>6, PurgedSound
      <3>2. Links' = Purged(Links, k)
        BY <1>0, <1>1, <2>1, PurgedLinks
      <3> QED BY <1>1, <1>3, <2>1, <3>1, <3>2 DEF Seen
    <2>9. \A s \in StorageKeys : rows'[s] \subseteq rows[s]
      BY <1>0, <2>1
    <2> QED BY <1>0, <1>1, <1>3, <2>4, <2>7, <2>8, <2>9, ApiInv
  <1>5. CASE keys[a] = NoKey
    <2>1. UNCHANGED <<accts, links, rows>> /\ pending' = [pending EXCEPT ![a] = Fences]
      BY <1>5 DEF Delete
    <2>2. accts' = [accts EXCEPT ![a] = accts[a]] /\ accts[a] \in AccountRows
          /\ Pending'[a] = Fences /\ Links' = Links
      BY <1>0, <1>1, <2>1 DEF Pending, Over, Links
    <2>3. /\ Sound(keys, accts', pending', links, rows, owed', time)
          /\ Sound(Keys, Accts', Pending', Links, rows, owed', time)
          /\ \A b \in Accounts \ DOMAIN draft.keys :
               FenceOf(b, Accts, Pending)' \subseteq FenceOf(b, accts, pending)'
          /\ \A b \in cmd.copied : owed'[b] \subseteq Pending'[b]
      <3>1. /\ accts[a].fence \cap Fences \subseteq accts[a].fence
            /\ pending[a] \subseteq Fences \cup accts[a].fence
            /\ w \subseteq Fences \cup accts[a].fence
            /\ w \subseteq Pending'[a] \cup accts[a].fence
        BY <1>0, <2>2
      <3> QED BY <1>1, <1>2, <2>1, <2>2, <3>1, ApiFences
    <2>4. Committed' /\ Seen'
      BY <1>1, <1>3, <2>1, <2>2, <2>3 DEF Committed, Seen
    <2> QED BY <1>0, <1>1, <1>3, <2>1, <2>3, <2>4, ApiInv
  <1> QED BY <1>4, <1>5

\* The account is seen: it has a key, and what was kept for it is on its row.
LEMMA SightInv == ASSUME LinksInv, NEW a \in Accounts, Sight(a) PROVE LinksInv'
  <1> DEFINE k == keys'[a].key
  <1>0. /\ LinksTypes /\ Committed /\ Seen /\ accts \in [Accounts -> AccountRows]
        /\ keys \in [Accounts -> KeyRows] /\ rows \in [StorageKeys -> SUBSET DataRows]
        /\ pending \in [Accounts -> SUBSET Fences] /\ DraftFits
        /\ inflight \in [Accounts -> StorageKeys \cup {None}] /\ fresh \in [Accounts -> Nat]
    BY InvParts DEF TablesTyped, LinksTypes
  <1>1. /\ draft' = draft /\ cmd' = [cmd EXCEPT !.alone = FALSE] /\ Owe(a, {})
        /\ UNCHANGED <<time, inflight>> /\ pending' = [pending EXCEPT ![a] = {}]
        /\ a \notin DOMAIN draft.keys /\ a \notin DOMAIN draft.accts
        /\ a \notin DOMAIN draft.pending /\ {} \in SUBSET Fences
    BY DEF Sight, Served, Locked
  <1>2. PICK w \in SUBSET Fences :
            /\ owed' = [owed EXCEPT ![a] = w] /\ w \subseteq owed[a] \cup {}
            /\ a \in cmd.copied => w \subseteq Pending'[a] /\ w \subseteq owed[a]
    BY <1>1, OweFacts
  <1>3. Keys[a] = keys[a] /\ Accts[a] = accts[a] /\ Pending[a] = pending[a]
    BY <1>0, <1>1, SeenTables
  <1>4. PICK x \in AccountRows :
            /\ accts' = [accts EXCEPT ![a] = x]
            /\ accts[a].fence \cap Fences \subseteq x.fence /\ pending[a] \subseteq x.fence
    <2>1. CASE accts' = [accts EXCEPT ![a] = [fence |-> Fences, changed |-> 0]]
      <3>1. [fence |-> Fences, changed |-> 0] \in AccountRows
        BY DEF AccountRows
      <3> WITNESS [fence |-> Fences, changed |-> 0] \in AccountRows
      <3> QED BY <1>0, <2>1
    <2>2. CASE /\ accts[a] = NoAccount
               /\ accts' = [accts EXCEPT ![a] = [fence |-> pending[a], changed |-> 0]]
      <3>1. [fence |-> pending[a], changed |-> 0] \in AccountRows
        BY <1>0 DEF AccountRows
      <3>2. accts[a].fence \cap Fences = {}
        BY <2>2 DEF NoAccount, Fences
      <3> WITNESS [fence |-> pending[a], changed |-> 0] \in AccountRows
      <3> QED BY <2>2, <3>2
    <2>3. CASE /\ accts[a] # NoAccount
               /\ accts' = [accts EXCEPT ![a] =
                              [accts[a] EXCEPT !.fence = accts[a].fence \cup pending[a]]]
      <3> DEFINE x == [accts[a] EXCEPT !.fence = accts[a].fence \cup pending[a]]
      <3>1. accts[a] \in [fence : SUBSET Fences, changed : Nat] /\ pending[a] \in SUBSET Fences
        BY <1>0, <2>3 DEF AccountRows
      <3>2. /\ x \in [fence : SUBSET Fences, changed : Nat]
            /\ x.fence = accts[a].fence \cup pending[a]
        BY <3>1
      <3>3. x \in AccountRows
        BY <3>2 DEF AccountRows
      <3> HIDE DEF x
      <3>4. accts' = [accts EXCEPT ![a] = x]
        BY <2>3 DEF x
      <3> QED BY <3>2, <3>3, <3>4
    <2> QED BY <2>1, <2>2, <2>3 DEF Sight
  <1>5. /\ Sound(keys, accts', pending', links, rows, owed', time)
        /\ Sound(Keys, Accts', Pending', Links, rows, owed', time)
        /\ \A b \in Accounts \ DOMAIN draft.keys :
             FenceOf(b, Accts, Pending)' \subseteq FenceOf(b, accts, pending)'
        /\ \A b \in cmd.copied : owed'[b] \subseteq Pending'[b]
    <2>1. /\ pending[a] \subseteq {} \cup x.fence
          /\ w \subseteq {} \cup x.fence /\ w \subseteq Pending'[a] \cup x.fence
      BY <1>0, <1>2, <1>4, OwedHolds
    <2> HIDE DEF k
    <2> QED BY <1>1, <1>2, <1>4, <2>1, ApiFences
  <1>6. /\ Sound(keys', accts', pending', links, rows, owed', time)
        /\ Sound(Keys', Accts', Pending', Links, rows, owed', time)
        /\ k \in StorageKeys /\ k # None /\ Keys'[a] = keys'[a] /\ fresh' \in [Accounts -> Nat]
        /\ \A b \in DOMAIN draft.keys : keys'[b] = keys[b]
        /\ \A b \in Accounts :
             Keys'[b] = Keys[b] \/ (Keys[b].key = None /\ Keys'[b].key \notin LegacyKeys)
    <2>1. CASE keys[a] # NoKey
      <3>1. keys' = keys /\ fresh' = fresh /\ Keys' = Keys
        BY <1>1, <2>1 DEF Sight, Keys
      <3> QED BY <1>0, <1>3, <1>5, <2>1, <3>1, KeyIsReal
    <2>2. CASE keys[a] = NoKey
      <3> DEFINE s == <<a, fresh[a] + 1>>
                 v == [key |-> s, source |-> "sign_in"]
      <3>1. /\ keys' = [keys EXCEPT ![a] = v]
            /\ fresh' = [fresh EXCEPT ![a] = fresh[a] + 1] /\ fresh[a] < MaxFresh
        BY <2>2 DEF Sight
      <3>2. fresh[a] \in Nat
        BY <1>0
      <3>3. s \in FreshKeys(a) /\ fresh' \in [Accounts -> Nat]
        BY <1>0, <3>1, <3>2 DEF FreshKeys
      <3>4. s \in StorageKeys /\ s # None /\ s \notin LegacyKeys
        BY <3>3 DEF StorageKeys
      <3> HIDE DEF s
      <3>5. Keys' = [Keys EXCEPT ![a] = v] /\ v.key = s
        <4>1. v.key = s
          OBVIOUS
        <4> HIDE DEF v
        <4>2. Keys' = Over(draft.keys, [keys EXCEPT ![a] = v])
          BY <1>1, <3>1 DEF Keys
        <4>3. \A b \in Accounts : Keys'[b] = [Keys EXCEPT ![a] = v][b]
          BY <1>0, <1>1, <4>2 DEF Keys, Over
        <4> QED BY <1>0, <4>1, <4>2, <4>3 DEF Keys, Over
      <3>6. keys[a].key = None /\ Keys[a].key = None
        BY <1>3, <2>2 DEF NoKey
      <3>7. keys'[a] = v /\ Keys'[a] = v /\ Keys \in [Accounts -> KeyRows]
        BY <1>0, <3>1, <3>5, SeenTables
      <3>8. Sound([keys EXCEPT ![a] = v], accts', pending', links, rows, owed', time)
        BY <1>5, <3>3, <3>6, KeyMadeSound
      <3>9. Sound([Keys EXCEPT ![a] = v], Accts', Pending', Links, rows, owed', time)
        BY <1>5, <3>3, <3>6, KeyMadeSound
      <3> HIDE DEF v
      <3>10. \A b \in DOMAIN draft.keys : keys'[b] = keys[b]
        <4>1. DOMAIN draft.keys \subseteq Accounts
          BY <1>0, DraftParts, PartialOn DEF LinksTypes
        <4> QED BY <1>0, <1>1, <3>1, <4>1
      <3> QED BY <3>1, <3>3, <3>4, <3>5, <3>6, <3>7, <3>8, <3>9, <3>10
    <2> QED BY <2>1, <2>2
  <1>7. CASE /\ \A p \in DOMAIN draft.links : KeyOf[p] # k
             /\ rows' = [rows EXCEPT ![k] = {}] /\ links' = Purged(links, k)
             /\ accts' = [accts EXCEPT ![a] = [fence |-> Fences, changed |-> 0]]
    <2>1. accts'[a].fence = Fences /\ Accts'[a] = accts'[a]
      BY <1>0, <1>1, <1>7 DEF Accts, Over
    <2>2. "deleted" \in FenceOf(a, accts', pending') /\ "deleted" \in FenceOf(a, Accts', Pending')
      BY <2>1 DEF FenceOf, Fences
    <2>3. Committed'
      <3>1. Sound(keys', accts', pending', Purged(links, k), [rows EXCEPT ![k] = {}], owed', time)
        BY <1>6, <2>2, PurgedSound
      <3> QED BY <1>1, <1>7, <3>1 DEF Committed
    <2>4. Seen'
      <3>1. Sound(Keys', Accts', Pending', Purged(Links, k), [rows EXCEPT ![k] = {}], owed', time)
        BY <1>6, <2>2, PurgedSound
      <3>2. Links' = Purged(Links, k)
        BY <1>0, <1>1, <1>7, PurgedLinks
      <3> QED BY <1>1, <1>7, <3>1, <3>2 DEF Seen
    <2>5. \A s \in StorageKeys : rows'[s] \subseteq rows[s]
      BY <1>0, <1>7
    <2> HIDE DEF k
    <2> QED BY <1>0, <1>1, <1>5, <1>6, <2>3, <2>4, <2>5, ApiInv
  <1>8. CASE UNCHANGED <<rows, links>>
    <2>1. Links' = Links
      BY <1>1, <1>8 DEF Links
    <2>2. Committed' /\ Seen'
      BY <1>1, <1>6, <1>8, <2>1 DEF Committed, Seen
    <2> HIDE DEF k
    <2> QED BY <1>0, <1>1, <1>5, <1>6, <1>8, <2>2, ApiInv
  <1> QED BY <1>7, <1>8 DEF Sight, Purged
-----------------------------------------------------------------------------
(***************************************************************************)
(* The theorems                                                            *)
(***************************************************************************)

\* At the start nothing is linked and every legacy key has its one row.
LEMMA LinksInitInv == LinksInit => LinksInv
  <1> SUFFICES ASSUME LinksInit PROVE LinksInv
    OBVIOUS
  <1>1. cmd = Idle /\ draft = NoDraft /\ cmd \in CommandTypes /\ draft \in DraftTypes
    BY IdleFacts DEF LinksInit
  <1>2. TablesTyped(keys, accts, pending, links, rows, owed, time)
    <2>1. NoKey \in KeyRows /\ NoAccount \in AccountRows /\ Unlinked \in LinkRows
          /\ NoLink \in LinkRows
      BY DEF NoKey, KeyRows, NoAccount, AccountRows, Unlinked, NoLink, LinkRows
    <2>2. Row(None, "setting", 0, FALSE) \in DataRows /\ Row(None, "data", 0, FALSE) \in DataRows
      BY DEF Row, DataRows
    <2>3. rows \in [StorageKeys -> SUBSET DataRows]
      BY <2>2 DEF LinksInit
    <2> QED BY <2>1, <2>3 DEF LinksInit, TablesTyped
  <1>3. /\ \A a \in Accounts : keys[a] = NoKey /\ owed[a] = {}
        /\ \A p \in Principals : links[p].at = 0
        /\ \A s \in StorageKeys : \A x \in rows[s] : x.by = None
        /\ time = 0
    BY DEF LinksInit, Unlinked, NoLink, Row
  <1>4. Committed
    <2>1. OneHolder(keys) /\ OwnKeys(keys) /\ LinksKept(keys, accts, pending, links, rows)
      BY <1>3 DEF OneHolder, OwnKeys, LinksKept, NoKey
    <2>2. StaysUnder(keys, rows) /\ FencesHold(accts, pending, owed)
      BY <1>3 DEF StaysUnder, FencesHold
    <2>3. LinkTimes(links, time)
      BY <1>3 DEF LinkTimes
    <2> QED BY <1>2, <2>1, <2>2, <2>3 DEF Committed, Sound
  <1>5. Keys = keys /\ Accts = accts /\ Pending = pending /\ Links = links
    BY <1>1, <1>2 DEF NoDraft, Keys, Accts, Pending, Links, Over, TablesTyped
  <1>6. Seen
    BY <1>4, <1>5 DEF Committed, Seen
  <1>7. DraftFits /\ RowFits
    BY <1>1, <1>5 DEF DraftFits, RowFits, Idle, NoDraft
  <1>8. LinksTypes
    BY <1>1, <1>2 DEF LinksInit, LinksTypes
  <1> QED BY <1>4, <1>6, <1>7, <1>8 DEF LinksInv

\* A step of the command or of the API, or none, keeps the invariant.
LEMMA LinksNextInv == LinksInv /\ [LinksNext]_linkVars => LinksInv'
  <1> SUFFICES ASSUME LinksInv, [LinksNext]_linkVars PROVE LinksInv'
    OBVIOUS
  <1>1. CASE Command
    BY <1>1, BeginInv, UnmatchedInv, AlreadyLinkedInv, HeldByAnotherInv, NotHeldInv, CopyFenceInv,
       DetachInv, AttachInv, MergeInv, InsertInv, CommitInv, RollbackInv DEF Command
  <1>2. ASSUME NEW a \in Accounts, Api(a) PROVE LinksInv'
    BY <1>2, SightInv, ResolveInv, ChangeIdInv, SignOutInv, DeleteInv, WriteInv DEF Api
  <1>3. CASE UNCHANGED linkVars
    <2>1. UNCHANGED <<keys, accts, pending, links, rows, cmd, draft, inflight, fresh, time, owed>>
      BY <1>3 DEF linkVars, database
    <2>2. Keys' = Keys /\ Accts' = Accts /\ Pending' = Pending /\ Links' = Links
      BY <2>1 DEF Keys, Accts, Pending, Links
    <2>3. LinksTypes' /\ Committed' /\ Seen'
      BY <2>1, <2>2 DEF LinksInv, LinksTypes, Committed, Seen
    <2>4. DraftFits' /\ RowFits'
      BY <2>1, <2>2 DEF LinksInv, DraftFits, RowFits, FenceOf, LegacyKey, Principal, Target
    <2> QED BY <2>3, <2>4 DEF LinksInv
  <1> QED BY <1>1, <1>2, <1>3 DEF LinksNext

\* link_identities beside a serving API: the tables are sound, as they are
\* committed and as the command's transaction sees them, at every one of its steps.
THEOREM LinksInvariant == LinksSpec => []LinksInv
  BY LinksInitInv, LinksNextInv, PTL DEF LinksSpec

\* used_since_link, key_has_data: whatever files are run with whatever options,
\* and whatever the API does meanwhile, no key moves to another account with
\* activity of the one it had.
THEOREM ActivityIsNotTransferred == LinksSpec => []ActivityStays
  <1>1. LinksInv => ActivityStays
    BY InvParts DEF Committed, Sound, StaysUnder, ActivityStays
  <1> QED BY <1>1, LinksInvariant, PTL

\* link_one: a sign-out or a deletion stands through every correction of the
\* mapping and the next first sighting.
THEOREM FencesStand == LinksSpec => []FencesSurvive
  <1>1. LinksInv => FencesSurvive
    BY InvParts DEF Committed, Sound, FencesHold, FenceOf, FencesSurvive, Fence
  <1> QED BY <1>1, LinksInvariant, PTL

\* One key has one account, in the database and in the command's view of it.
THEOREM KeysHaveOneAccount == LinksSpec => [](OneHolder(keys) /\ OneHolder(Keys))
  <1>1. LinksInv => OneHolder(keys) /\ OneHolder(Keys)
    BY InvParts DEF Committed, Seen, Sound
  <1> QED BY <1>1, LinksInvariant, PTL
-----------------------------------------------------------------------------
(***************************************************************************)
(* What a run leaves for each row of its file                              *)
(***************************************************************************)
InFile(x, file) == \E i \in DOMAIN file : file[i] = x

\* Legacy, for any links and rows.
HasData(p, l, r) ==
    IF p \in Named THEN l[p].row ELSE \E y \in r[KeyOf[p]] : y.kind = "data"
HasNothing(p, l, r) == IF p \in Named THEN ~l[p].row ELSE r[KeyOf[p]] = {}

\* A row of the file has nothing to link, or is linked.
RowLinked(x, k, l, r) ==
    \/ HasNothing(x.principal, l, r)
    \/ /\ HasData(x.principal, l, r)
       /\ k[x.account].key = KeyOf[x.principal]
       /\ l[x.principal].account = x.account

\* Provider keys that are not sealed yet are data of their legacy key.
UnfoldedFits == \A k \in unfolded : k \in StorageKeys /\ rows[k] # {}

\* What is still to do is of the file.
TodoFits == cmd.pc # "idle" =>
    /\ cmd.mapping \in Mappings /\ cmd.options \in Options
    /\ ParseMapping(cmd.mapping)
    /\ \A x \in FileRows : InFile(x, cmd.todo) => InFile(x, cmd.mapping)

\* A row that the run is past is linked, and the run knows its key and account.
RowDone(x) ==
    /\ RowLinked(x, Keys, Links, rows)
    /\ HasData(x.principal, Links, rows) =>
         /\ x.account \in DOMAIN cmd.sources
         /\ cmd.sources[x.account] = KeyOf[x.principal]
         /\ KeyOf[x.principal] \in cmd.linked

\* A row that is found unambiguous.
RowFound ==
    /\ HasData(Principal, Links, rows)
    /\ Target \in DOMAIN cmd.sources /\ cmd.sources[Target] = LegacyKey
    /\ \A a \in DOMAIN cmd.sources : a # Target => cmd.sources[a] # LegacyKey

\* A run beside which the API does nothing: each row of its file is still to do
\* or done.
RunFits == cmd.alone /\ cmd.pc \notin {"idle", "conflict"} =>
    /\ \A x \in FileRows : InFile(x, cmd.mapping) => InFile(x, cmd.todo) \/ RowDone(x)
    /\ cmd.pc # "row" => RowFound
    /\ cmd.pc \in {"copy", "detach"} => cmd.holder # Target
    /\ cmd.pc = "insert" => Keys[Target] = NoKey

\* What the last run has left, while the API has done nothing since it began.
LastFits ==
    \A m \in Mappings, o \in Options : last = <<m, o>> =>
        \A x \in FileRows : InFile(x, m) =>
            /\ RowLinked(x, keys, links, rows)
            /\ HasData(x.principal, links, rows) /\ "vault" \in o =>
                 KeyOf[x.principal] \notin unfolded

\* The same file again: the command sees the tables as they are and has nothing
\* to seal.
RerunFits == last = <<cmd.mapping, cmd.options>> /\ cmd.pc # "idle" =>
    /\ cmd.pc = "row"
    /\ Keys = keys /\ Accts = accts /\ Pending = pending /\ Links = links
    /\ \A a \in DOMAIN cmd.sources : keys[a].key = cmd.sources[a]
    /\ "vault" \in cmd.options => cmd.linked \cap unfolded = {}

\* The inductive invariant behind the re-run.
RerunInv ==
    /\ UnfoldedFits
    /\ TodoFits
    /\ RunFits
    /\ LastFits
    /\ RerunFits

\* What is remembered of a command is not the empty tuple.
LEMMA PairIsSomething == \A x, y : <<x, y>> # <<>>
  <1> SUFFICES ASSUME NEW x, NEW y, <<x, y>> = <<>> PROVE FALSE
    OBVIOUS
  <1>1. Len(<<x, y>>) = 2 /\ Len(<<>>) = 0
    OBVIOUS
  <1> QED BY <1>1

\* legacy_key tells principals with data, without any, and of no known kind.
LEMMA LegacyCases ==
  ASSUME NEW p \in Principals
  PROVE  /\ Legacy(p) = "found" <=> HasData(p, Links, rows)
         /\ Legacy(p) = "no_data" <=> HasNothing(p, Links, rows)
         /\ ~(HasData(p, Links, rows) /\ HasNothing(p, Links, rows))
  BY DEF Legacy, HasData, HasNothing

\* The rows of a file, and of the rest of it.
LEMMA FileTail ==
  ASSUME NEW t \in Seq(FileRows), t # <<>>
  PROVE  /\ InFile(Head(t), t) /\ Head(t) \in FileRows
         /\ \A x : InFile(x, Tail(t)) => InFile(x, t)
         /\ \A x : InFile(x, t) => x = Head(t) \/ InFile(x, Tail(t))
  <1>1. Len(t) \in Nat /\ Len(t) > 0 /\ DOMAIN t = 1 .. Len(t) /\ Head(t) = t[1] /\ t[1] \in FileRows
    OBVIOUS
  <1>2. /\ DOMAIN Tail(t) = 1 .. Len(t) - 1
        /\ \A j \in 1 .. Len(t) - 1 : Tail(t)[j] = t[j + 1]
    BY <1>1
  <1>3. ASSUME NEW x, InFile(x, Tail(t)) PROVE InFile(x, t)
    <2>1. PICK j \in 1 .. Len(t) - 1 : t[j + 1] = x
      BY <1>2, <1>3 DEF InFile
    <2>2. j + 1 \in DOMAIN t
      BY <1>1, <2>1
    <2> QED BY <2>1, <2>2 DEF InFile
  <1>4. ASSUME NEW x, InFile(x, t), x # Head(t) PROVE InFile(x, Tail(t))
    <2>1. PICK j \in 1 .. Len(t) : t[j] = x
      BY <1>1, <1>4 DEF InFile
    <2>2. j - 1 \in 1 .. Len(t) - 1 /\ (j - 1) + 1 = j
      BY <1>1, <1>4, <2>1
    <2> QED BY <1>2, <2>1, <2>2 DEF InFile
  <1>5. 1 \in DOMAIN t
    BY <1>1
  <1> QED BY <1>1, <1>3, <1>4, <1>5 DEF InFile

\* A principal has one account in a file that has been parsed.
LEMMA OneAccount ==
  ASSUME NEW m, ParseMapping(m), NEW x, NEW y, InFile(x, m), InFile(y, m),
         x.principal = y.principal
  PROVE  x.account = y.account
  BY DEF ParseMapping, InFile

\* The row at which the command is.
LEMMA RowAtHead ==
  ASSUME LinksInv, TodoFits, cmd.pc # "idle", cmd.todo # <<>>
  PROVE  /\ Head(cmd.todo) \in FileRows /\ InFile(Head(cmd.todo), cmd.mapping)
         /\ InFile(Head(cmd.todo), cmd.todo)
         /\ Principal = Head(cmd.todo).principal /\ Target = Head(cmd.todo).account
         /\ Principal \in Principals /\ Target \in Accounts
         /\ LegacyKey = KeyOf[Principal] /\ LegacyKey # None /\ LegacyKey \in StorageKeys
         /\ \A x \in FileRows :
              x.principal \in Principals /\ x.account \in Accounts /\ KeyOf[x.principal] # None
         /\ cmd.mapping \in Mappings /\ cmd.options \in Options
  <1>1. cmd.todo \in Seq(FileRows) /\ cmd \in CommandTypes
    BY InvParts DEF CommandTypes
  <1>2. \A x \in FileRows :
           x.principal \in Principals /\ x.account \in Accounts /\ KeyOf[x.principal] # None
    BY DEF FileRows, LegacyKeys, StorageKeys
  <1> QED BY <1>1, <1>2, FileRow, FileTail DEF TodoFits, Principal, Target, LegacyKey

\* What speaks of the database alone stays with it.
LEMMA SameDatabase ==
  ASSUME UnfoldedFits, LastFits, UNCHANGED <<keys, links, rows, unfolded, last>>
  PROVE  UnfoldedFits' /\ LastFits'
  BY DEF UnfoldedFits, LastFits

\* A row that is done stays so when its key, its link and what the run knows of
\* it do.
LEMMA DoneStays ==
  ASSUME NEW x \in FileRows, RowDone(x), rows' = rows,
         x.principal \in Named => Links'[x.principal].row = Links[x.principal].row,
         HasData(x.principal, Links, rows) =>
            /\ Keys'[x.account].key = Keys[x.account].key
            /\ Links'[x.principal].account = Links[x.principal].account,
         DOMAIN cmd.sources \subseteq DOMAIN cmd'.sources,
         \A a \in DOMAIN cmd.sources : cmd'.sources[a] = cmd.sources[a],
         cmd.linked \subseteq cmd'.linked
  PROVE  RowDone(x)'
  <1>1. /\ HasData(x.principal, Links', rows') <=> HasData(x.principal, Links, rows)
        /\ HasNothing(x.principal, Links', rows') <=> HasNothing(x.principal, Links, rows)
    BY DEF HasData, HasNothing
  <1>2. RowLinked(x, Keys', Links', rows')
    BY <1>1 DEF RowDone, RowLinked
  <1>3. CASE HasData(x.principal, Links, rows)
    <2>1. /\ x.account \in DOMAIN cmd'.sources
          /\ cmd'.sources[x.account] = KeyOf[x.principal]
          /\ KeyOf[x.principal] \in cmd'.linked
      BY <1>3 DEF RowDone
    <2> QED BY <1>2, <2>1 DEF RowDone
  <1>4. CASE ~HasData(x.principal, Links, rows)
    BY <1>1, <1>2, <1>4 DEF RowDone
  <1> QED BY <1>3, <1>4

\* A step of the command that is not its first or last leaves the database, the
\* file and the options.
LEMMA MidRun ==
  ASSUME LinksInv, RerunInv, cmd.pc # "idle", cmd'.pc # "idle", UNCHANGED <<Tables, Rest>>,
         cmd'.mapping = cmd.mapping, cmd'.options = cmd.options,
         \A x \in FileRows : InFile(x, cmd'.todo) => InFile(x, cmd.todo),
         RunFits', RerunFits'
  PROVE  RerunInv'
  <1>1. UNCHANGED <<keys, links, rows, unfolded, last>>
    BY DEF Tables, Rest
  <1>2. UnfoldedFits' /\ LastFits'
    BY <1>1, SameDatabase DEF RerunInv
  <1>3. TodoFits'
    BY DEF RerunInv, TodoFits
  <1> QED BY <1>2, <1>3 DEF RerunInv

\* The row at which the command is when it runs the same file again.
LEMMA RerunRow ==
  ASSUME LinksInv, RerunInv, cmd.pc # "idle", cmd.todo # <<>>,
         last = <<cmd.mapping, cmd.options>>
  PROVE  /\ cmd.pc = "row"
         /\ Legacy(Principal) # "unknown_kind"
         /\ Legacy(Principal) = "found" =>
              /\ Keys[Target].key = LegacyKey
              /\ Holders(LegacyKey) = {Target}
              /\ ~Ambiguous
              /\ Links[Principal].account = Target
              /\ "vault" \in cmd.options => LegacyKey \notin unfolded
  <1>0. TodoFits /\ RerunFits /\ LastFits
    BY DEF RerunInv
  <1>1. /\ Head(cmd.todo) \in FileRows /\ InFile(Head(cmd.todo), cmd.mapping)
        /\ Principal = Head(cmd.todo).principal /\ Target = Head(cmd.todo).account
        /\ Principal \in Principals /\ Target \in Accounts
        /\ LegacyKey = KeyOf[Principal] /\ LegacyKey # None
        /\ cmd.mapping \in Mappings /\ cmd.options \in Options
    BY <1>0, RowAtHead
  <1>2. cmd.pc = "row" /\ Keys = keys /\ Links = links
    BY <1>0 DEF RerunFits
  <1>3. /\ RowLinked(Head(cmd.todo), keys, links, rows)
        /\ HasData(Principal, links, rows) /\ "vault" \in cmd.options => LegacyKey \notin unfolded
    BY <1>0, <1>1 DEF LastFits
  <1>4. Legacy(Principal) # "unknown_kind"
    BY <1>1, <1>2, <1>3, LegacyCases DEF RowLinked
  <1>5. ASSUME Legacy(Principal) = "found"
        PROVE  /\ Keys[Target].key = LegacyKey /\ Links[Principal].account = Target
               /\ "vault" \in cmd.options => LegacyKey \notin unfolded
    BY <1>1, <1>2, <1>3, <1>5, LegacyCases DEF RowLinked
  <1>6. ASSUME Legacy(Principal) = "found"
        PROVE  Holders(LegacyKey) = {Target} /\ ~Ambiguous
    <2>1. OneHolder(Keys)
      BY InvParts DEF Seen, Sound
    <2>2. \A a \in Accounts : Keys[a].key = LegacyKey => a = Target
      BY <1>1, <1>5, <1>6, <2>1 DEF OneHolder
    <2>3. \A a \in DOMAIN cmd.sources : a \in Accounts /\ Keys[a].key = cmd.sources[a]
      <3>1. DOMAIN cmd.sources \subseteq Accounts
        BY InvParts, PartialOn DEF CommandTypes
      <3> QED BY <1>0, <1>2, <3>1 DEF RerunFits
    <2>4. ~Ambiguous
      BY <1>1, <1>5, <1>6, <2>2, <2>3 DEF Ambiguous
    <2> QED BY <1>1, <1>5, <1>6, <2>2, <2>4 DEF Holders
  <1> QED BY <1>2, <1>4, <1>5, <1>6

\* Nothing to link.
LEMMA UnmatchedRerun == ASSUME LinksInv, RerunInv, Unmatched PROVE RerunInv'
  <1>0. /\ cmd \in CommandTypes /\ cmd.pc = "row" /\ cmd.todo # <<>> /\ TodoFits /\ RunFits /\ RerunFits
        /\ UNCHANGED <<Tables, draft, Rest>> /\ cmd' = [cmd EXCEPT !.todo = Tail(cmd.todo)]
    BY InvParts DEF RerunInv, Unmatched, AtRow
  <1>1. /\ UNCHANGED <<keys, accts, pending, links, rows, unfolded, last, draft>>
        /\ UNCHANGED <<Keys, Accts, Pending, Links>>
    BY <1>0 DEF Tables, Rest, Keys, Accts, Pending, Links
  <1>2. /\ cmd'.pc = "row" /\ cmd'.todo = Tail(cmd.todo) /\ cmd'.alone = cmd.alone
        /\ UNCHANGED <<cmd.mapping, cmd.options, cmd.sources, cmd.linked, cmd.holder>>
    BY <1>0 DEF CommandTypes
  <1>3. cmd.todo \in Seq(FileRows)
    BY <1>0 DEF CommandTypes
  <1>4. RunFits'
    <2> SUFFICES ASSUME cmd.alone, NEW x \in FileRows, InFile(x, cmd.mapping)
                 PROVE  InFile(x, Tail(cmd.todo)) \/ RowDone(x)'
      BY <1>2 DEF RunFits
    <2>1. InFile(x, cmd.todo) \/ RowDone(x)
      BY <1>0 DEF RunFits
    <2>2. ASSUME RowDone(x) \/ x = Head(cmd.todo) PROVE RowDone(x)'
      <3>1. RowDone(x)
        <4>1. CASE x = Head(cmd.todo)
          <5>1. x.principal \in Principals /\ Legacy(x.principal) = "no_data"
            BY <1>0, <4>1, RowAtHead DEF Unmatched
          <5> QED BY <5>1, LegacyCases DEF RowDone, RowLinked
        <4> QED BY <2>2, <4>1
      <3> QED BY <1>1, <1>2, <3>1 DEF RowDone
    <2> QED BY <1>3, <1>0, <2>1, <2>2, FileTail
  <1>5. RerunFits'
    BY <1>0, <1>1, <1>2 DEF RerunFits
  <1> QED BY <1>0, <1>2, <1>3, <1>4, <1>5, FileTail, MidRun

\* A conflict is not found again.
LEMMA ConflictRerun == ASSUME LinksInv, RerunInv, UnknownOrAmbiguous PROVE RerunInv'
  <1>0. /\ cmd \in CommandTypes /\ cmd.pc = "row" /\ cmd.todo # <<>>
        /\ UNCHANGED <<Tables, draft, Rest>> /\ cmd' = [cmd EXCEPT !.pc = "conflict"]
    BY InvParts DEF UnknownOrAmbiguous, AtRow, Go
  <1>1. /\ cmd'.pc = "conflict" /\ UNCHANGED <<cmd.mapping, cmd.options, cmd.todo>> /\ last' = last
    BY <1>0 DEF CommandTypes, Rest
  <1>2. RunFits'
    BY <1>1 DEF RunFits
  <1>3. last # <<cmd.mapping, cmd.options>>
    BY <1>0, RerunRow DEF UnknownOrAmbiguous
  <1>4. RerunFits'
    BY <1>1, <1>3 DEF RerunFits
  <1> QED BY <1>0, <1>1, <1>2, <1>4, MidRun

\* The file gives the account this key, and no other account.
LEMMA SourcesGrow ==
  ASSUME ~Ambiguous, NEW s, s = Put(cmd.sources, Target, LegacyKey)
  PROVE  /\ DOMAIN cmd.sources \subseteq DOMAIN s
         /\ \A a \in DOMAIN cmd.sources : s[a] = cmd.sources[a]
         /\ Target \in DOMAIN s /\ s[Target] = LegacyKey
         /\ \A a \in DOMAIN s : a # Target => a \in DOMAIN cmd.sources /\ s[a] # LegacyKey
  BY DEF Ambiguous, Put

\* mark_link leaves what tells whether there is data.
LEMMA MarkKeepsData ==
  ASSUME LinksInv, NEW p \in Principals, NEW a \in Accounts, HasData(p, Links, rows),
         Links' \in [Principals -> LinkRows], Links'[p] = MarkLink(p, a),
         \A q \in Principals : q # p => Links'[q] = Links[q]
  PROVE  /\ Links'[p].account = a
         /\ \A q \in Principals \cap Named : Links'[q].row = Links[q].row
         /\ \A q \in Principals : HasData(q, Links', rows) <=> HasData(q, Links, rows)
         /\ Links[p].account = a => Links' = Links
  <1>1. /\ Links \in [Principals -> LinkRows] /\ MarkLink(p, a).account = a
        /\ Links[p].account = a => MarkLink(p, a) = Links[p]
    BY InvParts, SeenTables, MarkLinkFacts
  <1>2. p \in Named => MarkLink(p, a).row = Links[p].row
    BY DEF HasData, MarkLink
  <1>3. \A q \in Principals \cap Named : Links'[q].row = Links[q].row
    BY <1>1, <1>2
  <1>4. \A q \in Principals : HasData(q, Links', rows) <=> HasData(q, Links, rows)
    BY <1>3 DEF HasData
  <1>5. Links[p].account = a => Links' = Links
    BY <1>1
  <1> QED BY <1>1, <1>3, <1>4, <1>5

\* A step that ends the row: it is done, and the ones before it stay done.
LEMMA RowEnds ==
  ASSUME LinksInv, RerunInv, cmd.todo # <<>>, cmd.alone, cmd.pc \notin {"idle", "conflict"},
         HasData(Principal, Links, rows), rows' = rows,
         cmd' \in CommandTypes, cmd'.pc = "row", cmd'.todo = Tail(cmd.todo),
         cmd'.mapping = cmd.mapping, cmd'.linked = cmd.linked \cup {LegacyKey},
         DOMAIN cmd.sources \subseteq DOMAIN cmd'.sources,
         \A a \in DOMAIN cmd.sources : cmd'.sources[a] = cmd.sources[a],
         Target \in DOMAIN cmd'.sources, cmd'.sources[Target] = LegacyKey,
         Links' \in [Principals -> LinkRows], Links'[Principal] = MarkLink(Principal, Target),
         \A q \in Principals : q # Principal => Links'[q] = Links[q],
         Keys'[Target].key = LegacyKey,
         \A x \in FileRows : RowDone(x) /\ HasData(x.principal, Links, rows) =>
            Keys'[x.account].key = Keys[x.account].key
  PROVE  RunFits'
  <1>0. cmd.todo \in Seq(FileRows) /\ cmd \in CommandTypes /\ TodoFits /\ RunFits
        /\ ParseMapping(cmd.mapping)
    BY InvParts DEF CommandTypes, RerunInv, TodoFits
  <1>1. /\ Head(cmd.todo) \in FileRows /\ InFile(Head(cmd.todo), cmd.mapping)
        /\ Principal = Head(cmd.todo).principal /\ Target = Head(cmd.todo).account
        /\ Principal \in Principals /\ Target \in Accounts /\ LegacyKey = KeyOf[Principal]
        /\ \A x \in FileRows : x.principal \in Principals /\ x.account \in Accounts
    BY <1>0, RowAtHead
  <1>2. /\ Links'[Principal].account = Target
        /\ \A q \in Principals \cap Named : Links'[q].row = Links[q].row
        /\ \A q \in Principals : HasData(q, Links', rows) <=> HasData(q, Links, rows)
    BY <1>1, MarkKeepsData
  <1> SUFFICES ASSUME NEW x \in FileRows, InFile(x, cmd.mapping)
               PROVE  InFile(x, Tail(cmd.todo)) \/ RowDone(x)'
    BY DEF RunFits
  <1>3. CASE x = Head(cmd.todo)
    <2>1. HasData(x.principal, Links', rows')
      BY <1>1, <1>2, <1>3
    <2>2. RowLinked(x, Keys', Links', rows')
      BY <1>1, <1>2, <1>3, <2>1 DEF RowLinked
    <2> QED BY <1>1, <1>3, <2>2 DEF RowDone
  <1>4. CASE RowDone(x) /\ x # Head(cmd.todo)
    <2>1. CASE x.principal # Principal
      BY <1>1, <1>2, <1>4, <2>1, DoneStays
    <2>2. CASE x.principal = Principal
      <3>1. x.account = Target
        BY <1>0, <1>1, <2>2, OneAccount
      <3>2. Links[x.principal].account = Target
        <4>1. HasData(x.principal, Links, rows) /\ ~HasNothing(x.principal, Links, rows)
          BY <1>1, <2>2, LegacyCases
        <4> QED BY <1>4, <3>1, <4>1 DEF RowDone, RowLinked
      <3> QED BY <1>1, <1>2, <1>4, <2>2, <3>2, DoneStays
    <2> QED BY <2>1, <2>2
  <1>5. InFile(x, cmd.todo) \/ RowDone(x)
    BY <1>0 DEF RunFits
  <1> QED BY <1>0, <1>3, <1>4, <1>5, FileTail

\* The account has the key already.
LEMMA AlreadyLinkedRerun == ASSUME LinksInv, RerunInv, AlreadyLinked PROVE RerunInv'
  <1> DEFINE m == MarkLink(Principal, Target)
  <1>0. /\ cmd \in CommandTypes /\ cmd.pc = "row" /\ cmd.todo # <<>> /\ TodoFits /\ RerunFits
        /\ LinksTypes /\ UNCHANGED <<Tables, Rest>> /\ ~Ambiguous
        /\ Legacy(Principal) = "found" /\ Keys[Target].key = LegacyKey
        /\ draft' = [draft EXCEPT !.links = Put(draft.links, Principal, m)]
    BY InvParts DEF RerunInv, AlreadyLinked, Matched, AtRow
  <1>1. /\ cmd'.pc = "row" /\ cmd'.todo = Tail(cmd.todo) /\ cmd'.alone = cmd.alone
        /\ cmd'.mapping = cmd.mapping /\ cmd'.options = cmd.options
        /\ cmd'.linked = cmd.linked \cup {LegacyKey}
        /\ cmd'.sources = Put(cmd.sources, Target, LegacyKey)
    BY <1>0 DEF AlreadyLinked, NextRow, CommandTypes
  <1>2. /\ Principal \in Principals /\ Target \in Accounts /\ HasData(Principal, Links, rows)
        /\ m \in LinkRows
    BY <1>0, RowAtHead, LegacyCases, MarkLinkFacts, InvParts
  <1>3. UNCHANGED <<keys, accts, pending, links, rows, unfolded, last>>
    BY <1>0 DEF Tables, Rest
  <1>4. /\ Keys' = Keys /\ Accts' = Accts /\ Pending' = Pending
        /\ Links' \in [Principals -> LinkRows] /\ Links'[Principal] = m
        /\ \A q \in Principals : q # Principal => Links'[q] = Links[q]
    <2> HIDE DEF m
    <2>1. /\ draft'.keys = draft.keys /\ draft'.accts = draft.accts
          /\ draft'.pending = draft.pending /\ draft'.links = Put(draft.links, Principal, m)
      BY <1>0 DEF LinksTypes, DraftTypes
    <2>2. Links' = [Links EXCEPT ![Principal] = m] /\ Links \in [Principals -> LinkRows]
      <3>1. Links' = Over(Put(draft.links, Principal, m), links)
        BY <1>3, <2>1 DEF Links
      <3> QED BY <1>0, <1>2, <3>1, PutLinks, SeenTables
    <2>3. Keys' = Keys /\ Accts' = Accts /\ Pending' = Pending
      BY <1>3, <2>1 DEF Keys, Accts, Pending
    <2> QED BY <1>2, <2>2, <2>3
  <1>5. cmd' \in CommandTypes /\ cmd.todo \in Seq(FileRows)
    BY <1>0, AlreadyLinkedInv DEF LinksInv, LinksTypes, CommandTypes
  <1>6. /\ DOMAIN cmd.sources \subseteq DOMAIN cmd'.sources
        /\ \A a \in DOMAIN cmd.sources : cmd'.sources[a] = cmd.sources[a]
        /\ Target \in DOMAIN cmd'.sources /\ cmd'.sources[Target] = LegacyKey
        /\ \A a \in DOMAIN cmd'.sources : a # Target => a \in DOMAIN cmd.sources
    BY <1>0, <1>1, SourcesGrow
  <1>7. RunFits'
    <2>1. CASE cmd.alone
      BY <1>0, <1>1, <1>2, <1>3, <1>4, <1>5, <1>6, <2>1, RowEnds
    <2>2. CASE ~cmd.alone
      BY <1>1, <2>2 DEF RunFits
    <2> QED BY <2>1, <2>2
  <1>8. RerunFits'
    <2> SUFFICES ASSUME last = <<cmd.mapping, cmd.options>>
                 PROVE  /\ Keys = keys /\ Accts = accts /\ Pending = pending /\ Links' = links
                        /\ \A a \in DOMAIN cmd'.sources : keys[a].key = cmd'.sources[a]
                        /\ "vault" \in cmd.options => cmd'.linked \cap unfolded = {}
      BY <1>1, <1>3, <1>4 DEF RerunFits
    <2>1. /\ Keys = keys /\ Accts = accts /\ Pending = pending /\ Links = links
          /\ \A a \in DOMAIN cmd.sources : keys[a].key = cmd.sources[a]
          /\ "vault" \in cmd.options => cmd.linked \cap unfolded = {}
      BY <1>0 DEF RerunFits
    <2>2. Links[Principal].account = Target
          /\ ("vault" \in cmd.options => LegacyKey \notin unfolded)
      BY <1>0, RerunRow
    <2>3. Links' = Links
      BY <1>2, <1>4, <2>2, MarkKeepsData
    <2>4. \A a \in DOMAIN cmd'.sources : keys[a].key = cmd'.sources[a]
      BY <1>0, <1>6, <2>1
    <2> QED BY <1>1, <2>1, <2>2, <2>3, <2>4
  <1> QED BY <1>0, <1>1, <1>5, <1>7, <1>8, FileTail, MidRun

\* A step within the row leaves the rows that are done, if it leaves the keys
\* and links of them.
LEMMA RowGoesOn ==
  ASSUME LinksInv, RerunInv, cmd.alone, cmd.pc \notin {"idle", "conflict"},
         rows' = rows, Links' = Links,
         cmd'.todo = cmd.todo, cmd'.mapping = cmd.mapping, cmd'.linked = cmd.linked,
         DOMAIN cmd.sources \subseteq DOMAIN cmd'.sources,
         \A a \in DOMAIN cmd.sources : cmd'.sources[a] = cmd.sources[a],
         \A x \in FileRows : RowDone(x) /\ HasData(x.principal, Links, rows) =>
            Keys'[x.account].key = Keys[x.account].key
  PROVE  \A x \in FileRows :
            InFile(x, cmd'.mapping) => InFile(x, cmd'.todo) \/ RowDone(x)'
  <1> SUFFICES ASSUME NEW x \in FileRows, RowDone(x) PROVE RowDone(x)'
    BY DEF RerunInv, RunFits
  <1> QED BY DoneStays

\* The key is free, or is another account's; neither when the file is run again.
LEMMA NotHereRerun ==
  ASSUME LinksInv, RerunInv, HeldByAnother \/ NotHeld
  PROVE  RerunInv'
  <1>0. /\ cmd \in CommandTypes /\ cmd.pc = "row" /\ cmd.todo # <<>> /\ TodoFits /\ RunFits
        /\ ~Ambiguous /\ Legacy(Principal) = "found" /\ UNCHANGED <<Tables, draft, Rest>>
    BY InvParts DEF RerunInv, HeldByAnother, NotHeld, Matched, AtRow
  <1>1. /\ UNCHANGED <<rows, last>> /\ Keys' = Keys /\ Links' = Links
    BY <1>0 DEF Tables, Rest, Keys, Links
  <1> DEFINE s == Put(cmd.sources, Target, LegacyKey)
  <1>2. \/ cmd' = [cmd EXCEPT !.pc = "conflict"]
        \/ cmd' = [cmd EXCEPT !.pc = "attach", !.sources = s]
        \/ \E other \in Holders(LegacyKey) \ {Target} :
             cmd' = [cmd EXCEPT !.pc = "copy", !.holder = other,
                                !.checked = cmd.checked \cup {LegacyKey}, !.sources = s]
    BY DEF HeldByAnother, NotHeld, Go
  <1> HIDE DEF s
  <1>3. /\ cmd'.pc \in {"conflict", "attach", "copy"} /\ cmd'.alone = cmd.alone
        /\ UNCHANGED <<cmd.todo, cmd.mapping, cmd.options, cmd.linked>>
        /\ cmd'.pc # "conflict" => cmd'.sources = s
        /\ cmd'.pc = "copy" => cmd'.holder # Target
    <2>1. CASE cmd' = [cmd EXCEPT !.pc = "conflict"]
      BY <1>0, <2>1 DEF CommandTypes
    <2>2. CASE cmd' = [cmd EXCEPT !.pc = "attach", !.sources = s]
      BY <1>0, <2>2 DEF CommandTypes
    <2>3. ASSUME NEW other \in Holders(LegacyKey) \ {Target},
                 cmd' = [cmd EXCEPT !.pc = "copy", !.holder = other,
                                    !.checked = cmd.checked \cup {LegacyKey}, !.sources = s]
          PROVE  <1>3!:
      BY <1>0, <2>3 DEF CommandTypes
    <2> QED BY <1>2, <2>1, <2>2, <2>3
  <1>4. last # <<cmd.mapping, cmd.options>>
    <2> SUFFICES ASSUME last = <<cmd.mapping, cmd.options>> PROVE FALSE
      OBVIOUS
    <2>1. Holders(LegacyKey) = {Target}
      BY <1>0, RerunRow
    <2> QED BY <2>1 DEF HeldByAnother, NotHeld
  <1>5. RerunFits'
    BY <1>1, <1>3, <1>4 DEF RerunFits
  <1>6. RunFits'
    <2> SUFFICES ASSUME cmd.alone, cmd'.pc # "conflict" PROVE RunFits'
      BY <1>3 DEF RunFits
    <2>1. /\ DOMAIN cmd.sources \subseteq DOMAIN cmd'.sources
          /\ \A a \in DOMAIN cmd.sources : cmd'.sources[a] = cmd.sources[a]
          /\ Target \in DOMAIN cmd'.sources /\ cmd'.sources[Target] = LegacyKey
          /\ \A a \in DOMAIN cmd'.sources : a # Target => cmd'.sources[a] # LegacyKey
      BY <1>0, <1>3, SourcesGrow DEF s
    <2>2. \A x \in FileRows : InFile(x, cmd'.mapping) => InFile(x, cmd'.todo) \/ RowDone(x)'
      BY <1>0, <1>1, <1>3, <2>1, RowGoesOn
    <2>3. Principal' = Principal /\ Target' = Target /\ LegacyKey' = LegacyKey
      BY <1>3 DEF Principal, Target, LegacyKey
    <2>4. HasData(Principal, Links, rows)
      BY <1>0, RowAtHead, LegacyCases
    <2>5. RowFound'
      BY <1>1, <2>1, <2>3, <2>4 DEF RowFound
    <2> QED BY <1>3, <2>2, <2>3, <2>5 DEF RunFits
  <1> QED BY <1>0, <1>3, <1>5, <1>6, MidRun

\* The second half of a row is never reached when the file is run again.
LEMMA NotReached ==
  ASSUME RerunInv, cmd.pc \in {"copy", "detach", "attach", "merge", "insert"},
         cmd'.mapping = cmd.mapping, cmd'.options = cmd.options, last' = last
  PROVE  last # <<cmd.mapping, cmd.options>> /\ RerunFits'
  BY DEF RerunInv, RerunFits

\* The fence is copied.
LEMMA CopyFenceRerun == ASSUME LinksInv, RerunInv, CopyFence PROVE RerunInv'
  <1>0. /\ cmd \in CommandTypes /\ cmd.pc = "copy" /\ TodoFits /\ RunFits /\ draft \in DraftTypes
        /\ UNCHANGED <<Tables, Rest>>
    BY InvParts DEF RerunInv, CopyFence
  <1>1. /\ cmd'.pc = "detach" /\ cmd'.alone = cmd.alone
        /\ UNCHANGED <<cmd.todo, cmd.mapping, cmd.options, cmd.linked, cmd.sources, cmd.holder>>
    BY <1>0 DEF CopyFence, CommandTypes
  <1>2. UNCHANGED <<keys, links, rows, last>> /\ Keys' = Keys /\ Links' = Links
    <2>1. draft'.keys = draft.keys /\ draft'.links = draft.links
      BY <1>0 DEF CopyFence, DraftTypes
    <2> QED BY <1>0, <2>1 DEF Tables, Rest, Keys, Links
  <1>3. RerunFits'
    BY <1>0, <1>1, <1>2, NotReached
  <1>4. RunFits'
    <2> SUFFICES ASSUME cmd.alone PROVE RunFits'
      BY <1>1 DEF RunFits
    <2>1. \A x \in FileRows : InFile(x, cmd'.mapping) => InFile(x, cmd'.todo) \/ RowDone(x)'
      BY <1>0, <1>1, <1>2, RowGoesOn
    <2>2. Principal' = Principal /\ Target' = Target /\ LegacyKey' = LegacyKey
      BY <1>1 DEF Principal, Target, LegacyKey
    <2>3. RowFound /\ cmd.holder # Target
      BY <1>0 DEF RunFits
    <2>4. RowFound'
      BY <1>1, <1>2, <2>2, <2>3 DEF RowFound
    <2> QED BY <1>1, <2>1, <2>2, <2>3, <2>4 DEF RunFits
  <1> QED BY <1>0, <1>1, <1>3, <1>4, MidRun

\* The account that loses its key is not one of a row that is done.
LEMMA DetachRerun == ASSUME LinksInv, RerunInv, Detach PROVE RerunInv'
  <1> DEFINE h == cmd.holder
  <1>0. /\ cmd \in CommandTypes /\ cmd.pc = "detach" /\ TodoFits /\ RunFits /\ draft \in DraftTypes
        /\ UNCHANGED <<Tables, Rest>> /\ RowFits /\ LinksTypes
    BY InvParts DEF RerunInv, Detach
  <1>1. /\ cmd'.pc = "attach" /\ cmd'.alone = cmd.alone
        /\ UNCHANGED <<cmd.todo, cmd.mapping, cmd.options, cmd.linked, cmd.sources, cmd.holder>>
    BY <1>0 DEF Detach, CommandTypes
  <1>2. h \in Accounts /\ Keys[h].key = LegacyKey /\ NoKey \in KeyRows
    BY <1>0 DEF RowFits, NoKey, KeyRows
  <1>3. /\ UNCHANGED <<keys, links, rows, last>> /\ Links' = Links
        /\ Keys' = [Keys EXCEPT ![h] = NoKey] /\ Keys \in [Accounts -> KeyRows]
    <2>1. draft'.keys = Put(draft.keys, h, NoKey) /\ draft'.links = draft.links
      BY <1>0 DEF Detach, DraftTypes
    <2>2. UNCHANGED <<keys, links, rows, last>>
      BY <1>0 DEF Tables, Rest
    <2>3. Keys' = Over(Put(draft.keys, h, NoKey), keys) /\ Links' = Links
      BY <2>1, <2>2 DEF Keys, Links
    <2> QED BY <1>0, <1>2, <2>2, <2>3, PutKeys, SeenTables
  <1> HIDE DEF h
  <1>4. RerunFits'
    BY <1>0, <1>1, <1>3, NotReached
  <1>5. RunFits'
    <2> SUFFICES ASSUME cmd.alone PROVE RunFits'
      BY <1>1 DEF RunFits
    <2>1. RowFound /\ h # Target
      BY <1>0 DEF RunFits, h
    <2>2. ASSUME NEW x \in FileRows, RowDone(x), HasData(x.principal, Links, rows)
          PROVE  Keys'[x.account].key = Keys[x.account].key
      <3>1. /\ x.account \in DOMAIN cmd.sources /\ x.account \in Accounts
            /\ Keys[x.account].key = cmd.sources[x.account]
        <4>1. x.principal \in Principals /\ x.account \in Accounts
          BY DEF FileRows
        <4>2. ~HasNothing(x.principal, Links, rows)
          BY <2>2, <4>1, LegacyCases
        <4> QED BY <2>2, <4>1, <4>2 DEF RowDone, RowLinked
      <3>2. x.account # h
        BY <1>2, <2>1, <3>1 DEF RowFound
      <3> QED BY <1>3, <3>1, <3>2
    <2>3. \A x \in FileRows : InFile(x, cmd'.mapping) => InFile(x, cmd'.todo) \/ RowDone(x)'
      BY <1>0, <1>1, <1>3, <2>2, RowGoesOn
    <2>4. Principal' = Principal /\ Target' = Target /\ LegacyKey' = LegacyKey
      BY <1>1 DEF Principal, Target, LegacyKey
    <2>5. RowFound'
      BY <1>1, <1>3, <2>1, <2>4 DEF RowFound
    <2> QED BY <1>1, <2>3, <2>5 DEF RunFits
  <1> QED BY <1>0, <1>1, <1>4, <1>5, MidRun

\* The account's own key is looked at.
LEMMA AttachRerun == ASSUME LinksInv, RerunInv, Attach PROVE RerunInv'
  <1>0. /\ cmd \in CommandTypes /\ cmd.pc = "attach" /\ TodoFits /\ RunFits /\ RowFits
        /\ UNCHANGED <<Tables, draft, Rest>> /\ cmd.todo # <<>>
    BY InvParts DEF RerunInv, Attach, RowFits
  <1>1. UNCHANGED <<keys, links, rows, last>> /\ Keys' = Keys /\ Links' = Links
    BY <1>0 DEF Tables, Rest, Keys, Links
  <1>2. \/ cmd' = [cmd EXCEPT !.pc = "insert"] /\ Keys[Target].key = None
        \/ cmd' = [cmd EXCEPT !.pc = "conflict"]
        \/ cmd' = [cmd EXCEPT !.pc = "merge", !.checked = cmd.checked \cup {Keys[Target].key}]
    BY DEF Attach, Go
  <1>3. /\ cmd'.pc \in {"insert", "conflict", "merge"} /\ cmd'.alone = cmd.alone
        /\ UNCHANGED <<cmd.todo, cmd.mapping, cmd.options, cmd.linked, cmd.sources, cmd.holder>>
        /\ cmd'.pc = "insert" => Keys[Target].key = None
    <2>1. CASE cmd' = [cmd EXCEPT !.pc = "insert"] /\ Keys[Target].key = None
      BY <1>0, <2>1 DEF CommandTypes
    <2>2. CASE cmd' = [cmd EXCEPT !.pc = "conflict"]
      BY <1>0, <2>2 DEF CommandTypes
    <2>3. CASE cmd' = [cmd EXCEPT !.pc = "merge", !.checked = cmd.checked \cup {Keys[Target].key}]
      BY <1>0, <2>3 DEF CommandTypes
    <2> QED BY <1>2, <2>1, <2>2, <2>3
  <1>4. RerunFits'
    BY <1>0, <1>1, <1>3, NotReached
  <1>5. RunFits'
    <2> SUFFICES ASSUME cmd.alone, cmd'.pc # "conflict" PROVE RunFits'
      BY <1>3 DEF RunFits
    <2>1. \A x \in FileRows : InFile(x, cmd'.mapping) => InFile(x, cmd'.todo) \/ RowDone(x)'
      BY <1>0, <1>1, <1>3, RowGoesOn
    <2>2. Principal' = Principal /\ Target' = Target /\ LegacyKey' = LegacyKey
      BY <1>3 DEF Principal, Target, LegacyKey
    <2>3. RowFound
      BY <1>0 DEF RunFits
    <2>4. RowFound'
      BY <1>1, <1>3, <2>2, <2>3 DEF RowFound
    <2>5. cmd'.pc = "insert" => Keys[Target] = NoKey
      <3>1. Target \in Accounts /\ OwnKeys(Keys)
        BY <1>0, RowAtHead, InvParts DEF Seen, Sound
      <3>2. None \notin LegacyKeys \cup FreshKeys(Target)
        BY <3>1 DEF StorageKeys
      <3> QED BY <1>3, <3>1, <3>2 DEF OwnKeys
    <2> QED BY <1>1, <1>3, <2>1, <2>2, <2>4, <2>5 DEF RunFits
  <1> QED BY <1>0, <1>3, <1>4, <1>5, MidRun

\* The key is given to the account, which no row before has given another.
LEMMA LinkRerun == ASSUME LinksInv, RerunInv, Merge \/ Insert PROVE RerunInv'
  <1> DEFINE m == MarkLink(Principal, Target)
  <1>0. /\ cmd \in CommandTypes /\ cmd.pc \in {"merge", "insert"} /\ cmd.todo # <<>>
        /\ TodoFits /\ RunFits /\ RowFits /\ LinksTypes /\ draft \in DraftTypes
        /\ UNCHANGED <<Tables, Rest>> /\ cmd' = NextRow(LegacyKey)
    BY InvParts DEF RerunInv, Merge, Insert, RowFits
  <1>1. /\ cmd'.pc = "row" /\ cmd'.todo = Tail(cmd.todo) /\ cmd'.alone = cmd.alone
        /\ UNCHANGED <<cmd.mapping, cmd.options, cmd.sources>>
        /\ cmd'.linked = cmd.linked \cup {LegacyKey}
    BY <1>0 DEF NextRow, CommandTypes
  <1>2. UNCHANGED <<keys, links, rows, last>>
    BY <1>0 DEF Tables, Rest
  <1>3. /\ Principal \in Principals /\ Target \in Accounts /\ m \in LinkRows /\ Linked \in KeyRows
        /\ Linked.key = LegacyKey
    BY <1>0, RowAtHead, MarkLinkFacts, InvParts DEF Linked, KeyRows
  <1>4. /\ Links' \in [Principals -> LinkRows] /\ Links'[Principal] = m
        /\ \A q \in Principals : q # Principal => Links'[q] = Links[q]
    <2> HIDE DEF m
    <2>1. draft'.links = Put(draft.links, Principal, m)
      <3>1. CASE Merge
        BY <1>0, <3>1 DEF Merge, DraftTypes, m
      <3>2. CASE Insert
        BY <1>0, <3>2 DEF Insert, DraftTypes, m
      <3> QED BY <3>1, <3>2
    <2>2. Links' = Over(Put(draft.links, Principal, m), links)
      BY <1>2, <2>1 DEF Links
    <2>3. Links' = [Links EXCEPT ![Principal] = m] /\ Links \in [Principals -> LinkRows]
      BY <1>0, <1>3, <2>2, PutLinks, SeenTables
    <2> QED BY <1>3, <2>3
  <1>5. /\ Keys \in [Accounts -> KeyRows]
        /\ \A a \in Accounts : a # Target => Keys'[a] = Keys[a]
        /\ cmd.pc = "merge" \/ Keys[Target] = NoKey => Keys'[Target] = Linked
    <2>0. Keys \in [Accounts -> KeyRows]
      BY <1>0, SeenTables
    <2>1. \/ draft'.keys = Put(draft.keys, Target, Linked)
          \/ draft'.keys = draft.keys /\ cmd.pc = "insert" /\ Keys[Target] # NoKey
      <3>1. CASE Merge
        BY <1>0, <3>1 DEF Merge, DraftTypes
      <3>2. CASE Insert
        BY <1>0, <3>2 DEF Insert, DraftTypes
      <3> QED BY <3>1, <3>2
    <2>2. CASE draft'.keys = Put(draft.keys, Target, Linked)
      <3>1. Keys' = Over(Put(draft.keys, Target, Linked), keys)
        BY <1>2, <2>2 DEF Keys
      <3>2. Keys' = [Keys EXCEPT ![Target] = Linked]
        BY <1>0, <1>3, <3>1, PutKeys
      <3> QED BY <1>3, <2>0, <3>2
    <2>3. CASE draft'.keys = draft.keys /\ cmd.pc = "insert" /\ Keys[Target] # NoKey
      <3>1. Keys' = Keys
        BY <1>2, <2>3 DEF Keys
      <3> QED BY <2>0, <2>3, <3>1
    <2> QED BY <2>1, <2>2, <2>3
  <1>6. RerunFits'
    BY <1>0, <1>1, <1>2, NotReached
  <1>7. RunFits'
    <2> SUFFICES ASSUME cmd.alone PROVE RunFits'
      BY <1>1 DEF RunFits
    <2>1. RowFound /\ (cmd.pc = "insert" => Keys[Target] = NoKey)
      BY <1>0 DEF RunFits
    <2>2. Keys'[Target].key = LegacyKey
      BY <1>0, <1>3, <1>5, <2>1
    <2>3. ASSUME NEW x \in FileRows, RowDone(x), HasData(x.principal, Links, rows)
          PROVE  Keys'[x.account].key = Keys[x.account].key
      <3>1. /\ x.account \in Accounts /\ Keys[x.account].key = cmd.sources[x.account]
        <4>1. x.principal \in Principals /\ x.account \in Accounts
          BY DEF FileRows
        <4>2. ~HasNothing(x.principal, Links, rows)
          BY <2>3, <4>1, LegacyCases
        <4> QED BY <2>3, <4>1, <4>2 DEF RowDone, RowLinked
      <3>2. x.account # Target
        BY <1>0, <1>3, <2>1, <3>1 DEF RowFound, RowFits
      <3> QED BY <1>5, <3>1, <3>2
    <2>4. cmd' \in CommandTypes
      BY <1>0, MergeInv, InsertInv DEF LinksInv, LinksTypes
    <2> QED BY <1>0, <1>1, <1>2, <1>4, <2>1, <2>2, <2>3, <2>4, RowEnds DEF RowFound
  <1>8. cmd.todo \in Seq(FileRows)
    BY <1>0 DEF CommandTypes
  <1> QED BY <1>0, <1>1, <1>6, <1>7, <1>8, FileTail, MidRun

\* Every row of a file that is run beside nothing is linked when it commits.
LEMMA CommitRerun == ASSUME LinksInv, RerunInv, Commit PROVE RerunInv'
  <1>0. /\ cmd.pc = "row" /\ cmd.todo = <<>> /\ cmd' = Idle /\ draft' = NoDraft
        /\ keys' = Keys /\ links' = Links /\ unfolded' = unfolded \ Resealed
        /\ rows' = [k \in StorageKeys |-> IF k \in Resealed
                      THEN rows[k] \cup {Row(None, "setting", Now, FALSE)} ELSE rows[k]]
        /\ UnfoldedFits /\ TodoFits /\ RunFits
        /\ last' = IF cmd.alone THEN <<cmd.mapping, cmd.options>> ELSE <<>>
    BY DEF Commit, RerunInv
  <1>1. cmd'.pc = "idle"
    BY <1>0 DEF Idle
  <1>2. TodoFits' /\ RunFits' /\ RerunFits'
    BY <1>1 DEF TodoFits, RunFits, RerunFits
  <1>3. \A k \in StorageKeys : rows[k] \subseteq rows'[k] /\ (k \notin Resealed => rows'[k] = rows[k])
    BY <1>0
  <1>4. UnfoldedFits'
    BY <1>0, <1>3 DEF UnfoldedFits
  <1>5. LastFits'
    <2> SUFFICES ASSUME NEW mm \in Mappings, NEW o \in Options, last' = <<mm, o>>,
                        NEW x \in FileRows, InFile(x, mm)
                 PROVE  /\ RowLinked(x, keys', links', rows')
                        /\ HasData(x.principal, links', rows') /\ "vault" \in o =>
                             KeyOf[x.principal] \notin unfolded'
      BY DEF LastFits
    <2>1. cmd.alone /\ mm = cmd.mapping /\ o = cmd.options
      <3>1. CASE cmd.alone
        <4>1. <<mm, o>> = <<cmd.mapping, cmd.options>>
          BY <1>0, <3>1
        <4> QED BY <3>1, <4>1
      <3>2. CASE ~cmd.alone
        <4>1. <<mm, o>> = <<>>
          BY <1>0, <3>2
        <4> QED BY <4>1, PairIsSomething
      <3> QED BY <3>1, <3>2
    <2>2. ~InFile(x, cmd.todo)
      BY <1>0 DEF InFile
    <2>3. RowDone(x)
      BY <1>0, <2>1, <2>2 DEF RunFits
    <2>4. x.principal \in Principals /\ KeyOf[x.principal] \in StorageKeys
      BY DEF FileRows, StorageKeys, LegacyKeys
    <2>5. CASE HasData(x.principal, Links, rows)
      <3>1. HasData(x.principal, links', rows')
        BY <1>0, <1>3, <2>4, <2>5 DEF HasData
      <3>2. ~HasNothing(x.principal, Links, rows)
        BY <2>4, <2>5, LegacyCases
      <3>3. RowLinked(x, keys', links', rows') /\ KeyOf[x.principal] \in cmd.linked
        BY <1>0, <2>3, <2>5, <3>1, <3>2 DEF RowDone, RowLinked
      <3>4. "vault" \in o => KeyOf[x.principal] \notin unfolded'
        BY <1>0, <2>1, <3>3 DEF Resealed
      <3> QED BY <3>3, <3>4
    <2>6. CASE ~HasData(x.principal, Links, rows)
      <3>1. HasNothing(x.principal, Links, rows)
        BY <2>3, <2>6 DEF RowDone, RowLinked
      <3>2. CASE x.principal \in Named
        BY <1>0, <3>1, <3>2 DEF HasNothing, HasData, RowLinked
      <3>3. CASE x.principal \notin Named
        <4>1. KeyOf[x.principal] \notin Resealed
          BY <1>0, <3>1, <3>3 DEF HasNothing, UnfoldedFits, Resealed
        <4>2. rows'[KeyOf[x.principal]] = {}
          BY <1>3, <2>4, <3>1, <3>3, <4>1 DEF HasNothing
        <4> QED BY <3>3, <4>2 DEF HasNothing, HasData, RowLinked
      <3> QED BY <3>2, <3>3
    <2> QED BY <2>5, <2>6
  <1> QED BY <1>2, <1>4, <1>5 DEF RerunInv

\* A command begins: all of its file is to do, and its draft is empty.
LEMMA BeginRerun ==
  ASSUME LinksInv, RerunInv, NEW mapping \in Mappings, NEW options \in Options,
         Begin(mapping, options)
  PROVE  RerunInv'
  <1>0. /\ UNCHANGED <<keys, accts, pending, links, rows, unfolded, last>> /\ draft' = NoDraft
        /\ ParseMapping(mapping) /\ UnfoldedFits /\ LastFits
        /\ TablesTyped(keys, accts, pending, links, rows, owed, time)
    BY InvParts DEF Begin, database, DraftFits, RerunInv
  <1>1. /\ cmd'.pc = "row" /\ cmd'.todo = mapping /\ cmd'.mapping = mapping
        /\ cmd'.options = options /\ cmd'.sources = <<>> /\ cmd'.linked = {}
    BY DEF Begin, Idle
  <1>2. Keys' = keys' /\ Accts' = accts' /\ Pending' = pending' /\ Links' = links'
    BY <1>0 DEF NoDraft, Keys, Accts, Pending, Links, Over, TablesTyped
  <1>3. TodoFits' /\ RunFits'
    BY <1>0, <1>1 DEF TodoFits, RunFits
  <1>4. RerunFits'
    BY <1>1, <1>2 DEF RerunFits
  <1>5. UnfoldedFits' /\ LastFits'
    BY <1>0, SameDatabase
  <1> QED BY <1>3, <1>4, <1>5 DEF RerunInv

\* A command is rolled back.
LEMMA RollbackRerun == ASSUME LinksInv, RerunInv, Rollback PROVE RerunInv'
  <1>1. UNCHANGED <<keys, links, rows, unfolded, last>> /\ cmd'.pc = "idle"
    BY DEF Rollback, database, Idle
  <1>2. UnfoldedFits' /\ LastFits'
    BY <1>1, SameDatabase DEF RerunInv
  <1> QED BY <1>1, <1>2 DEF RerunInv, TodoFits, RunFits, RerunFits

\* A step of the API ends what is remembered of the last command.
LEMMA ApiRerun ==
  ASSUME LinksInv, RerunInv, NEW a \in Accounts, Api(a), UnfoldedFits' PROVE RerunInv'
  <1>0. Served /\ cmd \in CommandTypes /\ TodoFits
    BY InvParts DEF Api, Sight, Resolve, ChangeId, SignOut, Delete, Write, RerunInv
  <1>1. /\ last' = <<>> /\ ~cmd'.alone
        /\ UNCHANGED <<cmd.pc, cmd.todo, cmd.mapping, cmd.options>>
    BY <1>0 DEF Served, CommandTypes
  <1>2. TodoFits' /\ RunFits'
    BY <1>0, <1>1 DEF TodoFits, RunFits
  <1>3. LastFits' /\ RerunFits'
    BY <1>1, PairIsSomething DEF LastFits, RerunFits
  <1> QED BY <1>2, <1>3 DEF RerunInv

\* purge_account leaves nothing to seal.
LEMMA ApiUnfolded ==
  ASSUME LinksInv, UnfoldedFits, NEW a \in Accounts, Api(a) PROVE UnfoldedFits'
  <1>0. /\ rows \in [StorageKeys -> SUBSET DataRows]
        /\ \A k \in unfolded : k \in StorageKeys /\ rows[k] # {}
    BY InvParts DEF TablesTyped, UnfoldedFits
  <1>1. ASSUME UNCHANGED <<rows, unfolded>> PROVE UnfoldedFits'
    BY <1>0, <1>1 DEF UnfoldedFits
  <1>2. ASSUME NEW k, rows' = [rows EXCEPT ![k] = {}], unfolded' = unfolded \ {k}
        PROVE  UnfoldedFits'
    BY <1>0, <1>2 DEF UnfoldedFits
  <1>3. ASSUME NEW k, NEW S, rows' = [rows EXCEPT ![k] = rows[k] \cup S],
               unfolded' \in {unfolded, unfolded \ {k}}
        PROVE  UnfoldedFits'
    BY <1>0, <1>3 DEF UnfoldedFits
  <1>4. CASE Sight(a)
    BY <1>1, <1>2, <1>4 DEF Sight
  <1>5. CASE Resolve(a) \/ ChangeId(a) \/ SignOut(a)
    BY <1>1, <1>5 DEF Resolve, ChangeId, SignOut, database
  <1>6. CASE Delete(a)
    BY <1>1, <1>2, <1>6 DEF Delete, Purge
  <1>7. ASSUME NEW kind \in {"data", "report"}, Write(a, kind) PROVE UnfoldedFits'
    <2>1. \E S : rows' = [rows EXCEPT ![inflight[a]] = rows[inflight[a]] \cup S]
      BY <1>7 DEF Write
    <2>2. unfolded' \in {unfolded, unfolded \ {inflight[a]}}
      BY <1>7 DEF Write
    <2> QED BY <1>3, <2>1, <2>2
  <1> QED BY <1>4, <1>5, <1>6, <1>7 DEF Api

\* At the start every legacy key has data, and nothing has run.
LEMMA RerunInitInv == LinksInit => RerunInv
  <1> SUFFICES ASSUME LinksInit PROVE RerunInv
    OBVIOUS
  <1>1. cmd.pc = "idle" /\ last = <<>> /\ unfolded = LegacyKeys
    BY DEF LinksInit, Idle
  <1>2. \A k \in LegacyKeys : k \in StorageKeys /\ rows[k] # {}
    BY DEF LinksInit, StorageKeys
  <1> QED BY <1>1, <1>2, PairIsSomething
          DEF RerunInv, UnfoldedFits, TodoFits, RunFits, LastFits, RerunFits

\* Every step keeps the invariant.
LEMMA RerunNextInv == LinksInv /\ RerunInv /\ [LinksNext]_linkVars => RerunInv'
  <1> SUFFICES ASSUME LinksInv, RerunInv, [LinksNext]_linkVars PROVE RerunInv'
    OBVIOUS
  <1>1. CASE Command
    BY <1>1, BeginRerun, UnmatchedRerun, ConflictRerun, AlreadyLinkedRerun, NotHereRerun,
       CopyFenceRerun, DetachRerun, AttachRerun, LinkRerun, CommitRerun, RollbackRerun DEF Command
  <1>2. ASSUME NEW a \in Accounts, Api(a) PROVE RerunInv'
    BY <1>2, ApiRerun, ApiUnfolded DEF RerunInv
  <1>3. CASE UNCHANGED linkVars
    <2>1. UNCHANGED <<keys, accts, pending, links, rows, unfolded, cmd, draft, last>>
      BY <1>3 DEF linkVars, database
    <2>2. Keys' = Keys /\ Accts' = Accts /\ Pending' = Pending /\ Links' = Links
      BY <2>1 DEF Keys, Accts, Pending, Links
    <2>3. UnfoldedFits' /\ LastFits' /\ TodoFits' /\ RerunFits'
      BY <2>1, <2>2 DEF RerunInv, UnfoldedFits, LastFits, TodoFits, RerunFits
    <2>4. RunFits'
      BY <2>1, <2>2
         DEF RerunInv, RunFits, RowDone, RowFound, LegacyKey, Principal, Target
    <2> QED BY <2>3, <2>4 DEF RerunInv
  <1> QED BY <1>1, <1>2, <1>3 DEF LinksNext

\* When the file is run again, a commit writes what is there.
LEMMA RerunCommits ==
  ASSUME LinksInv, RerunInv, last = <<cmd.mapping, cmd.options>>, Commit
  PROVE  UNCHANGED database
  <1>1. /\ Keys = keys /\ Accts = accts /\ Pending = pending /\ Links = links
        /\ "vault" \in cmd.options => cmd.linked \cap unfolded = {}
    BY DEF RerunInv, RerunFits, Commit
  <1>2. Resealed = {}
    BY <1>1 DEF Resealed
  <1>3. rows' = rows
    <2>1. rows \in [StorageKeys -> SUBSET DataRows]
      BY InvParts DEF TablesTyped
    <2> QED BY <1>2, <2>1 DEF Commit
  <1> QED BY <1>1, <1>2, <1>3 DEF Commit, database

\* operator.rs: "Re-running is a no-op".  Whatever was linked and served before,
\* when a run of a file has committed and the API has done nothing since it
\* began, the same file with the same options finds no conflict and writes
\* nothing, also when other commands were rolled back in between.
THEOREM RerunningIsANoOp == LinksSpec => RerunIsNoOp
  <1> DEFINE Same == last = <<cmd.mapping, cmd.options>> /\ last' # <<>> =>
                        cmd'.pc # "conflict" /\ UNCHANGED database
  <1>1. LinksInv /\ RerunInv /\ [LinksNext]_linkVars => [Same]_linkVars
    <2> SUFFICES ASSUME LinksInv, RerunInv, LinksNext,
                        last = <<cmd.mapping, cmd.options>>, last' # <<>>
                 PROVE  cmd'.pc # "conflict" /\ UNCHANGED database
      OBVIOUS
    <2>0. cmd \in CommandTypes
      BY InvParts
    <2>1. ASSUME NEW a \in Accounts, Api(a) PROVE FALSE
      BY <2>1 DEF Api, Sight, Resolve, ChangeId, SignOut, Delete, Write, Served
    <2>2. ASSUME NEW m \in Mappings, NEW o \in Options, Begin(m, o)
          PROVE  cmd'.pc # "conflict" /\ UNCHANGED database
      BY <2>2 DEF Begin, Idle
    <2>3. CASE Commit
      BY <2>3, RerunCommits DEF Commit, Idle
    <2>4. CASE Rollback
      BY <2>4 DEF Rollback, Idle
    <2>5. CASE \/ Unmatched \/ UnknownOrAmbiguous \/ AlreadyLinked \/ HeldByAnother \/ NotHeld
               \/ CopyFence \/ Detach \/ Attach \/ Merge \/ Insert
      <3>1. cmd.pc # "idle" /\ UNCHANGED <<Tables, Rest>>
        BY <2>5 DEF Unmatched, UnknownOrAmbiguous, AlreadyLinked, HeldByAnother, NotHeld, CopyFence,
                    Detach, Attach, Merge, Insert, Matched, AtRow
      <3>2. UNCHANGED database /\ last' = last
        BY <3>1 DEF Tables, Rest, database
      <3>3. cmd.pc = "row"
        BY <3>1 DEF RerunInv, RerunFits
      <3>4. cmd.todo # <<>> /\ (Unmatched \/ AlreadyLinked \/ UnknownOrAmbiguous \/ HeldByAnother \/ NotHeld)
        BY <2>5, <3>3 DEF Unmatched, UnknownOrAmbiguous, AlreadyLinked, HeldByAnother, NotHeld,
                          CopyFence, Detach, Attach, Merge, Insert, Matched, AtRow
      <3>5. ~UnknownOrAmbiguous /\ ~HeldByAnother /\ ~NotHeld
        BY <3>1, <3>4, RerunRow DEF UnknownOrAmbiguous, HeldByAnother, NotHeld, Matched
      <3>6. cmd'.pc = "row"
        <4>1. CASE Unmatched
          BY <2>0, <3>3, <4>1 DEF Unmatched, CommandTypes
        <4>2. CASE AlreadyLinked
          BY <2>0, <4>2 DEF AlreadyLinked, NextRow, CommandTypes
        <4> QED BY <3>4, <3>5, <4>1, <4>2
      <3> QED BY <3>2, <3>6
    <2> QED BY <2>1, <2>2, <2>3, <2>4, <2>5 DEF LinksNext, Command
  <1>2. LinksInv /\ RerunInv /\ [LinksNext]_linkVars => RerunInv'
    BY RerunNextInv
  <1>3. LinksInit => RerunInv
    BY RerunInitInv
  <1> QED BY <1>1, <1>2, <1>3, LinksInvariant, PTL DEF LinksSpec, RerunIsNoOp
=============================================================================
