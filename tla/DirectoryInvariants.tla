------------------------- MODULE DirectoryInvariants -------------------------
(***************************************************************************)
(* The inductive invariant behind the safety properties of                 *)
(* AccountDirectory: every instant stored somewhere is past, and whatever  *)
(* is stored with it was so at that instant or later.                      *)
(***************************************************************************)
EXTENDS AccountDirectory

\* Silicon Accounts numbers ids upwards, does not bring deleted accounts back,
\* and gives every Silicon a custodian.
HistoryFits ==
    \A a \in Accounts, t \in Times :
        /\ a \in Silicons => past[t][a].custodian \in Carbons
        /\ a \notin Silicons => past[t][a].custodian = None
        /\ t <= now => past[t][a].id <= t /\ past[t][a].version <= t
        /\ \A u \in Times : t <= u /\ u <= now =>
              /\ past[t][a].id <= past[u][a].id
              /\ past[t][a].deleted => past[u][a].deleted

\* An event is about something that happened.
EventsFit ==
    \A e \in sent :
        /\ e.at <= now
        /\ e.type = "deleted" => past[e.at][e.account].deleted
        /\ e.type = "custodian_changed" => e.account \in Silicons

\* The instants of a row are past, and what the row says was so then or later; a
\* tombstone is true and empty; a row that does not exist says nothing.
RowFits(a, row) ==
    /\ row.idAt <= now
    /\ row.custodianAt <= now
    /\ ~row.known => row = NoRow
    /\ row.custodian # None =>
          \E t \in Later(0, row.custodianAt) .. now : past[t][a].custodian = row.custodian
    /\ row.deleted => /\ past[now][a].deleted
                      /\ row.id = NoId
                      /\ row.custodian = None
                      /\ row.custodianId = NoId

RowsFit == \A a \in Accounts : RowFits(a, rows[a])

\* Events are only kept for accounts that have no row, and a deletion kept is true.
PendingFits ==
    \A a \in Accounts :
        /\ rows[a].known => pending[a] = NoPending
        /\ pending[a].deletedAt # NoTime => past[now][a].deleted

\* A task knows its account; its answer is not older than its question; the row
\* has no older custodian than when the task began; a grant is current.
TaskFits(task) ==
    task.pc # "idle" =>
        /\ task.account \in Accounts
        /\ task.started <= now
        /\ task.asOf <= now
        /\ task.since <= rows[task.account].custodianAt
        /\ task.pc \in {"answered", "ensured"} => task.started <= task.asOf
        /\ task.pc = "gone" => past[now][task.account].deleted
        /\ task.pc \in {"stored", "granted"} => task.caller \in Carbons
        /\ task.pc \in {"granted", "read"} =>
              \E t \in Later(0, task.since) .. now :
                  past[t][task.account].custodian = task.caller

LookupsFit == \A l \in Lookups : TaskFits(lookups[l])

\* A sign-out or deletion received is in the row, kept for it, or of no use any
\* more.
SignOutsFit ==
    \A e \in applied : e.type \in {"signed_out", "deleted"} =>
        \/ RevokedBefore(e.account) >= e.at
        \/ rows[e.account].deleted
        \/ oldest[e.account] >= e.at

\* The inductive invariant of the directory.
DirectoryInv ==
    /\ DirectoryTypeOK
    /\ HistoryFits
    /\ EventsFit
    /\ RowsFit
    /\ PendingFits
    /\ LookupsFit
    /\ SignOutsFit
=============================================================================
