-------------------------- MODULE IdempotentAnswers --------------------------
(***************************************************************************)
(* What the API promises about Idempotency-Key, with no leases, history or *)
(* audio: the first completion of a key settles its result; for the whole  *)
(* retention every successful answer under that key is that result; only   *)
(* after it, or when the account is deleted, may the key settle again.     *)
(***************************************************************************)
EXTENDS SpeechBase

VARIABLES
    asked,      \* the key each call came with
    settled,    \* the result of each key
    left,       \* what is left of the retention of that result
    observed,   \* the result a call has been given to answer with
    deleted     \* deleted accounts

promise == <<asked, settled, left, observed, deleted>>

Results == [id : Ids, by : Calls, storage : Storages]

Init ==
    /\ asked = [c \in Calls |-> None]
    /\ settled = [s \in Scopes |-> None]
    /\ left = [s \in Scopes |-> 0]
    /\ observed = [c \in Calls |-> None]
    /\ deleted = {}

Ask(c, s) ==
    /\ asked[c] = None
    /\ asked' = [asked EXCEPT ![c] = s]
    /\ UNCHANGED <<settled, left, observed, deleted>>

\* The call that produced r settles its key, and may or may not learn of it.
Settle(s, r) ==
    /\ asked[r.by] = s
    /\ settled[s] = None
    /\ settled' = [settled EXCEPT ![s] = r]
    /\ left' = [left EXCEPT ![s] = Ttl]
    /\ observed' \in {observed, [observed EXCEPT ![r.by] = r]}
    /\ UNCHANGED <<asked, deleted>>

Observe(c) ==
    /\ asked[c] # None
    /\ settled[asked[c]] # None
    /\ observed[c] = None
    /\ observed' = [observed EXCEPT ![c] = settled[asked[c]]]
    /\ UNCHANGED <<asked, settled, left, deleted>>

\* A replay that is refused, interrupted or lost answers no result.
Discard(c) ==
    /\ observed' = [observed EXCEPT ![c] = None]
    /\ UNCHANGED <<asked, settled, left, deleted>>

Forget(batch) ==
    /\ \A s \in batch : left[s] = 0
    /\ settled' = [s \in Scopes |-> IF s \in batch THEN None ELSE settled[s]]
    /\ UNCHANGED <<asked, left, observed, deleted>>

Delete(a) ==
    /\ settled' = [s \in Scopes |-> IF OwnerOf[s] = a THEN None ELSE settled[s]]
    /\ left' = [s \in Scopes |-> IF OwnerOf[s] = a THEN 0 ELSE left[s]]
    /\ deleted' = deleted \cup {a}
    /\ UNCHANGED <<asked, observed>>

Age ==
    /\ left' = [s \in Scopes |-> Elapse(left[s])]
    /\ UNCHANGED <<asked, settled, observed, deleted>>

Next ==
    \/ \E c \in Calls, s \in Scopes : Ask(c, s)
    \/ \E s \in Scopes, r \in Results : Settle(s, r)
    \/ \E c \in Calls : Observe(c) \/ Discard(c)
    \/ \E batch \in SUBSET Scopes : Forget(batch)
    \/ \E a \in Accounts : Delete(a)
    \/ Age

Spec == Init /\ [][Next]_promise
=============================================================================
