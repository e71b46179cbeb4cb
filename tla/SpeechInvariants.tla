-------------------------- MODULE SpeechInvariants --------------------------
(***************************************************************************)
(* The inductive invariants behind the safety properties of SpeechService. *)
(* Inv: what a lease token, a history row and a remembered result say      *)
(* about the call they name.  AudioInv: whose audio a request id holds,    *)
(* when the timers are prompt.                                             *)
(***************************************************************************)
EXTENDS SpeechService

\* Calls that carry a result to answer with.
Informed == Answered \cup {"replaying"}

\* A pending record names the call that claimed it last: a call of its scope and
\* body which is past its claim, and which knows the record's canonical id and
\* creation unless it has ended.
TokenFits ==
    \A s \in Scopes : records[s].state = "pending" =>
        LET c == records[s].token IN
        /\ calls[c].pc \in Guarded \cup {"ended"}
        /\ calls[c].scope = s
        /\ calls[c].digest = records[s].digest
        /\ calls[c].pc \in Guarded =>
              calls[c].id = records[s].id /\ calls[c].origin = records[s].origin

\* So does a history row that has not completed.
JobTokenFits ==
    \A i \in Ids : jobs[i].status \in {"running", "failed"} =>
        LET c == jobs[i].token IN
        /\ calls[c].pc \in Guarded \cup {"ended"} \cup Answered
        /\ calls[c].scope = jobs[i].scope
        /\ calls[c].digest = jobs[i].digest

\* The creation a record keeps is that of a call past its claim.
RecordOriginFits ==
    \A s \in Scopes : records[s].state # "absent" =>
        /\ calls[records[s].origin].pc \notin {"idle", "authorized"}
        /\ calls[records[s].origin].scope = s

\* So is the creation a call has been told.
CallOriginFits ==
    \A c \in Calls : calls[c].origin # None =>
        /\ calls[calls[c].origin].pc \notin {"idle", "authorized"}
        /\ calls[calls[c].origin].scope = calls[c].scope

\* The result of a record was produced for its scope and body.
RecordResultFits ==
    \A s \in Scopes : records[s].state = "completed" =>
        /\ calls[records[s].by].pc # "idle"
        /\ calls[records[s].by].scope = s
        /\ calls[records[s].by].digest = records[s].digest

\* So was the result a call has been given, and while the record it came from
\* is there the record still says the same.
CallResultFits ==
    \A c \in Calls : calls[c].pc \in Informed =>
        LET rec == records[calls[c].scope] IN
        /\ calls[c].origin # None
        /\ calls[c].by # None
        /\ calls[calls[c].by].pc # "idle"
        /\ calls[calls[c].by].scope = calls[c].scope
        /\ calls[calls[c].by].digest = calls[c].digest
        /\ rec.state # "absent" /\ rec.origin = calls[c].origin =>
              /\ rec.state = "completed"
              /\ rec.by = calls[c].by
              /\ rec.id = calls[c].id
              /\ rec.storage = calls[c].storage

\* AnswersAgree, from the moment a call is given its result.
ResultsAgree ==
    \A c1, c2 \in Calls :
        /\ calls[c1].pc \in Informed /\ calls[c2].pc \in Informed
        /\ calls[c1].origin = calls[c2].origin
        => /\ calls[c1].by = calls[c2].by
           /\ calls[c1].id = calls[c2].id
           /\ calls[c1].storage = calls[c2].storage

\* A working call has the history row of its canonical id.
WorkerFits ==
    \A c \in Calls : calls[c].pc = "working" /\ Owner(c) \notin deleted =>
        /\ jobs[calls[c].id].status # "absent"
        /\ jobs[calls[c].id].scope = calls[c].scope
        /\ jobs[calls[c].id].digest = calls[c].digest

\* With prompt timers a call that may still work owns the lease of its scope,
\* and the lease outlives the call.
LeaseCoversCall ==
    \A c \in Calls :
        /\ calls[c].pc \in {"claimed", "working", "completing"}
        /\ calls[c].budget > 0
        /\ Owner(c) \notin deleted
        => /\ Current(calls[c].scope, c)
           /\ records[calls[c].scope].lease >= calls[c].budget

\* A call completes with a result.
CompletingHasResult ==
    \A c \in Calls : calls[c].pc = "completing" => calls[c].storage \in Storages

\* A detached release belongs to a call that has ended.
ReleasesEnded == \A c \in releases : calls[c].pc = "ended"

\* The inductive invariant: what tokens, origins and results say about the calls
\* they name, with the properties that need nothing else.
Inv ==
    /\ TypeOK
    /\ TokenFits
    /\ JobTokenFits
    /\ RecordOriginFits
    /\ CallOriginFits
    /\ RecordResultFits
    /\ CallResultFits
    /\ ResultsAgree
    /\ CompletedTogether
    /\ JobsFollowLease
    /\ WorkerFits
    /\ HeldFitsHistory
    /\ CompletingHasResult
    /\ ReleasesEnded
    /\ Prompt => LeaseCoversCall

-----------------------------------------------------------------------------
(***************************************************************************)
(* The audio behind a record.  Deletion takes the history row of a call    *)
(* away from under it, so a call of a deleted account may still hold audio *)
(* under an id that by then belongs to somebody else.                      *)
(***************************************************************************)

\* A call that may still hold audio under a request id.
MayStillHold(c) == calls[c].pc = "working" /\ calls[c].budget > 0

\* A call that has its result still has its history row.
CompletingFits ==
    \A c \in Calls : calls[c].pc = "completing" /\ Owner(c) \notin deleted =>
        /\ jobs[calls[c].id].status # "absent"
        /\ jobs[calls[c].id].scope = calls[c].scope

\* The audio of another account under a call's request id outlives the call.
OthersAudioOutlives ==
    \A c \in Calls :
        MayStillHold(c) /\ held[calls[c].id].owner \notin deleted \cup {None, Owner(c)} =>
            held[calls[c].id].ttl > calls[c].budget

\* The audio under request id i is the one call b made for account a, or has
\* been cleaned up; it stays as long as any call may hold audio under i.
AudioIs(i, a, b) ==
    /\ held[i].owner # None => held[i].owner = a /\ held[i].by = b
    /\ \A c \in Calls : MayStillHold(c) /\ calls[c].id = i =>
          held[i].owner # None /\ held[i].ttl > calls[c].budget

\* So it is from the moment a call has held its audio ...
CallAudioFits ==
    \A c \in Calls :
        /\ calls[c].pc = "completing" /\ calls[c].storage = "held"
        /\ calls[c].budget > 0 /\ Owner(c) \notin deleted
        => AudioIs(calls[c].id, Owner(c), c)

\* ... until the record that it completed is gone.
RecordAudioFits ==
    \A s \in Scopes :
        /\ records[s].state = "completed" /\ records[s].storage = "held"
        /\ OwnerOf[s] \notin deleted
        => AudioIs(records[s].id, OwnerOf[s], records[s].by)

\* The inductive invariant of held audio, for prompt timers.
AudioInv ==
    /\ CompletingFits
    /\ OthersAudioOutlives
    /\ CallAudioFits
    /\ RecordAudioFits
=============================================================================
