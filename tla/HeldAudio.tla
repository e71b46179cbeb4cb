------------------------------ MODULE HeldAudio ------------------------------
(***************************************************************************)
(* waveform_held_audio: generated speech that Waveform keeps itself when   *)
(* it is not stored in the account's Briefcase files                       *)
(* (infrastructure/held_audio.rs).  One row per request id.                *)
(***************************************************************************)
EXTENDS SpeechBase

VARIABLE held   \* the MP3 held for each request id

NoAudio == [owner |-> None, by |-> None, ttl |-> 0]

\* by is the call whose bytes are stored; it stands for the audio itself.
HeldRows == [owner : Accounts, by : Calls, ttl : 0 .. Ttl]

HeldTypeOK == held \in [Ids -> {NoAudio} \cup HeldRows]

HeldInit == held = [i \in Ids |-> NoAudio]

\* hold: ON CONFLICT replaces audio and reason of the same owner's row and
\* keeps its expires_at; another owner's row makes it fail.
MayHold(i, a) == held[i].owner \in {None, a}

\* Faulty variant: ON CONFLICT DO NOTHING.
HoldFirstOnly(i, a, c) ==
    /\ MayHold(i, a)
    /\ held' = [held EXCEPT ![i] = IF @.owner = None
                                   THEN [owner |-> a, by |-> c, ttl |-> Ttl]
                                   ELSE @]

Hold(i, a, c) ==
    /\ MayHold(i, a)
    /\ held' = [held EXCEPT ![i] = IF @.owner = None
                                   THEN [owner |-> a, by |-> c, ttl |-> Ttl]
                                   ELSE [@ EXCEPT !.by = c]]

\* is_held, and fetch behind GET /audio/{request_id}
IsHeld(i, a) == held[i].owner = a /\ held[i].ttl > 0

\* delete_expired: a bounded batch of expired rows.
ExpiredAudio(i) == held[i].owner # None /\ held[i].ttl = 0

DeleteExpiredAudio(batch) ==
    /\ batch # {}
    /\ \A i \in batch : ExpiredAudio(i)
    /\ held' = [i \in Ids |-> IF i \in batch THEN NoAudio ELSE held[i]]

\* The part of purge_account that deletes held audio.
DeleteAccountAudio(a) ==
    held' = [i \in Ids |-> IF held[i].owner = a THEN NoAudio ELSE held[i]]

AgeAudio == held' = [i \in Ids |-> [held[i] EXCEPT !.ttl = Elapse(@)]]
=============================================================================
