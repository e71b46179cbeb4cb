-------------------------- MODULE BriefcaseUploads --------------------------
(***************************************************************************)
(* Waveform's uploads at Briefcase (infrastructure/briefcase.rs) and the   *)
(* audio that Waveform holds instead.  An upload is named by the request   *)
(* id, so a retry of the same operation, with another proof or by another  *)
(* call, meets the upload that an earlier attempt began.                   *)
(*                                                                         *)
(* Briefcase is external: a reservation is bound to the SHA-256 it named,  *)
(* staging checks the bytes against it, and every exchange may be applied  *)
(* after Waveform has given up on it (wire).                               *)
(***************************************************************************)
EXTENDS PipelineBase

VARIABLES
    uploads,    \* the upload of each operation at Briefcase
    wire,       \* exchanges Waveform has given up on that may still arrive
    held        \* the audio Waveform holds for each operation

uploadVars == <<uploads, wire, held>>

Stages == {"none", "reserved", "staged", "committed"}

NoUpload == [stage |-> "none", audio |-> None]

Exchanges == {"reserve", "transfer", "commit"}

Messages == [op : Operations, exchange : Exchanges, audio : Calls]

UploadsTypeOK ==
    /\ uploads \in [Operations -> [stage : Stages, audio : Calls \cup {None}]]
    /\ wire \subseteq Messages
    /\ held \in [Operations -> Calls \cup {None}]

UploadsInit ==
    /\ uploads = [o \in Operations |-> NoUpload]
    /\ wire = {}
    /\ held = [o \in Operations |-> None]
-----------------------------------------------------------------------------
\* Whether Briefcase accepts the exchange, and what becomes of the upload.
Accepts(m) ==
    LET u == uploads[m.op] IN
    CASE m.exchange = "reserve"  -> u.audio \in {None, m.audio}
      [] m.exchange = "transfer" -> u.stage = "reserved" /\ u.audio = m.audio
      [] m.exchange = "commit"   -> u.stage \in {"staged", "committed"} /\ u.audio = m.audio

Applied(m) ==
    CASE m.exchange = "reserve"  -> IF uploads[m.op] = NoUpload
                                    THEN [stage |-> "reserved", audio |-> m.audio]
                                    ELSE uploads[m.op]
      [] m.exchange = "transfer" -> [stage |-> "staged", audio |-> m.audio]
      [] m.exchange = "commit"   -> [stage |-> "committed", audio |-> m.audio]

Apply(m) == uploads' = [uploads EXCEPT ![m.op] = IF Accepts(m) THEN Applied(m) ELSE @]

\* An exchange Waveform no longer waits for reaches Briefcase.
ArriveLate(m) ==
    /\ m \in wire
    /\ wire' = wire \ {m}
    /\ Apply(m)
    /\ UNCHANGED held

\* Faulty variant: a staged upload counts as stored.
AfterReserveStaged(stage) == IF stage = "reserved" THEN "transfer" ELSE "check"

\* The exchange after a reservation answered in this stage: what has been
\* staged is not transferred again, what has been committed is done.
AfterReserve(stage) ==
    CASE stage = "reserved"  -> "transfer"
      [] stage = "staged"    -> "commit"
      [] stage = "committed" -> "check"
=============================================================================
