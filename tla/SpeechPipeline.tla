--------------------------- MODULE SpeechPipeline ---------------------------
(***************************************************************************)
(* execute_tts and execute_stt (application/service.rs): what one call     *)
(* does between the start of its history row and its completion, over the  *)
(* provider adapters, the audio normalizer, the Briefcase client and the   *)
(* held-audio store.                                                       *)
(*                                                                         *)
(* An operation is one idempotency record: its calls run one at a time     *)
(* (SpeechService proves that) and bring the same validated request, its   *)
(* plan.  A call may be dropped at any await, by its deadline or because   *)
(* its client went away.                                                   *)
(***************************************************************************)
EXTENDS ProviderAttempts, BriefcaseUploads, Functions

CONSTANTS
    Chain,  \* TTS_PROVIDER_CHAIN, STT_PROVIDER_CHAIN
    Plans   \* the requests clients may bring

ASSUME ChainAssumption ==
    /\ Chain \in Seq(Providers)
    /\ IsInjective(Chain)
    /\ Plans \subseteq [op : {"tts", "stt"}, delegated : BOOLEAN, fallback : BOOLEAN,
                        requested : Seq(Providers) \cup {None}, saved : Seq(Providers)]

VARIABLES
    plans,  \* the request of each operation
    calls   \* the calls in progress

pipelineVars == <<attemptVars, uploadVars, plans, calls>>

\* choose     the head of rest is the next provider
\* synth      TTS exchange              normalize  the audio normalizer
\* upload, poll, interact, delete       Gemini's STT exchanges
\* cleaning   run_until begins          transcribe the other adapters' exchange
\* proof      the authority hands out a Briefcase proof
\* renew      renew_refused_proof       read, measure  the STT source
\* reserve, transfer, commit, check     the upload      hold  the audio store
AtProvider == {"synth", "upload", "poll", "interact", "cleaning", "delete", "transcribe"}
AtBriefcase == {"read", "reserve", "transfer", "commit", "check"}
Live == AtProvider \cup AtBriefcase \cup {"choose", "normalize", "proof", "renew", "measure", "hold"}

Fulfilled == {"briefcase", "held", "transcript"}
Failures == {"InvalidRequest", "ProviderFailed", "ProvidersExhausted", "Normalizer",
             "UnsupportedMedia", "Briefcase", "Authority", "AudioStore", "dropped"}

\* heard: Gemini's transcript is parsed; audio: the MP3 exists; proof: which
\* Briefcase proof is in use; tried: the providers asked so far (history).
Waiting == [pc |-> "idle", op |-> None, rest |-> <<>>, tried |-> <<>>,
            heard |-> FALSE, audio |-> FALSE, proof |-> "none", result |-> "none"]

CallTypes ==
    [pc : Live \cup {"idle", "ended"}, op : Operations \cup {None},
     rest : Seq(Providers), tried : Seq(Providers),
     heard : BOOLEAN, audio : BOOLEAN, proof : {"none", "first", "renewed"},
     result : Fulfilled \cup Failures \cup {"none"}]

\* Attempts, uploads and calls keep their shape.
PipelineTypeOK ==
    /\ AttemptsTypeOK
    /\ UploadsTypeOK
    /\ plans \in [Operations -> Plans]
    /\ calls \in [Calls -> CallTypes]

PipelineInit ==
    /\ AttemptsInit
    /\ UploadsInit
    /\ plans \in [Operations -> Plans]
    /\ calls = [c \in Calls |-> Waiting]

Plan(c) == plans[calls[c].op]

At(c, pc) == calls[c].pc = pc

Move(c, pc) == calls' = [calls EXCEPT ![c].pc = pc]

End(c, result) == calls' = [calls EXCEPT ![c].pc = "ended", ![c].result = result]
-----------------------------------------------------------------------------
(***************************************************************************)
(* The order of providers                                                  *)
(***************************************************************************)

\* Faulty variant: the preferred providers are not left out of the rest.
ResolveRepeats(requested, base) ==
    IF /\ Len(requested) <= Len(base)
       /\ Range(requested) \subseteq Range(base)
       /\ IsInjective(requested)
    THEN requested \o base
    ELSE <<>>

\* The members of base that are not in used, in their order.
Without(base, used) ==
    LET kept[i \in 0 .. Len(base)] ==
          IF i = 0 THEN <<>>
          ELSE IF base[i] \in used THEN kept[i - 1] ELSE Append(kept[i - 1], base[i])
    IN  kept[Len(base)]

\* resolve_order: the preferred providers, then the rest of base in its order;
\* <<>> stands for None.
ResolveOrder(requested, base) ==
    IF /\ Len(requested) <= Len(base)
       /\ Range(requested) \subseteq Range(base)
       /\ IsInjective(requested)
    THEN requested \o Without(base, Range(requested))
    ELSE <<>>

\* complete_provider_order against the account's saved order, and again in
\* execute_tts and execute_stt against the chain.  An explicit empty list, an
\* unknown or repeated name and an incomplete order are refused.
Order(plan) ==
    LET saved == ResolveOrder(IF plan.requested = None THEN <<>> ELSE plan.requested, plan.saved) IN
    IF plan.requested = <<>> \/ Len(saved) # Len(Chain) THEN <<>>
    ELSE ResolveOrder(saved, Chain)

\* The providers execute_tts or execute_stt will go through; only TTS has
\* auto_fallback.
Asking(plan) ==
    IF plan.op = "tts" /\ ~plan.fallback
    THEN SubSeq(Order(plan), 1, 1)
    ELSE Order(plan)

\* A call reaches execute_tts or execute_stt.  No call of the operation runs,
\* and none has completed it: that would be a replay.
Begin(c, o) ==
    /\ At(c, "idle")
    /\ \A d \in Calls : calls[d].op = o => calls[d].pc = "ended" /\ calls[d].result \notin Fulfilled
    /\ calls' = [calls EXCEPT ![c] =
            IF Order(plans[o]) = <<>>
            THEN [Waiting EXCEPT !.pc = "ended", !.op = o, !.result = "InvalidRequest"]
            ELSE [Waiting EXCEPT !.pc = IF plans[o].op = "tts" THEN "choose" ELSE "proof",
                                 !.op = o, !.rest = Asking(plans[o])]]
    /\ UNCHANGED <<attemptVars, uploadVars, plans>>
-----------------------------------------------------------------------------
(***************************************************************************)
(* Providers                                                               *)
(***************************************************************************)

\* The call after its current provider has failed: without auto_fallback a TTS
\* call ends, else the next provider is asked, if one is left.
Passed(call, plan) ==
    CASE plan.op = "tts" /\ ~plan.fallback ->
            [call EXCEPT !.pc = "ended", !.result = "ProviderFailed"]
      [] Len(call.rest) = 1 /\ ~(plan.op = "tts" /\ ~plan.fallback) ->
            [call EXCEPT !.pc = "ended", !.result = "ProvidersExhausted"]
      [] OTHER -> [call EXCEPT !.pc = "choose", !.rest = Tail(@)]

NextProvider(c) == calls' = [calls EXCEPT ![c] = Passed(@, Plan(c))]

FirstExchange(c, p) ==
    IF Plan(c).op = "tts" THEN "synth"
    ELSE IF p = Gemini THEN "upload" ELSE "transcribe"

Asked(call) == [call EXCEPT !.tried = Append(@, Head(call.rest))]

Choose(c) ==
    LET p == Head(calls[c].rest) IN
    /\ At(c, "choose")
    /\ Acquire(c, p)
    /\ calls' = [calls EXCEPT ![c] = [Asked(@) EXCEPT !.pc = FirstExchange(c, p)]]
    /\ UNCHANGED <<files, guards, cleanups, asked, uploadVars, plans>>

\* Configuration (no key) or Saturated: the attempt fails without waiting.
ChooseFails(c) ==
    /\ At(c, "choose")
    /\ ~MayAcquire(Head(calls[c].rest))
    /\ calls' = [calls EXCEPT ![c] = Passed(Asked(@), Plan(c))]
    /\ UNCHANGED <<attemptVars, uploadVars, plans>>

\* The attempt returns an error (also a success that does not parse).
AttemptFails(c) ==
    /\ calls[c].pc \in {"synth", "transcribe"}
    /\ Release(c)
    /\ NextProvider(c)
    /\ UNCHANGED <<files, guards, cleanups, asked, uploadVars, plans>>

\* A transient failure of the same exchange, sent once more.  Generation is
\* never sent twice.
SendAgain(c) ==
    /\ calls[c].pc \in {"transcribe", "poll", "interact"}
    /\ Resend(c, calls[c].pc)
    /\ UNCHANGED <<free, files, guards, cleanups, asked, uploadVars, plans, calls>>

Synthesized(c) ==
    /\ At(c, "synth")
    /\ Release(c)
    /\ Move(c, "normalize")
    /\ UNCHANGED <<files, guards, cleanups, asked, uploadVars, plans>>

Transcribed(c) ==
    /\ At(c, "transcribe")
    /\ Release(c)
    /\ End(c, "transcript")
    /\ UNCHANGED <<files, guards, cleanups, asked, uploadVars, plans>>

Normalized(c) ==
    /\ At(c, "normalize")
    /\ calls' = [calls EXCEPT ![c].audio = TRUE,
                              ![c].pc = IF Plan(c).delegated THEN "hold" ELSE "proof"]
    /\ UNCHANGED <<attemptVars, uploadVars, plans>>

\* InvalidAudio and Failed blame the provider; Saturated, Timeout and
\* Unavailable end the request, with or without auto_fallback.
NormalizeFails(c, error) ==
    /\ At(c, "normalize")
    /\ CASE error = "InvalidAudio" -> NextProvider(c)
         [] error = "Failed" -> IF Plan(c).fallback THEN NextProvider(c) ELSE End(c, "Normalizer")
         [] error = "Unavailable" -> End(c, "Normalizer")
    /\ UNCHANGED <<attemptVars, uploadVars, plans>>
-----------------------------------------------------------------------------
(***************************************************************************)
(* Gemini's transcription                                                  *)
(***************************************************************************)
GeminiUploads(c) ==
    /\ At(c, "upload")
    /\ FileUploaded(c)
    /\ Move(c, "poll")
    /\ UNCHANGED <<free, attempt, uploadVars, plans>>

GeminiUploadFails(c) ==
    /\ At(c, "upload")
    /\ UploadLost(c)
    /\ Release(c)
    /\ NextProvider(c)
    /\ UNCHANGED <<uploadVars, plans>>

\* wait_until_active: PROCESSING polls again, ACTIVE goes on.
GeminiPolls(c, state) ==
    /\ At(c, "poll")
    /\ Move(c, IF state = "ACTIVE" THEN "interact" ELSE "poll")
    /\ UNCHANGED <<attemptVars, uploadVars, plans>>

GeminiHears(c) ==
    /\ At(c, "interact")
    /\ calls' = [calls EXCEPT ![c].pc = "cleaning", ![c].heard = TRUE]
    /\ UNCHANGED <<attemptVars, uploadVars, plans>>

\* FAILED, an error, an unusable answer or the deadline.
GeminiFails(c) ==
    /\ calls[c].pc \in {"poll", "interact"}
    /\ Move(c, "cleaning")
    /\ SpendToken(c) \/ KeepToken(c)
    /\ UNCHANGED <<free, files, guards, cleanups, asked, uploadVars, plans>>

\* The attempt returns its result, whatever became of the file.
GeminiReturns(c) ==
    /\ Release(c)
    /\ IF calls[c].heard THEN End(c, "transcript") ELSE NextProvider(c)

CleanInTime(c) ==
    /\ At(c, "cleaning")
    /\ DeleteSent(c)
    /\ Move(c, "delete")
    /\ UNCHANGED <<free, attempt, uploadVars, plans>>

CleanTooLate(c) ==
    /\ At(c, "cleaning")
    /\ SpawnCleanup(c)
    /\ GeminiReturns(c)
    /\ UNCHANGED <<uploadVars, plans>>

\* The deletion is answered, with success or an error that is only logged.
Deleted(c) ==
    /\ At(c, "delete")
    /\ DeleteApplied(c)
    /\ GeminiReturns(c)
    /\ UNCHANGED <<guards, cleanups, asked, uploadVars, plans>>

\* The deadline passes while the deletion is under way: it is sent once more.
DeleteTimesOut(c) ==
    /\ At(c, "delete")
    /\ DeleteApplied(c)
    /\ cleanups' = cleanups \cup {c}
    /\ GeminiReturns(c)
    /\ UNCHANGED <<guards, asked, uploadVars, plans>>

DetachedCleanup(c) ==
    /\ RunCleanup(c)
    /\ UNCHANGED <<uploadVars, plans, calls>>
-----------------------------------------------------------------------------
(***************************************************************************)
(* The Briefcase proof, the STT source and the upload                      *)
(***************************************************************************)
FirstBriefcaseExchange(c) == IF Plan(c).op = "tts" THEN "reserve" ELSE "read"

\* briefcase_proof, or renew_refused_proof after a refusal: the operation
\* begins (again) with the proof.
ProofHandedOut(c) ==
    /\ calls[c].pc \in {"proof", "renew"}
    /\ calls' = [calls EXCEPT ![c].proof = IF At(c, "proof") THEN "first" ELSE "renewed",
                              ![c].pc = FirstBriefcaseExchange(c)]
    /\ UNCHANGED <<attemptVars, uploadVars, plans>>

\* No proof: TTS holds its audio, STT cannot go on.
StorageFails(c, error) ==
    IF Plan(c).op = "tts" THEN Move(c, "hold") ELSE End(c, error)

ProofFails(c) ==
    /\ calls[c].pc \in {"proof", "renew"}
    /\ StorageFails(c, "Authority")
    /\ UNCHANGED <<attemptVars, uploadVars, plans>>

\* Faulty variant: a proof refused twice fails the request.
FailSecondRefusal(c) ==
    /\ calls[c].pc \in AtBriefcase
    /\ IF calls[c].proof = "first" THEN Move(c, "renew") ELSE End(c, "Authority")
    /\ UNCHANGED <<attemptVars, uploadVars, plans>>

\* 401 on any Briefcase exchange: with_renewal renews the proof once.
Unauthorized(c) ==
    /\ calls[c].pc \in AtBriefcase
    /\ IF calls[c].proof = "first" THEN Move(c, "renew") ELSE StorageFails(c, "Authority")
    /\ UNCHANGED <<attemptVars, uploadVars, plans>>

SourceRead(c) ==
    /\ At(c, "read")
    /\ Move(c, "measure")
    /\ UNCHANGED <<attemptVars, uploadVars, plans>>

SourceMeasured(c) ==
    /\ At(c, "measure")
    /\ Move(c, "choose")
    /\ UNCHANGED <<attemptVars, uploadVars, plans>>

SourceNotMeasured(c, error) ==
    /\ At(c, "measure")
    /\ End(c, error)
    /\ UNCHANGED <<attemptVars, uploadVars, plans>>

Message(c) == [op |-> calls[c].op, exchange |-> calls[c].pc, audio |-> c]

\* The exchange is answered: Briefcase went along, and the upload goes on as
\* far as its answer says, or it did not (409), and the audio is held.
Exchanged(c) ==
    LET next == IF ~Accepts(Message(c)) THEN "hold"
                ELSE CASE At(c, "reserve")  -> AfterReserve(Applied(Message(c)).stage)
                       [] At(c, "transfer") -> "commit"
                       [] At(c, "commit")   -> "check" IN
    /\ calls[c].pc \in Exchanges
    /\ Apply(Message(c))
    /\ Move(c, next)
    /\ UNCHANGED <<attemptVars, wire, held, plans>>

\* Any other failure or the timeout of store_generated_audio: what was sent
\* may still be applied.
UploadFails(c) ==
    /\ calls[c].pc \in Exchanges \cup {"check"}
    /\ wire' = wire \cup (IF At(c, "check") THEN {} ELSE {Message(c)})
    /\ Move(c, "hold")
    /\ UNCHANGED <<attemptVars, uploads, held, plans>>

ReadFails(c) ==
    /\ At(c, "read")
    /\ End(c, "Briefcase")
    /\ UNCHANGED <<attemptVars, uploadVars, plans>>

\* The published entry is the file that was sent.
Stored(c) ==
    /\ At(c, "check")
    /\ End(c, "briefcase")
    /\ UNCHANGED <<attemptVars, uploadVars, plans>>

Held(c) ==
    /\ At(c, "hold")
    /\ held' = [held EXCEPT ![calls[c].op] = c]
    /\ End(c, "held")
    /\ UNCHANGED <<attemptVars, uploads, wire, plans>>

HoldFails(c) ==
    /\ At(c, "hold")
    /\ End(c, "AudioStore")
    /\ UNCHANGED <<attemptVars, uploadVars, plans>>

LateExchange(m) ==
    /\ ArriveLate(m)
    /\ UNCHANGED <<attemptVars, plans, calls>>

\* The call's future is dropped: its permit returns, an armed cleanup guard
\* spawns the deletion, and what was on its way may still be applied.
Drop(c) ==
    /\ calls[c].pc \in Live
    /\ Release(c)
    /\ DropGuard(c)
    /\ IF At(c, "upload") THEN \E f \in {"none", "lost"} : files' = [files EXCEPT ![c] = f]
       ELSE IF At(c, "delete") THEN DeleteApplied(c)
       ELSE UNCHANGED files
    /\ wire' = wire \cup (IF calls[c].pc \in Exchanges THEN {Message(c)} ELSE {})
    /\ End(c, "dropped")
    /\ UNCHANGED <<uploads, held, plans>>
-----------------------------------------------------------------------------
CallStep(c) ==
    \/ Choose(c) \/ ChooseFails(c) \/ AttemptFails(c) \/ SendAgain(c)
    \/ Synthesized(c) \/ Transcribed(c) \/ Normalized(c)
    \/ \E error \in {"InvalidAudio", "Failed", "Unavailable"} : NormalizeFails(c, error)
    \/ GeminiUploads(c) \/ GeminiUploadFails(c)
    \/ \E state \in {"PROCESSING", "ACTIVE"} : GeminiPolls(c, state)
    \/ GeminiHears(c) \/ GeminiFails(c)
    \/ CleanInTime(c) \/ CleanTooLate(c) \/ Deleted(c) \/ DeleteTimesOut(c)
    \/ ProofHandedOut(c) \/ ProofFails(c) \/ Unauthorized(c)
    \/ SourceRead(c) \/ ReadFails(c) \/ SourceMeasured(c)
    \/ \E error \in {"UnsupportedMedia", "Normalizer"} : SourceNotMeasured(c, error)
    \/ Exchanged(c) \/ UploadFails(c) \/ Stored(c) \/ Held(c) \/ HoldFails(c)

PipelineNext ==
    \/ \E c \in Calls : CallStep(c) \/ Drop(c) \/ DetachedCleanup(c)
    \/ \E c \in Calls, o \in Operations : Begin(c, o)
    \/ \E m \in wire : LateExchange(m)

PipelineSpec == PipelineInit /\ [][PipelineNext]_pipelineVars
-----------------------------------------------------------------------------
(***************************************************************************)
(* Properties                                                              *)
(***************************************************************************)

\* Every permit of an adapter is free or with exactly one call that is in an
\* exchange with it: no error, deadline or dropped call leaks one, so a
\* provider never becomes Saturated for good (try_acquire).
PermitsAccounted ==
    /\ \A p \in Providers :
         free[p] + Cardinality({c \in Calls : attempt[c].at = p}) = Permits
    /\ \A c \in Calls : attempt[c].at # None <=> calls[c].pc \in AtProvider

\* D-022: a file whose name Waveform has learned is deleted, or its guard is
\* armed, or a deletion is under way or has been sent, after success, failure
\* and cancellation alike.
UploadsReclaimed ==
    \A c \in Calls : files[c] = "kept" => c \in guards \cup cleanups \cup asked

\* D-038: an attempt sends at most one exchange a second time, and never one
\* that generates speech, creates or finalizes an upload, or deletes.
ResendsAreSafe ==
    \A c \in Calls : Len(attempt[c].again) <= 1 /\ Range(attempt[c].again) \subseteq Resendable

\* "Providers exhausted" is answered only after every provider of the chain
\* has been asked, each once and the preferred ones first; without
\* auto_fallback TTS asks one provider only.
FallbackIsComplete ==
    \A c \in Calls :
      LET call == calls[c] IN
      /\ call.result = "ProvidersExhausted" =>
           /\ Range(call.tried) = Range(Chain)
           /\ Plan(c).requested # None =>
                SubSeq(call.tried, 1, Len(Plan(c).requested)) = Plan(c).requested
      /\ call.tried # <<>> => IsInjective(call.tried)
      /\ call.tried # <<>> /\ Plan(c).op = "tts" /\ ~Plan(c).fallback => Len(call.tried) = 1

\* An answer that names a Briefcase file or held audio names the audio this
\* call generated: refused and renewed proofs, lost answers and what earlier
\* calls left on the way cannot put another call's audio there.
AnswerIsStored ==
    \A c \in Calls :
      /\ calls[c].result = "briefcase" =>
           uploads[calls[c].op] = [stage |-> "committed", audio |-> c]
      /\ calls[c].result = "held" => held[calls[c].op] = c

\* "Briefcase failures do not fail the request": once the audio exists, only
\* Waveform's own audio store or a dropped call can lose it.
BriefcaseNeverFails ==
    \A c \in Calls : calls[c].audio /\ calls[c].pc = "ended" =>
        calls[c].result \in {"briefcase", "held", "AudioStore", "dropped"}
=============================================================================
