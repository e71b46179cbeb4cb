--------------------------- MODULE AudioNormalizer ---------------------------
(***************************************************************************)
(* From a provider's audio to the MP3 that Waveform returns:               *)
(* mp3_response_artifact and audio_artifact (infrastructure/providers)     *)
(* make an artifact of the answer, normalize_to_mp3 (infrastructure/audio) *)
(* passes a valid MP3 through and gives everything else to ffmpeg, whose   *)
(* output is checked the same way.                                         *)
(***************************************************************************)
EXTENDS FfmpegChild, Mp3Frames

CONSTANTS
    Answers,            \* what providers answer
    Outputs,            \* the streams that ffmpeg writes
    MaxProviderBytes,   \* MAX_PROVIDER_AUDIO_BYTES
    MaxInputBytes,      \* max_input_bytes
    MaxOutputBytes      \* max_output_bytes

ASSUME LimitsAssumption ==
    MaxProviderBytes \in Nat /\ MaxInputBytes \in Nat /\ MaxOutputBytes \in Nat

VARIABLES
    answer,     \* [via, media, rate, channels, bytes, stream]; NoAnswer where
                \* ffmpeg measures a source or is checked
    step,       \* answered | artifact | child | returned | refused
    audio       \* the NormalizedAudio

audioVars == <<answer, step, audio>>
normalizerVars == <<ffmpegVars, audioVars>>

\* via: an MP3 body, or Gemini's inline audio.  media: the essence of the media
\* type; the rate and the channels are its parameters, Absent or Unreadable if
\* they are.  An MP3's bytes are its stream.
Absent == -1
Unreadable == -2
NoAudio == [ms |-> -1]
NoAnswer == [media |-> "none"]

Length(a) == IF a.media = "mp3" THEN Size(a.stream) ELSE a.bytes
Channels(a) == IF a.channels = Absent THEN 1 ELSE a.channels

NormalizerInit ==
    /\ FfmpegInit
    /\ answer \in IF mode = "transcode" THEN Answers ELSE {NoAnswer}
    /\ step = IF mode = "transcode" THEN "answered" ELSE "child"
    /\ audio = NoAudio
-----------------------------------------------------------------------------
(***************************************************************************)
(* The provider's artifact                                                 *)
(***************************************************************************)
PcmSpecificationIsValid(rate, channels) == rate > 0 /\ channels \in 1 .. 8

FormatIsKnown(a) ==
    \/ a.media \in {"mp3", "wav"}
    \/ a.media = "l16" /\ PcmSpecificationIsValid(a.rate, Channels(a))

ArtifactIsBounded(a) == Length(a) \in 1 .. MaxProviderBytes

IsArtifact(a) ==
    /\ a.via = "body" => a.media = "mp3" /\ mp3_duration_ms(a.stream) # InvalidMp3
    /\ FormatIsKnown(a)
    /\ ArtifactIsBounded(a)

MakeArtifact ==
    /\ step = "answered"
    /\ step' = IF IsArtifact(answer) THEN "artifact" ELSE "refused"
    /\ UNCHANGED <<ffmpegVars, answer, audio>>
-----------------------------------------------------------------------------
(***************************************************************************)
(* normalize_to_mp3                                                        *)
(***************************************************************************)
InputIsBounded(a) == Length(a) \in 1 .. MaxInputBytes

\* 16 bits to a sample; a part of a frame is not audio.
pcm_duration_ms(a) ==
    IF a.bytes % (2 * Channels(a)) # 0 THEN -1
    ELSE CeilMillis(a.bytes \div (2 * Channels(a)), a.rate)

\* The media type that normalize_to_mp3 writes, read again.
RawPcmIsValid(a) == a.rate \in 8000 .. 384000 /\ Channels(a) \in 1 .. 8

Returned(ms, mp3) == step' = "returned" /\ audio' = [ms |-> ms, mp3 |-> mp3]
Refused == step' = "refused" /\ UNCHANGED audio

\* A valid MP3 is returned as it is.
PassThrough ==
    /\ step = "artifact"
    /\ answer.media = "mp3"
    /\ IF /\ InputIsBounded(answer)
          /\ Length(answer) <= MaxOutputBytes
          /\ mp3_duration_ms(answer.stream) # InvalidMp3
          /\ ArtifactIsBounded(answer)
       THEN Returned(mp3_duration_ms(answer.stream), answer.stream)
       ELSE Refused
    /\ UNCHANGED <<ffmpegVars, answer>>

\* Anything else needs ffmpeg, which may not start.
Spawn ==
    /\ step = "artifact"
    /\ answer.media # "mp3"
    /\ \/ /\ answer.media = "l16" => pcm_duration_ms(answer) >= 0 /\ RawPcmIsValid(answer)
          /\ InputIsBounded(answer)
          /\ step' = "child"
       \/ step' = "refused"
    /\ UNCHANGED <<ffmpegVars, answer, audio>>

RunChild ==
    /\ step = "child"
    /\ FfmpegNext
    /\ UNCHANGED audioVars

\* ffmpeg's output is checked as well; the duration of PCM is the source's.
Finish ==
    /\ step = "child"
    /\ mode = "transcode" /\ result # "none"
    /\ \/ /\ result = "ok"
          /\ \E s \in Outputs :
               /\ (Size(s) = 0) <=> (stdout.got = 0)
               /\ IF mp3_duration_ms(s) # InvalidMp3 /\ Size(s) \in 1 .. MaxProviderBytes
                  THEN Returned(IF answer.media = "l16" THEN pcm_duration_ms(answer)
                                ELSE mp3_duration_ms(s), s)
                  ELSE Refused
       \/ result # "ok" /\ Refused
    /\ UNCHANGED <<ffmpegVars, answer>>

NormalizerNext == MakeArtifact \/ PassThrough \/ Spawn \/ RunChild \/ Finish

NormalizerSpec == NormalizerInit /\ [][NormalizerNext]_normalizerVars
-----------------------------------------------------------------------------
(***************************************************************************)
(* Properties                                                              *)
(***************************************************************************)

\* What Waveform returns as MP3 is one whole MP3 stream, and its duration
\* covers exactly the source's samples if the source was PCM, else those of
\* the frames; an MP3 answer within the limits that is one whole stream is
\* not refused, whatever its version, bitrate, sample rate, padding and tags.
DurationIsExact ==
    /\ step = "returned" =>
         /\ IsOneMp3(audio.mp3)
         /\ IF answer.media = "l16"
            THEN LET samples == answer.bytes \div (2 * Channels(answer))
                 IN  /\ answer.bytes = samples * 2 * Channels(answer)
                     /\ audio.ms * answer.rate >= samples * 1000
                     /\ (audio.ms - 1) * answer.rate < samples * 1000
            ELSE IsDurationOf(audio.ms, audio.mp3)
         /\ answer.media = "mp3" => audio.mp3 = answer.stream
    /\ step = "refused" /\ answer.media = "mp3" =>
         \/ ~IsOneMp3(answer.stream)
         \/ Length(answer) > MaxProviderBytes
         \/ Length(answer) > MaxInputBytes
         \/ Length(answer) > MaxOutputBytes
=============================================================================
