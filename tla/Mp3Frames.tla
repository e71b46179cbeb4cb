------------------------------ MODULE Mp3Frames ------------------------------
(***************************************************************************)
(* The MP3 check of infrastructure/audio.rs: an ID3v2 tag is skipped, the  *)
(* frames are followed from header to header, and the duration comes from  *)
(* the samples they hold.  The code sees bytes; here a stream is what lies *)
(* in them, laid out as ISO 11172-3 says, and the offsets that the code    *)
(* computes have to meet the headers.                                      *)
(***************************************************************************)
EXTENDS Integers, Sequences, TLC
LOCAL INSTANCE Functions

\* The fields of a header, after its sync bits.
Headers == [version : 0 .. 3, layer : 0 .. 3, bitrate : 0 .. 15, rate : 0 .. 3, padding : 0 .. 1]

\* A stream: an ID3v2 tag (size -1: none; safe: the size bytes' top bits are
\* clear), the headers of the frames, what follows them, and how many of the
\* last bytes are missing.
NoId3 == [size |-> -1, footer |-> FALSE, safe |-> TRUE]
Stream(id3, headers, tail, missing) ==
    [id3 |-> id3, headers |-> headers, tail |-> tail, missing |-> missing]

TailBytes == [none |-> 0, TAG |-> 128, APETAGEX |-> 32, noise |-> 5]
-----------------------------------------------------------------------------
(***************************************************************************)
(* Headers                                                                 *)
(***************************************************************************)
MpegVersion == 3 :> 1 @@ 2 :> 2 @@ 0 :> 4

sample_rate(h) == <<44100, 48000, 32000>>[h.rate + 1] \div MpegVersion[h.version]

\* Layer III alone: the other layers are refused before.
bitrate_kbps(h) ==
    IF h.version = 3
    THEN <<32, 40, 48, 56, 64, 80, 96, 112, 128, 160, 192, 224, 256, 320>>[h.bitrate]
    ELSE <<8, 16, 24, 32, 40, 48, 56, 64, 80, 96, 112, 128, 144, 160>>[h.bitrate]

HeaderIsValid(h) == h.version # 1 /\ h.layer = 1 /\ h.bitrate \notin {0, 15} /\ h.rate # 3

samples_per_frame(h) == IF h.version = 3 THEN 1152 ELSE 576

\* Faulty variant: every frame is as long as one of MPEG-1.
frame_len_mpeg1(h) == (144 * bitrate_kbps(h) * 1000) \div sample_rate(h) + h.padding

frame_len(h) ==
    ((IF h.version = 3 THEN 144 ELSE 72) * bitrate_kbps(h) * 1000) \div sample_rate(h) + h.padding
-----------------------------------------------------------------------------
(***************************************************************************)
(* Where things lie in a stream: an encoder's view, by the standard        *)
(***************************************************************************)
Id3Bytes(id3) == IF id3.size < 0 THEN 0 ELSE 10 + id3.size + (IF id3.footer THEN 10 ELSE 0)

SlotBytes(h) ==
    IF HeaderIsValid(h)
    THEN (samples_per_frame(h) * bitrate_kbps(h) * 1000) \div (8 * sample_rate(h)) + h.padding
    ELSE 100

FrameStart(s, i) ==
    Id3Bytes(s.id3) + SumFunctionOnSet([j \in DOMAIN s.headers |-> SlotBytes(s.headers[j])], 1 .. i - 1)

TailStart(s) == FrameStart(s, Len(s.headers) + 1)
Size(s) == LET whole == TailStart(s) + TailBytes[s.tail]
           IN  IF s.missing > whole THEN 0 ELSE whole - s.missing

\* The header whose four bytes are at an offset, if one is.
HeadersAt(s, offset) ==
    {s.headers[i] : i \in {j \in DOMAIN s.headers : FrameStart(s, j) = offset /\ offset + 4 <= Size(s)}}
-----------------------------------------------------------------------------
(***************************************************************************)
(* The scan                                                                *)
(***************************************************************************)
InvalidMp3 == -1

id3v2_end(s) ==
    IF s.id3.size < 0 THEN 0
    ELSE IF s.id3.safe /\ Id3Bytes(s.id3) <= Size(s) THEN Id3Bytes(s.id3) ELSE InvalidMp3

is_trailing_tag(s, offset) ==
    /\ offset = TailStart(s)
    /\ \/ s.tail = "TAG" /\ Size(s) - offset = 128
       \/ s.tail = "APETAGEX" /\ Size(s) - offset >= 8

\* What the loop has gathered when it ends, if it ends well: the samples and the
\* shapes (sample rate and samples per frame) of the frames from an offset on.
Failed == [ok |-> FALSE, samples |-> 0, shapes |-> {}]

Gather(s, first) ==
    LET scan[offset \in 0 .. Size(s)] ==
          IF offset = Size(s) \/ is_trailing_tag(s, offset)
          THEN [ok |-> TRUE, samples |-> 0, shapes |-> {}]
          ELSE LET valid == {h \in HeadersAt(s, offset) : HeaderIsValid(h)}
                   h     == CHOOSE x \in valid : TRUE
               IN  IF valid = {} \/ offset + frame_len(h) > Size(s) THEN Failed
                   ELSE LET rest == scan[offset + frame_len(h)]
                        IN  [rest EXCEPT !.samples = @ + samples_per_frame(h),
                                         !.shapes = @ \cup {<<sample_rate(h), samples_per_frame(h)>>}]
    IN  IF first = InvalidMp3 THEN Failed ELSE scan[first]

CeilMillis(frames, rate) == (frames * 1000 + (rate - 1)) \div rate

mp3_duration_ms(s) ==
    LET got == Gather(s, id3v2_end(s))
    IN  IF got.ok /\ \E shape \in got.shapes : got.shapes = {shape}
        THEN CeilMillis(got.samples, (CHOOSE shape \in got.shapes : TRUE)[1])
        ELSE InvalidMp3
-----------------------------------------------------------------------------
(***************************************************************************)
(* The reference                                                           *)
(***************************************************************************)

\* The stream is one MP3: a tag or none, whole frames of one kind, and a tag
\* or nothing after them.
IsOneMp3(s) ==
    /\ s.id3.safe
    /\ s.headers # <<>>
    /\ \A i \in DOMAIN s.headers :
         /\ HeaderIsValid(s.headers[i])
         /\ s.headers[i].version = s.headers[1].version
         /\ s.headers[i].rate = s.headers[1].rate
    /\ \/ s.missing = 0 /\ s.tail # "noise"
       \/ s.tail = "APETAGEX" /\ s.missing <= TailBytes.APETAGEX - 8
       \/ s.missing = TailBytes[s.tail]

\* The whole milliseconds that cover the samples of its frames, and no more.
IsDurationOf(ms, s) ==
    LET samples == Len(s.headers) * samples_per_frame(s.headers[1])
        rate    == sample_rate(s.headers[1])
    IN  ms * rate >= samples * 1000 /\ (ms - 1) * rate < samples * 1000
=============================================================================
