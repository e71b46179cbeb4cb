-------------------------- MODULE MCAudioNormalizer --------------------------
(* A small instance of the audio normalizer for TLC: MP3 answers of every    *)
(* shape, tag and cut, inline audio at the edges of what is accepted, and    *)
(* ffmpeg with every way its pipes can fill.                                 *)
EXTENDS AudioNormalizer

Header(version, bitrate, rate, padding) ==
    [version |-> version, layer |-> 1, bitrate |-> bitrate, rate |-> rate, padding |-> padding]

ValidHeaders == {h \in Headers : HeaderIsValid(h)}
Base == Header(3, 9, 0, 0)

\* A second frame that belongs to the first, and ones that do not.
Seconds(h) ==
    {h, [h EXCEPT !.padding = 1 - @], [h EXCEPT !.bitrate = (@ % 14) + 1],
     [h EXCEPT !.rate = (@ + 1) % 3], [h EXCEPT !.version = 3 - @], [h EXCEPT !.layer = 2],
     [h EXCEPT !.bitrate = 15]}

Id3(size, footer, safe) == [size |-> size, footer |-> footer, safe |-> safe]
Tags == {NoId3, Id3(0, FALSE, TRUE), Id3(20, TRUE, TRUE), Id3(20, FALSE, FALSE)}
Bodies == {<<>>, <<Base>>, <<Base, Base>>, <<Header(2, 8, 1, 1), Header(2, 1, 1, 0)>>,
           <<Header(0, 14, 2, 0), Header(0, 14, 2, 0), Header(0, 14, 2, 1)>>}

Streams ==
    {Stream(NoId3, <<h>>, "none", 0) : h \in ValidHeaders}
    \cup UNION {{Stream(NoId3, <<h, k>>, "none", 0) : k \in Seconds(h)} : h \in ValidHeaders}
    \cup {Stream(id3, body, tail, missing) :
            id3 \in Tags, body \in Bodies, tail \in DOMAIN TailBytes, missing \in {0, 1, 5, 28, 128, 700}}

Mp3(via, s) ==
    [via |-> via, media |-> "mp3", rate |-> Absent, channels |-> Absent, bytes |-> 0, stream |-> s]
Inline(media, rate, channels, bytes) ==
    [via |-> "inline", media |-> media, rate |-> rate, channels |-> channels, bytes |-> bytes,
     stream |-> Stream(NoId3, <<>>, "none", 0)]

\* Only one artifact of a kind reaches ffmpeg with each length.
MCAnswers ==
    {Mp3(via, s) : via \in {"body", "inline"}, s \in Streams}
    \cup {Inline("l16", 24000, Absent, bytes) : bytes \in {0, 1, 2, 4001}}
    \cup {Inline("l16", rate, 1, 4) : rate \in {Absent, 0, 7999, 384001}}
    \cup {Inline("l16", 48000, channels, 16) : channels \in {Unreadable, 0, 3, 8, 9}}
    \cup {Inline("wav", Absent, Absent, 44), Inline("other", Absent, Absent, 44)}

MCOutputs ==
    {Stream(NoId3, <<>>, "none", 0), Stream(NoId3, <<Base>>, "none", 0),
     Stream(Id3(20, FALSE, TRUE), <<Base, Base>>, "none", 0),
     Stream(Id3(20, FALSE, TRUE), <<Base, Base>>, "none", 30),
     Stream(Id3(20, FALSE, TRUE), <<>>, "none", 0)}
=============================================================================
