----------------------------- MODULE FfmpegChild -----------------------------
(***************************************************************************)
(* The ffmpeg child of infrastructure/audio.rs and its three pipes.        *)
(* run_ffmpeg (transcode) and source_duration (measure) write the input,   *)
(* read the output, read the diagnostics and wait for the child at the     *)
(* same time (tokio::join!), because each pipe holds a bounded amount and  *)
(* a full one stops its writer; check_ready writes a small sample first    *)
(* and then waits.  ffmpeg itself is external: it reads, writes, refuses   *)
(* input and ends as it likes, but it waits for a full or empty pipe.      *)
(* Bytes are counted in blocks.                                            *)
(***************************************************************************)
EXTENDS Naturals

CONSTANTS
    Input,          \* blocks of input
    PipeSize,       \* blocks a pipe holds
    OutputLimit,    \* max_output_bytes
    DiagnosticLimit,\* STDERR_LIMIT
    MostOutput,     \* bound: output and diagnostics the child writes at most
    MostDiagnostic

ASSUME FfmpegAssumption ==
    /\ Input \in Nat \ {0} /\ PipeSize \in Nat \ {0}
    /\ OutputLimit \in Nat /\ DiagnosticLimit \in Nat
    /\ MostOutput \in Nat /\ MostDiagnostic \in Nat

VARIABLES
    mode,       \* which of the three operations runs
    stdin,      \* [left, held, open]: input not yet written, in the pipe, and
                \* whether our end is open
    stdout,     \* [held, got, made, open]: in the pipe, received by us,
    stderr,     \*    written by the child, and whether our end is open
    child,      \* what the child does or how it ended
    outcomes,   \* the results of the futures that were joined
    result      \* the result of the operation

ffmpegVars == <<mode, stdin, stdout, stderr, child, outcomes, result>>

Modes == {"transcode", "measure", "ready"}

\* decoding: it may read, and write what it has; writing, warning: it is in a
\* write to stdout or stderr.
ChildAlive == {"decoding", "writing", "warning"}

Pending == [write |-> "pending", output |-> "pending", diagnostics |-> "pending",
            wait |-> "pending"]

Results == {"none", "ok", "failed", "tooLarge", "invalid", "timeout"}

FfmpegTypeOK ==
    /\ mode \in Modes
    /\ stdin \in [left : 0 .. Input, held : 0 .. PipeSize, open : BOOLEAN]
    /\ stdout \in [held : 0 .. PipeSize, got : 0 .. MostOutput, made : 0 .. MostOutput,
                   open : BOOLEAN]
    /\ stderr \in [held : 0 .. PipeSize, got : 0 .. MostDiagnostic, made : 0 .. MostDiagnostic,
                   open : BOOLEAN]
    /\ child \in ChildAlive \cup {"success", "failure", "killed"}
    /\ outcomes \in [write : {"pending", "ok", "error"},
                     output : {"pending", "ok", "tooLarge"},
                     diagnostics : {"pending", "ok"}, wait : {"pending", "success", "failure"}]
    /\ result \in Results

\* The child is spawned with its pipes; the readiness sample is one block, and
\* its output and diagnostics go to the null device.
FfmpegInit ==
    /\ mode \in Modes
    /\ stdin = [left |-> IF mode = "ready" THEN 1 ELSE Input, held |-> 0, open |-> TRUE]
    /\ stdout = [held |-> 0, got |-> 0, made |-> 0, open |-> mode # "ready"]
    /\ stderr = [held |-> 0, got |-> 0, made |-> 0, open |-> mode # "ready"]
    /\ child = "decoding"
    /\ outcomes = IF mode = "ready"
                  THEN [Pending EXCEPT !.output = "ok", !.diagnostics = "ok"] ELSE Pending
    /\ result = "none"

Waiting == result = "none"
Outcome(future, value) == outcomes' = [outcomes EXCEPT ![future] = value]
-----------------------------------------------------------------------------
(***************************************************************************)
(* The futures                                                             *)
(***************************************************************************)

\* write_all: as much as the pipe takes
WriteInput ==
    /\ Waiting
    /\ outcomes.write = "pending"
    /\ child \in ChildAlive
    /\ stdin.left > 0 /\ stdin.held < PipeSize
    /\ stdin' = [stdin EXCEPT !.left = @ - 1, !.held = @ + 1]
    /\ UNCHANGED <<mode, stdout, stderr, child, outcomes, result>>

\* Everything is written: the future ends and our end of the pipe is dropped.
WriteEnds ==
    /\ Waiting
    /\ outcomes.write = "pending"
    /\ stdin.left = 0
    /\ stdin' = [stdin EXCEPT !.open = FALSE]
    /\ Outcome("write", "ok")
    /\ UNCHANGED <<mode, stdout, stderr, child, result>>

\* The child is gone with input still to be written: broken pipe.
WriteBreaks ==
    /\ Waiting
    /\ outcomes.write = "pending"
    /\ stdin.left > 0 /\ child \notin ChildAlive
    /\ stdin' = [stdin EXCEPT !.open = FALSE]
    /\ Outcome("write", "error")
    /\ UNCHANGED <<mode, stdout, stderr, child, result>>

\* Faulty variant: reads up to the limit, not beyond it.
ReadUpToLimit(limit) == limit

\* read_bounded reads one byte more than the limit, to tell too much from enough.
ReadLimit(limit) == limit + 1

ReadOutput ==
    /\ Waiting
    /\ outcomes.output = "pending"
    /\ mode = "transcode" => stdout.got < ReadLimit(OutputLimit)
    /\ stdout.held > 0
    /\ stdout' = [stdout EXCEPT !.held = @ - 1, !.got = @ + 1]
    /\ UNCHANGED <<mode, stdin, stderr, child, outcomes, result>>

\* The end of the output, or the limit: the reader is dropped in both cases.
\* source_duration counts without a limit.
ReadOutputEnds ==
    /\ Waiting
    /\ outcomes.output = "pending"
    /\ \/ stdout.held = 0 /\ child \notin ChildAlive
       \/ mode = "transcode" /\ stdout.got = ReadLimit(OutputLimit)
    /\ stdout' = [stdout EXCEPT !.open = FALSE]
    /\ Outcome("output", IF mode = "transcode" /\ stdout.got > OutputLimit THEN "tooLarge" ELSE "ok")
    /\ UNCHANGED <<mode, stdin, stderr, child, result>>

\* Faulty variant: the diagnostics are read only after the output.
ReadDiagnosticsLast ==
    /\ Waiting
    /\ outcomes.diagnostics = "pending"
    /\ outcomes.output # "pending"
    /\ stderr.got < ReadLimit(DiagnosticLimit)
    /\ stderr.held > 0
    /\ stderr' = [stderr EXCEPT !.held = @ - 1, !.got = @ + 1]
    /\ UNCHANGED <<mode, stdin, stdout, child, outcomes, result>>

ReadDiagnostics ==
    /\ Waiting
    /\ outcomes.diagnostics = "pending"
    /\ stderr.got < ReadLimit(DiagnosticLimit)
    /\ stderr.held > 0
    /\ stderr' = [stderr EXCEPT !.held = @ - 1, !.got = @ + 1]
    /\ UNCHANGED <<mode, stdin, stdout, child, outcomes, result>>

ReadDiagnosticsEnds ==
    /\ Waiting
    /\ outcomes.diagnostics = "pending"
    /\ \/ stderr.held = 0 /\ child \notin ChildAlive
       \/ stderr.got = ReadLimit(DiagnosticLimit)
    /\ stderr' = [stderr EXCEPT !.open = FALSE]
    /\ Outcome("diagnostics", "ok")
    /\ UNCHANGED <<mode, stdin, stdout, child, result>>

\* child.wait; check_ready waits after its write.
WaitEnds ==
    /\ Waiting
    /\ outcomes.wait = "pending"
    /\ mode = "ready" => outcomes.write = "ok"
    /\ child \notin ChildAlive
    /\ Outcome("wait", IF child = "success" THEN "success" ELSE "failure")
    /\ UNCHANGED <<mode, stdin, stdout, stderr, child, result>>
-----------------------------------------------------------------------------
(***************************************************************************)
(* The result                                                              *)
(***************************************************************************)
Joined ==
    \/ \A f \in DOMAIN outcomes : outcomes[f] # "pending"
    \/ mode = "ready" /\ outcomes.write = "error"

\* run_ffmpeg: the write's error first, then the output's, then the status.
Transcoded ==
    IF outcomes.write = "error" THEN "failed"
    ELSE IF outcomes.output = "tooLarge" THEN "tooLarge"
    ELSE IF outcomes.wait = "failure" THEN "failed" ELSE "ok"

\* source_duration: no output, or half a sample, is not audio.
Measured ==
    CASE outcomes.write = "error" \/ outcomes.wait = "failure" -> "invalid"
      [] stdout.got = 0 \/ stdout.got % 2 # 0                  -> "invalid"
      [] OTHER                                                 -> "ok"

CheckedReady == IF outcomes.write = "ok" /\ outcomes.wait = "success" THEN "ok" ELSE "failed"

Return ==
    /\ Waiting
    /\ Joined
    /\ result' = CASE mode = "transcode" -> Transcoded
                   [] mode = "measure"   -> Measured
                   [] OTHER              -> CheckedReady
    /\ child' = IF child \in ChildAlive THEN "killed" ELSE child
    /\ UNCHANGED <<mode, stdin, stdout, stderr, outcomes>>

\* start_kill, and kill_on_drop when the handle is dropped
Timeout ==
    /\ Waiting
    /\ result' = "timeout"
    /\ child' = IF child \in ChildAlive THEN "killed" ELSE child
    /\ UNCHANGED <<mode, stdin, stdout, stderr, outcomes>>
-----------------------------------------------------------------------------
(***************************************************************************)
(* The child                                                               *)
(***************************************************************************)
EndOfInput == stdin.held = 0 /\ ~stdin.open

\* It takes a block of input, and may find that it cannot be decoded or that
\* it needs no more.
ChildReads ==
    /\ child = "decoding"
    /\ stdin.held > 0
    /\ stdin' = [stdin EXCEPT !.held = @ - 1]
    /\ child' \in {"decoding", "writing", "warning", "success", "failure"}
    /\ UNCHANGED <<mode, stdout, stderr, outcomes, result>>

\* At the end it flushes and exits.
ChildFinishes ==
    /\ child = "decoding"
    /\ EndOfInput
    /\ child' \in {"writing", "warning", "success", "failure"}
    /\ UNCHANGED <<mode, stdin, stdout, stderr, outcomes, result>>

\* A write waits for room.  Nobody reads the other end: the write fails and
\* the child gives up; the null device takes everything.
ChildWrites ==
    /\ child = "writing"
    /\ \/ /\ stdout.open
          /\ stdout.held < PipeSize /\ stdout.made < MostOutput
          /\ stdout' = [stdout EXCEPT !.held = @ + 1, !.made = @ + 1]
          /\ child' \in {"decoding", "writing", "warning"}
       \/ /\ stdout.open /\ stdout.made = MostOutput
          /\ UNCHANGED stdout
          /\ child' = "decoding"
       \/ /\ ~stdout.open
          /\ UNCHANGED stdout
          /\ child' = IF mode = "ready" THEN "decoding" ELSE "failure"
    /\ UNCHANGED <<mode, stdin, stderr, outcomes, result>>

\* Diagnostics nobody reads any more are lost, and need not end the child.
ChildWarns ==
    /\ child = "warning"
    /\ \/ /\ stderr.open
          /\ stderr.held < PipeSize /\ stderr.made < MostDiagnostic
          /\ stderr' = [stderr EXCEPT !.held = @ + 1, !.made = @ + 1]
          /\ child' \in {"decoding", "writing", "warning"}
       \/ /\ ~stderr.open \/ stderr.made = MostDiagnostic
          /\ UNCHANGED stderr
          /\ child' \in {"decoding", "failure"}
    /\ UNCHANGED <<mode, stdin, stdout, outcomes, result>>
-----------------------------------------------------------------------------
Futures ==
    \/ WriteInput \/ WriteEnds \/ WriteBreaks
    \/ ReadOutput \/ ReadOutputEnds
    \/ ReadDiagnostics \/ ReadDiagnosticsEnds
    \/ WaitEnds \/ Return

Child == ChildReads \/ ChildFinishes \/ ChildWrites \/ ChildWarns

FfmpegNext == Futures \/ Child \/ Timeout

FfmpegSpec == FfmpegInit /\ [][FfmpegNext]_ffmpegVars
-----------------------------------------------------------------------------
(***************************************************************************)
(* Properties                                                              *)
(***************************************************************************)

\* Until there is a result, one side can go on: no full or open pipe makes
\* Waveform and ffmpeg wait for each other until the timeout.
NeverStuck == Waiting => ENABLED Futures \/ ENABLED Child

\* An operation that succeeds gave ffmpeg the whole input, saw it succeed, and
\* received all it wrote, within the limit: truncated audio is never returned.
TranscodeIsComplete ==
    result = "ok" =>
        /\ stdin.left = 0
        /\ child = "success"
        /\ mode # "ready" => stdout.got = stdout.made /\ stdout.held = 0
        /\ mode = "transcode" => stdout.got <= OutputLimit
        /\ mode = "measure" => stdout.got > 0
=============================================================================
