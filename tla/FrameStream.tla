---------------------------- MODULE FrameStream ----------------------------
(***************************************************************************)
(* The transport of core/src/scan_worker.rs at the level of bytes: frames   *)
(* with a big-endian length prefix, read either to the end of each frame    *)
(* (read_frame, the helper's side) or in chunks of any size that the        *)
(* decoder takes apart (FrameDecoder, the supervisor's side).               *)
(*                                                                         *)
(* A byte is a digit below Base and a prefix has PrefixBytes digits, so     *)
(* that every stream up to MaxStream bytes can be tried.                    *)
(***************************************************************************)
EXTENDS Naturals, Sequences, SequencesExt, FiniteSetsExt

CONSTANTS Base, PrefixBytes, MaxFrameBytes, MaxStream, MaxChunk

VARIABLES wire,       \* what the other side writes, in the end
          taken,      \* how much of it has been read
          buffer,     \* FrameDecoder.bytes
          frames,     \* the bodies decoded so far
          outcome     \* "reading", "ended" or "error"

vars == <<wire, taken, buffer, frames, outcome>>

Byte == 0..(Base - 1)
LengthOf(prefix) == FoldLeft(LAMBDA n, b : n * Base + b, 0, prefix)
Drop(s, n) == SubSeq(s, n + 1, Len(s))
Take(s, n) == SubSeq(s, 1, n)

\* Faulty on purpose: the length is written from its last digit.
DigitLittle(n, i) == (n \div Base ^ (i - 1)) % Base
\* encode_json_frame: an empty body or one above the limit is never written.
Digit(n, i) == (n \div Base ^ (PrefixBytes - i)) % Base
Encoded(body) == [i \in 1..PrefixBytes |-> Digit(Len(body), i)] \o body
Encodable(body) == Len(body) \in 1..MaxFrameBytes

\* read_frame from the start of s: a body, the end of the stream, or an error.
ReadFrame(s) ==
    IF s = <<>> THEN [is |-> "end"]
    ELSE IF Len(s) < PrefixBytes THEN [is |-> "error"]
    ELSE LET n == LengthOf(Take(s, PrefixBytes))
         IN  IF n = 0 \/ n > MaxFrameBytes \/ Len(s) < PrefixBytes + n
             THEN [is |-> "error"]
             ELSE [is |-> "frame", body |-> SubSeq(s, PrefixBytes + 1, PrefixBytes + n)]

\* What one frame after the other yields: bodies, then the end or an error.
Whole(s) ==
    LET W[n \in 0..Len(s)] ==      \* of the last n bytes
            LET rest == Drop(s, Len(s) - n)
                r == ReadFrame(rest)
            IN  IF r.is # "frame" THEN [frames |-> <<>>, outcome |-> r.is]
                ELSE LET w == W[n - PrefixBytes - Len(r.body)]
                     IN  [w EXCEPT !.frames = <<r.body>> \o @]
    IN  W[Len(s)]

-----------------------------------------------------------------------------
(* FrameDecoder::feed and finish                                           *)

Init ==
    /\ wire = <<>> /\ taken = 0 /\ buffer = <<>> /\ frames = <<>>
    /\ outcome = "unwritten"

Write(s) ==
    /\ outcome = "unwritten"
    /\ wire' = s /\ outcome' = "reading"
    /\ UNCHANGED <<taken, buffer, frames>>

\* Faulty on purpose: whatever is left over at a length is taken for the length.
NextFrameEager(b) ==
    IF b = <<>> THEN "more"
    ELSE LET n == LengthOf(Take(b, PrefixBytes))
         IN  IF Len(b) < PrefixBytes \/ n = 0 \/ n > MaxFrameBytes THEN "invalid"
             ELSE IF Len(b) < PrefixBytes + n THEN "more" ELSE "frame"

\* Faulty on purpose: only the body is bounded, after it has been collected.
NextFrameUnbounded(b) ==
    IF Len(b) < PrefixBytes THEN "more"
    ELSE LET n == LengthOf(Take(b, PrefixBytes))
         IN  IF Len(b) < PrefixBytes + n THEN "more"
             ELSE IF n = 0 \/ n > MaxFrameBytes THEN "invalid" ELSE "frame"

\* The length is checked before the body is waited for.
NextFrame(b) ==
    IF Len(b) < PrefixBytes THEN "more"
    ELSE LET n == LengthOf(Take(b, PrefixBytes))
         IN  IF n = 0 \/ n > MaxFrameBytes THEN "invalid"
             ELSE IF Len(b) < PrefixBytes + n THEN "more" ELSE "frame"

\* One chunk arrives in the buffer.
Receive(n) ==
    /\ outcome = "reading" /\ NextFrame(buffer) = "more"
    /\ taken + n <= Len(wire)
    /\ buffer' = buffer \o SubSeq(wire, taken + 1, taken + n)
    /\ taken' = taken + n
    /\ UNCHANGED <<wire, frames, outcome>>

\* The loop of feed takes whole frames off the buffer, or refuses the stream.
Decode ==
    /\ outcome = "reading" /\ NextFrame(buffer) # "more"
    /\ IF NextFrame(buffer) = "invalid"
       THEN outcome' = "error" /\ UNCHANGED <<buffer, frames>>
       ELSE LET n == PrefixBytes + LengthOf(Take(buffer, PrefixBytes))
            IN  /\ frames' = Append(frames, SubSeq(buffer, PrefixBytes + 1, n))
                /\ buffer' = Drop(buffer, n)
                /\ UNCHANGED outcome
    /\ UNCHANGED <<wire, taken>>

\* finish: bytes that are left over are a truncated frame.
Finish ==
    /\ outcome = "reading" /\ NextFrame(buffer) = "more" /\ taken = Len(wire)
    /\ outcome' = IF buffer = <<>> THEN "end" ELSE "error"
    /\ UNCHANGED <<wire, taken, buffer, frames>>

Next ==
    \/ \E s \in SeqOf(Byte, MaxStream) : Write(s)
    \/ \E n \in 1..MaxChunk : Receive(n)
    \/ Decode \/ Finish

Spec == Init /\ [][Next]_vars

-----------------------------------------------------------------------------
(* Properties                                                              *)

\* However the stream is cut into chunks, the decoder has delivered exactly the
\* frames that read_frame finds in it, and ends the way it does.
ChunksDoNotMatter ==
    /\ IsPrefix(frames, Whole(wire).frames)
    /\ outcome \in {"end", "error"} => Whole(wire) = [frames |-> frames, outcome |-> outcome]

\* "parser memory never includes more than one bounded frame": what is buffered
\* beyond the last chunk is less than one frame of the largest size.
MemoryIsBounded == Len(buffer) < PrefixBytes + MaxFrameBytes + MaxChunk

\* write_json_frame and read_frame agree on every body that may be written.
WhatIsWrittenIsRead ==
    outcome = "unwritten" => \A body \in SeqOf(Byte, MaxFrameBytes + 1) :
        Encodable(body) => ReadFrame(Encoded(body)) = [is |-> "frame", body |-> body]

=============================================================================
