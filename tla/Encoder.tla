------------------------------ MODULE Encoder ------------------------------
(***************************************************************************)
(* mimiio::encoder: raw PCM and FLAC pass-through hand the audio through;  *)
(* FLAC keeps samples until a block is full and emits what is left when it *)
(* is flushed.  Audio is counted in units: one for the whole frames (one   *)
(* sample of each channel) of a buffer that txfunc fills, one for a rest   *)
(* that is no whole frame, and one for the stream header FLAC writes when  *)
(* it is created.                                                          *)
(*                                                                         *)
(* Only the tx worker uses the encoder, and it always fetches the output   *)
(* right after it encoded or flushed: the two calls are one step here.     *)
(***************************************************************************)
EXTENDS Integers

CONSTANTS
    Format,     \* "PCM" (also FLAC pass-through) or "FLAC"
    Channels    \* channels of the audio

ASSUME FormatAssumption ==
    /\ Format \in {"PCM", "FLAC"}
    /\ Channels \in Nat \ {0}

VARIABLES
    encBuffered,    \* units inside libFLAC
    encOutput,      \* units in encodedData_
    encFailed       \* libFLAC has told of a failure, to nobody

encVars == <<encBuffered, encOutput, encFailed>>

HeaderUnits == IF Format = "FLAC" THEN 1 ELSE 0

EncInit ==
    /\ encBuffered = 0
    /\ encOutput = HeaderUnits
    /\ encFailed = FALSE

\* FlacEncoder::Encode throws on half a 16 bit sample.
Accepts(len) == Format = "FLAC" => len % 2 = 0

FrameBytes == 2 * Channels

\* process_interleaved is given pcm_samples / get_channels() frames: those of
\* a buffer are a unit, and a rest is another one, which it is never given.
FrameUnits(len) == IF Format = "FLAC" /\ len < FrameBytes THEN 0 ELSE 1

RestUnits(len) == IF Format = "FLAC" /\ len % FrameBytes # 0 THEN 1 ELSE 0

\* Seeded fault: the codec emits a unit it was never given.
EmittedTooMuch(n) == IF Format = "FLAC" THEN 0..(n + 1) ELSE {n}

\* What leaves the codec when n units are inside it.
Emitted(n) == IF Format = "FLAC" THEN 0..n ELSE {n}

\* Whether process_interleaved returns true.
MayWork == IF encFailed THEN {} ELSE {TRUE}
MayFail == IF Format = "FLAC" THEN {FALSE} ELSE {}

\* Encode one buffer, then GetEncodedData(out).  A codec that fails keeps
\* nothing; its result is ignored.
EncodeAndGet(len, out) ==
    LET inside == encBuffered + FrameUnits(len)
    IN  \E emitted \in Emitted(inside), works \in MayWork \union MayFail :
            /\ works \/ encFailed \/ emitted < inside
            /\ out = encOutput + emitted
            /\ encBuffered' = IF works THEN inside - emitted ELSE 0
            /\ encFailed' = ~works
            /\ encOutput' = 0

\* Flush, then GetEncodedData(out).  finish() may fail as well.
FlushAndGet(out) ==
    \E emitted \in Emitted(encBuffered) :
        /\ out = encOutput + emitted
        /\ encFailed' = (encFailed \/ emitted < encBuffered)
        /\ encBuffered' = 0
        /\ encOutput' = 0

=============================================================================
