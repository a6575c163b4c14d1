----------------------------- MODULE FrameDecoder -----------------------------
(***************************************************************************)
(* The length-field frame decoder of zinx/zinterceptor/frameDecoder.go,    *)
(* fed by a reader that gets the peer's bytes in pieces of any size.       *)
(* Decode holds the decoder's lock: its loop over decode is the actions    *)
(* of phase "loop", one for each way decode returns.                       *)
(*                                                                         *)
(* A byte is a digit below Radix.  decode works on a buffer made from      *)
(* d.in: what it skips there it does not remove from d.in.                 *)
(*                                                                         *)
(* A definition named X_Word is X with one mistake in it; no action uses   *)
(* it.  Each one shows that a property of the run can fail.                *)
(***************************************************************************)
EXTENDS Integers, Sequences, SequencesExt

CONSTANTS
  LengthFields, \* the length fields a decoder may be made for
  Radix,        \* values of a byte
  Bodies,       \* lengths of what follows the length field in a frame
  MaxFrames     \* bound: frames the peer sends

\* The head of every frame a peer makes is as long as what is stripped; a
\* negative adjustment is for a length that counts part of the head.
ASSUME FrameDecoderAssumption ==
  /\ Radix \in Nat \ {0, 1} /\ MaxFrames \in Nat /\ Bodies \subseteq Nat
  /\ LengthFields \subseteq [offset : Nat, length : Nat \ {0}, adjustment : Int,
                             strip : Nat, max : Nat, little : BOOLEAN]
  /\ \A f \in LengthFields : \/ f.strip <= f.offset + f.length
                              \/ f.strip <= f.offset + f.length + f.adjustment

VARIABLES
  lf,           \* the decoder's LengthField
  sent,         \* history: the frames the peer sent
  net,          \* bytes on their way
  in,           \* d.in
  discardingTooLongFrame, tooLongFrameLength, bytesToDiscard,
  pc,           \* "idle", "loop" inside Decode, "failed" when it never returns
  out           \* the frames Decode has returned so far

mode == <<discardingTooLongFrame, tooLongFrameLength, bytesToDiscard>>
fdvars == <<lf, sent, net, in, mode, pc, out>>

LengthFieldOffset    == lf.offset
LengthFieldLength    == lf.length
LengthAdjustment     == lf.adjustment
InitialBytesToStrip  == lf.strip
MaxFrameLength       == lf.max
LengthFieldEndOffset == LengthFieldOffset + LengthFieldLength

FInit ==
  /\ lf \in LengthFields
  /\ sent = <<>> /\ net = <<>> /\ in = <<>> /\ out = <<>> /\ pc = "idle"
  /\ discardingTooLongFrame = FALSE
  /\ tooLongFrameLength = 0 /\ bytesToDiscard = 0

-----------------------------------------------------------------------------
(* The peer                                                                 *)

\* How many numbers k bytes can hold.
Power[k \in Nat] == IF k = 0 THEN 1 ELSE Radix * Power[k - 1]

\* The bytes of a number, and the number that bytes stand for, in the byte
\* order of the length field.
InOrder(b) == IF lf.little THEN Reverse(b) ELSE b
Bytes(n, k) == InOrder([i \in 1..k |-> (n \div Power[k - i]) % Radix])
Number(b)   ==
  LET value[i \in 0..Len(b)] ==
        IF i = 0 THEN 0 ELSE value[i - 1] * Radix + InOrder(b)[i]
  IN value[Len(b)]

\* Frame number f with a body of n bytes: every byte outside the length field
\* is f, so that no two frames look alike.
Frame(f, n) ==
  LET fill(k) == [i \in 1..k |-> f % Radix]
  IN fill(LengthFieldOffset) \o Bytes(n - LengthAdjustment, LengthFieldLength)
     \o fill(n)

HasLength(n) == n - LengthAdjustment \in 0..(Power[LengthFieldLength] - 1)

SendFrame(f) ==
  /\ Len(sent) < MaxFrames
  /\ sent' = Append(sent, f) /\ net' = net \o f
  /\ UNCHANGED <<lf, in, mode, pc, out>>

-----------------------------------------------------------------------------
(* Decode                                                                   *)

From(s, i) == SubSeq(s, i, Len(s))

\* A read returned n bytes: `d.in = append(d.in, buff...)`.
Receive(n) ==
  /\ pc = "idle" /\ pc' = "loop"
  /\ in' = in \o SubSeq(net, 1, n) /\ net' = From(net, n + 1)
  /\ UNCHANGED <<lf, sent, mode, out>>

\* discardingTooLongFrameFunc skips what it still has to discard.
Discarding == IF discardingTooLongFrame THEN
                IF bytesToDiscard < Len(in) THEN bytesToDiscard ELSE Len(in)
              ELSE 0
Readable   == From(in, Discarding + 1)
ToDiscard  == bytesToDiscard - Discarding

\* failIfNecessary: discarding is over when nothing is left to discard.
FailIfNecessary(tooLong, left) ==
  /\ bytesToDiscard' = left
  /\ discardingTooLongFrame' = (left > 0)
  /\ tooLongFrameLength' = IF left = 0 THEN 0 ELSE tooLong

\* getUnadjustedFrameLength, in the order of the length field.
UnadjustedFrameLength(s) ==
  Number(SubSeq(s, LengthFieldOffset + 1, LengthFieldEndOffset))

FrameLength == UnadjustedFrameLength(Readable) + LengthAdjustment
               + LengthFieldEndOffset

HasHeader == Len(Readable) >= LengthFieldEndOffset
TooLong   == FrameLength > MaxFrameLength

\* decode takes a frame that is all there, if its length leaves something of
\* it; a negative length is above the maximum as a uint64, and Next panics.
Complete == HasHeader /\ ~TooLong /\ Len(Readable) >= FrameLength
Taken    == FrameLength > 0 /\ FrameLength >= InitialBytesToStrip

\* The header, or the frame, is not complete: Decode returns.
Incomplete ==
  /\ pc = "loop" /\ pc' = "idle"
  /\ HasHeader => ~TooLong /\ Len(Readable) < FrameLength
  /\ FailIfNecessary(tooLongFrameLength, ToDiscard)
  /\ UNCHANGED <<lf, sent, net, in, out>>

\* exceededFrameLength: what is missing of the frame is to be discarded later;
\* when all of it is there, `in.Next` drops it from the local buffer only.
ExceededFrameLength ==
  /\ pc = "loop" /\ pc' = "idle"
  /\ HasHeader /\ TooLong
  /\ LET discard == FrameLength - Len(Readable) IN
       FailIfNecessary(FrameLength, IF discard < 0 THEN ToDiscard ELSE discard)
  /\ UNCHANGED <<lf, sent, net, in, out>>

DecodeFrame_Once ==
  /\ pc = "loop" /\ pc' = "idle"
  /\ Complete /\ Taken
  /\ out' = Append(out, SubSeq(Readable, InitialBytesToStrip + 1, FrameLength))
  /\ in' = From(in, FrameLength + 1)
  /\ FailIfNecessary(tooLongFrameLength, ToDiscard)
  /\ UNCHANGED <<lf, sent, net>>

\* A frame is returned, and Decode drops as many bytes as it had from d.in.
DecodeFrame ==
  /\ pc = "loop"
  /\ Complete /\ Taken
  /\ out' = Append(out, SubSeq(Readable, InitialBytesToStrip + 1, FrameLength))
  /\ in' = From(in, FrameLength + 1)
  /\ FailIfNecessary(tooLongFrameLength, ToDiscard)
  /\ UNCHANGED <<lf, sent, net, pc>>

\* A negative length and one shorter than what is stripped panic; a frame of
\* no bytes leaves d.in as it is, and the loop of Decode goes on for ever.
DecodeFails ==
  /\ pc = "loop" /\ pc' = "failed"
  /\ Complete /\ ~Taken
  /\ UNCHANGED <<lf, sent, net, in, mode, out>>

DecodeStep == Incomplete \/ ExceededFrameLength \/ DecodeFrame \/ DecodeFails

-----------------------------------------------------------------------------
(* Properties                                                               *)

Fits(f)     == Len(f) <= MaxFrameLength
Stripped(f) == From(f, InitialBytesToStrip + 1)

\* Frames up to the first too long one.
Regular(i) == \A j \in 1..i : Fits(sent[j])

\* Nothing waits: when the peer's bytes are all read and Decode has returned,
\* so has every frame up to the first one that is too long.
NothingHeldBack ==
  net = <<>> /\ pc = "idle" =>
    \A i \in DOMAIN sent : Regular(i) => i <= Len(out)
=============================================================================
