-------------------------------- MODULE Codec --------------------------------
(***************************************************************************)
(* Messages over the frame decoder: the packers of zinx/zpack, the reader  *)
(* that makes a message of every frame (znet/connection.go) and the        *)
(* decoders of zinx/zdecoder, which sit in the interceptor chain and split *)
(* the message's data into its fields.                                     *)
(*                                                                         *)
(* A uint32 is Word bytes, 4 in the code.  A frame of a length field that  *)
(* is neither TLV's nor LTV's has no decoder: its message stays raw.       *)
(*                                                                         *)
(* A definition named X_Word is X with one mistake in it, as in            *)
(* FrameDecoder.                                                           *)
(***************************************************************************)
EXTENDS FrameDecoder

CONSTANTS
  Word,
  MaxPacketSize,   \* zconf's limit for Unpack, 0 for none
  MaxStarts        \* bound: how often the decoder is in the chain

VARIABLES
  decoders,   \* the decoder interceptors in the chain: each Start adds one
  alive,      \* the reader has not panicked
  msgs,       \* history: the messages the peer packed
  got         \* the messages that passed the decoders, in order

cvars == <<decoders, alive, msgs, got>>
codecVars == <<fdvars, cvars>>

Uint == Power[Word]
HeaderLen == 2 * Word

\* The IDs of the peer's messages are uint32s.
ASSUME CodecAssumption ==
  /\ Word \in Nat \ {0} /\ MaxPacketSize \in Nat /\ MaxStarts \in Nat \ {0}
  /\ Radix + MaxFrames + 1 < Uint

\* TLVDecoder.GetLengthField and LTV_Little_Decoder.GetLengthField.
TLVField == [offset |-> Word, length |-> Word, adjustment |-> 0, strip |-> 0,
             max |-> Uint - 1 + HeaderLen, little |-> FALSE]
LTVField == [offset |-> 0, length |-> Word, adjustment |-> Word, strip |-> 0,
             max |-> Uint - 1 + HeaderLen, little |-> TRUE]

HasDecoder == lf \in {TLVField, LTVField}

\* NewMsgPackage; NewMessage leaves the ID zero.
NewMsgPackage(id, data) == [ID |-> id, DataLen |-> Len(data) % Uint, Data |-> data]
NewMessage(data) == NewMsgPackage(0, data)

CInit == /\ FInit
         /\ decoders \in 1..MaxStarts /\ alive = TRUE /\ msgs = <<>> /\ got = <<>>

-----------------------------------------------------------------------------
(* Packing                                                                  *)

Pack_OneOrder(m) == Bytes(m.ID, Word) \o Bytes(m.DataLen, Word) \o m.Data

\* DataPack.Pack: ID, length, data, big endian; DataPackLtv.Pack: length, ID,
\* data, little endian.
Pack(m) ==
  LET id == Bytes(m.ID, Word)
      length == Bytes(m.DataLen, Word)
  IN (IF lf = TLVField THEN id \o length ELSE length \o id) \o m.Data

\* The fields at the head of a frame, as both Unpack and decode read them.
First(data)  == Number(SubSeq(data, 1, Word))
Second(data) == Number(SubSeq(data, Word + 1, HeaderLen))
Tag(data)    == IF lf = TLVField THEN First(data) ELSE Second(data)
Length(data) == IF lf = TLVField THEN Second(data) ELSE First(data)

\* Unpack reads a head only, and refuses a length above MaxPacketSize.
Refused(head) == MaxPacketSize > 0 /\ Length(head) > MaxPacketSize
Unpack(head)  == [ID |-> Tag(head), DataLen |-> Length(head), Data |-> <<>>]

-----------------------------------------------------------------------------
(* Decoding                                                                 *)

\* Intercept lets a message shorter than a header pass as it is.
Passes(m) == Len(m.Data) < HeaderLen

\* decode slices data[8 : 8+Length] with uint32 bounds, and panics when the
\* upper bound wraps or lies behind the data.
End(m) == (HeaderLen + Length(m.Data)) % Uint
Panics(m) == ~Passes(m) /\ End(m) \notin HeaderLen..Len(m.Data)

Intercept(m) ==
  IF Passes(m) THEN m
  ELSE [ID |-> Tag(m.Data), DataLen |-> Length(m.Data),
        Data |-> SubSeq(m.Data, HeaderLen + 1, End(m))]

-----------------------------------------------------------------------------
(* The reader and its peer                                                  *)

\* The peer sends its next message: its number fills the data, and its ID
\* has two different bytes.
SendMessage(n) ==
  LET k == Len(msgs) + 1
      m == NewMsgPackage(Radix + k + 1, [i \in 1..n |-> k])
  IN /\ HasDecoder /\ n < Uint
     /\ SendFrame(Pack(m)) /\ msgs' = Append(msgs, m)
     /\ UNCHANGED <<decoders, alive, got>>

\* A peer with a framing of its own; what arrives is the frame, stripped.
SendOther(n) ==
  /\ ~HasDecoder /\ HasLength(n)
  /\ LET f == Frame(Len(sent) + 1, n) IN
       SendFrame(f) /\ msgs' = Append(msgs, NewMessage(Stripped(f)))
  /\ UNCHANGED <<decoders, alive, got>>

\* StartReader reads again once every frame of the last read is handled.
Read(n) == /\ alive /\ Len(got) = Len(out)
           /\ Receive(n) /\ UNCHANGED cvars

Decode == DecodeStep /\ UNCHANGED cvars

Frames(i) == NewMessage(out[i])

\* The message as it leaves one decoder after the other.
Through(m) ==
  LET through[k \in 0..decoders] == IF k = 0 THEN m ELSE Intercept(through[k - 1])
  IN through

\* A decoder panics that the message gets to.
ChainPanics(m) ==
  \E k \in 0..(decoders - 1) :
    /\ \A j \in 0..(k - 1) : ~Panics(Through(m)[j])
    /\ Panics(Through(m)[k])

\* One decoder, or each of several, rewrites the message on its way down the
\* chain; a panic is recovered in StartReader, which then ends.
Deliver ==
  /\ pc = "idle" /\ alive /\ Len(got) < Len(out)
  /\ LET m == Frames(Len(got) + 1)
         panics == HasDecoder /\ ChainPanics(m)
     IN /\ alive' = ~panics
        /\ got' = IF panics THEN got
                  ELSE Append(got, IF HasDecoder THEN Through(m)[decoders] ELSE m)
  /\ UNCHANGED <<fdvars, decoders, msgs>>

CNext == \/ \E n \in Bodies : SendMessage(n) \/ SendOther(n)
         \/ \E n \in 1..Len(net) : Read(n)
         \/ Decode \/ Deliver

CSpec == CInit /\ [][CNext]_codecVars

-----------------------------------------------------------------------------
(* Properties                                                               *)

\* Messages one decoder can slice, and a second one lets pass.
Sound(m) == HasDecoder =>
  /\ HeaderLen + m.DataLen < Uint
  /\ decoders > 1 => m.DataLen < HeaderLen

\* A reader that takes the head first and then DataLen bytes, as Unpack is
\* made for, would find the same message in the frame.
HeadAgrees(i) ==
  LET frame == out[i]
      head == Unpack(SubSeq(frame, 1, HeaderLen))
  IN /\ head.ID = msgs[i].ID
     /\ ~Refused(frame) => HeaderLen + head.DataLen = Len(frame)

\* The messages that were packed come out of the decoders as they were, in
\* order and one for one, however the bytes are cut; no panic and no endless
\* Decode stops the reader, and Unpack agrees.  This is so up to the first
\* frame that is too long, and the first message whose end wraps a uint32 or
\* that a second decoder would decode again (Pack, Decode, Intercept).
MessagesInOrder ==
  \A i \in DOMAIN msgs : Regular(i) /\ (\A j \in 1..i : Sound(msgs[j])) =>
    /\ i <= Len(got) => got[i] = msgs[i]
    /\ Len(got) < i => alive /\ pc # "failed"
    /\ HasDecoder /\ i <= Len(out) => HeadAgrees(i)
=============================================================================
