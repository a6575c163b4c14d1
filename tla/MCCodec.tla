------------------------------- MODULE MCCodec -------------------------------
(* Model checking of Codec: the length fields.                              *)
EXTENDS Codec

\* A user's own field, with what the two decoders leave at zero.
MCOther == [offset |-> 1, length |-> 2, adjustment |-> 1, strip |-> 1,
            max |-> 7, little |-> FALSE]

\* The length counts the whole frame (case seven of frameDecoder.go).
MCWhole == [offset |-> 1, length |-> 2, adjustment |-> -3, strip |-> 3,
            max |-> 7, little |-> FALSE]
MCLengthFields == {TLVField, LTVField, MCOther, MCWhole}
=============================================================================
