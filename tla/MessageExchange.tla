--------------------------- MODULE MessageExchange ---------------------------
(***************************************************************************)
(* The outbound and inbound halves of stunparse composed (spec 2): a       *)
(* caller encodes attributes back to back into its buffer                  *)
(* (MessageEncoder), puts a Header::new header in front of the bytes       *)
(* written, and hands the message to MessageParser::from_complete_message, *)
(* whose scanner reads the very bytes the encoders wrote; iter<D> then     *)
(* decodes each item with the enum dispatch of define_attribute_enum!.    *)
(*                                                                         *)
(* The encoder's variables are shared as they are; the scanner's src is   *)
(* renamed, since the encoder already has a buf.  While result is "none"  *)
(* the caller is still encoding; one parse ends the exchange.             *)
(***************************************************************************)
EXTENDS Integers, Sequences, AttributeCodec

CONSTANTS
    Attrs, Cap, Junk, Tid,       \* the encoder's
    Kinds, N, InitCaps, Uninit,  \* the container the caller parses into
    MsgClass, MsgMethod          \* class and method the caller sends

VARIABLES
    buf, pos, sent, last,                                       \* encoder
    kind, pc, src, cursor, slots, len, written, view, outcome,  \* scanner
    wire, hdr, result                                           \* parser

encVars == <<buf, pos, sent, last>>
parseVars == <<kind, pc, src, cursor, slots, len, written, view, outcome, wire, hdr, result>>
vars == <<encVars, parseVars>>

E == INSTANCE MessageEncoder

(* The parser's input sets only feed its own Next, which is not used here: *)
(* the message it parses is the one built below.                           *)
P == INSTANCE MessageParser
        WITH buf <- src, Types <- 0..(U16 - 1), Lens <- 0..(U16 - 1),
             MaxWords <- Cap \div TL_LEN, Tails <- {0}, MsgTypes <- {},
             LenFields <- {}, Cookies <- {}, Tids <- {}, NewHeaders <- {}

(***************************************************************************)
(* The attribute section as parse_inner sees it: at every multiple of 4   *)
(* the header decode_type_length would read there.  The scanner reads no  *)
(* other byte; the value bytes are sliced out by iter<D> below.           *)
(***************************************************************************)
ScanBuffer(bytes) ==
    [words |-> [i \in 1..(Len(bytes) \div TL_LEN) |->
                   DecodeTypeLengthBytes(SubSeq(bytes, TL_LEN * i - 3, TL_LEN * i))],
     tail |-> Len(bytes) % TL_LEN]

(* Header::new(class, method, length of what was written, tid).encode.   *)
MessageHeader == Encode(NewHeader(MsgClass, MsgMethod, pos, Tid))

Encoding == result = "none"

Init == E!Init /\ P!Init

EncodeCall(a) ==
    /\ Encoding
    /\ E!EncodeCall(a)
    /\ UNCHANGED parseVars

ParseMessage ==
    /\ Encoding
    /\ P!FromCompleteMessage(MessageHeader, ScanBuffer(E!Written))
    /\ UNCHANGED encVars

ScanStep ==
    /\ P!ScanStep
    /\ UNCHANGED encVars

Next == (\E a \in Attrs : EncodeCall(a)) \/ ParseMessage \/ ScanStep

Spec == Init /\ [][Next]_vars /\ WF_vars(ScanStep)

-----------------------------------------------------------------------------
(***************************************************************************)
(* iter<D>(): for each record, convert(src, attr) slices the value out of  *)
(* the attribute section and D::decode gets the type, the value and the   *)
(* parser's transaction id.                                                *)
(***************************************************************************)
ValueBytes(r) == SubSeq(E!Written, r.off + 1, r.off + r.len)

IterDecodeZeroTid(r) ==     \* wrong: a default transaction id
    DecodeAttr(r.attr, ValueBytes(r), [i \in 1..12 |-> 0])

IterDecode(r) == DecodeAttr(r.attr, ValueBytes(r), hdr.transaction_id)

TypeOK ==
    /\ E!TypeOK
    /\ result \in {"none", "scanning", "parser", "header_too_big", "msb_not_zero",
                   "invalid_len", "magic_cookie", "len_mismatch", "too_big",
                   "too_many", "panic"}
    /\ view \in Seq(P!S!RawAttribute)

(* The encoder's properties (MessageEncoder), over the same behaviours.  *)
(* The bytes written read as one TLV per attribute sent, each decoding to *)
(* the attribute encoded.                                                  *)
RoundTrip == E!RoundTrip

(* Each encode uses exactly the space its encoded_len() announces.        *)
EncodedLenIsSpaceUsed == E!EncodedLenIsSpaceUsed

(* A failed encode is BufferTooSmall exactly when more buffer would make  *)
(* it succeed; it is about the calls a caller can still make, so it is    *)
(* checked while the caller encodes.                                       *)
RetryAdvice == Encoding => E!RetryAdvice

(* A failed encode leaves the caller's buffer as it was.                  *)
NoPartialWrite == E!NoPartialWrite

(***************************************************************************)
(* End to end (spec 2 and 8): a message built from successful encodes and  *)
(* a Header::new header is accepted by from_complete_message, its parser  *)
(* holds one record per attribute sent, in order, and iter<D> decodes      *)
(* each record to the attribute that was encoded.  It needs the encoders'  *)
(* padding and lengths to agree with the scanner's fit check, the header  *)
(* length to be what the caller wrote, and the transaction id to reach    *)
(* the XOR decoders through the parser.                                    *)
(***************************************************************************)
IterDecodesSent ==
    result \notin {"none", "scanning"} =>
        /\ result = "parser"
        /\ Len(view) = Len(sent)
        /\ \A i \in 1..Len(view) : IterDecode(view[i]) = Decoded(sent[i])

=============================================================================
