---------------------------- MODULE MessageEncoder ----------------------------
(***************************************************************************)
(* Back-to-back encoding of attributes into one caller buffer (spec 2,     *)
(* "Outbound"): each EncodeAttribute::encode call gets the `rest` the      *)
(* previous successful call returned, and a failed call returns only the   *)
(* error, so the caller's next call reuses the same `rest`.               *)
(*                                                                         *)
(* buf is the caller's whole buffer, pos the offset at which `rest`        *)
(* starts, sent the attributes encoded so far (a history variable), and    *)
(* last the result of the last call.                                       *)
(***************************************************************************)
EXTENDS Integers, Sequences, SequencesExt, AttributeCodec, ErrorTaxonomy

CONSTANTS
    Attrs,     \* attribute values a caller may encode
    Cap,       \* length of the caller's buffer
    Junk,      \* what the buffer holds before anything is written
    Tid        \* the message's transaction id: 12 bytes

VARIABLES buf, pos, sent, last

vars == <<buf, pos, sent, last>>

Init ==
    /\ buf = [i \in 1..Cap |-> Junk]
    /\ pos = 0
    /\ sent = <<>>
    /\ last = "none"

(* Bytes w written into buf from offset p on.                              *)
WriteAt(b, p, w) == [i \in 1..Len(b) |-> IF p < i /\ i <= p + Len(w) THEN w[i - p] ELSE b[i]]

(***************************************************************************)
(* attr.encode(rest, transaction_id): whatever the call wrote is in the    *)
(* buffer; on success the caller moves on to the returned rest.            *)
(***************************************************************************)
EncodeCall(a) ==
    LET r == EncodeAttr(a, Tid, Cap - pos)
    IN /\ buf' = WriteAt(buf, pos, r.w)
       /\ pos' = IF r.status = "ok" THEN pos + Len(r.w) ELSE pos
       /\ sent' = IF r.status = "ok" THEN Append(sent, a) ELSE sent
       /\ last' = r.status

Next == \E a \in Attrs : EncodeCall(a)

Spec == Init /\ [][Next]_vars

-----------------------------------------------------------------------------
(***************************************************************************)
(* The wire format of spec 6, read without the code: a TLV is a 2-byte     *)
(* type, a 2-byte length, the value and zero padding to a multiple of 4.   *)
(***************************************************************************)
SpecPad(l) == (4 - (l % 4)) % 4

RECURSIVE TLVs(_)
TLVs(s) ==
    IF Len(s) < 4 THEN <<>>
    ELSE LET l   == FromBE(SubSeq(s, 3, 4))
             end == 4 + l + SpecPad(l)
         IN <<[type |-> FromBE(SubSeq(s, 1, 2)), value |-> SubSeq(s, 5, 4 + l),
               pad |-> SubSeq(s, 5 + l, end), end |-> end]>>
            \o TLVs(SubSeq(s, end + 1, Len(s)))

Written == SubSeq(buf, 1, pos)

TypeOK ==
    /\ buf \in [1..Cap -> 0..255 \cup {Junk}]
    /\ pos \in 0..Cap
    /\ \A i \in 1..Len(sent) : sent[i] \in Attrs
    /\ last \in STRING

(***************************************************************************)
(* Round trip of the attribute contract (spec 4.5): the bytes the encodes  *)
(* wrote back to back read as one TLV per attribute sent, in order, with   *)
(* zero padding, and each value, decoded by its type codepoint as          *)
(* define_attribute_enum! dispatches, is the attribute that was encoded.   *)
(***************************************************************************)
RoundTrip ==
    LET recs == TLVs(Written)
    IN /\ Len(recs) = Len(sent)
       /\ \A i \in 1..Len(recs) :
            /\ recs[i].type = sent[i].type
            /\ recs[i].pad = Zeros(SpecPad(Len(recs[i].value)))
            /\ DecodeAttr(recs[i].type, recs[i].value, Tid) = Decoded(sent[i])

(***************************************************************************)
(* The space an attribute takes is what encoded_len() announces, so a      *)
(* caller that sizes its buffer by summing encoded_len() over the          *)
(* attributes gets exactly the bytes the encodes use.                      *)
(***************************************************************************)
SumEncodedLen(s) == FoldLeft(LAMBDA acc, a : acc + EncodedLen(a), 0, s)

EncodedLenIsSpaceUsed == pos = SumEncodedLen(sent)

(***************************************************************************)
(* An encode that fails leaves the caller's buffer as it was: "no partial, *)
(* inconsistent writes visible to the caller beyond the returned error"    *)
(* (spec 4.5).                                                             *)
(***************************************************************************)
NoPartialWrite == [][last' # "ok" => buf' = buf]_vars

(***************************************************************************)
(* Spec 5: on an error "callers decide whether to retry with more buffer". *)
(* The kind is their only guide: whatever the caller encodes next into the *)
(* rest it holds, an encode that fails with a kind of                      *)
(* BufferTooSmall succeeds when retried into a buffer of encoded_len()     *)
(* bytes, and one that fails with any other kind fails there too.  It      *)
(* needs each encoder to validate its value before it checks the space,    *)
(* encoded_len() to announce the space encode checks for, and every error  *)
(* to be declared with the kind its cause calls for.                       *)
(***************************************************************************)
RetryAdvice ==
    \A a \in Attrs :
        LET r == EncodeAttr(a, Tid, Cap - pos)
        IN r.status # "ok" =>
               ((ErrorKindOf(r.status) = "BufferTooSmall")
                  = (EncodeAttr(a, Tid, EncodedLen(a)).status = "ok"))

=============================================================================
