---------------------------- MODULE MessageParser ----------------------------
(***************************************************************************)
(* MessageParser of stunparse (src/parse/message.rs) composed with the     *)
(* header codec (Header) and the attribute scanner (RawAttributeScan).    *)
(*                                                                         *)
(* A call is from_complete_message(src, attrs) or                          *)
(* from_header_and_attrs(header, src, attrs).  Header checks run in one    *)
(* step; a call that passes them hands the attribute section to            *)
(* Container::parse, whose loop steps are the scanner's, and the call      *)
(* returns with the scanner: a MessageParser over the records, or the     *)
(* error.  iter_raw, validation_header and set_len_from_item read a parser *)
(* and change nothing: they are operators of the state.                   *)
(***************************************************************************)
EXTENDS Integers, Sequences, Header, Framing

CONSTANTS
    Types, Lens, MaxWords, Tails, Kinds, N, InitCaps, Uninit,   \* the scanner's
    MsgTypes,    \* message types of the 20-byte headers callers pass
    LenFields,   \* header length fields
    Cookies,     \* magic cookie values
    Tids,        \* transaction ids
    NewHeaders   \* headers a caller builds with Header::new

VARIABLES
    kind, pc, buf, cursor, slots, len, written, view, outcome,   \* the scanner's
    wire,      \* <<the 20 header bytes>> of a from_complete_message call, or <<>>
    hdr,       \* the Header the parser was built from
    result     \* "none", "scanning", "parser", or the error of the last call

scanVars == <<kind, pc, buf, cursor, slots, len, written, view, outcome>>
vars == <<scanVars, wire, hdr, result>>

S == INSTANCE RawAttributeScan

Wires == [mtype : MsgTypes, length : LenFields, cookie : Cookies, tid : Tids]

NoHeader == [status |-> "none"]

Idle == result # "scanning" /\ pc # "panicked"

Init ==
    /\ S!Init
    /\ wire = <<>>
    /\ hdr = NoHeader
    /\ result = "none"

(***************************************************************************)
(* from_header_and_attrs(header, src, attrs): a legacy cookie is           *)
(* MagicCookie, a length other than src.len() is BufferLenMismatch, and    *)
(* otherwise attrs.parse(src) starts.                                      *)
(***************************************************************************)
CheckHeaderAndAttrsNoCookie(h, b) ==     \* wrong: is_rfc3489 not checked
    \/ /\ h.length # S!BufLen(b)
       /\ result' = "len_mismatch"
       /\ UNCHANGED scanVars
    \/ /\ h.length = S!BufLen(b)
       /\ S!Parse(b)
       /\ result' = "scanning"

CheckHeaderAndAttrs(h, b) ==
    \/ /\ IsRfc3489(h)
       /\ result' = "magic_cookie"
       /\ UNCHANGED scanVars
    \/ /\ ~IsRfc3489(h)
       /\ h.length # S!BufLen(b)
       /\ result' = "len_mismatch"
       /\ UNCHANGED scanVars
    \/ /\ ~IsRfc3489(h)
       /\ h.length = S!BufLen(b)
       /\ S!Parse(b)
       /\ result' = "scanning"

(* from_complete_message on fewer than Header::LEN bytes: HeaderTooBig.   *)
HeaderTooBig ==
    /\ Idle
    /\ result' = "header_too_big"
    /\ wire' = <<>>
    /\ UNCHANGED <<scanVars, hdr>>

(* from_complete_message(src): Header::decode of the first 20 bytes, then *)
(* from_header_and_attrs with the rest.                                    *)
FromCompleteMessage(w, b) ==
    /\ Idle
    /\ wire' = <<w>>
    /\ LET h == Decode(w)
       IN \/ /\ ~IsHeader(h)
             /\ result' = h.status
             /\ UNCHANGED <<scanVars, hdr>>
          \/ /\ IsHeader(h)
             /\ hdr' = h
             /\ CheckHeaderAndAttrs(h, b)

FromHeaderAndAttrs(h, b) ==
    /\ Idle
    /\ wire' = <<>>
    /\ hdr' = h
    /\ CheckHeaderAndAttrs(h, b)

(* One loop step of Container::parse; when it returns, the call returns   *)
(* Ok(MessageParser { .. }) or the scanner's error.                        *)
ScanStep ==
    /\ result = "scanning"
    /\ S!Scan
    /\ result' = IF pc' = "scan" THEN "scanning"
                 ELSE IF outcome' = "ok" THEN "parser" ELSE outcome'
    /\ UNCHANGED <<wire, hdr>>

Next ==
    \/ HeaderTooBig
    \/ \E w \in Wires, b \in S!Buffers : FromCompleteMessage(w, b)
    \/ \E h \in NewHeaders, b \in S!Buffers : FromHeaderAndAttrs(h, b)
    \/ ScanStep

Spec == Init /\ [][Next]_vars /\ WF_vars(ScanStep)

-----------------------------------------------------------------------------
(***************************************************************************)
(* What a parser hands out.  convert(src, attr): the value is              *)
(* src[off..off+len] and attrs_up_to is src[..off-TL_LEN], both taken with *)
(* get_unchecked.  A slice is a pair [from, to) of byte positions of src.  *)
(***************************************************************************)
Item(r) == [attr |-> r.attr, value |-> <<r.off, r.off + r.len>>,
            attrs_up_to |-> <<0, r.off - TL_LEN>>]

SliceLen(s) == s[2] - s[1]

(* validation_header(): class, method and transaction id of the parser,   *)
(* MAGIC_COOKIE, and src.len() as u16 as the length.                       *)
ValidationHeader ==
    Encode([hdr EXCEPT !.magic_cookie = MAGIC_COOKIE,
                       !.length = S!BufLen(buf) % U16])

(* set_len_from_item(item): TL_LEN + attrs_up_to.len() + padded_len(len), *)
(* in u16 arithmetic, written into the length field.                       *)
SetLenFromItemUnpadded(item) ==     \* wrong: the value length, not padded_len
    (TL_LEN + (SliceLen(item.attrs_up_to) % U16) + (SliceLen(item.value) % U16)) % U16

SetLenFromItem(item) ==
    (TL_LEN + (SliceLen(item.attrs_up_to) % U16) + PaddedLen(SliceLen(item.value) % U16)) % U16

-----------------------------------------------------------------------------

TypeOK ==
    /\ S!TypeOK
    /\ wire = <<>> \/ (Len(wire) = 1 /\ wire[1] \in Wires)
    /\ hdr = NoHeader \/ IsHeader(hdr)
    /\ result \in {"none", "scanning", "parser", "header_too_big", "msb_not_zero",
                   "invalid_len", "magic_cookie", "len_mismatch", "too_big",
                   "too_many", "panic"}

(***************************************************************************)
(* Every slice a parser hands out through iter_raw lies inside src: the    *)
(* value src[off..off+len] and attrs_up_to src[..off-TL_LEN] are taken    *)
(* with get_unchecked, which spec 7 allows only where the earlier steps of *)
(* that same path proved them in bounds.  Here they are: the header's      *)
(* length check, the scanner's fit check, and the parser being built only  *)
(* from a successful scan of this very src.                                *)
(***************************************************************************)
UncheckedSlicesInBounds ==
    result = "parser" =>
        \A i \in 1..Len(view) :
            LET it == Item(view[i])
            IN /\ 0 <= it.attrs_up_to[2]
               /\ it.attrs_up_to[2] <= it.value[1]
               /\ it.value[2] <= S!BufLen(buf)

(***************************************************************************)
(* For every item, set_len_from_item makes the header length cover the     *)
(* attribute section up to and including that attribute and its padding   *)
(* (spec 4.4), the range a MESSAGE-INTEGRITY or FINGERPRINT check hashes:  *)
(* a multiple of 4 no larger than the message's own length.               *)
(***************************************************************************)
ValidationLengthCoversItem ==
    result = "parser" =>
        \A i \in 1..Len(view) :
            LET l == SetLenFromItem(Item(view[i]))
            IN /\ l = S!End(view[i])
               /\ l % 4 = 0
               /\ l <= hdr.length

(***************************************************************************)
(* A parser built from a complete message rebuilds, with                   *)
(* validation_header(), exactly the 20 header bytes it was parsed from:    *)
(* the class and method re-encode to the same type, and the magic cookie  *)
(* and the length it writes are the ones the header carried.  This needs  *)
(* the decode round trip, the cookie check and the length check together. *)
(***************************************************************************)
ValidationHeaderMatchesWire ==
    (result = "parser" /\ wire # <<>>) => ValidationHeader = wire[1]

(***************************************************************************)
(* Scan totality for an accepted message (spec 4.3 and 8): the records of  *)
(* a parser cover the attribute section to its last byte.  parse_inner's  *)
(* closing comment relies on the caller: "input src.len() has to be a     *)
(* multiple of 4 ... parse() is only used internally".                    *)
(***************************************************************************)
ParsedMessageConsumesAll ==
    result = "parser" =>
        S!BufLen(buf) = IF view = <<>> THEN 0 ELSE S!End(view[Len(view)])

-----------------------------------------------------------------------------
(***************************************************************************)
(* Header::decode and Header::encode on every 20-byte header a caller can  *)
(* hand over: each of the 65536 message types, with the length fields,     *)
(* cookies and transaction ids above.  These are constant formulas: TLC    *)
(* evaluates them once, over all the headers, not just the two types the   *)
(* parser's calls use; the header of the parser's own call is checked    *)
(* with them.                                                              *)
(***************************************************************************)
AllHeaderWires == [mtype : 0..65535, length : LenFields, cookie : Cookies, tid : Tids]

(***************************************************************************)
(* Round trip (spec 8): every header that decodes encodes back to exactly  *)
(* its wire bytes.  It fails if the scatter in into_msg_type is not the   *)
(* inverse of the gather in from_msg_type for some bit of a 14-bit type.  *)
(***************************************************************************)
RoundTrips(w) == IsHeader(Decode(w)) => Encode(Decode(w)) = w

AllHeadersRoundTrip == \A w \in AllHeaderWires : RoundTrips(w)

HeaderRoundTrip ==
    /\ AllHeadersRoundTrip
    /\ \A i \in DOMAIN wire : RoundTrips(wire[i])

(* The RFC 5389 figure 3 layout, read bit by bit: M0-M3 in bits 0-3, C0  *)
(* in bit 4, M4-M6 in bits 5-7, C1 in bit 8, M7-M11 in bits 9-13.        *)
Bit(x, i) == ShiftR(x, i) % 2

RfcMethodBits == <<0, 1, 2, 3, 5, 6, 7, 9, 10, 11, 12, 13>>

RECURSIVE GatherBits(_, _)
GatherBits(t, k) ==
    IF k = 0 THEN 0
    ELSE GatherBits(t, k - 1) + Bit(t, RfcMethodBits[k]) * 2 ^ (k - 1)

RfcMethod(t) == GatherBits(t, 12)

RfcClass(t) == ClassOf[Bit(t, 4) + 2 * Bit(t, 8) + 1]

(***************************************************************************)
(* Header::decode takes every method bit and both class bits of a type    *)
(* from their own RFC positions, none from a neighbour's.                 *)
(***************************************************************************)
FollowsRfcLayout(w) ==
    IsHeader(Decode(w)) =>
        /\ Decode(w).method = RfcMethod(w.mtype)
        /\ Decode(w).class = RfcClass(w.mtype)

AllHeadersFollowRfcLayout == \A w \in AllHeaderWires : FollowsRfcLayout(w)

DecodeFollowsRfcLayout ==
    /\ AllHeadersFollowRfcLayout
    /\ \A i \in DOMAIN wire : FollowsRfcLayout(wire[i])

=============================================================================
