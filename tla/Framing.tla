------------------------------ MODULE Framing ------------------------------
(***************************************************************************)
(* Attribute framing primitives of stunparse: the TLV padding and length   *)
(* arithmetic of RawAttribute (src/parse/attribute.rs) and the space check *)
(* shared by every attribute encoder (src/attribute/mod.rs).               *)
(*                                                                         *)
(* Integers keep their Rust width.  Where the code can overflow, the       *)
(* operator says so: with overflow checks on (a debug build) the operation *)
(* panics, without them it wraps.  OverflowChecks is the build profile.    *)
(***************************************************************************)
EXTENDS Integers, Sequences, SequencesExt, Bitwise

CONSTANT OverflowChecks     \* TRUE: debug build (overflow panics), FALSE: release

ASSUME OverflowChecks \in BOOLEAN

U16 == 65536                \* 2^16, the range of u16

(* Byte conversions of the integer types: to_be_bytes, to_le_bytes and    *)
(* from_be_bytes on n-byte integers; a byte is an integer in 0..255.      *)
(* Modelled values stay below 2^31, so bytes past the fourth are zero.    *)
ByteOf(v, k) == IF k >= 4 THEN 0 ELSE (v \div (2 ^ (8 * k))) % 256
BE(v, n) == [i \in 1..n |-> ByteOf(v, n - i)]
LE(v, n) == [i \in 1..n |-> ByteOf(v, i - 1)]
FromBE(s) == FoldLeft(LAMBDA acc, b : acc * 256 + b, 0, s)
Zeros(n) == [i \in 1..n |-> 0]
TL_LEN == 4                 \* RawAttribute::TL_LEN: type (2 bytes) + length (2 bytes)
MAX_PADDING_LEN == 3        \* const MAX_PADDING_LEN: u16 = 3

(* `len as i16`: reinterpretation of a u16 as a two's-complement i16.      *)
AsI16(len) == IF len >= 32768 THEN len - U16 ELSE len

(***************************************************************************)
(* RawAttribute::padding: (-(len as i16) as u16) & MAX_PADDING_LEN.  The   *)
(* negation is an i16 negation: for len = 0x8000 it is -(i16::MIN), which  *)
(* overflows.  PaddingPanics says when that overflow panics.               *)
(***************************************************************************)
PaddingToWordEnd(len) == 4 - (len % 4)     \* wrong: 4 for aligned lengths

Padding(len) == ((0 - AsI16(len)) % U16) & MAX_PADDING_LEN

PaddingPanics(len) == OverflowChecks /\ AsI16(len) = -32768

(***************************************************************************)
(* RawAttribute::padded_len: (len + MAX_PADDING_LEN) & PADDED_MASK, a u16  *)
(* addition that overflows for len > u16::MAX - 3.                         *)
(***************************************************************************)
PADDED_MASK == (U16 - 1) - MAX_PADDING_LEN

PaddedLen(len) == ((len + MAX_PADDING_LEN) % U16) & PADDED_MASK

PaddedLenPanics(len) == OverflowChecks /\ len + MAX_PADDING_LEN >= U16

(* RawAttribute::encode_type_length / decode_type_length: the 4-byte TL,  *)
(* codepoint then length, both big-endian.                                *)
EncodeTypeLength(t, l) == BE(t, 2) \o BE(l, 2)
DecodeTypeLengthBytes(tl) == [attr |-> FromBE(SubSeq(tl, 1, 2)), len |-> FromBE(SubSeq(tl, 3, 4))]

(* attribute::total_len: TL_LEN + len + padding(len), computed in usize.  *)
TotalLen(len) == TL_LEN + len + Padding(len)

(* attribute::MAX_VALUE_LEN = u16::MAX - MAX_PADDING_LEN - TL_LEN.        *)
MAX_VALUE_LEN == (U16 - 1) - MAX_PADDING_LEN - TL_LEN

(***************************************************************************)
(* attribute::ensure_space(total_len, len, dst_len): Ok when the           *)
(* destination holds the whole TLV, BufferTooSmallForValue when it holds   *)
(* at least the type-length header, TypeLenTooBig otherwise.               *)
(***************************************************************************)
EnsureSpaceHeaderUncounted(totalLen, dstLen) ==     \* wrong: TL_LEN counted twice off
    IF dstLen + TL_LEN >= totalLen THEN "ok"
    ELSE IF dstLen >= TL_LEN THEN "value_too_small"
    ELSE "type_len_too_big"

EnsureSpace(totalLen, dstLen) ==
    IF dstLen >= totalLen THEN "ok"
    ELSE IF dstLen >= TL_LEN THEN "value_too_small"
    ELSE "type_len_too_big"

=============================================================================
