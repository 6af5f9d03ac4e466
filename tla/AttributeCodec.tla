---------------------------- MODULE AttributeCodec ----------------------------
(***************************************************************************)
(* The attribute contract of stunparse (src/attribute): every attribute    *)
(* kind's encode into a caller's buffer and decode from the value bytes    *)
(* of a scanned record, as operators over byte sequences (integers in      *)
(* 0..255).                                                                *)
(*                                                                         *)
(* An encode call gets dst.len() and returns a record: status "ok" or the  *)
(* error, and w, the bytes it wrote from the start of dst (on success the  *)
(* whole TLV, whose length is what the returned `rest` skips).  A decode   *)
(* returns [status |-> "ok", attr |-> the value] or [status |-> error].    *)
(*                                                                         *)
(* An attribute value is a record with its kind and its type codepoint;    *)
(* the other fields are the Rust struct's fields.                          *)
(***************************************************************************)
EXTENDS Integers, Sequences, SequencesExt, Bitwise, AddressCodec

Ok(w) == [status |-> "ok", w |-> w]
Fail(e, w) == [status |-> e, w |-> w]
Decoded(a) == [status |-> "ok", attr |-> a]
Rejected(e) == [status |-> e]

(* Type codepoints (type.rs) of the kinds modelled here.                  *)
CHANGE_REQUEST == 3
MESSAGE_INTEGRITY == 8
ERROR_CODE == 9
UNKNOWN_ATTRIBUTES == 10
LIFETIME == 13
DATA == 19
DONT_FRAGMENT == 26
PASSWORD_ALGORITHM == 29
PRIORITY == 36
USE_CANDIDATE == 37
ADDRESS_ERROR_CODE == 32769
PASSWORD_ALGORITHMS == 32770
FINGERPRINT == 32808
ICE_CONTROLLED == 32809

EmptyTypes == {DONT_FRAGMENT, USE_CANDIDATE}
IntTypes == [t \in {LIFETIME, PRIORITY, FINGERPRINT, ICE_CONTROLLED} |->
                IF t = ICE_CONTROLLED THEN 8 ELSE 4]     \* size_of::<$int_type>()
FixedTypes == [t \in {MESSAGE_INTEGRITY} |-> 20]          \* new_fixed_attr! lengths

(***************************************************************************)
(* encode_variable_len(attr, src, dst): shrink_to_u16 (a truncation of the *)
(* slice to len as u16), total_len, ensure_space, then the TL, the value   *)
(* and zero padding.  Data, fixed-length values, UnknownAttribute and the  *)
(* parsed PasswordAlgorithms encode through it.                            *)
(***************************************************************************)
EncodeVariableLenHeaderFirst(t, src, dstLen) ==     \* wrong: TL written before the check
    LET s == SubSeq(src, 1, Len(src) % U16)
        e == EnsureSpace(TotalLen(Len(s)), dstLen)
    IN IF e = "value_too_small" THEN Fail(e, EncodeTypeLength(t, Len(s)))
       ELSE IF e # "ok" THEN Fail(e, <<>>)
       ELSE Ok(EncodeTypeLength(t, Len(s)) \o s \o Zeros(Padding(Len(s))))

EncodeVariableLen(t, src, dstLen) ==
    LET s == SubSeq(src, 1, Len(src) % U16)
        e == EnsureSpace(TotalLen(Len(s)), dstLen)
    IN IF e # "ok" THEN Fail(e, <<>>)
       ELSE Ok(EncodeTypeLength(t, Len(s)) \o s \o Zeros(Padding(Len(s))))

(* encode_empty: only dst.len() >= TL_LEN is checked, then the TL.       *)
EncodeEmpty(t, dstLen) ==
    IF dstLen >= TL_LEN THEN Ok(EncodeTypeLength(t, 0))
    ELSE Fail("type_len_too_big", <<>>)

(* decode_empty as written: `if !src.is_empty() { Ok } else { Err }`.     *)
DecodeEmpty(a, src) ==
    IF src # <<>> THEN Decoded(a) ELSE Rejected("len_mismatch")

(* encode_integer::<N, M>: ensure_space(M, N), the TL, then f()'s bytes.  *)
EncodeInteger(t, bytes, dstLen) ==
    LET e == EnsureSpace(TL_LEN + Len(bytes), dstLen)
    IN IF e # "ok" THEN Fail(e, <<>>)
       ELSE Ok(EncodeTypeLength(t, Len(bytes)) \o bytes)

(* decode_integer::<N>: src.try_into::<[u8; N]>(), else LenMismatch; the  *)
(* caller's f turns the N bytes into the value.                            *)
DecodeInteger(src, n) ==
    IF Len(src) = n THEN Decoded(src) ELSE Rejected("len_mismatch")

(* ChangeRequest: Request as u32, BE; decode reads bits 0x4 and 0x2.      *)
RequestOfSwapped(cr) == (IF cr.ip THEN 2 ELSE 0) + (IF cr.port THEN 4 ELSE 0)     \* wrong: Ip and Port values swapped

RequestOf(cr) == (IF cr.ip THEN 4 ELSE 0) + (IF cr.port THEN 2 ELSE 0)

ChangeRequestOf(x) ==
    [kind |-> "change_request", type |-> CHANGE_REQUEST,
     ip |-> (x & 4) # 0, port |-> (x & 2) # 0]

(***************************************************************************)
(* UNKNOWN-ATTRIBUTES: encode_unknown_attributes writes each codepoint BE  *)
(* after ensure_space for len_from_count; from_bytes rejects an odd length *)
(* and the iterator reads the codepoints back.                             *)
(***************************************************************************)
LenFromCount(c) == (c * 2) % U16

EncodeUnknownAttributes(types, dstLen) ==
    LET l == LenFromCount(Len(types))
        e == EnsureSpace(TotalLen(l), dstLen)
    IN IF e # "ok" THEN Fail(e, <<>>)
       ELSE Ok(EncodeTypeLength(UNKNOWN_ATTRIBUTES, l)
               \o FlattenSeq([i \in 1..(l \div 2) |-> BE(types[i], 2)])
               \o Zeros(Padding(l)))

DecodeUnknownAttributes(src) ==
    IF Len(src) % 2 # 0 THEN Rejected("invalid_attr_type_array")
    ELSE Decoded([kind |-> "unknown_attributes", type |-> UNKNOWN_ATTRIBUTES,
                  types |-> [i \in 1..(Len(src) \div 2) |->
                                FromBE(SubSeq(src, 2 * i - 1, 2 * i))]])

(* UnknownAttribute::new / decode: any value up to MAX_VALUE_LEN.         *)
DecodeUnknown(t, src) ==
    IF Len(src) > MAX_VALUE_LEN THEN Rejected("value_too_long")
    ELSE Decoded([kind |-> "unknown", type |-> t, value |-> src])

(* decode_fixed::<N>: src.try_into::<&[u8; N]>(), else LenMismatch.       *)
DecodeFixed(t, src) ==
    IF Len(src) = FixedTypes[t] THEN Decoded([kind |-> "fixed", type |-> t, value |-> src])
    ELSE Rejected("len_mismatch")

-----------------------------------------------------------------------------
(***************************************************************************)
(* ERROR-CODE and ADDRESS-ERROR-CODE (error_code.rs).  A reason phrase is  *)
(* a &str; its Validated<_, false, false, false> checks are those of       *)
(* TextValidation with the code's limits.                                  *)
(***************************************************************************)
TV == INSTANCE TextValidation
        WITH MAX_LABEL_LENGTH <- 63, MAX_NAME_LENGTH <- 253, MAX_CHARS <- 127

CODE_LEN == 4
ADDR_SHIFT == 24

\* Validated<&str, false, false, false>: the error_code.rs alias with D off.
ReasonPolicy == [dns |-> FALSE, quoted |-> FALSE, opaque |-> FALSE]

(* ErrorCode::new: the only constructor, accepting 300..=699.            *)
ErrorCodeNew(code) == code \in 300..699

(***************************************************************************)
(* encode_error_code: len = CODE_LEN + reason, ensure_space, the TL, then  *)
(* f((class << 8) | number) as u32 BE, the reason and zero padding.  f is  *)
(* the identity for ERROR-CODE and ORs in family << ADDR_SHIFT for         *)
(* ADDRESS-ERROR-CODE: famBits is what it ORs in.                          *)
(***************************************************************************)
EncodeErrorCode(t, code, reason, famBits, dstLen) ==
    LET l == (CODE_LEN + Len(TV!Utf8(reason))) % U16
        e == EnsureSpace(TotalLen(l), dstLen)
    IN IF e # "ok" THEN Fail(e, <<>>)
       ELSE Ok(EncodeTypeLength(t, l)
               \o BE(ShiftL(code \div 100, 8) | (code % 100) | famBits, 4)
               \o TV!Utf8(reason) \o Zeros(Padding(l)))

(***************************************************************************)
(* decode_error_code: at least CODE_LEN bytes; class is bits 8..10 and     *)
(* must be in (3..6), i.e. 3, 4 or 5; number at most 99; then f(code),     *)
(* which for ADDRESS-ERROR-CODE (addr) is into_family of the top byte,     *)
(* and the reason's validation.                                            *)
(***************************************************************************)
DecodeErrorCode(t, src, addr) ==
    IF Len(src) < CODE_LEN THEN Rejected("error_code_too_big")
    ELSE LET code   == FromBE(SubSeq(src, 1, CODE_LEN))
             class  == ShiftR(code, 8) & 7
             number == code & 255
             family == ShiftR(code, ADDR_SHIFT)
             reason == TV!TryFromBytes(ReasonPolicy, SubSeq(src, CODE_LEN + 1, Len(src)))
         IN IF class \notin 3..5 \/ number > 99 THEN Rejected("invalid_error_code")
            ELSE IF addr /\ IntoFamily(family) # "ok" THEN Rejected(IntoFamily(family))
            ELSE IF reason.status # "ok" THEN Rejected(reason.status)
            ELSE Decoded([kind |-> "error_code", type |-> t, family |-> IF addr THEN family ELSE 0,
                          code |-> class * 100 + number, reason |-> reason.chars])

-----------------------------------------------------------------------------
(***************************************************************************)
(* The text attributes (string/text_attr.rs): REALM, USERNAME, NONCE,      *)
(* SOFTWARE and ALTERNATE-DOMAIN, each new_text_attr! with its policy.     *)
(* Their value is a &str, a sequence of chars.                             *)
(***************************************************************************)
USERNAME == 6
REALM == 20
NONCE == 21
ALTERNATE_DOMAIN == 32771
SOFTWARE == 32802

Policy(d, q, o) == [dns |-> d, quoted |-> q, opaque |-> o]

TextPolicy ==
       REALM            :> Policy(FALSE, TRUE, TRUE)
    @@ USERNAME         :> Policy(FALSE, FALSE, TRUE)
    @@ NONCE            :> Policy(FALSE, TRUE, FALSE)
    @@ SOFTWARE         :> Policy(FALSE, FALSE, FALSE)
    @@ ALTERNATE_DOMAIN :> Policy(TRUE, FALSE, FALSE)

\* encode of a text attribute over any AsRef<str>: validate(), the
\* try_from of the &str, then encode_variable_len of its UTF-8 bytes.
EncodeTextSpaceFirst(a, dstLen) ==     \* wrong: the space check before validate()
    LET v == TV!TryFromStr(TextPolicy[a.type], a.value)
        e == EnsureSpace(TotalLen(Len(TV!Utf8(a.value)) % U16), dstLen)
    IN IF e # "ok" THEN Fail(e, <<>>)
       ELSE IF v # "ok" THEN Fail(v, <<>>)
       ELSE EncodeVariableLen(a.type, TV!Utf8(a.value), dstLen)

EncodeText(a, dstLen) ==
    LET v == TV!TryFromStr(TextPolicy[a.type], a.value)
    IN IF v # "ok" THEN Fail(v, <<>>)
       ELSE EncodeVariableLen(a.type, TV!Utf8(a.value), dstLen)

\* decode: Validated::try_from of the value bytes.
DecodeText(t, src) ==
    LET v == TV!TryFromBytes(TextPolicy[t], src)
    IN IF v.status # "ok" THEN Rejected(v.status)
       ELSE Decoded([kind |-> "text", type |-> t, value |-> v.chars])

-----------------------------------------------------------------------------
(***************************************************************************)
(* PASSWORD-ALGORITHM and PASSWORD-ALGORITHMS (password.rs).  An           *)
(* algorithm is [alg |-> codepoint, params |-> bytes].                     *)
(***************************************************************************)
ALG_HEADER_LEN == 4         \* password.rs HEADER_LEN: algorithm + param length

(***************************************************************************)
(* PasswordAlgorithm::encode: a parameter length check, then a whole TLV   *)
(* of type PASSWORD-ALGORITHM: TL, algorithm, parameter length, the        *)
(* parameters and zero padding.                                            *)
(***************************************************************************)
EncodePasswordAlgorithm(alg, dstLen) ==
    LET l == ALG_HEADER_LEN + Len(alg.params)
        e == EnsureSpace(TotalLen(l), dstLen)
    IN IF Len(alg.params) > MAX_VALUE_LEN - ALG_HEADER_LEN THEN Fail("params_too_long", <<>>)
       ELSE IF e # "ok" THEN Fail(e, <<>>)
       ELSE Ok(EncodeTypeLength(PASSWORD_ALGORITHM, l) \o BE(alg.alg, 2)
               \o BE(Len(alg.params), 2) \o alg.params \o Zeros(Padding(l)))

(* PasswordAlgorithm::decode: a 4-byte header whose length is exactly the *)
(* number of parameter bytes that follow.                                  *)
DecodePasswordAlgorithm(src) ==
    IF Len(src) < ALG_HEADER_LEN THEN Rejected("password_algorithm_too_big")
    ELSE IF FromBE(SubSeq(src, 3, 4)) # Len(src) - ALG_HEADER_LEN THEN Rejected("len_mismatch")
    ELSE Decoded([kind |-> "password_algorithm", type |-> PASSWORD_ALGORITHM,
                  alg |-> FromBE(SubSeq(src, 1, 2)),
                  params |-> SubSeq(src, ALG_HEADER_LEN + 1, Len(src))])

(* value_len: padded_len of every algorithm's encoded_value_len but the   *)
(* last, plus the last's, summed in u16.                                   *)
AlgValueLenNoHeader(alg) == Len(alg.params) % U16     \* wrong: HEADER_LEN left out
AlgValueLen(alg) == (ALG_HEADER_LEN + Len(alg.params)) % U16

ValueLen(algs) ==
    IF algs = <<>> THEN 0
    ELSE (FoldLeft(LAMBDA acc, a : acc + PaddedLen(AlgValueLen(a)), 0, Front(algs))
          + AlgValueLen(Last(algs))) % U16

(***************************************************************************)
(* The loop of PasswordAlgorithms::encode: `vp = alg.encode(vp, t)?` for   *)
(* each algorithm, then PassAlgoLenMismatch unless vp is used up.  w is    *)
(* what the loop has written into vp so far.                               *)
(***************************************************************************)
RECURSIVE EncodeAlgs(_, _, _)
EncodeAlgs(algs, room, w) ==
    IF algs = <<>> THEN IF room # 0 THEN Fail("pass_algo_len_mismatch", w) ELSE Ok(w)
    ELSE LET r == EncodePasswordAlgorithm(Head(algs), room)
         IN IF r.status # "ok" THEN Fail(r.status, w)
            ELSE EncodeAlgs(Tail(algs), room - Len(r.w), w \o r.w)

(* PasswordAlgorithms::encode: value_len, ensure_space, the outer TL,     *)
(* then the loop into the rest of the TLV.                                 *)
EncodePasswordAlgorithms(algs, dstLen) ==
    LET l  == ValueLen(algs)
        e  == EnsureSpace(TotalLen(l), dstLen)
        tl == EncodeTypeLength(PASSWORD_ALGORITHMS, l)
        r  == EncodeAlgs(algs, TotalLen(l) - TL_LEN, <<>>)
    IN IF e # "ok" THEN Fail(e, <<>>)
       ELSE [status |-> r.status, w |-> tl \o r.w]

(***************************************************************************)
(* PasswordAlgorithms::decode loops next_alg over the value: 0 bytes ends, *)
(* 1-3 bytes is a bad header, a length past the end a bad length; the      *)
(* slice moves past value and padding, or becomes empty if the padding is  *)
(* missing.  The algorithms are what iter() yields over the same bytes.    *)
(***************************************************************************)
(* next_alg(&mut slice): one step over the slice; "none" at its end.    *)
(* padding(len) runs before the length check, so in a debug build a      *)
(* parameter length of 0x8000 panics whatever follows it.                *)
NextAlg(s) ==
    LET tl   == DecodeTypeLengthBytes(SubSeq(s, 1, TL_LEN))
        rest == SubSeq(s, TL_LEN + 1, Len(s))
        skip == tl.len + Padding(tl.len)
        left == IF skip <= Len(rest) THEN SubSeq(rest, skip + 1, Len(rest)) ELSE <<>>
    IN CASE s = <<>>               -> [res |-> "none"]
         [] Len(s) < ALG_HEADER_LEN -> [res |-> "bad_header"]
         [] PaddingPanics(tl.len)   -> [res |-> "panic"]
         [] tl.len > Len(rest)      -> [res |-> "bad_len", slice |-> left]
         [] OTHER -> [res |-> "alg", slice |-> left,
                      alg |-> [alg |-> tl.attr, params |-> SubSeq(rest, 1, tl.len)]]

RECURSIVE NextAlgs(_, _)
NextAlgs(s, algs) ==
    LET step == NextAlg(s) IN
    CASE step.res = "none"       -> Decoded([kind |-> "password_algorithms",
                                              type |-> PASSWORD_ALGORITHMS, algs |-> algs])
      [] step.res = "bad_header" -> Rejected("pass_algo_bad_header")
      [] step.res = "bad_len"    -> Rejected("pass_algo_bad_len")
      [] step.res = "panic"      -> Rejected("panic")
      [] OTHER                   -> NextAlgs(step.slice, Append(algs, step.alg))

-----------------------------------------------------------------------------
(***************************************************************************)
(* The contract over all kinds, dispatched as define_attribute_enum! does: *)
(* encode and encoded_value_len by the value's kind, decode by the type    *)
(* codepoint, with UnknownAttribute for every other codepoint.             *)
(***************************************************************************)
FAMILY_TYPES == {23, 32768}     \* REQUESTED- and ADDITIONAL-ADDRESS-FAMILY
ADDR_TYPES == {MAPPED_ADDRESS, ALTERNATE_SERVER} \cup XorTypes

(* EncodeAttribute::encoded_value_len of each kind, a u16.                 *)
EncodedValueLen(a) ==
    CASE a.kind = "empty"              -> 0
      [] a.kind = "int"                -> IntTypes[a.type]
      [] a.kind = "change_request"     -> 4
      [] a.kind \in {"data", "fixed", "unknown"} -> Len(a.value) % U16
      [] a.kind = "unknown_attributes" -> LenFromCount(Len(a.types))
      [] a.kind = "error_code"         -> (CODE_LEN + Len(TV!Utf8(a.reason))) % U16
      [] a.kind = "text"               -> Len(TV!Utf8(a.value)) % U16
      [] a.kind = "password_algorithm" -> AlgValueLen(a)
      [] a.kind = "password_algorithms" -> ValueLen(a.algs)
      [] a.kind = "addr"               -> ADDR_HEADER_LEN + IpLen(a.family)
      [] a.kind = "family"             -> 4

(* EncodeAttribute::encoded_len, the trait's default method.              *)
EncodedLen(a) == TotalLen(EncodedValueLen(a))

(* The family bits ADDRESS-ERROR-CODE ORs into the code word.             *)
FamilyBits(a) == IF a.type = ADDRESS_ERROR_CODE THEN ShiftL(a.family, ADDR_SHIFT) ELSE 0

(* EncodeAttribute::encode of each kind into a dst of dstLen bytes.       *)
EncodeAttr(a, tid, dstLen) ==
    CASE a.kind = "empty"          -> EncodeEmpty(a.type, dstLen)
      [] a.kind = "int"            -> EncodeInteger(a.type, BE(a.value, IntTypes[a.type]), dstLen)
      [] a.kind = "change_request" -> EncodeInteger(CHANGE_REQUEST, BE(RequestOf(a), 4), dstLen)
      [] a.kind \in {"data", "fixed", "unknown"} -> EncodeVariableLen(a.type, a.value, dstLen)
      [] a.kind = "unknown_attributes" -> EncodeUnknownAttributes(a.types, dstLen)
      [] a.kind = "error_code" ->
            IF TV!TryFromStr(ReasonPolicy, a.reason) # "ok"
            THEN Fail(TV!TryFromStr(ReasonPolicy, a.reason), <<>>)
            ELSE EncodeErrorCode(a.type, a.code, a.reason, FamilyBits(a), dstLen)
      [] a.kind = "text" -> EncodeText(a, dstLen)
      [] a.kind = "password_algorithm"  -> EncodePasswordAlgorithm(a, dstLen)
      [] a.kind = "password_algorithms" -> EncodePasswordAlgorithms(a.algs, dstLen)
      [] a.kind = "addr"   -> EncodeAddr(a, a.type \in XorTypes, tid, dstLen)
      [] a.kind = "family" -> EncodeInteger(a.type, LE(a.family, 4), dstLen)

(* DecodeAttribute::decode of the value bytes of a record of type t.      *)
DecodeAttr(t, src, tid) ==
    CASE t \in EmptyTypes -> DecodeEmpty([kind |-> "empty", type |-> t], src)
      [] t \in DOMAIN IntTypes ->
            LET r == DecodeInteger(src, IntTypes[t])
            IN IF r.status # "ok" THEN r
               ELSE Decoded([kind |-> "int", type |-> t, value |-> FromBE(r.attr)])
      [] t = CHANGE_REQUEST ->
            LET r == DecodeInteger(src, 4)
            IN IF r.status # "ok" THEN r ELSE Decoded(ChangeRequestOf(FromBE(r.attr)))
      [] t = DATA -> Decoded([kind |-> "data", type |-> t, value |-> src])
      [] t \in DOMAIN FixedTypes -> DecodeFixed(t, src)
      [] t = UNKNOWN_ATTRIBUTES -> DecodeUnknownAttributes(src)
      [] t \in DOMAIN TextPolicy -> DecodeText(t, src)
      [] t = ERROR_CODE -> DecodeErrorCode(t, src, FALSE)
      [] t = ADDRESS_ERROR_CODE -> DecodeErrorCode(t, src, TRUE)
      [] t = PASSWORD_ALGORITHM -> DecodePasswordAlgorithm(src)
      [] t = PASSWORD_ALGORITHMS -> NextAlgs(src, <<>>)
      [] t \in ADDR_TYPES -> DecodeAddr(t, src, t \in XorTypes, tid)
      [] t \in FAMILY_TYPES -> DecodeFamily(t, src)
      [] OTHER -> DecodeUnknown(t, src)

=============================================================================
