--------------------------- MODULE TextValidation ---------------------------
(***************************************************************************)
(* The text validation engine (src/attribute/string): the domain-name      *)
(* machine of dns.rs, the quoted-text machines of quoted.rs, the length    *)
(* checks of length.rs and the entry points of Validated in validated.rs.  *)
(* A string (&str) is a sequence of Unicode scalar values, a byte slice a  *)
(* sequence of 0..255.  A policy is the three const-generic flags          *)
(* [dns, quoted, opaque] of Validated<T, D, Q, O>.                        *)
(*                                                                         *)
(* The limits are constants so that a model can shrink them: the code has *)
(* MAX_LABEL_LENGTH = 63, MAX_NAME_LENGTH = 253 and MAX_CHARS = 127.       *)
(***************************************************************************)
EXTENDS Integers, Sequences, SequencesExt

CONSTANTS MAX_LABEL_LENGTH, MAX_NAME_LENGTH, MAX_CHARS

ASSUME /\ MAX_LABEL_LENGTH \in Nat \ {0}
       /\ MAX_NAME_LENGTH \in Nat \ {0}
       /\ MAX_CHARS \in Nat \ {0}

\* length.rs: MAX_CHARS * size_of::<char>(), the byte bound of a string of
\* MAX_CHARS characters.
MAX_BYTES == MAX_CHARS * 4

Policies == [dns : BOOLEAN, quoted : BOOLEAN, opaque : BOOLEAN]

(***************************************************************************)
(* UTF-8, as core::str does it: str::as_bytes and str::from_utf8.         *)
(***************************************************************************)
Cont == 128..191

\* The UTF-8 bytes of one scalar value.
Utf8Char(c) ==
  CASE c < 128   -> <<c>>
    [] c < 2048  -> <<192 + c \div 64, 128 + (c % 64)>>
    [] c < 65536 -> <<224 + c \div 4096, 128 + ((c \div 64) % 64), 128 + (c % 64)>>
    [] OTHER     -> <<240 + c \div 262144, 128 + ((c \div 4096) % 64),
                      128 + ((c \div 64) % 64), 128 + (c % 64)>>

\* str::as_bytes
Utf8(s) == FlattenSeq([i \in 1..Len(s) |-> Utf8Char(s[i])])

\* The width a leading byte announces, 0 for a byte that cannot lead.
Utf8Width(b0) ==
  CASE b0 < 128         -> 1
    [] b0 \in 194..223  -> 2
    [] b0 \in 224..239  -> 3
    [] b0 \in 240..244  -> 4
    [] OTHER            -> 0

\* The second byte excludes overlong forms, surrogates and values past 10FFFF.
SecondByte(b0) ==
  CASE b0 = 224 -> 160..191
    [] b0 = 237 -> 128..159
    [] b0 = 240 -> 144..191
    [] b0 = 244 -> 128..143
    [] OTHER    -> Cont

WellFormedAt(b, i) ==
  LET w == Utf8Width(b[i]) IN
  /\ w > 0
  /\ i + w - 1 <= Len(b)
  /\ w > 1 => b[i + 1] \in SecondByte(b[i])
  /\ \A k \in 2..(w - 1) : b[i + k] \in Cont

CharAt(b, i) ==
  CASE Utf8Width(b[i]) = 1 -> b[i]
    [] Utf8Width(b[i]) = 2 -> (b[i] - 192) * 64 + (b[i+1] - 128)
    [] Utf8Width(b[i]) = 3 -> (b[i] - 224) * 4096 + (b[i+1] - 128) * 64 + (b[i+2] - 128)
    [] OTHER -> (b[i] - 240) * 262144 + (b[i+1] - 128) * 4096
                  + (b[i+2] - 128) * 64 + (b[i+3] - 128)

RECURSIVE Utf8Decode(_, _, _)
Utf8Decode(b, i, acc) ==
  IF i > Len(b) THEN [ok |-> TRUE, chars |-> acc]
  ELSE IF ~WellFormedAt(b, i) THEN [ok |-> FALSE, chars |-> acc]
  ELSE Utf8Decode(b, i + Utf8Width(b[i]), Append(acc, CharAt(b, i)))

\* core::str::from_utf8: the characters, or ok = FALSE.
FromUtf8(b) == Utf8Decode(b, 1, <<>>)

IsAscii(b) == \A i \in 1..Len(b) : b[i] < 128

(***************************************************************************)
(* dns.rs: validate_domain_name.  One loop iteration maps [state, curr]   *)
(* and a byte to the next [state, curr], or to ok = FALSE for every       *)
(* `return Err(InvalidDnsName)` in the loop.                              *)
(***************************************************************************)
DnsStates == {"Next", "Subsequent", "NumericOnly", "Hyphen", "NextAfterNumericOnly"}

DnsErr == [ok |-> FALSE, state |-> "Next", curr |-> 0]

DnsGo(state, curr) == [ok |-> TRUE, state |-> state, curr |-> curr]

\* Mutant: a dot after an all-numeric label starts a label as after a
\* named one, forgetting that the label was numeric.
DnsTransitionNumericDot(st, c) ==
  CASE c = 45 /\ st.state \in {"Subsequent", "NumericOnly", "Hyphen"}
            -> DnsGo("Hyphen", st.curr + 1)
    [] c = 46 /\ st.state \in {"Subsequent", "NumericOnly"} -> DnsGo("Next", 0)
    [] c \in 48..57
            -> DnsGo(IF st.state \in {"Next", "NextAfterNumericOnly", "NumericOnly"}
                     THEN "NumericOnly" ELSE "Subsequent", st.curr + 1)
    [] c \in 65..90 \cup 97..122 -> DnsGo("Subsequent", st.curr + 1)
    [] OTHER -> DnsErr

DnsTransition(st, c) ==
  CASE c = 45 /\ st.state \in {"Subsequent", "NumericOnly", "Hyphen"}
            -> DnsGo("Hyphen", st.curr + 1)
    [] c = 46 /\ st.state = "Subsequent"  -> DnsGo("Next", 0)
    [] c = 46 /\ st.state = "NumericOnly" -> DnsGo("NextAfterNumericOnly", 0)
    [] c \in 48..57
            -> DnsGo(IF st.state \in {"Next", "NextAfterNumericOnly", "NumericOnly"}
                     THEN "NumericOnly" ELSE "Subsequent", st.curr + 1)
    [] c \in 65..90 \cup 97..122 -> DnsGo("Subsequent", st.curr + 1)
    [] OTHER -> DnsErr

DnsStep(st, c) ==
  IF ~st.ok THEN st
  ELSE LET nx == DnsTransition(st, c)
       IN IF nx.ok /\ nx.curr > MAX_LABEL_LENGTH THEN DnsErr ELSE nx

validate_domain_name(b) ==
  /\ Len(b) \in 1..MAX_NAME_LENGTH
  /\ LET last == FoldLeft(DnsStep, DnsGo("Next", 0), b)
     IN last.ok /\ last.state \in {"Next", "Subsequent"}

(***************************************************************************)
(* quoted.rs: is_quoted_text over the chars of a &str, and the const      *)
(* is_quoted_text_ascii over its bytes.  "fail" stands for return false.  *)
(***************************************************************************)
QdText(c) == c = 9 \/ c \in 32..33 \/ c \in 35..91 \/ c \in 93..126

QuotedStep(st, c) ==
  CASE st = "Normal" ->
         IF QdText(c) THEN "Normal"
         ELSE IF c = 13 THEN "CarriageReturn"
         ELSE IF c = 92 THEN "QuotedPair"
         ELSE IF c < 128 THEN "fail" ELSE "Normal"
    [] st = "CarriageReturn" -> IF c = 10 THEN "WhiteSpace" ELSE "fail"
    [] st = "WhiteSpace" -> IF c \in {9, 32} THEN "Normal" ELSE "fail"
    [] st = "QuotedPair" -> IF c < 128 /\ c \notin {10, 13} THEN "Normal" ELSE "fail"
    [] OTHER -> "fail"

is_quoted_text(s) == FoldLeft(QuotedStep, "Normal", s) = "Normal"

\* Mutant: the quoted pair of the ASCII machine takes any byte.
QuotedAsciiStepAnyPair(st, c) ==
  CASE st = "Normal" ->
         IF QdText(c) THEN "Normal"
         ELSE IF c = 13 THEN "CarriageReturn"
         ELSE IF c = 92 THEN "QuotedPair" ELSE "fail"
    [] st = "CarriageReturn" -> IF c = 10 THEN "WhiteSpace" ELSE "fail"
    [] st = "WhiteSpace" -> IF c \in {9, 32} THEN "Normal" ELSE "fail"
    [] st = "QuotedPair" -> "Normal"
    [] OTHER -> "fail"

QuotedAsciiStep(st, c) ==
  CASE st = "Normal" ->
         IF QdText(c) THEN "Normal"
         ELSE IF c = 13 THEN "CarriageReturn"
         ELSE IF c = 92 THEN "QuotedPair" ELSE "fail"
    [] st = "CarriageReturn" -> IF c = 10 THEN "WhiteSpace" ELSE "fail"
    [] st = "WhiteSpace" -> IF c \in {9, 32} THEN "Normal" ELSE "fail"
    [] st = "QuotedPair" -> IF c \in {10, 13} THEN "fail" ELSE "Normal"
    [] OTHER -> "fail"

is_quoted_text_ascii(s) ==
  /\ IsAscii(Utf8(s))
  /\ FoldLeft(QuotedAsciiStep, "Normal", Utf8(s)) = "Normal"

(***************************************************************************)
(* opaque.rs (PRECIS OpaqueString, spec section 4.7): a character         *)
(* predicate rejecting the control characters, C0, DEL and C1; the ASCII  *)
(* fast path also rejects every non-ASCII byte.                           *)
(***************************************************************************)
OpaqueChar(c) == c \notin 0..31 \cup 127..159

is_opaque_string(s) == \A i \in 1..Len(s) : OpaqueChar(s[i])

is_opaque_string_ascii(s) == IsAscii(Utf8(s)) /\ is_opaque_string(s)


(***************************************************************************)
(* length.rs.  validate_str_len checks a &str: by byte length up to       *)
(* MAX_CHARS, by a char count up to MAX_BYTES, and rejects anything       *)
(* longer.  validate_str_bytes checks a byte slice: MAX_BYTES first, then *)
(* from_utf8, then the same byte-length fast path and char count.         *)
(***************************************************************************)
\* Mutant: the byte length alone decides, no char count.
validate_str_len_bytes_only(s) == Len(Utf8(s)) <= MAX_CHARS

validate_str_len(s) ==
  LET bytes == Len(Utf8(s)) IN
  CASE bytes <= MAX_CHARS -> TRUE
    [] bytes <= MAX_BYTES -> Len(s) <= MAX_CHARS
    [] OTHER              -> FALSE

\* The status and the &str a successful check hands on.
Result(status, chars) == [status |-> status, chars |-> chars]

validate_str_bytes(b) ==
  IF Len(b) > MAX_BYTES THEN Result("StringTooLong", <<>>)
  ELSE LET d == FromUtf8(b) IN
       CASE ~d.ok                     -> Result("Utf8Error", <<>>)
         [] Len(b) <= MAX_CHARS       -> Result("ok", d.chars)
         [] Len(d.chars) > MAX_CHARS  -> Result("StringTooLong", <<>>)
         [] OTHER                     -> Result("ok", d.chars)

(***************************************************************************)
(* validated.rs.  validate_quoted_opaque runs the full-string predicates; *)
(* the three constructors of Validated<&str, D, Q, O> put the checks of a *)
(* policy in the code's order and report the first that fails.            *)
(***************************************************************************)
validate_quoted_opaque(p, s) ==
  CASE p.quoted /\ ~is_quoted_text(s)   -> "StringNotQuoted"
    [] p.opaque /\ ~is_opaque_string(s) -> "StringNotOPaque"
    [] OTHER                            -> "ok"

\* TryFrom<&[u8]>: the decode path of every text attribute.  A DNS name
\* is ASCII, so from_utf8_unchecked gives back the bytes as chars.
TryFromBytes(p, b) ==
  LET first == IF p.dns
               THEN IF validate_domain_name(b) THEN Result("ok", b)
                    ELSE Result("InvalidDnsName", <<>>)
               ELSE validate_str_bytes(b)
  IN IF first.status # "ok" THEN first
     ELSE Result(validate_quoted_opaque(p, first.chars), first.chars)

\* The try_from! impls for &str, String and heapless::String: the check
\* text attributes run again at encode time (validate).
TryFromStr(p, s) ==
  LET first == IF p.dns
               THEN IF validate_domain_name(Utf8(s)) THEN "ok" ELSE "InvalidDnsName"
               ELSE IF validate_str_len(s) THEN "ok" ELSE "StringTooLong"
  IN IF first # "ok" THEN first ELSE validate_quoted_opaque(p, s)

\* Mutant: the const path reuses the runtime length check and its error.
const_try_from_runtime_len(p, s) ==
  CASE p.dns /\ ~validate_domain_name(Utf8(s))  -> "InvalidDnsName"
    [] ~p.dns /\ ~validate_str_len(s)           -> "StringTooLong"
    [] p.quoted /\ ~is_quoted_text_ascii(s)     -> "StringNotQuoted"
    [] p.opaque /\ ~is_opaque_string_ascii(s)   -> "StringNotOPaque"
    [] OTHER                                    -> "ok"

\* const_try_from: the compile-time constructor.  Without DNS mode it
\* bounds the byte length by MAX_CHARS and it uses the ASCII predicates.
const_try_from(p, s) ==
  CASE p.dns /\ ~validate_domain_name(Utf8(s))  -> "InvalidDnsName"
    [] ~p.dns /\ Len(Utf8(s)) > MAX_CHARS       -> "StringTooLongConst"
    [] p.quoted /\ ~is_quoted_text_ascii(s)     -> "StringNotQuoted"
    [] p.opaque /\ ~is_opaque_string_ascii(s)   -> "StringNotOPaque"
    [] OTHER                                    -> "ok"

(***************************************************************************)
(* Reference definitions, from the grammars and not from the machines.    *)
(***************************************************************************)
Digits == 48..57
LDH    == {45} \cup Digits \cup 65..90 \cup 97..122

\* The labels of a name: the byte string split at every '.'.
RECURSIVE Labels(_)
Labels(b) ==
  IF \A i \in 1..Len(b) : b[i] # 46 THEN <<b>>
  ELSE LET i == CHOOSE j \in 1..Len(b) : b[j] = 46 /\ \A k \in 1..(j-1) : b[k] # 46
       IN <<SubSeq(b, 1, i - 1)>> \o Labels(SubSeq(b, i + 1, Len(b)))

\* RFC 1123 host name: 1..MAX_NAME_LENGTH bytes, an optional final dot,
\* LDH labels of 1..MAX_LABEL_LENGTH bytes that neither start nor end with
\* a hyphen, and a final label that is not all digits.
RefHostName(b) ==
  LET ls == Labels(b)
      named == IF Len(ls) > 1 /\ Last(ls) = <<>> THEN Front(ls) ELSE ls
  IN /\ Len(b) \in 1..MAX_NAME_LENGTH
     /\ \A i \in 1..Len(named) :
          LET l == named[i] IN
          /\ Len(l) \in 1..MAX_LABEL_LENGTH
          /\ \A k \in 1..Len(l) : l[k] \in LDH
          /\ l[1] # 45 /\ Last(l) # 45
     /\ \E k \in 1..Len(Last(named)) : Last(named)[k] \notin Digits

\* RFC 3261 quoted-string contents: qdtext (LWS, '!', %x23-5B, %x5D-7E and
\* UTF8-NONASCII) or quoted-pair ("\" and %x00-09 / %x0B-0C / %x0E-7F),
\* where LWS is [CRLF] followed by a space or tab.  Spec section 4.7 says
\* the pair also takes a non-ASCII character; RFC 3261 and the code do not.
RefQdText(c) == c \in {9, 32, 33} \/ c \in 35..91 \/ c \in 93..126 \/ c >= 128
RefPairChar(c) == c \in 0..9 \cup 11..12 \cup 14..127

RECURSIVE RefQuoted(_)
RefQuoted(s) ==
  \/ s = <<>>
  \/ RefQdText(s[1]) /\ RefQuoted(Tail(s))
  \/ /\ Len(s) >= 3 /\ s[1] = 13 /\ s[2] = 10 /\ s[3] \in {9, 32}
     /\ RefQuoted(SubSeq(s, 4, Len(s)))
  \/ Len(s) >= 2 /\ s[1] = 92 /\ RefPairChar(s[2]) /\ RefQuoted(SubSeq(s, 3, Len(s)))

\* What a policy admits: valid UTF-8, a host name or at most MAX_CHARS
\* characters, quoted-string contents, OpaqueString characters.
RefValid(p, b) ==
  LET d == FromUtf8(b) IN
  /\ d.ok
  /\ p.dns  => RefHostName(b)
  /\ ~p.dns => Len(d.chars) <= MAX_CHARS
  /\ p.quoted => RefQuoted(d.chars)
  /\ p.opaque => is_opaque_string(d.chars)

=============================================================================
