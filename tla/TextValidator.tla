---------------------------- MODULE TextValidator ----------------------------
(***************************************************************************)
(* The three ways a Validated<&str, D, Q, O> comes into being, applied to  *)
(* one input: the decode of a text attribute's value bytes                *)
(* (TryFrom<&[u8]>, text_attr.rs decode), the re-validation of a &str at  *)
(* encode time (text_attr.rs validate, the try_from! impls), and the      *)
(* compile-time const_try_from.  The policy and the bytes are chosen in   *)
(* Init; each call may happen any number of times, in any order.          *)
(***************************************************************************)
EXTENDS TextValidation

CONSTANT Inputs      \* byte strings, some of them not UTF-8

ASSUME Inputs \subseteq Seq(0..255)

VARIABLES pol, input, decoded, validated, constValidated
\* decoded, validated and constValidated are "none" until that call is made.

vars == <<pol, input, decoded, validated, constValidated>>

\* The errors each entry point can return: TryFrom<&[u8]> returns a
\* StunError built from the dns, length, utf8 and policy errors, the &str
\* impls cannot meet invalid UTF-8, and const_try_from has its own enum
\* of StringTooLongConst, StringNotQuoted, StringNotOPaque, InvalidDnsName.
PolicyErrors == {"InvalidDnsName", "StringNotQuoted", "StringNotOPaque"}
DecodeStatuses == {"ok", "StringTooLong", "Utf8Error"} \cup PolicyErrors
StrStatuses == {"ok", "StringTooLong"} \cup PolicyErrors
ConstStatuses == {"ok", "StringTooLongConst"} \cup PolicyErrors

\* The &str whose bytes are the input, when there is one.
Str == FromUtf8(input).chars

Init ==
  /\ pol \in Policies
  /\ input \in Inputs
  /\ decoded = "none"
  /\ validated = "none"
  /\ constValidated = "none"

\* Validated::try_from(&[u8]) on the attribute's value bytes.
DecodeText ==
  /\ decoded' = TryFromBytes(pol, input).status
  /\ UNCHANGED <<pol, input, validated, constValidated>>

\* Validated::try_from(&str) on the string with these bytes.
ValidateText ==
  /\ FromUtf8(input).ok
  /\ validated' = TryFromStr(pol, Str)
  /\ UNCHANGED <<pol, input, decoded, constValidated>>

\* Validated::const_try_from on the same string.
ConstValidate ==
  /\ FromUtf8(input).ok
  /\ constValidated' = const_try_from(pol, Str)
  /\ UNCHANGED <<pol, input, decoded, validated>>

Next == DecodeText \/ ValidateText \/ ConstValidate

Spec == Init /\ [][Next]_vars

TypeOK ==
  /\ pol \in Policies
  /\ input \in Inputs
  /\ decoded \in DecodeStatuses \cup {"none"}
  /\ validated \in StrStatuses \cup {"none"}
  /\ constValidated \in ConstStatuses \cup {"none"}

(***************************************************************************)
(* Decoding the bytes of a text attribute accepts exactly what the policy *)
(* admits by the grammars: UTF-8, an RFC 1123 host name or at most        *)
(* MAX_CHARS characters, RFC 3261 quoted-string contents, OpaqueString    *)
(* characters (validate_domain_name, validate_str_bytes, is_quoted_text). *)
(***************************************************************************)
DecodeMatchesGrammar ==
  decoded # "none" => (decoded = "ok" <=> RefValid(pol, input))

(***************************************************************************)
(* A string that passes the encode-time check (validate_str_len, by byte  *)
(* length then by char count) is written as its UTF-8 bytes, and those    *)
(* bytes pass the decode-time check (validate_str_bytes), and conversely: *)
(* a text attribute the encoder accepts is one the decoder accepts.       *)
(***************************************************************************)
EncodeDecodeAgree ==
  decoded # "none" /\ validated # "none" =>
    (decoded = "ok" <=> validated = "ok")

(***************************************************************************)
(* const_try_from never admits a string the runtime check rejects, and on *)
(* ASCII strings the two agree: is_quoted_text_ascii and                  *)
(* is_opaque_string_ascii are the ASCII cases of the full predicates and  *)
(* the byte bound equals the char bound.                                  *)
(***************************************************************************)
ConstAgreesWithRuntime ==
  constValidated # "none" /\ validated # "none" =>
    /\ constValidated = "ok" => validated = "ok"
    /\ IsAscii(input) => (constValidated = "ok" <=> validated = "ok")
=============================================================================
