---------------------------- MODULE ErrorTaxonomy ----------------------------
(***************************************************************************)
(* The error kinds of stunparse (src/error.rs) and the kind each error of  *)
(* the encode path declares.  Every error type is made by new_error!,      *)
(* whose third form wraps it with wrap_error!: error_kind() returns the    *)
(* StunErrorKind named in the declaration, and that kind is all a caller   *)
(* sees of the error (spec 5: the caller decides from it whether to retry  *)
(* with more buffer, skip the attribute or abort the message).            *)
(*                                                                         *)
(* An error is named as the codec modules name it: the framing and        *)
(* password errors in snake case, the text errors by their Rust type.     *)
(***************************************************************************)
EXTENDS TLC

(* enum StunErrorKind.                                                    *)
StunErrorKind ==
    {"InvalidParameter", "ValidationFailed", "ValueTooLong",
     "BufferTooSmall", "TooManyAttributes", "MagicCookie"}

(* attribute/mod.rs: the errors of ensure_space and UnknownAttribute::new. *)
FramingErrorKind ==
       "type_len_too_big" :> "BufferTooSmall"     \* TypeLenTooBig
    @@ "value_too_small"  :> "BufferTooSmall"     \* BufferTooSmallForValue
    @@ "value_too_long"   :> "ValueTooLong"       \* ValueTooLong

(* string/error.rs: from_utf8 failures and the length checks.             *)
StringErrorKind ==
    "Utf8Error" :> "InvalidParameter" @@ "StringTooLong" :> "ValueTooLong"

(* string/validated.rs: the quoted-text and OpaqueString predicates.      *)
QuotedOpaqueErrorKind ==
    "StringNotQuoted" :> "InvalidParameter" @@ "StringNotOPaque" :> "InvalidParameter"

(* string/dns.rs: validate_domain_name.                                   *)
DnsErrorKind == "InvalidDnsName" :> "InvalidParameter"

(* addr.rs: the parts of an address TLV that do not fit, and the family. *)
AddrErrorKind ==
       "header_too_big"  :> "BufferTooSmall"      \* HeaderTooBig
    @@ "ip_len_mismatch" :> "BufferTooSmall"      \* IpLenMismatch
    @@ "invalid_family"  :> "InvalidParameter"    \* InvalidFamily

(* password.rs: the loop of PasswordAlgorithms::encode not using up its   *)
(* value, and PasswordAlgorithm::encode refusing long parameters.         *)
PassAlgoLenMismatchKind == "pass_algo_len_mismatch" :> "InvalidParameter"

ParamsTooLongKind == "params_too_long" :> "ValueTooLong"

(* error_kind() of a StunError built from any of these.                   *)
ErrorKindOf(e) ==
    (FramingErrorKind @@ StringErrorKind @@ QuotedOpaqueErrorKind @@ DnsErrorKind
     @@ AddrErrorKind @@ PassAlgoLenMismatchKind @@ ParamsTooLongKind)[e]

=============================================================================
