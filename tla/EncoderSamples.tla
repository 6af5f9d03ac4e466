--------------------------- MODULE EncoderSamples ---------------------------
(***************************************************************************)
(* Attribute values for the encoder runs.  One value of each kind, small   *)
(* enough that several fit back to back in a 24-byte buffer and every kind *)
(* also meets a rest too small for it; the wide set adds the 24-byte IPv6 *)
(* address and the 20-byte MESSAGE-INTEGRITY.  The transaction id and the  *)
(* addresses are those of RFC 5769 sections 2.2 and 2.3.  The text values *)
(* are a REALM "\u{e9}" of two UTF-8 bytes, an ALTERNATE-DOMAIN "a.b" and *)
(* a NONCE "\"" that the quoted-text check refuses.                       *)
(***************************************************************************)
EXTENDS AttributeCodec


MCTid == <<183, 231, 167, 1, 188, 52, 214, 134, 250, 135, 223, 174>>

V4Xor == [kind |-> "addr", type |-> XOR_MAPPED_ADDRESS, family |-> FAMILY_IPV4,
          port |-> 32853, ip |-> <<192, 0, 2, 1>>]
V6Xor == [kind |-> "addr", type |-> XOR_MAPPED_ADDRESS, family |-> FAMILY_IPV6,
          port |-> 32853,
          ip |-> <<32, 1, 13, 184, 18, 52, 86, 120, 0, 17, 34, 51, 68, 85, 102, 119>>]

MCAttrs ==
    { [kind |-> "int", type |-> PRIORITY, value |-> 1845494271],
      [kind |-> "int", type |-> ICE_CONTROLLED, value |-> 258],
      [kind |-> "change_request", type |-> CHANGE_REQUEST, ip |-> TRUE, port |-> FALSE],
      [kind |-> "data", type |-> DATA, value |-> <<1, 2, 3>>],
      [kind |-> "data", type |-> DATA, value |-> <<>>],
      [kind |-> "unknown", type |-> 49152, value |-> <<7>>],
      [kind |-> "unknown_attributes", type |-> UNKNOWN_ATTRIBUTES, types |-> <<1, 32>>],
      [kind |-> "error_code", type |-> ERROR_CODE, family |-> 0, code |-> 420,
       reason |-> <<66, 97, 100>>],
      [kind |-> "error_code", type |-> ADDRESS_ERROR_CODE, family |-> FAMILY_IPV6,
       code |-> 440, reason |-> <<>>],
      [kind |-> "password_algorithm", type |-> PASSWORD_ALGORITHM, alg |-> 2, params |-> <<9>>],
      [kind |-> "password_algorithms", type |-> PASSWORD_ALGORITHMS, algs |-> <<>>],
      [kind |-> "family", type |-> 23, family |-> FAMILY_IPV6],
      [kind |-> "addr", type |-> MAPPED_ADDRESS, family |-> FAMILY_IPV4,
       port |-> 3478, ip |-> <<10, 0, 0, 1>>],
      V4Xor,
      [kind |-> "text", type |-> REALM, value |-> <<233>>],
      [kind |-> "text", type |-> ALTERNATE_DOMAIN, value |-> <<97, 46, 98>>],
      [kind |-> "text", type |-> NONCE, value |-> <<34>>] }

MCAttrsWide ==
    { V6Xor, V4Xor,
      [kind |-> "fixed", type |-> MESSAGE_INTEGRITY, value |-> [i \in 1..20 |-> i]],
      [kind |-> "data", type |-> DATA, value |-> <<>>],
      [kind |-> "data", type |-> DATA, value |-> <<1, 2, 3>>] }

MCAttrsAll == MCAttrs \cup MCAttrsWide

(* The attribute kinds whose decode or encode disagree with the contract. *)
MCAttrsEmpty == { [kind |-> "empty", type |-> DONT_FRAGMENT] }
MCAttrsClass6 == { [kind |-> "error_code", type |-> ERROR_CODE, family |-> 0, code |-> 600,
                    reason |-> <<>>] }
MCAttrsAlgs == { [kind |-> "password_algorithms", type |-> PASSWORD_ALGORITHMS,
                  algs |-> <<[alg |-> 1, params |-> <<>>]>>] }

(* A DATA value one byte longer than u16::MAX; Data::new takes any slice. *)
MCAttrsLongData == { [kind |-> "data", type |-> DATA, value |-> [i \in 1..(U16 + 1) |-> 7]] }

(***************************************************************************)
(* The XOR-MAPPED-ADDRESS attributes of RFC 5769 sections 2.2 and 2.3      *)
(* (src/test_data.rs): a buffer that starts with one of these addresses    *)
(* starts with exactly the sample's 12 or 24 attribute bytes.              *)
(***************************************************************************)
RfcBytes(a) ==
    IF a = V4Xor
    THEN <<0, 32, 0, 8, 0, 1, 161, 71, 225, 18, 166, 67>>
    ELSE <<0, 32, 0, 20, 0, 2, 161, 71, 1, 19, 169, 250, 165, 211, 241, 121,
           188, 37, 244, 181, 190, 210, 185, 217>>

=============================================================================
