----------------------------- MODULE AddressCodec -----------------------------
(***************************************************************************)
(* The address attributes of stunparse (src/attribute/addr.rs) as          *)
(* operators over byte sequences: the 4-byte address header (reserved      *)
(* byte, family, port), the XOR obfuscation of the XOR-*-ADDRESS kinds,    *)
(* and encode / decode of a whole address attribute.  An address value is  *)
(* [kind |-> "addr", type, family, port, ip]: family is the SocketAddr     *)
(* variant (FAMILY_IPV4 or FAMILY_IPV6), ip its octets.                    *)
(***************************************************************************)
EXTENDS Integers, Sequences, Bitwise, Framing, Header

ADDR_HEADER_LEN == 4        \* addr.rs HEADER_LEN
FAMILY_IPV4 == 1
FAMILY_IPV6 == 2
IPV4_LEN == 4
IPV6_LEN == 16

MAGIC_COOKIE_BYTES == BE(MAGIC_COOKIE, 4)

(* Codepoints of the address kinds; the XOR'd ones take the tid.          *)
MAPPED_ADDRESS == 1
XOR_PEER_ADDRESS == 18
XOR_RELAYED_ADDRESS == 22
XOR_MAPPED_ADDRESS == 32
ALTERNATE_SERVER == 32803
XorTypes == {XOR_PEER_ADDRESS, XOR_RELAYED_ADDRESS, XOR_MAPPED_ADDRESS}

IpLen(family) == IF family = FAMILY_IPV4 THEN IPV4_LEN ELSE IPV6_LEN

(***************************************************************************)
(* OptXor for &TransactionId: the port with the upper 16 bits of the       *)
(* cookie; an IPv4 address with MAGIC_COOKIE_BYTES; an IPv6 address with   *)
(* MAGIC_COOKIE_BYTES then the 12 transaction-id bytes.  For () it is the  *)
(* identity.                                                               *)
(***************************************************************************)
XorPort(xor, port) == IF xor THEN port ^^ ShiftR(MAGIC_COOKIE, 16) ELSE port

XorIpTidFirst(xor, ip, tid) ==     \* wrong: key is tid then cookie
    LET key == tid \o MAGIC_COOKIE_BYTES \o MAGIC_COOKIE_BYTES
    IN IF xor THEN [i \in 1..Len(ip) |-> ip[i] ^^ key[i]] ELSE ip

XorIp(xor, ip, tid) ==
    LET key == MAGIC_COOKIE_BYTES \o tid
    IN IF xor THEN [i \in 1..Len(ip) |-> ip[i] ^^ key[i]] ELSE ip

(* from_family / into_family: the family byte of an AddressFamily.        *)
IntoFamily(f) == IF f \in {FAMILY_IPV4, FAMILY_IPV6} THEN "ok" ELSE "invalid_family"

(* encode's cold error(): which part of the TLV does not fit.             *)
AddrEncodeError(dstLen) ==
    IF dstLen < TL_LEN THEN "type_len_too_big"
    ELSE IF dstLen < TL_LEN + ADDR_HEADER_LEN THEN "header_too_big"
    ELSE "ip_len_mismatch"

(***************************************************************************)
(* addr::encode: the whole TLV must fit; then the TL, encode_header (zero, *)
(* family, port after the XOR, BE) and the octets after the XOR.           *)
(***************************************************************************)
EncodeAddr(a, xor, tid, dstLen) ==
    LET valueLen == ADDR_HEADER_LEN + IpLen(a.family)
    IN IF dstLen < TL_LEN + valueLen
       THEN [status |-> AddrEncodeError(dstLen), w |-> <<>>]
       ELSE [status |-> "ok",
             w |-> EncodeTypeLength(a.type, valueLen) \o <<0, a.family>>
                   \o BE(XorPort(xor, a.port), 2) \o XorIp(xor, a.ip, tid)]

(***************************************************************************)
(* addr::decode: at least the 4-byte header, the family byte, then exactly *)
(* the family's address length; the reserved byte is not looked at.        *)
(***************************************************************************)
DecodeAddrOffByOne(t, src, xor, tid) ==     \* wrong: address taken from byte 4
    IF Len(src) < ADDR_HEADER_LEN THEN [status |-> "header_too_big"]
    ELSE LET f  == src[2]
             ip == SubSeq(src, ADDR_HEADER_LEN, Len(src))
         IN IF IntoFamily(f) # "ok" THEN [status |-> IntoFamily(f)]
            ELSE IF Len(ip) # IpLen(f) THEN [status |-> "ip_len_mismatch"]
            ELSE [status |-> "ok",
                  attr |-> [kind |-> "addr", type |-> t, family |-> f,
                            port |-> XorPort(xor, FromBE(SubSeq(src, 3, 4))),
                            ip |-> XorIp(xor, ip, tid)]]

DecodeAddr(t, src, xor, tid) ==
    IF Len(src) < ADDR_HEADER_LEN THEN [status |-> "header_too_big"]
    ELSE LET f  == src[2]
             ip == SubSeq(src, ADDR_HEADER_LEN + 1, Len(src))
         IN IF IntoFamily(f) # "ok" THEN [status |-> IntoFamily(f)]
            ELSE IF Len(ip) # IpLen(f) THEN [status |-> "ip_len_mismatch"]
            ELSE [status |-> "ok",
                  attr |-> [kind |-> "addr", type |-> t, family |-> f,
                            port |-> XorPort(xor, FromBE(SubSeq(src, 3, 4))),
                            ip |-> XorIp(xor, ip, tid)]]

(* decode_family: exactly 4 bytes, the family in the first.               *)
DecodeFamily(t, src) ==
    IF Len(src) # 4 THEN [status |-> "len_mismatch"]
    ELSE IF IntoFamily(src[1]) # "ok" THEN [status |-> IntoFamily(src[1])]
    ELSE [status |-> "ok", attr |-> [kind |-> "family", type |-> t, family |-> src[1]]]

=============================================================================
