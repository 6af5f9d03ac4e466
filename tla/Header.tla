-------------------------------- MODULE Header --------------------------------
(***************************************************************************)
(* The STUN header of stunparse (src/header, src/lib.rs) as operators:     *)
(* the class and method bit scatter of the 16-bit message type, and        *)
(* Header::decode / Header::encode on a wire header, a record of the       *)
(* message type and length (u16), the cookie (u32) and the transaction id  *)
(* (opaque, copied verbatim).  A decoded header is a record whose status   *)
(* is "ok", or a record carrying only the error as its status.             *)
(***************************************************************************)
EXTENDS Integers, Bitwise

MAGIC_COOKIE == 554869826   \* 0x2112A442, lib.rs

ShiftR(x, k) == x \div (2 ^ k)
ShiftL(x, k) == x * (2 ^ k)

(***************************************************************************)
(* Class::from_msg_type: bits 4 and 8 of the type, as a 2-bit index, and  *)
(* Class::into_msg_type: the index scattered back.                         *)
(***************************************************************************)
ClassOf == <<"Request", "Indication", "SuccessResponse", "ErrorResponse">>

ClassFromMsgTypeBit9(t) ==     \* wrong: C1 taken from bit 9
    ClassOf[((ShiftR(t, 4) & 1) | (ShiftR(t, 8) & 2)) + 1]

ClassFromMsgType(t) ==
    ClassOf[((ShiftR(t, 4) & 1) | (ShiftR(t, 7) & 2)) + 1]

ClassIntoMsgType(c) ==
    [Request |-> 0, Indication |-> 16, SuccessResponse |-> 256, ErrorResponse |-> 272][c]

(***************************************************************************)
(* Method::from_msg_type gathers the 12 method bits from three groups of   *)
(* the type; Method::into_msg_type scatters them back.                     *)
(***************************************************************************)
MethodFromMsgType(t) ==
    (t & 15) | (ShiftR(t, 1) & 112) | (ShiftR(t, 2) & 3968)

MethodIntoMsgTypeShiftOne(m) ==     \* wrong: M7-M11 shifted by one
    (m & 15) | ShiftL(m & 112, 1) | ShiftL(m & 3968, 1)

MethodIntoMsgType(m) ==
    (m & 15) | ShiftL(m & 112, 1) | ShiftL(m & 3968, 2)

(* Header::msg_type: method bits | class bits.                            *)
MsgType(h) == MethodIntoMsgType(h.method) | ClassIntoMsgType(h.class)

(***************************************************************************)
(* Header::decode: class and method are taken from the type, then the two *)
(* most significant bits are checked, then the length's parity.  The       *)
(* cookie and transaction id are copied without a check.                   *)
(***************************************************************************)
DecodeNoParity(w) ==     \* wrong: the length's parity is not checked
    IF w.mtype > 16383 THEN [status |-> "msb_not_zero"]
    ELSE [status |-> "ok",
          class |-> ClassFromMsgType(w.mtype), method |-> MethodFromMsgType(w.mtype),
          length |-> w.length, magic_cookie |-> w.cookie, transaction_id |-> w.tid]

Decode(w) ==
    IF w.mtype > 16383 THEN [status |-> "msb_not_zero"]
    ELSE IF w.length % 4 # 0 THEN [status |-> "invalid_len"]
    ELSE [status |-> "ok",
          class |-> ClassFromMsgType(w.mtype), method |-> MethodFromMsgType(w.mtype),
          length |-> w.length, magic_cookie |-> w.cookie, transaction_id |-> w.tid]

(* Header::encode: type, length, cookie and transaction id, in order.     *)
Encode(h) ==
    [mtype |-> MsgType(h), length |-> h.length, cookie |-> h.magic_cookie,
     tid |-> h.transaction_id]

IsHeader(d) == d.status = "ok"

(* Header::new(class, method, length, transaction_id): the magic cookie  *)
(* is always MAGIC_COOKIE, the length is taken as given.                  *)
NewHeader(class, method, length, tid) ==
    [status |-> "ok", class |-> class, method |-> method, length |-> length,
     magic_cookie |-> MAGIC_COOKIE, transaction_id |-> tid]

(* Header::is_rfc3489: the cookie is not the RFC 5389 constant.          *)
IsRfc3489(h) == h.magic_cookie # MAGIC_COOKIE

=============================================================================
