-------------------------- MODULE RawAttributeScan --------------------------
(***************************************************************************)
(* The TLV attribute scanner of stunparse (src/parse/attribute.rs):        *)
(* RawAttribute::parse_inner walking an attribute buffer into a caller's   *)
(* container, and the three Container implementations that drive it:     *)
(*   "array"    [MaybeUninit<RawAttribute>; N]  (parse_uninit)             *)
(*   "heapless" heapless::Vec<RawAttribute, N>  (parse_uninit on all N     *)
(*              slots, then set_len on success)                            *)
(*   "vec"      alloc::vec::Vec<RawAttribute>   (truncate, scan into spare *)
(*              capacity, reserve(1) and resume when full)                 *)
(* One loop iteration of parse_inner is one step; a parse call runs from   *)
(* Parse to a return (Done, AttributeTooBig, Full) or to a panic.          *)
(***************************************************************************)
EXTENDS Integers, Sequences, SequencesExt, Framing

CONSTANTS
    Types,      \* attribute type codepoints (model values)
    Lens,       \* declared value lengths a header may carry
    MaxWords,   \* bound on the buffer length, in 4-byte words
    Tails,      \* trailing bytes after the last word (0..3)
    Kinds,      \* containers a caller may hold: "array", "heapless", "vec"
    N,          \* slot count of the array and heapless containers
    InitCaps,   \* capacities a caller's Vec may start with
    Uninit      \* a slot never written

ASSUME Kinds \subseteq {"array", "heapless", "vec"}
ASSUME Tails \subseteq 0..3 /\ N \in Nat /\ InitCaps \subseteq Nat

Headers == [attr : Types, len : Lens]
Buffers == {[words |-> w, tail |-> t] : w \in BoundedSeq(Headers, MaxWords), t \in Tails}

VARIABLES
    kind,      \* the caller's container type, fixed for the behaviour
    pc,        \* "idle", "scan" (inside parse), "panicked"
    buf,       \* the src of the current or last call
    cursor,    \* bytes of src consumed so far (*src in parse_inner)
    slots,     \* the container's storage; Len(slots) is its capacity
    len,       \* the Vec / heapless::Vec length field
    written,   \* slots taken from parse_inner's iterator in this pass
    view,      \* what the caller holds when the call returns
    outcome    \* "none", "ok", "too_big", "too_many", "panic"

vars == <<kind, pc, buf, cursor, slots, len, written, view, outcome>>

C == INSTANCE ScanContract

BufLen(b) == C!BufLen(b)

(* struct RawAttribute { attr, len, off, pad } *)
RawAttribute == [attr : Types, len : Lens, off : 0..(U16 - 1), pad : 0..MAX_PADDING_LEN]

(* parse_inner's iterator starts at the Vec's spare capacity, and at slot *)
(* 1 for the array and the heapless Vec (parse_uninit over all N slots).  *)
Base == IF kind = "vec" THEN len ELSE 0

FreeSlotsOffByOne == Len(slots) - Base - written - 1     \* wrong: one slot short

FreeSlots == Len(slots) - Base - written

Remaining == BufLen(buf) - cursor

(* RawAttribute::decode_type_length of the 4 bytes at the cursor.         *)
DecodeTypeLength(b, pos) == b.words[pos \div TL_LEN + 1]

(* Vec::reserve(1) on a full Vec: RawVec grows to max(2 * cap, cap + 1,   *)
(* 4), 4 being the minimum non-zero capacity for 8-byte elements.         *)
ReservedCapUnchanged(cap) == cap     \* wrong: a reserve that does not grow

ReservedCap(cap) == Max({2 * cap, cap + 1, 4})

(***************************************************************************)
(* What the caller holds when parse returns.  Ok: the slice of the slots   *)
(* written (array), or the container's contents after set_len.  Err: the  *)
(* array hands back nothing; the Vec kinds still hold slots[1..len].       *)
(* On AttributeTooBig the Vec's set_len(capacity - iter.len()) also       *)
(* counts the slot attrs.next() took before the fit check and never       *)
(* wrote; the heapless Vec's `?` returns before set_len, so its length is *)
(* the one the previous call left.                                         *)
(***************************************************************************)
LenOnOk == CASE kind = "vec"      -> Base + written
             [] kind = "heapless" -> written
             [] kind = "array"    -> len

LenOnErr == IF kind = "vec" THEN Base + written + 1 ELSE len

ViewOf(l, ok) == IF kind = "array" /\ ~ok THEN <<>>
                 ELSE SubSeq(slots, 1, IF kind = "array" THEN written ELSE l)

Init ==
    /\ kind \in Kinds
    /\ pc = "idle"
    /\ buf = C!EmptyBuffer
    /\ cursor = 0
    /\ slots \in {[i \in 1..cap |-> Uninit] : cap \in IF kind = "vec" THEN InitCaps ELSE {N}}
    /\ len = 0
    /\ written = 0
    /\ view = <<>>
    /\ outcome = "none"

ParseNoTruncate(b) ==     \* wrong: the Vec keeps the records of the last call
    /\ pc = "idle"
    /\ pc' = "scan"
    /\ buf' = b
    /\ cursor' = 0
    /\ written' = 0
    /\ UNCHANGED <<kind, len, slots, view, outcome>>

(* Container::parse(src): the Vec truncates itself first.                 *)
Parse(b) ==
    /\ pc = "idle"
    /\ pc' = "scan"
    /\ buf' = b
    /\ cursor' = 0
    /\ written' = 0
    /\ len' = IF kind = "vec" THEN 0 ELSE len
    /\ UNCHANGED <<kind, slots, view, outcome>>

(* Wrong variants of the loop body: the fit check ignores the padding,   *)
(* counts the header's own 4 bytes as room for the value, or the offset  *)
(* is taken before the header is split off.                              *)
ScanAttributeWith(fits(_, _), offset) ==
    /\ pc = "scan"
    /\ Remaining >= TL_LEN
    /\ FreeSlots > 0
    /\ LET h   == DecodeTypeLength(buf, cursor)
           pad == Padding(h.len)
       IN /\ ~PaddingPanics(h.len)
          /\ fits(h.len, pad)
          /\ slots' = [slots EXCEPT ![Base + written + 1] =
                         [attr |-> h.attr, len |-> h.len, off |-> offset % U16, pad |-> pad]]
          /\ cursor' = cursor + TL_LEN + h.len + pad
          /\ written' = written + 1
    /\ UNCHANGED <<kind, pc, buf, len, view, outcome>>

ScanAttributeFitBeforeHeader ==
    LET fits(l, p) == l + p <= Remaining
    IN ScanAttributeWith(fits, cursor + TL_LEN)

ScanAttributeOffAtHeader ==
    LET fits(l, p) == l + p <= Remaining - TL_LEN
    IN ScanAttributeWith(fits, cursor)

(* Loop body: a free slot, a header whose value and padding fit: the      *)
(* record is written and the cursor moves past value and padding.         *)
ScanAttribute ==
    /\ pc = "scan"
    /\ Remaining >= TL_LEN
    /\ FreeSlots > 0
    /\ LET h   == DecodeTypeLength(buf, cursor)
           pad == Padding(h.len)
       IN /\ ~PaddingPanics(h.len)
          /\ h.len + pad <= Remaining - TL_LEN
          /\ slots' = [slots EXCEPT ![Base + written + 1] =
                         [attr |-> h.attr, len |-> h.len,
                          off |-> (cursor + TL_LEN) % U16, pad |-> pad]]
          /\ cursor' = cursor + TL_LEN + h.len + pad
          /\ written' = written + 1
    /\ UNCHANGED <<kind, pc, buf, len, view, outcome>>

(* Loop body: the value does not fit; AttributeTooBig carries the length  *)
(* as a NonZeroU16 (try_into().unwrap(), a panic for a zero length).      *)
AttributeTooBig ==
    /\ pc = "scan"
    /\ Remaining >= TL_LEN
    /\ FreeSlots > 0
    /\ LET h == DecodeTypeLength(buf, cursor)
       IN /\ ~PaddingPanics(h.len)
          /\ h.len + Padding(h.len) > Remaining - TL_LEN
          /\ outcome' = IF h.len = 0 THEN "panic" ELSE "too_big"
    /\ pc' = "idle"
    /\ len' = LenOnErr
    /\ view' = ViewOf(LenOnErr, FALSE)
    /\ UNCHANGED <<kind, buf, cursor, slots, written>>

(* Loop body: padding(len) negates len as an i16; with overflow checks    *)
(* on, -(i16::MIN) for len = 0x8000 panics.                               *)
PaddingOverflow ==
    /\ pc = "scan"
    /\ Remaining >= TL_LEN
    /\ FreeSlots > 0
    /\ PaddingPanics(DecodeTypeLength(buf, cursor).len)
    /\ pc' = "panicked"
    /\ outcome' = "panic"
    /\ UNCHANGED <<kind, buf, cursor, slots, len, written, view>>

(* attrs.next() is None: ParseError::Full.  The array and the heapless    *)
(* Vec return TooManyAttributes; the Vec sets its length, reserves one    *)
(* more slot and calls parse_inner again from the same cursor.            *)
Full ==
    /\ pc = "scan"
    /\ Remaining >= TL_LEN
    /\ FreeSlots = 0
    /\ kind # "vec"
    /\ pc' = "idle"
    /\ outcome' = "too_many"
    /\ view' = ViewOf(len, FALSE)
    /\ UNCHANGED <<kind, buf, cursor, slots, len, written>>

VecReserve ==
    /\ pc = "scan"
    /\ Remaining >= TL_LEN
    /\ FreeSlots = 0
    /\ kind = "vec"
    /\ len' = Base + written
    /\ written' = 0
    /\ slots' = slots \o [i \in 1..(ReservedCap(Len(slots)) - Len(slots)) |-> Uninit]
    /\ UNCHANGED <<kind, pc, buf, cursor, view, outcome>>

(* Fewer than TL_LEN bytes left: the loop ends and parse returns Ok.      *)
Done ==
    /\ pc = "scan"
    /\ Remaining < TL_LEN
    /\ pc' = "idle"
    /\ outcome' = "ok"
    /\ len' = LenOnOk
    /\ view' = ViewOf(LenOnOk, TRUE)
    /\ UNCHANGED <<kind, buf, cursor, slots, written>>

Scan == ScanAttribute \/ AttributeTooBig \/ PaddingOverflow \/ Full \/ VecReserve \/ Done

Next == (\E b \in Buffers : Parse(b)) \/ Scan

(* A call in progress keeps running: parse is a plain loop on one thread. *)
Spec == Init /\ [][Next]_vars /\ WF_vars(Scan)

-----------------------------------------------------------------------------

TypeOK ==
    /\ kind \in Kinds
    /\ pc \in {"idle", "scan", "panicked"}
    /\ buf \in Buffers \cup {C!EmptyBuffer}
    /\ cursor \in 0..BufLen(buf)
    /\ slots \in Seq(RawAttribute \cup {Uninit})
    /\ len \in 0..Len(slots)
    /\ written \in 0..Len(slots)
    /\ view \in Seq(RawAttribute \cup {Uninit})
    /\ outcome \in {"none", "ok", "too_big", "too_many", "panic"}

(***************************************************************************)
(* The records a successful parse hands back are slots it wrote, and     *)
(* they tile the buffer: the first value starts after one header, each    *)
(* next header follows the previous value and its padding, every value    *)
(* and padding lies inside src, and what is left is shorter than a        *)
(* header.  MessageParser's convert() relies on exactly this when it      *)
(* slices src with get_unchecked.                                          *)
(***************************************************************************)
End(r) == r.off + r.len + r.pad

RecordsInBounds ==
    (pc = "idle" /\ outcome = "ok") =>
        /\ \A i \in 1..Len(view) :
              /\ view[i] # Uninit
              /\ view[i].off = (IF i = 1 THEN TL_LEN ELSE End(view[i - 1]) + TL_LEN)
              /\ End(view[i]) <= BufLen(buf)
              /\ (view[i].len + view[i].pad) % 4 = 0
        /\ BufLen(buf) - (IF view = <<>> THEN 0 ELSE End(view[Len(view)])) < TL_LEN

(***************************************************************************)
(* After any call returns, whatever the caller holds describes the buffer  *)
(* of that call: it is a prefix of that buffer's records.  The spec says   *)
(* the container is reset at the start of each parse; records left over   *)
(* from an earlier buffer would carry offsets into a buffer that is gone. *)
(***************************************************************************)
ViewIsPrefixOfScan ==
    pc = "idle" => view \in Prefixes(C!Reference(buf).recs)

(***************************************************************************)
(* Every call that returns reports what the spec's walk of its buffer     *)
(* says: Ok when all records fit, AttributeTooBig at the first header     *)
(* whose value and padding overrun src, TooManyAttributes once a fixed   *)
(* container needs slot N+1, and never TooManyAttributes from the Vec.    *)
(* The order of the two checks in parse_inner (slot first, fit second)   *)
(* and the Vec's resume after reserve decide which error a buffer gets.   *)
(***************************************************************************)
OutcomeAsContract ==
    (pc = "idle" /\ outcome \in {"ok", "too_big", "too_many"}) =>
        outcome = C!Expected(buf)

(***************************************************************************)
(* Every parse call returns or panics: the Vec's reserve-and-resume loop  *)
(* ends only because each reserve(1) adds capacity.                        *)
(***************************************************************************)
ParseReturns == (pc = "scan") ~> (pc # "scan")

(* Malformed input never panics the scanner (spec 7).                     *)
NoPanic == outcome # "panic"

(***************************************************************************)
(* Refinement: every parse call behaves as ScanContract says, with the    *)
(* intermediate loop steps hidden, and every call returns.  The Vec does  *)
(* not: after AttributeTooBig its length covers the slot taken and never  *)
(* written.                                                                *)
(***************************************************************************)
Contract == INSTANCE ScanContract WITH
    pc <- IF pc = "idle" THEN "idle" ELSE "busy"

ContractRefinement == Contract!Spec

=============================================================================
