---------------------------- MODULE ScanContract ----------------------------
(***************************************************************************)
(* What a Container::parse call promises (spec 4.3, "Container policy"),   *)
(* as an abstract specification: a call takes an attribute buffer, and     *)
(* when it returns the caller holds either all the TLV records of that     *)
(* buffer, in wire order, or an error and at most a prefix of them.        *)
(*                                                                         *)
(* The records are defined here by a reference walk written from the spec  *)
(* (padding is (4 - len mod 4) mod 4, spec 3), not from the code.          *)
(* RawAttributeScan is shown to implement this specification.              *)
(***************************************************************************)
EXTENDS Integers, Sequences, SequencesExt

CONSTANTS
    Buffers,   \* the attribute buffers a caller may pass
    Kinds,     \* the containers: "array", "heapless" or "vec"
    N          \* slot count of a fixed-capacity container

VARIABLES
    kind,      \* the caller's container, fixed for the behaviour
    pc, buf, view, outcome

vars == <<kind, pc, buf, view, outcome>>

(* A buffer is a sequence of 4-byte words, each read as a type-length     *)
(* header when the scan lands on it, followed by a tail of 0..3 bytes.    *)
BufLen(b) == 4 * Len(b.words) + b.tail

EmptyBuffer == [words |-> <<>>, tail |-> 0]

SpecPadding(len) == (4 - (len % 4)) % 4

(***************************************************************************)
(* The reference walk: from byte position pos, while 4 bytes remain, read  *)
(* a header; its value and padding must fit in the rest of the buffer.     *)
(***************************************************************************)
RECURSIVE Walk(_, _, _)
Walk(b, pos, recs) ==
    IF BufLen(b) - pos < 4
    THEN [recs |-> recs, status |-> "ok"]
    ELSE LET h   == b.words[pos \div 4 + 1]
             off == pos + 4
             end == off + h.len + SpecPadding(h.len)
         IN IF end > BufLen(b)
            THEN [recs |-> recs, status |-> "too_big"]
            ELSE Walk(b, end, Append(recs, [attr |-> h.attr, len |-> h.len,
                                            off |-> off, pad |-> SpecPadding(h.len)]))

Reference(b) == Walk(b, 0, <<>>)

(* Headers the walk reads: one per record, plus the one that did not fit. *)
HeadersRead(r) == Len(r.recs) + (IF r.status = "too_big" THEN 1 ELSE 0)

(* A fixed-capacity container fails once it needs an (N+1)-th slot; a     *)
(* growable one never runs out (spec 8, "Bounded containers").            *)
Expected(b) ==
    LET r == Reference(b)
    IN IF kind # "vec" /\ HeadersRead(r) > N THEN "too_many" ELSE r.status

Init ==
    /\ kind \in Kinds
    /\ pc = "idle"
    /\ buf = EmptyBuffer
    /\ view = <<>>
    /\ outcome = "none"

Call(b) ==
    /\ pc = "idle"
    /\ pc' = "busy"
    /\ buf' = b
    /\ UNCHANGED <<kind, view, outcome>>

(* On success the caller holds every record; on an error, a fixed array   *)
(* hands back nothing and a vector holds at most what was scanned.        *)
Return ==
    /\ pc = "busy"
    /\ pc' = "idle"
    /\ outcome' = Expected(buf)
    /\ view' \in IF Expected(buf) = "ok" THEN {Reference(buf).recs}
                 ELSE IF kind = "array" THEN {<<>>}
                 ELSE Prefixes(Reference(buf).recs)
    /\ UNCHANGED <<kind, buf>>

Next == (\E b \in Buffers : Call(b)) \/ Return

(* Every call returns: the scan is a terminating loop.                    *)
Spec == Init /\ [][Next]_vars /\ WF_vars(Return)

=============================================================================
