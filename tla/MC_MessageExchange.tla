-------------------------- MODULE MC_MessageExchange --------------------------
(***************************************************************************)
(* Bounds for MessageExchange: the values and RFC 5769 transaction id of  *)
(* EncoderSamples, a Binding request, and a caller that parses into a     *)
(* fixed array of 6 slots (as many 4-byte attributes as fit in 24 bytes)  *)
(* or a Vec of capacity 1, which must grow while it scans.                *)
(***************************************************************************)
EXTENDS MessageExchange, EncoderSamples, TLC

MCKinds == {"array", "vec"}
MCN == 6
MCInitCaps == {1}

(***************************************************************************)
(* The address encoders reproduce RFC 5769: a buffer whose first encode   *)
(* was one of the sample XOR-MAPPED-ADDRESS values starts with exactly    *)
(* the sample's 12 or 24 attribute bytes (XOR with the cookie and, for    *)
(* IPv6, the transaction id).                                              *)
(***************************************************************************)
Rfc5769XorVectors ==
    (sent # <<>> /\ sent[1] \in {V4Xor, V6Xor}) =>
        SubSeq(buf, 1, Len(RfcBytes(sent[1]))) = RfcBytes(sent[1])

=============================================================================
