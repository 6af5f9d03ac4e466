--------------------------- MODULE MC_MessageParser ---------------------------
(***************************************************************************)
(* Bounds for MessageParser.  Attribute sections of up to 2 words plus a  *)
(* 0- or 1-byte tail, headers with value length 0 or 1 (padded to 4), so  *)
(* a padded value fits in 2 words.  Two message types: a Binding error   *)
(* response (both class bits set) and one with the top bits set.         *)
(* Length fields 0 and 8 match sections of 0 and 2 words, 5 is not a     *)
(* multiple of 4.  Header::new headers have lengths 4 and 8, or 5.        *)
(* The debug run adds the heapless Vec and a header declaring 0x8000, the *)
(* length whose padding panics with overflow checks on.                  *)
(***************************************************************************)
EXTENDS MessageParser, TLC

CONSTANTS t1, t2, tid1

MCTypes == {t1, t2}
MCLens == {0, 1}
MCMaxWords == 2
MCTails == {0, 1}
MCN == 1
MCInitCaps == {1}
MCKinds == {"array"}
MCKindsDebug == {"array", "heapless"}
MCLensDebug == {0, 1, 32768}
MCMsgTypes == {273, 49153}
MCLenFields == {0, 5, 8}
MCCookies == {MAGIC_COOKIE, 0}
MCTids == {tid1}
MCNewHeaders == {NewHeader("SuccessResponse", 1, l, tid1) : l \in {4, 8}}
TypeSymmetry == Permutations({t1, t2})
MCNewHeadersOdd == {NewHeader("SuccessResponse", 1, l, tid1) : l \in {5}}

=============================================================================
