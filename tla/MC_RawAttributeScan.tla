------------------------ MODULE MC_RawAttributeScan ------------------------
(***************************************************************************)
(* Model-checking instance of RawAttributeScan.  Value lengths 0 and 5     *)
(* give a header without value or padding, and a value spanning two words  *)
(* followed by three bytes of padding; with at most three words a length-5 *)
(* header can also run past the end of the buffer.  Two slots make a       *)
(* three-attribute buffer overflow a fixed container; a Vec that starts    *)
(* with room for one fills up and grows to four.                           *)
(***************************************************************************)
EXTENDS RawAttributeScan, TLC

CONSTANTS t1, t2

MCTypes == {t1, t2}
MCLens == {0, 5}
MCMaxWords == 3
MCTails == {0, 1}
MCN == 2
MCInitCaps == {1}

MCKindsAll == {"array", "heapless", "vec"}
MCKindsVec == {"vec"}
MCKindsHeapless == {"heapless"}
MCKindsArray == {"array"}

(* A debug build meeting the one length whose i16 negation overflows.     *)
MCLensOverflow == {0, 5, 32768}

=============================================================================
