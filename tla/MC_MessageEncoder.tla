-------------------------- MODULE MC_MessageEncoder --------------------------
(***************************************************************************)
(* Bounds for MessageEncoder: the values of EncoderSamples in a buffer    *)
(* whose length each run chooses.                                          *)
(***************************************************************************)
EXTENDS MessageEncoder, EncoderSamples, TLC

=============================================================================
