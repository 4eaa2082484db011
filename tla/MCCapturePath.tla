---------------------------- MODULE MCCapturePath ----------------------------
(***************************************************************************)
(* CapturePath with every rate the drivers name, a rate neither accepts,   *)
(* every sample width and both channel counts of the microphone array.     *)
(***************************************************************************)
EXTENDS CapturePath

MCParams == [rate: AcceptedRates \cup {5512}, bits: Bits, chans: 1..2]
=============================================================================
