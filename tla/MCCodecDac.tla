----------------------------- MODULE MCCodecDac -----------------------------
(***************************************************************************)
(* Instances of CodecDac for TLC: every rate once, at two of them every    *)
(* width and channel count, refused ones included.                         *)
(***************************************************************************)
EXTENDS CodecDac

MCParams ==
  [rate: Rates48 \cup Rates44, bits: {16}, chans: {2}] \cup
  [rate: {44100, 48000}, bits: {16, 24, 32}, chans: 1..3]
=============================================================================
