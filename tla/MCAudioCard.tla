---------------------------- MODULE MCAudioCard -----------------------------
(***************************************************************************)
(* AudioCard for TLC: two rates of one family and one of the other, and    *)
(* the widths on which hub, codec and DMA disagree: 8 bits the DMA alone   *)
(* has, 24 bits both DAIs but not the DMA, 32 bits all but the codec.      *)
(***************************************************************************)
EXTENDS AudioCard

MCParams ==
  [rate: {16000, 44100}, bits: {16}, chans: {2}] \cup
  [rate: {48000}, bits: {8, 24, 32}, chans: {2}]
=============================================================================
