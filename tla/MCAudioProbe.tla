---------------------------- MODULE MCAudioProbe ----------------------------
(***************************************************************************)
(* AudioProbe for TLC: every step of every init function may fail, in any  *)
(* interleaving of the two drivers and over any number of probes. Only the *)
(* failures the codec's clk_enable hides are bounded, as each changes the  *)
(* count of the shared clocks for good.                                    *)
(***************************************************************************)
EXTENDS AudioProbe
=============================================================================
