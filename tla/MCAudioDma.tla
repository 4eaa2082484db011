----------------------------- MODULE MCAudioDma -----------------------------
(***************************************************************************)
(* AudioDma for TLC: one address more than there are streams, so that an   *)
(* address may be used again while the other stream holds its buffer; two  *)
(* buffer sizes and a frame that fills one of them.                        *)
(***************************************************************************)
EXTENDS AudioDma, TLC

AddrSymmetry == Permutations(Addr)
=============================================================================
