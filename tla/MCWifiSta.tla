----------------------------- MODULE MCWifiSta -----------------------------
(***************************************************************************)
(* Instances of WifiSta for TLC. Three Connects, so that one can be        *)
(* superseded twice. One channel is enough where no property tells         *)
(* channels apart: Connects name it or leave it unspecified, and it may be *)
(* disabled meanwhile. Where it matters which one is searched there are    *)
(* two, which are interchangeable.                                         *)
(***************************************************************************)
EXTENDS WifiSta, TLC

Symmetry == Permutations(Freqs)
=============================================================================
