---------------------------- MODULE MCWifiDevice ----------------------------
(***************************************************************************)
(* Instances of WifiDevice for TLC: three devices, so that the globals can *)
(* point to one that is gone while another fails and a third works; calls  *)
(* and commands enough for one to be superseded twice.                     *)
(***************************************************************************)
EXTENDS WifiDevice
=============================================================================
