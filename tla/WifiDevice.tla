------------------------------ MODULE WifiDevice -----------------------------
(***************************************************************************)
(* A XR829 interface over the lives of several network devices: the        *)
(* framework attaches, opens, stops and detaches them, scans, queries and  *)
(* runs an access point on the one that is attached, while the driver      *)
(* delivers frames and scan results to the global device pointer.          *)
(***************************************************************************)
EXTENDS XrScan, XrAp

vars == <<netVars, scanVars, apVars>>

Init == NetInit /\ ScanInit /\ ApInit

Attaching ==
  /\ Xr829InitNoLinux \/ Xr829InitNoData \/ Xr829Init
  /\ UNCHANGED <<scanVars, apVars>>

OpenAndStop ==
  /\ NdoOpen \/ OpenReturns \/ NetdevStop
  /\ UNCHANGED <<scanVars, apVars>>

Scanning ==
  /\ ScanNext
  /\ UNCHANGED <<netVars, apVars>>

(* The operations are reached through the chip driver of an attached device. *)
AccessPoint ==
  /\ net.attached
  /\ ApNext
  /\ UNCHANGED <<netVars, scanVars>>

(* Xr829Deinit while no command is in progress. The driver that is unloaded ends
   its scan and its access point, and its wireless_dev goes; ap_setting_info
   stays. *)
Detach ==
  /\ setAp = Free
  /\ Xr829Deinit
  /\ EndScan
  /\ wl' = [iftype |-> "station", preset |-> 0]
  /\ mode' = "station"
  /\ air' = Off
  /\ UNCHANGED <<cmds, setAp, msgs, ap, since>>

Next ==
  \/ Attaching
  \/ OpenAndStop
  \/ Scanning
  \/ AccessPoint
  \/ Detach

Spec == Init /\ [][Next]_vars

-----------------------------------------------------------------------------
(* Every variable has its type.                                              *)
TypeOK == NetTypeOK /\ ScanTypeOK /\ ApTypeOK
=============================================================================
