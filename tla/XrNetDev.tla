------------------------------ MODULE XrNetDev ------------------------------
(***************************************************************************)
(* The network device of the XR829 adapter (hdfinit_xr829.c and            *)
(* net_adpater.c). The HDF framework allocates a NetDevice, has it         *)
(* initialised, opens and stops it, and frees it after Deinit or a failed  *)
(* Init; the driver delivers what it receives from a thread of its own.    *)
(* The adapter knows the devices by two globals nothing ever clears.       *)
(*                                                                         *)
(* Each NetDevice, with the kernel's net_device it wraps, is a `life' and  *)
(* has a number.                                                           *)
(***************************************************************************)
EXTENDS Naturals

CONSTANT MaxLives   (* bound: NetDevices the framework allocates             *)

ASSUME NetDevAssumption == MaxLives \in Nat \ {0}

VARIABLES
  net,      (* the NetDevice: the life of the latest one; whether it is
               attached, i.e. its Init succeeded and it is not freed; its
               netDeviceIf and EAPOL data; its ieee80211Ptr                  *)
  krn,      (* save_kernel_net: the life of the net_device, 0 for NULL       *)
  gp,       (* gp_hdf_netDev: a life, 0 for NULL                             *)
  drv,      (* the driver: the life it is loaded for, 0 if none; does its
               data path deliver frames?                                     *)
  opening   (* a hdf_netdev_open is between ndo_open and its return          *)

netVars == <<net, krn, gp, drv, opening>>

NetInit ==
  /\ net = [life |-> 0, attached |-> FALSE, eapol |-> FALSE, wdev |-> FALSE]
  /\ krn = 0
  /\ gp = 0
  /\ drv = [life |-> 0, up |-> FALSE]
  /\ opening = FALSE

MayAttach == ~net.attached /\ net.life < MaxLives

(* Xr829Init fails: the NetDevice wraps no net_device, or it has no platform
   data. The framework frees it; the second failure leaves krn pointing to it. *)
Xr829InitNoLinux ==
  /\ MayAttach
  /\ net' = [net EXCEPT !.life = @ + 1]
  /\ UNCHANGED <<krn, gp, drv, opening>>

Xr829InitNoData ==
  /\ MayAttach
  /\ net' = [net EXCEPT !.life = @ + 1]
  /\ krn' = net.life + 1
  /\ UNCHANGED <<gp, drv, opening>>

(* Mutant: the net_device is saved only once. *)
MutantSetKrnNetdev(dev) == krn' = IF krn = 0 THEN dev ELSE krn

SetKrnNetdev(dev) == krn' = dev

(* Xr829Init succeeds: hdf_netdev_init installs the operations and the EAPOL
   data; the result of xradio_init is ignored. *)
Xr829Init ==
  /\ MayAttach
  /\ net' = [life |-> net.life + 1, attached |-> TRUE, eapol |-> TRUE, wdev |-> FALSE]
  /\ SetKrnNetdev(net.life + 1)
  /\ drv' \in {[drv EXCEPT !.life = net.life + 1], drv}
  /\ UNCHANGED <<gp, opening>>

(* Xr829Deinit unloads the driver, which ends its deliveries, and the
   framework frees the NetDevice. Both globals keep pointing to it. *)
Xr829Deinit ==
  /\ net.attached /\ ~opening
  /\ net' = [net EXCEPT !.attached = FALSE, !.eapol = FALSE, !.wdev = FALSE]
  /\ drv' = [life |-> 0, up |-> FALSE]
  /\ UNCHANGED <<krn, gp, opening>>

(***************************************************************************)
(* hdf_netdev_open, reached through netDeviceIf. From ndo_open on frames   *)
(* may arrive; its failure is only logged. The rest of the function        *)
(* publishes the device, whether it opened or not.                         *)
(***************************************************************************)
NdoOpen ==
  /\ net.attached /\ ~opening /\ krn # 0
  /\ \E opened \in BOOLEAN : drv' = [drv EXCEPT !.up = @ \/ (opened /\ drv.life = krn)]
  /\ opening' = TRUE
  /\ UNCHANGED <<net, krn, gp>>

(* Mutant: the device is published only when none is. *)
MutantPublish == gp' = IF gp = 0 THEN net.life ELSE gp

Publish == gp' = net.life

OpenReturns ==
  /\ opening
  /\ net' = [net EXCEPT !.wdev = (drv.life = krn)]
  /\ Publish
  /\ opening' = FALSE
  /\ UNCHANGED <<krn, drv>>

(* hdf_netdev_stop: ndo_stop may fail. gp_hdf_netDev stays. *)
NetdevStop ==
  /\ net.attached /\ ~opening /\ krn # 0
  /\ drv' \in {drv, [drv EXCEPT !.up = FALSE]}
  /\ UNCHANGED <<net, krn, gp, opening>>

NetNext ==
  \/ Xr829InitNoLinux
  \/ Xr829InitNoData
  \/ Xr829Init
  \/ Xr829Deinit
  \/ NdoOpen
  \/ OpenReturns
  \/ NetdevStop

(* wal_netif_rx and its variants, get_netDev: the device frames and events are
   delivered to. *)
RxTarget == gp

-----------------------------------------------------------------------------
NetTypeOK ==
  /\ net \in [life: 0..MaxLives, attached: BOOLEAN, eapol: BOOLEAN, wdev: BOOLEAN]
  /\ {krn, gp} \subseteq 0..MaxLives
  /\ drv \in [life: 0..MaxLives, up: BOOLEAN]
  /\ opening \in BOOLEAN

(* Whatever devices came, failed and went before, a frame the driver         *)
(* delivers outside hdf_netdev_open finds the device that is attached, with  *)
(* its EAPOL data, and the operations act on that device's net_device.       *)
(* (Inside hdf_netdev_open, after ndo_open and before the device is          *)
(* published, frames go to NULL or to a device already freed.)               *)
FrameFindsDevice ==
  /\ drv.up /\ ~opening => net.attached /\ net.eapol /\ RxTarget = net.life
  /\ net.attached => krn = net.life
=============================================================================
