-------------------------------- MODULE XrAp --------------------------------
(***************************************************************************)
(* The access point operations of the XR829 adapter (WalConfigAp,          *)
(* WalChangeBeacon, WalStartAp, WalStopAp, WalSetMode). They share the     *)
(* global ap_setting_info, which outlives every network device, and the    *)
(* wireless_dev of the device.                                             *)
(*                                                                         *)
(* The framework's set-AP command is ConfigAp, ConfigBeacon and StartAp in *)
(* that order with the data of one message; its change-beacon command is a *)
(* ConfigBeacon of its own, and a change-beacon, stop or set-mode command  *)
(* of another client may come between two calls of a set-AP command.       *)
(* Commands are numbered, and a setting holds the number of the command it *)
(* came from (0: none).                                                    *)
(***************************************************************************)
EXTENDS Naturals

CONSTANT MaxCmds   (* bound: commands                                        *)

ASSUME ApAssumption == MaxCmds \in Nat \ {0}

VARIABLES
  cmds,      (* number of commands                                           *)
  setAp,     (* the set-AP command in progress: its next call and number     *)
  msgs,      (* the commands whose message, with the beacon in it, is still
                allocated                                                    *)
  ap,        (* ap_setting_info: SSID, channel (in ap_chan), beacon (its head
                and tail) and timing (DTIM period, hidden SSID, interval)    *)
  wl,        (* the wireless_dev: iftype, preset channel (0 for NULL)        *)
  mode,      (* driver: interface type                                       *)
  air,       (* driver: the settings of the access point on air, or Off      *)
  since      (* history, since the start of the access point on air: "config"
                if a set-AP command configured another, "change" if a beacon
                was changed, "refusal" if the last change was refused        *)

apVars == <<cmds, setAp, msgs, ap, wl, mode, air, since>>

Off  == [ssid |-> 0, chan |-> 0, beacon |-> 0, timing |-> 0]
Free == [next |-> "none", no |-> 0]

ApInit ==
  /\ cmds = 0
  /\ setAp = Free
  /\ msgs = {}
  /\ ap = Off
  /\ wl = [iftype |-> "station", preset |-> 0]
  /\ mode = "station"
  /\ air = Off
  /\ since = {}

MayCommand == cmds < MaxCmds

(* What happened to an access point, if there is one on air. *)
Happened(what) == IF air = Off THEN since ELSE since \cup what

(* Mutant: the SSID of the first command stays. *)
MutantConfigure(c) ==
  ap' = [ap EXCEPT !.ssid = IF @ = 0 THEN c ELSE @, !.chan = c]

(* Mutant: the channel is numbered one too high. *)
MutantConfigureChannel(c) == ap' = [ap EXCEPT !.ssid = c, !.chan = c + 1]

Configure(c) == ap' = [ap EXCEPT !.ssid = c, !.chan = c]

(* WalConfigAp fills in both settings, then tells the driver, whose refusal
   is only logged. *)
WalConfigAp ==
  /\ MayCommand /\ setAp = Free
  /\ cmds' = cmds + 1
  /\ msgs' = msgs \cup {cmds + 1}
  /\ Configure(cmds + 1)
  /\ wl' = [iftype |-> "ap", preset |-> cmds + 1]
  /\ mode' \in {mode, "ap"}
  /\ setAp' = [next |-> "beacon", no |-> cmds + 1]
  /\ since' = Happened({"config"})
  /\ UNCHANGED air

(* Mutant: the beacon is not kept for StartAp. *)
MutantKeepBeacon(c) == UNCHANGED ap

KeepBeacon(c) == ap' = [ap EXCEPT !.beacon = c, !.timing = c]

(* WalChangeBeacon keeps head, tail and timing for StartAp and hands the
   driver head and tail only. A refusal is only logged, and an access point
   that is off refuses. *)
ChangeBeacon(c) ==
  /\ KeepBeacon(c)
  /\ \/ /\ air # Off
        /\ air' = [air EXCEPT !.beacon = c]
        /\ since' = (since \ {"refusal"}) \cup {"change"}
     \/ /\ since' = Happened({"change", "refusal"})
        /\ UNCHANGED air

SetApBeacon ==
  /\ setAp.next = "beacon"
  /\ ChangeBeacon(setAp.no)
  /\ setAp' = [setAp EXCEPT !.next = "start"]
  /\ UNCHANGED <<cmds, msgs, wl, mode>>

ChangeBeaconCommand ==
  /\ MayCommand
  /\ cmds' = cmds + 1
  /\ ChangeBeacon(cmds + 1)
  /\ UNCHANGED <<setAp, msgs, wl, mode>>

(* WalStartAp: the driver takes the settings, if the interface is an access
   point that is off; the message goes. *)
WalStartAp ==
  /\ setAp.next = "start"
  /\ \/ air = Off /\ mode = "ap" /\ air' = ap /\ since' = {}
     \/ UNCHANGED <<air, since>>
  /\ msgs' = msgs \ {setAp.no}
  /\ setAp' = Free
  /\ UNCHANGED <<cmds, ap, wl, mode>>

(* WalStopAp may be refused. *)
WalStopAp ==
  /\ air' \in {Off, air}
  /\ UNCHANGED <<cmds, setAp, msgs, ap, wl, mode, since>>

(* WalSetMode: a driver that agrees takes the access point off the air and
   sets the iftype of the wireless_dev. *)
WalSetMode(m) ==
  /\ mode' = m
  /\ wl' = [wl EXCEPT !.iftype = m]
  /\ air' = IF m = "ap" THEN air ELSE Off
  /\ UNCHANGED <<cmds, setAp, msgs, ap, since>>

(* The driver was handed a pointer to the global ap_chan and may read the
   channel again while the access point is on air. *)
DriverReadsChannel ==
  /\ air # Off
  /\ air' = [air EXCEPT !.chan = ap.chan]
  /\ UNCHANGED <<cmds, setAp, msgs, ap, wl, mode, since>>

ApNext ==
  \/ WalConfigAp
  \/ SetApBeacon
  \/ ChangeBeaconCommand
  \/ WalStartAp
  \/ WalStopAp
  \/ \E m \in {"station", "ap"} : WalSetMode(m)
  \/ DriverReadsChannel

-----------------------------------------------------------------------------
ApTypeOK ==
  /\ cmds \in 0..MaxCmds
  /\ setAp \in [next: {"none", "beacon", "start"}, no: 0..MaxCmds]
  /\ msgs \subseteq 1..MaxCmds
  /\ {ap, air} \subseteq [ssid: 0..MaxCmds, chan: 0..MaxCmds, beacon: 0..MaxCmds,
                        timing: 0..MaxCmds]
  /\ wl \in [iftype: {"station", "ap"}, preset: 0..MaxCmds]
  /\ mode \in {"station", "ap"}
  /\ since \subseteq {"config", "change", "refusal"}

(* An access point on air has the SSID of a set-AP command, the timing of    *)
(* that command or of a change that was made before it was started, and a    *)
(* beacon not older than its timing; its channel is of the same command as   *)
(* its SSID until another set-AP command overwrites ap_chan, and never older.*)
(* No setting left by an attempt that failed, whose operations reported      *)
(* success, gets on air.                                                     *)
ApOfOneCommand ==
  air # Off => /\ 1 <= air.ssid /\ air.ssid <= air.timing /\ air.timing <= air.beacon
               /\ air.ssid <= air.chan
               /\ "config" \notin since => air.chan = air.ssid

(* What ap_setting_info says and what is on air differ only as follows: SSID *)
(* and channel after a set-AP command that did not start; DTIM period,       *)
(* hidden SSID and interval after any change of the beacon, also one that    *)
(* was accepted, since the driver is not given them; head and tail after a   *)
(* change the driver refused, until the next one it accepts.                 *)
SettingsOnAir ==
  air # Off =>
    /\ "config" \notin since => air.ssid = ap.ssid /\ air.chan = ap.chan
    /\ "change" \notin since => air.timing = ap.timing
    /\ "refusal" \notin since => air.beacon = ap.beacon

(* When StartAp hands ap_setting_info to the driver, the preset channel it   *)
(* writes to exists and is that of its own command, and the beacon lies in   *)
(* the message being processed, unless another client changed the beacon     *)
(* after this command began: then it is that change's, whose message is gone.*)
StartApReadsLive ==
  setAp.next = "start" =>
    /\ wl.preset = setAp.no
    /\ \/ ap.beacon = setAp.no /\ ap.beacon \in msgs
       \/ ap.beacon > setAp.no
=============================================================================
