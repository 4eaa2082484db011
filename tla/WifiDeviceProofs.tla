-------------------------- MODULE WifiDeviceProofs --------------------------
(***************************************************************************)
(* Theorems about WifiDevice, for any number of network devices, scans and *)
(* commands.                                                               *)
(***************************************************************************)
EXTENDS WifiDevice, TLAPS

USE NetDevAssumption, ScanAssumption, ApAssumption

-----------------------------------------------------------------------------
(* The two globals of the network device: they point to the attached device, *)
(* krn from its Init on, gp from its first open on, and only a device that   *)
(* was opened with a loaded driver has a wireless_dev.                       *)
NetInv ==
  /\ NetTypeOK
  /\ opening => net.attached
  /\ net.attached => net.eapol /\ krn = net.life /\ net.life # 0
  /\ ~net.attached => drv = [life |-> 0, up |-> FALSE] /\ ~net.wdev
  /\ drv.up /\ ~opening => gp = net.life
  /\ net.wdev => gp = net.life /\ drv.life = net.life

LEMMA NetInitInv == Init => NetInv
<1> SUFFICES ASSUME Init PROVE NetInv
  OBVIOUS
<1>1. 0 \in 0..MaxLives
  OBVIOUS
<1>2. QED
  BY <1>1 DEF Init, NetInit, NetInv, NetTypeOK

(* The steps that do not concern the device leave it alone. *)
LEMMA NetStep == NetInv /\ [Next]_vars => NetInv'
<1> SUFFICES ASSUME NetInv, [Next]_vars PROVE NetInv'
  OBVIOUS
<1>1. net.life \in 0..MaxLives /\ net.life \in Nat
  BY DEF NetInv, NetTypeOK
<1> USE <1>1 DEF NetInv, NetTypeOK
<1>2. CASE Attaching
  <2>1. CASE Xr829InitNoLinux
    <3>1. net.life + 1 \in 0..MaxLives
      BY <2>1 DEF Xr829InitNoLinux, MayAttach
    <3>2. QED
      BY <2>1, <3>1 DEF Xr829InitNoLinux, MayAttach
  <2>2. CASE Xr829InitNoData
    <3>1. net.life + 1 \in 0..MaxLives
      BY <2>2 DEF Xr829InitNoData, MayAttach
    <3>2. QED
      BY <2>2, <3>1 DEF Xr829InitNoData, MayAttach
  <2>3. CASE Xr829Init
    <3>1. net.life + 1 \in 0..MaxLives /\ net.life + 1 # 0
      BY <2>3 DEF Xr829Init, MayAttach
    <3>2. ~drv'.up
      BY <2>3 DEF Xr829Init, MayAttach
    <3>3. QED
      BY <2>3, <3>1, <3>2 DEF Xr829Init, MayAttach, SetKrnNetdev
  <2>4. QED
    BY <1>2, <2>1, <2>2, <2>3 DEF Attaching
<1>3. CASE OpenAndStop
  <2>1. CASE NdoOpen
    BY <2>1 DEF NdoOpen
  <2>2. CASE OpenReturns
    BY <2>2 DEF OpenReturns, Publish
  <2>3. CASE NetdevStop
    BY <2>3 DEF NetdevStop
  <2>4. QED
    BY <1>3, <2>1, <2>2, <2>3 DEF OpenAndStop
<1>4. CASE Detach
  <2>1. 0 \in 0..MaxLives
    OBVIOUS
  <2>2. QED
    BY <1>4, <2>1 DEF Detach, Xr829Deinit
<1>5. CASE UNCHANGED netVars
  BY <1>5 DEF netVars
<1>6. QED
  BY <1>2, <1>3, <1>4, <1>5 DEF Next, Scanning, AccessPoint, vars

(* A frame delivered outside hdf_netdev_open finds the attached device, and  *)
(* the operations act on its net_device, for any number of devices.          *)
THEOREM FramesArrive == Spec => []FrameFindsDevice
<1>1. NetInv => FrameFindsDevice
  BY DEF NetInv, NetTypeOK, FrameFindsDevice, RxTarget
<1>2. QED
  BY NetInitInv, NetStep, <1>1, PTL DEF Spec
-----------------------------------------------------------------------------
(* A scan in progress was started on the attached device, which is the one   *)
(* results are reported to; blocks are numbered by the calls made so far.    *)
Fresh == \A b \in heap : b[2] <= calls

Scans ==
  /\ asker # 0 => net.wdev /\ asker = net.life
  /\ asker = 0 => told = {} /\ held = {}
  /\ ResultsFindAsker

ScanInv == ScanTypeOK /\ EveryBlockHasOneOwner /\ Fresh /\ Scans

(* The pieces of the next call are new.                                      *)
LEMMA PiecesNew ==
  ASSUME ScanTypeOK, Fresh, calls < MaxCalls,
         NEW kinds \in SUBSET {"request", "ssids", "ie", "capability", "band", "rates"}
  PROVE  /\ Pieces(kinds) \subseteq Blocks
         /\ Pieces(kinds) \cap heap = {}
         /\ \A b \in Pieces(kinds) : b[2] = calls + 1
<1>1. calls \in Nat /\ calls + 1 \in 1..MaxCalls
  BY DEF ScanTypeOK
<1>2. \A b \in Pieces(kinds) : b[2] = calls + 1
  BY DEF Pieces
<1>3. Pieces(kinds) \subseteq Blocks
  BY <1>1 DEF Pieces, Blocks
<1>4. \A b \in heap : b[2] \in Nat
  BY DEF ScanTypeOK, Blocks
<1>5. QED
  BY <1>1, <1>2, <1>3, <1>4 DEF Fresh

LEMMA ScanInitInv == Init => ScanInv
BY DEF Init, ScanInit, ScanInv, ScanTypeOK, EveryBlockHasOneOwner, Fresh, Scans,
       ResultsFindAsker

(* Steps of the scan operations: the ledger.                                 *)
LEMMA LedgerStep ==
  ASSUME ScanTypeOK, EveryBlockHasOneOwner, Fresh, Scans, ScanNext
  PROVE  EveryBlockHasOneOwner' /\ Fresh' /\ (heap' \in SUBSET Blocks)
                                /\ (lost' \in SUBSET Blocks) /\ (caps' \in SUBSET Blocks)
                                /\ (held' \in SUBSET Blocks) /\ (calls' \in 0..MaxCalls)
<1>1. calls \in Nat /\ \A b \in heap : b[2] \in Nat
  BY DEF ScanTypeOK, Blocks
<1> DEFINE Ledger == EveryBlockHasOneOwner' /\ Fresh'
           Typed == /\ (heap' \in SUBSET Blocks) /\ (lost' \in SUBSET Blocks)
                    /\ (caps' \in SUBSET Blocks) /\ (held' \in SUBSET Blocks)
                    /\ calls' \in 0..MaxCalls
<1> SUFFICES Ledger /\ Typed
  OBVIOUS
<1> USE <1>1 DEF ScanTypeOK, EveryBlockHasOneOwner, Fresh
<1>2. CASE ScanRejected
  <2>1. PICK kinds \in {{"request"}, {"request", "ssids"}} :
          heap' = heap \cup Pieces(kinds) /\ lost' = lost \cup Pieces(kinds)
    BY <1>2 DEF ScanRejected
  <2>2. calls < MaxCalls /\ calls' = calls + 1 /\ UNCHANGED <<held, caps>>
    BY <1>2 DEF ScanRejected, MayScan
  <2>3. /\ Pieces(kinds) \subseteq Blocks /\ Pieces(kinds) \cap heap = {}
        /\ \A b \in Pieces(kinds) : b[2] = calls + 1
    BY <2>2, PiecesNew
  <2>4. QED
    BY <2>1, <2>2, <2>3
<1>3. CASE ScanRefused
  <2>1. PICK kinds \in Requests :
          heap' = (heap \cup Pieces(kinds)) \ Pieces(kinds)
    BY <1>3 DEF ScanRefused, FreeRequest
  <2>2. calls < MaxCalls /\ calls' = calls + 1 /\ UNCHANGED <<held, caps, lost>>
    BY <1>3 DEF ScanRefused, MayScan
  <2>3. Pieces(kinds) \cap heap = {}
    BY <2>2, PiecesNew DEF Requests
  <2>4. heap' = heap
    BY <2>1, <2>3
  <2>5. QED
    BY <2>2, <2>4
<1>4. CASE ScanStarted
  <2>1. PICK kinds \in Requests : heap' = heap \cup Pieces(kinds) /\ held' = Pieces(kinds)
    BY <1>4 DEF ScanStarted
  <2>2. calls < MaxCalls /\ calls' = calls + 1 /\ UNCHANGED <<caps, lost>>
    BY <1>4 DEF ScanStarted, MayScan
  <2>3. /\ Pieces(kinds) \subseteq Blocks /\ Pieces(kinds) \cap heap = {}
        /\ \A b \in Pieces(kinds) : b[2] = calls + 1
    BY <2>2, PiecesNew DEF Requests
  <2>4. held = {}
    BY <1>4 DEF ScanStarted, Scans
  <2>5. QED
    BY <2>1, <2>2, <2>3, <2>4
<1>5. CASE EndScan
  BY <1>5 DEF EndScan
<1>6. CASE InformBssFrame
  BY <1>6 DEF InformBssFrame
<1>7. CASE WalGetHwCapability
  <2> DEFINE blocks == Pieces({"capability", "band", "rates"})
  <2>1. heap' = heap \cup blocks /\ caps' = caps \cup blocks
    BY <1>7 DEF WalGetHwCapability
  <2>2. calls < MaxCalls /\ calls' = calls + 1 /\ UNCHANGED <<held, lost>>
    BY <1>7 DEF WalGetHwCapability, MayQuery
  <2>3. /\ blocks \subseteq Blocks /\ blocks \cap heap = {}
        /\ \A b \in blocks : b[2] = calls + 1
    BY <2>2, PiecesNew
  <2> HIDE DEF blocks
  <2>4. QED
    BY <2>1, <2>2, <2>3
<1>8. CASE WalGetHwCapabilityNoMemory
  <2>1. PICK kinds \in {{"capability"}, {"capability", "band"}} :
          heap' = (heap \cup Pieces(kinds)) \ Pieces(kinds)
    BY <1>8 DEF WalGetHwCapabilityNoMemory, WalReleaseHwCapability
  <2>2. calls < MaxCalls /\ calls' = calls + 1 /\ UNCHANGED <<held, caps, lost>>
    BY <1>8 DEF WalGetHwCapabilityNoMemory, MayQuery
  <2>3. Pieces(kinds) \cap heap = {}
    BY <2>2, PiecesNew
  <2>4. heap' = heap
    BY <2>1, <2>3
  <2>5. QED
    BY <2>2, <2>4
<1>9. CASE ReleaseCapability
  <2>1. PICK i \in 1..calls :
          LET blocks == {b \in caps : b[2] = i}
          IN  caps' = caps \ blocks /\ heap' = heap \ blocks
    BY <1>9 DEF ReleaseCapability, WalReleaseHwCapability
  <2>2. UNCHANGED <<calls, held, lost>>
    BY <1>9 DEF ReleaseCapability
  <2>3. QED
    BY <2>1, <2>2
<1>10. QED
  BY <1>2, <1>3, <1>4, <1>5, <1>6, <1>7, <1>8, <1>9 DEF ScanNext, ScanDone, WalAbortScan

(* What holds of a scan in progress, over steps of its own and of the device. *)
LEMMA ScansStep ==
  ASSUME NetInv, NetInv', ScanInv, [Next]_vars
  PROVE  Scans' /\ asker' \in 0..MaxLives /\ told' \subseteq 1..MaxLives
<1> DEFINE Goal == Scans' /\ asker' \in 0..MaxLives /\ told' \subseteq 1..MaxLives
<1> SUFFICES Goal
  OBVIOUS
<1>1. /\ net.life \in 0..MaxLives /\ gp \in 0..MaxLives
      /\ asker \in 0..MaxLives /\ told \subseteq 1..MaxLives /\ Scans
      /\ net.attached \in BOOLEAN /\ net.wdev \in BOOLEAN
  BY DEF NetInv, NetTypeOK, ScanInv, ScanTypeOK
<1> USE <1>1 DEF Scans, ResultsFindAsker
<1>2. CASE Attaching
  <2>1. ~net.attached /\ UNCHANGED scanVars
    BY <1>2 DEF Attaching, Xr829InitNoLinux, Xr829InitNoData, Xr829Init, MayAttach
  <2>2. asker = 0
    BY <2>1 DEF NetInv
  <2>3. QED
    BY <2>1, <2>2 DEF scanVars
<1>3. CASE OpenAndStop
  <2>1. UNCHANGED scanVars
    BY <1>3 DEF OpenAndStop
  <2>2. asker # 0 => net'.wdev /\ net'.life = net.life
    <3>1. CASE NdoOpen
      BY <3>1 DEF NdoOpen
    <3>2. CASE NetdevStop
      BY <3>2 DEF NetdevStop
    <3>3. CASE OpenReturns
      <4>1. asker # 0 => drv.life = krn
        BY DEF NetInv
      <4>2. net' = [net EXCEPT !.wdev = (drv.life = krn)]
        BY <3>3 DEF OpenReturns
      <4>3. QED
        BY <4>1, <4>2 DEF NetInv, NetTypeOK
    <3>4. QED
      BY <1>3, <3>1, <3>2, <3>3 DEF OpenAndStop
  <2>3. QED
    BY <2>1, <2>2 DEF scanVars
<1>4. CASE Scanning
  <2>1. UNCHANGED netVars /\ ScanNext
    BY <1>4 DEF Scanning
  <2>2. CASE InformBssFrame
    <3>1. gp = asker
      BY <2>2 DEF InformBssFrame, NetInv
    <3>2. QED
      BY <2>1, <2>2, <3>1 DEF InformBssFrame, RxTarget, netVars
  <2>3. CASE EndScan
    BY <2>3 DEF EndScan
  <2>4. CASE ScanStarted
    BY <2>1, <2>4 DEF ScanStarted, MayScan, netVars, NetInv
  <2>5. CASE UNCHANGED <<asker, told, held>>
    BY <2>1, <2>5 DEF netVars
  <2>6. QED
    BY <2>1, <2>2, <2>3, <2>4, <2>5
       DEF ScanNext, ScanRejected, ScanRefused, ScanDone, WalAbortScan, WalGetHwCapability,
           WalGetHwCapabilityNoMemory, ReleaseCapability
<1>5. CASE AccessPoint
  BY <1>5 DEF AccessPoint, netVars, scanVars
<1>6. CASE Detach
  BY <1>6 DEF Detach, EndScan
<1>7. CASE UNCHANGED vars
  BY <1>7 DEF vars, netVars, scanVars
<1>8. QED
  BY <1>2, <1>3, <1>4, <1>5, <1>6, <1>7 DEF Next

LEMMA ScanStep == NetInv /\ NetInv' /\ ScanInv /\ [Next]_vars => ScanInv'
<1> SUFFICES ASSUME NetInv, NetInv', ScanInv, [Next]_vars PROVE ScanInv'
  OBVIOUS
<1>1. Scans' /\ asker' \in 0..MaxLives /\ told' \subseteq 1..MaxLives
  BY ScansStep
<1> DEFINE Rest == EveryBlockHasOneOwner /\ Fresh /\ {heap, held, caps, lost} \subseteq SUBSET Blocks
                   /\ calls \in 0..MaxCalls
<1>2. Rest
  BY DEF ScanInv, ScanTypeOK
<1>3. Rest'
  <2>1. CASE Scanning
    BY <2>1, LedgerStep DEF Scanning, ScanInv
  <2>2. CASE Detach
    BY <2>2, <1>2 DEF Detach, EndScan, EveryBlockHasOneOwner, Fresh
  <2>3. CASE UNCHANGED scanVars
    BY <2>3, <1>2 DEF scanVars, EveryBlockHasOneOwner, Fresh
  <2>4. QED
    BY <2>1, <2>2, <2>3 DEF Next, Attaching, OpenAndStop, AccessPoint, vars
<1>4. QED
  BY <1>1, <1>3 DEF ScanInv, ScanTypeOK

(* NetInv and ScanInv are inductive together.                                *)
LEMMA DeviceInv == Spec => [](NetInv /\ ScanInv)
BY NetInitInv, NetStep, ScanInitInv, ScanStep, PTL DEF Spec

(* Every block of memory is in exactly one hand, for any number of calls.    *)
THEOREM OneOwner == Spec => []EveryBlockHasOneOwner
<1>1. ScanInv => EveryBlockHasOneOwner
  BY DEF ScanInv
<1>2. QED
  BY DeviceInv, <1>1, PTL

(* Scan results are reported to the device the scan was started on, over any *)
(* number of devices.                                                        *)
THEOREM ResultsArrive == Spec => []ResultsFindAsker
<1>1. ScanInv => ResultsFindAsker
  BY DEF ScanInv, Scans
<1>2. QED
  BY DeviceInv, <1>1, PTL
-----------------------------------------------------------------------------
(* ap_setting_info and the access point on air. ConfigAp numbers SSID and    *)
(* channel alike, ConfigBeacon beacon and timing; a set-AP command in        *)
(* progress is the latest of its kind, so what is on air is not younger.     *)
Settings ==
  /\ ap.ssid = ap.chan /\ ap.timing = ap.beacon
  /\ ap.ssid <= cmds /\ ap.beacon <= cmds
  /\ air.ssid <= ap.ssid /\ air.timing <= cmds
  /\ setAp.next # "none" =>
       /\ setAp.no \in 1..cmds /\ setAp.no \in msgs
       /\ ap.ssid = setAp.no /\ wl.preset = setAp.no
  /\ setAp.next = "beacon" => air.timing <= setAp.no
  /\ setAp.next = "start" => setAp.no <= ap.beacon

ApInv == ApTypeOK /\ Settings /\ ApOfOneCommand /\ SettingsOnAir

ApSettings == [ssid: 0..MaxCmds, chan: 0..MaxCmds, beacon: 0..MaxCmds,
               timing: 0..MaxCmds]

LEMMA ApInitInv == Init => ApInv
<1> SUFFICES ASSUME Init PROVE ApInv
  OBVIOUS
<1>1. 0 \in 0..MaxCmds
  OBVIOUS
<1>2. ApTypeOK
  BY <1>1 DEF Init, ApInit, ApTypeOK, Off, Free
<1>3. Settings
  BY <1>1 DEF Init, ApInit, Settings, Off, Free
<1>4. ApOfOneCommand /\ SettingsOnAir
  BY DEF Init, ApInit, ApOfOneCommand, SettingsOnAir
<1>5. QED
  BY <1>2, <1>3, <1>4 DEF ApInv

(* WalChangeBeacon with the beacon of command c, not older than the timing   *)
(* on air.                                                                   *)
LEMMA ChangeBeaconStep ==
  ASSUME ApInv, NEW c \in 1..MaxCmds, air.timing <= c, ChangeBeacon(c)
  PROVE  /\ ap' \in ApSettings /\ air' \in ApSettings
         /\ since' \subseteq {"config", "change", "refusal"}
         /\ ap' = [ap EXCEPT !.beacon = c, !.timing = c]
         /\ air' \in {air, [air EXCEPT !.beacon = c]}
         /\ ApOfOneCommand' /\ SettingsOnAir'
<1> USE DEF ApInv, ApTypeOK, ApSettings
<1>1. /\ ap' = [ap EXCEPT !.beacon = c, !.timing = c]
      /\ air \in ApSettings /\ ap \in ApSettings
  BY DEF ChangeBeacon, KeepBeacon
<1>2. ap' \in ApSettings /\ ap'.ssid = ap.ssid /\ ap'.chan = ap.chan /\ ap'.beacon = c
  <2>1. ap' = [ssid |-> ap.ssid, chan |-> ap.chan, beacon |-> c, timing |-> c]
    BY ONLY <1>1 DEF ApSettings
  <2>2. ap.ssid \in 0..MaxCmds /\ ap.chan \in 0..MaxCmds /\ c \in 0..MaxCmds
    BY <1>1
  <2>3. QED
    BY ONLY <2>1, <2>2 DEF ApSettings
<1>3. CASE /\ air # Off
           /\ air' = [air EXCEPT !.beacon = c]
           /\ since' = (since \ {"refusal"}) \cup {"change"}
  <2>1. /\ air'.ssid = air.ssid /\ air'.chan = air.chan /\ air'.timing = air.timing
        /\ air'.beacon = c /\ air' \in ApSettings
    BY <1>1, <1>3
  <2>2. /\ "config" \in since' <=> "config" \in since
        /\ "change" \in since'
    BY <1>3
  <2>3. ApOfOneCommand'
    BY <1>3, <2>1, <2>2 DEF ApOfOneCommand
  <2>4. SettingsOnAir'
    BY <1>2, <1>3, <2>1, <2>2 DEF SettingsOnAir
  <2>5. QED
    BY <1>1, <1>2, <1>3, <2>1, <2>3, <2>4
<1>4. CASE since' = Happened({"change", "refusal"}) /\ UNCHANGED air
  <2>1. since' \subseteq {"config", "change", "refusal"}
    BY <1>4 DEF Happened
  <2>2. air # Off => /\ "config" \in since' <=> "config" \in since
                     /\ "change" \in since' /\ "refusal" \in since'
    BY <1>4 DEF Happened
  <2>3. ApOfOneCommand'
    BY <1>4, <2>2 DEF ApOfOneCommand, Off
  <2>4. SettingsOnAir'
    BY <1>2, <1>4, <2>2 DEF SettingsOnAir, Off
  <2>5. QED
    BY <1>1, <1>2, <1>4, <2>1, <2>3, <2>4
<1>5. QED
  BY <1>3, <1>4 DEF ChangeBeacon

LEMMA ApStep == ApInv /\ [Next]_vars => ApInv'
<1> SUFFICES ASSUME ApInv, [Next]_vars PROVE ApInv'
  OBVIOUS
<1>1. /\ cmds \in Nat /\ cmds \in 0..MaxCmds /\ setAp.no \in Nat
      /\ ap \in ApSettings /\ air \in ApSettings /\ Off \in ApSettings
      /\ Settings /\ ApOfOneCommand /\ SettingsOnAir
  BY DEF ApInv, ApTypeOK, ApSettings, Off
<1>2. ASSUME ApNext PROVE ApInv'
  <2> USE <1>1 DEF ApTypeOK, ApSettings
  <2> DEFINE Typed == ApTypeOK
  <2>0. Typed
    BY DEF ApInv
  <2>1. CASE WalConfigAp
    <3>1. cmds + 1 \in 1..MaxCmds /\ cmds' = cmds + 1 /\ setAp = Free
      BY <2>1 DEF WalConfigAp, MayCommand
    <3>2. ap' = [ap EXCEPT !.ssid = cmds + 1, !.chan = cmds + 1]
      BY <2>1 DEF WalConfigAp, Configure
    <3>3. /\ UNCHANGED air /\ since' = Happened({"config"})
          /\ msgs' = msgs \cup {cmds + 1} /\ mode' \in {mode, "ap"}
          /\ wl' = [iftype |-> "ap", preset |-> cmds + 1]
          /\ setAp' = [next |-> "beacon", no |-> cmds + 1]
      BY <2>1 DEF WalConfigAp
    <3>4. /\ ap' \in ApSettings /\ ap'.ssid = cmds + 1 /\ ap'.chan = cmds + 1
          /\ ap'.beacon = ap.beacon /\ ap'.timing = ap.timing
      <4>1. ap' = [ssid |-> cmds + 1, chan |-> cmds + 1, beacon |-> ap.beacon,
                   timing |-> ap.timing]
        BY ONLY <3>2, <1>1 DEF ApSettings
      <4>2. /\ ap.beacon \in 0..MaxCmds /\ ap.timing \in 0..MaxCmds
            /\ cmds + 1 \in 0..MaxCmds
        BY <3>1
      <4>3. QED
        BY ONLY <4>1, <4>2 DEF ApSettings
    <3>5. ApTypeOK'
      BY <2>0, <3>1, <3>3, <3>4 DEF Happened
    <3>6. Settings'
      BY <3>1, <3>3, <3>4 DEF Settings
    <3>7. air # Off => /\ "config" \in since'
                       /\ "change" \in since' <=> "change" \in since
                       /\ "refusal" \in since' <=> "refusal" \in since
      BY <3>3 DEF Happened
    <3>8. ApOfOneCommand' /\ SettingsOnAir'
      BY <3>3, <3>4, <3>7 DEF ApOfOneCommand, SettingsOnAir, Off
    <3>9. QED
      BY <3>5, <3>6, <3>8 DEF ApInv
  <2>2. CASE SetApBeacon
    <3>1. setAp.no \in 1..MaxCmds /\ air.timing <= setAp.no
      BY <2>2 DEF SetApBeacon, Settings
    <3>2. ChangeBeacon(setAp.no) /\ setAp' = [setAp EXCEPT !.next = "start"]
          /\ UNCHANGED <<cmds, msgs, wl, mode>>
      BY <2>2 DEF SetApBeacon
    <3>3. /\ ap' \in ApSettings /\ air' \in ApSettings
          /\ since' \subseteq {"config", "change", "refusal"}
          /\ ap' = [ap EXCEPT !.beacon = setAp.no, !.timing = setAp.no]
          /\ air' \in {air, [air EXCEPT !.beacon = setAp.no]}
          /\ ApOfOneCommand' /\ SettingsOnAir'
      BY <3>1, <3>2, ChangeBeaconStep
    <3>4. ApTypeOK'
      BY <2>0, <3>2, <3>3
    <3>5. /\ ap'.ssid = ap.ssid /\ ap'.chan = ap.chan
          /\ ap'.beacon = setAp.no /\ ap'.timing = setAp.no
          /\ air'.ssid = air.ssid /\ air'.timing = air.timing
      BY <3>3
    <3>6. setAp'.next = "start" /\ setAp'.no = setAp.no /\ setAp.next = "beacon"
      BY <2>0, <2>2, <3>2 DEF SetApBeacon
    <3>7. Settings'
      BY <3>1, <3>2, <3>5, <3>6 DEF Settings
    <3>8. QED
      BY <3>3, <3>4, <3>7 DEF ApInv
  <2>3. CASE ChangeBeaconCommand
    <3>1. cmds + 1 \in 1..MaxCmds /\ air.timing <= cmds + 1 /\ cmds' = cmds + 1
      BY <2>3 DEF ChangeBeaconCommand, MayCommand, Settings
    <3>2. ChangeBeacon(cmds + 1) /\ UNCHANGED <<setAp, msgs, wl, mode>>
      BY <2>3 DEF ChangeBeaconCommand
    <3>3. /\ ap' \in ApSettings /\ air' \in ApSettings
          /\ since' \subseteq {"config", "change", "refusal"}
          /\ ap' = [ap EXCEPT !.beacon = cmds + 1, !.timing = cmds + 1]
          /\ air' \in {air, [air EXCEPT !.beacon = cmds + 1]}
          /\ ApOfOneCommand' /\ SettingsOnAir'
      BY <3>1, <3>2, ChangeBeaconStep
    <3>4. ApTypeOK'
      BY <2>0, <3>1, <3>2, <3>3
    <3>5. /\ ap'.ssid = ap.ssid /\ ap'.chan = ap.chan
          /\ ap'.beacon = cmds + 1 /\ ap'.timing = cmds + 1
          /\ air'.ssid = air.ssid /\ air'.timing = air.timing
      BY <3>3
    <3>6. Settings'
      BY <3>1, <3>2, <3>5 DEF Settings
    <3>7. QED
      BY <3>3, <3>4, <3>6 DEF ApInv
  <2>4. CASE WalStartAp
    <3>1. /\ setAp.next = "start" /\ setAp' = Free /\ msgs' = msgs \ {setAp.no}
          /\ UNCHANGED <<cmds, ap, wl, mode>>
      BY <2>4 DEF WalStartAp
    <3>2. \/ air' = ap /\ since' = {}
          \/ UNCHANGED <<air, since>>
      BY <2>4 DEF WalStartAp
    <3>3. ApTypeOK'
      <4>1. setAp' \in [next: {"none", "beacon", "start"}, no: 0..MaxCmds]
        BY <3>1 DEF Free
      <4>2. /\ ap' \in ApSettings /\ air' \in ApSettings
            /\ since' \subseteq {"config", "change", "refusal"}
        BY <2>0, <3>1, <3>2
      <4>3. QED
        BY <2>0, <3>1, <4>1, <4>2
    <3>4. Settings'
      BY <3>1, <3>2 DEF Settings, Free
    <3>5. ApOfOneCommand'
      BY <3>1, <3>2 DEF ApOfOneCommand, Settings
    <3>6. SettingsOnAir'
      BY <3>1, <3>2 DEF SettingsOnAir
    <3>7. QED
      BY <3>3, <3>4, <3>5, <3>6 DEF ApInv
  <2>5. CASE WalStopAp
    <3>1. air' \in {Off, air} /\ UNCHANGED <<cmds, setAp, msgs, ap, wl, mode, since>>
      BY <2>5 DEF WalStopAp
    <3>2. QED
      BY <2>0, <3>1 DEF ApInv, Settings, ApOfOneCommand, SettingsOnAir, Off
  <2>6. ASSUME NEW m \in {"station", "ap"}, WalSetMode(m) PROVE ApInv'
    <3>1. /\ air' \in {Off, air} /\ mode' = m /\ wl' = [wl EXCEPT !.iftype = m]
          /\ UNCHANGED <<cmds, setAp, msgs, ap, since>>
      BY <2>6 DEF WalSetMode
    <3>2. ApTypeOK'
      BY <2>0, <3>1
    <3>3. wl'.preset = wl.preset
      BY <2>0, <3>1
    <3>4. QED
      BY <2>0, <3>1, <3>2, <3>3
         DEF ApInv, Settings, ApOfOneCommand, SettingsOnAir, Off
  <2>7. CASE DriverReadsChannel
    <3>1. /\ air # Off /\ air' = [air EXCEPT !.chan = ap.chan]
          /\ UNCHANGED <<cmds, setAp, msgs, ap, wl, mode, since>>
      BY <2>7 DEF DriverReadsChannel
    <3>2. /\ air' \in ApSettings /\ air'.chan = ap.chan /\ air'.ssid = air.ssid
          /\ air'.beacon = air.beacon /\ air'.timing = air.timing
      BY <3>1
    <3>3. ApTypeOK' /\ Settings'
      BY <2>0, <3>1, <3>2 DEF Settings
    <3>4. ApOfOneCommand' /\ SettingsOnAir'
      BY <3>1, <3>2 DEF Settings, ApOfOneCommand, SettingsOnAir
    <3>5. QED
      BY <3>3, <3>4 DEF ApInv
  <2>8. QED
    BY <1>2, <2>1, <2>2, <2>3, <2>4, <2>5, <2>6, <2>7 DEF ApNext
<1>3. CASE Detach
  <2>1. /\ setAp = Free /\ air' = Off /\ mode' = "station"
        /\ wl' = [iftype |-> "station", preset |-> 0]
        /\ UNCHANGED <<cmds, setAp, msgs, ap, since>>
    BY <1>3 DEF Detach
  <2>2. 0 \in 0..MaxCmds
    OBVIOUS
  <2>3. QED
    BY <1>1, <2>1, <2>2
       DEF ApInv, ApTypeOK, Settings, ApOfOneCommand, SettingsOnAir, Off, Free, ApSettings
<1>4. CASE UNCHANGED apVars
  BY <1>4, <1>1 DEF ApInv, apVars, ApTypeOK, Settings, ApOfOneCommand, SettingsOnAir
<1>5. QED
  BY <1>2, <1>3, <1>4 DEF Next, Attaching, OpenAndStop, Scanning, AccessPoint, vars

LEMMA ApAlways == Spec => []ApInv
BY ApInitInv, ApStep, PTL DEF Spec

(* Every variable of the interface has its type.                             *)
THEOREM DeviceTypes == Spec => []TypeOK
<1>1. NetInv /\ ScanInv /\ ApInv => TypeOK
  BY DEF NetInv, ScanInv, ApInv, TypeOK
<1>2. QED
  BY DeviceInv, ApAlways, <1>1, PTL

(* An access point on air has SSID, timing and channel of one command and a  *)
(* beacon not older, for any number of commands, those of other clients      *)
(* included, until a set-AP command overwrites the channel it points at.     *)
THEOREM OneCommandOnAir == Spec => []ApOfOneCommand
<1>1. ApInv => ApOfOneCommand
  BY DEF ApInv
<1>2. QED
  BY ApAlways, <1>1, PTL

(* Settings and air differ only by what the driver is not given or refused.  *)
THEOREM SettingsReachAir == Spec => []SettingsOnAir
<1>1. ApInv => SettingsOnAir
  BY DEF ApInv
<1>2. QED
  BY ApAlways, <1>1, PTL

(* StartAp finds the preset channel of its command and a beacon that is      *)
(* still allocated, unless a later change of another client replaced it.     *)
THEOREM BeaconIsLive == Spec => []StartApReadsLive
<1>1. ApInv => StartApReadsLive
  <2> SUFFICES ASSUME ApInv, setAp.next = "start" PROVE StartApReadsLive
    BY DEF StartApReadsLive
  <2>1. setAp.no \in Nat /\ ap.beacon \in Nat
    BY DEF ApInv, ApTypeOK
  <2>2. QED
    BY <2>1 DEF ApInv, Settings, StartApReadsLive
<1>2. QED
  BY ApAlways, <1>1, PTL
=============================================================================
