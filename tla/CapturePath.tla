----------------------------- MODULE CapturePath ----------------------------
(***************************************************************************)
(* Audio capture on the T507: AC107 --I2S--> audio hub --FIFO--> DMA. The  *)
(* operations are those of the hub's DAI (t507_dai_ahub_ops.c), each of    *)
(* which drives the hub and then the AC107. The AC107 is registered as an  *)
(* accessory DAI as well, so the framework may repeat the AC107's part of  *)
(* an operation (`again').                                                 *)
(***************************************************************************)
EXTENDS Ahub, Ac107

CONSTANTS
  Params,   (* the hardware parameters clients ask for: [rate, bits, chans]  *)
  NoCfg     (* not configured                                                *)

ASSUME ParamsAssumption ==
  /\ Params \subseteq [rate: Nat \ {0}, bits: Bits, chans: 1..2]
  /\ NoCfg \notin Params

VARIABLES
  cfg,    (* history: parameters of the last HwParams, if it succeeded and
             no stop or half-done HwParams came after it                     *)
  fresh,  (* history: and no pause either                                    *)
  cmd,    (* history: the last trigger command                               *)
  again   (* the operation the framework may repeat on the accessory DAI     *)

vars == <<ahub, ac, cfg, fresh, cmd, again>>

Running == {"start", "resume"}
Halted  == {"none", "stop", "pause"}

Init ==
  /\ AhubInit /\ AcInit
  /\ cfg = NoCfg /\ fresh = FALSE /\ cmd = "none" /\ again = "none"

(* T507AhubDeviceInit, when the card is bound; later calls change nothing. *)
T507AhubDeviceInit ==
  /\ ~ahub.routed
  /\ AhubDeviceInit
  /\ UNCHANGED <<ac, cfg, fresh, cmd, again>>

(* The framework uses the DAI only once the card is bound. *)
Bound == ahub.routed

(* T507AhubDaiHwParams: the hub fails first, before or after a clock moved. *)
HwParamsRejected(p) ==
  /\ Bound /\ ~AhubAccepts(p)
  /\ again' = "none"
  /\ UNCHANGED <<ahub, ac, cfg, fresh, cmd>>

HwParamsPllRefused(p) ==
  /\ Bound /\ AhubAccepts(p)
  /\ AhubPllRefused
  /\ again' = "none"
  /\ UNCHANGED <<ac, cfg, fresh, cmd>>

HwParamsModuleRefused(p) ==
  /\ Bound /\ AhubAccepts(p)
  /\ AhubModuleRefused(p)
  /\ cfg' = NoCfg
  /\ again' = "none"
  /\ UNCHANGED <<ac, fresh, cmd>>

T507AhubDaiHwParams(p) ==
  /\ Bound /\ AhubAccepts(p)
  /\ AhubConfigured(p)
  /\ Ac107DaiHwParams(p)
  /\ cfg' = p /\ fresh' = TRUE
  /\ again' = "params"
  /\ UNCHANGED cmd

(* T507AhubDaiTrigger: the hub's receive chain, then the AC107. *)
T507AhubDaiTrigger(c) ==
  /\ Bound
  /\ AhubRoute(c \in Running)
  /\ IF c \in Running THEN Ac107Start ELSE Ac107Stop
  /\ cfg' = IF c = "stop" THEN NoCfg ELSE cfg
  /\ fresh' = (fresh /\ c \in Running)
  /\ cmd' = c
  /\ again' = "trigger"

(* The framework calls the same operation of the accessory DAI. *)
AccessoryHwParams ==
  /\ again = "params"
  /\ Ac107DaiHwParams(cfg)
  /\ again' = "none"
  /\ UNCHANGED <<ahub, cfg, fresh, cmd>>

AccessoryTrigger ==
  /\ again = "trigger"
  /\ IF cmd \in Running THEN Ac107Start ELSE Ac107Stop
  /\ again' = "none"
  /\ UNCHANGED <<ahub, cfg, fresh, cmd>>

(* The control service writes a control of the AC107 at any time. *)
WriteControl(v) ==
  /\ Ac107DeviceWriteReg(v)
  /\ UNCHANGED <<ahub, cfg, fresh, cmd, again>>

Next ==
  \/ T507AhubDeviceInit
  \/ \E p \in Params : HwParamsRejected(p)
  \/ \E p \in Params : HwParamsPllRefused(p)
  \/ \E p \in Params : HwParamsModuleRefused(p)
  \/ \E p \in Params : T507AhubDaiHwParams(p)
  \/ \E c \in {"start", "resume", "stop", "pause"} : T507AhubDaiTrigger(c)
  \/ AccessoryHwParams
  \/ AccessoryTrigger
  \/ \E v \in KcValues : WriteControl(v)

Spec == Init /\ [][Next]_vars

-----------------------------------------------------------------------------
(* The registers keep their widths and the histories their values.           *)
TypeOK ==
  /\ AhubTypeOK
  /\ AcTypeOK
  /\ cfg \in Params \cup {NoCfg}
  /\ fresh \in BOOLEAN
  /\ cmd \in Running \cup Halted
  /\ again \in {"none", "params", "trigger"}

(* The path holds the parameters cfg. *)
Configured == cfg # NoCfg /\ fresh

(* Samples arrive: the AC107 is powered, clocked and transmitting, its master
   clock runs and the hub receives. *)
Live == AcTransmits /\ ahub.routed /\ ahub.mclk # 0 /\ ahub.rx = RxChain

(* Both ends are started, whether or not they have clocks and power, or both
   are off. *)
Started == ahub.rx = RxChain /\ {"TXEN", "GEN"} \subseteq ac.ctrl
Silent  == ahub.rx = {} /\ {"TXEN", "GEN"} \cap ac.ctrl = {}

(* The AC107 has the rate. *)
TableParams == {p \in Params : \E i \in DOMAIN SampleRates : SampleRates[i] = p.rate}

(* Once parameters are set and capture is started, in either order and with  *)
(* any repetition, the whole path is on: the AC107 is powered, clocked and   *)
(* transmitting, its master clock runs and the hub receives into its FIFO.   *)
RunningIsLive == cmd \in Running /\ Configured => Live

(* After stop or pause neither end moves data, whatever HwParams calls       *)
(* follow: no DMA request and no transmitter is left on.                     *)
HaltedIsSilent == cmd \in Halted => Silent

(* After a successful HwParams at a rate the AC107 has, both ends agree on   *)
(* sample rate, frame length, format, width and channels, and the master     *)
(* clock is the 12.288 or 11.2896 MHz the AC107 needs: the divisor           *)
(* arithmetic is exact for every rate.                                       *)
EndsAgree ==
  Configured /\ cfg \in TableParams =>
    /\ WireRate = cfg.rate /\ AdcRate = cfg.rate
    /\ WireMclk \in {12288000, 11289600}
    /\ ahub.period = ac.period /\ ahub.fmt = ac.fmt
    /\ ahub.bits = ac.bits /\ ahub.chans = ac.chans

(* Capture operations never change a control: gain and volume set by the     *)
(* user survive the register reset of stop and pause.                        *)
ControlsSurvive == [][ac'.kc # ac.kc => UNCHANGED <<ahub, cfg, fresh, cmd, again>>]_vars

(* The capture DAI is a stream in the sense of AudioStream, read off the     *)
(* registers of both ends: what the AC107 sends is what the hub receives,    *)
(* set as a whole, and both ends start and stop as one, however often the    *)
(* framework repeats an operation on the accessory. It is on only while the  *)
(* AC107 is powered and clocked: resumed after a pause, or started before    *)
(* HwParams, it is idle, and the next HwParams turns it on.                  *)
Stream == INSTANCE AudioStream WITH
  Exact <- TableParams,
  asked <- IF Configured THEN cfg ELSE NoCfg,
  setup <- IF Configured
           THEN [rate |-> IF WireRate = AdcRate THEN AdcRate ELSE 0,
                 bits |-> IF ahub.bits = ac.bits THEN ac.bits ELSE 0,
                 chans |-> IF ahub.chans = ac.chans THEN ac.chans ELSE 0]
           ELSE NoCfg,
  flow <- CASE Live -> "on"
            [] Started /\ ~Live -> "idle"
            [] Silent -> "off"
            [] OTHER -> "half"

ImplementsStream == Stream!Spec

(* ac107_accessory_impl_linux.c:856, "AC107 TX enable, Globle enable", is    *)
(* what CAPTURE_RESUME does: after it the AC107 transmits again.             *)
ResumedTransmits == cmd = "resume" /\ cfg # NoCfg => AcTransmits
=============================================================================
