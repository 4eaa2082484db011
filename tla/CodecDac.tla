------------------------------ MODULE CodecDac ------------------------------
(***************************************************************************)
(* The T507's internal codec as the render DAI (t507_codec_impl_linux.c,   *)
(* t507_codec_ops.c): its clocks, the DAC FIFO, the output route, and the  *)
(* volume and mute controls. The registers of the codec are abstracted to  *)
(* the fields the driver sets.                                             *)
(*                                                                         *)
(* The stream operations and the control service run in threads of their   *)
(* own and share only the registers (regmap makes one update atomic) and   *)
(* g_KctrlRender, which no lock protects.                                  *)
(***************************************************************************)
EXTENDS Naturals, Sequences

CONSTANTS
  Params,    (* hardware parameters clients ask for: [rate, bits, chans]     *)
  Volumes,   (* values of the volume control                                 *)
  Setters,   (* threads of the control service                               *)
  NoCfg,     (* not configured                                               *)
  Idle       (* a thread outside SetCtrlOps                                  *)

(* Progress of a thread through SetCtrlOps. *)
Progress == [at: {"store", "load", "write"}, ctl: {"vol", "mute"},
             vals: Seq(Nat), out: Nat]

ASSUME CodecAssumption ==
  /\ Params \subseteq [rate: Nat \ {0}, bits: Nat, chans: Nat]
  /\ NoCfg \notin Params
  /\ Volumes \subseteq Nat \ {0}
  /\ Idle \notin Progress

VARIABLES
  dac,    (* registers and clocks                                            *)
  kctl,   (* g_KctrlRender                                                   *)
  setter, (* of each thread: Idle, or its progress through SetCtrlOps        *)
  cfg,    (* history: parameters of the last HwParams, if it succeeded and
             none failed half-way after it                                   *)
  cmd,    (* history: last trigger command                                   *)
  touched (* history: has a control been set?                                *)

vars == <<dac, kctl, setter, cfg, cmd, touched>>

Route == {"EN_DA", "DACLEN", "DACREN", "LINEOUTL_EN", "LINEOUTR_EN", "RDEN"}

(* The register defaults come from the board's configuration: the volume
   they hold need not be that of g_KctrlRender. *)
Init ==
  /\ \E v \in Volumes \cup {0} :
       dac = [pllx4 |-> 0, audio |-> 0, fs |-> 0, bits |-> 16, mono |-> FALSE,
              route |-> {}, drq |-> FALSE, lineout |-> v]
  /\ \E v \in Volumes : kctl = [vol |-> v, mute |-> 0]
  /\ setter = [t \in Setters |-> Idle]
  /\ cfg = NoCfg
  /\ cmd = "none"
  /\ touched = FALSE

-----------------------------------------------------------------------------
(***************************************************************************)
(* T507CodecImplHwParams. It works in stages, and a stage that fails       *)
(* leaves those before it done. An unknown rate is rejected before         *)
(* anything is changed.                                                    *)
(***************************************************************************)
Rates48 == {8000, 12000, 16000, 24000, 32000, 48000, 64000, 96000, 192000}
Rates44 == {11025, 22050, 44100, 88200, 176400}

FreqPoint(rate) == IF rate \in Rates48 THEN 24576000 ELSE 22579200

(* g_sample_rate_conv: the rates of each code of DAC_FS, from 0. *)
SampleRateConv ==
  <<{44100, 48000}, {32000}, {22050, 24000}, {16000}, {11025, 12000}, {8000},
    {192000}, {96000}>>

(* Mutant: codes are counted from 1. *)
MutantRateBitsFromOne(rate) ==
  LET found == {i \in DOMAIN SampleRateConv : rate \in SampleRateConv[i]}
  IN  IF found # {} THEN found ELSE 0..7

(* Mutant: the codes of 16 kHz and 24 kHz are swapped. *)
MutantRateBits(rate) ==
  CASE rate = 16000 -> {2}
    [] rate = 24000 -> {3}
    [] OTHER -> {i - 1 : i \in {j \in DOMAIN SampleRateConv : rate \in SampleRateConv[j]}}

(* The code written for a rate. If the table lacks it the search ends one
   past the table, and what lies there is cut to the three bits of DAC_FS. *)
RateBits(rate) ==
  LET found == {i \in DOMAIN SampleRateConv : rate \in SampleRateConv[i]}
  IN  IF found # {} THEN {i - 1 : i \in found} ELSE 0..7

WithClocks(d, p) ==
  [d EXCEPT !.pllx4 = 4 * FreqPoint(p.rate), !.audio = 2 * FreqPoint(p.rate)]

WithFormat(d, p) == {[d EXCEPT !.bits = p.bits, !.fs = b] : b \in RateBits(p.rate)}

(* clk_set_rate of the audio clock fails after that of its parent. *)
HwParamsClockRefused(p) ==
  /\ p.rate \in Rates48 \cup Rates44
  /\ dac' = [dac EXCEPT !.pllx4 = 4 * FreqPoint(p.rate)]
  /\ cfg' = NoCfg
  /\ UNCHANGED <<kctl, setter, cmd, touched>>

HwParamsBitsRejected(p) ==
  /\ p.rate \in Rates48 \cup Rates44
  /\ p.bits \notin {16, 24}
  /\ dac' = WithClocks(dac, p)
  /\ cfg' = NoCfg
  /\ UNCHANGED <<kctl, setter, cmd, touched>>

HwParamsChansRejected(p) ==
  /\ p.rate \in Rates48 \cup Rates44
  /\ p.bits \in {16, 24}
  /\ p.chans \notin {1, 2}
  /\ dac' \in WithFormat(WithClocks(dac, p), p)
  /\ cfg' = NoCfg
  /\ UNCHANGED <<kctl, setter, cmd, touched>>

T507CodecImplHwParams(p) ==
  /\ p.rate \in Rates48 \cup Rates44
  /\ p.bits \in {16, 24}
  /\ p.chans \in {1, 2}
  /\ \E d \in WithFormat(WithClocks(dac, p), p) :
       dac' = [d EXCEPT !.mono = (p.chans = 1)]
  /\ cfg' = p
  /\ UNCHANGED <<kctl, setter, cmd, touched>>

-----------------------------------------------------------------------------
Running == {"start", "resume"}
Halted  == {"none", "stop", "pause"}

(* Mutant: the DMA request is left on. *)
MutantTrigger(enable) ==
  dac' = [dac EXCEPT !.route = IF enable THEN Route ELSE {}, !.drq = @ \/ enable]

(* T507CodecImplTrigger: renderRouteCtrl, then the DMA request. *)
Trigger(enable) ==
  dac' = [dac EXCEPT !.route = IF enable THEN Route ELSE {}, !.drq = enable]

T507CodecDaiTrigger(c) ==
  /\ Trigger(c \in Running)
  /\ cmd' = c
  /\ UNCHANGED <<kctl, setter, cfg, touched>>

-----------------------------------------------------------------------------
(***************************************************************************)
(* T507CodecImplSetCtrlOps: T507CodecImplUpdateRegBits for the value and,  *)
(* for a stereo control, again for the right value. Each stores the value, *)
(* reads both controls back and writes the line-out volume. The right      *)
(* value is checked only after the left one was applied.                   *)
(***************************************************************************)
SetCtrlOps(t, ctl, vals) ==
  /\ setter[t] = Idle
  /\ setter' = [setter EXCEPT ![t] = [at |-> "store", ctl |-> ctl, vals |-> vals, out |-> 0]]
  /\ UNCHANGED <<dac, kctl, cfg, cmd, touched>>

Store(t) ==
  /\ setter[t] # Idle /\ setter[t].at = "store"
  /\ kctl' = [kctl EXCEPT ![setter[t].ctl] = Head(setter[t].vals)]
  /\ setter' = [setter EXCEPT ![t].at = "load", ![t].vals = Tail(@)]
  /\ UNCHANGED <<dac, cfg, cmd, touched>>

(* Mutant: mute is ignored when it is the volume that changes. *)
MutantLineout(t) == IF kctl.mute = 1 /\ setter[t].ctl = "mute" THEN 0 ELSE kctl.vol

Lineout(t) == IF kctl.mute = 1 THEN 0 ELSE kctl.vol

Load(t) ==
  /\ setter[t] # Idle /\ setter[t].at = "load"
  /\ setter' = [setter EXCEPT ![t].at = "write", ![t].out = Lineout(t)]
  /\ UNCHANGED <<dac, kctl, cfg, cmd, touched>>

Write(t) ==
  /\ setter[t] # Idle /\ setter[t].at = "write"
  /\ dac' = [dac EXCEPT !.lineout = setter[t].out]
  /\ \/ setter' = [setter EXCEPT ![t] = Idle]
     \/ setter[t].vals # <<>> /\ setter' = [setter EXCEPT ![t].at = "store"]
  /\ touched' = TRUE
  /\ UNCHANGED <<kctl, cfg, cmd>>

Next ==
  \/ \E p \in Params : HwParamsClockRefused(p)
  \/ \E p \in Params : HwParamsBitsRejected(p)
  \/ \E p \in Params : HwParamsChansRejected(p)
  \/ \E p \in Params : T507CodecImplHwParams(p)
  \/ \E c \in {"start", "resume", "stop", "pause"} : T507CodecDaiTrigger(c)
  \/ \E t \in Setters, v \in Volumes : SetCtrlOps(t, "vol", <<v>>)
  \/ \E t \in Setters, v, w \in Volumes : SetCtrlOps(t, "vol", <<v, w>>)
  \/ \E t \in Setters, m \in {0, 1} : SetCtrlOps(t, "mute", <<m>>)
  \/ \E t \in Setters : Store(t)
  \/ \E t \in Setters : Load(t)
  \/ \E t \in Setters : Write(t)

Spec == Init /\ [][Next]_vars

-----------------------------------------------------------------------------
(* What the codec plays, from its clock and its DAC_FS code: the code stands
   for a fraction of the 48 kHz or 44.1 kHz family of the module clock. *)
RateOf == <<48000, 32000, 24000, 16000, 12000, 8000, 192000, 96000>>
DacRate == (RateOf[dac.fs + 1] * (dac.audio \div 25600)) \div 1920

(* The rates of the code's table. *)
TableRates == UNION {SampleRateConv[i] : i \in DOMAIN SampleRateConv}
TableParams == {p \in Params : p.rate \in TableRates}

(* Every variable has its type and every field its width. *)
TypeOK ==
  /\ dac.fs \in 0..7
  /\ dac.bits \in {16, 24}
  /\ dac.route \in SUBSET Route
  /\ {dac.mono, dac.drq, touched} \subseteq BOOLEAN
  /\ dac.lineout \in Volumes \cup {0}
  /\ kctl \in [vol: Volumes, mute: {0, 1}]
  /\ \A t \in Setters : setter[t] = Idle \/ setter[t] \in Progress
  /\ cfg \in Params \cup {NoCfg}
  /\ cmd \in Running \cup Halted

(* After a successful HwParams, whatever half-failed attempts preceded it,   *)
(* the codec plays what was asked for: clock family, rate code, sample width *)
(* and mono switch fit together. (For the rates of the code's table: for the *)
(* others see RateIsSet.)                                                    *)
DacPlaysAsAsked ==
  cfg # NoCfg =>
    /\ cfg.rate \in TableRates => DacRate = cfg.rate
    /\ dac.audio = 2 * FreqPoint(cfg.rate) /\ dac.pllx4 = 2 * dac.audio
    /\ dac.bits = cfg.bits
    /\ dac.mono = (cfg.chans = 1)

(* The output is driven and the FIFO requests data while the stream runs and *)
(* only then; parameters set meanwhile, successfully or not, do not disturb  *)
(* it.                                                                       *)
OutputFollowsTrigger ==
  /\ dac.drq = (cmd \in Running)
  /\ dac.route = IF cmd \in Running THEN Route ELSE {}

(* Between two settings the line-out register holds the volume, or 0 when    *)
(* muted: a volume set while muted stays silent until mute is lifted, and    *)
(* starting or stopping the stream changes neither. (With one thread in      *)
(* Setters; with two it does not hold: see the README.)                      *)
VolumeCoherent ==
  touched /\ (\A t \in Setters : setter[t] = Idle) =>
    dac.lineout = IF kctl.mute = 1 THEN 0 ELSE kctl.vol

(* The codec's DAI is a stream in the sense of AudioStream, read off its     *)
(* registers: every HwParams sets rate, width and channels together or       *)
(* leaves no setup, no half-failed HwParams and no volume or mute setting    *)
(* starts, stops or re-rates the sound.                                      *)
Stream == INSTANCE AudioStream WITH
  Exact <- TableParams,
  asked <- cfg,
  setup <- IF cfg = NoCfg THEN NoCfg
           ELSE [rate |-> DacRate, bits |-> dac.bits, chans |-> IF dac.mono THEN 1 ELSE 2],
  flow <- IF dac.drq /\ dac.route = Route THEN "on"
          ELSE IF ~dac.drq /\ dac.route = {} THEN "off" ELSE "half"

ImplementsStream == Stream!Spec

(* t507_codec_impl_linux.c:368, "set rate": whatever rate HwParams accepts   *)
(* is the rate the DAC is set to.                                            *)
RateIsSet == cfg # NoCfg => DacRate = cfg.rate
=============================================================================
