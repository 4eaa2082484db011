------------------------------ MODULE AudioCard -----------------------------
(***************************************************************************)
(* The sound card as the HDF audio framework drives it: every HwParams and *)
(* every trigger of either stream goes to the CPU DAI (the hub, which      *)
(* passes it on to the AC107) and to the codec DAI, then HwParams goes to  *)
(* the DMA platform. Each DAI looks at the stream type for itself. The two *)
(* streams share one thing: codec and hub derive their clocks from the     *)
(* same audio PLL, and each sets its rate.                                 *)
(*                                                                         *)
(* `capture' is CapturePath and `render' is CodecDac; the framework goes   *)
(* from one component to the next as long as they succeed. It may send any *)
(* trigger at any time.                                                    *)
(***************************************************************************)
EXTENDS Naturals

CONSTANTS
  Params,     (* hardware parameters clients ask for                         *)
  KcValues, Volumes, Setters, NoCfg, Idle

ASSUME CardAssumption ==
  /\ Params \subseteq [rate: Nat \ {0}, bits: {8, 16, 24, 32}, chans: 1..2]
  /\ NoCfg \notin Params

VARIABLES
  ahub, ac, capCfg, capFresh, capCmd, capAgain,
  dac, kctl, setter, renCfg, renCmd, touched,
  pll,      (* rate of the audio PLL, times 4                                *)
  width,    (* of each stream: the DMA slave width in bits, 0 if never set   *)
  open,     (* history: of each stream, the parameters of the last HwParams
               that every component took, NoCfg if there is none or one failed
               half-way since                                                *)
  latest    (* history: the rate whose HwParams moved the PLL last, 0 if none *)

captureVars == <<ahub, ac, capCfg, capFresh, capCmd, capAgain>>
renderVars  == <<dac, kctl, setter, renCfg, renCmd, touched>>
vars == <<captureVars, renderVars, pll, width, open, latest>>

Capture == INSTANCE CapturePath WITH
  cfg <- capCfg, fresh <- capFresh, cmd <- capCmd, again <- capAgain

Render == INSTANCE CodecDac WITH cfg <- renCfg, cmd <- renCmd

Streams == {"render", "capture"}

Init ==
  /\ Capture!Init
  /\ Render!Init
  /\ pll = 0
  /\ width = [s \in Streams |-> 0]
  /\ open = [s \in Streams |-> NoCfg]
  /\ latest = 0

CardBound ==
  /\ Capture!T507AhubDeviceInit
  /\ UNCHANGED <<renderVars, pll, width, open, latest>>

(* T507AudioDmaConfigChannel knows the widths of the bus. *)
ConfigAccepts(bits) == bits \in {8, 16, 32}

(* Mutant: an unsupported width is logged and passed over. *)
MutantPlatform(s, p) ==
  /\ width' = [width EXCEPT ![s] = IF ConfigAccepts(p.bits) THEN p.bits ELSE @]
  /\ open' = [open EXCEPT ![s] = p]

(* The DMA platform's part of HwParams. It may run out of memory or be refused
   by the engine whatever the width. *)
Platform(s, p) ==
  \/ /\ ConfigAccepts(p.bits)
     /\ width' = [width EXCEPT ![s] = p.bits]
     /\ open' = [open EXCEPT ![s] = p]
  \/ /\ UNCHANGED width
     /\ open' = [open EXCEPT ![s] = NoCfg]

(* A component fails after others took the parameters: whether the stream runs
   or not, there are none left to rely on, and the caller is told. *)
HalfFailed(s) ==
  /\ open' = [open EXCEPT ![s] = NoCfg]
  /\ UNCHANGED width

(***************************************************************************)
(* HwParams of the render stream. The hub refuses widths it does not know  *)
(* for render as well; the AC107 ignores the call; then the codec. When    *)
(* the hub rejects the width, the codec the rate, or the PLL refuses,      *)
(* nothing changes at all: that is no step here.                           *)
(***************************************************************************)
HubAcceptsWidth(p) == p.bits \in {16, 24, 32}

(* Mutant: the codec programs the PLL to the rate its own divider needs. *)
MutantCodecPll == pll' = dac'.audio

(* The codec sets the PLL as soon as it accepts the rate. *)
CodecPll == pll' = dac'.pllx4

RenderHwParams(p) ==
  /\ Capture!Bound /\ HubAcceptsWidth(p)
  /\ \/ Render!T507CodecImplHwParams(p) /\ Platform("render", p)
     \/ /\ \/ Render!HwParamsClockRefused(p)
           \/ Render!HwParamsBitsRejected(p)
           \/ Render!HwParamsChansRejected(p)
        /\ HalfFailed("render")
  /\ CodecPll
  /\ latest' = p.rate
  /\ UNCHANGED captureVars

(* HwParams of the capture stream: the codec ignores it. The hub sets the PLL
   unless it rejects the parameters or the PLL refuses. *)
HubPll(p) ==
  /\ pll' = ahub'.pll
  /\ latest' = p.rate

CaptureHwParams(p) ==
  /\ \/ Capture!T507AhubDaiHwParams(p) /\ HubPll(p) /\ Platform("capture", p)
     \/ Capture!HwParamsModuleRefused(p) /\ HubPll(p) /\ HalfFailed("capture")
     \/ /\ Capture!HwParamsPllRefused(p) \/ Capture!HwParamsRejected(p)
        /\ UNCHANGED <<pll, width, open, latest>>
  /\ UNCHANGED renderVars

(***************************************************************************)
(* Triggers reach both DAIs; the one whose stream it is not returns.       *)
(***************************************************************************)
Commands == {"start", "resume", "stop", "pause"}

RenderTrigger(c) ==
  /\ Capture!Bound
  /\ Render!T507CodecDaiTrigger(c)
  /\ UNCHANGED <<captureVars, pll, width, open, latest>>

CaptureTrigger(c) ==
  /\ Capture!T507AhubDaiTrigger(c)
  /\ UNCHANGED <<renderVars, pll, width, open, latest>>

(* The framework repeats an operation of capture on the accessory. *)
Accessory ==
  /\ Capture!AccessoryHwParams \/ Capture!AccessoryTrigger
  /\ UNCHANGED <<renderVars, pll, width, open, latest>>

Next ==
  \/ CardBound
  \/ \E p \in Params : RenderHwParams(p)
  \/ \E p \in Params : CaptureHwParams(p)
  \/ \E c \in Commands : RenderTrigger(c)
  \/ \E c \in Commands : CaptureTrigger(c)
  \/ Accessory

Spec == Init /\ [][Next]_vars

-----------------------------------------------------------------------------
(* What the streams really run at: the codec halves the PLL for its module
   clock, the hub divides it by its two register values. *)
RenderRate == (Render!RateOf[dac.fs + 1] * ((pll \div 2) \div 25600)) \div 1920

CaptureRate ==
  pll \div (Capture!Ratios[ahub.bclk] * Capture!Slots * Capture!SlotWidth)

SameFamily(rate) == Render!FreqPoint(latest) = Render!FreqPoint(rate)

(* Both streams run at their rates as long as whoever moved the shared PLL   *)
(* last asked for a rate of the same family, in any order and after any      *)
(* failures of either stream: the two drivers program the PLL to the same    *)
(* multiples. (With a rate of the other family the stream already running is *)
(* detuned: see the README.)                                                 *)
RatesHold ==
  /\ renCfg \in Render!TableParams /\ SameFamily(renCfg.rate) => RenderRate = renCfg.rate
  /\ Capture!Configured /\ SameFamily(capCfg.rate) => CaptureRate = capCfg.rate

(* Unless an HwParams failed half-way, a stream has one width in every       *)
(* component it passes through, that of the last HwParams that succeeded,    *)
(* whichever others were rejected since and whatever was started, paused or  *)
(* stopped: DAI registers and DMA slave width agree although each component  *)
(* accepts widths of its own. An AC107 that was reset by a stop or a pause   *)
(* has its default width, but transmits nothing until it is set again.       *)
OpenAgrees ==
  /\ open["render"] # NoCfg =>
       /\ renCfg = open["render"]
       /\ dac.bits = open["render"].bits /\ width["render"] = dac.bits
  /\ open["capture"] # NoCfg =>
       /\ ahub.bits = open["capture"].bits /\ width["capture"] = ahub.bits
       /\ Capture!AcTransmits => ac.bits = ahub.bits
=============================================================================
