--------------------------- MODULE AudioCardProofs --------------------------
(***************************************************************************)
(* Theorems about AudioCard, for any parameters clients ask for, controls  *)
(* and control threads.                                                    *)
(***************************************************************************)
EXTENDS AudioCard, TLAPS

USE CardAssumption

-----------------------------------------------------------------------------
(* The registers and tables the streams' rates and widths are read from.     *)
Fields ==
  /\ {"pll", "bclk", "bits"} \subseteq DOMAIN ahub
  /\ {"bits", "power"} \subseteq DOMAIN ac
  /\ {"pllx4", "audio", "fs", "bits"} \subseteq DOMAIN dac
  /\ DOMAIN open = Streams /\ DOMAIN width = Streams

(* Once a stream has parameters the PLL is where the latest HwParams that    *)
(* moved it, of either stream, put it.                                       *)
Clocked == renCfg # NoCfg \/ capCfg # NoCfg => pll = 4 * Render!FreqPoint(latest)

(* The codec holds the parameters of its stream.                             *)
Rendered ==
  renCfg # NoCfg =>
    /\ renCfg \in Params
    /\ dac.bits = renCfg.bits
    /\ renCfg.rate \in Render!TableRates =>
         dac.fs \in 0..7 /\ renCfg.rate \in Render!SampleRateConv[dac.fs + 1]

(* The hub holds the parameters of its stream, and so does the AC107 unless  *)
(* it was stopped since.                                                     *)
Captured ==
  /\ capCfg # NoCfg =>
       /\ capCfg \in Params /\ capCfg.rate \in Capture!AcceptedRates
       /\ ahub.bclk \in 1..15 /\ Capture!Ratios[ahub.bclk] = Capture!BclkRatio(capCfg.rate)
       /\ ahub.bits = capCfg.bits
  /\ Capture!Configured => ac.bits = capCfg.bits
  /\ capAgain = "trigger" /\ capCmd \notin Capture!Running => ~Capture!Configured

(* What the components hold of parameters that all of them took. The AC107   *)
(* holds them while it is powered: every reset takes its power away.         *)
Opened ==
  /\ open["render"] # NoCfg =>
       renCfg = open["render"] /\ width["render"] = renCfg.bits
  /\ open["capture"] # NoCfg =>
       /\ ahub.bits = open["capture"].bits /\ width["capture"] = open["capture"].bits
       /\ capAgain = "params" => capCfg = open["capture"]
       /\ ac.power => ac.bits = open["capture"].bits

IInv == Fields /\ Clocked /\ Rendered /\ Captured /\ Opened

-----------------------------------------------------------------------------
(* The divisors of the hub are exact for every rate it accepts.              *)
LEMMA HubExact ==
  ASSUME NEW r \in Capture!AcceptedRates
  PROVE  /\ Capture!BclkRatio(r) \in Nat
         /\ (4 * Render!FreqPoint(r)) \div (Capture!BclkRatio(r) * Capture!Slots * Capture!SlotWidth) = r
<1>1. CASE r \in Capture!Rates48
  <2>1. Render!FreqPoint(r) = 24576000 /\ Capture!PllClk(r) = 98304000
    BY <1>1 DEF Render!FreqPoint, Render!Rates48, Capture!Rates48, Capture!PllClk, Capture!FreqPoint
  <2>2. Capture!BclkRatio(r) = 98304000 \div (64 * r)
    BY <1>1, <2>1 DEF Capture!BclkRatio, Capture!Slots, Capture!SlotWidth, Capture!Rates48
  <2>3. QED
    BY <1>1, <2>1, <2>2 DEF Capture!Slots, Capture!SlotWidth, Capture!Rates48
<1>2. CASE r \in Capture!Rates44
  <2>1. Render!FreqPoint(r) = 22579200 /\ Capture!PllClk(r) = 90316800
    BY <1>2 DEF Render!FreqPoint, Render!Rates48, Capture!Rates48, Capture!Rates44,
                Capture!PllClk, Capture!FreqPoint
  <2>2. Capture!BclkRatio(r) = 90316800 \div (64 * r)
    BY <1>2, <2>1 DEF Capture!BclkRatio, Capture!Slots, Capture!SlotWidth, Capture!Rates44
  <2>3. QED
    BY <1>2, <2>1, <2>2 DEF Capture!Slots, Capture!SlotWidth, Capture!Rates44
<1>3. QED
  BY <1>1, <1>2 DEF Capture!AcceptedRates

(* A code of the codec's table stands for the rates of its row.              *)
LEMMA CodecExact ==
  ASSUME NEW c \in 0..7, NEW r \in Render!SampleRateConv[c + 1]
  PROVE  (Render!RateOf[c + 1] * (((4 * Render!FreqPoint(r)) \div 2) \div 25600)) \div 1920 = r
<1> USE DEF Render!SampleRateConv, Render!RateOf, Render!FreqPoint, Render!Rates48
<1>0. CASE c = 0
  BY <1>0
<1>1. CASE c = 1
  BY <1>1
<1>2. CASE c = 2
  BY <1>2
<1>3. CASE c = 3
  BY <1>3
<1>4. CASE c = 4
  BY <1>4
<1>5. CASE c = 5
  BY <1>5
<1>6. CASE c = 6
  BY <1>6
<1>7. CASE c = 7
  BY <1>7
<1>8. QED
  BY ONLY <1>0, <1>1, <1>2, <1>3, <1>4, <1>5, <1>6, <1>7, c \in 0..7

(* A supported ratio has a register value.                                   *)
LEMMA DivisorFound ==
  ASSUME NEW r, Capture!SupportedRatio(r)
  PROVE  Capture!RatioCode(r) \in 1..15 /\ Capture!Ratios[Capture!RatioCode(r)] = r
<1>1. \E i \in DOMAIN Capture!Ratios : Capture!Ratios[i] = r
  BY DEF Capture!SupportedRatio
<1>2. /\ Capture!RatioCode(r) \in DOMAIN Capture!Ratios
      /\ Capture!Ratios[Capture!RatioCode(r)] = r
  BY <1>1, Zenon DEF Capture!RatioCode
<1>3. DOMAIN Capture!Ratios = 1..15
  BY DEF Capture!Ratios
<1>4. QED
  BY <1>2, <1>3

(* The two drivers put the PLL at the same multiple of the base frequency.   *)
LEMMA SamePll ==
  ASSUME NEW r
  PROVE  Capture!PllClk(r) = 4 * Render!FreqPoint(r)
BY DEF Capture!PllClk, Capture!FreqPoint, Capture!Rates48, Render!FreqPoint, Render!Rates48

-----------------------------------------------------------------------------
(* The code written for a rate of the table is that of a row with the rate.  *)
LEMMA CodeOfRow ==
  ASSUME NEW r \in Render!TableRates, NEW b \in Render!RateBits(r)
  PROVE  b \in 0..7 /\ r \in Render!SampleRateConv[b + 1]
<1> DEFINE found == {i \in DOMAIN Render!SampleRateConv : r \in Render!SampleRateConv[i]}
<1>1. found # {}
  BY DEF Render!TableRates
<1>2. Render!RateBits(r) = {i - 1 : i \in found}
  BY <1>1 DEF Render!RateBits
<1>3. PICK i \in found : b = i - 1
  BY <1>2
<1>4. DOMAIN Render!SampleRateConv = 1..8
  BY DEF Render!SampleRateConv
<1>5. i \in 1..8 /\ r \in Render!SampleRateConv[i]
  BY <1>3, <1>4
<1>6. b \in 0..7 /\ b + 1 = i
  BY <1>3, <1>5
<1>7. QED
  BY <1>5, <1>6

(* HwParams of the codec, by the stage it ends at.                           *)
LEMMA CodecSets ==
  ASSUME Fields, NEW p \in Params, Render!T507CodecImplHwParams(p)
  PROVE  /\ {"pllx4", "audio", "fs", "bits"} \subseteq DOMAIN dac'
         /\ renCfg' = p /\ Rendered' /\ dac'.pllx4 = 4 * Render!FreqPoint(p.rate)
<1> DEFINE clocked == Render!WithClocks(dac, p)
           mono == p.chans = 1
<1>0. PICK d \in Render!WithFormat(clocked, p) : dac' = [d EXCEPT !.mono = mono]
  BY Zenon DEF Render!T507CodecImplHwParams
<1>1. PICK b \in Render!RateBits(p.rate) : d = [clocked EXCEPT !.bits = p.bits, !.fs = b]
  BY DEF Render!WithFormat
<1>2. /\ {"pllx4", "audio", "fs", "bits"} \subseteq DOMAIN dac'
      /\ dac'.pllx4 = 4 * Render!FreqPoint(p.rate) /\ dac'.bits = p.bits /\ dac'.fs = b
  <2>1. /\ {"pllx4", "audio", "fs", "bits"} \subseteq DOMAIN clocked
        /\ clocked.pllx4 = 4 * Render!FreqPoint(p.rate)
    BY DEF Fields, Render!WithClocks
  <2> HIDE DEF clocked, mono
  <2>2. /\ {"pllx4", "audio", "fs", "bits"} \subseteq DOMAIN d
        /\ d.pllx4 = clocked.pllx4 /\ d.bits = p.bits /\ d.fs = b
    BY <1>1, <2>1
  <2>3. QED
    BY <1>0, <2>1, <2>2
<1>3. renCfg' = p
  BY DEF Render!T507CodecImplHwParams
<1>4. p.rate \in Render!TableRates =>
        dac'.fs \in 0..7 /\ p.rate \in Render!SampleRateConv[dac'.fs + 1]
  BY <1>2, CodeOfRow
<1>5. Rendered'
  BY <1>2, <1>3, <1>4 DEF Rendered
<1>6. QED
  BY <1>2, <1>3, <1>5

LEMMA CodecFails ==
  ASSUME Fields, NEW p \in Params,
         \/ Render!HwParamsClockRefused(p) \/ Render!HwParamsBitsRejected(p)
         \/ Render!HwParamsChansRejected(p)
  PROVE  /\ {"pllx4", "audio", "fs", "bits"} \subseteq DOMAIN dac'
         /\ renCfg' = NoCfg /\ dac'.pllx4 = 4 * Render!FreqPoint(p.rate)
<1>1. CASE Render!HwParamsClockRefused(p)
  BY <1>1 DEF Fields, Render!HwParamsClockRefused
<1>2. CASE Render!HwParamsBitsRejected(p)
  BY <1>2 DEF Fields, Render!HwParamsBitsRejected, Render!WithClocks
<1>3. CASE Render!HwParamsChansRejected(p)
  <2>1. PICK b \in Render!RateBits(p.rate) :
          dac' = [[dac EXCEPT !.pllx4 = 4 * Render!FreqPoint(p.rate),
                              !.audio = 2 * Render!FreqPoint(p.rate)]
                  EXCEPT !.bits = p.bits, !.fs = b]
    BY <1>3 DEF Render!HwParamsChansRejected, Render!WithFormat, Render!WithClocks
  <2>2. renCfg' = NoCfg
    BY <1>3 DEF Render!HwParamsChansRejected
  <2>3. QED
    BY <2>1, <2>2 DEF Fields
<1>4. QED
  BY <1>1, <1>2, <1>3

(* What the DMA platform leaves in `open' and `width'.                       *)
LEMMA PlatformSets ==
  ASSUME Fields, NEW s \in Streams, NEW p \in Params, Platform(s, p) \/ HalfFailed(s)
  PROVE  /\ DOMAIN open' = Streams /\ DOMAIN width' = Streams
         /\ open'[s] # NoCfg => Platform(s, p) /\ open'[s] = p /\ width'[s] = p.bits
         /\ \A t \in Streams \ {s} : open'[t] = open[t] /\ width'[t] = width[t]
BY DEF Fields, Platform, HalfFailed

(* Render operations leave the capture stream alone but for the PLL.         *)
LEMMA RenderHwParamsStep ==
  ASSUME IInv, NEW p \in Params, RenderHwParams(p)
  PROVE  IInv'
<1> USE DEF IInv
<1>1. /\ UNCHANGED captureVars /\ latest' = p.rate /\ pll' = dac'.pllx4
      /\ Platform("render", p) \/ HalfFailed("render")
  BY DEF RenderHwParams, CodecPll
<1>2. /\ {"pllx4", "audio", "fs", "bits"} \subseteq DOMAIN dac'
      /\ dac'.pllx4 = 4 * Render!FreqPoint(p.rate)
      /\ Rendered' /\ (renCfg' = p \/ (renCfg' = NoCfg /\ HalfFailed("render")))
  <2>1. CASE Render!T507CodecImplHwParams(p)
    BY <2>1, CodecSets
  <2>2. CASE (\/ Render!HwParamsClockRefused(p) \/ Render!HwParamsBitsRejected(p)
              \/ Render!HwParamsChansRejected(p)) /\ HalfFailed("render")
    BY <2>2, CodecFails DEF Rendered
  <2>3. QED
    BY <2>1, <2>2 DEF RenderHwParams
<1>3. "render" \in Streams /\ "capture" \in Streams \ {"render"}
  BY DEF Streams
<1>4. /\ DOMAIN open' = Streams /\ DOMAIN width' = Streams
      /\ open'["render"] # NoCfg => open'["render"] = p /\ width'["render"] = p.bits
      /\ open'["capture"] = open["capture"] /\ width'["capture"] = width["capture"]
  BY <1>1, <1>3, PlatformSets
<1>5. Fields'
  BY <1>1, <1>2, <1>4 DEF Fields, captureVars
<1>6. Clocked'
  BY <1>1, <1>2 DEF Clocked
<1>7. Captured'
  BY <1>1 DEF Captured, captureVars, Capture!Configured
<1>8. open'["render"] # NoCfg => renCfg' = p
  BY <1>2, <1>3 DEF HalfFailed, Fields
<1>9. Opened'
  BY <1>1, <1>4, <1>8 DEF Opened, captureVars, Capture!Configured
<1>10. QED
  BY <1>2, <1>5, <1>6, <1>7, <1>9

-----------------------------------------------------------------------------
(* Capture operations leave the render stream alone but for the PLL.         *)
LEMMA CaptureHwParamsStep ==
  ASSUME IInv, NEW p \in Params, CaptureHwParams(p)
  PROVE  IInv'
<1> USE DEF IInv
<1>1. UNCHANGED renderVars
  BY DEF CaptureHwParams
<1>2. Rendered'
  BY <1>1 DEF Rendered, renderVars
<1>3. "capture" \in Streams /\ "render" \in Streams \ {"capture"}
  BY DEF Streams
<1>5. ASSUME Platform("capture", p) \/ HalfFailed("capture")
      PROVE  /\ DOMAIN open' = Streams /\ DOMAIN width' = Streams
             /\ open'["capture"] # NoCfg => open'["capture"] = p /\ width'["capture"] = p.bits
             /\ open'["render"] = open["render"] /\ width'["render"] = width["render"]
  BY <1>3, <1>5, PlatformSets
<1>6. CASE Capture!T507AhubDaiHwParams(p) /\ HubPll(p) /\ Platform("capture", p)
  <2>1. /\ p.rate \in Capture!AcceptedRates /\ Capture!SupportedRatio(Capture!BclkRatio(p.rate))
        /\ capCfg' = p /\ capAgain' = "params"
    BY <1>6 DEF Capture!T507AhubDaiHwParams, Capture!AhubAccepts, Capture!AhubConfigured
  <2>2. /\ ahub'.pll = Capture!PllClk(p.rate)
        /\ ahub'.bclk = Capture!RatioCode(Capture!BclkRatio(p.rate)) /\ ahub'.bits = p.bits
        /\ DOMAIN ahub' = DOMAIN ahub
    BY <1>6 DEF Capture!T507AhubDaiHwParams, Capture!AhubConfigured, Fields
  <2>3. ac'.bits = p.bits /\ DOMAIN ac' = DOMAIN ac
    BY <1>6 DEF Capture!T507AhubDaiHwParams, Capture!Ac107DaiHwParams, Fields
  <2>4. /\ ahub'.bclk \in 1..15
        /\ Capture!Ratios[ahub'.bclk] = Capture!BclkRatio(p.rate)
    BY <2>1, <2>2, DivisorFound
  <2>5. Fields'
    BY <1>1, <1>5, <1>6, <2>2, <2>3 DEF Fields, renderVars
  <2>6. Clocked'
    BY <1>6, <2>2, SamePll DEF Clocked, HubPll
  <2>7. Captured'
    BY <2>1, <2>2, <2>3, <2>4 DEF Captured, Capture!Configured
  <2>8. Opened'
    BY <1>1, <1>5, <1>6, <2>1, <2>2, <2>3 DEF Opened, renderVars
  <2>9. QED
    BY <1>2, <2>5, <2>6, <2>7, <2>8
<1>7. CASE Capture!HwParamsModuleRefused(p) /\ HubPll(p) /\ HalfFailed("capture")
  <2>1. /\ ahub'.pll = Capture!PllClk(p.rate) /\ DOMAIN ahub' = DOMAIN ahub
        /\ capCfg' = NoCfg /\ ac' = ac
    BY <1>7 DEF Capture!HwParamsModuleRefused, Capture!AhubModuleRefused, Fields
  <2>2. Fields'
    BY <1>1, <1>5, <1>7, <2>1 DEF Fields, renderVars
  <2>3. Clocked'
    BY <1>7, <2>1, SamePll DEF Clocked, HubPll
  <2>4. Captured' /\ Opened'
    <3>1. open'["capture"] = NoCfg
      BY <1>3, <1>7 DEF HalfFailed, Fields
    <3>2. QED
      BY <1>1, <1>5, <1>7, <2>1, <3>1 DEF Captured, Opened, Capture!Configured, renderVars
  <2>5. QED
    BY <1>2, <2>2, <2>3, <2>4
<1>8. CASE /\ Capture!HwParamsPllRefused(p) \/ Capture!HwParamsRejected(p)
           /\ UNCHANGED <<pll, width, open, latest>>
  <2>1. UNCHANGED <<ahub, ac, capCfg, capFresh, capCmd>> /\ capAgain' = "none"
    BY <1>8 DEF Capture!HwParamsPllRefused, Capture!HwParamsRejected, Capture!AhubPllRefused
  <2>2. Fields' /\ Clocked'
    BY <1>1, <1>8, <2>1 DEF Fields, Clocked, renderVars
  <2>3. Captured' /\ Opened'
    BY <1>1, <1>8, <2>1 DEF Captured, Opened, Capture!Configured, renderVars
  <2>4. QED
    BY <1>2, <2>2, <2>3
<1>9. QED
  BY <1>6, <1>7, <1>8 DEF CaptureHwParams

(* Steps that set no parameters: they leave `open', `width' and the PLL.     *)
LEMMA TriggerStep ==
  ASSUME IInv, UNCHANGED <<pll, width, open, latest>>,
         \/ \E c \in Commands : RenderTrigger(c)
         \/ \E c \in Commands : CaptureTrigger(c)
         \/ CardBound \/ Accessory
  PROVE  IInv'
<1> USE DEF IInv
<1>1. ASSUME NEW c \in Commands, RenderTrigger(c) PROVE IInv'
  <2>1. /\ UNCHANGED captureVars /\ renCfg' = renCfg
        /\ DOMAIN dac' = DOMAIN dac /\ dac'.bits = dac.bits /\ dac'.fs = dac.fs
    BY <1>1 DEF RenderTrigger, Render!T507CodecDaiTrigger, Render!Trigger, Fields
  <2>2. Fields' /\ Clocked' /\ Rendered'
    BY <2>1 DEF Fields, Clocked, Rendered, captureVars
  <2>3. Captured' /\ Opened'
    BY <2>1 DEF Captured, Opened, Capture!Configured, captureVars
  <2>4. QED
    BY <2>2, <2>3
<1>2. ASSUME UNCHANGED renderVars, DOMAIN ahub' = DOMAIN ahub,
             {"bits", "power"} \subseteq DOMAIN ac',
             capAgain' = "params" => capAgain = "params" /\ capCfg' = capCfg,
             ac'.power => \/ ac.power /\ ac'.bits = ac.bits
                          \/ capAgain = "params" /\ ac'.bits = capCfg.bits,
             ahub'.bclk = ahub.bclk, ahub'.bits = ahub.bits,
             capCfg' = capCfg \/ capCfg' = NoCfg, (Capture!Configured)' => Capture!Configured,
             (Capture!Configured)' => ac'.bits = capCfg.bits,
             capAgain' = "trigger" /\ capCmd' \notin Capture!Running => ~(Capture!Configured)'
      PROVE  IInv'
  <2>1. Fields' /\ Clocked' /\ Rendered'
    BY <1>2 DEF Fields, Clocked, Rendered, renderVars
  <2>2. Captured'
    BY <1>2 DEF Captured, Capture!Configured
  <2>3. Opened'
    BY <1>2 DEF Opened, Capture!Configured, renderVars
  <2>4. QED
    BY <2>1, <2>2, <2>3
<1>3. ASSUME NEW c \in Commands, CaptureTrigger(c) PROVE IInv'
  <2>1. /\ UNCHANGED renderVars /\ DOMAIN ahub' = DOMAIN ahub
        /\ ahub'.bclk = ahub.bclk /\ ahub'.bits = ahub.bits
    BY <1>3 DEF CaptureTrigger, Capture!T507AhubDaiTrigger, Capture!AhubRoute, Fields
  <2>2. /\ capCfg' = IF c = "stop" THEN NoCfg ELSE capCfg
        /\ capFresh' = (capFresh /\ c \in Capture!Running) /\ capCmd' = c
    BY <1>3, Zenon DEF CaptureTrigger, Capture!T507AhubDaiTrigger
  <2>3. /\ {"bits", "power"} \subseteq DOMAIN ac'
        /\ c \in Capture!Running => ac'.bits = ac.bits /\ ac'.power = ac.power
        /\ c \notin Capture!Running => ac'.power = FALSE
    BY <1>3 DEF CaptureTrigger, Capture!T507AhubDaiTrigger, Capture!Ac107Start,
                Capture!Ac107Stop, Capture!AcDefault, Fields
  <2>4. (Capture!Configured)' => Capture!Configured /\ c \in Capture!Running
    BY <2>2 DEF Capture!Configured
  <2>5. capAgain' = "trigger"
    BY <1>3 DEF CaptureTrigger, Capture!T507AhubDaiTrigger
  <2>6. QED
    BY <1>2, <2>1, <2>2, <2>3, <2>4, <2>5 DEF Captured
<1>4. CASE CardBound
  <2>1. /\ UNCHANGED <<renderVars, ac, capCfg, capFresh, capCmd, capAgain>>
        /\ ahub' = [ahub EXCEPT !.routed = TRUE]
    BY <1>4 DEF CardBound, Capture!T507AhubDeviceInit, Capture!AhubDeviceInit
  <2>2. QED
    BY <1>2, <2>1 DEF Fields, Captured, Capture!Configured
<1>5. CASE Accessory
  <2>1. UNCHANGED <<renderVars, ahub, capCfg, capFresh, capCmd>> /\ capAgain' = "none"
    BY <1>5 DEF Accessory, Capture!AccessoryHwParams, Capture!AccessoryTrigger
  <2>2. /\ {"bits", "power"} \subseteq DOMAIN ac'
        /\ Capture!Configured => ac'.bits = capCfg.bits
        /\ ac'.power => \/ ac.power /\ ac'.bits = ac.bits
                        \/ capAgain = "params" /\ ac'.bits = capCfg.bits
    <3>1. CASE Capture!AccessoryHwParams
      BY <3>1 DEF Capture!AccessoryHwParams, Capture!Ac107DaiHwParams, Fields
    <3>2. CASE Capture!AccessoryTrigger
      BY <3>2 DEF Capture!AccessoryTrigger, Capture!Ac107Start, Capture!Ac107Stop,
                  Capture!AcDefault, Fields, Captured
    <3>3. QED
      BY <1>5, <3>1, <3>2 DEF Accessory
  <2>3. QED
    BY <1>2, <2>1, <2>2 DEF Fields, Captured, Capture!Configured
<1>6. QED
  BY <1>1, <1>3, <1>4, <1>5

-----------------------------------------------------------------------------
LEMMA InvInit == Init => IInv
<1> SUFFICES ASSUME Init PROVE IInv
  OBVIOUS
<1>1. renCfg = NoCfg /\ capCfg = NoCfg /\ capAgain = "none"
  BY DEF Init, Render!Init, Capture!Init
<1>2. Clocked /\ Rendered /\ Captured
  BY <1>1 DEF Clocked, Rendered, Captured, Capture!Configured
<1>3. Opened
  BY DEF Init, Opened, Streams
<1>4. {"pll", "bclk", "bits"} \subseteq DOMAIN ahub /\ {"bits", "power"} \subseteq DOMAIN ac
  BY DEF Init, Capture!Init, Capture!AhubInit, Capture!AcInit, Capture!AcDefault
<1>5. {"pllx4", "audio", "fs", "bits"} \subseteq DOMAIN dac
  BY DEF Init, Render!Init
<1>6. Fields
  BY <1>4, <1>5 DEF Init, Fields
<1>7. QED
  BY <1>2, <1>3, <1>6 DEF IInv

LEMMA InvStep == IInv /\ [Next]_vars => IInv'
<1> SUFFICES ASSUME IInv, [Next]_vars PROVE IInv'
  OBVIOUS
<1>1. CASE UNCHANGED vars
  BY <1>1 DEF vars, captureVars, renderVars, IInv, Fields, Clocked, Rendered, Captured,
              Opened, Capture!Configured
<1>2. CASE \E c \in Commands : RenderTrigger(c)
  BY <1>2, TriggerStep DEF RenderTrigger
<1>3. CASE \E c \in Commands : CaptureTrigger(c)
  BY <1>3, TriggerStep DEF CaptureTrigger
<1>4. CASE CardBound
  BY <1>4, TriggerStep DEF CardBound
<1>5. CASE Accessory
  BY <1>5, TriggerStep DEF Accessory
<1>6. QED
  BY <1>1, <1>2, <1>3, <1>4, <1>5, RenderHwParamsStep,
     CaptureHwParamsStep DEF Next

LEMMA Inductive == Spec => []IInv
BY InvInit, InvStep, PTL DEF Spec

-----------------------------------------------------------------------------
(* Both streams run at their rates while the PLL was last moved for a rate   *)
(* of their family, whatever they are and whatever failed.                   *)
THEOREM StreamsKeepRates == Spec => []RatesHold
<1>1. ASSUME IInv PROVE RatesHold
  <2> USE <1>1 DEF IInv
  <2>1. ASSUME renCfg \in Render!TableParams, SameFamily(renCfg.rate)
        PROVE  RenderRate = renCfg.rate
    <3>1. renCfg # NoCfg /\ renCfg.rate \in Render!TableRates
      BY <2>1 DEF Render!TableParams
    <3>2. pll = 4 * Render!FreqPoint(renCfg.rate)
      BY <2>1, <3>1 DEF Clocked, SameFamily
    <3>3. dac.fs \in 0..7 /\ renCfg.rate \in Render!SampleRateConv[dac.fs + 1]
      BY <3>1 DEF Rendered
    <3>4. QED
      BY <3>2, <3>3, CodecExact DEF RenderRate
  <2>2. ASSUME Capture!Configured, SameFamily(capCfg.rate)
        PROVE  CaptureRate = capCfg.rate
    <3>1. capCfg # NoCfg
      BY <2>2 DEF Capture!Configured
    <3>2. pll = 4 * Render!FreqPoint(capCfg.rate)
      BY <2>2, <3>1 DEF Clocked, SameFamily
    <3>3. /\ capCfg.rate \in Capture!AcceptedRates
          /\ Capture!Ratios[ahub.bclk] = Capture!BclkRatio(capCfg.rate)
      BY <3>1 DEF Captured
    <3>4. QED
      BY <3>2, <3>3, HubExact DEF CaptureRate
  <2>3. QED
    BY <2>1, <2>2 DEF RatesHold
<1>2. QED
  BY Inductive, <1>1, PTL

(* Unless an HwParams failed half-way, the registers of a stream's ends and  *)
(* the DMA have the width of the last one that succeeded, running, paused or *)
(* stopped; an AC107 without it transmits nothing.                           *)
THEOREM WidthsAgree == Spec => []OpenAgrees
<1>1. ASSUME IInv PROVE OpenAgrees
  <2> USE <1>1 DEF IInv
  <2>1. ASSUME open["render"] # NoCfg
        PROVE  /\ renCfg = open["render"]
               /\ dac.bits = open["render"].bits /\ width["render"] = dac.bits
    <3>1. renCfg = open["render"] /\ width["render"] = renCfg.bits
      BY <2>1 DEF Opened
    <3>2. QED
      BY <2>1, <3>1 DEF Rendered
  <2>2. ASSUME open["capture"] # NoCfg
        PROVE  /\ ahub.bits = open["capture"].bits /\ width["capture"] = ahub.bits
               /\ Capture!AcTransmits => ac.bits = ahub.bits
    BY <2>2 DEF Opened, Capture!AcTransmits
  <2>3. QED
    BY <2>1, <2>2 DEF OpenAgrees
<1>2. QED
  BY Inductive, <1>1, PTL
=============================================================================
