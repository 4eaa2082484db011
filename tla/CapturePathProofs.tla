-------------------------- MODULE CapturePathProofs --------------------------
(***************************************************************************)
(* Theorems about CapturePath, for any parameters clients ask for and any  *)
(* values of the controls.                                                 *)
(***************************************************************************)
EXTENDS CapturePath, TLAPS

USE ParamsAssumption

-----------------------------------------------------------------------------
(* The tables of divisors and rates.                                         *)

LEMMA RatioFound ==
  ASSUME NEW r, SupportedRatio(r)
  PROVE  RatioCode(r) \in 1..15 /\ Ratios[RatioCode(r)] = r
<1>1. \E i \in DOMAIN Ratios : Ratios[i] = r
  BY DEF SupportedRatio
<1>2. RatioCode(r) \in DOMAIN Ratios /\ Ratios[RatioCode(r)] = r
  BY <1>1, Zenon DEF RatioCode
<1>3. DOMAIN Ratios = 1..15
  BY DEF Ratios
<1>4. QED
  BY <1>2, <1>3

LEMMA RatePlaces ==
  /\ DOMAIN SampleRates = 1..9
  /\ SampleRates[1] = 8000 /\ SampleRates[2] = 11025 /\ SampleRates[3] = 12000
  /\ SampleRates[4] = 16000 /\ SampleRates[5] = 22050 /\ SampleRates[6] = 24000
  /\ SampleRates[7] = 32000 /\ SampleRates[8] = 44100 /\ SampleRates[9] = 48000
BY DEF SampleRates

LEMMA RateFound ==
  ASSUME NEW r, ac.rate \in 0..8
  PROVE  /\ RateRegister(r) \in 0..8
         /\ (\E i \in DOMAIN SampleRates : SampleRates[i] = r) =>
              SampleRates[RateRegister(r) + 1] = r
<1>1. CASE \E i \in DOMAIN SampleRates : SampleRates[i] = r
  <2> DEFINE c == CHOOSE i \in DOMAIN SampleRates : SampleRates[i] = r
  <2>1. c \in DOMAIN SampleRates /\ SampleRates[c] = r
    BY <1>1, Zenon
  <2>2. RateRegister(r) = c - 1
    BY <1>1 DEF RateRegister
  <2> HIDE DEF c
  <2>3. c \in 1..9
    BY <2>1, RatePlaces
  <2>4. RateRegister(r) \in 0..8 /\ RateRegister(r) + 1 = c
    BY <2>2, <2>3
  <2>5. QED
    BY <2>1, <2>4
<1>2. CASE ~\E i \in DOMAIN SampleRates : SampleRates[i] = r
  BY <1>2 DEF RateRegister
<1>3. QED
  BY <1>1, <1>2

(* At the rates of the AC107 the divisions are exact.                        *)
LEMMA Exactly ==
  ASSUME NEW r, \E i \in DOMAIN SampleRates : SampleRates[i] = r
  PROVE  /\ PllClk(r) \div (BclkRatio(r) * Slots * SlotWidth) = r
         /\ PllClk(r) \div (PllClk(r) \div Mclk(r)) \in {12288000, 11289600}
<1>1. r \in {8000, 12000, 16000, 24000, 32000, 48000} \/ r \in {11025, 22050, 44100}
  BY RatePlaces
<1>2. CASE r \in {8000, 12000, 16000, 24000, 32000, 48000}
  <2>1. PllClk(r) = 98304000 /\ Mclk(r) = 12288000
    BY <1>2 DEF PllClk, Mclk, FreqPoint, Rates48
  <2>2. BclkRatio(r) = 98304000 \div (64 * r)
    BY <2>1, <1>2 DEF BclkRatio, Slots, SlotWidth
  <2>3. QED
    BY <1>2, <2>1, <2>2 DEF Slots, SlotWidth
<1>3. CASE r \in {11025, 22050, 44100}
  <2>1. PllClk(r) = 90316800 /\ Mclk(r) = 11289600
    BY <1>3 DEF PllClk, Mclk, FreqPoint, Rates48
  <2>2. BclkRatio(r) = 90316800 \div (64 * r)
    BY <2>1, <1>3 DEF BclkRatio, Slots, SlotWidth
  <2>3. QED
    BY <1>3, <2>1, <2>2 DEF Slots, SlotWidth
<1>4. QED
  BY <1>1, <1>2, <1>3

-----------------------------------------------------------------------------
(* The registers of both ends and the histories.                             *)
HubRegisters ==
  [routed: BOOLEAN, pll: Nat, module: Nat, mclk: 0..15, bclk: 0..15, fmt: {"none", "i2s"},
   period: {0, 31}, bits: Bits \cup {0}, chans: 0..2, rx: SUBSET RxChain]

AcRegisters ==
  [power: BOOLEAN, sysclk: BOOLEAN, modClk: BOOLEAN, modRst: BOOLEAN, adc: BOOLEAN,
   ctrl: SUBSET {"SDO", "TXEN", "GEN"}, fmt: {"none", "i2s"}, period: {0, 31}, rate: 0..8,
   bits: Bits, chans: 1..2, kc: KcValues]

Shapes ==
  /\ ahub \in HubRegisters /\ ac \in AcRegisters
  /\ cfg \in Params \cup {NoCfg}
  /\ cmd \in Running \cup Halted
  /\ again \in {"none", "params", "trigger"}

(* The hub holds the parameters p, and so does the AC107, which is powered.  *)
HubHolds(p) ==
  /\ SupportedRatio(PllClk(p.rate) \div Mclk(p.rate)) /\ SupportedRatio(BclkRatio(p.rate))
  /\ ahub.pll = PllClk(p.rate) /\ ahub.module = PllClk(p.rate)
  /\ ahub.mclk = RatioCode(PllClk(p.rate) \div Mclk(p.rate))
  /\ ahub.bclk = RatioCode(BclkRatio(p.rate))
  /\ ahub.fmt = "i2s" /\ ahub.period = 31 /\ ahub.bits = p.bits /\ ahub.chans = p.chans

AcHolds(p) ==
  /\ ac.power /\ ac.sysclk /\ ac.modClk /\ ac.modRst /\ ac.adc /\ "SDO" \in ac.ctrl
  /\ ac.fmt = "i2s" /\ ac.period = 31 /\ ac.bits = p.bits /\ ac.chans = p.chans
  /\ (\E i \in DOMAIN SampleRates : SampleRates[i] = p.rate) => AdcRate = p.rate

Holds ==
  /\ Configured => HubHolds(cfg) /\ AcHolds(cfg)
  /\ again = "params" => Configured
  /\ again = "trigger" /\ cmd \notin Running => ~Configured

(* Both ends follow the trigger.                                             *)
Follows ==
  /\ cmd \in Running =>
       ahub.routed /\ ahub.rx = RxChain /\ {"TXEN", "GEN"} \subseteq ac.ctrl
  /\ HaltedIsSilent

IInv == Shapes /\ Holds /\ Follows

(* What the operations of the AC107 do to its registers.                     *)
LEMMA AcParamsSets ==
  ASSUME ac \in AcRegisters, NEW p \in Params, Ac107DaiHwParams(p)
  PROVE  /\ ac' \in AcRegisters /\ AcHolds(p)' /\ ac'.ctrl = ac.ctrl \cup {"SDO"}
         /\ ac'.kc = ac.kc
<1>1. RateRegister(p.rate) \in 0..8
      /\ ((\E i \in DOMAIN SampleRates : SampleRates[i] = p.rate) =>
            SampleRates[RateRegister(p.rate) + 1] = p.rate)
  BY RateFound DEF AcRegisters
<1>2. p.bits \in Bits /\ p.chans \in 1..2
  OBVIOUS
<1>3. ChipNums * SlotWidthAc - 1 = 31
  BY DEF ChipNums, SlotWidthAc
<1> DEFINE c == ac.ctrl \cup {"SDO"}
<1>4. c \in SUBSET {"SDO", "TXEN", "GEN"} /\ "SDO" \in c
  BY DEF AcRegisters
<1>5. ac' = [ac EXCEPT
        !.sysclk = TRUE, !.fmt = "i2s",
        !.power = TRUE, !.modClk = TRUE, !.modRst = TRUE, !.adc = TRUE,
        !.ctrl = c, !.period = 31,
        !.rate = RateRegister(p.rate), !.bits = p.bits, !.chans = p.chans]
  BY <1>3 DEF Ac107DaiHwParams
<1> HIDE DEF c
<1>6. ac' \in AcRegisters
  BY <1>1, <1>2, <1>4, <1>5 DEF AcRegisters
<1>7. /\ ac'.power /\ ac'.sysclk /\ ac'.modClk /\ ac'.modRst /\ ac'.adc /\ ac'.ctrl = c
      /\ ac'.fmt = "i2s" /\ ac'.period = 31 /\ ac'.rate = RateRegister(p.rate)
      /\ ac'.bits = p.bits /\ ac'.chans = p.chans /\ ac'.kc = ac.kc
  BY <1>5 DEF AcRegisters
<1>8. AcHolds(p)'
  BY <1>1, <1>4, <1>7 DEF AcHolds, AdcRate
<1>9. QED
  BY <1>6, <1>7, <1>8 DEF c

LEMMA AcStartSets ==
  ASSUME ac \in AcRegisters, Ac107Start
  PROVE  /\ ac' \in AcRegisters /\ {"TXEN", "GEN"} \subseteq ac'.ctrl /\ ac'.kc = ac.kc
         /\ \A p : AcHolds(p) => AcHolds(p)'
<1>1. ac' = [ac EXCEPT !.ctrl = ac.ctrl \cup {"TXEN", "GEN"}]
  BY DEF Ac107Start
<1>2. ac.ctrl \cup {"TXEN", "GEN"} \in SUBSET {"SDO", "TXEN", "GEN"}
  BY DEF AcRegisters
<1>3. ac' \in AcRegisters /\ ac'.ctrl = ac.ctrl \cup {"TXEN", "GEN"} /\ ac'.kc = ac.kc
  BY <1>1, <1>2 DEF AcRegisters
<1>4. /\ ac'.power = ac.power /\ ac'.sysclk = ac.sysclk /\ ac'.modClk = ac.modClk
      /\ ac'.modRst = ac.modRst /\ ac'.adc = ac.adc /\ ac'.fmt = ac.fmt
      /\ ac'.period = ac.period /\ ac'.rate = ac.rate /\ ac'.bits = ac.bits
      /\ ac'.chans = ac.chans
  BY <1>1 DEF AcRegisters
<1>5. \A p : AcHolds(p) => AcHolds(p)'
  BY <1>3, <1>4 DEF AcHolds, AdcRate
<1>6. QED
  BY <1>3, <1>5

LEMMA AcStopSets ==
  ASSUME ac \in AcRegisters, Ac107Stop
  PROVE  ac' \in AcRegisters /\ {"TXEN", "GEN"} \cap ac'.ctrl = {} /\ ac'.kc = ac.kc
<1>1. ac.kc \in KcValues /\ 24 \in Bits
  BY DEF AcRegisters, Bits
<1>2. QED
  BY <1>1 DEF Ac107Stop, AcDefault, AcRegisters

LEMMA AcWriteSets ==
  ASSUME ac \in AcRegisters, NEW v \in KcValues, Ac107DeviceWriteReg(v)
  PROVE  /\ ac' \in AcRegisters /\ ac'.ctrl = ac.ctrl
         /\ \A p : AcHolds(p) => AcHolds(p)'
<1>1. ac' = [ac EXCEPT !.kc = v]
  BY DEF Ac107DeviceWriteReg
<1>2. ac' \in AcRegisters /\ ac'.ctrl = ac.ctrl
  BY <1>1 DEF AcRegisters
<1>3. /\ ac'.power = ac.power /\ ac'.sysclk = ac.sysclk /\ ac'.modClk = ac.modClk
      /\ ac'.modRst = ac.modRst /\ ac'.adc = ac.adc /\ ac'.fmt = ac.fmt
      /\ ac'.period = ac.period /\ ac'.rate = ac.rate /\ ac'.bits = ac.bits
      /\ ac'.chans = ac.chans
  BY <1>1 DEF AcRegisters
<1>4. QED
  BY <1>2, <1>3 DEF AcHolds, AdcRate

(* What those of the hub do.                                                 *)
LEMMA HubParamsSets ==
  ASSUME ahub \in HubRegisters, NEW p \in Params, AhubConfigured(p)
  PROVE  /\ ahub' \in HubRegisters /\ HubHolds(p)'
         /\ ahub'.rx = ahub.rx /\ ahub'.routed = ahub.routed
<1>1. SupportedRatio(PllClk(p.rate) \div Mclk(p.rate)) /\ SupportedRatio(BclkRatio(p.rate))
  BY DEF AhubConfigured
<1>2. /\ RatioCode(PllClk(p.rate) \div Mclk(p.rate)) \in 0..15
      /\ RatioCode(BclkRatio(p.rate)) \in 0..15
  BY <1>1, RatioFound
<1>3. PllClk(p.rate) \in Nat
  BY DEF PllClk, FreqPoint
<1>4. p.bits \in Bits /\ p.chans \in 1..2 /\ (Slots \div 2) * SlotWidth - 1 = 31
  BY DEF Slots, SlotWidth
<1> DEFINE m == RatioCode(PllClk(p.rate) \div Mclk(p.rate))
           b == RatioCode(BclkRatio(p.rate))
           k == PllClk(p.rate)
<1>5. ahub' = [ahub EXCEPT
        !.pll = k, !.module = k, !.mclk = m, !.bclk = b, !.fmt = "i2s", !.period = 31,
        !.bits = p.bits, !.chans = p.chans]
  BY <1>4 DEF AhubConfigured
<1>6. /\ ahub'.pll = k /\ ahub'.module = k /\ ahub'.mclk = m /\ ahub'.bclk = b
      /\ ahub'.fmt = "i2s" /\ ahub'.period = 31 /\ ahub'.bits = p.bits
      /\ ahub'.chans = p.chans /\ ahub'.rx = ahub.rx /\ ahub'.routed = ahub.routed
      /\ ahub' \in HubRegisters
  <2> HIDE DEF m, b, k
  <2>1. m \in 0..15 /\ b \in 0..15 /\ k \in Nat
    BY <1>2, <1>3 DEF m, b, k
  <2>2. /\ ahub'.pll = k /\ ahub'.module = k /\ ahub'.mclk = m /\ ahub'.bclk = b
        /\ ahub'.fmt = "i2s" /\ ahub'.period = 31 /\ ahub'.bits = p.bits
        /\ ahub'.chans = p.chans /\ ahub'.rx = ahub.rx /\ ahub'.routed = ahub.routed
    BY <1>5 DEF HubRegisters
  <2>3. p.bits \in Bits \cup {0} /\ p.chans \in 0..2
    BY <1>4
  <2>4. ahub' \in HubRegisters
    BY <1>5, <2>1, <2>3 DEF HubRegisters
  <2>5. QED
    BY <2>2, <2>4
<1>7. HubHolds(p)'
  BY <1>1, <1>6 DEF HubHolds
<1>8. QED
  BY <1>6, <1>7

LEMMA HubRouteSets ==
  ASSUME ahub \in HubRegisters, NEW c, AhubRoute(c \in Running)
  PROVE  /\ ahub' \in HubRegisters /\ ahub'.rx = IF c \in Running THEN RxChain ELSE {}
         /\ ahub'.routed = ahub.routed
         /\ \A p : HubHolds(p) => HubHolds(p)'
<1>1. ahub' = [ahub EXCEPT !.rx = IF c \in Running THEN RxChain ELSE {}]
  BY DEF AhubRoute
<1> DEFINE r == IF c \in Running THEN RxChain ELSE {}
<1>2. r \in SUBSET RxChain
  OBVIOUS
<1> HIDE DEF r
<1>3. ahub' = [ahub EXCEPT !.rx = r]
  BY <1>1 DEF r
<1>4. /\ ahub' \in HubRegisters /\ ahub'.rx = r /\ ahub'.routed = ahub.routed
      /\ ahub'.pll = ahub.pll /\ ahub'.module = ahub.module /\ ahub'.mclk = ahub.mclk
      /\ ahub'.bclk = ahub.bclk /\ ahub'.fmt = ahub.fmt /\ ahub'.period = ahub.period
      /\ ahub'.bits = ahub.bits /\ ahub'.chans = ahub.chans
  BY <1>2, <1>3 DEF HubRegisters
<1>5. \A p : HubHolds(p) => HubHolds(p)'
  BY <1>4 DEF HubHolds
<1>6. QED
  BY <1>4, <1>5 DEF r

-----------------------------------------------------------------------------
LEMMA InvInit == Init => IInv
<1> SUFFICES ASSUME Init PROVE IInv
  OBVIOUS
<1>1. PICK v \in KcValues : ac = AcDefault(v)
  BY DEF Init, AcInit
<1>2. 24 \in Bits
  BY DEF Bits
<1>3. ac \in AcRegisters /\ ac.ctrl = {}
  BY <1>1, <1>2 DEF AcDefault, AcRegisters
<1>4. ahub \in HubRegisters /\ ahub.rx = {}
  BY DEF Init, AhubInit, HubRegisters
<1>5. Shapes
  BY <1>3, <1>4 DEF Init, Shapes, Halted
<1>6. Holds
  BY DEF Init, Holds, Configured
<1>7. Follows
  BY <1>3, <1>4 DEF Init, Follows, HaltedIsSilent, Silent, Running
<1>8. QED
  BY <1>5, <1>6, <1>7 DEF IInv

LEMMA RejectedStep ==
  ASSUME IInv, NEW p \in Params, HwParamsRejected(p) \/ HwParamsPllRefused(p)
  PROVE  IInv'
<1>1. UNCHANGED <<ahub, ac, cfg, fresh, cmd>> /\ again' = "none"
  BY DEF HwParamsRejected, HwParamsPllRefused, AhubPllRefused
<1>2. QED
  BY <1>1 DEF IInv, Shapes, Holds, Follows, HaltedIsSilent, Silent, Configured, HubHolds, AcHolds,
              AdcRate

LEMMA ModuleRefusedStep ==
  ASSUME IInv, NEW p \in Params, HwParamsModuleRefused(p)
  PROVE  IInv'
<1>1. cfg' = NoCfg /\ again' = "none" /\ UNCHANGED <<ac, fresh, cmd>>
      /\ ahub' = [ahub EXCEPT !.pll = PllClk(p.rate)]
  BY DEF HwParamsModuleRefused, AhubModuleRefused
<1>2. PllClk(p.rate) \in Nat
  BY DEF PllClk, FreqPoint
<1>3. ahub' \in HubRegisters /\ ahub'.rx = ahub.rx /\ ahub'.routed = ahub.routed
  BY <1>1, <1>2 DEF IInv, Shapes, HubRegisters
<1>4. Holds'
  BY <1>1 DEF Holds, Configured
<1>5. Shapes'
  BY <1>1, <1>3 DEF IInv, Shapes
<1>6. Follows'
  BY <1>1, <1>3 DEF IInv, Follows, HaltedIsSilent, Silent
<1>7. QED
  BY <1>4, <1>5, <1>6 DEF IInv

LEMMA ParamsStep ==
  ASSUME IInv, NEW p \in Params, T507AhubDaiHwParams(p)
  PROVE  IInv'
<1>1. AhubConfigured(p) /\ Ac107DaiHwParams(p) /\ cfg' = p /\ fresh' = TRUE
      /\ again' = "params" /\ cmd' = cmd
  BY DEF T507AhubDaiHwParams
<1>2. /\ ac' \in AcRegisters /\ AcHolds(p)' /\ ac'.ctrl = ac.ctrl \cup {"SDO"}
      /\ ahub' \in HubRegisters /\ HubHolds(p)'
      /\ ahub'.rx = ahub.rx /\ ahub'.routed = ahub.routed
  BY <1>1, AcParamsSets, HubParamsSets DEF IInv, Shapes
<1>3. Shapes'
  BY <1>1, <1>2 DEF IInv, Shapes
<1>4. HubHolds(cfg)' /\ AcHolds(cfg)'
  BY <1>1, <1>2 DEF HubHolds, AcHolds, AdcRate
<1>5. Configured'
  BY <1>1 DEF Configured
<1>6. Follows'
  BY <1>1, <1>2 DEF IInv, Follows, HaltedIsSilent, Silent
<1>7. Holds'
  BY <1>1, <1>4, <1>5 DEF Holds
<1>8. QED
  BY <1>3, <1>6, <1>7 DEF IInv

LEMMA TriggerStep ==
  ASSUME IInv, NEW c \in {"start", "resume", "stop", "pause"}, T507AhubDaiTrigger(c)
  PROVE  IInv'
<1>1. /\ AhubRoute(c \in Running) /\ ahub.routed
      /\ cfg' = IF c = "stop" THEN NoCfg ELSE cfg
      /\ fresh' = (fresh /\ c \in Running)
      /\ cmd' = c /\ again' = "trigger"
  BY DEF T507AhubDaiTrigger, Bound
<1>2. /\ ahub' \in HubRegisters /\ ahub'.rx = IF c \in Running THEN RxChain ELSE {}
      /\ ahub'.routed = ahub.routed /\ (\A p : HubHolds(p) => HubHolds(p)')
  BY <1>1, HubRouteSets DEF IInv, Shapes
<1>3. c \in Running \cup Halted /\ "stop" \notin Running /\ Running \cap Halted = {}
  BY DEF Running, Halted
<1>4. CASE c \in Running
  <2>1. Ac107Start
    BY <1>4 DEF T507AhubDaiTrigger
  <2>2. /\ ac' \in AcRegisters /\ {"TXEN", "GEN"} \subseteq ac'.ctrl
        /\ \A p : AcHolds(p) => AcHolds(p)'
    BY <2>1, AcStartSets DEF IInv, Shapes
  <2>3. cfg' = cfg /\ (Configured' => Configured)
    BY <1>1, <1>3, <1>4 DEF Configured
  <2>4. Configured' => HubHolds(cfg)' /\ AcHolds(cfg)'
    <3>1. SUFFICES ASSUME Configured PROVE HubHolds(cfg)' /\ AcHolds(cfg)'
      BY <2>3
    <3>2. HubHolds(cfg) /\ AcHolds(cfg)
      BY <3>1 DEF IInv, Holds
    <3>3. QED
      BY <3>2, <2>3, <1>2, <2>2 DEF HubHolds, AcHolds, AdcRate
  <2>5. Holds'
    BY <1>1, <1>4, <2>4 DEF Holds
  <2>6. Follows'
    BY <1>1, <1>2, <1>3, <1>4, <2>2 DEF Follows, HaltedIsSilent, Silent
  <2>7. Shapes'
    BY <1>1, <1>2, <1>3, <2>2, <2>3 DEF IInv, Shapes
  <2>8. QED
    BY <2>5, <2>6, <2>7 DEF IInv
<1>5. CASE c \notin Running
  <2>1. Ac107Stop
    BY <1>5 DEF T507AhubDaiTrigger
  <2>2. ac' \in AcRegisters /\ {"TXEN", "GEN"} \cap ac'.ctrl = {}
    BY <2>1, AcStopSets DEF IInv, Shapes
  <2>3. ~Configured'
    BY <1>1, <1>5 DEF Configured
  <2>4. Holds'
    BY <1>1, <2>3 DEF Holds
  <2>5. Follows'
    BY <1>1, <1>2, <1>5, <2>2 DEF Follows, HaltedIsSilent, Silent
  <2>6. Shapes'
    BY <1>1, <1>2, <1>3, <2>2 DEF IInv, Shapes
  <2>7. QED
    BY <2>4, <2>5, <2>6 DEF IInv
<1>6. QED
  BY <1>4, <1>5

(* The framework's repetitions on the accessory change nothing.              *)
LEMMA AccessoryParamsStep ==
  ASSUME IInv, AccessoryHwParams
  PROVE  IInv' /\ Configured /\ AcHolds(cfg)' /\ ac'.ctrl = ac.ctrl
<1>1. Configured /\ Ac107DaiHwParams(cfg) /\ again' = "none" /\ UNCHANGED <<ahub, cfg, fresh, cmd>>
  BY DEF AccessoryHwParams, IInv, Holds
<1>2. cfg \in Params
  BY <1>1 DEF IInv, Shapes, Configured
<1>3. /\ ac' \in AcRegisters /\ AcHolds(cfg)' /\ ac'.ctrl = ac.ctrl \cup {"SDO"}
  <2>1. PICK p \in Params : p = cfg /\ Ac107DaiHwParams(p)
    BY <1>1, <1>2
  <2>2. /\ ac' \in AcRegisters /\ AcHolds(p)' /\ ac'.ctrl = ac.ctrl \cup {"SDO"}
    BY <2>1, AcParamsSets DEF IInv, Shapes
  <2>3. QED
    BY <1>1, <2>1, <2>2 DEF AcHolds, AdcRate
<1>4. "SDO" \in ac.ctrl
  BY <1>1 DEF IInv, Holds, AcHolds
<1>5. ac'.ctrl = ac.ctrl
  BY <1>3, <1>4
<1>6. HubHolds(cfg)'
  BY <1>1 DEF IInv, Holds, HubHolds
<1>7. Shapes' /\ Follows' /\ Holds'
  BY <1>1, <1>3, <1>5, <1>6 DEF IInv, Shapes, Follows, Holds, HaltedIsSilent, Silent
<1>8. QED
  BY <1>1, <1>3, <1>5, <1>7 DEF IInv

LEMMA AccessoryTriggerStep ==
  ASSUME IInv, AccessoryTrigger
  PROVE  IInv'
<1>1. again' = "none" /\ UNCHANGED <<ahub, cfg, fresh, cmd>>
  BY DEF AccessoryTrigger
<1>2. Configured' = Configured /\ (HubHolds(cfg) => HubHolds(cfg)')
  BY <1>1 DEF Configured, HubHolds
<1>3. CASE cmd \in Running
  <2>1. /\ ac' \in AcRegisters /\ {"TXEN", "GEN"} \subseteq ac'.ctrl
        /\ \A p : AcHolds(p) => AcHolds(p)'
    BY <1>3, AcStartSets DEF AccessoryTrigger, IInv, Shapes
  <2>2. AcHolds(cfg) => AcHolds(cfg)'
    BY <1>1, <2>1 DEF AcHolds, AdcRate
  <2>3. cmd \notin Halted
    BY <1>3 DEF Running, Halted
  <2>4. QED
    BY <1>1, <1>2, <1>3, <2>1, <2>2, <2>3
       DEF IInv, Shapes, Holds, Follows, HaltedIsSilent, Silent, Configured
<1>4. CASE cmd \notin Running
  <2>1. ac' \in AcRegisters /\ {"TXEN", "GEN"} \cap ac'.ctrl = {}
    BY <1>4, AcStopSets DEF AccessoryTrigger, IInv, Shapes
  <2>2. ~Configured
    BY <1>4 DEF AccessoryTrigger, IInv, Holds
  <2>3. QED
    BY <1>1, <1>4, <2>1, <2>2 DEF IInv, Shapes, Holds, Follows, HaltedIsSilent, Silent, Configured
<1>5. QED
  BY <1>3, <1>4

LEMMA WriteStep ==
  ASSUME IInv, NEW v \in KcValues, WriteControl(v)
  PROVE  IInv'
<1>1. Ac107DeviceWriteReg(v) /\ UNCHANGED <<ahub, cfg, fresh, cmd, again>>
  BY DEF WriteControl
<1>2. /\ ac' \in AcRegisters /\ ac'.ctrl = ac.ctrl
      /\ \A p : AcHolds(p) => AcHolds(p)'
  BY <1>1, AcWriteSets DEF IInv, Shapes
<1>3. (AcHolds(cfg) => AcHolds(cfg)') /\ (HubHolds(cfg) => HubHolds(cfg)')
  BY <1>1, <1>2 DEF AcHolds, HubHolds, AdcRate
<1>4. QED
  BY <1>1, <1>2, <1>3 DEF IInv, Shapes, Holds, Follows, HaltedIsSilent, Silent, Configured

LEMMA InitStep ==
  ASSUME IInv, T507AhubDeviceInit
  PROVE  IInv'
<1>1. ahub' = [ahub EXCEPT !.routed = TRUE] /\ UNCHANGED <<ac, cfg, fresh, cmd, again>>
  BY DEF T507AhubDeviceInit, AhubDeviceInit
<1>2. /\ ahub' \in HubRegisters /\ ahub'.rx = ahub.rx /\ ahub'.routed
      /\ ahub'.pll = ahub.pll /\ ahub'.module = ahub.module /\ ahub'.mclk = ahub.mclk
      /\ ahub'.bclk = ahub.bclk /\ ahub'.fmt = ahub.fmt /\ ahub'.period = ahub.period
      /\ ahub'.bits = ahub.bits /\ ahub'.chans = ahub.chans
  BY <1>1 DEF IInv, Shapes, HubRegisters
<1>3. (AcHolds(cfg) => AcHolds(cfg)') /\ (HubHolds(cfg) => HubHolds(cfg)')
  BY <1>1, <1>2 DEF AcHolds, HubHolds, AdcRate
<1>4. QED
  BY <1>1, <1>2, <1>3 DEF IInv, Shapes, Holds, Follows, HaltedIsSilent, Silent, Configured

LEMMA InvStep == IInv /\ [Next]_vars => IInv'
<1> SUFFICES ASSUME IInv, [Next]_vars PROVE IInv'
  OBVIOUS
<1>1. CASE UNCHANGED vars
  BY <1>1 DEF vars, IInv, Shapes, Holds, Follows, HaltedIsSilent, Silent, Configured, HubHolds,
              AcHolds, AdcRate
<1>2. QED
  BY <1>1, InitStep, RejectedStep, ModuleRefusedStep, ParamsStep, TriggerStep,
     AccessoryParamsStep, AccessoryTriggerStep, WriteStep DEF Next

LEMMA Inductive == Spec => []IInv
BY InvInit, InvStep, PTL DEF Spec

-----------------------------------------------------------------------------
(* Every register keeps its width, every history its values.                 *)
THEOREM CaptureTypes == Spec => []TypeOK
<1>1. Spec => [](fresh \in BOOLEAN)
  <2>1. Init => fresh \in BOOLEAN
    BY DEF Init
  <2>2. fresh \in BOOLEAN /\ [Next]_vars => (fresh \in BOOLEAN)'
    <3> SUFFICES ASSUME fresh \in BOOLEAN, [Next]_vars PROVE fresh' \in BOOLEAN
      OBVIOUS
    <3>1. ASSUME NEW c, T507AhubDaiTrigger(c) PROVE fresh' \in BOOLEAN
      <4>1. fresh' = (fresh /\ c \in Running)
        BY <3>1 DEF T507AhubDaiTrigger
      <4>2. QED
        BY <4>1, Zenon
    <3>2. CASE UNCHANGED fresh
      BY <3>2
    <3>3. QED
      BY <3>1, <3>2 DEF Next, T507AhubDeviceInit, HwParamsRejected, HwParamsPllRefused,
         HwParamsModuleRefused, T507AhubDaiHwParams, AccessoryHwParams, AccessoryTrigger,
         WriteControl, vars
  <2>3. QED
    BY <2>1, <2>2, PTL DEF Spec
<1>2. ASSUME ahub \in HubRegisters PROVE AhubTypeOK
  BY <1>2 DEF HubRegisters, AhubTypeOK
<1>3. ASSUME ac \in AcRegisters PROVE AcTypeOK
  <2>1. {ac.power, ac.sysclk, ac.modClk, ac.modRst, ac.adc} \subseteq BOOLEAN
    BY <1>3 DEF AcRegisters
  <2>2. ac.rate + 1 \in DOMAIN SampleRates
    <3>1. ac.rate \in 0..8
      BY <1>3 DEF AcRegisters
    <3>2. QED
      BY <3>1, RatePlaces
  <2>3. ac.ctrl \subseteq {"SDO", "TXEN", "GEN"} /\ ac.kc \in KcValues
    BY <1>3 DEF AcRegisters
  <2>4. QED
    BY <2>1, <2>2, <2>3, Zenon DEF AcTypeOK
<1>4. IInv /\ fresh \in BOOLEAN => TypeOK
  BY <1>2, <1>3 DEF IInv, Shapes, TypeOK
<1>5. QED
  BY Inductive, <1>1, <1>4, PTL

(* Configured and started, in either order, the whole path is on.            *)
LEMMA Alive == IInv => RunningIsLive
<1>1. ASSUME IInv, cmd \in Running, Configured PROVE Live
  <2>1. /\ ac.power /\ ac.sysclk /\ ac.modClk /\ ac.modRst /\ ac.adc
        /\ {"SDO", "TXEN", "GEN"} \subseteq ac.ctrl
    BY <1>1 DEF IInv, Holds, Follows, AcHolds
  <2>2. ahub.routed /\ ahub.rx = RxChain
    BY <1>1 DEF IInv, Follows
  <2>3. ahub.mclk \in 1..15
    BY <1>1, RatioFound DEF IInv, Holds, HubHolds
  <2>4. ahub.mclk # 0
    BY <2>3
  <2>5. QED
    BY <2>1, <2>2, <2>4 DEF AcTransmits, Live
<1>2. QED
  BY <1>1 DEF RunningIsLive

THEOREM LiveWhenRunning == Spec => []RunningIsLive
BY Inductive, Alive, PTL

(* Stopped or paused, neither end moves data, whatever HwParams calls follow.*)
THEOREM SilentWhenHalted == Spec => []HaltedIsSilent
<1>1. IInv => HaltedIsSilent
  BY DEF IInv, Follows
<1>2. QED
  BY Inductive, <1>1, PTL

(* Both ends agree on rate, format, width and channels, exactly.             *)
THEOREM BothEndsAgree == Spec => []EndsAgree
<1>1. ASSUME IInv, Configured, cfg \in TableParams
      PROVE  /\ WireRate = cfg.rate /\ AdcRate = cfg.rate
             /\ WireMclk \in {12288000, 11289600}
             /\ ahub.period = ac.period /\ ahub.fmt = ac.fmt
             /\ ahub.bits = ac.bits /\ ahub.chans = ac.chans
  <2>1. HubHolds(cfg) /\ AcHolds(cfg) /\ \E i \in DOMAIN SampleRates : SampleRates[i] = cfg.rate
    BY <1>1 DEF IInv, Holds, TableParams
  <2>2. /\ Ratios[ahub.bclk] = BclkRatio(cfg.rate)
        /\ Ratios[ahub.mclk] = PllClk(cfg.rate) \div Mclk(cfg.rate)
    BY <2>1, RatioFound DEF HubHolds
  <2>3. ahub.module = PllClk(cfg.rate) /\ ahub.pll = PllClk(cfg.rate)
    BY <2>1 DEF HubHolds
  <2>4. WireRate = cfg.rate /\ WireMclk \in {12288000, 11289600}
    BY <2>1, <2>2, <2>3, Exactly DEF WireRate, WireMclk
  <2>5. AdcRate = cfg.rate /\ ahub.period = ac.period /\ ahub.fmt = ac.fmt
        /\ ahub.bits = ac.bits /\ ahub.chans = ac.chans
    BY <2>1 DEF HubHolds, AcHolds
  <2>6. QED
    BY <2>4, <2>5
<1>2. IInv => EndsAgree
  BY <1>1 DEF EndsAgree
<1>3. QED
  BY Inductive, <1>2, PTL

(* No capture operation changes a control of the AC107.                      *)
THEOREM ControlsKept == Spec => ControlsSurvive
<1>1. IInv /\ [Next]_vars =>
        [ac'.kc # ac.kc => UNCHANGED <<ahub, cfg, fresh, cmd, again>>]_vars
  <2> SUFFICES ASSUME IInv, Next, ~UNCHANGED <<ahub, cfg, fresh, cmd, again>>
               PROVE  ac'.kc = ac.kc
    OBVIOUS
  <2>1. ac \in AcRegisters
    BY DEF IInv, Shapes
  <2>2. CASE UNCHANGED ac
    BY <2>2
  <2>3. CASE Ac107Start \/ Ac107Stop
    BY <2>1, <2>3, AcStartSets, AcStopSets
  <2>4. CASE \E p \in Params : Ac107DaiHwParams(p)
    BY <2>1, <2>4, AcParamsSets
  <2>5. AccessoryHwParams => \E p \in Params : Ac107DaiHwParams(p)
    BY DEF AccessoryHwParams, IInv, Holds, Shapes, Configured
  <2>6. QED
    BY <2>2, <2>3, <2>4, <2>5 DEF Next, T507AhubDeviceInit, HwParamsRejected,
       HwParamsPllRefused, HwParamsModuleRefused, T507AhubDaiHwParams, T507AhubDaiTrigger,
       AccessoryTrigger, WriteControl
<1>2. QED
  BY Inductive, <1>1, PTL DEF Spec, ControlsSurvive

-----------------------------------------------------------------------------
(* What the registers of both ends stand for in AudioStream.                 *)
Asked == IF Configured THEN cfg ELSE NoCfg

Setup == IF Configured
         THEN [rate |-> IF WireRate = AdcRate THEN AdcRate ELSE 0,
               bits |-> IF ahub.bits = ac.bits THEN ac.bits ELSE 0,
               chans |-> IF ahub.chans = ac.chans THEN ac.chans ELSE 0]
         ELSE NoCfg

Flow == CASE Live -> "on"
          [] Started /\ ~Live -> "idle"
          [] Silent -> "off"
          [] OTHER -> "half"

(* The flow follows the last command; between on and idle, power and clocks  *)
(* decide.                                                                   *)
FlowIs == Flow = IF cmd \in Running THEN IF Live THEN "on" ELSE "idle" ELSE "off"

(* The setup depends on no other register.                                   *)
Settings == <<ahub.module, ahub.bclk, ahub.bits, ahub.chans, ac.rate, ac.bits, ac.chans>>

SetupIs ==
  Configured => /\ cfg \in Params
                /\ Setup \in [rate: Nat, bits: Nat, chans: Nat]
                /\ cfg \in TableParams => Setup = cfg

LEMMA Reads == IInv => FlowIs /\ SetupIs
<1> SUFFICES ASSUME IInv PROVE FlowIs /\ SetupIs
  OBVIOUS
<1>1. FlowIs
  <2>1. cmd \in Running \/ cmd \in Halted
    BY DEF IInv, Shapes
  <2>2. RxChain # {}
    BY DEF RxChain
  <2>3. CASE cmd \in Running
    <3>1. Started /\ ~Silent
      BY <2>2, <2>3 DEF IInv, Follows, Started, Silent
    <3>2. QED
      BY <2>3, <3>1 DEF Flow, FlowIs
  <2>4. CASE cmd \in Halted
    <3>1. cmd \notin Running
      BY <2>4 DEF Running, Halted
    <3>2. Silent
      BY <2>4 DEF IInv, Follows, HaltedIsSilent, Silent
    <3>3. ~Live /\ ~Started
      BY <2>2, <3>2 DEF Silent, Live, Started
    <3>4. QED
      BY <3>1, <3>2, <3>3 DEF Flow, FlowIs
  <2>5. QED
    BY <2>1, <2>3, <2>4
<1>2. ASSUME Configured
      PROVE  /\ cfg \in Params
             /\ Setup \in [rate: Nat, bits: Nat, chans: Nat]
             /\ cfg \in TableParams => Setup = cfg
  <2>1. cfg \in Params /\ HubHolds(cfg) /\ AcHolds(cfg)
    BY <1>2 DEF IInv, Shapes, Holds, Configured
  <2>2. cfg.bits \in Nat /\ cfg.chans \in Nat /\ cfg \in [rate: Nat \ {0}, bits: Bits, chans: 1..2]
    BY <2>1 DEF Bits
  <2>3. Setup = [rate |-> IF WireRate = AdcRate THEN AdcRate ELSE 0,
                 bits |-> cfg.bits, chans |-> cfg.chans]
    BY <1>2, <2>1 DEF Setup, HubHolds, AcHolds
  <2>4. AdcRate \in Nat
    <3>1. ac.rate + 1 \in 1..9
      BY DEF IInv, Shapes, AcRegisters
    <3>2. QED
      BY <3>1, RatePlaces DEF AdcRate
  <2>5. Setup \in [rate: Nat, bits: Nat, chans: Nat]
    BY <2>2, <2>3, <2>4
  <2>6. ASSUME cfg \in TableParams PROVE Setup = cfg
    <3>1. \E i \in DOMAIN SampleRates : SampleRates[i] = cfg.rate
      BY <2>6 DEF TableParams
    <3>2. AdcRate = cfg.rate
      BY <2>1, <3>1 DEF AcHolds
    <3>3. Ratios[ahub.bclk] = BclkRatio(cfg.rate) /\ ahub.module = PllClk(cfg.rate)
      BY <2>1, RatioFound DEF HubHolds
    <3>4. WireRate = cfg.rate
      BY <3>1, <3>3, Exactly DEF WireRate
    <3>5. QED
      BY <2>2, <2>3, <3>2, <3>4
  <2>7. QED
    BY <2>1, <2>5, <2>6
<1>3. QED
  BY <1>1, <1>2 DEF SetupIs

LEMMA StreamInit == Init => Stream!Init
<1> SUFFICES ASSUME Init PROVE Stream!Init
  OBVIOUS
<1>1. Asked = NoCfg /\ Setup = NoCfg
  BY DEF Init, Asked, Setup, Configured
<1>2. FlowIs
  BY InvInit, Reads
<1>3. Flow = "off"
  BY <1>2 DEF Init, Running, FlowIs
<1>4. QED
  BY <1>1, <1>3 DEF Stream!Init, Asked, Setup, Flow

LEMMA StreamStep == IInv /\ IInv' /\ [Next]_vars => [Stream!Next]_(Stream!vars)
<1> SUFFICES ASSUME IInv, IInv', [Next]_vars PROVE [Stream!Next]_(Stream!vars)
  OBVIOUS
<1>1. FlowIs /\ FlowIs' /\ SetupIs /\ SetupIs' /\ RunningIsLive /\ RunningIsLive'
  BY Reads, Alive, PTL
<1>2. /\ Flow = IF cmd \in Running THEN IF Live THEN "on" ELSE "idle" ELSE "off"
      /\ Flow' = IF cmd' \in Running THEN IF Live' THEN "on" ELSE "idle" ELSE "off"
      /\ cmd \in Running /\ Configured => Live
      /\ cmd' \in Running /\ Configured' => Live'
  BY <1>1 DEF FlowIs, RunningIsLive
<1>3. ahub \in HubRegisters /\ ac \in AcRegisters
  BY DEF IInv, Shapes
<1>4. ASSUME cfg' = cfg, Configured' <=> Configured, Settings' = Settings
      PROVE  UNCHANGED <<Asked, Setup>>
  BY <1>4 DEF Asked, Setup, Settings, WireRate, AdcRate
<1>14. ASSUME UNCHANGED <<ac, ahub>> PROVE Live' <=> Live
  BY <1>14 DEF Live, AcTransmits
<1>5. ASSUME UNCHANGED <<cfg, fresh, cmd>>, Settings' = Settings,
             cmd \in Running => (Live' <=> Live)
      PROVE  UNCHANGED Stream!vars
  <2>1. Configured' <=> Configured
    BY <1>5 DEF Configured
  <2>2. QED
    BY <1>2, <1>4, <1>5, <2>1 DEF Stream!vars, Asked, Setup, Flow
<1>6. CASE T507AhubDeviceInit \/ UNCHANGED vars \/ \E v \in KcValues : WriteControl(v)
  <2>1. UNCHANGED <<cfg, fresh, cmd>> /\ Settings' = Settings
    BY <1>3, <1>6 DEF T507AhubDeviceInit, AhubDeviceInit, WriteControl, Ac107DeviceWriteReg,
                      vars, Settings, HubRegisters, AcRegisters
  <2>2. CASE T507AhubDeviceInit
    <3>1. cmd \notin Running
      BY <2>2 DEF T507AhubDeviceInit, IInv, Follows
    <3>2. QED
      BY <1>5, <2>1, <3>1
  <2>3. ASSUME NEW v \in KcValues, WriteControl(v) PROVE Live' <=> Live
    <3>1. ac' = [ac EXCEPT !.kc = v] /\ UNCHANGED ahub
      BY <2>3 DEF WriteControl, Ac107DeviceWriteReg
    <3>2. /\ ac'.power = ac.power /\ ac'.sysclk = ac.sysclk /\ ac'.modClk = ac.modClk
          /\ ac'.modRst = ac.modRst /\ ac'.adc = ac.adc /\ ac'.ctrl = ac.ctrl
      BY <1>3, <3>1 DEF AcRegisters
    <3>3. QED
      BY <3>1, <3>2 DEF Live, AcTransmits
  <2>4. QED
    BY <1>5, <1>6, <1>14, <2>1, <2>2, <2>3 DEF vars
<1>7. CASE \E p \in Params : HwParamsRejected(p) \/ HwParamsPllRefused(p)
  <2>1. UNCHANGED <<cfg, fresh, cmd>> /\ Settings' = Settings
    BY <1>7 DEF HwParamsRejected, HwParamsPllRefused, AhubPllRefused, Settings
  <2>2. Live' <=> Live
    BY <1>7, <1>14 DEF HwParamsRejected, HwParamsPllRefused, AhubPllRefused
  <2>3. QED
    BY <1>5, <2>1, <2>2
<1>8. CASE \E p \in Params : HwParamsModuleRefused(p)
  <2>1. cfg' = NoCfg /\ cmd' = cmd
    BY <1>8 DEF HwParamsModuleRefused
  <2>2. Asked' = NoCfg /\ Setup' = NoCfg
    BY <2>1 DEF Asked, Setup, Configured
  <2>5. Live' <=> Live
    <3>1. PICK p \in Params : HwParamsModuleRefused(p)
      BY <1>8
    <3>2. UNCHANGED ac /\ ahub' = [ahub EXCEPT !.pll = PllClk(p.rate)]
      BY <3>1 DEF HwParamsModuleRefused, AhubModuleRefused
    <3>3. ahub'.routed = ahub.routed /\ ahub'.mclk = ahub.mclk /\ ahub'.rx = ahub.rx
      BY <1>3, <3>2 DEF HubRegisters
    <3>4. QED
      BY <3>2, <3>3 DEF Live, AcTransmits
  <2>3. Stream!Spoil
    BY <1>2, <2>1, <2>2, <2>5 DEF Stream!Spoil, Stream!Forget, Asked, Setup, Flow
  <2>4. QED
    BY <2>3 DEF Stream!Next
<1>9. CASE \E p \in Params : T507AhubDaiHwParams(p)
  <2>1. PICK p \in Params : T507AhubDaiHwParams(p)
    BY <1>9
  <2>2. cfg' = p /\ fresh' /\ cmd' = cmd /\ p # NoCfg
    BY <2>1 DEF T507AhubDaiHwParams
  <2>3. Configured' /\ Asked' = cfg'
    BY <2>2 DEF Configured, Asked
  <2>4. /\ Setup' \in [rate: Nat, bits: Nat, chans: Nat]
        /\ cfg' \in TableParams => Setup' = cfg'
    BY <1>1, <2>3 DEF SetupIs
  <2>5. Stream!Prepare
    BY <1>2, <2>2, <2>3, <2>4 DEF Stream!Prepare, Stream!Setups, Asked, Setup, Flow
  <2>6. QED
    BY <2>5 DEF Stream!Next
<1>10. CASE \E c \in {"start", "resume", "stop", "pause"} : T507AhubDaiTrigger(c)
  <2>1. PICK c \in {"start", "resume", "stop", "pause"} : T507AhubDaiTrigger(c)
    BY <1>10
  <2>2. cmd' = c /\ AhubRoute(c \in Running) /\ "stop" \notin Running
        /\ cfg' = (IF c = "stop" THEN NoCfg ELSE cfg) /\ fresh' = (fresh /\ c \in Running)
    BY <2>1 DEF T507AhubDaiTrigger, Running
  <2>3. CASE c \in Running
    <3>1. cfg' = cfg /\ (Configured' <=> Configured)
      BY <2>2, <2>3 DEF Configured
    <3>2. Settings' = Settings
      BY <1>3, <2>1, <2>3 DEF T507AhubDaiTrigger, AhubRoute, Ac107Start, Settings,
                              HubRegisters, AcRegisters
    <3>3. UNCHANGED <<Asked, Setup>>
      BY <1>4, <3>1, <3>2
    <3>4. Flow' \in {"idle", "on"}
      BY <1>2, <2>2, <2>3
    <3>5. ASSUME Setup # NoCfg PROVE Flow' = "on"
      <4>1. Configured
        BY <3>5 DEF Setup
      <4>2. QED
        BY <1>2, <2>2, <2>3, <3>1, <4>1
    <3>6. ASSUME Flow = "on" PROVE Flow' = "on"
      <4>1. Live
        BY <1>2, <3>6
      <4>2. ac' = [ac EXCEPT !.ctrl = ac.ctrl \cup {"TXEN", "GEN"}]
            /\ ahub' = [ahub EXCEPT !.rx = RxChain]
        BY <2>1, <2>3 DEF T507AhubDaiTrigger, AhubRoute, Ac107Start
      <4>3. /\ ac'.power = ac.power /\ ac'.sysclk = ac.sysclk /\ ac'.modClk = ac.modClk
            /\ ac'.modRst = ac.modRst /\ ac'.adc = ac.adc /\ ac.ctrl \subseteq ac'.ctrl
        BY <1>3, <4>2 DEF AcRegisters
      <4>4. ahub'.routed = ahub.routed /\ ahub'.mclk = ahub.mclk /\ ahub'.rx = RxChain
        BY <1>3, <4>2 DEF HubRegisters
      <4>5. Live'
        BY <4>1, <4>3, <4>4 DEF Live, AcTransmits
      <4>6. QED
        BY <1>2, <2>2, <2>3, <4>5
    <3>7. Stream!Start
      BY <3>3, <3>4, <3>5, <3>6 DEF Stream!Start, Asked, Setup, Flow
    <3>8. QED
      BY <3>7 DEF Stream!Next
  <2>4. CASE c \notin Running
    <3>1. ~Configured'
      BY <2>2, <2>4 DEF Configured
    <3>2. Asked' = NoCfg /\ Setup' = NoCfg
      BY <3>1 DEF Asked, Setup
    <3>3. Stream!Halt
      BY <1>2, <2>2, <2>4, <3>2 DEF Stream!Halt, Stream!Forget, Asked, Setup, Flow
    <3>4. QED
      BY <3>3 DEF Stream!Next
  <2>5. QED
    BY <2>3, <2>4
<1>11. CASE AccessoryHwParams
  <2>1. UNCHANGED <<ahub, cfg, fresh, cmd>> /\ Configured /\ cfg \in Params
    BY <1>11 DEF AccessoryHwParams, IInv, Holds, Shapes, Configured
  <2>2. ac'.bits = cfg.bits /\ ac'.chans = cfg.chans /\ ac'.rate = RateRegister(cfg.rate)
    BY <1>3, <1>11 DEF AccessoryHwParams, Ac107DaiHwParams, AcRegisters
  <2>3. ac.bits = cfg.bits /\ ac.chans = cfg.chans
    BY <2>1 DEF IInv, Holds, AcHolds
  <2>4. AdcRate' = AdcRate
    <3>1. CASE \E i \in DOMAIN SampleRates : SampleRates[i] = cfg.rate
      <4>1. AdcRate = cfg.rate
        BY <2>1, <3>1 DEF IInv, Holds, AcHolds
      <4>2. SampleRates[RateRegister(cfg.rate) + 1] = cfg.rate
        BY <1>3, <3>1, RateFound DEF AcRegisters
      <4>3. QED
        BY <2>2, <4>1, <4>2 DEF AdcRate
    <3>2. CASE ~\E i \in DOMAIN SampleRates : SampleRates[i] = cfg.rate
      BY <2>2, <3>2 DEF RateRegister, AdcRate
    <3>3. QED
      BY <3>1, <3>2
  <2>5. UNCHANGED <<Asked, Setup>>
    BY <2>1, <2>2, <2>3, <2>4 DEF Asked, Setup, Configured, WireRate
  <2>6. UNCHANGED Stream!vars
    BY <1>2, <2>1, <2>5 DEF Stream!vars, Asked, Setup, Flow
  <2>7. QED
    BY <2>6
<1>12. CASE AccessoryTrigger
  <2>1. UNCHANGED <<ahub, cfg, fresh, cmd>>
    BY <1>12 DEF AccessoryTrigger
  <2>2. CASE cmd \in Running
    <3>1. Settings' = Settings
      BY <1>3, <1>12, <2>1, <2>2 DEF AccessoryTrigger, Ac107Start, Settings, AcRegisters
    <3>2. {"TXEN", "GEN"} \subseteq ac.ctrl
      BY <2>2 DEF IInv, Follows
    <3>3. ac' = [ac EXCEPT !.ctrl = ac.ctrl \cup {"TXEN", "GEN"}]
      BY <1>12, <2>2 DEF AccessoryTrigger, Ac107Start
    <3>4. /\ ac'.power = ac.power /\ ac'.sysclk = ac.sysclk /\ ac'.modClk = ac.modClk
          /\ ac'.modRst = ac.modRst /\ ac'.adc = ac.adc /\ ac'.ctrl = ac.ctrl
      BY <1>3, <3>2, <3>3 DEF AcRegisters
    <3>5. Live' <=> Live
      BY <2>1, <3>4 DEF Live, AcTransmits
    <3>6. QED
      BY <1>5, <2>1, <3>1, <3>5
  <2>3. CASE cmd \notin Running
    <3>1. ~Configured /\ ~Configured'
      BY <1>12, <2>1, <2>3 DEF AccessoryTrigger, IInv, Holds, Configured
    <3>2. UNCHANGED <<Asked, Setup>>
      BY <3>1 DEF Asked, Setup
    <3>3. UNCHANGED Flow
      BY <1>2, <2>1, <2>3
    <3>4. QED
      BY <3>2, <3>3 DEF Stream!vars, Asked, Setup, Flow
  <2>4. QED
    BY <2>2, <2>3
<1>13. QED
  BY <1>6, <1>7, <1>8, <1>9, <1>10, <1>11, <1>12 DEF Next

(* The capture DAI implements AudioStream, for any parameters and controls.  *)
THEOREM CaptureIsStream == Spec => ImplementsStream
BY Inductive, StreamInit, StreamStep, PTL DEF Spec, ImplementsStream, Stream!Spec
=============================================================================
