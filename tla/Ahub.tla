-------------------------------- MODULE Ahub --------------------------------
(***************************************************************************)
(* The T507 audio hub as the capture DAI (t507_dai_ahub_impl_linux.c): its *)
(* clock divisors, its I2S port and its APB receive FIFO. Registers are    *)
(* abstracted to the fields that decide whether, at which rate and in      *)
(* which format samples arrive. `ahub' is the state; the operators below   *)
(* are the functions the HDF operations call on a capture stream (on a     *)
(* render stream they return HDF_SUCCESS and touch nothing).               *)
(***************************************************************************)
EXTENDS Naturals, Sequences

VARIABLE ahub

(* The receive chain, in the order sunxi_ahub_dai_rx_route enables it. *)
RxChain == {"SDI", "RXEN", "START", "DRQ"}

Bits == {8, 16, 24, 32}     \* widths of the framework's AudioFormat

AhubInit ==
  ahub = [routed |-> FALSE, pll |-> 0, module |-> 0, mclk |-> 0, bclk |-> 0,
          fmt |-> "none", period |-> 0, bits |-> 0, chans |-> 0, rx |-> {}]

(* T507AhubImplDeviceInit: port and FIFO out of reset, ungated and connected. *)
AhubDeviceInit == ahub' = [ahub EXCEPT !.routed = TRUE]

(***************************************************************************)
(* The divisor table of set_sysclk and set_bclk_ratio: the register value  *)
(* is the position of the ratio. A ratio outside the table is an error.    *)
(***************************************************************************)
Ratios == <<1, 2, 4, 6, 8, 12, 16, 24, 32, 48, 64, 96, 128, 176, 192>>
SupportedRatio(r) == \E i \in DOMAIN Ratios : Ratios[i] = r
RatioCode(r) == CHOOSE i \in DOMAIN Ratios : Ratios[i] = r

(* The accepted rates, by the base frequency their clocks derive from. *)
Rates48 == {8000, 12000, 16000, 24000, 32000, 48000, 64000, 96000, 192000}
Rates44 == {11025, 22050, 44100, 88200, 176400}
AcceptedRates == Rates48 \cup Rates44

FreqPoint(rate) == IF rate \in Rates48 THEN 24576000 ELSE 22579200
PllClk(rate)    == 4 * FreqPoint(rate)
Mclk(rate)      == FreqPoint(rate) \div 2

(* Mutant: the slots of one channel are counted, not of both. *)
MutantBclkRatio(rate) == PllClk(rate) \div (32 * rate)

Slots     == 2
SlotWidth == 32
BclkRatio(rate) == PllClk(rate) \div (Slots * SlotWidth * rate)

AhubAccepts(p) == p.bits \in {16, 24, 32} /\ p.rate \in AcceptedRates

(***************************************************************************)
(* T507AhubImplHwParams. It rejects a format or rate before it touches     *)
(* anything; the two clocks may each refuse their rate; then MCLK, BCLK,   *)
(* format, slots, sample width and channels are set and the FIFO flushed.  *)
(***************************************************************************)
AhubPllRefused == UNCHANGED ahub

AhubModuleRefused(p) == ahub' = [ahub EXCEPT !.pll = PllClk(p.rate)]

AhubConfigured(p) ==
  /\ SupportedRatio(PllClk(p.rate) \div Mclk(p.rate))
  /\ SupportedRatio(BclkRatio(p.rate))
  /\ ahub' = [ahub EXCEPT
       !.pll = PllClk(p.rate), !.module = PllClk(p.rate),
       !.mclk = RatioCode(PllClk(p.rate) \div Mclk(p.rate)),
       !.bclk = RatioCode(BclkRatio(p.rate)),
       !.fmt = "i2s", !.period = (Slots \div 2) * SlotWidth - 1,
       !.bits = p.bits, !.chans = p.chans]

(* sunxi_ahub_dai_rx_route, called by T507AhubImplTrigger. *)
AhubRoute(enable) == ahub' = [ahub EXCEPT !.rx = IF enable THEN RxChain ELSE {}]

(* What the hub puts on the wire, from its registers. *)
WireRate == ahub.module \div (Ratios[ahub.bclk] * Slots * SlotWidth)
WireMclk == ahub.pll \div Ratios[ahub.mclk]

AhubTypeOK ==
  /\ DOMAIN ahub = {"routed", "pll", "module", "mclk", "bclk", "fmt", "period",
                    "bits", "chans", "rx"}
  /\ ahub.routed \in BOOLEAN
  /\ {ahub.mclk, ahub.bclk} \subseteq 0..15
  /\ ahub.rx \subseteq RxChain
  /\ ahub.period \in 0..1023
=============================================================================
