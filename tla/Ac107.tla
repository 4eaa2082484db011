-------------------------------- MODULE Ac107 -------------------------------
(***************************************************************************)
(* The AC107 microphone ADC (ac107_accessory_impl_linux.c), one chip on    *)
(* I2C. `ac' abstracts its registers; I2C transfers are assumed to succeed *)
(* (the code ignores their errors).                                        *)
(***************************************************************************)
EXTENDS Naturals, Sequences

CONSTANT KcValues   \* values a client writes to a control of the chip
VARIABLE ac

(***************************************************************************)
(* ac107_reg_default_value: everything off, 24-bit samples. The registers  *)
(* of ac107_kcontrol_dapm_reg (gain, volume, mixer, debug) are `kc'.       *)
(***************************************************************************)
AcDefault(kc) ==
  [power |-> FALSE, sysclk |-> FALSE, modClk |-> FALSE, modRst |-> FALSE,
   adc |-> FALSE, ctrl |-> {}, fmt |-> "none", period |-> 0, rate |-> 0,
   bits |-> 24, chans |-> 1, kc |-> kc]

AcInit == \E v \in KcValues : ac = AcDefault(v)

(* ac107_sample_rate: the value of ADC_SPRC is the position, from 0. *)
SampleRates == <<8000, 11025, 12000, 16000, 22050, 24000, 32000, 44100, 48000>>
AdcRate == SampleRates[ac.rate + 1]

(* Mutant: positions are counted from 1. *)
MutantRateRegister(rate) ==
  IF \E i \in DOMAIN SampleRates : SampleRates[i] = rate
  THEN CHOOSE i \in DOMAIN SampleRates : SampleRates[i] = rate
  ELSE ac.rate

(***************************************************************************)
(* ac107_hw_params looks the rate up in the table; no entry, no write.     *)
(***************************************************************************)
RateRegister(rate) ==
  IF \E i \in DOMAIN SampleRates : SampleRates[i] = rate
  THEN (CHOOSE i \in DOMAIN SampleRates : SampleRates[i] = rate) - 1
  ELSE ac.rate

SlotWidthAc == 32
ChipNums    == 1

(* Mutant: the hardware is not powered up again when it is on already
   configured for the same rate. *)
MutantAc107DaiHwParams(p) ==
  ac' = [ac EXCEPT !.sysclk = TRUE, !.fmt = "i2s",
                   !.rate = RateRegister(p.rate), !.bits = p.bits,
                   !.chans = p.chans]

(***************************************************************************)
(* Ac107DaiHwParams: set_pll selects MCLK as system clock, set_fmt makes   *)
(* the chip an I2S slave, ac107_hw_params powers it up (ac107_hw_init) and *)
(* sets rate, channels and width.                                          *)
(***************************************************************************)
Ac107DaiHwParams(p) ==
  ac' = [ac EXCEPT
    !.sysclk = TRUE, !.fmt = "i2s",
    !.power = TRUE, !.modClk = TRUE, !.modRst = TRUE, !.adc = TRUE,
    !.ctrl = @ \cup {"SDO"}, !.period = ChipNums * SlotWidthAc - 1,
    !.rate = RateRegister(p.rate), !.bits = p.bits, !.chans = p.chans]

(* Mutants: stopping only clears the transmitter and the enable bit, or
   restores every register to its default. *)
MutantAc107Stop == ac' = [ac EXCEPT !.ctrl = @ \cup {"TXEN"}]
MutantAc107StopAll == \E v \in KcValues : ac' = AcDefault(v)

(* Ac107DaiTrigger, CAPTURE_START and CAPTURE_RESUME. *)
Ac107Start == ac' = [ac EXCEPT !.ctrl = @ \cup {"TXEN", "GEN"}]

(* CAPTURE_STOP and CAPTURE_PAUSE: TXEN is written, then every register but
   the controls gets its default back. *)
Ac107Stop == ac' = AcDefault(ac.kc)

(* Ac107DeviceWriteReg on a control register. *)
Ac107DeviceWriteReg(v) == ac' = [ac EXCEPT !.kc = v]

(* The chip converts and sends. *)
AcTransmits ==
  /\ ac.power /\ ac.sysclk /\ ac.modClk /\ ac.modRst /\ ac.adc
  /\ {"SDO", "TXEN", "GEN"} \subseteq ac.ctrl

AcTypeOK ==
  /\ {ac.power, ac.sysclk, ac.modClk, ac.modRst, ac.adc} \subseteq BOOLEAN
  /\ ac.ctrl \subseteq {"SDO", "TXEN", "GEN"}
  /\ ac.rate + 1 \in DOMAIN SampleRates
  /\ ac.kc \in KcValues
=============================================================================
