--------------------------- MODULE CodecDacProofs ---------------------------
(***************************************************************************)
(* Theorems about CodecDac, for any parameters clients ask for, any        *)
(* volumes and, but for the volume, any number of control threads.         *)
(***************************************************************************)
EXTENDS CodecDac, SequenceTheorems, TLAPS

USE CodecAssumption

-----------------------------------------------------------------------------
(* The rates.                                                                *)

LEMMA FreqPointType == ASSUME NEW r PROVE FreqPoint(r) \in {24576000, 22579200}
BY DEF FreqPoint

(* The table and what its codes stand for.                                   *)
LEMMA Table ==
  /\ DOMAIN SampleRateConv = 1..8
  /\ SampleRateConv[1] = {44100, 48000} /\ SampleRateConv[2] = {32000}
  /\ SampleRateConv[3] = {22050, 24000} /\ SampleRateConv[4] = {16000}
  /\ SampleRateConv[5] = {11025, 12000} /\ SampleRateConv[6] = {8000}
  /\ SampleRateConv[7] = {192000} /\ SampleRateConv[8] = {96000}
BY DEF SampleRateConv

LEMMA Codes ==
  /\ RateOf[1] = 48000 /\ RateOf[2] = 32000 /\ RateOf[3] = 24000 /\ RateOf[4] = 16000
  /\ RateOf[5] = 12000 /\ RateOf[6] = 8000 /\ RateOf[7] = 192000 /\ RateOf[8] = 96000
BY DEF RateOf

LEMMA CodeFits ==
  ASSUME NEW r, NEW b \in RateBits(r)
  PROVE  b \in 0..7 /\ (r \in TableRates => r \in SampleRateConv[b + 1])
<1> DEFINE found == {i \in DOMAIN SampleRateConv : r \in SampleRateConv[i]}
<1>1. CASE found # {}
  <2>1. PICK i \in found : b = i - 1
    BY <1>1 DEF RateBits
  <2>2. i \in 1..8 /\ r \in SampleRateConv[i]
    BY <2>1, Table
  <2>3. b \in 0..7 /\ b + 1 = i
    BY <2>1, <2>2
  <2>4. QED
    BY <2>2, <2>3
<1>2. CASE found = {}
  <2>1. b \in 0..7
    BY <1>2 DEF RateBits
  <2>2. r \notin TableRates
    BY <1>2 DEF TableRates
  <2>3. QED
    BY <2>1, <2>2
<1>3. QED
  BY <1>1, <1>2

(* A code and the clock of its rate make the rate.                           *)
LEMMA CodePlays ==
  ASSUME NEW r, NEW i \in 1..8, r \in SampleRateConv[i]
  PROVE  (RateOf[i] * ((2 * FreqPoint(r)) \div 25600)) \div 1920 = r
<1>1. CASE r \in Rates48
  <2>1. FreqPoint(r) = 24576000 /\ (2 * 24576000) \div 25600 = 1920
    BY <1>1 DEF FreqPoint
  <2>2. r = RateOf[i] /\ r \in Nat
    BY <1>1, Table, Codes DEF Rates48
  <2>3. (r * 1920) \div 1920 = r
    BY <2>2
  <2>4. QED
    BY <2>1, <2>2, <2>3
<1>2. CASE r \notin Rates48
  <2>1. FreqPoint(r) = 22579200 /\ (2 * 22579200) \div 25600 = 1764
    BY <1>2 DEF FreqPoint
  <2>2. \/ r = 44100 /\ RateOf[i] = 48000
        \/ r = 22050 /\ RateOf[i] = 24000
        \/ r = 11025 /\ RateOf[i] = 12000
    BY <1>2, Table, Codes DEF Rates48
  <2>3. /\ (48000 * 1764) \div 1920 = 44100
        /\ (24000 * 1764) \div 1920 = 22050
        /\ (12000 * 1764) \div 1920 = 11025
    OBVIOUS
  <2>4. QED
    BY <2>1, <2>2, <2>3
<1>3. QED
  BY <1>1, <1>2
-----------------------------------------------------------------------------
(* The registers and the histories that are kept with them.                  *)
Registers ==
  /\ dac \in [pllx4: Nat, audio: Nat, fs: 0..7, bits: {16, 24}, mono: BOOLEAN,
              route: SUBSET Route, drq: BOOLEAN, lineout: Volumes \cup {0}]
  /\ cfg \in Params \cup {NoCfg}
  /\ cmd \in Running \cup Halted

(* The control threads: a thread in SetCtrlOps holds values of its control   *)
(* and, before it stores one, still has one.                                 *)
Jobs ==
  [at: {"store", "load", "write"}, ctl: {"vol"}, vals: Seq(Volumes), out: Volumes \cup {0}]
  \cup
  [at: {"store", "load", "write"}, ctl: {"mute"}, vals: Seq({0, 1}), out: Volumes \cup {0}]

Threads ==
  /\ kctl \in [vol: Volumes, mute: {0, 1}]
  /\ DOMAIN setter = Setters
  /\ \A t \in Setters : setter[t] # Idle =>
       setter[t] \in Jobs /\ (setter[t].at = "store" => setter[t].vals # <<>>)

IInv == Registers /\ Threads /\ DacPlaysAsAsked /\ OutputFollowsTrigger

(* HwParams, successful or not, works on the clocks and the format.          *)
HwParams ==
  \E p \in Params : \/ HwParamsClockRefused(p) \/ HwParamsBitsRejected(p)
                    \/ HwParamsChansRejected(p) \/ T507CodecImplHwParams(p)

LEMMA HwParamsLeaves ==
  ASSUME Registers, HwParams
  PROVE  /\ Registers'
         /\ dac'.route = dac.route /\ dac'.drq = dac.drq /\ dac'.lineout = dac.lineout
         /\ UNCHANGED <<kctl, setter, cmd, touched>>
         /\ cfg' = NoCfg \/ \E p \in Params : T507CodecImplHwParams(p)
<1> USE DEF Registers
<1>1. PICK p \in Params : \/ HwParamsClockRefused(p) \/ HwParamsBitsRejected(p)
                          \/ HwParamsChansRejected(p) \/ T507CodecImplHwParams(p)
  BY DEF HwParams
<1>2. FreqPoint(p.rate) \in Nat /\ 4 * FreqPoint(p.rate) \in Nat /\ 2 * FreqPoint(p.rate) \in Nat
  BY FreqPointType
<1>3. CASE HwParamsClockRefused(p)
  BY <1>2, <1>3 DEF HwParamsClockRefused
<1>4. CASE HwParamsBitsRejected(p)
  BY <1>2, <1>4 DEF HwParamsBitsRejected, WithClocks
<1>5. CASE HwParamsChansRejected(p)
  <2>1. PICK b \in RateBits(p.rate) : dac' = [WithClocks(dac, p) EXCEPT !.bits = p.bits, !.fs = b]
    BY <1>5 DEF HwParamsChansRejected, WithFormat
  <2>2. b \in 0..7 /\ p.bits \in {16, 24}
    BY <2>1, <1>5, CodeFits DEF HwParamsChansRejected
  <2>3. QED
    BY <1>2, <1>5, <2>1, <2>2 DEF HwParamsChansRejected, WithClocks
<1>6. CASE T507CodecImplHwParams(p)
  <2>1. PICK d \in WithFormat(WithClocks(dac, p), p) :
          dac' = [d EXCEPT !.mono = (p.chans = 1)]
    BY <1>6 DEF T507CodecImplHwParams
  <2>2. PICK b \in RateBits(p.rate) :
          d = [WithClocks(dac, p) EXCEPT !.bits = p.bits, !.fs = b]
    BY <2>1 DEF WithFormat
  <2>3. b \in 0..7 /\ p.bits \in {16, 24}
    BY <2>2, <1>6, CodeFits DEF T507CodecImplHwParams
  <2>4. QED
    BY <1>2, <1>6, <2>1, <2>2, <2>3 DEF T507CodecImplHwParams, WithClocks
<1>7. QED
  BY <1>1, <1>3, <1>4, <1>5, <1>6

(* A successful HwParams sets everything as asked.                           *)
LEMMA HwParamsSets ==
  ASSUME Registers, NEW p \in Params, T507CodecImplHwParams(p)
  PROVE  DacPlaysAsAsked' /\ cfg' = p
<1> USE DEF Registers
<1>0. PICK d \in WithFormat(WithClocks(dac, p), p) :
        dac' = [d EXCEPT !.mono = (p.chans = 1)]
  BY DEF T507CodecImplHwParams
<1>1. PICK b \in RateBits(p.rate) :
        d = [WithClocks(dac, p) EXCEPT !.bits = p.bits, !.fs = b]
  BY <1>0 DEF WithFormat
<1>2. /\ dac'.fs = b /\ dac'.bits = p.bits /\ dac'.mono = (p.chans = 1)
      /\ dac'.pllx4 = 4 * FreqPoint(p.rate) /\ dac'.audio = 2 * FreqPoint(p.rate)
  BY <1>0, <1>1 DEF WithClocks
<1>3. cfg' = p
  BY DEF T507CodecImplHwParams
<1>4. p.rate \in TableRates => DacRate' = p.rate
  <2>1. SUFFICES ASSUME p.rate \in TableRates PROVE DacRate' = p.rate
    OBVIOUS
  <2>2. b \in 0..7 /\ p.rate \in SampleRateConv[b + 1]
    BY <2>1, CodeFits
  <2>3. b + 1 \in 1..8
    BY <2>2
  <2>4. (RateOf[b + 1] * ((2 * FreqPoint(p.rate)) \div 25600)) \div 1920 = p.rate
    BY <2>2, <2>3, CodePlays
  <2>5. QED
    BY <1>2, <2>4 DEF DacRate
<1>5. FreqPoint(p.rate) \in Nat
  BY FreqPointType
<1>6. dac'.pllx4 = 2 * dac'.audio
  BY <1>2, <1>5
<1>7. QED
  BY <1>2, <1>3, <1>4, <1>6 DEF DacPlaysAsAsked

-----------------------------------------------------------------------------
LEMMA InvInit == Init => IInv
<1> SUFFICES ASSUME Init PROVE IInv
  OBVIOUS
<1>1. Registers
  <2>1. PICK v \in Volumes \cup {0} :
          dac = [pllx4 |-> 0, audio |-> 0, fs |-> 0, bits |-> 16, mono |-> FALSE,
                 route |-> {}, drq |-> FALSE, lineout |-> v]
    BY DEF Init
  <2>2. cfg \in Params \cup {NoCfg} /\ cmd \in Running \cup Halted
    BY DEF Init, Halted
  <2>3. QED
    BY <2>1, <2>2 DEF Registers
<1>2. Threads
  BY DEF Init, Threads
<1>3. OutputFollowsTrigger
  <2>1. dac.drq = FALSE /\ dac.route = {} /\ cmd \notin Running
    BY DEF Init, Running
  <2>2. (cmd \in Running) = FALSE
    BY <2>1, SMT
  <2>3. dac.drq = (cmd \in Running)
    BY <2>1, <2>2, Zenon
  <2>4. QED
    BY <2>1, <2>3 DEF OutputFollowsTrigger
<1>4. DacPlaysAsAsked
  BY DEF Init, DacPlaysAsAsked
<1>5. QED
  BY <1>1, <1>2, <1>3, <1>4 DEF IInv

LEMMA HwParamsStep ==
  ASSUME IInv, HwParams
  PROVE  IInv'
<1>1. /\ Registers' /\ UNCHANGED <<kctl, setter, cmd>>
      /\ dac'.route = dac.route /\ dac'.drq = dac.drq
      /\ cfg' = NoCfg \/ \E p \in Params : T507CodecImplHwParams(p)
  BY HwParamsLeaves DEF IInv
<1>2. DacPlaysAsAsked'
  <2>1. CASE cfg' = NoCfg
    BY <2>1 DEF DacPlaysAsAsked
  <2>2. CASE \E p \in Params : T507CodecImplHwParams(p)
    BY <2>2, HwParamsSets DEF IInv
  <2>3. QED
    BY <1>1, <2>1, <2>2
<1>3. Threads'
  BY <1>1 DEF IInv, Threads
<1>4. OutputFollowsTrigger'
  BY <1>1, Zenon DEF IInv, OutputFollowsTrigger
<1>5. QED
  BY <1>1, <1>2, <1>3, <1>4 DEF IInv

(* Setting route and DMA request leaves the other registers alone.           *)
LEMMA OutputSets ==
  ASSUME Registers, NEW r \in SUBSET Route, NEW b \in BOOLEAN,
         dac' = [dac EXCEPT !.route = r, !.drq = b],
         cmd' \in Running \cup Halted, cfg' = cfg
  PROVE  /\ Registers' /\ dac'.route = r /\ dac'.drq = b
         /\ dac'.pllx4 = dac.pllx4 /\ dac'.audio = dac.audio /\ dac'.fs = dac.fs
         /\ dac'.bits = dac.bits /\ dac'.mono = dac.mono /\ dac'.lineout = dac.lineout
BY DEF Registers

(* Starting and stopping change the route and the DMA request only.          *)
LEMMA TriggerSets ==
  ASSUME Registers, NEW c \in {"start", "resume", "stop", "pause"}, T507CodecDaiTrigger(c)
  PROVE  /\ Registers' /\ cmd' = c
         /\ dac'.route = IF c \in Running THEN Route ELSE {}
         /\ dac'.drq = (c \in Running)
         /\ dac'.pllx4 = dac.pllx4 /\ dac'.audio = dac.audio /\ dac'.fs = dac.fs
         /\ dac'.bits = dac.bits /\ dac'.mono = dac.mono /\ dac'.lineout = dac.lineout
         /\ UNCHANGED <<kctl, setter, cfg, touched>>
<1>1. /\ dac' = [dac EXCEPT !.route = IF c \in Running THEN Route ELSE {},
                            !.drq = (c \in Running)]
      /\ cmd' = c /\ UNCHANGED <<kctl, setter, cfg, touched>>
  BY DEF T507CodecDaiTrigger, Trigger
<1>2. c \in Running \cup Halted
  BY DEF Running, Halted
<1>3. CASE c \in Running
  <2>1. dac' = [dac EXCEPT !.route = Route, !.drq = TRUE]
    BY <1>1, <1>3, Zenon
  <2>2. /\ Registers' /\ dac'.route = Route /\ dac'.drq = TRUE
        /\ dac'.pllx4 = dac.pllx4 /\ dac'.audio = dac.audio /\ dac'.fs = dac.fs
        /\ dac'.bits = dac.bits /\ dac'.mono = dac.mono /\ dac'.lineout = dac.lineout
    <3>1. Route \in SUBSET Route /\ TRUE \in BOOLEAN
      OBVIOUS
    <3>2. cmd' \in Running \cup Halted /\ cfg' = cfg
      BY <1>1, <1>2
    <3>3. QED
      BY <2>1, <3>1, <3>2, OutputSets
  <2>3. (c \in Running) = TRUE
    BY <1>3, SMT
  <2>4. QED
    BY ONLY <1>1, <1>3, <2>2, <2>3
<1>4. CASE c \notin Running
  <2>0. (c \in Running) = FALSE
    BY <1>4, SMT
  <2>1. (IF c \in Running THEN Route ELSE {}) = {} /\ (c \in Running) = FALSE
    BY <1>4, <2>0, Zenon
  <2>2. dac' = [dac EXCEPT !.route = {}, !.drq = FALSE]
    BY <1>1, <2>1, Zenon
  <2>3. /\ Registers' /\ dac'.route = {} /\ dac'.drq = FALSE
        /\ dac'.pllx4 = dac.pllx4 /\ dac'.audio = dac.audio /\ dac'.fs = dac.fs
        /\ dac'.bits = dac.bits /\ dac'.mono = dac.mono /\ dac'.lineout = dac.lineout
    <3>1. {} \in SUBSET Route /\ FALSE \in BOOLEAN
      OBVIOUS
    <3>2. cmd' \in Running \cup Halted /\ cfg' = cfg
      BY <1>1, <1>2
    <3>3. QED
      BY <2>2, <3>1, <3>2, OutputSets
  <2>4. QED
    BY <1>1, <2>1, <2>3, Zenon
<1>5. QED
  BY <1>3, <1>4

LEMMA TriggerStep ==
  ASSUME IInv, NEW c \in {"start", "resume", "stop", "pause"}, T507CodecDaiTrigger(c)
  PROVE  IInv'
<1>1. /\ Registers' /\ cmd' = c
      /\ dac'.route = IF c \in Running THEN Route ELSE {}
      /\ dac'.drq = (c \in Running)
      /\ dac'.pllx4 = dac.pllx4 /\ dac'.audio = dac.audio /\ dac'.fs = dac.fs
      /\ dac'.bits = dac.bits /\ dac'.mono = dac.mono
      /\ UNCHANGED <<kctl, setter, cfg, touched>>
  BY TriggerSets DEF IInv
<1>2. DacPlaysAsAsked'
  <2>1. DacRate' = DacRate
    BY <1>1 DEF DacRate
  <2>2. QED
    BY <1>1, <2>1, Zenon DEF IInv, DacPlaysAsAsked
<1>3. Threads'
  BY <1>1 DEF IInv, Threads
<1>4. OutputFollowsTrigger'
  BY <1>1, Zenon DEF OutputFollowsTrigger
<1>5. QED
  BY <1>1, <1>2, <1>3, <1>4 DEF IInv

LEMMA HeadAndTail ==
  ASSUME NEW S, NEW q \in Seq(S), q # <<>>
  PROVE  Head(q) \in S /\ Tail(q) \in Seq(S)
OBVIOUS

(* What the control threads do to their variables and to the line-out.       *)
LEMMA StoreSets ==
  ASSUME Threads, NEW t \in Setters, Store(t)
  PROVE  Threads'
<1>1. setter[t] # Idle /\ setter[t] \in Jobs /\ setter[t].vals # <<>>
  BY DEF Store, Threads
<1> DEFINE S == IF setter[t].ctl = "vol" THEN Volumes ELSE {0, 1}
<1>2. setter[t].vals \in Seq(S)
  <2>1. CASE setter[t].ctl = "vol"
    BY <1>1, <2>1 DEF Jobs
  <2>2. CASE setter[t].ctl # "vol"
    BY <1>1, <2>2 DEF Jobs
  <2>3. QED
    BY <2>1, <2>2
<1>3. Head(setter[t].vals) \in S /\ Tail(setter[t].vals) \in Seq(S)
  <2> HIDE DEF S
  <2>1. QED
    BY <1>1, <1>2, HeadAndTail
<1>4. kctl' \in [vol: Volumes, mute: {0, 1}]
  BY <1>1, <1>2, <1>3 DEF Store, Threads, Jobs
<1>5. setter' = [setter EXCEPT ![t] = [setter[t] EXCEPT !.at = "load", !.vals = Tail(setter[t].vals)]]
  BY DEF Store
<1>6. [setter[t] EXCEPT !.at = "load", !.vals = Tail(setter[t].vals)] \in Jobs
  BY <1>1, <1>2, <1>3 DEF Jobs
<1>7. setter'[t].at = "load"
  BY <1>1, <1>5 DEF Threads, Jobs
<1>8. QED
  BY <1>4, <1>5, <1>6, <1>7 DEF Threads

LEMMA LineoutType ==
  ASSUME Threads, NEW t
  PROVE  Lineout(t) \in Volumes \cup {0}
BY DEF Lineout, Threads

LEMMA LoadSets ==
  ASSUME Threads, NEW t \in Setters, Load(t)
  PROVE  Threads'
<1>1. setter[t] # Idle /\ setter[t] \in Jobs
  BY DEF Load, Threads
<1>2. setter' = [setter EXCEPT ![t] = [setter[t] EXCEPT !.at = "write", !.out = Lineout(t)]]
  BY DEF Load
<1>3. [setter[t] EXCEPT !.at = "write", !.out = Lineout(t)] \in Jobs
  BY <1>1, LineoutType DEF Jobs
<1>4. setter'[t].at = "write"
  BY <1>1, <1>2 DEF Threads, Jobs
<1>5. kctl' = kctl
  BY DEF Load
<1>6. QED
  BY <1>2, <1>3, <1>4, <1>5 DEF Threads

LEMMA WriteSets ==
  ASSUME Threads, NEW t \in Setters, Write(t)
  PROVE  Threads' /\ dac' = [dac EXCEPT !.lineout = setter[t].out]
         /\ setter[t].out \in Volumes \cup {0}
<1>1. setter[t] # Idle /\ setter[t] \in Jobs
  BY DEF Write, Threads
<1>2. dac' = [dac EXCEPT !.lineout = setter[t].out] /\ kctl' = kctl
  BY DEF Write
<1>3. setter[t].out \in Volumes \cup {0}
  BY <1>1 DEF Jobs
<1>4. CASE setter' = [setter EXCEPT ![t] = Idle]
  BY <1>2, <1>3, <1>4 DEF Threads
<1>5. CASE setter[t].vals # <<>> /\ setter' = [setter EXCEPT ![t].at = "store"]
  <2>1. setter' = [setter EXCEPT ![t] = [setter[t] EXCEPT !.at = "store"]]
    BY <1>5
  <2>2. [setter[t] EXCEPT !.at = "store"] \in Jobs
    BY <1>1 DEF Jobs
  <2>3. [setter[t] EXCEPT !.at = "store"].vals = setter[t].vals
    BY <1>1 DEF Jobs
  <2>4. QED
    BY <1>2, <1>3, <1>5, <2>1, <2>2, <2>3 DEF Threads
<1>6. QED
  BY <1>4, <1>5 DEF Write

LEMMA CallSets ==
  ASSUME Threads, NEW t \in Setters, NEW S \in {Volumes, {0, 1}}, NEW vals \in Seq(S),
         vals # <<>>, SetCtrlOps(t, IF S = Volumes THEN "vol" ELSE "mute", vals)
  PROVE  Threads'
<1> DEFINE ctl == IF S = Volumes THEN "vol" ELSE "mute"
           job == [at |-> "store", ctl |-> ctl, vals |-> vals, out |-> 0]
<1>1. setter' = [setter EXCEPT ![t] = job] /\ kctl' = kctl
  BY DEF SetCtrlOps
<1>2. job \in Jobs
  BY DEF Jobs
<1>3. QED
  BY <1>1, <1>2 DEF Threads

(* The steps of the control threads.                                         *)
Controls ==
  \/ \E t \in Setters, v \in Volumes : SetCtrlOps(t, "vol", <<v>>)
  \/ \E t \in Setters, v, w \in Volumes : SetCtrlOps(t, "vol", <<v, w>>)
  \/ \E t \in Setters, m \in {0, 1} : SetCtrlOps(t, "mute", <<m>>)
  \/ \E t \in Setters : Store(t)
  \/ \E t \in Setters : Load(t)
  \/ \E t \in Setters : Write(t)

LEMMA ControlStep ==
  ASSUME IInv, Controls
  PROVE  IInv'
<1> USE DEF IInv
<1>1. UNCHANGED <<cfg, cmd>>
  BY DEF Controls, SetCtrlOps, Store, Load, Write
<1>2. CASE \E t \in Setters, v \in Volumes : SetCtrlOps(t, "vol", <<v>>)
  <2>1. PICK t \in Setters, v \in Volumes : SetCtrlOps(t, "vol", <<v>>)
    BY <1>2
  <2>2. <<v>> \in Seq(Volumes) /\ <<v>> # <<>>
    OBVIOUS
  <2>3. Threads' /\ UNCHANGED dac
    BY <2>1, <2>2, CallSets DEF SetCtrlOps
  <2>4. QED
    BY <1>1, <2>3 DEF Registers, DacPlaysAsAsked, DacRate, OutputFollowsTrigger
<1>3. CASE \E t \in Setters, v, w \in Volumes : SetCtrlOps(t, "vol", <<v, w>>)
  <2>1. PICK t \in Setters, v \in Volumes, w \in Volumes : SetCtrlOps(t, "vol", <<v, w>>)
    BY <1>3
  <2>2. <<v, w>> \in Seq(Volumes) /\ <<v, w>> # <<>>
    OBVIOUS
  <2>3. Threads' /\ UNCHANGED dac
    BY <2>1, <2>2, CallSets DEF SetCtrlOps
  <2>4. QED
    BY <1>1, <2>3 DEF Registers, DacPlaysAsAsked, DacRate, OutputFollowsTrigger
<1>4. CASE \E t \in Setters, m \in {0, 1} : SetCtrlOps(t, "mute", <<m>>)
  <2>1. PICK t \in Setters, m \in {0, 1} : SetCtrlOps(t, "mute", <<m>>)
    BY <1>4
  <2>2. <<m>> \in Seq({0, 1}) /\ <<m>> # <<>> /\ {0, 1} # Volumes
    OBVIOUS
  <2>3. Threads' /\ UNCHANGED dac
    BY <2>1, <2>2, CallSets DEF SetCtrlOps
  <2>4. QED
    BY <1>1, <2>3 DEF Registers, DacPlaysAsAsked, DacRate, OutputFollowsTrigger
<1>5. CASE \E t \in Setters : Store(t) \/ Load(t)
  <2>1. Threads' /\ UNCHANGED dac
    BY <1>5, StoreSets, LoadSets DEF Store, Load
  <2>2. QED
    BY <1>1, <2>1 DEF Registers, DacPlaysAsAsked, DacRate, OutputFollowsTrigger
<1>6. CASE \E t \in Setters : Write(t)
  <2>1. PICK t \in Setters : Write(t)
    BY <1>6
  <2>2. /\ Threads' /\ dac' = [dac EXCEPT !.lineout = setter[t].out]
        /\ setter[t].out \in Volumes \cup {0}
    BY <2>1, WriteSets
  <2>3. /\ Registers'
        /\ dac'.pllx4 = dac.pllx4 /\ dac'.audio = dac.audio /\ dac'.fs = dac.fs
        /\ dac'.bits = dac.bits /\ dac'.mono = dac.mono /\ dac'.route = dac.route
        /\ dac'.drq = dac.drq
    BY <1>1, <2>2 DEF Registers
  <2>4. DacRate' = DacRate
    BY <2>3 DEF DacRate
  <2>5. DacPlaysAsAsked'
    BY <1>1, <2>3, <2>4, Zenon DEF DacPlaysAsAsked
  <2>6. OutputFollowsTrigger'
    BY <1>1, <2>3, Zenon DEF OutputFollowsTrigger
  <2>7. QED
    BY <2>2, <2>3, <2>5, <2>6
<1>7. QED
  BY <1>2, <1>3, <1>4, <1>5, <1>6 DEF Controls

LEMMA InvStep == IInv /\ [Next]_vars => IInv'
<1> SUFFICES ASSUME IInv, [Next]_vars PROVE IInv'
  OBVIOUS
<1>1. CASE HwParams
  BY <1>1, HwParamsStep
<1>2. CASE \E c \in {"start", "resume", "stop", "pause"} : T507CodecDaiTrigger(c)
  BY <1>2, TriggerStep
<1>3. CASE Controls
  BY <1>3, ControlStep
<1>4. CASE UNCHANGED vars
  BY <1>4 DEF vars, IInv, Registers, Threads, DacPlaysAsAsked, DacRate, OutputFollowsTrigger
<1>5. QED
  BY <1>1, <1>2, <1>3, <1>4 DEF Next, HwParams, Controls

LEMMA Inductive == Spec => []IInv
BY InvInit, InvStep, PTL DEF Spec

-----------------------------------------------------------------------------
LEMMA JobsArePossible == Jobs \subseteq Progress
<1>1. Seq(Volumes) \subseteq Seq(Nat) /\ Seq({0, 1}) \subseteq Seq(Nat)
  <2>1. Volumes \subseteq Nat /\ {0, 1} \subseteq Nat
    OBVIOUS
  <2>2. \A q \in Seq(Volumes) : q \in Seq(Nat)
    BY <2>1, SeqMonotonic, Zenon
  <2>3. \A q \in Seq({0, 1}) : q \in Seq(Nat)
    BY <2>1, SeqMonotonic, Zenon
  <2>4. QED
    BY <2>2, <2>3, Zenon
<1>2. Volumes \cup {0} \subseteq Nat
  OBVIOUS
<1>3. QED
  BY <1>1, <1>2 DEF Jobs, Progress

(* Every variable has its type, for any number of control threads.           *)
THEOREM CodecTypes == Spec => []TypeOK
<1>1. Spec => [](touched \in BOOLEAN)
  <2>1. Init => touched \in BOOLEAN
    BY DEF Init
  <2>2. touched \in BOOLEAN /\ [Next]_vars => (touched \in BOOLEAN)'
    BY DEF Next, HwParamsClockRefused, HwParamsBitsRejected, HwParamsChansRejected,
           T507CodecImplHwParams, T507CodecDaiTrigger, SetCtrlOps, Store, Load, Write, vars
  <2>3. QED
    BY <2>1, <2>2, PTL DEF Spec
<1>2. ASSUME IInv, touched \in BOOLEAN PROVE TypeOK
  <2>1. Registers /\ Threads
    BY <1>2 DEF IInv
  <2>2. dac.mono \in BOOLEAN /\ dac.drq \in BOOLEAN
    BY <2>1 DEF Registers
  <2>3. {dac.mono, dac.drq, touched} \subseteq BOOLEAN
    BY <1>2, <2>2, Zenon
  <2>4. \A t \in Setters : setter[t] = Idle \/ setter[t] \in Progress
    BY <2>1, JobsArePossible DEF Threads
  <2>5. dac.fs \in 0..7 /\ dac.bits \in {16, 24} /\ dac.route \in SUBSET Route
        /\ dac.lineout \in Volumes \cup {0}
    BY <2>1 DEF Registers
  <2>6. QED
    BY <2>1, <2>3, <2>4, <2>5, Zenon DEF Registers, Threads, TypeOK
<1>3. QED
  BY Inductive, <1>1, <1>2, PTL

(* After a successful HwParams the codec plays what was asked for, over any  *)
(* sequence of failed attempts, starts, stops and control settings.          *)
THEOREM PlaysAsAsked == Spec => []DacPlaysAsAsked
<1>1. IInv => DacPlaysAsAsked
  BY DEF IInv
<1>2. QED
  BY Inductive, <1>1, PTL

(* Output and DMA request are on exactly while the stream runs.              *)
THEOREM OutputFollows == Spec => []OutputFollowsTrigger
<1>1. IInv => OutputFollowsTrigger
  BY DEF IInv
<1>2. QED
  BY Inductive, <1>1, PTL

-----------------------------------------------------------------------------
(* The line-out register of one control thread: right whenever the thread    *)
(* has written and not stored since, and about to be right once it loaded.   *)
LineoutRight(t) == touched => dac.lineout = Lineout(t)

Volume(t) ==
  /\ setter[t] = Idle => LineoutRight(t)
  /\ setter[t] # Idle /\ setter[t].at = "store" => LineoutRight(t)
  /\ setter[t] # Idle /\ setter[t].at = "write" => setter[t].out = Lineout(t)

LEMMA VolumeInit == ASSUME NEW t \in Setters PROVE Init => Volume(t)
BY DEF Init, Volume, LineoutRight

LEMMA VolumeStep ==
  ASSUME NEW t, Setters = {t}, IInv, Volume(t), [Next]_vars
  PROVE  Volume(t)'
<1>1. Registers /\ Threads /\ t \in Setters
  BY DEF IInv
<1>2. setter[t] # Idle => setter[t] \in Jobs
  BY <1>1 DEF Threads
<1>3. CASE HwParams
  <2>1. dac'.lineout = dac.lineout /\ UNCHANGED <<kctl, setter, touched>>
    BY <1>1, <1>3, HwParamsLeaves
  <2>2. QED
    BY <2>1 DEF Volume, LineoutRight, Lineout
<1>4. CASE \E c \in {"start", "resume", "stop", "pause"} : T507CodecDaiTrigger(c)
  <2>1. dac'.lineout = dac.lineout /\ UNCHANGED <<kctl, setter, touched>>
    BY <1>1, <1>4, TriggerSets
  <2>2. QED
    BY <2>1 DEF Volume, LineoutRight, Lineout
<1>5. ASSUME NEW ctl, NEW vals, SetCtrlOps(t, ctl, vals) PROVE Volume(t)'
  <2>1. setter[t] = Idle /\ setter'[t].at = "store" /\ UNCHANGED <<dac, kctl, touched>>
    BY <1>1, <1>5 DEF SetCtrlOps, Threads
  <2>2. LineoutRight(t)'
    BY <2>1 DEF Volume, LineoutRight, Lineout
  <2>3. QED
    BY <2>1, <2>2 DEF Volume
<1>6. CASE Store(t)
  <2>1. setter' = [setter EXCEPT ![t] = [setter[t] EXCEPT !.at = "load", !.vals = Tail(setter[t].vals)]]
        /\ setter[t] \in Jobs
    BY <1>2, <1>6 DEF Store
  <2>2. setter'[t].at = "load" /\ setter'[t] # Idle
    <3>1. setter'[t] \in Jobs \/ setter'[t] = Idle
      BY <1>1, <1>6, StoreSets DEF Threads
    <3>2. [setter[t] EXCEPT !.at = "load", !.vals = Tail(setter[t].vals)] \in Progress
      <4>1. Tail(setter[t].vals) \in Seq(Nat)
        <5>1. setter[t].vals # <<>>
          BY <1>1, <1>6 DEF Store, Threads
        <5>2. setter[t].vals \in Seq(Nat)
          BY <2>1, JobsArePossible DEF Progress
        <5>3. QED
          BY <5>1, <5>2, HeadAndTail
      <4>2. QED
        BY <2>1, <4>1, JobsArePossible DEF Progress
    <3>3. QED
      BY <1>1, <2>1, <3>2 DEF Threads, Jobs
  <2>3. QED
    BY <2>2 DEF Volume
<1>7. CASE Load(t)
  <2>1. setter' = [setter EXCEPT ![t] = [setter[t] EXCEPT !.at = "write", !.out = Lineout(t)]]
        /\ setter[t] \in Jobs /\ UNCHANGED <<dac, kctl, touched>>
    BY <1>2, <1>7 DEF Load
  <2>2. [setter[t] EXCEPT !.at = "write", !.out = Lineout(t)] \in Progress
    <3>1. [setter[t] EXCEPT !.at = "write", !.out = Lineout(t)] \in Jobs
      BY <1>1, <2>1, LineoutType DEF Jobs
    <3>2. QED
      BY <3>1, JobsArePossible, Zenon
  <2>3. setter'[t].at = "write" /\ setter'[t].out = Lineout(t) /\ setter'[t] # Idle
    BY <1>1, <2>1, <2>2 DEF Threads, Jobs
  <2>4. QED
    BY <2>1, <2>3 DEF Volume, Lineout
<1>8. CASE Write(t)
  <2>1. setter[t] # Idle /\ setter[t].at = "write" /\ kctl' = kctl /\ touched'
    BY <1>8 DEF Write
  <2>2. dac'.lineout = Lineout(t)
    BY <1>1, <1>8, <2>1, WriteSets DEF Registers, Volume
  <2>3. LineoutRight(t)'
    BY <2>1, <2>2 DEF LineoutRight, Lineout
  <2>4. setter'[t] = Idle \/ setter'[t].at = "store"
    BY <1>1, <1>2, <1>8, <2>1 DEF Write, Threads, Jobs
  <2>5. QED
    BY <2>3, <2>4 DEF Volume
<1>9. CASE UNCHANGED vars
  BY <1>9 DEF vars, Volume, LineoutRight, Lineout
<1>10. CASE Controls
  <2>1. \A u \in Setters : u = t
    OBVIOUS
  <2>2. (\E u \in Setters : \E ctl, vals : SetCtrlOps(u, ctl, vals)) =>
          \E ctl, vals : SetCtrlOps(t, ctl, vals)
    BY <2>1, Zenon
  <2>3. /\ (\E u \in Setters : Store(u)) => Store(t)
        /\ (\E u \in Setters : Load(u)) => Load(t)
        /\ (\E u \in Setters : Write(u)) => Write(t)
    BY <2>1, Zenon
  <2>4. \/ \E u \in Setters : \E ctl, vals : SetCtrlOps(u, ctl, vals)
        \/ \E u \in Setters : Store(u) \/ Load(u) \/ Write(u)
    BY <1>10, Zenon DEF Controls
  <2>5. QED
    BY <2>2, <2>3, <2>4, <1>5, <1>6, <1>7, <1>8
<1>11. QED
  BY <1>3, <1>4, <1>9, <1>10 DEF Next, HwParams, Controls

(* With one control thread the line-out register holds the volume, or 0 when *)
(* muted, after every setting, whatever the stream does meanwhile.           *)
THEOREM VolumeKept ==
  ASSUME NEW t, Setters = {t}
  PROVE  Spec => []VolumeCoherent
<1>1. Init => Volume(t)
  BY VolumeInit
<1>2. IInv /\ Volume(t) /\ [Next]_vars => Volume(t)'
  BY VolumeStep
<1>3. Volume(t) => VolumeCoherent
  BY DEF Volume, LineoutRight, Lineout, VolumeCoherent
<1>4. QED
  BY <1>1, <1>2, <1>3, Inductive, PTL DEF Spec

-----------------------------------------------------------------------------
(* What the codec's registers stand for in AudioStream.                      *)
Setup == IF cfg = NoCfg THEN NoCfg
         ELSE [rate |-> DacRate, bits |-> dac.bits, chans |-> IF dac.mono THEN 1 ELSE 2]

Flow == IF dac.drq /\ dac.route = Route THEN "on"
        ELSE IF ~dac.drq /\ dac.route = {} THEN "off" ELSE "half"

LEMMA FlowFollows ==
  ASSUME OutputFollowsTrigger
  PROVE  Flow = IF cmd \in Running THEN "on" ELSE "off"
<1>1. Route # {}
  BY DEF Route
<1>2. CASE cmd \in Running
  BY <1>2, Zenon DEF OutputFollowsTrigger, Flow
<1>3. CASE cmd \notin Running
  BY <1>1, <1>3, Zenon DEF OutputFollowsTrigger, Flow
<1>4. QED
  BY <1>2, <1>3

LEMMA RateIsNat == ASSUME Registers PROVE DacRate \in Nat
<1>1. dac.fs + 1 \in 1..8 /\ dac.audio \in Nat
  BY DEF Registers
<1>2. RateOf[dac.fs + 1] \in Nat
  BY <1>1, Codes
<1>3. dac.audio \div 25600 \in Nat
  BY <1>1
<1>4. RateOf[dac.fs + 1] * (dac.audio \div 25600) \in Nat
  BY <1>2, <1>3
<1>5. QED
  BY <1>4 DEF DacRate

LEMMA SetupFits ==
  ASSUME Registers, DacPlaysAsAsked, cfg \in Params
  PROVE  Setup \in [rate: Nat, bits: Nat, chans: Nat] /\ (cfg \in TableParams /\ cfg.chans \in {1, 2} => Setup = cfg)
<1>1. cfg # NoCfg /\ cfg \in [rate: Nat \ {0}, bits: Nat, chans: Nat]
  OBVIOUS
<1>2. Setup = [rate |-> DacRate, bits |-> dac.bits, chans |-> IF dac.mono THEN 1 ELSE 2]
  BY <1>1 DEF Setup
<1>3. Setup \in [rate: Nat, bits: Nat, chans: Nat]
  <2>1. dac.bits \in Nat /\ (IF dac.mono THEN 1 ELSE 2) \in Nat
    BY DEF Registers
  <2>2. QED
    BY <1>2, <2>1, RateIsNat
<1>4. ASSUME cfg \in TableParams, cfg.chans \in {1, 2} PROVE Setup = cfg
  <2>1. DacRate = cfg.rate /\ dac.bits = cfg.bits
    BY <1>1, <1>4 DEF DacPlaysAsAsked, TableParams
  <2>2. dac.mono = (cfg.chans = 1)
    BY <1>1, Zenon DEF DacPlaysAsAsked
  <2>3. (IF dac.mono THEN 1 ELSE 2) = cfg.chans
    <3>1. CASE cfg.chans = 1
      BY <2>2, <3>1
    <3>2. CASE cfg.chans = 2
      BY <2>2, <3>2
    <3>3. QED
      BY <1>4, <3>1, <3>2
  <2>4. QED
    BY <1>1, <1>2, <2>1, <2>3
<1>5. QED
  BY <1>3, <1>4

(* The initial state and every step are those of a stream, or stutter.       *)
LEMMA StreamInit == Init => Stream!Init
<1> SUFFICES ASSUME Init PROVE Stream!Init
  OBVIOUS
<1>1. cfg = NoCfg /\ Setup = NoCfg
  BY DEF Init, Setup
<1>2. Flow = "off"
  <2>1. cmd \notin Running
    BY DEF Init, Running
  <2>2. QED
    BY <2>1, InvInit, FlowFollows DEF IInv
<1>3. QED
  BY <1>1, <1>2 DEF Stream!Init, Setup, Flow

FlowIs == Flow = IF cmd \in Running THEN "on" ELSE "off"

SetupIs ==
  cfg \in Params =>
    /\ Setup \in [rate: Nat, bits: Nat, chans: Nat]
    /\ cfg \in TableParams /\ cfg.chans \in {1, 2} => Setup = cfg

LEMMA Reads == IInv => FlowIs /\ SetupIs
BY FlowFollows, SetupFits DEF IInv, FlowIs, SetupIs

LEMMA StreamStep == IInv /\ IInv' /\ [Next]_vars => [Stream!Next]_(Stream!vars)
<1> SUFFICES ASSUME IInv, IInv', [Next]_vars PROVE [Stream!Next]_(Stream!vars)
  OBVIOUS
<1> USE DEF IInv
<1>0. FlowIs /\ FlowIs' /\ SetupIs'
  BY Reads, PTL
<1>1. /\ Flow = IF cmd \in Running THEN "on" ELSE "off"
      /\ Flow' = IF cmd' \in Running THEN "on" ELSE "off"
  BY <1>0 DEF FlowIs
<1>2. CASE HwParams /\ cfg' = NoCfg
  <2>1. Setup' = NoCfg /\ cmd' = cmd
    BY <1>2, HwParamsLeaves DEF Setup
  <2>2. Stream!Spoil
    BY <1>1, <1>2, <2>1 DEF Stream!Spoil, Stream!Forget, Setup, Flow
  <2>3. QED
    BY <2>2 DEF Stream!Next
<1>3. CASE \E p \in Params : T507CodecImplHwParams(p)
  <2>1. PICK p \in Params : T507CodecImplHwParams(p)
    BY <1>3
  <2>2. cfg' = p /\ p.chans \in {1, 2} /\ cmd' = cmd
    BY <2>1 DEF T507CodecImplHwParams
  <2>3. Setup' \in [rate: Nat, bits: Nat, chans: Nat] /\ (cfg' \in TableParams => Setup' = cfg')
    BY <1>0, <2>2 DEF SetupIs
  <2>4. Stream!Prepare
    BY <1>1, <2>2, <2>3 DEF Stream!Prepare, Stream!Setups, Setup, Flow
  <2>5. QED
    BY <2>4 DEF Stream!Next
<1>4. CASE \E c \in {"start", "resume", "stop", "pause"} : T507CodecDaiTrigger(c)
  <2>1. PICK c \in {"start", "resume", "stop", "pause"} : T507CodecDaiTrigger(c)
    BY <1>4
  <2>2. /\ cfg' = cfg /\ dac'.audio = dac.audio /\ dac'.fs = dac.fs
        /\ dac'.bits = dac.bits /\ dac'.mono = dac.mono
    BY <2>1, TriggerSets
  <2>3. Setup' = Setup
    <3>1. DacRate' = DacRate
      BY <2>2 DEF DacRate
    <3>2. QED
      BY <2>2, <3>1, Zenon DEF Setup
  <2>4. CASE cmd' \in Running
    <3>1. Stream!Start
      BY <1>1, <2>2, <2>3, <2>4 DEF Stream!Start, Setup, Flow
    <3>2. QED
      BY <3>1 DEF Stream!Next
  <2>5. CASE cmd' \notin Running
    <3>1. Stream!Halt
      BY <1>1, <2>2, <2>3, <2>5 DEF Stream!Halt, Setup, Flow
    <3>2. QED
      BY <3>1 DEF Stream!Next
  <2>6. QED
    BY <2>4, <2>5
<1>5. CASE Controls \/ UNCHANGED vars
  <2>1. UNCHANGED <<cfg, cmd>> /\ dac'.audio = dac.audio /\ dac'.fs = dac.fs
        /\ dac'.bits = dac.bits /\ dac'.mono = dac.mono
    <3>1. UNCHANGED <<cfg, cmd>>
      BY <1>5 DEF Controls, SetCtrlOps, Store, Load, Write, vars
    <3>2. UNCHANGED dac \/ \E t \in Setters : Write(t)
      BY <1>5 DEF Controls, SetCtrlOps, Store, Load, vars
    <3>3. QED
      BY <3>1, <3>2, WriteSets DEF Registers
  <2>2. DacRate' = DacRate
    BY <2>1 DEF DacRate
  <2>3. Setup' = Setup
    BY <2>1, <2>2, Zenon DEF Setup
  <2>4. UNCHANGED Stream!vars
    BY <1>1, <2>1, <2>3 DEF Stream!vars, Setup, Flow
  <2>5. QED
    BY <2>4
<1>6. QED
  <2>1. HwParams => cfg' = NoCfg \/ \E p \in Params : T507CodecImplHwParams(p)
    BY HwParamsLeaves
  <2>2. QED
    BY <2>1, <1>2, <1>3, <1>4, <1>5 DEF Next, HwParams, Controls

(* The codec's DAI implements AudioStream, for any parameters and controls.  *)
THEOREM CodecIsStream == Spec => ImplementsStream
BY Inductive, StreamInit, StreamStep, PTL DEF Spec, ImplementsStream, Stream!Spec
=============================================================================
