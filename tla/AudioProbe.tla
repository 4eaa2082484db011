----------------------------- MODULE AudioProbe -----------------------------
(***************************************************************************)
(* Binding and unbinding of the two platform drivers of the audio path:    *)
(* the audio hub (t507_dai_ahub_impl_linux.c) and the internal codec       *)
(* (t507_codec_impl_linux.c). A probe runs its init functions in order;    *)
(* each acquires its resources step by step, and on a failing step jumps   *)
(* to a label from which the releases fall through, first its own, then    *)
(* those of the probe function. The labels are tables here: a jump target  *)
(* is a position in a list of releases.                                    *)
(*                                                                         *)
(* The drivers run independently but for the audio PLL: clocks 0 and 1 of  *)
(* both device nodes are its outputs, and the clock framework counts how   *)
(* often an output was enabled, whoever did it.                            *)
(***************************************************************************)
EXTENDS Integers, Sequences, FiniteSets

CONSTANT MaxClkFaults   \* bound: failures to enable a clock of the codec

ASSUME ProbeAssumption == MaxClkFaults \in Nat

VARIABLES
  held,    (* how often each resource is held                                *)
  phase,   (* of each driver: Unbound, i before init function i, or Bound    *)
  named,   (* the optional resources the hub's device node names             *)
  faults   (* failures to enable a clock of the codec so far                 *)

vars == <<held, phase, named, faults>>

Drivers == {"ahub", "codec"}
Unbound == 0
Bound   == 9

(* Resources. The core frees the managed ones when a probe fails and after a
   remove; the counts of enabled clocks and supplies never go below 0. *)
Got(d)     == {d} \X (IF d = "ahub" THEN {"regulator", "module", "pll", "x4"}
                                    ELSE {"avcc", "audio", "pll", "x4"})
Managed(d) == {d} \X {"info", "region", "base", "regmap", "pinctrl"}
On(d)      == {<<"soc", "pll">>, <<"soc", "x4">>} \cup
              {d} \X {"module_on", "audio_on", "supply_on"}
Resources  == UNION {Got(d) \cup Managed(d) \cup On(d) : d \in Drivers}

Times(s, r) == Cardinality({i \in DOMAIN s : s[i] = r})
Take(h, s)  == [r \in Resources |-> h[r] + Times(s, r)]

Floor(r, x) == IF r \in On("ahub") \cup On("codec") /\ x < 0 THEN 0 ELSE x
Drop(h, s)  == [r \in Resources |-> Floor(r, h[r] - Times(s, r))]

(* What the driver core does last. *)
Unmanage(h, d) ==
  [r \in Resources |-> IF r \in Managed(d) /\ h[r] > 0 THEN 0 ELSE h[r]]

-----------------------------------------------------------------------------
(***************************************************************************)
(* Init functions: what each of the steps acquires (Nothing if only        *)
(* something is set) and the position in `undo' that each jumps to when it *)
(* fails; `outer' is the position in the releases of the probe function. A *)
(* function returns early, and successfully, when its option is not named. *)
(***************************************************************************)
Nothing == <<"no", "resource">>
A(r) == <<"ahub", r>>
C(r) == <<"codec", r>>
PllOn == <<"soc", "pll">>
X4On  == <<"soc", "x4">>

RegulatorInit ==
  [steps |-> <<A("regulator"), Nothing, A("supply_on")>>,
   labels |-> <<2, 1, 1>>,
   undo |-> <<A("regulator")>>, outer |-> 4, option |-> {"regulator"}]

MemInit(d, outer) ==
  [steps |-> <<Nothing, <<d, "region">>, <<d, "base">>, <<d, "regmap">> >>,
   labels |-> <<3, 3, 2, 1>>,
   undo |-> << <<d, "base">>, <<d, "region">> >>, outer |-> outer, option |-> {}]

(* Mutant: when the module clock cannot be enabled the x4 output stays on. *)
MutantAhubClkInit ==
  [steps |-> <<A("module"), A("pll"), A("x4"), Nothing, PllOn, X4On, A("module_on")>>,
   labels |-> <<6, 5, 4, 3, 3, 2, 2>>,
   undo |-> <<X4On, PllOn, A("x4"), A("pll"), A("module")>>, outer |-> 2, option |-> {}]

AhubClkInit ==
  [steps |-> <<A("module"), A("pll"), A("x4"), Nothing, PllOn, X4On, A("module_on")>>,
   labels |-> <<6, 5, 4, 3, 3, 2, 1>>,
   undo |-> <<X4On, PllOn, A("x4"), A("pll"), A("module")>>, outer |-> 2, option |-> {}]

PinInit ==
  [steps |-> <<A("pinctrl"), Nothing, Nothing, Nothing>>,
   labels |-> <<2, 1, 1, 1>>,
   undo |-> <<A("pinctrl")>>, outer |-> 1, option |-> {"pinctrl"}]

(* Mutant: the probe function releases what this function released already. *)
MutantCodecClkInit ==
  [steps |-> <<C("pll"), C("x4"), C("audio"), Nothing>>,
   labels |-> <<4, 3, 2, 1>>,
   undo |-> <<C("audio"), C("x4"), C("pll")>>, outer |-> 1, option |-> {}]

CodecClkInit ==
  [steps |-> <<C("pll"), C("x4"), C("audio"), Nothing>>,
   labels |-> <<4, 3, 2, 1>>,
   undo |-> <<C("audio"), C("x4"), C("pll")>>, outer |-> 2, option |-> {}]

(* snd_sunxi_codec_clk_enable, the last step of the codec's clk_init. *)
CodecClkEnable ==
  [steps |-> <<PllOn, X4On, C("audio_on")>>,
   labels |-> <<3, 2, 1>>,
   undo |-> <<X4On, PllOn>>, outer |-> 2, option |-> {}]

(* Mutant: the supply is left for an enable function that is never called. *)
MutantCodecRgltInit ==
  [steps |-> <<C("avcc"), Nothing>>,
   labels |-> <<2, 1>>,
   undo |-> <<C("avcc")>>, outer |-> 1, option |-> {}]

CodecRgltInit ==
  [steps |-> <<C("avcc"), Nothing, C("supply_on")>>,
   labels |-> <<2, 1, 1>>,
   undo |-> <<C("avcc")>>, outer |-> 1, option |-> {}]

InitFunctions ==
  [ahub  |-> <<RegulatorInit, MemInit("ahub", 3), AhubClkInit, PinInit>>,
   codec |-> <<MemInit("codec", 3), CodecClkInit, CodecClkEnable, CodecRgltInit>>]

(* The exit functions, and the labels of the probe functions they stand at. *)
MemExit(d) == << <<d, "base">>, <<d, "region">> >>

AhubClkExit ==
  <<A("module_on"), A("module"), PllOn, A("pll"), X4On, A("x4")>>

(* The hub's exit does nothing for a regulator it did not look for. *)
RegulatorExit ==
  IF "regulator" \in named THEN <<A("supply_on"), A("regulator")>> ELSE <<>>

CodecClkExit ==
  <<C("audio_on"), X4On, PllOn, C("audio"), C("x4"), C("pll")>>

CodecRgltExit == <<C("supply_on"), C("avcc")>>

ProbeUndo(d) ==
  IF d = "ahub" THEN <<AhubClkExit, MemExit(d), RegulatorExit, <<A("info")>> >>
                ELSE <<CodecClkExit, MemExit(d), <<C("info")>> >>

(* From label k on, every release is done, be it of a list or of a list of
   groups. *)
From(s, k) == [i \in k..Len(s) |-> s[i]]

FallThrough(groups, k) ==
  [x \in UNION {{g} \X DOMAIN groups[g] : g \in k..Len(groups)} |-> groups[x[1]][x[2]]]

-----------------------------------------------------------------------------
Init ==
  /\ held = [r \in Resources |-> 0]
  /\ phase = [d \in Drivers |-> Unbound]
  /\ named \in SUBSET {"regulator", "pinctrl"}
  /\ faults = 0

(* The probe functions up to their first init function. *)
Probe(d) ==
  /\ phase[d] = Unbound
  /\ held' = Take(held, << <<d, "info">> >>)
  /\ phase' = [phase EXCEPT ![d] = 1]
  /\ UNCHANGED <<named, faults>>

Function(d) == InitFunctions[d][phase[d]]
Acquired(f, n) == [i \in 1..n |-> f.steps[i]]
InProbe(d) == phase[d] \in DOMAIN InitFunctions[d]

(* After the last function a driver is bound; that its debug attributes
   could not be created is only logged. *)
Following(d) ==
  IF phase[d] = Len(InitFunctions[d]) THEN Bound ELSE phase[d] + 1

InitSucceeds(d) ==
  /\ InProbe(d)
  /\ held' = IF Function(d).option \subseteq named
             THEN Take(held, Acquired(Function(d), Len(Function(d).steps)))
             ELSE held
  /\ phase' = [phase EXCEPT ![d] = Following(d)]
  /\ UNCHANGED <<named, faults>>

(* Step i fails: its function undoes steps 1..i-1. *)
Undone(d, i) ==
  LET f == Function(d)
  IN  Drop(Take(held, Acquired(f, i - 1)), From(f.undo, f.labels[i]))

InitFails(d, i) ==
  /\ InProbe(d)
  /\ Function(d).option \subseteq named
  /\ i \in DOMAIN Function(d).steps
  /\ Function(d) # CodecClkEnable
  /\ held' = Unmanage(Drop(Undone(d, i), FallThrough(ProbeUndo(d), Function(d).outer)), d)
  /\ phase' = [phase EXCEPT ![d] = Unbound]
  /\ UNCHANGED <<named, faults>>

(* clk_enable undoes its work and returns 0: the probe carries on. *)
ClkEnableFails(i) ==
  /\ InProbe("codec")
  /\ Function("codec") = CodecClkEnable
  /\ i \in DOMAIN CodecClkEnable.steps
  /\ faults < MaxClkFaults
  /\ faults' = faults + 1
  /\ held' = Undone("codec", i)
  /\ phase' = [phase EXCEPT !["codec"] = Following("codec")]
  /\ UNCHANGED named

(* Mutant: the supplies stay on. *)
MutantUnbind(d) ==
  /\ phase[d] = Bound
  /\ held' = Unmanage(Drop(held, FallThrough(
               <<MemExit(d), IF d = "ahub" THEN AhubClkExit ELSE CodecClkExit>>, 1)), d)
  /\ phase' = [phase EXCEPT ![d] = Unbound]
  /\ UNCHANGED <<named, faults>>

(* sunxi_ahub_dev_remove and sunxi_internal_codec_dev_remove. *)
RemoveUndo(d) ==
  IF d = "ahub" THEN <<MemExit(d), AhubClkExit, RegulatorExit>>
                ELSE <<MemExit(d), CodecClkExit, CodecRgltExit, <<C("info")>> >>

Unbind(d) ==
  /\ phase[d] = Bound
  /\ held' = Unmanage(Drop(held, FallThrough(RemoveUndo(d), 1)), d)
  /\ phase' = [phase EXCEPT ![d] = Unbound]
  /\ UNCHANGED <<named, faults>>

Next ==
  \/ \E d \in Drivers : Probe(d)
  \/ \E d \in Drivers : InitSucceeds(d)
  \/ \E d \in Drivers, i \in 1..7 : InitFails(d, i)
  \/ \E i \in 1..3 : ClkEnableFails(i)
  \/ \E d \in Drivers : Unbind(d)

Spec == Init /\ [][Next]_vars

-----------------------------------------------------------------------------
Private(d) == (Got(d) \cup Managed(d) \cup On(d)) \ {PllOn, X4On}

(* Nothing is ever released that is not held, at any point of any probe.     *)
TypeOK ==
  /\ held \in [Resources -> Nat]
  /\ phase \in [Drivers -> {Unbound, Bound} \cup 1..4]
  /\ named \subseteq {"regulator", "pinctrl"}
  /\ faults \in 0..MaxClkFaults

(* A driver that is not bound holds nothing: whichever step of a probe       *)
(* failed, and after any number of probes and removes, its clocks, supplies, *)
(* mappings and memory are given back.                                       *)
UnboundHoldsNothing ==
  \A d \in Drivers : phase[d] = Unbound => \A r \in Private(d) : held[r] = 0

(* A bound driver holds everything its operations use, once: registers       *)
(* mapped, clock handles, and its supply on.                                 *)
BoundHoldsAll ==
  /\ phase["ahub"] = Bound =>
       \A r \in Managed("ahub") \cup Got("ahub") : held[r] =
         CASE r = A("pinctrl")   -> IF "pinctrl" \in named THEN 1 ELSE 0
           [] r = A("regulator") -> IF "regulator" \in named THEN 1 ELSE 0
           [] OTHER              -> 1
  /\ phase["codec"] = Bound =>
       \A r \in {C("info"), C("region"), C("base"), C("regmap"), C("supply_on")}
                \cup Got("codec") : held[r] = 1

(* The outputs of the audio PLL are enabled once per driver that is past the *)
(* enabling step, so that unbinding one driver never stops the other, unless *)
(* a clock of the codec failed to enable (see BoundIsClocked).               *)
PllCounted ==
  LET users == {d \in Drivers : phase[d] > 3}
  IN  faults = 0 =>
        held[PllOn] = Cardinality(users) /\ held[X4On] = Cardinality(users)

(* t507_codec_impl_linux.c:553-556, "clk enable failed", makes the probe     *)
(* fail when a clock cannot be enabled: a bound codec has its clocks on.     *)
BoundIsClocked ==
  phase["codec"] = Bound => \A r \in {PllOn, X4On, C("audio_on")} : held[r] > 0
=============================================================================
