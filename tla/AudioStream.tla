----------------------------- MODULE AudioStream ----------------------------
(***************************************************************************)
(* What a DAI promises the audio framework about its stream, whatever its  *)
(* hardware: `asked' is what the last successful HwParams asked for,       *)
(* `setup' what the hardware would play or record now, and `flow' whether  *)
(* it does: off, on, or idle, which is started without all of the hardware *)
(* being powered and clocked. Parameters are set as a whole; a call that   *)
(* fails half-way leaves no setup to rely on but never starts or stops the *)
(* sound; starting changes no parameter, and sounds if there is a setup.   *)
(***************************************************************************)
EXTENDS Naturals

CONSTANTS
  Params,   (* the hardware parameters clients ask for: [rate, bits, chans]  *)
  Exact,    (* those among them the hardware honours to the letter           *)
  NoCfg     (* no setup                                                      *)

VARIABLES asked, setup, flow

vars == <<asked, setup, flow>>

Setups == [rate: Nat, bits: Nat, chans: Nat]

Init == asked = NoCfg /\ setup = NoCfg /\ flow = "off"

Prepare ==
  /\ asked' \in Params
  /\ setup' \in Setups
  /\ asked' \in Exact => setup' = asked'
  /\ flow' = IF flow = "off" THEN "off" ELSE "on"

Forget == asked' = NoCfg /\ setup' = NoCfg

(* HwParams fails half-way. *)
Spoil == Forget /\ UNCHANGED flow

(* Started with no setup to rely on, the hardware may stay idle. *)
Start ==
  /\ flow' \in {"idle", "on"}
  /\ setup # NoCfg \/ flow = "on" => flow' = "on"
  /\ UNCHANGED <<asked, setup>>

(* Stopping may take the hardware down altogether. *)
Halt == flow' = "off" /\ (Forget \/ UNCHANGED <<asked, setup>>)

Next == Prepare \/ Spoil \/ Start \/ Halt

Spec == Init /\ [][Next]_vars
=============================================================================
