----------------------------- MODULE Ac107Probe -----------------------------
(***************************************************************************)
(* Binding and unbinding of the AC107's I2C driver                         *)
(* (ac107_accessory_impl_linux.c). Its two supplies and its reset line are *)
(* set up once, as ac107_regulator_en remembers across probes: a remove    *)
(* gives none of them back. The client the HDF operations use is a global  *)
(* as well.                                                                *)
(***************************************************************************)
EXTENDS Naturals, FiniteSets

Supplies == {"dvcc", "avcc"}

VARIABLES
  named,   (* the supplies the device node names                             *)
  line,    (* the node names a valid reset line                              *)
  regulator_en, (* ac107_regulator_en: the supplies set up                   *)
  handles, (* how often regulator_get succeeded for each supply              *)
  enables, (* how often each supply was enabled                              *)
  reset,   (* the reset line: free, or requested and driven high             *)
  taken,   (* another driver owns the reset line                             *)
  bound,
  client   (* g_ac107_i2c and i2c_ctrl[0]: NULL, or the chip's client        *)

vars == <<named, line, regulator_en, handles, enables, reset, taken, bound, client>>

Init ==
  /\ named \in SUBSET Supplies
  /\ line \in BOOLEAN
  /\ taken \in BOOLEAN
  /\ regulator_en = {}
  /\ handles = [s \in Supplies |-> 0]
  /\ enables = [s \in Supplies |-> 0]
  /\ reset = "free"
  /\ bound = FALSE
  /\ client = "NULL"

(* Mutant: the supplies are set up by every probe. *)
MutantSetsUp == TRUE

(* ac107_i2c_probe sets supplies and reset line up only while no supply is. *)
SetsUp == regulator_en = {}

(* Mutants: only a supply that could be enabled is flagged; a supply the node
   does not name is flagged too. *)
MutantSupplyOnSuccess(S, E) ==
  /\ regulator_en' = regulator_en \cup (S \cap E)
  /\ handles' = [s \in Supplies |-> handles[s] + (IF s \in S THEN 1 ELSE 0)]
  /\ enables' = [s \in Supplies |-> enables[s] + (IF s \in S \cap E THEN 1 ELSE 0)]

MutantSupplyUnnamed(S, E) ==
  /\ regulator_en' = Supplies
  /\ handles' = [s \in Supplies |-> handles[s] + (IF s \in S THEN 1 ELSE 0)]
  /\ enables' = [s \in Supplies |-> enables[s] + (IF s \in S \cap E THEN 1 ELSE 0)]

(* Supplies s of S are found; those of E enable. That one does not is only
   logged, the flag is set either way. *)
Supply(S, E) ==
  /\ regulator_en' = regulator_en \cup S
  /\ handles' = [s \in Supplies |-> handles[s] + (IF s \in S THEN 1 ELSE 0)]
  /\ enables' = [s \in Supplies |-> enables[s] + (IF s \in S \cap E THEN 1 ELSE 0)]

(* The supply that cannot be found ends the probe; DVCC is looked for first. *)
SupplyMissing ==
  /\ ~bound /\ SetsUp
  /\ \E missing \in named, E \in SUBSET Supplies :
       Supply(IF missing = "dvcc" THEN {} ELSE named \ {missing}, E)
  /\ UNCHANGED <<named, line, reset, taken, bound, client>>

(* gpio_request fails for a line that is in use, by this driver too. *)
Reset ==
  reset' = IF line /\ ~taken THEN "high" ELSE reset

(* The rest of the probe: the client is published before the debug attributes
   are created, whose failure is the probe's. *)
Publish ==
  /\ client' = "chip"
  /\ bound' \in BOOLEAN

ProbeFirst ==
  /\ ~bound /\ SetsUp
  /\ \E E \in SUBSET Supplies : Supply(named, E)
  /\ Reset
  /\ Publish
  /\ UNCHANGED <<named, line, taken>>

ProbeAgain ==
  /\ ~bound /\ ~SetsUp
  /\ Publish
  /\ UNCHANGED <<named, line, regulator_en, handles, enables, reset, taken>>

(* ac107_i2c_remove only removes the debug attributes. *)
Remove ==
  /\ bound
  /\ bound' = FALSE
  /\ UNCHANGED <<named, line, regulator_en, handles, enables, reset, taken, client>>

Next == SupplyMissing \/ ProbeFirst \/ ProbeAgain \/ Remove

Spec == Init /\ [][Next]_vars

-----------------------------------------------------------------------------
(* Every variable has its type. *)
TypeOK ==
  /\ named \subseteq Supplies /\ regulator_en \subseteq named
  /\ handles \in [Supplies -> Nat] /\ enables \in [Supplies -> Nat]
  /\ reset \in {"free", "high"}
  /\ client \in {"NULL", "chip"}

(* However often the driver is bound and unbound, and wherever a probe       *)
(* failed, each supply is taken and enabled at most once: the kernel's count *)
(* of users never grows.                                                     *)
SuppliedOnce ==
  \A s \in Supplies : handles[s] <= 1 /\ enables[s] <= handles[s]

(* The operations may use the client whenever the driver is bound, and the   *)
(* flag says exactly which supplies were taken.                              *)
FlagIsLedger ==
  /\ bound => client = "chip"
  /\ regulator_en = {s \in Supplies : handles[s] = 1}
=============================================================================
