-------------------------- MODULE Ac107ProbeProofs --------------------------
(***************************************************************************)
(* Theorems about Ac107Probe, over any number of probes and removes.       *)
(***************************************************************************)
EXTENDS Ac107Probe, TLAPS

(* Handles and enables are counted once, and only for flagged supplies.      *)
Counts ==
  /\ handles \in [Supplies -> {0, 1}] /\ enables \in [Supplies -> {0, 1}]
  /\ \A s \in Supplies : enables[s] <= handles[s]
  /\ regulator_en = {s \in Supplies : handles[s] = 1}

IInv == TypeOK /\ Counts /\ (bound => client = "chip")

(* A probe sets a supply up only while none is: then every count is 0.       *)
LEMMA SupplyCounts ==
  ASSUME IInv, SetsUp, NEW S \in SUBSET named, NEW E \in SUBSET Supplies, Supply(S, E)
  PROVE  Counts' /\ regulator_en' \subseteq named
<1>1. \A s \in Supplies : handles[s] = 0 /\ enables[s] = 0
  BY DEF IInv, Counts, SetsUp
<1>2. /\ handles' = [s \in Supplies |-> IF s \in S THEN 1 ELSE 0]
      /\ enables' = [s \in Supplies |-> IF s \in S \cap E THEN 1 ELSE 0]
      /\ regulator_en' = S
  BY <1>1 DEF Supply, SetsUp
<1>3. S \subseteq Supplies
  BY DEF IInv, TypeOK
<1>4. /\ handles' \in [Supplies -> {0, 1}] /\ enables' \in [Supplies -> {0, 1}]
      /\ \A s \in Supplies : enables'[s] <= handles'[s]
  BY <1>2
<1>5. regulator_en' = {s \in Supplies : handles'[s] = 1}
  BY <1>2, <1>3
<1>6. QED
  BY <1>2, <1>4, <1>5 DEF Counts

LEMMA InvInit == Init => IInv
BY DEF Init, IInv, TypeOK, Counts

LEMMA InvStep == IInv /\ [Next]_vars => IInv'
<1> SUFFICES ASSUME IInv, [Next]_vars PROVE IInv'
  OBVIOUS
<1>1. CASE SupplyMissing
  <2>1. PICK missing \in named, E \in SUBSET Supplies :
          Supply(IF missing = "dvcc" THEN {} ELSE named \ {missing}, E)
    BY <1>1 DEF SupplyMissing
  <2>2. (IF missing = "dvcc" THEN {} ELSE named \ {missing}) \in SUBSET named
    OBVIOUS
  <2>3. SetsUp /\ UNCHANGED <<named, line, reset, taken, bound, client>>
    BY <1>1 DEF SupplyMissing
  <2>4. Counts' /\ regulator_en' \subseteq named
    BY <2>1, <2>2, <2>3, SupplyCounts
  <2>5. handles' \in [Supplies -> Nat] /\ enables' \in [Supplies -> Nat]
    BY <2>4 DEF Counts
  <2>6. QED
    BY <2>3, <2>4, <2>5 DEF IInv, TypeOK
<1>2. CASE ProbeFirst
  <2>1. PICK E \in SUBSET Supplies : Supply(named, E)
    BY <1>2 DEF ProbeFirst
  <2>2. SetsUp /\ client' = "chip" /\ reset' \in {"free", "high"} /\ named' = named
    BY <1>2 DEF ProbeFirst, Reset, Publish, IInv, TypeOK
  <2>3. Counts' /\ regulator_en' \subseteq named
    BY <2>1, <2>2, SupplyCounts
  <2>4. handles' \in [Supplies -> Nat] /\ enables' \in [Supplies -> Nat]
    BY <2>3 DEF Counts
  <2>5. QED
    BY <2>2, <2>3, <2>4 DEF IInv, TypeOK
<1>3. CASE ProbeAgain
  BY <1>3 DEF ProbeAgain, Publish, IInv, TypeOK, Counts
<1>4. CASE Remove
  BY <1>4 DEF Remove, IInv, TypeOK, Counts
<1>5. CASE UNCHANGED vars
  BY <1>5 DEF vars, IInv, TypeOK, Counts
<1>6. QED
  BY <1>1, <1>2, <1>3, <1>4, <1>5 DEF Next

LEMMA Inductive == Spec => []IInv
BY InvInit, InvStep, PTL DEF Spec

(* Every variable has its type.                                              *)
THEOREM ProbeTypes == Spec => []TypeOK
<1>1. IInv => TypeOK
  BY DEF IInv
<1>2. QED
  BY Inductive, <1>1, PTL

(* Each supply is taken and enabled at most once over all probes.            *)
THEOREM TakenOnce == Spec => []SuppliedOnce
<1>1. IInv => SuppliedOnce
  BY DEF IInv, Counts, SuppliedOnce
<1>2. QED
  BY Inductive, <1>1, PTL

(* The flag names the supplies that are held, and a bound driver has its     *)
(* client.                                                                   *)
THEOREM FlagKept == Spec => []FlagIsLedger
<1>1. IInv => FlagIsLedger
  BY DEF IInv, Counts, FlagIsLedger
<1>2. QED
  BY Inductive, <1>1, PTL
=============================================================================
