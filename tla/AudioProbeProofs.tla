-------------------------- MODULE AudioProbeProofs --------------------------
(***************************************************************************)
(* Theorems about AudioProbe, for any bound on the hidden clock failures.  *)
(***************************************************************************)
EXTENDS AudioProbe, FiniteSetTheorems, TLAPS

-----------------------------------------------------------------------------
(***************************************************************************)
(* Counting. No list names a resource twice, so a count is a membership.   *)
(***************************************************************************)
Lists(s, r) == \E i \in DOMAIN s : s[i] = r
Once(s) == \A i, j \in DOMAIN s : s[i] = s[j] /\ s[i] # Nothing => i = j

LEMMA TimesOnce ==
  ASSUME NEW s, Once(s), NEW r, r # Nothing
  PROVE  Times(s, r) = IF Lists(s, r) THEN 1 ELSE 0
<1> DEFINE I == {i \in DOMAIN s : s[i] = r}
<1>1. CASE Lists(s, r)
  <2>1. PICK i \in DOMAIN s : s[i] = r
    BY <1>1 DEF Lists
  <2>2. I = {i}
    BY <2>1 DEF Once
  <2>3. QED
    BY <1>1, <2>2, FS_Singleton DEF Times
<1>2. CASE ~Lists(s, r)
  <2>1. I = {}
    BY <1>2 DEF Lists
  <2>2. QED
    BY <1>2, <2>1, FS_EmptySet DEF Times
<1>3. QED
  BY <1>1, <1>2

(* Groups that do not share a resource, each without one twice.              *)
Apart(groups) ==
  /\ \A g \in DOMAIN groups : Once(groups[g])
  /\ \A r : \A g, h \in DOMAIN groups :
       Lists(groups[g], r) /\ Lists(groups[h], r) /\ r # Nothing => g = h

LEMMA FallThroughOnce ==
  ASSUME NEW groups, Apart(groups), DOMAIN groups = 1..Len(groups), NEW k \in Nat \ {0}
  PROVE  /\ Once(FallThrough(groups, k))
         /\ \A r : Lists(FallThrough(groups, k), r) <=>
                   \E g \in k..Len(groups) : Lists(groups[g], r)
<1> DEFINE F == FallThrough(groups, k)
           D == UNION {{g} \X DOMAIN groups[g] : g \in k..Len(groups)}
<1>1. DOMAIN F = D /\ \A x \in D : F[x] = groups[x[1]][x[2]]
  BY DEF FallThrough
<1>2. \A x \in D : /\ x[1] \in k..Len(groups) /\ x[2] \in DOMAIN groups[x[1]]
                   /\ x = <<x[1], x[2]>>
  OBVIOUS
<1>3. \A g \in k..Len(groups) : \A i \in DOMAIN groups[g] : <<g, i>> \in D
  OBVIOUS
<1>4. Len(groups) \in Int /\ k..Len(groups) \subseteq DOMAIN groups
  OBVIOUS
<1> HIDE DEF F, D
<1>5. Once(F)
  <2> SUFFICES ASSUME NEW x \in D, NEW y \in D, F[x] = F[y], F[x] # Nothing PROVE x = y
    BY <1>1 DEF Once
  <2>1. x[1] = y[1]
    <3>1. /\ Lists(groups[x[1]], F[x]) /\ x[1] \in DOMAIN groups
          /\ Lists(groups[y[1]], F[y]) /\ y[1] \in DOMAIN groups
      BY <1>1, <1>2, <1>4 DEF Lists
    <3>2. QED
      BY <3>1 DEF Apart
  <2>2. x[2] = y[2]
    BY <1>1, <1>2, <1>4, <2>1 DEF Apart, Once
  <2>3. QED
    BY <1>2, <2>1, <2>2
<1>6. ASSUME NEW r PROVE Lists(F, r) <=> \E g \in k..Len(groups) : Lists(groups[g], r)
  <2>1. ASSUME NEW x \in D, F[x] = r PROVE \E g \in k..Len(groups) : Lists(groups[g], r)
    BY <1>1, <1>2, <2>1 DEF Lists
  <2>2. ASSUME NEW g \in k..Len(groups), NEW i \in DOMAIN groups[g], groups[g][i] = r
        PROVE  Lists(F, r)
    <3>1. <<g, i>> \in D /\ F[<<g, i>>] = groups[g][i]
      BY <1>1, <1>3
    <3>2. QED
      BY <1>1, <2>2, <3>1 DEF Lists
  <2>3. QED
    BY <1>1, <2>1, <2>2 DEF Lists
<1>7. QED
  BY <1>5, <1>6 DEF F

-----------------------------------------------------------------------------
(***************************************************************************)
(* Error ladders. The labels of an init function mirror its steps: behind  *)
(* a step that acquired something the label stands one release further up, *)
(* at the release of just that.                                            *)
(***************************************************************************)
Mirrored(f, i) ==
  IF f.steps[i] = Nothing
  THEN f.labels[i + 1] = f.labels[i]
  ELSE /\ f.labels[i] = f.labels[i + 1] + 1
       /\ f.undo[f.labels[i + 1]] = f.steps[i]

Ladder(f) ==
  /\ f.labels[1] = Len(f.undo) + 1
  /\ \A i \in 1..(Len(f.steps) - 1) : Mirrored(f, i)

Table(f) ==
  /\ Len(f.steps) \in 1..7 /\ DOMAIN f.steps = 1..Len(f.steps) /\ Once(f.steps)
  /\ Len(f.undo) \in Nat   /\ DOMAIN f.undo = 1..Len(f.undo)   /\ Once(f.undo)
  /\ \A i \in 1..Len(f.steps) : f.labels[i] \in 1..(Len(f.undo) + 1)
  /\ Ladder(f)

(* What the steps before i acquired is what is released from i's label on.   *)
Undoes(f, i) ==
  \A r : (r # Nothing /\ \E j \in 1..(i - 1) : f.steps[j] = r) <=>
           \E j \in f.labels[i]..Len(f.undo) : f.undo[j] = r

LEMMA UndoesNext ==
  ASSUME NEW f, Table(f), NEW i \in 1..(Len(f.steps) - 1), Undoes(f, i)
  PROVE  Undoes(f, i + 1)
<1>1. Mirrored(f, i) /\ i \in Nat /\ i + 1 \in 1..Len(f.steps)
  BY DEF Table, Ladder
<1>2. /\ f.labels[i] \in 1..(Len(f.undo) + 1) /\ f.labels[i + 1] \in 1..(Len(f.undo) + 1)
      /\ Len(f.undo) \in Nat
  BY <1>1 DEF Table
<1>3. 1..((i + 1) - 1) = (1..(i - 1)) \cup {i}
  BY <1>1
<1>4. CASE f.steps[i] = Nothing
  <2>1. f.labels[i + 1] = f.labels[i]
    BY <1>1, <1>4 DEF Mirrored
  <2>2. QED
    BY <1>3, <1>4, <2>1 DEF Undoes
<1>5. CASE f.steps[i] # Nothing
  <2>1. /\ f.labels[i] = f.labels[i + 1] + 1
        /\ f.undo[f.labels[i + 1]] = f.steps[i]
    BY <1>1, <1>5 DEF Mirrored
  <2>2. f.labels[i + 1]..Len(f.undo) = {f.labels[i + 1]} \cup f.labels[i]..Len(f.undo)
    <3>1. \A c, n \in Nat : c <= n => c..n = {c} \cup (c + 1)..n
      OBVIOUS
    <3>2. f.labels[i + 1] \in Nat /\ f.labels[i + 1] <= Len(f.undo)
      BY <1>2, <2>1
    <3>3. QED
      BY <1>2, <2>1, <3>1, <3>2
  <2>3. QED
    BY <1>3, <1>5, <2>1, <2>2 DEF Undoes
<1>6. QED
  BY <1>4, <1>5

LEMMA UndoesAll ==
  ASSUME NEW f, Table(f), NEW i \in 1..Len(f.steps)
  PROVE  Undoes(f, i)
<1>1. Undoes(f, 1)
  <2>1. f.labels[1]..Len(f.undo) = {} /\ 1..(1 - 1) = {}
    BY DEF Table, Ladder
  <2>2. QED
    BY <2>1 DEF Undoes
<1> DEFINE n == Len(f.steps)
<1>2. n \in Nat /\ n <= 7 /\ i \in Nat /\ 1 <= i /\ i <= n
  <2>1. Len(f.steps) \in 1..7
    BY DEF Table
  <2>2. \A m \in 1..7 : m \in Nat /\ m <= 7 /\ \A j \in 1..m : j \in Nat /\ 1 <= j /\ j <= m
    OBVIOUS
  <2>3. QED
    BY <2>1, <2>2
<1>3. \A j \in 1..(n - 1) : Undoes(f, j) => Undoes(f, j + 1)
  BY UndoesNext
<1> HIDE DEF n
<1>4. n >= 2 => Undoes(f, 2)
  BY <1>1, <1>2, <1>3
<1>5. n >= 3 => Undoes(f, 3)
  BY <1>2, <1>3, <1>4
<1>6. n >= 4 => Undoes(f, 4)
  BY <1>2, <1>3, <1>5
<1>7. n >= 5 => Undoes(f, 5)
  BY <1>2, <1>3, <1>6
<1>8. n >= 6 => Undoes(f, 6)
  BY <1>2, <1>3, <1>7
<1>9. n >= 7 => Undoes(f, 7)
  BY <1>2, <1>3, <1>8
<1>10. i = 1 \/ i = 2 \/ i = 3 \/ i = 4 \/ i = 5 \/ i = 6 \/ i = 7
  BY <1>2
<1>11. QED
  BY <1>1, <1>2, <1>4, <1>5, <1>6, <1>7, <1>8, <1>9, <1>10

LEMMA PartsOnce ==
  ASSUME NEW f, Table(f), NEW n \in 0..Len(f.steps), NEW k \in 1..(Len(f.undo) + 1)
  PROVE  /\ Once(Acquired(f, n)) /\ Once(From(f.undo, k))
         /\ \A r : Lists(Acquired(f, n), r) <=> \E j \in 1..n : f.steps[j] = r
         /\ \A r : Lists(From(f.undo, k), r) <=> \E j \in k..Len(f.undo) : f.undo[j] = r
<1>1. 1..n \subseteq DOMAIN f.steps /\ k..Len(f.undo) \subseteq DOMAIN f.undo
  BY DEF Table
<1>2. Once(f.steps) /\ Once(f.undo)
  BY DEF Table
<1>3. Once(Acquired(f, n)) /\ Once(From(f.undo, k))
  BY <1>1, <1>2 DEF Once, Acquired, From
<1>4. QED
  BY <1>3 DEF Lists, Acquired, From

LEMMA ResourcesAreSome == Nothing \notin Resources
<1>1. \A d \in Drivers : Nothing \notin Got(d) \cup Managed(d) \cup On(d)
  BY DEF Nothing, Got, Managed, On, Drivers
<1>2. QED
  BY <1>1 DEF Resources

LEMMA UndoneByTable ==
  ASSUME NEW f, Table(f), NEW i \in 1..Len(f.steps), held \in [Resources -> Nat]
  PROVE  Drop(Take(held, Acquired(f, i - 1)), From(f.undo, f.labels[i])) = held
<1> DEFINE a == Acquired(f, i - 1)
           u == From(f.undo, f.labels[i])
<1>1. i - 1 \in 0..Len(f.steps) /\ f.labels[i] \in 1..(Len(f.undo) + 1)
  BY DEF Table
<1>2. Once(a) /\ Once(u) /\ \A r : r # Nothing => (Lists(a, r) <=> Lists(u, r))
  <2>1. Undoes(f, i)
    BY UndoesAll
  <2>2. /\ Once(a) /\ Once(u)
        /\ \A r : Lists(a, r) <=> \E j \in 1..(i - 1) : f.steps[j] = r
        /\ \A r : Lists(u, r) <=> \E j \in f.labels[i]..Len(f.undo) : f.undo[j] = r
    BY <1>1, PartsOnce
  <2>3. QED
    BY <2>1, <2>2 DEF Undoes
<1>3. \A r \in Resources : Times(a, r) = Times(u, r) /\ Times(a, r) \in {0, 1}
  BY <1>2, TimesOnce, ResourcesAreSome
<1> HIDE DEF a, u
<1>4. \A r \in Resources : Drop(Take(held, a), u)[r] = held[r]
  BY <1>3 DEF Drop, Take, Floor
<1>5. Drop(Take(held, a), u) = [r \in Resources |-> held[r]]
  BY <1>4 DEF Drop
<1>6. QED
  BY <1>5 DEF a, u

-----------------------------------------------------------------------------
(***************************************************************************)
(* The init functions are such tables.                                     *)
(***************************************************************************)
LEMMA UpTo ==
  /\ 1..0 = {} /\ 1..1 = {1} /\ 1..2 = {1, 2} /\ 1..3 = {1, 2, 3} /\ 1..4 = {1, 2, 3, 4}
  /\ 1..5 = {1, 2, 3, 4, 5} /\ 1..6 = {1, 2, 3, 4, 5, 6} /\ 1..7 = {1, 2, 3, 4, 5, 6, 7}
OBVIOUS

LEMMA RegulatorTable ==
  /\ Table(RegulatorInit) /\ Len(RegulatorInit.steps) = 3
  /\ \A r : r # Nothing =>
       (Lists(RegulatorInit.steps, r) <=> r \in {A("regulator"), A("supply_on")})
<1> DEFINE f == RegulatorInit
<1>1. /\ DOMAIN f.steps = {1, 2, 3} /\ Len(f.steps) = 3
      /\ DOMAIN f.undo = {1} /\ Len(f.undo) = 1
  BY UpTo DEF RegulatorInit
<1>2. Once(f.steps) /\ Once(f.undo)
  BY <1>1 DEF Once, RegulatorInit, A, Nothing
<1>3. Ladder(f) /\ \A i \in {1, 2, 3} : f.labels[i] \in 1..2
  BY <1>1, UpTo DEF Ladder, Mirrored, RegulatorInit, A, Nothing
<1>4. \A r : r # Nothing => (Lists(f.steps, r) <=> r \in {A("regulator"), A("supply_on")})
  BY <1>1 DEF Lists, RegulatorInit
<1>5. QED
  BY <1>1, <1>2, <1>3, <1>4, UpTo DEF Table

LEMMA MemTable ==
  ASSUME NEW d \in Drivers, NEW outer
  PROVE  /\ Table(MemInit(d, outer)) /\ Len(MemInit(d, outer).steps) = 4
         /\ \A r : r # Nothing =>
              (Lists(MemInit(d, outer).steps, r) <=>
                 r \in {<<d, "region">>, <<d, "base">>, <<d, "regmap">>})
<1> DEFINE f == MemInit(d, outer)
<1>1. /\ DOMAIN f.steps = {1, 2, 3, 4} /\ Len(f.steps) = 4
      /\ DOMAIN f.undo = {1, 2} /\ Len(f.undo) = 2
  BY UpTo DEF MemInit
<1>2. Once(f.steps) /\ Once(f.undo)
  BY <1>1 DEF Once, MemInit, Nothing
<1>3. Ladder(f) /\ \A i \in {1, 2, 3, 4} : f.labels[i] \in 1..3
  BY <1>1, UpTo DEF Ladder, Mirrored, MemInit, Nothing
<1>4. \A r : r # Nothing =>
        (Lists(f.steps, r) <=> r \in {<<d, "region">>, <<d, "base">>, <<d, "regmap">>})
  BY <1>1 DEF Lists, MemInit
<1>5. QED
  BY <1>1, <1>2, <1>3, <1>4, UpTo DEF Table

LEMMA AhubClkTable ==
  /\ Table(AhubClkInit) /\ Len(AhubClkInit.steps) = 7
  /\ \A r : r # Nothing =>
       (Lists(AhubClkInit.steps, r) <=>
          r \in {A("module"), A("pll"), A("x4"), PllOn, X4On, A("module_on")})
<1> DEFINE f == AhubClkInit
<1>1. /\ DOMAIN f.steps = {1, 2, 3, 4, 5, 6, 7} /\ Len(f.steps) = 7
      /\ DOMAIN f.undo = {1, 2, 3, 4, 5} /\ Len(f.undo) = 5
  BY UpTo DEF AhubClkInit
<1>2. Once(f.steps) /\ Once(f.undo)
  BY <1>1 DEF Once, AhubClkInit, A, Nothing, PllOn, X4On
<1>3. Ladder(f) /\ \A i \in {1, 2, 3, 4, 5, 6, 7} : f.labels[i] \in 1..6
  BY <1>1, UpTo DEF Ladder, Mirrored, AhubClkInit, A, Nothing, PllOn, X4On
<1>4. \A r : r # Nothing =>
        (Lists(f.steps, r) <=>
           r \in {A("module"), A("pll"), A("x4"), PllOn, X4On, A("module_on")})
  BY <1>1 DEF Lists, AhubClkInit
<1>5. QED
  BY <1>1, <1>2, <1>3, <1>4, UpTo DEF Table

LEMMA PinTable ==
  /\ Table(PinInit) /\ Len(PinInit.steps) = 4
  /\ \A r : r # Nothing => (Lists(PinInit.steps, r) <=> r \in {A("pinctrl")})
<1> DEFINE f == PinInit
<1>1. /\ DOMAIN f.steps = {1, 2, 3, 4} /\ Len(f.steps) = 4
      /\ DOMAIN f.undo = {1} /\ Len(f.undo) = 1
  BY UpTo DEF PinInit
<1>2. Once(f.steps) /\ Once(f.undo)
  BY <1>1 DEF Once, PinInit, A, Nothing
<1>3. Ladder(f) /\ \A i \in {1, 2, 3, 4} : f.labels[i] \in 1..2
  BY <1>1, UpTo DEF Ladder, Mirrored, PinInit, A, Nothing
<1>4. \A r : r # Nothing => (Lists(f.steps, r) <=> r \in {A("pinctrl")})
  BY <1>1 DEF Lists, PinInit
<1>5. QED
  BY <1>1, <1>2, <1>3, <1>4, UpTo DEF Table

LEMMA CodecClkTable ==
  /\ Table(CodecClkInit) /\ Len(CodecClkInit.steps) = 4
  /\ \A r : r # Nothing => (Lists(CodecClkInit.steps, r) <=> r \in {C("pll"), C("x4"), C("audio")})
<1> DEFINE f == CodecClkInit
<1>1. /\ DOMAIN f.steps = {1, 2, 3, 4} /\ Len(f.steps) = 4
      /\ DOMAIN f.undo = {1, 2, 3} /\ Len(f.undo) = 3
  BY UpTo DEF CodecClkInit
<1>2. Once(f.steps) /\ Once(f.undo)
  BY <1>1 DEF Once, CodecClkInit, C, Nothing
<1>3. Ladder(f) /\ \A i \in {1, 2, 3, 4} : f.labels[i] \in 1..4
  BY <1>1, UpTo DEF Ladder, Mirrored, CodecClkInit, C, Nothing
<1>4. \A r : r # Nothing => (Lists(f.steps, r) <=> r \in {C("pll"), C("x4"), C("audio")})
  BY <1>1 DEF Lists, CodecClkInit
<1>5. QED
  BY <1>1, <1>2, <1>3, <1>4, UpTo DEF Table

LEMMA CodecEnableTable ==
  /\ Table(CodecClkEnable) /\ Len(CodecClkEnable.steps) = 3
  /\ \A r : r # Nothing => (Lists(CodecClkEnable.steps, r) <=> r \in {PllOn, X4On, C("audio_on")})
<1> DEFINE f == CodecClkEnable
<1>1. /\ DOMAIN f.steps = {1, 2, 3} /\ Len(f.steps) = 3
      /\ DOMAIN f.undo = {1, 2} /\ Len(f.undo) = 2
  BY UpTo DEF CodecClkEnable
<1>2. Once(f.steps) /\ Once(f.undo)
  BY <1>1 DEF Once, CodecClkEnable, C, Nothing, PllOn, X4On
<1>3. Ladder(f) /\ \A i \in {1, 2, 3} : f.labels[i] \in 1..3
  BY <1>1, UpTo DEF Ladder, Mirrored, CodecClkEnable, C, Nothing, PllOn, X4On
<1>4. \A r : r # Nothing => (Lists(f.steps, r) <=> r \in {PllOn, X4On, C("audio_on")})
  BY <1>1 DEF Lists, CodecClkEnable
<1>5. QED
  BY <1>1, <1>2, <1>3, <1>4, UpTo DEF Table

LEMMA CodecRgltTable ==
  /\ Table(CodecRgltInit) /\ Len(CodecRgltInit.steps) = 3
  /\ \A r : r # Nothing => (Lists(CodecRgltInit.steps, r) <=> r \in {C("avcc"), C("supply_on")})
<1> DEFINE f == CodecRgltInit
<1>1. /\ DOMAIN f.steps = {1, 2, 3} /\ Len(f.steps) = 3
      /\ DOMAIN f.undo = {1} /\ Len(f.undo) = 1
  BY UpTo DEF CodecRgltInit
<1>2. Once(f.steps) /\ Once(f.undo)
  BY <1>1 DEF Once, CodecRgltInit, C, Nothing
<1>3. Ladder(f) /\ \A i \in {1, 2, 3} : f.labels[i] \in 1..2
  BY <1>1, UpTo DEF Ladder, Mirrored, CodecRgltInit, C, Nothing
<1>4. \A r : r # Nothing => (Lists(f.steps, r) <=> r \in {C("avcc"), C("supply_on")})
  BY <1>1 DEF Lists, CodecRgltInit
<1>5. QED
  BY <1>1, <1>2, <1>3, <1>4, UpTo DEF Table

-----------------------------------------------------------------------------
(***************************************************************************)
(* What the labels of the probe functions and the removes release.         *)
(***************************************************************************)
AhubClkOwn  == {A("module_on"), A("module"), PllOn, A("pll"), X4On, A("x4")}
CodecClkOwn == {C("audio_on"), X4On, PllOn, C("audio"), C("x4"), C("pll")}
MemOwn(d)   == {<<d, "base">>, <<d, "region">>}
SupplyOwn   == IF "regulator" \in named THEN {A("supply_on"), A("regulator")} ELSE {}

LEMMA AhubClkExitLists == Once(AhubClkExit) /\ \A r : Lists(AhubClkExit, r) <=> r \in AhubClkOwn
<1>1. DOMAIN AhubClkExit = {1, 2, 3, 4, 5, 6}
  BY UpTo DEF AhubClkExit
<1>2. Once(AhubClkExit)
  BY <1>1 DEF Once, AhubClkExit, A, PllOn, X4On
<1>3. QED
  BY <1>1, <1>2 DEF Lists, AhubClkExit, AhubClkOwn

LEMMA CodecClkExitLists ==
  Once(CodecClkExit) /\ \A r : Lists(CodecClkExit, r) <=> r \in CodecClkOwn
<1>1. DOMAIN CodecClkExit = {1, 2, 3, 4, 5, 6}
  BY UpTo DEF CodecClkExit
<1>2. Once(CodecClkExit)
  BY <1>1 DEF Once, CodecClkExit, C, PllOn, X4On
<1>3. QED
  BY <1>1, <1>2 DEF Lists, CodecClkExit, CodecClkOwn

LEMMA MemExitLists ==
  ASSUME NEW d PROVE Once(MemExit(d)) /\ \A r : Lists(MemExit(d), r) <=> r \in MemOwn(d)
<1>1. DOMAIN MemExit(d) = {1, 2}
  BY UpTo DEF MemExit
<1>2. QED
  BY <1>1 DEF Once, Lists, MemExit, MemOwn

LEMMA RegulatorExitLists ==
  Once(RegulatorExit) /\ \A r : Lists(RegulatorExit, r) <=> r \in SupplyOwn
<1>1. CASE "regulator" \in named
  <2>1. RegulatorExit = <<A("supply_on"), A("regulator")>> /\ DOMAIN RegulatorExit = {1, 2}
    BY <1>1, UpTo DEF RegulatorExit
  <2>2. QED
    BY <1>1, <2>1 DEF Once, Lists, SupplyOwn, A
<1>2. CASE "regulator" \notin named
  <2>1. RegulatorExit = <<>> /\ DOMAIN RegulatorExit = {}
    BY <1>2 DEF RegulatorExit
  <2>2. QED
    BY <1>2, <2>1 DEF Once, Lists, SupplyOwn
<1>3. QED
  BY <1>1, <1>2

LEMMA CodecRgltExitLists ==
  Once(CodecRgltExit) /\ \A r : Lists(CodecRgltExit, r) <=> r \in {C("supply_on"), C("avcc")}
<1>1. DOMAIN CodecRgltExit = {1, 2}
  BY UpTo DEF CodecRgltExit
<1>2. QED
  BY <1>1 DEF Once, Lists, CodecRgltExit, C

LEMMA SingleLists ==
  ASSUME NEW x PROVE Once(<<x>>) /\ \A r : Lists(<<x>>, r) <=> r = x
<1>1. DOMAIN <<x>> = {1}
  BY UpTo
<1>2. QED
  BY <1>1 DEF Once, Lists

LEMMA AhubUndoLists ==
  ASSUME NEW k \in 1..4
  PROVE  /\ Once(FallThrough(ProbeUndo("ahub"), k))
         /\ \A r : Lists(FallThrough(ProbeUndo("ahub"), k), r) <=>
                   \/ k = 1  /\ r \in AhubClkOwn
                   \/ k <= 2 /\ r \in MemOwn("ahub")
                   \/ k <= 3 /\ r \in SupplyOwn
                   \/ r = A("info")
<1> DEFINE G == ProbeUndo("ahub")
<1>1. /\ DOMAIN G = 1..4 /\ Len(G) = 4
      /\ G[1] = AhubClkExit /\ G[2] = MemExit("ahub") /\ G[3] = RegulatorExit
      /\ G[4] = <<A("info")>>
  BY DEF ProbeUndo
<1>2. /\ Once(G[1]) /\ \A r : Lists(G[1], r) <=> r \in AhubClkOwn
      /\ Once(G[2]) /\ \A r : Lists(G[2], r) <=> r \in MemOwn("ahub")
      /\ Once(G[3]) /\ \A r : Lists(G[3], r) <=> r \in SupplyOwn
      /\ Once(G[4]) /\ \A r : Lists(G[4], r) <=> r = A("info")
  BY <1>1, AhubClkExitLists, MemExitLists, RegulatorExitLists, SingleLists
<1> HIDE DEF G
<1>3. Apart(G)
  <2>1. \A g \in DOMAIN G : g = 1 \/ g = 2 \/ g = 3 \/ g = 4
    BY <1>1
  <2>2. \A r : /\ ~(r \in AhubClkOwn /\ r \in MemOwn("ahub"))
               /\ ~(r \in AhubClkOwn /\ r \in SupplyOwn)
               /\ ~(r \in MemOwn("ahub") /\ r \in SupplyOwn)
               /\ A("info") \notin AhubClkOwn \cup MemOwn("ahub") \cup SupplyOwn
    BY DEF AhubClkOwn, MemOwn, SupplyOwn, A, PllOn, X4On
  <2>3. QED
    BY <1>2, <2>1, <2>2 DEF Apart
<1>4. /\ Once(FallThrough(G, k))
      /\ \A r : Lists(FallThrough(G, k), r) <=> \E g \in k..4 : Lists(G[g], r)
  <2>1. k \in Nat \ {0} /\ DOMAIN G = 1..Len(G)
    BY <1>1
  <2>2. /\ Once(FallThrough(G, k))
        /\ \A r : Lists(FallThrough(G, k), r) <=> \E g \in k..Len(G) : Lists(G[g], r)
    BY ONLY <1>3, <2>1, FallThroughOnce
  <2>3. QED
    BY <1>1, <2>2
<1>5. \A g : g \in k..4 <=> ((g = 1 /\ k = 1) \/ (g = 2 /\ k <= 2) \/ (g = 3 /\ k <= 3) \/ g = 4)
  OBVIOUS
<1>6. QED
  BY <1>2, <1>4, <1>5 DEF G

LEMMA CodecUndoLists ==
  ASSUME NEW k \in 1..3
  PROVE  /\ Once(FallThrough(ProbeUndo("codec"), k))
         /\ \A r : Lists(FallThrough(ProbeUndo("codec"), k), r) <=>
                   \/ k = 1  /\ r \in CodecClkOwn
                   \/ k <= 2 /\ r \in MemOwn("codec")
                   \/ r = C("info")
<1> DEFINE G == ProbeUndo("codec")
<1>1. /\ DOMAIN G = 1..3 /\ Len(G) = 3
      /\ G[1] = CodecClkExit /\ G[2] = MemExit("codec") /\ G[3] = <<C("info")>>
  BY DEF ProbeUndo
<1>2. /\ Once(G[1]) /\ \A r : Lists(G[1], r) <=> r \in CodecClkOwn
      /\ Once(G[2]) /\ \A r : Lists(G[2], r) <=> r \in MemOwn("codec")
      /\ Once(G[3]) /\ \A r : Lists(G[3], r) <=> r = C("info")
  BY <1>1, CodecClkExitLists, MemExitLists, SingleLists
<1> HIDE DEF G
<1>3. Apart(G)
  <2>1. \A g \in DOMAIN G : g = 1 \/ g = 2 \/ g = 3
    BY <1>1
  <2>2. \A r : /\ ~(r \in CodecClkOwn /\ r \in MemOwn("codec"))
               /\ C("info") \notin CodecClkOwn \cup MemOwn("codec")
    BY DEF CodecClkOwn, MemOwn, C, PllOn, X4On
  <2>3. QED
    BY <1>2, <2>1, <2>2 DEF Apart
<1>4. /\ Once(FallThrough(G, k))
      /\ \A r : Lists(FallThrough(G, k), r) <=> \E g \in k..3 : Lists(G[g], r)
  <2>1. k \in Nat \ {0} /\ DOMAIN G = 1..Len(G)
    BY <1>1
  <2>2. /\ Once(FallThrough(G, k))
        /\ \A r : Lists(FallThrough(G, k), r) <=> \E g \in k..Len(G) : Lists(G[g], r)
    BY ONLY <1>3, <2>1, FallThroughOnce
  <2>3. QED
    BY <1>1, <2>2
<1>5. \A g : g \in k..3 <=> ((g = 1 /\ k = 1) \/ (g = 2 /\ k <= 2) \/ g = 3)
  OBVIOUS
<1>6. QED
  BY <1>2, <1>4, <1>5 DEF G

LEMMA AhubRemoveLists ==
  /\ Once(FallThrough(RemoveUndo("ahub"), 1))
  /\ \A r : Lists(FallThrough(RemoveUndo("ahub"), 1), r) <=>
            r \in AhubClkOwn \cup MemOwn("ahub") \cup SupplyOwn
<1> DEFINE G == RemoveUndo("ahub")
<1>1. /\ DOMAIN G = 1..3 /\ Len(G) = 3
      /\ G[1] = MemExit("ahub") /\ G[2] = AhubClkExit /\ G[3] = RegulatorExit
  BY DEF RemoveUndo
<1>2. /\ Once(G[1]) /\ \A r : Lists(G[1], r) <=> r \in MemOwn("ahub")
      /\ Once(G[2]) /\ \A r : Lists(G[2], r) <=> r \in AhubClkOwn
      /\ Once(G[3]) /\ \A r : Lists(G[3], r) <=> r \in SupplyOwn
  BY <1>1, AhubClkExitLists, MemExitLists, RegulatorExitLists
<1> HIDE DEF G
<1>3. Apart(G)
  <2>1. \A g \in DOMAIN G : g = 1 \/ g = 2 \/ g = 3
    BY <1>1
  <2>2. \A r : /\ ~(r \in AhubClkOwn /\ r \in MemOwn("ahub"))
               /\ ~(r \in AhubClkOwn /\ r \in SupplyOwn)
               /\ ~(r \in MemOwn("ahub") /\ r \in SupplyOwn)
    BY DEF AhubClkOwn, MemOwn, SupplyOwn, A, PllOn, X4On
  <2>3. QED
    BY <1>2, <2>1, <2>2 DEF Apart
<1>4. /\ Once(FallThrough(G, 1))
      /\ \A r : Lists(FallThrough(G, 1), r) <=> \E g \in 1..3 : Lists(G[g], r)
  <2>1. 1 \in Nat \ {0} /\ DOMAIN G = 1..Len(G)
    BY <1>1
  <2>2. /\ Once(FallThrough(G, 1))
        /\ \A r : Lists(FallThrough(G, 1), r) <=> \E g \in 1..Len(G) : Lists(G[g], r)
    BY ONLY <1>3, <2>1, FallThroughOnce
  <2>3. QED
    BY <1>1, <2>2
<1>5. QED
  BY <1>2, <1>4, UpTo DEF G

LEMMA CodecRemoveLists ==
  /\ Once(FallThrough(RemoveUndo("codec"), 1))
  /\ \A r : Lists(FallThrough(RemoveUndo("codec"), 1), r) <=>
            r \in CodecClkOwn \cup MemOwn("codec") \cup {C("supply_on"), C("avcc"), C("info")}
<1> DEFINE G == RemoveUndo("codec")
<1>1. /\ DOMAIN G = 1..4 /\ Len(G) = 4
      /\ G[1] = MemExit("codec") /\ G[2] = CodecClkExit /\ G[3] = CodecRgltExit
      /\ G[4] = <<C("info")>>
  BY DEF RemoveUndo
<1>2. /\ Once(G[1]) /\ \A r : Lists(G[1], r) <=> r \in MemOwn("codec")
      /\ Once(G[2]) /\ \A r : Lists(G[2], r) <=> r \in CodecClkOwn
      /\ Once(G[3]) /\ \A r : Lists(G[3], r) <=> r \in {C("supply_on"), C("avcc")}
      /\ Once(G[4]) /\ \A r : Lists(G[4], r) <=> r = C("info")
  BY <1>1, CodecClkExitLists, MemExitLists, CodecRgltExitLists, SingleLists
<1> HIDE DEF G
<1>3. Apart(G)
  <2>1. \A g \in DOMAIN G : g = 1 \/ g = 2 \/ g = 3 \/ g = 4
    BY <1>1
  <2>2. \A r : /\ ~(r \in CodecClkOwn /\ r \in MemOwn("codec"))
               /\ ~(r \in CodecClkOwn /\ r \in {C("supply_on"), C("avcc")})
               /\ ~(r \in MemOwn("codec") /\ r \in {C("supply_on"), C("avcc")})
               /\ C("info") \notin CodecClkOwn \cup MemOwn("codec") \cup {C("supply_on"), C("avcc")}
    BY DEF CodecClkOwn, MemOwn, C, PllOn, X4On
  <2>3. QED
    BY <1>2, <2>1, <2>2 DEF Apart
<1>4. /\ Once(FallThrough(G, 1))
      /\ \A r : Lists(FallThrough(G, 1), r) <=> \E g \in 1..4 : Lists(G[g], r)
  <2>1. 1 \in Nat \ {0} /\ DOMAIN G = 1..Len(G)
    BY <1>1
  <2>2. /\ Once(FallThrough(G, 1))
        /\ \A r : Lists(FallThrough(G, 1), r) <=> \E g \in 1..Len(G) : Lists(G[g], r)
    BY ONLY <1>3, <2>1, FallThroughOnce
  <2>3. QED
    BY <1>1, <2>2
<1>5. QED
  BY <1>2, <1>4, UpTo DEF G

-----------------------------------------------------------------------------
(***************************************************************************)
(* The ledger: which resources a driver owns follows from how far it came. *)
(* Stage 0 is its own record, stage q what init function q acquires.       *)
(***************************************************************************)
Stage(d, q) ==
  CASE q = 0                -> {<<d, "info">>}
    [] q = 1 /\ d = "ahub"  -> SupplyOwn
    [] q = 2 /\ d = "ahub"  -> {A("region"), A("base"), A("regmap")}
    [] q = 3 /\ d = "ahub"  -> AhubClkOwn
    [] q = 4 /\ d = "ahub"  -> IF "pinctrl" \in named THEN {A("pinctrl")} ELSE {}
    [] q = 1 /\ d = "codec" -> {C("region"), C("base"), C("regmap")}
    [] q = 2 /\ d = "codec" -> {C("pll"), C("x4"), C("audio")}
    [] q = 3 /\ d = "codec" -> {PllOn, X4On, C("audio_on")}
    [] q = 4 /\ d = "codec" -> {C("avcc"), C("supply_on")}

Owns(d, r) == \E q \in 0..4 : q < phase[d] /\ r \in Stage(d, q)
Clocked(d) == IF phase[d] > 3 THEN 1 ELSE 0

(* A driver's own resources are held once from their stage on. Only what the *)
(* codec's clk_enable should enable is uncertain once that function failed.  *)
OwnLedger ==
  \A d \in Drivers : \A r \in Private(d) \ {C("audio_on")} :
    held[r] = IF Owns(d, r) THEN 1 ELSE 0

ClockLedger ==
  /\ held[C("audio_on")] \in 0..Clocked("codec")
  /\ faults = 0 => /\ held[C("audio_on")] = Clocked("codec")
                   /\ held[PllOn] = Clocked("ahub") + Clocked("codec")
                   /\ held[X4On] = Clocked("ahub") + Clocked("codec")

IInv == TypeOK /\ OwnLedger /\ ClockLedger

-----------------------------------------------------------------------------
(***************************************************************************)
(* The sets, by their elements.                                            *)
(***************************************************************************)
LEMMA StageIs ==
  /\ \A d \in Drivers : Stage(d, 0) = {<<d, "info">>}
  /\ Stage("ahub", 1) = SupplyOwn
  /\ Stage("ahub", 2) = {A("region"), A("base"), A("regmap")}
  /\ Stage("ahub", 3) = AhubClkOwn
  /\ Stage("ahub", 4) = IF "pinctrl" \in named THEN {A("pinctrl")} ELSE {}
  /\ Stage("codec", 1) = {C("region"), C("base"), C("regmap")}
  /\ Stage("codec", 2) = {C("pll"), C("x4"), C("audio")}
  /\ Stage("codec", 3) = {PllOn, X4On, C("audio_on")}
  /\ Stage("codec", 4) = {C("avcc"), C("supply_on")}
BY DEF Stage, Drivers

LEMMA StageKept == named' = named => \A d, q : Stage(d, q)' = Stage(d, q)
BY DEF Stage, SupplyOwn

LEMMA ResourceSets ==
  /\ \A r : r \in Private("ahub") <=>
       r \in {A("info"), A("region"), A("base"), A("regmap"), A("pinctrl"),
              A("regulator"), A("module"), A("pll"), A("x4"),
              A("module_on"), A("audio_on"), A("supply_on")}
  /\ \A r : r \in Private("codec") <=>
       r \in {C("info"), C("region"), C("base"), C("regmap"), C("pinctrl"),
              C("avcc"), C("audio"), C("pll"), C("x4"),
              C("module_on"), C("audio_on"), C("supply_on")}
  /\ \A r : r \in Resources <=>
       r \in Private("ahub") \/ r \in Private("codec") \/ r = PllOn \/ r = X4On
  /\ \A d \in Drivers : \A r : r \in Managed(d) <=>
       r \in {<<d, "info">>, <<d, "region">>, <<d, "base">>, <<d, "regmap">>, <<d, "pinctrl">>}
  /\ \A r : r \in On("ahub") \cup On("codec") <=>
       r \in {PllOn, X4On, A("module_on"), A("audio_on"), A("supply_on"),
              C("module_on"), C("audio_on"), C("supply_on")}
<1>1. \A r : r \in Private("ahub") <=>
       r \in {A("info"), A("region"), A("base"), A("regmap"), A("pinctrl"),
              A("regulator"), A("module"), A("pll"), A("x4"),
              A("module_on"), A("audio_on"), A("supply_on")}
  BY DEF Private, Got, Managed, On, A, PllOn, X4On
<1>2. \A r : r \in Private("codec") <=>
       r \in {C("info"), C("region"), C("base"), C("regmap"), C("pinctrl"),
              C("avcc"), C("audio"), C("pll"), C("x4"),
              C("module_on"), C("audio_on"), C("supply_on")}
  BY DEF Private, Got, Managed, On, C, PllOn, X4On
<1>3. \A r : r \in Resources <=>
        r \in Private("ahub") \/ r \in Private("codec") \/ r = PllOn \/ r = X4On
  <2>1. \A r : r \in Resources <=> \E d \in Drivers : r \in Got(d) \cup Managed(d) \cup On(d)
    BY DEF Resources
  <2>2. PllOn \in On("ahub") /\ X4On \in On("ahub")
    BY DEF On, PllOn, X4On
  <2>3. QED
    BY <2>1, <2>2 DEF Private, Drivers
<1>4. \A d \in Drivers : \A r : r \in Managed(d) <=>
       r \in {<<d, "info">>, <<d, "region">>, <<d, "base">>, <<d, "regmap">>, <<d, "pinctrl">>}
  BY DEF Managed
<1>5. \A r : r \in On("ahub") \cup On("codec") <=>
       r \in {PllOn, X4On, A("module_on"), A("audio_on"), A("supply_on"),
              C("module_on"), C("audio_on"), C("supply_on")}
  BY DEF On, PllOn, X4On, A, C
<1>6. QED
  BY <1>1, <1>2, <1>3, <1>4, <1>5

(* A stage takes from its driver's own and, if it is the third, the PLL.     *)
LEMMA StageOf ==
  ASSUME NEW d \in Drivers, NEW q \in 0..4, NEW r \in Stage(d, q)
  PROVE  r \in Private(d) \/ (q = 3 /\ r \in {PllOn, X4On})
<1>1. q = 0 \/ q = 1 \/ q = 2 \/ q = 3 \/ q = 4
  OBVIOUS
<1>2. CASE d = "ahub"
  BY <1>1, <1>2, StageIs, ResourceSets DEF SupplyOwn, AhubClkOwn, A
<1>3. CASE d = "codec"
  BY <1>1, <1>3, StageIs, ResourceSets DEF C
<1>4. QED
  BY <1>2, <1>3 DEF Drivers

LEMMA StagesApart ==
  ASSUME NEW d \in Drivers, NEW q \in 0..4, NEW p \in 0..4, NEW r,
         r \in Stage(d, q), r \in Stage(d, p)
  PROVE  q = p
<1>1. (q = 0 \/ q = 1 \/ q = 2 \/ q = 3 \/ q = 4) /\ (p = 0 \/ p = 1 \/ p = 2 \/ p = 3 \/ p = 4)
  OBVIOUS
<1>2. CASE d = "ahub"
  BY <1>1, <1>2, StageIs DEF SupplyOwn, AhubClkOwn, A, PllOn, X4On
<1>3. CASE d = "codec"
  BY <1>1, <1>3, StageIs DEF C, PllOn, X4On
<1>4. QED
  BY <1>2, <1>3 DEF Drivers

(* The PLL is in the third stage of both, the clock in that of the codec.    *)
LEMMA ThirdStage ==
  /\ \A d \in Drivers : PllOn \in Stage(d, 3) /\ X4On \in Stage(d, 3)
  /\ C("audio_on") \in Stage("codec", 3)
  /\ \A r \in Private("codec") : r \in Stage("codec", 3) <=> r = C("audio_on")
BY StageIs, ResourceSets DEF AhubClkOwn, Drivers, C, PllOn, X4On

(* The drivers share nothing but the PLL.                                    *)
LEMMA PrivateApart ==
  /\ \A r : ~(r \in Private("ahub") /\ r \in Private("codec"))
  /\ \A d \in Drivers : PllOn \notin Private(d) /\ X4On \notin Private(d)
BY ResourceSets DEF A, C, PllOn, X4On, Drivers

-----------------------------------------------------------------------------
(***************************************************************************)
(* A driver gains a stage, or loses all it owns.                           *)
(***************************************************************************)
LEMMA OwnsTyped ==
  ASSUME IInv, NEW d \in Drivers
  PROVE  /\ phase[d] \in {0, 1, 2, 3, 4, 9} /\ held \in [Resources -> Nat] /\ faults \in Nat
         /\ C("audio_on") \in Resources /\ PllOn \in Resources /\ X4On \in Resources
         /\ \A e \in Drivers : Private(e) \subseteq Resources
<1>1. phase[d] \in {0, 1, 2, 3, 4, 9} /\ held \in [Resources -> Nat] /\ faults \in Nat
  <2>1. 1..4 = {1, 2, 3, 4} /\ Unbound = 0 /\ Bound = 9
    BY UpTo DEF Unbound, Bound
  <2>2. QED
    BY <2>1, ProbeAssumption DEF IInv, TypeOK
<1>2. \A e \in Drivers : Private(e) \subseteq Resources
  BY ResourceSets DEF Drivers
<1>3. QED
  BY <1>1, <1>2, ResourceSets

GainsStage(d, q) ==
  /\ phase[d] = q
  /\ held' = [r \in Resources |-> held[r] + (IF r \in Stage(d, q) THEN 1 ELSE 0)]
  /\ phase' = [phase EXCEPT ![d] = IF q = 4 THEN Bound ELSE q + 1]
  /\ named' = named /\ faults' = faults

LEMMA Gains ==
  ASSUME IInv, NEW d \in Drivers, NEW q \in 0..4, GainsStage(d, q)
  PROVE  IInv'
<1> USE DEF Bound, Unbound, GainsStage
<1>1. /\ phase \in [Drivers -> {Unbound, Bound} \cup 1..4] /\ held \in [Resources -> Nat]
      /\ \A e \in Drivers : phase[e] \in {0, 1, 2, 3, 4, 9}
  BY OwnsTyped DEF IInv, TypeOK
<1>2. /\ phase'[d] = IF q = 4 THEN 9 ELSE q + 1
      /\ \A e \in Drivers \ {d} : phase'[e] = phase[e]
  BY <1>1
<1>3. TypeOK'
  <2>1. held' \in [Resources -> Nat]
    BY <1>1
  <2>2. phase' \in [Drivers -> {Unbound, Bound} \cup 1..4]
    BY <1>1
  <2>3. QED
    BY <2>1, <2>2 DEF IInv, TypeOK
<1>4. \A r : \A e \in Drivers : Owns(e, r)' <=> Owns(e, r) \/ (e = d /\ r \in Stage(d, q))
  <2>1. \A e \in Drivers, p \in 0..4 : p < phase'[e] <=> p < phase[e] \/ (e = d /\ p = q)
    BY <1>1, <1>2
  <2>2. \A e, p : Stage(e, p)' = Stage(e, p)
    BY StageKept
  <2>3. QED
    BY <2>1, <2>2 DEF Owns
<1>5. \A r : r \in Stage(d, q) => ~Owns(d, r)
  BY StagesApart DEF Owns
<1>6. \A e \in Drivers \ {d} : \A r \in Private(e) : r \notin Stage(d, q)
  BY StageOf, PrivateApart DEF Drivers
<1>7. OwnLedger'
  <2> SUFFICES ASSUME NEW e \in Drivers, NEW r \in Private(e) \ {C("audio_on")}
               PROVE  held'[r] = IF Owns(e, r)' THEN 1 ELSE 0
    BY DEF OwnLedger
  <2>1. held[r] = IF Owns(e, r) THEN 1 ELSE 0
    BY DEF IInv, OwnLedger
  <2>2. r \in Resources
    BY OwnsTyped
  <2>3. QED
    BY <1>4, <1>5, <1>6, <2>1, <2>2
<1>8. ClockLedger'
  <2>1. \A e \in Drivers : Clocked(e)' = Clocked(e) + (IF e = d /\ q = 3 THEN 1 ELSE 0)
    BY <1>1, <1>2 DEF Clocked
  <2>2. \A r \in {PllOn, X4On} : r \in Stage(d, q) <=> q = 3
    BY StageOf, ThirdStage, PrivateApart
  <2>3. C("audio_on") \in Stage(d, q) <=> d = "codec" /\ q = 3
    <3>1. C("audio_on") \in Private("codec")
      BY ResourceSets
    <3>2. CASE d = "ahub"
      BY <1>6, <3>1, <3>2 DEF Drivers
    <3>3. CASE d = "codec"
      BY <3>3, ThirdStage, StagesApart DEF Drivers
    <3>4. QED
      BY <3>2, <3>3 DEF Drivers
  <2>4. /\ held'[PllOn] = held[PllOn] + (IF q = 3 THEN 1 ELSE 0)
        /\ held'[X4On] = held[X4On] + (IF q = 3 THEN 1 ELSE 0)
        /\ held'[C("audio_on")] =
             held[C("audio_on")] + (IF d = "codec" /\ q = 3 THEN 1 ELSE 0)
    BY <2>2, <2>3, OwnsTyped
  <2>5. /\ Clocked("ahub") \in {0, 1} /\ Clocked("codec") \in {0, 1}
        /\ d = "codec" /\ q = 3 => Clocked("codec") = 0
        /\ held[PllOn] \in Nat /\ held[X4On] \in Nat /\ held[C("audio_on")] \in Nat
    BY <1>1, OwnsTyped DEF Clocked
  <2>6. /\ Clocked("ahub")' = Clocked("ahub") + (IF d = "ahub" /\ q = 3 THEN 1 ELSE 0)
        /\ Clocked("codec")' = Clocked("codec") + (IF d = "codec" /\ q = 3 THEN 1 ELSE 0)
        /\ d = "ahub" \/ d = "codec"
    BY <2>1 DEF Drivers
  <2>7. held'[C("audio_on")] \in 0..Clocked("codec")'
    BY <2>4, <2>5, <2>6 DEF IInv, ClockLedger
  <2>8. QED
    BY <2>4, <2>5, <2>6, <2>7 DEF IInv, ClockLedger
<1>9. QED
  BY <1>3, <1>7, <1>8 DEF IInv

LEMMA Loses ==
  ASSUME IInv, NEW d \in Drivers, NEW s, Once(s),
         \A r \in Resources : /\ Lists(s, r) => Owns(d, r)
                              /\ Owns(d, r) => Lists(s, r) \/ r \in Managed(d),
         held' = Unmanage(Drop(held, s), d),
         phase' = [phase EXCEPT ![d] = Unbound],
         named' = named, faults' = faults
  PROVE  IInv'
<1> USE DEF Bound, Unbound
<1>1. /\ phase \in [Drivers -> {Unbound, Bound} \cup 1..4] /\ held \in [Resources -> Nat]
      /\ \A e \in Drivers : phase[e] \in {0, 1, 2, 3, 4, 9}
  BY OwnsTyped DEF IInv, TypeOK
<1>2. phase'[d] = 0 /\ \A e \in Drivers \ {d} : phase'[e] = phase[e]
  BY <1>1
<1> DEFINE loss(r) == IF Lists(s, r) THEN 1 ELSE 0
<1>3. \A r \in Resources : Times(s, r) = loss(r)
  BY TimesOnce, ResourcesAreSome
<1>4. \A r \in Resources :
        held'[r] = LET x == Floor(r, held[r] - loss(r))
                   IN  IF r \in Managed(d) /\ x > 0 THEN 0 ELSE x
  BY <1>3 DEF Unmanage, Drop
<1> HIDE DEF loss
<1>5. \A e \in Drivers : \A r \in Private(e) :
        /\ e # d => ~Owns(d, r) /\ ~Lists(s, r) /\ r \notin Managed(d)
        /\ r \in Resources
  <2>1. \A e \in Drivers \ {d} : \A r \in Private(e) : r \notin Private(d)
    BY PrivateApart DEF Drivers
  <2>2. \A e \in Drivers \ {d} : \A r \in Private(e) : ~Owns(d, r) /\ r \notin Managed(d)
    <3>1. \A r : Owns(d, r) => r \in Private(d) \/ r \in {PllOn, X4On}
      BY StageOf DEF Owns
    <3>2. \A r \in Managed(d) : r \in Private(d)
      BY ResourceSets DEF Drivers, A, C
    <3>3. QED
      BY <2>1, <3>1, <3>2, PrivateApart
  <2>3. QED
    BY <2>2, OwnsTyped
<1>6. \A r : \A e \in Drivers : Owns(e, r)' <=> Owns(e, r) /\ e # d
  <2>1. \A e \in Drivers, p \in 0..4 : p < phase'[e] <=> p < phase[e] /\ e # d
    BY <1>1, <1>2
  <2>2. \A e, p : Stage(e, p)' = Stage(e, p)
    BY StageKept
  <2>3. QED
    BY <2>1, <2>2 DEF Owns
<1>7. \A r \in Resources : loss(r) \in {0, 1} /\ held[r] \in Nat
  BY <1>1 DEF loss
<1>8. ASSUME NEW e \in Drivers, NEW r \in Private(e) \ {C("audio_on")}
      PROVE  held'[r] = IF Owns(e, r)' THEN 1 ELSE 0
  <2>1. held[r] = IF Owns(e, r) THEN 1 ELSE 0
    BY DEF IInv, OwnLedger
  <2>2. CASE e = d
    <3>1. held[r] - loss(r) = IF Owns(d, r) /\ ~Lists(s, r) THEN 1 ELSE 0
      BY <1>5, <2>1, <2>2 DEF loss
    <3>2. Floor(r, held[r] - loss(r)) = held[r] - loss(r)
      BY <3>1 DEF Floor
    <3>3. QED
      BY <1>4, <1>5, <1>6, <2>2, <3>1, <3>2
  <2>3. CASE e # d
    <3>1. loss(r) = 0 /\ r \notin Managed(d) /\ r \in Resources
      BY <1>5, <2>3 DEF loss
    <3>2. Floor(r, held[r] - loss(r)) = held[r]
      BY <2>1, <3>1 DEF Floor
    <3>3. QED
      BY <1>4, <1>6, <2>1, <2>3, <3>1, <3>2
  <2>4. QED
    BY <2>2, <2>3
<1>9. \A r \in {PllOn, X4On, C("audio_on")} :
        /\ r \in On("ahub") \cup On("codec") /\ r \in Resources /\ r \notin Managed(d)
        /\ held'[r] = IF held[r] = 0 THEN 0 ELSE held[r] - loss(r)
  <2>1. \A r \in {PllOn, X4On, C("audio_on")} :
          /\ r \in On("ahub") \cup On("codec") /\ r \in Resources /\ r \notin Managed(d)
    BY ResourceSets, OwnsTyped DEF PllOn, X4On, C, Drivers
  <2>2. QED
    BY <1>4, <1>7, <2>1 DEF Floor
<1>10. \A e \in Drivers : Clocked(e)' = IF e = d THEN 0 ELSE Clocked(e)
  BY <1>1, <1>2 DEF Clocked
<1>11. \A r \in {PllOn, X4On} : Lists(s, r) <=> Clocked(d) = 1
  <2>1. \A r \in {PllOn, X4On} : Owns(d, r) <=> phase[d] > 3
    BY <1>1, StageOf, ThirdStage, PrivateApart DEF Owns
  <2>2. QED
    BY <1>9, <2>1 DEF Clocked
<1>12. Lists(s, C("audio_on")) <=> d = "codec" /\ Clocked(d) = 1
  <2>1. C("audio_on") \in Private("codec")
    BY ResourceSets
  <2>2. CASE d = "ahub"
    BY <1>5, <2>1, <2>2 DEF Drivers
  <2>3. CASE d = "codec"
    <3>1. Owns(d, C("audio_on")) <=> phase[d] > 3
      BY <1>1, <2>3, StagesApart, ThirdStage DEF Owns, Drivers
    <3>2. QED
      BY <1>9, <2>3, <3>1 DEF Clocked
  <2>4. QED
    BY <2>2, <2>3 DEF Drivers
<1>13. ClockLedger'
  <2>1. /\ Clocked("ahub") \in {0, 1} /\ Clocked("codec") \in {0, 1}
        /\ Clocked("ahub")' = (IF d = "ahub" THEN 0 ELSE Clocked("ahub"))
        /\ Clocked("codec")' = (IF d = "codec" THEN 0 ELSE Clocked("codec"))
        /\ d = "ahub" \/ d = "codec"
    BY <1>10 DEF Clocked, Drivers
  <2>2. /\ held'[PllOn] = IF held[PllOn] = 0 THEN 0 ELSE held[PllOn] - Clocked(d)
        /\ held'[X4On] = IF held[X4On] = 0 THEN 0 ELSE held[X4On] - Clocked(d)
    BY <1>9, <1>11, <2>1 DEF loss
  <2>3. held'[C("audio_on")] =
          IF held[C("audio_on")] = 0 \/ d # "codec" THEN held[C("audio_on")]
          ELSE held[C("audio_on")] - Clocked(d)
    BY <1>7, <1>9, <1>12, <2>1 DEF loss
  <2>4. held[PllOn] \in Nat /\ held[X4On] \in Nat /\ held[C("audio_on")] \in Nat
    BY <1>7, <1>9
  <2>5. held'[C("audio_on")] \in 0..Clocked("codec")'
    BY <2>1, <2>3, <2>4 DEF IInv, ClockLedger
  <2>6. faults' = 0 =>
          /\ held'[C("audio_on")] = Clocked("codec")'
          /\ held'[PllOn] = Clocked("ahub")' + Clocked("codec")'
          /\ held'[X4On] = Clocked("ahub")' + Clocked("codec")'
    BY <2>1, <2>2, <2>3, <2>4 DEF IInv, ClockLedger
  <2>7. QED
    BY <2>5, <2>6 DEF ClockLedger
<1>14. TypeOK'
  <2>1. \A r \in Resources : held'[r] \in Nat
    <3>1. \A r \in Resources :
            \/ r \in {PllOn, X4On, C("audio_on")}
            \/ \E e \in Drivers : r \in Private(e) \ {C("audio_on")}
      BY ResourceSets DEF Drivers
    <3>2. \A r \in {PllOn, X4On, C("audio_on")} : held'[r] \in Nat
      BY <1>7, <1>9
    <3>3. QED
      BY <1>8, <3>1, <3>2
  <2>2. held' = [r \in Resources |-> held'[r]]
    BY DEF Unmanage
  <2>3. phase' \in [Drivers -> {Unbound, Bound} \cup 1..4]
    BY <1>1
  <2>4. QED
    BY <2>1, <2>2, <2>3 DEF IInv, TypeOK
<1>15. QED
  BY <1>8, <1>13, <1>14 DEF IInv, OwnLedger

-----------------------------------------------------------------------------
(***************************************************************************)
(* The actions.                                                            *)
(***************************************************************************)
LEMMA FunctionIs ==
  /\ DOMAIN InitFunctions["ahub"] = 1..4 /\ Len(InitFunctions["ahub"]) = 4
  /\ InitFunctions["ahub"][1] = RegulatorInit
  /\ InitFunctions["ahub"][2] = MemInit("ahub", 3)
  /\ InitFunctions["ahub"][3] = AhubClkInit
  /\ InitFunctions["ahub"][4] = PinInit
  /\ DOMAIN InitFunctions["codec"] = 1..4 /\ Len(InitFunctions["codec"]) = 4
  /\ InitFunctions["codec"][1] = MemInit("codec", 3)
  /\ InitFunctions["codec"][2] = CodecClkInit
  /\ InitFunctions["codec"][3] = CodecClkEnable
  /\ InitFunctions["codec"][4] = CodecRgltInit
BY DEF InitFunctions

LEMMA FunctionTable ==
  ASSUME NEW d \in Drivers, InProbe(d)
  PROVE  /\ phase[d] \in 1..4 /\ Table(Function(d))
         /\ Following(d) = IF phase[d] = 4 THEN Bound ELSE phase[d] + 1
<1>1. phase[d] \in 1..4 /\ Len(InitFunctions[d]) = 4
  BY FunctionIs DEF InProbe, Drivers
<1>2. phase[d] = 1 \/ phase[d] = 2 \/ phase[d] = 3 \/ phase[d] = 4
  BY <1>1
<1>3. Table(Function(d))
  <2>1. CASE d = "ahub"
    BY <1>2, <2>1, FunctionIs, RegulatorTable, MemTable, AhubClkTable, PinTable
       DEF Function, Drivers
  <2>2. CASE d = "codec"
    BY <1>2, <2>2, FunctionIs, MemTable, CodecClkTable, CodecEnableTable, CodecRgltTable
       DEF Function, Drivers
  <2>3. QED
    BY <2>1, <2>2 DEF Drivers
<1>4. QED
  BY <1>1, <1>3 DEF Following

(* What init function q acquires when its option is named is stage q.        *)
LEMMA StageLists ==
  ASSUME NEW d \in Drivers, NEW q \in 1..4, phase[d] = q, NEW r, r # Nothing
  PROVE  (Function(d).option \subseteq named /\ Lists(Function(d).steps, r)) <=> r \in Stage(d, q)
<1>1. q = 1 \/ q = 2 \/ q = 3 \/ q = 4
  OBVIOUS
<1>2. /\ RegulatorInit.option = {"regulator"} /\ PinInit.option = {"pinctrl"}
      /\ \A e, o : MemInit(e, o).option = {}
      /\ AhubClkInit.option = {} /\ CodecClkInit.option = {} /\ CodecClkEnable.option = {}
      /\ CodecRgltInit.option = {}
  BY DEF RegulatorInit, PinInit, MemInit, AhubClkInit, CodecClkInit, CodecClkEnable, CodecRgltInit
<1>3. CASE d = "ahub" /\ q = 1
  <2>1. Function(d) = RegulatorInit /\ Stage(d, q) = SupplyOwn
    BY <1>3, FunctionIs, StageIs DEF Function
  <2>2. QED
    BY <1>2, <2>1, RegulatorTable DEF SupplyOwn
<1>4. CASE d = "ahub" /\ q = 2
  <2>1. Function(d) = MemInit(d, 3) /\ Stage(d, q) = {A("region"), A("base"), A("regmap")}
    BY <1>4, FunctionIs, StageIs DEF Function
  <2>2. QED
    BY <1>2, <1>4, <2>1, MemTable DEF A
<1>5. CASE d = "ahub" /\ q = 3
  <2>1. Function(d) = AhubClkInit /\ Stage(d, q) = AhubClkOwn
    BY <1>5, FunctionIs, StageIs DEF Function
  <2>2. QED
    BY <1>2, <2>1, AhubClkTable DEF AhubClkOwn
<1>6. CASE d = "ahub" /\ q = 4
  <2>1. /\ Function(d) = PinInit
        /\ Stage(d, q) = IF "pinctrl" \in named THEN {A("pinctrl")} ELSE {}
    BY <1>6, FunctionIs, StageIs DEF Function
  <2>2. QED
    BY <1>2, <2>1, PinTable
<1>7. CASE d = "codec" /\ q = 1
  <2>1. Function(d) = MemInit(d, 3) /\ Stage(d, q) = {C("region"), C("base"), C("regmap")}
    BY <1>7, FunctionIs, StageIs DEF Function
  <2>2. QED
    BY <1>2, <1>7, <2>1, MemTable DEF C
<1>8. CASE d = "codec" /\ q = 2
  <2>1. Function(d) = CodecClkInit /\ Stage(d, q) = {C("pll"), C("x4"), C("audio")}
    BY <1>8, FunctionIs, StageIs DEF Function
  <2>2. QED
    BY <1>2, <2>1, CodecClkTable
<1>9. CASE d = "codec" /\ q = 3
  <2>1. Function(d) = CodecClkEnable /\ Stage(d, q) = {PllOn, X4On, C("audio_on")}
    BY <1>9, FunctionIs, StageIs DEF Function
  <2>2. QED
    BY <1>2, <2>1, CodecEnableTable
<1>10. CASE d = "codec" /\ q = 4
  <2>1. Function(d) = CodecRgltInit /\ Stage(d, q) = {C("avcc"), C("supply_on")}
    BY <1>10, FunctionIs, StageIs DEF Function
  <2>2. QED
    BY <1>2, <2>1, CodecRgltTable
<1>11. QED
  BY <1>1, <1>3, <1>4, <1>5, <1>6, <1>7, <1>8, <1>9, <1>10 DEF Drivers

(* A failing init function gives back what it acquired, whichever its step:  *)
(* the labels of all eight error ladders are right.                          *)
THEOREM LaddersUndo ==
  ASSUME TypeOK, NEW d \in Drivers, InProbe(d), NEW i \in DOMAIN Function(d).steps
  PROVE  Undone(d, i) = held
<1>1. Table(Function(d)) /\ held \in [Resources -> Nat]
  BY FunctionTable DEF TypeOK
<1>2. i \in 1..Len(Function(d).steps)
  BY <1>1 DEF Table
<1>3. QED
  BY <1>1, <1>2, UndoneByTable DEF Undone

LEMMA ProbeStep == ASSUME IInv, NEW d \in Drivers, Probe(d) PROVE IInv'
<1>1. phase[d] = 0 /\ named' = named /\ faults' = faults /\ phase' = [phase EXCEPT ![d] = 1]
  BY DEF Probe, Unbound
<1>2. \A r \in Resources :
        Times(<< <<d, "info">> >>, r) = IF r \in Stage(d, 0) THEN 1 ELSE 0
  <2> DEFINE s == << <<d, "info">> >>
  <2>1. Once(s) /\ \A r : Lists(s, r) <=> r \in Stage(d, 0)
    BY SingleLists, StageIs
  <2> HIDE DEF s
  <2>2. \A r \in Resources : Times(s, r) = IF Lists(s, r) THEN 1 ELSE 0
    BY <2>1, TimesOnce, ResourcesAreSome
  <2>3. QED
    BY <2>1, <2>2 DEF s
<1>3. held' = [r \in Resources |-> held[r] + (IF r \in Stage(d, 0) THEN 1 ELSE 0)]
  BY <1>2 DEF Probe, Take
<1> DEFINE q == 0
<1>4. q \in 0..4 /\ GainsStage(d, q)
  BY <1>1, <1>3 DEF GainsStage
<1> HIDE DEF q
<1>5. QED
  BY <1>4, Gains

LEMMA SucceedsStep == ASSUME IInv, NEW d \in Drivers, InitSucceeds(d) PROVE IInv'
<1> DEFINE q == phase[d]
           f == Function(d)
           all == Acquired(f, Len(f.steps))
<1>1. /\ InProbe(d) /\ named' = named /\ faults' = faults
      /\ phase' = [phase EXCEPT ![d] = Following(d)]
      /\ held' = IF f.option \subseteq named THEN Take(held, all) ELSE held
  BY DEF InitSucceeds
<1>2. q \in 1..4 /\ Table(f) /\ Following(d) = IF q = 4 THEN Bound ELSE q + 1
  BY <1>1, FunctionTable
<1>3. Once(all) /\ \A r : Lists(all, r) <=> Lists(f.steps, r)
  <2>1. Len(f.steps) \in 0..Len(f.steps) /\ Len(f.undo) + 1 \in 1..(Len(f.undo) + 1)
    BY <1>2 DEF Table
  <2>2. Once(all) /\ \A r : Lists(all, r) <=> \E j \in 1..Len(f.steps) : f.steps[j] = r
    BY <1>2, <2>1, PartsOnce
  <2>3. QED
    BY <1>2, <2>2 DEF Lists, Table
<1>4. \A r \in Resources :
        (f.option \subseteq named /\ Lists(all, r)) <=> r \in Stage(d, q)
  BY <1>2, <1>3, StageLists, ResourcesAreSome
<1>5. \A r \in Resources : Times(all, r) = IF Lists(all, r) THEN 1 ELSE 0
  BY <1>3, TimesOnce, ResourcesAreSome
<1> HIDE DEF f, all
<1>6. held \in [Resources -> Nat]
  BY DEF IInv, TypeOK
<1>7. held' = [r \in Resources |-> held[r] + (IF r \in Stage(d, q) THEN 1 ELSE 0)]
  <2>1. CASE f.option \subseteq named
    BY <1>1, <1>4, <1>5, <2>1 DEF Take
  <2>2. CASE ~(f.option \subseteq named)
    <3>1. \A r \in Resources : r \notin Stage(d, q)
      BY <1>4, <2>2
    <3>2. QED
      BY <1>1, <1>6, <2>2, <3>1
  <2>3. QED
    BY <2>1, <2>2
<1>8. q \in 0..4 /\ GainsStage(d, q)
  BY <1>1, <1>2, <1>7 DEF GainsStage
<1>9. QED
  BY <1>8, Gains

(* What a driver owns, by how far it came.                                   *)
LEMMA OwnsAt ==
  ASSUME NEW d \in Drivers, NEW r
  PROVE  /\ phase[d] = 0 => ~Owns(d, r)
         /\ phase[d] = 1 => (Owns(d, r) <=> r \in Stage(d, 0))
         /\ phase[d] = 2 => (Owns(d, r) <=> r \in Stage(d, 0) \cup Stage(d, 1))
         /\ phase[d] = 3 => (Owns(d, r) <=> r \in Stage(d, 0) \cup Stage(d, 1) \cup Stage(d, 2))
         /\ phase[d] = 4 => (Owns(d, r) <=> r \in Stage(d, 0) \cup Stage(d, 1) \cup Stage(d, 2)
                                                  \cup Stage(d, 3))
         /\ phase[d] = 9 => (Owns(d, r) <=> r \in Stage(d, 0) \cup Stage(d, 1) \cup Stage(d, 2)
                                                  \cup Stage(d, 3) \cup Stage(d, 4))
<1>1. 0..4 = {0, 1, 2, 3, 4}
  OBVIOUS
<1>2. QED
  BY <1>1 DEF Owns

LEMMA OuterIs ==
  /\ RegulatorInit.outer = 4 /\ AhubClkInit.outer = 2 /\ PinInit.outer = 1
  /\ \A d, o : MemInit(d, o).outer = o
  /\ CodecClkInit.outer = 2 /\ CodecClkEnable.outer = 2 /\ CodecRgltInit.outer = 1
BY DEF RegulatorInit, MemInit, AhubClkInit, PinInit, CodecClkInit, CodecClkEnable, CodecRgltInit

(* The label a failing function ends at releases what the stages before it   *)
(* acquired, but for what the core frees.                                    *)
LEMMA ProbeReleases ==
  ASSUME NEW d \in Drivers, InProbe(d), ~(d = "codec" /\ phase[d] = 3)
  PROVE  LET s == FallThrough(ProbeUndo(d), Function(d).outer)
         IN  /\ Once(s)
             /\ \A r : /\ Lists(s, r) => Owns(d, r)
                       /\ Owns(d, r) => Lists(s, r) \/ r \in Managed(d)
<1> DEFINE s(k) == FallThrough(ProbeUndo(d), k)
           right(k) == /\ Once(s(k))
                       /\ \A r : /\ Lists(s(k), r) => Owns(d, r)
                                 /\ Owns(d, r) => Lists(s(k), r) \/ r \in Managed(d)
<1>1. phase[d] = 1 \/ phase[d] = 2 \/ phase[d] = 3 \/ phase[d] = 4
  BY FunctionTable
<1>2. \A r : r \in Managed(d) <=>
        r \in {<<d, "info">>, <<d, "region">>, <<d, "base">>, <<d, "regmap">>, <<d, "pinctrl">>}
  BY ResourceSets
<1>3. CASE d = "ahub"
  <2>1. /\ phase[d] = 1 => Function(d).outer = 4
        /\ phase[d] = 2 => Function(d).outer = 3
        /\ phase[d] = 3 => Function(d).outer = 2
        /\ phase[d] = 4 => Function(d).outer = 1
    BY <1>3, FunctionIs, OuterIs DEF Function
  <2>2. \A k \in 1..4 :
          /\ Once(s(k))
          /\ \A r : Lists(s(k), r) <=> \/ k = 1  /\ r \in AhubClkOwn
                                       \/ k <= 2 /\ r \in MemOwn("ahub")
                                       \/ k <= 3 /\ r \in SupplyOwn
                                       \/ r = A("info")
    BY <1>3, AhubUndoLists
  <2>3. /\ Stage(d, 0) = {A("info")} /\ Stage(d, 1) = SupplyOwn /\ Stage(d, 3) = AhubClkOwn
        /\ Stage(d, 2) = MemOwn(d) \cup {A("regmap")}
        /\ A("regmap") \in Managed(d)
    BY <1>2, <1>3, StageIs DEF MemOwn, A, Drivers
  <2> HIDE DEF s
  <2>4. CASE phase[d] = 1
    BY <1>3, <2>1, <2>2, <2>3, <2>4, OwnsAt DEF s
  <2>5. CASE phase[d] = 2
    BY <1>3, <2>1, <2>2, <2>3, <2>5, OwnsAt DEF s
  <2>6. CASE phase[d] = 3
    BY <1>3, <2>1, <2>2, <2>3, <2>6, OwnsAt DEF s
  <2>7. CASE phase[d] = 4
    BY <1>3, <2>1, <2>2, <2>3, <2>7, OwnsAt DEF s
  <2>8. QED
    BY <1>1, <2>4, <2>5, <2>6, <2>7
<1>4. CASE d = "codec"
  <2>1. /\ phase[d] = 1 => Function(d).outer = 3
        /\ phase[d] = 2 => Function(d).outer = 2
        /\ phase[d] = 4 => Function(d).outer = 1
    BY <1>4, FunctionIs, OuterIs DEF Function
  <2>2. \A k \in 1..3 :
          /\ Once(s(k))
          /\ \A r : Lists(s(k), r) <=> \/ k = 1  /\ r \in CodecClkOwn
                                       \/ k <= 2 /\ r \in MemOwn("codec")
                                       \/ r = C("info")
    BY <1>4, CodecUndoLists
  <2>3. /\ Stage(d, 0) = {C("info")} /\ Stage(d, 1) = MemOwn(d) \cup {C("regmap")}
        /\ Stage(d, 2) \cup Stage(d, 3) = CodecClkOwn
        /\ C("regmap") \in Managed(d)
    BY <1>2, <1>4, StageIs DEF MemOwn, CodecClkOwn, C, Drivers
  <2> HIDE DEF s
  <2>4. CASE phase[d] = 1
    BY <1>4, <2>1, <2>2, <2>3, <2>4, OwnsAt DEF s
  <2>5. CASE phase[d] = 2
    BY <1>4, <2>1, <2>2, <2>3, <2>5, OwnsAt DEF s
  <2>6. CASE phase[d] = 4
    BY <1>4, <2>1, <2>2, <2>3, <2>6, OwnsAt DEF s
  <2>7. QED
    BY <1>1, <1>4, <2>4, <2>5, <2>6
<1>5. QED
  BY <1>3, <1>4 DEF Drivers

LEMMA RemoveReleases ==
  ASSUME NEW d \in Drivers, phase[d] = Bound
  PROVE  LET s == FallThrough(RemoveUndo(d), 1)
         IN  /\ Once(s)
             /\ \A r : /\ Lists(s, r) => Owns(d, r)
                       /\ Owns(d, r) => Lists(s, r) \/ r \in Managed(d)
<1>1. \A r : r \in Managed(d) <=>
        r \in {<<d, "info">>, <<d, "region">>, <<d, "base">>, <<d, "regmap">>, <<d, "pinctrl">>}
  BY ResourceSets
<1>2. \A r : Owns(d, r) <=> r \in Stage(d, 0) \cup Stage(d, 1) \cup Stage(d, 2)
                                  \cup Stage(d, 3) \cup Stage(d, 4)
  BY OwnsAt DEF Bound
<1>3. CASE d = "ahub"
  <2>1. /\ Stage(d, 0) \subseteq Managed(d) /\ Stage(d, 4) \subseteq Managed(d)
        /\ Stage(d, 1) = SupplyOwn /\ Stage(d, 3) = AhubClkOwn
        /\ MemOwn(d) \subseteq Stage(d, 2) /\ Stage(d, 2) \subseteq Managed(d)
    BY <1>1, <1>3, StageIs DEF MemOwn, A, Drivers
  <2>2. QED
    BY <1>2, <1>3, <2>1, AhubRemoveLists
<1>4. CASE d = "codec"
  <2>1. /\ Stage(d, 0) = {C("info")} /\ Stage(d, 4) = {C("supply_on"), C("avcc")}
        /\ Stage(d, 2) \cup Stage(d, 3) = CodecClkOwn
        /\ MemOwn(d) \subseteq Stage(d, 1) /\ Stage(d, 1) \subseteq Managed(d)
    BY <1>1, <1>4, StageIs DEF MemOwn, CodecClkOwn, C, Drivers
  <2>2. QED
    BY <1>2, <1>4, <2>1, CodecRemoveLists
<1>5. QED
  BY <1>3, <1>4 DEF Drivers

(* CodecClkEnable is the third function of the codec and no other.           *)
LEMMA EnableIsThird ==
  ASSUME NEW d \in Drivers, InProbe(d)
  PROVE  Function(d) = CodecClkEnable <=> d = "codec" /\ phase[d] = 3
<1>1. phase[d] = 1 \/ phase[d] = 2 \/ phase[d] = 3 \/ phase[d] = 4
  BY FunctionTable
<1>2. /\ Len(RegulatorInit.steps) # 3 \/ RegulatorInit.outer # 2
      /\ Len(CodecClkInit.steps) = 4 /\ Len(CodecClkEnable.steps) = 3
  BY OuterIs, CodecClkTable, CodecEnableTable
<1>3. /\ Len(AhubClkInit.steps) = 7 /\ PinInit.outer = 1 /\ CodecRgltInit.outer = 1
      /\ RegulatorInit.outer = 4 /\ CodecClkEnable.outer = 2
      /\ MemInit("ahub", 3).outer = 3 /\ MemInit("codec", 3).outer = 3
  BY OuterIs, AhubClkTable
<1>4. CASE d = "ahub"
  BY <1>1, <1>2, <1>3, <1>4, FunctionIs DEF Function
<1>5. CASE d = "codec"
  BY <1>1, <1>2, <1>3, <1>5, FunctionIs DEF Function
<1>6. QED
  BY <1>4, <1>5 DEF Drivers

LEMMA FailsStep == ASSUME IInv, NEW d \in Drivers, NEW i \in 1..7, InitFails(d, i) PROVE IInv'
<1> DEFINE s == FallThrough(ProbeUndo(d), Function(d).outer)
<1>1. /\ InProbe(d) /\ i \in DOMAIN Function(d).steps /\ Function(d) # CodecClkEnable
      /\ held' = Unmanage(Drop(Undone(d, i), s), d)
      /\ phase' = [phase EXCEPT ![d] = Unbound] /\ named' = named /\ faults' = faults
  BY DEF InitFails
<1>2. Undone(d, i) = held
  BY <1>1, LaddersUndo DEF IInv
<1>3. ~(d = "codec" /\ phase[d] = 3)
  BY <1>1, EnableIsThird
<1>4. /\ Once(s)
      /\ \A r \in Resources : /\ Lists(s, r) => Owns(d, r)
                              /\ Owns(d, r) => Lists(s, r) \/ r \in Managed(d)
  BY <1>1, <1>3, ProbeReleases
<1> HIDE DEF s
<1>5. held' = Unmanage(Drop(held, s), d)
  BY <1>1, <1>2
<1>6. QED
  BY <1>1, <1>4, <1>5, Loses

LEMMA UnbindStep == ASSUME IInv, NEW d \in Drivers, Unbind(d) PROVE IInv'
<1> DEFINE s == FallThrough(RemoveUndo(d), 1)
<1>1. /\ phase[d] = Bound /\ held' = Unmanage(Drop(held, s), d)
      /\ phase' = [phase EXCEPT ![d] = Unbound] /\ named' = named /\ faults' = faults
  BY DEF Unbind
<1>2. /\ Once(s)
      /\ \A r \in Resources : /\ Lists(s, r) => Owns(d, r)
                              /\ Owns(d, r) => Lists(s, r) \/ r \in Managed(d)
  BY <1>1, RemoveReleases
<1> HIDE DEF s
<1>3. QED
  BY <1>1, <1>2, Loses

LEMMA EnableFailsStep == ASSUME IInv, NEW i \in 1..3, ClkEnableFails(i) PROVE IInv'
<1> USE DEF Bound, Unbound
<1>1. /\ InProbe("codec") /\ Function("codec") = CodecClkEnable
      /\ i \in DOMAIN CodecClkEnable.steps /\ faults < MaxClkFaults
      /\ faults' = faults + 1 /\ held' = Undone("codec", i)
      /\ phase' = [phase EXCEPT !["codec"] = Following("codec")] /\ named' = named
      /\ "codec" \in Drivers
  BY DEF ClkEnableFails, Drivers
<1>2. held' = held
  BY <1>1, LaddersUndo DEF IInv
<1>3. phase["codec"] = 3 /\ Following("codec") = 4
  <2>1. phase["codec"] = 3
    BY <1>1, EnableIsThird
  <2>2. QED
    BY <1>1, <2>1, FunctionTable
<1>4. phase \in [Drivers -> {Unbound, Bound} \cup 1..4]
  BY DEF IInv, TypeOK
<1>5. phase'["codec"] = 4 /\ phase'["ahub"] = phase["ahub"]
  BY <1>1, <1>3, <1>4 DEF Drivers
<1>6. TypeOK'
  <2>1. phase' \in [Drivers -> {Unbound, Bound} \cup 1..4]
    BY <1>1, <1>3, <1>4
  <2>2. faults' \in 0..MaxClkFaults
    BY <1>1, ProbeAssumption DEF IInv, TypeOK
  <2>3. QED
    BY <1>1, <1>2, <2>1, <2>2 DEF IInv, TypeOK
<1>7. \A e \in Drivers : \A r \in Private(e) \ {C("audio_on")} : Owns(e, r)' <=> Owns(e, r)
  <2>1. \A e, p : Stage(e, p)' = Stage(e, p)
    BY <1>1, StageKept
  <2>2. \A r \in Private("codec") \ {C("audio_on")} : r \notin Stage("codec", 3)
    BY ThirdStage
  <2>3. \A p \in 0..4 : p < phase'["codec"] <=> p < phase["codec"] \/ p = 3
    BY <1>3, <1>5
  <2>4. QED
    BY <1>5, <2>1, <2>2, <2>3 DEF Owns, Drivers
<1>8. OwnLedger'
  BY <1>2, <1>7 DEF IInv, OwnLedger
<1>9. ClockLedger'
  <2>1. Clocked("codec") = 0 /\ Clocked("codec")' = 1 /\ faults' # 0
    BY <1>1, <1>3, <1>5, ProbeAssumption DEF Clocked, IInv, TypeOK
  <2>2. QED
    BY <1>2, <2>1 DEF IInv, ClockLedger
<1>10. QED
  BY <1>6, <1>8, <1>9 DEF IInv

LEMMA InvInit == Init => IInv
<1> SUFFICES ASSUME Init PROVE IInv
  OBVIOUS
<1>1. TypeOK
  BY ProbeAssumption DEF Init, TypeOK, Drivers
<1>2. \A d \in Drivers : phase[d] = 0 /\ Clocked(d) = 0 /\ \A r : ~Owns(d, r)
  BY OwnsAt DEF Init, Clocked, Unbound
<1>3. /\ \A r \in Resources : held[r] = 0
      /\ C("audio_on") \in Resources /\ PllOn \in Resources /\ X4On \in Resources
      /\ \A d \in Drivers : Private(d) \subseteq Resources
  BY ResourceSets DEF Init, Drivers
<1>4. QED
  BY <1>1, <1>2, <1>3 DEF IInv, OwnLedger, ClockLedger, Drivers

LEMMA InvStep == IInv /\ [Next]_vars => IInv'
<1> SUFFICES ASSUME IInv, [Next]_vars PROVE IInv'
  OBVIOUS
<1>1. ASSUME NEW d \in Drivers, Probe(d) PROVE IInv'
  BY <1>1, ProbeStep
<1>2. ASSUME NEW d \in Drivers, InitSucceeds(d) PROVE IInv'
  BY <1>2, SucceedsStep
<1>3. ASSUME NEW d \in Drivers, NEW i \in 1..7, InitFails(d, i) PROVE IInv'
  BY <1>3, FailsStep
<1>4. ASSUME NEW i \in 1..3, ClkEnableFails(i) PROVE IInv'
  BY <1>4, EnableFailsStep
<1>5. ASSUME NEW d \in Drivers, Unbind(d) PROVE IInv'
  BY <1>5, UnbindStep
<1>6. CASE UNCHANGED vars
  <2>1. held' = held /\ phase' = phase /\ named' = named /\ faults' = faults
    BY <1>6 DEF vars
  <2>2. \A d, r : Owns(d, r)' <=> Owns(d, r)
    BY <2>1, StageKept DEF Owns
  <2>3. QED
    BY <2>1, <2>2 DEF IInv, TypeOK, OwnLedger, ClockLedger, Clocked
<1>7. QED
  BY <1>1, <1>2, <1>3, <1>4, <1>5, <1>6 DEF Next

LEMMA Inductive == Spec => []IInv
BY InvInit, InvStep, PTL DEF Spec

-----------------------------------------------------------------------------
(* No release ever exceeds what is held, whichever steps of whichever probes *)
(* failed.                                                                   *)
THEOREM ProbesTyped == Spec => []TypeOK
<1>1. IInv => TypeOK
  BY DEF IInv
<1>2. QED
  BY <1>1, Inductive, PTL

(* A driver that is not bound holds nothing, after any number of probes and  *)
(* removes of both.                                                          *)
THEOREM UnboundIsEmpty == Spec => []UnboundHoldsNothing
<1>1. IInv => UnboundHoldsNothing
  <2> SUFFICES ASSUME IInv, NEW d \in Drivers, phase[d] = 0, NEW r \in Private(d)
               PROVE  held[r] = 0
    BY DEF UnboundHoldsNothing, Unbound
  <2>1. CASE r = C("audio_on")
    <3>1. d = "codec"
      BY <2>1, PrivateApart, ResourceSets DEF Drivers
    <3>2. Clocked("codec") = 0
      BY <3>1 DEF Clocked
    <3>3. QED
      BY <2>1, <3>2 DEF IInv, ClockLedger
  <2>2. CASE r # C("audio_on")
    BY <2>2, OwnsAt DEF IInv, OwnLedger
  <2>3. QED
    BY <2>1, <2>2
<1>2. QED
  BY <1>1, Inductive, PTL

(* A bound driver holds all that its operations use, once, and what is       *)
(* optional if its device node names it.                                     *)
THEOREM BoundIsComplete == Spec => []BoundHoldsAll
<1>1. IInv => BoundHoldsAll
  <2> SUFFICES ASSUME IInv PROVE BoundHoldsAll
    OBVIOUS
  <2>1. ASSUME phase["ahub"] = Bound, NEW r \in Managed("ahub") \cup Got("ahub")
        PROVE  held[r] = CASE r = A("pinctrl")   -> IF "pinctrl" \in named THEN 1 ELSE 0
                           [] r = A("regulator") -> IF "regulator" \in named THEN 1 ELSE 0
                           [] OTHER              -> 1
    <3>1. r \in {A("info"), A("region"), A("base"), A("regmap"), A("pinctrl"),
                 A("regulator"), A("module"), A("pll"), A("x4")}
      BY DEF Managed, Got, A
    <3>2. r \in Private("ahub") \ {C("audio_on")}
      BY <3>1, ResourceSets DEF A, C
    <3>3. Owns("ahub", r) <=> r \in Stage("ahub", 0) \cup Stage("ahub", 1) \cup Stage("ahub", 2)
                                    \cup Stage("ahub", 3) \cup Stage("ahub", 4)
      BY <2>1, OwnsAt DEF Bound, Drivers
    <3>4. Owns("ahub", r) <=> /\ r = A("pinctrl") => "pinctrl" \in named
                              /\ r = A("regulator") => "regulator" \in named
      BY <3>1, <3>3, StageIs DEF SupplyOwn, AhubClkOwn, A, PllOn, X4On, Drivers
    <3>5. held[r] = IF Owns("ahub", r) THEN 1 ELSE 0
      BY <3>2 DEF IInv, OwnLedger, Drivers
    <3>6. A("pinctrl") # A("regulator")
      BY DEF A
    <3>7. QED
      BY <3>4, <3>5, <3>6
  <2>2. ASSUME phase["codec"] = Bound,
               NEW r \in {C("info"), C("region"), C("base"), C("regmap"), C("supply_on")}
                         \cup Got("codec")
        PROVE  held[r] = 1
    <3>1. r \in {C("info"), C("region"), C("base"), C("regmap"), C("supply_on"),
                 C("avcc"), C("audio"), C("pll"), C("x4")}
      BY DEF Got, C
    <3>2. r \in Private("codec") \ {C("audio_on")}
      BY <3>1, ResourceSets DEF C
    <3>3. Owns("codec", r)
      BY <2>2, <3>1, OwnsAt, StageIs DEF Bound, Drivers, C
    <3>4. QED
      BY <3>2, <3>3 DEF IInv, OwnLedger, Drivers
  <2>3. QED
    BY <2>1, <2>2 DEF BoundHoldsAll
<1>2. QED
  BY <1>1, Inductive, PTL

(* The outputs of the audio PLL are enabled once per driver that uses them,  *)
(* as long as no failure to enable a clock was hidden.                       *)
THEOREM PllIsCounted == Spec => []PllCounted
<1>1. IInv => PllCounted
  <2> SUFFICES ASSUME IInv, faults = 0
               PROVE  LET users == {d \in Drivers : phase[d] > 3}
                      IN  held[PllOn] = Cardinality(users) /\ held[X4On] = Cardinality(users)
    BY DEF PllCounted
  <2> DEFINE users == {d \in Drivers : phase[d] > 3}
  <2>1. Cardinality(users) = Clocked("ahub") + Clocked("codec")
    <3>1. CASE phase["ahub"] > 3 /\ phase["codec"] > 3
      <4>1. users = {"ahub"} \cup {"codec"} /\ "codec" \notin {"ahub"}
        BY <3>1 DEF Drivers
      <4>2. IsFiniteSet({"ahub"}) /\ Cardinality({"ahub"}) = 1
        BY FS_Singleton
      <4>3. Cardinality({"ahub"} \cup {"codec"}) = 2
        BY <4>1, <4>2, FS_AddElement
      <4>4. QED
        BY <3>1, <4>1, <4>3 DEF Clocked
    <3>2. CASE phase["ahub"] > 3 /\ ~(phase["codec"] > 3)
      <4>1. users = {"ahub"}
        BY <3>2 DEF Drivers
      <4>2. Cardinality(users) = 1
        BY <4>1, FS_Singleton
      <4>3. QED
        BY <3>2, <4>2 DEF Clocked
    <3>3. CASE ~(phase["ahub"] > 3) /\ phase["codec"] > 3
      <4>1. users = {"codec"}
        BY <3>3 DEF Drivers
      <4>2. Cardinality(users) = 1
        BY <4>1, FS_Singleton
      <4>3. QED
        BY <3>3, <4>2 DEF Clocked
    <3>4. CASE ~(phase["ahub"] > 3) /\ ~(phase["codec"] > 3)
      <4>1. users = {}
        BY <3>4 DEF Drivers
      <4>2. Cardinality(users) = 0
        BY <4>1, FS_EmptySet
      <4>3. QED
        BY <3>4, <4>2 DEF Clocked
    <3>5. QED
      BY <3>1, <3>2, <3>3, <3>4
  <2>2. QED
    BY <2>1 DEF IInv, ClockLedger
<1>2. QED
  BY <1>1, Inductive, PTL
=============================================================================
