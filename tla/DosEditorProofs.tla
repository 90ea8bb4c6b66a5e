--------------------------- MODULE DosEditorProofs ---------------------------
(***************************************************************************)
(* Theorems about DosEditor, and what the routines of DosTable do.          *)
(***************************************************************************)
EXTENDS DosEditor, WellFoundedInduction, SequenceTheorems, FiniteSetTheorems, TLAPS

-----------------------------------------------------------------------------
(* Recursion and induction over an interval, with functions and sets in the *)
(* place of operators.                                                      *)
LEMMA LeastElement ==
  ASSUME NEW S \in SUBSET Nat, S # {}
  PROVE  /\ Min(S) \in S
         /\ \A j \in S : Min(S) <= j
<1> DEFINE R == {ss \in Nat \X Nat : ss[1] < ss[2]}
<1>1. IsWellFoundedOn(R, Nat)
  BY NatLessThanWellFounded DEF OpToRel
<1>2. PICK x \in S : \A y \in S : ~ (<<y, x>> \in R)
  <2> HIDE DEF R
  <2> QED BY <1>1, WFMin
<1>3. ASSUME NEW y \in S PROVE x <= y
  <2>1. ~ (y < x)
    BY <1>2, x \in Nat, y \in Nat
  <2> QED BY <2>1, x \in Nat, y \in Nat
<1> QED BY <1>3 DEF Min

(* A set of numbers that has 0, and with each number the next, has them all. *)
LEMMA Induction ==
  ASSUME NEW N \in Nat, NEW S, 0 \in S,
         \A k \in 0 .. N - 1 : k \in S => k + 1 \in S
  PROVE  \A k \in 0 .. N : k \in S
<1> DEFINE Bad == {k \in 0 .. N : k \notin S}
<1> SUFFICES ASSUME Bad # {} PROVE FALSE
  OBVIOUS
<1>1. Bad \in SUBSET Nat
  OBVIOUS
<1> DEFINE k == Min(Bad)
<1>2. k \in Bad /\ \A j \in Bad : k <= j
  BY <1>1, LeastElement
<1> HIDE DEF k
<1>3. k # 0 /\ k - 1 \in 0 .. N - 1
  BY <1>2
<1>4. k - 1 \in S
  BY <1>2, <1>3
<1>5. (k - 1) + 1 = k
  BY <1>2
<1> QED BY <1>2, <1>3, <1>4, <1>5

(* There is a function that begins with a and goes on as G says.            *)
Steps(N, V) == [0 .. N - 1 -> [V -> V]]

Iterations(N, V, a, G) ==
  {f \in [0 .. N -> V] : f[0] = a /\ \A k \in 0 .. N - 1 : f[k + 1] = G[k][f[k]]}

(* A recursion over an interval has a function that obeys it.                *)
LEMMA RecursionExists ==
  ASSUME NEW N \in Nat, NEW V, NEW a \in V, NEW G \in Steps(N, V)
  PROVE  Iterations(N, V, a, G) # {}
<1> USE DEF Steps
<1> DEFINE Upto(k) == {f \in [0 .. k -> V] :
                         /\ f[0] = a
                         /\ \A j \in 0 .. k - 1 : f[j + 1] = G[j][f[j]]}
           S == {k \in 0 .. N : Upto(k) # {}}
<1>1. 0 \in S
  <2> DEFINE f == [k \in 0 .. 0 |-> a]
  <2>1. f \in [0 .. 0 -> V] /\ f[0] = a
    OBVIOUS
  <2>2. 0 .. 0 - 1 = {}
    OBVIOUS
  <2> HIDE DEF f
  <2>3. f \in Upto(0)
    BY <2>1, <2>2
  <2> QED BY <2>3
<1>2. ASSUME NEW k \in 0 .. N - 1, k \in S PROVE k + 1 \in S
  <2>1. PICK f : f \in Upto(k)
    BY <1>2
  <2>2. /\ f \in [0 .. k -> V]
        /\ f[0] = a
        /\ \A j \in 0 .. k - 1 : f[j + 1] = G[j][f[j]]
    BY <2>1
  <2> DEFINE g == [j \in 0 .. k + 1 |-> IF j = k + 1 THEN G[k][f[k]] ELSE f[j]]
  <2>3. G[k][f[k]] \in V
    <3>1. f[k] \in V
      BY <2>2
    <3>2. G[k] \in [V -> V]
      OBVIOUS
    <3> QED BY <3>1, <3>2
  <2>4. g \in [0 .. k + 1 -> V]
    BY <2>2, <2>3
  <2>5. g[0] = a
    BY <2>2
  <2>6. \A j \in 0 .. k : g[j] = f[j]
    OBVIOUS
  <2>7. g[k + 1] = G[k][f[k]]
    OBVIOUS
  <2> HIDE DEF g
  <2>8. ASSUME NEW j \in 0 .. (k + 1) - 1 PROVE g[j + 1] = G[j][g[j]]
    <3>1. CASE j = k
      BY <2>6, <2>7, <3>1
    <3>2. CASE j # k
      <4>1. j \in 0 .. k - 1 /\ j + 1 \in 0 .. k
        BY <3>2
      <4> QED BY <2>2, <2>6, <4>1
    <3> QED BY <3>1, <3>2
  <2>9. g \in Upto(k + 1)
    BY <2>4, <2>5, <2>8
  <2> QED BY <2>9
<1>3. N \in S
  <2> HIDE DEF S
  <2>1. \A k \in 0 .. N - 1 : k \in S => k + 1 \in S
    BY <1>2
  <2>2. \A k \in 0 .. N : k \in S
    BY <1>1, <2>1, Induction
  <2> QED BY <2>2
<1> QED BY <1>3 DEF Iterations

-----------------------------------------------------------------------------
(* The types of what the routines read.                                     *)
AnyTable == [slots : [0..3 -> Entry], flag : BOOLEAN, part : 0..3, ext : 0..3,
             offset : Nat, changed : BOOLEAN]

Tables == [primary : [0..3 -> Entry], changed : [0..3 -> BOOLEAN],
           logical : Seq(AnyTable), ext_index : 0..3, extended_offset : Nat]

Units == [unit_flag : BOOLEAN, sector_offset : {1, TrackSize}]

(* The fields of an entry of a table.                                        *)
LEMMA EntryFields ==
  ASSUME NEW e \in Entry
  PROVE  /\ e.type \in {Empty, EXTENDED} \cup Types
         /\ e.active \in BOOLEAN
         /\ e.begin \in Nat /\ e.start \in Nat /\ e.size \in Nat
BY DEF Entry

(* What the assumption on the geometry says of each number.                  *)
LEMMA GeometryNumbers ==
  /\ CylinderSize \in Nat /\ CylinderSize > 0
  /\ TrackSize \in Nat /\ TrackSize > 0
  /\ Cylinders \in Nat /\ Cylinders > 0
  /\ MaximumParts \in Nat /\ MaximumParts > 5
  /\ MaxLogical \in Nat /\ MaxLogical > 1
BY GeometryAssumption DEF MaxLogical

(* A disk has a sector.                                                      *)
LEMMA TotalIsPositive == Total \in Nat /\ Total > 0
<1>1. CylinderSize \in Nat /\ Cylinders \in Nat /\ CylinderSize >= 1 /\ Cylinders >= 1
  BY GeometryNumbers
<1>2. CylinderSize * Cylinders \in Nat /\ CylinderSize * Cylinders >= 1
  BY <1>1
<1> QED BY <1>2 DEF Total

(* The partitions are the four primary ones and one for each logical table.  *)
LEMMA TablesCount ==
  ASSUME NEW x \in Tables
  PROVE  /\ Len(x.logical) \in Nat
         /\ DOMAIN x.logical = 1 .. Len(x.logical)
         /\ Partitions(x) = 4 + Len(x.logical)
         /\ Partitions(x) \in Nat
         /\ Numbers(x) = 0 .. Partitions(x) - 1
         /\ \A k \in 1 .. Len(x.logical) : x.logical[k] \in AnyTable
<1>1. x.logical \in Seq(AnyTable)
  BY DEF Tables
<1>2. /\ Len(x.logical) \in Nat
      /\ DOMAIN x.logical = 1 .. Len(x.logical)
      /\ \A k \in 1 .. Len(x.logical) : x.logical[k] \in AnyTable
  BY <1>1, LenProperties
<1> QED BY <1>2 DEF Partitions, Numbers

(* What the arrays part_table and offsets hold for a partition.              *)
LEMMA AccessIsTyped ==
  ASSUME NEW x \in Tables, NEW i \in Numbers(x)
  PROVE  /\ i \in Nat /\ (i >= 4 => i - 3 \in 1 .. Len(x.logical))
         /\ PartEntry(x, i) \in Entry
         /\ Offset(x, i) \in Nat
         /\ LastSector(x, i) \in Int
<1>1. i \in Nat /\ i <= Len(x.logical) + 3 /\ Len(x.logical) \in Nat
  BY TablesCount
<1>2. i >= 4 => i - 3 \in 1 .. Len(x.logical)
  BY <1>1
<1>3. i < 4 => i \in 0..3
  BY <1>1
<1>4. PartEntry(x, i) \in Entry
  <2>1. CASE i < 4
    BY <1>3, <2>1 DEF PartEntry, Tables
  <2>2. CASE ~ (i < 4)
    <3>1. x.logical[i - 3] \in AnyTable
      BY <1>1, <1>2, <2>2, TablesCount
    <3>2. /\ x.logical[i - 3].slots \in [0..3 -> Entry]
          /\ x.logical[i - 3].part \in 0..3
      BY <3>1 DEF AnyTable
    <3>3. x.logical[i - 3].slots[x.logical[i - 3].part] \in Entry
      BY <3>2
    <3> QED BY <2>2, <3>3 DEF PartEntry
  <2> QED BY <2>1, <2>2
<1>5. Offset(x, i) \in Nat
  <2>1. CASE i < 4
    BY <2>1 DEF Offset
  <2>2. CASE ~ (i < 4)
    <3>1. x.logical[i - 3] \in AnyTable
      BY <1>1, <1>2, <2>2, TablesCount
    <3> QED BY <2>2, <3>1 DEF Offset, AnyTable
  <2> QED BY <2>1, <2>2
<1>6. LastSector(x, i) \in Int
  BY <1>4, <1>5, EntryFields DEF LastSector
<1> QED BY <1>1, <1>2, <1>4, <1>5, <1>6

(* Rounding to a cylinder gives a sector.                                    *)
LEMMA RoundIsNatural ==
  ASSUME NEW v \in Units, NEW n \in Nat
  PROVE  Round(v, n) \in Nat
<1>1. CylinderSize \in Nat /\ CylinderSize > 0
  BY GeometryNumbers
<1>2. n \div CylinderSize \in Nat
  BY <1>1
<1>3. (n \div CylinderSize) * CylinderSize \in Nat
  BY <1>1, <1>2
<1> QED BY <1>3 DEF Round

(* fill_bounds gives each partition a first and a last sector.               *)
LEMMA BoundsAreTyped ==
  ASSUME NEW x \in Tables, NEW v \in Units, NEW n \in Nat, NEW i \in Numbers(x)
  PROVE  Firsts(x, v, n)[i] \in Nat /\ Lasts(x, n)[i] \in Int
<1>1. PartEntry(x, i) \in Entry /\ LastSector(x, i) \in Int
  BY AccessIsTyped
<1>2. PartEntry(x, i).begin \in Nat /\ x.extended_offset \in Nat
  BY <1>1, EntryFields DEF Tables
<1>3. Round(v, PartEntry(x, i).begin) \in Nat /\ Round(v, x.extended_offset) \in Nat
  BY <1>2, RoundIsNatural
<1>4. NoSector \in Nat
  BY TotalIsPositive, GeometryNumbers DEF NoSector
<1>5. Firsts(x, v, n)[i] \in Nat
  BY <1>3, <1>4 DEF Firsts
<1>6. Lasts(x, n)[i] \in Int
  BY <1>1 DEF Lasts
<1> QED BY <1>5, <1>6

-----------------------------------------------------------------------------
(* One round of the search, step by step: it never goes back.                *)
Moved(x, v, n, k, b) ==
  LET s == IF b = Offset(x, k) THEN b + v.sector_offset ELSE b
  IN  IF Firsts(x, v, n)[k] <= s /\ s <= Lasts(x, n)[k]
      THEN IF n < 4 THEN Lasts(x, n)[k] + 1 ELSE Lasts(x, n)[k] + v.sector_offset
      ELSE s

(* A round is such steps, one for each partition.                           *)
Walk(p, x, v, n, start) ==
  /\ p[0] = start
  /\ \A k \in 0 .. Partitions(x) - 1 : p[k + 1] = Moved(x, v, n, k, p[k])
  /\ \A k \in 0 .. Partitions(x) : p[k] \in Nat /\ p[k] >= start
  /\ Pass(x, v, n, start) = p[Partitions(x)]

LEMMA PassSteps ==
  ASSUME NEW x \in Tables, NEW v \in Units, NEW n \in Nat, NEW start \in Nat
  PROVE  \E p : Walk(p, x, v, n, start)
<1> DEFINE first == Firsts(x, v, n)
           last  == Lasts(x, n)
           N     == Partitions(x)
           Skip(k, b) == IF b = Offset(x, k) THEN b + v.sector_offset ELSE b
           Step(k, b) ==
             IF first[k] <= Skip(k, b) /\ Skip(k, b) <= last[k]
             THEN IF n < 4 THEN last[k] + 1 ELSE last[k] + v.sector_offset
             ELSE Skip(k, b)
           pass == CHOOSE p : p = [i \in 0 .. N |->
                     IF i = 0 THEN start
                     ELSE LET k == i - 1
                              b == p[k]
                              s == IF b = Offset(x, k) THEN b + v.sector_offset ELSE b
                          IN  IF first[k] <= s /\ s <= last[k]
                              THEN IF n < 4 THEN last[k] + 1 ELSE last[k] + v.sector_offset
                              ELSE s]
           After == {b \in Nat : b >= start}
<1>1. N \in Nat /\ Numbers(x) = 0 .. N - 1
  BY TablesCount
<1>2. v.sector_offset \in Nat /\ v.sector_offset > 0
  BY GeometryNumbers DEF Units
<1>3. ASSUME NEW k \in 0 .. N - 1, NEW b \in After
      PROVE  Step(k, b) \in After
  <2>1. first[k] \in Nat /\ last[k] \in Int /\ Offset(x, k) \in Nat
    BY <1>1, BoundsAreTyped, AccessIsTyped
  <2> HIDE DEF first, last
  <2>2. Skip(k, b) \in Nat /\ Skip(k, b) >= start
    BY <1>2, <1>3
  <2> HIDE DEF Skip
  <2> QED BY <1>2, <2>1, <2>2
<1>4. Pass(x, v, n, start) = pass[N]
  BY DEF Pass
<1> DEFINE G == [k \in 0 .. N - 1 |-> [b \in After |-> Step(k, b)]]
<1>5. G \in Steps(N, After)
  BY <1>3 DEF Steps
<1>6. start \in After
  OBVIOUS
<1>7. PICK f \in [0 .. N -> After] :
        /\ f[0] = start
        /\ \A k \in 0 .. N - 1 : f[k + 1] = G[k][f[k]]
  <2> HIDE DEF G, After, N
  <2>1. Iterations(N, After, start, G) # {}
    BY <1>1, <1>5, <1>6, RecursionExists
  <2> QED BY <2>1 DEF Iterations
<1>8. ASSUME NEW k \in 0 .. N - 1 PROVE f[k + 1] = Step(k, f[k])
  <2> HIDE DEF Step, After, N
  <2>1. f[k] \in After
    <3>1. k \in 0 .. N
      BY <1>1
    <3> QED BY <1>7, <3>1
  <2> QED BY <1>7, <2>1
<1> DEFINE g == [i \in 0 .. N |-> IF i = 0 THEN start ELSE Step(i - 1, f[i - 1])]
<1>9. f = g
  <2>1. ASSUME NEW i \in 0 .. N PROVE f[i] = g[i]
    <3>1. CASE i = 0
      BY <1>7, <3>1
    <3>2. CASE i # 0
      <4>1. i - 1 \in 0 .. N - 1 /\ (i - 1) + 1 = i
        BY <1>1, <3>2
      <4>2. f[i] = Step(i - 1, f[i - 1])
        BY <1>8, <4>1
      <4> HIDE DEF Step
      <4> QED BY <3>2, <4>2
    <3> QED BY <3>1, <3>2
  <2> HIDE DEF Step, N, After
  <2> QED BY <1>7, <2>1
<1>10. f = [i \in 0 .. N |->
             IF i = 0 THEN start
             ELSE LET k == i - 1
                      b == f[k]
                      s == IF b = Offset(x, k) THEN b + v.sector_offset ELSE b
                  IN  IF first[k] <= s /\ s <= last[k]
                      THEN IF n < 4 THEN last[k] + 1 ELSE last[k] + v.sector_offset
                      ELSE s]
  <2> HIDE DEF first, last, N, After
  <2> QED BY <1>9, Zenon
<1>11. pass = [i \in 0 .. N |->
             IF i = 0 THEN start
             ELSE LET k == i - 1
                      b == pass[k]
                      s == IF b = Offset(x, k) THEN b + v.sector_offset ELSE b
                  IN  IF first[k] <= s /\ s <= last[k]
                      THEN IF n < 4 THEN last[k] + 1 ELSE last[k] + v.sector_offset
                      ELSE s]
  <2> HIDE DEF first, last, N, After
  <2> QED BY <1>10, Zenon
<1>12. /\ pass[0] = start
       /\ \A k \in 0 .. N - 1 : pass[k + 1] = Step(k, pass[k])
  <2> HIDE DEF pass, first, last, N
  <2>1. pass[0] = start
    BY <1>1, <1>11
  <2>2. ASSUME NEW k \in 0 .. N - 1 PROVE pass[k + 1] = Step(k, pass[k])
    <3>1. k + 1 \in 0 .. N /\ k + 1 # 0 /\ (k + 1) - 1 = k
      BY <1>1
    <3> QED BY <1>11, <3>1
  <2> QED BY <2>1, <2>2
<1> HIDE DEF pass, Step, N
<1> DEFINE S == {k \in 0 .. N : pass[k] \in After}
<1>13. 0 \in S
  BY <1>1, <1>12
<1>14. ASSUME NEW k \in 0 .. N - 1, k \in S PROVE k + 1 \in S
  <2>1. pass[k] \in After
    BY <1>14
  <2>2. Step(k, pass[k]) \in After
    BY <1>3, <2>1
  <2> HIDE DEF After
  <2> QED BY <1>1, <1>12, <2>2
<1>15. \A k \in 0 .. N : k \in S
  <2> HIDE DEF S
  <2>1. \A k \in 0 .. N - 1 : k \in S => k + 1 \in S
    BY <1>14
  <2> QED BY <1>1, <1>13, <2>1, Induction
<1>16. \A k \in 0 .. N - 1 : pass[k + 1] = Moved(x, v, n, k, pass[k])
  <2> SUFFICES ASSUME NEW k \in 0 .. N - 1 PROVE pass[k + 1] = Moved(x, v, n, k, pass[k])
    OBVIOUS
  <2>1. pass[k + 1] = Step(k, pass[k])
    BY <1>12
  <2>2. Step(k, pass[k]) = Moved(x, v, n, k, pass[k])
    BY DEF Step, Moved
  <2> QED BY <2>1, <2>2
<1>17. \A k \in 0 .. N : pass[k] \in Nat /\ pass[k] >= start
  BY <1>15
<1> QED
  <2>1. Walk(pass, x, v, n, start)
    <3> HIDE DEF pass
    <3> QED BY <1>4, <1>12, <1>16, <1>17 DEF N, Walk
  <2> QED BY <2>1

(* The search for free sectors never goes back.                             *)
LEMMA PassGoesOn ==
  ASSUME NEW x \in Tables, NEW v \in Units, NEW n \in Nat, NEW start \in Nat
  PROVE  Pass(x, v, n, start) \in Nat /\ Pass(x, v, n, start) >= start
<1>1. Partitions(x) \in 0 .. Partitions(x)
  BY TablesCount
<1>2. PICK p : Walk(p, x, v, n, start)
  BY PassSteps
<1> QED BY <1>1, <1>2 DEF Walk

(* The rounds of the search.                                                *)
LEMMA SearchRounds ==
  ASSUME NEW x \in Tables, NEW v \in Units, NEW n \in Nat,
         LimitOf(x, n) \in Int
  PROVE  \E r :
           /\ r[0] = Base(x, v, n)
           /\ \A k \in 0 .. Total - 1 :
                r[k + 1] = IF r[k] > LimitOf(x, n) THEN r[k] ELSE Pass(x, v, n, r[k])
           /\ \A k \in 0 .. Total : r[k] \in Nat /\ r[k] >= Base(x, v, n)
           /\ FirstFree(x, v, n) = r[Total]
<1> DEFINE limit == LimitOf(x, n)
           base  == Base(x, v, n)
           Step(s) == IF s > limit THEN s ELSE Pass(x, v, n, s)
           round == CHOOSE r : r = [k \in 0 .. Total |->
                      IF k = 0 THEN Base(x, v, n)
                      ELSE LET s == r[k - 1]
                           IN  IF s > limit THEN s ELSE Pass(x, v, n, s)]
           After == {s \in Nat : s >= base}
           G     == [k \in 0 .. Total - 1 |-> [s \in After |-> Step(s)]]
<1>1. Total \in Nat
  BY TotalIsPositive
<1>2. base \in Nat
  BY GeometryNumbers DEF Base, Units, Tables
<1>3. ASSUME NEW s \in After PROVE Step(s) \in After
  <2>1. Pass(x, v, n, s) \in Nat /\ Pass(x, v, n, s) >= s
    BY PassGoesOn
  <2> HIDE DEF base, limit
  <2> QED BY <1>2, <2>1
<1>4. FirstFree(x, v, n) = round[Total]
  BY DEF FirstFree
<1>5. G \in Steps(Total, After)
  BY <1>3 DEF Steps
<1>6. base \in After
  BY <1>2
<1>7. PICK f \in [0 .. Total -> After] :
        /\ f[0] = base
        /\ \A k \in 0 .. Total - 1 : f[k + 1] = G[k][f[k]]
  <2> HIDE DEF G, After, base
  <2>1. Iterations(Total, After, base, G) # {}
    BY <1>1, <1>5, <1>6, RecursionExists
  <2> QED BY <2>1 DEF Iterations
<1>8. ASSUME NEW k \in 0 .. Total - 1 PROVE f[k + 1] = Step(f[k])
  <2> HIDE DEF Step, After
  <2>1. f[k] \in After
    <3>1. k \in 0 .. Total
      BY <1>1
    <3> QED BY <1>7, <3>1
  <2> QED BY <1>7, <2>1
<1> DEFINE g == [k \in 0 .. Total |-> IF k = 0 THEN base ELSE Step(f[k - 1])]
<1>9. f = g
  <2>1. ASSUME NEW k \in 0 .. Total PROVE f[k] = g[k]
    <3>1. CASE k = 0
      BY <1>7, <3>1
    <3>2. CASE k # 0
      <4>1. k - 1 \in 0 .. Total - 1 /\ (k - 1) + 1 = k
        BY <1>1, <3>2
      <4>2. f[k] = Step(f[k - 1])
        BY <1>8, <4>1
      <4> HIDE DEF Step
      <4> QED BY <3>2, <4>2
    <3> QED BY <3>1, <3>2
  <2> HIDE DEF Step, After
  <2> QED BY <1>7, <2>1
<1>10. f = [k \in 0 .. Total |->
             IF k = 0 THEN Base(x, v, n)
             ELSE LET s == f[k - 1]
                  IN  IF s > limit THEN s ELSE Pass(x, v, n, s)]
  <2> HIDE DEF limit, After
  <2> QED BY <1>9, Zenon
<1>11. round = [k \in 0 .. Total |->
             IF k = 0 THEN Base(x, v, n)
             ELSE LET s == round[k - 1]
                  IN  IF s > limit THEN s ELSE Pass(x, v, n, s)]
  <2> HIDE DEF limit, After
  <2> QED BY <1>10, Zenon
<1>12. /\ round[0] = base
       /\ \A k \in 0 .. Total - 1 : round[k + 1] = Step(round[k])
  <2> HIDE DEF round, limit
  <2>1. round[0] = base
    BY <1>1, <1>11
  <2>2. ASSUME NEW k \in 0 .. Total - 1 PROVE round[k + 1] = Step(round[k])
    <3>1. k + 1 \in 0 .. Total /\ k + 1 # 0 /\ (k + 1) - 1 = k
      BY <1>1
    <3> QED BY <1>11, <3>1
  <2> QED BY <2>1, <2>2
<1> HIDE DEF round, Step, base
<1> DEFINE S == {k \in 0 .. Total : round[k] \in After}
<1>13. 0 \in S
  BY <1>1, <1>6, <1>12
<1>14. ASSUME NEW k \in 0 .. Total - 1, k \in S PROVE k + 1 \in S
  <2>1. round[k] \in After
    BY <1>14
  <2>2. Step(round[k]) \in After
    BY <1>3, <2>1
  <2> HIDE DEF After
  <2> QED BY <1>1, <1>12, <2>2
<1>15. \A k \in 0 .. Total : k \in S
  <2> HIDE DEF S
  <2>1. \A k \in 0 .. Total - 1 : k \in S => k + 1 \in S
    BY <1>14
  <2> QED BY <1>1, <1>13, <2>1, Induction
<1>16. \A k \in 0 .. Total - 1 :
         round[k + 1] = IF round[k] > limit THEN round[k] ELSE Pass(x, v, n, round[k])
  BY <1>12 DEF Step
<1>17. \A k \in 0 .. Total : round[k] \in Nat /\ round[k] >= Base(x, v, n)
  BY <1>15 DEF base
<1> QED BY <1>4, <1>12, <1>16, <1>17 DEF base

(* The first sector offered is not in front of where the search begins.      *)
LEMMA SearchGoesOn ==
  ASSUME NEW x \in Tables, NEW v \in Units, NEW n \in Nat,
         LimitOf(x, n) \in Int
  PROVE  /\ Base(x, v, n) \in Nat
         /\ FirstFree(x, v, n) \in Nat
         /\ FirstFree(x, v, n) >= Base(x, v, n)
<1>1. 0 \in 0 .. Total /\ Total \in 0 .. Total
  BY TotalIsPositive
<1> QED BY <1>1, SearchRounds

-----------------------------------------------------------------------------
(* The answers to the two prompts.                                          *)
LEMMA CylinderBounds ==
  ASSUME NEW n \in Nat, NEW v \in Int
  PROVE  /\ v <= n \div CylinderSize + 1 => (v - 1) * CylinderSize <= n
         /\ v >= n \div CylinderSize + 1 => v * CylinderSize - 1 >= n
<1> DEFINE C == CylinderSize
           q == n \div C
<1>1. C \in Nat /\ C > 0
  BY GeometryNumbers
<1>2. q \in Nat /\ q * C <= n /\ n < (q + 1) * C
  BY <1>1
<1> HIDE DEF C, q
<1>3. v <= q + 1 => (v - 1) * C <= q * C
  BY <1>1, <1>2
<1>4. v >= q + 1 => v * C >= (q + 1) * C
  BY <1>1, <1>2
<1>5. (v - 1) * C \in Int /\ v * C \in Int /\ q * C \in Int /\ (q + 1) * C \in Int
  BY <1>1, <1>2
<1>6. v <= q + 1 => (v - 1) * C <= n
  BY <1>2, <1>3, <1>5
<1>7. v >= q + 1 => v * C - 1 >= n
  BY <1>2, <1>4, <1>5
<1> QED BY <1>6, <1>7 DEF C, q

(* The sector taken as the first one lies from where the search begins to    *)
(* the limit.                                                                *)
LEMMA StartsAreInRange ==
  ASSUME NEW x \in Tables, NEW v \in Units, NEW n \in Nat, LimitOf(x, n) \in Nat,
         NEW typed, NEW s \in Starts(x, v, n, typed)
  PROVE  s \in Nat /\ Base(x, v, n) <= s /\ s <= LimitOf(x, n) /\ Base(x, v, n) \in Nat
<1> DEFINE low   == LowestStart(x, v, n)
           limit == LimitOf(x, n)
<1>1. Base(x, v, n) \in Nat /\ low \in Nat /\ Base(x, v, n) <= low
  <2>1. limit \in Int
    OBVIOUS
  <2>2. /\ Base(x, v, n) \in Nat /\ FirstFree(x, v, n) \in Nat
        /\ FirstFree(x, v, n) >= Base(x, v, n)
    BY <2>1, SearchGoesOn
  <2> QED BY <2>2 DEF LowestStart
<1>2. /\ s <= limit
      /\ \E w \in CRound(v, low) .. CRound(v, limit) :
           s = IF v.unit_flag THEN Later((w - 1) * CylinderSize, low) ELSE w
  BY DEF Starts, Asked, Answered
<1>3. PICK w \in CRound(v, low) .. CRound(v, limit) :
        s = IF v.unit_flag THEN Later((w - 1) * CylinderSize, low) ELSE w
  BY <1>2
<1> HIDE DEF low, limit
<1>4. CASE v.unit_flag
  <2>1. s = Later((w - 1) * CylinderSize, low)
    BY <1>3, <1>4
  <2>2. (w - 1) * CylinderSize \in Int
    BY GeometryNumbers
  <2>3. s \in Int /\ s >= low
    BY <1>1, <2>1, <2>2 DEF Later
  <2> QED BY <1>1, <1>2, <2>3 DEF limit
<1>5. CASE ~ v.unit_flag
  BY <1>1, <1>2, <1>3, <1>5 DEF CRound, limit
<1> QED BY <1>4, <1>5

(* The last sector that may be answered is not in front of the first, nor    *)
(* behind the limit.                                                         *)
LEMMA StopLimitIsBehind ==
  ASSUME NEW x \in Tables, NEW v \in Units, NEW n \in Nat, LimitOf(x, n) \in Nat,
         NEW start \in Nat, start <= LimitOf(x, n)
  PROVE  LET limit == StopLimit(x, v, n, start)
         IN  limit \in Nat /\ start <= limit /\ limit <= LimitOf(x, n)
<1> DEFINE first  == Firsts(x, v, n)
           ends   == {LimitOf(x, n)}
                     \cup {Offset(x, i) - 1 : i \in {j \in Numbers(x) : start < Offset(x, j)}}
                     \cup {first[i] - 1 : i \in {j \in Numbers(x) : start < first[j]}}
<1>1. ASSUME NEW b \in ends PROVE b \in Nat /\ start <= b
  <2>1. CASE b = LimitOf(x, n)
    BY <2>1
  <2>2. CASE \E i \in Numbers(x) : start < Offset(x, i) /\ b = Offset(x, i) - 1
    BY <2>2, AccessIsTyped
  <2>3. CASE \E i \in Numbers(x) : start < first[i] /\ b = first[i] - 1
    <3>1. PICK i \in Numbers(x) : start < first[i] /\ b = first[i] - 1
      BY <2>3
    <3>2. first[i] \in Nat
      BY BoundsAreTyped
    <3> QED BY <3>1, <3>2
  <2> QED BY <1>1, <2>1, <2>2, <2>3
<1>2. ends \in SUBSET Nat /\ ends # {} /\ LimitOf(x, n) \in ends
  BY <1>1
<1>3. StopLimit(x, v, n, start) = Min(ends)
  BY DEF StopLimit
<1> HIDE DEF ends
<1>4. Min(ends) \in ends /\ Min(ends) <= LimitOf(x, n)
  BY <1>2, LeastElement
<1> QED BY <1>1, <1>3, <1>4

(* The sector taken as the last one is not in front of the first, nor behind *)
(* the limit.                                                                *)
LEMMA StopsAreInRange ==
  ASSUME NEW x \in Tables, NEW v \in Units, NEW n \in Nat, LimitOf(x, n) \in Nat,
         NEW start \in Nat, start <= LimitOf(x, n),
         NEW typed, NEW stop \in Stops(x, v, n, start, typed)
  PROVE  /\ stop \in Nat /\ start <= stop /\ stop <= LimitOf(x, n)
         /\ stop <= StopLimit(x, v, n, start)
<1> DEFINE limit == StopLimit(x, v, n, start)
           End(w) == IF ~ v.unit_flag THEN w
                     ELSE IF w * CylinderSize - 1 > limit THEN limit
                     ELSE w * CylinderSize - 1
<1>1. limit \in Nat /\ start <= limit /\ limit <= LimitOf(x, n)
  BY StopLimitIsBehind
<1>2. stop = start \/ \E w \in CRound(v, start) .. CRound(v, limit) : stop = End(w)
  BY DEF Stops
<1> HIDE DEF limit
<1>3. stop = start => stop \in Nat /\ start <= stop /\ stop <= limit
  BY <1>1
<1>4. ASSUME \E w \in CRound(v, start) .. CRound(v, limit) : stop = End(w)
      PROVE  stop \in Nat /\ start <= stop /\ stop <= limit
  <2>1. PICK w \in CRound(v, start) .. CRound(v, limit) : stop = End(w)
    BY <1>4
  <2>2. CASE v.unit_flag
    <3>1. w \in Int /\ w >= start \div CylinderSize + 1
      BY <1>1, <2>1, <2>2, GeometryNumbers DEF CRound
    <3>2. w * CylinderSize - 1 >= start /\ w * CylinderSize \in Int
      BY <3>1, CylinderBounds, GeometryNumbers
    <3> QED BY <1>1, <2>1, <2>2, <3>2
  <2>3. CASE ~ v.unit_flag
    BY <1>1, <2>1, <2>3 DEF CRound
  <2> QED BY <2>2, <2>3
<1>5. stop \in Nat /\ start <= stop /\ stop <= limit
  BY <1>2, <1>3, <1>4
<1>6. stop <= LimitOf(x, n)
  BY <1>1, <1>5
<1> QED BY <1>5, <1>6 DEF limit

-----------------------------------------------------------------------------
(* What the chain of logical tables is like.                                *)
PartOf(l) == l.slots[l.part]

(* No link is before the one that counts, and no partition beside it.       *)
Clean(l) ==
  /\ \A j \in 0..3 : j < l.ext => l.slots[j].type # EXTENDED
  /\ \A j \in 0..3 : IsData(l.slots[j]) => j = l.part

SoundTable ==
  {l \in Table : /\ l.part # l.ext
                 /\ IsData(PartOf(l)) => l.offset <= PartOf(l).begin
                 /\ Clean(l)}

(* Each table leads to the next one, counted from the extended partition.   *)
Chained(s, b) ==
  /\ s \in Seq(SoundTable)
  /\ s # << >> => s[1].offset = b
  /\ \A k \in 1 .. Len(s) - 1 :
       /\ LastLink(s[k]).type = EXTENDED
       /\ b + LastLink(s[k]).start = s[k + 1].offset

Closed(s) == s # << >> => LastLink(s[Len(s)]).type = Empty

(* The fields of a sound table.                                              *)
LEMMA TableFields ==
  ASSUME NEW l \in SoundTable
  PROVE  /\ l \in Table /\ l \in AnyTable
         /\ l.slots \in [0..3 -> Entry]
         /\ l.part \in 0..3 /\ l.ext \in 0..3 /\ l.part # l.ext
         /\ l.offset \in Nat /\ l.offset >= 1 /\ l.offset <= Total - 1
         /\ PartOf(l) \in Entry /\ LastLink(l) \in Entry
         /\ IsData(PartOf(l)) => l.offset <= PartOf(l).begin
         /\ Clean(l)
<1>1. l \in Table
  BY DEF SoundTable
<1>2. /\ l.slots \in [0..3 -> Entry]
      /\ l.part \in 0..3 /\ l.ext \in 0..3
      /\ l.offset \in 1 .. Total - 1
  BY <1>1 DEF Table
<1>3. l.offset \in Nat /\ l.offset >= 1 /\ l.offset <= Total - 1
  BY <1>2, TotalIsPositive
<1>4. l \in AnyTable
  BY <1>1, <1>3 DEF Table, AnyTable
<1>5. PartOf(l) \in Entry /\ LastLink(l) \in Entry
  BY <1>2 DEF PartOf, LastLink
<1> QED BY <1>1, <1>2, <1>3, <1>4, <1>5 DEF SoundTable

(* FirstOf takes a slot of the set, or the default where there is none.      *)
LEMMA SmallestSlot ==
  ASSUME NEW S \in SUBSET (0..3), NEW default \in 0..3
  PROVE  /\ FirstOf(S, default) \in 0..3
         /\ S # {} => FirstOf(S, default) \in S
         /\ S = {} => FirstOf(S, default) = default
<1>1. S # {} => Min(S) \in S
  <2>1. S \in SUBSET Nat
    OBVIOUS
  <2> QED BY <2>1, LeastElement
<1> QED BY <1>1 DEF FirstOf

(* In a table with one partition at most, read_extended finds two different *)
(* slots, and the one for the link has no partition.                        *)
OneEach(slots) ==
  \A j, k \in 0..3 : IsData(slots[j]) /\ IsData(slots[k]) => j = k

(* In such a table the slots for the partition and for the link differ.      *)
LEMMA SlotsAreFound ==
  ASSUME NEW slots \in [0..3 -> Entry], OneEach(slots)
  PROVE  /\ PartSlot(slots) \in 0..3
         /\ ExtSlot(slots) \in 0..3
         /\ PartSlot(slots) # ExtSlot(slots)
         /\ slots[ExtSlot(slots)].type \in {EXTENDED, Empty}
         /\ \A j \in 0..3 : j < ExtSlot(slots) => slots[j].type # EXTENDED
         /\ \A j \in 0..3 : IsData(slots[j]) => j = PartSlot(slots)
         /\ \A j \in 0..3 : slots[j].type = EXTENDED => slots[ExtSlot(slots)].type = EXTENDED
<1> DEFINE links == {k \in 0..3 : slots[k].type = EXTENDED}
           data  == {k \in 0..3 : IsData(slots[k])}
           p     == PartSlot(slots)
           x     == ExtSlot(slots)
<1>1. links \in SUBSET (0..3) /\ data \in SUBSET (0..3)
  OBVIOUS
<1>2. \A j, k \in data : j = k
  BY DEF OneEach
<1>3. \A k \in 0..3 : /\ k \in links => k \notin data
                      /\ k \notin data => slots[k].type \in {EXTENDED, Empty}
  BY DEF IsData
<1>4. p = FirstOf(data, IF FirstOf(links, 3) = 0 THEN 1 ELSE 0)
  BY DEF PartSlot
<1>5. x = FirstOf(links, IF p = 0 THEN 1 ELSE 0)
  BY DEF ExtSlot
<1> HIDE DEF links, data, p, x
<1>6. /\ p \in 0..3
      /\ data # {} => p \in data
      /\ data = {} => p = IF FirstOf(links, 3) = 0 THEN 1 ELSE 0
  BY <1>1, <1>4, SmallestSlot
<1>7. /\ x \in 0..3
      /\ links # {} => x \in links
      /\ links = {} => x = IF p = 0 THEN 1 ELSE 0
  BY <1>1, <1>5, SmallestSlot
<1>8. links # {} => x = FirstOf(links, 3)
  BY <1>5 DEF FirstOf
<1>9. p # x
  BY <1>2, <1>3, <1>6, <1>7, <1>8
<1>10. x \notin data
  BY <1>2, <1>3, <1>6, <1>7, <1>9
<1>11. slots[x].type \in {EXTENDED, Empty}
  BY <1>3, <1>7, <1>10
<1>12. ASSUME NEW j \in 0..3, j < x PROVE slots[j].type # EXTENDED
  <2>1. links # {} => x = Min(links)
    BY <1>7, <1>8 DEF FirstOf
  <2>2. links \in SUBSET Nat
    BY <1>1
  <2>3. links # {} => \A k \in links : Min(links) <= k
    BY <2>2, LeastElement
  <2>4. j \notin links
    BY <1>1, <1>7, <1>12, <2>1, <2>3
  <2> QED BY <2>4 DEF links
<1>13. ASSUME NEW j \in 0..3, IsData(slots[j]) PROVE j = p
  <2>1. j \in data
    BY <1>13 DEF data
  <2> QED BY <1>2, <1>6, <2>1
<1>14. ASSUME NEW j \in 0..3, slots[j].type = EXTENDED PROVE slots[x].type = EXTENDED
  <2>1. j \in links
    BY <1>14 DEF links
  <2>2. x \in links
    BY <1>7, <2>1
  <2> QED BY <2>2 DEF links
<1> QED BY <1>6, <1>7, <1>9, <1>11, <1>12, <1>13, <1>14 DEF p, x

(* What the disks of a session are like: a table has one partition at most, *)
(* which is not before it, and an extended partition ends on the disk.      *)
Tidy(d) ==
  /\ d \in [0 .. Total - 1 -> [slots : [0..3 -> Entry], flag : BOOLEAN]]
  /\ \A a \in 1 .. Total - 1 :
       /\ OneEach(d[a].slots)
       /\ \A k \in 0..3 : IsData(d[a].slots[k]) => a <= d[a].slots[k].begin

TidyDisks ==
  \A d \in Disks :
    /\ \A a \in 1 .. Total - 1 :
         /\ OneEach(d[a].slots)
         /\ \A k \in 0..3 : IsData(d[a].slots[k]) => a <= d[a].slots[k].begin
    /\ \A k \in 0..3 :
         d[0].slots[k].type = EXTENDED
         => d[0].slots[k].start + d[0].slots[k].size <= Total

\* One of these disks, or one that is written on.
LEMMA DisksAreTidy ==
  ASSUME TidyDisks, NEW d \in Disks
  PROVE  Tidy(d)
BY DisksAssumption DEF Tidy, TidyDisks

(* read_extended makes a sound table of a sector, marked if its flag is      *)
(* wrong.                                                                    *)
LEMMA ReadTableIsSound ==
  ASSUME NEW d, Tidy(d), NEW a \in 1 .. Total - 1
  PROVE  LET l == Logical(d[a], a)
         IN  /\ l \in SoundTable
             /\ l.offset = a
             /\ l.slots = d[a].slots
             /\ LastLink(l).type \in {EXTENDED, Empty}
             /\ l.changed = ~ d[a].flag
<1> DEFINE l == Logical(d[a], a)
           slots == d[a].slots
<1>1. d[a] \in [slots : [0..3 -> Entry], flag : BOOLEAN]
  <2>1. d \in [0 .. Total - 1 -> [slots : [0..3 -> Entry], flag : BOOLEAN]]
    BY DEF Tidy
  <2>2. a \in 0 .. Total - 1
    BY TotalIsPositive
  <2> QED BY <2>1, <2>2
<1>2. slots \in [0..3 -> Entry] /\ d[a].flag \in BOOLEAN
  BY <1>1
<1>3. /\ OneEach(slots)
      /\ \A k \in 0..3 : IsData(slots[k]) => a <= slots[k].begin
  BY DEF Tidy
<1>4. /\ l.slots = slots /\ l.flag = d[a].flag /\ l.offset = a
      /\ l.part = PartSlot(slots) /\ l.ext = ExtSlot(slots)
      /\ l.changed = ~ d[a].flag
  BY DEF Logical
<1>5. /\ PartSlot(slots) \in 0..3
      /\ ExtSlot(slots) \in 0..3
      /\ PartSlot(slots) # ExtSlot(slots)
      /\ slots[ExtSlot(slots)].type \in {EXTENDED, Empty}
      /\ \A j \in 0..3 : j < ExtSlot(slots) => slots[j].type # EXTENDED
      /\ \A j \in 0..3 : IsData(slots[j]) => j = PartSlot(slots)
  BY <1>2, <1>3, SlotsAreFound
<1>6. l \in Table
  BY <1>2, <1>5 DEF Logical, Table
<1> HIDE DEF l, slots
<1>7. l \in SoundTable
  BY <1>3, <1>4, <1>5, <1>6 DEF SoundTable, PartOf, Clean
<1>8. LastLink(l).type \in {EXTENDED, Empty}
  BY <1>4, <1>5 DEF LastLink
<1> QED BY <1>4, <1>7, <1>8 DEF l, slots

(* Last, by the length.                                                      *)
LEMMA LastIsLast ==
  ASSUME NEW s
  PROVE  Last(s) = s[Len(s)]
BY DEF Last

(* A table at the sector the last link leads to makes the chain longer by    *)
(* one.                                                                      *)
LEMMA AppendKeepsChain ==
  ASSUME NEW b, NEW s, Chained(s, b), NEW l \in SoundTable,
         s = << >> => l.offset = b,
         s # << >> => /\ LastLink(s[Len(s)]).type = EXTENDED
                      /\ b + LastLink(s[Len(s)]).start = l.offset
  PROVE  /\ Chained(Append(s, l), b)
         /\ Len(Append(s, l)) = Len(s) + 1
         /\ \A k \in 1 .. Len(s) : Append(s, l)[k] = s[k]
         /\ Append(s, l)[Len(s) + 1] = l
<1> DEFINE r == Append(s, l)
           n == Len(s)
<1>1. s \in Seq(SoundTable) /\ n \in Nat
  BY LenProperties DEF Chained
<1>2. /\ r \in Seq(SoundTable)
      /\ Len(r) = n + 1
      /\ \A k \in 1 .. n : r[k] = s[k]
      /\ r[n + 1] = l
  BY <1>1, AppendProperties
<1> HIDE DEF r
<1>3. r[1].offset = b
  <2>1. CASE n = 0
    BY <1>1, <1>2, <2>1, EmptySeq
  <2>2. CASE n # 0
    <3>1. s # << >> /\ 1 \in 1 .. n
      BY <1>1, <2>2, EmptySeq
    <3> QED BY <1>2, <3>1 DEF Chained
  <2> QED BY <2>1, <2>2
<1>4. ASSUME NEW k \in 1 .. Len(r) - 1
      PROVE  LastLink(r[k]).type = EXTENDED /\ b + LastLink(r[k]).start = r[k + 1].offset
  <2>1. k \in 1 .. n /\ r[k] = s[k]
    BY <1>1, <1>2
  <2>2. CASE k = n
    <3>1. s # << >>
      BY <1>1, <2>1, EmptySeq
    <3> QED BY <1>2, <2>1, <2>2, <3>1
  <2>3. CASE k # n
    <3>1. k \in 1 .. n - 1 /\ k + 1 \in 1 .. n
      BY <1>1, <2>1, <2>3
    <3> QED BY <1>2, <2>1, <3>1 DEF Chained
  <2> QED BY <2>2, <2>3
<1> QED BY <1>2, <1>3, <1>4 DEF Chained, r

(* A chain whose tables are those of the disk, just as they were read.      *)
FromDisk(d, s) == \A k \in 1 .. Len(s) : s[k] = Logical(d[s[k].offset], s[k].offset)

\* Where a chain that is s so far goes on.
Successor(extended, s) ==
  IF s = << >> THEN [type |-> extended.type, at |-> extended.start]
  ELSE [type |-> LastLink(Last(s)).type,
        at   |-> extended.start + LastLink(Last(s)).start]

Ended(d, extended, s) ==
  ~ (Successor(extended, s).type = EXTENDED /\ Successor(extended, s).at \in DOMAIN d)

(* The same for a table read from the disk.                                  *)
LEMMA LongerChain ==
  ASSUME NEW d, Tidy(d), NEW extended \in Entry, extended.start # 0,
         NEW s, Chained(s, extended.start), FromDisk(d, s), ~ Ended(d, extended, s)
  PROVE  LET a == Successor(extended, s).at
             r == Append(s, Logical(d[a], a))
         IN  /\ Chained(r, extended.start)
             /\ FromDisk(d, r)
             /\ Len(r) = Len(s) + 1
<1> DEFINE a == Successor(extended, s).at
           l == Logical(d[a], a)
           r == Append(s, l)
           b == extended.start
<1>1. d \in [0 .. Total - 1 -> [slots : [0..3 -> Entry], flag : BOOLEAN]]
  BY DEF Tidy
<1>2. a \in 0 .. Total - 1
  BY <1>1 DEF Ended
<1>3. s \in Seq(SoundTable) /\ Len(s) \in Nat
  BY LenProperties DEF Chained
<1>4. s # << >> => /\ LastLink(s[Len(s)]) \in Entry
                   /\ LastLink(s[Len(s)]).type = EXTENDED
                   /\ a = b + LastLink(s[Len(s)]).start
  <2> SUFFICES ASSUME s # << >>
               PROVE  /\ LastLink(s[Len(s)]) \in Entry
                      /\ LastLink(s[Len(s)]).type = EXTENDED
                      /\ a = b + LastLink(s[Len(s)]).start
    OBVIOUS
  <2>1. Len(s) \in 1 .. Len(s)
    BY <1>3, EmptySeq
  <2>2. s[Len(s)] \in SoundTable
    BY <1>3, <2>1, LenProperties
  <2>3. Last(s) = s[Len(s)]
    BY LastIsLast
  <2> QED BY <2>2, <2>3, TableFields DEF Ended, Successor
<1>5. s = << >> => a = b
  BY DEF Successor
<1>6. b \in Nat /\ b >= 1
  BY EntryFields
<1>7. a \in 1 .. Total - 1
  BY <1>2, <1>4, <1>5, <1>6, TotalIsPositive, EntryFields
<1>8. l \in SoundTable /\ l.offset = a
  BY <1>7, ReadTableIsSound
<1> HIDE DEF a
<1>9. l = Logical(d[l.offset], l.offset)
  BY <1>8
<1> HIDE DEF l
<1>10. /\ Chained(r, b)
       /\ Len(r) = Len(s) + 1
       /\ \A k \in 1 .. Len(s) : r[k] = s[k]
       /\ r[Len(s) + 1] = l
  BY <1>4, <1>5, <1>8, AppendKeepsChain
<1> HIDE DEF r
<1>11. ASSUME NEW k \in 1 .. Len(r) PROVE r[k] = Logical(d[r[k].offset], r[k].offset)
  <2>1. CASE k = Len(s) + 1
    BY <1>9, <1>10, <2>1
  <2>2. CASE k # Len(s) + 1
    <3>1. k \in 1 .. Len(s)
      BY <1>3, <1>10, <2>2
    <3> QED BY <1>10, <3>1 DEF FromDisk
  <2> QED BY <2>1, <2>2
<1> QED BY <1>10, <1>11 DEF FromDisk, a, l, r, b

(* The chain that is read ends where its last link does not lead on, or     *)
(* when there are as many tables as the arrays hold.                        *)
LEMMA ChainIsRead ==
  ASSUME NEW d, Tidy(d), NEW extended \in Entry, extended.start # 0
  PROVE  LET s == Chain(d, extended)
         IN  /\ Chained(s, extended.start)
             /\ FromDisk(d, s)
             /\ Len(s) <= MaxLogical
             /\ Len(s) = MaxLogical \/ Ended(d, extended, s)
<1> DEFINE N == MaxLogical
           Link(s) == IF s = << >> THEN extended ELSE LastLink(Last(s))
           At(s)   == IF s = << >> THEN extended.start
                      ELSE extended.start + Link(s).start
           Step(k, s) == IF Len(s) = k /\ Link(s).type = EXTENDED /\ At(s) \in DOMAIN d
                         THEN Append(s, Logical(d[At(s)], At(s)))
                         ELSE s
           chain == CHOOSE c : c = [n \in 0 .. N |->
                      IF n = 0 THEN << >>
                      ELSE LET s == c[n - 1]
                           IN  IF Len(s) = n - 1 /\ Link(s).type = EXTENDED
                                  /\ At(s) \in DOMAIN d
                               THEN Append(s, Logical(d[At(s)], At(s)))
                               ELSE s]
           V == {s \in Seq(SoundTable) : Chained(s, extended.start) /\ FromDisk(d, s)}
           G == [k \in 0 .. N - 1 |-> [s \in V |-> Step(k, s)]]
<1>1. N \in Nat
  BY GeometryNumbers
<1>2. ASSUME NEW s
      PROVE  Ended(d, extended, s)
             <=> ~ (Link(s).type = EXTENDED /\ At(s) \in DOMAIN d)
  BY DEF Ended, Successor
<1>3. ASSUME NEW s, ~ Ended(d, extended, s)
      PROVE  Successor(extended, s).at = At(s)
  BY DEF Successor
<1>4. ASSUME NEW k \in 0 .. N - 1, NEW s \in V
      PROVE  /\ Step(k, s) \in V
             /\ Len(s) = k /\ ~ Ended(d, extended, s) => Len(Step(k, s)) = k + 1
             /\ ~ (Len(s) = k /\ ~ Ended(d, extended, s)) => Step(k, s) = s
  <2>1. CASE Len(s) = k /\ ~ Ended(d, extended, s)
    <3> DEFINE a == Successor(extended, s).at
               r == Append(s, Logical(d[a], a))
    <3>1. Chained(r, extended.start) /\ FromDisk(d, r) /\ Len(r) = Len(s) + 1
      BY <1>4, <2>1, LongerChain
    <3>2. a = At(s)
      BY <1>3, <2>1
    <3>3. Step(k, s) = Append(s, Logical(d[At(s)], At(s)))
      BY <1>2, <2>1
    <3> HIDE DEF a, Step, At
    <3>4. Step(k, s) = r
      BY <3>2, <3>3
    <3> HIDE DEF r
    <3>5. r \in V
      BY <3>1 DEF Chained
    <3> HIDE DEF V
    <3> QED BY <2>1, <3>1, <3>4, <3>5
  <2>2. CASE ~ (Len(s) = k /\ ~ Ended(d, extended, s))
    <3>1. Step(k, s) = s
      BY <1>2, <2>2
    <3> HIDE DEF Step, V
    <3> QED BY <1>4, <2>2, <3>1
  <2> QED BY <2>1, <2>2
<1>5. Chain(d, extended) = chain[N]
  BY DEF Chain
<1> HIDE DEF Link, At
<1>6. G \in Steps(N, V)
  <2> HIDE DEF Step, V
  <2> QED BY <1>4 DEF Steps
<1>7. << >> \in V
  <2>1. << >> \in Seq(SoundTable) /\ Len(<< >>) = 0
    OBVIOUS
  <2> QED BY <2>1 DEF Chained, FromDisk
<1>8. PICK f \in [0 .. N -> V] :
        /\ f[0] = << >>
        /\ \A k \in 0 .. N - 1 : f[k + 1] = G[k][f[k]]
  <2> HIDE DEF G, V, N
  <2>1. Iterations(N, V, << >>, G) # {}
    BY <1>1, <1>6, <1>7, RecursionExists
  <2> QED BY <2>1 DEF Iterations
<1>9. ASSUME NEW k \in 0 .. N - 1 PROVE f[k + 1] = Step(k, f[k])
  <2> HIDE DEF Step, V, N
  <2>1. f[k] \in V
    <3>1. k \in 0 .. N
      BY <1>1
    <3> QED BY <1>8, <3>1
  <2> QED BY <1>8, <2>1
<1> DEFINE g == [n \in 0 .. N |-> IF n = 0 THEN << >> ELSE Step(n - 1, f[n - 1])]
<1>10. f = g
  <2>1. ASSUME NEW n \in 0 .. N PROVE f[n] = g[n]
    <3>1. CASE n = 0
      BY <1>8, <3>1
    <3>2. CASE n # 0
      <4>1. n - 1 \in 0 .. N - 1 /\ (n - 1) + 1 = n
        BY <1>1, <3>2
      <4>2. f[n] = Step(n - 1, f[n - 1])
        BY <1>9, <4>1
      <4> HIDE DEF Step
      <4> QED BY <3>2, <4>2
    <3> QED BY <3>1, <3>2
  <2> HIDE DEF Step, V, N
  <2> QED BY <1>8, <2>1
<1>11. f = [n \in 0 .. N |->
             IF n = 0 THEN << >>
             ELSE LET s == f[n - 1]
                  IN  IF Len(s) = n - 1 /\ Link(s).type = EXTENDED
                         /\ At(s) \in DOMAIN d
                      THEN Append(s, Logical(d[At(s)], At(s)))
                      ELSE s]
  <2> HIDE DEF N, V
  <2> QED BY <1>10, Zenon
<1>12. chain = [n \in 0 .. N |->
             IF n = 0 THEN << >>
             ELSE LET s == chain[n - 1]
                  IN  IF Len(s) = n - 1 /\ Link(s).type = EXTENDED
                         /\ At(s) \in DOMAIN d
                      THEN Append(s, Logical(d[At(s)], At(s)))
                      ELSE s]
  <2> HIDE DEF N, V
  <2> QED BY <1>11, Zenon
<1>13. /\ chain[0] = << >>
       /\ \A k \in 0 .. N - 1 : chain[k + 1] = Step(k, chain[k])
  <2> HIDE DEF chain, N
  <2>1. chain[0] = << >>
    BY <1>1, <1>12
  <2>2. ASSUME NEW k \in 0 .. N - 1 PROVE chain[k + 1] = Step(k, chain[k])
    <3>1. k + 1 \in 0 .. N /\ k + 1 # 0 /\ (k + 1) - 1 = k
      BY <1>1
    <3> QED BY <1>12, <3>1
  <2> QED BY <2>1, <2>2
<1> HIDE DEF chain, Step, N
<1> DEFINE Upto(k) == /\ chain[k] \in V
                      /\ Len(chain[k]) <= k
                      /\ Len(chain[k]) = k \/ Ended(d, extended, chain[k])
           S == {k \in 0 .. N : Upto(k)}
<1>14. 0 \in S
  <2>1. Len(<< >>) = 0
    OBVIOUS
  <2> HIDE DEF V
  <2> QED BY <1>1, <1>7, <1>13, <2>1
<1>15. ASSUME NEW k \in 0 .. N - 1, k \in S PROVE k + 1 \in S
  <2> DEFINE s == chain[k]
  <2>1. Upto(k)
    BY <1>15
  <2>2. chain[k + 1] = Step(k, s)
    BY <1>13
  <2>3. Len(s) \in Nat
    BY <2>1, LenProperties
  <2> HIDE DEF V, s
  <2>4. /\ Step(k, s) \in V
        /\ Len(s) = k /\ ~ Ended(d, extended, s) => Len(Step(k, s)) = k + 1
        /\ ~ (Len(s) = k /\ ~ Ended(d, extended, s)) => Step(k, s) = s
    BY <1>4, <2>1 DEF s
  <2>5. Len(s) <= k /\ (Len(s) = k \/ Ended(d, extended, s))
    BY <2>1 DEF s
  <2>6. Upto(k + 1)
    BY <1>1, <2>2, <2>3, <2>4, <2>5
  <2>7. k + 1 \in 0 .. N
    BY <1>1
  <2> HIDE DEF Upto
  <2> QED BY <2>6, <2>7
<1>16. N \in S
  <2> HIDE DEF S
  <2>1. \A k \in 0 .. N - 1 : k \in S => k + 1 \in S
    BY <1>15
  <2>2. \A k \in 0 .. N : k \in S
    BY <1>1, <1>14, <2>1, Induction
  <2> QED BY <1>1, <2>2
<1> QED BY <1>5, <1>16 DEF N

-----------------------------------------------------------------------------
(* The tables of a session: what every command keeps.                       *)
SoundTables ==
  {x \in Tables :
     /\ Len(x.logical) <= MaxLogical
     /\ Chained(x.logical, x.extended_offset)
     /\ Closed(x.logical)
     /\ (x.logical = << >>) <=> (x.extended_offset = 0)
     /\ x.extended_offset # 0 =>
          /\ Extended(x).type = EXTENDED
          /\ Extended(x).start = x.extended_offset
          /\ Extended(x).start + Extended(x).size <= Total}

\* A table whose link is cleared without a mark.
WithoutLink(l) == [l EXCEPT !.slots[l.ext] = NoEntry]

(* What a command may do to the tables: it marks what it changes, except for *)
(* the link of a table that has become the last one.                        *)
Inherits(s, r) ==
  \A j \in 1 .. Len(r) :
    \/ r[j].changed = TRUE
    \/ \E k \in 1 .. Len(s) : r[j] = s[k] /\ (k = Len(s) => j = Len(r))
    \/ j = Len(r) /\ \E k \in 1 .. Len(s) : r[j] = WithoutLink(s[k])

Remembers(x, y) ==
  /\ Inherits(x.logical, y.logical)
  /\ \/ y.primary = x.primary /\ y.changed = x.changed
     \/ \E i \in 0..3 : y.changed[i] = TRUE

(* The elements of a chain are sound tables.                                 *)
LEMMA ChainElements ==
  ASSUME NEW b, NEW s, Chained(s, b)
  PROVE  /\ s \in Seq(SoundTable) /\ s \in Seq(AnyTable)
         /\ Len(s) \in Nat /\ DOMAIN s = 1 .. Len(s)
         /\ s = << >> <=> Len(s) = 0
         /\ \A k \in 1 .. Len(s) : s[k] \in SoundTable
<1>1. s \in Seq(SoundTable)
  BY DEF Chained
<1>2. SoundTable \subseteq AnyTable
  BY TableFields
<1>3. s \in Seq(AnyTable)
  BY <1>1, <1>2, SeqMonotonic
<1>4. Len(s) \in Nat /\ DOMAIN s = 1 .. Len(s)
  BY <1>1, LenProperties
<1>5. s = << >> <=> Len(s) = 0
  BY <1>1, EmptySeq
<1>6. \A k \in 1 .. Len(s) : s[k] \in SoundTable
  BY <1>1, ElementOfSeq
<1> QED BY <1>1, <1>3, <1>4, <1>5, <1>6

(* A chain with one table exchanged, table by table.                         *)
LEMMA ChainReplaced ==
  ASSUME NEW b, NEW s, Chained(s, b), NEW k \in 1 .. Len(s), NEW l \in SoundTable
  PROVE  LET r == [s EXCEPT ![k] = l]
         IN  /\ r \in Seq(SoundTable)
             /\ Len(r) = Len(s)
             /\ \A j \in 1 .. Len(s) : r[j] = IF j = k THEN l ELSE s[j]
BY ChainElements, ExceptSeq

(* A table may change in everything but its sector and where it leads.      *)
LEMMA ReplaceKeepsChain ==
  ASSUME NEW b, NEW s, Chained(s, b), NEW k \in 1 .. Len(s), NEW l \in SoundTable,
         l.offset = s[k].offset, LastLink(l) = LastLink(s[k])
  PROVE  LET r == [s EXCEPT ![k] = l]
         IN  /\ Chained(r, b) /\ Len(r) = Len(s) /\ r # << >>
             /\ Closed(s) => Closed(r)
<1> DEFINE r == [s EXCEPT ![k] = l]
           n == Len(s)
<1>1. n \in Nat /\ 1 \in 1 .. n /\ n \in 1 .. n /\ s # << >>
  BY ChainElements
<1>2. /\ r \in Seq(SoundTable)
      /\ Len(r) = n
      /\ \A j \in 1 .. n : r[j] = IF j = k THEN l ELSE s[j]
  BY ChainReplaced
<1> HIDE DEF r
<1>3. \A j \in 1 .. n : r[j].offset = s[j].offset /\ LastLink(r[j]) = LastLink(s[j])
  BY <1>2
<1>4. r # << >>
  BY <1>1, <1>2, EmptySeq
<1>5. Chained(r, b)
  <2>1. r[1].offset = b
    BY <1>1, <1>3 DEF Chained
  <2>2. ASSUME NEW j \in 1 .. n - 1
        PROVE  LastLink(r[j]).type = EXTENDED /\ b + LastLink(r[j]).start = r[j + 1].offset
    <3>1. j \in 1 .. n /\ j + 1 \in 1 .. n
      BY <1>1
    <3> QED BY <1>3, <3>1 DEF Chained
  <2> QED BY <1>2, <2>1, <2>2 DEF Chained
<1>6. Closed(s) => Closed(r)
  BY <1>1, <1>2, <1>3 DEF Closed
<1> QED BY <1>2, <1>4, <1>5, <1>6 DEF r

(* What a change of the partition or of the link of a table leaves as it     *)
(* was.                                                                      *)
LEMMA ChangedTable ==
  ASSUME NEW l \in SoundTable, NEW e \in Entry
  PROVE  /\ LET c == [l EXCEPT !.slots[l.part] = e, !.changed = TRUE]
            IN  /\ IsData(e) => l.offset <= e.begin
                /\ e.type = EXTENDED => PartOf(l).type = EXTENDED
                => /\ c \in SoundTable
                   /\ c.offset = l.offset /\ LastLink(c) = LastLink(l) /\ PartOf(c) = e
                   /\ c.changed = TRUE
         /\ LET c == [l EXCEPT !.slots[l.ext] = e, !.changed = TRUE]
            IN  ~ IsData(e) =>
                 /\ c \in SoundTable
                 /\ c.offset = l.offset /\ LastLink(c) = e /\ PartOf(c) = PartOf(l)
                 /\ c.changed = TRUE
         /\ LET c == [l EXCEPT !.slots[l.ext] = e]
            IN  ~ IsData(e) =>
                 /\ c \in SoundTable
                 /\ c.offset = l.offset /\ LastLink(c) = e /\ PartOf(c) = PartOf(l)
                 /\ c.changed = l.changed
<1>1. /\ l \in Table
      /\ l.slots \in [0..3 -> Entry]
      /\ l.part \in 0..3 /\ l.ext \in 0..3 /\ l.part # l.ext
      /\ IsData(PartOf(l)) => l.offset <= PartOf(l).begin
      /\ Clean(l)
  BY TableFields
<1>2. ASSUME NEW c, NEW k \in {l.part, l.ext}, NEW g \in BOOLEAN,
             c = [l EXCEPT !.slots[k] = e, !.changed = g]
      PROVE  /\ c \in Table
             /\ c.offset = l.offset /\ c.part = l.part /\ c.ext = l.ext
             /\ c.slots = [l.slots EXCEPT ![k] = e]
             /\ c.changed = g
  BY <1>1, <1>2 DEF Table
<1>3. ASSUME NEW c, c \in Table, c.offset = l.offset, c.part = l.part, c.ext = l.ext,
             c.slots = [l.slots EXCEPT ![l.ext] = e], ~ IsData(e)
      PROVE  c \in SoundTable /\ LastLink(c) = e /\ PartOf(c) = PartOf(l)
  <2>1. LastLink(c) = e /\ PartOf(c) = PartOf(l)
    BY <1>1, <1>3 DEF LastLink, PartOf
  <2>2. Clean(c)
    BY <1>1, <1>3 DEF Clean
  <2> QED BY <1>1, <1>3, <2>1, <2>2 DEF SoundTable
<1>4. ASSUME NEW c, c \in Table, c.offset = l.offset, c.part = l.part, c.ext = l.ext,
             c.slots = [l.slots EXCEPT ![l.part] = e], IsData(e) => l.offset <= e.begin,
             e.type = EXTENDED => PartOf(l).type = EXTENDED
      PROVE  c \in SoundTable /\ LastLink(c) = LastLink(l) /\ PartOf(c) = e
  <2>1. LastLink(c) = LastLink(l) /\ PartOf(c) = e
    BY <1>1, <1>4 DEF LastLink, PartOf
  <2>2. Clean(c)
    BY <1>1, <1>4 DEF Clean, PartOf
  <2> QED BY <1>1, <1>4, <2>1, <2>2 DEF SoundTable
<1> DEFINE p == [l EXCEPT !.slots[l.part] = e, !.changed = TRUE]
           x == [l EXCEPT !.slots[l.ext] = e, !.changed = TRUE]
           y == [l EXCEPT !.slots[l.ext] = e]
<1>5. /\ p \in Table /\ p.offset = l.offset /\ p.part = l.part /\ p.ext = l.ext
      /\ p.slots = [l.slots EXCEPT ![l.part] = e] /\ p.changed = TRUE
  BY <1>2
<1>6. /\ x \in Table /\ x.offset = l.offset /\ x.part = l.part /\ x.ext = l.ext
      /\ x.slots = [l.slots EXCEPT ![l.ext] = e] /\ x.changed = TRUE
  BY <1>2
<1>7. /\ y \in Table /\ y.offset = l.offset /\ y.part = l.part /\ y.ext = l.ext
      /\ y.slots = [l.slots EXCEPT ![l.ext] = e] /\ y.changed = l.changed
  BY <1>1 DEF Table
<1> HIDE DEF p, x, y
<1>8. /\ IsData(e) => l.offset <= e.begin
      /\ e.type = EXTENDED => PartOf(l).type = EXTENDED
      => p \in SoundTable /\ LastLink(p) = LastLink(l) /\ PartOf(p) = e
  BY <1>4, <1>5
<1>9. ~ IsData(e) => x \in SoundTable /\ LastLink(x) = e /\ PartOf(x) = PartOf(l)
  BY <1>3, <1>6
<1>10. ~ IsData(e) => y \in SoundTable /\ LastLink(y) = e /\ PartOf(y) = PartOf(l)
  BY <1>3, <1>7
<1> QED BY <1>5, <1>6, <1>7, <1>8, <1>9, <1>10 DEF p, x, y

(* The program's tables keep their shape when one of them is exchanged.     *)
LEMMA SoundFields ==
  ASSUME NEW x \in SoundTables
  PROVE  /\ x \in Tables
         /\ x.primary \in [0..3 -> Entry] /\ x.changed \in [0..3 -> BOOLEAN]
         /\ x.ext_index \in 0..3 /\ x.extended_offset \in Nat
         /\ Chained(x.logical, x.extended_offset) /\ Closed(x.logical)
         /\ Len(x.logical) \in Nat /\ Len(x.logical) <= MaxLogical
         /\ (x.logical = << >>) <=> (x.extended_offset = 0)
         /\ (x.logical = << >>) <=> (Len(x.logical) = 0)
         /\ \A k \in 1 .. Len(x.logical) : x.logical[k] \in SoundTable
         /\ Extended(x) \in Entry
         /\ x.extended_offset # 0 =>
              /\ Extended(x).type = EXTENDED
              /\ Extended(x).start = x.extended_offset
              /\ Extended(x).start + Extended(x).size <= Total
              /\ x.extended_offset <= Total - 1
              /\ x.logical[1].offset = x.extended_offset
<1>1. x \in Tables /\ Chained(x.logical, x.extended_offset)
  BY DEF SoundTables
<1>2. /\ x.primary \in [0..3 -> Entry] /\ x.changed \in [0..3 -> BOOLEAN]
      /\ x.ext_index \in 0..3 /\ x.extended_offset \in Nat
  BY <1>1 DEF Tables
<1>3. Extended(x) \in Entry
  BY <1>2 DEF Extended
<1>4. /\ Len(x.logical) \in Nat
      /\ (x.logical = << >>) <=> (Len(x.logical) = 0)
      /\ \A k \in 1 .. Len(x.logical) : x.logical[k] \in SoundTable
  BY <1>1, ChainElements
<1>5. /\ Len(x.logical) <= MaxLogical /\ Closed(x.logical)
      /\ (x.logical = << >>) <=> (x.extended_offset = 0)
      /\ x.extended_offset # 0 =>
           /\ Extended(x).type = EXTENDED
           /\ Extended(x).start = x.extended_offset
           /\ Extended(x).start + Extended(x).size <= Total
  BY DEF SoundTables
<1>6. ASSUME x.extended_offset # 0
      PROVE  x.logical[1].offset = x.extended_offset /\ x.extended_offset <= Total - 1
  <2>1. x.logical # << >>
    BY <1>5, <1>6
  <2>2. x.logical[1].offset = x.extended_offset
    BY <1>1, <2>1 DEF Chained
  <2>3. x.logical[1] \in SoundTable
    <3>1. 1 \in 1 .. Len(x.logical)
      BY <1>4, <2>1
    <3> QED BY <1>4, <3>1
  <2>4. x.logical[1].offset <= Total - 1
    BY <2>3, TableFields
  <2> QED BY <2>2, <2>4
<1> QED BY <1>1, <1>2, <1>3, <1>4, <1>5, <1>6

(* Another chain from the same sector makes sound tables again.              *)
LEMMA LogicalReplaced ==
  ASSUME NEW x \in SoundTables, NEW s \in Seq(SoundTable),
         Chained(s, x.extended_offset), Closed(s),
         Len(s) <= MaxLogical, s = << >> <=> x.logical = << >>
  PROVE  /\ [x EXCEPT !.logical = s] \in SoundTables
         /\ [x EXCEPT !.logical = s].logical = s
         /\ [x EXCEPT !.logical = s].primary = x.primary
         /\ [x EXCEPT !.logical = s].changed = x.changed
         /\ [x EXCEPT !.logical = s].extended_offset = x.extended_offset
         /\ [x EXCEPT !.logical = s].ext_index = x.ext_index
         /\ Inherits(x.logical, s) => Remembers(x, [x EXCEPT !.logical = s])
<1> DEFINE y == [x EXCEPT !.logical = s]
<1>1. s \in Seq(AnyTable)
  BY ChainElements
<1>2. x \in Tables
  BY SoundFields
<1>3. /\ y \in Tables /\ y.logical = s /\ y.primary = x.primary /\ y.changed = x.changed
      /\ y.extended_offset = x.extended_offset /\ y.ext_index = x.ext_index
  BY <1>1, <1>2 DEF Tables
<1> HIDE DEF y
<1>4. Extended(y) = Extended(x)
  BY <1>3 DEF Extended
<1>5. y \in SoundTables
  BY <1>3, <1>4 DEF SoundTables
<1>6. Inherits(x.logical, s) => Remembers(x, y)
  BY <1>3 DEF Remembers
<1> QED BY <1>3, <1>5, <1>6 DEF y

(* Changing a partition: an extended one stays what it is, and data stays   *)
(* behind the sector of its table.                                          *)
Replaced(x, i, e, y) ==
  /\ y \in SoundTables /\ Remembers(x, y)
  /\ y.ext_index = x.ext_index /\ y.extended_offset = x.extended_offset
  /\ Len(y.logical) = Len(x.logical)
  /\ i < 4 => /\ y.logical = x.logical
              /\ y.primary = [x.primary EXCEPT ![i] = e]
  /\ i >= 4 => /\ y.primary = x.primary
               /\ \E l \in SoundTable :
                    /\ l.offset = Offset(x, i)
                    /\ PartOf(l) = e
                    /\ y.logical = [x.logical EXCEPT ![i - 3] = l]

(* Replacing the entry of a partition keeps the tables sound.               *)
LEMMA SetPartIsSound ==
  ASSUME NEW x \in SoundTables, NEW i \in Numbers(x), NEW e \in Entry,
         i < 4 /\ x.extended_offset # 0 /\ i = x.ext_index =>
           e.type = EXTENDED /\ e.start = Extended(x).start /\ e.size = Extended(x).size,
         i >= 4 /\ IsData(e) => Offset(x, i) <= e.begin,
         i >= 4 /\ e.type = EXTENDED => PartEntry(x, i).type = EXTENDED
  PROVE  Replaced(x, i, e, SetPart(x, i, e))
<1>0. x \in Tables /\ i \in Nat /\ (i >= 4 => i - 3 \in 1 .. Len(x.logical))
  BY SoundFields, AccessIsTyped
<1>1. CASE i < 4
  <2> DEFINE y == [x EXCEPT !.primary[i] = e, !.changed[i] = TRUE]
  <2>1. i \in 0..3
    BY <1>0, <1>1
  <2>2. /\ y \in Tables /\ y.logical = x.logical
        /\ y.primary = [x.primary EXCEPT ![i] = e]
        /\ y.changed = [x.changed EXCEPT ![i] = TRUE]
        /\ y.extended_offset = x.extended_offset /\ y.ext_index = x.ext_index
    BY <1>0, <2>1 DEF Tables
  <2>3. y = SetPart(x, i, e)
    BY <1>1 DEF SetPart
  <2> HIDE DEF y
  <2>4. Extended(y) = IF i = x.ext_index THEN e ELSE Extended(x)
    BY <2>1, <2>2, SoundFields DEF Extended
  <2>5. y \in SoundTables
    BY <1>1, <2>2, <2>4, SoundFields DEF SoundTables
  <2>6. Remembers(x, y)
    <3>1. y.changed[i] = TRUE
      BY <2>1, <2>2, SoundFields
    <3>2. Inherits(x.logical, y.logical)
      BY <2>2 DEF Inherits
    <3> QED BY <2>1, <3>1, <3>2 DEF Remembers
  <2>7. Replaced(x, i, e, y)
    BY <1>0, <1>1, <2>2, <2>5, <2>6 DEF Replaced
  <2> QED BY <2>3, <2>7
<1>2. CASE ~ (i < 4)
  <2> DEFINE k == i - 3
             l == x.logical[k]
             c == [l EXCEPT !.slots[l.part] = e, !.changed = TRUE]
             s == [x.logical EXCEPT ![k] = c]
             y == [x EXCEPT !.logical = s]
  <2>1. k \in 1 .. Len(x.logical) /\ Chained(x.logical, x.extended_offset)
        /\ Closed(x.logical)
    BY <1>0, <1>2, SoundFields
  <2>2. l \in SoundTable
    BY <2>1, ChainElements
  <2>3. Offset(x, i) = l.offset
    BY <1>2 DEF Offset
  <2>4. /\ c \in SoundTable /\ c.offset = l.offset /\ LastLink(c) = LastLink(l)
        /\ PartOf(c) = e /\ c.changed = TRUE
    <3>1. i >= 4
      BY <1>0, <1>2
    <3>2. IsData(e) => l.offset <= e.begin
      BY <2>3, <3>1
    <3>4. e.type = EXTENDED => PartOf(l).type = EXTENDED
      BY <1>2, <3>1, SMTT(60) DEF PartEntry, PartOf
    <3> HIDE DEF l
    <3>3. /\ IsData(e) => l.offset <= e.begin
          /\ e.type = EXTENDED => PartOf(l).type = EXTENDED
          => /\ c \in SoundTable /\ c.offset = l.offset /\ LastLink(c) = LastLink(l)
             /\ PartOf(c) = e /\ c.changed = TRUE
      BY <2>2, ChangedTable
    <3> QED BY <3>2, <3>3, <3>4
  <2>5. [x EXCEPT !.logical[i - 3] = [l EXCEPT !.slots[l.part] = e, !.changed = TRUE]] = y
    BY <1>0 DEF Tables
  <2>6. SetPart(x, i, e) = y
    BY <1>2, <2>5 DEF SetPart
  <2> HIDE DEF c
  <2>7. Chained(s, x.extended_offset) /\ Len(s) = Len(x.logical) /\ s # << >> /\ Closed(s)
    BY <2>1, <2>4, ReplaceKeepsChain
  <2>8. s \in Seq(SoundTable) /\ x.logical # << >> /\ Len(s) <= MaxLogical
    BY <2>1, <2>7, ChainElements, SoundFields
  <2> HIDE DEF s
  <2>9. /\ y \in SoundTables /\ y.logical = s /\ y.primary = x.primary
        /\ y.changed = x.changed
        /\ y.extended_offset = x.extended_offset /\ y.ext_index = x.ext_index
        /\ Inherits(x.logical, s) => Remembers(x, y)
    BY <2>7, <2>8, LogicalReplaced
  <2> HIDE DEF y
  <2>10. y.logical = [x.logical EXCEPT ![i - 3] = c]
    BY <2>9 DEF s
  <2>11. Inherits(x.logical, s)
    <3> HIDE DEF k
    <3>1. /\ Len(s) = Len(x.logical)
          /\ \A j \in 1 .. Len(s) : s[j] = IF j = k THEN c ELSE x.logical[j]
      BY <2>1, <2>4, ChainReplaced DEF s
    <3> QED BY <2>4, <3>1 DEF Inherits
  <2>12. Len(y.logical) = Len(x.logical) /\ ~ (i < 4)
    BY <1>2, <2>7, <2>9
  <2>13. c \in SoundTable /\ c.offset = Offset(x, i) /\ PartOf(c) = e
    BY <2>3, <2>4
  <2>14. Replaced(x, i, e, y)
    BY <2>9, <2>10, <2>11, <2>12, <2>13 DEF Replaced
  <2> QED BY <2>6, <2>14
<1> QED BY <1>1, <1>2

(* The part of SetPartIsSound that the commands need.                        *)
LEMMA SetPartKeepsShape ==
  ASSUME NEW x \in SoundTables, NEW i \in Numbers(x), NEW e \in Entry,
         i < 4 /\ x.extended_offset # 0 /\ i = x.ext_index =>
           e.type = EXTENDED /\ e.start = Extended(x).start /\ e.size = Extended(x).size,
         i >= 4 /\ IsData(e) => Offset(x, i) <= e.begin,
         i >= 4 /\ e.type = EXTENDED => PartEntry(x, i).type = EXTENDED
  PROVE  SetPart(x, i, e) \in SoundTables /\ Remembers(x, SetPart(x, i, e))
BY SetPartIsSound DEF Replaced

(* A command that changes nothing marks nothing.                             *)
LEMMA SameIsRemembered ==
  ASSUME NEW x
  PROVE  Remembers(x, x)
BY DEF Remembers, Inherits

(* What a session knows of one partition and of the sector of its table.     *)
LEMMA PartEntryFacts ==
  ASSUME NEW x \in SoundTables, NEW i \in Numbers(x)
  PROVE  /\ i \in Nat /\ i < 4 + Len(x.logical) /\ Len(x.logical) \in Nat
         /\ (i >= 4 => i - 3 \in 1 .. Len(x.logical))
         /\ PartEntry(x, i) \in Entry
         /\ PartEntry(x, i).type \in {Empty, EXTENDED} \cup Types
         /\ PartEntry(x, i).active \in BOOLEAN
         /\ PartEntry(x, i).begin \in Nat /\ PartEntry(x, i).start \in Nat
         /\ PartEntry(x, i).size \in Nat /\ Offset(x, i) \in Nat
         /\ i < 4 => PartEntry(x, i) = x.primary[i] /\ Offset(x, i) = 0
         /\ i < 4 /\ i = x.ext_index => PartEntry(x, i) = Extended(x)
         /\ i >= 4 => /\ PartEntry(x, i) = PartOf(x.logical[i - 3])
                      /\ Offset(x, i) = x.logical[i - 3].offset
         /\ i >= 4 /\ IsData(PartEntry(x, i)) => Offset(x, i) <= PartEntry(x, i).begin
<1>1. x \in Tables
  BY SoundFields
<1>2. /\ i \in Nat /\ (i >= 4 => i - 3 \in 1 .. Len(x.logical))
      /\ PartEntry(x, i) \in Entry /\ Offset(x, i) \in Nat
  BY <1>1, AccessIsTyped
<1>3. i < 4 + Len(x.logical) /\ Len(x.logical) \in Nat
  BY <1>1, TablesCount
<1>4. i < 4 => PartEntry(x, i) = x.primary[i] /\ Offset(x, i) = 0
  BY DEF PartEntry, Offset
<1>5. i >= 4 => PartEntry(x, i) = PartOf(x.logical[i - 3]) /\ Offset(x, i) = x.logical[i - 3].offset
  BY <1>2 DEF PartEntry, Offset, PartOf
<1>6. ASSUME i >= 4, IsData(PartEntry(x, i)) PROVE Offset(x, i) <= PartEntry(x, i).begin
  <2>1. x.logical[i - 3] \in SoundTable
    BY <1>2, <1>6, SoundFields
  <2> QED BY <1>5, <1>6, <2>1, TableFields
<1>7. i < 4 /\ i = x.ext_index => PartEntry(x, i) = Extended(x)
  BY <1>4 DEF Extended
<1> QED BY <1>2, <1>3, <1>4, <1>5, <1>6, <1>7, EntryFields

(* a, t and b keep the shape of the tables.                                 *)
LEMMA ToggleIsSound ==
  ASSUME NEW x \in SoundTables, NEW i \in Numbers(x)
  PROVE  ToggleActive(x, i) \in SoundTables /\ Remembers(x, ToggleActive(x, i))
<1> DEFINE o == PartEntry(x, i)
           e == [o EXCEPT !.active = ~ o.active]
<1>1. e \in Entry /\ e.type = o.type /\ e.begin = o.begin /\ e.start = o.start /\ e.size = o.size
  BY PartEntryFacts DEF Entry
<1>2. ToggleActive(x, i) = SetPart(x, i, e)
  BY DEF ToggleActive
<1> HIDE DEF e
<1>3. i < 4 /\ x.extended_offset # 0 /\ i = x.ext_index =>
        e.type = EXTENDED /\ e.start = Extended(x).start /\ e.size = Extended(x).size
  BY <1>1, PartEntryFacts, SoundFields
<1>4. i >= 4 /\ IsData(e) => Offset(x, i) <= e.begin
  <2>1. IsData(e) <=> IsData(o)
    BY <1>1 DEF IsData
  <2>2. i >= 4 /\ IsData(o) => Offset(x, i) <= o.begin
    BY PartEntryFacts
  <2> HIDE DEF o
  <2> QED BY <1>1, <2>1, <2>2
<1> QED BY <1>1, <1>2, <1>3, <1>4, SetPartKeepsShape

(* The extended partition is not one for data.                               *)
LEMMA NoDataInBox ==
  ASSUME NEW x \in SoundTables, NEW i \in Numbers(x), IsData(PartEntry(x, i))
  PROVE  ~ (i < 4 /\ x.extended_offset # 0 /\ i = x.ext_index)
BY PartEntryFacts, SoundFields DEF IsData

(* change_sysid keeps the tables sound and marks what it changes.            *)
LEMMA SetTypeIsSound ==
  ASSUME NEW x \in SoundTables, NEW i \in Numbers(x), IsData(PartEntry(x, i)),
         NEW type \in Types
  PROVE  SetType(x, i, type) \in SoundTables /\ Remembers(x, SetType(x, i, type))
<1> DEFINE o == PartEntry(x, i)
           e == [o EXCEPT !.type = type]
<1>1. e \in Entry /\ e.type = type /\ e.begin = o.begin
  BY PartEntryFacts DEF Entry
<1>2. SetType(x, i, type) = SetPart(x, i, e)
  BY DEF SetType
<1> HIDE DEF e
<1>3. i >= 4 => Offset(x, i) <= e.begin
  <2>1. i >= 4 => Offset(x, i) <= o.begin
    BY PartEntryFacts
  <2> HIDE DEF o
  <2> QED BY <1>1, <2>1
<1>4. e.type # EXTENDED
  BY <1>1, TypesAssumption
<1> QED BY <1>1, <1>2, <1>3, <1>4, NoDataInBox, SetPartKeepsShape

(* move_begin keeps the tables sound and marks what it changes.              *)
LEMMA MoveBeginIsSound ==
  ASSUME NEW x \in SoundTables, NEW i \in Numbers(x), IsData(PartEntry(x, i)),
         NEW first \in PartEntry(x, i).begin .. LastSector(x, i)
  PROVE  MoveBegin(x, i, first) \in SoundTables /\ Remembers(x, MoveBegin(x, i, first))
<1> DEFINE o   == PartEntry(x, i)
           new == first - Offset(x, i)
           len == o.size + o.start - new
           e   == [o EXCEPT !.start = new, !.size = len]
<1>1. /\ o \in Entry /\ o.begin \in Nat /\ o.start \in Nat /\ o.size \in Nat
      /\ Offset(x, i) \in Nat /\ Offset(x, i) <= o.begin
  BY PartEntryFacts
<1>2. LastSector(x, i) = o.start + Offset(x, i) + o.size - 1
  BY DEF LastSector
<1>3. first \in Nat /\ new \in Nat /\ len \in Nat
  BY <1>1, <1>2
<1>4. MoveBegin(x, i, first) = IF new = o.size THEN x ELSE SetPart(x, i, e)
  BY DEF MoveBegin
<1> HIDE DEF new, len, o
<1>5. e \in Entry /\ e.type = o.type /\ e.begin = o.begin
  BY <1>1, <1>3 DEF Entry
<1> HIDE DEF e
<1>6. SetPart(x, i, e) \in SoundTables /\ Remembers(x, SetPart(x, i, e))
  <2>1. ~ (i < 4 /\ x.extended_offset # 0 /\ i = x.ext_index)
    BY NoDataInBox
  <2>2. PartEntry(x, i).type # EXTENDED
    BY DEF IsData
  <2> QED BY <1>1, <1>5, <2>1, <2>2, SetPartKeepsShape DEF o
<1> QED BY <1>4, <1>6, SameIsRemembered

-----------------------------------------------------------------------------
(* Deleting a logical partition: the chain is closed up around it.          *)
LEMMA RemoveAtElements ==
  ASSUME NEW S, NEW s \in Seq(S), NEW k \in 1 .. Len(s)
  PROVE  LET r == RemoveAt(s, k)
         IN  /\ r \in Seq(S)
             /\ Len(r) = Len(s) - 1
             /\ \A j \in 1 .. Len(s) - 1 : r[j] = IF j < k THEN s[j] ELSE s[j + 1]
<1> DEFINE n == Len(s)
           p == SubSeq(s, 1, k - 1)
           q == SubSeq(s, k + 1, n)
<1>1. n \in Nat /\ k \in Nat /\ 1 <= k /\ k <= n /\ \A j \in 1 .. n : s[j] \in S
  BY LenProperties, ElementOfSeq
<1>2. /\ p \in Seq(S) /\ Len(p) = k - 1
      /\ \A j \in 1 .. k - 1 : p[j] = s[j]
  <2>1. \A j \in 1 .. k - 1 : s[j] \in S
    BY <1>1
  <2>2. /\ p \in Seq(S) /\ Len(p) = IF 1 <= k - 1 THEN (k - 1) - 1 + 1 ELSE 0
        /\ \A j \in 1 .. (k - 1) - 1 + 1 : p[j] = s[1 + j - 1]
    BY <1>1, <2>1, SubSeqProperties
  <2> HIDE DEF p
  <2> QED BY <1>1, <2>2
<1>3. /\ q \in Seq(S) /\ Len(q) = n - k
      /\ \A j \in 1 .. n - k : q[j] = s[k + j]
  <2>1. \A j \in k + 1 .. n : s[j] \in S
    BY <1>1
  <2>2. /\ q \in Seq(S) /\ Len(q) = IF k + 1 <= n THEN n - (k + 1) + 1 ELSE 0
        /\ \A j \in 1 .. n - (k + 1) + 1 : q[j] = s[(k + 1) + j - 1]
    BY <1>1, <2>1, SubSeqProperties
  <2> HIDE DEF q
  <2>3. \A j \in 1 .. n - k : j \in 1 .. n - (k + 1) + 1 /\ (k + 1) + j - 1 = k + j
    BY <1>1
  <2>4. Len(q) = n - k
    BY <1>1, <2>2
  <2> QED BY <2>2, <2>3, <2>4
<1>4. RemoveAt(s, k) = p \o q
  BY DEF RemoveAt
<1> HIDE DEF p, q
<1>5. /\ p \o q \in Seq(S)
      /\ Len(p \o q) = Len(p) + Len(q)
      /\ \A j \in 1 .. Len(p) + Len(q) :
           (p \o q)[j] = IF j <= Len(p) THEN p[j] ELSE q[j - Len(p)]
  BY <1>2, <1>3, ConcatProperties
<1>6. ASSUME NEW j \in 1 .. n - 1
      PROVE  (p \o q)[j] = IF j < k THEN s[j] ELSE s[j + 1]
  <2>1. Len(p) + Len(q) = n - 1
    BY <1>1, <1>2, <1>3
  <2>2. CASE j < k
    <3>1. j \in 1 .. k - 1 /\ j <= Len(p)
      BY <1>1, <1>2, <2>2
    <3> QED BY <1>2, <1>5, <2>1, <2>2, <3>1
  <2>3. CASE ~ (j < k)
    <3>1. j - Len(p) = j - (k - 1) /\ j - (k - 1) \in 1 .. n - k /\ ~ (j <= Len(p))
          /\ k + (j - (k - 1)) = j + 1
      BY <1>1, <1>2, <2>3
    <3>2. (p \o q)[j] = q[j - (k - 1)]
      BY <1>5, <2>1, <3>1
    <3> QED BY <1>3, <2>3, <3>1, <3>2
  <2> QED BY <2>2, <2>3
<1>7. Len(p \o q) = n - 1
  BY <1>1, <1>2, <1>3, <1>5
<1> QED BY <1>4, <1>5, <1>6, <1>7

(* Two tables that say the same of a partition, perhaps from other sectors. *)
SamePart(l, m) ==
  /\ PartOf(l).type = PartOf(m).type
  /\ PartOf(l).active = PartOf(m).active
  /\ PartOf(l).begin = PartOf(m).begin
  /\ PartOf(l).size = PartOf(m).size
  /\ l.offset + PartOf(l).start = m.offset + PartOf(m).start

(* y is x without its k-th logical partition.                               *)
Closes(x, k, y) ==
  \E r : /\ y = [x EXCEPT !.logical = r]
         /\ Len(r) = Len(x.logical) - 1
         /\ \A j \in 1 .. Len(x.logical) - 1 :
              SamePart(r[j], x.logical[IF j < k THEN j ELSE j + 1])
         /\ \A j \in 2 .. Len(x.logical) - 1 :
              r[j].offset = x.logical[IF j < k THEN j ELSE j + 1].offset

\* The last one goes, and the link to it.
LEMMA LastTableGoes ==
  ASSUME NEW b, NEW s, Chained(s, b), Len(s) >= 2, NEW l \in SoundTable,
         l.offset = s[Len(s) - 1].offset, LastLink(l).type = Empty
  PROVE  LET r == [RemoveAt(s, Len(s)) EXCEPT ![Len(s) - 1] = l]
         IN  /\ Chained(r, b) /\ Closed(r) /\ Len(r) = Len(s) - 1 /\ r # << >>
             /\ l = WithoutLink(s[Len(s) - 1]) => Inherits(s, r)
             /\ \A j \in 1 .. Len(s) - 1 : r[j] = IF j = Len(s) - 1 THEN l ELSE s[j]
<1> DEFINE n == Len(s)
           c == RemoveAt(s, n)
           r == [c EXCEPT ![n - 1] = l]
<1>1. s \in Seq(SoundTable) /\ n \in Nat /\ n >= 2 /\ n \in 1 .. n
  BY ChainElements
<1>2. /\ c \in Seq(SoundTable) /\ Len(c) = n - 1
      /\ \A j \in 1 .. n - 1 : c[j] = s[j]
  <2>1. /\ c \in Seq(SoundTable) /\ Len(c) = n - 1
        /\ \A j \in 1 .. n - 1 : c[j] = IF j < n THEN s[j] ELSE s[j + 1]
    BY <1>1, RemoveAtElements
  <2> HIDE DEF c
  <2> QED BY <1>1, <2>1
<1> HIDE DEF c
<1>3. /\ r \in Seq(SoundTable) /\ Len(r) = n - 1
      /\ \A j \in 1 .. n - 1 : r[j] = IF j = n - 1 THEN l ELSE s[j]
  <2>1. n - 1 \in 1 .. Len(c)
    BY <1>1, <1>2
  <2>2. /\ r \in Seq(SoundTable) /\ Len(r) = Len(c)
        /\ \A j \in 1 .. Len(c) : r[j] = IF j = n - 1 THEN l ELSE c[j]
    BY <1>2, <2>1, ExceptSeq
  <2> HIDE DEF r
  <2> QED BY <1>2, <2>2
<1> HIDE DEF r
<1>4. \A j \in 1 .. n - 1 : r[j].offset = s[j].offset
  BY <1>3
<1>5. r # << >>
  BY <1>1, <1>3, EmptySeq
<1>6. Chained(r, b)
  <2>1. r[1].offset = b
    <3>1. s # << >> /\ 1 \in 1 .. n - 1
      BY <1>1, EmptySeq
    <3> QED BY <1>4, <3>1 DEF Chained
  <2>2. ASSUME NEW j \in 1 .. Len(r) - 1
        PROVE  LastLink(r[j]).type = EXTENDED /\ b + LastLink(r[j]).start = r[j + 1].offset
    <3>1. j \in 1 .. n - 1 /\ j # n - 1 /\ j + 1 \in 1 .. n - 1
      BY <1>1, <1>3
    <3> QED BY <1>3, <1>4, <3>1 DEF Chained
  <2> QED BY <1>3, <2>1, <2>2 DEF Chained
<1>7. Closed(r)
  <2>1. Len(r) \in 1 .. n - 1 /\ Len(r) = n - 1
    BY <1>1, <1>3
  <2> QED BY <1>3, <2>1 DEF Closed
<1>8. ASSUME l = WithoutLink(s[n - 1]) PROVE Inherits(s, r)
  <2> SUFFICES ASSUME NEW j \in 1 .. n - 1
               PROVE  \/ \E k \in 1 .. n : r[j] = s[k] /\ (k = n => j = n - 1)
                      \/ j = n - 1 /\ \E k \in 1 .. n : r[j] = WithoutLink(s[k])
    BY <1>3 DEF Inherits
  <2>1. j \in 1 .. n /\ j # n
    BY <1>1
  <2> QED BY <1>3, <1>8, <2>1
<1> QED BY <1>3, <1>5, <1>6, <1>7, <1>8 DEF r, c

(* r is the chain s from sector b without its k-th table; the c-th of those *)
(* left is now l.                                                           *)
WithoutTable(s, b, k, c, l, r) ==
  /\ Chained(r, b) /\ Closed(r) /\ Len(r) = Len(s) - 1 /\ r # << >>
  /\ l.changed = TRUE => Inherits(s, r)
  /\ \A j \in 1 .. Len(s) - 1 :
       r[j] = IF j = c THEN l ELSE IF j < k THEN s[j] ELSE s[j + 1]

\* One between others goes, and the one before leads past it.
LEMMA MiddleTableGoes ==
  ASSUME NEW b, NEW s, Chained(s, b), Closed(s), NEW k \in 2 .. Len(s) - 1,
         NEW l \in SoundTable, l.offset = s[k - 1].offset,
         LastLink(l).type = EXTENDED, LastLink(l).start = LastLink(s[k]).start
  PROVE  WithoutTable(s, b, k, k - 1, l, RemoveAt([s EXCEPT ![k - 1] = l], k))
<1> DEFINE n == Len(s)
           c == [s EXCEPT ![k - 1] = l]
           r == RemoveAt(c, k)
<1>1. s \in Seq(SoundTable) /\ n \in Nat /\ k \in Nat /\ 2 <= k /\ k <= n - 1
  BY ChainElements
<1>2. /\ c \in Seq(SoundTable) /\ Len(c) = n
      /\ \A j \in 1 .. n : c[j] = IF j = k - 1 THEN l ELSE s[j]
  <2>1. k - 1 \in 1 .. n
    BY <1>1
  <2> QED BY <2>1, ChainReplaced
<1> HIDE DEF c
<1>3. /\ r \in Seq(SoundTable) /\ Len(r) = n - 1
      /\ \A j \in 1 .. n - 1 : r[j] = IF j < k THEN c[j] ELSE c[j + 1]
  <2>1. k \in 1 .. Len(c)
    BY <1>1, <1>2
  <2> QED BY <1>2, <2>1, RemoveAtElements
<1> HIDE DEF r
<1>4. \A j \in 1 .. n - 1 : r[j] = IF j = k - 1 THEN l ELSE IF j < k THEN s[j] ELSE s[j + 1]
  <2> TAKE j \in 1 .. n - 1
  <2>1. j \in 1 .. n /\ j + 1 \in 1 .. n
    BY <1>1
  <2> QED BY <1>1, <1>2, <1>3, <2>1
<1>5. r # << >>
  BY <1>1, <1>3, EmptySeq
<1>6. \A j \in 1 .. n - 1 : /\ j < k => r[j].offset = s[j].offset
                            /\ j >= k => r[j].offset = s[j + 1].offset
  BY <1>1, <1>4
<1>7. \A j \in 1 .. n - 1 : LastLink(s[j]).type = EXTENDED /\ b + LastLink(s[j]).start = s[j + 1].offset
  BY DEF Chained
<1>8. Chained(r, b)
  <2>1. r[1].offset = b
    <3>1. s # << >> /\ 1 \in 1 .. n - 1 /\ 1 < k
      BY <1>1, EmptySeq
    <3>2. s[1].offset = b
      BY <3>1 DEF Chained
    <3> QED BY <1>6, <3>1, <3>2
  <2>2. ASSUME NEW j \in 1 .. Len(r) - 1
        PROVE  LastLink(r[j]).type = EXTENDED /\ b + LastLink(r[j]).start = r[j + 1].offset
    <3>1. j \in 1 .. n - 1 /\ j + 1 \in 1 .. n - 1 /\ j + 2 = (j + 1) + 1
      BY <1>1, <1>3
    <3>2. CASE j < k - 1
      <4>1. j + 1 < k /\ j < k
        BY <1>1, <3>1, <3>2
      <4>2. r[j] = s[j] /\ r[j + 1].offset = s[j + 1].offset
        BY <1>1, <1>4, <1>6, <3>1, <3>2, <4>1
      <4> QED BY <1>7, <3>1, <4>2
    <3>3. CASE j = k - 1
      <4>1. r[j] = l /\ r[j + 1].offset = s[k + 1].offset /\ k \in 1 .. n - 1
        BY <1>1, <1>4, <1>6, <3>1, <3>3
      <4>2. b + LastLink(s[k]).start = s[k + 1].offset
        BY <1>7, <4>1
      <4> QED BY <4>1, <4>2
    <3>4. CASE j > k - 1
      <4>1. j >= k /\ j + 1 >= k /\ j # k - 1
        BY <1>1, <3>1, <3>4
      <4>2. r[j] = s[j + 1] /\ r[j + 1].offset = s[(j + 1) + 1].offset
        BY <1>1, <1>4, <1>6, <3>1, <4>1
      <4> QED BY <1>7, <3>1, <4>2
    <3> QED BY <1>1, <3>1, <3>2, <3>3, <3>4
  <2> QED BY <1>3, <2>1, <2>2 DEF Chained
<1>9. Closed(r)
  <2>1. n - 1 \in 1 .. n - 1 /\ n - 1 # k - 1 /\ ~ (n - 1 < k) /\ (n - 1) + 1 = n
    BY <1>1, SMTT(60)
  <2>2. r[n - 1] = s[n]
    BY <1>4, <2>1
  <2>3. s # << >>
    BY <1>1, EmptySeq
  <2> QED BY <1>3, <2>2, <2>3 DEF Closed
<1>10. ASSUME l.changed = TRUE PROVE Inherits(s, r)
  <2> SUFFICES ASSUME NEW j \in 1 .. n - 1
               PROVE  \/ r[j].changed = TRUE
                      \/ \E i \in 1 .. n : r[j] = s[i] /\ (i = n => j = n - 1)
    BY <1>3 DEF Inherits
  <2>1. j \in 1 .. n /\ j + 1 \in 1 .. n /\ j # n /\ (j + 1 = n => j = n - 1)
    BY <1>1
  <2> QED BY <1>4, <1>10, <2>1
<1> QED BY <1>3, <1>4, <1>5, <1>8, <1>9, <1>10 DEF r, c, WithoutTable

\* The first one goes, and the second takes its sector.
LEMMA FirstTableGoes ==
  ASSUME NEW b, NEW s, Chained(s, b), Closed(s), Len(s) >= 2,
         NEW l \in SoundTable, l.offset = b, LastLink(l) = LastLink(s[2])
  PROVE  WithoutTable(s, b, 1, 1, l, RemoveAt([s EXCEPT ![2] = l], 1))
<1> DEFINE n == Len(s)
           c == [s EXCEPT ![2] = l]
           r == RemoveAt(c, 1)
<1>1. s \in Seq(SoundTable) /\ n \in Nat /\ n >= 2
  BY ChainElements
<1>2. /\ c \in Seq(SoundTable) /\ Len(c) = n
      /\ \A j \in 1 .. n : c[j] = IF j = 2 THEN l ELSE s[j]
  <2>1. 2 \in 1 .. n
    BY <1>1
  <2> QED BY <2>1, ChainReplaced
<1> HIDE DEF c
<1>3. /\ r \in Seq(SoundTable) /\ Len(r) = n - 1
      /\ \A j \in 1 .. n - 1 : r[j] = IF j < 1 THEN c[j] ELSE c[j + 1]
  <2>1. 1 \in 1 .. Len(c)
    BY <1>1, <1>2
  <2> QED BY <1>2, <2>1, RemoveAtElements
<1> HIDE DEF r
<1>4. \A j \in 1 .. n - 1 : r[j] = IF j = 1 THEN l ELSE s[j + 1]
  <2> TAKE j \in 1 .. n - 1
  <2>1. j + 1 \in 1 .. n /\ ~ (j < 1) /\ (j + 1 = 2 <=> j = 1)
    BY <1>1
  <2> QED BY <1>2, <1>3, <2>1
<1>5. r # << >>
  BY <1>1, <1>3, EmptySeq
<1>6. \A j \in 1 .. n - 1 : LastLink(s[j]).type = EXTENDED /\ b + LastLink(s[j]).start = s[j + 1].offset
  BY DEF Chained
<1>7. \A j \in 1 .. n - 1 : LastLink(r[j]) = LastLink(s[j + 1])
  BY <1>1, <1>4
<1>8. Chained(r, b)
  <2>1. r[1].offset = b
    <3>1. 1 \in 1 .. n - 1
      BY <1>1
    <3> QED BY <1>4, <3>1
  <2>2. ASSUME NEW j \in 1 .. Len(r) - 1
        PROVE  LastLink(r[j]).type = EXTENDED /\ b + LastLink(r[j]).start = r[j + 1].offset
    <3>1. j \in 1 .. n - 1 /\ j + 1 \in 1 .. n - 1 /\ j + 1 # 1
      BY <1>1, <1>3
    <3>2. r[j + 1] = s[(j + 1) + 1] /\ LastLink(r[j]) = LastLink(s[j + 1])
      BY <1>4, <1>7, <3>1
    <3> QED BY <1>6, <3>1, <3>2
  <2> QED BY <1>3, <2>1, <2>2 DEF Chained
<1>9. Closed(r)
  <2>1. n - 1 \in 1 .. n - 1 /\ (n - 1) + 1 = n
    BY <1>1
  <2>2. LastLink(r[n - 1]) = LastLink(s[n])
    BY <1>7, <2>1
  <2>3. s # << >>
    BY <1>1, EmptySeq
  <2> QED BY <1>3, <2>2, <2>3 DEF Closed
<1>10. ASSUME l.changed = TRUE PROVE Inherits(s, r)
  <2> SUFFICES ASSUME NEW j \in 1 .. n - 1
               PROVE  \/ r[j].changed = TRUE
                      \/ \E i \in 1 .. n : r[j] = s[i] /\ (i = n => j = n - 1)
    BY <1>3 DEF Inherits
  <2>1. j + 1 \in 1 .. n /\ (j + 1 = n => j = n - 1)
    BY <1>1
  <2> QED BY <1>4, <1>10, <2>1
<1>11. \A j \in 1 .. n - 1 : ~ (j < 1)
  OBVIOUS
<1> QED BY <1>3, <1>4, <1>5, <1>8, <1>9, <1>10, <1>11 DEF r, c, WithoutTable

(* A cleared entry is one, without data or link.                             *)
LEMMA NoEntryIsEntry == NoEntry \in Entry /\ ~ IsData(NoEntry) /\ NoEntry.type = Empty
BY DEF NoEntry, Entry, IsData, Empty

(* Deleting a primary partition; with the extended one goes the whole chain. *)
LEMMA DeletePrimaryIsSound ==
  ASSUME NEW x \in SoundTables, NEW i \in 0..3
  PROVE  DeletePrimary(x, i) \in SoundTables /\ Remembers(x, DeletePrimary(x, i))
<1> DEFINE cleared == SetPart(x, i, NoEntry)
           y == [cleared EXCEPT !.logical = << >>, !.extended_offset = 0]
<1>1. i \in Numbers(x) /\ i < 4
  BY SoundFields DEF Numbers, Partitions
<1>2. CASE x.primary[i].type = EXTENDED /\ i = x.ext_index
  <2>1. DeletePrimary(x, i) = y
    BY <1>2 DEF DeletePrimary
  <2>2. cleared \in Tables /\ cleared.changed[i] = TRUE
    <3>1. cleared = [x EXCEPT !.primary[i] = NoEntry, !.changed[i] = TRUE]
      BY <1>1 DEF SetPart
    <3>2. x \in Tables
      BY SoundFields
    <3> HIDE DEF cleared
    <3> QED BY <3>1, <3>2, NoEntryIsEntry DEF Tables
  <2> HIDE DEF cleared
  <2>3. << >> \in Seq(AnyTable) /\ << >> \in Seq(SoundTable) /\ Len(<< >>) = 0
    BY EmptySeq
  <2>4. /\ y \in Tables /\ y.logical = << >> /\ y.extended_offset = 0
        /\ y.changed = cleared.changed
    BY <2>2, <2>3 DEF Tables
  <2> HIDE DEF y
  <2>5. Chained(<< >>, 0) /\ Closed(<< >>)
    BY <2>3 DEF Chained, Closed
  <2>6. MaxLogical \in Nat
    BY GeometryNumbers
  <2>7. y \in SoundTables
    BY <2>3, <2>4, <2>5, <2>6 DEF SoundTables
  <2>8. Remembers(x, y)
    BY <2>2, <2>3, <2>4 DEF Remembers, Inherits
  <2> QED BY <2>1, <2>7, <2>8
<1>3. CASE ~ (x.primary[i].type = EXTENDED /\ i = x.ext_index)
  <2>1. DeletePrimary(x, i) = cleared
    BY <1>3 DEF DeletePrimary
  <2>2. ~ (x.extended_offset # 0 /\ i = x.ext_index)
    BY <1>3, SoundFields DEF Extended
  <2> QED BY <1>1, <2>1, <2>2, NoEntryIsEntry, SetPartKeepsShape DEF EXTENDED, Empty
<1> QED BY <1>2, <1>3

(* Deleting the last logical partition: the link to it is cleared, unmarked. *)
LEMMA DeleteLastIsSound ==
  ASSUME NEW x \in SoundTables, NEW i \in Numbers(x), i > 4, ExtEntry(x, i).type = Empty
  PROVE  LET y == ClearLink(Dropped(x, i), i - 1)
         IN  y \in SoundTables /\ Remembers(x, y) /\ i - 3 = Len(x.logical) /\ Closes(x, i - 3, y)
<1> DEFINE s == x.logical
           n == Len(s)
           b == x.extended_offset
           l == s[n - 1]
           c == [l EXCEPT !.slots[l.ext] = NoEntry]
           r == [RemoveAt(s, n) EXCEPT ![n - 1] = c]
           d == [x EXCEPT !.logical = RemoveAt(s, n)]
<1>1. i \in Nat /\ i - 3 \in 1 .. n /\ n \in Nat
  BY PartEntryFacts
<1>2. /\ Chained(s, b) /\ Closed(s) /\ n <= MaxLogical /\ x \in Tables
      /\ \A k \in 1 .. n : s[k] \in SoundTable
  BY SoundFields
<1>3. i - 3 = n
  <2>1. LastLink(s[i - 3]).type = Empty
    BY DEF ExtEntry, LastLink
  <2>2. i - 3 \in 1 .. n - 1 => LastLink(s[i - 3]).type = EXTENDED
    BY <1>2 DEF Chained
  <2> QED BY <1>1, <2>1, <2>2 DEF Empty, EXTENDED
<1>4. n >= 2 /\ n - 1 \in 1 .. n /\ (i - 1) - 3 = n - 1
  BY <1>1, <1>3
<1>5. l \in SoundTable
  BY <1>2, <1>4, SMTT(60)
<1>6. c \in SoundTable /\ c.offset = l.offset /\ LastLink(c) = NoEntry
  <2> HIDE DEF l
  <2> QED BY <1>5, NoEntryIsEntry, ChangedTable
<1>7. Dropped(x, i) = d
  BY <1>3 DEF Dropped
<1>8. RemoveAt(s, n)[n - 1] = l /\ RemoveAt(s, n) \in Seq(SoundTable)
  <2>1. s \in Seq(SoundTable) /\ n \in 1 .. n
    BY <1>1, <1>2, <1>4 DEF Chained
  <2>2. /\ RemoveAt(s, n) \in Seq(SoundTable)
        /\ \A j \in 1 .. n - 1 : RemoveAt(s, n)[j] = IF j < n THEN s[j] ELSE s[j + 1]
    BY <2>1, RemoveAtElements
  <2>3. n - 1 \in 1 .. n - 1 /\ n - 1 < n
    BY <1>4
  <2> QED BY <2>2, <2>3
<1>9. d.logical = RemoveAt(s, n)
  BY <1>2 DEF Tables
<1>10. ClearLink(d, i - 1) = [d EXCEPT !.logical[n - 1] = c]
  BY <1>4, <1>8, <1>9 DEF ClearLink
<1>14. c = WithoutLink(l)
  BY SMTT(60) DEF WithoutLink
<1>15. PartOf(c) = PartOf(l)
  <2> HIDE DEF l
  <2> QED BY <1>5, NoEntryIsEntry, ChangedTable
<1> HIDE DEF c
<1>11. [d EXCEPT !.logical[n - 1] = c] = [x EXCEPT !.logical = r]
  BY <1>2 DEF Tables
<1>12. /\ Chained(r, b) /\ Closed(r) /\ Len(r) = n - 1 /\ r # << >>
       /\ c = WithoutLink(s[n - 1]) => Inherits(s, r)
       /\ \A j \in 1 .. n - 1 : r[j] = IF j = n - 1 THEN c ELSE s[j]
  <2>1. LastLink(c).type = Empty
    BY <1>6, NoEntryIsEntry
  <2> HIDE DEF r
  <2>2. r = [RemoveAt(s, Len(s)) EXCEPT ![Len(s) - 1] = c]
    BY DEF r
  <2> QED BY <1>2, <1>4, <1>6, <2>1, <2>2, LastTableGoes, SMTT(60)
<1> HIDE DEF r
<1>13. /\ [x EXCEPT !.logical = r] \in SoundTables
       /\ Inherits(s, r) => Remembers(x, [x EXCEPT !.logical = r])
  <2>1. r \in Seq(SoundTable) /\ s # << >>
    BY <1>2, <1>4, <1>12, ChainElements
  <2>2. Len(r) <= MaxLogical
    BY <1>1, <1>2, <1>12, GeometryNumbers
  <2> QED BY <1>12, <2>1, <2>2, LogicalReplaced
<1>16. SamePart(c, l)
  BY <1>6, <1>15 DEF SamePart
<1>17. \A j \in 1 .. n - 1 : SamePart(r[j], s[IF j < n THEN j ELSE j + 1])
  <2> TAKE j \in 1 .. n - 1
  <2>1. j < n
    BY <1>4
  <2>2. SamePart(s[j], s[j])
    BY DEF SamePart
  <2> QED BY <1>12, <1>16, <2>1, <2>2
<1>19. \A j \in 2 .. n - 1 : r[j].offset = s[IF j < n THEN j ELSE j + 1].offset
  <2> TAKE j \in 2 .. n - 1
  <2>1. j < n /\ j \in 1 .. n - 1
    BY <1>4
  <2> QED BY <1>6, <1>12, <2>1
<1>18. Closes(x, n, [x EXCEPT !.logical = r])
  BY <1>12, <1>17, <1>19 DEF Closes
<1> QED BY <1>3, <1>7, <1>10, <1>11, <1>12, <1>13, <1>14, <1>18

(* Deleting one between others: its link goes to the table before it,        *)
(* marked.                                                                   *)
LEMMA DeleteMiddleIsSound ==
  ASSUME NEW x \in SoundTables, NEW i \in Numbers(x), i > 4, ExtEntry(x, i).type # Empty
  PROVE  LET y == Dropped(Unlinked(x, i), i)
         IN  y \in SoundTables /\ Remembers(x, y) /\ Closes(x, i - 3, y)
<1> DEFINE s == x.logical
           n == Len(s)
           b == x.extended_offset
           k == i - 3
           q == ExtEntry(x, i)
           e == [q EXCEPT !.type = EXTENDED, !.active = FALSE]
           l == s[k - 1]
           c == [l EXCEPT !.slots[l.ext] = e, !.changed = TRUE]
           w == [s EXCEPT ![k - 1] = c]
           y == [x EXCEPT !.logical = w]
           r == RemoveAt(w, k)
<1>1. i \in Nat /\ k \in 1 .. n /\ n \in Nat
  BY PartEntryFacts
<1>2. /\ Chained(s, b) /\ Closed(s) /\ n <= MaxLogical /\ x \in Tables
      /\ \A j \in 1 .. n : s[j] \in SoundTable
  BY SoundFields
<1>3. q = LastLink(s[k]) /\ q \in Entry
  <2>1. q = LastLink(s[k])
    BY DEF ExtEntry, LastLink
  <2>2. s[k] \in SoundTable
    BY <1>1, <1>2
  <2> QED BY <2>1, <2>2, TableFields
<1>4. k \in 2 .. n - 1
  <2>1. n # 0 => s # << >>
    BY <1>2, ChainElements
  <2>2. k = n => LastLink(s[k]).type = Empty
    BY <1>1, <1>2, <2>1 DEF Closed
  <2> HIDE DEF q
  <2>3. k # n
    BY <1>3, <2>2 DEF q
  <2> QED BY <1>1, <2>3
<1>5. k - 1 \in 1 .. n /\ (i - 1) - 3 = k - 1 /\ l \in SoundTable
  BY <1>1, <1>2, <1>4
<1> HIDE DEF q
<1>6. e \in Entry /\ e.type = EXTENDED /\ e.start = q.start
  BY <1>3 DEF Entry
<1>7. Unlinked(x, i) = SetLink(x, i - 1, e)
  BY DEF Unlinked, q
<1> HIDE DEF e
<1>8. SetLink(x, i - 1, e) = y
  <2> DEFINE m == (i - 1) - 3
  <2>1. m = k - 1
    BY <1>5
  <2>2. SetLink(x, i - 1, e) =
          [x EXCEPT !.logical[m] =
             [x.logical[m] EXCEPT !.slots[x.logical[m].ext] = e, !.changed = TRUE]]
    BY DEF SetLink
  <2> HIDE DEF m
  <2> QED BY <2>1, <2>2
<1>9. /\ c \in SoundTable /\ c.offset = l.offset /\ LastLink(c) = e /\ c.changed = TRUE
      /\ PartOf(c) = PartOf(l)
  <2>1. ~ IsData(e)
    BY <1>6 DEF IsData
  <2> HIDE DEF l
  <2> QED BY <1>5, <1>6, <2>1, ChangedTable
<1> HIDE DEF c
<1>10. y.logical = w
  BY <1>2 DEF Tables
<1>11. Dropped(y, i) = [x EXCEPT !.logical = r]
  <2>1. [y EXCEPT !.logical = RemoveAt(y.logical, i - 3)] = [x EXCEPT !.logical = r]
    <3> HIDE DEF w
    <3> QED BY <1>2, <1>10 DEF Tables
  <2> QED BY <2>1 DEF Dropped
<1>12. /\ Chained(r, b) /\ Closed(r) /\ Len(r) = n - 1 /\ r # << >>
       /\ Inherits(s, r)
       /\ \A j \in 1 .. n - 1 :
            r[j] = IF j = k - 1 THEN c ELSE IF j < k THEN s[j] ELSE s[j + 1]
  <2>1. LastLink(c).type = EXTENDED /\ LastLink(c).start = LastLink(s[k]).start
    BY <1>3, <1>6, <1>9
  <2> HIDE DEF k, r
  <2>2. r = RemoveAt([s EXCEPT ![k - 1] = c], k)
    BY DEF r
  <2>3. WithoutTable(s, b, k, k - 1, c, RemoveAt([s EXCEPT ![k - 1] = c], k))
    <3>1. /\ Chained(s, b) /\ Closed(s) /\ k \in 2 .. Len(s) - 1 /\ c \in SoundTable
          /\ c.offset = s[k - 1].offset
          /\ LastLink(c).type = EXTENDED /\ LastLink(c).start = LastLink(s[k]).start
      BY <1>2, <1>4, <1>9, <2>1
    <3> HIDE DEF s, b
    <3> QED BY <3>1, MiddleTableGoes
  <2> QED BY <1>9, <2>2, <2>3 DEF WithoutTable
<1> HIDE DEF r
<1>13. /\ [x EXCEPT !.logical = r] \in SoundTables
       /\ Inherits(s, r) => Remembers(x, [x EXCEPT !.logical = r])
  <2>1. r \in Seq(SoundTable) /\ s # << >>
    BY <1>1, <1>2, <1>4, <1>12, ChainElements
  <2>2. Len(r) <= MaxLogical
    BY <1>1, <1>2, <1>12, GeometryNumbers
  <2> QED BY <1>12, <2>1, <2>2, LogicalReplaced
<1>14. \A j \in 1 .. n - 1 : SamePart(r[j], s[IF j < k THEN j ELSE j + 1])
  <2> TAKE j \in 1 .. n - 1
  <2>1. SamePart(c, l)
    BY <1>9 DEF SamePart
  <2>2. \A h : SamePart(s[h], s[h])
    BY DEF SamePart
  <2>3. k - 1 < k
    BY <1>1
  <2> QED BY <1>12, <2>1, <2>2, <2>3
<1>16. \A j \in 2 .. n - 1 : r[j].offset = s[IF j < k THEN j ELSE j + 1].offset
  <2> TAKE j \in 2 .. n - 1
  <2>1. k - 1 < k /\ j \in 1 .. n - 1
    BY <1>1
  <2> QED BY <1>9, <1>12, <2>1
<1>15. Closes(x, k, [x EXCEPT !.logical = r])
  BY <1>12, <1>14, <1>16 DEF Closes
<1> QED BY <1>7, <1>8, <1>11, <1>12, <1>13, <1>15

(* A table moved to an earlier sector, with the start counted from there.    *)
LEMMA MovedTable ==
  ASSUME NEW l \in SoundTable, NEW b \in Nat, b >= 1, b <= l.offset
  PROVE  LET c == [l EXCEPT !.slots[l.part].start = @ + l.offset - b,
                            !.offset = b, !.changed = TRUE]
         IN  /\ c \in SoundTable /\ c.offset = b /\ LastLink(c) = LastLink(l)
             /\ c.changed = TRUE
             /\ PartOf(c) = [PartOf(l) EXCEPT !.start = PartOf(l).start + l.offset - b]
<1> DEFINE o == PartOf(l)
           e == [o EXCEPT !.start = o.start + l.offset - b]
           w == [l.slots EXCEPT ![l.part] = e]
           c == [l EXCEPT !.slots[l.part].start = @ + l.offset - b,
                          !.offset = b, !.changed = TRUE]
           g == [l EXCEPT !.slots = w, !.offset = b, !.changed = TRUE]
<1>1. /\ l \in Table /\ l.slots \in [0..3 -> Entry]
      /\ l.part \in 0..3 /\ l.ext \in 0..3 /\ l.part # l.ext
      /\ l.offset \in Nat /\ l.offset <= Total - 1
      /\ o \in Entry
      /\ IsData(o) => l.offset <= o.begin
  BY TableFields
<1>2. o.start + l.offset - b \in Nat
  BY <1>1, EntryFields
<1>3. e \in Entry /\ e.type = o.type /\ e.begin = o.begin
  BY <1>1, <1>2 DEF Entry
<1>4. c = g
  BY DEF PartOf
<1>5. w \in [0..3 -> Entry] /\ w[l.part] = e /\ w[l.ext] = l.slots[l.ext]
  <2> HIDE DEF e
  <2> QED BY <1>1, <1>3
<1>6. b \in 1 .. Total - 1
  BY <1>1, TotalIsPositive
<1> HIDE DEF w, c
<1>7. /\ g \in Table /\ g.slots = w /\ g.offset = b /\ g.changed = TRUE
      /\ g.part = l.part /\ g.ext = l.ext
  BY <1>1, <1>5, <1>6 DEF Table
<1>11. Clean(g)
  <2>1. Clean(l)
    BY TableFields
  <2>2. e.type = PartOf(l).type
    BY <1>3
  <2> HIDE DEF g, e, o
  <2>3. \A j \in 0..3 : g.slots[j].type = l.slots[j].type
    BY <1>1, <1>5, <1>7, <2>2 DEF w, PartOf
  <2> QED BY <1>7, <2>1, <2>3 DEF Clean, IsData
<1> HIDE DEF g, e
<1>8. PartOf(g) = e /\ LastLink(g) = LastLink(l)
  BY <1>5, <1>7 DEF PartOf, LastLink
<1>9. IsData(e) => b <= e.begin
  <2>1. IsData(e) <=> IsData(o)
    BY <1>3 DEF IsData
  <2>2. o.begin \in Nat
    BY <1>1, EntryFields
  <2> HIDE DEF o
  <2> QED BY <1>1, <1>3, <2>1, <2>2
<1>10. g \in SoundTable
  BY <1>1, <1>7, <1>8, <1>9, <1>11 DEF SoundTable
<1> QED BY <1>4, <1>7, <1>8, <1>10 DEF c, e

(* Deleting the first of several: the second takes over its sector, marked.  *)
LEMMA DeleteFirstIsSound ==
  ASSUME NEW x \in SoundTables, Len(x.logical) >= 2
  PROVE  LET y == Dropped(Rebased(x), 4)
         IN  y \in SoundTables /\ Remembers(x, y) /\ Closes(x, 1, y)
<1> DEFINE s == x.logical
           n == Len(s)
           b == x.extended_offset
           l == s[2]
           c == [l EXCEPT !.slots[l.part].start = @ + l.offset - b,
                          !.offset = b, !.changed = TRUE]
           w == [s EXCEPT ![2] = c]
           y == [x EXCEPT !.logical = w]
           r == RemoveAt(w, 1)
<1>1. /\ Chained(s, b) /\ Closed(s) /\ n <= MaxLogical /\ x \in Tables
      /\ n \in Nat /\ n >= 2 /\ b \in Nat /\ s # << >> /\ b # 0
      /\ \A j \in 1 .. n : s[j] \in SoundTable
  BY SoundFields
<1>2. l \in SoundTable /\ b <= l.offset
  <2>1. 1 \in 1 .. n - 1 /\ 1 \in 1 .. n /\ 2 \in 1 .. n /\ 1 + 1 = 2
    BY <1>1
  <2>2. b + LastLink(s[1]).start = l.offset
    BY <1>1, <2>1 DEF Chained
  <2>3. LastLink(s[1]).start \in Nat
    BY <1>1, <2>1, TableFields, EntryFields
  <2>4. l \in SoundTable
    BY <1>1, <2>1
  <2> HIDE DEF l
  <2> QED BY <1>1, <2>2, <2>3, <2>4
<1>3. /\ c \in SoundTable /\ c.offset = b /\ LastLink(c) = LastLink(l)
      /\ c.changed = TRUE
      /\ PartOf(c) = [PartOf(l) EXCEPT !.start = PartOf(l).start + l.offset - b]
  <2>1. b \in Nat /\ b >= 1
    BY <1>1
  <2> HIDE DEF l, b
  <2>2. l \in SoundTable /\ b <= l.offset
    BY <1>2
  <2>3. LET d == [l EXCEPT !.slots[l.part].start = @ + l.offset - b,
                          !.offset = b, !.changed = TRUE]
        IN  /\ d \in SoundTable /\ d.offset = b /\ LastLink(d) = LastLink(l)
            /\ d.changed = TRUE
            /\ PartOf(d) = [PartOf(l) EXCEPT !.start = PartOf(l).start + l.offset - b]
    BY <2>1, <2>2, MovedTable, Zenon
  <2> QED BY <2>3
<1>4. Rebased(x) = y
  BY DEF Rebased
<1> HIDE DEF c
<1>5. y.logical = w
  BY <1>1 DEF Tables
<1>6. Dropped(y, 4) = [x EXCEPT !.logical = r]
  <2>1. [y EXCEPT !.logical = RemoveAt(y.logical, 4 - 3)] = [x EXCEPT !.logical = r]
    <3>1. 4 - 3 = 1
      OBVIOUS
    <3> HIDE DEF w
    <3> QED BY <1>1, <1>5, <3>1 DEF Tables
  <2> QED BY <2>1 DEF Dropped
<1>7. /\ Chained(r, b) /\ Closed(r) /\ Len(r) = n - 1 /\ r # << >>
      /\ Inherits(s, r)
      /\ \A j \in 1 .. n - 1 : r[j] = IF j = 1 THEN c ELSE s[j + 1]
  <2> HIDE DEF r
  <2>1. r = RemoveAt([s EXCEPT ![2] = c], 1)
    BY DEF r
  <2>2. WithoutTable(s, b, 1, 1, c, RemoveAt([s EXCEPT ![2] = c], 1))
    <3>1. /\ Chained(s, b) /\ Closed(s) /\ Len(s) >= 2 /\ c \in SoundTable
          /\ c.offset = b /\ LastLink(c) = LastLink(s[2])
      BY <1>1, <1>3
    <3> HIDE DEF s, b
    <3> QED BY <3>1, FirstTableGoes
  <2>3. \A j \in 1 .. n - 1 : ~ (j < 1)
    OBVIOUS
  <2> QED BY <1>3, <2>1, <2>2, <2>3 DEF WithoutTable
<1> HIDE DEF r
<1>8. /\ [x EXCEPT !.logical = r] \in SoundTables
      /\ Inherits(s, r) => Remembers(x, [x EXCEPT !.logical = r])
  <2>1. r \in Seq(SoundTable)
    BY <1>7, ChainElements
  <2>2. Len(r) <= MaxLogical
    BY <1>1, <1>7, GeometryNumbers
  <2> QED BY <1>1, <1>7, <2>1, <2>2, LogicalReplaced
<1>9. SamePart(c, l)
  <2> DEFINE p == PartOf(l)
             q == PartOf(c)
  <2>1. p \in Entry /\ p.start \in Nat /\ l.offset \in Nat /\ b \in Nat
    BY <1>1, <1>2, TableFields, EntryFields
  <2>2. q = [p EXCEPT !.start = p.start + l.offset - b]
    BY <1>3
  <2> HIDE DEF p, q
  <2>3. /\ q.type = p.type /\ q.active = p.active /\ q.begin = p.begin /\ q.size = p.size
        /\ q.start = p.start + l.offset - b
    BY <2>1, <2>2 DEF Entry
  <2>4. c.offset + q.start = l.offset + p.start
    BY <1>3, <2>1, <2>3
  <2> QED BY <2>3, <2>4 DEF SamePart, p, q
<1>10. \A j \in 1 .. n - 1 : SamePart(r[j], s[IF j < 1 THEN j ELSE j + 1])
  <2> TAKE j \in 1 .. n - 1
  <2>1. ~ (j < 1) /\ (j = 1 => j + 1 = 2)
    BY <1>1
  <2>2. \A h : SamePart(s[h], s[h])
    BY DEF SamePart
  <2> QED BY <1>7, <1>9, <2>1, <2>2
<1>12. \A j \in 2 .. n - 1 : r[j].offset = s[IF j < 1 THEN j ELSE j + 1].offset
  <2> TAKE j \in 2 .. n - 1
  <2>1. ~ (j < 1) /\ j # 1 /\ j \in 1 .. n - 1
    BY <1>1
  <2> QED BY <1>7, <2>1
<1>11. Closes(x, 1, [x EXCEPT !.logical = r])
  BY <1>7, <1>10, <1>12 DEF Closes
<1> QED BY <1>4, <1>6, <1>7, <1>8, <1>11

(* delete_partition keeps the tables sound, whichever partition goes.        *)
LEMMA DeleteIsSound ==
  ASSUME NEW x \in SoundTables, NEW i \in Numbers(x)
  PROVE  DeletePartition(x, i) \in SoundTables /\ Remembers(x, DeletePartition(x, i))
<1>1. i \in Nat /\ i < 4 + Len(x.logical) /\ Len(x.logical) \in Nat
  BY PartEntryFacts
<1>2. CASE i < 4
  <2>1. i \in 0..3 /\ DeletePartition(x, i) = DeletePrimary(x, i)
    BY <1>1, <1>2 DEF DeletePartition
  <2> QED BY <2>1, DeletePrimaryIsSound
<1>3. CASE i > 4 /\ ExtEntry(x, i).type = Empty
  <2>1. DeletePartition(x, i) = ClearLink(Dropped(x, i), i - 1)
    BY <1>1, <1>3 DEF DeletePartition
  <2> QED BY <1>3, <2>1, DeleteLastIsSound
<1>4. CASE i > 4 /\ ExtEntry(x, i).type # Empty
  <2>1. DeletePartition(x, i) = Dropped(Unlinked(x, i), i)
    BY <1>1, <1>4 DEF DeletePartition
  <2> QED BY <1>4, <2>1, DeleteMiddleIsSound
<1>5. CASE i = 4 /\ Partitions(x) > 5
  <2>1. DeletePartition(x, i) = Dropped(Rebased(x), 4) /\ Len(x.logical) >= 2
    BY <1>1, <1>5 DEF DeletePartition, Partitions
  <2> QED BY <2>1, DeleteFirstIsSound
<1>6. CASE i = 4 /\ ~ (Partitions(x) > 5)
  <2>1. DeletePartition(x, i) = SetPart(x, i, NoEntry)
    BY <1>6 DEF DeletePartition
  <2>2. ~ (i < 4)
    BY <1>6
  <2> QED BY <2>1, <2>2, NoEntryIsEntry, SetPartKeepsShape DEF EXTENDED, Empty
<1> QED BY <1>1, <1>2, <1>3, <1>4, <1>5, <1>6

-----------------------------------------------------------------------------
(* Adding.                                                                  *)
LEMMA NewEntryIsEntry ==
  ASSUME NEW type \in {Empty, EXTENDED} \cup Types, NEW start \in Nat, NEW stop \in Nat,
         NEW offset \in Nat, start <= stop, offset <= start
  PROVE  LET e == NewEntry(type, start, stop, offset)
         IN  /\ e \in Entry /\ e.type = type /\ e.begin = start
             /\ e.start = start - offset /\ e.size = stop - start + 1
<1>1. start - offset \in Nat /\ stop - start + 1 \in Nat
  OBVIOUS
<1> QED BY <1>1 DEF NewEntry, Entry

(* A new partition is one for data.                                          *)
LEMMA LinuxIsData == Linux \in Types /\ Linux \notin {Empty, EXTENDED}
BY TypesAssumption DEF Types

(* And so is what is entered for it.                                          *)
LEMMA NewDataEntry ==
  \A start, stop, offset \in Nat :
    start <= stop /\ offset <= start
    => /\ NewEntry(Linux, start, stop, offset) \in Entry
       /\ NewEntry(Linux, start, stop, offset).begin = start
<1> SUFFICES ASSUME NEW start \in Nat, NEW stop \in Nat, NEW offset \in Nat,
                    start <= stop, offset <= start
             PROVE  /\ NewEntry(Linux, start, stop, offset) \in Entry
                    /\ NewEntry(Linux, start, stop, offset).begin = start
  OBVIOUS
<1> QED BY LinuxIsData, NewEntryIsEntry

(* A new logical table is empty.                                             *)
LEMMA NewLogicalIsSound ==
  ASSUME NEW a \in 1 .. Total - 1
  PROVE  LET l == NewLogical(a)
         IN  /\ l \in SoundTable /\ l.offset = a
             /\ LastLink(l) = NoEntry /\ PartOf(l) = NoEntry
<1> DEFINE l == NewLogical(a)
<1>1. NoSlots \in [0..3 -> Entry] /\ NoSlots[0] = NoEntry /\ NoSlots[1] = NoEntry
  BY NoEntryIsEntry DEF NoSlots
<1>2. /\ l \in Table /\ l.offset = a /\ l.part = 0 /\ l.ext = 1
      /\ l.slots = NoSlots
  BY <1>1 DEF NewLogical, Table
<1> HIDE DEF l
<1>3. LastLink(l) = NoEntry /\ PartOf(l) = NoEntry
  BY <1>1, <1>2 DEF LastLink, PartOf
<1>4. l \in SoundTable
  BY <1>1, <1>2, <1>3, NoEntryIsEntry DEF SoundTable, Clean, NoSlots, EXTENDED, Empty
<1> QED BY <1>2, <1>3, <1>4 DEF l

(* add_partition keeps the tables sound for a primary partition.             *)
LEMMA AddPrimaryIsSound ==
  ASSUME NEW x \in SoundTables, NEW n \in 0..3, x.primary[n].type = Empty,
         NEW start \in Nat, NEW stop \in Nat, start <= stop
  PROVE  LET y == AddPrimary(x, n, start, stop)
         IN  y \in SoundTables /\ Remembers(x, y)
<1> DEFINE e == NewEntry(Linux, start, stop, 0)
<1>1. e \in Entry
  BY LinuxIsData, NewEntryIsEntry
<1>2. n \in Numbers(x)
  BY SoundFields DEF Numbers, Partitions
<1>3. ~ (x.extended_offset # 0 /\ n = x.ext_index)
  BY SoundFields DEF Extended, Empty, EXTENDED
<1> HIDE DEF e
<1>4. SetPart(x, n, e) \in SoundTables /\ Remembers(x, SetPart(x, n, e))
  BY <1>1, <1>2, <1>3, SetPartKeepsShape
<1> QED BY <1>4 DEF AddPrimary, e

(* The same for the extended partition, which gets its first, empty table.   *)
LEMMA AddExtendedIsSound ==
  ASSUME NEW x \in SoundTables, NEW n \in 0..3,
         NEW start \in Nat, NEW stop \in Nat, 1 <= start, start <= stop, stop <= Total - 1
  PROVE  LET y == AddExtended(x, n, start, stop)
         IN  /\ y \in SoundTables /\ Remembers(x, y)
             /\ y.extended_offset = start /\ y.ext_index = n
             /\ Len(y.logical) = 1 /\ PartOf(y.logical[1]) = NoEntry
             /\ y.primary = [x.primary EXCEPT ![n] = NewEntry(EXTENDED, start, stop, 0)]
<1> DEFINE e == NewEntry(EXTENDED, start, stop, 0)
           l == NewLogical(start)
           z == SetPart(x, n, e)
           y == [z EXCEPT !.ext_index = n, !.extended_offset = start, !.logical = << l >>]
<1>1. /\ e \in Entry /\ e.type = EXTENDED /\ e.start = start /\ e.size = stop - start + 1
  <2>1. EXTENDED \in {Empty, EXTENDED} \cup Types /\ start - 0 = start /\ 0 <= start
    OBVIOUS
  <2>2. /\ e \in Entry /\ e.type = EXTENDED
        /\ e.start = start - 0 /\ e.size = stop - start + 1
    <3>1. start - 0 \in Nat /\ stop - start + 1 \in Nat
      OBVIOUS
    <3> QED BY <2>1, <3>1 DEF NewEntry, Entry
  <2> QED BY <2>1, <2>2
<1>2. AddExtended(x, n, start, stop) = y
  BY DEF AddExtended
<1>3. z = [x EXCEPT !.primary[n] = e, !.changed[n] = TRUE]
  BY DEF SetPart
<1>4. start \in 1 .. Total - 1
  BY TotalIsPositive
<1>5. l \in SoundTable /\ l.offset = start /\ LastLink(l) = NoEntry /\ PartOf(l) = NoEntry
  BY <1>4, NewLogicalIsSound
<1>15. l.changed = TRUE
  BY DEF NewLogical
<1> HIDE DEF e, l
<1>6. /\ z \in Tables /\ z.primary[n] = e /\ z.changed[n] = TRUE
      /\ z.primary = [x.primary EXCEPT ![n] = e]
  <2>1. x \in Tables
    BY SoundFields
  <2> HIDE DEF z
  <2> QED BY <1>1, <1>3, <2>1 DEF Tables
<1> HIDE DEF z
<1>7. l \in AnyTable
  BY <1>5, TableFields
<1>8. /\ << l >> \in Seq(AnyTable) /\ << l >> \in Seq(SoundTable)
      /\ Len(<< l >>) = 1 /\ << l >>[1] = l /\ << l >> # << >>
  <2>1. << l >> \in Seq(AnyTable)
    BY <1>7
  <2>2. << l >> \in Seq(SoundTable)
    BY <1>5
  <2>3. Len(<< l >>) = 1 /\ << l >>[1] = l
    OBVIOUS
  <2> QED BY <2>1, <2>2, <2>3, EmptySeq
<1> DEFINE s == << l >>
<1>9. s \in Seq(AnyTable) /\ s \in Seq(SoundTable) /\ Len(s) = 1 /\ s[1] = l /\ s # << >>
  BY <1>8
<1> HIDE DEF s
<1>10. /\ y \in Tables /\ y.ext_index = n /\ y.extended_offset = start /\ y.logical = s
       /\ y.primary = z.primary /\ y.changed = z.changed
  <2>1. y = [z EXCEPT !.ext_index = n, !.extended_offset = start, !.logical = s]
    BY DEF s
  <2> HIDE DEF y
  <2> QED BY <1>6, <1>9, <2>1 DEF Tables
<1> HIDE DEF y
<1>11. Extended(y) = e
  BY <1>6, <1>10 DEF Extended
<1>12. Chained(s, start) /\ Closed(s)
  <2>1. Chained(s, start)
    BY <1>5, <1>9 DEF Chained
  <2>2. Closed(s)
    BY <1>5, <1>9, NoEntryIsEntry DEF Closed
  <2> QED BY <2>1, <2>2
<1>13. start + (stop - start + 1) <= Total
  BY TotalIsPositive
<1>14. y \in SoundTables
  <2>1. Len(y.logical) <= MaxLogical
    BY <1>9, <1>10, GeometryNumbers
  <2>2. Chained(y.logical, y.extended_offset) /\ Closed(y.logical)
    BY <1>10, <1>12
  <2>3. y.logical # << >> /\ y.extended_offset # 0
    BY <1>9, <1>10
  <2>4. /\ Extended(y).type = EXTENDED
        /\ Extended(y).start = y.extended_offset
        /\ Extended(y).start + Extended(y).size <= Total
    BY <1>1, <1>10, <1>11, <1>13
  <2> QED BY <1>10, <2>1, <2>2, <2>3, <2>4 DEF SoundTables
<1>16. Remembers(x, y)
  <2>1. Inherits(x.logical, y.logical)
    <3>1. \A j \in 1 .. Len(s) : j = 1
      BY <1>9
    <3>2. \A j \in 1 .. Len(s) : s[j].changed = TRUE
      BY <1>9, <1>15, <3>1
    <3> QED BY <1>10, <3>2 DEF Inherits
  <2> QED BY <1>6, <1>10, <2>1 DEF Remembers
<1>17. /\ y.extended_offset = start /\ y.ext_index = n
       /\ Len(y.logical) = 1 /\ PartOf(y.logical[1]) = NoEntry
       /\ y.primary = [x.primary EXCEPT ![n] = e]
  BY <1>5, <1>6, <1>9, <1>10
<1> QED BY <1>2, <1>14, <1>16, <1>17 DEF e

(* Exchanging an element before or after appending one.                      *)
LEMMA AppendThenReplace ==
  ASSUME NEW S, NEW s \in Seq(S), NEW e \in S, NEW f \in S
  PROVE  /\ [Append(s, e) EXCEPT ![Len(s) + 1] = f] = Append(s, f)
         /\ \A k \in 1 .. Len(s) :
              [Append(s, e) EXCEPT ![k] = f] = Append([s EXCEPT ![k] = f], e)
<1> DEFINE n == Len(s)
           a == Append(s, e)
<1>1. n \in Nat
  BY LenProperties
<1>2. /\ a \in Seq(S) /\ Len(a) = n + 1 /\ a[n + 1] = e
      /\ \A j \in 1 .. n : a[j] = s[j]
  BY AppendProperties
<1> HIDE DEF a
<1>3. [a EXCEPT ![n + 1] = f] = Append(s, f)
  <2> DEFINE p == [a EXCEPT ![n + 1] = f]
             q == Append(s, f)
  <2>1. /\ q \in Seq(S) /\ Len(q) = n + 1 /\ q[n + 1] = f
        /\ \A j \in 1 .. n : q[j] = s[j]
    BY AppendProperties
  <2>2. /\ p \in Seq(S) /\ Len(p) = Len(a)
        /\ \A j \in 1 .. Len(a) : p[j] = IF j = n + 1 THEN f ELSE a[j]
    <3>1. n + 1 \in 1 .. Len(a)
      BY <1>1, <1>2
    <3> QED BY <1>2, <3>1, ExceptSeq
  <2> HIDE DEF p, q
  <2>3. \A j \in 1 .. Len(p) : p[j] = q[j]
    BY <1>1, <1>2, <2>1, <2>2
  <2>4. Len(p) = Len(q)
    BY <1>2, <2>1, <2>2
  <2>5. p = q
    BY <2>1, <2>2, <2>3, <2>4, SeqEqual
  <2> QED BY <2>5 DEF p, q
<1>4. ASSUME NEW k \in 1 .. n
      PROVE  [a EXCEPT ![k] = f] = Append([s EXCEPT ![k] = f], e)
  <2> DEFINE p == [a EXCEPT ![k] = f]
             r == [s EXCEPT ![k] = f]
             q == Append(r, e)
  <2>1. /\ r \in Seq(S) /\ Len(r) = n
        /\ \A j \in 1 .. n : r[j] = IF j = k THEN f ELSE s[j]
    BY ExceptSeq
  <2>2. /\ p \in Seq(S) /\ Len(p) = Len(a)
        /\ \A j \in 1 .. Len(a) : p[j] = IF j = k THEN f ELSE a[j]
    <3>1. k \in 1 .. Len(a)
      BY <1>1, <1>2
    <3> QED BY <1>2, <3>1, ExceptSeq
  <2> HIDE DEF p, r
  <2>3. /\ q \in Seq(S) /\ Len(q) = Len(r) + 1 /\ q[Len(r) + 1] = e
        /\ \A j \in 1 .. Len(r) : q[j] = r[j]
    BY <2>1, AppendProperties
  <2> HIDE DEF q
  <2>4. \A j \in 1 .. Len(p) : p[j] = q[j]
    BY <1>1, <1>2, <2>1, <2>2, <2>3, SMTT(60)
  <2>5. Len(p) = Len(q)
    BY <1>2, <2>1, <2>2, <2>3
  <2>6. p = q
    BY <2>2, <2>3, <2>4, <2>5, SeqEqual
  <2> QED BY <2>6 DEF p, q, r
<1> QED BY <1>3, <1>4 DEF a

(* The last table of a chain may change its link too.                        *)
LEMMA LastReplaced ==
  ASSUME NEW b, NEW s, Chained(s, b), s # << >>, NEW l \in SoundTable,
         l.offset = s[Len(s)].offset
  PROVE  LET r == [s EXCEPT ![Len(s)] = l]
         IN  /\ Chained(r, b) /\ Len(r) = Len(s) /\ r # << >>
             /\ r[Len(s)] = l
<1> DEFINE n == Len(s)
           r == [s EXCEPT ![n] = l]
<1>1. n \in Nat /\ 1 \in 1 .. n /\ n \in 1 .. n
  BY ChainElements
<1>2. /\ r \in Seq(SoundTable)
      /\ Len(r) = n
      /\ \A j \in 1 .. n : r[j] = IF j = n THEN l ELSE s[j]
  BY <1>1, ChainReplaced
<1> HIDE DEF r
<1>3. \A j \in 1 .. n : r[j].offset = s[j].offset
  BY <1>2
<1>4. r # << >>
  BY <1>1, <1>2, EmptySeq
<1>5. Chained(r, b)
  <2>1. r[1].offset = b
    BY <1>1, <1>3 DEF Chained
  <2>2. ASSUME NEW j \in 1 .. n - 1
        PROVE  LastLink(r[j]).type = EXTENDED /\ b + LastLink(r[j]).start = r[j + 1].offset
    <3>1. j \in 1 .. n /\ j # n /\ j + 1 \in 1 .. n
      BY <1>1
    <3> QED BY <1>2, <1>3, <3>1 DEF Chained
  <2> QED BY <1>2, <2>1, <2>2 DEF Chained
<1> QED BY <1>1, <1>2, <1>4, <1>5 DEF r

(* A logical partition is looked for in the extended one, whose tables have *)
(* one more that is still empty if the first is in use.                     *)
LEMMA RoomForOne ==
  ASSUME NEW x \in SoundTables, x.extended_offset # 0, NEW v \in Units
  PROVE  LET r == Room(x)
             n == Partitions(r) - 1
         IN  /\ r \in Tables /\ n \in Nat /\ n >= 4
             /\ LimitOf(r, n) \in Nat /\ LimitOf(r, n) <= Total - 1
             /\ Base(r, v, n) = x.extended_offset + v.sector_offset
             /\ ~ NeedsTable(x) => r = x /\ n = 4
             /\ NeedsTable(x) =>
                  /\ n = Len(x.logical) + 4
                  /\ r = [x EXCEPT !.logical = Append(x.logical, NewLogical(0))]
<1> DEFINE r == Room(x)
           n == Partitions(r) - 1
           s == x.logical
<1>1. /\ x \in Tables /\ s \in Seq(AnyTable) /\ Len(s) \in Nat /\ Len(s) # 0
      /\ x.ext_index \in 0..3
  BY SoundFields, ChainElements
<1>2. NewLogical(0) \in AnyTable
  <2>1. NoSlots \in [0..3 -> Entry]
    BY NoEntryIsEntry DEF NoSlots
  <2> QED BY <2>1 DEF NewLogical, AnyTable
<1>3. Append(s, NewLogical(0)) \in Seq(AnyTable) /\ Len(Append(s, NewLogical(0))) = Len(s) + 1
  BY <1>1, <1>2, AppendProperties
<1>4. /\ r \in Tables /\ r.ext_index = x.ext_index /\ r.primary = x.primary
      /\ r.extended_offset = x.extended_offset
      /\ n \in Nat /\ n >= 4
      /\ ~ NeedsTable(x) => r = x /\ n = 4
      /\ NeedsTable(x) =>
           /\ n = Len(x.logical) + 4
           /\ r = [x EXCEPT !.logical = Append(x.logical, NewLogical(0))]
  <2>1. CASE NeedsTable(x)
    <3> DEFINE a == Append(s, NewLogical(0))
    <3>1. r = [x EXCEPT !.logical = a]
      BY <2>1 DEF Room
    <3> HIDE DEF a
    <3>2. /\ r \in Tables /\ r.ext_index = x.ext_index /\ r.primary = x.primary
          /\ r.extended_offset = x.extended_offset /\ r.logical = a
      <4> HIDE DEF r
      <4> QED BY <1>1, <1>3, <3>1 DEF Tables, a
    <3> HIDE DEF r
    <3>3. Partitions(r) = 4 + (Len(s) + 1)
      BY <1>3, <3>2 DEF Partitions, a
    <3>4. n = Len(s) + 4
      BY <1>1, <3>3
    <3> QED BY <1>1, <2>1, <3>1, <3>2, <3>4 DEF a
  <2>2. CASE ~ NeedsTable(x)
    <3>1. r = x
      BY <2>2 DEF Room
    <3>2. Partitions(x) = 4 + Len(s) /\ ~ (Partitions(x) > 5)
      BY <2>2 DEF NeedsTable, Partitions
    <3>3. n = 4
      BY <1>1, <3>1, <3>2
    <3> QED BY <1>1, <2>2, <3>1, <3>3
  <2> QED BY <2>1, <2>2
<1> HIDE DEF r, n
<1>5. LimitOf(r, n) = Extended(x).start + Extended(x).size - 1
  <2>1. LimitOf(r, n) = LastSector(r, r.ext_index)
    BY <1>4 DEF LimitOf
  <2>2. PartEntry(r, r.ext_index) = Extended(x) /\ Offset(r, r.ext_index) = 0
    BY <1>1, <1>4 DEF PartEntry, Offset, Extended
  <2>3. Extended(x).start \in Nat /\ Extended(x).size \in Nat
    BY SoundFields, EntryFields
  <2> QED BY <2>1, <2>2, <2>3 DEF LastSector
<1>6. LimitOf(r, n) \in Nat /\ LimitOf(r, n) <= Total - 1
  <2>1. /\ Extended(x).start \in Nat /\ Extended(x).size \in Nat /\ Extended(x).start # 0
        /\ Extended(x).start + Extended(x).size <= Total
    BY SoundFields, EntryFields
  <2> QED BY <1>5, <2>1, TotalIsPositive
<1>7. Base(r, v, n) = x.extended_offset + v.sector_offset
  BY <1>4 DEF Base
<1> QED BY <1>4, <1>6, <1>7 DEF r, n

(* y is x with one more logical partition, whose table is in sector a.      *)
Grows(x, a, e, y) ==
  \E r : /\ y = [x EXCEPT !.logical = r]
         /\ Len(r) = Len(x.logical) + 1
         /\ \A j \in 1 .. Len(x.logical) : SamePart(r[j], x.logical[j])
         /\ \A j \in 1 .. Len(x.logical) : r[j].offset = x.logical[j].offset
         /\ r[Len(x.logical) + 1].offset = a
         /\ PartOf(r[Len(x.logical) + 1]) = e

(* The same for a logical partition, in the first table or in a new one.     *)
LEMMA AddLogicalIsSound ==
  ASSUME NEW x \in SoundTables, x.extended_offset # 0, NEW v \in Units,
         Len(x.logical) < MaxLogical, NEW start \in Nat, NEW stop \in Nat,
         x.extended_offset + v.sector_offset <= start, start <= stop, stop <= Total - 1
  PROVE  LET y == AddLogical(Room(x), v, start, stop)
             a == start - v.sector_offset
         IN  /\ y \in SoundTables /\ Remembers(x, y)
             /\ ~ NeedsTable(x) =>
                  /\ y = SetPart(x, 4, NewEntry(Linux, start, stop, Offset(x, 4)))
                  /\ 4 \in Numbers(x) /\ Offset(x, 4) = x.extended_offset
             /\ NeedsTable(x) => Grows(x, a, NewEntry(Linux, start, stop, a), y)
<1> DEFINE s == x.logical
           m == Len(s)
           b == x.extended_offset
           r == Room(x)
           n == Partitions(r) - 1
           a == start - v.sector_offset
<1>1. /\ x \in Tables /\ Chained(s, b) /\ Closed(s) /\ s # << >> /\ m \in Nat /\ m # 0
      /\ b \in Nat /\ b >= 1 /\ b <= Total - 1
  BY SoundFields
<1>2. v.sector_offset \in Nat /\ v.sector_offset >= 1
  BY GeometryNumbers DEF Units
<1>3. a \in Nat /\ a >= b /\ a <= start /\ a \in 1 .. Total - 1
  BY <1>1, <1>2, TotalIsPositive
<1>4. /\ ~ NeedsTable(x) => r = x /\ n = 4
      /\ NeedsTable(x) => n = m + 4 /\ r = [x EXCEPT !.logical = Append(s, NewLogical(0))]
  BY RoomForOne
<1>5. CASE ~ NeedsTable(x)
  <2> DEFINE e == NewEntry(Linux, start, stop, Offset(x, 4))
  <2>1. 4 \in Numbers(x)
    BY <1>1 DEF Numbers, Partitions
  <2>2. Offset(x, 4) = b
    BY <1>1, SoundFields DEF Offset
  <2>7. e.type # EXTENDED
    BY LinuxIsData DEF NewEntry
  <2>3. e \in Entry /\ e.begin = start
    <3>1. b <= start
      BY <1>1, <1>3
    <3>2. Offset(x, 4) \in Nat /\ Offset(x, 4) <= start
      BY <1>1, <2>2, <3>1
    <3> QED BY <3>2, NewDataEntry
  <2>4. AddLogical(r, v, start, stop) = SetPart(x, 4, e)
    <3>1. r = x /\ n = 4
      BY <1>4, <1>5
    <3> HIDE DEF r
    <3> QED BY <3>1 DEF AddLogical
  <2> HIDE DEF e
  <2>5. ~ (4 < 4) /\ Offset(x, 4) <= e.begin
    BY <1>1, <1>3, <2>2, <2>3
  <2>6. SetPart(x, 4, e) \in SoundTables /\ Remembers(x, SetPart(x, 4, e))
    BY <2>1, <2>3, <2>5, <2>7, SetPartKeepsShape
  <2> QED BY <1>5, <2>1, <2>2, <2>4, <2>6 DEF e
<1>6. CASE NeedsTable(x)
  <2> DEFINE e    == NewEntry(Linux, start, stop, a)
             f    == NewEntry(EXTENDED, a, stop, b)
             new  == NewLogical(a)
             g    == [new EXCEPT !.slots[new.part] = e, !.changed = TRUE]
             l    == s[m]
             c    == [l EXCEPT !.slots[l.ext] = f, !.changed = TRUE]
             w    == [s EXCEPT ![m] = c]
             y    == [x EXCEPT !.logical = Append(w, g)]
  <2>1. n = m + 4 /\ r = [x EXCEPT !.logical = Append(s, NewLogical(0))]
    BY <1>4, <1>6
  <2>2. e \in Entry /\ e.begin = start
    <3>1. start - a \in Nat /\ stop - start + 1 \in Nat
      BY <1>2, <1>3
    <3> HIDE DEF a
    <3> QED BY <3>1, LinuxIsData DEF NewEntry, Entry
  <2>3. f \in Entry /\ f.type = EXTENDED /\ f.start = a - b
    <3>1. a - b \in Nat /\ stop - a + 1 \in Nat
      BY <1>1, <1>3, SMTT(60)
    <3> HIDE DEF a, b
    <3> QED BY <1>3, <3>1 DEF NewEntry, Entry
  <2>4. /\ new \in SoundTable /\ new.offset = a /\ LastLink(new) = NoEntry
    BY <1>3, NewLogicalIsSound
  <2>5. /\ g \in SoundTable /\ g.offset = a /\ LastLink(g) = NoEntry /\ g.changed = TRUE
        /\ PartOf(g) = e
    <3>1. IsData(e) => new.offset <= e.begin
      BY <1>3, <2>2, <2>4
    <3>3. e.type # EXTENDED
      BY LinuxIsData DEF NewEntry
    <3> HIDE DEF e, new
    <3>2. /\ IsData(e) => new.offset <= e.begin
          /\ e.type = EXTENDED => PartOf(new).type = EXTENDED
          => /\ g \in SoundTable /\ g.offset = new.offset /\ LastLink(g) = LastLink(new)
             /\ g.changed = TRUE /\ PartOf(g) = e
      BY <2>2, <2>4, ChangedTable
    <3> QED BY <2>4, <3>1, <3>2, <3>3
  <2>6. l \in SoundTable
    <3>1. m \in 1 .. Len(s)
      BY <1>1, SMTT(60)
    <3> QED BY <1>1, <3>1, ChainElements
  <2>7. /\ c \in SoundTable /\ c.offset = l.offset /\ LastLink(c) = f /\ c.changed = TRUE
        /\ PartOf(c) = PartOf(l)
    <3>1. ~ IsData(f)
      BY <2>3 DEF IsData
    <3> HIDE DEF l, f
    <3> QED BY <2>3, <2>6, <3>1, ChangedTable
  <2>8. AddLogical(r, v, start, stop) = y
    <3> DEFINE o      == NewLogical(0)
               placed == [r EXCEPT !.logical[n - 3].offset = a]
               added  == SetPart(placed, n, NewEntry(Linux, start, stop, Offset(placed, n)))
    <3>1. AddLogical(r, v, start, stop)
            = IF n = 4 THEN SetPart(IF n > 4 THEN placed ELSE r, n,
                              NewEntry(Linux, start, stop,
                                Offset(IF n > 4 THEN placed ELSE r, n)))
              ELSE SetLink(SetPart(IF n > 4 THEN placed ELSE r, n,
                              NewEntry(Linux, start, stop,
                                Offset(IF n > 4 THEN placed ELSE r, n))), n - 1,
                           NewEntry(EXTENDED, a, stop, r.extended_offset))
      BY DEF AddLogical
    <3>2. n # 4 /\ n > 4 /\ n - 3 = m + 1 /\ (n - 1) - 3 = m /\ ~ (n < 4)
      BY <1>1, <2>1
    <3> HIDE DEF n
    <3>3. AddLogical(r, v, start, stop)
            = SetLink(added, n - 1, NewEntry(EXTENDED, a, stop, r.extended_offset))
      BY <3>1, <3>2
    <3>4. /\ s \in Seq(AnyTable) /\ o \in AnyTable /\ new \in AnyTable /\ g \in AnyTable
          /\ c \in AnyTable
      <4>1. NoSlots \in [0..3 -> Entry]
        BY NoEntryIsEntry DEF NoSlots
      <4>2. o \in AnyTable
        BY <4>1 DEF NewLogical, AnyTable
      <4>3. s \in Seq(AnyTable)
        BY <1>1, ChainElements
      <4> HIDE DEF o, new, g, c
      <4> QED BY <2>4, <2>5, <2>7, <4>2, <4>3, TableFields
    <3>5. [o EXCEPT !.offset = a] = new
      <4> HIDE DEF a
      <4>1. /\ o.slots = NoSlots /\ o.flag = FALSE /\ o.part = 0 /\ o.ext = 1
            /\ o.changed = TRUE
        BY DEF NewLogical
      <4>2. /\ new.slots = NoSlots /\ new.flag = FALSE /\ new.part = 0 /\ new.ext = 1
            /\ new.offset = a /\ new.changed = TRUE
        BY DEF NewLogical
      <4> HIDE DEF o, new
      <4> QED BY <3>4, <4>1, <4>2 DEF AnyTable
    <3>6. new.part = 0 /\ new.ext = 1
      BY DEF NewLogical
    <3> HIDE DEF a, o, s, b
    <3>7. Append(s, o)[m + 1] = o /\ Append(s, new)[m + 1] = new
          /\ \A k \in 1 .. m : Append(s, g)[k] = s[k]
      <4> HIDE DEF new, g
      <4>1. Append(s, o)[m + 1] = o
        BY <3>4, AppendProperties
      <4>2. Append(s, new)[m + 1] = new
        BY <3>4, AppendProperties
      <4>3. \A k \in 1 .. m : Append(s, g)[k] = s[k]
        BY <3>4, AppendProperties
      <4> QED BY <4>1, <4>2, <4>3
    <3>8. /\ [Append(s, o) EXCEPT ![m + 1] = new] = Append(s, new)
          /\ [Append(s, new) EXCEPT ![m + 1] = g] = Append(s, g)
          /\ [Append(s, g) EXCEPT ![m] = c] = Append(w, g)
      <4> HIDE DEF new, g, c
      <4>1. [Append(s, o) EXCEPT ![m + 1] = new] = Append(s, new)
        BY <3>4, AppendThenReplace
      <4>2. [Append(s, new) EXCEPT ![m + 1] = g] = Append(s, g)
        BY <3>4, AppendThenReplace
      <4>3. m \in 1 .. m
        BY <1>1
      <4>4. [Append(s, g) EXCEPT ![m] = c] = Append([s EXCEPT ![m] = c], g)
        BY <3>4, <4>3, AppendThenReplace
      <4> QED BY <4>1, <4>2, <4>4
    <3>9. \A q : /\ [x EXCEPT !.logical = q].logical = q
                 /\ [x EXCEPT !.logical = q].extended_offset = b
                 /\ \A q2 : [[x EXCEPT !.logical = q] EXCEPT !.logical = q2]
                              = [x EXCEPT !.logical = q2]
      BY <1>1 DEF Tables, b
    <3>10. placed = [x EXCEPT !.logical = Append(s, new)]
      <4> DEFINE j == n - 3
      <4>1. j = m + 1
        BY <3>2
      <4>2. r.logical = Append(s, o)
        BY <2>1, <3>9 DEF o, s
      <4>3. r.logical[j] = o
        BY <3>7, <4>1, <4>2
      <4>4. placed = [r EXCEPT !.logical = [r.logical EXCEPT ![j] = [r.logical[j] EXCEPT !.offset = a]]]
        OBVIOUS
      <4>5. placed = [r EXCEPT !.logical = [Append(s, o) EXCEPT ![m + 1] = new]]
        <5> HIDE DEF placed, j, r, new, m
        <5> QED BY <3>5, <4>1, <4>2, <4>3, <4>4
      <4>6. placed = [r EXCEPT !.logical = Append(s, new)]
        BY <3>8, <4>5
      <4> HIDE DEF placed, new
      <4>7. r = [x EXCEPT !.logical = Append(s, o)]
        BY <2>1 DEF o, s
      <4> HIDE DEF r
      <4> QED BY <3>9, <4>6, <4>7
    <3> HIDE DEF placed
    <3>11. placed.logical = Append(s, new) /\ placed.logical[n - 3] = new
      <4>1. placed.logical = Append(s, new)
        BY <3>9, <3>10
      <4> HIDE DEF new
      <4> QED BY <3>2, <3>7, <4>1
    <3>12. Offset(placed, n) = a
      <4> HIDE DEF new
      <4> QED BY <2>4, <3>2, <3>11 DEF Offset
    <3>13. added = [x EXCEPT !.logical = Append(s, g)]
      <4> DEFINE j == n - 3
      <4>1. added = SetPart(placed, n, e)
        BY <3>12
      <4>2. SetPart(placed, n, e) =
              [placed EXCEPT !.logical = [placed.logical EXCEPT ![j] =
                 [placed.logical[j] EXCEPT !.slots[placed.logical[j].part] = e,
                                           !.changed = TRUE]]]
        BY <3>2 DEF SetPart
      <4>3. j = m + 1
        BY <3>2
      <4> HIDE DEF added, e
      <4>4. SetPart(placed, n, e) = [placed EXCEPT !.logical = [Append(s, new) EXCEPT ![m + 1] = g]]
        <5> HIDE DEF j, m, new
        <5> QED BY <3>11, <4>2, <4>3 DEF j
      <4> HIDE DEF g, new
      <4>5. SetPart(placed, n, e) = [placed EXCEPT !.logical = Append(s, g)]
        BY <3>8, <4>4
      <4> QED BY <3>9, <3>10, <4>1, <4>5
    <3> HIDE DEF added
    <3>14. NewEntry(EXTENDED, a, stop, r.extended_offset) = f
      <4>1. r.extended_offset = b
        BY <2>1, <3>9 DEF s
      <4> HIDE DEF r
      <4> QED BY <4>1
    <3>15. SetLink(added, n - 1, f) = y
      <4> DEFINE j == (n - 1) - 3
      <4>1. SetLink(added, n - 1, f) =
              [added EXCEPT !.logical = [added.logical EXCEPT ![j] =
                 [added.logical[j] EXCEPT !.slots[added.logical[j].ext] = f,
                                          !.changed = TRUE]]]
        BY DEF SetLink
      <4>2. j = m /\ m \in 1 .. m
        BY <1>1, <3>2
      <4> HIDE DEF f, g
      <4>3. added.logical = Append(s, g)
        BY <3>9, <3>13
      <4>4. added.logical[j] = l
        BY <3>7, <4>2, <4>3
      <4>5. SetLink(added, n - 1, f) = [added EXCEPT !.logical = [Append(s, g) EXCEPT ![m] = c]]
        <5> HIDE DEF j, m, l
        <5> QED BY <4>1, <4>2, <4>3, <4>4
      <4> HIDE DEF c
      <4>6. SetLink(added, n - 1, f) = [added EXCEPT !.logical = Append(w, g)]
        BY <3>8, <4>5
      <4> HIDE DEF w
      <4> QED BY <3>9, <3>13, <4>6
    <3> HIDE DEF f, y
    <3> QED BY <3>3, <3>14, <3>15
  <2> HIDE DEF c, g, e, f, new
  <2>9. Chained(w, b) /\ Len(w) = m /\ w # << >> /\ w[m] = c
    <3> HIDE DEF s, b
    <3> QED BY <1>1, <2>7, LastReplaced DEF s
  <2>13. \A j \in 1 .. m : w[j] = IF j = m THEN c ELSE s[j]
    <3>1. m \in 1 .. Len(s)
      BY <1>1
    <3> HIDE DEF s, b
    <3> QED BY <1>1, <2>7, <3>1, ChainReplaced DEF s
  <2> HIDE DEF w
  <2>10. Chained(Append(w, g), b) /\ Len(Append(w, g)) = m + 1 /\ Append(w, g)[m + 1] = g
    <3>1. b + LastLink(w[Len(w)]).start = g.offset
      BY <1>1, <1>3, <2>3, <2>5, <2>7, <2>9
    <3>2. LastLink(w[Len(w)]).type = EXTENDED
      BY <2>3, <2>7, <2>9
    <3> HIDE DEF b, m
    <3> QED BY <2>5, <2>9, <3>1, <3>2, AppendKeepsChain
  <2>14. \A j \in 1 .. m : Append(w, g)[j] = w[j]
    <3>1. w \in Seq(SoundTable)
      BY <2>9 DEF Chained
    <3> QED BY <2>5, <2>9, <3>1, AppendProperties
  <2> DEFINE z == Append(w, g)
  <2>15. Inherits(s, z)
    <3>1. Len(z) = m + 1 /\ z[m + 1] = g /\ \A j \in 1 .. m : z[j] = w[j]
      BY <2>10, <2>14
    <3> HIDE DEF z
    <3> SUFFICES ASSUME NEW j \in 1 .. m + 1
                 PROVE  z[j].changed = TRUE \/ \E k \in 1 .. Len(s) : z[j] = s[k] /\ k # Len(s)
      BY <3>1 DEF Inherits
    <3>2. CASE j = m + 1
      BY <2>5, <3>1, <3>2
    <3>3. CASE j # m + 1
      <4>1. j \in 1 .. m
        BY <1>1, <3>3
      <4> QED BY <2>7, <2>13, <3>1, <4>1
    <3> QED BY <3>2, <3>3
  <2>11. /\ Chained(z, b) /\ Closed(z) /\ Len(z) <= MaxLogical /\ z # << >>
         /\ z \in Seq(SoundTable)
    <3> HIDE DEF z
    <3>1. Chained(z, b) /\ Len(z) = m + 1 /\ z[m + 1] = g
      BY <2>10 DEF z
    <3>2. Closed(z)
      BY <2>5, <3>1, NoEntryIsEntry DEF Closed
    <3>3. z \in Seq(SoundTable) /\ z # << >>
      BY <1>1, <3>1, ChainElements
    <3> QED BY <1>1, <3>1, <3>2, <3>3, GeometryNumbers
  <2> HIDE DEF z
  <2>12. [x EXCEPT !.logical = z] \in SoundTables /\ Remembers(x, [x EXCEPT !.logical = z])
    BY <1>1, <2>11, <2>15, LogicalReplaced
  <2>16. \A j \in 1 .. m : SamePart(z[j], s[j])
    <3> TAKE j \in 1 .. m
    <3>1. z[j] = w[j]
      BY <2>14 DEF z
    <3>2. SamePart(c, l)
      BY <2>7 DEF SamePart
    <3>3. SamePart(s[j], s[j])
      BY DEF SamePart
    <3> QED BY <2>13, <3>1, <3>2, <3>3
  <2>17. Len(z) = m + 1 /\ z[m + 1].offset = a /\ PartOf(z[m + 1]) = e
    BY <2>5, <2>10 DEF z
  <2>19. \A j \in 1 .. m : z[j].offset = s[j].offset
    <3> TAKE j \in 1 .. m
    <3>1. z[j] = w[j]
      BY <2>14 DEF z
    <3> QED BY <2>7, <2>13, <3>1
  <2>18. Grows(x, a, e, [x EXCEPT !.logical = z])
    BY <2>16, <2>17, <2>19 DEF Grows
  <2> QED BY <1>6, <2>8, <2>12, <2>18 DEF z, e
<1> QED BY <1>5, <1>6

-----------------------------------------------------------------------------
(* What read_table and read_extended find.                                  *)
LEMMA CutIsLast ==
  ASSUME NEW s, Len(s) = MaxLogical, LastLink(Last(s)).type = EXTENDED
  PROVE  Cut(s) = [s EXCEPT ![Len(s)] =
                     [s[Len(s)] EXCEPT !.slots[s[Len(s)].ext] = NoEntry, !.changed = TRUE]]
BY DEF Cut

(* read_extended leaves a closed chain; a table it changes it marks.         *)
LEMMA CutIsClosed ==
  ASSUME NEW d, Tidy(d), NEW b, NEW s, Chained(s, b), FromDisk(d, s),
         Len(s) <= MaxLogical, s # << >>,
         LastLink(Last(Cut(s))).type # EXTENDED
  PROVE  /\ Chained(Cut(s), b) /\ Closed(Cut(s)) /\ Cut(s) # << >>
         /\ Len(Cut(s)) = Len(s)
         /\ \A k \in 1 .. Len(s) : \/ Cut(s)[k].changed = TRUE
                                  \/ Cut(s)[k] = Logical(d[Cut(s)[k].offset], Cut(s)[k].offset)
<1> DEFINE n == Len(s)
           l == s[n]
           c == [l EXCEPT !.slots[l.ext] = NoEntry, !.changed = TRUE]
<1>1. /\ s \in Seq(SoundTable) /\ n \in Nat /\ n \in 1 .. n
      /\ l \in SoundTable
  BY ChainElements
<1>2. CASE n = MaxLogical /\ LastLink(Last(s)).type = EXTENDED
  <2>1. Cut(s) = [s EXCEPT ![n] = c]
    BY <1>2, CutIsLast, ZenonT(60)
  <2>2. c \in SoundTable /\ c.offset = l.offset /\ LastLink(c) = NoEntry /\ c.changed = TRUE
    <3> HIDE DEF l
    <3> QED BY <1>1, NoEntryIsEntry, ChangedTable
  <2> HIDE DEF c
  <2>3. /\ Chained(Cut(s), b) /\ Len(Cut(s)) = n /\ Cut(s) # << >> /\ Cut(s)[n] = c
    <3>1. l = s[Len(s)]
      OBVIOUS
    <3> HIDE DEF l
    <3>2. LET r == [s EXCEPT ![Len(s)] = c]
          IN  /\ Chained(r, b) /\ Len(r) = Len(s) /\ r # << >>
              /\ r[Len(s)] = c
      BY <2>2, <3>1, LastReplaced
    <3> QED BY <2>1, <3>2
  <2>4. Closed(Cut(s))
    BY <2>2, <2>3, NoEntryIsEntry DEF Closed
  <2>5. \A k \in 1 .. n : \/ Cut(s)[k].changed = TRUE
                         \/ Cut(s)[k] = Logical(d[Cut(s)[k].offset], Cut(s)[k].offset)
    <3>1. \A k \in 1 .. n : Cut(s)[k] = IF k = n THEN c ELSE s[k]
      BY <1>1, <2>1, <2>2, ChainReplaced
    <3> QED BY <2>2, <3>1 DEF FromDisk
  <2> QED BY <2>3, <2>4, <2>5
<1>3. CASE ~ (n = MaxLogical /\ LastLink(Last(s)).type = EXTENDED)
  <2>1. Cut(s) = s
    BY <1>3 DEF Cut
  <2>2. LastLink(l).type # EXTENDED
    BY <2>1, LastIsLast
  <2>3. LastLink(l).type \in {EXTENDED, Empty}
    <3>1. l = Logical(d[l.offset], l.offset)
      BY <1>1 DEF FromDisk
    <3>2. l.offset \in 1 .. Total - 1
      BY <1>1, TableFields, TotalIsPositive
    <3>3. LastLink(Logical(d[l.offset], l.offset)).type \in {EXTENDED, Empty}
      <4> HIDE DEF l
      <4> QED BY <3>2, ReadTableIsSound
    <3> QED BY <3>1, <3>3
  <2>4. Closed(s)
    BY <2>2, <2>3 DEF Closed
  <2>5. \A k \in 1 .. n : s[k] = Logical(d[s[k].offset], s[k].offset)
    BY DEF FromDisk
  <2> QED BY <2>1, <2>4, <2>5
<1> QED BY <1>2, <1>3

(* What is not marked is on the disk, but for the link of the last table.   *)
Recorded(d, x) ==
  /\ (\A i \in 0..3 : x.changed[i] # TRUE) => d[0].slots = x.primary
  /\ \A k \in 1 .. Len(x.logical) :
       LET l == x.logical[k]
           w == d[l.offset].slots
       IN  \/ l.changed = TRUE
           \/ w = l.slots
           \/ k = Len(x.logical) /\ w = [l.slots EXCEPT ![l.ext] = w[l.ext]]

(* The extended partition is one of the four primary ones.                   *)
LEMMA ExtIndexInRange ==
  ASSUME NEW primary \in [0..3 -> Entry]
  PROVE  ExtIndex(primary) \in 0..3
<1> DEFINE boxes == {i \in 0..3 : primary[i].type = EXTENDED}
           good  == {i \in boxes : primary[i].start # 0}
<1>1. good # {} => Min(good) \in 0..3
  <2>1. good \in SUBSET Nat /\ good \subseteq 0..3
    OBVIOUS
  <2> HIDE DEF good
  <2> QED BY <2>1, LeastElement
<1>2. boxes # {} => Max(boxes) \in 0..3
  <2>1. boxes \subseteq 0..3
    OBVIOUS
  <2> HIDE DEF boxes
  <2>2. boxes # {} => \E x \in boxes : \A y \in boxes : x >= y
    <3> SUFFICES ASSUME boxes # {} PROVE \E m \in boxes : \A y \in boxes : m >= y
      OBVIOUS
    <3>1. CASE 3 \in boxes
      BY <2>1, <3>1
    <3>2. CASE 3 \notin boxes /\ 2 \in boxes
      BY <2>1, <3>2
    <3>3. CASE 3 \notin boxes /\ 2 \notin boxes /\ 1 \in boxes
      BY <2>1, <3>3
    <3>4. CASE 3 \notin boxes /\ 2 \notin boxes /\ 1 \notin boxes
      <4>1. 0 \in boxes
        <5>1. PICK z \in boxes : TRUE
          OBVIOUS
        <5> QED BY <2>1, <3>4, <5>1
      <4> QED BY <2>1, <3>4, <4>1
    <3> QED BY <3>1, <3>2, <3>3, <3>4
  <2> QED BY <2>1, <2>2 DEF Max
<1>3. ExtIndex(primary) = IF good # {} THEN Min(good) ELSE IF boxes # {} THEN Max(boxes) ELSE 0
  BY DEF ExtIndex
<1> HIDE DEF good, boxes
<1> QED BY <1>1, <1>2, <1>3

(* Opening a disk that can be read gives sound tables, recorded on that      *)
(* disk.                                                                     *)
LEMMA ReadTablesAreSound ==
  ASSUME TidyDisks, NEW d \in Disks, CanRead(d)
  PROVE  ReadTables(d) \in SoundTables /\ Recorded(d, ReadTables(d))
<1> DEFINE primary == d[0].slots
           x       == ExtIndex(primary)
           leads   == primary[x].type = EXTENDED /\ primary[x].start # 0
           chain   == IF leads THEN Chain(d, primary[x]) ELSE << >>
           marks   == [i \in 0..3 |-> i = 3 /\ ~ d[0].flag]
           r       == ReadTables(d)
<1>0. Tidy(d)
  BY DisksAreTidy
<1>1. d[0] \in [slots : [0..3 -> Entry], flag : BOOLEAN]
  <2>1. d \in [0 .. Total - 1 -> [slots : [0..3 -> Entry], flag : BOOLEAN]]
    BY DisksAssumption
  <2>2. 0 \in 0 .. Total - 1
    BY TotalIsPositive
  <2> QED BY <2>1, <2>2
<1>2. primary \in [0..3 -> Entry] /\ d[0].flag \in BOOLEAN
  BY <1>1
<1>3. x \in 0..3
  BY <1>2, ExtIndexInRange
<1>4. primary[x] \in Entry /\ primary[x].start \in Nat
  <2>1. primary[x] \in Entry
    BY <1>2, <1>3
  <2> HIDE DEF primary, x
  <2> QED BY <2>1, EntryFields
<1>5. marks \in [0..3 -> BOOLEAN]
  BY <1>2
<1>6. /\ r.primary = primary /\ r.changed = marks /\ r.ext_index = x
      /\ r.logical = (IF chain = << >> THEN chain ELSE Cut(chain))
      /\ r.extended_offset = (IF leads THEN primary[x].start ELSE 0)
  BY DEF ReadTables
<1>7. r = [primary |-> primary, changed |-> marks, logical |-> r.logical,
           ext_index |-> x, extended_offset |-> r.extended_offset]
  BY DEF ReadTables
<1>8. LET l == IF r.logical = << >> THEN Extended(r) ELSE LastLink(Last(r.logical))
      IN  l.type = EXTENDED => r.extended_offset = 0
  BY DEF CanRead
<1>9. leads => primary[x].start + primary[x].size <= Total
  BY <1>3 DEF TidyDisks
<1> HIDE DEF r, marks, primary, x
<1>10. Extended(r) = primary[x]
  BY <1>6 DEF Extended
<1>11. << >> \in Seq(AnyTable) /\ << >> \in Seq(SoundTable) /\ Len(<< >>) = 0
  BY EmptySeq
<1>12. /\ Chained(r.logical, r.extended_offset) /\ Closed(r.logical)
       /\ Len(r.logical) <= MaxLogical
       /\ (r.logical = << >>) <=> (r.extended_offset = 0)
       /\ \A k \in 1 .. Len(r.logical) :
            \/ r.logical[k].changed = TRUE
            \/ r.logical[k] = Logical(d[r.logical[k].offset], r.logical[k].offset)
  <2>1. CASE ~ leads
    <3>1. r.logical = << >> /\ r.extended_offset = 0
      BY <1>6, <2>1
    <3>2. Chained(<< >>, 0) /\ Closed(<< >>)
      BY <1>11 DEF Chained, Closed
    <3>3. Len(r.logical) <= MaxLogical
      BY <1>11, <3>1, GeometryNumbers
    <3> QED BY <1>11, <3>1, <3>2, <3>3
  <2>2. CASE leads
    <3> DEFINE s == Chain(d, primary[x])
    <3>1. /\ Chained(s, primary[x].start) /\ FromDisk(d, s) /\ Len(s) <= MaxLogical
      BY <1>0, <1>4, <2>2, ChainIsRead
    <3>2. r.logical = (IF s = << >> THEN s ELSE Cut(s)) /\ r.extended_offset = primary[x].start
      BY <1>6, <2>2
    <3> HIDE DEF s
    <3>3. s # << >>
      BY <1>8, <1>10, <2>2, <3>2
    <3>4. r.logical = Cut(s)
      BY <3>2, <3>3
    <3>5. Cut(s) # << >> => LastLink(Last(Cut(s))).type # EXTENDED
      BY <1>8, <2>2, <3>2, <3>4
    <3>6. Cut(s) # << >>
      <4>1. s \in Seq(SoundTable) /\ Len(s) \in 1 .. Len(s) /\ Len(s) # 0
        BY <3>1, <3>3, ChainElements
      <4>2. CASE Len(s) = MaxLogical /\ LastLink(Last(s)).type = EXTENDED
        <5> DEFINE c == [s[Len(s)] EXCEPT !.slots[s[Len(s)].ext] = NoEntry, !.changed = TRUE]
        <5>1. Cut(s) = [s EXCEPT ![Len(s)] = c]
          BY <4>2, CutIsLast
        <5>2. DOMAIN Cut(s) = DOMAIN s /\ DOMAIN s = 1 .. Len(s)
          <6> HIDE DEF c
          <6> QED BY <4>1, <5>1, LenProperties
        <5>3. DOMAIN << >> = {}
          OBVIOUS
        <5> HIDE DEF c
        <5> QED BY <4>1, <5>2, <5>3
      <4>3. CASE ~ (Len(s) = MaxLogical /\ LastLink(Last(s)).type = EXTENDED)
        BY <3>3, <4>3 DEF Cut
      <4> QED BY <4>2, <4>3
    <3>7. /\ Chained(Cut(s), primary[x].start) /\ Closed(Cut(s)) /\ Len(Cut(s)) = Len(s)
          /\ \A k \in 1 .. Len(s) :
               \/ Cut(s)[k].changed = TRUE
               \/ Cut(s)[k] = Logical(d[Cut(s)[k].offset], Cut(s)[k].offset)
      <4> DEFINE b == primary[x].start
      <4>1. /\ Tidy(d) /\ Chained(s, b) /\ FromDisk(d, s) /\ Len(s) <= MaxLogical
            /\ s # << >> /\ LastLink(Last(Cut(s))).type # EXTENDED
        BY <1>0, <3>1, <3>3, <3>5, <3>6
      <4> HIDE DEF b, leads, chain
      <4>2. Chained(Cut(s), b) /\ Closed(Cut(s)) /\ Len(Cut(s)) = Len(s)
        BY <4>1, CutIsClosed, Zenon
      <4>3. \A k \in 1 .. Len(s) :
              \/ Cut(s)[k].changed = TRUE
              \/ Cut(s)[k] = Logical(d[Cut(s)[k].offset], Cut(s)[k].offset)
        BY <4>1, CutIsClosed, ZenonT(60)
      <4> QED BY <4>2, <4>3 DEF b
    <3> QED BY <2>2, <3>1, <3>2, <3>4, <3>6, <3>7
  <2> QED BY <2>1, <2>2
<1>13. r \in Tables
  <2>1. r.logical \in Seq(AnyTable)
    BY <1>12, ChainElements
  <2>2. r.extended_offset \in Nat
    BY <1>4, <1>6
  <2> QED BY <1>2, <1>3, <1>5, <1>7, <2>1, <2>2 DEF Tables
<1>14. r.extended_offset # 0 =>
         /\ Extended(r).type = EXTENDED
         /\ Extended(r).start = r.extended_offset
         /\ Extended(r).start + Extended(r).size <= Total
  BY <1>6, <1>9, <1>10
<1>15. r \in SoundTables
  BY <1>12, <1>13, <1>14 DEF SoundTables
<1>16. Recorded(d, r)
  <2>1. ASSUME NEW k \in 1 .. Len(r.logical)
        PROVE  \/ r.logical[k].changed = TRUE
               \/ d[r.logical[k].offset].slots = r.logical[k].slots
    <3> DEFINE l == r.logical[k]
    <3>1. l.changed = TRUE \/ l = Logical(d[l.offset], l.offset)
      BY <1>12
    <3>2. Logical(d[l.offset], l.offset).slots = d[l.offset].slots
      BY DEF Logical
    <3> HIDE DEF l
    <3>3. l.changed = TRUE \/ d[l.offset].slots = l.slots
      BY <3>1, <3>2
    <3> QED BY <3>3 DEF l
  <2>2. r.primary = d[0].slots
    BY <1>6 DEF primary
  <2> QED BY <2>1, <2>2 DEF Recorded
<1> QED BY <1>15, <1>16 DEF r

-----------------------------------------------------------------------------
(* The invariant of a session.                                              *)
Modes == {"open", "stuck", "writing", "saved", "closed"}

TablesInv ==
  /\ t \in SoundTables
  /\ u \in Units
  /\ mode \in Modes
  /\ mode = "open" => todo = {} /\ Recorded(disk, t)
  /\ todo \subseteq Numbers(t)

(* Clearing the link leaves the rest of the table.                           *)
LEMMA WithoutLinkFields ==
  ASSUME NEW l \in SoundTable
  PROVE  LET c == WithoutLink(l)
         IN  /\ c.offset = l.offset /\ c.ext = l.ext /\ c.changed = l.changed
             /\ c.slots = [l.slots EXCEPT ![l.ext] = NoEntry]
BY TableFields DEF WithoutLink, Table

(* What a command leaves unmarked is on the disk, if it was before.          *)
LEMMA RememberedIsRecorded ==
  ASSUME NEW x \in SoundTables, NEW y \in SoundTables, NEW d,
         Recorded(d, x), Remembers(x, y)
  PROVE  Recorded(d, y)
<1> DEFINE s == x.logical
           r == y.logical
           Same(l) == d[l.offset].slots = l.slots
           But(l)  == d[l.offset].slots
                        = [l.slots EXCEPT ![l.ext] = d[l.offset].slots[l.ext]]
<1>1. \A k \in 1 .. Len(s) :
        s[k].changed = TRUE \/ Same(s[k]) \/ (k = Len(s) /\ But(s[k]))
  BY DEF Recorded
<1>2. \A k \in 1 .. Len(s) : s[k] \in SoundTable
  BY SoundFields
<1>3. ASSUME NEW l \in SoundTable, Same(l) \/ But(l) PROVE But(WithoutLink(l))
  <2> DEFINE c == WithoutLink(l)
             w == d[l.offset].slots
  <2>1. l.slots \in [0..3 -> Entry] /\ l.ext \in 0..3
    BY TableFields
  <2>2. /\ c.offset = l.offset /\ c.ext = l.ext
        /\ c.slots = [l.slots EXCEPT ![l.ext] = NoEntry]
    BY WithoutLinkFields
  <2> HIDE DEF c, w
  <2>3. w = [l.slots EXCEPT ![l.ext] = w[l.ext]]
    <3>1. CASE Same(l)
      <4>1. w = l.slots
        BY <3>1 DEF w
      <4> QED BY <2>1, <4>1
    <3>2. CASE But(l)
      BY <3>2 DEF w
    <3> QED BY <1>3, <3>1, <3>2
  <2>4. [c.slots EXCEPT ![l.ext] = w[l.ext]] = [l.slots EXCEPT ![l.ext] = w[l.ext]]
    BY <2>1, <2>2
  <2>5. d[c.offset].slots = w
    BY <2>2 DEF w
  <2> QED BY <2>2, <2>3, <2>4, <2>5 DEF c
<1>4. ASSUME NEW j \in 1 .. Len(r)
      PROVE  r[j].changed = TRUE \/ Same(r[j]) \/ (j = Len(r) /\ But(r[j]))
  <2> HIDE DEF Same, But
  <2>1. \/ r[j].changed = TRUE
        \/ \E k \in 1 .. Len(s) : r[j] = s[k] /\ (k = Len(s) => j = Len(r))
        \/ j = Len(r) /\ \E k \in 1 .. Len(s) : r[j] = WithoutLink(s[k])
    BY DEF Remembers, Inherits
  <2>2. ASSUME NEW k \in 1 .. Len(s), r[j] = s[k], k = Len(s) => j = Len(r)
        PROVE  r[j].changed = TRUE \/ Same(r[j]) \/ (j = Len(r) /\ But(r[j]))
    BY <1>1, <2>2
  <2>3. ASSUME NEW k \in 1 .. Len(s), r[j] = WithoutLink(s[k]), j = Len(r)
        PROVE  r[j].changed = TRUE \/ Same(r[j]) \/ (j = Len(r) /\ But(r[j]))
    <3>1. s[k] \in SoundTable
      BY <1>2
    <3>2. WithoutLink(s[k]).changed = s[k].changed
      BY <3>1, WithoutLinkFields
    <3>3. s[k].changed = TRUE \/ Same(s[k]) \/ But(s[k])
      BY <1>1
    <3>4. s[k].changed = TRUE \/ But(WithoutLink(s[k]))
      BY <1>3, <3>1, <3>3
    <3> QED BY <2>3, <3>2, <3>4
  <2> QED BY <2>1, <2>2, <2>3
<1>5. (\A i \in 0..3 : y.changed[i] # TRUE) => d[0].slots = y.primary
  BY DEF Remembers, Recorded
<1> QED BY <1>4, <1>5 DEF Recorded

(* The invariant holds when the tables have been read.                       *)
LEMMA InvInit == TidyDisks /\ Init => TablesInv
<1> SUFFICES ASSUME TidyDisks, Init PROVE TablesInv
  OBVIOUS
<1>1. t \in SoundTables /\ Recorded(disk, t)
  BY ReadTablesAreSound DEF Init
<1>2. u \in Units
  BY DEF Init, Units
<1>3. mode = "open" /\ todo = {}
  BY DEF Init
<1> QED BY <1>1, <1>2, <1>3 DEF TablesInv, Modes

(* A command leaves sound tables and an open session.                       *)
LEMMA EditKeeps ==
  ASSUME TablesInv, mode = "open", NEW x \in SoundTables, Remembers(t, x), Edit(x)
  PROVE  TablesInv'
<1>1. t' = x /\ u' = u /\ mode' = mode /\ todo' = todo /\ disk' = disk
  BY DEF Edit
<1>2. t \in SoundTables /\ todo = {} /\ Recorded(disk, t)
  BY DEF TablesInv
<1>3. Recorded(disk, x)
  BY <1>2, RememberedIsRecorded
<1>4. Recorded(disk, t)'
  BY <1>1, <1>3
<1> QED BY <1>1, <1>2, <1>4 DEF TablesInv

(* A step that leaves the tables as they are keeps the invariant.            *)
LEMMA StayKeeps ==
  ASSUME TablesInv, t' = t, u' \in Units, mode' \in Modes,
         mode' = "open" => mode = "open" /\ todo' = {} /\ disk' = disk,
         todo' \subseteq Numbers(t)
  PROVE  TablesInv'
<1>1. mode = "open" => Recorded(disk, t)
  BY DEF TablesInv
<1>2. mode' = "open" => Recorded(disk, t)'
  BY <1>1
<1> QED BY <1>2 DEF TablesInv, Numbers, Partitions

(* The two answers for a primary partition lie on the disk, in order.        *)
LEMMA PrimaryAnswers ==
  ASSUME TablesInv, NEW n \in 0..3, NEW a \in Answers(t, n)
  PROVE  /\ a[1] \in Nat /\ a[2] \in Nat
         /\ 1 <= a[1] /\ a[1] <= a[2] /\ a[2] <= Total - 1
<1>1. t \in Tables /\ u \in Units /\ n \in Nat /\ n < 4
  BY SoundFields DEF TablesInv
<1>2. LimitOf(t, n) = Total - 1 /\ Base(t, u, n) = u.sector_offset
  BY <1>1 DEF LimitOf, Base
<1>3. LimitOf(t, n) \in Nat /\ u.sector_offset \in Nat /\ u.sector_offset >= 1
  BY <1>1, <1>2, TotalIsPositive, GeometryNumbers DEF Units
<1>4. PICK start \in Starts(t, u, n, TypedStarts) :
        a \in {<<start, stop>> : stop \in Stops(t, u, n, start, TypedStops)}
  BY DEF Answers
<1>5. PICK stop \in Stops(t, u, n, start, TypedStops) : a = <<start, stop>>
  BY <1>4
<1>6. start \in Nat /\ Base(t, u, n) <= start /\ start <= LimitOf(t, n)
  BY <1>1, <1>3, StartsAreInRange
<1>7. stop \in Nat /\ start <= stop /\ stop <= LimitOf(t, n)
  BY <1>1, <1>3, <1>6, StopsAreInRange
<1> QED BY <1>2, <1>3, <1>5, <1>6, <1>7

(* Those for a logical partition lie behind the sector of its table.         *)
LEMMA LogicalAnswers ==
  ASSUME TablesInv, t.extended_offset # 0,
         NEW a \in Answers(Room(t), Partitions(Room(t)) - 1)
  PROVE  /\ a[1] \in Nat /\ a[2] \in Nat
         /\ t.extended_offset + u.sector_offset <= a[1]
         /\ a[1] <= a[2] /\ a[2] <= Total - 1
<1> DEFINE r == Room(t)
           n == Partitions(r) - 1
<1>1. t \in SoundTables /\ u \in Units
  BY DEF TablesInv
<1>2. /\ r \in Tables /\ n \in Nat
      /\ LimitOf(r, n) \in Nat /\ LimitOf(r, n) <= Total - 1
      /\ Base(r, u, n) = t.extended_offset + u.sector_offset
  BY <1>1, RoomForOne
<1> HIDE DEF r, n
<1>3. PICK start \in Starts(r, u, n, TypedStarts) :
        a \in {<<start, stop>> : stop \in Stops(r, u, n, start, TypedStops)}
  BY DEF Answers, r, n
<1>4. PICK stop \in Stops(r, u, n, start, TypedStops) : a = <<start, stop>>
  BY <1>3
<1>5. start \in Nat /\ Base(r, u, n) <= start /\ start <= LimitOf(r, n)
  BY <1>1, <1>2, StartsAreInRange
<1>6. stop \in Nat /\ start <= stop /\ stop <= LimitOf(r, n)
  BY <1>1, <1>2, <1>5, StopsAreInRange
<1> QED BY <1>2, <1>4, <1>5, <1>6, TotalIsPositive

(* Every step keeps the invariant.                                           *)
LEMMA InvNext == TablesInv /\ [Next]_vars => TablesInv'
<1> SUFFICES ASSUME TablesInv, [Next]_vars PROVE TablesInv'
  OBVIOUS
<1> USE DEF Modes
<1>1. /\ t \in SoundTables /\ u \in Units /\ mode \in Modes
      /\ mode = "open" => todo = {}
      /\ todo \subseteq Numbers(t)
  BY DEF TablesInv
<1>2. ASSUME NEW n \in 0..3, NewPrimary(n) PROVE TablesInv'
  <2>1. mode = "open" /\ t.primary[n].type = Empty
    BY <1>2 DEF NewPrimary, MayAdd, Prompt
  <2>2. PICK a \in Answers(t, n) : Edit(AddPrimary(t, n, a[1], a[2]))
    BY <1>2 DEF NewPrimary
  <2>3. AddPrimary(t, n, a[1], a[2]) \in SoundTables
        /\ Remembers(t, AddPrimary(t, n, a[1], a[2]))
    BY <1>1, <2>1, PrimaryAnswers, AddPrimaryIsSound
  <2> QED BY <2>1, <2>2, <2>3, EditKeeps
<1>3. ASSUME NEW n \in 0..3, NewExtended(n) PROVE TablesInv'
  <2>1. mode = "open"
    BY <1>3 DEF NewExtended, MayAdd, Prompt
  <2>2. PICK a \in Answers(t, n) : Edit(AddExtended(t, n, a[1], a[2]))
    BY <1>3 DEF NewExtended
  <2>3. AddExtended(t, n, a[1], a[2]) \in SoundTables
        /\ Remembers(t, AddExtended(t, n, a[1], a[2]))
    BY <1>1, PrimaryAnswers, AddExtendedIsSound
  <2> QED BY <2>1, <2>2, <2>3, EditKeeps
<1>4. ASSUME NewLogicalPartition PROVE TablesInv'
  <2> DEFINE r == Room(t)
             n == Partitions(r) - 1
  <2>1. mode = "open" /\ Partitions(t) < MaximumParts /\ t.extended_offset # 0
    BY <1>4 DEF NewLogicalPartition, MayAdd, Prompt
  <2>2. AskForEver \/ \E a \in Answers(r, n) : Edit(AddLogical(r, u, a[1], a[2]))
    BY <1>4 DEF NewLogicalPartition
  <2>3. CASE AskForEver
    BY <1>1, <2>3, StayKeeps DEF AskForEver
  <2>4. CASE \E a \in Answers(r, n) : Edit(AddLogical(r, u, a[1], a[2]))
    <3>1. PICK a \in Answers(r, n) : Edit(AddLogical(r, u, a[1], a[2]))
      BY <2>4
    <3>2. Len(t.logical) < MaxLogical
      BY <1>1, <2>1, SoundFields, GeometryNumbers DEF Partitions, MaxLogical
    <3>3. AddLogical(r, u, a[1], a[2]) \in SoundTables
        /\ Remembers(t, AddLogical(r, u, a[1], a[2]))
      BY <1>1, <2>1, <3>2, LogicalAnswers, AddLogicalIsSound
    <3> HIDE DEF r
    <3> QED BY <2>1, <3>1, <3>3, EditKeeps
  <2> QED BY <2>2, <2>3, <2>4
<1>5. ASSUME NEW i \in Numbers(t), Delete(i) PROVE TablesInv'
  <2>1. mode = "open" /\ Edit(DeletePartition(t, i))
    BY <1>5 DEF Delete, Chosen, Prompt
  <2>2. DeletePartition(t, i) \in SoundTables
        /\ Remembers(t, DeletePartition(t, i))
    BY <1>1, DeleteIsSound
  <2> QED BY <2>1, <2>2, EditKeeps
<1>6. ASSUME NEW i \in Numbers(t), ChangeSysid(i) PROVE TablesInv'
  <2>1. mode = "open" /\ IsData(PartEntry(t, i))
    BY <1>6 DEF ChangeSysid, Chosen, Prompt
  <2>2. PICK type \in Types \ {PartEntry(t, i).type} : Edit(SetType(t, i, type))
    BY <1>6 DEF ChangeSysid
  <2>3. SetType(t, i, type) \in SoundTables
        /\ Remembers(t, SetType(t, i, type))
    BY <1>1, <2>1, SetTypeIsSound
  <2> QED BY <2>1, <2>2, <2>3, EditKeeps
<1>7. ASSUME NEW i \in Numbers(t), Activate(i) PROVE TablesInv'
  <2>1. mode = "open" /\ Edit(ToggleActive(t, i))
    BY <1>7 DEF Activate, Chosen, Prompt
  <2>2. ToggleActive(t, i) \in SoundTables
        /\ Remembers(t, ToggleActive(t, i))
    BY <1>1, ToggleIsSound
  <2> QED BY <2>1, <2>2, EditKeeps
<1>8. ASSUME NEW i \in Numbers(t), MoveBeginning(i) PROVE TablesInv'
  <2>1. mode = "open" /\ IsData(PartEntry(t, i))
    BY <1>8 DEF MoveBeginning, Chosen, Prompt
  <2>2. PICK first \in PartEntry(t, i).begin .. LastSector(t, i) :
          Edit(MoveBegin(t, i, first))
    BY <1>8 DEF MoveBeginning
  <2>3. MoveBegin(t, i, first) \in SoundTables
        /\ Remembers(t, MoveBegin(t, i, first))
    BY <1>1, <2>1, MoveBeginIsSound
  <2> QED BY <2>1, <2>2, <2>3, EditKeeps
<1>9. ASSUME ToggleDos PROVE TablesInv'
  <2>1. u' \in Units
    BY <1>1, <1>9 DEF ToggleDos, SetUnits, Units
  <2> QED BY <1>1, <1>9, <2>1, StayKeeps DEF ToggleDos, SetUnits
<1>10. ASSUME ChangeUnits PROVE TablesInv'
  <2>1. u' \in Units
    BY <1>1, <1>10 DEF ChangeUnits, SetUnits, Units
  <2> QED BY <1>1, <1>10, <2>1, StayKeeps DEF ChangeUnits, SetUnits
<1>11. ASSUME StartWrite PROVE TablesInv'
  <2>1. Marked \subseteq Numbers(t)
    <3>1. 3 \in Numbers(t)
      BY <1>1, SoundFields DEF Numbers, Partitions
    <3> QED BY <3>1 DEF Marked
  <2>2. t' = t /\ u' = u /\ mode' = "writing" /\ todo' = Marked
    BY <1>11 DEF StartWrite
  <2> QED BY <1>1, <2>1, <2>2, StayKeeps
<1>12. ASSUME WriteTable PROVE TablesInv'
  <2>1. t' = t /\ u' = u /\ mode' = mode /\ mode = "writing" /\ todo' = todo \ {Min(todo)}
    BY <1>12 DEF WriteTable, Put
  <2> QED BY <1>1, <2>1, StayKeeps
<1>13. ASSUME Finish PROVE TablesInv'
  BY <1>1, <1>13, StayKeeps DEF Finish
<1>14. ASSUME Stop PROVE TablesInv'
  BY <1>1, <1>14, StayKeeps DEF Stop
<1>15. ASSUME UNCHANGED vars PROVE TablesInv'
  BY <1>1, <1>15, StayKeeps DEF vars
<1> QED BY <1>2, <1>3, <1>4, <1>5, <1>6, <1>7, <1>8, <1>9, <1>10, <1>11, <1>12,
           <1>13, <1>14, <1>15 DEF Next

(* What main and the commands of fdisk.c rely on: throughout a session the   *)
(* tables in memory are sound, the units are sectors or cylinders, and until *)
(* w everything that is not marked is on the disk as it is in memory.        *)
THEOREM SessionInvariant == TidyDisks /\ Spec => []TablesInv
<1>1. TidyDisks /\ Init => TablesInv
  BY InvInit
<1>2. TablesInv /\ [Next]_vars => TablesInv'
  BY InvNext
<1> QED BY <1>1, <1>2, PTL DEF Spec

-----------------------------------------------------------------------------
(* The invariant says more of the tables than their types.                   *)
LEMMA InvGivesTypes == TablesInv => TypeOK
<1> SUFFICES ASSUME TablesInv PROVE TypeOK
  OBVIOUS
<1>1. t \in SoundTables /\ mode \in Modes /\ todo \subseteq Numbers(t)
  BY DEF TablesInv
<1>2. /\ t.primary \in [0..3 -> Entry] /\ t.changed \in [0..3 -> BOOLEAN]
      /\ Len(t.logical) <= MaxLogical /\ t.ext_index \in 0..3
  BY <1>1, SoundFields
<1>3. t.extended_offset \in 0 .. Total - 1
  BY <1>1, SoundFields, TotalIsPositive
<1>4. ASSUME NEW k \in DOMAIN t.logical
      PROVE  t.logical[k] \in Table /\ t.logical[k].part # t.logical[k].ext
  <2>1. k \in 1 .. Len(t.logical)
    BY <1>1, SoundFields, ChainElements
  <2>2. t.logical[k] \in SoundTable
    BY <1>1, <2>1, SoundFields
  <2> QED BY <2>2 DEF SoundTable
<1> QED BY <1>1, <1>2, <1>3, <1>4 DEF TypeOK, Modes

(* All variables of fdisk.c keep their types: no more tables are in memory   *)
(* than the arrays hold, each has two different slots for partition and      *)
(* link, and its sector is on the disk.                                      *)
THEOREM TypesAreRight == TidyDisks /\ Spec => []TypeOK
<1>1. TidyDisks /\ Spec => []TablesInv
  BY SessionInvariant
<1>2. TablesInv => TypeOK
  BY InvGivesTypes
<1> QED BY <1>1, <1>2, PTL

(* The chain agrees with what the sectors of the tables say.                 *)
LEMMA InvGivesChain == TablesInv => ChainAgrees
<1> SUFFICES ASSUME TablesInv PROVE ChainAgrees
  OBVIOUS
<1> DEFINE s == t.logical
           n == Len(s)
           b == t.extended_offset
<1>1. t \in SoundTables
  BY DEF TablesInv
<1>2. /\ Chained(s, b) /\ Closed(s) /\ n \in Nat
      /\ (s = << >>) <=> (b = 0)
      /\ (s = << >>) <=> (n = 0)
      /\ b # 0 =>
           /\ Extended(t).type = EXTENDED
           /\ Extended(t).start = b
           /\ s[1].offset = b
  BY <1>1, SoundFields
<1>3. ASSUME NEW i \in Numbers(t) \ 0..3
      PROVE  IF i + 1 \in Numbers(t)
             THEN /\ ExtEntry(t, i).type = EXTENDED
                  /\ b + ExtEntry(t, i).start = Offset(t, i + 1)
             ELSE ExtEntry(t, i).type = Empty
  <2> DEFINE k == i - 3
  <2>1. i \in Int /\ k \in 1 .. n /\ (i + 1 \in Numbers(t) <=> k \in 1 .. n - 1)
        /\ (k \in 1 .. n - 1 \/ k = n) /\ (i + 1) - 3 = k + 1 /\ ~ (i + 1 < 4)
    BY <1>2 DEF Numbers, Partitions
  <2>2. ExtEntry(t, i) = LastLink(s[k])
    BY DEF ExtEntry, LastLink
  <2>3. Offset(t, i + 1) = s[k + 1].offset
    BY <2>1 DEF Offset
  <2> HIDE DEF k
  <2>4. CASE k \in 1 .. n - 1
    BY <1>2, <2>1, <2>2, <2>3, <2>4 DEF Chained
  <2>5. CASE k \notin 1 .. n - 1
    <3>1. k = n /\ s # << >>
      BY <1>2, <2>1, <2>5
    <3> QED BY <1>2, <2>1, <2>2, <2>5, <3>1 DEF Closed
  <2> QED BY <2>4, <2>5
<1> QED BY <1>2, <1>3 DEF ChainAgrees

(* The extended partition leads to the first logical table, and the link of  *)
(* each table to the next, after every command of a session: add_partition   *)
(* and delete_partition leave no table out and lead nowhere else.            *)
THEOREM ChainHolds == TidyDisks /\ Spec => []ChainAgrees
<1>1. TidyDisks /\ Spec => []TablesInv
  BY SessionInvariant
<1>2. TablesInv => ChainAgrees
  BY InvGivesChain
<1> QED BY <1>1, <1>2, PTL

(* Recorded is what is asked of the tables that are not marked.              *)
LEMMA InvGivesRecord == TablesInv => UnmarkedIsOnDisk
<1> SUFFICES ASSUME TablesInv, mode = "open", NEW i \in Numbers(t) \ (0..2 \cup Marked)
             PROVE  \/ disk[Offset(t, i)].slots = Slots(i)
                    \/ /\ i > 3
                       /\ i = Partitions(t) - 1
                       /\ disk[Offset(t, i)].slots =
                            [Slots(i) EXCEPT ![t.logical[i - 3].ext] =
                               disk[Offset(t, i)].slots[t.logical[i - 3].ext]]
  BY DEF UnmarkedIsOnDisk
<1>1. t \in SoundTables /\ Recorded(disk, t)
  BY DEF TablesInv
<1>2. /\ i \in Nat /\ i >= 3 /\ i < 4 + Len(t.logical) /\ Len(t.logical) \in Nat
      /\ t.changed \in [0..3 -> BOOLEAN]
      /\ \A k \in 1 .. Len(t.logical) : t.logical[k] \in SoundTable
  BY <1>1, PartEntryFacts, SoundFields
<1>3. CASE i = 3
  <2>1. \A k \in 0..3 : t.changed[k] # TRUE
    BY <1>2, <1>3 DEF Marked
  <2>2. disk[0].slots = t.primary
    BY <1>1, <2>1 DEF Recorded
  <2>3. Offset(t, i) = 0 /\ Slots(i) = t.primary
    BY <1>3 DEF Offset, Slots
  <2> QED BY <2>2, <2>3
<1>4. CASE i # 3
  <2> DEFINE k == i - 3
             l == t.logical[k]
  <2>1. k \in 1 .. Len(t.logical) /\ ~ (i < 4) /\ i \notin 0..3 /\ i > 3
    BY <1>2, <1>4
  <2>2. l \in SoundTable /\ l.changed # TRUE
    BY <1>2, <2>1 DEF Marked
  <2>3. Offset(t, i) = l.offset /\ Slots(i) = l.slots
    BY <1>4, <2>1 DEF Offset, Slots
  <2>4. \/ disk[l.offset].slots = l.slots
        \/ /\ k = Len(t.logical)
           /\ disk[l.offset].slots = [l.slots EXCEPT ![l.ext] = disk[l.offset].slots[l.ext]]
    BY <1>1, <2>1, <2>2 DEF Recorded
  <2>5. k = Len(t.logical) => i = Partitions(t) - 1
    BY <1>2 DEF Partitions
  <2>6. l = t.logical[i - 3]
    OBVIOUS
  <2> HIDE DEF k, l
  <2> QED BY <2>1, <2>3, <2>4, <2>5, <2>6
<1> QED BY <1>3, <1>4

(* write_table skips the tables that are not marked, and loses nothing:      *)
(* until w each of them is on the disk as it is in memory, except for the    *)
(* link of the last one, which delete_partition clears without a mark.       *)
THEOREM UnmarkedIsRecorded == TidyDisks /\ Spec => []UnmarkedIsOnDisk
<1>1. TidyDisks /\ Spec => []TablesInv
  BY SessionInvariant
<1>2. TablesInv => UnmarkedIsOnDisk
  BY InvGivesRecord
<1> QED BY <1>1, <1>2, PTL

-----------------------------------------------------------------------------
(* What the prompts accept is free.                                         *)

(* Rounding goes down.                                                      *)
LEMMA RoundGoesDown ==
  ASSUME NEW v \in Units, NEW n \in Nat
  PROVE  Round(v, n) <= n
<1> DEFINE q == n \div CylinderSize
<1>1. CylinderSize \in Nat /\ CylinderSize > 0
  BY GeometryNumbers
<1>2. q * CylinderSize <= n
  BY <1>1
<1> HIDE DEF q
<1>3. CASE v.unit_flag
  BY <1>2, <1>3 DEF Round, q
<1>4. CASE ~ v.unit_flag
  BY <1>4 DEF Round
<1> QED BY <1>3, <1>4

(* A step of a round that moves goes on.                                    *)
LEMMA MovedGoesOn ==
  ASSUME NEW x \in Tables, NEW v \in Units, NEW n \in Nat,
         NEW k \in Numbers(x), NEW b \in Nat
  PROVE  /\ Moved(x, v, n, k, b) \in Nat /\ Moved(x, v, n, k, b) >= b
         /\ \/ b = Offset(x, k)
            \/ Firsts(x, v, n)[k] <= b /\ b <= Lasts(x, n)[k]
            => Moved(x, v, n, k, b) > b
<1>1. /\ Firsts(x, v, n)[k] \in Nat /\ Lasts(x, n)[k] \in Int /\ Offset(x, k) \in Nat
      /\ v.sector_offset \in Nat /\ v.sector_offset > 0
  BY BoundsAreTyped, AccessIsTyped, GeometryNumbers DEF Units
<1> DEFINE first == Firsts(x, v, n)[k]
           last  == Lasts(x, n)[k]
           o     == v.sector_offset
           s     == IF b = Offset(x, k) THEN b + o ELSE b
<1>2. Moved(x, v, n, k, b) =
        IF first <= s /\ s <= last THEN IF n < 4 THEN last + 1 ELSE last + o ELSE s
  BY DEF Moved
<1>3. first \in Nat /\ last \in Int /\ o \in Nat /\ o > 0 /\ Offset(x, k) \in Nat
  BY <1>1
<1> HIDE DEF first, last, o
<1> QED BY <1>2, <1>3 DEF first, last

(* Where a round moves nothing no table is and no partition.                *)
LEMMA FixedIsFree ==
  ASSUME NEW x \in Tables, NEW v \in Units, NEW n \in Nat, NEW s \in Nat,
         Pass(x, v, n, s) = s, NEW k \in Numbers(x)
  PROVE  /\ s # Offset(x, k)
         /\ ~ (Firsts(x, v, n)[k] <= s /\ s <= Lasts(x, n)[k])
<1> DEFINE N == Partitions(x)
<1>1. N \in Nat /\ Numbers(x) = 0 .. N - 1
  BY TablesCount
<1>9. PICK p : Walk(p, x, v, n, s)
  BY PassSteps
<1>2. /\ p[0] = s
      /\ \A j \in 0 .. N - 1 : p[j + 1] = Moved(x, v, n, j, p[j])
      /\ \A j \in 0 .. N : p[j] \in Nat /\ p[j] >= s
      /\ Pass(x, v, n, s) = p[N]
  BY <1>9 DEF Walk
<1> HIDE DEF N
<1>3. \A j \in 0 .. N - 1 : p[j] <= p[j + 1]
  <2> SUFFICES ASSUME NEW j \in 0 .. N - 1 PROVE p[j] <= p[j + 1]
    OBVIOUS
  <2>1. j \in Numbers(x) /\ j \in 0 .. N
    BY <1>1
  <2>2. p[j] \in Nat /\ p[j + 1] = Moved(x, v, n, j, p[j])
    BY <1>2, <2>1
  <2>3. Moved(x, v, n, j, p[j]) >= p[j] /\ Moved(x, v, n, j, p[j]) \in Nat
    BY <2>1, <2>2, MovedGoesOn
  <2> QED BY <2>2, <2>3
<1> DEFINE S == {j \in 0 .. N : p[N - j] = s}
<1>4. 0 \in S
  BY <1>1, <1>2
<1>5. ASSUME NEW j \in 0 .. N - 1, j \in S PROVE j + 1 \in S
  <2> DEFINE i == N - (j + 1)
  <2>1. i \in 0 .. N - 1 /\ i \in 0 .. N /\ i + 1 = N - j
    BY <1>1
  <2>2. p[i + 1] = s
    BY <1>5, <2>1
  <2>3. p[i] <= s /\ p[i] >= s /\ p[i] \in Nat
    BY <1>2, <1>3, <2>1, <2>2
  <2>4. p[i] = s
    BY <2>3
  <2> QED BY <1>1, <2>1, <2>4
<1>6. \A j \in 0 .. N : j \in S
  <2> HIDE DEF S
  <2> QED BY <1>1, <1>4, <1>5, Induction
<1>7. p[k] = s /\ p[k + 1] = s
  <2>1. N - k \in 0 .. N /\ N - (k + 1) \in 0 .. N
    BY <1>1
  <2>2. N - (N - k) = k /\ N - (N - (k + 1)) = k + 1
    BY <1>1
  <2>3. \A j \in 0 .. N : p[N - j] = s
    BY <1>6
  <2> QED BY <2>1, <2>2, <2>3
<1>8. Moved(x, v, n, k, s) = s
  BY <1>1, <1>2, <1>7
<1> QED BY <1>8, MovedGoesOn

(* The search ends at a sector that a round leaves where it is: a disk has  *)
(* no more sectors than there are rounds.                                   *)
LEMMA SearchEnds ==
  ASSUME NEW x \in Tables, NEW v \in Units, NEW n \in Nat,
         LimitOf(x, n) \in Nat, LimitOf(x, n) <= Total - 1, HasRoom(x, v, n)
  PROVE  Pass(x, v, n, FirstFree(x, v, n)) = FirstFree(x, v, n)
<1> DEFINE limit == LimitOf(x, n)
<1>1. Total \in Nat
  BY TotalIsPositive
<1>2. limit \in Nat /\ limit <= Total - 1
  OBVIOUS
<1>3. PICK r :
        /\ r[0] = Base(x, v, n)
        /\ \A k \in 0 .. Total - 1 :
             r[k + 1] = IF r[k] > limit THEN r[k] ELSE Pass(x, v, n, r[k])
        /\ \A k \in 0 .. Total : r[k] \in Nat /\ r[k] >= Base(x, v, n)
        /\ FirstFree(x, v, n) = r[Total]
  BY SearchRounds
<1> DEFINE Fixed(k) == Pass(x, v, n, r[k]) = r[k]
           S == {k \in 0 .. Total : r[k] > limit \/ Fixed(k) \/ r[k] >= k}
<1>4. 0 \in S
  BY <1>1, <1>3
<1>5. ASSUME NEW k \in 0 .. Total - 1, k \in S PROVE k + 1 \in S
  <2>1. k \in 0 .. Total /\ k + 1 \in 0 .. Total /\ r[k] \in Nat
    BY <1>1, <1>3
  <2>2. r[k + 1] = IF r[k] > limit THEN r[k] ELSE Pass(x, v, n, r[k])
    BY <1>3
  <2> HIDE DEF limit
  <2>3. CASE r[k] > limit
    BY <2>1, <2>2, <2>3
  <2>4. CASE ~ (r[k] > limit) /\ Fixed(k)
    BY <2>1, <2>2, <2>4
  <2>5. CASE ~ (r[k] > limit) /\ ~ Fixed(k)
    <3>1. r[k] >= k
      BY <1>5, <2>5
    <3>2. Pass(x, v, n, r[k]) \in Nat /\ Pass(x, v, n, r[k]) >= r[k]
      BY <2>1, PassGoesOn
    <3>3. r[k + 1] = Pass(x, v, n, r[k]) /\ r[k + 1] # r[k]
      BY <2>2, <2>5
    <3>4. r[k + 1] >= k + 1
      BY <2>1, <3>1, <3>2, <3>3
    <3> QED BY <2>1, <3>4
  <2> QED BY <2>3, <2>4, <2>5
<1>6. Total \in S
  <2> HIDE DEF S
  <2>1. \A k \in 0 .. Total : k \in S
    BY <1>1, <1>4, <1>5, Induction
  <2> QED BY <1>1, <2>1
<1>7. r[Total] <= limit /\ r[Total] \in Nat
  BY <1>1, <1>3 DEF HasRoom
<1> HIDE DEF limit
<1>8. Fixed(Total)
  BY <1>1, <1>2, <1>6, <1>7
<1> QED BY <1>3, <1>8

(* A pair of answers takes no sector of a partition, nor, for a primary     *)
(* one, of the extended partition.                                          *)
LEMMA AnswersAreFree ==
  ASSUME NEW x \in Tables, NEW v \in Units, NEW n \in Nat,
         LimitOf(x, n) \in Nat, LimitOf(x, n) <= Total - 1, HasRoom(x, v, n),
         NEW typed, NEW start \in Starts(x, v, n, typed),
         NEW others, NEW stop \in Stops(x, v, n, start, others),
         NEW k \in Numbers(x)
  PROVE  /\ start \in Nat /\ stop \in Nat
         /\ stop < Firsts(x, v, n)[k] \/ Lasts(x, n)[k] < start
<1>1. start \in Nat /\ start <= LimitOf(x, n)
  BY StartsAreInRange
<1>2. Pass(x, v, n, start) = start
  <2>1. start = FirstFree(x, v, n) \/ Pass(x, v, n, start) = start
    BY DEF Starts
  <2> QED BY <2>1, SearchEnds
<1>3. ~ (Firsts(x, v, n)[k] <= start /\ start <= Lasts(x, n)[k])
  BY <1>1, <1>2, FixedIsFree
<1>4. stop \in Nat /\ stop <= StopLimit(x, v, n, start)
  BY <1>1, StopsAreInRange
<1>5. Firsts(x, v, n)[k] \in Nat /\ Lasts(x, n)[k] \in Int
  BY BoundsAreTyped
<1>6. start < Firsts(x, v, n)[k] => stop < Firsts(x, v, n)[k]
  <2> SUFFICES ASSUME start < Firsts(x, v, n)[k] PROVE stop < Firsts(x, v, n)[k]
    OBVIOUS
  <2> DEFINE first == Firsts(x, v, n)
             ends  == {LimitOf(x, n)}
                      \cup {Offset(x, i) - 1 : i \in {j \in Numbers(x) : start < Offset(x, j)}}
                      \cup {first[i] - 1 : i \in {j \in Numbers(x) : start < first[j]}}
  <2>1. first[k] - 1 \in ends
    OBVIOUS
  <2>2. ends \in SUBSET Nat
    <3>1. \A i \in Numbers(x) : Offset(x, i) \in Nat /\ first[i] \in Nat
      BY BoundsAreTyped, AccessIsTyped
    <3> HIDE DEF first
    <3> QED BY <1>1, <3>1
  <2>3. StopLimit(x, v, n, start) = Min(ends)
    BY DEF StopLimit
  <2> HIDE DEF ends
  <2>4. Min(ends) \in ends /\ Min(ends) <= first[k] - 1
    BY <2>1, <2>2, LeastElement
  <2> DEFINE low == Min(ends)
             f   == first[k]
  <2>5. /\ low \in Nat /\ low <= f - 1 /\ f \in Nat
        /\ stop \in Nat /\ stop <= low
    BY <1>4, <1>5, <2>2, <2>3, <2>4
  <2> HIDE DEF low, f
  <2>6. stop < f
    BY <2>5
  <2> QED BY <2>6 DEF f
<1> QED BY <1>1, <1>3, <1>4, <1>5, <1>6

-----------------------------------------------------------------------------
(* The partitions of the tables, as DosSpace sees them.                     *)
DataOf(x) == {i \in Numbers(x) : IsData(PartEntry(x, i))}

(* A partition is not empty, and its data begins in it.                     *)
Placed(x) ==
  \A i \in DataOf(x) : /\ Part(x, i).first <= Part(x, i).start
                       /\ Part(x, i).start <= Part(x, i).last

(* No two overlap.                                                          *)
Apart(x) ==
  \A i, j \in DataOf(x) :
    i # j => \/ Part(x, i).last < Part(x, j).first
             \/ Part(x, j).last < Part(x, i).first

Spaced(x) == Placed(x) /\ Apart(x)

(* The fields of a partition, and the numbers they are.                     *)
LEMMA PartFields ==
  ASSUME NEW x \in Tables, NEW i \in Numbers(x)
  PROVE  /\ Part(x, i).first = PartEntry(x, i).begin
         /\ Part(x, i).last = LastSector(x, i)
         /\ LastSector(x, i) = PartEntry(x, i).start + Offset(x, i) + PartEntry(x, i).size - 1
         /\ Part(x, i).start = Offset(x, i) + PartEntry(x, i).start
         /\ Part(x, i).kind = PartEntry(x, i).type
         /\ Part(x, i).active = PartEntry(x, i).active
         /\ Part(x, i).inside = (i > 3)
         /\ Part(x, i).first \in Nat /\ Part(x, i).last \in Int /\ Part(x, i).start \in Nat
         /\ PartEntry(x, i).start \in Nat /\ PartEntry(x, i).size \in Nat
         /\ PartEntry(x, i).begin \in Nat /\ Offset(x, i) \in Nat
<1>1. PartEntry(x, i) \in Entry /\ Offset(x, i) \in Nat /\ LastSector(x, i) \in Int
  BY AccessIsTyped
<1>2. LastSector(x, i) = PartEntry(x, i).start + Offset(x, i) + PartEntry(x, i).size - 1
  BY DEF LastSector
<1>3. /\ PartEntry(x, i).start \in Nat /\ PartEntry(x, i).size \in Nat
      /\ PartEntry(x, i).begin \in Nat
  BY <1>1, EntryFields
<1> QED BY <1>1, <1>2, <1>3 DEF Part

(* The same fields make the same partition.                                 *)
LEMMA SamePartition ==
  ASSUME NEW x \in Tables, NEW i \in Numbers(x), NEW y \in Tables, NEW j \in Numbers(y),
         PartEntry(y, j).type = PartEntry(x, i).type,
         PartEntry(y, j).active = PartEntry(x, i).active,
         PartEntry(y, j).begin = PartEntry(x, i).begin,
         PartEntry(y, j).size = PartEntry(x, i).size,
         Offset(y, j) + PartEntry(y, j).start = Offset(x, i) + PartEntry(x, i).start,
         (j > 3) = (i > 3)
  PROVE  Part(y, j) = Part(x, i)
<1>1. LastSector(y, j) = LastSector(x, i)
  BY PartFields
<1> QED BY <1>1 DEF Part

(* The extended partition stays where it is.                                *)
LEMMA BoxStays ==
  ASSUME NEW x \in SoundTables, NEW y \in SoundTables,
         y.extended_offset = x.extended_offset, y.ext_index = x.ext_index,
         x.extended_offset # 0 => Extended(y).size = Extended(x).size
  PROVE  Box(y) = Box(x)
<1>1. ASSUME NEW z \in SoundTables, z.extended_offset # 0
      PROVE  LastSector(z, z.ext_index) = z.extended_offset + Extended(z).size - 1
  <2>1. z.ext_index \in 0..3
    BY SoundFields
  <2>2. PartEntry(z, z.ext_index) = Extended(z) /\ Offset(z, z.ext_index) = 0
    BY <2>1 DEF PartEntry, Extended, Offset
  <2>3. /\ Extended(z).start = z.extended_offset
        /\ Extended(z).start \in Nat /\ Extended(z).size \in Nat
    BY <1>1, SoundFields, EntryFields
  <2> QED BY <2>2, <2>3 DEF LastSector
<1>2. CASE x.extended_offset = 0
  BY <1>2 DEF Box
<1>3. CASE x.extended_offset # 0
  <2>1. LastSector(y, y.ext_index) = LastSector(x, x.ext_index)
    BY <1>1, <1>3
  <2> QED BY <1>3, <2>1 DEF Box
<1> QED BY <1>2, <1>3

(* Changing one partition leaves the others.                                *)
OnlyPart(x, i, e, y) ==
  /\ y \in SoundTables /\ Numbers(y) = Numbers(x)
  /\ Box(y) = Box(x)
  /\ PartEntry(y, i) = e /\ Offset(y, i) = Offset(x, i)
  /\ \A j \in Numbers(x) : j # i => Part(y, j) = Part(x, j)
  /\ \A j \in Numbers(x) : j # i => PartEntry(y, j) = PartEntry(x, j)

(* And so does set_partition.                                               *)
LEMMA SetPartParts ==
  ASSUME NEW x \in SoundTables, NEW i \in Numbers(x), NEW e \in Entry,
         i < 4 /\ x.extended_offset # 0 /\ i = x.ext_index =>
           e.type = EXTENDED /\ e.start = Extended(x).start /\ e.size = Extended(x).size,
         i >= 4 /\ IsData(e) => Offset(x, i) <= e.begin,
         i >= 4 /\ e.type = EXTENDED => PartEntry(x, i).type = EXTENDED
  PROVE  OnlyPart(x, i, e, SetPart(x, i, e))
<1> DEFINE y == SetPart(x, i, e)
<1>1. /\ y \in SoundTables
      /\ y.ext_index = x.ext_index /\ y.extended_offset = x.extended_offset
      /\ Len(y.logical) = Len(x.logical)
      /\ i < 4 => /\ y.logical = x.logical
                  /\ y.primary = [x.primary EXCEPT ![i] = e]
      /\ i >= 4 => /\ y.primary = x.primary
                   /\ \E l \in SoundTable :
                        /\ l.offset = Offset(x, i)
                        /\ PartOf(l) = e
                        /\ y.logical = [x.logical EXCEPT ![i - 3] = l]
  <2>1. Replaced(x, i, e, SetPart(x, i, e))
    BY SetPartIsSound
  <2> QED BY <2>1 DEF Replaced
<1> HIDE DEF y
<1>2. /\ x \in Tables /\ y \in Tables /\ i \in Nat /\ Len(x.logical) \in Nat
      /\ (i >= 4 => i - 3 \in 1 .. Len(x.logical))
      /\ x.primary \in [0..3 -> Entry]
      /\ DOMAIN x.logical = 1 .. Len(x.logical) /\ DOMAIN y.logical = 1 .. Len(x.logical)
      /\ x.ext_index \in 0..3
  BY <1>1, SoundFields, AccessIsTyped, TablesCount
<1>3. Numbers(y) = Numbers(x)
  BY <1>1 DEF Numbers, Partitions
<1>4. ASSUME NEW j \in Numbers(x)
      PROVE  /\ PartEntry(y, j) = IF j = i THEN e ELSE PartEntry(x, j)
             /\ Offset(y, j) = Offset(x, j)
  <2>1. j \in Nat /\ (j >= 4 => j - 3 \in 1 .. Len(x.logical)) /\ (j < 4 => j \in 0..3)
    BY <1>2, AccessIsTyped
  <2>2. CASE i < 4
    <3>1. y.logical = x.logical /\ y.primary = [x.primary EXCEPT ![i] = e]
      BY <1>1, <2>2
    <3>2. j < 4 => y.primary[j] = IF j = i THEN e ELSE x.primary[j]
      BY <1>2, <2>1, <3>1
    <3> QED BY <1>2, <2>1, <2>2, <3>1, <3>2 DEF PartEntry, Offset
  <2>3. CASE i >= 4
    <3>1. PICK l \in SoundTable :
            /\ l.offset = Offset(x, i)
            /\ PartOf(l) = e
            /\ y.logical = [x.logical EXCEPT ![i - 3] = l]
      BY <1>1, <2>3
    <3>2. y.primary = x.primary
      BY <1>1, <2>3
    <3>3. CASE j < 4
      BY <2>3, <3>2, <3>3, <2>1 DEF PartEntry, Offset
    <3>4. CASE j >= 4
      <4>1. y.logical[j - 3] = IF j = i THEN l ELSE x.logical[j - 3]
        BY <1>2, <2>1, <3>1, <3>4
      <4>2. PartEntry(y, j) = PartOf(y.logical[j - 3]) /\ Offset(y, j) = y.logical[j - 3].offset
        BY <2>1, <3>4 DEF PartEntry, Offset, PartOf
      <4>3. PartEntry(x, j) = PartOf(x.logical[j - 3]) /\ Offset(x, j) = x.logical[j - 3].offset
        BY <2>1, <3>4 DEF PartEntry, Offset, PartOf
      <4> QED BY <3>1, <4>1, <4>2, <4>3
    <3> QED BY <2>1, <3>3, <3>4
  <2> QED BY <1>2, <2>2, <2>3
<1>5. ASSUME NEW j \in Numbers(x), j # i PROVE Part(y, j) = Part(x, j)
  <2>1. PartEntry(y, j) = PartEntry(x, j) /\ Offset(y, j) = Offset(x, j)
    BY <1>4, <1>5
  <2> QED BY <2>1 DEF Part, LastSector
<1>6. Box(y) = Box(x)
  <2>1. x.extended_offset # 0 => Extended(y).size = Extended(x).size
    <3>1. CASE i < 4 /\ i = x.ext_index
      BY <1>1, <1>2, <3>1 DEF Extended
    <3>2. CASE ~ (i < 4 /\ i = x.ext_index)
      <4>1. y.primary[x.ext_index] = x.primary[x.ext_index]
        BY <1>1, <1>2, <3>2
      <4> QED BY <1>1, <4>1 DEF Extended
    <3> QED BY <3>1, <3>2
  <2> QED BY <1>1, <2>1, BoxStays
<1> QED BY <1>1, <1>3, <1>4, <1>5, <1>6 DEF y, OnlyPart

(* Partitions apart from each other are different ones.                     *)
LEMMA ApartIsDifferent ==
  ASSUME NEW x \in Tables, Spaced(x), NEW i \in DataOf(x), NEW j \in DataOf(x), i # j
  PROVE  Part(x, i) # Part(x, j)
<1>1. i \in Numbers(x) /\ j \in Numbers(x)
  BY DEF DataOf
<1>2. /\ Part(x, i).first \in Nat /\ Part(x, i).last \in Int /\ Part(x, i).start \in Nat
      /\ Part(x, j).first \in Nat /\ Part(x, j).last \in Int
  BY <1>1, PartFields
<1>3. Part(x, i).first <= Part(x, i).last
  BY <1>2 DEF Spaced, Placed
<1>4. Part(x, i).last < Part(x, j).first \/ Part(x, j).last < Part(x, i).first
  BY DEF Spaced, Apart
<1> QED BY <1>2, <1>3, <1>4

(* One partition less.                                                      *)
LEMMA PartGone ==
  ASSUME NEW x \in Tables, Spaced(x), NEW y \in Tables, NEW i \in Numbers(x),
         NEW g \in [DataOf(y) -> DataOf(x)],
         \A j \in DataOf(y) : Part(y, j) = Part(x, g[j]),
         \A j, k \in DataOf(y) : j # k => g[j] # g[k],
         {g[j] : j \in DataOf(y)} = DataOf(x) \ {i}
  PROVE  /\ Spaced(y)
         /\ i \in DataOf(x) => Parts(y) = Parts(x) \ {Part(x, i)}
         /\ i \notin DataOf(x) => Parts(y) = Parts(x)
<1>1. Spaced(y)
  BY DEF Spaced, Placed, Apart
<1>2. Parts(x) = {Part(x, j) : j \in DataOf(x)} /\ Parts(y) = {Part(y, j) : j \in DataOf(y)}
  BY DEF Parts, DataOf
<1>3. Parts(y) = {Part(x, j) : j \in DataOf(x) \ {i}}
  BY <1>2
<1>4. CASE i \in DataOf(x)
  <2>1. \A j \in DataOf(x) : j # i => Part(x, j) # Part(x, i)
    BY <1>4, ApartIsDifferent
  <2> QED BY <1>1, <1>2, <1>3, <1>4, <2>1
<1>5. CASE i \notin DataOf(x)
  <2>1. DataOf(x) \ {i} = DataOf(x)
    BY <1>5
  <2> QED BY <1>1, <1>2, <1>3, <1>5, <2>1
<1> QED BY <1>4, <1>5

(* Another partition in the place of one.                                   *)
LEMMA PartReplaced ==
  ASSUME NEW x \in Tables, Spaced(x), NEW y \in Tables, DataOf(y) = DataOf(x),
         NEW i \in DataOf(x),
         \A j \in DataOf(x) : j # i => Part(y, j) = Part(x, j),
         Part(y, i).first = Part(x, i).first, Part(y, i).last = Part(x, i).last,
         Part(x, i).first <= Part(y, i).start, Part(y, i).start <= Part(x, i).last
  PROVE  /\ Spaced(y)
         /\ Part(x, i) \in Parts(x) /\ Part(y, i) \in Parts(y)
         /\ Parts(y) = (Parts(x) \ {Part(x, i)}) \cup {Part(y, i)}
<1>1. \A j \in DataOf(x) : /\ Part(y, j).first = Part(x, j).first
                           /\ Part(y, j).last = Part(x, j).last
  OBVIOUS
<1>2. Placed(y)
  BY <1>1 DEF Spaced, Placed
<1>3. Apart(y)
  BY <1>1 DEF Spaced, Apart
<1>4. Parts(x) = {Part(x, j) : j \in DataOf(x)} /\ Parts(y) = {Part(y, j) : j \in DataOf(y)}
  BY DEF Parts, DataOf
<1>5. \A j \in DataOf(x) : j # i => Part(x, j) # Part(x, i)
  BY ApartIsDifferent
<1>6. Parts(y) = {Part(x, j) : j \in DataOf(x) \ {i}} \cup {Part(y, i)}
  BY <1>4
<1>7. Parts(x) \ {Part(x, i)} = {Part(x, j) : j \in DataOf(x) \ {i}}
  BY <1>4, <1>5
<1> QED BY <1>2, <1>3, <1>4, <1>6, <1>7 DEF Spaced

(* One partition more, in sectors that were free.                           *)
LEMMA PartMore ==
  ASSUME NEW x \in Tables, Spaced(x), NEW y \in Tables, NEW i, i \notin DataOf(x),
         DataOf(y) = DataOf(x) \cup {i},
         \A j \in DataOf(x) : Part(y, j) = Part(x, j),
         Part(y, i).first <= Part(y, i).start, Part(y, i).start <= Part(y, i).last,
         \A j \in DataOf(x) : \/ Part(y, i).last < Part(x, j).first
                              \/ Part(x, j).last < Part(y, i).first
  PROVE  /\ Spaced(y)
         /\ Parts(y) = Parts(x) \cup {Part(y, i)}
         /\ Part(y, i) \notin Parts(x)
<1>1. Placed(y)
  BY DEF Spaced, Placed
<1>2. Apart(y)
  <2> SUFFICES ASSUME NEW j \in DataOf(y), NEW k \in DataOf(y), j # k
               PROVE  \/ Part(y, j).last < Part(y, k).first
                      \/ Part(y, k).last < Part(y, j).first
    BY DEF Apart
  <2>1. CASE j # i /\ k # i
    BY <2>1 DEF Spaced, Apart
  <2>2. CASE j = i \/ k = i
    BY <2>2
  <2> QED BY <2>1, <2>2
<1>3. Parts(x) = {Part(x, j) : j \in DataOf(x)} /\ Parts(y) = {Part(y, j) : j \in DataOf(y)}
  BY DEF Parts, DataOf
<1>4. Part(y, i) \notin Parts(x)
  <2> SUFFICES ASSUME NEW j \in DataOf(x), Part(y, i) = Part(x, j) PROVE FALSE
    BY <1>3
  <2>1. j \in Numbers(x)
    BY DEF DataOf
  <2>2. Part(x, j).first \in Nat /\ Part(x, j).last \in Int /\ Part(x, j).start \in Nat
    BY <2>1, PartFields
  <2>3. Part(x, j).first <= Part(x, j).last
    BY <2>2 DEF Spaced, Placed
  <2> QED BY <2>2, <2>3
<1>5. Parts(y) = Parts(x) \cup {Part(y, i)}
  BY <1>3
<1> QED BY <1>1, <1>2, <1>4, <1>5 DEF Spaced

(* A step of DosSpace between two tables.                                   *)
Changes(x, y) ==
  /\ Box(y) = Box(x)
  /\ \E p \in Parts(x), q \in Parts(y) :
       /\ Parts(y) = (Parts(x) \ {p}) \cup {q}
       /\ q.kind \in Types
       /\ q.start \in p.first .. p.last
       /\ <<q.first, q.last, q.inside>> = <<p.first, p.last, p.inside>>

Stays(x, y) == Box(y) = Box(x) /\ Parts(y) = Parts(x)

(* An entry that changes nothing but the kind, the flag or the beginning of *)
(* the data of a partition.                                                 *)
LEMMA ChangeParts ==
  ASSUME NEW x \in SoundTables, Spaced(x), NEW i \in DataOf(x), NEW e \in Entry,
         e.type \in Types, e.begin = PartEntry(x, i).begin,
         e.start + e.size = PartEntry(x, i).start + PartEntry(x, i).size,
         e.begin <= Offset(x, i) + e.start, Offset(x, i) + e.start <= LastSector(x, i)
  PROVE  Spaced(SetPart(x, i, e)) /\ Changes(x, SetPart(x, i, e))
<1> DEFINE y == SetPart(x, i, e)
<1>1. i \in Numbers(x) /\ IsData(PartEntry(x, i)) /\ IsData(e) /\ x \in Tables
  BY SoundFields, TypesAssumption DEF DataOf, IsData
<1>2. OnlyPart(x, i, e, y)
  <2>1. ~ (i < 4 /\ x.extended_offset # 0 /\ i = x.ext_index)
    BY <1>1, NoDataInBox
  <2>2. i >= 4 => Offset(x, i) <= e.begin
    BY <1>1, PartEntryFacts
  <2>3. e.type # EXTENDED
    BY <1>1 DEF IsData
  <2> QED BY <1>1, <2>1, <2>2, <2>3, SetPartParts
<1> HIDE DEF y
<1>3. /\ y \in SoundTables /\ y \in Tables /\ Numbers(y) = Numbers(x) /\ Box(y) = Box(x)
      /\ PartEntry(y, i) = e /\ Offset(y, i) = Offset(x, i)
      /\ \A j \in Numbers(x) : j # i => Part(y, j) = Part(x, j)
      /\ \A j \in Numbers(x) : j # i => PartEntry(y, j) = PartEntry(x, j)
  BY <1>2, SoundFields DEF OnlyPart
<1>4. DataOf(y) = DataOf(x)
  BY <1>1, <1>3 DEF DataOf
<1>5. /\ Part(x, i).first = PartEntry(x, i).begin
      /\ Part(x, i).last = PartEntry(x, i).start + Offset(x, i) + PartEntry(x, i).size - 1
      /\ Part(x, i).inside = (i > 3)
      /\ PartEntry(x, i).start \in Nat /\ PartEntry(x, i).size \in Nat
      /\ PartEntry(x, i).begin \in Nat /\ Offset(x, i) \in Nat
      /\ LastSector(x, i) = Part(x, i).last
  BY <1>1, PartFields
<1>6. /\ Part(y, i).first = e.begin
      /\ Part(y, i).last = e.start + Offset(x, i) + e.size - 1
      /\ Part(y, i).start = Offset(x, i) + e.start
      /\ Part(y, i).kind = e.type
      /\ Part(y, i).inside = (i > 3)
      /\ e.start \in Nat /\ e.size \in Nat
  BY <1>1, <1>3, PartFields
<1>7. /\ Part(y, i).first = Part(x, i).first /\ Part(y, i).last = Part(x, i).last
      /\ Part(x, i).first <= Part(y, i).start /\ Part(y, i).start <= Part(x, i).last
  BY <1>5, <1>6
<1>8. /\ Spaced(y)
      /\ Part(x, i) \in Parts(x) /\ Part(y, i) \in Parts(y)
      /\ Parts(y) = (Parts(x) \ {Part(x, i)}) \cup {Part(y, i)}
  <2>1. \A j \in DataOf(x) : j # i => Part(y, j) = Part(x, j)
    BY <1>3 DEF DataOf
  <2> QED BY <1>1, <1>3, <1>4, <1>7, <2>1, PartReplaced
<1>9. Part(y, i).start \in Part(x, i).first .. Part(x, i).last
  BY <1>5, <1>6, <1>7
<1>10. Changes(x, y)
  BY <1>3, <1>5, <1>6, <1>7, <1>8, <1>9 DEF Changes
<1> QED BY <1>8, <1>10 DEF y

(* a changes the flag of a partition, or an entry that is none.             *)
LEMMA ToggleParts ==
  ASSUME NEW x \in SoundTables, Spaced(x), NEW i \in Numbers(x)
  PROVE  /\ Spaced(ToggleActive(x, i))
         /\ Changes(x, ToggleActive(x, i)) \/ Stays(x, ToggleActive(x, i))
<1> DEFINE o == PartEntry(x, i)
           e == [o EXCEPT !.active = ~ o.active]
           y == SetPart(x, i, e)
<1>1. e \in Entry /\ e.type = o.type /\ e.begin = o.begin /\ e.start = o.start /\ e.size = o.size
  BY PartEntryFacts DEF Entry
<1>2. ToggleActive(x, i) = y
  BY DEF ToggleActive
<1> HIDE DEF e
<1>3. CASE i \in DataOf(x)
  <2>1. o.type \in Types
    BY <1>3, PartEntryFacts DEF DataOf, IsData
  <2>2. /\ o.begin <= Part(x, i).start /\ Part(x, i).start <= Part(x, i).last
        /\ Part(x, i).start = Offset(x, i) + o.start /\ Part(x, i).last = LastSector(x, i)
    BY <1>3, SoundFields, PartFields DEF Spaced, Placed
  <2> HIDE DEF o
  <2>3. Spaced(y) /\ Changes(x, y)
    BY <1>1, <1>3, <2>1, <2>2, ChangeParts DEF o
  <2> QED BY <1>2, <2>3
<1>4. CASE i \notin DataOf(x)
  <2>1. ~ IsData(o) /\ ~ IsData(e)
    BY <1>1, <1>4 DEF DataOf, IsData
  <2>2. i < 4 /\ x.extended_offset # 0 /\ i = x.ext_index =>
          e.type = EXTENDED /\ e.start = Extended(x).start /\ e.size = Extended(x).size
    BY <1>1, PartEntryFacts, SoundFields
  <2>3. OnlyPart(x, i, e, y)
    BY <1>1, <2>1, <2>2, SetPartParts
  <2> HIDE DEF y
  <2>4. /\ Numbers(y) = Numbers(x) /\ Box(y) = Box(x)
        /\ PartEntry(y, i) = e
        /\ \A j \in Numbers(x) : j # i => Part(y, j) = Part(x, j)
        /\ \A j \in Numbers(x) : j # i => PartEntry(y, j) = PartEntry(x, j)
    BY <2>3 DEF OnlyPart
  <2>5. DataOf(y) = DataOf(x)
    BY <2>1, <2>4 DEF DataOf
  <2>6. \A j \in DataOf(x) : Part(y, j) = Part(x, j)
    BY <1>4, <2>4 DEF DataOf
  <2>7. Spaced(y)
    BY <2>5, <2>6 DEF Spaced, Placed, Apart
  <2>8. Parts(y) = Parts(x)
    <3>1. Parts(x) = {Part(x, j) : j \in DataOf(x)} /\ Parts(y) = {Part(y, j) : j \in DataOf(y)}
      BY DEF Parts, DataOf
    <3> QED BY <2>5, <2>6, <3>1
  <2> QED BY <1>2, <2>4, <2>7, <2>8 DEF Stays
<1> QED BY <1>3, <1>4

(* t changes the kind of a partition.                                       *)
LEMMA SetTypeParts ==
  ASSUME NEW x \in SoundTables, Spaced(x), NEW i \in DataOf(x), NEW type \in Types
  PROVE  Spaced(SetType(x, i, type)) /\ Changes(x, SetType(x, i, type))
<1> DEFINE o == PartEntry(x, i)
           e == [o EXCEPT !.type = type]
<1>1. i \in Numbers(x)
  BY DEF DataOf
<1>2. /\ e \in Entry /\ e.type = type /\ e.begin = o.begin /\ e.start = o.start
      /\ e.size = o.size
  BY <1>1, PartEntryFacts DEF Entry
<1>3. SetType(x, i, type) = SetPart(x, i, e)
  BY DEF SetType
<1>4. /\ o.begin <= Part(x, i).start /\ Part(x, i).start <= Part(x, i).last
      /\ Part(x, i).start = Offset(x, i) + o.start /\ Part(x, i).last = LastSector(x, i)
  BY <1>1, SoundFields, PartFields DEF Spaced, Placed
<1> HIDE DEF e, o
<1>5. Spaced(SetPart(x, i, e)) /\ Changes(x, SetPart(x, i, e))
  BY <1>2, <1>4, ChangeParts DEF o
<1> QED BY <1>3, <1>5

(* b changes where the data of a partition begin.                           *)
LEMMA MoveBeginParts ==
  ASSUME NEW x \in SoundTables, Spaced(x), NEW i \in DataOf(x),
         NEW first \in PartEntry(x, i).begin .. LastSector(x, i)
  PROVE  /\ Spaced(MoveBegin(x, i, first))
         /\ Changes(x, MoveBegin(x, i, first)) \/ Stays(x, MoveBegin(x, i, first))
<1> DEFINE o   == PartEntry(x, i)
           new == first - Offset(x, i)
           len == o.size + o.start - new
           e   == [o EXCEPT !.start = new, !.size = len]
<1>0. i \in Numbers(x) /\ IsData(o)
  BY DEF DataOf
<1>1. /\ o \in Entry /\ o.begin \in Nat /\ o.start \in Nat /\ o.size \in Nat
      /\ Offset(x, i) \in Nat /\ Offset(x, i) <= o.begin /\ o.type \in Types
  <2>1. i < 4 => Offset(x, i) = 0
    BY DEF Offset
  <2> QED BY <1>0, <2>1, PartEntryFacts DEF IsData
<1>2. LastSector(x, i) = o.start + Offset(x, i) + o.size - 1
  BY DEF LastSector
<1>3. first \in Nat /\ new \in Nat /\ len \in Nat
  BY <1>1, <1>2
<1>4. MoveBegin(x, i, first) = IF new = o.size THEN x ELSE SetPart(x, i, e)
  BY DEF MoveBegin
<1>5. /\ new + len = o.start + o.size
      /\ o.begin <= Offset(x, i) + new /\ Offset(x, i) + new <= LastSector(x, i)
  BY <1>1, <1>2, <1>3
<1> HIDE DEF new, len, o
<1>6. e \in Entry /\ e.type = o.type /\ e.begin = o.begin /\ e.start = new /\ e.size = len
  BY <1>1, <1>3 DEF Entry
<1> HIDE DEF e
<1>7. Spaced(SetPart(x, i, e)) /\ Changes(x, SetPart(x, i, e))
  BY <1>1, <1>5, <1>6, ChangeParts DEF o
<1>8. Stays(x, x)
  BY DEF Stays
<1> QED BY <1>4, <1>7, <1>8

(* The partition in a logical table.                                        *)
LEMMA LogicalPart ==
  ASSUME NEW x \in Tables, NEW j \in 1 .. Len(x.logical)
  PROVE  /\ j + 3 \in Numbers(x) /\ j + 3 >= 4 /\ (j + 3) - 3 = j
         /\ PartEntry(x, j + 3) = PartOf(x.logical[j])
         /\ Offset(x, j + 3) = x.logical[j].offset
<1>1. Len(x.logical) \in Nat /\ Partitions(x) = 4 + Len(x.logical)
      /\ Numbers(x) = 0 .. Partitions(x) - 1
  BY TablesCount
<1>2. j + 3 \in Numbers(x) /\ j + 3 >= 4 /\ (j + 3) - 3 = j /\ ~ (j + 3 < 4)
  BY <1>1
<1> QED BY <1>2 DEF PartEntry, Offset, PartOf

(* Tables that say the same make the same partition.                        *)
LEMMA SameLogical ==
  ASSUME NEW x \in Tables, NEW j \in 1 .. Len(x.logical),
         NEW y \in Tables, NEW k \in 1 .. Len(y.logical),
         SamePart(y.logical[k], x.logical[j])
  PROVE  /\ Part(y, k + 3) = Part(x, j + 3)
         /\ k + 3 \in DataOf(y) <=> j + 3 \in DataOf(x)
<1>1. /\ j + 3 \in Numbers(x) /\ j + 3 >= 4
      /\ PartEntry(x, j + 3) = PartOf(x.logical[j])
      /\ Offset(x, j + 3) = x.logical[j].offset
  BY LogicalPart
<1>2. /\ k + 3 \in Numbers(y) /\ k + 3 >= 4
      /\ PartEntry(y, k + 3) = PartOf(y.logical[k])
      /\ Offset(y, k + 3) = y.logical[k].offset
  BY LogicalPart
<1> DEFINE p == PartOf(x.logical[j])
           q == PartOf(y.logical[k])
           a == x.logical[j].offset
           b == y.logical[k].offset
<1>3. /\ q.type = p.type /\ q.active = p.active /\ q.begin = p.begin /\ q.size = p.size
      /\ b + q.start = a + p.start
  BY DEF SamePart
<1>4. (k + 3 > 3) = (j + 3 > 3)
  OBVIOUS
<1>5. Part(y, k + 3) = Part(x, j + 3)
  <2>1. /\ PartEntry(y, k + 3).type = PartEntry(x, j + 3).type
        /\ PartEntry(y, k + 3).active = PartEntry(x, j + 3).active
        /\ PartEntry(y, k + 3).begin = PartEntry(x, j + 3).begin
        /\ PartEntry(y, k + 3).size = PartEntry(x, j + 3).size
        /\ Offset(y, k + 3) + PartEntry(y, k + 3).start
             = Offset(x, j + 3) + PartEntry(x, j + 3).start
    BY <1>1, <1>2, <1>3
  <2> QED BY <1>1, <1>2, <1>4, <2>1, SamePartition
<1>6. k + 3 \in DataOf(y) <=> j + 3 \in DataOf(x)
  BY <1>1, <1>2, <1>3 DEF DataOf, IsData
<1> QED BY <1>5, <1>6

(* The primary partitions, where the entries are the same.                  *)
LEMMA SamePrimary ==
  ASSUME NEW x \in Tables, NEW y \in Tables, NEW j \in 0..3,
         y.primary[j] = x.primary[j]
  PROVE  /\ Part(y, j) = Part(x, j)
         /\ j \in DataOf(y) <=> j \in DataOf(x)
         /\ j \in Numbers(x) /\ PartEntry(x, j) = x.primary[j] /\ Offset(x, j) = 0
<1>1. j \in Numbers(x) /\ j \in Numbers(y) /\ j < 4
  BY TablesCount
<1>2. /\ PartEntry(x, j) = x.primary[j] /\ PartEntry(y, j) = y.primary[j]
      /\ Offset(x, j) = 0 /\ Offset(y, j) = 0
  BY <1>1 DEF PartEntry, Offset
<1> QED BY <1>1, <1>2 DEF Part, LastSector, DataOf

Removes(x, y) ==
  /\ Box(y) = Box(x)
  /\ \E p \in Parts(x) : Parts(y) = Parts(x) \ {p}

(* Deleting a logical partition takes that one and no other.                *)
LEMMA ClosesParts ==
  ASSUME NEW x \in SoundTables, Spaced(x), NEW y \in SoundTables,
         NEW k \in 1 .. Len(x.logical), Closes(x, k, y)
  PROVE  Spaced(y) /\ (Removes(x, y) \/ Stays(x, y))
<1> DEFINE m == Len(x.logical)
           g == [j \in DataOf(y) |-> IF j < k + 3 THEN j ELSE j + 1]
<1>1. PICK r :
        /\ y = [x EXCEPT !.logical = r]
        /\ Len(r) = m - 1
        /\ \A j \in 1 .. m - 1 : SamePart(r[j], x.logical[IF j < k THEN j ELSE j + 1])
  BY DEF Closes
<1>2. x \in Tables /\ y \in Tables /\ m \in Nat
  BY SoundFields
<1>3. /\ y.logical = r /\ y.primary = x.primary
      /\ y.extended_offset = x.extended_offset /\ y.ext_index = x.ext_index
  BY <1>1, <1>2 DEF Tables
<1>4. Box(y) = Box(x)
  <2>1. Extended(y) = Extended(x)
    BY <1>3 DEF Extended
  <2> QED BY <1>3, <2>1, BoxStays
<1>5. /\ Numbers(x) = 0 .. m + 3 /\ Numbers(y) = 0 .. m + 2
  <2>1. Partitions(x) = 4 + m /\ Partitions(y) = 4 + (m - 1)
    BY <1>1, <1>3 DEF Partitions
  <2> QED BY <1>2, <2>1 DEF Numbers
<1>6. ASSUME NEW j \in Numbers(y)
      PROVE  LET i == IF j < k + 3 THEN j ELSE j + 1
             IN  /\ i \in Numbers(x) /\ Part(y, j) = Part(x, i)
                 /\ j \in DataOf(y) <=> i \in DataOf(x)
  <2>1. CASE j < 4
    <3>1. j \in 0..3 /\ j < k + 3
      BY <1>5, <2>1
    <3> QED BY <1>2, <1>3, <3>1, SamePrimary
  <2>2. CASE ~ (j < 4)
    <3> DEFINE l == j - 3
               h == IF l < k THEN l ELSE l + 1
    <3>1. /\ l \in 1 .. m - 1 /\ l \in 1 .. Len(y.logical) /\ h \in 1 .. m
          /\ l + 3 = j /\ h + 3 = IF j < k + 3 THEN j ELSE j + 1
      BY <1>1, <1>2, <1>3, <1>5, <2>2, SMTT(60)
    <3>2. SamePart(y.logical[l], x.logical[h])
      BY <1>1, <1>3, <3>1
    <3> HIDE DEF l, h
    <3>3. /\ Part(y, l + 3) = Part(x, h + 3)
          /\ l + 3 \in DataOf(y) <=> h + 3 \in DataOf(x)
      BY <1>2, <3>1, <3>2, SameLogical
    <3>4. h + 3 \in Numbers(x)
      BY <1>2, <3>1, LogicalPart
    <3> QED BY <3>1, <3>3, <3>4
  <2> QED BY <2>1, <2>2
<1>7. DataOf(y) \subseteq Numbers(y) /\ DataOf(x) \subseteq Numbers(x)
  BY DEF DataOf
<1>8. /\ \A j \in DataOf(y) : g[j] = IF j < k + 3 THEN j ELSE j + 1
      /\ g \in [DataOf(y) -> DataOf(x)]
      /\ \A j \in DataOf(y) : Part(y, j) = Part(x, g[j])
  BY <1>6, <1>7
<1>9. \A j, l \in DataOf(y) : j # l => g[j] # g[l]
  <2> HIDE DEF g
  <2> QED BY <1>2, <1>5, <1>7, <1>8
<1>10. {g[j] : j \in DataOf(y)} = DataOf(x) \ {k + 3}
  <2> HIDE DEF g
  <2>1. ASSUME NEW j \in DataOf(y) PROVE g[j] \in DataOf(x) \ {k + 3}
    BY <1>2, <1>5, <1>7, <1>8
  <2>2. ASSUME NEW i \in DataOf(x), i # k + 3 PROVE \E j \in DataOf(y) : g[j] = i
    <3> DEFINE j == IF i < k + 3 THEN i ELSE i - 1
    <3>1. j \in Numbers(y) /\ i = IF j < k + 3 THEN j ELSE j + 1
      BY <1>2, <1>5, <1>7, <2>2
    <3> HIDE DEF j
    <3>2. j \in DataOf(y)
      BY <1>6, <3>1
    <3>3. g[j] = i
      BY <1>8, <3>1, <3>2
    <3> QED BY <3>2, <3>3
  <2> QED BY <2>1, <2>2
<1>11. k + 3 \in Numbers(x)
  BY <1>2, LogicalPart
<1> HIDE DEF g
<1>12. /\ Spaced(y)
       /\ k + 3 \in DataOf(x) => Parts(y) = Parts(x) \ {Part(x, k + 3)}
       /\ k + 3 \notin DataOf(x) => Parts(y) = Parts(x)
  BY <1>2, <1>8, <1>9, <1>10, <1>11, PartGone
<1>13. k + 3 \in DataOf(x) => Part(x, k + 3) \in Parts(x)
  BY DEF Parts, DataOf
<1> QED BY <1>4, <1>12, <1>13 DEF Removes, Stays

RemovesBox(x, y) ==
  /\ Box(x) # {} /\ Box(y) = {}
  /\ Parts(y) = Parts(x) \ {p \in Parts(x) : p.inside}

(* Clearing the entry of a partition takes that one and no other.           *)
LEMMA ClearParts ==
  ASSUME NEW x \in SoundTables, Spaced(x), NEW i \in Numbers(x),
         ~ (i < 4 /\ x.extended_offset # 0 /\ i = x.ext_index)
  PROVE  LET y == SetPart(x, i, NoEntry)
         IN  Spaced(y) /\ (Removes(x, y) \/ Stays(x, y))
<1> DEFINE y == SetPart(x, i, NoEntry)
           g == [j \in DataOf(y) |-> j]
<1>1. OnlyPart(x, i, NoEntry, y)
  BY NoEntryIsEntry, SetPartParts DEF EXTENDED, Empty
<1> HIDE DEF y
<1>2. /\ y \in Tables /\ x \in Tables /\ Numbers(y) = Numbers(x) /\ Box(y) = Box(x)
      /\ ~ IsData(PartEntry(y, i))
      /\ \A j \in Numbers(x) : j # i => Part(y, j) = Part(x, j)
      /\ \A j \in Numbers(x) : j # i => PartEntry(y, j) = PartEntry(x, j)
  BY <1>1, NoEntryIsEntry, SoundFields DEF OnlyPart
<1>3. DataOf(y) = DataOf(x) \ {i}
  BY <1>2 DEF DataOf
<1>4. /\ g \in [DataOf(y) -> DataOf(x)]
      /\ \A j \in DataOf(y) : Part(y, j) = Part(x, g[j])
      /\ \A j, k \in DataOf(y) : j # k => g[j] # g[k]
      /\ {g[j] : j \in DataOf(y)} = DataOf(x) \ {i}
  <2>1. \A j \in DataOf(y) : j \in Numbers(x) /\ j # i
    BY <1>3 DEF DataOf
  <2>2. \A j \in DataOf(y) : Part(y, j) = Part(x, j)
    BY <1>2, <2>1
  <2> QED BY <1>3, <2>2
<1> HIDE DEF g
<1>5. /\ Spaced(y)
      /\ i \in DataOf(x) => Parts(y) = Parts(x) \ {Part(x, i)}
      /\ i \notin DataOf(x) => Parts(y) = Parts(x)
  BY <1>2, <1>4, PartGone
<1>6. i \in DataOf(x) => Part(x, i) \in Parts(x)
  BY DEF Parts, DataOf
<1>7. Spaced(y) /\ (Removes(x, y) \/ Stays(x, y))
  BY <1>2, <1>5, <1>6 DEF Removes, Stays
<1> QED BY <1>7 DEF y

(* With the extended partition go the logical ones.                         *)
LEMMA ClearBoxParts ==
  ASSUME NEW x \in SoundTables, Spaced(x), NEW i \in 0..3,
         x.primary[i].type = EXTENDED, i = x.ext_index
  PROVE  LET y == DeletePrimary(x, i)
         IN  Spaced(y) /\ (RemovesBox(x, y) \/ Stays(x, y))
<1> DEFINE cleared == SetPart(x, i, NoEntry)
           y == [cleared EXCEPT !.logical = << >>, !.extended_offset = 0]
<1>1. DeletePrimary(x, i) = y
  BY DEF DeletePrimary
<1>2. x \in Tables /\ x.primary \in [0..3 -> Entry]
  BY SoundFields
<1>3. /\ cleared \in Tables
      /\ cleared.primary = [x.primary EXCEPT ![i] = NoEntry]
  <2>1. cleared = [x EXCEPT !.primary[i] = NoEntry, !.changed[i] = TRUE]
    BY DEF SetPart
  <2> HIDE DEF cleared
  <2> QED BY <1>2, <2>1, NoEntryIsEntry DEF Tables
<1> HIDE DEF cleared
<1>4. << >> \in Seq(AnyTable) /\ Len(<< >>) = 0
  BY EmptySeq
<1>5. /\ y \in Tables /\ y.logical = << >> /\ y.extended_offset = 0
      /\ y.primary = [x.primary EXCEPT ![i] = NoEntry]
  BY <1>3, <1>4 DEF Tables
<1> HIDE DEF y
<1>6. Numbers(y) = 0..3
  BY <1>4, <1>5 DEF Numbers, Partitions
<1>7. \A j \in 0..3 : j # i => /\ Part(y, j) = Part(x, j)
                               /\ j \in DataOf(y) <=> j \in DataOf(x)
  BY <1>2, <1>5, SamePrimary
<1>8. i \notin DataOf(y) /\ i \notin DataOf(x)
  BY <1>2, <1>5, NoEntryIsEntry DEF DataOf, PartEntry, IsData
<1>9. DataOf(x) \subseteq Numbers(x) /\ Numbers(x) \subseteq Nat /\ DataOf(y) \subseteq 0..3
  BY <1>2, <1>6, TablesCount DEF DataOf
<1>10. /\ DataOf(y) = {j \in DataOf(x) : j < 4}
       /\ \A j \in DataOf(y) : Part(y, j) = Part(x, j)
  BY <1>7, <1>8, <1>9
<1>11. Spaced(y)
  BY <1>10 DEF Spaced, Placed, Apart
<1>12. Parts(x) = {Part(x, j) : j \in DataOf(x)} /\ Parts(y) = {Part(y, j) : j \in DataOf(y)}
  BY DEF Parts, DataOf
<1>13. \A j \in DataOf(x) : Part(x, j).inside = (j > 3)
  BY <1>2, <1>9, PartFields
<1>14. Parts(y) = {Part(x, j) : j \in {l \in DataOf(x) : l < 4}}
  BY <1>10, <1>12
<1>15. Parts(y) = Parts(x) \ {p \in Parts(x) : p.inside}
  <2>1. \A j \in DataOf(x) : (j > 3) <=> ~ (j < 4)
    BY <1>9
  <2>2. \A j \in DataOf(x) : Part(x, j).inside <=> ~ (j < 4)
    BY <1>13, <2>1
  <2>3. ASSUME NEW p \in Parts(y) PROVE p \in Parts(x) /\ ~ p.inside
    <3>1. PICK j \in DataOf(x) : j < 4 /\ p = Part(x, j)
      BY <1>14
    <3> QED BY <1>12, <2>2, <3>1, Zenon
  <2>4. ASSUME NEW p \in Parts(x), ~ p.inside PROVE p \in Parts(y)
    <3>1. PICK j \in DataOf(x) : p = Part(x, j)
      BY <1>12
    <3>2. j < 4
      BY <2>2, <2>4, <3>1, Zenon
    <3> QED BY <1>14, <3>1, <3>2
  <2> QED BY <2>3, <2>4, Zenon
<1>16. Box(y) = {}
  BY <1>5 DEF Box
<1>17. CASE x.extended_offset # 0
  <2>1. Box(x) # {}
    BY <1>17 DEF Box
  <2> QED BY <1>1, <1>11, <1>15, <1>16, <2>1 DEF RemovesBox
<1>18. CASE x.extended_offset = 0
  <2>1. Box(x) = {}
    BY <1>18 DEF Box
  <2>2. Numbers(x) = 0..3
    BY <1>18, SoundFields DEF Numbers, Partitions
  <2>3. {l \in DataOf(x) : l < 4} = DataOf(x)
    BY <1>9, <2>2
  <2> QED BY <1>1, <1>11, <1>12, <1>14, <1>16, <2>1, <2>3 DEF Stays
<1> QED BY <1>17, <1>18

(* d takes one partition, the extended one with all the logical ones, or    *)
(* nothing.                                                                 *)
LEMMA DeleteParts ==
  ASSUME NEW x \in SoundTables, Spaced(x), NEW i \in Numbers(x)
  PROVE  LET y == DeletePartition(x, i)
         IN  Spaced(y) /\ (Removes(x, y) \/ RemovesBox(x, y) \/ Stays(x, y))
<1> DEFINE y == DeletePartition(x, i)
<1>1. i \in Nat /\ i < 4 + Len(x.logical) /\ Len(x.logical) \in Nat
  BY PartEntryFacts
<1>2. y \in SoundTables
  BY DeleteIsSound
<1>3. CASE i < 4 /\ x.primary[i].type = EXTENDED /\ i = x.ext_index
  <2>1. i \in 0..3 /\ y = DeletePrimary(x, i)
    BY <1>1, <1>3 DEF DeletePartition
  <2> HIDE DEF y
  <2>2. LET z == DeletePrimary(x, i)
        IN  Spaced(z) /\ (RemovesBox(x, z) \/ Stays(x, z))
    BY <1>3, <2>1, ClearBoxParts
  <2> QED BY <2>1, <2>2 DEF y
<1>4. CASE i < 4 /\ ~ (x.primary[i].type = EXTENDED /\ i = x.ext_index)
  <2>1. i \in 0..3 /\ y = SetPart(x, i, NoEntry)
    BY <1>1, <1>4 DEF DeletePartition, DeletePrimary
  <2>2. ~ (x.extended_offset # 0 /\ i = x.ext_index)
    BY <1>4, SoundFields DEF Extended
  <2> HIDE DEF y
  <2>3. LET z == SetPart(x, i, NoEntry)
        IN  Spaced(z) /\ (Removes(x, z) \/ Stays(x, z))
    BY <2>2, ClearParts
  <2> QED BY <2>1, <2>3 DEF y
<1>5. CASE i = 4 /\ ~ (Partitions(x) > 5)
  <2>1. y = SetPart(x, i, NoEntry) /\ ~ (i < 4)
    BY <1>5 DEF DeletePartition
  <2> HIDE DEF y
  <2>3. LET z == SetPart(x, i, NoEntry)
        IN  Spaced(z) /\ (Removes(x, z) \/ Stays(x, z))
    BY <2>1, ClearParts
  <2> QED BY <2>1, <2>3 DEF y
<1>6. CASE i > 4 \/ (i = 4 /\ Partitions(x) > 5)
  <2>1. CASE i > 4 /\ ExtEntry(x, i).type = Empty
    <3>1. y = ClearLink(Dropped(x, i), i - 1)
      BY <1>1, <2>1 DEF DeletePartition
    <3> HIDE DEF y
    <3>2. Closes(x, i - 3, ClearLink(Dropped(x, i), i - 1))
      BY <2>1, DeleteLastIsSound
    <3>3. Closes(x, i - 3, y) /\ i - 3 \in 1 .. Len(x.logical)
      BY <1>1, <2>1, <3>1, <3>2
    <3> QED BY <1>2, <3>3, ClosesParts DEF y
  <2>2. CASE i > 4 /\ ExtEntry(x, i).type # Empty
    <3>1. y = Dropped(Unlinked(x, i), i)
      BY <1>1, <2>2 DEF DeletePartition
    <3> HIDE DEF y
    <3>2. Closes(x, i - 3, Dropped(Unlinked(x, i), i))
      BY <2>2, DeleteMiddleIsSound
    <3>3. Closes(x, i - 3, y) /\ i - 3 \in 1 .. Len(x.logical)
      BY <1>1, <2>2, <3>1, <3>2
    <3> QED BY <1>2, <3>3, ClosesParts DEF y
  <2>3. CASE i = 4 /\ Partitions(x) > 5
    <3>1. y = Dropped(Rebased(x), 4) /\ Len(x.logical) >= 2
      BY <1>1, <2>3 DEF DeletePartition, Partitions
    <3> HIDE DEF y
    <3>2. Closes(x, 1, Dropped(Rebased(x), 4))
      BY <3>1, DeleteFirstIsSound
    <3>3. Closes(x, 1, y) /\ 1 \in 1 .. Len(x.logical)
      BY <1>1, <3>1, <3>2
    <3> QED BY <1>2, <3>3, ClosesParts DEF y
  <2> QED BY <1>6, <2>1, <2>2, <2>3
<1> QED BY <1>1, <1>3, <1>4, <1>5, <1>6

(* Where the sectors of a new partition are looked for, what is in use in   *)
(* the tables is in use in the table with room for one more.                *)
LEMMA RoomKeepsParts ==
  ASSUME NEW x \in SoundTables, x.extended_offset # 0
  PROVE  LET r == Room(x)
         IN  /\ r \in Tables
             /\ r.extended_offset = x.extended_offset /\ r.ext_index = x.ext_index
             /\ LastSector(r, r.ext_index) = LastSector(x, x.ext_index)
             /\ Len(r.logical) >= Len(x.logical)
             /\ \A j \in Numbers(x) : /\ j \in Numbers(r)
                                      /\ PartEntry(r, j) = PartEntry(x, j)
                                      /\ Offset(r, j) = Offset(x, j)
<1> DEFINE r == Room(x)
           s == x.logical
           a == Append(s, NewLogical(0))
<1>1. /\ x \in Tables /\ s \in Seq(AnyTable) /\ Len(s) \in Nat /\ x.ext_index \in 0..3
  BY SoundFields, ChainElements
<1>2. NewLogical(0) \in AnyTable
  <2>1. NoSlots \in [0..3 -> Entry]
    BY NoEntryIsEntry DEF NoSlots
  <2> QED BY <2>1 DEF NewLogical, AnyTable
<1>3. /\ a \in Seq(AnyTable) /\ Len(a) = Len(s) + 1
      /\ \A j \in 1 .. Len(s) : a[j] = s[j]
  BY <1>1, <1>2, AppendProperties
<1>4. CASE NeedsTable(x)
  <2>1. r = [x EXCEPT !.logical = a]
    BY <1>4 DEF Room
  <2> HIDE DEF r, a
  <2>2. /\ r \in Tables /\ r.logical = a /\ r.primary = x.primary
        /\ r.extended_offset = x.extended_offset /\ r.ext_index = x.ext_index
    BY <1>1, <1>3, <2>1 DEF Tables
  <2>3. ASSUME NEW j \in Numbers(x)
        PROVE  /\ j \in Numbers(r) /\ PartEntry(r, j) = PartEntry(x, j)
               /\ Offset(r, j) = Offset(x, j)
    <3>1. j \in 0 .. Len(s) + 3 /\ (j >= 4 => j - 3 \in 1 .. Len(s))
      BY <1>1, TablesCount
    <3>2. j \in Numbers(r)
      BY <1>1, <1>3, <2>2, <3>1 DEF Numbers, Partitions
    <3>3. CASE j < 4
      BY <2>2, <3>2, <3>3 DEF PartEntry, Offset
    <3>4. CASE ~ (j < 4)
      <4>1. r.logical[j - 3] = x.logical[j - 3]
        BY <1>3, <2>2, <3>1, <3>4
      <4> QED BY <3>2, <3>4, <4>1 DEF PartEntry, Offset
    <3> QED BY <3>3, <3>4
  <2>4. x.ext_index \in Numbers(x)
    BY <1>1, TablesCount
  <2>5. LastSector(r, r.ext_index) = LastSector(x, x.ext_index)
    BY <2>2, <2>3, <2>4 DEF LastSector
  <2>6. Len(r.logical) >= Len(s)
    BY <1>1, <1>3, <2>2
  <2> QED BY <2>2, <2>3, <2>5, <2>6 DEF r
<1>5. CASE ~ NeedsTable(x)
  <2>1. r = x
    BY <1>5 DEF Room
  <2> QED BY <1>1, <2>1
<1> QED BY <1>4, <1>5

(* The sectors of one answer.                                               *)
Clear(x, start, stop) ==
  \A k \in DataOf(x) : stop < Part(x, k).first \/ Part(x, k).last < start

(* The answers for a primary partition are free, of the extended one too.   *)
LEMMA PrimaryIsClear ==
  ASSUME NEW x \in SoundTables, NEW v \in Units, NEW n \in 0..3, HasRoom(x, v, n),
         NEW typed, NEW start \in Starts(x, v, n, typed),
         NEW others, NEW stop \in Stops(x, v, n, start, others)
  PROVE  /\ start \in Nat /\ stop \in Nat
         /\ 1 <= start /\ start <= stop /\ stop <= Total - 1
         /\ Clear(x, start, stop)
         /\ x.extended_offset # 0 =>
              stop < x.extended_offset \/ LastSector(x, x.ext_index) < start
<1>1. x \in Tables /\ n \in Nat /\ n < 4 /\ x.ext_index \in 0..3 /\ x.extended_offset \in Nat
  BY SoundFields
<1>2. LimitOf(x, n) = Total - 1 /\ Base(x, v, n) = v.sector_offset
  BY <1>1 DEF LimitOf, Base
<1>3. LimitOf(x, n) \in Nat /\ v.sector_offset \in Nat /\ v.sector_offset >= 1
  BY <1>1, <1>2, TotalIsPositive, GeometryNumbers DEF Units
<1>4. start \in Nat /\ Base(x, v, n) <= start /\ start <= LimitOf(x, n)
  BY <1>1, <1>3, StartsAreInRange
<1>5. stop \in Nat /\ start <= stop /\ stop <= LimitOf(x, n)
  BY <1>1, <1>3, <1>4, StopsAreInRange
<1>6. ASSUME NEW k \in Numbers(x)
      PROVE  stop < Firsts(x, v, n)[k] \/ Lasts(x, n)[k] < start
  <2>1. LimitOf(x, n) <= Total - 1
    BY <1>2, <1>3, TotalIsPositive
  <2> QED BY <1>1, <1>3, <2>1, AnswersAreFree
<1>7. ASSUME NEW k \in DataOf(x) PROVE stop < Part(x, k).first \/ Part(x, k).last < start
  <2>1. k \in Numbers(x) /\ IsData(PartEntry(x, k))
    BY DEF DataOf
  <2>2. ~ (n < 4 /\ x.extended_offset # 0 /\ k = x.ext_index)
    BY <1>1, <2>1, NoDataInBox
  <2>3. /\ Firsts(x, v, n)[k] = Round(v, PartEntry(x, k).begin)
        /\ Lasts(x, n)[k] = LastSector(x, k)
    BY <2>1, <2>2 DEF Firsts, Lasts
  <2>4. /\ Part(x, k).first = PartEntry(x, k).begin /\ Part(x, k).last = LastSector(x, k)
        /\ PartEntry(x, k).begin \in Nat
    BY <1>1, <2>1, PartFields
  <2>5. Round(v, PartEntry(x, k).begin) <= PartEntry(x, k).begin
        /\ Round(v, PartEntry(x, k).begin) \in Nat
    BY <2>4, RoundGoesDown, RoundIsNatural
  <2> QED BY <1>5, <1>6, <2>1, <2>3, <2>4, <2>5
<1>8. ASSUME x.extended_offset # 0
      PROVE  stop < x.extended_offset \/ LastSector(x, x.ext_index) < start
  <2>1. x.ext_index \in Numbers(x)
    BY <1>1, TablesCount
  <2>2. /\ Firsts(x, v, n)[x.ext_index] = Round(v, x.extended_offset)
        /\ Lasts(x, n)[x.ext_index] = LastSector(x, x.ext_index)
    BY <1>1, <1>8, <2>1 DEF Firsts, Lasts
  <2>3. Round(v, x.extended_offset) <= x.extended_offset /\ Round(v, x.extended_offset) \in Nat
    BY <1>1, RoundGoesDown, RoundIsNatural
  <2> QED BY <1>1, <1>5, <1>6, <2>1, <2>2, <2>3
<1>9. 1 <= start /\ stop <= Total - 1
  BY <1>2, <1>3, <1>4, <1>5
<1> QED BY <1>4, <1>5, <1>7, <1>8, <1>9 DEF Clear

(* Those for a logical partition are free, and in the extended one.         *)
LEMMA LogicalIsClear ==
  ASSUME NEW x \in SoundTables, x.extended_offset # 0, NEW v \in Units,
         HasRoom(Room(x), v, Partitions(Room(x)) - 1),
         NEW typed, NEW start \in Starts(Room(x), v, Partitions(Room(x)) - 1, typed),
         NEW others,
         NEW stop \in Stops(Room(x), v, Partitions(Room(x)) - 1, start, others)
  PROVE  /\ start \in Nat /\ stop \in Nat
         /\ x.extended_offset + v.sector_offset <= start
         /\ start <= stop /\ stop <= Total - 1 /\ stop <= LastSector(x, x.ext_index)
         /\ Clear(x, start, stop)
<1> DEFINE r == Room(x)
           n == Partitions(r) - 1
<1>1. /\ r \in Tables /\ n \in Nat /\ n >= 4
      /\ LimitOf(r, n) \in Nat /\ LimitOf(r, n) <= Total - 1
      /\ Base(r, v, n) = x.extended_offset + v.sector_offset
  BY RoomForOne
<1>2. /\ LastSector(r, r.ext_index) = LastSector(x, x.ext_index)
      /\ \A j \in Numbers(x) : /\ j \in Numbers(r)
                               /\ PartEntry(r, j) = PartEntry(x, j)
                               /\ Offset(r, j) = Offset(x, j)
  BY RoomKeepsParts
<1>3. /\ HasRoom(r, v, n) /\ start \in Starts(r, v, n, typed)
      /\ stop \in Stops(r, v, n, start, others)
  OBVIOUS
<1> HIDE DEF r, n
<1>4. start \in Nat /\ Base(r, v, n) <= start /\ start <= LimitOf(r, n)
  BY <1>1, <1>3, StartsAreInRange
<1>5. stop \in Nat /\ start <= stop /\ stop <= LimitOf(r, n)
  BY <1>1, <1>3, <1>4, StopsAreInRange
<1>6. ASSUME NEW k \in Numbers(r)
      PROVE  stop < Firsts(r, v, n)[k] \/ Lasts(r, n)[k] < start
  BY <1>1, <1>3, AnswersAreFree
<1>7. ASSUME NEW k \in DataOf(x) PROVE stop < Part(x, k).first \/ Part(x, k).last < start
  <2>1. k \in Numbers(x) /\ IsData(PartEntry(x, k)) /\ x \in Tables
    BY SoundFields DEF DataOf
  <2>2. k \in Numbers(r) /\ PartEntry(r, k) = PartEntry(x, k) /\ Offset(r, k) = Offset(x, k)
    BY <1>2, <2>1
  <2>3. LastSector(r, k) = LastSector(x, k)
    BY <2>2 DEF LastSector
  <2>4. ~ (n < 4)
    BY <1>1
  <2>5. /\ Firsts(r, v, n)[k] = Round(v, PartEntry(x, k).begin)
        /\ Lasts(r, n)[k] = LastSector(x, k)
    BY <2>1, <2>2, <2>3, <2>4 DEF Firsts, Lasts
  <2>6. /\ Part(x, k).first = PartEntry(x, k).begin /\ Part(x, k).last = LastSector(x, k)
        /\ PartEntry(x, k).begin \in Nat
    BY <2>1, PartFields
  <2>7. Round(v, PartEntry(x, k).begin) <= PartEntry(x, k).begin
        /\ Round(v, PartEntry(x, k).begin) \in Nat
    BY <2>6, RoundGoesDown, RoundIsNatural
  <2> QED BY <1>5, <1>6, <2>2, <2>5, <2>6, <2>7
<1>8. LimitOf(r, n) = LastSector(x, x.ext_index)
  BY <1>1, <1>2 DEF LimitOf
<1>9. Total \in Nat
  BY TotalIsPositive
<1>10. stop <= Total - 1
  BY <1>1, <1>5, <1>9
<1> QED BY <1>1, <1>4, <1>5, <1>7, <1>8, <1>10 DEF Clear

Occupied(x) == UNION {p.first .. p.last : p \in Parts(x)}

Creates(x, y) ==
  /\ Box(y) = Box(x)
  /\ \E p \in Parts(y) \ Parts(x) :
       /\ Parts(y) = Parts(x) \cup {p}
       /\ p.first <= p.last
       /\ p.start = p.first
       /\ ~ p.active
       /\ p.first .. p.last \subseteq (1 .. Total - 1) \ Occupied(x)
       /\ IF p.inside
          THEN \E b \in Box(x) : p.first .. p.last \subseteq (b.first + 1) .. b.last
          ELSE \A b \in Box(x) : (p.first .. p.last) \cap (b.first .. b.last) = {}

CreatesBox(x, y) ==
  /\ Parts(y) = Parts(x)
  /\ Box(x) = {}
  /\ \E b \in Box(y) :
       /\ Box(y) = {b}
       /\ b.first <= b.last
       /\ b.first .. b.last \subseteq (1 .. Total - 1) \ Occupied(x)

(* Clear sectors are sectors that nothing occupies.                         *)
LEMMA ClearIsFree ==
  ASSUME NEW x \in Tables, NEW start \in Nat, NEW stop \in Nat,
         1 <= start, stop <= Total - 1, Clear(x, start, stop)
  PROVE  start .. stop \subseteq (1 .. Total - 1) \ Occupied(x)
<1> SUFFICES ASSUME NEW s \in start .. stop
             PROVE  s \in 1 .. Total - 1 /\ s \notin Occupied(x)
  BY Zenon
<1>1. Total \in Nat
  BY TotalIsPositive
<1>2. s \in 1 .. Total - 1
  BY <1>1
<1>3. ASSUME s \in Occupied(x) PROVE FALSE
  <2>1. PICK p \in Parts(x) : s \in p.first .. p.last
    BY <1>3 DEF Occupied
  <2>2. PICK k \in DataOf(x) : p = Part(x, k)
    BY DEF Parts, DataOf
  <2>3. Part(x, k).first \in Nat /\ Part(x, k).last \in Int
    BY <2>2, PartFields DEF DataOf
  <2>4. stop < Part(x, k).first \/ Part(x, k).last < start
    BY <2>2 DEF Clear
  <2> QED BY <2>1, <2>2, <2>3, <2>4
<1> QED BY <1>2, <1>3

(* A new entry in free sectors is a new partition.                          *)
LEMMA NewPart ==
  ASSUME NEW x \in Tables, Spaced(x), NEW y \in Tables, Box(y) = Box(x),
         NEW i, i \notin DataOf(x), DataOf(y) = DataOf(x) \cup {i},
         \A j \in DataOf(x) : Part(y, j) = Part(x, j),
         NEW start \in Nat, NEW stop \in Nat, start <= stop,
         Part(y, i).first = start, Part(y, i).last = stop, Part(y, i).start = start,
         Part(y, i).active = FALSE,
         1 <= start, stop <= Total - 1, Clear(x, start, stop),
         IF Part(y, i).inside
         THEN \E b \in Box(x) : start .. stop \subseteq (b.first + 1) .. b.last
         ELSE \A b \in Box(x) : (start .. stop) \cap (b.first .. b.last) = {}
  PROVE  Spaced(y) /\ Creates(x, y)
<1>1. /\ Spaced(y)
      /\ Parts(y) = Parts(x) \cup {Part(y, i)}
      /\ Part(y, i) \notin Parts(x)
  <2>1. \A j \in DataOf(x) : \/ Part(y, i).last < Part(x, j).first
                             \/ Part(x, j).last < Part(y, i).first
    BY DEF Clear
  <2> QED BY <2>1, PartMore
<1>2. start .. stop \subseteq (1 .. Total - 1) \ Occupied(x)
  BY ClearIsFree
<1> QED BY <1>1, <1>2 DEF Creates

(* The fields of a new entry, as a partition.                               *)
LEMMA NewEntryPart ==
  ASSUME NEW y \in Tables, NEW i \in Numbers(y), NEW start \in Nat, NEW stop \in Nat,
         NEW a \in Nat, a <= start, start <= stop,
         PartEntry(y, i) = NewEntry(Linux, start, stop, a), Offset(y, i) = a
  PROVE  /\ i \in DataOf(y)
         /\ Part(y, i).first = start /\ Part(y, i).last = stop
         /\ Part(y, i).start = start /\ Part(y, i).active = FALSE
         /\ Part(y, i).inside = (i > 3)
<1>1. /\ PartEntry(y, i).type = Linux /\ PartEntry(y, i).active = FALSE
      /\ PartEntry(y, i).begin = start /\ PartEntry(y, i).start = start - a
      /\ PartEntry(y, i).size = stop - start + 1
  BY DEF NewEntry
<1>2. IsData(PartEntry(y, i))
  BY <1>1, LinuxIsData DEF IsData
<1>3. /\ Part(y, i).first = start
      /\ Part(y, i).last = (start - a) + a + (stop - start + 1) - 1
      /\ Part(y, i).start = a + (start - a)
      /\ Part(y, i).active = FALSE /\ Part(y, i).inside = (i > 3)
  BY <1>1, PartFields
<1> QED BY <1>2, <1>3 DEF DataOf

(* A primary partition.                                                     *)
LEMMA AddPrimaryParts ==
  ASSUME NEW x \in SoundTables, Spaced(x), NEW v \in Units, NEW n \in 0..3,
         x.primary[n].type = Empty, HasRoom(x, v, n),
         NEW typed, NEW start \in Starts(x, v, n, typed),
         NEW others, NEW stop \in Stops(x, v, n, start, others)
  PROVE  LET y == AddPrimary(x, n, start, stop)
         IN  Spaced(y) /\ Creates(x, y)
<1> DEFINE e == NewEntry(Linux, start, stop, 0)
           y == SetPart(x, n, e)
<1>0. AddPrimary(x, n, start, stop) = y
  BY DEF AddPrimary
<1>1. /\ start \in Nat /\ stop \in Nat
      /\ 1 <= start /\ start <= stop /\ stop <= Total - 1
      /\ Clear(x, start, stop)
      /\ x.extended_offset # 0 =>
           stop < x.extended_offset \/ LastSector(x, x.ext_index) < start
  BY PrimaryIsClear
<1>2. e \in Entry
  BY <1>1, LinuxIsData, NewEntryIsEntry
<1>3. n \in Numbers(x) /\ x \in Tables /\ n < 4
  BY SoundFields, TablesCount
<1>4. ~ (x.extended_offset # 0 /\ n = x.ext_index)
  BY SoundFields DEF Extended, Empty, EXTENDED
<1> HIDE DEF e
<1>5. OnlyPart(x, n, e, y)
  BY <1>2, <1>3, <1>4, SetPartParts
<1> HIDE DEF y
<1>6. /\ y \in Tables /\ Numbers(y) = Numbers(x) /\ Box(y) = Box(x)
      /\ PartEntry(y, n) = e /\ Offset(y, n) = Offset(x, n)
      /\ \A j \in Numbers(x) : j # n => Part(y, j) = Part(x, j)
      /\ \A j \in Numbers(x) : j # n => PartEntry(y, j) = PartEntry(x, j)
  BY <1>5, SoundFields DEF OnlyPart
<1>7. Offset(y, n) = 0 /\ n \in Numbers(y) /\ 0 <= start
  BY <1>1, <1>3, <1>6 DEF Offset
<1>8. /\ n \in DataOf(y)
      /\ Part(y, n).first = start /\ Part(y, n).last = stop
      /\ Part(y, n).start = start /\ Part(y, n).active = FALSE
      /\ Part(y, n).inside = (n > 3)
  <2>1. PartEntry(y, n) = NewEntry(Linux, start, stop, 0)
    BY <1>6 DEF e
  <2>2. \A a \in Nat :
          a <= start /\ PartEntry(y, n) = NewEntry(Linux, start, stop, a) /\ Offset(y, n) = a =>
            /\ n \in DataOf(y)
            /\ Part(y, n).first = start /\ Part(y, n).last = stop
            /\ Part(y, n).start = start /\ Part(y, n).active = FALSE
            /\ Part(y, n).inside = (n > 3)
    BY <1>1, <1>6, <1>7, NewEntryPart
  <2>3. 0 \in Nat
    OBVIOUS
  <2> QED BY <1>7, <2>1, <2>2, <2>3
<1>9. n \notin DataOf(x)
  BY <1>3 DEF DataOf, PartEntry, IsData
<1>10. DataOf(y) = DataOf(x) \cup {n} /\ \A j \in DataOf(x) : Part(y, j) = Part(x, j)
  BY <1>6, <1>8, <1>9 DEF DataOf
<1>11. ~ Part(y, n).inside
  <2>1. ~ (n > 3)
    OBVIOUS
  <2> QED BY <1>8, <2>1
<1>12. \A b \in Box(x) : (start .. stop) \cap (b.first .. b.last) = {}
  <2> SUFFICES ASSUME NEW b \in Box(x) PROVE (start .. stop) \cap (b.first .. b.last) = {}
    OBVIOUS
  <2>1. /\ x.extended_offset # 0
        /\ b.first = x.extended_offset /\ b.last = LastSector(x, x.ext_index)
    BY DEF Box
  <2>2. x.extended_offset \in Nat /\ LastSector(x, x.ext_index) \in Int
    <3>1. x.ext_index \in Numbers(x)
      BY <1>3, SoundFields, TablesCount
    <3> QED BY <1>3, <3>1, SoundFields, AccessIsTyped
  <2> QED BY <1>1, <2>1, <2>2
<1>13. IF Part(y, n).inside
       THEN \E b \in Box(x) : start .. stop \subseteq (b.first + 1) .. b.last
       ELSE \A b \in Box(x) : (start .. stop) \cap (b.first .. b.last) = {}
  BY <1>11, <1>12
<1>14. Spaced(y) /\ Creates(x, y)
  BY <1>1, <1>3, <1>6, <1>8, <1>9, <1>10, <1>13, NewPart
<1> QED BY <1>0, <1>14

(* The extended partition.                                                  *)
LEMMA AddExtendedParts ==
  ASSUME NEW x \in SoundTables, Spaced(x), x.extended_offset = 0,
         NEW v \in Units, NEW n \in 0..3,
         x.primary[n].type = Empty, HasRoom(x, v, n),
         NEW typed, NEW start \in Starts(x, v, n, typed),
         NEW others, NEW stop \in Stops(x, v, n, start, others)
  PROVE  LET y == AddExtended(x, n, start, stop)
         IN  Spaced(y) /\ CreatesBox(x, y)
<1> DEFINE e == NewEntry(EXTENDED, start, stop, 0)
           y == AddExtended(x, n, start, stop)
<1>1. /\ start \in Nat /\ stop \in Nat
      /\ 1 <= start /\ start <= stop /\ stop <= Total - 1
      /\ Clear(x, start, stop)
  BY PrimaryIsClear
<1>2. /\ y \in SoundTables
      /\ y.extended_offset = start /\ y.ext_index = n
      /\ Len(y.logical) = 1 /\ PartOf(y.logical[1]) = NoEntry
      /\ y.primary = [x.primary EXCEPT ![n] = e]
  BY <1>1, AddExtendedIsSound
<1> HIDE DEF y
<1>3. /\ x \in Tables /\ y \in Tables /\ x.primary \in [0..3 -> Entry]
      /\ Numbers(x) = 0..3 /\ Numbers(y) = 0..4
  <2>1. Len(x.logical) = 0
    BY SoundFields
  <2>2. Partitions(x) = 4 + 0 /\ Partitions(y) = 4 + 1
    BY <1>2, <2>1 DEF Partitions
  <2> QED BY <1>2, <2>2, SoundFields DEF Numbers
<1>4. \A j \in 0..3 : j # n => /\ Part(y, j) = Part(x, j)
                               /\ j \in DataOf(y) <=> j \in DataOf(x)
  BY <1>2, <1>3, SamePrimary
<1>5. e.type = EXTENDED /\ e.start = start - 0 /\ e.size = stop - start + 1
  BY DEF NewEntry
<1>6. n \notin DataOf(y) /\ n \notin DataOf(x)
  <2>1. PartEntry(y, n) = e /\ PartEntry(x, n).type = Empty
    BY <1>2, <1>3 DEF PartEntry
  <2> QED BY <1>5, <2>1 DEF DataOf, IsData
<1>7. 4 \notin DataOf(y)
  <2>1. 1 \in 1 .. Len(y.logical)
    BY <1>2
  <2>2. PartEntry(y, 1 + 3) = NoEntry
    BY <1>2, <1>3, <2>1, LogicalPart
  <2> QED BY <2>2, NoEntryIsEntry DEF DataOf
<1>8. DataOf(y) = DataOf(x) /\ \A j \in DataOf(x) : Part(y, j) = Part(x, j)
  <2>1. DataOf(y) \subseteq 0..4 /\ DataOf(x) \subseteq 0..3
    BY <1>3 DEF DataOf
  <2> QED BY <1>4, <1>6, <1>7, <2>1
<1>9. Spaced(y)
  BY <1>8 DEF Spaced, Placed, Apart
<1>10. Parts(y) = Parts(x)
  <2>1. Parts(x) = {Part(x, j) : j \in DataOf(x)} /\ Parts(y) = {Part(y, j) : j \in DataOf(y)}
    BY DEF Parts, DataOf
  <2> QED BY <1>8, <2>1
<1>11. Box(x) = {}
  BY DEF Box
<1> DEFINE b == [first |-> start, last |-> LastSector(y, n)]
<1>12. LastSector(y, n) = stop
  <2>1. PartEntry(y, n) = e /\ Offset(y, n) = 0
    BY <1>2, <1>3 DEF PartEntry, Offset
  <2>2. LastSector(y, n) = (start - 0) + 0 + (stop - start + 1) - 1
    BY <1>5, <2>1 DEF LastSector
  <2> QED BY <1>1, <2>2
<1>13. Box(y) = {b}
  BY <1>1, <1>2 DEF Box
<1>14. b.first = start /\ b.last = stop
  BY <1>12
<1> HIDE DEF b
<1>15. start .. stop \subseteq (1 .. Total - 1) \ Occupied(x)
  BY <1>1, <1>3, ClearIsFree
<1> QED BY <1>1, <1>9, <1>10, <1>11, <1>13, <1>14, <1>15 DEF CreatesBox, y

(* A logical partition.                                                     *)
LEMMA AddLogicalParts ==
  ASSUME NEW x \in SoundTables, Spaced(x), x.extended_offset # 0,
         NEW v \in Units, Len(x.logical) < MaxLogical,
         HasRoom(Room(x), v, Partitions(Room(x)) - 1),
         NEW typed, NEW start \in Starts(Room(x), v, Partitions(Room(x)) - 1, typed),
         NEW others,
         NEW stop \in Stops(Room(x), v, Partitions(Room(x)) - 1, start, others)
  PROVE  LET y == AddLogical(Room(x), v, start, stop)
         IN  Spaced(y) /\ Creates(x, y)
<1> DEFINE a == start - v.sector_offset
           m == Len(x.logical)
           y == AddLogical(Room(x), v, start, stop)
<1>1. /\ start \in Nat /\ stop \in Nat
      /\ x.extended_offset + v.sector_offset <= start
      /\ start <= stop /\ stop <= Total - 1 /\ stop <= LastSector(x, x.ext_index)
      /\ Clear(x, start, stop)
  BY LogicalIsClear
<1>2. /\ y \in SoundTables
      /\ ~ NeedsTable(x) =>
           /\ y = SetPart(x, 4, NewEntry(Linux, start, stop, Offset(x, 4)))
           /\ 4 \in Numbers(x) /\ Offset(x, 4) = x.extended_offset
      /\ NeedsTable(x) => Grows(x, a, NewEntry(Linux, start, stop, a), y)
  BY <1>1, AddLogicalIsSound
<1> HIDE DEF y
<1>3. x \in Tables /\ y \in Tables /\ m \in Nat /\ x.extended_offset \in Nat
      /\ v.sector_offset \in Nat /\ v.sector_offset >= 1
  BY <1>2, SoundFields, GeometryNumbers DEF Units
<1>4. a \in Nat /\ a <= start /\ x.extended_offset < start /\ 1 <= start
  BY <1>1, <1>3
<1>5. \E b \in Box(x) : start .. stop \subseteq (b.first + 1) .. b.last
  <2> DEFINE b == [first |-> x.extended_offset, last |-> LastSector(x, x.ext_index)]
             l == LastSector(x, x.ext_index)
  <2>1. b \in Box(x)
    BY DEF Box
  <2>2. l \in Int
    <3>1. x.ext_index \in Numbers(x)
      BY <1>3, SoundFields, TablesCount
    <3> QED BY <1>3, <3>1, AccessIsTyped
  <2>3. b.first = x.extended_offset /\ b.last = l /\ stop <= l
    BY <1>1
  <2> HIDE DEF l, b
  <2>4. start .. stop \subseteq (b.first + 1) .. b.last
    BY <1>1, <1>3, <1>4, <2>2, <2>3
  <2> QED BY <2>1, <2>4
<1>6. CASE ~ NeedsTable(x)
  <2> DEFINE e == NewEntry(Linux, start, stop, Offset(x, 4))
  <2>1. y = SetPart(x, 4, e) /\ 4 \in Numbers(x) /\ Offset(x, 4) = x.extended_offset
    BY <1>2, <1>6
  <2>2. e \in Entry /\ e.begin = start
    <3>1. Linux \in {Empty, EXTENDED} \cup Types
      BY LinuxIsData
    <3>2. Offset(x, 4) \in Nat /\ Offset(x, 4) <= start
      BY <1>1, <1>3, <1>4, <2>1
    <3>3. \A o \in Nat : o <= start =>
            /\ NewEntry(Linux, start, stop, o) \in Entry
            /\ NewEntry(Linux, start, stop, o).begin = start
      BY <1>1, <3>1, NewEntryIsEntry, SMTT(60)
    <3> QED BY <3>2, <3>3
  <2>11. e.type # EXTENDED
    BY LinuxIsData DEF NewEntry
  <2> HIDE DEF e
  <2>3. OnlyPart(x, 4, e, y)
    <3>1. ~ (4 < 4) /\ Offset(x, 4) <= e.begin
      BY <1>1, <1>3, <1>4, <2>1, <2>2
    <3> QED BY <2>1, <2>2, <2>11, <3>1, SetPartParts
  <2>4. /\ Numbers(y) = Numbers(x) /\ Box(y) = Box(x)
        /\ PartEntry(y, 4) = e /\ Offset(y, 4) = Offset(x, 4)
        /\ \A j \in Numbers(x) : j # 4 => Part(y, j) = Part(x, j)
        /\ \A j \in Numbers(x) : j # 4 => PartEntry(y, j) = PartEntry(x, j)
    BY <2>3 DEF OnlyPart
  <2>5. /\ 4 \in Numbers(y) /\ Offset(y, 4) \in Nat /\ Offset(y, 4) <= start
        /\ PartEntry(y, 4) = NewEntry(Linux, start, stop, Offset(y, 4))
    BY <1>1, <1>3, <1>4, <2>1, <2>4 DEF e
  <2>6. /\ 4 \in DataOf(y)
        /\ Part(y, 4).first = start /\ Part(y, 4).last = stop
        /\ Part(y, 4).start = start /\ Part(y, 4).active = FALSE
        /\ Part(y, 4).inside = (4 > 3)
    <3> DEFINE d == Offset(y, 4)
    <3>1. /\ d \in Nat /\ d <= start /\ Offset(y, 4) = d
          /\ PartEntry(y, 4) = NewEntry(Linux, start, stop, d)
      BY <2>5
    <3> HIDE DEF d
    <3> QED BY <1>1, <1>3, <2>5, <3>1, NewEntryPart, ZenonT(60)
  <2>7. 4 \notin DataOf(x)
    BY <1>6 DEF NeedsTable, DataOf, IsData
  <2>8. DataOf(y) = DataOf(x) \cup {4} /\ \A j \in DataOf(x) : Part(y, j) = Part(x, j)
    BY <2>4, <2>6, <2>7 DEF DataOf
  <2>9. IF Part(y, 4).inside
        THEN \E b \in Box(x) : start .. stop \subseteq (b.first + 1) .. b.last
        ELSE \A b \in Box(x) : (start .. stop) \cap (b.first .. b.last) = {}
    <3>1. 4 > 3
      OBVIOUS
    <3> QED BY <1>5, <2>6, <3>1
  <2>10. Spaced(y) /\ Creates(x, y)
    BY <1>1, <1>3, <1>4, <2>4, <2>6, <2>7, <2>8, <2>9, NewPart
  <2> QED BY <2>10 DEF y
<1>7. CASE NeedsTable(x)
  <2> DEFINE e == NewEntry(Linux, start, stop, a)
             i == m + 4
  <2>1. PICK r :
          /\ y = [x EXCEPT !.logical = r]
          /\ Len(r) = m + 1
          /\ \A j \in 1 .. m : SamePart(r[j], x.logical[j])
          /\ r[m + 1].offset = a
          /\ PartOf(r[m + 1]) = e
    BY <1>2, <1>7 DEF Grows
  <2> HIDE DEF e
  <2>2. /\ y.logical = r /\ y.primary = x.primary
        /\ y.extended_offset = x.extended_offset /\ y.ext_index = x.ext_index
    BY <1>3, <2>1 DEF Tables
  <2>3. Box(y) = Box(x)
    <3>1. Extended(y) = Extended(x)
      BY <2>2 DEF Extended
    <3> QED BY <1>2, <2>2, <3>1, BoxStays
  <2>4. Numbers(x) = 0 .. m + 3 /\ Numbers(y) = 0 .. m + 4
    <3>1. Partitions(x) = 4 + m /\ Partitions(y) = 4 + (m + 1)
      BY <2>1, <2>2 DEF Partitions
    <3> QED BY <1>3, <3>1 DEF Numbers
  <2>5. ASSUME NEW j \in Numbers(x)
        PROVE  Part(y, j) = Part(x, j) /\ (j \in DataOf(y) <=> j \in DataOf(x))
    <3>1. CASE j < 4
      <4>1. j \in 0..3
        BY <2>4, <3>1
      <4> QED BY <1>3, <2>2, <4>1, SamePrimary
    <3>2. CASE ~ (j < 4)
      <4> DEFINE l == j - 3
      <4>1. l \in 1 .. m /\ l \in 1 .. Len(y.logical) /\ l + 3 = j
        BY <1>3, <2>1, <2>2, <2>4, <3>2
      <4>2. SamePart(y.logical[l], x.logical[l])
        BY <2>1, <2>2, <4>1
      <4> HIDE DEF l
      <4>3. /\ Part(y, l + 3) = Part(x, l + 3)
            /\ l + 3 \in DataOf(y) <=> l + 3 \in DataOf(x)
        BY <1>3, <4>1, <4>2, SameLogical
      <4> QED BY <4>1, <4>3
    <3> QED BY <3>1, <3>2
  <2>6. PartEntry(y, i) = e /\ Offset(y, i) = a /\ i \in Numbers(y) /\ i > 3
    <3>1. m + 1 \in 1 .. Len(y.logical) /\ (m + 1) + 3 = i /\ i \in 0 .. m + 4 /\ i > 3
      BY <1>3, <2>1, <2>2
    <3>2. PartEntry(y, (m + 1) + 3) = e /\ Offset(y, (m + 1) + 3) = a
      BY <1>3, <2>1, <2>2, <3>1, LogicalPart, ZenonT(60)
    <3> QED BY <2>4, <3>1, <3>2
  <2>7. /\ i \in DataOf(y)
        /\ Part(y, i).first = start /\ Part(y, i).last = stop
        /\ Part(y, i).start = start /\ Part(y, i).active = FALSE
        /\ Part(y, i).inside = (i > 3)
    <3> HIDE DEF i, a
    <3> QED BY <1>1, <1>3, <1>4, <2>6, NewEntryPart DEF e
  <2>8. i \notin DataOf(x)
    BY <1>3, <2>4 DEF DataOf
  <2>9. DataOf(y) = DataOf(x) \cup {i} /\ \A j \in DataOf(x) : Part(y, j) = Part(x, j)
    <3>1. DataOf(y) \subseteq Numbers(x) \cup {i} /\ DataOf(x) \subseteq Numbers(x)
      BY <1>3, <2>4 DEF DataOf
    <3> HIDE DEF i
    <3> QED BY <2>5, <2>7, <3>1
  <2> HIDE DEF i
  <2>10. IF Part(y, i).inside
         THEN \E b \in Box(x) : start .. stop \subseteq (b.first + 1) .. b.last
         ELSE \A b \in Box(x) : (start .. stop) \cap (b.first .. b.last) = {}
    BY <1>5, <2>6, <2>7
  <2>11. Spaced(y) /\ Creates(x, y)
    BY <1>1, <1>3, <1>4, <2>3, <2>7, <2>8, <2>9, <2>10, NewPart
  <2> QED BY <2>11 DEF y
<1> QED BY <1>6, <1>7

-----------------------------------------------------------------------------
(* The refinement.                                                          *)

(* A disk as a careful tool leaves it: no partition is empty or begins its  *)
(* data in front of itself, no two overlap, and the extended partition is   *)
(* not empty.                                                               *)
ProperDisks ==
  \A d \in Disks :
    CanRead(d) =>
      /\ Spaced(ReadTables(d))
      /\ ReadTables(d).extended_offset # 0 => Extended(ReadTables(d)).size # 0

SpaceInv == TablesInv /\ Spaced(t)

\* What one command may do to the partitions.
Step(x, y) ==
  \/ Creates(x, y) \/ CreatesBox(x, y)
  \/ Removes(x, y) \/ RemovesBox(x, y)
  \/ Changes(x, y) \/ Stays(x, y)

(* Such a step is one of DosSpace.                                          *)
LEMMA StepIsSpaceStep == Step(t, t') => [Space!Next]_(Space!vars)
<1> SUFFICES ASSUME Step(t, t') PROVE [Space!Next]_(Space!vars)
  OBVIOUS
<1>1. Box(t)' = Box(t') /\ Parts(t)' = Parts(t')
  OBVIOUS
<1>2. ASSUME Creates(t, t') PROVE Space!Create
  BY <1>1, <1>2 DEF Creates, Occupied, Space!Create, Space!Extent, Space!Used
<1>3. ASSUME CreatesBox(t, t') PROVE Space!CreateBox
  BY <1>1, <1>3 DEF CreatesBox, Occupied, Space!CreateBox, Space!Extent, Space!Used
<1>4. ASSUME Removes(t, t') PROVE Space!Remove
  BY <1>1, <1>4 DEF Removes, Space!Remove
<1>5. ASSUME RemovesBox(t, t') PROVE Space!RemoveBox
  BY <1>1, <1>5 DEF RemovesBox, Space!RemoveBox, Space!Inside
<1>6. ASSUME Changes(t, t') PROVE Space!Change
  BY <1>1, <1>6 DEF Changes, Space!Change, Space!Extent
<1>7. ASSUME Stays(t, t') PROVE UNCHANGED Space!vars
  BY <1>1, <1>7 DEF Stays, Space!vars
<1> QED BY <1>2, <1>3, <1>4, <1>5, <1>6, <1>7 DEF Step, Space!Next

(* The tables a session begins with.                                        *)
LEMMA SpaceInit == TidyDisks /\ ProperDisks /\ Init => SpaceInv /\ Space!Init
<1> SUFFICES ASSUME TidyDisks, ProperDisks, Init PROVE SpaceInv /\ Space!Init
  OBVIOUS
<1>1. TablesInv
  BY InvInit
<1>2. /\ Spaced(t)
      /\ t.extended_offset # 0 => Extended(t).size # 0
  BY DEF ProperDisks, Init
<1>3. t \in SoundTables
  BY <1>1 DEF TablesInv
<1>4. CASE t.extended_offset = 0
  <2>1. Box(t) = {}
    BY <1>4 DEF Box
  <2> QED BY <1>1, <1>2, <2>1 DEF SpaceInv, Space!Init
<1>5. CASE t.extended_offset # 0
  <2> DEFINE a == t.extended_offset
             z == LastSector(t, t.ext_index)
  <2>1. /\ t.ext_index \in 0..3 /\ a \in Nat
        /\ Extended(t).start = a /\ a + Extended(t).size <= Total
        /\ Extended(t).size \in Nat /\ Extended(t).size # 0 /\ a # 0
    BY <1>2, <1>3, <1>5, SoundFields, EntryFields
  <2>2. PartEntry(t, t.ext_index) = Extended(t) /\ Offset(t, t.ext_index) = 0
    BY <2>1 DEF PartEntry, Extended, Offset
  <2>3. z = a + 0 + Extended(t).size - 1
    BY <2>1, <2>2 DEF LastSector
  <2>4. Box(t) = {[first |-> a, last |-> z]}
    BY <1>5 DEF Box
  <2>5. Total \in Nat
    BY TotalIsPositive
  <2> HIDE DEF a, z
  <2>6. a \in 1 .. Total /\ z \in 1 .. Total /\ a <= z
    BY <2>1, <2>3, <2>5
  <2>7. Space!Init
    BY <2>4, <2>6 DEF Space!Init
  <2> QED BY <1>1, <1>2, <2>7 DEF SpaceInv
<1> QED BY <1>4, <1>5

(* Every command does one thing to the partitions.                          *)
LEMMA SpaceStep == SpaceInv /\ [Next]_vars => Spaced(t') /\ Step(t, t')
<1> SUFFICES ASSUME SpaceInv, [Next]_vars PROVE Spaced(t') /\ Step(t, t')
  OBVIOUS
<1>1. TablesInv /\ t \in SoundTables /\ u \in Units /\ Spaced(t)
  BY DEF SpaceInv, TablesInv
<1>2. ASSUME NEW n \in 0..3, NewPrimary(n) PROVE Spaced(t') /\ Step(t, t')
  <2>1. /\ t.primary[n].type = Empty /\ HasRoom(t, u, n)
        /\ \E a \in Answers(t, n) : t' = AddPrimary(t, n, a[1], a[2])
    BY <1>2 DEF NewPrimary, Edit
  <2>2. PICK a \in Answers(t, n) : t' = AddPrimary(t, n, a[1], a[2])
    BY <2>1
  <2>3. PICK start \in Starts(t, u, n, TypedStarts) :
          a \in {<<start, stop>> : stop \in Stops(t, u, n, start, TypedStops)}
    BY DEF Answers
  <2>4. PICK stop \in Stops(t, u, n, start, TypedStops) : a = <<start, stop>>
    BY <2>3
  <2>5. LET y == AddPrimary(t, n, start, stop) IN Spaced(y) /\ Creates(t, y)
    BY <1>1, <2>1, AddPrimaryParts
  <2>6. t' = AddPrimary(t, n, start, stop)
    BY <2>2, <2>4
  <2> QED BY <2>5, <2>6 DEF Step
<1>3. ASSUME NEW n \in 0..3, NewExtended(n) PROVE Spaced(t') /\ Step(t, t')
  <2>1. /\ t.extended_offset = 0 /\ t.primary[n].type = Empty /\ HasRoom(t, u, n)
        /\ \E a \in Answers(t, n) : t' = AddExtended(t, n, a[1], a[2])
    BY <1>3 DEF NewExtended, Edit
  <2>2. PICK a \in Answers(t, n) : t' = AddExtended(t, n, a[1], a[2])
    BY <2>1
  <2>3. PICK start \in Starts(t, u, n, TypedStarts) :
          a \in {<<start, stop>> : stop \in Stops(t, u, n, start, TypedStops)}
    BY DEF Answers
  <2>4. PICK stop \in Stops(t, u, n, start, TypedStops) : a = <<start, stop>>
    BY <2>3
  <2>5. LET y == AddExtended(t, n, start, stop) IN Spaced(y) /\ CreatesBox(t, y)
    BY <1>1, <2>1, AddExtendedParts
  <2>6. t' = AddExtended(t, n, start, stop)
    BY <2>2, <2>4
  <2> QED BY <2>5, <2>6 DEF Step
<1>4. ASSUME t' = t PROVE Spaced(t') /\ Step(t, t')
  BY <1>1, <1>4 DEF Step, Stays
<1>5. ASSUME NewLogicalPartition PROVE Spaced(t') /\ Step(t, t')
  <2> DEFINE r == Room(t)
             n == Partitions(r) - 1
  <2>1. /\ Partitions(t) < MaximumParts /\ t.extended_offset # 0 /\ HasRoom(r, u, n)
        /\ t' = t \/ \E a \in Answers(r, n) : t' = AddLogical(r, u, a[1], a[2])
    BY <1>5 DEF NewLogicalPartition, MayAdd, AskForEver, Edit
  <2>2. Len(t.logical) < MaxLogical
    BY <1>1, <2>1, SoundFields, GeometryNumbers DEF Partitions, MaxLogical
  <2>3. CASE \E a \in Answers(r, n) : t' = AddLogical(r, u, a[1], a[2])
    <3>1. PICK a \in Answers(r, n) : t' = AddLogical(r, u, a[1], a[2])
      BY <2>3
    <3>2. PICK start \in Starts(r, u, n, TypedStarts) :
            a \in {<<start, stop>> : stop \in Stops(r, u, n, start, TypedStops)}
      BY DEF Answers
    <3>3. PICK stop \in Stops(r, u, n, start, TypedStops) : a = <<start, stop>>
      BY <3>2
    <3>4. LET y == AddLogical(Room(t), u, start, stop) IN Spaced(y) /\ Creates(t, y)
      BY <1>1, <2>1, <2>2, AddLogicalParts
    <3>5. t' = AddLogical(Room(t), u, start, stop)
      BY <3>1, <3>3
    <3> QED BY <3>4, <3>5 DEF Step
  <2> QED BY <1>4, <2>1, <2>3
<1>6. ASSUME NEW i \in Numbers(t), Delete(i) PROVE Spaced(t') /\ Step(t, t')
  <2>1. t' = DeletePartition(t, i)
    BY <1>6 DEF Delete, Edit
  <2>2. LET y == DeletePartition(t, i)
        IN  Spaced(y) /\ (Removes(t, y) \/ RemovesBox(t, y) \/ Stays(t, y))
    BY <1>1, DeleteParts
  <2> QED BY <2>1, <2>2 DEF Step
<1>7. ASSUME NEW i \in Numbers(t), ChangeSysid(i) PROVE Spaced(t') /\ Step(t, t')
  <2>1. i \in DataOf(t) /\ \E type \in Types : t' = SetType(t, i, type)
    BY <1>7 DEF ChangeSysid, Edit, DataOf
  <2>2. PICK type \in Types : t' = SetType(t, i, type)
    BY <2>1
  <2>3. Spaced(SetType(t, i, type)) /\ Changes(t, SetType(t, i, type))
    BY <1>1, <2>1, SetTypeParts
  <2> QED BY <2>2, <2>3 DEF Step
<1>8. ASSUME NEW i \in Numbers(t), Activate(i) PROVE Spaced(t') /\ Step(t, t')
  <2>1. t' = ToggleActive(t, i)
    BY <1>8 DEF Activate, Edit
  <2>2. /\ Spaced(ToggleActive(t, i))
        /\ Changes(t, ToggleActive(t, i)) \/ Stays(t, ToggleActive(t, i))
    BY <1>1, ToggleParts
  <2> QED BY <2>1, <2>2 DEF Step
<1>9. ASSUME NEW i \in Numbers(t), MoveBeginning(i) PROVE Spaced(t') /\ Step(t, t')
  <2>1. i \in DataOf(t) /\ \E first \in PartEntry(t, i).begin .. LastSector(t, i) :
                              t' = MoveBegin(t, i, first)
    BY <1>9 DEF MoveBeginning, Edit, DataOf
  <2>2. PICK first \in PartEntry(t, i).begin .. LastSector(t, i) :
          t' = MoveBegin(t, i, first)
    BY <2>1
  <2>3. /\ Spaced(MoveBegin(t, i, first))
        /\ Changes(t, MoveBegin(t, i, first)) \/ Stays(t, MoveBegin(t, i, first))
    BY <1>1, <2>1, MoveBeginParts
  <2> QED BY <2>2, <2>3 DEF Step
<1>10. ASSUME \/ ToggleDos \/ ChangeUnits \/ StartWrite \/ WriteTable \/ Finish \/ Stop
              \/ UNCHANGED vars
       PROVE  t' = t
  BY <1>10 DEF ToggleDos, ChangeUnits, SetUnits, StartWrite, WriteTable, Put, Finish, Stop, vars
<1> QED BY <1>2, <1>3, <1>4, <1>5, <1>6, <1>7, <1>8, <1>9, <1>10 DEF Next

(* And leaves them apart.                                                   *)
LEMMA SpaceInvNext == SpaceInv /\ [Next]_vars => SpaceInv'
<1>1. SpaceInv /\ [Next]_vars => TablesInv'
  BY InvNext DEF SpaceInv
<1>2. SpaceInv /\ [Next]_vars => Spaced(t)'
  BY SpaceStep
<1> QED BY <1>1, <1>2 DEF SpaceInv

(* The editor does to the partitions of a disk what DosSpace says: a new    *)
(* one takes sectors that no other has, in the extended partition or outside *)
(* it, deleting one touches no other, and t, a and b change one partition   *)
(* and leave what it occupies.                                              *)
THEOREM EditorIsDosSpace == TidyDisks /\ ProperDisks /\ Spec => EditorImplementsDosSpace
<1>1. SpaceInv /\ [Next]_vars => SpaceInv'
  BY SpaceInvNext
<1>2. SpaceInv /\ [Next]_vars => [Space!Next]_(Space!vars)
  BY SpaceStep, StepIsSpaceStep
<1> QED BY SpaceInit, <1>1, <1>2, PTL DEF Spec, EditorImplementsDosSpace, Space!Spec

(* Nor do two partitions ever overlap, if they did not on the disk.         *)
THEOREM PartitionsStayApart == TidyDisks /\ ProperDisks /\ Spec => []Spaced(t)
<1>1. SpaceInv /\ [Next]_vars => SpaceInv'
  BY SpaceInvNext
<1>2. SpaceInv => Spaced(t)
  BY DEF SpaceInv
<1> QED BY SpaceInit, <1>1, <1>2, PTL DEF Spec

-----------------------------------------------------------------------------
(* The search passes over no room.  "busy" are sectors that are in use:     *)
(* every table, and the last sector of every partition.                     *)
InUse(x, busy) ==
  \A k \in Numbers(x) :
    /\ Offset(x, k) \in busy
    /\ IsData(PartEntry(x, k)) => LastSector(x, k) \in busy

(* A sector that is free together with the sector_offset before it is not   *)
(* passed over by a step of a round.                                        *)
LEMMA StepKeepsRoom ==
  ASSUME NEW x \in Tables, NEW v \in Units, NEW n \in Nat, NEW k \in Numbers(x),
         NEW busy, InUse(x, busy), NEW s \in Nat, NEW b \in Nat, b <= s,
         (s - v.sector_offset .. s) \cap busy = {},
         ~ (Firsts(x, v, n)[k] <= s /\ s <= Lasts(x, n)[k])
  PROVE  Moved(x, v, n, k, b) <= s
<1> DEFINE first == Firsts(x, v, n)[k]
           last  == Lasts(x, n)[k]
           o     == v.sector_offset
           c     == IF b = Offset(x, k) THEN b + o ELSE b
<1>1. /\ first \in Nat /\ last \in Int /\ o \in Nat /\ o > 0 /\ Offset(x, k) \in Nat
  BY BoundsAreTyped, AccessIsTyped, GeometryNumbers DEF Units
<1>2. Moved(x, v, n, k, b) =
        IF first <= c /\ c <= last THEN IF n < 4 THEN last + 1 ELSE last + o ELSE c
  BY DEF Moved
<1>3. ~ (first <= s /\ s <= last)
  OBVIOUS
<1>4. n >= 4 /\ first <= last => last \in busy
  <2> SUFFICES ASSUME n >= 4, first <= last PROVE last \in busy
    OBVIOUS
  <2>1. ~ (n < 4)
    OBVIOUS
  <2>2. CASE IsData(PartEntry(x, k))
    <3>1. last = LastSector(x, k)
      BY <2>2 DEF Lasts
    <3> QED BY <2>2, <3>1 DEF InUse
  <2>3. CASE ~ IsData(PartEntry(x, k))
    <3>1. first = NoSector /\ last = 0
      BY <2>1, <2>3 DEF Firsts, Lasts
    <3>2. NoSector > 0 /\ NoSector \in Nat
      BY TotalIsPositive, GeometryNumbers DEF NoSector
    <3> HIDE DEF first, last
    <3> QED BY <3>1, <3>2
  <2> QED BY <2>2, <2>3
<1>5. Offset(x, k) \in busy
  BY DEF InUse
<1>6. \A a \in busy : ~ (a \in s - o .. s)
  OBVIOUS
<1> HIDE DEF first, last, o
<1>7. c <= s /\ c \in Nat
  <2>1. CASE b = Offset(x, k)
    <3>1. ~ (b \in s - o .. s)
      BY <1>5, <1>6, <2>1
    <3>2. b < s - o
      BY <1>1, <3>1
    <3> QED BY <1>1, <2>1, <3>2
  <2>2. CASE b # Offset(x, k)
    BY <2>2
  <2> QED BY <2>1, <2>2
<1>8. ASSUME first <= c, c <= last
      PROVE  (IF n < 4 THEN last + 1 ELSE last + o) <= s
  <2> HIDE DEF c
  <2>1. last < s /\ first <= last
    BY <1>1, <1>3, <1>7, <1>8
  <2>2. CASE n < 4
    BY <1>1, <2>1, <2>2
  <2>3. CASE n >= 4
    <3>1. ~ (last \in s - o .. s)
      BY <1>4, <1>6, <2>1, <2>3
    <3>2. last < s - o
      BY <1>1, <2>1, <3>1
    <3> QED BY <1>1, <2>3, <3>2
  <2> QED BY <2>2, <2>3
<1> HIDE DEF c
<1> QED BY <1>2, <1>7, <1>8

(* Nor by a round.                                                          *)
LEMMA RoundKeepsRoom ==
  ASSUME NEW x \in Tables, NEW v \in Units, NEW n \in Nat, NEW busy, InUse(x, busy),
         NEW s \in Nat, Pass(x, v, n, s) = s,
         (s - v.sector_offset .. s) \cap busy = {},
         NEW b \in Nat, b <= s
  PROVE  Pass(x, v, n, b) <= s
<1> DEFINE N == Partitions(x)
<1>1. N \in Nat /\ Numbers(x) = 0 .. N - 1
  BY TablesCount
<1>2. PICK p : Walk(p, x, v, n, b)
  BY PassSteps
<1>9. /\ p[0] = b
      /\ \A j \in 0 .. N - 1 : p[j + 1] = Moved(x, v, n, j, p[j])
      /\ \A j \in 0 .. N : p[j] \in Nat /\ p[j] >= b
      /\ Pass(x, v, n, b) = p[N]
  BY <1>2 DEF Walk
<1> HIDE DEF N
<1> DEFINE S == {j \in 0 .. N : p[j] <= s}
<1>3. 0 \in S
  BY <1>1, <1>9
<1>4. ASSUME NEW j \in 0 .. N - 1, j \in S PROVE j + 1 \in S
  <2>1. j \in Numbers(x) /\ j \in 0 .. N /\ j + 1 \in 0 .. N
    BY <1>1
  <2>2. p[j] \in Nat /\ p[j] <= s
    BY <1>9, <1>4, <2>1
  <2>3. ~ (Firsts(x, v, n)[j] <= s /\ s <= Lasts(x, n)[j])
    BY <2>1, FixedIsFree
  <2>4. Moved(x, v, n, j, p[j]) <= s
    BY <2>1, <2>2, <2>3, StepKeepsRoom
  <2> QED BY <1>9, <2>1, <2>4
<1>5. N \in S
  <2> HIDE DEF S
  <2>1. \A j \in 0 .. N : j \in S
    BY <1>1, <1>3, <1>4, Induction
  <2> QED BY <1>1, <2>1
<1> QED BY <1>9, <1>5

(* Nor by the search, if it begins at that sector or below.                 *)
LEMMA SearchKeepsRoom ==
  ASSUME NEW x \in Tables, NEW v \in Units, NEW n \in Nat, LimitOf(x, n) \in Int,
         NEW busy, InUse(x, busy),
         NEW s \in Nat, Base(x, v, n) <= s, Pass(x, v, n, s) = s,
         (s - v.sector_offset .. s) \cap busy = {}
  PROVE  FirstFree(x, v, n) <= s
<1>1. Total \in Nat
  BY TotalIsPositive
<1>2. PICK r :
        /\ r[0] = Base(x, v, n)
        /\ \A k \in 0 .. Total - 1 :
             r[k + 1] = IF r[k] > LimitOf(x, n) THEN r[k] ELSE Pass(x, v, n, r[k])
        /\ \A k \in 0 .. Total : r[k] \in Nat /\ r[k] >= Base(x, v, n)
        /\ FirstFree(x, v, n) = r[Total]
  BY SearchRounds
<1> DEFINE S == {k \in 0 .. Total : r[k] <= s}
<1>3. 0 \in S
  BY <1>1, <1>2
<1>4. ASSUME NEW k \in 0 .. Total - 1, k \in S PROVE k + 1 \in S
  <2>1. k \in 0 .. Total /\ k + 1 \in 0 .. Total
    BY <1>1
  <2>2. r[k] \in Nat /\ r[k] <= s
    BY <1>2, <1>4, <2>1
  <2>3. Pass(x, v, n, r[k]) <= s
    BY <2>2, RoundKeepsRoom
  <2> QED BY <1>2, <2>1, <2>2, <2>3
<1>5. Total \in S
  <2> HIDE DEF S
  <2>1. \A k \in 0 .. Total : k \in S
    BY <1>1, <1>3, <1>4, Induction
  <2> QED BY <1>1, <2>1
<1> QED BY <1>2, <1>5

(* For a logical partition the search never leaves a sector unless another  *)
(* one in use is sector_offset before where it arrives.                     *)
LEMMA StepFollowsUse ==
  ASSUME NEW x \in Tables, NEW v \in Units, NEW n \in Nat, n >= 4, NEW k \in Numbers(x),
         NEW busy, InUse(x, busy), NEW b \in Nat, b - v.sector_offset \in busy
  PROVE  Moved(x, v, n, k, b) - v.sector_offset \in busy
<1> DEFINE first == Firsts(x, v, n)[k]
           last  == Lasts(x, n)[k]
           o     == v.sector_offset
           c     == IF b = Offset(x, k) THEN b + o ELSE b
<1>1. /\ first \in Nat /\ last \in Int /\ o \in Nat /\ o > 0 /\ Offset(x, k) \in Nat
  BY BoundsAreTyped, AccessIsTyped, GeometryNumbers DEF Units
<1>2. Moved(x, v, n, k, b) = IF first <= c /\ c <= last THEN last + o ELSE c
  BY DEF Moved
<1>3. first <= last => last \in busy
  <2> SUFFICES ASSUME first <= last PROVE last \in busy
    OBVIOUS
  <2>1. ~ (n < 4)
    OBVIOUS
  <2>2. CASE IsData(PartEntry(x, k))
    <3>1. last = LastSector(x, k)
      BY <2>2 DEF Lasts
    <3> QED BY <2>2, <3>1 DEF InUse
  <2>3. CASE ~ IsData(PartEntry(x, k))
    <3>1. first = NoSector /\ last = 0
      BY <2>1, <2>3 DEF Firsts, Lasts
    <3>2. NoSector > 0 /\ NoSector \in Nat
      BY TotalIsPositive, GeometryNumbers DEF NoSector
    <3> HIDE DEF first, last
    <3> QED BY <3>1, <3>2
  <2> QED BY <2>2, <2>3
<1>4. Offset(x, k) \in busy
  BY DEF InUse
<1>5. b - o \in busy
  OBVIOUS
<1> HIDE DEF first, last, o
<1>6. c \in Nat /\ c - o \in busy
  <2>1. CASE b = Offset(x, k)
    <3>1. c - o = b
      BY <1>1, <2>1
    <3> QED BY <1>1, <1>4, <2>1, <3>1
  <2>2. CASE b # Offset(x, k)
    BY <1>5, <2>2
  <2> QED BY <2>1, <2>2
<1> HIDE DEF c
<1>7. CASE first <= c /\ c <= last
  <2>1. first <= last /\ (last + o) - o = last
    BY <1>1, <1>6, <1>7
  <2> QED BY <1>2, <1>3, <1>7, <2>1 DEF o
<1>8. CASE ~ (first <= c /\ c <= last)
  BY <1>2, <1>6, <1>8 DEF o
<1> QED BY <1>7, <1>8

(* Nor does a round,                                                      *)
LEMMA RoundFollowsUse ==
  ASSUME NEW x \in Tables, NEW v \in Units, NEW n \in Nat, n >= 4,
         NEW busy, InUse(x, busy), NEW b \in Nat, b - v.sector_offset \in busy
  PROVE  Pass(x, v, n, b) - v.sector_offset \in busy
<1> DEFINE N == Partitions(x)
<1>1. N \in Nat /\ Numbers(x) = 0 .. N - 1
  BY TablesCount
<1>9. PICK p : Walk(p, x, v, n, b)
  BY PassSteps
<1>2. /\ p[0] = b
      /\ \A j \in 0 .. N - 1 : p[j + 1] = Moved(x, v, n, j, p[j])
      /\ \A j \in 0 .. N : p[j] \in Nat /\ p[j] >= b
      /\ Pass(x, v, n, b) = p[N]
  BY <1>9 DEF Walk
<1> HIDE DEF N
<1> DEFINE S == {j \in 0 .. N : p[j] - v.sector_offset \in busy}
<1>3. 0 \in S
  BY <1>1, <1>2
<1>4. ASSUME NEW j \in 0 .. N - 1, j \in S PROVE j + 1 \in S
  <2>1. j \in Numbers(x) /\ j \in 0 .. N /\ j + 1 \in 0 .. N
    BY <1>1
  <2>2. p[j] \in Nat /\ p[j] - v.sector_offset \in busy
    BY <1>2, <1>4, <2>1
  <2>3. Moved(x, v, n, j, p[j]) - v.sector_offset \in busy
    BY <2>1, <2>2, StepFollowsUse
  <2> QED BY <1>2, <2>1, <2>3
<1>5. N \in S
  <2> HIDE DEF S
  <2>1. \A j \in 0 .. N : j \in S
    BY <1>1, <1>3, <1>4, Induction
  <2> QED BY <1>1, <2>1
<1> QED BY <1>2, <1>5

(* nor the whole search: it ends sector_offset behind a sector in use.    *)
LEMMA SearchFollowsUse ==
  ASSUME NEW x \in Tables, NEW v \in Units, NEW n \in Nat, n >= 4,
         LimitOf(x, n) \in Int, NEW busy, InUse(x, busy),
         Base(x, v, n) - v.sector_offset \in busy
  PROVE  FirstFree(x, v, n) - v.sector_offset \in busy
<1>1. Total \in Nat
  BY TotalIsPositive
<1>2. PICK r :
        /\ r[0] = Base(x, v, n)
        /\ \A k \in 0 .. Total - 1 :
             r[k + 1] = IF r[k] > LimitOf(x, n) THEN r[k] ELSE Pass(x, v, n, r[k])
        /\ \A k \in 0 .. Total : r[k] \in Nat /\ r[k] >= Base(x, v, n)
        /\ FirstFree(x, v, n) = r[Total]
  BY SearchRounds
<1> DEFINE S == {k \in 0 .. Total : r[k] - v.sector_offset \in busy}
<1>3. 0 \in S
  BY <1>1, <1>2
<1>4. ASSUME NEW k \in 0 .. Total - 1, k \in S PROVE k + 1 \in S
  <2>1. k \in 0 .. Total /\ k + 1 \in 0 .. Total
    BY <1>1
  <2>2. r[k] \in Nat /\ r[k] - v.sector_offset \in busy
    BY <1>2, <1>4, <2>1
  <2>3. Pass(x, v, n, r[k]) - v.sector_offset \in busy
    BY <2>2, RoundFollowsUse
  <2> QED BY <1>2, <2>1, <2>2, <2>3
<1>5. Total \in S
  <2> HIDE DEF S
  <2>1. \A k \in 0 .. Total : k \in S
    BY <1>1, <1>3, <1>4, Induction
  <2> QED BY <1>1, <2>1
<1> QED BY <1>2, <1>5

-----------------------------------------------------------------------------
Busy == TableSectors \cup DataSectors

(* The tables and the last sectors of the partitions are in use, and remain *)
(* so when there is a table more.                                           *)
LEMMA SectorsInUse ==
  ASSUME t \in SoundTables, Placed(t)
  PROVE  /\ InUse(t, Busy)
         /\ t.extended_offset # 0 => /\ InUse(Room(t), Busy)
                                     /\ t.extended_offset \in Busy
<1>1. t \in Tables /\ t.ext_index \in 0..3
  BY SoundFields
<1>2. 0 \in TableSectors
  <2>1. 3 \in Numbers(t) \ 0..2
    BY <1>1, TablesCount
  <2>2. Offset(t, 3) = 0
    BY DEF Offset
  <2> QED BY <2>1, <2>2 DEF TableSectors
<1>3. ASSUME NEW k \in Numbers(t) PROVE Offset(t, k) \in Busy
  <2>1. CASE k < 4
    BY <1>2, <2>1 DEF Offset, Busy
  <2>2. CASE ~ (k < 4)
    <3>1. k \in Numbers(t) \ 0..2
      BY <2>2
    <3> QED BY <3>1 DEF TableSectors, Busy
  <2> QED BY <2>1, <2>2
<1>4. ASSUME NEW k \in Numbers(t), IsData(PartEntry(t, k))
      PROVE  LastSector(t, k) \in Busy
  <2>1. k \in DataOf(t) /\ k \in Used
    BY <1>4 DEF DataOf, Used
  <2>2. /\ Part(t, k).first = PartEntry(t, k).begin /\ Part(t, k).last = LastSector(t, k)
        /\ Part(t, k).first \in Nat /\ Part(t, k).last \in Int /\ Part(t, k).start \in Nat
    BY <1>1, PartFields
  <2>3. PartEntry(t, k).begin <= LastSector(t, k)
    BY <2>1, <2>2 DEF Placed
  <2>4. First[k] = PartEntry(t, k).begin
    BY <1>4 DEF First, Firsts, Sectors, Round
  <2>5. LastOf[k] = LastSector(t, k)
    BY <1>4 DEF LastOf, Lasts
  <2>6. LastSector(t, k) \in First[k] .. LastOf[k]
    BY <2>2, <2>3, <2>4, <2>5
  <2> QED BY <2>1, <2>6 DEF DataSectors, Busy
<1>5. InUse(t, Busy)
  BY <1>3, <1>4 DEF InUse
<1>6. ASSUME t.extended_offset # 0
      PROVE  InUse(Room(t), Busy) /\ t.extended_offset \in Busy
  <2> DEFINE r == Room(t)
             s == t.logical
  <2>1. /\ r \in Tables
        /\ \A j \in Numbers(t) : PartEntry(r, j) = PartEntry(t, j) /\ Offset(r, j) = Offset(t, j)
    BY <1>6, RoomKeepsParts
  <2>2. ASSUME NEW k \in Numbers(r), k \notin Numbers(t)
        PROVE  Offset(r, k) = 0 /\ ~ IsData(PartEntry(r, k))
    <3>1. r = [t EXCEPT !.logical = Append(s, NewLogical(0))]
      <4>1. NeedsTable(t)
        BY <2>2 DEF Room
      <4> QED BY <4>1 DEF Room
    <3>2. s \in Seq(AnyTable) /\ Len(s) \in Nat
      BY <1>1, TablesCount DEF Tables
    <3>3. r.logical = Append(s, NewLogical(0))
      BY <1>1, <3>1 DEF Tables
    <3>4. Len(r.logical) = Len(s) + 1 /\ r.logical[Len(s) + 1] = NewLogical(0)
      <4>1. NewLogical(0) \in AnyTable
        <5>1. NoSlots \in [0..3 -> Entry]
          BY NoEntryIsEntry DEF NoSlots
        <5> QED BY <5>1 DEF NewLogical, AnyTable
      <4> QED BY <3>2, <3>3, <4>1, AppendProperties
    <3>5. k = Len(s) + 4 /\ k - 3 = Len(s) + 1 /\ ~ (k < 4)
      <4>1. Numbers(r) = 0 .. (4 + Len(s) + 1) - 1 /\ Numbers(t) = 0 .. (4 + Len(s)) - 1
        BY <1>1, <2>1, <3>4, TablesCount
      <4> QED BY <2>2, <3>2, <4>1
    <3>6. r.logical[k - 3] = NewLogical(0)
      BY <3>4, <3>5
    <3>7. PartEntry(r, k) = NoEntry /\ Offset(r, k) = 0
      BY <3>5, <3>6 DEF PartEntry, Offset, NewLogical, NoSlots
    <3> QED BY <3>7, NoEntryIsEntry
  <2>3. ASSUME NEW k \in Numbers(r)
        PROVE  /\ Offset(r, k) \in Busy
               /\ IsData(PartEntry(r, k)) => LastSector(r, k) \in Busy
    <3>1. CASE k \in Numbers(t)
      <4>1. PartEntry(r, k) = PartEntry(t, k) /\ Offset(r, k) = Offset(t, k)
        BY <2>1, <3>1
      <4>2. LastSector(r, k) = LastSector(t, k)
        BY <4>1 DEF LastSector
      <4> QED BY <1>3, <1>4, <3>1, <4>1, <4>2
    <3>2. CASE k \notin Numbers(t)
      BY <1>2, <2>2, <3>2 DEF Busy
    <3> QED BY <3>1, <3>2
  <2>4. t.extended_offset \in Busy
    <3>1. 4 \in Numbers(t) /\ Offset(t, 4) = t.extended_offset
      <4>1. Len(s) \in Nat /\ Len(s) # 0 /\ s[1].offset = t.extended_offset
        BY <1>6, SoundFields
      <4>2. 4 \in Numbers(t)
        BY <1>1, <4>1, TablesCount
      <4> QED BY <4>1, <4>2 DEF Offset
    <3> QED BY <1>3, <3>1
  <2> QED BY <2>3, <2>4 DEF InUse
<1> QED BY <1>5, <1>6

(* What the search passes over has no room.                                 *)
LEMMA NoRoomBelow ==
  ASSUME t \in SoundTables, Placed(t), u \in Units,
         NEW x \in Tables, NEW n \in Nat, LimitOf(x, n) \in Int, InUse(x, Busy),
         NEW s \in Nat, Base(x, u, n) <= s, s < FirstFree(x, u, n)
  PROVE  ~ HasRoomAt(x, n, s)
<1> SUFFICES ASSUME HasRoomAt(x, n, s) PROVE FALSE
  OBVIOUS
<1>1. Pass(x, u, n, s) = s /\ (s - u.sector_offset .. s) \cap Busy = {}
  BY DEF HasRoomAt, Busy
<1>2. FirstFree(x, u, n) <= s
  BY <1>1, SearchKeepsRoom
<1>3. FirstFree(x, u, n) \in Nat
  BY SearchGoesOn
<1> QED BY <1>2, <1>3

(* Where a primary partition is looked for, and where a logical one is.     *)
LEMMA SearchedTables ==
  ASSUME t \in SoundTables, Placed(t), u \in Units
  PROVE  /\ \A n \in 0..3 : LimitOf(t, n) \in Nat /\ Base(t, u, n) \in Nat
                            /\ Base(t, u, n) >= 1
         /\ t.extended_offset # 0 =>
              LET r == Room(t)
                  n == Partitions(r) - 1
              IN  /\ r \in Tables /\ n \in Nat /\ n >= 4
                  /\ LimitOf(r, n) \in Nat /\ Base(r, u, n) \in Nat
                  /\ Base(r, u, n) >= 1
                  /\ InUse(r, Busy)
                  /\ Base(r, u, n) - u.sector_offset \in Busy
<1>1. u.sector_offset \in Nat /\ u.sector_offset >= 1 /\ t.extended_offset \in Nat
  BY SoundFields, GeometryNumbers DEF Units
<1>2. ASSUME NEW n \in 0..3
      PROVE  LimitOf(t, n) \in Nat /\ Base(t, u, n) \in Nat /\ Base(t, u, n) >= 1
  BY <1>1, TotalIsPositive DEF LimitOf, Base
<1>3. ASSUME t.extended_offset # 0
      PROVE  LET r == Room(t)
                 n == Partitions(r) - 1
             IN  /\ r \in Tables /\ n \in Nat /\ n >= 4
                 /\ LimitOf(r, n) \in Nat /\ Base(r, u, n) \in Nat
                 /\ Base(r, u, n) >= 1
                 /\ InUse(r, Busy)
                 /\ Base(r, u, n) - u.sector_offset \in Busy
  <2> DEFINE r == Room(t)
             n == Partitions(r) - 1
  <2>1. /\ r \in Tables /\ n \in Nat /\ n >= 4
        /\ LimitOf(r, n) \in Nat
        /\ Base(r, u, n) = t.extended_offset + u.sector_offset
    BY <1>3, RoomForOne
  <2>2. InUse(r, Busy) /\ t.extended_offset \in Busy
    BY <1>3, SectorsInUse
  <2> HIDE DEF r, n
  <2>3. Base(r, u, n) - u.sector_offset = t.extended_offset
    BY <1>1, <2>1
  <2>4. Base(r, u, n) \in Nat /\ Base(r, u, n) >= 1
    BY <1>1, <2>1
  <2>5. Base(r, u, n) - u.sector_offset \in Busy
    BY <2>2, <2>3
  <2> QED BY <2>1, <2>2, <2>4, <2>5 DEF r, n
<1> QED BY <1>2, <1>3

(* So the invariant gives NothingFreeBelow.                               *)
LEMMA SpaceGivesRoom == SpaceInv => NothingFreeBelow
<1> SUFFICES ASSUME SpaceInv,
                    NEW n \in {k \in 0..3 : t.primary[k].type = Empty}
                       \cup (IF t.logical = << >> THEN {} ELSE {Partitions(Room(t)) - 1}),
                    NEW x, x = IF n < 4 THEN t ELSE Room(t),
                    NEW s \in Base(x, u, n) .. Min({LimitOf(x, n), FirstFree(x, u, n) - 1})
             PROVE  ~ HasRoomAt(x, n, s)
  BY DEF NothingFreeBelow
<1>1. t \in SoundTables /\ Placed(t) /\ u \in Units /\ t \in Tables
  BY SoundFields DEF SpaceInv, TablesInv, Spaced
<1>2. /\ x \in Tables /\ n \in Nat /\ LimitOf(x, n) \in Nat /\ InUse(x, Busy)
      /\ Base(x, u, n) \in Nat /\ Base(x, u, n) >= 1
  <2>1. CASE n \in 0..3
    <3>1. x = t /\ n \in Nat
      BY <2>1
    <3> QED BY <1>1, <2>1, <3>1, SearchedTables, SectorsInUse
  <2>2. CASE n \notin 0..3
    <3>1. t.logical # << >> /\ n = Partitions(Room(t)) - 1
      BY <2>2
    <3>2. t.extended_offset # 0
      BY <1>1, <3>1, SoundFields
    <3>3. /\ Room(t) \in Tables /\ n \in Nat /\ n >= 4
          /\ LimitOf(Room(t), n) \in Nat /\ Base(Room(t), u, n) \in Nat
          /\ Base(Room(t), u, n) >= 1
          /\ InUse(Room(t), Busy)
      BY <1>1, <3>1, <3>2, SearchedTables
    <3>4. x = Room(t)
      BY <3>3
    <3> QED BY <3>3, <3>4
  <2> QED BY <2>1, <2>2
<1>3. FirstFree(x, u, n) \in Nat /\ FirstFree(x, u, n) >= Base(x, u, n)
  BY <1>1, <1>2, SearchGoesOn
<1>4. FirstFree(x, u, n) - 1 \in Nat
  BY <1>2, <1>3
<1>5. Min({LimitOf(x, n), FirstFree(x, u, n) - 1}) \in Nat
      /\ Min({LimitOf(x, n), FirstFree(x, u, n) - 1}) <= FirstFree(x, u, n) - 1
  <2> DEFINE ends == {LimitOf(x, n), FirstFree(x, u, n) - 1}
  <2>1. ends \in SUBSET Nat /\ ends # {} /\ FirstFree(x, u, n) - 1 \in ends
    BY <1>2, <1>4
  <2>2. Min(ends) \in ends /\ Min(ends) <= FirstFree(x, u, n) - 1
    BY <2>1, LeastElement
  <2>3. Min(ends) \in Nat
    BY <2>1, <2>2
  <2> QED BY <2>2, <2>3
<1>6. s \in Nat /\ Base(x, u, n) <= s /\ s < FirstFree(x, u, n)
  BY <1>2, <1>3, <1>5
<1> QED BY <1>1, <1>2, <1>6, NoRoomBelow

-----------------------------------------------------------------------------
(* A prompt that takes no answer.                                           *)
NoWayOut ==
  /\ t.extended_offset # 0
  /\ NoAnswer(Room(t), u, Partitions(Room(t)) - 1)

StuckInv == mode = "stuck" => NoWayOut

(* A later cylinder is a later sector.                                    *)
LEMMA CRoundGoesUp ==
  ASSUME NEW v \in Units, NEW a \in Nat, NEW b \in Nat, CRound(v, a) > CRound(v, b)
  PROVE  a > b
<1>1. CASE v.unit_flag
  <2>1. CylinderSize \in Nat /\ CylinderSize > 0
    BY GeometryNumbers
  <2>2. a \div CylinderSize \in Nat /\ b \div CylinderSize \in Nat
    BY <2>1
  <2>3. a \div CylinderSize > b \div CylinderSize
    BY <1>1, <2>2 DEF CRound
  <2>4. ((a \div CylinderSize + 1) - 1) * CylinderSize <= a
    BY <2>2, CylinderBounds
  <2>5. (b \div CylinderSize + 1) * CylinderSize - 1 >= b
    BY <2>2, CylinderBounds
  <2> DEFINE p == a \div CylinderSize
             q == b \div CylinderSize
  <2>6. p \in Nat /\ q \in Nat /\ p >= q + 1
    BY <2>2, <2>3
  <2>7. p * CylinderSize <= a /\ (q + 1) * CylinderSize > b
    BY <2>1, <2>2, <2>4, <2>5
  <2> HIDE DEF p, q
  <2>8. p * CylinderSize >= (q + 1) * CylinderSize
    BY <2>1, <2>6
  <2>9. p * CylinderSize \in Nat /\ (q + 1) * CylinderSize \in Nat
    BY <2>1, <2>6
  <2> QED BY <2>7, <2>8, <2>9
<1>2. CASE ~ v.unit_flag
  BY <1>2 DEF CRound
<1> QED BY <1>1, <1>2

(* Only the prompt for a logical partition asks for ever, and nothing leaves*)
(* it.                                                                    *)
LEMMA StuckStep == StuckInv /\ [Next]_vars => StuckInv'
<1> SUFFICES ASSUME StuckInv, [Next]_vars, mode' = "stuck" PROVE NoWayOut'
  BY DEF StuckInv
<1>1. CASE UNCHANGED vars
  BY <1>1 DEF vars, StuckInv, NoWayOut
<1>2. CASE NewLogicalPartition
  <2>1. CASE AskForEver /\ NoAnswer(Room(t), u, Partitions(Room(t)) - 1)
    BY <1>2, <2>1 DEF NewLogicalPartition, AskForEver, NoWayOut
  <2>2. CASE mode' = mode
    BY <1>2, <2>2 DEF NewLogicalPartition, MayAdd, Prompt
  <2> QED BY <1>2, <2>1, <2>2 DEF NewLogicalPartition, Edit
<1>3. ASSUME NEW n \in 0..3, NewPrimary(n) \/ NewExtended(n) PROVE FALSE
  BY <1>3 DEF NewPrimary, NewExtended, MayAdd, Prompt, Edit
<1>4. ASSUME NEW i \in Numbers(t),
             Delete(i) \/ ChangeSysid(i) \/ Activate(i) \/ MoveBeginning(i)
      PROVE  FALSE
  BY <1>4 DEF Delete, ChangeSysid, Activate, MoveBeginning, Chosen, Prompt, Edit
<1>5. ASSUME ToggleDos \/ ChangeUnits \/ StartWrite \/ WriteTable \/ Finish \/ Stop PROVE FALSE
  BY <1>5 DEF ToggleDos, ChangeUnits, SetUnits, StartWrite, WriteTable, Put, Finish, Stop
<1> QED BY <1>1, <1>2, <1>3, <1>4, <1>5 DEF Next

(* A sector in reach is what the number of its cylinder stands for.       *)
LEMMA ReachedIsAnswered ==
  ASSUME u \in Units, NEW x, NEW n, LowestStart(x, u, n) \in Nat, LimitOf(x, n) \in Nat,
         NEW s \in Nat, LowestStart(x, u, n) <= s, s <= LimitOf(x, n), InReach(x, n, s)
  PROVE  CRound(u, s) \in Asked(x, u, n) /\ Answered(x, u, n, CRound(u, s)) = s
<1> DEFINE low   == LowestStart(x, u, n)
           limit == LimitOf(x, n)
<1>1. CRound(u, s) \in Asked(x, u, n)
  <2>1. \A a \in Nat : CRound(u, a) \in Nat
    BY GeometryNumbers DEF CRound
  <2>2. ~ (CRound(u, low) > CRound(u, s)) /\ ~ (CRound(u, s) > CRound(u, limit))
    BY CRoundGoesUp
  <2>3. CRound(u, low) \in Nat /\ CRound(u, s) \in Nat /\ CRound(u, limit) \in Nat
    BY <2>1
  <2> HIDE DEF low, limit
  <2>4. CRound(u, s) \in CRound(u, low) .. CRound(u, limit)
    BY <2>2, <2>3
  <2> QED BY <2>4 DEF Asked, low, limit
<1>2. CASE ~ u.unit_flag
  BY <1>1, <1>2 DEF Answered, CRound
<1>3. CASE u.unit_flag
  <2> DEFINE q == s \div CylinderSize
             b == q * CylinderSize
  <2>1. CylinderSize \in Nat /\ CylinderSize > 0 /\ q \in Nat /\ b \in Nat
    BY GeometryNumbers
  <2>2. b <= s
    BY <2>1
  <2>3. s % CylinderSize = 0 => b = s
    BY <2>1
  <2>4. (CRound(u, s) - 1) * CylinderSize = b
    <3>1. CRound(u, s) = q + 1
      BY <1>3 DEF CRound
    <3> HIDE DEF q
    <3>2. CRound(u, s) - 1 = q
      BY <2>1, <3>1
    <3> QED BY <3>2
  <2> HIDE DEF q, b
  <2>5. Later(b, low) = s
    BY <1>3, <2>1, <2>2, <2>3 DEF Later, InReach
  <2> QED BY <1>1, <1>3, <2>4, <2>5 DEF Answered
<1> QED BY <1>1, <1>2, <1>3

(* What is in reach and not below the lowest start was refused, so it is    *)
(* taken; the first free sector itself has one in use sector_offset before  *)
(* it; below it the search missed nothing.                                  *)
LEMMA StuckLeavesNoneInReach == SpaceInv /\ StuckInv => RoomLeftIsOutOfReach
<1> DEFINE r == Room(t)
           n == Partitions(r) - 1
<1> SUFFICES ASSUME SpaceInv, NoWayOut, NEW s \in Base(r, u, n) .. LimitOf(r, n),
                    HasRoomAt(r, n, s), InReach(r, n, s)
             PROVE  FALSE
  BY DEF RoomLeftIsOutOfReach, StuckInv
<1>1. t \in SoundTables /\ Placed(t) /\ u \in Units /\ t.extended_offset # 0
  BY DEF SpaceInv, TablesInv, Spaced, NoWayOut
<1>2. /\ r \in Tables /\ n \in Nat /\ n >= 4
      /\ LimitOf(r, n) \in Nat /\ Base(r, u, n) \in Nat
      /\ InUse(r, Busy) /\ Base(r, u, n) - u.sector_offset \in Busy
  BY <1>1, SearchedTables
<1>3. \A v \in Asked(r, u, n) : Refused(r, u, n, Answered(r, u, n, v))
  BY DEF NoWayOut, NoAnswer
<1> HIDE DEF r, n
<1>4. FirstFree(r, u, n) \in Nat
  BY <1>1, <1>2, SearchGoesOn
<1>5. LowestStart(r, u, n) \in Nat /\ LowestStart(r, u, n) <= FirstFree(r, u, n) + 1
  BY <1>4 DEF LowestStart
<1>6. s \in Nat /\ Base(r, u, n) <= s /\ s <= LimitOf(r, n)
  BY <1>2
<1>7. CASE s < FirstFree(r, u, n)
  BY <1>1, <1>2, <1>6, <1>7, NoRoomBelow
<1>8. CASE s = FirstFree(r, u, n)
  <2>1. s - u.sector_offset \in Busy
    BY <1>1, <1>2, <1>8, SearchFollowsUse
  <2>2. s - u.sector_offset \in s - u.sector_offset .. s
    BY <1>1, <1>6, GeometryNumbers DEF Units
  <2> QED BY <2>1, <2>2 DEF HasRoomAt, Busy
<1>9. CASE s > FirstFree(r, u, n)
  <2>1. LowestStart(r, u, n) <= s
    BY <1>4, <1>5, <1>6, <1>9
  <2>2. Refused(r, u, n, s)
    BY <1>1, <1>2, <1>3, <1>5, <1>6, <2>1, ReachedIsAnswered
  <2> QED BY <2>2 DEF Refused, HasRoomAt
<1> QED BY <1>4, <1>6, <1>7, <1>8, <1>9

(* No first sector the editor offers skips a free one with room for the     *)
(* table before it: a disk with room is never said to be full.              *)
THEOREM SearchMissesNothing ==
  TidyDisks /\ ProperDisks /\ Spec => []NothingFreeBelow
BY SpaceInit, SpaceInvNext, SpaceGivesRoom, PTL DEF Spec

(* A prompt that asks for ever leaves no room that one of its numbers would *)
(* reach; in sectors, no room at all.                                       *)
THEOREM EndlessPromptLeavesNoneInReach ==
  TidyDisks /\ ProperDisks /\ Spec => []RoomLeftIsOutOfReach
<1>1. Init => StuckInv
  BY DEF Init, StuckInv
<1>2. SpaceInv /\ StuckInv => RoomLeftIsOutOfReach
  BY StuckLeavesNoneInReach
<1> QED BY SpaceInit, SpaceInvNext, StuckStep, <1>1, <1>2, PTL DEF Spec

-----------------------------------------------------------------------------
(* What verify counts.                                                      *)
(* A sum over the subsets of a finite set, one element after another.       *)
Some(s) == CHOOSE x \in s : TRUE

Sums(f, S, w) ==
  \A s \in SUBSET S : f[s] = IF s = {} THEN 0 ELSE w[Some(s)] + f[s \ {Some(s)}]

(* There is one.                                                            *)
LEMMA SumsExist ==
  ASSUME NEW S, IsFiniteSet(S), NEW w \in [S -> Int]
  PROVE  \E f \in [SUBSET S -> Int] : Sums(f, S, w)
<1> DEFINE N == Cardinality(S)
           Obeys(f, s) == f[s] = IF s = {} THEN 0 ELSE w[Some(s)] + f[s \ {Some(s)}]
           Good(n) == \E f \in [SUBSET S -> Int] :
                        \A s \in SUBSET S : Cardinality(s) <= n => Obeys(f, s)
           G == {n \in 0 .. N : Good(n)}
<1>0. N \in Nat
  BY FS_CardinalityType
<1>1. ASSUME NEW s \in SUBSET S
      PROVE  /\ IsFiniteSet(s) /\ Cardinality(s) \in Nat /\ Cardinality(s) <= N
             /\ Cardinality(s) = 0 <=> s = {}
             /\ s # {} => /\ Some(s) \in s
                          /\ s \ {Some(s)} \in SUBSET S
                          /\ Cardinality(s \ {Some(s)}) = Cardinality(s) - 1
  <2>1. IsFiniteSet(s) /\ Cardinality(s) <= N
    BY FS_Subset
  <2>2. Cardinality(s) \in Nat /\ (Cardinality(s) = 0 <=> s = {})
    BY <2>1, FS_CardinalityType, FS_EmptySet
  <2>3. s # {} => Some(s) \in s
    BY DEF Some
  <2> QED BY <2>1, <2>2, <2>3, FS_RemoveElement
<1>2. 0 \in G
  <2> DEFINE f == [s \in SUBSET S |-> 0]
  <2>1. f \in [SUBSET S -> Int]
    OBVIOUS
  <2>2. \A s \in SUBSET S : Cardinality(s) <= 0 => Obeys(f, s)
    <3> TAKE s \in SUBSET S
    <3> HAVE Cardinality(s) <= 0
    <3>1. Cardinality(s) \in Nat /\ (Cardinality(s) = 0 <=> s = {})
      BY <1>1
    <3>2. s = {}
      BY <3>1
    <3> QED BY <3>2
  <2> HIDE DEF f, Obeys
  <2> QED BY <1>0, <2>1, <2>2
<1>3. ASSUME NEW n \in 0 .. N - 1, n \in G PROVE n + 1 \in G
  <2>1. PICK f \in [SUBSET S -> Int] :
          \A s \in SUBSET S : Cardinality(s) <= n => Obeys(f, s)
    BY <1>3
  <2> DEFINE g == [s \in SUBSET S |->
                     IF s = {} THEN 0 ELSE w[Some(s)] + f[s \ {Some(s)}]]
  <2>2. g \in [SUBSET S -> Int]
    <3>1. ASSUME NEW s \in SUBSET S, s # {}
          PROVE  w[Some(s)] + f[s \ {Some(s)}] \in Int
      <4>1. Some(s) \in S /\ s \ {Some(s)} \in SUBSET S
        BY <1>1, <3>1
      <4>2. w[Some(s)] \in Int /\ f[s \ {Some(s)}] \in Int
        BY <2>1, <4>1
      <4> QED BY <4>2
    <3> QED BY <3>1
  <2>3. ASSUME NEW s \in SUBSET S, Cardinality(s) <= n + 1
        PROVE  Obeys(g, s)
    <3>1. CASE s = {}
      BY <3>1
    <3>2. CASE s # {}
      <4> DEFINE r == s \ {Some(s)}
      <4>1. r \in SUBSET S /\ Cardinality(r) <= n
        BY <1>0, <1>1, <1>3, <2>3, <3>2
      <4>2. Obeys(f, r)
        BY <2>1, <4>1
      <4>3. g[r] = f[r]
        <5> HIDE DEF r
        <5> QED BY <4>1, <4>2
      <4>4. g[s] = w[Some(s)] + f[r]
        BY <3>2
      <4> QED BY <3>2, <4>3, <4>4
    <3> QED BY <3>1, <3>2
  <2> HIDE DEF g, Obeys
  <2>4. Good(n + 1)
    BY <2>2, <2>3
  <2> QED BY <1>0, <2>4
<1>4. Good(N)
  <2> HIDE DEF Good
  <2>1. \A n \in 0 .. N - 1 : n \in G => n + 1 \in G
    BY <1>3
  <2> HIDE DEF G
  <2>2. \A n \in 0 .. N : n \in G
    BY <1>0, <1>2, <2>1, Induction
  <2> QED BY <1>0, <2>2 DEF G
<1>5. PICK f \in [SUBSET S -> Int] :
        \A s \in SUBSET S : Cardinality(s) <= N => Obeys(f, s)
  BY <1>4
<1>6. Sums(f, S, w)
  BY <1>1, <1>5 DEF Sums
<1> QED BY <1>6

(* verify adds up the sizes of the partitions in such a sum.                *)
LEMMA SizesAreSummed ==
  ASSUME NEW w, w = [i \in Used |-> LastOf[i] + 1 - First[i]],
         NEW f \in [SUBSET Used -> Int], Sums(f, Used, w)
  PROVE  \E g : /\ Sums(g, Used, w)
                /\ MapThenSumSet(LAMBDA i : LastOf[i] + 1 - First[i], Used) = g[Used]
<1> DEFINE S == Used
           W(i) == LastOf[i] + 1 - First[i]
           sum == CHOOSE g : g = [s \in SUBSET S |->
                    IF s = {} THEN 0
                    ELSE LET x == CHOOSE x \in s : TRUE
                         IN  W(x) + g[s \ {x}]]
<1>3. MapThenSumSet(LAMBDA i : LastOf[i] + 1 - First[i], Used) = sum[S]
  BY DEF MapThenSumSet, MapThenFoldSet
<1>4. \A x \in S : w[x] = W(x)
  OBVIOUS
<1>4a. Sums(f, S, w) /\ f \in [SUBSET S -> Int]
  OBVIOUS
<1> HIDE DEF S, W
<1>5. f = [s \in SUBSET S |->
             IF s = {} THEN 0
             ELSE LET x == CHOOSE x \in s : TRUE
                  IN  W(x) + f[s \ {x}]]
  <2> DEFINE g == [s \in SUBSET S |->
                     IF s = {} THEN 0
                     ELSE LET x == CHOOSE x \in s : TRUE
                          IN  W(x) + f[s \ {x}]]
  <2>1. ASSUME NEW s \in SUBSET S PROVE f[s] = g[s]
    <3>1. s # {} => Some(s) \in S
      BY DEF Some
    <3>2. g[s] = IF s = {} THEN 0 ELSE W(Some(s)) + f[s \ {Some(s)}]
      BY DEF Some
    <3> HIDE DEF g
    <3> QED BY <1>4, <1>4a, <3>1, <3>2 DEF Sums
  <2>2. f = g
    <3>1. g = [s \in SUBSET S |-> g[s]] /\ f = [s \in SUBSET S |-> f[s]]
      BY <1>4a
    <3> HIDE DEF g
    <3> QED BY <2>1, <3>1
  <2> QED BY <2>2
<1>6. sum = [s \in SUBSET S |->
             IF s = {} THEN 0
             ELSE LET x == CHOOSE x \in s : TRUE
                  IN  W(x) + sum[s \ {x}]]
  BY <1>5, Zenon
<1>7. ASSUME NEW s \in SUBSET S
      PROVE  sum[s] = IF s = {} THEN 0 ELSE w[Some(s)] + sum[s \ {Some(s)}]
  <2> HIDE DEF sum
  <2>1. sum[s] = IF s = {} THEN 0 ELSE W(Some(s)) + sum[s \ {Some(s)}]
    BY <1>6 DEF Some
  <2>2. s # {} => Some(s) \in S
    BY DEF Some
  <2> QED BY <1>4, <2>1, <2>2
<1>8. Sums(sum, Used, w)
  <2> HIDE DEF sum
  <2> QED BY <1>7 DEF Sums, S
<1> QED BY <1>3, <1>8 DEF S

(* The sum of the sizes of sets that have nothing in common is the size of  *)
(* their union.                                                             *)
LEMMA SumIsSize ==
  ASSUME NEW S, IsFiniteSet(S), NEW I, NEW w, NEW g, Sums(g, S, w),
         \A i \in S : IsFiniteSet(I[i]) /\ w[i] = Cardinality(I[i]),
         \A i, j \in S : i # j => I[i] \cap I[j] = {}
  PROVE  \A all : (\A x : x \in all <=> \E i \in S : x \in I[i])
                 => IsFiniteSet(all) /\ g[S] = Cardinality(all)
<1> DEFINE N == Cardinality(S)
           All(s) == UNION {I[i] : i \in s}
           Good(s) == IsFiniteSet(All(s)) /\ g[s] = Cardinality(All(s))
           G == {n \in 0 .. N : \A s \in SUBSET S : Cardinality(s) <= n => Good(s)}
<1>0. N \in Nat
  BY FS_CardinalityType
<1>1. ASSUME NEW s \in SUBSET S
      PROVE  Cardinality(s) \in Nat /\ Cardinality(s) <= N /\ (Cardinality(s) = 0 <=> s = {})
  <2>1. IsFiniteSet(s) /\ Cardinality(s) <= N
    BY FS_Subset
  <2> QED BY <2>1, FS_CardinalityType, FS_EmptySet
<1>2. ASSUME NEW s \in SUBSET S, s # {}
      PROVE  /\ Some(s) \in s
             /\ s \ {Some(s)} \in SUBSET S
             /\ Cardinality(s \ {Some(s)}) = Cardinality(s) - 1
  <2>1. Some(s) \in s
    BY <1>2 DEF Some
  <2>2. IsFiniteSet(s)
    BY FS_Subset
  <2> QED BY <2>1, <2>2, FS_RemoveElement
<1>3. Good({})
  <2>1. All({}) = {}
    OBVIOUS
  <2>2. g[{}] = 0
    BY DEF Sums
  <2> QED BY <2>1, <2>2, FS_EmptySet
<1>4. 0 \in G
  <2>1. ASSUME NEW s \in SUBSET S, Cardinality(s) <= 0 PROVE s = {}
    <3>1. Cardinality(s) \in Nat /\ (Cardinality(s) = 0 <=> s = {})
      BY <1>1
    <3> QED BY <2>1, <3>1
  <2> HIDE DEF Good
  <2> QED BY <1>0, <1>3, <2>1
<1>5. ASSUME NEW n \in 0 .. N - 1, n \in G PROVE n + 1 \in G
  <2>1. ASSUME NEW s \in SUBSET S, Cardinality(s) <= n + 1 PROVE Good(s)
    <3>1. CASE s = {}
      <4> HIDE DEF Good
      <4> QED BY <1>3, <3>1
    <3>2. CASE s # {}
      <4> DEFINE x == Some(s)
                 r == s \ {x}
      <4>1. x \in s /\ r \in SUBSET S /\ Cardinality(r) = Cardinality(s) - 1
        BY <1>2, <3>2
      <4>2. Cardinality(s) \in Nat
        BY <1>1
      <4>3. Cardinality(r) <= n
        BY <2>1, <4>1, <4>2
      <4>4. Good(r)
        <5> HIDE DEF Good, r
        <5> QED BY <1>5, <4>1, <4>3
      <4>5. g[s] = w[x] + g[r]
        BY <3>2 DEF Sums
      <4> HIDE DEF x
      <4>6. All(s) = I[x] \cup All(r) /\ I[x] \cap All(r) = {}
        BY <4>1
      <4>7. IsFiniteSet(I[x]) /\ w[x] = Cardinality(I[x])
        BY <4>1
      <4> HIDE DEF All, r
      <4>8. /\ IsFiniteSet(All(s))
            /\ Cardinality(All(s)) = Cardinality(I[x]) + Cardinality(All(r)) - Cardinality({})
        BY <4>4, <4>6, <4>7, FS_Union
      <4>9. Cardinality({}) = 0
        BY FS_EmptySet
      <4>10. Cardinality(I[x]) \in Nat /\ Cardinality(All(r)) \in Nat
        BY <4>4, <4>7, FS_CardinalityType
      <4> QED BY <4>4, <4>5, <4>7, <4>8, <4>9, <4>10
    <3> QED BY <3>1, <3>2
  <2> HIDE DEF Good
  <2> QED BY <1>0, <2>1
<1>6. Good(S)
  <2> HIDE DEF Good
  <2>1. \A n \in 0 .. N - 1 : n \in G => n + 1 \in G
    BY <1>5
  <2> HIDE DEF G
  <2>2. \A n \in 0 .. N : n \in G
    BY <1>0, <1>4, <2>1, Induction
  <2>3. N \in G
    BY <1>0, <2>2
  <2> QED BY <1>0, <2>3 DEF G
<1>7. ASSUME NEW all, \A x : x \in all <=> \E i \in S : x \in I[i]
      PROVE  all = All(S)
  BY <1>7
<1> QED BY <1>6, <1>7

-----------------------------------------------------------------------------
(* A disk none of whose partitions reaches behind its end or over its first *)
(* sector.                                                                  *)
WholeDisks ==
  \A d \in Disks : CanRead(d) => Occupied(ReadTables(d)) \subseteq 1 .. Total - 1

FitInv == SpaceInv /\ Occupied(t) \subseteq 1 .. Total - 1

(* No command makes a partition that does not end on the disk.              *)
LEMMA FitNext == FitInv /\ [Next]_vars => FitInv'
<1> SUFFICES ASSUME FitInv, [Next]_vars PROVE FitInv'
  OBVIOUS
<1>1. SpaceInv' /\ Step(t, t')
  BY SpaceInvNext, SpaceStep DEF FitInv
<1>2. \A p \in Parts(t) : p.first .. p.last \subseteq 1 .. Total - 1
  BY DEF FitInv, Occupied
<1>3. \A p \in Parts(t') : p.first .. p.last \subseteq 1 .. Total - 1
  <2>1. CASE Creates(t, t')
    <3>1. PICK p \in Parts(t') : /\ Parts(t') = Parts(t) \cup {p}
                                 /\ p.first .. p.last \subseteq (1 .. Total - 1) \ Occupied(t)
      BY <2>1 DEF Creates
    <3> QED BY <1>2, <3>1
  <2>2. CASE CreatesBox(t, t') \/ Stays(t, t')
    BY <1>2, <2>2 DEF CreatesBox, Stays
  <2>3. CASE Removes(t, t') \/ RemovesBox(t, t')
    BY <1>2, <2>3 DEF Removes, RemovesBox
  <2>4. CASE Changes(t, t')
    BY <1>2, <2>4 DEF Changes
  <2> QED BY <1>1, <2>1, <2>2, <2>3, <2>4 DEF Step
<1> QED BY <1>1, <1>3 DEF FitInv, Occupied

(* The size of an interval that is not empty.                               *)
LEMMA IntervalSize ==
  ASSUME NEW a \in Int, NEW b \in Int, a <= b
  PROVE  IsFiniteSet(a .. b) /\ Cardinality(a .. b) = b + 1 - a
<1>1. ~ (a > b)
  OBVIOUS
<1>2. b - a + 1 = b + 1 - a
  OBVIOUS
<1> QED BY <1>1, <1>2, FS_Interval

(* What verify compares and adds up are the sectors of the partitions.      *)
LEMMA UsedSectors ==
  ASSUME t \in SoundTables, Spaced(t), NEW i \in Used
  PROVE  /\ First[i] = Part(t, i).first /\ LastOf[i] = Part(t, i).last
         /\ First[i] \in Nat /\ LastOf[i] \in Int /\ First[i] <= LastOf[i]
<1>1. t \in Tables /\ i \in DataOf(t) /\ i \in Numbers(t) /\ IsData(PartEntry(t, i))
  BY SoundFields DEF Used, DataOf
<1>2. /\ Part(t, i).first = PartEntry(t, i).begin /\ Part(t, i).last = LastSector(t, i)
      /\ Part(t, i).first \in Nat /\ Part(t, i).last \in Int /\ Part(t, i).start \in Nat
  BY <1>1, PartFields
<1>3. Part(t, i).first <= Part(t, i).last
  BY <1>1, <1>2 DEF Spaced, Placed
<1>4. First[i] = PartEntry(t, i).begin
  BY <1>1 DEF First, Firsts, Sectors, Round
<1>5. LastOf[i] = LastSector(t, i)
  BY <1>1 DEF LastOf, Lasts
<1> QED BY <1>2, <1>3, <1>4, <1>5

(* verify finds nothing to warn of.                                         *)
LEMMA NoOverlaps ==
  ASSUME t \in SoundTables, Spaced(t)
  PROVE  /\ Overlaps = {}
         /\ \A i, j \in Used : i # j => (First[i] .. LastOf[i]) \cap (First[j] .. LastOf[j]) = {}
<1>1. ASSUME NEW i \in Used, NEW j \in Used, i # j
      PROVE  LastOf[i] < First[j] \/ LastOf[j] < First[i]
  <2>1. i \in DataOf(t) /\ j \in DataOf(t)
    BY DEF Used, DataOf
  <2>2. Part(t, i).last < Part(t, j).first \/ Part(t, j).last < Part(t, i).first
    BY <1>1, <2>1 DEF Spaced, Apart
  <2> QED BY <2>2, UsedSectors
<1>2. ASSUME NEW i \in Used, NEW j \in Used, i # j
      PROVE  /\ ~ Overlap(i, j)
             /\ (First[i] .. LastOf[i]) \cap (First[j] .. LastOf[j]) = {}
  <2>1. LastOf[i] < First[j] \/ LastOf[j] < First[i]
    BY <1>1, <1>2
  <2>2. /\ First[i] \in Nat /\ LastOf[i] \in Int /\ First[i] <= LastOf[i]
        /\ First[j] \in Nat /\ LastOf[j] \in Int /\ First[j] <= LastOf[j]
    BY UsedSectors
  <2> QED BY <2>1, <2>2 DEF Overlap
<1>3. Overlaps = {}
  <2>1. Used \subseteq Nat
    <3>1. t \in Tables
      BY SoundFields
    <3> QED BY <3>1, AccessIsTyped DEF Used
  <2>2. ASSUME NEW p \in Overlaps PROVE FALSE
    <3>1. PICK i \in Used, j \in Used : i < j /\ Overlap(i, j)
      BY DEF Overlaps
    <3>2. i # j
      BY <2>1, <3>1
    <3> QED BY <1>2, <3>1, <3>2
  <2> QED BY <2>2
<1> QED BY <1>2, <1>3

(* An empty sum, of whatever.                                               *)
LEMMA NothingToSum ==
  MapThenSumSet(LAMBDA p : Later(First[p[1]], First[p[2]])
                           - Min({LastOf[p[1]], LastOf[p[2]]}), {}) = 0
<1> DEFINE W(p) == Later(First[p[1]], First[p[2]]) - Min({LastOf[p[1]], LastOf[p[2]]})
           sum == CHOOSE g : g = [s \in SUBSET {} |->
                    IF s = {} THEN 0
                    ELSE LET x == CHOOSE x \in s : TRUE
                         IN  W(x) + g[s \ {x}]]
           zero == [s \in SUBSET {} |-> 0]
<1>1. MapThenSumSet(LAMBDA p : Later(First[p[1]], First[p[2]])
                           - Min({LastOf[p[1]], LastOf[p[2]]}), {}) = sum[{}]
  BY DEF MapThenSumSet, MapThenFoldSet
<1> HIDE DEF W
<1>2. zero = [s \in SUBSET {} |->
                    IF s = {} THEN 0
                    ELSE LET x == CHOOSE x \in s : TRUE
                         IN  W(x) + zero[s \ {x}]]
  OBVIOUS
<1> HIDE DEF zero
<1>3. sum = [s \in SUBSET {} |->
                    IF s = {} THEN 0
                    ELSE LET x == CHOOSE x \in s : TRUE
                         IN  W(x) + sum[s \ {x}]]
  BY <1>2, Zenon
<1> HIDE DEF sum
<1>4. sum[{}] = 0
  BY <1>3
<1> QED BY <1>1, <1>4

(* What verify reports as unallocated.                                      *)
LEMMA FitGivesCount == FitInv => VerifyCountsFreeSectors
<1> SUFFICES ASSUME FitInv, TablesApart
             PROVE  Unallocated = Cardinality((0 .. Total - 1) \ (TableSectors \cup DataSectors))
  BY DEF VerifyCountsFreeSectors
<1> DEFINE w == [i \in Used |-> LastOf[i] + 1 - First[i]]
           I == [i \in Used |-> First[i] .. LastOf[i]]
<1>1. t \in SoundTables /\ t \in Tables /\ Spaced(t)
  BY SoundFields DEF FitInv, SpaceInv, TablesInv
<1>2. IsFiniteSet(Used)
  <2>1. Used \subseteq 0 .. Partitions(t) - 1 /\ Partitions(t) \in Nat
    BY <1>1, TablesCount DEF Used
  <2>2. IsFiniteSet(0 .. Partitions(t) - 1)
    BY <2>1, FS_Interval
  <2> QED BY <2>1, <2>2, FS_Subset
<1>3. w \in [Used -> Int]
  BY <1>1, UsedSectors
<1>4. \A i \in Used : IsFiniteSet(I[i]) /\ w[i] = Cardinality(I[i])
  <2> TAKE i \in Used
  <2>1. First[i] \in Nat /\ LastOf[i] \in Int /\ First[i] <= LastOf[i]
    BY <1>1, UsedSectors
  <2>2. I[i] = First[i] .. LastOf[i] /\ w[i] = LastOf[i] + 1 - First[i]
    OBVIOUS
  <2>3. /\ IsFiniteSet(First[i] .. LastOf[i])
        /\ Cardinality(First[i] .. LastOf[i]) = LastOf[i] + 1 - First[i]
    <3> DEFINE a == First[i]
               b == LastOf[i]
    <3>1. a \in Int /\ b \in Int /\ a <= b
      BY <2>1
    <3> HIDE DEF a, b
    <3>2. IsFiniteSet(a .. b) /\ Cardinality(a .. b) = b + 1 - a
      BY <3>1, IntervalSize
    <3> QED BY <3>2 DEF a, b
  <2> QED BY <2>2, <2>3
<1>5. \A i, j \in Used : i # j => I[i] \cap I[j] = {}
  BY <1>1, NoOverlaps
<1>6. PICK f \in [SUBSET Used -> Int] : Sums(f, Used, w)
  <2> HIDE DEF w
  <2> QED BY <1>2, <1>3, SumsExist
<1>7. PICK g : /\ Sums(g, Used, w)
               /\ MapThenSumSet(LAMBDA i : LastOf[i] + 1 - First[i], Used) = g[Used]
  BY <1>6, SizesAreSummed
<1>8. IsFiniteSet(DataSectors) /\ g[Used] = Cardinality(DataSectors)
  <2>1. DataSectors = UNION {I[i] : i \in Used}
    BY DEF DataSectors
  <2> HIDE DEF I, w
  <2>2. \A x : x \in DataSectors <=> \E i \in Used : x \in I[i]
    BY <2>1
  <2> DEFINE all == DataSectors
             S   == Used
  <2>3. /\ IsFiniteSet(S) /\ Sums(g, S, w)
        /\ \A i \in S : IsFiniteSet(I[i]) /\ w[i] = Cardinality(I[i])
        /\ \A i, j \in S : i # j => I[i] \cap I[j] = {}
    BY <1>2, <1>4, <1>5, <1>7
  <2> HIDE DEF all, S
  <2>4. \A x : x \in all <=> \E i \in S : x \in I[i]
    BY <2>2 DEF all, S
  <2>5. IsFiniteSet(all) /\ g[S] = Cardinality(all)
    BY <2>3, <2>4, SumIsSize
  <2> QED BY <2>5 DEF all, S
<1>9. Unallocated = Total - (1 + Cardinality(DataSectors) + 0 + Len(t.logical))
  <2>1. Overlaps = {}
    BY <1>1, NoOverlaps
  <2>2. (IF t.extended_offset # 0 THEN Len(t.logical) ELSE 0) = Len(t.logical)
    BY <1>1, SoundFields
  <2> HIDE DEF w
  <2> QED BY <1>7, <1>8, <2>1, <2>2, NothingToSum DEF Unallocated
<1>10. /\ TableSectors \subseteq 0 .. Total - 1
       /\ Cardinality(TableSectors) = 1 + Len(t.logical) /\ Len(t.logical) \in Nat
  <2>1. ASSUME NEW i \in Numbers(t) PROVE Offset(t, i) \in 0 .. Total - 1
    <3>1. CASE i < 4
      BY <3>1, TotalIsPositive DEF Offset
    <3>2. CASE ~ (i < 4)
      <4>1. i - 3 \in 1 .. Len(t.logical) /\ Offset(t, i) = t.logical[i - 3].offset
        BY <1>1, <3>2, PartEntryFacts
      <4>2. t.logical[i - 3] \in SoundTable
        BY <1>1, <4>1, SoundFields
      <4> QED BY <4>1, <4>2, TableFields, TotalIsPositive
    <3> QED BY <3>1, <3>2
  <2>2. Cardinality(TableSectors) = Partitions(t) - 3
    BY DEF TablesApart, OwnSectors
  <2>3. Partitions(t) = 4 + Len(t.logical) /\ Len(t.logical) \in Nat
    BY <1>1, TablesCount
  <2> QED BY <2>1, <2>2, <2>3 DEF TableSectors
<1>11. DataSectors \subseteq 0 .. Total - 1
  <2>1. ASSUME NEW i \in Used PROVE First[i] .. LastOf[i] \subseteq 0 .. Total - 1
    <3>1. Part(t, i) \in Parts(t)
      BY DEF Parts, Used
    <3>2. Part(t, i).first .. Part(t, i).last \subseteq 1 .. Total - 1
      BY <3>1 DEF FitInv, Occupied
    <3> QED BY <1>1, <3>2, UsedSectors, TotalIsPositive
  <2> QED BY <2>1 DEF DataSectors
<1>12. IsFiniteSet(0 .. Total - 1) /\ Cardinality(0 .. Total - 1) = Total /\ Total \in Nat
  BY TotalIsPositive, FS_Interval
<1>13. TableSectors \cap DataSectors = {}
  BY DEF TablesApart
<1> DEFINE busy == TableSectors \cup DataSectors
<1>14. Cardinality(busy) = 1 + Len(t.logical) + Cardinality(DataSectors)
  <2>1. IsFiniteSet(TableSectors)
    BY <1>10, <1>12, FS_Subset
  <2>2. Cardinality(busy) = Cardinality(TableSectors) + Cardinality(DataSectors) - Cardinality({})
    BY <1>8, <1>13, <2>1, FS_Union
  <2>3. Cardinality({}) = 0 /\ Cardinality(DataSectors) \in Nat
    BY <1>8, FS_EmptySet, FS_CardinalityType
  <2> QED BY <1>10, <2>2, <2>3
<1>15. Cardinality((0 .. Total - 1) \ busy) = Total - Cardinality(busy)
  <2> DEFINE whole == 0 .. Total - 1
  <2>1. whole \cap busy = busy /\ IsFiniteSet(whole) /\ Cardinality(whole) = Total
    BY <1>10, <1>11, <1>12
  <2> HIDE DEF busy, whole
  <2>2. Cardinality(whole \ busy) = Cardinality(whole) - Cardinality(whole \cap busy)
    BY <2>1, FS_Difference
  <2>3. Cardinality(whole \ busy) = Total - Cardinality(busy)
    BY <2>1, <2>2
  <2> QED BY <2>3 DEF whole
<1>16. Cardinality(DataSectors) \in Nat
  BY <1>8, FS_CardinalityType
<1> HIDE DEF busy
<1>17. Unallocated = Cardinality((0 .. Total - 1) \ busy)
  BY <1>9, <1>10, <1>12, <1>14, <1>15, <1>16
<1> QED BY <1>17 DEF busy

(* What v reports as unallocated is what no partition and no table occupies, *)
(* as long as every table has a sector of its own outside the partitions.   *)
THEOREM VerifyCountsRight ==
  TidyDisks /\ ProperDisks /\ WholeDisks /\ Spec => []VerifyCountsFreeSectors
<1>1. WholeDisks /\ SpaceInv /\ Init => FitInv
  BY DEF WholeDisks, FitInv, Init
<1> QED BY SpaceInit, <1>1, FitNext, FitGivesCount, PTL DEF Spec

-----------------------------------------------------------------------------
(* What is found on a disk that is being written.                           *)

\* What the partition of a logical table, or a primary one, occupies.
TableExtent(l) ==
  [first |-> PartOf(l).begin, last |-> PartOf(l).start + l.offset + PartOf(l).size - 1,
   inside |-> TRUE]

PrimaryExtent(e) ==
  [first |-> e.begin, last |-> e.start + 0 + e.size - 1, inside |-> FALSE]

(* The extents are those of the primary and of the logical partitions.      *)
LEMMA ExtentElements ==
  ASSUME NEW x, Len(x.logical) \in Nat, NEW p
  PROVE  p \in Extents(x) <=>
           \/ \E i \in 0..3 : IsData(x.primary[i]) /\ p = PrimaryExtent(x.primary[i])
           \/ \E k \in 1 .. Len(x.logical) :
                IsData(PartOf(x.logical[k])) /\ p = TableExtent(x.logical[k])
<1> DEFINE m == Len(x.logical)
           E(i) == [first |-> PartEntry(x, i).begin, last |-> LastSector(x, i),
                    inside |-> i > 3]
<1>1. Numbers(x) = 0 .. m + 3
  BY DEF Numbers, Partitions
<1>2. ASSUME NEW i \in 0..3
      PROVE  PartEntry(x, i) = x.primary[i] /\ E(i) = PrimaryExtent(x.primary[i])
  <2>1. PartEntry(x, i) = x.primary[i] /\ Offset(x, i) = 0
    BY DEF PartEntry, Offset
  <2>2. (i > 3) = FALSE
    OBVIOUS
  <2> QED BY <2>1, <2>2 DEF LastSector, PrimaryExtent
<1>3. ASSUME NEW k \in 1 .. m
      PROVE  /\ PartEntry(x, k + 3) = PartOf(x.logical[k])
             /\ E(k + 3) = TableExtent(x.logical[k])
  <2>1. ~ (k + 3 < 4) /\ (k + 3) - 3 = k /\ (k + 3 > 3) = TRUE
    OBVIOUS
  <2>2. PartEntry(x, k + 3) = PartOf(x.logical[k]) /\ Offset(x, k + 3) = x.logical[k].offset
    BY <2>1 DEF PartEntry, Offset, PartOf
  <2> QED BY <2>1, <2>2 DEF LastSector, TableExtent
<1>4. p \in Extents(x) <=> \E i \in Numbers(x) : IsData(PartEntry(x, i)) /\ p = E(i)
  BY DEF Extents
<1> HIDE DEF E
<1>5. \A i \in Numbers(x) : i \in 0..3 \/ \E k \in 1 .. m : i = k + 3
  <2> SUFFICES ASSUME NEW i \in Numbers(x), i \notin 0..3 PROVE \E k \in 1 .. m : i = k + 3
    OBVIOUS
  <2>1. i - 3 \in 1 .. m /\ i = (i - 3) + 3
    BY <1>1
  <2> QED BY <2>1
<1>6. \A i \in 0..3 : i \in Numbers(x)
  BY <1>1
<1>7. \A k \in 1 .. m : k + 3 \in Numbers(x)
  BY <1>1
<1>8. ASSUME p \in Extents(x)
      PROVE  \/ \E i \in 0..3 : IsData(x.primary[i]) /\ p = PrimaryExtent(x.primary[i])
             \/ \E k \in 1 .. m :
                  IsData(PartOf(x.logical[k])) /\ p = TableExtent(x.logical[k])
  <2>1. PICK i \in Numbers(x) : IsData(PartEntry(x, i)) /\ p = E(i)
    BY <1>4, <1>8
  <2>2. CASE i \in 0..3
    BY <1>2, <2>1, <2>2
  <2>3. ASSUME NEW k \in 1 .. m, i = k + 3
        PROVE  IsData(PartOf(x.logical[k])) /\ p = TableExtent(x.logical[k])
    BY <1>3, <2>1, <2>3
  <2> QED BY <1>5, <2>2, <2>3
<1>9. ASSUME NEW i \in 0..3, IsData(x.primary[i]), p = PrimaryExtent(x.primary[i])
      PROVE  p \in Extents(x)
  BY <1>2, <1>4, <1>6, <1>9
<1>10. ASSUME NEW k \in 1 .. m, IsData(PartOf(x.logical[k])), p = TableExtent(x.logical[k])
       PROVE  p \in Extents(x)
  <2>1. k + 3 \in Numbers(x) /\ IsData(PartEntry(x, k + 3)) /\ p = E(k + 3)
    BY <1>3, <1>7, <1>10
  <2> QED BY <1>4, <2>1
<1> QED BY <1>8, <1>9, <1>10

(* The only extended primary that leads anywhere is the one that counts.    *)
LEMMA ExtIndexIsBox ==
  ASSUME NEW primary, NEW c \in 0..3,
         primary[c].type = EXTENDED, primary[c].start # 0,
         \A i \in 0..3 : primary[i].type = EXTENDED /\ primary[i].start # 0 => i = c
  PROVE  ExtIndex(primary) = c
<1> DEFINE boxes == {i \in 0..3 : primary[i].type = EXTENDED}
           good  == {i \in boxes : primary[i].start # 0}
<1>1. c \in good /\ \A i \in good : i = c
  OBVIOUS
<1>2. ExtIndex(primary) = IF good # {} THEN Min(good) ELSE IF boxes # {} THEN Max(boxes) ELSE 0
  BY DEF ExtIndex
<1>3. good \in SUBSET Nat
  OBVIOUS
<1> HIDE DEF good, boxes
<1>4. Min(good) \in good
  BY <1>1, <1>3, LeastElement
<1> QED BY <1>1, <1>2, <1>4

(* The slots of a table that has one partition are found again.             *)
LEMMA SlotsAreRead ==
  ASSUME NEW w \in [0..3 -> Entry], OneEach(w)
  PROVE  /\ \A p \in 0..3 : IsData(w[p]) => PartSlot(w) = p
         /\ \A x \in 0..3 : /\ w[x].type = EXTENDED
                            /\ \A j \in 0..3 : j < x => w[j].type # EXTENDED
                            => ExtSlot(w) = x
<1>1. /\ ExtSlot(w) \in 0..3
      /\ \A j \in 0..3 : j < ExtSlot(w) => w[j].type # EXTENDED
      /\ \A j \in 0..3 : IsData(w[j]) => j = PartSlot(w)
      /\ \A j \in 0..3 : w[j].type = EXTENDED => w[ExtSlot(w)].type = EXTENDED
  BY SlotsAreFound
<1>2. ASSUME NEW x \in 0..3, w[x].type = EXTENDED,
             \A j \in 0..3 : j < x => w[j].type # EXTENDED
      PROVE  ExtSlot(w) = x
  <2>1. ~ (x < ExtSlot(w)) /\ ~ (ExtSlot(w) < x)
    BY <1>1, <1>2
  <2> QED BY <1>1, <2>1
<1> QED BY <1>1, <1>2

(* The sectors q lead from the extended primary e on, each to the next.     *)
Leads(m, e, n, q) ==
  /\ q \in [1 .. n -> 1 .. Total - 1]
  /\ q[1] = e.start
  /\ \A i \in 1 .. n - 1 :
       LET l == LastLink(Logical(m[q[i]], q[i]))
       IN  l.type = EXTENDED /\ e.start + l.start = q[i + 1]

(* read_extended reads such a path to its end, if there is room for it.     *)
LEMMA PathIsRead ==
  ASSUME NEW m, Tidy(m), NEW e \in Entry, e.type = EXTENDED, e.start # 0,
         NEW n \in 1 .. MaxLogical, NEW q, Leads(m, e, n, q)
  PROVE  LET s == Chain(m, e)
         IN  n <= Len(s) /\ s[n] = Logical(m[q[n]], q[n])
<1> DEFINE s == Chain(m, e)
           b == e.start
           S == {i \in 0 .. n - 1 : i + 1 <= Len(s) /\ s[i + 1].offset = q[i + 1]}
<1>1. /\ Chained(s, b) /\ FromDisk(m, s) /\ Len(s) <= MaxLogical
      /\ Len(s) = MaxLogical \/ Ended(m, e, s)
  BY ChainIsRead
<1>2. n \in Nat /\ n >= 1 /\ MaxLogical \in Nat /\ n <= MaxLogical
  BY GeometryNumbers
<1>3. /\ q \in [1 .. n -> 1 .. Total - 1] /\ q[1] = b
      /\ \A i \in 1 .. n - 1 :
           LET l == LastLink(Logical(m[q[i]], q[i]))
           IN  l.type = EXTENDED /\ b + l.start = q[i + 1]
  BY DEF Leads
<1>4. DOMAIN m = 0 .. Total - 1 /\ Total \in Nat
  BY TotalIsPositive DEF Tidy
<1>5. \A i \in 1 .. n : q[i] \in DOMAIN m
  BY <1>3, <1>4
<1>6. /\ s \in Seq(SoundTable) /\ Len(s) \in Nat
      /\ s = << >> <=> Len(s) = 0
      /\ s # << >> => s[1].offset = b
      /\ \A k \in 1 .. Len(s) - 1 :
           LastLink(s[k]).type = EXTENDED /\ b + LastLink(s[k]).start = s[k + 1].offset
  BY <1>1, ChainElements DEF Chained
<1>7. \A k \in 1 .. Len(s) : s[k] = Logical(m[s[k].offset], s[k].offset)
  BY <1>1 DEF FromDisk
<1> HIDE DEF s
<1>8. 0 \in S
  <2>1. s # << >>
    <3>1. ASSUME s = << >> PROVE FALSE
      <4>1. ~ Ended(m, e, s)
        <5>1. 1 \in 1 .. n
          BY <1>2
        <5>2. b \in DOMAIN m
          BY <1>3, <1>5, <5>1
        <5> QED BY <3>1, <5>2 DEF Ended, Successor
      <4> QED BY <1>1, <1>2, <1>6, <3>1, <4>1
    <3> QED BY <3>1
  <2> QED BY <1>2, <1>3, <1>6, <2>1
<1>9. ASSUME NEW k \in 0 .. (n - 1) - 1, k \in S PROVE k + 1 \in S
  <2> DEFINE i == k + 1
             l == LastLink(Logical(m[q[i]], q[i]))
  <2>1. /\ i \in 1 .. n - 1 /\ i \in 1 .. n /\ i + 1 \in 1 .. n /\ i \in 0 .. n - 1
        /\ i <= Len(s) /\ s[i].offset = q[i] /\ i \in 1 .. Len(s)
    BY <1>2, <1>6, <1>9
  <2>2. l.type = EXTENDED /\ b + l.start = q[i + 1]
    BY <1>3, <2>1
  <2>3. LastLink(s[i]) = l
    BY <1>7, <2>1
  <2>4. q[i + 1] \in DOMAIN m
    BY <1>5, <2>1
  <2> HIDE DEF l, i
  <2>5. i < Len(s)
    <3>1. ASSUME i = Len(s) PROVE FALSE
      <4>1. s # << >>
        BY <1>6, <2>1
      <4>2. Last(s) = s[i]
        BY <3>1, LastIsLast
      <4>3. ~ Ended(m, e, s)
        BY <2>2, <2>3, <2>4, <4>1, <4>2 DEF Ended, Successor
      <4> QED BY <1>1, <1>2, <2>1, <3>1, <4>3
    <3> QED BY <1>6, <2>1, <3>1
  <2>6. s[i + 1].offset = q[i + 1]
    <3>1. i \in 1 .. Len(s) - 1
      BY <1>6, <2>1, <2>5
    <3> QED BY <1>6, <2>2, <2>3, <3>1
  <2>7. i + 1 <= Len(s)
    BY <1>6, <2>1, <2>5
  <2> QED BY <2>1, <2>6, <2>7 DEF i
<1>10. n - 1 \in S
  <2> HIDE DEF S
  <2>1. n - 1 \in Nat
    BY <1>2
  <2>2. \A k \in 0 .. (n - 1) - 1 : k \in S => k + 1 \in S
    BY <1>9
  <2>3. \A k \in 0 .. n - 1 : k \in S
    BY <1>8, <2>1, <2>2, Induction
  <2> QED BY <2>1, <2>3
<1>11. n <= Len(s) /\ s[n].offset = q[n]
  <2>1. (n - 1) + 1 = n
    BY <1>2
  <2> QED BY <1>10, <2>1
<1>12. n \in 1 .. Len(s)
  BY <1>2, <1>6, <1>11
<1> QED BY <1>7, <1>11, <1>12 DEF s

(* read_extended leaves the partitions of a chain as they are.              *)
LEMMA CutKeepsParts ==
  ASSUME NEW b, NEW s, Chained(s, b), s # << >>
  PROVE  /\ Len(Cut(s)) = Len(s)
         /\ \A k \in 1 .. Len(s) : /\ PartOf(Cut(s)[k]) = PartOf(s[k])
                                  /\ Cut(s)[k].offset = s[k].offset
<1> DEFINE n == Len(s)
           l == s[n]
           c == [l EXCEPT !.slots[l.ext] = NoEntry, !.changed = TRUE]
<1>1. /\ s \in Seq(SoundTable) /\ n \in Nat /\ n \in 1 .. n
      /\ l \in SoundTable
  BY ChainElements
<1>2. CASE n = MaxLogical /\ LastLink(Last(s)).type = EXTENDED
  <2>1. Cut(s) = [s EXCEPT ![n] = c]
    BY <1>2, CutIsLast, ZenonT(60)
  <2>2. c \in SoundTable /\ c.offset = l.offset /\ PartOf(c) = PartOf(l)
    <3> HIDE DEF l
    <3> QED BY <1>1, NoEntryIsEntry, ChangedTable
  <2> HIDE DEF c
  <2>3. Len(Cut(s)) = n /\ \A k \in 1 .. n : Cut(s)[k] = IF k = n THEN c ELSE s[k]
    BY <1>1, <2>1, <2>2, ChainReplaced
  <2> QED BY <2>2, <2>3
<1>3. CASE ~ (n = MaxLogical /\ LastLink(Last(s)).type = EXTENDED)
  BY <1>3 DEF Cut
<1> QED BY <1>2, <1>3

\* The extended primary of a disk.
BoxOf(m) == m[0].slots[ExtIndex(m[0].slots)]

HasBox(m) == BoxOf(m).type = EXTENDED /\ BoxOf(m).start # 0

(* What is read is the chain of the extended primary, if there is one.      *)
LEMMA ReadChain ==
  ASSUME NEW m, Tidy(m)
  PROVE  LET o == ReadTables(m)
             s == Chain(m, BoxOf(m))
         IN  /\ m[0].slots \in [0..3 -> Entry] /\ BoxOf(m) \in Entry
             /\ o.primary = m[0].slots
             /\ Len(o.logical) \in Nat /\ Len(o.logical) <= MaxLogical
             /\ ~ HasBox(m) => Len(o.logical) = 0
             /\ HasBox(m) =>
                  /\ o.extended_offset = BoxOf(m).start
                  /\ Chained(s, BoxOf(m).start) /\ FromDisk(m, s)
                  /\ Len(o.logical) = Len(s)
                  /\ \A k \in 1 .. Len(s) : /\ PartOf(o.logical[k]) = PartOf(s[k])
                                           /\ o.logical[k].offset = s[k].offset
<1> DEFINE o == ReadTables(m)
           e == BoxOf(m)
           s == Chain(m, e)
<1>1. m[0].slots \in [0..3 -> Entry]
  <2>1. m \in [0 .. Total - 1 -> [slots : [0..3 -> Entry], flag : BOOLEAN]]
    BY DEF Tidy
  <2>2. 0 \in 0 .. Total - 1
    BY TotalIsPositive
  <2> QED BY <2>1, <2>2
<1>2. e \in Entry
  <2>1. ExtIndex(m[0].slots) \in 0..3
    BY <1>1, ExtIndexInRange
  <2> QED BY <1>1, <2>1 DEF BoxOf
<1>3. /\ o.primary = m[0].slots
      /\ o.extended_offset = (IF HasBox(m) THEN e.start ELSE 0)
      /\ o.logical = (IF HasBox(m) THEN IF s = << >> THEN s ELSE Cut(s) ELSE << >>)
  <2> DEFINE c == IF HasBox(m) THEN Chain(m, BoxOf(m)) ELSE << >>
  <2>1. /\ o.primary = m[0].slots
        /\ o.extended_offset = (IF HasBox(m) THEN e.start ELSE 0)
        /\ o.logical = (IF c = << >> THEN c ELSE Cut(c))
    BY DEF ReadTables, HasBox, BoxOf
  <2> QED BY <2>1
<1> HIDE DEF o
<1>4. Len(<< >>) = 0 /\ MaxLogical \in Nat
  BY GeometryNumbers
<1>5. CASE ~ HasBox(m)
  <2>1. Len(o.logical) = 0
    BY <1>3, <1>4, <1>5
  <2> QED BY <1>1, <1>2, <1>3, <1>4, <1>5, <2>1 DEF o
<1>6. CASE HasBox(m)
  <2>1. Chained(s, e.start) /\ FromDisk(m, s) /\ Len(s) <= MaxLogical
    BY <1>2, <1>6, ChainIsRead DEF HasBox
  <2>2. Len(s) \in Nat /\ o.extended_offset = e.start
    BY <1>3, <1>6, <2>1, ChainElements
  <2>3. /\ Len(o.logical) = Len(s)
        /\ \A k \in 1 .. Len(s) : /\ PartOf(o.logical[k]) = PartOf(s[k])
                                 /\ o.logical[k].offset = s[k].offset
    <3> HIDE DEF s
    <3>1. CASE s = << >>
      BY <1>3, <1>4, <1>6, <3>1
    <3>2. CASE s # << >>
      <4>1. o.logical = Cut(s)
        BY <1>3, <1>6, <3>2
      <4> QED BY <2>1, <3>2, <4>1, CutKeepsParts
    <3> QED BY <3>1, <3>2
  <2> QED BY <1>1, <1>2, <1>3, <1>6, <2>1, <2>2, <2>3 DEF o
<1> QED BY <1>5, <1>6

(* A partition at the end of a path is found.                               *)
LEMMA FoundOnPath ==
  ASSUME NEW m, Tidy(m), HasBox(m),
         NEW n \in 1 .. MaxLogical, NEW q, Leads(m, BoxOf(m), n, q),
         IsData(PartOf(Logical(m[q[n]], q[n])))
  PROVE  TableExtent(Logical(m[q[n]], q[n])) \in Extents(ReadTables(m))
<1> DEFINE o == ReadTables(m)
           e == BoxOf(m)
           s == Chain(m, e)
           l == Logical(m[q[n]], q[n])
<1>1. /\ e \in Entry /\ Len(o.logical) \in Nat /\ Len(o.logical) = Len(s)
      /\ \A k \in 1 .. Len(s) : /\ PartOf(o.logical[k]) = PartOf(s[k])
                               /\ o.logical[k].offset = s[k].offset
  BY ReadChain
<1>2. n <= Len(s) /\ s[n] = l
  BY <1>1, PathIsRead DEF HasBox
<1> HIDE DEF s, l
<1>3. n \in 1 .. Len(o.logical) /\ PartOf(o.logical[n]) = PartOf(l)
      /\ o.logical[n].offset = l.offset
  <2>1. n \in Nat /\ n >= 1
    BY GeometryNumbers
  <2> QED BY <1>1, <1>2, <2>1
<1>4. TableExtent(o.logical[n]) = TableExtent(l) /\ IsData(PartOf(o.logical[n]))
  BY <1>3 DEF TableExtent, l
<1> HIDE DEF o
<1>5. \E k \in 1 .. Len(o.logical) :
        IsData(PartOf(o.logical[k])) /\ TableExtent(l) = TableExtent(o.logical[k])
  BY <1>3, <1>4
<1>6. TableExtent(l) \in Extents(o)
  BY <1>1, <1>5, ExtentElements
<1> QED BY <1>6 DEF o, l

(* And so is a primary partition.                                           *)
LEMMA PrimaryFound ==
  ASSUME NEW m, Tidy(m), NEW i \in 0..3, IsData(m[0].slots[i])
  PROVE  PrimaryExtent(m[0].slots[i]) \in Extents(ReadTables(m))
<1> DEFINE o == ReadTables(m)
<1>1. o.primary = m[0].slots /\ Len(o.logical) \in Nat
  BY ReadChain
<1> HIDE DEF o
<1>2. \E j \in 0..3 : IsData(o.primary[j])
                      /\ PrimaryExtent(m[0].slots[i]) = PrimaryExtent(o.primary[j])
  BY <1>1
<1>3. PrimaryExtent(m[0].slots[i]) \in Extents(o)
  BY <1>1, <1>2, ExtentElements
<1> QED BY <1>3 DEF o

(* The tables that were read lead to one another on the disk.               *)
LEMMA OldChain ==
  ASSUME NEW d, Tidy(d), NEW i \in 1 .. Len(ReadTables(d).logical)
  PROVE  LET o == ReadTables(d)
             a == o.logical[i].offset
             l == Logical(d[a], a)
         IN  /\ a \in 1 .. Total - 1
             /\ PartOf(l) = PartOf(o.logical[i])
             /\ i = 1 => a = o.extended_offset
             /\ i + 1 \in 1 .. Len(o.logical) =>
                  /\ LastLink(l).type = EXTENDED
                  /\ o.extended_offset + LastLink(l).start = o.logical[i + 1].offset
<1> DEFINE o == ReadTables(d)
           a == o.logical[i].offset
           l == Logical(d[a], a)
           b == BoxOf(d).start
           s == Chain(d, BoxOf(d))
<1>1. /\ Len(o.logical) \in Nat
      /\ ~ HasBox(d) => Len(o.logical) = 0
      /\ HasBox(d) =>
           /\ o.extended_offset = b /\ Chained(s, b) /\ FromDisk(d, s)
           /\ Len(o.logical) = Len(s)
           /\ \A k \in 1 .. Len(s) : /\ PartOf(o.logical[k]) = PartOf(s[k])
                                    /\ o.logical[k].offset = s[k].offset
  BY ReadChain
<1>2. HasBox(d)
  BY <1>1
<1>3. i \in 1 .. Len(s) /\ PartOf(o.logical[i]) = PartOf(s[i]) /\ a = s[i].offset
  BY <1>1, <1>2
<1> HIDE DEF o, s, b
<1>4. s[i] = l /\ s[i] \in SoundTable
  <2>1. s[i] = Logical(d[s[i].offset], s[i].offset)
    BY <1>1, <1>2, <1>3 DEF FromDisk
  <2>2. s[i] \in SoundTable
    BY <1>1, <1>2, <1>3, ChainElements
  <2> QED BY <1>3, <2>1, <2>2
<1>5. a \in 1 .. Total - 1
  BY <1>3, <1>4, TableFields, TotalIsPositive
<1>6. i = 1 => a = o.extended_offset
  <2>1. s # << >>
    BY <1>1, <1>2, <1>3, ChainElements
  <2> QED BY <1>1, <1>2, <1>3, <2>1 DEF Chained
<1> HIDE DEF l, a
<1>7. ASSUME i + 1 \in 1 .. Len(o.logical)
      PROVE  /\ LastLink(l).type = EXTENDED
             /\ o.extended_offset + LastLink(l).start = o.logical[i + 1].offset
  <2>1. i \in 1 .. Len(s) - 1 /\ i + 1 \in 1 .. Len(s)
    BY <1>1, <1>2, <1>3, <1>7
  <2>2. LastLink(s[i]).type = EXTENDED /\ b + LastLink(s[i]).start = s[i + 1].offset
    BY <1>1, <1>2, <2>1 DEF Chained
  <2> QED BY <1>1, <1>2, <1>4, <2>1, <2>2
<1> QED BY <1>3, <1>4, <1>5, <1>6, <1>7 DEF o, a, l

-----------------------------------------------------------------------------
(* What becomes of the logical tables in a session.  The first K tables of  *)
(* x come from tables of o, in the same order and in the same sectors,      *)
(* except that the first is in the first sector of the extended partition;  *)
(* f says where the partition in a table comes from.  A partition in keep   *)
(* was in o already, and none of the tables behind the K-th has one.        *)
Descends(o, x, keep, K, f) ==
  /\ K > 0 => x.extended_offset = o.extended_offset
  /\ \A j, k \in 1 .. K : j < k => f[j] < f[k]
  /\ \A k \in 2 .. K : x.logical[k].offset = o.logical[f[k]].offset
  /\ \A k \in 1 .. K :
       IsData(PartOf(x.logical[k])) /\ TableExtent(x.logical[k]) \in keep
       => /\ IsData(PartOf(o.logical[f[k]]))
          /\ TableExtent(o.logical[f[k]]) = TableExtent(x.logical[k])
  /\ \A k \in 1 .. Len(x.logical) :
       k > K /\ IsData(PartOf(x.logical[k])) => TableExtent(x.logical[k]) \notin keep

Heirs(o, x, keep) ==
  \E K \in 0 .. Len(x.logical) : \E f \in [1 .. K -> 1 .. Len(o.logical)] :
    Descends(o, x, keep, K, f)

(* The tables whose origin is one of the first K are the first ones.        *)
LEMMA FirstOnes ==
  ASSUME NEW H \in Nat, NEW K \in Nat, NEW h \in [1 .. H -> Nat],
         \A j, k \in 1 .. H : j < k => h[j] < h[k]
  PROVE  \E P \in 0 .. H : \A k \in 1 .. H : k <= P <=> h[k] <= K
<1> DEFINE S == {k \in 1 .. H : h[k] > K}
<1>1. CASE S = {}
  <2>1. \A k \in 1 .. H : k <= H /\ h[k] <= K
    BY <1>1
  <2> QED BY <2>1
<1>2. CASE S # {}
  <2>1. S \in SUBSET Nat
    OBVIOUS
  <2> HIDE DEF S
  <2>2. Min(S) \in S /\ \A k \in S : Min(S) <= k
    BY <1>2, <2>1, LeastElement
  <2> DEFINE p == Min(S)
  <2> HIDE DEF p
  <2>3. p \in 1 .. H /\ h[p] > K /\ \A k \in 1 .. H : h[k] > K => p <= k
    BY <2>2 DEF S, p
  <2>4. p - 1 \in 0 .. H
    BY <2>3
  <2>5. ASSUME NEW k \in 1 .. H PROVE k <= p - 1 <=> h[k] <= K
    <3>1. k < p => h[k] <= K
      BY <2>3
    <3>2. p < k => h[p] < h[k]
      BY <2>3
    <3>3. h[k] \in Nat /\ h[p] \in Nat
      BY <2>3
    <3>4. CASE k < p
      BY <3>1, <3>4, <2>3
    <3>5. CASE ~ (k < p)
      <4>1. h[k] > K
        BY <2>3, <3>2, <3>3, <3>5
      <4> QED BY <2>3, <3>3, <3>5, <4>1
    <3> QED BY <3>4, <3>5
  <2> QED BY <2>4, <2>5
<1> QED BY <1>1, <1>2

(* Heirs of heirs are heirs.                                                *)
LEMMA HeirsOfHeirs ==
  ASSUME NEW o, NEW x, NEW y,
         Len(o.logical) \in Nat, Len(x.logical) \in Nat, Len(y.logical) \in Nat,
         NEW keep, NEW rest, keep \subseteq Extents(x), rest \subseteq keep,
         Heirs(o, x, keep), Heirs(x, y, Extents(x))
  PROVE  Heirs(o, y, rest)
<1> DEFINE E == Extents(x)
<1>a. PICK K \in 0 .. Len(x.logical) : \E f \in [1 .. K -> 1 .. Len(o.logical)] :
        Descends(o, x, keep, K, f)
  BY DEF Heirs
<1>1. PICK f \in [1 .. K -> 1 .. Len(o.logical)] : Descends(o, x, keep, K, f)
  BY <1>a
<1>b. PICK H \in 0 .. Len(y.logical) : \E h \in [1 .. H -> 1 .. Len(x.logical)] :
        Descends(x, y, E, H, h)
  BY DEF Heirs
<1>2. PICK h \in [1 .. H -> 1 .. Len(x.logical)] : Descends(x, y, E, H, h)
  BY <1>b
<1> HIDE DEF E
<1>3. /\ K > 0 => x.extended_offset = o.extended_offset
      /\ \A j, k \in 1 .. K : j < k => f[j] < f[k]
      /\ \A k \in 2 .. K : x.logical[k].offset = o.logical[f[k]].offset
      /\ \A k \in 1 .. K :
           IsData(PartOf(x.logical[k])) /\ TableExtent(x.logical[k]) \in keep
           => /\ IsData(PartOf(o.logical[f[k]]))
              /\ TableExtent(o.logical[f[k]]) = TableExtent(x.logical[k])
      /\ \A k \in 1 .. Len(x.logical) :
           k > K /\ IsData(PartOf(x.logical[k])) => TableExtent(x.logical[k]) \notin keep
  BY <1>1 DEF Descends
<1>4. /\ H > 0 => y.extended_offset = x.extended_offset
      /\ \A j, k \in 1 .. H : j < k => h[j] < h[k]
      /\ \A k \in 2 .. H : y.logical[k].offset = x.logical[h[k]].offset
      /\ \A k \in 1 .. H :
           IsData(PartOf(y.logical[k])) /\ TableExtent(y.logical[k]) \in E
           => /\ IsData(PartOf(x.logical[h[k]]))
              /\ TableExtent(x.logical[h[k]]) = TableExtent(y.logical[k])
      /\ \A k \in 1 .. Len(y.logical) :
           k > H /\ IsData(PartOf(y.logical[k])) => TableExtent(y.logical[k]) \notin E
  BY <1>2 DEF Descends
<1>5. H \in Nat /\ K \in Nat /\ \A k \in 1 .. H : h[k] \in 1 .. Len(x.logical) /\ h[k] \in Nat
  BY <1>1, <1>2
<1>6. PICK P \in 0 .. H : \A k \in 1 .. H : k <= P <=> h[k] <= K
  <2>1. h \in [1 .. H -> Nat]
    BY <1>2, <1>5
  <2> QED BY <1>4, <1>5, <2>1, FirstOnes
<1> DEFINE g == [k \in 1 .. P |-> f[h[k]]]
<1>7. \A k \in 1 .. P : k \in 1 .. H /\ h[k] \in 1 .. K /\ g[k] = f[h[k]]
  BY <1>5, <1>6
<1>8. P \in 0 .. Len(y.logical) /\ g \in [1 .. P -> 1 .. Len(o.logical)]
  BY <1>1, <1>2, <1>5, <1>6, <1>7
<1>9. rest \subseteq E /\ rest \subseteq keep
  BY DEF E
<1> HIDE DEF g
<1>10. P > 0 => y.extended_offset = o.extended_offset
  <2> SUFFICES ASSUME P > 0 PROVE y.extended_offset = o.extended_offset
    OBVIOUS
  <2>1. 1 \in 1 .. P
    BY <1>6
  <2>2. H > 0 /\ K > 0
    BY <1>5, <1>7, <2>1
  <2> QED BY <1>3, <1>4, <2>2
<1>11. \A j, k \in 1 .. P : j < k => g[j] < g[k]
  BY <1>3, <1>4, <1>7
<1>12. ASSUME NEW k \in 2 .. P PROVE y.logical[k].offset = o.logical[g[k]].offset
  <2>1. k \in 1 .. P /\ 1 \in 1 .. P /\ 1 < k /\ k \in 2 .. H
    BY <1>5, <1>6
  <2>2. h[1] < h[k] /\ h[1] \in 1 .. K /\ h[k] \in 1 .. K
    BY <1>4, <1>7, <2>1
  <2>3. h[k] \in 2 .. K
    BY <1>5, <2>2
  <2> QED BY <1>3, <1>4, <1>7, <2>1, <2>3, ZenonT(60)
<1>13. ASSUME NEW k \in 1 .. P,
              IsData(PartOf(y.logical[k])), TableExtent(y.logical[k]) \in rest
       PROVE  /\ IsData(PartOf(o.logical[g[k]]))
              /\ TableExtent(o.logical[g[k]]) = TableExtent(y.logical[k])
  <2>1. /\ IsData(PartOf(x.logical[h[k]]))
        /\ TableExtent(x.logical[h[k]]) = TableExtent(y.logical[k])
    BY <1>4, <1>7, <1>9, <1>13
  <2> QED BY <1>3, <1>7, <1>9, <1>13, <2>1
<1>14. ASSUME NEW k \in 1 .. Len(y.logical), k > P, IsData(PartOf(y.logical[k])),
              TableExtent(y.logical[k]) \in rest
       PROVE  FALSE
  <2>1. k <= H
    BY <1>4, <1>5, <1>9, <1>14
  <2>2. k \in 1 .. H
    BY <1>5, <2>1
  <2>3. /\ IsData(PartOf(x.logical[h[k]]))
        /\ TableExtent(x.logical[h[k]]) = TableExtent(y.logical[k])
    BY <1>4, <1>9, <1>14, <2>2
  <2>4. h[k] > K /\ h[k] \in 1 .. Len(x.logical)
    BY <1>5, <1>6, <1>14, <2>2
  <2> QED BY <1>3, <1>9, <1>14, <2>3, <2>4
<1>15. Descends(o, y, rest, P, g)
  BY <1>10, <1>11, <1>12, <1>13, <1>14 DEF Descends
<1> QED BY <1>8, <1>15 DEF Heirs

(* Tables that stay in place, perhaps with new ones behind them.            *)
LEMMA InPlace ==
  ASSUME NEW x, NEW y, Len(x.logical) \in Nat, Len(y.logical) \in Nat, NEW keep,
         Len(x.logical) <= Len(y.logical),
         Len(x.logical) > 0 => y.extended_offset = x.extended_offset,
         \A k \in 1 .. Len(x.logical) :
           /\ y.logical[k].offset = x.logical[k].offset
           /\ IsData(PartOf(y.logical[k])) /\ TableExtent(y.logical[k]) \in keep
              => /\ IsData(PartOf(x.logical[k]))
                 /\ TableExtent(x.logical[k]) = TableExtent(y.logical[k]),
         \A k \in 1 .. Len(y.logical) :
           k > Len(x.logical) /\ IsData(PartOf(y.logical[k]))
           => TableExtent(y.logical[k]) \notin keep
  PROVE  Heirs(x, y, keep)
<1> DEFINE m == Len(x.logical)
           f == [k \in 1 .. m |-> k]
<1>1. m \in 0 .. Len(y.logical) /\ f \in [1 .. m -> 1 .. m] /\ \A k \in 1 .. m : f[k] = k
  OBVIOUS
<1>2. \A k \in 2 .. m : k \in 1 .. m
  OBVIOUS
<1> HIDE DEF f
<1>3. Descends(x, y, keep, m, f)
  BY <1>1, <1>2 DEF Descends
<1> QED BY <1>1, <1>3 DEF Heirs

(* At most one extended primary leads anywhere, and its chain is known.     *)
OneBox(x) ==
  \A i \in 0..3 :
    x.primary[i].type = EXTENDED /\ x.primary[i].start # 0
    => i = x.ext_index /\ x.extended_offset # 0

(* What every command does to the tables.                                   *)
Loyal(x, y) == Heirs(x, y, Extents(x)) /\ (OneBox(x) => OneBox(y))

(* Tables that say the same of a partition give it the same sectors.        *)
LEMMA SameExtent ==
  ASSUME NEW l \in SoundTable, NEW m \in SoundTable, SamePart(l, m)
  PROVE  /\ IsData(PartOf(l)) <=> IsData(PartOf(m))
         /\ TableExtent(l) = TableExtent(m)
<1>1. /\ PartOf(l).start \in Nat /\ PartOf(l).size \in Nat /\ l.offset \in Nat
      /\ PartOf(m).start \in Nat /\ PartOf(m).size \in Nat /\ m.offset \in Nat
  BY TableFields, EntryFields
<1>2. /\ PartOf(l).type = PartOf(m).type /\ PartOf(l).begin = PartOf(m).begin
      /\ PartOf(l).size = PartOf(m).size
      /\ l.offset + PartOf(l).start = m.offset + PartOf(m).start
  BY DEF SamePart
<1>3. PartOf(l).start + l.offset + PartOf(l).size - 1
        = PartOf(m).start + m.offset + PartOf(m).size - 1
  BY <1>1, <1>2
<1> QED BY <1>2, <1>3 DEF TableExtent, IsData

(* A deleted logical partition leaves the others their tables.              *)
LEMMA ClosesHeirs ==
  ASSUME NEW x \in SoundTables, NEW y \in SoundTables,
         NEW k \in 1 .. Len(x.logical), Closes(x, k, y)
  PROVE  Loyal(x, y)
<1> DEFINE m == Len(x.logical)
           h == [j \in 1 .. m - 1 |-> IF j < k THEN j ELSE j + 1]
           E == Extents(x)
<1>1. PICK r :
        /\ y = [x EXCEPT !.logical = r]
        /\ Len(r) = m - 1
        /\ \A j \in 1 .. m - 1 : SamePart(r[j], x.logical[IF j < k THEN j ELSE j + 1])
        /\ \A j \in 2 .. m - 1 : r[j].offset = x.logical[IF j < k THEN j ELSE j + 1].offset
  BY DEF Closes
<1>2. x \in Tables /\ m \in Nat /\ k \in Nat
  BY SoundFields
<1>3. /\ y.logical = r /\ y.primary = x.primary
      /\ y.extended_offset = x.extended_offset /\ y.ext_index = x.ext_index
  BY <1>1, <1>2 DEF Tables
<1>4. /\ \A j \in 1 .. m : x.logical[j] \in SoundTable
      /\ \A j \in 1 .. m - 1 : y.logical[j] \in SoundTable
  BY <1>1, <1>3, SoundFields
<1>5. /\ m - 1 \in 0 .. Len(y.logical) /\ Len(y.logical) = m - 1
      /\ h \in [1 .. m - 1 -> 1 .. m]
      /\ \A j \in 1 .. m - 1 : h[j] = IF j < k THEN j ELSE j + 1
  BY <1>1, <1>2, <1>3
<1> HIDE DEF h, E
<1>6. \A i, j \in 1 .. m - 1 : i < j => h[i] < h[j]
  BY <1>2, <1>5
<1>7. ASSUME NEW j \in 1 .. m - 1
      PROVE  /\ IsData(PartOf(y.logical[j])) <=> IsData(PartOf(x.logical[h[j]]))
             /\ TableExtent(y.logical[j]) = TableExtent(x.logical[h[j]])
  <2>1. SamePart(y.logical[j], x.logical[h[j]])
    BY <1>1, <1>3, <1>5
  <2>2. y.logical[j] \in SoundTable /\ x.logical[h[j]] \in SoundTable
    BY <1>4, <1>5
  <2> QED BY <2>1, <2>2, SameExtent
<1>8. ASSUME NEW j \in 2 .. m - 1 PROVE y.logical[j].offset = x.logical[h[j]].offset
  <2>1. j \in 1 .. m - 1
    OBVIOUS
  <2> QED BY <1>1, <1>3, <1>5, <2>1
<1>9. Descends(x, y, E, m - 1, h)
  BY <1>2, <1>3, <1>5, <1>6, <1>7, <1>8 DEF Descends
<1>10. OneBox(x) => OneBox(y)
  BY <1>3 DEF OneBox
<1> QED BY <1>5, <1>9, <1>10 DEF Heirs, Loyal, E

(* A partition in clear sectors is none that was there.                     *)
LEMMA ClearIsNew ==
  ASSUME NEW x \in Tables, NEW start \in Nat, NEW stop \in Nat, start <= stop,
         Clear(x, start, stop)
  PROVE  \A p \in Extents(x) : ~ (p.first = start /\ p.last = stop)
<1> SUFFICES ASSUME NEW i \in Numbers(x), IsData(PartEntry(x, i)),
                    PartEntry(x, i).begin = start, LastSector(x, i) = stop
             PROVE  FALSE
  BY DEF Extents
<1>1. i \in DataOf(x)
  BY DEF DataOf
<1>2. Part(x, i).first = start /\ Part(x, i).last = stop
  BY PartFields
<1> QED BY <1>1, <1>2 DEF Clear

(* A table behind the others, for a new partition.                          *)
LEMMA GrowsHeirs ==
  ASSUME NEW x \in SoundTables, NEW y \in SoundTables, NEW a \in Nat,
         NEW start \in Nat, NEW stop \in Nat, a <= start, start <= stop,
         Clear(x, start, stop), Grows(x, a, NewEntry(Linux, start, stop, a), y)
  PROVE  Loyal(x, y)
<1> DEFINE m == Len(x.logical)
           e == NewEntry(Linux, start, stop, a)
           E == Extents(x)
<1>1. PICK r :
        /\ y = [x EXCEPT !.logical = r]
        /\ Len(r) = m + 1
        /\ \A j \in 1 .. m : SamePart(r[j], x.logical[j])
        /\ \A j \in 1 .. m : r[j].offset = x.logical[j].offset
        /\ r[m + 1].offset = a
        /\ PartOf(r[m + 1]) = e
  BY DEF Grows
<1>2. x \in Tables /\ m \in Nat
  BY SoundFields
<1>3. /\ y.logical = r /\ y.primary = x.primary
      /\ y.extended_offset = x.extended_offset /\ y.ext_index = x.ext_index
  BY <1>1, <1>2 DEF Tables
<1>4. /\ \A j \in 1 .. m : x.logical[j] \in SoundTable
      /\ \A j \in 1 .. m : y.logical[j] \in SoundTable
  <2>1. \A j \in 1 .. m : x.logical[j] \in SoundTable
    BY SoundFields
  <2>2. \A j \in 1 .. Len(y.logical) : y.logical[j] \in SoundTable
    BY SoundFields
  <2>3. \A j \in 1 .. m : j \in 1 .. Len(y.logical)
    BY <1>1, <1>2, <1>3
  <2> QED BY <2>1, <2>2, <2>3
<1>5. e.begin = start /\ e.start = start - a /\ e.size = stop - start + 1
  BY DEF NewEntry
<1> HIDE DEF e, E
<1>6. ASSUME NEW j \in 1 .. m
      PROVE  /\ y.logical[j].offset = x.logical[j].offset
             /\ IsData(PartOf(y.logical[j])) <=> IsData(PartOf(x.logical[j]))
             /\ TableExtent(y.logical[j]) = TableExtent(x.logical[j])
  BY <1>1, <1>3, <1>4, SameExtent
<1>7. ASSUME NEW j \in 1 .. Len(y.logical), j > m
      PROVE  TableExtent(y.logical[j]) \notin E
  <2>1. j = m + 1
    BY <1>1, <1>2, <1>3, <1>7
  <2>2. PartOf(y.logical[j]) = e /\ y.logical[j].offset = a
    BY <1>1, <1>3, <2>1
  <2>3. /\ TableExtent(y.logical[j]).first = start
        /\ TableExtent(y.logical[j]).last = (start - a) + a + (stop - start + 1) - 1
    BY <1>5, <2>2 DEF TableExtent
  <2>4. (start - a) + a + (stop - start + 1) - 1 = stop
    OBVIOUS
  <2> QED BY <1>2, <2>3, <2>4, ClearIsNew DEF E
<1>8. Heirs(x, y, E)
  <2>1. Len(y.logical) \in Nat /\ m <= Len(y.logical)
    BY <1>1, <1>2, <1>3
  <2> QED BY <1>2, <1>3, <1>6, <1>7, <2>1, InPlace
<1>9. OneBox(x) => OneBox(y)
  BY <1>3 DEF OneBox
<1> QED BY <1>8, <1>9 DEF Loyal, E

(* An entry that is changed in place: its partition keeps its sectors, or   *)
(* it is new.                                                               *)
LEMMA ReplacedHeirs ==
  ASSUME NEW x \in SoundTables, NEW i \in Numbers(x), NEW e \in Entry, NEW y,
         Replaced(x, i, e, y),
         e.type = EXTENDED /\ e.start # 0
         => PartEntry(x, i).type = EXTENDED /\ PartEntry(x, i).start # 0,
         i >= 4 /\ IsData(e)
         => \/ /\ IsData(PartEntry(x, i))
               /\ e.begin = PartEntry(x, i).begin
               /\ e.start + e.size = PartEntry(x, i).start + PartEntry(x, i).size
            \/ \A p \in Extents(x) :
                 ~ (/\ p.first = e.begin
                    /\ p.last = e.start + Offset(x, i) + e.size - 1)
  PROVE  Loyal(x, y)
<1> DEFINE m == Len(x.logical)
           E == Extents(x)
<1>1. /\ y \in SoundTables
      /\ y.ext_index = x.ext_index /\ y.extended_offset = x.extended_offset
      /\ Len(y.logical) = m
      /\ i < 4 => /\ y.logical = x.logical
                  /\ y.primary = [x.primary EXCEPT ![i] = e]
      /\ i >= 4 => /\ y.primary = x.primary
                   /\ \E l \in SoundTable :
                        /\ l.offset = Offset(x, i)
                        /\ PartOf(l) = e
                        /\ y.logical = [x.logical EXCEPT ![i - 3] = l]
  BY DEF Replaced
<1>2. /\ m \in Nat /\ i \in Nat /\ (i >= 4 => i - 3 \in 1 .. m)
      /\ i < 4 => PartEntry(x, i) = x.primary[i]
      /\ i >= 4 => /\ PartEntry(x, i) = PartOf(x.logical[i - 3])
                   /\ Offset(x, i) = x.logical[i - 3].offset
      /\ PartEntry(x, i).start \in Nat /\ PartEntry(x, i).size \in Nat
      /\ Offset(x, i) \in Nat
      /\ e.start \in Nat /\ e.size \in Nat
  BY PartEntryFacts, EntryFields
<1>3. OneBox(x) => OneBox(y)
  <2>1. CASE i < 4
    <3>1. i \in 0..3 /\ x.primary \in [0..3 -> Entry]
      BY <1>2, <2>1, SoundFields
    <3>2. \A j \in 0..3 : y.primary[j] = IF j = i THEN e ELSE x.primary[j]
      BY <1>1, <2>1, <3>1
    <3> QED BY <1>1, <1>2, <2>1, <3>1, <3>2 DEF OneBox
  <2>2. CASE i >= 4
    BY <1>1, <2>2 DEF OneBox
  <2> QED BY <1>2, <2>1, <2>2
<1>4. Heirs(x, y, E)
  <2> HIDE DEF E
  <2>a. SUFFICES \A j \in 1 .. m :
                   /\ y.logical[j].offset = x.logical[j].offset
                   /\ IsData(PartOf(y.logical[j])) /\ TableExtent(y.logical[j]) \in E
                      => /\ IsData(PartOf(x.logical[j]))
                         /\ TableExtent(x.logical[j]) = TableExtent(y.logical[j])
    <3>1. \A k \in 1 .. Len(y.logical) : ~ (k > Len(x.logical))
      BY <1>1, <1>2
    <3>2. Len(x.logical) \in Nat /\ Len(y.logical) \in Nat /\ Len(x.logical) <= Len(y.logical)
      BY <1>1, <1>2
    <3>3. y.extended_offset = x.extended_offset
      BY <1>1
    <3> QED BY <2>a, <3>1, <3>2, <3>3, InPlace
  <2>1. CASE i < 4
    <3>1. y.logical = x.logical
      BY <1>1, <2>1
    <3> QED BY <3>1
  <2>2. CASE i >= 4
    <3> DEFINE k == i - 3
               o == PartEntry(x, i)
    <3>1. PICK l \in SoundTable : /\ l.offset = Offset(x, i) /\ PartOf(l) = e
                                  /\ y.logical = [x.logical EXCEPT ![k] = l]
      BY <1>1, <2>2
    <3>2. /\ k \in 1 .. m /\ o = PartOf(x.logical[k]) /\ Offset(x, i) = x.logical[k].offset
      BY <1>2, <2>2
    <3>3. \A j \in 1 .. m : y.logical[j] = IF j = k THEN l ELSE x.logical[j]
      <4>1. Chained(x.logical, x.extended_offset)
        BY SoundFields
      <4> HIDE DEF k
      <4> QED BY <3>1, <3>2, <4>1, ChainReplaced
    <3>4. ASSUME IsData(e), TableExtent(l) \in E
          PROVE  IsData(o) /\ TableExtent(x.logical[k]) = TableExtent(l)
      <4>1. /\ TableExtent(l).first = e.begin
            /\ TableExtent(l).last = e.start + Offset(x, i) + e.size - 1
        BY <3>1 DEF TableExtent
      <4>2. /\ IsData(o) /\ e.begin = o.begin
            /\ e.start + e.size = o.start + o.size
        BY <2>2, <3>4, <4>1 DEF E
      <4>3. e.start + Offset(x, i) + e.size - 1 = o.start + Offset(x, i) + o.size - 1
        <5>1. /\ o.start \in Nat /\ o.size \in Nat /\ Offset(x, i) \in Nat
              /\ e.start \in Nat /\ e.size \in Nat
          BY <1>2
        <5>2. e.start + e.size = o.start + o.size
          BY <4>2
        <5> HIDE DEF o
        <5> QED BY <5>1, <5>2
      <4>4. TableExtent(x.logical[k]) =
              [first |-> o.begin, last |-> o.start + Offset(x, i) + o.size - 1, inside |-> TRUE]
        BY <3>2 DEF TableExtent
      <4>5. TableExtent(l) =
              [first |-> e.begin, last |-> e.start + Offset(x, i) + e.size - 1, inside |-> TRUE]
        BY <3>1 DEF TableExtent
      <4> QED BY <4>2, <4>3, <4>4, <4>5
    <3> HIDE DEF k, o
    <3>5. ASSUME NEW j \in 1 .. m
          PROVE  /\ y.logical[j].offset = x.logical[j].offset
                 /\ IsData(PartOf(y.logical[j])) /\ TableExtent(y.logical[j]) \in E
                    => /\ IsData(PartOf(x.logical[j]))
                       /\ TableExtent(x.logical[j]) = TableExtent(y.logical[j])
      <4>1. CASE j = k
        <5>1. y.logical[j] = l
          BY <3>3, <4>1
        <5> QED BY <3>1, <3>2, <3>4, <4>1, <5>1
      <4>2. CASE j # k
        BY <3>3, <4>2
      <4> QED BY <4>1, <4>2
    <3> QED BY <3>5
  <2> QED BY <1>2, <2>1, <2>2
<1> QED BY <1>3, <1>4 DEF Loyal, E

(* Replacing the entry of a partition.                                      *)
LEMMA SetPartIsLoyal ==
  ASSUME NEW x \in SoundTables, NEW i \in Numbers(x), NEW e \in Entry,
         i < 4 /\ x.extended_offset # 0 /\ i = x.ext_index =>
           e.type = EXTENDED /\ e.start = Extended(x).start /\ e.size = Extended(x).size,
         i >= 4 /\ IsData(e) => Offset(x, i) <= e.begin,
         e.type = EXTENDED
         => PartEntry(x, i).type = EXTENDED /\ e.start = PartEntry(x, i).start,
         i >= 4 /\ IsData(e)
         => \/ /\ IsData(PartEntry(x, i))
               /\ e.begin = PartEntry(x, i).begin
               /\ e.start + e.size = PartEntry(x, i).start + PartEntry(x, i).size
            \/ \A p \in Extents(x) :
                 ~ (/\ p.first = e.begin
                    /\ p.last = e.start + Offset(x, i) + e.size - 1)
  PROVE  Loyal(x, SetPart(x, i, e))
<1>1. i >= 4 /\ e.type = EXTENDED => PartEntry(x, i).type = EXTENDED
  OBVIOUS
<1>2. Replaced(x, i, e, SetPart(x, i, e))
  BY <1>1, SetPartIsSound
<1>3. e.type = EXTENDED /\ e.start # 0
      => PartEntry(x, i).type = EXTENDED /\ PartEntry(x, i).start # 0
  OBVIOUS
<1> DEFINE y == SetPart(x, i, e)
<1> HIDE DEF y
<1> SUFFICES Loyal(x, y)
  BY DEF y
<1>4. Replaced(x, i, e, y)
  BY <1>2 DEF y
<1> QED BY <1>3, <1>4, ReplacedHeirs

(* Nothing is lost where nothing is changed.                                *)
LEMMA SameIsLoyal == ASSUME NEW x \in SoundTables PROVE Loyal(x, x)
<1>1. Len(x.logical) \in Nat /\ Len(x.logical) <= Len(x.logical)
  BY SoundFields
<1>2. \A k \in 1 .. Len(x.logical) : ~ (k > Len(x.logical))
  BY <1>1
<1>3. Heirs(x, x, Extents(x))
  BY <1>1, <1>2, InPlace
<1> QED BY <1>3 DEF Loyal

(* Tables without logical ones inherit nothing.                             *)
LEMMA NoneIsHeir ==
  ASSUME NEW x, NEW y, NEW keep, y.logical = << >>
  PROVE  Heirs(x, y, keep)
<1> DEFINE f == [k \in {} |-> 1]
<1>1. 1 .. 0 = {} /\ Len(y.logical) = 0 /\ 1 .. Len(y.logical) = {} /\ 2 .. 0 = {}
  OBVIOUS
<1>2. f \in [1 .. 0 -> 1 .. Len(x.logical)] /\ 0 \in 0 .. Len(y.logical)
  BY <1>1
<1> HIDE DEF f
<1>3. Descends(x, y, keep, 0, f)
  BY <1>1 DEF Descends
<1> QED BY <1>2, <1>3 DEF Heirs

(* toggle_active.                                                           *)
LEMMA ToggleIsLoyal ==
  ASSUME NEW x \in SoundTables, NEW i \in Numbers(x)
  PROVE  Loyal(x, ToggleActive(x, i))
<1> DEFINE o == PartEntry(x, i)
           e == [o EXCEPT !.active = ~ o.active]
<1>1. e \in Entry /\ e.type = o.type /\ e.begin = o.begin /\ e.start = o.start /\ e.size = o.size
  BY PartEntryFacts DEF Entry
<1>2. ToggleActive(x, i) = SetPart(x, i, e)
  BY DEF ToggleActive
<1> HIDE DEF e
<1>3. i < 4 /\ x.extended_offset # 0 /\ i = x.ext_index =>
        e.type = EXTENDED /\ e.start = Extended(x).start /\ e.size = Extended(x).size
  BY <1>1, PartEntryFacts, SoundFields
<1>4. IsData(e) <=> IsData(o)
  BY <1>1 DEF IsData
<1>5. i >= 4 /\ IsData(o) => Offset(x, i) <= o.begin
  BY PartEntryFacts
<1>6. e.start + e.size = o.start + o.size
  BY <1>1
<1>7. i >= 4 /\ IsData(e) => Offset(x, i) <= e.begin
  <2> HIDE DEF o
  <2> QED BY <1>1, <1>4, <1>5
<1>8. Loyal(x, SetPart(x, i, e))
  BY <1>1, <1>3, <1>4, <1>6, <1>7, SetPartIsLoyal
<1> QED BY <1>2, <1>8

(* change_sysid.                                                            *)
LEMMA SetTypeIsLoyal ==
  ASSUME NEW x \in SoundTables, NEW i \in Numbers(x), IsData(PartEntry(x, i)),
         NEW type \in Types
  PROVE  Loyal(x, SetType(x, i, type))
<1> DEFINE o == PartEntry(x, i)
           e == [o EXCEPT !.type = type]
<1>1. /\ e \in Entry /\ e.type = type /\ e.begin = o.begin
      /\ e.start = o.start /\ e.size = o.size
  BY PartEntryFacts DEF Entry
<1>2. SetType(x, i, type) = SetPart(x, i, e)
  BY DEF SetType
<1> HIDE DEF e
<1>3. i >= 4 => Offset(x, i) <= o.begin
  BY PartEntryFacts
<1>4. i >= 4 => Offset(x, i) <= e.begin
  <2> HIDE DEF o
  <2> QED BY <1>1, <1>3
<1>5. e.type # EXTENDED
  BY <1>1, TypesAssumption
<1>6. e.start + e.size = o.start + o.size
  BY <1>1
<1>7. Loyal(x, SetPart(x, i, e))
  BY <1>1, <1>4, <1>5, <1>6, NoDataInBox, SetPartIsLoyal
<1> QED BY <1>2, <1>7

(* move_begin.                                                              *)
LEMMA MoveBeginIsLoyal ==
  ASSUME NEW x \in SoundTables, NEW i \in Numbers(x), IsData(PartEntry(x, i)),
         NEW first \in PartEntry(x, i).begin .. LastSector(x, i)
  PROVE  Loyal(x, MoveBegin(x, i, first))
<1> DEFINE o   == PartEntry(x, i)
           new == first - Offset(x, i)
           len == o.size + o.start - new
           e   == [o EXCEPT !.start = new, !.size = len]
<1>1. /\ o \in Entry /\ o.begin \in Nat /\ o.start \in Nat /\ o.size \in Nat
      /\ Offset(x, i) \in Nat /\ Offset(x, i) <= o.begin
  BY PartEntryFacts
<1>2. LastSector(x, i) = o.start + Offset(x, i) + o.size - 1
  BY DEF LastSector
<1>3. first \in Nat /\ new \in Nat /\ len \in Nat
  BY <1>1, <1>2
<1>4. MoveBegin(x, i, first) = IF new = o.size THEN x ELSE SetPart(x, i, e)
  BY DEF MoveBegin
<1>5. new + len = o.start + o.size
  BY <1>1, <1>3
<1> HIDE DEF new, len, o
<1>6. /\ e \in Entry /\ e.type = o.type /\ e.begin = o.begin
      /\ e.start = new /\ e.size = len
  BY <1>1, <1>3 DEF Entry
<1> HIDE DEF e
<1>7. Loyal(x, SetPart(x, i, e))
  <2>1. ~ (i < 4 /\ x.extended_offset # 0 /\ i = x.ext_index)
    BY NoDataInBox
  <2>2. IsData(PartEntry(x, i)) /\ e.type # EXTENDED
    BY <1>6 DEF IsData, o
  <2>3. /\ e.begin = PartEntry(x, i).begin /\ Offset(x, i) <= e.begin
        /\ e.start + e.size = PartEntry(x, i).start + PartEntry(x, i).size
    BY <1>1, <1>5, <1>6 DEF o
  <2> QED BY <1>6, <2>1, <2>2, <2>3, SetPartIsLoyal
<1> QED BY <1>4, <1>7, SameIsLoyal

(* delete_partition.                                                        *)
LEMMA DeleteIsLoyal ==
  ASSUME NEW x \in SoundTables, NEW i \in Numbers(x)
  PROVE  Loyal(x, DeletePartition(x, i))
<1>1. i \in Nat /\ i < 4 + Len(x.logical) /\ Len(x.logical) \in Nat
  BY PartEntryFacts
<1>2. ~ IsData(NoEntry) /\ NoEntry \in Entry /\ NoEntry.type # EXTENDED
  BY NoEntryIsEntry DEF Empty, EXTENDED
<1> DEFINE y == DeletePartition(x, i)
<1>a. y \in SoundTables
  BY DeleteIsSound
<1>3. CASE i < 4 /\ x.primary[i].type = EXTENDED /\ i = x.ext_index
  <2> DEFINE cleared == SetPart(x, i, NoEntry)
             z == [cleared EXCEPT !.logical = << >>, !.extended_offset = 0]
  <2>1. y = z /\ i \in 0..3
    BY <1>1, <1>3 DEF DeletePartition, DeletePrimary
  <2>2. cleared = [x EXCEPT !.primary[i] = NoEntry, !.changed[i] = TRUE]
    BY <1>3 DEF SetPart
  <2>3. x \in Tables /\ x.primary \in [0..3 -> Entry]
    BY SoundFields
  <2>4. z.logical = << >> /\ z.primary = [x.primary EXCEPT ![i] = NoEntry]
    BY <2>2, <2>3 DEF Tables
  <2>5. Heirs(x, z, Extents(x))
    <3> HIDE DEF z
    <3> QED BY <2>4, NoneIsHeir
  <2>6. OneBox(x) => OneBox(z)
    <3> HIDE DEF z
    <3> SUFFICES ASSUME OneBox(x), NEW j \in 0..3,
                        z.primary[j].type = EXTENDED, z.primary[j].start # 0
                 PROVE  FALSE
      BY DEF OneBox
    <3>1. j # i /\ z.primary[j] = x.primary[j]
      BY <1>2, <2>1, <2>3, <2>4
    <3> QED BY <1>3, <3>1 DEF OneBox
  <2> QED BY <2>1, <2>5, <2>6 DEF Loyal
<1>4. CASE i < 4 /\ ~ (x.primary[i].type = EXTENDED /\ i = x.ext_index)
  <2>1. y = SetPart(x, i, NoEntry)
    BY <1>4 DEF DeletePartition, DeletePrimary
  <2>2. ~ (x.extended_offset # 0 /\ i = x.ext_index)
    BY <1>4, SoundFields DEF Extended
  <2> QED BY <1>2, <1>4, <2>1, <2>2, SetPartIsLoyal
<1>5. CASE i > 4
  <2>1. Closes(x, i - 3, y) /\ i - 3 \in 1 .. Len(x.logical)
    <3>1. i - 3 \in 1 .. Len(x.logical)
      BY <1>1, <1>5
    <3>2. CASE ExtEntry(x, i).type = Empty
      <4>1. y = ClearLink(Dropped(x, i), i - 1)
        BY <1>1, <1>5, <3>2 DEF DeletePartition
      <4> QED BY <1>5, <3>1, <3>2, <4>1, DeleteLastIsSound
    <3>3. CASE ExtEntry(x, i).type # Empty
      <4>1. y = Dropped(Unlinked(x, i), i)
        BY <1>1, <1>5, <3>3 DEF DeletePartition
      <4> QED BY <1>5, <3>1, <3>3, <4>1, DeleteMiddleIsSound
    <3> QED BY <3>2, <3>3
  <2> HIDE DEF y
  <2>2. Loyal(x, y)
    BY <1>a, <2>1, ClosesHeirs
  <2> QED BY <2>2 DEF y
<1>6. CASE i = 4 /\ Partitions(x) > 5
  <2>1. y = Dropped(Rebased(x), 4) /\ Len(x.logical) >= 2
    BY <1>1, <1>6 DEF DeletePartition, Partitions
  <2>2. Closes(x, 1, y) /\ 1 \in 1 .. Len(x.logical)
    BY <1>1, <2>1, DeleteFirstIsSound
  <2> HIDE DEF y
  <2>3. Loyal(x, y)
    BY <1>a, <2>2, ClosesHeirs
  <2> QED BY <2>3 DEF y
<1>7. CASE i = 4 /\ ~ (Partitions(x) > 5)
  <2>1. y = SetPart(x, i, NoEntry) /\ ~ (i < 4)
    BY <1>7 DEF DeletePartition
  <2> QED BY <1>2, <2>1, SetPartIsLoyal
<1> QED BY <1>1, <1>3, <1>4, <1>5, <1>6, <1>7

(* add_partition for a primary one.                                         *)
LEMMA AddPrimaryIsLoyal ==
  ASSUME NEW x \in SoundTables, NEW n \in 0..3, x.primary[n].type = Empty,
         NEW start \in Nat, NEW stop \in Nat, start <= stop
  PROVE  Loyal(x, AddPrimary(x, n, start, stop))
<1> DEFINE e == NewEntry(Linux, start, stop, 0)
<1>1. e \in Entry /\ e.type = Linux
  BY LinuxIsData, NewEntryIsEntry
<1>2. n \in Numbers(x) /\ n < 4
  BY SoundFields DEF Numbers, Partitions
<1>3. ~ (x.extended_offset # 0 /\ n = x.ext_index)
  BY SoundFields DEF Extended, Empty, EXTENDED
<1>4. e.type # EXTENDED
  BY <1>1, LinuxIsData
<1> HIDE DEF e
<1>5. Loyal(x, SetPart(x, n, e))
  BY <1>1, <1>2, <1>3, <1>4, SetPartIsLoyal
<1> QED BY <1>5 DEF AddPrimary, e

(* add_partition for the extended one.                                      *)
LEMMA AddExtendedIsLoyal ==
  ASSUME NEW x \in SoundTables, x.extended_offset = 0, NEW n \in 0..3,
         NEW start \in Nat, NEW stop \in Nat, 1 <= start, start <= stop, stop <= Total - 1
  PROVE  Loyal(x, AddExtended(x, n, start, stop))
<1> DEFINE y == AddExtended(x, n, start, stop)
<1>1. /\ y \in SoundTables
      /\ y.extended_offset = start /\ y.ext_index = n
      /\ Len(y.logical) = 1 /\ PartOf(y.logical[1]) = NoEntry
      /\ y.primary = [x.primary EXCEPT ![n] = NewEntry(EXTENDED, start, stop, 0)]
  BY AddExtendedIsSound
<1> HIDE DEF y
<1>2. Len(x.logical) = 0 /\ x.primary \in [0..3 -> Entry]
  BY SoundFields
<1>3. Heirs(x, y, Extents(x))
  <2>1. \A k \in 1 .. Len(y.logical) : ~ IsData(PartOf(y.logical[k]))
    <3>1. \A k \in 1 .. Len(y.logical) : k = 1
      BY <1>1
    <3> QED BY <1>1, <3>1, NoEntryIsEntry
  <2>2. Len(x.logical) \in Nat /\ Len(y.logical) \in Nat /\ Len(x.logical) <= Len(y.logical)
        /\ ~ (Len(x.logical) > 0) /\ 1 .. Len(x.logical) = {}
    BY <1>1, <1>2
  <2> QED BY <2>1, <2>2, InPlace
<1>4. OneBox(x) => OneBox(y)
  <2> SUFFICES ASSUME OneBox(x), NEW j \in 0..3,
                      y.primary[j].type = EXTENDED, y.primary[j].start # 0, j # n
               PROVE  FALSE
    BY <1>1 DEF OneBox
  <2>1. y.primary[j] = x.primary[j]
    BY <1>1, <1>2
  <2> QED BY <2>1 DEF OneBox
<1> QED BY <1>3, <1>4 DEF Loyal, y

(* add_logical.                                                             *)
LEMMA AddLogicalIsLoyal ==
  ASSUME NEW x \in SoundTables, x.extended_offset # 0, NEW v \in Units,
         Len(x.logical) < MaxLogical, NEW start \in Nat, NEW stop \in Nat,
         x.extended_offset + v.sector_offset <= start, start <= stop, stop <= Total - 1,
         Clear(x, start, stop)
  PROVE  Loyal(x, AddLogical(Room(x), v, start, stop))
<1> DEFINE y == AddLogical(Room(x), v, start, stop)
           a == start - v.sector_offset
           b == x.extended_offset
           o == Offset(x, 4)
           e == NewEntry(Linux, start, stop, o)
<1>1. /\ y \in SoundTables
      /\ ~ NeedsTable(x) => y = SetPart(x, 4, e) /\ 4 \in Numbers(x) /\ o = b
      /\ NeedsTable(x) => Grows(x, a, NewEntry(Linux, start, stop, a), y)
  BY AddLogicalIsSound
<1>2. b \in Nat /\ v.sector_offset \in Nat /\ x \in Tables
  BY SoundFields, GeometryNumbers DEF Units
<1>3. a \in Nat /\ a <= start /\ b <= start
  BY <1>2
<1> HIDE DEF y, a, e
<1>4. CASE NeedsTable(x)
  <2>1. Loyal(x, y)
    BY <1>1, <1>3, <1>4, GrowsHeirs
  <2> QED BY <2>1 DEF y
<1>5. CASE ~ NeedsTable(x)
  <2>1. y = SetPart(x, 4, e) /\ 4 \in Numbers(x) /\ o = b
    BY <1>1, <1>5
  <2>2. o \in Nat /\ o <= start
    BY <1>2, <1>3, <2>1
  <2>3. /\ e \in Entry /\ e.type = Linux /\ e.begin = start
        /\ e.start = start - o /\ e.size = stop - start + 1
    <3> HIDE DEF o
    <3> QED BY <2>2, LinuxIsData, NewEntryIsEntry, SMTT(60) DEF e
  <2>4. e.start + o + e.size - 1 = stop
    <3> HIDE DEF o
    <3> QED BY <2>2, <2>3
  <2>5. \A p \in Extents(x) : ~ (p.first = e.begin /\ p.last = e.start + o + e.size - 1)
    BY <1>2, <2>3, <2>4, ClearIsNew
  <2>6. e.type # EXTENDED /\ o <= e.begin /\ ~ (4 < 4)
    BY <2>2, <2>3, LinuxIsData
  <2>7. Loyal(x, SetPart(x, 4, e))
    BY <2>1, <2>3, <2>5, <2>6, SetPartIsLoyal
  <2> QED BY <2>1, <2>7 DEF y
<1> QED BY <1>4, <1>5

-----------------------------------------------------------------------------
(* A write that is under way.                                               *)

\* The table that part i is in, which w writes if it is marked.
TableOf(x, i) == IF i = 3 THEN x.primary ELSE x.logical[i - 3].slots

Marks(x) ==
  {i \in Numbers(x) \ 0..3 : x.logical[i - 3].changed}
  \cup (IF \E i \in 0..3 : x.changed[i] THEN {3} ELSE {})

\* Every table in a sector of its own.
OwnSector(x) ==
  \A j, k \in 1 .. Len(x.logical) : x.logical[j].offset = x.logical[k].offset => j = k

(* m is the disk d with the tables "gone" of x put, the first marked ones.  *)
Mixed(d, x, gone, m) ==
  /\ gone \subseteq Marks(x)
  /\ \A i \in gone, j \in Marks(x) \ gone : i < j
  /\ m \in [0 .. Total - 1 -> [slots : [0..3 -> Entry], flag : BOOLEAN]]
  /\ \A a \in 0 .. Total - 1 :
       \/ \E i \in gone : Offset(x, i) = a /\ m[a].slots = TableOf(x, i)
       \/ m[a] = d[a] /\ \A i \in gone : Offset(x, i) # a

(* A mark is that of the primary table or of a logical one.                 *)
LEMMA MarkIsTable ==
  ASSUME NEW x \in SoundTables, NEW i \in Marks(x)
  PROVE  /\ i \in Nat /\ i \in Numbers(x)
         /\ \/ i = 3 /\ Offset(x, i) = 0 /\ TableOf(x, i) = x.primary
            \/ /\ i - 3 \in 1 .. Len(x.logical) /\ i >= 4
               /\ Offset(x, i) = x.logical[i - 3].offset
               /\ Offset(x, i) \in 1 .. Total - 1
               /\ TableOf(x, i) = x.logical[i - 3].slots
<1>1. Len(x.logical) \in Nat /\ Numbers(x) = 0 .. 3 + Len(x.logical)
  BY SoundFields DEF Numbers, Partitions
<1>2. CASE i = 3
  BY <1>1, <1>2 DEF Offset, TableOf
<1>3. CASE i # 3
  <2>1. i \in Numbers(x) \ 0..3
    BY <1>3 DEF Marks
  <2>2. i \in Nat /\ i >= 4 /\ i - 3 \in 1 .. Len(x.logical)
    BY <1>1, <2>1
  <2>3. x.logical[i - 3] \in SoundTable
    BY <2>2, SoundFields
  <2>4. x.logical[i - 3].offset \in 1 .. Total - 1
    BY <2>3, TableFields, TotalIsPositive
  <2> QED BY <2>1, <2>2, <2>4 DEF Offset, TableOf
<1> QED BY <1>2, <1>3

(* And each logical table has its number.                                   *)
LEMMA TableIsMarked ==
  ASSUME NEW x \in SoundTables, NEW k \in 1 .. Len(x.logical)
  PROVE  k + 3 \in Marks(x) <=> x.logical[k].changed = TRUE
<1>1. Len(x.logical) \in Nat /\ Numbers(x) = 0 .. 3 + Len(x.logical)
  BY SoundFields DEF Numbers, Partitions
<1>2. k + 3 \in Numbers(x) \ 0..3 /\ (k + 3) - 3 = k /\ k + 3 # 3
  BY <1>1
<1>3. x.logical[k].changed \in BOOLEAN
  BY SoundFields, TableFields DEF Table
<1>4. k + 3 \in Marks(x) <=> x.logical[(k + 3) - 3].changed
  BY <1>2 DEF Marks
<1> QED BY <1>2, <1>3, <1>4

(* A mixed disk is one that can be read.                                    *)
LEMMA MixIsTidy ==
  ASSUME NEW d, Tidy(d), NEW x \in SoundTables, NEW gone, NEW m, Mixed(d, x, gone, m)
  PROVE  Tidy(m)
<1>1. m \in [0 .. Total - 1 -> [slots : [0..3 -> Entry], flag : BOOLEAN]]
  BY DEF Mixed
<1>2. ASSUME NEW a \in 1 .. Total - 1
      PROVE  /\ OneEach(m[a].slots)
             /\ \A k \in 0..3 : IsData(m[a].slots[k]) => a <= m[a].slots[k].begin
  <2>1. a \in 0 .. Total - 1 /\ a # 0
    BY TotalIsPositive
  <2>2. CASE m[a] = d[a]
    BY <2>2 DEF Tidy
  <2>3. ASSUME NEW i \in gone, Offset(x, i) = a, m[a].slots = TableOf(x, i)
        PROVE  /\ OneEach(m[a].slots)
               /\ \A k \in 0..3 : IsData(m[a].slots[k]) => a <= m[a].slots[k].begin
    <3> DEFINE l == x.logical[i - 3]
    <3>1. i \in Marks(x)
      BY DEF Mixed
    <3>2. i - 3 \in 1 .. Len(x.logical) /\ a = l.offset /\ m[a].slots = l.slots
      BY <2>1, <2>3, <3>1, MarkIsTable
    <3>3. l \in SoundTable
      BY <3>2, SoundFields
    <3> HIDE DEF l
    <3>4. /\ IsData(PartOf(l)) => l.offset <= PartOf(l).begin
          /\ \A j \in 0..3 : IsData(l.slots[j]) => j = l.part
      BY <3>3, TableFields DEF Clean
    <3> QED BY <3>2, <3>4 DEF OneEach, PartOf
  <2> QED BY <2>1, <2>2, <2>3 DEF Mixed
<1> QED BY <1>1, <1>2 DEF Tidy

(* The primary table of a mixed disk is the new one, unless it is still to  *)
(* be written.                                                              *)
LEMMA MixedPrimary ==
  ASSUME NEW d, NEW x \in SoundTables, Recorded(d, x), NEW gone, NEW m,
         Mixed(d, x, gone, m), 3 \in Marks(x) => 3 \in gone
  PROVE  m[0].slots = x.primary
<1>1. 0 \in 0 .. Total - 1
  BY TotalIsPositive
<1>2. ASSUME NEW i \in gone, Offset(x, i) = 0 PROVE i = 3 /\ TableOf(x, i) = x.primary
  <2>1. i \in Marks(x)
    BY DEF Mixed
  <2>2. 0 \notin 1 .. Total - 1
    OBVIOUS
  <2> QED BY <1>2, <2>1, <2>2, MarkIsTable
<1>3. CASE 3 \in Marks(x)
  <2>1. Offset(x, 3) = 0 /\ 3 \in gone
    BY <1>3 DEF Offset
  <2>2. \E i \in gone : Offset(x, i) = 0 /\ m[0].slots = TableOf(x, i)
    BY <1>1, <2>1 DEF Mixed
  <2> QED BY <1>2, <2>2
<1>4. CASE 3 \notin Marks(x)
  <2>1. 3 \notin gone
    BY <1>4 DEF Mixed
  <2>2. m[0] = d[0]
    BY <1>1, <1>2, <2>1 DEF Mixed
  <2>3. \A i \in 0..3 : x.changed[i] # TRUE
    BY <1>4 DEF Marks
  <2> QED BY <2>2, <2>3 DEF Recorded
<1> QED BY <1>3, <1>4

(* If it is, nothing is written.                                            *)
LEMMA PrimaryIsFirst ==
  ASSUME NEW d, Tidy(d), NEW x \in SoundTables, NEW gone, NEW m,
         Mixed(d, x, gone, m), 3 \in Marks(x), 3 \notin gone
  PROVE  m = d
<1>1. ASSUME NEW i \in gone PROVE FALSE
  <2>1. i \in Marks(x) /\ i < 3
    BY DEF Mixed
  <2> QED BY <2>1, MarkIsTable
<1>2. \A a \in 0 .. Total - 1 : m[a] = d[a]
  BY <1>1 DEF Mixed
<1> DEFINE S == [slots : [0..3 -> Entry], flag : BOOLEAN]
<1>3. m \in [0 .. Total - 1 -> S] /\ d \in [0 .. Total - 1 -> S]
  BY DEF Mixed, Tidy
<1> HIDE DEF S
<1>4. m = [a \in 0 .. Total - 1 |-> m[a]] /\ d = [a \in 0 .. Total - 1 |-> d[a]]
  BY <1>3
<1>5. [a \in 0 .. Total - 1 |-> m[a]] = [a \in 0 .. Total - 1 |-> d[a]]
  BY <1>2
<1> QED BY <1>4, <1>5

\* What is in the sector of a logical table is what memory says, except
\* perhaps for the link of the last one.
OnDisk(m, x, k) ==
  LET l == x.logical[k]
      w == m[l.offset].slots
  IN  \/ w = l.slots
      \/ k = Len(x.logical) /\ w = [l.slots EXCEPT ![l.ext] = w[l.ext]]

(* The sector of a logical table that is not to be written any more.        *)
LEMMA MixedTable ==
  ASSUME NEW d, NEW x \in SoundTables, OwnSector(x), Recorded(d, x), NEW gone, NEW m,
         Mixed(d, x, gone, m), NEW k \in 1 .. Len(x.logical),
         k + 3 \in Marks(x) => k + 3 \in gone
  PROVE  OnDisk(m, x, k)
<1> DEFINE l == x.logical[k]
           a == l.offset
<1>1. l \in SoundTable /\ Len(x.logical) \in Nat
  BY SoundFields
<1>2. a \in 0 .. Total - 1 /\ a # 0
  BY <1>1, TableFields, TotalIsPositive
<1>3. ASSUME NEW i \in gone, Offset(x, i) = a PROVE i = k + 3 /\ TableOf(x, i) = l.slots
  <2>1. i \in Marks(x)
    BY DEF Mixed
  <2>2. i - 3 \in 1 .. Len(x.logical) /\ x.logical[i - 3].offset = a /\ i \in Nat
        /\ TableOf(x, i) = x.logical[i - 3].slots
    BY <1>2, <1>3, <2>1, MarkIsTable
  <2>3. i - 3 = k
    BY <2>2 DEF OwnSector
  <2> QED BY <2>2, <2>3
<1>4. CASE k + 3 \in Marks(x)
  <2>1. (k + 3) - 3 = k /\ k + 3 >= 4
    OBVIOUS
  <2>2. Offset(x, k + 3) = a /\ k + 3 \in gone
    BY <1>4, <2>1 DEF Offset
  <2>3. \E i \in gone : Offset(x, i) = a /\ m[a].slots = TableOf(x, i)
    BY <1>2, <2>2 DEF Mixed
  <2> QED BY <1>3, <2>3 DEF OnDisk
<1>5. CASE k + 3 \notin Marks(x)
  <2>1. m[a] = d[a]
    BY <1>2, <1>3, <1>5 DEF Mixed
  <2>2. ~ (l.changed = TRUE)
    BY <1>5, TableIsMarked
  <2> QED BY <2>1, <2>2 DEF Recorded, OnDisk
<1> QED BY <1>4, <1>5

(* A path through tables that are on the disk leads on and keeps its        *)
(* partitions.                                                              *)
LEMMA MixedLink ==
  ASSUME NEW d, Tidy(d), NEW x \in SoundTables, OwnSector(x), Recorded(d, x), NEW gone,
         NEW m, Tidy(m), Mixed(d, x, gone, m), NEW k \in 1 .. Len(x.logical),
         k + 3 \in Marks(x) => k + 3 \in gone
  PROVE  LET a == x.logical[k].offset
             l == Logical(m[a], a)
         IN  /\ a \in 1 .. Total - 1
             /\ IsData(PartOf(x.logical[k])) =>
                  PartOf(l) = PartOf(x.logical[k]) /\ TableExtent(l) = TableExtent(x.logical[k])
             /\ k < Len(x.logical) =>
                  /\ LastLink(l).type = EXTENDED
                  /\ x.extended_offset + LastLink(l).start = x.logical[k + 1].offset
<1> DEFINE o == x.logical[k]
           a == o.offset
           w == m[a].slots
           l == Logical(m[a], a)
<1>1. o \in SoundTable /\ Len(x.logical) \in Nat /\ k \in Nat
  BY SoundFields
<1>2. /\ o.slots \in [0..3 -> Entry] /\ o.part \in 0..3 /\ o.ext \in 0..3 /\ o.part # o.ext
      /\ Clean(o)
  BY <1>1, TableFields
<1>3. a \in 1 .. Total - 1
  BY <1>1, TableFields, TotalIsPositive
<1>4. w \in [0..3 -> Entry] /\ OneEach(w)
  BY <1>3, TotalIsPositive DEF Tidy
<1>5. \/ w = o.slots
      \/ k = Len(x.logical) /\ w = [o.slots EXCEPT ![o.ext] = w[o.ext]]
  <2>1. OnDisk(m, x, k)
    BY MixedTable
  <2> QED BY <2>1 DEF OnDisk
<1>6. l.slots = w /\ l.part = PartSlot(w) /\ l.ext = ExtSlot(w) /\ l.offset = a
  BY DEF Logical
<1> HIDE DEF o, a, w, l
<1>7. w[o.part] = o.slots[o.part]
  BY <1>2, <1>5
<1>8. ASSUME IsData(PartOf(o))
      PROVE  PartOf(l) = PartOf(o) /\ TableExtent(l) = TableExtent(o)
  <2>1. IsData(w[o.part])
    BY <1>7, <1>8 DEF PartOf
  <2>2. PartSlot(w) = o.part
    BY <1>2, <1>4, <2>1, SlotsAreRead
  <2>3. PartOf(l) = PartOf(o)
    BY <1>6, <1>7, <2>2 DEF PartOf
  <2>4. l.offset = o.offset
    BY <1>6 DEF a
  <2> QED BY <2>3, <2>4 DEF TableExtent
<1>9. ASSUME k < Len(x.logical)
      PROVE  /\ LastLink(l).type = EXTENDED
             /\ x.extended_offset + LastLink(l).start = x.logical[k + 1].offset
  <2>1. w = o.slots
    BY <1>1, <1>5, <1>9
  <2>2. k \in 1 .. Len(x.logical) - 1
    BY <1>1, <1>9
  <2>3. /\ LastLink(o).type = EXTENDED
        /\ x.extended_offset + LastLink(o).start = x.logical[k + 1].offset
    BY <2>2, SoundFields DEF Chained, o
  <2>4. ExtSlot(w) = o.ext
    BY <1>2, <1>4, <2>1, <2>3, SlotsAreRead DEF Clean, LastLink
  <2>5. LastLink(l) = LastLink(o)
    BY <1>6, <2>1, <2>4 DEF LastLink
  <2> QED BY <2>3, <2>5
<1> QED BY <1>3, <1>8, <1>9 DEF o, a, w, l

(* The extended primary of a mixed disk is the one in memory.               *)
LEMMA MixedBox ==
  ASSUME NEW d, NEW x \in SoundTables, OneBox(x), Recorded(d, x), NEW gone,
         NEW m, Mixed(d, x, gone, m), 3 \in Marks(x) => 3 \in gone,
         x.extended_offset # 0
  PROVE  HasBox(m) /\ BoxOf(m) \in Entry /\ BoxOf(m).start = x.extended_offset
<1>1. m[0].slots = x.primary
  BY MixedPrimary
<1>2. /\ x.ext_index \in 0..3 /\ x.primary \in [0..3 -> Entry]
      /\ x.primary[x.ext_index].type = EXTENDED
      /\ x.primary[x.ext_index].start = x.extended_offset
  BY SoundFields DEF Extended
<1>3. \A i \in 0..3 :
        x.primary[i].type = EXTENDED /\ x.primary[i].start # 0 => i = x.ext_index
  BY DEF OneBox
<1>4. ExtIndex(x.primary) = x.ext_index
  BY <1>2, <1>3, ExtIndexIsBox
<1> QED BY <1>1, <1>2, <1>4 DEF HasBox, BoxOf

(* A primary partition is found once the primary table is written.          *)
LEMMA MixedPrimaryFound ==
  ASSUME NEW d, NEW x \in SoundTables, Recorded(d, x), NEW gone,
         NEW m, Tidy(m), Mixed(d, x, gone, m), 3 \in Marks(x) => 3 \in gone,
         NEW i \in 0..3, IsData(x.primary[i])
  PROVE  PrimaryExtent(x.primary[i]) \in Extents(ReadTables(m))
<1>1. m[0].slots = x.primary
  BY MixedPrimary
<1> QED BY <1>1, PrimaryFound

(* So is a logical one if no table up to its own is still to be written.    *)
LEMMA NewPath ==
  ASSUME NEW d, Tidy(d), NEW x \in SoundTables, OwnSector(x), OneBox(x), Recorded(d, x),
         NEW gone, NEW m, Tidy(m), Mixed(d, x, gone, m), 3 \in Marks(x) => 3 \in gone,
         NEW k \in 1 .. Len(x.logical), IsData(PartOf(x.logical[k])),
         \A j \in 1 .. k : j + 3 \in Marks(x) => j + 3 \in gone
  PROVE  TableExtent(x.logical[k]) \in Extents(ReadTables(m))
<1> DEFINE q == [j \in 1 .. k |-> x.logical[j].offset]
           L(j) == Logical(m[q[j]], q[j])
<1>1. /\ Len(x.logical) \in Nat /\ k \in Nat /\ k <= Len(x.logical) /\ k >= 1
      /\ Len(x.logical) <= MaxLogical /\ MaxLogical \in Nat /\ x.extended_offset # 0
      /\ x.logical[1].offset = x.extended_offset
  BY SoundFields, GeometryNumbers
<1>2. \A j \in 1 .. k : j \in 1 .. Len(x.logical) /\ q[j] = x.logical[j].offset
  BY <1>1
<1>3. HasBox(m) /\ BoxOf(m).start = x.extended_offset
  BY <1>1, MixedBox
<1> HIDE DEF q
<1>4. ASSUME NEW j \in 1 .. k
      PROVE  /\ q[j] \in 1 .. Total - 1
             /\ IsData(PartOf(x.logical[j])) =>
                  /\ PartOf(L(j)) = PartOf(x.logical[j])
                  /\ TableExtent(L(j)) = TableExtent(x.logical[j])
             /\ j < Len(x.logical) =>
                  /\ LastLink(L(j)).type = EXTENDED
                  /\ x.extended_offset + LastLink(L(j)).start = x.logical[j + 1].offset
  <2>1. j \in 1 .. Len(x.logical) /\ (j + 3 \in Marks(x) => j + 3 \in gone)
    BY <1>2
  <2> QED BY <1>2, <2>1, MixedLink
<1>5. q \in [1 .. k -> 1 .. Total - 1]
  BY <1>4 DEF q
<1>6. q[1] = BoxOf(m).start
  BY <1>1, <1>2, <1>3
<1>7. ASSUME NEW j \in 1 .. k - 1
      PROVE  LastLink(L(j)).type = EXTENDED /\ BoxOf(m).start + LastLink(L(j)).start = q[j + 1]
  <2>1. j \in 1 .. k /\ j + 1 \in 1 .. k /\ j < Len(x.logical)
    BY <1>1
  <2> QED BY <1>2, <1>3, <1>4, <2>1
<1>8. Leads(m, BoxOf(m), k, q)
  BY <1>5, <1>6, <1>7 DEF Leads
<1>9. /\ k \in 1 .. k /\ k \in 1 .. MaxLogical
      /\ PartOf(L(k)) = PartOf(x.logical[k]) /\ TableExtent(L(k)) = TableExtent(x.logical[k])
  BY <1>1, <1>4
<1>10. IsData(PartOf(L(k)))
  BY <1>9
<1> QED BY <1>3, <1>8, <1>9, <1>10, FoundOnPath

(* Positions in order are not before their own.                             *)
LEMMA NotBefore ==
  ASSUME NEW K \in Nat, NEW M, NEW f \in [1 .. K -> 1 .. M], M \in Nat,
         \A j, k \in 1 .. K : j < k => f[j] < f[k]
  PROVE  \A k \in 1 .. K : k <= f[k]
<1> DEFINE S == {k \in 0 .. K : k = 0 \/ k <= f[k]}
<1>1. 0 \in S
  OBVIOUS
<1>2. ASSUME NEW k \in 0 .. K - 1, k \in S PROVE k + 1 \in S
  <2>1. k + 1 \in 1 .. K /\ f[k + 1] \in Nat /\ f[k + 1] >= 1
    OBVIOUS
  <2>2. CASE k = 0
    BY <2>1, <2>2
  <2>3. CASE k # 0
    <3>1. k \in 1 .. K /\ k <= f[k] /\ f[k] \in Nat
      BY <1>2, <2>3
    <3>2. f[k] < f[k + 1]
      BY <2>1, <3>1
    <3>3. k + 1 <= f[k + 1]
      BY <2>1, <3>1, <3>2
    <3> QED BY <2>1, <3>3
  <2> QED BY <2>2, <2>3
<1> HIDE DEF S
<1>3. \A k \in 0 .. K : k \in S
  BY <1>1, <1>2, Induction
<1>4. ASSUME NEW k \in 1 .. K PROVE k <= f[k]
  <2>1. k \in 0 .. K /\ k # 0
    OBVIOUS
  <2> QED BY <1>3, <2>1 DEF S
<1> QED BY <1>4

(* An old table behind the first one that is still to be written is still   *)
(* in its sector.                                                           *)
LEMMA OldIsThere ==
  ASSUME NEW d, Tidy(d), OwnSector(ReadTables(d)), NEW x \in SoundTables,
         NEW gone, NEW m, Mixed(d, x, gone, m),
         NEW keep, NEW K \in 0 .. Len(x.logical),
         NEW f \in [1 .. K -> 1 .. Len(ReadTables(d).logical)],
         Descends(ReadTables(d), x, keep, K, f),
         NEW j \in 1 .. K, j + 3 \in Marks(x), j + 3 \notin gone,
         NEW h \in 1 .. Len(ReadTables(d).logical), j = 1 \/ f[j] <= h
  PROVE  LET a == ReadTables(d).logical[h].offset IN m[a] = d[a] /\ a \in 1 .. Total - 1
<1> DEFINE o == ReadTables(d)
           a == o.logical[h].offset
<1>1. a \in 1 .. Total - 1
  BY OldChain
<1>2. Len(o.logical) \in Nat /\ Len(x.logical) \in Nat
  BY ReadChain, SoundFields
<1>3. /\ x.extended_offset = o.extended_offset
      /\ \A i, k \in 1 .. K : i < k => f[i] < f[k]
      /\ \A k \in 2 .. K : x.logical[k].offset = o.logical[f[k]].offset
  BY DEF Descends
<1>4. ASSUME NEW i \in gone, Offset(x, i) = a PROVE FALSE
  <2> DEFINE c == i - 3
  <2>1. i \in Marks(x)
    BY DEF Mixed
  <2>2. i < j + 3
    BY DEF Mixed
  <2>3. i \in Nat /\ c \in 1 .. Len(x.logical) /\ x.logical[c].offset = a
    <3>1. a # 0
      BY <1>1
    <3> QED BY <1>4, <2>1, <3>1, MarkIsTable
  <2>4. c \in 1 .. K /\ c < j /\ f[c] < f[j]
    BY <1>2, <1>3, <2>2, <2>3
  <2>5. f[c] \in 1 .. Len(o.logical) /\ f[j] \in 1 .. Len(o.logical) /\ f[j] <= h
    BY <2>4
  <2> HIDE DEF o
  <2>6. CASE c = 1
    <3>1. x.logical[1].offset = x.extended_offset
      BY <2>3, <2>6, SoundFields
    <3>2. 1 \in 1 .. Len(o.logical)
      BY <1>2, <2>5
    <3>3. o.logical[1].offset = o.extended_offset
      BY <3>2, OldChain DEF o
    <3>4. o.logical[1].offset = o.logical[h].offset
      BY <1>3, <2>3, <2>6, <3>1, <3>3
    <3>5. h = 1
      BY <3>2, <3>4 DEF OwnSector, o
    <3> QED BY <1>2, <2>4, <2>5, <3>5
  <2>7. CASE c # 1
    <3>1. c \in 2 .. K
      BY <2>3, <2>4, <2>7
    <3>2. o.logical[f[c]].offset = o.logical[h].offset
      BY <1>3, <2>3, <3>1
    <3>3. f[c] = h
      BY <2>5, <3>2 DEF OwnSector, o
    <3> QED BY <1>2, <2>4, <2>5, <3>3
  <2> QED BY <2>6, <2>7
<1>5. a \in 0 .. Total - 1
  BY <1>1, TotalIsPositive
<1>6. m[a] = d[a]
  BY <1>4, <1>5 DEF Mixed
<1> QED BY <1>1, <1>6

(* A partition behind a table that is still to be written is found on the   *)
(* new tables as far as they are written and on the old ones from there.    *)
LEMMA OldPath ==
  ASSUME NEW d, Tidy(d), OwnSector(ReadTables(d)), NEW x \in SoundTables,
         OwnSector(x), OneBox(x), Recorded(d, x),
         NEW gone, NEW m, Tidy(m), Mixed(d, x, gone, m), 3 \in Marks(x) => 3 \in gone,
         NEW keep, NEW K \in 0 .. Len(x.logical),
         NEW f \in [1 .. K -> 1 .. Len(ReadTables(d).logical)],
         Descends(ReadTables(d), x, keep, K, f),
         NEW j \in 1 .. K, j + 3 \in Marks(x), j + 3 \notin gone,
         \A i \in 1 .. j - 1 : i + 3 \in Marks(x) => i + 3 \in gone,
         NEW k \in j .. K, IsData(PartOf(x.logical[k])), TableExtent(x.logical[k]) \in keep
  PROVE  TableExtent(x.logical[k]) \in Extents(ReadTables(m))
<1> DEFINE o == ReadTables(d)
           M == Len(o.logical)
           g == IF j = 1 THEN 1 ELSE f[j]
           n == f[k] - g + j
           q == [i \in 1 .. n |-> IF i < j THEN x.logical[i].offset
                                  ELSE o.logical[g + i - j].offset]
           L(i) == Logical(m[q[i]], q[i])
           e == BoxOf(m)
<1>1. /\ M \in Nat /\ M <= MaxLogical /\ Len(x.logical) \in Nat /\ K \in Nat
      /\ K <= Len(x.logical) /\ j \in Nat /\ j >= 1 /\ k \in 1 .. K /\ k \in Nat
      /\ MaxLogical \in Nat
  BY ReadChain, SoundFields, GeometryNumbers
<1>2. /\ x.extended_offset = o.extended_offset
      /\ \A i, c \in 1 .. K : i < c => f[i] < f[c]
      /\ \A c \in 2 .. K : x.logical[c].offset = o.logical[f[c]].offset
      /\ IsData(PartOf(o.logical[f[k]]))
      /\ TableExtent(o.logical[f[k]]) = TableExtent(x.logical[k])
  BY <1>1 DEF Descends
<1>3. /\ f[j] \in 1 .. M /\ f[k] \in 1 .. M /\ j <= f[j] /\ f[j] <= f[k]
  <2>1. \A c \in 1 .. K : c <= f[c]
    BY <1>1, <1>2, NotBefore
  <2>2. f[j] \in 1 .. M /\ f[k] \in 1 .. M /\ j <= f[j]
    BY <1>1, <2>1
  <2>3. j = k \/ f[j] < f[k]
    BY <1>1, <1>2
  <2> QED BY <2>2, <2>3
<1>4. /\ g \in 1 .. M /\ g <= f[k] /\ j <= g /\ (j = 1 => g = 1) /\ (j # 1 => g = f[j])
      /\ n \in Nat /\ j <= n /\ n <= f[k] /\ n \in 1 .. MaxLogical /\ g + n - j = f[k]
  <2>1. g \in 1 .. M /\ g <= f[k] /\ j <= g /\ (j = 1 => g = 1) /\ (j # 1 => g = f[j])
    BY <1>1, <1>3
  <2> HIDE DEF g
  <2> QED BY <1>1, <1>3, <2>1, SMTT(60)
<1>5. ASSUME NEW i \in 1 .. n, i < j
      PROVE  q[i] = x.logical[i].offset /\ i \in 1 .. j - 1 /\ i \in 1 .. K
             /\ i \in 1 .. Len(x.logical) /\ i + 1 \in 1 .. K /\ i < Len(x.logical)
  BY <1>1, <1>5, SMTT(60)
<1>6. ASSUME NEW i \in 1 .. n, ~ (i < j)
      PROVE  LET h == g + i - j
             IN  /\ q[i] = o.logical[h].offset /\ h \in 1 .. M /\ g <= h
                 /\ i < n => h + 1 \in 1 .. M
  <2> HIDE DEF g, n
  <2>1. q[i] = o.logical[g + i - j].offset
    BY <1>6
  <2>2. g + i - j \in Nat /\ g <= g + i - j /\ g + i - j <= f[k]
        /\ (i < n => g + i - j < f[k])
    BY <1>1, <1>4, <1>6
  <2>3. f[k] \in Nat /\ f[k] <= M /\ g >= 1
    BY <1>3, <1>4
  <2> DEFINE h == g + i - j
  <2>4. q[i] = o.logical[h].offset /\ h \in Nat /\ g <= h /\ h <= f[k] /\ (i < n => h < f[k])
    BY <2>1, <2>2
  <2>5. g \in Nat
    BY <1>4
  <2> HIDE DEF h
  <2>6. h \in 1 .. M /\ (i < n => h + 1 \in 1 .. M)
    BY <1>1, <2>3, <2>4, <2>5
  <2> QED BY <2>4, <2>6 DEF h
<1> HIDE DEF g, n, q
<1>7. x.extended_offset # 0 /\ x.logical[1].offset = x.extended_offset
  BY <1>1, SoundFields
<1>8. HasBox(m) /\ e \in Entry /\ e.start = x.extended_offset
  BY <1>7, MixedBox
<1>9. ASSUME NEW i \in 1 .. n, i < j
      PROVE  /\ q[i] \in 1 .. Total - 1
             /\ LastLink(L(i)).type = EXTENDED
             /\ e.start + LastLink(L(i)).start = x.logical[i + 1].offset
  <2>1. i + 3 \in Marks(x) => i + 3 \in gone
    BY <1>5, <1>9
  <2>2. i \in 1 .. Len(x.logical) /\ i < Len(x.logical) /\ q[i] = x.logical[i].offset
    BY <1>5, <1>9
  <2>3. LET a == x.logical[i].offset
            l == Logical(m[a], a)
        IN  /\ a \in 1 .. Total - 1
            /\ LastLink(l).type = EXTENDED
            /\ x.extended_offset + LastLink(l).start = x.logical[i + 1].offset
    BY <2>1, <2>2, MixedLink, SMTT(60)
  <2> QED BY <1>8, <2>2, <2>3
<1>10. ASSUME NEW i \in 1 .. n, ~ (i < j)
       PROVE  LET h == g + i - j
              IN  /\ q[i] \in 1 .. Total - 1
                  /\ PartOf(L(i)) = PartOf(o.logical[h])
                  /\ L(i).offset = o.logical[h].offset
                  /\ i < n =>
                       /\ LastLink(L(i)).type = EXTENDED
                       /\ e.start + LastLink(L(i)).start = o.logical[h + 1].offset
  <2> DEFINE h == g + i - j
             a == o.logical[h].offset
  <2>1. q[i] = a /\ h \in 1 .. M /\ g <= h /\ (i < n => h + 1 \in 1 .. M)
    BY <1>6, <1>10
  <2>2. j = 1 \/ f[j] <= h
    BY <1>4, <2>1
  <2> HIDE DEF h
  <2>3. m[a] = d[a] /\ a \in 1 .. Total - 1
    BY <2>1, <2>2, OldIsThere
  <2>4. LET l == Logical(d[a], a)
        IN  /\ PartOf(l) = PartOf(o.logical[h])
            /\ h + 1 \in 1 .. M =>
                 /\ LastLink(l).type = EXTENDED
                 /\ o.extended_offset + LastLink(l).start = o.logical[h + 1].offset
    BY <2>1, OldChain
  <2>5. L(i) = Logical(d[a], a) /\ L(i).offset = a
    BY <2>1, <2>3 DEF Logical
  <2> QED BY <1>2, <1>8, <2>1, <2>3, <2>4, <2>5 DEF h
<1>11. q \in [1 .. n -> 1 .. Total - 1]
  <2>1. \A i \in 1 .. n : q[i] \in 1 .. Total - 1
    BY <1>9, <1>10
  <2> QED BY <2>1 DEF q
<1>12. q[1] = e.start
  <2>1. 1 \in 1 .. n
    BY <1>1, <1>4
  <2>2. CASE 1 < j
    BY <1>5, <1>7, <1>8, <2>1, <2>2
  <2>3. CASE ~ (1 < j)
    <3>1. j = 1 /\ g = 1 /\ 1 \in 1 .. M
      BY <1>1, <1>4, <2>3
    <3>2. q[1] = o.logical[1].offset
      BY <1>6, <2>1, <2>3, <3>1
    <3>3. o.logical[1].offset = o.extended_offset
      BY <3>1, OldChain
    <3> QED BY <1>2, <1>8, <3>2, <3>3
  <2> QED BY <2>2, <2>3
<1>13. ASSUME NEW i \in 1 .. n - 1
       PROVE  LastLink(L(i)).type = EXTENDED /\ e.start + LastLink(L(i)).start = q[i + 1]
  <2>1. i \in 1 .. n /\ i + 1 \in 1 .. n /\ i < n /\ i \in Nat
    BY <1>4
  <2>2. CASE i + 1 < j
    <3>1. i < j
      BY <1>1, <2>1, <2>2
    <3> QED BY <1>5, <1>9, <2>1, <2>2, <3>1
  <2>3. CASE i + 1 = j
    <3>1. i < j /\ j # 1 /\ j \in 2 .. K /\ ~ (i + 1 < j)
      BY <1>1, <2>1, <2>3, SMTT(60)
    <3>2. g + (i + 1) - j = f[j]
      <4>1. g \in Nat /\ g = f[j] /\ j \in Nat /\ i + 1 = j
        BY <1>1, <1>4, <2>3, <3>1
      <4> QED BY <4>1
    <3>3. q[i + 1] = o.logical[f[j]].offset
      BY <1>6, <2>1, <3>1, <3>2
    <3>4. x.logical[i + 1].offset = o.logical[f[j]].offset
      BY <1>2, <2>3, <3>1
    <3> QED BY <1>9, <2>1, <3>1, <3>3, <3>4
  <2>4. CASE i + 1 > j
    <3>1. ~ (i < j) /\ ~ (i + 1 < j)
      BY <1>1, <2>1, <2>4
    <3>2. g + (i + 1) - j = (g + i - j) + 1
      BY <1>1, <1>4, <2>1
    <3>3. q[i + 1] = o.logical[(g + i - j) + 1].offset
      BY <1>6, <2>1, <3>1, <3>2
    <3> QED BY <1>10, <2>1, <3>1, <3>3
  <2> QED BY <1>1, <2>1, <2>2, <2>3, <2>4
<1>14. Leads(m, e, n, q)
  BY <1>11, <1>12, <1>13 DEF Leads
<1>15. PartOf(L(n)) = PartOf(o.logical[f[k]]) /\ L(n).offset = o.logical[f[k]].offset
  <2>1. n \in 1 .. n /\ ~ (n < j)
    BY <1>1, <1>4
  <2> QED BY <1>4, <1>10, <2>1
<1>16. TableExtent(L(n)) = TableExtent(x.logical[k]) /\ IsData(PartOf(L(n)))
  BY <1>2, <1>15 DEF TableExtent
<1>17. TableExtent(L(n)) \in Extents(ReadTables(m))
  BY <1>4, <1>8, <1>14, <1>16, FoundOnPath
<1> QED BY <1>16, <1>17

(* Where each table has a sector of its own, no two have the same.          *)
LEMMA SectorsAreOwn ==
  ASSUME t \in SoundTables, OwnSectors
  PROVE  OwnSector(t)
<1> DEFINE S == 3 .. Partitions(t) - 1
           F == [i \in S |-> Offset(t, i)]
<1>1. Len(t.logical) \in Nat /\ Partitions(t) = 4 + Len(t.logical)
      /\ Numbers(t) = 0 .. Partitions(t) - 1
  BY SoundFields DEF Numbers, Partitions
<1>2. Numbers(t) \ 0..2 = S
  BY <1>1
<1>3. F \in Surjection(S, TableSectors)
  <2>1. F \in [S -> TableSectors]
    BY <1>2 DEF TableSectors
  <2>2. \A a \in TableSectors : \E i \in S : F[i] = a
    BY <1>2 DEF TableSectors
  <2> HIDE DEF F, S
  <2> QED BY <2>1, <2>2 DEF Surjection
<1>4. IsFiniteSet(S) /\ Cardinality(S) = Partitions(t) - 3
  <2>1. 3 \in Int /\ Partitions(t) - 1 \in Int /\ ~ (3 > Partitions(t) - 1)
        /\ (Partitions(t) - 1) - 3 + 1 = Partitions(t) - 3
    BY <1>1
  <2> QED BY <2>1, FS_Interval
<1>5. Cardinality(TableSectors) = Cardinality(S)
  BY <1>4 DEF OwnSectors
<1> HIDE DEF F, S
<1>6. F \in Injection(S, TableSectors)
  BY <1>3, <1>4, <1>5, FS_Surjection
<1>7. \A i, j \in S : F[i] = F[j] => i = j
  BY <1>6 DEF Injection, IsInjective, F
<1>8. ASSUME NEW j \in 1 .. Len(t.logical), NEW k \in 1 .. Len(t.logical),
             t.logical[j].offset = t.logical[k].offset
      PROVE  j = k
  <2>1. j + 3 \in S /\ k + 3 \in S /\ ~ (j + 3 < 4) /\ ~ (k + 3 < 4)
        /\ (j + 3) - 3 = j /\ (k + 3) - 3 = k
    BY <1>1 DEF S
  <2>2. F[j + 3] = t.logical[j].offset /\ F[k + 3] = t.logical[k].offset
    BY <2>1 DEF F, Offset
  <2>3. j + 3 = k + 3
    BY <1>7, <1>8, <2>1, <2>2
  <2> QED BY <2>3
<1> QED BY <1>8 DEF OwnSector

(* What is kept is found on the disk, however much has been written.        *)
LEMMA MixKeeps ==
  ASSUME NEW d, Tidy(d), OwnSector(ReadTables(d)), NEW x \in SoundTables,
         OwnSector(x), OneBox(x), Recorded(d, x),
         NEW keep, keep \subseteq Extents(x), keep \subseteq Extents(ReadTables(d)),
         Heirs(ReadTables(d), x, keep), NEW gone, NEW m, Mixed(d, x, gone, m)
  PROVE  keep \subseteq Extents(ReadTables(m))
<1>1. CASE 3 \in Marks(x) /\ 3 \notin gone
  <2>1. m = d
    BY <1>1, PrimaryIsFirst
  <2> QED BY <2>1
<1>2. CASE 3 \in Marks(x) => 3 \in gone
  <2> SUFFICES ASSUME NEW p \in keep PROVE p \in Extents(ReadTables(m))
    OBVIOUS
  <2>1. Tidy(m)
    BY MixIsTidy
  <2>2. Len(x.logical) \in Nat
    BY SoundFields
  <2>3. \/ \E i \in 0..3 : IsData(x.primary[i]) /\ p = PrimaryExtent(x.primary[i])
        \/ \E k \in 1 .. Len(x.logical) :
             IsData(PartOf(x.logical[k])) /\ p = TableExtent(x.logical[k])
    <3>1. p \in Extents(x)
      OBVIOUS
    <3> QED BY <2>2, <3>1, ExtentElements
  <2>4. ASSUME NEW i \in 0..3, IsData(x.primary[i]), p = PrimaryExtent(x.primary[i])
        PROVE  p \in Extents(ReadTables(m))
    BY <1>2, <2>1, <2>4, MixedPrimaryFound
  <2>5. ASSUME NEW k \in 1 .. Len(x.logical), IsData(PartOf(x.logical[k])),
               p = TableExtent(x.logical[k])
        PROVE  p \in Extents(ReadTables(m))
    <3> DEFINE Bad == {j \in 1 .. k : j + 3 \in Marks(x) /\ j + 3 \notin gone}
    <3>1. CASE Bad = {}
      <4>1. \A j \in 1 .. k : j + 3 \in Marks(x) => j + 3 \in gone
        BY <3>1
      <4>2. TableExtent(x.logical[k]) \in Extents(ReadTables(m))
        BY <1>2, <2>1, <2>5, <4>1, NewPath
      <4> QED BY <2>5, <4>2
    <3>2. CASE Bad # {}
      <4> DEFINE j == Min(Bad)
      <4>1. j \in Bad /\ \A i \in Bad : j <= i
        <5>1. Bad \in SUBSET Nat
          OBVIOUS
        <5> HIDE DEF Bad
        <5> QED BY <3>2, <5>1, LeastElement
      <4> HIDE DEF j
      <4>2. j \in 1 .. k /\ j + 3 \in Marks(x) /\ j + 3 \notin gone
        BY <4>1
      <4>3. \A i \in 1 .. j - 1 : i + 3 \in Marks(x) => i + 3 \in gone
        <5> SUFFICES ASSUME NEW i \in 1 .. j - 1, i + 3 \in Marks(x), i + 3 \notin gone
                     PROVE  FALSE
          OBVIOUS
        <5>1. i \in 1 .. k /\ ~ (j <= i)
          BY <2>2, <4>2
        <5> QED BY <4>1, <5>1
      <4> HIDE DEF Bad
      <4>4. PICK K \in 0 .. Len(x.logical) :
              \E f \in [1 .. K -> 1 .. Len(ReadTables(d).logical)] :
                Descends(ReadTables(d), x, keep, K, f)
        BY DEF Heirs
      <4>5. PICK f \in [1 .. K -> 1 .. Len(ReadTables(d).logical)] :
              Descends(ReadTables(d), x, keep, K, f)
        BY <4>4
      <4>6. ~ (k > K)
        BY <2>5, <4>5 DEF Descends
      <4>7. j \in 1 .. K /\ k \in j .. K
        BY <2>2, <4>2, <4>6
      <4>8. TableExtent(x.logical[k]) \in keep
        BY <2>5
      <4>9. TableExtent(x.logical[k]) \in Extents(ReadTables(m))
        BY <1>2, <2>1, <2>5, <4>2, <4>3, <4>5, <4>7, <4>8, OldPath
      <4> QED BY <2>5, <4>9
    <3> QED BY <3>1, <3>2
  <2> QED BY <2>3, <2>4, <2>5
<1> QED BY <1>1, <1>2

(* And when everything is written, so is all that was shown.                *)
LEMMA MixFinds ==
  ASSUME NEW d, Tidy(d), NEW x \in SoundTables,
         OwnSector(x), OneBox(x), Recorded(d, x), NEW m, Mixed(d, x, Marks(x), m)
  PROVE  Extents(x) \subseteq Extents(ReadTables(m))
<1> SUFFICES ASSUME NEW p \in Extents(x) PROVE p \in Extents(ReadTables(m))
  OBVIOUS
<1>1. Tidy(m) /\ Len(x.logical) \in Nat
  BY MixIsTidy, SoundFields
<1>2. \/ \E i \in 0..3 : IsData(x.primary[i]) /\ p = PrimaryExtent(x.primary[i])
      \/ \E k \in 1 .. Len(x.logical) :
           IsData(PartOf(x.logical[k])) /\ p = TableExtent(x.logical[k])
  BY <1>1, ExtentElements
<1>3. ASSUME NEW i \in 0..3, IsData(x.primary[i])
      PROVE  PrimaryExtent(x.primary[i]) \in Extents(ReadTables(m))
  BY <1>1, <1>3, MixedPrimaryFound
<1>4. ASSUME NEW k \in 1 .. Len(x.logical), IsData(PartOf(x.logical[k]))
      PROVE  TableExtent(x.logical[k]) \in Extents(ReadTables(m))
  BY <1>1, <1>4, NewPath
<1> QED BY <1>2, <1>3, <1>4

(* A disk on which one extended primary at most leads anywhere, and no      *)
(* sector is in the chain of logical tables twice.                          *)
LinkedDisks ==
  \A d \in Disks : CanRead(d) => OneBox(ReadTables(d)) /\ OwnSector(ReadTables(d))

\* d is the disk the session found, and what has been written is on it.
Since(d) ==
  /\ CanRead(d) /\ Recorded(d, t)
  /\ kept \subseteq Extents(ReadTables(d))
  /\ Heirs(ReadTables(d), t, kept)
  /\ \E gone \in SUBSET Marks(t) :
       /\ Mixed(d, t, gone, disk)
       /\ mode \in {"open", "stuck"} => gone = {} /\ disk = d
       /\ mode = "writing" => todo = Marks(t) \ gone
       /\ mode = "saved" => gone = Marks(t)

WriteInv ==
  /\ TablesInv
  /\ OneBox(t)
  /\ kept \subseteq Extents(t)
  /\ \E d \in Disks : Since(d)

(* A disk that is not written on.                                           *)
LEMMA NothingWritten ==
  ASSUME NEW d, Tidy(d), NEW x
  PROVE  Mixed(d, x, {}, d)
BY DEF Mixed, Tidy

(* The invariant holds when the tables have been read.                      *)
LEMMA WriteInit == TidyDisks /\ LinkedDisks /\ Init => WriteInv
<1> SUFFICES ASSUME TidyDisks, LinkedDisks, Init PROVE WriteInv
  OBVIOUS
<1> DEFINE d == disk
<1>1. /\ d \in Disks /\ CanRead(d) /\ t = ReadTables(d) /\ mode = "open"
      /\ kept = Extents(t)
  BY DEF Init
<1>2. TablesInv /\ Tidy(d)
  BY <1>1, InvInit, DisksAreTidy
<1>3. t \in SoundTables /\ Recorded(d, t)
  BY <1>1, <1>2 DEF TablesInv
<1>4. OneBox(t)
  BY <1>1 DEF LinkedDisks
<1>5. Heirs(t, t, kept)
  BY <1>1, <1>3, SameIsLoyal DEF Loyal
<1>6. Mixed(d, t, {}, disk) /\ {} \in SUBSET Marks(t)
  BY <1>2, NothingWritten
<1>7. Since(d)
  BY <1>1, <1>3, <1>5, <1>6 DEF Since
<1> QED BY <1>1, <1>2, <1>4, <1>7 DEF WriteInv

(* A command that keeps faith keeps the invariant.                          *)
LEMMA EditIsLoyal ==
  ASSUME TidyDisks, WriteInv, mode = "open", NEW x \in SoundTables, Remembers(t, x),
         Loyal(t, x), Edit(x)
  PROVE  WriteInv'
<1>1. t' = x /\ kept' = kept \cap Extents(x) /\ mode' = mode /\ todo' = todo /\ disk' = disk
  BY DEF Edit
<1>2. TablesInv /\ OneBox(t) /\ kept \subseteq Extents(t) /\ t \in SoundTables
  BY DEF WriteInv, TablesInv
<1>3. TablesInv'
  BY <1>2, EditKeeps
<1>4. PICK d \in Disks : Since(d)
  BY DEF WriteInv
<1>5. Tidy(d)
  BY DisksAreTidy
<1> DEFINE o == ReadTables(d)
<1>6. /\ CanRead(d) /\ Recorded(d, t) /\ kept \subseteq Extents(o)
      /\ Heirs(o, t, kept) /\ disk = d
  BY <1>4 DEF Since
<1>7. Recorded(d, x)
  BY <1>2, <1>6, RememberedIsRecorded
<1>8. Heirs(o, x, kept \cap Extents(x))
  <2>1. Len(o.logical) \in Nat /\ Len(t.logical) \in Nat /\ Len(x.logical) \in Nat
    BY <1>2, <1>5, ReadChain, SoundFields
  <2>2. Heirs(t, x, Extents(t))
    BY DEF Loyal
  <2> HIDE DEF o
  <2> QED BY <1>2, <1>6, <2>1, <2>2, HeirsOfHeirs
<1>9. Mixed(d, x, {}, d) /\ {} \in SUBSET Marks(x)
  BY <1>5, NothingWritten
<1>10. OneBox(x)
  BY <1>2 DEF Loyal
<1> HIDE DEF o
<1>11. Since(d)'
  <2>1. Recorded(d, t') /\ CanRead(d) /\ kept' \subseteq Extents(ReadTables(d))
        /\ Heirs(ReadTables(d), t', kept')
    BY <1>1, <1>6, <1>7, <1>8 DEF o
  <2>2. {} \in SUBSET Marks(t') /\ Mixed(d, t', {}, disk') /\ disk' = d /\ mode' = "open"
    BY <1>1, <1>6, <1>9
  <2> QED BY <2>1, <2>2 DEF Since
<1>12. OneBox(t') /\ kept' \subseteq Extents(t')
  BY <1>1, <1>10
<1> QED BY <1>3, <1>11, <1>12 DEF WriteInv

(* So does a step that neither edits nor writes.                            *)
LEMMA RestKeeps ==
  ASSUME WriteInv, TablesInv', UNCHANGED <<t, kept, disk>>,
         \/ mode' = mode /\ todo' = todo
         \/ mode = "open" /\ mode' = "stuck"
         \/ mode = "open" /\ mode' = "writing" /\ todo' = Marks(t)
         \/ mode = "writing" /\ todo = {} /\ mode' = "saved"
         \/ mode' = "closed"
  PROVE  WriteInv'
<1>1. t' = t /\ kept' = kept /\ disk' = disk
  OBVIOUS
<1>2. PICK d \in Disks : Since(d)
  BY DEF WriteInv
<1>3. PICK gone \in SUBSET Marks(t) :
        /\ Mixed(d, t, gone, disk)
        /\ mode \in {"open", "stuck"} => gone = {} /\ disk = d
        /\ mode = "writing" => todo = Marks(t) \ gone
        /\ mode = "saved" => gone = Marks(t)
  BY <1>2 DEF Since
<1>4. /\ mode' \in {"open", "stuck"} => gone = {} /\ disk = d
      /\ mode' = "writing" => todo' = Marks(t) \ gone
      /\ mode' = "saved" => gone = Marks(t)
  BY <1>3
<1>5. /\ CanRead(d) /\ Recorded(d, t) /\ kept \subseteq Extents(ReadTables(d))
      /\ Heirs(ReadTables(d), t, kept)
  BY <1>2 DEF Since
<1>6. Since(d)'
  BY <1>1, <1>3, <1>4, <1>5 DEF Since
<1>7. OneBox(t') /\ kept' \subseteq Extents(t')
  BY <1>1 DEF WriteInv
<1> QED BY <1>6, <1>7 DEF WriteInv

(* A table is put on the disk: the first of those that are left.            *)
LEMMA PutKeeps ==
  ASSUME WriteInv, TablesInv', WriteTable
  PROVE  WriteInv'
<1> DEFINE i == Min(todo)
           a == Offset(t, i)
           w == [slots |-> Slots(i), flag |-> TRUE]
<1>1. /\ todo # {} /\ mode = "writing" /\ mode' = mode /\ t' = t /\ kept' = kept
      /\ todo' = todo \ {i} /\ disk' = [disk EXCEPT ![a] = w]
  BY DEF WriteTable, Put
<1>2. t \in SoundTables /\ todo \subseteq Numbers(t) /\ Numbers(t) \subseteq Nat
  BY DEF WriteInv, TablesInv, Numbers
<1>3. i \in todo /\ \A j \in todo : i <= j
  <2>1. todo \in SUBSET Nat
    BY <1>2
  <2> QED BY <1>1, <2>1, LeastElement
<1>4. PICK d \in Disks : Since(d)
  BY DEF WriteInv
<1>5. PICK gone \in SUBSET Marks(t) :
        /\ Mixed(d, t, gone, disk)
        /\ mode \in {"open", "stuck"} => gone = {} /\ disk = d
        /\ mode = "writing" => todo = Marks(t) \ gone
        /\ mode = "saved" => gone = Marks(t)
  BY <1>4 DEF Since
<1> HIDE DEF i, a, w
<1>6. todo = Marks(t) \ gone /\ i \in Marks(t) /\ i \in Nat
  BY <1>1, <1>2, <1>3, <1>5
<1> DEFINE more == gone \cup {i}
<1>7. more \subseteq Marks(t) /\ todo' = Marks(t) \ more
  BY <1>1, <1>6
<1>8. Slots(i) = TableOf(t, i)
  BY DEF Slots, TableOf
<1>9. a \in 0 .. Total - 1 /\ Slots(i) \in [0..3 -> Entry]
  <2>1. \/ a = 0 /\ TableOf(t, i) = t.primary
        \/ /\ i - 3 \in 1 .. Len(t.logical) /\ a \in 1 .. Total - 1
           /\ TableOf(t, i) = t.logical[i - 3].slots
    BY <1>2, <1>6, MarkIsTable DEF a
  <2>2. \A k \in 1 .. Len(t.logical) : t.logical[k].slots \in [0..3 -> Entry]
    BY <1>2, SoundFields, TableFields
  <2>3. t.primary \in [0..3 -> Entry]
    BY <1>2, SoundFields
  <2> QED BY <1>8, <2>1, <2>2, <2>3, TotalIsPositive
<1>10. w \in [slots : [0..3 -> Entry], flag : BOOLEAN] /\ w.slots = TableOf(t, i)
  BY <1>8, <1>9 DEF w
<1>11. Mixed(d, t, more, disk')
  <2> DEFINE R == [slots : [0..3 -> Entry], flag : BOOLEAN]
  <2>1. disk \in [0 .. Total - 1 -> R]
    BY <1>5 DEF Mixed
  <2>2. w \in R
    BY <1>10
  <2> HIDE DEF R
  <2>3. disk' \in [0 .. Total - 1 -> R]
    BY <1>1, <1>9, <2>1, <2>2
  <2>4. \A b \in 0 .. Total - 1 : disk'[b] = IF b = a THEN w ELSE disk[b]
    BY <1>1, <1>9, <2>1
  <2>5. \A j \in gone, k \in Marks(t) \ gone : j < k
    BY <1>5 DEF Mixed
  <2>6. ASSUME NEW j \in more, NEW k \in Marks(t) \ more PROVE j < k
    <3>1. k \in Marks(t) \ gone /\ k # i
      OBVIOUS
    <3>2. CASE j \in gone
      BY <2>5, <3>1, <3>2
    <3>3. CASE j = i
      <4>1. k \in todo /\ i <= k /\ k \in Nat
        BY <1>2, <1>3, <1>6, <3>1
      <4> QED BY <1>6, <3>1, <3>3, <4>1
    <3> QED BY <3>2, <3>3
  <2>7. ASSUME NEW b \in 0 .. Total - 1
        PROVE  \/ \E j \in more : Offset(t, j) = b /\ disk'[b].slots = TableOf(t, j)
               \/ disk'[b] = d[b] /\ \A j \in more : Offset(t, j) # b
    <3>1. CASE b = a
      <4>1. i \in more /\ Offset(t, i) = b /\ disk'[b].slots = TableOf(t, i)
        BY <1>10, <2>4, <3>1 DEF a
      <4> QED BY <4>1
    <3>2. CASE b # a
      <4>1. disk'[b] = disk[b] /\ Offset(t, i) # b
        BY <2>4, <3>2 DEF a
      <4>2. \/ \E j \in gone : Offset(t, j) = b /\ disk[b].slots = TableOf(t, j)
            \/ disk[b] = d[b] /\ \A j \in gone : Offset(t, j) # b
        BY <1>5 DEF Mixed
      <4> QED BY <4>1, <4>2
    <3> QED BY <3>1, <3>2
  <2> HIDE DEF more
  <2> QED BY <1>7, <2>3, <2>6, <2>7 DEF Mixed, R
<1> HIDE DEF more
<1>12. /\ CanRead(d) /\ Recorded(d, t) /\ kept \subseteq Extents(ReadTables(d))
       /\ Heirs(ReadTables(d), t, kept)
  BY <1>4 DEF Since
<1>13. Since(d)'
  <2>1. more \in SUBSET Marks(t') /\ Mixed(d, t', more, disk') /\ mode' = "writing"
        /\ todo' = Marks(t') \ more
    BY <1>1, <1>7, <1>11
  <2>2. /\ CanRead(d) /\ Recorded(d, t') /\ kept' \subseteq Extents(ReadTables(d))
        /\ Heirs(ReadTables(d), t', kept')
    BY <1>1, <1>12
  <2> QED BY <2>1, <2>2 DEF Since
<1>14. OneBox(t') /\ kept' \subseteq Extents(t')
  BY <1>1 DEF WriteInv
<1> QED BY <1>13, <1>14 DEF WriteInv

(* The sectors a new logical partition is given are free.                   *)
LEMMA NewLogicalIsClear ==
  ASSUME t \in SoundTables, u \in Units, t.extended_offset # 0,
         HasRoom(Room(t), u, Partitions(Room(t)) - 1),
         NEW a \in Answers(Room(t), Partitions(Room(t)) - 1)
  PROVE  /\ a[1] \in Nat /\ a[2] \in Nat
         /\ t.extended_offset + u.sector_offset <= a[1]
         /\ a[1] <= a[2] /\ a[2] <= Total - 1
         /\ Clear(t, a[1], a[2])
<1> DEFINE r == Room(t)
           n == Partitions(r) - 1
<1>1. PICK start \in Starts(r, u, n, TypedStarts) :
        a \in {<<start, stop>> : stop \in Stops(r, u, n, start, TypedStops)}
  BY DEF Answers
<1>2. PICK stop \in Stops(r, u, n, start, TypedStops) : a = <<start, stop>>
  BY <1>1
<1>3. /\ start \in Nat /\ stop \in Nat
      /\ t.extended_offset + u.sector_offset <= start
      /\ start <= stop /\ stop <= Total - 1
      /\ Clear(t, start, stop)
  BY LogicalIsClear
<1>4. a[1] = start /\ a[2] = stop
  BY <1>2
<1> QED BY <1>3, <1>4

(* Every step keeps the invariant.                                          *)
LEMMA WriteNext == TidyDisks /\ WriteInv /\ [Next]_vars => WriteInv'
<1> SUFFICES ASSUME TidyDisks, WriteInv, [Next]_vars PROVE WriteInv'
  OBVIOUS
<1>1. /\ TablesInv /\ TablesInv' /\ t \in SoundTables /\ u \in Units /\ mode \in Modes
      /\ mode = "open" => todo = {}
  BY InvNext DEF WriteInv, TablesInv
<1>2. ASSUME NEW n \in 0..3, NewPrimary(n) PROVE WriteInv'
  <2>1. mode = "open" /\ t.primary[n].type = Empty
    BY <1>2 DEF NewPrimary, MayAdd, Prompt
  <2>2. PICK a \in Answers(t, n) : Edit(AddPrimary(t, n, a[1], a[2]))
    BY <1>2 DEF NewPrimary
  <2>3. a[1] \in Nat /\ a[2] \in Nat /\ a[1] <= a[2]
    BY <1>1, PrimaryAnswers
  <2>4. AddPrimary(t, n, a[1], a[2]) \in SoundTables
        /\ Remembers(t, AddPrimary(t, n, a[1], a[2]))
        /\ Loyal(t, AddPrimary(t, n, a[1], a[2]))
    BY <1>1, <2>1, <2>3, AddPrimaryIsSound, AddPrimaryIsLoyal
  <2> QED BY <2>1, <2>2, <2>4, EditIsLoyal
<1>3. ASSUME NEW n \in 0..3, NewExtended(n) PROVE WriteInv'
  <2>1. mode = "open" /\ t.extended_offset = 0
    BY <1>3 DEF NewExtended, MayAdd, Prompt
  <2>2. PICK a \in Answers(t, n) : Edit(AddExtended(t, n, a[1], a[2]))
    BY <1>3 DEF NewExtended
  <2>3. a[1] \in Nat /\ a[2] \in Nat /\ 1 <= a[1] /\ a[1] <= a[2] /\ a[2] <= Total - 1
    BY <1>1, PrimaryAnswers
  <2>4. AddExtended(t, n, a[1], a[2]) \in SoundTables
        /\ Remembers(t, AddExtended(t, n, a[1], a[2]))
        /\ Loyal(t, AddExtended(t, n, a[1], a[2]))
    BY <1>1, <2>1, <2>3, AddExtendedIsSound, AddExtendedIsLoyal, ZenonT(60)
  <2> QED BY <2>1, <2>2, <2>4, EditIsLoyal
<1>4. ASSUME NewLogicalPartition PROVE WriteInv'
  <2> DEFINE r == Room(t)
             n == Partitions(r) - 1
  <2>1. /\ mode = "open" /\ Partitions(t) < MaximumParts /\ t.extended_offset # 0
        /\ HasRoom(r, u, n)
    BY <1>4 DEF NewLogicalPartition, MayAdd, Prompt
  <2>2. AskForEver \/ \E a \in Answers(r, n) : Edit(AddLogical(r, u, a[1], a[2]))
    BY <1>4 DEF NewLogicalPartition
  <2>3. CASE AskForEver
    BY <1>1, <2>1, <2>3, RestKeeps DEF AskForEver
  <2>4. CASE \E a \in Answers(r, n) : Edit(AddLogical(r, u, a[1], a[2]))
    <3>1. PICK a \in Answers(r, n) : Edit(AddLogical(r, u, a[1], a[2]))
      BY <2>4
    <3>2. Len(t.logical) < MaxLogical
      BY <1>1, <2>1, SoundFields, GeometryNumbers DEF Partitions, MaxLogical
    <3>3. /\ a[1] \in Nat /\ a[2] \in Nat
          /\ t.extended_offset + u.sector_offset <= a[1]
          /\ a[1] <= a[2] /\ a[2] <= Total - 1
          /\ Clear(t, a[1], a[2])
      BY <1>1, <2>1, NewLogicalIsClear
    <3>4. AddLogical(r, u, a[1], a[2]) \in SoundTables
          /\ Remembers(t, AddLogical(r, u, a[1], a[2]))
      BY <1>1, <2>1, <3>2, <3>3, AddLogicalIsSound
    <3>5. Loyal(t, AddLogical(r, u, a[1], a[2]))
      BY <1>1, <2>1, <3>2, <3>3, AddLogicalIsLoyal
    <3> HIDE DEF r
    <3> QED BY <2>1, <3>1, <3>4, <3>5, EditIsLoyal
  <2> QED BY <2>2, <2>3, <2>4
<1>5. ASSUME NEW i \in Numbers(t), Delete(i) PROVE WriteInv'
  <2>1. mode = "open" /\ Edit(DeletePartition(t, i))
    BY <1>5 DEF Delete, Chosen, Prompt
  <2>2. DeletePartition(t, i) \in SoundTables
        /\ Remembers(t, DeletePartition(t, i))
        /\ Loyal(t, DeletePartition(t, i))
    BY <1>1, DeleteIsSound, DeleteIsLoyal
  <2> QED BY <2>1, <2>2, EditIsLoyal
<1>6. ASSUME NEW i \in Numbers(t), ChangeSysid(i) PROVE WriteInv'
  <2>1. mode = "open" /\ IsData(PartEntry(t, i))
    BY <1>6 DEF ChangeSysid, Chosen, Prompt
  <2>2. PICK type \in Types \ {PartEntry(t, i).type} : Edit(SetType(t, i, type))
    BY <1>6 DEF ChangeSysid
  <2>3. SetType(t, i, type) \in SoundTables
        /\ Remembers(t, SetType(t, i, type))
        /\ Loyal(t, SetType(t, i, type))
    BY <1>1, <2>1, SetTypeIsSound, SetTypeIsLoyal
  <2> QED BY <2>1, <2>2, <2>3, EditIsLoyal
<1>7. ASSUME NEW i \in Numbers(t), Activate(i) PROVE WriteInv'
  <2>1. mode = "open" /\ Edit(ToggleActive(t, i))
    BY <1>7 DEF Activate, Chosen, Prompt
  <2>2. ToggleActive(t, i) \in SoundTables
        /\ Remembers(t, ToggleActive(t, i))
        /\ Loyal(t, ToggleActive(t, i))
    BY <1>1, ToggleIsSound, ToggleIsLoyal
  <2> QED BY <2>1, <2>2, EditIsLoyal
<1>8. ASSUME NEW i \in Numbers(t), MoveBeginning(i) PROVE WriteInv'
  <2>1. mode = "open" /\ IsData(PartEntry(t, i))
    BY <1>8 DEF MoveBeginning, Chosen, Prompt
  <2>2. PICK first \in PartEntry(t, i).begin .. LastSector(t, i) :
          Edit(MoveBegin(t, i, first))
    BY <1>8 DEF MoveBeginning
  <2>3. MoveBegin(t, i, first) \in SoundTables
        /\ Remembers(t, MoveBegin(t, i, first))
        /\ Loyal(t, MoveBegin(t, i, first))
    BY <1>1, <2>1, MoveBeginIsSound, MoveBeginIsLoyal
  <2> QED BY <2>1, <2>2, <2>3, EditIsLoyal
<1>9. ASSUME ToggleDos \/ ChangeUnits PROVE WriteInv'
  BY <1>1, <1>9, RestKeeps DEF ToggleDos, ChangeUnits, SetUnits
<1>10. ASSUME StartWrite PROVE WriteInv'
  <2>1. Marked = Marks(t)
    BY DEF Marked, Marks
  <2> QED BY <1>1, <1>10, <2>1, RestKeeps DEF StartWrite
<1>11. ASSUME WriteTable PROVE WriteInv'
  BY <1>1, <1>11, PutKeeps
<1>12. ASSUME Finish PROVE WriteInv'
  BY <1>1, <1>12, RestKeeps DEF Finish
<1>13. ASSUME Stop PROVE WriteInv'
  BY <1>1, <1>13, RestKeeps DEF Stop
<1>14. ASSUME UNCHANGED vars PROVE WriteInv'
  BY <1>1, <1>14, RestKeeps DEF vars
<1> QED BY <1>2, <1>3, <1>4, <1>5, <1>6, <1>7, <1>8, <1>9, <1>10, <1>11, <1>12,
           <1>13, <1>14 DEF Next

(* The invariant gives both properties.                                     *)
LEMMA WriteGivesFound ==
  TidyDisks /\ LinkedDisks /\ WriteInv => TornWriteKeepsPartitions /\ SavedIsFound
<1> SUFFICES ASSUME TidyDisks, LinkedDisks, WriteInv, OwnSectors
             PROVE  /\ kept \subseteq Found
                    /\ mode = "saved" => Extents(t) \subseteq Found
  BY DEF TornWriteKeepsPartitions, SavedIsFound
<1>1. t \in SoundTables /\ OneBox(t) /\ kept \subseteq Extents(t)
  BY DEF WriteInv, TablesInv
<1>2. PICK d \in Disks : Since(d)
  BY DEF WriteInv
<1>3. PICK gone \in SUBSET Marks(t) :
        /\ Mixed(d, t, gone, disk)
        /\ mode \in {"open", "stuck"} => gone = {} /\ disk = d
        /\ mode = "writing" => todo = Marks(t) \ gone
        /\ mode = "saved" => gone = Marks(t)
  BY <1>2 DEF Since
<1>4. /\ CanRead(d) /\ Recorded(d, t) /\ kept \subseteq Extents(ReadTables(d))
      /\ Heirs(ReadTables(d), t, kept)
  BY <1>2 DEF Since
<1>5. Tidy(d) /\ OwnSector(ReadTables(d)) /\ OwnSector(t)
  BY <1>1, <1>4, DisksAreTidy, SectorsAreOwn DEF LinkedDisks
<1>6. kept \subseteq Found
  BY <1>1, <1>3, <1>4, <1>5, MixKeeps DEF Found
<1>7. ASSUME mode = "saved" PROVE Extents(t) \subseteq Found
  <2>1. Mixed(d, t, Marks(t), disk)
    BY <1>3, <1>7
  <2> QED BY <1>1, <1>4, <1>5, <2>1, MixFinds DEF Found
<1> QED BY <1>6, <1>7

(* write_table, table by table: wherever it stops, at a failed write or a   *)
(* power failure, the disk leads to every partition that was found on it    *)
(* and has not been deleted, if every table has a sector of its own.  The   *)
(* tables written lead along the new chain, and from the first one that is  *)
(* still to be written on the old chain goes on, because commands only drop *)
(* tables of the old chain and append new ones behind it.                   *)
THEOREM NoPartitionIsLost ==
  TidyDisks /\ LinkedDisks /\ Spec => []TornWriteKeepsPartitions
<1> SUFFICES ASSUME TidyDisks, LinkedDisks PROVE Spec => []TornWriteKeepsPartitions
  OBVIOUS
<1>1. Init => WriteInv
  BY WriteInit
<1>2. WriteInv /\ [Next]_vars => WriteInv'
  BY WriteNext
<1>3. WriteInv => TornWriteKeepsPartitions
  BY WriteGivesFound
<1> QED BY <1>1, <1>2, <1>3, PTL DEF Spec

(* write_table to its end: the next session finds every partition that was  *)
(* shown when w was given.                                                  *)
THEOREM EveryPartitionIsSaved ==
  TidyDisks /\ LinkedDisks /\ Spec => []SavedIsFound
<1> SUFFICES ASSUME TidyDisks, LinkedDisks PROVE Spec => []SavedIsFound
  OBVIOUS
<1>1. Init => WriteInv
  BY WriteInit
<1>2. WriteInv /\ [Next]_vars => WriteInv'
  BY WriteNext
<1>3. WriteInv => SavedIsFound
  BY WriteGivesFound
<1> QED BY <1>1, <1>2, <1>3, PTL DEF Spec

=============================================================================
