------------------------- MODULE PartitionMapProofs -------------------------
(***************************************************************************)
(* Facts about the list operators and the map operators of PartitionMap,    *)
(* cited by the proofs about MapEditor.                                     *)
(***************************************************************************)
EXTENDS PartitionMap, WellFoundedInduction, SequenceTheorems, FiniteSetTheorems, TLAPS

(* A nonempty set of naturals has a least element, which Min returns.       *)
LEMMA LeastExists ==
  ASSUME NEW S \in SUBSET Nat, S # {}
  PROVE  /\ Min(S) \in S
         /\ \A j \in S : Min(S) <= j
<1> DEFINE R == {ss \in Nat \X Nat : ss[1] < ss[2]}
<1>1. IsWellFoundedOn(R, Nat)
  BY NatLessThanWellFounded DEF OpToRel
<1>2. PICK x \in S : \A y \in S : ~ (<<y, x>> \in R)
  <2> HIDE DEF R
  <2> QED BY <1>1, WFMin
<1>3. ASSUME NEW y \in S PROVE x <= y
  <2>1. ~ (y < x)
    BY <1>2, x \in Nat, y \in Nat
  <2> QED BY <2>1, x \in Nat, y \in Nat
<1> QED BY <1>3 DEF Min

(* A u32 computation gives a u32, and the exact result when that fits.      *)
LEMMA WrapIsU32 ==
  ASSUME NEW n \in Int
  PROVE  Wrap(n) \in 0 .. U32 - 1
BY U32Assumption DEF Wrap

LEMMA WrapSmall ==
  ASSUME NEW n \in 0 .. U32 - 1
  PROVE  Wrap(n) = n
BY U32Assumption DEF Wrap

-----------------------------------------------------------------------------
(* Linked lists.                                                            *)

Distinct(list) == \A i, j \in 1 .. Len(list) : list[i] = list[j] => i = j

(* insert_in_disk_order and insert_in_base_order find a place in any list,  *)
(* sorted or not.                                                           *)
LEMMA SlotsExist ==
  ASSUME NEW list \in Seq(Entry), NEW key \in [Entry -> Int], NEW v \in Int
  PROVE  /\ Slots(list, key, v) \in SUBSET Nat
         /\ Slots(list, key, v) # {}
<1> DEFINE n == Len(list)
           T == {i \in 1 .. n : v <= key[list[i]]}
<1>0. n \in Nat /\ \A i \in 1 .. n : list[i] \in Entry
  BY LenProperties
<1>1. CASE T = {}
  <2>1. n + 1 \in Slots(list, key, v)
    <3>1. n + 1 > 1 => key[list[n]] <= v
      BY <1>0, <1>1
    <3> QED BY <3>1, <1>0 DEF Slots
  <2> QED BY <2>1, <1>0 DEF Slots
<1>2. CASE T # {}
  <2>1. Min(T) \in T /\ \A j \in T : Min(T) <= j
    BY <1>2, LeastExists, T \in SUBSET Nat
  <2> DEFINE i == Min(T)
  <2>2. i > 1 => key[list[i - 1]] <= v
    <3> SUFFICES ASSUME i > 1 PROVE key[list[i - 1]] <= v
      OBVIOUS
    <3>1. i - 1 \in 1 .. n /\ i - 1 \notin T
      BY <2>1, <1>0
    <3> QED BY <3>1, <1>0
  <2>3. i \in Slots(list, key, v)
    BY <2>1, <2>2, <1>0 DEF Slots
  <2> QED BY <2>3, <1>0 DEF Slots
<1> QED BY <1>1, <1>2

(* Inserting an element that is not in the list adds exactly that element.  *)
LEMMA InsertAtKeepsDistinct ==
  ASSUME NEW list \in Seq(Entry), NEW e \in Entry, NEW k \in 1 .. Len(list) + 1,
         Distinct(list), e \notin ToSet(list)
  PROVE  /\ InsertAt(list, k, e) \in Seq(Entry)
         /\ Len(InsertAt(list, k, e)) = Len(list) + 1
         /\ Distinct(InsertAt(list, k, e))
         /\ ToSet(InsertAt(list, k, e)) = ToSet(list) \cup {e}
         /\ \A i \in 1 .. Len(list) + 1 :
              InsertAt(list, k, e)[i] =
                IF i < k THEN list[i] ELSE IF i = k THEN e ELSE list[i - 1]
<1> DEFINE n == Len(list)
           a == SubSeq(list, 1, k - 1)
           b == SubSeq(list, k, n)
           r == InsertAt(list, k, e)
<1>0. n \in Nat /\ \A i \in 1 .. n : list[i] \in Entry
  BY LenProperties
<1>1. /\ a \in Seq(Entry)
      /\ Len(a) = k - 1
      /\ \A i \in 1 .. k - 1 : a[i] = list[i]
  BY <1>0, SubSeqProperties
<1>2. /\ b \in Seq(Entry)
      /\ Len(b) = n - k + 1
      /\ \A i \in 1 .. n - k + 1 : b[i] = list[k + i - 1]
  BY <1>0, SubSeqProperties
<1>3. /\ <<e>> \in Seq(Entry)
      /\ Len(<<e>>) = 1
      /\ <<e>>[1] = e
  OBVIOUS
<1>4. /\ a \o <<e>> \in Seq(Entry)
      /\ Len(a \o <<e>>) = k
      /\ \A i \in 1 .. k : (a \o <<e>>)[i] = IF i <= k - 1 THEN list[i] ELSE e
  BY <1>0, <1>1, <1>3, ConcatProperties
<1>5. /\ r \in Seq(Entry)
      /\ Len(r) = n + 1
      /\ \A i \in 1 .. n + 1 :
           r[i] = IF i < k THEN list[i] ELSE IF i = k THEN e ELSE list[i - 1]
  <2> DEFINE c == a \o <<e>>
  <2>1. r = c \o b
    BY DEF InsertAt
  <2>2. /\ c \o b \in Seq(Entry)
        /\ Len(c \o b) = Len(c) + Len(b)
        /\ \A i \in 1 .. Len(c) + Len(b) :
             (c \o b)[i] = IF i <= Len(c) THEN c[i] ELSE b[i - Len(c)]
    BY <1>2, <1>4, ConcatProperties
  <2>3. k + (n - k + 1) = n + 1
    BY <1>0
  <2> HIDE DEF r, c, a, b
  <2>4. /\ r \in Seq(Entry)
        /\ Len(r) = n + 1
        /\ \A i \in 1 .. n + 1 : r[i] = IF i <= k THEN c[i] ELSE b[i - k]
    <3>1. Len(c) = k /\ Len(b) = n - k + 1
      BY <1>2, <1>4 DEF c, b
    <3>2. Len(c) + Len(b) = n + 1
      BY <3>1, <2>3
    <3> QED BY <2>1, <2>2, <3>1, <3>2
  <2>5. ASSUME NEW i \in 1 .. n + 1
        PROVE r[i] = IF i < k THEN list[i] ELSE IF i = k THEN e ELSE list[i - 1]
    <3>1. CASE i <= k
      BY <3>1, <2>4, <1>4, <1>0 DEF c
    <3>2. CASE i > k
      <4>1. /\ i - k \in 1 .. n - k + 1
            /\ k + (i - k) - 1 = i - 1
        BY <3>2, <1>0
      <4>2. r[i] = b[i - k]
        BY <3>2, <2>4, <1>0
      <4> QED BY <4>1, <4>2, <1>2, <3>2, <1>0
    <3> QED BY <3>1, <3>2, <1>0
  <2> QED BY <2>4, <2>5
<1>6. \A i \in 1 .. n : list[i] # e
  BY <1>0 DEF ToSet
<1>7. Distinct(r)
  <2> HIDE DEF r
  <2>0. \A i, j \in 1 .. n : list[i] = list[j] => i = j
    BY DEF Distinct
  <2> SUFFICES ASSUME NEW i \in 1 .. n + 1, NEW j \in 1 .. n + 1,
                      r[i] = r[j], i < j
               PROVE  FALSE
    BY <1>0, <1>5 DEF Distinct
  <2>1. CASE i < k /\ j < k
    BY <2>1, <1>0, <1>5, <2>0
  <2>2. CASE i < k /\ j = k
    BY <2>2, <1>0, <1>5, <1>6
  <2>3. CASE i < k /\ j > k
    <3>1. r[i] = list[i] /\ r[j] = list[j - 1] /\ j - 1 \in 1 .. n /\ i \in 1 .. n
      BY <2>3, <1>0, <1>5
    <3>2. i = j - 1
      BY <3>1, <2>0
    <3>3. i < k /\ k < j /\ i \in Int /\ j \in Int /\ k \in Int
      BY <2>3, <1>0
    <3> HIDE DEF n
    <3> QED BY <3>2, <3>3
  <2>4. CASE i = k
    <3>1. r[j] = list[j - 1] /\ j - 1 \in 1 .. n /\ r[i] = e
      BY <2>4, <1>0, <1>5
    <3> QED BY <3>1, <1>6
  <2>5. CASE i > k
    <3>1. /\ r[i] = list[i - 1] /\ i - 1 \in 1 .. n
          /\ r[j] = list[j - 1] /\ j - 1 \in 1 .. n
      BY <2>5, <1>0, <1>5
    <3>2. i - 1 = j - 1
      BY <3>1, <2>0
    <3> QED BY <3>2
  <2> QED BY <2>1, <2>2, <2>3, <2>4, <2>5, <1>0
<1>8. ToSet(r) = ToSet(list) \cup {e}
  <2>1. DOMAIN r = 1 .. n + 1 /\ DOMAIN list = 1 .. n
    BY <1>0, <1>5, LenProperties
  <2>2. ASSUME NEW i \in 1 .. n PROVE \E j \in 1 .. n + 1 : r[j] = list[i]
    <3>1. CASE i < k
      BY <3>1, <1>5, <1>0
    <3>2. CASE ~ (i < k)
      <4>1. i + 1 \in 1 .. n + 1 /\ r[i + 1] = list[i]
        BY <3>2, <1>5, <1>0
      <4> QED BY <4>1
    <3> QED BY <3>1, <3>2
  <2>3. k \in 1 .. n + 1 /\ r[k] = e
    BY <1>5, <1>0
  <2>4. ASSUME NEW i \in 1 .. n + 1
        PROVE r[i] = e \/ \E j \in 1 .. n : r[i] = list[j]
    BY <1>5, <1>0
  <2>5. /\ ToSet(r) = {r[i] : i \in 1 .. n + 1}
        /\ ToSet(list) = {list[i] : i \in 1 .. n}
    BY <2>1 DEF ToSet
  <2> HIDE DEF r, n
  <2>6. ASSUME NEW x \in ToSet(r) PROVE x \in ToSet(list) \cup {e}
    BY <2>4, <2>5
  <2>7. ASSUME NEW x \in ToSet(list) \cup {e} PROVE x \in ToSet(r)
    BY <2>2, <2>3, <2>5
  <2> QED BY <2>6, <2>7
<1> QED BY <1>5, <1>7, <1>8

LEMMA LinkAdds ==
  ASSUME NEW list \in Seq(Entry), NEW key \in [Entry -> Int], NEW e \in Entry,
         Distinct(list), e \notin ToSet(list)
  PROVE  /\ Link(list, key, e) \in Seq(Entry)
         /\ Len(Link(list, key, e)) = Len(list) + 1
         /\ Distinct(Link(list, key, e))
         /\ ToSet(Link(list, key, e)) = ToSet(list) \cup {e}
<1> DEFINE slots == Slots(list, key, key[e])
<1>1. slots \in SUBSET Nat /\ slots # {}
  BY SlotsExist
<1>2. Min(slots) \in slots
  BY <1>1, LeastExists
<1>3. Min(slots) \in 1 .. Len(list) + 1
  BY <1>2 DEF Slots
<1>4. Link(list, key, e) = InsertAt(list, Min(slots), e)
  BY <1>1 DEF Link
<1> QED BY <1>3, <1>4, InsertAtKeepsDistinct

(* An entry with the next number is appended.                               *)
LEMMA LinkAppends ==
  ASSUME NEW list \in Seq(Entry), NEW key \in [Entry -> Int], NEW e \in Entry,
         Distinct(list), e \notin ToSet(list),
         \A i \in 1 .. Len(list) : key[list[i]] = i,
         key[e] = Len(list) + 1
  PROVE  \A i \in 1 .. Len(list) + 1 :
           Link(list, key, e)[i] = IF i <= Len(list) THEN list[i] ELSE e
<1> DEFINE n == Len(list)
           slots == Slots(list, key, n + 1)
<1>0. n \in Nat
  BY LenProperties
<1>1. slots \in SUBSET Nat /\ slots # {}
  BY <1>0, SlotsExist
<1>2. \A i \in slots : i = n + 1
  BY <1>0 DEF Slots
<1>3. Min(slots) = n + 1
  BY <1>1, <1>2, LeastExists
<1>4. Link(list, key, e) = InsertAt(list, n + 1, e)
  BY <1>1, <1>3 DEF Link
<1> HIDE DEF slots
<1>5. n + 1 \in 1 .. n + 1
  BY <1>0
<1>6. \A i \in 1 .. n + 1 :
        InsertAt(list, n + 1, e)[i] =
          IF i < n + 1 THEN list[i]
          ELSE IF i = n + 1 THEN e ELSE list[i - 1]
  BY <1>5, InsertAtKeepsDistinct, ZenonT(60)
<1> QED BY <1>0, <1>4, <1>6

(* Entries read in the order of their numbers stay numbered.                *)
LEMMA LinkLast ==
  ASSUME NEW list \in Seq(Entry), NEW key \in [Entry -> Int], NEW e \in Entry,
         Distinct(list), e \notin ToSet(list),
         \A i \in 1 .. Len(list) : key[list[i]] = i,
         key[e] = Len(list) + 1
  PROVE  \A i \in 1 .. Len(list) + 1 : key[Link(list, key, e)[i]] = i
<1>1. Len(list) \in Nat
  BY LenProperties
<1>2. \A i \in 1 .. Len(list) + 1 :
        Link(list, key, e)[i] = IF i <= Len(list) THEN list[i] ELSE e
  BY LinkAppends
<1> QED BY <1>1, <1>2

(* Unlinking closes the gap.                                                *)
LEMMA UnlinkShifts ==
  ASSUME NEW list \in Seq(Entry), NEW e \in ToSet(list)
  PROVE  \E k \in 1 .. Len(list) :
           /\ list[k] = e
           /\ Unlink(list, e) \in Seq(Entry)
           /\ Len(Unlink(list, e)) = Len(list) - 1
           /\ \A i \in 1 .. Len(list) - 1 :
                Unlink(list, e)[i] = IF i < k THEN list[i] ELSE list[i + 1]
<1>0. Len(list) \in Nat /\ \A i \in 1 .. Len(list) : list[i] \in Entry
  BY LenProperties
<1>d. DOMAIN list = 1 .. Len(list)
  BY LenProperties
<1> DEFINE n == Len(list)
           k == CHOOSE i \in DOMAIN list : list[i] = e
           a == SubSeq(list, 1, k - 1)
           b == SubSeq(list, k + 1, n)
           r == RemoveAt(list, k)
<1>1. k \in 1 .. n /\ list[k] = e
  BY <1>d DEF ToSet
<1> HIDE DEF k
<1>2. /\ a \in Seq(Entry)
      /\ Len(a) = k - 1
      /\ \A i \in 1 .. k - 1 : a[i] = list[i]
  BY <1>0, <1>1, SubSeqProperties
<1>3. /\ b \in Seq(Entry)
      /\ Len(b) = n - k
      /\ \A i \in 1 .. n - k : b[i] = list[k + i]
  <2>1. \A i \in k + 1 .. n : list[i] \in Entry
    BY <1>0, <1>1
  <2>2. /\ b \in Seq(Entry)
        /\ Len(b) = IF k + 1 <= n THEN n - (k + 1) + 1 ELSE 0
        /\ \A i \in 1 .. n - (k + 1) + 1 : b[i] = list[(k + 1) + i - 1]
    BY <1>0, <1>1, <2>1, k + 1 \in Int, n \in Int, SubSeqProperties
  <2> QED BY <2>2, <1>0, <1>1
<1>4. /\ r \in Seq(Entry)
      /\ Len(r) = n - 1
      /\ \A i \in 1 .. n - 1 : r[i] = IF i < k THEN list[i] ELSE list[i + 1]
  <2>1. /\ r = a \o b
        /\ r \in Seq(Entry)
        /\ Len(r) = (k - 1) + (n - k)
        /\ \A i \in 1 .. (k - 1) + (n - k) :
             r[i] = IF i <= k - 1 THEN a[i] ELSE b[i - (k - 1)]
    <3>1. /\ a \o b \in Seq(Entry)
          /\ Len(a \o b) = Len(a) + Len(b)
          /\ \A i \in 1 .. Len(a) + Len(b) :
               (a \o b)[i] = IF i <= Len(a) THEN a[i] ELSE b[i - Len(a)]
      BY <1>2, <1>3, ConcatProperties
    <3>2. r = a \o b
      BY DEF RemoveAt
    <3> HIDE DEF r, a, b
    <3> QED BY <3>1, <3>2, <1>2, <1>3
  <2>2. (k - 1) + (n - k) = n - 1
    BY <1>0, <1>1
  <2>3. ASSUME NEW i \in 1 .. n - 1
        PROVE r[i] = IF i < k THEN list[i] ELSE list[i + 1]
    <3> HIDE DEF r, a, b
    <3>1. CASE i < k
      BY <3>1, <2>1, <2>2, <1>2, <1>1, <1>0
    <3>2. CASE ~ (i < k)
      <4>1. i - (k - 1) \in 1 .. n - k /\ k + (i - (k - 1)) = i + 1
        BY <3>2, <1>1, <1>0
      <4>2. r[i] = b[i - (k - 1)]
        <5>1. i \in 1 .. (k - 1) + (n - k) /\ ~ (i <= k - 1)
          BY <3>2, <2>2, <1>1, <1>0
        <5> QED BY <5>1, <2>1
      <4> QED BY <4>1, <4>2, <1>3, <3>2
    <3> QED BY <3>1, <3>2
  <2> QED BY <2>1, <2>2, <2>3
<1>5. Unlink(list, e) = r
  BY DEF Unlink, k
<1> HIDE DEF r
<1> QED BY <1>1, <1>4, <1>5

(* Unlinking removes exactly that element.                                  *)
LEMMA UnlinkRemoves ==
  ASSUME NEW list \in Seq(Entry), NEW e \in Entry, Distinct(list)
  PROVE  /\ Unlink(list, e) \in Seq(Entry)
         /\ Len(Unlink(list, e)) =
              IF e \in ToSet(list) THEN Len(list) - 1 ELSE Len(list)
         /\ Distinct(Unlink(list, e))
         /\ ToSet(Unlink(list, e)) = ToSet(list) \ {e}
<1>0. Len(list) \in Nat /\ \A i \in 1 .. Len(list) : list[i] \in Entry
  BY LenProperties
<1>d. DOMAIN list = 1 .. Len(list)
  BY LenProperties
<1>1. CASE e \notin ToSet(list)
  BY <1>1 DEF Unlink
<1>2. CASE e \in ToSet(list)
  <2> DEFINE n == Len(list)
             r == Unlink(list, e)
  <2>1. PICK k \in 1 .. n :
          /\ list[k] = e
          /\ r \in Seq(Entry)
          /\ Len(r) = n - 1
          /\ \A i \in 1 .. n - 1 : r[i] = IF i < k THEN list[i] ELSE list[i + 1]
    BY <1>2, UnlinkShifts
  <2> HIDE DEF r
  <2>4. /\ r \in Seq(Entry)
        /\ Len(r) = n - 1
        /\ \A i \in 1 .. n - 1 : r[i] = IF i < k THEN list[i] ELSE list[i + 1]
    BY <2>1
  <2>5. Distinct(r)
    BY <1>0, <2>1, <2>4 DEF Distinct
  <2>6. ToSet(r) = ToSet(list) \ {e}
    <3>1. DOMAIN r = 1 .. n - 1
      BY <2>4, LenProperties
    <3>2. ASSUME NEW i \in 1 .. n, list[i] # e
          PROVE \E j \in 1 .. n - 1 : r[j] = list[i]
      <4>1. CASE i < k
        BY <4>1, <2>4, <1>0, <2>1
      <4>2. CASE i > k
        <5>1. i - 1 \in 1 .. n - 1 /\ r[i - 1] = list[i]
          BY <4>2, <2>4, <1>0, <2>1
        <5> QED BY <5>1
      <4>3. i < k \/ i > k
        BY <3>2, <2>1, <1>0
      <4> QED BY <4>1, <4>2, <4>3
    <3>3. ASSUME NEW i \in 1 .. n - 1
          PROVE \E j \in 1 .. n : r[i] = list[j] /\ list[j] # e
      <4>1. CASE i < k
        BY <4>1, <2>4, <1>0, <2>1 DEF Distinct
      <4>2. CASE ~ (i < k)
        <5>1. /\ i + 1 \in 1 .. n
              /\ r[i] = list[i + 1]
              /\ i + 1 # k
          BY <4>2, <2>4, <1>0, <2>1
        <5> QED BY <5>1, <2>1 DEF Distinct
      <4> QED BY <4>1, <4>2
    <3>4. /\ ToSet(r) = {r[i] : i \in 1 .. n - 1}
          /\ ToSet(list) = {list[i] : i \in 1 .. n}
      BY <3>1, <1>d DEF ToSet
    <3> HIDE DEF r, n
    <3>5. ASSUME NEW x \in ToSet(r) PROVE x \in ToSet(list) \ {e}
      BY <3>3, <3>4
    <3>6. ASSUME NEW x \in ToSet(list) \ {e} PROVE x \in ToSet(r)
      BY <3>2, <3>4
    <3> QED BY <3>5, <3>6
  <2> QED BY <1>2, <2>4, <2>5, <2>6 DEF r
<1> QED BY <1>1, <1>2

-----------------------------------------------------------------------------
(* Order in a list.                                                         *)

Before(list, x, y) ==
  \E i, j \in 1 .. Len(list) : i < j /\ list[i] = x /\ list[j] = y

Ascends(list, key) == \A x, y \in ToSet(list) : Before(list, x, y) => key[x] <= key[y]

LEMMA BeforeIsOrder ==
  ASSUME NEW list \in Seq(Entry), Distinct(list)
  PROVE  /\ \A x, y : Before(list, x, y) =>
              /\ x \in ToSet(list)
              /\ y \in ToSet(list)
              /\ x # y
              /\ ~ Before(list, y, x)
         /\ \A x, y \in ToSet(list) : x = y \/ Before(list, x, y) \/ Before(list, y, x)
<1>0. Len(list) \in Nat /\ DOMAIN list = 1 .. Len(list)
  BY LenProperties
<1>1. ASSUME NEW x, NEW y, Before(list, x, y)
      PROVE  /\ x \in ToSet(list)
             /\ y \in ToSet(list)
             /\ x # y
             /\ ~ Before(list, y, x)
  <2>1. PICK i \in 1 .. Len(list), j \in 1 .. Len(list) :
          i < j /\ list[i] = x /\ list[j] = y
    BY <1>1 DEF Before
  <2>2. x \in ToSet(list) /\ y \in ToSet(list)
    BY <2>1, <1>0 DEF ToSet
  <2>3. x # y
    BY <2>1, <1>0 DEF Distinct
  <2>4. ASSUME Before(list, y, x) PROVE FALSE
    <3>1. PICK a \in 1 .. Len(list), b \in 1 .. Len(list) :
            a < b /\ list[a] = y /\ list[b] = x
      BY <2>4 DEF Before
    <3>2. a = j /\ b = i
      BY <2>1, <3>1 DEF Distinct
    <3> QED BY <2>1, <3>1, <3>2, <1>0
  <2> QED BY <2>2, <2>3, <2>4
<1>2. ASSUME NEW x \in ToSet(list), NEW y \in ToSet(list), x # y
      PROVE  Before(list, x, y) \/ Before(list, y, x)
  <2>1. PICK i \in 1 .. Len(list) : list[i] = x
    BY <1>0 DEF ToSet
  <2>2. PICK j \in 1 .. Len(list) : list[j] = y
    BY <1>0 DEF ToSet
  <2>3. i < j \/ j < i
    BY <1>2, <2>1, <2>2, <1>0
  <2> QED BY <2>1, <2>2, <2>3 DEF Before
<1> QED BY <1>1, <1>2

(* An insertion moves no element past another and finds the new one a place *)
(* its key admits.                                                          *)
LEMMA LinkAscends ==
  ASSUME NEW list \in Seq(Entry), NEW key \in [Entry -> Int], NEW e \in Entry,
         Distinct(list), e \notin ToSet(list), Ascends(list, key)
  PROVE  Ascends(Link(list, key, e), key)
<1> DEFINE n == Len(list)
           slots == Slots(list, key, key[e])
           k == Min(slots)
           r == Link(list, key, e)
<1>0. /\ n \in Nat
      /\ DOMAIN list = 1 .. n
      /\ \A i \in 1 .. n : list[i] \in Entry
  BY LenProperties
<1>1. slots \in SUBSET Nat /\ slots # {}
  BY SlotsExist
<1>2. k \in slots
  BY <1>1, LeastExists
<1>3. /\ k \in 1 .. n + 1
      /\ k > 1 => key[list[k - 1]] <= key[e]
      /\ k <= n => key[e] <= key[list[k]]
  BY <1>2 DEF Slots
<1>4. r = InsertAt(list, k, e)
  BY <1>1 DEF Link
<1> HIDE DEF k, r, slots
<1>5. /\ Len(r) = n + 1
      /\ \A i \in 1 .. n + 1 :
           r[i] = IF i < k THEN list[i] ELSE IF i = k THEN e ELSE list[i - 1]
  BY <1>3, <1>4, InsertAtKeepsDistinct, SMTT(60)
<1>6. \A i, j \in 1 .. n : i < j => key[list[i]] <= key[list[j]]
  <2> SUFFICES ASSUME NEW i \in 1 .. n, NEW j \in 1 .. n, i < j
               PROVE  key[list[i]] <= key[list[j]]
    OBVIOUS
  <2>1. list[i] \in ToSet(list) /\ list[j] \in ToSet(list)
    BY <1>0 DEF ToSet
  <2>2. Before(list, list[i], list[j])
    BY DEF Before
  <2> QED BY <2>1, <2>2 DEF Ascends
<1>7. key[e] \in Int /\ \A i \in 1 .. n : key[list[i]] \in Int
  BY <1>0
<1>8. ASSUME NEW i \in 1 .. n, i < k PROVE key[list[i]] <= key[e]
  <2>1. k - 1 \in 1 .. n /\ k > 1 /\ (i = k - 1 \/ i < k - 1)
    BY <1>0, <1>3, <1>8
  <2> QED BY <2>1, <1>3, <1>6, <1>7, SMTT(60)
<1>9. ASSUME NEW i \in 1 .. n, i >= k PROVE key[e] <= key[list[i]]
  <2>1. k \in 1 .. n /\ (i = k \/ k < i)
    BY <1>0, <1>3, <1>9
  <2> QED BY <2>1, <1>3, <1>6, <1>7
<1>10. ASSUME NEW i \in 1 .. n + 1, NEW j \in 1 .. n + 1, i < j
       PROVE  key[r[i]] <= key[r[j]]
  <2>1. CASE j < k
    <3>1. i \in 1 .. n /\ j \in 1 .. n /\ i < k
      BY <2>1, <1>0, <1>3, <1>10
    <3> QED BY <3>1, <2>1, <1>5, <1>6, <1>10
  <2>2. CASE j = k
    <3>1. i \in 1 .. n /\ i < k
      BY <2>2, <1>0, <1>3, <1>10
    <3> QED BY <3>1, <2>2, <1>5, <1>8
  <2>3. CASE j > k
    <3>1. j - 1 \in 1 .. n /\ j - 1 >= k /\ r[j] = list[j - 1]
      BY <2>3, <1>0, <1>3, <1>5
    <3>2. CASE i < k
      <4>1. i \in 1 .. n /\ i < j - 1 /\ r[i] = list[i]
        BY <2>3, <3>2, <1>0, <1>3, <1>5
      <4> QED BY <4>1, <3>1, <1>6
    <3>3. CASE i = k
      BY <3>1, <3>3, <1>5, <1>9
    <3>4. CASE i > k
      <4>1. i - 1 \in 1 .. n /\ i - 1 < j - 1 /\ r[i] = list[i - 1]
        BY <3>4, <1>0, <1>3, <1>5, <1>10
      <4> QED BY <4>1, <3>1, <1>6
    <3> QED BY <3>2, <3>3, <3>4, <1>0, <1>3
  <2> QED BY <2>1, <2>2, <2>3, <1>0, <1>3
<1>11. ASSUME NEW x, NEW y, Before(r, x, y) PROVE key[x] <= key[y]
  BY <1>5, <1>10, <1>11 DEF Before
<1> QED BY <1>11 DEF Ascends, r

(* Unlinking moves no element past another.                                 *)
LEMMA UnlinkKeepsOrder ==
  ASSUME NEW list \in Seq(Entry), NEW e \in ToSet(list), Distinct(list),
         NEW x, NEW y, Before(Unlink(list, e), x, y)
  PROVE  Before(list, x, y) /\ x # e /\ y # e
<1> DEFINE n == Len(list)
           r == Unlink(list, e)
<1>0. n \in Nat
  BY LenProperties
<1>1. PICK k \in 1 .. n :
        /\ list[k] = e
        /\ r \in Seq(Entry)
        /\ Len(r) = n - 1
        /\ \A i \in 1 .. n - 1 : r[i] = IF i < k THEN list[i] ELSE list[i + 1]
  BY UnlinkShifts
<1>2. PICK i \in 1 .. n - 1, j \in 1 .. n - 1 : i < j /\ r[i] = x /\ r[j] = y
  BY <1>1 DEF Before
<1> HIDE DEF r
<1> DEFINE a == IF i < k THEN i ELSE i + 1
           b == IF j < k THEN j ELSE j + 1
<1>3. a \in 1 .. n /\ b \in 1 .. n /\ a < b /\ a # k /\ b # k
  BY <1>0, <1>2
<1>4. list[a] = x /\ list[b] = y
  BY <1>1, <1>2
<1> HIDE DEF a, b
<1>5. x # e /\ y # e
  BY <1>1, <1>3, <1>4 DEF Distinct
<1> QED BY <1>3, <1>4, <1>5 DEF Before

-----------------------------------------------------------------------------
(* Maps.                                                                    *)

(* Both lists link exactly the allocated nodes, each node once, and         *)
(* blocks_in_map counts them.                                               *)
WellLinked(m) ==
  /\ m \in MapRecord
  /\ Distinct(m.disk_order)
  /\ Distinct(m.base_order)
  /\ ToSet(m.disk_order) = Linked(m)
  /\ Linked(m) = Entry \ Unused(m)
  /\ Len(m.disk_order) = m.blocks_in_map
  /\ Len(m.base_order) = m.blocks_in_map

LEMMA NoDataIsNotADpme == NoData \notin DpmeSet
<1>1. NoData.type \notin PartitionType
  BY UserTypesAssumption
  DEF NoData, Dpme, PartitionType, FreeType, MapType, UnixType, BootstrapType,
      BlankType
<1> QED BY <1>1 DEF DpmeSet

LEMMA LinkedIsEntry ==
  ASSUME NEW m \in MapRecord
  PROVE  ToSet(m.base_order) \subseteq Entry /\ ToSet(m.disk_order) \subseteq Entry
BY DEF MapRecord, ToSet

(* A linked node holds an entry.                                            *)
LEMMA LinkedData ==
  ASSUME NEW m, WellLinked(m), NEW e \in Linked(m)
  PROVE  e \in Entry /\ m.data[e] \in DpmeSet
<1>1. e \in Entry /\ m.data[e] # NoData
  BY DEF WellLinked, Unused
<1>2. m.data \in [Entry -> DpmeSet \cup {NoData}]
  BY DEF WellLinked, MapRecord
<1> QED BY <1>1, <1>2

LEMMA EmptyMapIsWellLinked ==
  ASSUME NEW media \in 0 .. U32 - 1, NEW drivers \in SUBSET [block : Nat, size : Nat]
  PROVE  WellLinked(EmptyMap(media, drivers)) /\ Linked(EmptyMap(media, drivers)) = {}
<1> DEFINE r == EmptyMap(media, drivers)
<1>1. r \in MapRecord
  BY DEF EmptyMap, MapRecord
<1>2. /\ r.disk_order = << >>
      /\ r.base_order = << >>
      /\ r.blocks_in_map = 0
      /\ r.data = [e \in Entry |-> NoData]
  BY DEF EmptyMap
<1>3. ToSet(<< >>) = {} /\ Len(<< >>) = 0 /\ Distinct(<< >>)
  BY DEF ToSet, Distinct
<1>4. Unused(r) = Entry
  BY <1>2 DEF Unused
<1> HIDE DEF r
<1>5. WellLinked(r) /\ Linked(r) = {}
  BY <1>1, <1>2, <1>3, <1>4 DEF WellLinked, Linked
<1> QED BY <1>5 DEF r

(* add_data_to_map links one new node into both lists.                      *)
LEMMA AddDataToMapLinks ==
  ASSUME NEW m, WellLinked(m), NEW d \in DpmeSet, NEW index \in Int,
         Unused(m) # {}
  PROVE  LET e == NewNode(m)
             r == AddDataToMap(m, d, index)
         IN  /\ e \in Entry
             /\ e \notin Linked(m)
             /\ WellLinked(r)
             /\ Linked(r) = Linked(m) \cup {e}
             /\ r.data[e] = d
             /\ \A f \in Linked(m) : r.data[f] = m.data[f]
             /\ r.disk_address[e] = index
             /\ \A f \in Linked(m) : r.disk_address[f] = m.disk_address[f]
             /\ r.disk_address \in [Entry -> Int]
             /\ r.disk_order = Link(m.disk_order, r.disk_address, e)
             /\ r.base_order = Link(m.base_order, Starts(r), e)
             /\ \A f \in Entry : r.data[f] = IF f = e THEN d ELSE m.data[f]
             /\ r.media_size = m.media_size
             /\ r.blocks_in_map = m.blocks_in_map + 1
             /\ r.maximum_in_map =
                  IF m.maximum_in_map < 0 /\ d.type = MapType
                  THEN AsInt(d.length) ELSE m.maximum_in_map
             /\ r.changed = m.changed
             /\ r.drivers = m.drivers
<1> DEFINE e == NewNode(m)
           r == AddDataToMap(m, d, index)
           node == [m EXCEPT !.data[e] = d, !.disk_address[e] = index]
           starts == Starts(node)
<1>1. e \in Entry /\ m.data[e] = NoData /\ e \notin Linked(m)
  BY DEF NewNode, Unused, WellLinked
<1>2. m \in MapRecord
  BY DEF WellLinked
<1> HIDE DEF e
<1>3. /\ node.data = [m.data EXCEPT ![e] = d]
      /\ node.disk_address = [m.disk_address EXCEPT ![e] = index]
      /\ node.data \in [Entry -> DpmeSet \cup {NoData}]
      /\ node.disk_address \in [Entry -> Int]
  BY <1>1, <1>2 DEF MapRecord
<1>4. starts \in [Entry -> Int]
  <2>1. \A x \in DpmeSet \cup {NoData} : x.start \in Int
    BY SMTT(60) DEF DpmeSet, NoData, Dpme
  <2> QED BY <2>1, <1>3 DEF Starts
<1>5. /\ r.disk_order = Link(m.disk_order, node.disk_address, e)
      /\ r.base_order = Link(m.base_order, starts, e)
      /\ r.data = node.data
      /\ r.disk_address = node.disk_address
      /\ r.blocks_in_map = m.blocks_in_map + 1
      /\ r.media_size = m.media_size
      /\ r.maximum_in_map =
           IF m.maximum_in_map < 0 /\ d.type = MapType THEN AsInt(d.length)
           ELSE m.maximum_in_map
      /\ r.changed = m.changed
      /\ r.drivers = m.drivers
  <2>1. Starts(InsertInDiskOrder(node, e)) = starts
    BY <1>2 DEF Starts, InsertInDiskOrder, MapRecord
  <2> QED BY <2>1, <1>2, SMTT(60) DEF AddDataToMap, InsertInDiskOrder,
                                      InsertInBaseOrder, MapRecord, e
<1>6. /\ e \notin ToSet(m.disk_order)
      /\ e \notin ToSet(m.base_order)
      /\ Distinct(m.disk_order)
      /\ Distinct(m.base_order)
      /\ m.disk_order \in Seq(Entry)
      /\ m.base_order \in Seq(Entry)
  BY <1>1, <1>2 DEF WellLinked, Linked, MapRecord
<1>s. starts = Starts(r)
  BY <1>5 DEF Starts, starts
<1> HIDE DEF node, starts
<1>7. /\ r.disk_order \in Seq(Entry)
      /\ Len(r.disk_order) = Len(m.disk_order) + 1
      /\ Distinct(r.disk_order)
      /\ ToSet(r.disk_order) = ToSet(m.disk_order) \cup {e}
  BY <1>1, <1>3, <1>5, <1>6, LinkAdds, SMTT(60)
<1>8. /\ r.base_order \in Seq(Entry)
      /\ Len(r.base_order) = Len(m.base_order) + 1
      /\ Distinct(r.base_order)
      /\ ToSet(r.base_order) = ToSet(m.base_order) \cup {e}
  BY <1>1, <1>4, <1>5, <1>6, LinkAdds, SMTT(60)
<1>9. Linked(r) = Entry \ Unused(r)
  <2>1. \A f \in Entry : r.data[f] = IF f = e THEN d ELSE m.data[f]
    BY <1>2, <1>3, <1>5 DEF MapRecord
  <2>2. Unused(r) = Unused(m) \ {e}
    BY <2>1, NoDataIsNotADpme DEF Unused
  <2>3. Linked(r) = Linked(m) \cup {e}
    BY <1>8 DEF Linked
  <2>4. Linked(m) = Entry \ Unused(m)
    BY DEF WellLinked
  <2> QED BY <2>2, <2>3, <2>4, <1>1
<1>10. r \in MapRecord
  <2> DEFINE u == InsertInDiskOrder(node, e)
             v == InsertInBaseOrder(u, e)
  <2>1. r.maximum_in_map \in Int
    BY <1>2, <1>5, U32Assumption DEF AsInt, MapRecord, DpmeSet
  <2>2. node \in MapRecord
    BY <1>1, <1>2 DEF node, MapRecord
  <2>3. u = [node EXCEPT !.disk_order = r.disk_order]
    BY <1>2, <1>5 DEF InsertInDiskOrder, node, MapRecord
  <2>4. u \in MapRecord
    BY <2>2, <2>3, <1>7 DEF MapRecord
  <2>5. v = [u EXCEPT !.base_order = r.base_order]
    <3>1. Starts(u) = starts
      BY <2>2, <2>3 DEF Starts, starts, MapRecord
    <3>2. u.base_order = m.base_order
      BY <2>2, <2>3, <1>2 DEF MapRecord, node
    <3> HIDE DEF u, r
    <3> QED BY <3>1, <3>2, <1>5 DEF InsertInBaseOrder
  <2>6. v \in MapRecord
    BY <2>4, <2>5, <1>8 DEF MapRecord
  <2>7. r = [v EXCEPT !.blocks_in_map = r.blocks_in_map,
                      !.maximum_in_map = r.maximum_in_map]
    <3>1. r = [v EXCEPT !.blocks_in_map = @ + 1,
                        !.maximum_in_map =
                          IF @ < 0 /\ d.type = MapType THEN AsInt(d.length)
                          ELSE @]
      BY DEF AddDataToMap, node, e
    <3> HIDE DEF v, r
    <3>2. /\ r.blocks_in_map = v.blocks_in_map + 1
          /\ r.maximum_in_map =
               IF v.maximum_in_map < 0 /\ d.type = MapType THEN AsInt(d.length)
               ELSE v.maximum_in_map
      BY <3>1, <2>6 DEF MapRecord
    <3> QED BY <3>1, <3>2
  <2> HIDE DEF v
  <2>8. r.blocks_in_map \in Int
    BY <1>2, <1>5 DEF MapRecord
  <2> HIDE DEF r
  <2> QED BY <2>1, <2>6, <2>7, <2>8 DEF MapRecord
<1>11. WellLinked(r)
  <2>1. m.blocks_in_map = Len(m.disk_order) /\ m.blocks_in_map = Len(m.base_order)
    BY DEF WellLinked
  <2>2. ToSet(m.disk_order) = ToSet(m.base_order)
    BY DEF WellLinked, Linked
  <2>3. ToSet(r.disk_order) = Linked(r)
    BY <2>2, <1>7, <1>8 DEF Linked
  <2> HIDE DEF r
  <2> QED BY <2>1, <2>3, <1>5, <1>7, <1>8, <1>9, <1>10 DEF WellLinked
<1>12. Linked(r) = Linked(m) \cup {e}
  BY <1>8 DEF Linked
<1> HIDE DEF r
<1>13. /\ r.data[e] = d
       /\ \A f \in Linked(m) : r.data[f] = m.data[f]
       /\ r.disk_address[e] = index
       /\ \A f \in Linked(m) : r.disk_address[f] = m.disk_address[f]
       /\ r.disk_address \in [Entry -> Int]
  <2>1. \A f \in Linked(m) : f \in Entry /\ f # e
    BY <1>1, LinkedData
  <2> QED BY <2>1, <1>1, <1>2, <1>3, <1>5 DEF MapRecord
<1>14. /\ r.disk_order = Link(m.disk_order, r.disk_address, e)
       /\ r.base_order = Link(m.base_order, Starts(r), e)
       /\ \A f \in Entry : r.data[f] = IF f = e THEN d ELSE m.data[f]
       /\ r.media_size = m.media_size
       /\ r.blocks_in_map = m.blocks_in_map + 1
       /\ r.maximum_in_map =
            IF m.maximum_in_map < 0 /\ d.type = MapType
            THEN AsInt(d.length) ELSE m.maximum_in_map
       /\ r.changed = m.changed
       /\ r.drivers = m.drivers
  BY <1>1, <1>2, <1>3, <1>5, <1>s DEF MapRecord
<1> QED BY <1>1, <1>11, <1>12, <1>13, <1>14 DEF e, r

(* delete_entry unlinks one node from both lists and frees it.              *)
LEMMA DeleteEntryUnlinks ==
  ASSUME NEW m, WellLinked(m), NEW e \in Linked(m)
  PROVE  LET r == DeleteEntry(m, e)
         IN  /\ WellLinked(r)
             /\ Linked(r) = Linked(m) \ {e}
             /\ r.data = [m.data EXCEPT ![e] = NoData]
             /\ r.disk_order = Unlink(m.disk_order, e)
             /\ r.base_order = Unlink(m.base_order, e)
             /\ r.blocks_in_map = m.blocks_in_map - 1
             /\ r.maximum_in_map = m.maximum_in_map
             /\ r.media_size = m.media_size
             /\ r.drivers = m.drivers
             /\ r.changed = m.changed
<1> DEFINE r == DeleteEntry(m, e)
<1>1. m \in MapRecord /\ e \in Entry
  BY LinkedData DEF WellLinked
<1> DEFINE u == RemoveFromDiskOrder(m, e)
<1>a. /\ u \in MapRecord
      /\ u = [m EXCEPT !.disk_order = Unlink(m.disk_order, e)]
  <2>1. Unlink(m.disk_order, e) \in Seq(Entry)
    BY <1>1, UnlinkRemoves DEF WellLinked, MapRecord
  <2> QED BY <1>1, <2>1 DEF RemoveFromDiskOrder, MapRecord
<1>b. r = [u EXCEPT !.blocks_in_map = @ - 1,
                    !.base_order = Unlink(@, e),
                    !.data[e] = NoData,
                    !.disk_address[e] = 0]
  BY DEF DeleteEntry
<1>c. /\ u.disk_order = Unlink(m.disk_order, e)
      /\ u.base_order = m.base_order
      /\ u.data = m.data
      /\ u.disk_address = m.disk_address
      /\ u.blocks_in_map = m.blocks_in_map
      /\ u.maximum_in_map = m.maximum_in_map
      /\ u.media_size = m.media_size
      /\ u.changed = m.changed
      /\ u.drivers = m.drivers
  BY <1>a, <1>1 DEF MapRecord
<1> HIDE DEF r, u
<1>d. /\ r.disk_order = u.disk_order
      /\ r.base_order = Unlink(u.base_order, e)
      /\ r.data = [u.data EXCEPT ![e] = NoData]
      /\ r.disk_address = [u.disk_address EXCEPT ![e] = 0]
      /\ r.blocks_in_map = u.blocks_in_map - 1
      /\ r.maximum_in_map = u.maximum_in_map
      /\ r.media_size = u.media_size
      /\ r.changed = u.changed
      /\ r.drivers = u.drivers
  BY <1>a, <1>b DEF MapRecord
<1>2. /\ r.disk_order = Unlink(m.disk_order, e)
      /\ r.base_order = Unlink(m.base_order, e)
      /\ r.data = [m.data EXCEPT ![e] = NoData]
      /\ r.disk_address = [m.disk_address EXCEPT ![e] = 0]
      /\ r.blocks_in_map = m.blocks_in_map - 1
      /\ r.maximum_in_map = m.maximum_in_map
      /\ r.media_size = m.media_size
      /\ r.changed = m.changed
      /\ r.drivers = m.drivers
  BY <1>c, <1>d
<1>3. /\ e \in ToSet(m.disk_order)
      /\ e \in ToSet(m.base_order)
      /\ Distinct(m.disk_order)
      /\ Distinct(m.base_order)
      /\ m.disk_order \in Seq(Entry)
      /\ m.base_order \in Seq(Entry)
  BY <1>1 DEF WellLinked, Linked, MapRecord
<1>4. /\ r.disk_order \in Seq(Entry)
      /\ Len(r.disk_order) = Len(m.disk_order) - 1
      /\ Distinct(r.disk_order)
      /\ ToSet(r.disk_order) = ToSet(m.disk_order) \ {e}
  <2> DEFINE x == Unlink(m.disk_order, e)
  <2>1. /\ x \in Seq(Entry)
        /\ Len(x) = Len(m.disk_order) - 1
        /\ Distinct(x)
        /\ ToSet(x) = ToSet(m.disk_order) \ {e}
    BY <1>1, <1>3, UnlinkRemoves
  <2> HIDE DEF x
  <2>2. r.disk_order = x
    BY <1>2 DEF x
  <2> QED BY <2>1, <2>2
<1>5. /\ r.base_order \in Seq(Entry)
      /\ Len(r.base_order) = Len(m.base_order) - 1
      /\ Distinct(r.base_order)
      /\ ToSet(r.base_order) = ToSet(m.base_order) \ {e}
  <2> DEFINE x == Unlink(m.base_order, e)
  <2>1. /\ x \in Seq(Entry)
        /\ Len(x) = Len(m.base_order) - 1
        /\ Distinct(x)
        /\ ToSet(x) = ToSet(m.base_order) \ {e}
    BY <1>1, <1>3, UnlinkRemoves
  <2> HIDE DEF x
  <2>2. r.base_order = x
    BY <1>2 DEF x
  <2> QED BY <2>1, <2>2
<1>6. Linked(r) = Entry \ Unused(r)
  <2>1. \A f \in Entry : r.data[f] = IF f = e THEN NoData ELSE m.data[f]
    BY <1>1, <1>2 DEF MapRecord
  <2>2. Unused(r) = Unused(m) \cup {e}
    BY <2>1, <1>1 DEF Unused
  <2>3. Linked(r) = Linked(m) \ {e}
    BY <1>5 DEF Linked
  <2>4. Linked(m) = Entry \ Unused(m)
    BY DEF WellLinked
  <2> QED BY <2>2, <2>3, <2>4
<1>7. r \in MapRecord
  <2>1. /\ r.data \in [Entry -> DpmeSet \cup {NoData}]
        /\ r.disk_address \in [Entry -> Int]
        /\ r.blocks_in_map \in Int
    BY <1>1, <1>2 DEF MapRecord
  <2>2. r = [u EXCEPT !.blocks_in_map = r.blocks_in_map,
                      !.base_order = r.base_order,
                      !.data = r.data,
                      !.disk_address = r.disk_address]
    BY <1>a, <1>b, <1>d DEF MapRecord
  <2> QED BY <2>1, <2>2, <1>a, <1>5 DEF MapRecord
<1>8. WellLinked(r)
  <2>1. m.blocks_in_map = Len(m.disk_order) /\ m.blocks_in_map = Len(m.base_order)
    BY DEF WellLinked
  <2>2. ToSet(m.disk_order) = ToSet(m.base_order)
    BY DEF WellLinked, Linked
  <2>3. ToSet(r.disk_order) = Linked(r)
    BY <2>2, <1>4, <1>5 DEF Linked
  <2> QED BY <2>1, <2>3, <1>2, <1>4, <1>5, <1>6, <1>7 DEF WellLinked
<1>9. Linked(r) = Linked(m) \ {e}
  BY <1>5 DEF Linked
<1> QED BY <1>2, <1>8, <1>9 DEF r

(* Writing the data of a linked node leaves the lists alone.                *)
LEMMA SetDataKeepsLinks ==
  ASSUME NEW m, WellLinked(m), NEW e \in Linked(m), NEW d \in DpmeSet
  PROVE  LET r == [m EXCEPT !.data[e] = d]
         IN  /\ WellLinked(r)
             /\ Linked(r) = Linked(m)
             /\ r.data = [m.data EXCEPT ![e] = d]
             /\ r.media_size = m.media_size
             /\ r.disk_order = m.disk_order
             /\ r.base_order = m.base_order
             /\ r.disk_address = m.disk_address
             /\ r.drivers = m.drivers
             /\ r.blocks_in_map = m.blocks_in_map
             /\ r.maximum_in_map = m.maximum_in_map
             /\ r.changed = m.changed
<1> DEFINE r == [m EXCEPT !.data[e] = d]
<1>1. m \in MapRecord /\ e \in Entry
  BY LinkedData DEF WellLinked
<1>2. /\ r.disk_order = m.disk_order
      /\ r.base_order = m.base_order
      /\ r.data = [m.data EXCEPT ![e] = d]
      /\ r.disk_address = m.disk_address
      /\ r.blocks_in_map = m.blocks_in_map
      /\ r.media_size = m.media_size
      /\ r.drivers = m.drivers
      /\ r.maximum_in_map = m.maximum_in_map
      /\ r.changed = m.changed
      /\ r \in MapRecord
  BY <1>1 DEF MapRecord
<1> HIDE DEF r
<1>3. Linked(r) = Linked(m)
  BY <1>2 DEF Linked
<1>4. Unused(r) = Unused(m)
  <2>1. \A f \in Entry : r.data[f] = IF f = e THEN d ELSE m.data[f]
    BY <1>1, <1>2 DEF MapRecord
  <2>2. e \notin Unused(m)
    BY DEF WellLinked
  <2> QED BY <2>1, <2>2, NoDataIsNotADpme DEF Unused
<1>5. WellLinked(r)
  BY <1>2, <1>3, <1>4 DEF WellLinked
<1> QED BY <1>2, <1>3, <1>5 DEF r

(* Entries are numbered by their place on disk.                             *)
Numbered(m) ==
  \A i \in 1 .. Len(m.disk_order) : m.disk_address[m.disk_order[i]] = i

(* renumber_disk_addresses, with which every edit ends.                     *)
LEMMA RenumberNumbers ==
  ASSUME NEW m, WellLinked(m)
  PROVE  LET r == [RenumberDiskAddresses(m) EXCEPT !.changed = TRUE]
         IN  /\ WellLinked(r)
             /\ Numbered(r)
             /\ Linked(r) = Linked(m)
             /\ r.data = m.data
             /\ r.disk_order = m.disk_order
             /\ r.base_order = m.base_order
             /\ r.media_size = m.media_size
             /\ r.blocks_in_map = m.blocks_in_map
             /\ r.maximum_in_map = m.maximum_in_map
             /\ r.drivers = m.drivers
             /\ r.changed = TRUE
<1> DEFINE address ==
             [e \in Entry |->
                IF e \in ToSet(m.disk_order)
                THEN CHOOSE i \in DOMAIN m.disk_order : m.disk_order[i] = e
                ELSE m.disk_address[e]]
           r == [RenumberDiskAddresses(m) EXCEPT !.changed = TRUE]
           n == Len(m.disk_order)
<1>1. m \in MapRecord
  BY DEF WellLinked
<1>2. DOMAIN m.disk_order = 1 .. n /\ n \in Nat
  BY <1>1, LenProperties DEF MapRecord
<1>3. \A i \in 1 .. n : m.disk_order[i] \in Entry
  BY <1>1, LenProperties DEF MapRecord
<1>4. ASSUME NEW e \in ToSet(m.disk_order)
      PROVE  LET i == CHOOSE j \in DOMAIN m.disk_order : m.disk_order[j] = e
             IN  i \in 1 .. n /\ m.disk_order[i] = e
  BY <1>2 DEF ToSet
<1>5. address \in [Entry -> Int]
  <2> SUFFICES ASSUME NEW e \in Entry PROVE address[e] \in Int
    OBVIOUS
  <2>1. CASE e \in ToSet(m.disk_order)
    BY <1>2, <1>4, <2>1
  <2>2. CASE e \notin ToSet(m.disk_order)
    BY <1>1, <2>2 DEF MapRecord
  <2> QED BY <2>1, <2>2
<1>6. ASSUME NEW i \in 1 .. n PROVE address[m.disk_order[i]] = i
  <2>1. m.disk_order[i] \in ToSet(m.disk_order) /\ m.disk_order[i] \in Entry
    BY <1>2, <1>3 DEF ToSet
  <2> DEFINE j == CHOOSE k \in DOMAIN m.disk_order :
                    m.disk_order[k] = m.disk_order[i]
  <2>2. j \in 1 .. n /\ m.disk_order[j] = m.disk_order[i]
    BY <1>4, <2>1
  <2>3. address[m.disk_order[i]] = j
    BY <2>1
  <2> HIDE DEF j, address
  <2> QED BY <2>2, <2>3 DEF WellLinked, Distinct
<1>7. r = [[m EXCEPT !.disk_address = address] EXCEPT !.changed = TRUE]
  BY <1>1 DEF RenumberDiskAddresses, MapRecord
<1> HIDE DEF r, address
<1>8. /\ r.disk_order = m.disk_order
      /\ r.base_order = m.base_order
      /\ r.data = m.data
      /\ r.disk_address = address
      /\ r.blocks_in_map = m.blocks_in_map
      /\ r.maximum_in_map = m.maximum_in_map
      /\ r.media_size = m.media_size
      /\ r.drivers = m.drivers
      /\ r.changed = TRUE
      /\ r \in MapRecord
  BY <1>1, <1>5, <1>7 DEF MapRecord
<1>9. Linked(r) = Linked(m) /\ Unused(r) = Unused(m)
  BY <1>8 DEF Linked, Unused
<1>10. WellLinked(r)
  BY <1>8, <1>9 DEF WellLinked
<1>11. Numbered(r)
  BY <1>6, <1>8 DEF Numbered
<1> QED BY <1>8, <1>9, <1>10, <1>11 DEF r

-----------------------------------------------------------------------------
(* Extents.                                                                 *)

(* Numbers small enough that the sum of two of them does not wrap.          *)
Small(n) == 2 * n < U32

(* The entries of a map share no block, and none ends beyond half a u32.    *)
Disjoint(m) ==
  /\ \A e \in Linked(m) : Small(m.data[e].start + m.data[e].length)
  /\ \A e, f \in Linked(m) : e # f => Apart(m.data[e], m.data[f])

PartOf(p, d) ==
  /\ d.start <= p.start
  /\ p.start + p.length <= d.start + d.length

LEMMA DpmeIsTyped ==
  ASSUME NEW type \in PartitionType, NEW start \in 0 .. U32 - 1,
         NEW length \in 0 .. U32 - 1
  PROVE  /\ Dpme(type, start, length) \in DpmeSet
         /\ Dpme(type, start, length).type = type
         /\ Dpme(type, start, length).start = start
         /\ Dpme(type, start, length).length = length
BY DEF Dpme, DpmeSet

LEMMA DpmeFields ==
  ASSUME NEW d \in DpmeSet
  PROVE  /\ d.type \in PartitionType
         /\ d.start \in 0 .. U32 - 1
         /\ d.length \in 0 .. U32 - 1
BY DEF DpmeSet

LEMMA FreeIsType == FreeType \in PartitionType
BY DEF PartitionType

(* What is left of a free entry, whatever the numbers.                      *)
LEMMA PartsAreTyped ==
  ASSUME NEW d \in DpmeSet, NEW base \in 0 .. U32 - 1, NEW length \in 0 .. U32 - 1
  PROVE  Rest(d, base, length) \in DpmeSet /\ LeftOf(d, base) \in DpmeSet
<1>1. LeftOf(d, base) \in DpmeSet
  <2>1. base - d.start \in Int
    BY DpmeFields, U32Assumption
  <2>2. Wrap(base - d.start) \in 0 .. U32 - 1 /\ d.start \in 0 .. U32 - 1
    BY <2>1, WrapIsU32, DpmeFields
  <2> QED BY <2>2, DpmeIsTyped, FreeIsType DEF LeftOf
<1>2. RightOf(d, base, length) \in DpmeSet
  <2> DEFINE n == d.length - (length + (IF d.start = base THEN 0
                                        ELSE base - d.start))
  <2>1. n \in Int /\ base + length \in Int
    BY DpmeFields, U32Assumption
  <2>2. Wrap(n) \in 0 .. U32 - 1 /\ Wrap(base + length) \in 0 .. U32 - 1
    BY <2>1, WrapIsU32
  <2>3. RightOf(d, base, length) = Dpme(FreeType, Wrap(base + length), Wrap(n))
    BY DEF RightOf
  <2> HIDE DEF n
  <2> QED BY <2>2, <2>3, DpmeIsTyped, FreeIsType
<1> QED BY <1>1, <1>2 DEF Rest

LEMMA EndIsExact ==
  ASSUME NEW d \in DpmeSet, Small(d.start + d.length)
  PROVE  End(d) = d.start + d.length
<1>1. d.start + d.length \in 0 .. U32 - 1
  BY DpmeFields, U32Assumption DEF Small
<1> QED BY <1>1, WrapSmall DEF End

(* Taking a request out of a free entry that includes it: the request and   *)
(* the one or two free parts are pieces of the entry that share nothing.    *)
LEMMA SplitIsExact ==
  ASSUME NEW d \in DpmeSet, Small(d.start + d.length),
         NEW type \in PartitionType,
         NEW base \in 0 .. U32 - 1, NEW length \in 0 .. U32 - 1,
         Small(base), Small(length), Includes(d, base, length)
  PROVE  LET new == Dpme(type, base, length)
             rest == Rest(d, base, length)
             left == LeftOf(d, base)
             act == AddAction(d, base, length)
         IN  /\ PartOf(new, d)
             /\ act # kReplace => PartOf(rest, d) /\ Apart(new, rest)
             /\ act = kSplit => /\ PartOf(left, d)
                                /\ Apart(left, new)
                                /\ Apart(left, rest)
<1> DEFINE new == Dpme(type, base, length)
           rest == Rest(d, base, length)
           left == LeftOf(d, base)
           act == AddAction(d, base, length)
<1>1. /\ d.start \in Nat /\ d.length \in Nat /\ base \in Nat /\ length \in Nat
      /\ U32 \in Nat
  BY DpmeFields, U32Assumption
<1>2. Wrap(base + length) = base + length
  <2>1. base + length \in 0 .. U32 - 1
    BY <1>1 DEF Small
  <2> QED BY <2>1, WrapSmall
<1>3. End(d) = d.start + d.length
  BY EndIsExact
<1>4. d.start <= base /\ base + length <= d.start + d.length
  BY <1>2, <1>3 DEF Includes
<1>5. new.start = base /\ new.length = length
  BY DEF Dpme
<1>6. PartOf(new, d)
  BY <1>4, <1>5 DEF PartOf
<1>7. left.start = d.start /\ left.length = base - d.start
  <2>1. base - d.start \in 0 .. U32 - 1
    BY <1>1, <1>4
  <2>2. Wrap(base - d.start) = base - d.start
    BY <2>1, WrapSmall
  <2> QED BY <2>2 DEF LeftOf, Dpme
<1>8. LET right == RightOf(d, base, length)
      IN  /\ right.start = base + length
          /\ right.length = d.start + d.length - (base + length)
  <2> DEFINE n == d.length - (length + (IF d.start = base THEN 0
                                        ELSE base - d.start))
  <2>1. n = d.start + d.length - (base + length)
    BY <1>1
  <2>2. n \in 0 .. U32 - 1
    <3>1. d.length \in 0 .. U32 - 1
      BY DpmeFields
    <3> HIDE DEF n
    <3> QED BY <1>1, <1>4, <2>1, <3>1
  <2>3. Wrap(n) = n
    BY <2>2, WrapSmall
  <2>4. RightOf(d, base, length) = Dpme(FreeType, Wrap(base + length), Wrap(n))
    BY DEF RightOf
  <2> HIDE DEF n
  <2> QED BY <1>2, <2>1, <2>3, <2>4 DEF Dpme
<1>9. ASSUME act # kReplace PROVE PartOf(rest, d) /\ Apart(new, rest)
  <2>1. CASE d.start # base /\ End(d) = Wrap(base + length)
    <3>1. rest = left
      BY <2>1 DEF Rest
    <3> HIDE DEF rest, left, new
    <3> QED BY <3>1, <1>7, <1>1, <1>4, <1>5 DEF PartOf, Apart
  <2>2. CASE ~ (d.start # base /\ End(d) = Wrap(base + length))
    <3>1. rest = RightOf(d, base, length)
      BY <2>2 DEF Rest
    <3> HIDE DEF rest, left, new
    <3> QED BY <3>1, <1>8, <1>1, <1>4, <1>5 DEF PartOf, Apart
  <2> QED BY <2>1, <2>2
<1>10. ASSUME act = kSplit
       PROVE PartOf(left, d) /\ Apart(left, new) /\ Apart(left, rest)
  <2>1. d.start # base /\ End(d) # Wrap(base + length)
    BY <1>10 DEF AddAction, kSplit, kReplace, kAdd
  <2>2. rest = RightOf(d, base, length)
    BY <2>1 DEF Rest
  <2> HIDE DEF rest, left, new
  <2> QED BY <2>2, <1>7, <1>8, <1>1, <1>4, <1>5 DEF PartOf, Apart
<1> QED BY <1>6, <1>9, <1>10

(* What is apart from an entry is apart from its parts.                     *)
LEMMA ApartFromPart ==
  ASSUME NEW c \in DpmeSet, NEW d \in DpmeSet, NEW p \in DpmeSet,
         PartOf(p, d), Apart(c, d)
  PROVE  Apart(c, p)
BY DpmeFields, U32Assumption DEF Apart, PartOf

LEMMA ApartIsSymmetric ==
  ASSUME NEW c, NEW d, Apart(c, d)
  PROVE  Apart(d, c)
BY DEF Apart

LEMMA PartIsSmall ==
  ASSUME NEW d \in DpmeSet, NEW p \in DpmeSet, PartOf(p, d),
         Small(d.start + d.length)
  PROVE  Small(p.start + p.length)
BY DpmeFields, U32Assumption DEF Small, PartOf

(* Two entries that touch make one whose blocks are theirs.                 *)
LEMMA MergeIsExact ==
  ASSUME NEW c \in DpmeSet, NEW d \in DpmeSet, NEW type \in PartitionType,
         Small(c.start + c.length), Small(d.start + d.length),
         End(c) = d.start
  PROVE  LET r == Dpme(type, c.start, Wrap(c.length + d.length))
         IN  /\ r \in DpmeSet
             /\ Small(r.start + r.length)
             /\ \A x \in DpmeSet : Apart(x, c) /\ Apart(x, d) => Apart(x, r)
<1> DEFINE r == Dpme(type, c.start, Wrap(c.length + d.length))
<1>1. /\ c.start \in 0 .. U32 - 1 /\ c.length \in Nat
      /\ d.start \in Nat /\ d.length \in Nat
      /\ U32 \in Nat
  BY DpmeFields, U32Assumption
<1>2. c.start + c.length = d.start
  BY EndIsExact
<1>3. c.length + d.length \in 0 .. U32 - 1
  BY <1>1, <1>2 DEF Small
<1>4. Wrap(c.length + d.length) = c.length + d.length
  BY <1>3, WrapSmall
<1>5. r \in DpmeSet /\ r.start = c.start /\ r.length = c.length + d.length
  BY <1>1, <1>3, <1>4, DpmeIsTyped
<1> HIDE DEF r
<1>6. Small(r.start + r.length)
  BY <1>1, <1>2, <1>5 DEF Small
<1>7. ASSUME NEW x \in DpmeSet, Apart(x, c), Apart(x, d) PROVE Apart(x, r)
  <2>1. x.start \in Nat /\ x.length \in Nat
    BY DpmeFields, U32Assumption
  <2> QED BY <2>1, <1>1, <1>2, <1>5, <1>7 DEF Apart
<1>8. r \in DpmeSet /\ Small(r.start + r.length)
      /\ \A x \in DpmeSet : Apart(x, c) /\ Apart(x, d) => Apart(x, r)
  BY <1>5, <1>6, <1>7
<1> QED BY <1>8 DEF r

-----------------------------------------------------------------------------
(* The steps of an edit keep a disjoint map disjoint.                       *)

LEMMA SetDataKeepsDisjoint ==
  ASSUME NEW m, WellLinked(m), Disjoint(m), NEW e \in Linked(m),
         NEW d \in DpmeSet, Small(d.start + d.length),
         \A f \in Linked(m) : f # e => Apart(d, m.data[f])
  PROVE  Disjoint([m EXCEPT !.data[e] = d])
<1> DEFINE r == [m EXCEPT !.data[e] = d]
<1>1. Linked(r) = Linked(m) /\ r.data = [m.data EXCEPT ![e] = d]
  BY SetDataKeepsLinks
<1> HIDE DEF r
<1>2. \A f \in Linked(m) : r.data[f] = IF f = e THEN d ELSE m.data[f]
  BY <1>1, LinkedData DEF WellLinked, MapRecord
<1>3. \A f \in Linked(r) : Small(r.data[f].start + r.data[f].length)
  BY <1>1, <1>2 DEF Disjoint
<1>4. ASSUME NEW f \in Linked(r), NEW g \in Linked(r), f # g
      PROVE  Apart(r.data[f], r.data[g])
  <2>1. CASE f = e
    BY <2>1, <1>1, <1>2, <1>4
  <2>2. CASE g = e
    BY <2>2, <1>1, <1>2, <1>4, ApartIsSymmetric
  <2>3. CASE f # e /\ g # e
    BY <2>3, <1>1, <1>2, <1>4 DEF Disjoint
  <2> QED BY <2>1, <2>2, <2>3
<1> QED BY <1>3, <1>4 DEF Disjoint, r

LEMMA AddDataKeepsDisjoint ==
  ASSUME NEW m, WellLinked(m), Disjoint(m), NEW d \in DpmeSet,
         NEW index \in Int, Unused(m) # {}, Small(d.start + d.length),
         \A f \in Linked(m) : Apart(d, m.data[f])
  PROVE  Disjoint(AddDataToMap(m, d, index))
<1> DEFINE r == AddDataToMap(m, d, index)
           e == NewNode(m)
<1>1. /\ e \in Entry
      /\ e \notin Linked(m)
      /\ Linked(r) = Linked(m) \cup {e}
      /\ r.data[e] = d
      /\ \A f \in Linked(m) : r.data[f] = m.data[f]
  BY AddDataToMapLinks
<1> HIDE DEF r, e
<1>2. \A f \in Linked(r) : r.data[f] = IF f = e THEN d ELSE m.data[f]
  BY <1>1
<1>3. \A f \in Linked(r) : Small(r.data[f].start + r.data[f].length)
  BY <1>1, <1>2 DEF Disjoint
<1>4. ASSUME NEW f \in Linked(r), NEW g \in Linked(r), f # g
      PROVE  Apart(r.data[f], r.data[g])
  <2>1. CASE f = e
    BY <2>1, <1>1, <1>2, <1>4
  <2>2. CASE g = e
    BY <2>2, <1>1, <1>2, <1>4, ApartIsSymmetric
  <2>3. CASE f # e /\ g # e
    BY <2>3, <1>1, <1>2, <1>4 DEF Disjoint
  <2> QED BY <2>1, <2>2, <2>3
<1> QED BY <1>3, <1>4 DEF Disjoint, r

(* An entry takes over the blocks of another one, which is deleted.         *)
LEMMA MergeKeepsDisjoint ==
  ASSUME NEW m, WellLinked(m), NEW e \in Linked(m), NEW p \in Linked(m), e # p,
         NEW d \in DpmeSet
  PROVE  LET r == DeleteEntry([m EXCEPT !.data[e] = d], p)
         IN  /\ WellLinked(r)
             /\ e \in Linked(r)
             /\ r.data[e] = d
             /\ r.drivers = m.drivers
             /\ r.media_size = m.media_size
             /\ r.drivers = m.drivers
             /\ /\ Disjoint(m)
                /\ Small(d.start + d.length)
                /\ \A f \in Linked(m) \ {e, p} : Apart(d, m.data[f])
                => Disjoint(r)
<1> DEFINE s == [m EXCEPT !.data[e] = d]
           r == DeleteEntry(s, p)
<1>1. /\ WellLinked(s)
      /\ Linked(s) = Linked(m)
      /\ s.data = [m.data EXCEPT ![e] = d]
      /\ s.media_size = m.media_size
      /\ s.drivers = m.drivers
  BY SetDataKeepsLinks
<1> HIDE DEF s
<1>2. /\ WellLinked(r)
      /\ Linked(r) = Linked(s) \ {p}
      /\ r.data = [s.data EXCEPT ![p] = NoData]
      /\ r.media_size = s.media_size
      /\ r.drivers = s.drivers
  BY <1>1, DeleteEntryUnlinks
<1> HIDE DEF r
<1>3. \A f \in Linked(m) \ {p} : r.data[f] = IF f = e THEN d ELSE m.data[f]
  <2>1. \A f \in Linked(m) : s.data[f] = IF f = e THEN d ELSE m.data[f]
    BY <1>1, LinkedData DEF WellLinked, MapRecord
  <2>2. \A f \in Linked(m) \ {p} : r.data[f] = s.data[f]
    BY <1>1, <1>2, LinkedData DEF WellLinked, MapRecord
  <2> QED BY <2>1, <2>2
<1>4. ASSUME Disjoint(m), Small(d.start + d.length),
             \A f \in Linked(m) \ {e, p} : Apart(d, m.data[f])
      PROVE  Disjoint(r)
  <2>1. \A f \in Linked(r) : Small(r.data[f].start + r.data[f].length)
    BY <1>1, <1>2, <1>3, <1>4 DEF Disjoint
  <2>2. ASSUME NEW f \in Linked(r), NEW g \in Linked(r), f # g
        PROVE  Apart(r.data[f], r.data[g])
    <3>1. CASE f = e
      BY <3>1, <1>1, <1>2, <1>3, <1>4, <2>2
    <3>2. CASE g = e
      BY <3>2, <1>1, <1>2, <1>3, <1>4, <2>2, ApartIsSymmetric
    <3>3. CASE f # e /\ g # e
      BY <3>3, <1>1, <1>2, <1>3, <1>4, <2>2 DEF Disjoint
    <3> QED BY <3>1, <3>2, <3>3
  <2> QED BY <2>1, <2>2 DEF Disjoint
<1>5. e \in Linked(r) /\ r.data[e] = d
  BY <1>1, <1>2, <1>3
<1> QED BY <1>1, <1>2, <1>4, <1>5 DEF r, s

(* What an edit must keep of a map.  "within" says whether    *)
(* the numbers of the edit are small: with others only the lists are sure.  *)
Keeps(m, r, within) ==
  /\ WellLinked(r)
  /\ r.media_size = m.media_size
  /\ r.drivers = m.drivers
  /\ Linked(m) # {} => Linked(r) # {}
  /\ Disjoint(m) /\ within => Disjoint(r)

LEMMA PlaceNewKeeps ==
  ASSUME NEW m, WellLinked(m), NEW cur \in Linked(m),
         NEW type \in PartitionType,
         NEW base \in 0 .. U32 - 1, NEW length \in 0 .. U32 - 1,
         Includes(m.data[cur], base, length), NEW mallocs \in Int
  PROVE  Keeps(m, PlaceNew(m, cur, Dpme(type, base, length), mallocs),
               Small(base) /\ Small(length))
<1> DEFINE new    == Dpme(type, base, length)
           d      == m.data[cur]
           index  == m.disk_address[cur]
           rest   == Rest(d, base, length)
           left   == LeftOf(d, base)
           act    == AddAction(d, base, length)
           whole  == [m EXCEPT !.data[cur] = new]
           shrunk == [m EXCEPT !.data[cur] = rest]
           added  == AddDataToMap(shrunk, new, index)
           both   == AddDataToMap(added, left, index)
           small  == Small(base) /\ Small(length)
<1>0. new.start = base /\ new.length = length
  BY DEF Dpme
<1>1. /\ d \in DpmeSet
      /\ new \in DpmeSet
      /\ rest \in DpmeSet
      /\ left \in DpmeSet
      /\ index \in Int
      /\ cur \in Entry
  <2>1. d \in DpmeSet /\ cur \in Entry
    BY LinkedData
  <2>2. new \in DpmeSet
    BY DpmeIsTyped
  <2>3. index \in Int
    BY <2>1 DEF WellLinked, MapRecord
  <2>4. rest \in DpmeSet /\ left \in DpmeSet
    BY <2>1, PartsAreTyped
  <2> QED BY <2>1, <2>2, <2>3, <2>4
<1>2. ASSUME Disjoint(m), small
      PROVE  /\ PartOf(new, d)
             /\ act # kReplace => PartOf(rest, d) /\ Apart(new, rest)
             /\ act = kSplit => /\ PartOf(left, d)
                                /\ Apart(left, new)
                                /\ Apart(left, rest)
             /\ Small(d.start + d.length)
             /\ \A f \in Linked(m) : f # cur => Apart(d, m.data[f])
  <2>1. Small(d.start + d.length)
    BY <1>2 DEF Disjoint
  <2>2. \A f \in Linked(m) : f # cur => Apart(d, m.data[f])
    BY <1>2 DEF Disjoint
  <2> QED BY <2>1, <2>2, <1>1, <1>2, SplitIsExact
<1>3. ASSUME Disjoint(m), small, NEW p \in DpmeSet, PartOf(p, d)
      PROVE  /\ Small(p.start + p.length)
             /\ \A f \in Linked(m) : f # cur => Apart(p, m.data[f])
  <2> HIDE DEF d
  <2>1. Small(p.start + p.length)
    BY <1>1, <1>2, <1>3, PartIsSmall
  <2>2. ASSUME NEW f \in Linked(m), f # cur PROVE Apart(p, m.data[f])
    <3>1. m.data[f] \in DpmeSet /\ Apart(m.data[f], d)
      BY <1>2, <1>3, <2>2, LinkedData, ApartIsSymmetric
    <3> QED BY <3>1, <1>1, <1>3, ApartFromPart, ApartIsSymmetric
  <2> QED BY <2>1, <2>2
<1> HIDE DEF new, d, index, rest, left, small
<1>4. Keeps(m, whole, small)
  <2>1. /\ WellLinked(whole)
        /\ Linked(whole) = Linked(m)
        /\ whole.media_size = m.media_size
        /\ whole.drivers = m.drivers
    BY <1>1, SetDataKeepsLinks
  <2>2. ASSUME Disjoint(m), small PROVE Disjoint(whole)
    BY <1>1, <1>2, <1>3, <2>2, SetDataKeepsDisjoint
  <2> QED BY <2>1, <2>2 DEF Keeps
<1>5. ASSUME act # kReplace
      PROVE  /\ Keeps(m, shrunk, small)
             /\ Linked(shrunk) = Linked(m)
             /\ shrunk.data = [m.data EXCEPT ![cur] = rest]
  <2>1. /\ WellLinked(shrunk)
        /\ Linked(shrunk) = Linked(m)
        /\ shrunk.data = [m.data EXCEPT ![cur] = rest]
        /\ shrunk.media_size = m.media_size
        /\ shrunk.drivers = m.drivers
    BY <1>1, SetDataKeepsLinks
  <2>2. ASSUME Disjoint(m), small PROVE Disjoint(shrunk)
    BY <1>1, <1>2, <1>3, <1>5, <2>2, SetDataKeepsDisjoint
  <2> QED BY <2>1, <2>2 DEF Keeps
<1> HIDE DEF shrunk
<1>6. ASSUME act # kReplace, Unused(shrunk) # {}
      PROVE  /\ Keeps(m, added, small)
             /\ \A f \in Linked(added) :
                  \/ added.data[f] = new
                  \/ added.data[f] = rest
                  \/ \E g \in Linked(m) : g # cur /\ added.data[f] = m.data[g]
  <2> DEFINE e == NewNode(shrunk)
  <2>1. /\ WellLinked(shrunk)
        /\ \A f \in Linked(m) :
             shrunk.data[f] = IF f = cur THEN rest ELSE m.data[f]
    BY <1>5, <1>6, LinkedData DEF Keeps, WellLinked, MapRecord
  <2>2. /\ e \in Entry
        /\ WellLinked(added)
        /\ Linked(added) = Linked(shrunk) \cup {e}
        /\ e \notin Linked(shrunk)
        /\ added.data[e] = new
        /\ \A f \in Linked(shrunk) : added.data[f] = shrunk.data[f]
        /\ added.media_size = shrunk.media_size
        /\ added.drivers = shrunk.drivers
    BY <1>1, <1>6, <2>1, AddDataToMapLinks
  <2> HIDE DEF e, added
  <2>3. ASSUME Disjoint(m), small PROVE Disjoint(added)
    <3>1. Disjoint(shrunk)
      BY <1>5, <1>6, <2>3 DEF Keeps
    <3>2. ASSUME NEW f \in Linked(shrunk) PROVE Apart(new, shrunk.data[f])
      BY <1>1, <1>2, <1>3, <1>5, <1>6, <2>1, <2>3
    <3>3. Small(new.start + new.length)
      BY <1>1, <1>2, <1>3, <2>3
    <3> QED BY <3>1, <3>2, <3>3, <1>1, <1>6, <2>1, AddDataKeepsDisjoint DEF added
  <2>4. \A f \in Linked(added) :
          added.data[f] = IF f = e THEN new ELSE shrunk.data[f]
    BY <2>2
  <2>5. /\ shrunk.media_size = m.media_size
        /\ shrunk.drivers = m.drivers
        /\ Linked(shrunk) = Linked(m)
    BY <1>5, <1>6 DEF Keeps
  <2>6. Keeps(m, added, small)
    BY <2>2, <2>3, <2>5 DEF Keeps
  <2>7. ASSUME NEW f \in Linked(added)
        PROVE  \/ added.data[f] = new
               \/ added.data[f] = rest
               \/ \E g \in Linked(m) : g # cur /\ added.data[f] = m.data[g]
    BY <2>1, <2>2, <2>4, <2>5
  <2> QED BY <2>6, <2>7
<1>7. ASSUME act # kReplace PROVE Keeps(m, added, small)
  <2>1. CASE Unused(shrunk) = {}
    BY <2>1, <1>5, <1>7 DEF AddDataToMap
  <2>2. CASE Unused(shrunk) # {}
    BY <2>2, <1>6, <1>7
  <2> QED BY <2>1, <2>2
<1>8. ASSUME act = kSplit, Unused(shrunk) # {}, Unused(added) # {}
      PROVE  Keeps(m, both, small)
  <2>0. act # kReplace
    BY <1>8 DEF kSplit, kReplace
  <2>1. Keeps(m, added, small)
    BY <2>0, <1>7
  <2> HIDE DEF added
  <2>2. /\ WellLinked(both)
        /\ Linked(added) \subseteq Linked(both)
        /\ both.media_size = added.media_size
        /\ both.drivers = added.drivers
    BY <1>1, <1>8, <2>1, AddDataToMapLinks DEF Keeps
  <2>3. ASSUME Disjoint(m), small PROVE Disjoint(both)
    <3>1. Disjoint(added) /\ WellLinked(added)
      BY <2>1, <2>3 DEF Keeps
    <3>2. ASSUME NEW f \in Linked(added) PROVE Apart(left, added.data[f])
      <4>1. \/ added.data[f] = new
            \/ added.data[f] = rest
            \/ \E g \in Linked(m) : g # cur /\ added.data[f] = m.data[g]
        BY <2>0, <1>6, <1>8 DEF added
      <4> QED BY <4>1, <1>1, <1>2, <1>3, <1>8, <2>3
    <3>3. Small(left.start + left.length)
      BY <1>1, <1>2, <1>3, <1>8, <2>3
    <3> QED BY <3>1, <3>2, <3>3, <1>1, <1>8, AddDataKeepsDisjoint
  <2> QED BY <2>1, <2>2, <2>3 DEF Keeps
<1>9. ASSUME act = kSplit PROVE Keeps(m, both, small)
  <2>1. CASE Unused(added) = {}
    BY <2>1, <1>7, <1>9 DEF AddDataToMap, kSplit, kReplace
  <2>2. CASE Unused(shrunk) = {}
    BY <2>1, <2>2, <1>7, <1>9 DEF AddDataToMap, kSplit, kReplace
  <2>3. CASE Unused(shrunk) # {} /\ Unused(added) # {}
    BY <2>3, <1>8, <1>9
  <2> QED BY <2>1, <2>2, <2>3
<1>10. \/ act = kReplace /\ PlaceNew(m, cur, new, mallocs) = whole
       \/ act # kReplace /\ PlaceNew(m, cur, new, mallocs) = shrunk
       \/ act = kSplit /\ PlaceNew(m, cur, new, mallocs) = both
       \/ act # kReplace /\ PlaceNew(m, cur, new, mallocs) = added
  <2>1. /\ rest = Rest(d, new.start, new.length)
        /\ left = LeftOf(d, new.start)
        /\ act = AddAction(d, new.start, new.length)
    BY <1>0 DEF rest, left
  <2> HIDE DEF act, whole, both, added
  <2>2. PlaceNew(m, cur, new, mallocs) =
          IF act = kReplace THEN whole
          ELSE IF mallocs < 2 THEN shrunk
          ELSE IF act = kSplit /\ mallocs >= 4 THEN both ELSE added
    BY <2>1 DEF PlaceNew, d, index, shrunk, whole, both, added
  <2> QED BY <2>2
<1> HIDE DEF act, whole, both, added
<1>11. Keeps(m, PlaceNew(m, cur, new, mallocs), small)
  BY <1>4, <1>5, <1>7, <1>9, <1>10
<1> QED BY <1>11 DEF new, small

(* A finished edit also leaves the entries numbered.                        *)
Edited(m, r, within) ==
  /\ Keeps(m, r, within)
  /\ Numbered(m) => Numbered(r)

LEMMA KeepsItself ==
  ASSUME NEW m, WellLinked(m), NEW within \in BOOLEAN
  PROVE  Keeps(m, m, within) /\ Edited(m, m, within)
BY DEF Keeps, Edited

LEMMA RenumberFinishes ==
  ASSUME NEW m, NEW r, NEW within \in BOOLEAN, Keeps(m, r, within)
  PROVE  Edited(m, [RenumberDiskAddresses(r) EXCEPT !.changed = TRUE], within)
<1> DEFINE s == [RenumberDiskAddresses(r) EXCEPT !.changed = TRUE]
<1>1. /\ WellLinked(s)
      /\ Numbered(s)
      /\ Linked(s) = Linked(r)
      /\ s.data = r.data
      /\ s.media_size = r.media_size
      /\ s.drivers = r.drivers
  BY RenumberNumbers DEF Keeps
<1> HIDE DEF s
<1>2. Disjoint(r) => Disjoint(s)
  BY <1>1 DEF Disjoint
<1>3. Edited(m, s, within)
  BY <1>1, <1>2 DEF Keeps, Edited
<1> QED BY <1>3 DEF s

LEMMA ContainerIsLinked ==
  ASSUME NEW m, WellLinked(m), NEW base, NEW length,
         Including(m, base, length) # {}
  PROVE  LET cur == Container(m, base, length)
         IN  cur \in Linked(m) /\ Includes(m.data[cur], base, length)
<1> DEFINE I == Including(m, base, length)
<1>1. DOMAIN m.base_order = 1 .. Len(m.base_order)
  BY LenProperties DEF WellLinked, MapRecord
<1>2. I \in SUBSET Nat
  BY <1>1 DEF Including
<1>3. Min(I) \in I
  BY <1>2, LeastExists
<1> HIDE DEF I
<1>4. Min(I) \in DOMAIN m.base_order
      /\ Includes(m.data[m.base_order[Min(I)]], base, length)
  BY <1>3 DEF Including, I
<1> QED BY <1>4 DEF Container, Linked, ToSet, I

LEMMA AddPartitionKeeps ==
  ASSUME NEW m, WellLinked(m), NEW type \in PartitionType,
         NEW base \in 0 .. U32 - 1, NEW length \in 0 .. U32 - 1,
         NEW mallocs \in Int
  PROVE  Edited(m, AddPartitionToMap(m, type, base, length, mallocs),
                Small(base) /\ Small(length))
<1> DEFINE cur   == Container(m, base, length)
           act   == AddAction(m.data[cur], base, length)
           new   == Dpme(type, base, length)
           small == Small(base) /\ Small(length)
           placed == PlaceNew(m, cur, new, mallocs)
           may   == /\ WithinFree(m, base, length)
                    /\ MapIsBigEnough(m, act)
                    /\ mallocs >= 1
<1>1. small \in BOOLEAN
  BY DEF Small
<1>2. AddPartitionToMap(m, type, base, length, mallocs) =
        IF may THEN [RenumberDiskAddresses(placed) EXCEPT !.changed = TRUE]
        ELSE m
  BY DEF AddPartitionToMap
<1>3. CASE may
  <2>1. cur \in Linked(m) /\ Includes(m.data[cur], base, length)
    BY <1>3, ContainerIsLinked DEF WithinFree
  <2> HIDE DEF cur
  <2>2. Keeps(m, placed, small)
    BY <2>1, PlaceNewKeeps
  <2> HIDE DEF placed, small, may
  <2> QED BY <1>1, <1>2, <1>3, <2>2, RenumberFinishes DEF small
<1>4. CASE ~ may
  <2> HIDE DEF may, small
  <2> QED BY <1>1, <1>2, <1>4, KeepsItself DEF small
<1> QED BY <1>3, <1>4

LEMMA FollowsIsAnother ==
  ASSUME NEW m, WellLinked(m), NEW e, NEW p, Follows(m, p, e)
  PROVE  e # p
<1>1. Len(m.base_order) \in Nat
  BY LenProperties DEF WellLinked, MapRecord
<1>2. PICK i \in 1 .. Len(m.base_order) - 1 :
        m.base_order[i] = e /\ m.base_order[i + 1] = p
  BY DEF Follows
<1>3. /\ i \in 1 .. Len(m.base_order)
      /\ i + 1 \in 1 .. Len(m.base_order)
      /\ i # i + 1
  BY <1>1, <1>2
<1> QED BY <1>2, <1>3 DEF WellLinked, Distinct

(* combine_entry, towards either side.                                      *)
LEMMA MergeNextKeeps ==
  ASSUME NEW m, WellLinked(m), NEW e \in Linked(m)
  PROVE  /\ Keeps(m, MergeNext(m, e), TRUE)
         /\ e \in Linked(MergeNext(m, e))
<1> DEFINE others == {p \in ToSet(m.base_order) :
                        Follows(m, p, e) /\ IsFree(m, p) /\ Contiguous(m, e, p)}
           p == CHOOSE q \in others : TRUE
           c == m.data[e]
           d == m.data[p]
           new == Dpme(c.type, c.start, Wrap(c.length + d.length))
           r == DeleteEntry([m EXCEPT !.data[e] = new], p)
<1>1. CASE others = {}
  <2>1. MergeNext(m, e) = m
    BY <1>1 DEF MergeNext
  <2> QED BY <2>1 DEF Keeps
<1>2. CASE others # {}
  <2>1. p \in others
    BY <1>2
  <2>2. /\ p \in Linked(m)
        /\ Follows(m, p, e)
        /\ End(c) = d.start
    BY <2>1 DEF Linked, Contiguous
  <2>3. MergeNext(m, e) = r
    <3>1. [m EXCEPT !.data[e] =
             Dpme(@.type, @.start, Wrap(@.length + m.data[p].length))]
          = [m EXCEPT !.data[e] = new]
      OBVIOUS
    <3> QED BY <1>2, <3>1 DEF MergeNext
  <2> HIDE DEF p
  <2>4. e # p
    BY <2>2, FollowsIsAnother
  <2>5. c \in DpmeSet /\ d \in DpmeSet
    BY <2>2, LinkedData
  <2>6. c.type \in PartitionType /\ c.length + d.length \in Int
    BY <2>5, DpmeFields, U32Assumption
  <2>7. new \in DpmeSet
    BY <2>5, <2>6, DpmeIsTyped, DpmeFields, WrapIsU32
  <2>8. ASSUME Disjoint(m)
        PROVE  /\ Small(new.start + new.length)
               /\ \A f \in Linked(m) \ {e, p} : Apart(new, m.data[f])
    <3>1. Small(c.start + c.length) /\ Small(d.start + d.length)
      BY <2>2, <2>8 DEF Disjoint
    <3> HIDE DEF c, d
    <3>2. /\ Small(new.start + new.length)
          /\ \A x \in DpmeSet : Apart(x, c) /\ Apart(x, d) => Apart(x, new)
      BY <2>2, <2>5, <2>6, <3>1, MergeIsExact
    <3>3. ASSUME NEW f \in Linked(m) \ {e, p} PROVE Apart(new, m.data[f])
      <4>1. m.data[f] \in DpmeSet
        BY LinkedData
      <4>2. Apart(m.data[f], c) /\ Apart(m.data[f], d)
        BY <2>2, <2>8 DEF Disjoint, c, d
      <4> HIDE DEF new
      <4> QED BY <4>1, <4>2, <3>2, ApartIsSymmetric
    <3> QED BY <3>2, <3>3
  <2> HIDE DEF new
  <2>9. /\ WellLinked(r)
        /\ e \in Linked(r)
        /\ r.media_size = m.media_size
        /\ r.drivers = m.drivers
        /\ Disjoint(m) => Disjoint(r)
    BY <2>2, <2>4, <2>7, <2>8, MergeKeepsDisjoint
  <2> QED BY <2>3, <2>9 DEF Keeps
<1> QED BY <1>1, <1>2

LEMMA MergePrevKeeps ==
  ASSUME NEW m, WellLinked(m), NEW e \in Linked(m)
  PROVE  /\ Keeps(m, MergePrev(m, e), TRUE)
         /\ e \in Linked(MergePrev(m, e))
<1> DEFINE others == {p \in ToSet(m.base_order) :
                        Follows(m, e, p) /\ IsFree(m, p) /\ Contiguous(m, p, e)}
           p == CHOOSE q \in others : TRUE
           c == m.data[e]
           d == m.data[p]
           new == Dpme(c.type, d.start, Wrap(c.length + d.length))
           r == DeleteEntry([m EXCEPT !.data[e] = new], p)
<1>1. CASE others = {}
  <2>1. MergePrev(m, e) = m
    BY <1>1 DEF MergePrev
  <2> QED BY <2>1 DEF Keeps
<1>2. CASE others # {}
  <2>1. p \in others
    BY <1>2
  <2>2. /\ p \in Linked(m)
        /\ Follows(m, e, p)
        /\ End(d) = c.start
    BY <2>1 DEF Linked, Contiguous
  <2>3. MergePrev(m, e) = r
    <3>1. [m EXCEPT !.data[e] =
             Dpme(@.type, m.data[p].start, Wrap(@.length + m.data[p].length))]
          = [m EXCEPT !.data[e] = new]
      OBVIOUS
    <3> QED BY <1>2, <3>1 DEF MergePrev
  <2> HIDE DEF p
  <2>4. e # p
    BY <2>2, FollowsIsAnother
  <2>5. c \in DpmeSet /\ d \in DpmeSet
    BY <2>2, LinkedData
  <2>6. c.type \in PartitionType /\ c.length + d.length \in Int
    BY <2>5, DpmeFields, U32Assumption
  <2>7. new \in DpmeSet
    BY <2>5, <2>6, DpmeIsTyped, DpmeFields, WrapIsU32
  <2>8. ASSUME Disjoint(m)
        PROVE  /\ Small(new.start + new.length)
               /\ \A f \in Linked(m) \ {e, p} : Apart(new, m.data[f])
    <3>0. new = Dpme(c.type, d.start, Wrap(d.length + c.length))
      BY <2>5, DpmeFields, U32Assumption
    <3>1. Small(c.start + c.length) /\ Small(d.start + d.length)
      BY <2>2, <2>8 DEF Disjoint
    <3> HIDE DEF c, d, new
    <3>2. /\ Small(new.start + new.length)
          /\ \A x \in DpmeSet : Apart(x, c) /\ Apart(x, d) => Apart(x, new)
      BY <2>2, <2>5, <2>6, <3>0, <3>1, MergeIsExact
    <3>3. ASSUME NEW f \in Linked(m) \ {e, p} PROVE Apart(new, m.data[f])
      <4>1. m.data[f] \in DpmeSet
        BY LinkedData
      <4>2. Apart(m.data[f], c) /\ Apart(m.data[f], d)
        BY <2>2, <2>8 DEF Disjoint, c, d
      <4> QED BY <4>1, <4>2, <3>2, ApartIsSymmetric
    <3> QED BY <3>2, <3>3
  <2> HIDE DEF new
  <2>9. /\ WellLinked(r)
        /\ e \in Linked(r)
        /\ r.media_size = m.media_size
        /\ r.drivers = m.drivers
        /\ Disjoint(m) => Disjoint(r)
    BY <2>2, <2>4, <2>7, <2>8, MergeKeepsDisjoint
  <2> QED BY <2>3, <2>9 DEF Keeps
<1> QED BY <1>1, <1>2

LEMMA CombineEntryKeeps ==
  ASSUME NEW m, WellLinked(m), NEW e \in Linked(m)
  PROVE  Keeps(m, CombineEntry(m, e), TRUE)
<1> DEFINE n == MergeNext(m, e)
           p == MergePrev(n, e)
<1>1. Keeps(m, n, TRUE) /\ e \in Linked(n)
  BY MergeNextKeeps
<1>2. Keeps(n, p, TRUE)
  BY <1>1, MergePrevKeeps DEF Keeps
<1>3. Keeps(m, p, TRUE)
  <2> HIDE DEF n, p
  <2> QED BY <1>1, <1>2 DEF Keeps
<1>4. CombineEntry(m, e) = IF IsFree(m, e) THEN p ELSE m
  BY DEF CombineEntry
<1>5. Keeps(m, m, TRUE)
  BY KeepsItself
<1> HIDE DEF p
<1> QED BY <1>3, <1>4, <1>5

(* Only the type of an entry changes: its blocks do not.                    *)
LEMMA RetypeKeeps ==
  ASSUME NEW m, WellLinked(m), NEW e \in Linked(m), NEW type \in PartitionType
  PROVE  LET r == [m EXCEPT !.data[e] = Dpme(type, @.start, @.length)]
         IN  /\ Keeps(m, r, TRUE)
             /\ Linked(r) = Linked(m)
             /\ Numbered(m) => Numbered(r)
<1> DEFINE c == m.data[e]
           d == Dpme(type, c.start, c.length)
           r == [m EXCEPT !.data[e] = d]
<1>1. c \in DpmeSet
  BY LinkedData
<1>2. d \in DpmeSet /\ d.start = c.start /\ d.length = c.length
  BY <1>1, DpmeFields, DpmeIsTyped
<1>3. [m EXCEPT !.data[e] = Dpme(type, @.start, @.length)] = r
  OBVIOUS
<1> HIDE DEF d
<1>4. /\ WellLinked(r)
      /\ Linked(r) = Linked(m)
      /\ r.media_size = m.media_size
      /\ r.drivers = m.drivers
      /\ r.disk_order = m.disk_order
      /\ r.disk_address = m.disk_address
  BY <1>2, SetDataKeepsLinks
<1>5. ASSUME Disjoint(m) PROVE Disjoint(r)
  <2>1. Small(d.start + d.length)
    BY <1>2, <1>5 DEF Disjoint
  <2>2. ASSUME NEW f \in Linked(m), f # e PROVE Apart(d, m.data[f])
    BY <1>2, <1>5, <2>2 DEF Disjoint, Apart
  <2> QED BY <1>2, <1>5, <2>1, <2>2, SetDataKeepsDisjoint
<1> HIDE DEF r
<1>6. Numbered(m) => Numbered(r)
  BY <1>4 DEF Numbered
<1> QED BY <1>3, <1>4, <1>5, <1>6 DEF Keeps

LEMMA DeletePartitionKeeps ==
  ASSUME NEW m, WellLinked(m), NEW e \in Linked(m), NEW mallocs \in Int
  PROVE  Edited(m, DeletePartitionFromMap(m, e, mallocs), TRUE)
<1> DEFINE freed == [m EXCEPT !.data[e] = Dpme(FreeType, @.start, @.length)]
           combined == CombineEntry(freed, e)
           no == \/ m.data[e].type = MapType
                 \/ ContainsDriver(m, e)
                 \/ mallocs < 1
<1>1. Keeps(m, freed, TRUE) /\ Linked(freed) = Linked(m)
  BY RetypeKeeps, FreeIsType
<1> HIDE DEF freed
<1>2. Keeps(freed, combined, TRUE)
  BY <1>1, CombineEntryKeeps DEF Keeps
<1>3. Keeps(m, combined, TRUE)
  <2> HIDE DEF combined
  <2> QED BY <1>1, <1>2 DEF Keeps
<1>4. DeletePartitionFromMap(m, e, mallocs) =
        IF no THEN m
        ELSE [RenumberDiskAddresses(combined) EXCEPT !.changed = TRUE]
  BY DEF DeletePartitionFromMap, freed
<1> HIDE DEF combined, no
<1>5. Edited(m, [RenumberDiskAddresses(combined) EXCEPT !.changed = TRUE], TRUE)
  BY <1>3, RenumberFinishes
<1> QED BY <1>4, <1>5, KeepsItself

LEMMA MoveEntryKeeps ==
  ASSUME NEW m, WellLinked(m), NEW old_index \in Int, NEW index \in Int
  PROVE  LET r == MoveEntryInMap(m, old_index, index)
         IN  /\ Edited(m, r, TRUE)
             /\ r.data = m.data
             /\ r.base_order = m.base_order
             /\ r.blocks_in_map = m.blocks_in_map
             /\ r.maximum_in_map = m.maximum_in_map
<1> DEFINE found == FindEntryByDiskAddress(m, old_index)
           cur == CHOOSE e \in found : TRUE
           to == IF old_index < index THEN index + 1 ELSE index
           u == RemoveFromDiskOrder(m, cur)
           moved == [u EXCEPT !.disk_address[cur] = to]
           r == InsertInDiskOrder(moved, cur)
<1>1. m \in MapRecord
  BY DEF WellLinked
<1>2. MoveEntryInMap(m, old_index, index) =
        IF found = {} THEN m
        ELSE [RenumberDiskAddresses(r) EXCEPT !.changed = TRUE]
  BY DEF MoveEntryInMap
<1>3. CASE found = {}
  <2> HIDE DEF r
  <2> QED BY <1>2, <1>3, KeepsItself
<1>4. CASE found # {}
  <2>1. cur \in found
    BY <1>4
  <2>2. cur \in Linked(m) /\ cur \in Entry
    <3>1. cur \in ToSet(m.disk_order)
      BY <2>1 DEF FindEntryByDiskAddress
    <3> QED BY <3>1, LinkedData DEF WellLinked
  <2>3. to \in Int
    OBVIOUS
  <2> HIDE DEF cur, to
  <2> DEFINE x == Unlink(m.disk_order, cur)
             y == Link(x, moved.disk_address, cur)
  <2>4. /\ m.disk_order \in Seq(Entry)
        /\ Distinct(m.disk_order)
        /\ cur \in ToSet(m.disk_order)
    BY <1>1, <2>2 DEF WellLinked, MapRecord
  <2>5. /\ x \in Seq(Entry)
        /\ Len(x) = Len(m.disk_order) - 1
        /\ Distinct(x)
        /\ ToSet(x) = ToSet(m.disk_order) \ {cur}
    BY <2>2, <2>4, UnlinkRemoves
  <2>6. u = [m EXCEPT !.disk_order = x]
    BY DEF RemoveFromDiskOrder
  <2> HIDE DEF x, u
  <2>7. /\ u \in MapRecord
        /\ u.disk_order = x
        /\ u.base_order = m.base_order
        /\ u.data = m.data
        /\ u.disk_address = m.disk_address
        /\ u.blocks_in_map = m.blocks_in_map
        /\ u.maximum_in_map = m.maximum_in_map
        /\ u.media_size = m.media_size
        /\ u.drivers = m.drivers
    BY <1>1, <2>5, <2>6 DEF MapRecord
  <2>8. /\ moved \in MapRecord
        /\ moved.disk_order = x
        /\ moved.base_order = m.base_order
        /\ moved.data = m.data
        /\ moved.blocks_in_map = m.blocks_in_map
        /\ moved.maximum_in_map = m.maximum_in_map
        /\ moved.media_size = m.media_size
        /\ moved.drivers = m.drivers
    BY <2>2, <2>3, <2>7 DEF MapRecord
  <2> HIDE DEF moved
  <2>9. /\ y \in Seq(Entry)
        /\ Len(y) = Len(x) + 1
        /\ Distinct(y)
        /\ ToSet(y) = ToSet(x) \cup {cur}
    <3>1. moved.disk_address \in [Entry -> Int] /\ cur \notin ToSet(x)
      BY <2>5, <2>8 DEF MapRecord
    <3> QED BY <3>1, <2>2, <2>5, LinkAdds
  <2>10. r = [moved EXCEPT !.disk_order = y]
    BY <2>8 DEF InsertInDiskOrder
  <2> HIDE DEF y, r
  <2>11. /\ r \in MapRecord
         /\ r.disk_order = y
         /\ r.base_order = m.base_order
         /\ r.data = m.data
         /\ r.blocks_in_map = m.blocks_in_map
         /\ r.maximum_in_map = m.maximum_in_map
         /\ r.media_size = m.media_size
         /\ r.drivers = m.drivers
    BY <2>8, <2>9, <2>10 DEF MapRecord
  <2>12. Linked(r) = Linked(m) /\ Unused(r) = Unused(m)
    BY <2>11 DEF Linked, Unused
  <2>13. /\ ToSet(r.disk_order) = ToSet(m.disk_order)
         /\ Len(r.disk_order) = Len(m.disk_order)
    <3>1. Len(m.disk_order) \in Nat
      BY <2>4, LenProperties
    <3>2. Len(r.disk_order) = Len(m.disk_order)
      BY <3>1, <2>5, <2>9, <2>11
    <3>3. ToSet(y) = ToSet(m.disk_order)
      BY <2>4, <2>5, <2>9
    <3> QED BY <3>2, <3>3, <2>11
  <2>14. WellLinked(r)
    BY <2>9, <2>11, <2>12, <2>13 DEF WellLinked
  <2>15. Keeps(m, r, TRUE)
    BY <2>11, <2>12, <2>14 DEF Keeps, Disjoint
  <2> DEFINE s == [RenumberDiskAddresses(r) EXCEPT !.changed = TRUE]
  <2>16. Edited(m, s, TRUE)
    BY <2>15, RenumberFinishes
  <2>17. /\ s.data = r.data
         /\ s.base_order = r.base_order
         /\ s.blocks_in_map = r.blocks_in_map
         /\ s.maximum_in_map = r.maximum_in_map
    BY <2>14, RenumberNumbers
  <2> HIDE DEF s
  <2> QED BY <1>2, <1>4, <2>11, <2>16, <2>17 DEF s
<1> QED BY <1>3, <1>4

LEMMA EditedChains ==
  ASSUME NEW m, NEW n, NEW r, NEW within, Edited(m, n, TRUE), Edited(n, r, within)
  PROVE  Edited(m, r, within)
BY DEF Edited, Keeps

LEMMA ResizeMapKeeps ==
  ASSUME NEW m, WellLinked(m), NEW new_size \in 0 .. U32 - 1, NEW mallocs \in Int
  PROVE  Edited(m, ResizeMap(m, new_size, mallocs), Small(1) /\ Small(new_size))
<1> DEFINE e == MapEntry(m)
           blanked == [m EXCEPT !.data[e] = Dpme(BlankType, @.start, @.length)]
           deleted == DeletePartitionFromMap(blanked, e, mallocs)
           added == AddPartitionToMap(deleted, MapType, 1, new_size, mallocs - 1)
           may == /\ MapSlots(m) # {}
                  /\ MayShrink(m, new_size) \/ MayGrow(m, new_size)
           small == Small(1) /\ Small(new_size)
<1>1. ResizeMap(m, new_size, mallocs) = IF may THEN added ELSE m
  BY DEF ResizeMap
<1>2. small \in BOOLEAN
  BY DEF Small
<1>3. CASE ~ may
  <2> HIDE DEF added, may, small
  <2> QED BY <1>1, <1>2, <1>3, KeepsItself DEF small
<1>4. CASE may
  <2>1. e \in Linked(m)
    <3>1. DOMAIN m.base_order = 1 .. Len(m.base_order)
      BY LenProperties DEF WellLinked, MapRecord
    <3>2. MapSlots(m) \in SUBSET Nat /\ MapSlots(m) # {}
      BY <1>4, <3>1 DEF MapSlots
    <3>3. Min(MapSlots(m)) \in MapSlots(m)
      BY <3>2, LeastExists
    <3>4. Min(MapSlots(m)) \in DOMAIN m.base_order
      BY <3>3 DEF MapSlots
    <3> QED BY <3>4 DEF MapEntry, Linked, ToSet
  <2>2. BlankType \in PartitionType /\ MapType \in PartitionType
    BY DEF PartitionType
  <2> HIDE DEF e
  <2>3. Edited(m, blanked, TRUE) /\ Linked(blanked) = Linked(m)
    BY <2>1, <2>2, RetypeKeeps DEF Edited
  <2> HIDE DEF blanked
  <2>4. Edited(blanked, deleted, TRUE)
    BY <2>1, <2>3, DeletePartitionKeeps DEF Edited, Keeps
  <2> HIDE DEF deleted
  <2>5. 1 \in 0 .. U32 - 1 /\ mallocs - 1 \in Int
    BY U32Assumption
  <2>6. Edited(deleted, added, small)
    BY <2>2, <2>4, <2>5, AddPartitionKeeps DEF Edited, Keeps
  <2> HIDE DEF added, small
  <2>7. Edited(m, added, small)
    BY <2>3, <2>4, <2>6, EditedChains
  <2> HIDE DEF may
  <2> QED BY <1>1, <1>4, <2>7 DEF small
<1> QED BY <1>3, <1>4

(* A new map.                                                               *)
LEMMA CreatedIsSound ==
  ASSUME NEW media \in 1 .. U32 - 1, NEW drivers \in SUBSET [block : Nat, size : Nat]
  PROVE  LET r == CreatePartitionMap(media, drivers)
         IN  /\ WellLinked(r)
             /\ Numbered(r)
             /\ Small(media) => Disjoint(r)
<1> DEFINE m == EmptyMap(media, drivers)
           d == Dpme(FreeType, 1, Wrap(media - 1))
           a == AddDataToMap(m, d, 1)
           e == NewNode(m)
           r == CreatePartitionMap(media, drivers)
<1>1. WellLinked(m) /\ Linked(m) = {} /\ m.disk_order = << >>
  <2>1. m.disk_order = << >>
    BY DEF EmptyMap
  <2>2. media \in 0 .. U32 - 1
    BY U32Assumption
  <2> HIDE DEF m
  <2> QED BY <2>1, <2>2, EmptyMapIsWellLinked DEF m
<1>2. media - 1 \in 0 .. U32 - 1
  BY U32Assumption
<1>3. Wrap(media - 1) = media - 1
  BY <1>2, WrapSmall
<1>4. d \in DpmeSet /\ d.start = 1 /\ d.length = media - 1
  BY <1>2, <1>3, DpmeIsTyped, FreeIsType, U32Assumption
<1> HIDE DEF m, d
<1>5. r = [a EXCEPT !.changed = TRUE]
  BY DEF CreatePartitionMap, m, d
<1>6. /\ WellLinked(a)
      /\ Numbered(a)
      /\ Small(media) => Disjoint(a)
  <2>1. CASE Unused(m) = {}
    <3>1. a = m
      BY <2>1 DEF AddDataToMap
    <3> QED BY <3>1, <1>1 DEF Numbered, Disjoint
  <2>2. CASE Unused(m) # {}
    <3>1. /\ e \in Entry
          /\ WellLinked(a)
          /\ Linked(a) = {e}
          /\ a.data[e] = d
          /\ a.disk_address[e] = 1
      BY <1>1, <1>4, <2>2, AddDataToMapLinks
    <3> HIDE DEF a, e
    <3>2. Numbered(a)
      <4>1. a.disk_order \in Seq(Entry) /\ ToSet(a.disk_order) = {e}
        BY <3>1 DEF WellLinked, MapRecord
      <4>2. /\ DOMAIN a.disk_order = 1 .. Len(a.disk_order)
            /\ Len(a.disk_order) \in Nat
        BY <4>1, LenProperties
      <4>3. \A i \in 1 .. Len(a.disk_order) : a.disk_order[i] = e
        BY <4>1, <4>2 DEF ToSet
      <4>4. \A i \in 1 .. Len(a.disk_order) : i = 1
        <5> SUFFICES ASSUME NEW i \in 1 .. Len(a.disk_order) PROVE i = 1
          OBVIOUS
        <5>1. 1 \in 1 .. Len(a.disk_order)
          BY <4>2
        <5> QED BY <5>1, <4>3, <3>1 DEF WellLinked, Distinct
      <4> QED BY <4>3, <4>4, <3>1 DEF Numbered
    <3>3. Small(media) => Disjoint(a)
      BY <3>1, <1>4 DEF Disjoint, Small
    <3> QED BY <3>1, <3>2, <3>3
  <2> QED BY <2>1, <2>2
<1> HIDE DEF a, r
<1>7. /\ r \in MapRecord
      /\ r.disk_order = a.disk_order
      /\ r.base_order = a.base_order
      /\ r.data = a.data
      /\ r.disk_address = a.disk_address
      /\ r.blocks_in_map = a.blocks_in_map
  BY <1>5, <1>6 DEF WellLinked, MapRecord
<1>8. Linked(r) = Linked(a) /\ Unused(r) = Unused(a)
  BY <1>7 DEF Linked, Unused
<1>9. WellLinked(r)
  BY <1>6, <1>7, <1>8 DEF WellLinked
<1>10. Numbered(r) /\ (Disjoint(a) => Disjoint(r))
  BY <1>6, <1>7, <1>8 DEF Numbered, Disjoint
<1> QED BY <1>6, <1>9, <1>10 DEF r

-----------------------------------------------------------------------------
(* Counting.  How many entries a step adds, and that it leaves the maximum  *)
(* alone.  A step adds a map entry only when "type" is that of one.         *)

HasMap(m) == \E e \in Entry : m.data[e].type = MapType

Grows(m, r, n, type) ==
  /\ r.maximum_in_map = m.maximum_in_map
  /\ r.blocks_in_map <= m.blocks_in_map + n
  /\ HasMap(r) => HasMap(m) \/ type = MapType

LEMMA GrowsItself ==
  ASSUME NEW m \in MapRecord, NEW n \in Nat, NEW type
  PROVE  Grows(m, m, n, type)
<1>1. m.blocks_in_map \in Int
  BY DEF MapRecord
<1> QED BY <1>1 DEF Grows

LEMMA GrowsChains ==
  ASSUME NEW m \in MapRecord, NEW n \in MapRecord, NEW r \in MapRecord,
         NEW i \in Nat, NEW j \in Nat, NEW type,
         Grows(m, n, i, type), Grows(n, r, j, type)
  PROVE  Grows(m, r, i + j, type)
<1>1. /\ m.blocks_in_map \in Int
      /\ n.blocks_in_map \in Int
      /\ r.blocks_in_map \in Int
  BY DEF MapRecord
<1>2. r.blocks_in_map <= m.blocks_in_map + (i + j)
  BY <1>1 DEF Grows
<1> QED BY <1>2 DEF Grows

LEMMA SetDataGrows ==
  ASSUME NEW m, WellLinked(m), NEW e \in Linked(m), NEW d \in DpmeSet,
         NEW type, d.type = MapType => HasMap(m) \/ type = MapType
  PROVE  LET r == [m EXCEPT !.data[e] = d]
         IN  WellLinked(r) /\ Grows(m, r, 0, type)
<1> DEFINE r == [m EXCEPT !.data[e] = d]
<1>1. /\ WellLinked(r)
      /\ r.data = [m.data EXCEPT ![e] = d]
      /\ r.blocks_in_map = m.blocks_in_map
      /\ r.maximum_in_map = m.maximum_in_map
  BY SetDataKeepsLinks
<1> HIDE DEF r
<1>2. m.data \in [Entry -> DpmeSet \cup {NoData}] /\ m.blocks_in_map \in Int
  BY DEF WellLinked, MapRecord
<1>3. \A f \in Entry : r.data[f] = IF f = e THEN d ELSE m.data[f]
  BY <1>1, <1>2
<1>4. HasMap(r) => HasMap(m) \/ type = MapType
  BY <1>3 DEF HasMap
<1> QED BY <1>1, <1>2, <1>4 DEF Grows, r

LEMMA AddDataGrows ==
  ASSUME NEW m, WellLinked(m), NEW d \in DpmeSet, NEW index \in Int,
         m.maximum_in_map >= 0 \/ d.type # MapType,
         NEW type, d.type = MapType => type = MapType
  PROVE  LET r == AddDataToMap(m, d, index)
         IN  WellLinked(r) /\ Grows(m, r, 1, type)
<1> DEFINE r == AddDataToMap(m, d, index)
           e == NewNode(m)
<1>0. m \in MapRecord /\ m.blocks_in_map \in Int /\ m.maximum_in_map \in Int
  BY DEF WellLinked, MapRecord
<1>1. CASE Unused(m) = {}
  <2>1. r = m
    BY <1>1 DEF AddDataToMap
  <2> HIDE DEF r
  <2>2. Grows(m, r, 1, type)
    BY <2>1, <1>0, GrowsItself
  <2> QED BY <2>1, <2>2 DEF r
<1>2. CASE Unused(m) # {}
  <2>1. /\ WellLinked(r)
        /\ \A f \in Entry : r.data[f] = IF f = e THEN d ELSE m.data[f]
        /\ r.blocks_in_map = m.blocks_in_map + 1
        /\ r.maximum_in_map =
             IF m.maximum_in_map < 0 /\ d.type = MapType
             THEN AsInt(d.length) ELSE m.maximum_in_map
    BY <1>2, AddDataToMapLinks
  <2> HIDE DEF r, e
  <2>2. r.maximum_in_map = m.maximum_in_map
    BY <2>1, <1>0
  <2>3. HasMap(r) => HasMap(m) \/ type = MapType
    BY <2>1 DEF HasMap
  <2> QED BY <2>1, <2>2, <2>3, <1>0 DEF Grows, r
<1> QED BY <1>1, <1>2

LEMMA PlaceNewGrows ==
  ASSUME NEW m, WellLinked(m), NEW cur \in Linked(m),
         NEW type \in PartitionType,
         NEW base \in 0 .. U32 - 1, NEW length \in 0 .. U32 - 1,
         m.maximum_in_map >= 0 \/ type # MapType, NEW mallocs \in Int
  PROVE  Grows(m, PlaceNew(m, cur, Dpme(type, base, length), mallocs),
               AddAction(m.data[cur], base, length), type)
<1> DEFINE new    == Dpme(type, base, length)
           d      == m.data[cur]
           index  == m.disk_address[cur]
           rest   == Rest(d, base, length)
           left   == LeftOf(d, base)
           act    == AddAction(d, base, length)
           whole  == [m EXCEPT !.data[cur] = new]
           shrunk == [m EXCEPT !.data[cur] = rest]
           added  == AddDataToMap(shrunk, new, index)
           both   == AddDataToMap(added, left, index)
<1>0. /\ new.start = base /\ new.length = length /\ new.type = type
      /\ rest.type = FreeType /\ left.type = FreeType /\ FreeType # MapType
  BY DEF Dpme, Rest, LeftOf, RightOf, FreeType, MapType
<1>1. /\ d \in DpmeSet
      /\ new \in DpmeSet
      /\ rest \in DpmeSet
      /\ left \in DpmeSet
      /\ index \in Int
      /\ cur \in Entry
  <2>1. d \in DpmeSet /\ cur \in Entry
    BY LinkedData
  <2>2. new \in DpmeSet
    BY DpmeIsTyped
  <2>3. index \in Int
    BY <2>1 DEF WellLinked, MapRecord
  <2>4. rest \in DpmeSet /\ left \in DpmeSet
    BY <2>1, PartsAreTyped
  <2> QED BY <2>1, <2>2, <2>3, <2>4
<1>2. act \in {kReplace, kAdd, kSplit}
  BY DEF AddAction
<1>3. PlaceNew(m, cur, new, mallocs) =
        IF act = kReplace THEN whole
        ELSE IF mallocs < 2 THEN shrunk
        ELSE IF act = kSplit /\ mallocs >= 4 THEN both ELSE added
  <2>1. /\ rest = Rest(d, new.start, new.length)
        /\ left = LeftOf(d, new.start)
        /\ act = AddAction(d, new.start, new.length)
    BY <1>0
  <2> HIDE DEF act, whole, both, added, new, rest, left
  <2> QED BY <2>1 DEF PlaceNew, d, index, shrunk, whole, both, added
<1>4. WellLinked(whole) /\ Grows(m, whole, 0, type)
  <2> HIDE DEF new
  <2> QED BY <1>0, <1>1, SetDataGrows
<1> HIDE DEF new, d, index, rest, left
<1>5. WellLinked(shrunk) /\ Grows(m, shrunk, 0, type)
  BY <1>0, <1>1, SetDataGrows
<1> HIDE DEF shrunk, whole
<1>6. shrunk.maximum_in_map >= 0 \/ type # MapType
  BY <1>5 DEF Grows
<1>7. WellLinked(added) /\ Grows(shrunk, added, 1, type)
  BY <1>0, <1>1, <1>5, <1>6, AddDataGrows
<1> HIDE DEF added
<1>8. WellLinked(both) /\ Grows(added, both, 1, type)
  BY <1>0, <1>1, <1>7, AddDataGrows
<1> HIDE DEF both
<1>9. m \in MapRecord /\ shrunk \in MapRecord /\ added \in MapRecord
      /\ both \in MapRecord /\ m.blocks_in_map \in Int
  BY <1>5, <1>7, <1>8 DEF WellLinked, MapRecord
<1>10. Grows(m, added, 0 + 1, type)
  BY <1>5, <1>7, <1>9, GrowsChains
<1>11. Grows(m, both, (0 + 1) + 1, type)
  BY <1>8, <1>9, <1>10, GrowsChains
<1>12. CASE act = kReplace
  BY <1>3, <1>4, <1>12 DEF kReplace, new, d
<1>13. CASE act # kReplace
  <2>1. act \in {1, 2}
    BY <1>2, <1>13 DEF kReplace, kAdd, kSplit
  <2>2. Grows(m, shrunk, act, type)
    <3>1. shrunk.blocks_in_map \in Int
      BY <1>9 DEF MapRecord
    <3> HIDE DEF act
    <3> QED BY <3>1, <2>1, <1>5, <1>9 DEF Grows
  <2>3. Grows(m, added, act, type)
    <3>1. added.blocks_in_map \in Int
      BY <1>9 DEF MapRecord
    <3> HIDE DEF act
    <3> QED BY <3>1, <2>1, <1>10, <1>9 DEF Grows
  <2>4. act = kSplit => Grows(m, both, act, type)
    BY <1>11 DEF kSplit
  <2> HIDE DEF act
  <2>5. Grows(m, PlaceNew(m, cur, new, mallocs), act, type)
    BY <1>3, <1>13, <2>2, <2>3, <2>4
  <2> QED BY <2>5 DEF new, d, act
<1> QED BY <1>12, <1>13

LEMMA RenumberGrows ==
  ASSUME NEW m, NEW r, NEW n, NEW type, WellLinked(r), Grows(m, r, n, type)
  PROVE  Grows(m, [RenumberDiskAddresses(r) EXCEPT !.changed = TRUE], n, type)
<1> DEFINE s == [RenumberDiskAddresses(r) EXCEPT !.changed = TRUE]
<1>1. /\ s.data = r.data
      /\ s.blocks_in_map = r.blocks_in_map
      /\ s.maximum_in_map = r.maximum_in_map
  BY RenumberNumbers
<1> HIDE DEF s
<1>2. Grows(m, s, n, type)
  BY <1>1 DEF Grows, HasMap
<1> QED BY <1>2 DEF s

(* add_partition_to_map changes the map only when the entries it adds fit.  *)
LEMMA AddPartitionGrows ==
  ASSUME NEW m, WellLinked(m), NEW type \in PartitionType,
         NEW base \in 0 .. U32 - 1, NEW length \in 0 .. U32 - 1,
         m.maximum_in_map >= 0 \/ type # MapType, NEW mallocs \in Int
  PROVE  LET r == AddPartitionToMap(m, type, base, length, mallocs)
         IN  \/ r = m
             \/ \E act \in 0 .. 2 : MapIsBigEnough(m, act) /\ Grows(m, r, act, type)
<1> DEFINE cur   == Container(m, base, length)
           act   == AddAction(m.data[cur], base, length)
           new   == Dpme(type, base, length)
           placed == PlaceNew(m, cur, new, mallocs)
           may   == /\ WithinFree(m, base, length)
                    /\ MapIsBigEnough(m, act)
                    /\ mallocs >= 1
           s == [RenumberDiskAddresses(placed) EXCEPT !.changed = TRUE]
<1>1. AddPartitionToMap(m, type, base, length, mallocs) = IF may THEN s ELSE m
  BY DEF AddPartitionToMap
<1>2. CASE may
  <2>1. cur \in Linked(m) /\ Includes(m.data[cur], base, length)
    BY <1>2, ContainerIsLinked DEF WithinFree
  <2>2. act \in 0 .. 2 /\ MapIsBigEnough(m, act)
    BY <1>2 DEF AddAction, kReplace, kAdd, kSplit
  <2> HIDE DEF cur
  <2>3. WellLinked(placed)
    BY <2>1, PlaceNewKeeps DEF Keeps
  <2>4. Grows(m, placed, act, type)
    BY <2>1, PlaceNewGrows
  <2> HIDE DEF placed, act
  <2>5. Grows(m, s, act, type)
    BY <2>3, <2>4, RenumberGrows
  <2> HIDE DEF s, may
  <2> QED BY <1>1, <1>2, <2>2, <2>5
<1>3. CASE ~ may
  <2> HIDE DEF may, s
  <2> QED BY <1>1, <1>3
<1> QED BY <1>2, <1>3

LEMMA DeleteEntryGrows ==
  ASSUME NEW m, WellLinked(m), NEW e \in Linked(m), NEW type
  PROVE  LET r == DeleteEntry(m, e)
         IN  WellLinked(r) /\ Grows(m, r, 0, type)
<1> DEFINE r == DeleteEntry(m, e)
<1>1. /\ WellLinked(r)
      /\ r.data = [m.data EXCEPT ![e] = NoData]
      /\ r.blocks_in_map = m.blocks_in_map - 1
      /\ r.maximum_in_map = m.maximum_in_map
  BY DeleteEntryUnlinks
<1> HIDE DEF r
<1>2. m.data \in [Entry -> DpmeSet \cup {NoData}] /\ m.blocks_in_map \in Int
  BY DEF WellLinked, MapRecord
<1>3. \A f \in Entry : r.data[f] = IF f = e THEN NoData ELSE m.data[f]
  BY <1>1, <1>2
<1>4. NoData.type # MapType
  BY DEF NoData, Dpme, MapType
<1>5. HasMap(r) => HasMap(m)
  BY <1>3, <1>4 DEF HasMap
<1> QED BY <1>1, <1>2, <1>5 DEF Grows, r

LEMMA MergeGrows ==
  ASSUME NEW m, WellLinked(m), NEW e \in Linked(m), NEW p \in Linked(m), e # p,
         NEW d \in DpmeSet, d.type = m.data[e].type
  PROVE  Grows(m, DeleteEntry([m EXCEPT !.data[e] = d], p), 0, FreeType)
<1> DEFINE s == [m EXCEPT !.data[e] = d]
           r == DeleteEntry(s, p)
<1>1. d.type = MapType => HasMap(m)
  BY LinkedData DEF HasMap
<1>2. WellLinked(s) /\ Grows(m, s, 0, FreeType)
  BY <1>1, SetDataGrows
<1>3. p \in Linked(s)
  BY SetDataKeepsLinks
<1> HIDE DEF s
<1>4. WellLinked(r) /\ Grows(s, r, 0, FreeType)
  BY <1>2, <1>3, DeleteEntryGrows
<1> HIDE DEF r
<1>5. Grows(m, r, 0 + 0, FreeType)
  BY <1>2, <1>4, GrowsChains DEF WellLinked
<1> QED BY <1>5 DEF r, s

(* combine_entry merges, never adds.                                        *)
LEMMA MergeNextGrows ==
  ASSUME NEW m, WellLinked(m), NEW e \in Linked(m)
  PROVE  Grows(m, MergeNext(m, e), 0, FreeType)
<1> DEFINE others == {p \in ToSet(m.base_order) :
                        Follows(m, p, e) /\ IsFree(m, p) /\ Contiguous(m, e, p)}
           p == CHOOSE q \in others : TRUE
           c == m.data[e]
           d == m.data[p]
           new == Dpme(c.type, c.start, Wrap(c.length + d.length))
           r == DeleteEntry([m EXCEPT !.data[e] = new], p)
<1>1. CASE others = {}
  <2>1. MergeNext(m, e) = m
    BY <1>1 DEF MergeNext
  <2>2. Grows(m, m, 0, FreeType)
    BY GrowsItself DEF WellLinked
  <2> QED BY <2>1, <2>2
<1>2. CASE others # {}
  <2>1. p \in others
    BY <1>2
  <2>2. p \in Linked(m) /\ Follows(m, p, e)
    BY <2>1 DEF Linked
  <2>3. MergeNext(m, e) = r
    <3>1. [m EXCEPT !.data[e] =
             Dpme(@.type, @.start, Wrap(@.length + m.data[p].length))]
          = [m EXCEPT !.data[e] = new]
      OBVIOUS
    <3> QED BY <1>2, <3>1 DEF MergeNext
  <2> HIDE DEF p
  <2>4. e # p
    BY <2>2, FollowsIsAnother
  <2>5. c \in DpmeSet /\ d \in DpmeSet
    BY <2>2, LinkedData
  <2>6. c.type \in PartitionType /\ c.length + d.length \in Int
    BY <2>5, DpmeFields, U32Assumption
  <2>7. new \in DpmeSet /\ new.type = c.type
    <3>1. new \in DpmeSet
      BY <2>5, <2>6, DpmeIsTyped, DpmeFields, WrapIsU32
    <3>2. new.type = c.type
      BY DEF Dpme
    <3> QED BY <3>1, <3>2
  <2> HIDE DEF new
  <2>8. Grows(m, r, 0, FreeType)
    BY <2>2, <2>4, <2>7, MergeGrows
  <2> QED BY <2>3, <2>8
<1> QED BY <1>1, <1>2

LEMMA MergePrevGrows ==
  ASSUME NEW m, WellLinked(m), NEW e \in Linked(m)
  PROVE  Grows(m, MergePrev(m, e), 0, FreeType)
<1> DEFINE others == {p \in ToSet(m.base_order) :
                        Follows(m, e, p) /\ IsFree(m, p) /\ Contiguous(m, p, e)}
           p == CHOOSE q \in others : TRUE
           c == m.data[e]
           d == m.data[p]
           new == Dpme(c.type, d.start, Wrap(c.length + d.length))
           r == DeleteEntry([m EXCEPT !.data[e] = new], p)
<1>1. CASE others = {}
  <2>1. MergePrev(m, e) = m
    BY <1>1 DEF MergePrev
  <2>2. Grows(m, m, 0, FreeType)
    BY GrowsItself DEF WellLinked
  <2> QED BY <2>1, <2>2
<1>2. CASE others # {}
  <2>1. p \in others
    BY <1>2
  <2>2. p \in Linked(m) /\ Follows(m, e, p)
    BY <2>1 DEF Linked
  <2>3. MergePrev(m, e) = r
    <3>1. [m EXCEPT !.data[e] =
             Dpme(@.type, m.data[p].start, Wrap(@.length + m.data[p].length))]
          = [m EXCEPT !.data[e] = new]
      OBVIOUS
    <3> QED BY <1>2, <3>1 DEF MergePrev
  <2> HIDE DEF p
  <2>4. e # p
    BY <2>2, FollowsIsAnother
  <2>5. c \in DpmeSet /\ d \in DpmeSet
    BY <2>2, LinkedData
  <2>6. c.type \in PartitionType /\ c.length + d.length \in Int
    BY <2>5, DpmeFields, U32Assumption
  <2>7. new \in DpmeSet /\ new.type = c.type
    <3>1. new \in DpmeSet
      BY <2>5, <2>6, DpmeIsTyped, DpmeFields, WrapIsU32
    <3>2. new.type = c.type
      BY DEF Dpme
    <3> QED BY <3>1, <3>2
  <2> HIDE DEF new
  <2>8. Grows(m, r, 0, FreeType)
    BY <2>2, <2>4, <2>7, MergeGrows
  <2> QED BY <2>3, <2>8
<1> QED BY <1>1, <1>2

LEMMA DeletePartitionGrows ==
  ASSUME NEW m, WellLinked(m), NEW e \in Linked(m), NEW mallocs \in Int
  PROVE  Grows(m, DeletePartitionFromMap(m, e, mallocs), 0, FreeType)
<1> DEFINE c == m.data[e]
           free == Dpme(FreeType, c.start, c.length)
           freed == [m EXCEPT !.data[e] = free]
           n == MergeNext(freed, e)
           p == MergePrev(n, e)
           s == [RenumberDiskAddresses(CombineEntry(freed, e))
                   EXCEPT !.changed = TRUE]
           no == \/ m.data[e].type = MapType
                 \/ ContainsDriver(m, e)
                 \/ mallocs < 1
<1>1. DeletePartitionFromMap(m, e, mallocs) = IF no THEN m ELSE s
  <2>1. [m EXCEPT !.data[e] = Dpme(FreeType, @.start, @.length)] = freed
    OBVIOUS
  <2> QED BY <2>1 DEF DeletePartitionFromMap
<1>2. free \in DpmeSet /\ free.type = FreeType
  <2>1. c \in DpmeSet
    BY LinkedData
  <2> QED BY <2>1, DpmeFields, DpmeIsTyped, FreeIsType
<1>3. FreeType # MapType
  BY DEF FreeType, MapType
<1> HIDE DEF free, no
<1>4. WellLinked(freed) /\ Linked(freed) = Linked(m) /\ Grows(m, freed, 0, FreeType)
  BY <1>2, <1>3, SetDataGrows, SetDataKeepsLinks
<1> HIDE DEF freed
<1>5. Keeps(freed, n, TRUE) /\ e \in Linked(n) /\ Grows(freed, n, 0, FreeType)
  BY <1>4, MergeNextKeeps, MergeNextGrows
<1> HIDE DEF n
<1>6. Keeps(n, p, TRUE) /\ Grows(n, p, 0, FreeType)
  BY <1>5, MergePrevKeeps, MergePrevGrows DEF Keeps
<1> HIDE DEF p
<1>7. /\ m \in MapRecord
      /\ freed \in MapRecord
      /\ n \in MapRecord
      /\ p \in MapRecord
  BY <1>4, <1>5, <1>6 DEF Keeps, WellLinked
<1>8. Grows(m, n, 0 + 0, FreeType)
  BY <1>4, <1>5, <1>7, GrowsChains
<1>9. Grows(m, p, 0 + 0, FreeType)
  BY <1>6, <1>7, <1>8, GrowsChains
<1>10. CombineEntry(freed, e) \in {p, freed}
  BY DEF CombineEntry, n, p
<1>11. WellLinked(p) /\ Grows(m, p, 0, FreeType)
  BY <1>6, <1>9 DEF Keeps
<1>12. /\ WellLinked(CombineEntry(freed, e))
       /\ Grows(m, CombineEntry(freed, e), 0, FreeType)
  BY <1>4, <1>10, <1>11
<1>13. Grows(m, s, 0, FreeType)
  BY <1>12, RenumberGrows
<1>14. Grows(m, m, 0, FreeType)
  BY <1>7, GrowsItself
<1> HIDE DEF s
<1> QED BY <1>1, <1>13, <1>14

-----------------------------------------------------------------------------
(* The entries fit below the maximum, and there is a maximum as long as     *)
(* there is a map entry.                                                    *)
Roomy(m) ==
  /\ m.maximum_in_map < U32 \div 2
  /\ m.maximum_in_map >= 0 => m.blocks_in_map <= m.maximum_in_map
  /\ HasMap(m) => m.maximum_in_map >= 0

LEMMA HalfIsSmaller ==
  /\ U32 \div 2 \in Nat
  /\ U32 >= 5 => U32 \div 2 + 2 < U32
BY U32Assumption

LEMMA CountIsNatural ==
  ASSUME NEW m, WellLinked(m)
  PROVE  m.blocks_in_map \in Nat /\ m.maximum_in_map \in Int
<1>1. m.disk_order \in Seq(Entry)
  BY DEF WellLinked, MapRecord
<1> QED BY <1>1, LenProperties DEF WellLinked, MapRecord

(* The test of add_partition_to_map is exact below the maximum: nothing in  *)
(* it wraps.                                                                *)
LEMMA BigEnoughIsExact ==
  ASSUME NEW m, WellLinked(m), Roomy(m), m.maximum_in_map >= 0, U32 >= 5,
         NEW act \in 0 .. 2, MapIsBigEnough(m, act)
  PROVE  m.blocks_in_map + act <= m.maximum_in_map
<1> DEFINE half == U32 \div 2
           b == m.blocks_in_map
           x == m.maximum_in_map
<1>1. half \in Nat /\ half + 2 < U32 /\ x < half
  BY HalfIsSmaller DEF Roomy
<1> HIDE DEF half
<1>2. b \in Nat /\ x \in Nat /\ b <= x
  BY CountIsNatural DEF Roomy
<1>3. b + act \in 0 .. U32 - 1 /\ x \in 0 .. U32 - 1
  BY <1>1, <1>2, U32Assumption
<1>4. Wrap(b + act) = b + act /\ Wrap(x) = x
  BY <1>3, WrapSmall
<1>5. Wrap(b + act) <= Wrap(x)
  BY <1>2 DEF MapIsBigEnough, Limit
<1> QED BY <1>4, <1>5

LEMMA GrownIsRoomy ==
  ASSUME NEW m, WellLinked(m), Roomy(m), NEW r, WellLinked(r),
         NEW type, m.maximum_in_map >= 0 \/ type # MapType,
         NEW act \in 0 .. 2, Grows(m, r, act, type),
         U32 >= 5, MapIsBigEnough(m, act)
  PROVE  Roomy(r)
<1>1. /\ m.blocks_in_map \in Nat /\ m.maximum_in_map \in Int
      /\ r.blocks_in_map \in Nat /\ r.maximum_in_map \in Int
  BY CountIsNatural
<1>2. ASSUME r.maximum_in_map >= 0 PROVE r.blocks_in_map <= r.maximum_in_map
  <2>1. m.blocks_in_map + act <= m.maximum_in_map
    BY <1>2, BigEnoughIsExact DEF Grows
  <2> QED BY <2>1, <1>1 DEF Grows
<1>3. HasMap(r) => r.maximum_in_map >= 0
  BY DEF Grows, Roomy
<1> QED BY <1>2, <1>3 DEF Roomy, Grows

LEMMA ShrunkIsRoomy ==
  ASSUME NEW m, WellLinked(m), Roomy(m), NEW r, WellLinked(r),
         Grows(m, r, 0, FreeType)
  PROVE  Roomy(r)
<1>1. /\ m.blocks_in_map \in Nat /\ m.maximum_in_map \in Int
      /\ r.blocks_in_map \in Nat /\ r.maximum_in_map \in Int
  BY CountIsNatural
<1>2. FreeType # MapType
  BY DEF FreeType, MapType
<1> QED BY <1>1, <1>2 DEF Roomy, Grows

LEMMA AddPartitionIsRoomy ==
  ASSUME NEW m, WellLinked(m), Roomy(m), NEW type \in PartitionType,
         m.maximum_in_map >= 0 \/ type # MapType, U32 >= 5,
         NEW base \in 0 .. U32 - 1, NEW length \in 0 .. U32 - 1,
         NEW mallocs \in Int
  PROVE  Roomy(AddPartitionToMap(m, type, base, length, mallocs))
<1> DEFINE r == AddPartitionToMap(m, type, base, length, mallocs)
<1>1. WellLinked(r)
  BY AddPartitionKeeps DEF Edited, Keeps
<1>2. \/ r = m
      \/ \E act \in 0 .. 2 : MapIsBigEnough(m, act) /\ Grows(m, r, act, type)
  BY AddPartitionGrows
<1> HIDE DEF r
<1>3. Roomy(r)
  BY <1>1, <1>2, GrownIsRoomy
<1> QED BY <1>3 DEF r

LEMMA DeletePartitionIsRoomy ==
  ASSUME NEW m, WellLinked(m), Roomy(m), NEW e \in Linked(m), NEW mallocs \in Int
  PROVE  Roomy(DeletePartitionFromMap(m, e, mallocs))
<1> DEFINE r == DeletePartitionFromMap(m, e, mallocs)
<1>1. WellLinked(r)
  BY DeletePartitionKeeps DEF Edited, Keeps
<1>2. Grows(m, r, 0, FreeType)
  BY DeletePartitionGrows
<1> HIDE DEF r
<1>3. Roomy(r)
  BY <1>1, <1>2, ShrunkIsRoomy
<1> QED BY <1>3 DEF r

LEMMA MoveEntryIsRoomy ==
  ASSUME NEW m, WellLinked(m), Roomy(m), NEW old_index \in Int, NEW index \in Int
  PROVE  Roomy(MoveEntryInMap(m, old_index, index))
<1> DEFINE r == MoveEntryInMap(m, old_index, index)
<1>1. /\ r.data = m.data
      /\ r.blocks_in_map = m.blocks_in_map
      /\ r.maximum_in_map = m.maximum_in_map
  BY MoveEntryKeeps
<1> HIDE DEF r
<1>2. Roomy(r)
  BY <1>1 DEF Roomy, HasMap
<1> QED BY <1>2 DEF r

LEMMA MapEntryIsLinked ==
  ASSUME NEW m, WellLinked(m), MapSlots(m) # {}
  PROVE  MapEntry(m) \in Linked(m) /\ m.data[MapEntry(m)].type = MapType
<1>1. DOMAIN m.base_order = 1 .. Len(m.base_order)
  BY LenProperties DEF WellLinked, MapRecord
<1>2. MapSlots(m) \in SUBSET Nat
  BY <1>1 DEF MapSlots
<1>3. Min(MapSlots(m)) \in MapSlots(m)
  BY <1>2, LeastExists
<1>4. /\ Min(MapSlots(m)) \in DOMAIN m.base_order
      /\ m.data[m.base_order[Min(MapSlots(m))]].type = MapType
  BY <1>3 DEF MapSlots
<1> QED BY <1>4 DEF MapEntry, Linked, ToSet

(* resize_map deletes the map entry and adds another: the maximum of the    *)
(* first one stays, and the count stays below it.                           *)
LEMMA ResizeMapIsRoomy ==
  ASSUME NEW m, WellLinked(m), Roomy(m), U32 >= 5,
         NEW new_size \in 0 .. U32 - 1, NEW mallocs \in Int
  PROVE  /\ Roomy(ResizeMap(m, new_size, mallocs))
         /\ ResizeMap(m, new_size, mallocs).maximum_in_map = m.maximum_in_map
<1> DEFINE e == MapEntry(m)
           c == m.data[e]
           blank == Dpme(BlankType, c.start, c.length)
           blanked == [m EXCEPT !.data[e] = blank]
           deleted == DeletePartitionFromMap(blanked, e, mallocs)
           added == AddPartitionToMap(deleted, MapType, 1, new_size, mallocs - 1)
           may == /\ MapSlots(m) # {}
                  /\ MayShrink(m, new_size) \/ MayGrow(m, new_size)
<1>1. ResizeMap(m, new_size, mallocs) = IF may THEN added ELSE m
  <2>1. [m EXCEPT !.data[e] = Dpme(BlankType, @.start, @.length)] = blanked
    OBVIOUS
  <2> QED BY <2>1 DEF ResizeMap
<1>2. CASE ~ may
  <2> HIDE DEF added, may
  <2> QED BY <1>1, <1>2
<1>3. CASE may
  <2>1. e \in Linked(m) /\ c.type = MapType
    BY <1>3, MapEntryIsLinked
  <2>2. BlankType \in PartitionType /\ MapType \in PartitionType /\ BlankType # MapType
    BY DEF PartitionType, BlankType, MapType
  <2>3. c \in DpmeSet /\ e \in Entry
    BY <2>1, LinkedData
  <2>4. m.maximum_in_map >= 0
    BY <2>1, <2>3 DEF Roomy, HasMap
  <2>5. blank \in DpmeSet /\ blank.type = BlankType
    BY <2>2, <2>3, DpmeFields, DpmeIsTyped
  <2> HIDE DEF e, blank
  <2>6. /\ WellLinked(blanked)
        /\ Linked(blanked) = Linked(m)
        /\ Grows(m, blanked, 0, FreeType)
    BY <2>1, <2>2, <2>5, SetDataGrows, SetDataKeepsLinks
  <2> HIDE DEF blanked
  <2>7. Roomy(blanked) /\ blanked.maximum_in_map = m.maximum_in_map
    BY <2>6, ShrunkIsRoomy DEF Grows
  <2>8. /\ WellLinked(deleted)
        /\ Roomy(deleted)
        /\ deleted.maximum_in_map = m.maximum_in_map
    <3>1. WellLinked(deleted)
      BY <2>1, <2>6, DeletePartitionKeeps DEF Edited, Keeps
    <3>2. Grows(blanked, deleted, 0, FreeType)
      BY <2>1, <2>6, DeletePartitionGrows
    <3> HIDE DEF deleted
    <3> QED BY <3>1, <3>2, <2>6, <2>7, ShrunkIsRoomy DEF Grows
  <2> HIDE DEF deleted
  <2>9. 1 \in 0 .. U32 - 1 /\ mallocs - 1 \in Int
    BY U32Assumption
  <2>10. Roomy(added)
    BY <2>2, <2>4, <2>8, <2>9, AddPartitionIsRoomy
  <2>11. added.maximum_in_map = deleted.maximum_in_map
    <3>1. \/ added = deleted
          \/ \E act \in 0 .. 2 : MapIsBigEnough(deleted, act)
                                 /\ Grows(deleted, added, act, MapType)
      BY <2>2, <2>4, <2>8, <2>9, AddPartitionGrows
    <3> HIDE DEF added
    <3> QED BY <3>1 DEF Grows
  <2> HIDE DEF added, may
  <2> QED BY <1>1, <1>3, <2>8, <2>10, <2>11
<1> QED BY <1>2, <1>3

(* create_partition_map and the map entry of init_partition_map.            *)
LEMMA CreatedIsFree ==
  ASSUME NEW media \in 1 .. U32 - 1, NEW drivers \in SUBSET [block : Nat, size : Nat]
  PROVE  LET r == CreatePartitionMap(media, drivers)
         IN  /\ r.blocks_in_map <= 1
             /\ r.maximum_in_map = -1
             /\ r.changed = TRUE
             /\ ~ HasMap(r)
             /\ \A f \in Linked(r) : r.data[f] = Dpme(FreeType, 1, media - 1)
<1> DEFINE m == EmptyMap(media, drivers)
           d == Dpme(FreeType, 1, media - 1)
           a == AddDataToMap(m, d, 1)
           e == NewNode(m)
           r == CreatePartitionMap(media, drivers)
<1>1. /\ WellLinked(m)
      /\ Linked(m) = {}
      /\ m.blocks_in_map = 0
      /\ m.maximum_in_map = -1
      /\ ~ HasMap(m)
  <2>1. media \in 0 .. U32 - 1
    BY U32Assumption
  <2>2. WellLinked(m) /\ Linked(m) = {}
    BY <2>1, EmptyMapIsWellLinked
  <2>3. /\ m.blocks_in_map = 0
        /\ m.maximum_in_map = -1
        /\ \A f \in Entry : m.data[f] = NoData
    BY DEF EmptyMap
  <2>4. NoData.type # MapType
    BY DEF NoData, Dpme, MapType
  <2> HIDE DEF m
  <2>5. ~ HasMap(m)
    BY <2>3, <2>4 DEF HasMap
  <2> QED BY <2>2, <2>3, <2>5
<1>2. media - 1 \in 0 .. U32 - 1 /\ 1 \in 0 .. U32 - 1
  BY U32Assumption
<1>3. Wrap(media - 1) = media - 1
  BY <1>2, WrapSmall
<1>4. d \in DpmeSet /\ d.type = FreeType
  BY <1>2, DpmeIsTyped, FreeIsType
<1>5. r = [a EXCEPT !.changed = TRUE]
  BY <1>3 DEF CreatePartitionMap
<1> HIDE DEF m, d
<1>6. FreeType # MapType
  BY DEF FreeType, MapType
<1>7. /\ WellLinked(a)
      /\ a.blocks_in_map <= 1
      /\ a.maximum_in_map = -1
      /\ ~ HasMap(a)
  <2>1. WellLinked(a) /\ Grows(m, a, 1, FreeType)
    BY <1>1, <1>4, <1>6, AddDataGrows
  <2> HIDE DEF a
  <2> QED BY <2>1, <1>1, <1>6 DEF Grows
<1>8. \A f \in Linked(a) : a.data[f] = d
  <2>1. CASE Unused(m) = {}
    <3>1. a = m
      BY <2>1 DEF AddDataToMap
    <3> QED BY <3>1, <1>1
  <2>2. CASE Unused(m) # {}
    <3>1. Linked(a) = {e} /\ a.data[e] = d
      BY <1>1, <1>4, <2>2, AddDataToMapLinks
    <3> QED BY <3>1
  <2> QED BY <2>1, <2>2
<1> HIDE DEF a, r
<1>9. /\ r.blocks_in_map = a.blocks_in_map
      /\ r.maximum_in_map = a.maximum_in_map
      /\ r.data = a.data
      /\ r.base_order = a.base_order
      /\ r.changed = TRUE
  BY <1>5, <1>7 DEF WellLinked, MapRecord
<1>10. Linked(r) = Linked(a) /\ ~ HasMap(r)
  BY <1>7, <1>9 DEF Linked, HasMap
<1>11. \A f \in Linked(r) : r.data[f] = d
  BY <1>8, <1>9, <1>10
<1> QED BY <1>7, <1>9, <1>10, <1>11 DEF r, d

LEMMA FirstMapIsRoomy ==
  ASSUME NEW media \in 1 .. U32 - 1, NEW drivers \in SUBSET [block : Nat, size : Nat],
         NEW size \in 0 .. U32 - 1, 2 <= size, size < U32 \div 2,
         size # media - 1, NEW mallocs \in Int
  PROVE  Roomy(AddPartitionToMap(CreatePartitionMap(media, drivers), MapType,
                                 1, size, mallocs))
<1> DEFINE m      == CreatePartitionMap(media, drivers)
           cur    == Container(m, 1, size)
           d      == Dpme(FreeType, 1, media - 1)
           act    == AddAction(m.data[cur], 1, size)
           new    == Dpme(MapType, 1, size)
           index  == m.disk_address[cur]
           rest   == Rest(d, 1, size)
           shrunk == [m EXCEPT !.data[cur] = rest]
           added  == AddDataToMap(shrunk, new, index)
           placed == PlaceNew(m, cur, new, mallocs)
           may    == /\ WithinFree(m, 1, size)
                     /\ MapIsBigEnough(m, act)
                     /\ mallocs >= 1
           s      == [RenumberDiskAddresses(placed) EXCEPT !.changed = TRUE]
           r      == AddPartitionToMap(m, MapType, 1, size, mallocs)
<1>1. r = IF may THEN s ELSE m
  BY DEF AddPartitionToMap
<1>2. /\ WellLinked(m)
      /\ m.blocks_in_map <= 1
      /\ m.maximum_in_map = -1
      /\ ~ HasMap(m)
      /\ \A f \in Linked(m) : m.data[f] = d
  BY CreatedIsSound, CreatedIsFree
<1> HIDE DEF m
<1>3. U32 \div 2 \in Nat /\ -1 < U32 \div 2
  BY HalfIsSmaller
<1>4. Roomy(m)
  BY <1>2, <1>3 DEF Roomy
<1>5. CASE ~ may
  <2> HIDE DEF may, s, r
  <2> QED BY <1>1, <1>4, <1>5 DEF r, m
<1>6. CASE may
  <2>1. cur \in Linked(m) /\ cur \in Entry /\ m.data[cur] = d
    BY <1>2, <1>6, ContainerIsLinked, LinkedData DEF WithinFree
  <2> HIDE DEF cur
  <2>2. /\ d \in DpmeSet /\ d.start = 1 /\ d.length = media - 1
        /\ new \in DpmeSet /\ new.type = MapType /\ new.start = 1
        /\ new.length = size
        /\ 1 \in 0 .. U32 - 1
    <3>1. MapType \in PartitionType /\ 1 \in 0 .. U32 - 1 /\ media - 1 \in 0 .. U32 - 1
      BY U32Assumption DEF PartitionType
    <3> QED BY <3>1, DpmeIsTyped, FreeIsType
  <2> HIDE DEF d
  <2>3. act = kAdd
    BY <2>1, <2>2 DEF AddAction
  <2>4. kAdd # kReplace /\ kAdd # kSplit
    BY DEF kAdd, kReplace, kSplit
  <2>5. placed = IF mallocs < 2 THEN shrunk ELSE added
    <3>1. AddAction(m.data[cur], new.start, new.length) = kAdd
      BY <2>2, <2>3
    <3>2. Rest(m.data[cur], new.start, new.length) = rest
      BY <2>1, <2>2
    <3> HIDE DEF new, rest, act
    <3> QED BY <3>1, <3>2, <2>4 DEF PlaceNew
  <2>6. rest \in DpmeSet /\ rest.type = FreeType /\ FreeType # MapType
    <3>1. rest \in DpmeSet
      BY <2>2, PartsAreTyped
    <3>2. rest.type = FreeType /\ FreeType # MapType
      BY DEF Rest, LeftOf, RightOf, Dpme, FreeType, MapType
    <3> QED BY <3>1, <3>2
  <2>7. index \in Int
    BY <1>2, <2>1 DEF WellLinked, MapRecord
  <2> HIDE DEF new, rest, index
  <2>8. WellLinked(shrunk) /\ Grows(m, shrunk, 0, FreeType)
    BY <1>2, <2>1, <2>6, SetDataGrows
  <2>9. Roomy(shrunk)
    BY <1>2, <1>4, <2>8, ShrunkIsRoomy
  <2> HIDE DEF shrunk
  <2>10. /\ WellLinked(added)
         /\ Roomy(added)
    <3>1. CASE Unused(shrunk) = {}
      BY <3>1, <2>8, <2>9 DEF AddDataToMap
    <3>2. CASE Unused(shrunk) # {}
      <4>1. /\ WellLinked(added)
            /\ added.blocks_in_map = shrunk.blocks_in_map + 1
            /\ added.maximum_in_map =
                 IF shrunk.maximum_in_map < 0 /\ new.type = MapType
                 THEN AsInt(new.length) ELSE shrunk.maximum_in_map
        BY <3>2, <2>2, <2>7, <2>8, AddDataToMapLinks
      <4> HIDE DEF added
      <4>2. shrunk.maximum_in_map = -1 /\ shrunk.blocks_in_map <= 1
            /\ shrunk.blocks_in_map \in Nat
        BY <1>2, <2>8, CountIsNatural DEF Grows
      <4>3. AsInt(size) = size
        BY <1>3 DEF AsInt
      <4>4. added.maximum_in_map = size
        BY <4>1, <4>2, <4>3, <2>2
      <4> QED BY <4>1, <4>2, <4>4 DEF Roomy
    <3> QED BY <3>1, <3>2
  <2> HIDE DEF added
  <2>11. WellLinked(placed) /\ Roomy(placed)
    BY <2>5, <2>8, <2>9, <2>10
  <2> HIDE DEF placed
  <2>12. Roomy(s)
    <3>1. /\ s.data = placed.data
          /\ s.blocks_in_map = placed.blocks_in_map
          /\ s.maximum_in_map = placed.maximum_in_map
      BY <2>11, RenumberNumbers
    <3> HIDE DEF s
    <3> QED BY <3>1, <2>11 DEF Roomy, HasMap
  <2> HIDE DEF s, may, r
  <2> QED BY <1>1, <1>6, <2>12 DEF r, m
<1> QED BY <1>5, <1>6

-----------------------------------------------------------------------------
(* The order of the entries on the disk.  Nothing but an insertion sorts    *)
(* the base list, yet its entries, none of them empty, lie one behind the   *)
(* other.                                                                   *)

InOrder(m) ==
  /\ \A e \in Linked(m) :
       m.data[e].length > 0 /\ Small(m.data[e].start + m.data[e].length)
  /\ \A x, y \in Linked(m) :
       Before(m.base_order, x, y)
       => m.data[x].start + m.data[x].length <= m.data[y].start

(* No two free entries touch.                                               *)
Separate(m) ==
  \A e, f \in Linked(m) :
    IsFree(m, e) /\ IsFree(m, f) => ~ Contiguous(m, e, f)

LEMMA BaseListIsTyped ==
  ASSUME NEW m, WellLinked(m)
  PROVE  /\ m.base_order \in Seq(Entry)
         /\ Distinct(m.base_order)
         /\ ToSet(m.base_order) = Linked(m)
BY DEF WellLinked, MapRecord, Linked

LEMMA OrderedIsDisjoint ==
  ASSUME NEW m, WellLinked(m), InOrder(m)
  PROVE  Disjoint(m)
<1>1. ASSUME NEW e \in Linked(m), NEW f \in Linked(m), e # f
      PROVE  Apart(m.data[e], m.data[f])
  <2>1. Before(m.base_order, e, f) \/ Before(m.base_order, f, e)
    BY <1>1, BaseListIsTyped, BeforeIsOrder
  <2> QED BY <2>1 DEF InOrder, Apart
<1> QED BY <1>1 DEF Disjoint, InOrder

(* An entry that shrinks stays in order.                                    *)
LEMMA SetPartKeepsOrder ==
  ASSUME NEW m, WellLinked(m), InOrder(m), NEW e \in Linked(m),
         NEW d \in DpmeSet, PartOf(d, m.data[e]), d.length > 0
  PROVE  InOrder([m EXCEPT !.data[e] = d])
<1> DEFINE r == [m EXCEPT !.data[e] = d]
           c == m.data[e]
<1>1. /\ Linked(r) = Linked(m)
      /\ r.data = [m.data EXCEPT ![e] = d]
      /\ r.base_order = m.base_order
  BY SetDataKeepsLinks
<1> HIDE DEF r
<1>2. \A f \in Linked(m) : r.data[f] = IF f = e THEN d ELSE m.data[f]
  BY <1>1, LinkedData DEF WellLinked, MapRecord
<1>3. c \in DpmeSet
  BY LinkedData
<1>4. Small(d.start + d.length)
  BY <1>3, PartIsSmall DEF InOrder
<1>5. /\ c.start \in Nat /\ c.length \in Nat /\ d.start \in Nat /\ d.length \in Nat
      /\ c.start <= d.start
      /\ d.start + d.length <= c.start + c.length
  BY <1>3, DpmeFields, U32Assumption DEF PartOf
<1>6. ASSUME NEW x \in Linked(r), NEW y \in Linked(r), Before(r.base_order, x, y)
      PROVE  r.data[x].start + r.data[x].length <= r.data[y].start
  <2>1. x # y
    BY <1>1, <1>6, BaseListIsTyped, BeforeIsOrder
  <2>2. m.data[x].start + m.data[x].length <= m.data[y].start
    BY <1>1, <1>6 DEF InOrder
  <2>3. /\ m.data[x].start \in Nat /\ m.data[x].length \in Nat
        /\ m.data[y].start \in Nat
    BY <1>1, LinkedData, DpmeFields, U32Assumption
  <2>4. CASE x = e
    BY <2>1, <2>2, <2>3, <2>4, <1>1, <1>2, <1>5
  <2>5. CASE y = e
    BY <2>1, <2>2, <2>3, <2>5, <1>1, <1>2, <1>5
  <2>6. CASE x # e /\ y # e
    BY <2>2, <2>6, <1>1, <1>2
  <2> QED BY <2>4, <2>5, <2>6
<1>7. \A f \in Linked(r) :
        r.data[f].length > 0 /\ Small(r.data[f].start + r.data[f].length)
  BY <1>1, <1>2, <1>4 DEF InOrder
<1> QED BY <1>6, <1>7 DEF InOrder, r

(* insert_in_base_order finds the place of an entry that shares no block    *)
(* with the others.                                                         *)
LEMMA AddDataKeepsOrder ==
  ASSUME NEW m, WellLinked(m), InOrder(m), NEW d \in DpmeSet, NEW index \in Int,
         d.length > 0, Small(d.start + d.length),
         \A f \in Linked(m) : Apart(d, m.data[f])
  PROVE  InOrder(AddDataToMap(m, d, index))
<1> DEFINE r == AddDataToMap(m, d, index)
           e == NewNode(m)
<1>1. CASE Unused(m) = {}
  <2>1. r = m
    BY <1>1 DEF AddDataToMap
  <2> QED BY <2>1
<1>2. CASE Unused(m) # {}
  <2>1. /\ e \in Entry
        /\ e \notin Linked(m)
        /\ WellLinked(r)
        /\ Linked(r) = Linked(m) \cup {e}
        /\ r.data[e] = d
        /\ \A f \in Linked(m) : r.data[f] = m.data[f]
        /\ r.base_order = Link(m.base_order, Starts(r), e)
    BY <1>2, AddDataToMapLinks
  <2> HIDE DEF r, e
  <2>2. r.data \in [Entry -> DpmeSet \cup {NoData}]
    BY <2>1 DEF WellLinked, MapRecord
  <2>3. Starts(r) \in [Entry -> Int] /\ \A f \in Entry : Starts(r)[f] = r.data[f].start
    <3>1. \A c \in DpmeSet \cup {NoData} : c.start \in Int
      BY DEF DpmeSet, NoData, Dpme
    <3> QED BY <3>1, <2>2 DEF Starts
  <2>4. Ascends(m.base_order, Starts(r))
    <3> SUFFICES ASSUME NEW x \in Linked(m), NEW y \in Linked(m),
                        Before(m.base_order, x, y)
                 PROVE  Starts(r)[x] <= Starts(r)[y]
      BY BaseListIsTyped DEF Ascends
    <3>1. /\ m.data[x].start + m.data[x].length <= m.data[y].start
          /\ m.data[x].start \in Nat /\ m.data[x].length \in Nat
          /\ m.data[y].start \in Nat
      BY LinkedData, DpmeFields, U32Assumption DEF InOrder
    <3>2. x \in Entry /\ y \in Entry
      BY LinkedData
    <3> QED BY <3>1, <3>2, <2>1, <2>3
  <2>5. Ascends(r.base_order, Starts(r))
    <3>1. e \notin ToSet(m.base_order)
      BY <2>1, BaseListIsTyped
    <3> QED BY <3>1, <2>1, <2>3, <2>4, BaseListIsTyped, LinkAscends
  <2>6. \A f \in Linked(r) :
          /\ r.data[f].length > 0
          /\ Small(r.data[f].start + r.data[f].length)
          /\ r.data[f].start \in Nat
          /\ r.data[f].length \in Nat
          /\ f \in Entry
    BY <2>1, LinkedData, DpmeFields, U32Assumption DEF InOrder
  <2>7. ASSUME NEW x \in Linked(r), NEW y \in Linked(r), Before(r.base_order, x, y)
        PROVE  r.data[x].start + r.data[x].length <= r.data[y].start
    <3>1. x # y
      BY <2>1, <2>7, BaseListIsTyped, BeforeIsOrder
    <3>2. r.data[x].start <= r.data[y].start
      <4>1. x \in ToSet(r.base_order) /\ y \in ToSet(r.base_order)
        BY <2>1, BaseListIsTyped
      <4>2. Starts(r)[x] <= Starts(r)[y]
        BY <4>1, <2>5, <2>7 DEF Ascends
      <4> QED BY <4>2, <2>3, <2>6
    <3>3. Apart(r.data[x], r.data[y])
      <4>1. CASE x = e
        BY <4>1, <3>1, <2>1
      <4>2. CASE y = e
        BY <4>2, <3>1, <2>1, ApartIsSymmetric
      <4>3. CASE x # e /\ y # e
        <5>1. x \in Linked(m) /\ y \in Linked(m)
          BY <4>3, <2>1
        <5>2. Apart(m.data[x], m.data[y])
          BY <5>1, <3>1, OrderedIsDisjoint DEF Disjoint
        <5> QED BY <5>1, <5>2, <2>1
      <4> QED BY <4>1, <4>2, <4>3
    <3>4. /\ r.data[x].start \in Nat /\ r.data[x].length \in Nat
          /\ r.data[y].start \in Nat /\ r.data[y].length \in Nat
          /\ r.data[x].length > 0 /\ r.data[y].length > 0
      BY <2>6
    <3> QED BY <3>2, <3>3, <3>4 DEF Apart
  <2>8. InOrder(r)
    BY <2>6, <2>7 DEF InOrder
  <2> QED BY <2>8 DEF r
<1> QED BY <1>1, <1>2

(* An entry that takes over a neighbour's blocks stays in order.            *)
LEMMA MergeKeepsOrder ==
  ASSUME NEW m, WellLinked(m), InOrder(m), NEW e \in Linked(m),
         NEW p \in Linked(m), e # p, NEW d \in DpmeSet,
         d.length > 0, Small(d.start + d.length),
         \A f \in Linked(m) \ {e, p} :
           /\ Before(m.base_order, f, e)
              => m.data[f].start + m.data[f].length <= d.start
           /\ Before(m.base_order, e, f) => d.start + d.length <= m.data[f].start
  PROVE  LET r == DeleteEntry([m EXCEPT !.data[e] = d], p)
         IN  /\ InOrder(r)
             /\ Linked(r) = Linked(m) \ {p}
             /\ r.data[e] = d
             /\ \A f \in Linked(r) \ {e} : r.data[f] = m.data[f]
<1> DEFINE s == [m EXCEPT !.data[e] = d]
           r == DeleteEntry(s, p)
<1>1. /\ WellLinked(s)
      /\ Linked(s) = Linked(m)
      /\ s.data = [m.data EXCEPT ![e] = d]
      /\ s.base_order = m.base_order
  BY SetDataKeepsLinks
<1> HIDE DEF s
<1>2. /\ Linked(r) = Linked(s) \ {p}
      /\ r.data = [s.data EXCEPT ![p] = NoData]
      /\ r.base_order = Unlink(s.base_order, p)
  BY <1>1, DeleteEntryUnlinks
<1> HIDE DEF r
<1>3. \A f \in Linked(r) : f \in Linked(m) /\ f # p /\ f \in Entry
  BY <1>1, <1>2, LinkedData
<1>4. \A f \in Linked(r) : r.data[f] = IF f = e THEN d ELSE m.data[f]
  <2>1. \A f \in Linked(m) : s.data[f] = IF f = e THEN d ELSE m.data[f]
    BY <1>1, LinkedData DEF WellLinked, MapRecord
  <2>2. \A f \in Linked(m) \ {p} : r.data[f] = s.data[f]
    BY <1>1, <1>2, LinkedData DEF WellLinked, MapRecord
  <2> QED BY <2>1, <2>2, <1>1, <1>2
<1>5. ASSUME NEW x \in Linked(r), NEW y \in Linked(r), Before(r.base_order, x, y)
      PROVE  r.data[x].start + r.data[x].length <= r.data[y].start
  <2>1. Before(m.base_order, x, y)
    BY <1>1, <1>2, <1>5, BaseListIsTyped, UnlinkKeepsOrder
  <2>2. x # y
    BY <2>1, BaseListIsTyped, BeforeIsOrder
  <2>3. m.data[x].start + m.data[x].length <= m.data[y].start
    BY <2>1, <1>3 DEF InOrder
  <2> QED BY <2>1, <2>2, <2>3, <1>3, <1>4
<1>6. \A f \in Linked(r) :
        r.data[f].length > 0 /\ Small(r.data[f].start + r.data[f].length)
  BY <1>3, <1>4 DEF InOrder
<1>7. InOrder(r)
  BY <1>5, <1>6 DEF InOrder
<1>8. e \in Linked(r)
  BY <1>1, <1>2
<1> QED BY <1>1, <1>2, <1>4, <1>7, <1>8 DEF r, s

LEMMA FollowsIsNext ==
  ASSUME NEW m, WellLinked(m), NEW e, NEW p, Follows(m, p, e)
  PROVE  /\ Before(m.base_order, e, p)
         /\ \A x : Before(m.base_order, x, p) /\ x # e => Before(m.base_order, x, e)
         /\ \A y : Before(m.base_order, e, y) /\ y # p => Before(m.base_order, p, y)
<1> DEFINE list == m.base_order
           n == Len(list)
<1>0. n \in Nat /\ Distinct(list)
  BY BaseListIsTyped, LenProperties
<1>1. PICK i \in 1 .. n - 1 : list[i] = e /\ list[i + 1] = p
  BY DEF Follows
<1>2. i \in 1 .. n /\ i + 1 \in 1 .. n /\ i < i + 1
  BY <1>0
<1>3. Before(list, e, p)
  BY <1>1, <1>2 DEF Before
<1>4. ASSUME NEW x, Before(list, x, p), x # e PROVE Before(list, x, e)
  <2>1. PICK a \in 1 .. n, b \in 1 .. n : a < b /\ list[a] = x /\ list[b] = p
    BY <1>4 DEF Before
  <2>2. b = i + 1
    BY <2>1, <1>0, <1>1, <1>2 DEF Distinct
  <2>3. a # i
    BY <2>1, <1>1, <1>4
  <2>4. a < i
    BY <2>1, <2>2, <2>3, <1>0
  <2> QED BY <2>1, <2>4, <1>1, <1>2 DEF Before
<1>5. ASSUME NEW y, Before(list, e, y), y # p PROVE Before(list, p, y)
  <2>1. PICK a \in 1 .. n, b \in 1 .. n : a < b /\ list[a] = e /\ list[b] = y
    BY <1>5 DEF Before
  <2>2. a = i
    BY <2>1, <1>0, <1>1, <1>2 DEF Distinct
  <2>3. b # i + 1
    BY <2>1, <1>1, <1>5
  <2>4. i + 1 < b
    BY <2>1, <2>2, <2>3, <1>0
  <2> QED BY <2>1, <2>4, <1>1, <1>2 DEF Before
<1> QED BY <1>3, <1>4, <1>5

(* The entry that touches another one is its neighbour in the base list,    *)
(* the only place combine_entry looks.                                      *)
LEMMA TouchingFollows ==
  ASSUME NEW m, WellLinked(m), InOrder(m), NEW e \in Linked(m),
         NEW f \in Linked(m), Contiguous(m, e, f)
  PROVE  Follows(m, f, e)
<1> DEFINE list == m.base_order
           n == Len(list)
<1>0. n \in Nat /\ DOMAIN list = 1 .. n /\ list \in Seq(Entry) /\ Distinct(list)
      /\ ToSet(list) = Linked(m)
  BY BaseListIsTyped, LenProperties
<1>1. \A x \in Linked(m) :
        /\ m.data[x] \in DpmeSet
        /\ m.data[x].start \in Nat
        /\ m.data[x].length \in Nat
        /\ m.data[x].length > 0
        /\ Small(m.data[x].start + m.data[x].length)
  BY LinkedData, DpmeFields, U32Assumption DEF InOrder
<1>2. m.data[e].start + m.data[e].length = m.data[f].start
  BY <1>1, EndIsExact DEF Contiguous
<1>3. e # f
  BY <1>1, <1>2
<1>4. ~ Before(list, f, e)
  <2> SUFFICES ASSUME Before(list, f, e) PROVE FALSE
    OBVIOUS
  <2>1. m.data[f].start + m.data[f].length <= m.data[e].start
    BY DEF InOrder
  <2> QED BY <2>1, <1>1, <1>2
<1>5. Before(list, e, f)
  BY <1>0, <1>3, <1>4, BeforeIsOrder
<1>6. PICK i \in 1 .. n, j \in 1 .. n : i < j /\ list[i] = e /\ list[j] = f
  BY <1>5 DEF Before
<1>7. ASSUME i + 1 # j PROVE FALSE
  <2> DEFINE g == list[i + 1]
  <2>1. i + 1 \in 1 .. n /\ i < i + 1 /\ i + 1 < j
    BY <1>0, <1>6, <1>7
  <2>2. g \in Linked(m)
    BY <1>0, <2>1 DEF ToSet
  <2>3. Before(list, e, g) /\ Before(list, g, f)
    BY <2>1, <1>6 DEF Before
  <2>4. /\ m.data[e].start + m.data[e].length <= m.data[g].start
        /\ m.data[g].start + m.data[g].length <= m.data[f].start
    BY <2>2, <2>3 DEF InOrder
  <2> QED BY <2>2, <2>4, <1>1, <1>2, SMTT(60)
<1>8. i \in 1 .. n - 1
  BY <1>0, <1>6
<1> QED BY <1>6, <1>7, <1>8 DEF Follows

-----------------------------------------------------------------------------
(* Adding a partition keeps the entries in order and the free ones apart.   *)

LEMMA EndIsElsewhere ==
  ASSUME NEW d \in DpmeSet, Small(d.start + d.length), d.length > 0
  PROVE  End(d) # d.start
BY EndIsExact, DpmeFields, U32Assumption

LEMMA PartIsClear ==
  ASSUME NEW x \in DpmeSet, NEW d \in DpmeSet, NEW p \in DpmeSet,
         Small(x.start + x.length), Small(d.start + d.length),
         x.length > 0, p.length > 0, PartOf(p, d), Apart(x, d),
         End(x) # d.start, End(d) # x.start
  PROVE  End(x) # p.start /\ End(p) # x.start
<1>1. Small(p.start + p.length)
  BY PartIsSmall
<1>2. /\ End(x) = x.start + x.length
      /\ End(d) = d.start + d.length
      /\ End(p) = p.start + p.length
  BY <1>1, EndIsExact
<1>3. /\ x.start \in Nat /\ x.length \in Nat
      /\ d.start \in Nat /\ d.length \in Nat
      /\ p.start \in Nat /\ p.length \in Nat
  BY DpmeFields, U32Assumption
<1> QED BY <1>2, <1>3 DEF PartOf, Apart

(* No piece of a split is empty, and the two free ones do not touch.        *)
LEMMA SplitIsClear ==
  ASSUME NEW d \in DpmeSet, Small(d.start + d.length),
         NEW base \in 0 .. U32 - 1, NEW length \in 0 .. U32 - 1,
         Small(base), Small(length), length > 0, Includes(d, base, length)
  PROVE  LET rest == Rest(d, base, length)
             left == LeftOf(d, base)
             act == AddAction(d, base, length)
         IN  /\ act # kReplace => rest.length > 0
             /\ act = kSplit => /\ left.length > 0
                                /\ End(left) # rest.start
                                /\ End(rest) # left.start
<1> DEFINE rest == Rest(d, base, length)
           left == LeftOf(d, base)
           act == AddAction(d, base, length)
<1>1. /\ d.start \in Nat /\ d.length \in Nat /\ base \in Nat /\ length \in Nat
      /\ U32 \in Nat
  BY DpmeFields, U32Assumption
<1>2. Wrap(base + length) = base + length
  <2>1. base + length \in 0 .. U32 - 1
    BY <1>1 DEF Small
  <2> QED BY <2>1, WrapSmall
<1>3. End(d) = d.start + d.length
  BY EndIsExact
<1>4. d.start <= base /\ base + length <= d.start + d.length
  BY <1>2, <1>3 DEF Includes
<1>5. left.start = d.start /\ left.length = base - d.start /\ left \in DpmeSet
  <2>1. base - d.start \in 0 .. U32 - 1
    BY <1>1, <1>4
  <2>2. Wrap(base - d.start) = base - d.start
    BY <2>1, WrapSmall
  <2> QED BY <2>2, PartsAreTyped DEF LeftOf, Dpme
<1>6. LET right == RightOf(d, base, length)
      IN  /\ right.start = base + length
          /\ right.length = d.start + d.length - (base + length)
  <2> DEFINE n == d.length - (length + (IF d.start = base THEN 0
                                        ELSE base - d.start))
  <2>1. n = d.start + d.length - (base + length)
    BY <1>1
  <2>2. n \in 0 .. U32 - 1
    <3>1. d.length \in 0 .. U32 - 1
      BY DpmeFields
    <3> HIDE DEF n
    <3> QED BY <1>1, <1>4, <2>1, <3>1
  <2>3. Wrap(n) = n
    BY <2>2, WrapSmall
  <2>4. RightOf(d, base, length) = Dpme(FreeType, Wrap(base + length), Wrap(n))
    BY DEF RightOf
  <2> HIDE DEF n
  <2> QED BY <1>2, <2>1, <2>3, <2>4 DEF Dpme
<1>7. ASSUME act # kReplace PROVE rest.length > 0
  <2>1. ~ (d.start = base /\ d.length = length)
    BY <1>7 DEF AddAction
  <2>2. CASE d.start # base /\ End(d) = Wrap(base + length)
    <3>1. rest = left
      BY <2>2 DEF Rest
    <3> HIDE DEF rest, left
    <3> QED BY <3>1, <2>2, <1>1, <1>4, <1>5
  <2>3. CASE ~ (d.start # base /\ End(d) = Wrap(base + length))
    <3>1. rest = RightOf(d, base, length)
      BY <2>3 DEF Rest
    <3>2. base + length # d.start + d.length
      BY <2>1, <2>3, <1>1, <1>2, <1>3
    <3> HIDE DEF rest, left
    <3> QED BY <3>1, <3>2, <1>1, <1>4, <1>6
  <2> QED BY <2>2, <2>3
<1>8. ASSUME act = kSplit
      PROVE  left.length > 0 /\ End(left) # rest.start /\ End(rest) # left.start
  <2>1. d.start # base /\ End(d) # Wrap(base + length)
    BY <1>8 DEF AddAction, kSplit, kReplace, kAdd
  <2>2. rest = RightOf(d, base, length) /\ rest \in DpmeSet
    BY <2>1, PartsAreTyped DEF Rest
  <2> HIDE DEF rest, left
  <2>3. Small(left.start + left.length) /\ Small(rest.start + rest.length)
    BY <2>2, <1>1, <1>4, <1>5, <1>6 DEF Small
  <2>4. End(left) = base /\ End(rest) = d.start + d.length
    <3>1. End(left) = left.start + left.length
      BY <2>3, <1>5, EndIsExact
    <3>2. End(rest) = rest.start + rest.length
      BY <2>2, <2>3, EndIsExact
    <3> QED BY <3>1, <3>2, <2>2, <1>1, <1>5, <1>6
  <2> QED BY <2>1, <2>2, <2>4, <1>1, <1>4, <1>5, <1>6
<1> QED BY <1>7, <1>8

(* Every free entry of r holds one of the pieces in "parts" or what another *)
(* free entry than cur held in m.                                           *)
FreesAre(m, cur, r, parts) ==
  \A f \in Linked(r) :
    IsFree(r, f) =>
      \/ r.data[f] \in parts
      \/ \E g \in Linked(m) \ {cur} : IsFree(m, g) /\ r.data[f] = m.data[g]

LEMMA PiecesAreSeparate ==
  ASSUME NEW m, WellLinked(m), InOrder(m), Separate(m),
         NEW cur \in Linked(m), IsFree(m, cur), NEW r,
         NEW parts \in SUBSET DpmeSet, FreesAre(m, cur, r, parts),
         \A p \in parts : p.length > 0 /\ PartOf(p, m.data[cur]),
         \A p, q \in parts : p # q => End(p) # q.start
  PROVE  Separate(r)
<1> DEFINE d == m.data[cur]
           Old == {m.data[g] : g \in {x \in Linked(m) \ {cur} : IsFree(m, x)}}
<1>1. d \in DpmeSet /\ Small(d.start + d.length)
  BY LinkedData DEF InOrder
<1>2. ASSUME NEW c \in Old
      PROVE  /\ c \in DpmeSet
             /\ Small(c.start + c.length)
             /\ c.length > 0
             /\ Apart(c, d)
             /\ End(c) # d.start
             /\ End(d) # c.start
  <2>1. PICK g \in Linked(m) : g # cur /\ IsFree(m, g) /\ c = m.data[g]
    OBVIOUS
  <2>2. c \in DpmeSet /\ Small(c.start + c.length) /\ c.length > 0
    BY <2>1, LinkedData DEF InOrder
  <2>3. Apart(c, d)
    BY <2>1, OrderedIsDisjoint DEF Disjoint
  <2>4. ~ Contiguous(m, g, cur) /\ ~ Contiguous(m, cur, g)
    BY <2>1 DEF Separate
  <2> QED BY <2>1, <2>2, <2>3, <2>4 DEF Contiguous
<1>3. ASSUME NEW a \in Old, NEW b \in Old PROVE End(a) # b.start
  <2>1. PICK g \in Linked(m) : IsFree(m, g) /\ a = m.data[g]
    OBVIOUS
  <2>2. PICK h \in Linked(m) : IsFree(m, h) /\ b = m.data[h]
    OBVIOUS
  <2> QED BY <2>1, <2>2 DEF Separate, Contiguous
<1> HIDE DEF d, Old
<1>4. ASSUME NEW p \in parts, NEW c \in Old
      PROVE  End(c) # p.start /\ End(p) # c.start
  <2>1. p \in DpmeSet /\ p.length > 0 /\ PartOf(p, d)
    BY DEF d
  <2> QED BY <2>1, <1>1, <1>2, PartIsClear
<1>5. ASSUME NEW p \in parts, NEW q \in parts PROVE End(p) # q.start
  <2>1. CASE p = q
    <3>1. p \in DpmeSet /\ p.length > 0 /\ PartOf(p, d)
      BY DEF d
    <3>2. Small(p.start + p.length)
      BY <3>1, <1>1, PartIsSmall
    <3> QED BY <3>1, <3>2, <2>1, EndIsElsewhere
  <2> QED BY <2>1
<1>6. ASSUME NEW f \in Linked(r), IsFree(r, f)
      PROVE  r.data[f] \in parts \cup Old
  BY <1>6 DEF FreesAre, Old
<1> QED BY <1>3, <1>4, <1>5, <1>6 DEF Separate, Contiguous

Tidied(m, r) == InOrder(r) /\ (Separate(m) => Separate(r))

LEMMA PlaceNewTidied ==
  ASSUME NEW m, WellLinked(m), InOrder(m),
         NEW cur \in Linked(m), IsFree(m, cur),
         NEW type \in PartitionType, type # FreeType,
         NEW base \in 0 .. U32 - 1, NEW length \in 0 .. U32 - 1,
         Small(base), Small(length), length > 0,
         Includes(m.data[cur], base, length), NEW mallocs \in Int
  PROVE  Tidied(m, PlaceNew(m, cur, Dpme(type, base, length), mallocs))
<1> DEFINE new    == Dpme(type, base, length)
           d      == m.data[cur]
           index  == m.disk_address[cur]
           rest   == Rest(d, base, length)
           left   == LeftOf(d, base)
           act    == AddAction(d, base, length)
           whole  == [m EXCEPT !.data[cur] = new]
           shrunk == [m EXCEPT !.data[cur] = rest]
           added  == AddDataToMap(shrunk, new, index)
           both   == AddDataToMap(added, left, index)
<1>0. new.start = base /\ new.length = length /\ new.type = type
  BY DEF Dpme
<1>1. /\ d \in DpmeSet
      /\ new \in DpmeSet
      /\ rest \in DpmeSet
      /\ left \in DpmeSet
      /\ index \in Int
      /\ cur \in Entry
  <2>1. d \in DpmeSet /\ cur \in Entry
    BY LinkedData
  <2>2. new \in DpmeSet
    BY DpmeIsTyped
  <2>3. index \in Int
    BY <2>1 DEF WellLinked, MapRecord
  <2>4. rest \in DpmeSet /\ left \in DpmeSet
    BY <2>1, PartsAreTyped
  <2> QED BY <2>1, <2>2, <2>3, <2>4
<1>2. /\ PartOf(new, d)
      /\ act # kReplace => PartOf(rest, d) /\ Apart(new, rest) /\ rest.length > 0
      /\ act = kSplit => /\ PartOf(left, d)
                         /\ Apart(left, new)
                         /\ Apart(left, rest)
                         /\ left.length > 0
                         /\ End(left) # rest.start
                         /\ End(rest) # left.start
      /\ Small(d.start + d.length)
      /\ \A f \in Linked(m) : f # cur => Apart(d, m.data[f])
  <2>1. Small(d.start + d.length)
    BY DEF InOrder
  <2>2. \A f \in Linked(m) : f # cur => Apart(d, m.data[f])
    BY OrderedIsDisjoint DEF Disjoint
  <2>3. /\ PartOf(new, d)
        /\ act # kReplace => PartOf(rest, d) /\ Apart(new, rest)
        /\ act = kSplit => /\ PartOf(left, d)
                           /\ Apart(left, new)
                           /\ Apart(left, rest)
    BY <2>1, <1>1, SplitIsExact
  <2>4. /\ act # kReplace => rest.length > 0
        /\ act = kSplit => /\ left.length > 0
                           /\ End(left) # rest.start
                           /\ End(rest) # left.start
    BY <2>1, <1>1, SplitIsClear
  <2> HIDE DEF act, rest, left, new, d
  <2> QED BY <2>1, <2>2, <2>3, <2>4
<1>3. PlaceNew(m, cur, new, mallocs) =
        IF act = kReplace THEN whole
        ELSE IF mallocs < 2 THEN shrunk
        ELSE IF act = kSplit /\ mallocs >= 4 THEN both ELSE added
  <2>1. /\ rest = Rest(d, new.start, new.length)
        /\ left = LeftOf(d, new.start)
        /\ act = AddAction(d, new.start, new.length)
    BY <1>0
  <2> HIDE DEF act, whole, both, added, new, rest, left
  <2> QED BY <2>1 DEF PlaceNew, d, index, shrunk, whole, both, added
<1>4. \A f \in Linked(m) : f \in Entry /\ m.data \in [Entry -> DpmeSet \cup {NoData}]
  BY LinkedData DEF WellLinked, MapRecord
<1>5. kSplit # kReplace
  BY DEF kSplit, kReplace
<1> HIDE DEF new, d, index, rest, left, act
<1>6. ASSUME NEW p \in DpmeSet, PartOf(p, d)
      PROVE  /\ Small(p.start + p.length)
             /\ \A f \in Linked(m) : f # cur => Apart(p, m.data[f])
  <2>1. Small(p.start + p.length)
    BY <1>1, <1>2, <1>6, PartIsSmall
  <2>2. ASSUME NEW f \in Linked(m), f # cur PROVE Apart(p, m.data[f])
    <3>1. m.data[f] \in DpmeSet /\ Apart(m.data[f], d)
      BY <1>2, <2>2, LinkedData, ApartIsSymmetric
    <3> QED BY <3>1, <1>1, <1>6, ApartFromPart, ApartIsSymmetric
  <2> QED BY <2>1, <2>2
<1>7. InOrder(whole) /\ FreesAre(m, cur, whole, {})
  <2>1. InOrder(whole)
    BY <1>0, <1>1, <1>2, SetPartKeepsOrder DEF d
  <2>2. Linked(whole) = Linked(m) /\ whole.data = [m.data EXCEPT ![cur] = new]
    BY <1>1, SetDataKeepsLinks
  <2>3. \A f \in Linked(m) : whole.data[f] = IF f = cur THEN new ELSE m.data[f]
    BY <2>2, <1>4
  <2> HIDE DEF whole
  <2>4. FreesAre(m, cur, whole, {})
    BY <2>2, <2>3, <1>0 DEF FreesAre, IsFree
  <2> QED BY <2>1, <2>4
<1>8. ASSUME act # kReplace
      PROVE  /\ WellLinked(shrunk)
             /\ Linked(shrunk) = Linked(m)
             /\ InOrder(shrunk)
             /\ \A f \in Linked(m) :
                  shrunk.data[f] = IF f = cur THEN rest ELSE m.data[f]
  <2>1. InOrder(shrunk)
    BY <1>1, <1>2, <1>8, SetPartKeepsOrder DEF d
  <2>2. /\ Linked(shrunk) = Linked(m)
        /\ shrunk.data = [m.data EXCEPT ![cur] = rest]
        /\ WellLinked(shrunk)
    BY <1>1, SetDataKeepsLinks
  <2>3. \A f \in Linked(m) : shrunk.data[f] = IF f = cur THEN rest ELSE m.data[f]
    BY <2>2, <1>4
  <2> HIDE DEF shrunk
  <2> QED BY <2>1, <2>2, <2>3
<1> HIDE DEF whole, shrunk
<1>9. ASSUME act # kReplace
      PROVE  /\ WellLinked(added)
             /\ InOrder(added)
             /\ \A f \in Linked(added) :
                  \/ added.data[f] = new
                  \/ added.data[f] = rest
                  \/ \E g \in Linked(m) \ {cur} : added.data[f] = m.data[g]
  <2>1. \A f \in Linked(shrunk) : Apart(new, shrunk.data[f])
    BY <1>1, <1>2, <1>6, <1>8, <1>9
  <2>2. Small(new.start + new.length) /\ new.length > 0
    BY <1>0, <1>1, <1>2, <1>6
  <2>3. InOrder(added)
    BY <2>1, <2>2, <1>1, <1>8, <1>9, AddDataKeepsOrder
  <2>4. CASE Unused(shrunk) = {}
    <3>1. added = shrunk
      BY <2>4 DEF AddDataToMap
    <3> HIDE DEF added
    <3> QED BY <3>1, <2>3, <1>8, <1>9
  <2>5. CASE Unused(shrunk) # {}
    <3> DEFINE e == NewNode(shrunk)
    <3>1. /\ WellLinked(added)
          /\ Linked(added) = Linked(shrunk) \cup {e}
          /\ added.data[e] = new
          /\ \A f \in Linked(shrunk) : added.data[f] = shrunk.data[f]
      BY <2>5, <1>1, <1>8, <1>9, AddDataToMapLinks
    <3> HIDE DEF added, e
    <3>2. ASSUME NEW f \in Linked(added)
          PROVE  \/ added.data[f] = new
                 \/ added.data[f] = rest
                 \/ \E g \in Linked(m) \ {cur} : added.data[f] = m.data[g]
      BY <3>1, <1>8, <1>9
    <3> QED BY <3>1, <3>2, <2>3
  <2> QED BY <2>4, <2>5
<1> HIDE DEF added
<1>10. ASSUME act = kSplit
       PROVE  /\ InOrder(both)
              /\ \A f \in Linked(both) :
                   \/ both.data[f] \in {new, rest, left}
                   \/ \E g \in Linked(m) \ {cur} : both.data[f] = m.data[g]
  <2>1. act # kReplace
    BY <1>5, <1>10
  <2>2. ASSUME NEW f \in Linked(added) PROVE Apart(left, added.data[f])
    <3>1. \/ added.data[f] = new
          \/ added.data[f] = rest
          \/ \E g \in Linked(m) \ {cur} : added.data[f] = m.data[g]
      BY <2>1, <1>9
    <3> QED BY <3>1, <1>1, <1>2, <1>6, <1>10
  <2>3. Small(left.start + left.length) /\ left.length > 0
    BY <1>1, <1>2, <1>6, <1>10
  <2>4. InOrder(both)
    BY <2>1, <2>2, <2>3, <1>1, <1>9, AddDataKeepsOrder
  <2>5. CASE Unused(added) = {}
    <3>1. both = added
      BY <2>5 DEF AddDataToMap
    <3> HIDE DEF both
    <3> QED BY <3>1, <2>1, <2>4, <1>9
  <2>6. CASE Unused(added) # {}
    <3> DEFINE e == NewNode(added)
    <3>1. /\ Linked(both) = Linked(added) \cup {e}
          /\ both.data[e] = left
          /\ \A f \in Linked(added) : both.data[f] = added.data[f]
      BY <2>1, <2>6, <1>1, <1>9, AddDataToMapLinks
    <3> HIDE DEF both, e
    <3>2. ASSUME NEW f \in Linked(both)
          PROVE  \/ both.data[f] \in {new, rest, left}
                 \/ \E g \in Linked(m) \ {cur} : both.data[f] = m.data[g]
      BY <3>1, <2>1, <1>9
    <3> QED BY <3>2, <2>4
  <2> QED BY <2>5, <2>6
<1> HIDE DEF both
<1>11. new.type # FreeType
  BY <1>0
<1>12. InOrder(whole) /\ (Separate(m) => Separate(whole))
  <2>1. ASSUME Separate(m) PROVE Separate(whole)
    BY <2>1, <1>7, PiecesAreSeparate
  <2> QED BY <2>1, <1>7
<1>13. ASSUME act # kReplace
       PROVE  /\ Tidied(m, shrunk)
              /\ Tidied(m, added)
  <2>1. FreesAre(m, cur, shrunk, {rest})
    BY <1>8, <1>13 DEF FreesAre, IsFree
  <2>2. FreesAre(m, cur, added, {rest})
    BY <1>9, <1>11, <1>13 DEF FreesAre, IsFree
  <2>3. \A p \in {rest} : p.length > 0 /\ PartOf(p, m.data[cur])
    BY <1>2, <1>13 DEF d
  <2>4. {rest} \in SUBSET DpmeSet /\ \A p, q \in {rest} : p # q => End(p) # q.start
    BY <1>1
  <2>5. Separate(m) => Separate(shrunk)
    BY <2>1, <2>3, <2>4, PiecesAreSeparate
  <2>6. Separate(m) => Separate(added)
    BY <2>2, <2>3, <2>4, PiecesAreSeparate
  <2> QED BY <2>5, <2>6, <1>8, <1>9, <1>13 DEF Tidied
<1>14. ASSUME act = kSplit PROVE Tidied(m, both)
  <2>1. FreesAre(m, cur, both, {rest, left})
    BY <1>10, <1>11, <1>14 DEF FreesAre, IsFree
  <2>2. \A p \in {rest, left} : p.length > 0 /\ PartOf(p, m.data[cur])
    BY <1>2, <1>5, <1>14 DEF d
  <2>3. /\ {rest, left} \in SUBSET DpmeSet
        /\ \A p, q \in {rest, left} : p # q => End(p) # q.start
    BY <1>1, <1>2, <1>14
  <2>4. Separate(m) => Separate(both)
    BY <2>1, <2>2, <2>3, PiecesAreSeparate
  <2> QED BY <2>4, <1>10, <1>14 DEF Tidied
<1>15. Tidied(m, PlaceNew(m, cur, new, mallocs))
  BY <1>3, <1>12, <1>13, <1>14 DEF Tidied
<1> QED BY <1>15 DEF new

LEMMA RenumberTidied ==
  ASSUME NEW m, NEW r, WellLinked(r), Tidied(m, r)
  PROVE  Tidied(m, [RenumberDiskAddresses(r) EXCEPT !.changed = TRUE])
<1> DEFINE s == [RenumberDiskAddresses(r) EXCEPT !.changed = TRUE]
<1>1. Linked(s) = Linked(r) /\ s.data = r.data /\ s.base_order = r.base_order
  BY RenumberNumbers
<1> HIDE DEF s
<1>2. Tidied(m, s)
  BY <1>1 DEF Tidied, InOrder, Separate, IsFree, Contiguous
<1> QED BY <1>2 DEF s

LEMMA TidiedItself ==
  ASSUME NEW m, InOrder(m)
  PROVE  Tidied(m, m)
BY DEF Tidied

LEMMA TidiedChains ==
  ASSUME NEW m, NEW n, NEW r, Tidied(m, n), Tidied(n, r)
  PROVE  Tidied(m, r)
BY DEF Tidied

LEMMA AddPartitionTidied ==
  ASSUME NEW m, WellLinked(m), InOrder(m),
         NEW type \in PartitionType, type # FreeType,
         NEW base \in 0 .. U32 - 1, NEW length \in 0 .. U32 - 1,
         Small(base), Small(length), length > 0, NEW mallocs \in Int
  PROVE  Tidied(m, AddPartitionToMap(m, type, base, length, mallocs))
<1> DEFINE cur   == Container(m, base, length)
           act   == AddAction(m.data[cur], base, length)
           new   == Dpme(type, base, length)
           placed == PlaceNew(m, cur, new, mallocs)
           may   == /\ WithinFree(m, base, length)
                    /\ MapIsBigEnough(m, act)
                    /\ mallocs >= 1
           s     == [RenumberDiskAddresses(placed) EXCEPT !.changed = TRUE]
<1>1. AddPartitionToMap(m, type, base, length, mallocs) = IF may THEN s ELSE m
  BY DEF AddPartitionToMap
<1>2. CASE may
  <2>1. /\ cur \in Linked(m)
        /\ IsFree(m, cur)
        /\ Includes(m.data[cur], base, length)
    BY <1>2, ContainerIsLinked DEF WithinFree, IsFree
  <2> HIDE DEF cur
  <2>2. WellLinked(placed) /\ Tidied(m, placed)
    BY <2>1, PlaceNewKeeps, PlaceNewTidied DEF Keeps
  <2> HIDE DEF placed
  <2>3. Tidied(m, s)
    BY <2>2, RenumberTidied
  <2> HIDE DEF may, s
  <2> QED BY <1>1, <1>2, <2>3
<1>3. CASE ~ may
  <2> HIDE DEF may, s
  <2> QED BY <1>1, <1>3, TidiedItself
<1> QED BY <1>2, <1>3

-----------------------------------------------------------------------------
(* combine_entry: what it leaves does not touch another free entry.         *)

SeparateBut(m, e) ==
  \A f, g \in Linked(m) \ {e} :
    IsFree(m, f) /\ IsFree(m, g) => ~ Contiguous(m, f, g)

NoneAfter(m, e) ==
  \A f \in Linked(m) \ {e} : IsFree(m, f) => ~ Contiguous(m, e, f)

NoneBefore(m, e) ==
  \A f \in Linked(m) \ {e} : IsFree(m, f) => ~ Contiguous(m, f, e)

LEMMA MergedExtent ==
  ASSUME NEW c \in DpmeSet, NEW d \in DpmeSet, NEW type \in PartitionType,
         Small(c.start + c.length), Small(d.start + d.length),
         End(c) = d.start
  PROVE  LET r == Dpme(type, c.start, Wrap(c.length + d.length))
         IN  /\ r \in DpmeSet
             /\ r.type = type
             /\ r.start = c.start
             /\ r.length = c.length + d.length
             /\ Small(r.start + r.length)
             /\ r.start + r.length = d.start + d.length
             /\ End(r) = End(d)
<1> DEFINE r == Dpme(type, c.start, Wrap(c.length + d.length))
<1>1. /\ c.start \in 0 .. U32 - 1 /\ c.length \in Nat
      /\ d.start \in Nat /\ d.length \in Nat
      /\ U32 \in Nat
  BY DpmeFields, U32Assumption
<1>2. c.start + c.length = d.start
  BY EndIsExact
<1>3. c.length + d.length \in 0 .. U32 - 1
  BY <1>1, <1>2 DEF Small
<1>4. Wrap(c.length + d.length) = c.length + d.length
  BY <1>3, WrapSmall
<1>5. /\ r \in DpmeSet
      /\ r.type = type
      /\ r.start = c.start
      /\ r.length = c.length + d.length
  BY <1>1, <1>3, <1>4, DpmeIsTyped
<1> HIDE DEF r
<1>6. r.start + r.length = d.start + d.length
  BY <1>1, <1>2, <1>5
<1>7. Small(r.start + r.length)
  BY <1>6
<1>8. End(r) = End(d)
  BY <1>5, <1>6, <1>7, EndIsExact
<1> QED BY <1>5, <1>6, <1>7, <1>8 DEF r

LEMMA MergeNextTidied ==
  ASSUME NEW m, WellLinked(m), InOrder(m), NEW e \in Linked(m)
  PROVE  LET r == MergeNext(m, e)
         IN  /\ InOrder(r)
             /\ SeparateBut(m, e) => SeparateBut(r, e) /\ NoneAfter(r, e)
<1> DEFINE others == {p \in ToSet(m.base_order) :
                        Follows(m, p, e) /\ IsFree(m, p) /\ Contiguous(m, e, p)}
           p == CHOOSE q \in others : TRUE
           c == m.data[e]
           d == m.data[p]
           new == Dpme(c.type, c.start, Wrap(c.length + d.length))
           r == DeleteEntry([m EXCEPT !.data[e] = new], p)
<1>1. CASE others = {}
  <2>1. MergeNext(m, e) = m
    BY <1>1 DEF MergeNext
  <2>2. NoneAfter(m, e)
    <3> SUFFICES ASSUME NEW f \in Linked(m), IsFree(m, f), Contiguous(m, e, f)
                 PROVE  FALSE
      BY DEF NoneAfter
    <3>1. f \in others
      BY TouchingFollows DEF Linked
    <3> QED BY <3>1, <1>1
  <2> QED BY <2>1, <2>2
<1>2. CASE others # {}
  <2>1. p \in others
    BY <1>2
  <2>2. /\ p \in Linked(m)
        /\ Follows(m, p, e)
        /\ IsFree(m, p)
        /\ End(c) = d.start
    BY <2>1 DEF Linked, Contiguous
  <2>3. MergeNext(m, e) = r
    <3>1. [m EXCEPT !.data[e] =
             Dpme(@.type, @.start, Wrap(@.length + m.data[p].length))]
          = [m EXCEPT !.data[e] = new]
      OBVIOUS
    <3> QED BY <1>2, <3>1 DEF MergeNext
  <2> HIDE DEF p
  <2>4. e # p
    BY <2>2, FollowsIsAnother
  <2>5. /\ c \in DpmeSet /\ d \in DpmeSet
        /\ c.type \in PartitionType
        /\ c.length \in Nat /\ d.length \in Nat
        /\ c.length > 0
        /\ Small(c.start + c.length)
        /\ Small(d.start + d.length)
    BY <2>2, LinkedData, DpmeFields, U32Assumption DEF InOrder
  <2> HIDE DEF c, d
  <2>6. /\ new \in DpmeSet
        /\ new.start = c.start
        /\ new.length = c.length + d.length
        /\ Small(new.start + new.length)
        /\ new.start + new.length = d.start + d.length
        /\ End(new) = End(d)
    BY <2>2, <2>5, MergedExtent
  <2>7. new.length > 0
    BY <2>5, <2>6
  <2> HIDE DEF new
  <2>8. ASSUME NEW f \in Linked(m) \ {e, p}
        PROVE  /\ Before(m.base_order, f, e)
                  => m.data[f].start + m.data[f].length <= new.start
               /\ Before(m.base_order, e, f)
                  => new.start + new.length <= m.data[f].start
    <3>1. Before(m.base_order, f, e)
          => m.data[f].start + m.data[f].length <= new.start
      BY <2>6 DEF InOrder, c
    <3>2. Before(m.base_order, e, f) => Before(m.base_order, p, f)
      BY <2>2, FollowsIsNext
    <3>3. Before(m.base_order, p, f) => d.start + d.length <= m.data[f].start
      BY <2>2 DEF InOrder, d
    <3> QED BY <3>1, <3>2, <3>3, <2>6
  <2>9. /\ InOrder(r)
        /\ Linked(r) = Linked(m) \ {p}
        /\ r.data[e] = new
        /\ \A f \in Linked(r) \ {e} : r.data[f] = m.data[f]
    BY <2>2, <2>4, <2>6, <2>7, <2>8, MergeKeepsOrder
  <2> HIDE DEF r
  <2>10. ASSUME SeparateBut(m, e) PROVE SeparateBut(r, e) /\ NoneAfter(r, e)
    <3>1. SeparateBut(r, e)
      BY <2>9, <2>10 DEF SeparateBut, IsFree, Contiguous
    <3>2. ASSUME NEW f \in Linked(r) \ {e}, IsFree(r, f) PROVE ~ Contiguous(r, e, f)
      <4>1. f \in Linked(m) \ {e} /\ IsFree(m, f) /\ r.data[f] = m.data[f]
        BY <2>9, <3>2 DEF IsFree
      <4>2. ~ Contiguous(m, p, f)
        BY <4>1, <2>2, <2>4, <2>10 DEF SeparateBut
      <4> QED BY <4>1, <4>2, <2>6, <2>9 DEF Contiguous, d
    <3> QED BY <3>1, <3>2 DEF NoneAfter
  <2> QED BY <2>3, <2>9, <2>10
<1> QED BY <1>1, <1>2

LEMMA MergePrevTidied ==
  ASSUME NEW m, WellLinked(m), InOrder(m), NEW e \in Linked(m)
  PROVE  LET r == MergePrev(m, e)
         IN  /\ InOrder(r)
             /\ SeparateBut(m, e) /\ NoneAfter(m, e)
                => SeparateBut(r, e) /\ NoneAfter(r, e) /\ NoneBefore(r, e)
<1> DEFINE others == {p \in ToSet(m.base_order) :
                        Follows(m, e, p) /\ IsFree(m, p) /\ Contiguous(m, p, e)}
           p == CHOOSE q \in others : TRUE
           c == m.data[e]
           d == m.data[p]
           new == Dpme(c.type, d.start, Wrap(c.length + d.length))
           r == DeleteEntry([m EXCEPT !.data[e] = new], p)
<1>1. CASE others = {}
  <2>1. MergePrev(m, e) = m
    BY <1>1 DEF MergePrev
  <2>2. NoneBefore(m, e)
    <3> SUFFICES ASSUME NEW f \in Linked(m), IsFree(m, f), Contiguous(m, f, e)
                 PROVE  FALSE
      BY DEF NoneBefore
    <3>1. f \in others
      BY TouchingFollows DEF Linked
    <3> QED BY <3>1, <1>1
  <2> QED BY <2>1, <2>2
<1>2. CASE others # {}
  <2>1. p \in others
    BY <1>2
  <2>2. /\ p \in Linked(m)
        /\ Follows(m, e, p)
        /\ IsFree(m, p)
        /\ End(d) = c.start
    BY <2>1 DEF Linked, Contiguous
  <2>3. MergePrev(m, e) = r
    <3>1. [m EXCEPT !.data[e] =
             Dpme(@.type, m.data[p].start, Wrap(@.length + m.data[p].length))]
          = [m EXCEPT !.data[e] = new]
      OBVIOUS
    <3> QED BY <1>2, <3>1 DEF MergePrev
  <2> HIDE DEF p
  <2>4. e # p
    BY <2>2, FollowsIsAnother
  <2>5. /\ c \in DpmeSet /\ d \in DpmeSet
        /\ c.type \in PartitionType
        /\ c.length \in Nat /\ d.length \in Nat
        /\ c.length > 0
        /\ Small(c.start + c.length)
        /\ Small(d.start + d.length)
    BY <2>2, LinkedData, DpmeFields, U32Assumption DEF InOrder
  <2> HIDE DEF c, d
  <2>6. /\ new \in DpmeSet
        /\ new.start = d.start
        /\ new.length = c.length + d.length
        /\ Small(new.start + new.length)
        /\ new.start + new.length = c.start + c.length
        /\ End(new) = End(c)
    <3>1. new = Dpme(c.type, d.start, Wrap(d.length + c.length))
      BY <2>5
    <3>2. d.length + c.length = c.length + d.length
      BY <2>5
    <3> HIDE DEF new
    <3> QED BY <3>1, <3>2, <2>2, <2>5, MergedExtent
  <2>7. new.length > 0
    BY <2>5, <2>6
  <2> HIDE DEF new
  <2>8. ASSUME NEW f \in Linked(m) \ {e, p}
        PROVE  /\ Before(m.base_order, f, e)
                  => m.data[f].start + m.data[f].length <= new.start
               /\ Before(m.base_order, e, f)
                  => new.start + new.length <= m.data[f].start
    <3>1. Before(m.base_order, e, f)
          => new.start + new.length <= m.data[f].start
      BY <2>6 DEF InOrder, c
    <3>2. Before(m.base_order, f, e) => Before(m.base_order, f, p)
      BY <2>2, FollowsIsNext
    <3>3. Before(m.base_order, f, p)
          => m.data[f].start + m.data[f].length <= d.start
      BY <2>2 DEF InOrder, d
    <3> QED BY <3>1, <3>2, <3>3, <2>6
  <2>9. /\ InOrder(r)
        /\ Linked(r) = Linked(m) \ {p}
        /\ r.data[e] = new
        /\ \A f \in Linked(r) \ {e} : r.data[f] = m.data[f]
    BY <2>2, <2>4, <2>6, <2>7, <2>8, MergeKeepsOrder
  <2> HIDE DEF r
  <2>10. ASSUME SeparateBut(m, e), NoneAfter(m, e)
         PROVE  SeparateBut(r, e) /\ NoneAfter(r, e) /\ NoneBefore(r, e)
    <3>1. SeparateBut(r, e)
      BY <2>9, <2>10 DEF SeparateBut, IsFree, Contiguous
    <3>2. ASSUME NEW f \in Linked(r) \ {e}, IsFree(r, f)
          PROVE  ~ Contiguous(r, e, f) /\ ~ Contiguous(r, f, e)
      <4>1. f \in Linked(m) \ {e} /\ IsFree(m, f) /\ r.data[f] = m.data[f]
        BY <2>9, <3>2 DEF IsFree
      <4>2. ~ Contiguous(m, f, p)
        BY <4>1, <2>2, <2>4, <2>10 DEF SeparateBut
      <4>3. ~ Contiguous(m, e, f)
        BY <4>1, <2>10 DEF NoneAfter
      <4> QED BY <4>1, <4>2, <4>3, <2>6, <2>9 DEF Contiguous, c, d
    <3> QED BY <3>1, <3>2 DEF NoneAfter, NoneBefore
  <2> QED BY <2>3, <2>9, <2>10
<1> QED BY <1>1, <1>2

LEMMA CombineEntryTidied ==
  ASSUME NEW m, WellLinked(m), InOrder(m), NEW e \in Linked(m), IsFree(m, e)
  PROVE  LET r == CombineEntry(m, e)
         IN  /\ InOrder(r)
             /\ SeparateBut(m, e) => Separate(r)
<1> DEFINE n == MergeNext(m, e)
           r == MergePrev(n, e)
<1>1. CombineEntry(m, e) = r
  BY DEF CombineEntry
<1>2. WellLinked(n) /\ e \in Linked(n)
  BY MergeNextKeeps DEF Keeps
<1>3. InOrder(n) /\ (SeparateBut(m, e) => SeparateBut(n, e) /\ NoneAfter(n, e))
  BY MergeNextTidied
<1> HIDE DEF n
<1>4. WellLinked(r) /\ e \in Linked(r)
  BY <1>2, MergePrevKeeps DEF Keeps
<1>5. /\ InOrder(r)
      /\ SeparateBut(n, e) /\ NoneAfter(n, e)
         => SeparateBut(r, e) /\ NoneAfter(r, e) /\ NoneBefore(r, e)
  BY <1>2, <1>3, MergePrevTidied
<1> HIDE DEF r
<1>6. ~ Contiguous(r, e, e)
  <2>1. /\ r.data[e] \in DpmeSet
        /\ r.data[e].length > 0
        /\ Small(r.data[e].start + r.data[e].length)
    BY <1>4, <1>5, LinkedData DEF InOrder
  <2> QED BY <2>1, EndIsElsewhere DEF Contiguous
<1>7. SeparateBut(r, e) /\ NoneAfter(r, e) /\ NoneBefore(r, e) => Separate(r)
  BY <1>6 DEF SeparateBut, NoneAfter, NoneBefore, Separate
<1> QED BY <1>1, <1>3, <1>5, <1>7

(* The blocks stay where they are, and only e may have become free.         *)
LEMMA RetypeTidied ==
  ASSUME NEW m, WellLinked(m), InOrder(m), NEW e \in Linked(m),
         NEW type \in PartitionType
  PROVE  LET r == [m EXCEPT !.data[e] = Dpme(type, @.start, @.length)]
         IN  /\ InOrder(r)
             /\ Separate(m) => SeparateBut(r, e)
             /\ type # FreeType => (Separate(m) => Separate(r))
             /\ type = FreeType => IsFree(r, e)
<1> DEFINE c == m.data[e]
           d == Dpme(type, c.start, c.length)
           r == [m EXCEPT !.data[e] = d]
<1>1. c \in DpmeSet /\ c.length > 0
  BY LinkedData DEF InOrder
<1>2. d \in DpmeSet /\ d.start = c.start /\ d.length = c.length /\ d.type = type
  BY <1>1, DpmeFields, DpmeIsTyped
<1>3. [m EXCEPT !.data[e] = Dpme(type, @.start, @.length)] = r
  OBVIOUS
<1> HIDE DEF d
<1>4. PartOf(d, c)
  BY <1>1, <1>2, DpmeFields, U32Assumption DEF PartOf
<1>5. InOrder(r)
  BY <1>1, <1>2, <1>4, SetPartKeepsOrder
<1>6. Linked(r) = Linked(m) /\ r.data = [m.data EXCEPT ![e] = d]
  BY <1>2, SetDataKeepsLinks
<1>7. \A f \in Linked(m) : r.data[f] = IF f = e THEN d ELSE m.data[f]
  BY <1>6, LinkedData DEF WellLinked, MapRecord
<1> HIDE DEF r
<1>8. Separate(m) => SeparateBut(r, e)
  BY <1>6, <1>7 DEF Separate, SeparateBut, IsFree, Contiguous
<1>9. type # FreeType => (Separate(m) => Separate(r))
  BY <1>2, <1>6, <1>7 DEF Separate, IsFree, Contiguous
<1>10. type = FreeType => IsFree(r, e)
  BY <1>2, <1>6, <1>7 DEF IsFree
<1> QED BY <1>3, <1>5, <1>8, <1>9, <1>10

LEMMA DeletePartitionTidied ==
  ASSUME NEW m, WellLinked(m), InOrder(m), NEW e \in Linked(m), NEW mallocs \in Int
  PROVE  Tidied(m, DeletePartitionFromMap(m, e, mallocs))
<1> DEFINE freed == [m EXCEPT !.data[e] = Dpme(FreeType, @.start, @.length)]
           combined == CombineEntry(freed, e)
           s == [RenumberDiskAddresses(combined) EXCEPT !.changed = TRUE]
           no == \/ m.data[e].type = MapType
                 \/ ContainsDriver(m, e)
                 \/ mallocs < 1
<1>1. DeletePartitionFromMap(m, e, mallocs) = IF no THEN m ELSE s
  BY DEF DeletePartitionFromMap
<1>2. /\ InOrder(freed)
      /\ Separate(m) => SeparateBut(freed, e)
      /\ IsFree(freed, e)
  BY RetypeTidied, FreeIsType
<1>3. WellLinked(freed) /\ Linked(freed) = Linked(m)
  BY RetypeKeeps, FreeIsType DEF Keeps
<1> HIDE DEF freed
<1>4. WellLinked(combined)
  BY <1>3, CombineEntryKeeps DEF Keeps
<1>5. InOrder(combined) /\ (SeparateBut(freed, e) => Separate(combined))
  BY <1>2, <1>3, CombineEntryTidied
<1>6. Tidied(m, combined)
  BY <1>2, <1>5 DEF Tidied
<1> HIDE DEF combined
<1>7. Tidied(m, s)
  BY <1>4, <1>6, RenumberTidied
<1> HIDE DEF s, no
<1> QED BY <1>1, <1>7, TidiedItself

LEMMA MoveEntryTidied ==
  ASSUME NEW m, WellLinked(m), InOrder(m), NEW old_index \in Int, NEW index \in Int
  PROVE  Tidied(m, MoveEntryInMap(m, old_index, index))
<1> DEFINE r == MoveEntryInMap(m, old_index, index)
<1>1. r.data = m.data /\ r.base_order = m.base_order
  BY MoveEntryKeeps
<1> HIDE DEF r
<1>2. Tidied(m, r)
  BY <1>1 DEF Tidied, InOrder, Separate, Linked, IsFree, Contiguous
<1> QED BY <1>2 DEF r

LEMMA ResizeMapTidied ==
  ASSUME NEW m, WellLinked(m), InOrder(m), Small(1),
         NEW new_size \in 0 .. U32 - 1, Small(new_size), NEW mallocs \in Int
  PROVE  Tidied(m, ResizeMap(m, new_size, mallocs))
<1> DEFINE e == MapEntry(m)
           blanked == [m EXCEPT !.data[e] = Dpme(BlankType, @.start, @.length)]
           deleted == DeletePartitionFromMap(blanked, e, mallocs)
           added == AddPartitionToMap(deleted, MapType, 1, new_size, mallocs - 1)
           may == /\ MapSlots(m) # {}
                  /\ MayShrink(m, new_size) \/ MayGrow(m, new_size)
<1>1. ResizeMap(m, new_size, mallocs) = IF may THEN added ELSE m
  BY DEF ResizeMap
<1>2. CASE ~ may
  <2> HIDE DEF added, may
  <2> QED BY <1>1, <1>2, TidiedItself
<1>3. CASE may
  <2>1. e \in Linked(m)
    BY <1>3, MapEntryIsLinked
  <2>2. /\ BlankType \in PartitionType
        /\ MapType \in PartitionType
        /\ BlankType # FreeType
        /\ MapType # FreeType
    BY DEF PartitionType, BlankType, MapType, FreeType
  <2>3. new_size > 0
    <3>1. m.data[e].length > 0 /\ m.data[e].length \in Nat
      BY <2>1, LinkedData, DpmeFields, U32Assumption DEF InOrder
    <3>2. CASE MayGrow(m, new_size)
      BY <3>1, <3>2 DEF MayGrow
    <3>3. CASE MayShrink(m, new_size)
      <4>1. m.blocks_in_map > 0
        <5>1. m.base_order \in Seq(Entry) /\ ToSet(m.base_order) # {}
          BY <2>1, BaseListIsTyped
        <5>2. Len(m.base_order) \in Nat /\ DOMAIN m.base_order = 1 .. Len(m.base_order)
          BY <5>1, LenProperties
        <5>3. Len(m.base_order) # 0
          BY <5>1, <5>2 DEF ToSet
        <5> QED BY <5>2, <5>3 DEF WellLinked
      <4>2. AsInt(new_size) >= m.blocks_in_map
        BY <3>3, CountIsNatural, U32Assumption DEF MayShrink, AsInt
      <4>3. AsInt(0) = 0
        BY HalfIsSmaller, U32Assumption DEF AsInt
      <4> QED BY <4>1, <4>2, <4>3, CountIsNatural
    <3> QED BY <1>3, <3>2, <3>3
  <2> HIDE DEF e
  <2>4. InOrder(blanked) /\ (Separate(m) => Separate(blanked))
    BY <2>1, <2>2, RetypeTidied
  <2>5. WellLinked(blanked) /\ Linked(blanked) = Linked(m)
    BY <2>1, <2>2, RetypeKeeps DEF Keeps
  <2> HIDE DEF blanked
  <2>6. WellLinked(deleted)
    BY <2>1, <2>5, DeletePartitionKeeps DEF Edited, Keeps
  <2>7. Tidied(blanked, deleted)
    BY <2>1, <2>4, <2>5, DeletePartitionTidied
  <2> HIDE DEF deleted
  <2>8. 1 \in 0 .. U32 - 1 /\ mallocs - 1 \in Int
    BY U32Assumption
  <2>9. Tidied(deleted, added)
    BY <2>2, <2>3, <2>6, <2>7, <2>8, AddPartitionTidied DEF Tidied
  <2> HIDE DEF added
  <2>10. Tidied(m, added)
    BY <2>4, <2>7, <2>9 DEF Tidied
  <2> HIDE DEF may
  <2> QED BY <1>1, <1>3, <2>10
<1> QED BY <1>2, <1>3

(* A new map is one free entry.                                             *)
LEMMA CreatedIsTidy ==
  ASSUME NEW media \in 2 .. U32 - 1, NEW drivers \in SUBSET [block : Nat, size : Nat],
         Small(media)
  PROVE  LET r == CreatePartitionMap(media, drivers)
         IN  InOrder(r) /\ Separate(r)
<1> DEFINE r == CreatePartitionMap(media, drivers)
           d == Dpme(FreeType, 1, media - 1)
<1>0. media \in 1 .. U32 - 1 /\ media - 1 \in 0 .. U32 - 1 /\ 1 \in 0 .. U32 - 1
  BY U32Assumption
<1>1. WellLinked(r) /\ \A f \in Linked(r) : r.data[f] = d
  BY <1>0, CreatedIsSound, CreatedIsFree
<1>2. r.blocks_in_map <= 1
  BY <1>0, CreatedIsFree
<1> HIDE DEF r
<1>3. d \in DpmeSet /\ d.start = 1 /\ d.length = media - 1
  BY <1>0, DpmeIsTyped, FreeIsType
<1> HIDE DEF d
<1>4. d.length > 0 /\ Small(d.start + d.length)
  BY <1>3 DEF Small
<1>5. End(d) # d.start
  BY <1>3, <1>4, EndIsElsewhere
<1>6. Separate(r)
  BY <1>1, <1>5 DEF Separate, Contiguous
<1>7. ASSUME NEW x, NEW y, Before(r.base_order, x, y) PROVE FALSE
  <2>1. Len(r.base_order) \in Nat /\ Len(r.base_order) <= 1
    BY <1>1, <1>2, BaseListIsTyped, LenProperties DEF WellLinked
  <2> QED BY <2>1, <1>7 DEF Before
<1>8. InOrder(r)
  BY <1>1, <1>4, <1>7 DEF InOrder
<1> QED BY <1>6, <1>8 DEF r

-----------------------------------------------------------------------------
(* Marking: an edit that does anything marks the map as changed, but for a  *)
(* resize whose delete is refused, which leaves a map entry without a type. *)

Marks(m, r) == r = m \/ r.changed = TRUE

LEMMA AddPartitionMarks ==
  ASSUME NEW m, WellLinked(m), NEW type \in PartitionType,
         NEW base \in 0 .. U32 - 1, NEW length \in 0 .. U32 - 1,
         NEW mallocs \in Int
  PROVE  LET r == AddPartitionToMap(m, type, base, length, mallocs)
         IN  Marks(m, r) /\ (m.changed = TRUE => r.changed = TRUE)
<1> DEFINE cur   == Container(m, base, length)
           act   == AddAction(m.data[cur], base, length)
           new   == Dpme(type, base, length)
           placed == PlaceNew(m, cur, new, mallocs)
           may   == /\ WithinFree(m, base, length)
                    /\ MapIsBigEnough(m, act)
                    /\ mallocs >= 1
           s     == [RenumberDiskAddresses(placed) EXCEPT !.changed = TRUE]
<1>1. AddPartitionToMap(m, type, base, length, mallocs) = IF may THEN s ELSE m
  BY DEF AddPartitionToMap
<1>2. CASE may
  <2>1. cur \in Linked(m) /\ Includes(m.data[cur], base, length)
    BY <1>2, ContainerIsLinked DEF WithinFree
  <2> HIDE DEF cur
  <2>2. WellLinked(placed)
    BY <2>1, PlaceNewKeeps DEF Keeps
  <2> HIDE DEF placed
  <2>3. s.changed = TRUE
    BY <2>2, RenumberNumbers
  <2> HIDE DEF may, s
  <2> QED BY <1>1, <1>2, <2>3 DEF Marks
<1>3. CASE ~ may
  <2> HIDE DEF may, s
  <2> QED BY <1>1, <1>3 DEF Marks
<1> QED BY <1>2, <1>3

LEMMA DeletePartitionMarks ==
  ASSUME NEW m, WellLinked(m), NEW e \in Linked(m), NEW mallocs \in Int
  PROVE  LET r == DeletePartitionFromMap(m, e, mallocs)
         IN  /\ Marks(m, r)
             /\ m.data[e].type # MapType /\ ~ ContainsDriver(m, e) /\ mallocs >= 1
                => r.changed = TRUE
<1> DEFINE freed == [m EXCEPT !.data[e] = Dpme(FreeType, @.start, @.length)]
           combined == CombineEntry(freed, e)
           s == [RenumberDiskAddresses(combined) EXCEPT !.changed = TRUE]
           no == \/ m.data[e].type = MapType
                 \/ ContainsDriver(m, e)
                 \/ mallocs < 1
<1>1. DeletePartitionFromMap(m, e, mallocs) = IF no THEN m ELSE s
  BY DEF DeletePartitionFromMap
<1>2. Keeps(m, freed, TRUE) /\ Linked(freed) = Linked(m)
  BY RetypeKeeps, FreeIsType
<1> HIDE DEF freed
<1>3. WellLinked(combined)
  BY <1>2, CombineEntryKeeps DEF Keeps
<1> HIDE DEF combined
<1>4. s.changed = TRUE
  BY <1>3, RenumberNumbers
<1>5. m.data[e].type # MapType /\ ~ ContainsDriver(m, e) /\ mallocs >= 1 => ~ no
  OBVIOUS
<1> HIDE DEF s, no
<1> QED BY <1>1, <1>4, <1>5 DEF Marks

LEMMA MoveEntryMarks ==
  ASSUME NEW m, WellLinked(m), NEW old_index \in Int, NEW index \in Int
  PROVE  Marks(m, MoveEntryInMap(m, old_index, index))
<1> DEFINE found == FindEntryByDiskAddress(m, old_index)
           cur == CHOOSE e \in found : TRUE
           to == IF old_index < index THEN index + 1 ELSE index
           moved == [RemoveFromDiskOrder(m, cur) EXCEPT !.disk_address[cur] = to]
           r == InsertInDiskOrder(moved, cur)
           s == [RenumberDiskAddresses(r) EXCEPT !.changed = TRUE]
<1>1. MoveEntryInMap(m, old_index, index) = IF found = {} THEN m ELSE s
  BY DEF MoveEntryInMap
<1>2. "changed" \in DOMAIN RenumberDiskAddresses(r)
  <2>1. "changed" \in DOMAIN m
    BY DEF WellLinked, MapRecord
  <2> QED BY <2>1 DEF RenumberDiskAddresses, InsertInDiskOrder, RemoveFromDiskOrder
<1>3. s.changed = TRUE
  BY <1>2
<1> HIDE DEF s, found
<1> QED BY <1>1, <1>3 DEF Marks

(* Without a driver in the way and with memory for it the delete of a       *)
(* resize goes through.                                                     *)
LEMMA ResizeMapMarks ==
  ASSUME NEW m, WellLinked(m), m.drivers = {},
         NEW new_size \in 0 .. U32 - 1, NEW mallocs \in Int, mallocs >= 1
  PROVE  Marks(m, ResizeMap(m, new_size, mallocs))
<1> DEFINE e == MapEntry(m)
           blanked == [m EXCEPT !.data[e] = Dpme(BlankType, @.start, @.length)]
           deleted == DeletePartitionFromMap(blanked, e, mallocs)
           added == AddPartitionToMap(deleted, MapType, 1, new_size, mallocs - 1)
           may == /\ MapSlots(m) # {}
                  /\ MayShrink(m, new_size) \/ MayGrow(m, new_size)
<1>1. ResizeMap(m, new_size, mallocs) = IF may THEN added ELSE m
  BY DEF ResizeMap
<1>2. CASE ~ may
  <2> HIDE DEF added, may
  <2> QED BY <1>1, <1>2 DEF Marks
<1>3. CASE may
  <2>1. e \in Linked(m)
    BY <1>3, MapEntryIsLinked
  <2>2. /\ BlankType \in PartitionType
        /\ MapType \in PartitionType
        /\ BlankType # MapType
    BY DEF PartitionType, BlankType, MapType
  <2> HIDE DEF e
  <2>3. /\ WellLinked(blanked)
        /\ Linked(blanked) = Linked(m)
        /\ blanked.drivers = {}
    BY <2>1, <2>2, RetypeKeeps DEF Keeps
  <2>4. blanked.data[e].type = BlankType
    <3>1. e \in Entry /\ m \in MapRecord
      BY <2>1, LinkedData DEF WellLinked
    <3>2. blanked.data[e] = Dpme(BlankType, m.data[e].start, m.data[e].length)
      BY <3>1 DEF MapRecord
    <3> QED BY <3>2 DEF Dpme
  <2> HIDE DEF blanked
  <2>5. ~ ContainsDriver(blanked, e)
    BY <2>3 DEF ContainsDriver
  <2>6. WellLinked(deleted) /\ deleted.changed = TRUE
    BY <2>1, <2>2, <2>3, <2>4, <2>5, DeletePartitionMarks, DeletePartitionKeeps
    DEF Edited, Keeps
  <2> HIDE DEF deleted
  <2>7. 1 \in 0 .. U32 - 1 /\ mallocs - 1 \in Int
    BY U32Assumption
  <2>8. added.changed = TRUE
    BY <2>2, <2>6, <2>7, AddPartitionMarks
  <2> HIDE DEF added, may
  <2> QED BY <1>1, <1>3, <2>8 DEF Marks
<1> QED BY <1>2, <1>3

(* A new map is marked, and has an entry if malloc has a node at all.       *)
LEMMA CreatedIsMarked ==
  ASSUME NEW media \in 1 .. U32 - 1, NEW drivers \in SUBSET [block : Nat, size : Nat]
  PROVE  LET r == CreatePartitionMap(media, drivers)
         IN  /\ r.changed = TRUE
             /\ r.drivers = drivers
             /\ Entry # {} => Linked(r) # {}
<1> DEFINE m == EmptyMap(media, drivers)
           d == Dpme(FreeType, 1, media - 1)
           a == AddDataToMap(m, d, 1)
           r == CreatePartitionMap(media, drivers)
<1>1. WellLinked(m) /\ Linked(m) = {}
  <2>1. media \in 0 .. U32 - 1
    BY U32Assumption
  <2> QED BY <2>1, EmptyMapIsWellLinked
<1>2. m.drivers = drivers /\ Unused(m) = Entry
  BY DEF EmptyMap, Unused
<1>3. media - 1 \in 0 .. U32 - 1 /\ 1 \in 0 .. U32 - 1
  BY U32Assumption
<1>4. Wrap(media - 1) = media - 1
  BY <1>3, WrapSmall
<1>5. d \in DpmeSet
  BY <1>3, DpmeIsTyped, FreeIsType
<1>6. r = [a EXCEPT !.changed = TRUE]
  BY <1>4 DEF CreatePartitionMap
<1> HIDE DEF m, d
<1>7. a \in MapRecord /\ a.drivers = drivers /\ (Entry # {} => Linked(a) # {})
  <2>1. CASE Unused(m) = {}
    <3>1. a = m
      BY <2>1 DEF AddDataToMap
    <3> QED BY <3>1, <2>1, <1>1, <1>2 DEF WellLinked
  <2>2. CASE Unused(m) # {}
    <3>1. /\ WellLinked(a)
          /\ Linked(a) = Linked(m) \cup {NewNode(m)}
          /\ a.drivers = m.drivers
      BY <1>1, <1>5, <2>2, AddDataToMapLinks
    <3> HIDE DEF a
    <3> QED BY <3>1, <1>2 DEF WellLinked
  <2> QED BY <2>1, <2>2
<1> HIDE DEF a, r
<1>8. r.drivers = a.drivers /\ r.base_order = a.base_order /\ r.changed = TRUE
  BY <1>6, <1>7 DEF MapRecord
<1>9. Linked(r) = Linked(a)
  BY <1>8 DEF Linked
<1> QED BY <1>7, <1>8, <1>9 DEF r

-----------------------------------------------------------------------------
(* The place of an entry that is moved: its new number, or the nearest end  *)
(* of the map.                                                              *)
LEMMA MovedKeyFits ==
  ASSUME NEW list \in Seq(Entry), NEW key \in [Entry -> Int],
         NEW old \in 1 .. Len(list) + 1, NEW index \in Int, NEW e \in Entry,
         \A i \in 1 .. Len(list) : key[list[i]] = IF i < old THEN i ELSE i + 1,
         key[e] = IF old < index THEN index + 1 ELSE index
  PROVE  Link(list, key, e) =
           InsertAt(list, IF index < 1 THEN 1
                          ELSE IF index > Len(list) + 1 THEN Len(list) + 1
                          ELSE index, e)
<1> DEFINE n == Len(list) + 1
           to == IF index < 1 THEN 1 ELSE IF index > n THEN n ELSE index
           v == key[e]
           slots == Slots(list, key, v)
<1>1. Len(list) \in Nat /\ n \in Nat /\ v \in Int
  BY LenProperties
<1>2. slots \in SUBSET Nat /\ slots # {}
  BY <1>1, SlotsExist
<1>3. slots = {i \in 1 .. n : /\ i > 1 => key[list[i - 1]] <= v
                              /\ i <= Len(list) => v <= key[list[i]]}
  BY DEF Slots
<1>4. \A i \in 1 .. Len(list) : key[list[i]] = IF i < old THEN i ELSE i + 1
  OBVIOUS
<1>5. v = IF old < index THEN index + 1 ELSE index
  OBVIOUS
<1> HIDE DEF slots, v
<1>6. to \in 1 .. n
  BY <1>1
<1>7. to \in slots
  <2>1. to > 1 => key[list[to - 1]] <= v
    <3> SUFFICES ASSUME to > 1 PROVE key[list[to - 1]] <= v
      OBVIOUS
    <3>1. to - 1 \in 1 .. Len(list)
      BY <1>1, <1>6
    <3>2. key[list[to - 1]] = IF to - 1 < old THEN to - 1 ELSE to
      BY <1>4, <3>1, SMTT(60)
    <3> QED BY <1>1, <1>5, <3>2
  <2>2. to <= Len(list) => v <= key[list[to]]
    <3> SUFFICES ASSUME to <= Len(list) PROVE v <= key[list[to]]
      OBVIOUS
    <3>1. key[list[to]] = IF to < old THEN to ELSE to + 1
      BY <1>1, <1>4, <1>6
    <3> QED BY <1>1, <1>5, <3>1
  <2> QED BY <1>3, <1>6, <2>1, <2>2
<1>8. ASSUME NEW i \in slots PROVE to <= i
  <2> SUFFICES ASSUME i < to PROVE FALSE
    BY <1>1, <1>3, <1>6
  <2>1. i \in 1 .. Len(list)
    BY <1>1, <1>3, <1>6
  <2>2. v <= key[list[i]]
    BY <1>1, <1>3, <2>1
  <2>3. key[list[i]] = IF i < old THEN i ELSE i + 1
    BY <1>4, <2>1
  <2> QED BY <1>1, <1>5, <2>1, <2>2, <2>3
<1>9. Min(slots) = to
  <2>1. Min(slots) \in slots /\ Min(slots) <= to
    BY <1>2, <1>7, LeastExists
  <2>2. to <= Min(slots)
    BY <1>8, <2>1
  <2>3. Min(slots) \in Nat
    BY <1>2, <2>1
  <2>4. to \in Nat
    BY <1>1, <1>6
  <2> HIDE DEF to
  <2> QED BY <2>1, <2>2, <2>3, <2>4
<1> HIDE DEF to
<1>10. Link(list, key, e) = InsertAt(list, to, e)
  BY <1>2, <1>9 DEF Link, slots, v
<1> QED BY <1>10 DEF to

LEMMA MoveEntryPlaces ==
  ASSUME NEW m, WellLinked(m), Numbered(m),
         NEW old_index \in 1 .. Len(m.disk_order), NEW index \in Int
  PROVE  LET list == m.disk_order
         IN  MoveEntryInMap(m, old_index, index).disk_order =
               InsertAt(RemoveAt(list, old_index),
                        IF index < 1 THEN 1
                        ELSE IF index > Len(list) THEN Len(list) ELSE index,
                        list[old_index])
<1> DEFINE list == m.disk_order
           n == Len(list)
           cur == list[old_index]
           found == FindEntryByDiskAddress(m, old_index)
           to == IF old_index < index THEN index + 1 ELSE index
           x == Unlink(list, cur)
           u == RemoveFromDiskOrder(m, cur)
           moved == [u EXCEPT !.disk_address[cur] = to]
           r == InsertInDiskOrder(moved, cur)
<1>1. /\ m \in MapRecord
      /\ list \in Seq(Entry)
      /\ Distinct(list)
      /\ n \in Nat
      /\ DOMAIN list = 1 .. n
      /\ \A i \in 1 .. n : list[i] \in Entry
  BY LenProperties DEF WellLinked, MapRecord
<1>2. cur \in ToSet(list) /\ cur \in Entry
  BY <1>1 DEF ToSet
<1>3. found = {cur}
  <2>1. cur \in found
    BY <1>1, <1>2 DEF FindEntryByDiskAddress, Numbered
  <2>2. ASSUME NEW e \in found PROVE e = cur
    <3>1. PICK i \in 1 .. n : list[i] = e
      BY <1>1 DEF FindEntryByDiskAddress, ToSet
    <3>2. m.disk_address[e] = old_index /\ m.disk_address[list[i]] = i
      BY <1>1 DEF FindEntryByDiskAddress, Numbered
    <3> QED BY <3>1, <3>2
  <2> HIDE DEF found, cur
  <2> QED BY <2>1, <2>2
<1> HIDE DEF found
<1>4. MoveEntryInMap(m, old_index, index) =
        [RenumberDiskAddresses(r) EXCEPT !.changed = TRUE]
  <2>1. (CHOOSE e \in found : TRUE) = cur
    BY <1>3
  <2> QED BY <1>3, <2>1 DEF MoveEntryInMap, found
<1>5. /\ x = RemoveAt(list, old_index)
      /\ x \in Seq(Entry)
      /\ Len(x) = n - 1
      /\ \A i \in 1 .. n - 1 : x[i] = IF i < old_index THEN list[i] ELSE list[i + 1]
  <2>1. PICK k \in 1 .. n :
           /\ list[k] = cur
           /\ x \in Seq(Entry)
           /\ Len(x) = n - 1
           /\ \A i \in 1 .. n - 1 : x[i] = IF i < k THEN list[i] ELSE list[i + 1]
    BY <1>1, <1>2, UnlinkShifts
  <2>2. k = old_index
    BY <1>1, <2>1 DEF Distinct
  <2>3. (CHOOSE i \in DOMAIN list : list[i] = cur) = old_index
    <3>1. \A i \in DOMAIN list : list[i] = cur => i = old_index
      BY <1>1 DEF Distinct
    <3>2. old_index \in DOMAIN list /\ list[old_index] = cur
      BY <1>1
    <3> HIDE DEF cur
    <3> QED BY <3>1, <3>2
  <2>4. x = RemoveAt(list, old_index)
    BY <1>2, <2>3 DEF Unlink
  <2> QED BY <2>1, <2>2, <2>4
<1>6. Numbered(m) => \A i \in 1 .. n : m.disk_address[list[i]] = i
  BY DEF Numbered
<1> HIDE DEF cur
<1>7. u = [m EXCEPT !.disk_order = x]
  BY DEF RemoveFromDiskOrder
<1> HIDE DEF x, u
<1>8. to \in Int
  OBVIOUS
<1> HIDE DEF to
<1>9. u \in MapRecord /\ u.disk_order = x /\ u.disk_address = m.disk_address
  BY <1>1, <1>5, <1>7 DEF MapRecord
<1>10. /\ moved \in MapRecord
       /\ moved.disk_order = x
       /\ moved.disk_address = [u.disk_address EXCEPT ![cur] = to]
  BY <1>2, <1>8, <1>9 DEF MapRecord
<1>11. /\ moved.disk_address \in [Entry -> Int]
       /\ moved.disk_address[cur] = to
       /\ \A f \in Entry : f # cur => moved.disk_address[f] = m.disk_address[f]
  <2>1. m.disk_address \in [Entry -> Int]
    BY <1>1 DEF MapRecord
  <2> HIDE DEF moved
  <2> QED BY <1>2, <1>8, <1>9, <1>10, <2>1
<1>12. \A i \in 1 .. n - 1 :
        moved.disk_address[x[i]] = IF i < old_index THEN i ELSE i + 1
  <2> SUFFICES ASSUME NEW i \in 1 .. n - 1
               PROVE  moved.disk_address[x[i]] = IF i < old_index THEN i ELSE i + 1
    OBVIOUS
  <2> DEFINE j == IF i < old_index THEN i ELSE i + 1
  <2>1. j \in 1 .. n /\ j # old_index /\ x[i] = list[j]
    BY <1>1, <1>5
  <2>2. list[j] \in Entry /\ list[j] # cur
    BY <1>1, <2>1 DEF Distinct, cur
  <2>3. m.disk_address[list[j]] = j
    BY <1>6, <2>1
  <2> QED BY <1>11, <2>1, <2>2, <2>3
<1> DEFINE place == IF index < 1 THEN 1 ELSE IF index > n THEN n ELSE index
           key == moved.disk_address
<1>13. Link(x, key, cur) = InsertAt(x, place, cur)
  <2>1. old_index \in 1 .. Len(x) + 1 /\ Len(x) + 1 = n
    BY <1>1, <1>5
  <2>2. \A i \in 1 .. Len(x) : key[x[i]] = IF i < old_index THEN i ELSE i + 1
    BY <1>5, <1>12
  <2>3. key \in [Entry -> Int] /\ key[cur] = IF old_index < index THEN index + 1 ELSE index
    BY <1>11 DEF to
  <2>4. x \in Seq(Entry)
    BY <1>5
  <2> HIDE DEF key
  <2>5. Link(x, key, cur) =
          InsertAt(x, IF index < 1 THEN 1
                      ELSE IF index > Len(x) + 1 THEN Len(x) + 1
                      ELSE index, cur)
    BY <1>2, <2>1, <2>2, <2>3, <2>4, MovedKeyFits
  <2> QED BY <2>1, <2>5
<1> HIDE DEF moved, place
<1>14. r.disk_order = InsertAt(x, place, cur)
  BY <1>10, <1>13 DEF InsertInDiskOrder, MapRecord
<1>15. [RenumberDiskAddresses(r) EXCEPT !.changed = TRUE].disk_order = r.disk_order
  <2>1. r = [moved EXCEPT !.disk_order = InsertAt(x, place, cur)]
    BY <1>10, <1>13 DEF InsertInDiskOrder
  <2> HIDE DEF r, moved
  <2> QED BY <1>10, <2>1 DEF RenumberDiskAddresses, MapRecord
<1> QED BY <1>4, <1>5, <1>14, <1>15 DEF cur, place
-----------------------------------------------------------------------------
(* The blocks a map describes and the entries that take some of them: what  *)
(* DiskSpace speaks about.                                                  *)

Described(m) == {m.data[e] : e \in Linked(m)}
Cover(D) == UNION {Extent(d) : d \in D}
Taken(m) == {d \in Described(m) : d.type # FreeType}

LEMMA BlocksAreCovered ==
  ASSUME NEW m
  PROVE  Blocks(m) = Cover(Described(m))
BY DEF Blocks, Cover, Described

LEMMA TakenAreLinked ==
  ASSUME NEW m
  PROVE  Taken(m) = {m.data[e] : e \in {f \in Linked(m) : ~ IsFree(m, f)}}
BY DEF Taken, Described, IsFree

LEMMA ApartExtents ==
  ASSUME NEW c \in DpmeSet, NEW d \in DpmeSet, Apart(c, d)
  PROVE  Extent(c) \cap Extent(d) = {}
<1>1. c.start \in Nat /\ c.length \in Nat /\ d.start \in Nat /\ d.length \in Nat
  BY DpmeFields, U32Assumption
<1> QED BY <1>1 DEF Apart, Extent

(* Entries that take blocks have data of their own.                         *)
LEMMA DescribedOnce ==
  ASSUME NEW m, WellLinked(m), InOrder(m), NEW e \in Linked(m), NEW f \in Linked(m),
         m.data[e] = m.data[f]
  PROVE  e = f
<1> SUFFICES ASSUME e # f PROVE FALSE
  OBVIOUS
<1>1. Apart(m.data[e], m.data[f]) /\ m.data[e].length > 0
  BY OrderedIsDisjoint DEF Disjoint, InOrder
<1>2. m.data[e].start \in Nat /\ m.data[e].length \in Nat
  BY LinkedData, DpmeFields, U32Assumption
<1> QED BY <1>1, <1>2 DEF Apart

LEMMA DescribedApart ==
  ASSUME NEW m, WellLinked(m), InOrder(m)
  PROVE  /\ \A d \in Described(m) :
              d \in DpmeSet /\ d.length > 0 /\ Small(d.start + d.length)
         /\ \A c, d \in Described(m) : c # d => Extent(c) \cap Extent(d) = {}
<1>1. \A d \in Described(m) :
        d \in DpmeSet /\ d.length > 0 /\ Small(d.start + d.length)
  BY LinkedData DEF Described, InOrder
<1>2. ASSUME NEW c \in Described(m), NEW d \in Described(m), c # d
      PROVE  Extent(c) \cap Extent(d) = {}
  <2>1. PICK e \in Linked(m) : m.data[e] = c
    BY DEF Described
  <2>2. PICK f \in Linked(m) : m.data[f] = d
    BY DEF Described
  <2>3. Apart(c, d)
    BY <1>2, <2>1, <2>2, OrderedIsDisjoint DEF Disjoint
  <2> QED BY <1>1, <2>3, ApartExtents
<1> QED BY <1>1, <1>2

LEMMA SetDescribes ==
  ASSUME NEW m, WellLinked(m), InOrder(m), NEW e \in Linked(m), NEW d \in DpmeSet
  PROVE  Described([m EXCEPT !.data[e] = d]) = (Described(m) \ {m.data[e]}) \cup {d}
<1> DEFINE r == [m EXCEPT !.data[e] = d]
<1>1. Linked(r) = Linked(m) /\ r.data = [m.data EXCEPT ![e] = d]
  BY SetDataKeepsLinks
<1>2. \A f \in Linked(m) : r.data[f] = IF f = e THEN d ELSE m.data[f]
  BY <1>1, LinkedData DEF WellLinked, MapRecord
<1> HIDE DEF r
<1>3. \A f \in Linked(m) : f # e => m.data[f] # m.data[e]
  BY DescribedOnce
<1>4. Described(r) = (Described(m) \ {m.data[e]}) \cup {d}
  BY <1>1, <1>2, <1>3 DEF Described
<1> QED BY <1>4 DEF r

LEMMA AddDescribes ==
  ASSUME NEW m, WellLinked(m), NEW d \in DpmeSet, NEW index \in Int, Unused(m) # {}
  PROVE  Described(AddDataToMap(m, d, index)) = Described(m) \cup {d}
<1> DEFINE e == NewNode(m)
           r == AddDataToMap(m, d, index)
<1>1. /\ Linked(r) = Linked(m) \cup {e}
      /\ r.data[e] = d
      /\ \A f \in Linked(m) : r.data[f] = m.data[f]
  BY AddDataToMapLinks
<1> HIDE DEF r, e
<1>2. Described(r) = Described(m) \cup {d}
  BY <1>1 DEF Described
<1> QED BY <1>2 DEF r

LEMMA MergeDescribes ==
  ASSUME NEW m, WellLinked(m), InOrder(m), NEW e \in Linked(m), NEW p \in Linked(m),
         e # p, NEW d \in DpmeSet
  PROVE  Described(DeleteEntry([m EXCEPT !.data[e] = d], p)) =
           (Described(m) \ {m.data[e], m.data[p]}) \cup {d}
<1> DEFINE n == [m EXCEPT !.data[e] = d]
           r == DeleteEntry(n, p)
<1>1. WellLinked(n) /\ Linked(n) = Linked(m) /\ n.data = [m.data EXCEPT ![e] = d]
  BY SetDataKeepsLinks
<1>2. \A f \in Linked(m) : n.data[f] = IF f = e THEN d ELSE m.data[f]
  BY <1>1, LinkedData DEF WellLinked, MapRecord
<1> HIDE DEF n
<1>3. Linked(r) = Linked(m) \ {p} /\ r.data = [n.data EXCEPT ![p] = NoData]
  BY <1>1, DeleteEntryUnlinks
<1>4. \A f \in Linked(m) \ {p} : r.data[f] = IF f = e THEN d ELSE m.data[f]
  <2>1. \A f \in Linked(m) : f \in Entry
    BY LinkedData
  <2>2. n.data \in [Entry -> DpmeSet \cup {NoData}]
    BY <1>1 DEF WellLinked, MapRecord
  <2> QED BY <1>2, <1>3, <2>1, <2>2
<1> HIDE DEF r
<1>5. \A f \in Linked(m) : f \notin {e, p} => m.data[f] \notin {m.data[e], m.data[p]}
  BY DescribedOnce
<1>6. Described(r) = (Described(m) \ {m.data[e], m.data[p]}) \cup {d}
  BY <1>3, <1>4, <1>5 DEF Described
<1> QED BY <1>6 DEF n, r

LEMMA RenumberDescribes ==
  ASSUME NEW m, WellLinked(m)
  PROVE  Described([RenumberDiskAddresses(m) EXCEPT !.changed = TRUE]) = Described(m)
<1> DEFINE r == [RenumberDiskAddresses(m) EXCEPT !.changed = TRUE]
<1>1. Linked(r) = Linked(m) /\ r.data = m.data
  BY RenumberNumbers
<1> HIDE DEF r
<1>2. Described(r) = Described(m)
  BY <1>1 DEF Described
<1> QED BY <1>2 DEF r

(* A node is left while the map has fewer entries than there are nodes.     *)
LEMMA NodeIsLeft ==
  ASSUME NEW m, WellLinked(m), IsFiniteSet(Entry),
         m.blocks_in_map < Cardinality(Entry)
  PROVE  Unused(m) # {}
<1> SUFFICES ASSUME Unused(m) = {} PROVE FALSE
  OBVIOUS
<1> DEFINE list == m.base_order
           n == Len(list)
<1>1. list \in Seq(Entry) /\ n \in Nat /\ DOMAIN list = 1 .. n /\ n = m.blocks_in_map
  BY BaseListIsTyped, LenProperties DEF WellLinked
<1>2. Entry = ToSet(list)
  BY DEF WellLinked, Linked
<1> HIDE DEF list
<1>3. list \in [1 .. n -> Entry] /\ \A e \in Entry : \E i \in 1 .. n : list[i] = e
  BY <1>1, <1>2 DEF ToSet
<1>4. IsFiniteSet(1 .. n) /\ Cardinality(1 .. n) = n
  BY <1>1, FS_Interval
<1>5. list \in Surjection(1 .. n, Entry)
  BY <1>3 DEF Surjection
<1>6. Cardinality(Entry) <= n
  BY <1>4, <1>5, FS_Surjection
<1>7. Cardinality(Entry) \in Nat
  BY FS_CardinalityType
<1> QED BY <1>1, <1>6, <1>7

(* The pieces add_partition_to_map cuts a free entry into cover it.         *)
LEMMA SplitCovers ==
  ASSUME NEW d \in DpmeSet, Small(d.start + d.length),
         NEW base \in 0 .. U32 - 1, NEW length \in 0 .. U32 - 1,
         Small(base), Small(length), Includes(d, base, length)
  PROVE  LET new  == base .. base + length - 1
             rest == Rest(d, base, length)
             left == LeftOf(d, base)
             act  == AddAction(d, base, length)
         IN  /\ rest.type = FreeType
             /\ left.type = FreeType
             /\ act = kReplace => new = Extent(d)
             /\ act = kAdd => new \cup Extent(rest) = Extent(d)
             /\ act = kSplit => new \cup Extent(rest) \cup Extent(left) = Extent(d)
<1> DEFINE new  == base .. base + length - 1
           rest == Rest(d, base, length)
           left == LeftOf(d, base)
           right == RightOf(d, base, length)
           act  == AddAction(d, base, length)
<1>0. rest.type = FreeType /\ left.type = FreeType
  BY DEF Rest, LeftOf, RightOf, Dpme
<1>1. /\ d.start \in Nat /\ d.length \in Nat /\ base \in Nat /\ length \in Nat
      /\ U32 \in Nat
  BY DpmeFields, U32Assumption
<1>2. Wrap(base + length) = base + length
  <2>1. base + length \in 0 .. U32 - 1
    BY <1>1 DEF Small
  <2> QED BY <2>1, WrapSmall
<1>3. End(d) = d.start + d.length
  BY EndIsExact
<1>4. d.start <= base /\ base + length <= d.start + d.length
  BY <1>2, <1>3 DEF Includes
<1>5. left.start = d.start /\ left.length = base - d.start
  <2>1. base - d.start \in 0 .. U32 - 1
    BY <1>1, <1>4
  <2>2. Wrap(base - d.start) = base - d.start
    BY <2>1, WrapSmall
  <2> QED BY <2>2 DEF LeftOf, Dpme
<1>6. right.start = base + length /\ right.length = d.start + d.length - (base + length)
  <2> DEFINE n == d.length - (length + (IF d.start = base THEN 0
                                        ELSE base - d.start))
  <2>1. n = d.start + d.length - (base + length)
    BY <1>1
  <2>2. n \in 0 .. U32 - 1
    <3>1. d.length \in 0 .. U32 - 1
      BY DpmeFields
    <3> HIDE DEF n
    <3> QED BY <1>1, <1>4, <2>1, <3>1
  <2>3. Wrap(n) = n
    BY <2>2, WrapSmall
  <2>4. right = Dpme(FreeType, Wrap(base + length), Wrap(n))
    BY DEF RightOf
  <2> HIDE DEF n
  <2> QED BY <1>2, <2>1, <2>3, <2>4 DEF Dpme
<1>7. ASSUME act = kReplace PROVE new = Extent(d)
  <2>1. d.start = base /\ d.length = length
    BY <1>7 DEF AddAction, kReplace, kAdd, kSplit
  <2> QED BY <2>1 DEF Extent
<1>8. ASSUME act = kAdd PROVE new \cup Extent(rest) = Extent(d)
  <2>1. CASE d.start # base /\ End(d) = Wrap(base + length)
    <3>1. rest = left
      BY <2>1 DEF Rest
    <3> HIDE DEF rest, left
    <3>2. base + length = d.start + d.length
      BY <2>1, <1>2, <1>3
    <3> QED BY <3>1, <3>2, <1>1, <1>4, <1>5 DEF Extent
  <2>2. CASE ~ (d.start # base /\ End(d) = Wrap(base + length))
    <3>1. rest = right
      BY <2>2 DEF Rest
    <3>2. d.start = base
      BY <1>8, <2>2 DEF AddAction, kReplace, kAdd, kSplit
    <3> HIDE DEF rest, right
    <3> QED BY <3>1, <3>2, <1>1, <1>4, <1>6 DEF Extent
  <2> QED BY <2>1, <2>2
<1>9. ASSUME act = kSplit PROVE new \cup Extent(rest) \cup Extent(left) = Extent(d)
  <2>1. d.start # base /\ End(d) # Wrap(base + length)
    BY <1>9 DEF AddAction, kSplit, kReplace, kAdd
  <2>2. rest = right
    BY <2>1 DEF Rest
  <2> HIDE DEF rest, left, right
  <2> QED BY <2>2, <1>1, <1>4, <1>5, <1>6 DEF Extent
<1> QED BY <1>0, <1>7, <1>8, <1>9

(* One more entry takes blocks that were free; the blocks described are the *)
(* same.                                                                    *)
Allocates(m, r, new) ==
  /\ Taken(r) = Taken(m) \cup {new}
  /\ Cover(Described(r)) = Cover(Described(m))
  /\ Extent(new) \subseteq Cover(Described(m)) \ Cover(Taken(m))
  /\ new \notin Taken(m)

LEMMA PiecesAllocate ==
  ASSUME NEW m, WellLinked(m), InOrder(m), NEW d \in Described(m), d.type = FreeType,
         NEW new \in DpmeSet, new.type # FreeType, new.length > 0,
         NEW P, \A p \in P : p.type = FreeType,
         Extent(new) \cup Cover(P) = Extent(d),
         NEW r, Described(r) = (Described(m) \ {d}) \cup {new} \cup P
  PROVE  Allocates(m, r, new)
<1>1. Taken(r) = Taken(m) \cup {new}
  BY DEF Taken
<1>2. Cover(Described(r)) = Cover(Described(m))
  <2>1. Cover(Described(r)) = Cover(Described(m) \ {d}) \cup Extent(new) \cup Cover(P)
    BY DEF Cover
  <2>2. Cover(Described(m)) = Cover(Described(m) \ {d}) \cup Extent(d)
    BY DEF Cover
  <2> QED BY <2>1, <2>2
<1>3. Extent(new) \subseteq Extent(d) /\ Extent(d) \subseteq Cover(Described(m))
  BY DEF Cover
<1>4. ASSUME NEW t \in Taken(m) PROVE Extent(t) \cap Extent(d) = {}
  <2>1. t \in Described(m) /\ t # d
    BY DEF Taken
  <2> QED BY <2>1, DescribedApart
<1>5. Extent(d) \cap Cover(Taken(m)) = {}
  BY <1>4 DEF Cover
<1>6. new.start \in Extent(new)
  <2>1. new.start \in Nat /\ new.length \in Nat
    BY DpmeFields, U32Assumption
  <2> QED BY <2>1 DEF Extent
<1>7. new \notin Taken(m)
  BY <1>3, <1>4, <1>6
<1> QED BY <1>1, <1>2, <1>3, <1>5, <1>7 DEF Allocates

LEMMA ActionIsCount ==
  ASSUME NEW d, NEW base, NEW length
  PROVE  AddAction(d, base, length) \in {kReplace, kAdd, kSplit}
BY DEF AddAction

LEMMA PlaceNewAllocates ==
  ASSUME NEW m, WellLinked(m), InOrder(m),
         NEW cur \in Linked(m), IsFree(m, cur),
         NEW type \in PartitionType, type # FreeType,
         NEW base \in 0 .. U32 - 1, NEW length \in 0 .. U32 - 1,
         Small(base), Small(length), length > 0,
         Includes(m.data[cur], base, length), NEW mallocs \in Int, mallocs >= 4,
         IsFiniteSet(Entry),
         m.blocks_in_map + AddAction(m.data[cur], base, length) <= Cardinality(Entry)
  PROVE  Allocates(m, PlaceNew(m, cur, Dpme(type, base, length), mallocs),
                   Dpme(type, base, length))
<1> DEFINE new    == Dpme(type, base, length)
           d      == m.data[cur]
           index  == m.disk_address[cur]
           rest   == Rest(d, base, length)
           left   == LeftOf(d, base)
           act    == AddAction(d, base, length)
           whole  == [m EXCEPT !.data[cur] = new]
           shrunk == [m EXCEPT !.data[cur] = rest]
           added  == AddDataToMap(shrunk, new, index)
           both   == AddDataToMap(added, left, index)
<1>0. new.start = base /\ new.length = length /\ new.type = type
  BY DEF Dpme
<1>1. /\ d \in DpmeSet
      /\ new \in DpmeSet
      /\ rest \in DpmeSet
      /\ left \in DpmeSet
      /\ index \in Int
      /\ d \in Described(m)
      /\ d.type = FreeType
  <2>1. d \in DpmeSet /\ cur \in Entry /\ d \in Described(m) /\ d.type = FreeType
    BY LinkedData DEF Described, IsFree
  <2>2. new \in DpmeSet
    BY DpmeIsTyped
  <2>3. index \in Int
    BY <2>1 DEF WellLinked, MapRecord
  <2>4. rest \in DpmeSet /\ left \in DpmeSet
    BY <2>1, PartsAreTyped
  <2> QED BY <2>1, <2>2, <2>3, <2>4
<1>2. /\ rest.type = FreeType
      /\ left.type = FreeType
      /\ act = kReplace => Extent(new) = Extent(d)
      /\ act = kAdd => Extent(new) \cup Extent(rest) = Extent(d)
      /\ act = kSplit => Extent(new) \cup Extent(rest) \cup Extent(left) = Extent(d)
  <2>1. Small(d.start + d.length)
    BY DEF InOrder
  <2>2. Extent(new) = base .. base + length - 1
    BY <1>0 DEF Extent
  <2> HIDE DEF new
  <2> QED BY <2>1, <2>2, <1>1, SplitCovers
<1>3. PlaceNew(m, cur, new, mallocs) =
        IF act = kReplace THEN whole
        ELSE IF act = kSplit THEN both ELSE added
  <2>1. /\ rest = Rest(d, new.start, new.length)
        /\ left = LeftOf(d, new.start)
        /\ act = AddAction(d, new.start, new.length)
    BY <1>0
  <2>2. ~ (mallocs < 2)
    OBVIOUS
  <2> HIDE DEF act, whole, both, added, new, rest, left
  <2> QED BY <2>1, <2>2 DEF PlaceNew, d, index, shrunk, whole, both, added
<1>4. act \in {kReplace, kAdd, kSplit}
  BY ActionIsCount
<1>5. m.blocks_in_map + act <= Cardinality(Entry)
      /\ m.blocks_in_map \in Nat /\ Cardinality(Entry) \in Nat
  BY CountIsNatural, FS_CardinalityType
<1> HIDE DEF new, d, index, rest, left, act
<1>6. CASE act = kReplace
  <2>1. Described(whole) = (Described(m) \ {d}) \cup {new} \cup {}
    BY <1>1, SetDescribes DEF d
  <2>2. Extent(new) \cup Cover({}) = Extent(d)
    BY <1>2, <1>6 DEF Cover
  <2> HIDE DEF whole
  <2>3. Allocates(m, whole, new)
    BY <2>1, <2>2, <1>0, <1>1, PiecesAllocate
  <2> QED BY <2>3, <1>3, <1>6 DEF new
<1>7. CASE act # kReplace
  <2>1. /\ WellLinked(shrunk)
        /\ shrunk.blocks_in_map = m.blocks_in_map
        /\ Described(shrunk) = (Described(m) \ {d}) \cup {rest}
    BY <1>1, SetDataKeepsLinks, SetDescribes DEF d
  <2> HIDE DEF shrunk
  <2>2. Unused(shrunk) # {}
    <3>1. act >= 1
      BY <1>4, <1>7 DEF kAdd, kSplit, kReplace
    <3>2. act \in Nat
      BY <1>4 DEF kAdd, kSplit, kReplace
    <3> QED BY <3>1, <3>2, <2>1, <1>5, NodeIsLeft
  <2>3. /\ WellLinked(added)
        /\ added.blocks_in_map = shrunk.blocks_in_map + 1
        /\ Described(added) = (Described(m) \ {d}) \cup {rest, new}
    <3>1. WellLinked(added) /\ added.blocks_in_map = shrunk.blocks_in_map + 1
      BY <1>1, <2>1, <2>2, AddDataToMapLinks
    <3>2. Described(added) = Described(shrunk) \cup {new}
      BY <1>1, <2>1, <2>2, AddDescribes
    <3> HIDE DEF added
    <3> QED BY <3>1, <3>2, <2>1
  <2> HIDE DEF added
  <2>4. CASE act = kSplit
    <3>1. Unused(added) # {}
      BY <2>1, <2>3, <2>4, <1>5, NodeIsLeft DEF kSplit
    <3>2. Described(both) = Described(added) \cup {left}
      BY <1>1, <2>3, <3>1, AddDescribes
    <3> HIDE DEF both
    <3>3. Described(both) = (Described(m) \ {d}) \cup {new} \cup {rest, left}
      BY <2>3, <3>2
    <3>4. Extent(new) \cup Cover({rest, left}) = Extent(d)
      BY <1>2, <2>4 DEF Cover
    <3>5. Allocates(m, both, new)
      BY <3>3, <3>4, <1>0, <1>1, <1>2, PiecesAllocate
    <3> QED BY <3>5, <1>3, <1>7, <2>4 DEF new
  <2>5. CASE act = kAdd
    <3>1. Described(added) = (Described(m) \ {d}) \cup {new} \cup {rest}
      BY <2>3
    <3>2. Extent(new) \cup Cover({rest}) = Extent(d)
      BY <1>2, <2>5 DEF Cover
    <3>3. Allocates(m, added, new)
      BY <3>1, <3>2, <1>0, <1>1, <1>2, PiecesAllocate
    <3>4. act # kSplit
      BY <2>5 DEF kSplit, kAdd
    <3> HIDE DEF both
    <3> QED BY <3>3, <3>4, <1>3, <1>7 DEF new
  <2> QED BY <2>4, <2>5, <1>4, <1>7
<1> QED BY <1>6, <1>7

(* A map with a limit that is kept, and a node for every entry below it.    *)
Houses(m) ==
  /\ IsFiniteSet(Entry)
  /\ Roomy(m)
  /\ 0 <= m.maximum_in_map
  /\ m.maximum_in_map <= Cardinality(Entry)

LEMMA AddPartitionAllocates ==
  ASSUME NEW m, WellLinked(m), InOrder(m), Houses(m), U32 >= 5,
         NEW type \in PartitionType, type # FreeType,
         NEW base \in 0 .. U32 - 1, NEW length \in 0 .. U32 - 1,
         Small(base), Small(length), length > 0,
         NEW mallocs \in Int, mallocs < 1 \/ mallocs >= 4
  PROVE  LET r   == AddPartitionToMap(m, type, base, length, mallocs)
             act == AddAction(m.data[Container(m, base, length)], base, length)
             new == Dpme(type, base, length)
         IN  /\ r = m \/ Allocates(m, r, new)
             /\ /\ WithinFree(m, base, length)
                /\ MapIsBigEnough(m, act)
                /\ mallocs >= 1
                => Allocates(m, r, new)
<1> DEFINE cur   == Container(m, base, length)
           act   == AddAction(m.data[cur], base, length)
           new   == Dpme(type, base, length)
           placed == PlaceNew(m, cur, new, mallocs)
           may   == /\ WithinFree(m, base, length)
                    /\ MapIsBigEnough(m, act)
                    /\ mallocs >= 1
           s     == [RenumberDiskAddresses(placed) EXCEPT !.changed = TRUE]
<1>1. AddPartitionToMap(m, type, base, length, mallocs) = IF may THEN s ELSE m
  BY DEF AddPartitionToMap
<1>2. ASSUME may PROVE Allocates(m, s, new)
  <2>1. /\ cur \in Linked(m)
        /\ IsFree(m, cur)
        /\ Includes(m.data[cur], base, length)
    BY <1>2, ContainerIsLinked DEF WithinFree, IsFree
  <2>2. act \in 0 .. 2
    BY ActionIsCount DEF kReplace, kAdd, kSplit
  <2>3. m.blocks_in_map + act <= m.maximum_in_map
    BY <1>2, <2>2, BigEnoughIsExact DEF Houses
  <2>4. m.blocks_in_map + act <= Cardinality(Entry)
    BY <2>2, <2>3, CountIsNatural, FS_CardinalityType DEF Houses
  <2> HIDE DEF cur
  <2>5. WellLinked(placed)
    BY <2>1, PlaceNewKeeps DEF Keeps
  <2>6. Allocates(m, placed, new)
    BY <1>2, <2>1, <2>4, PlaceNewAllocates DEF Houses
  <2> HIDE DEF placed, new
  <2>7. Described(s) = Described(placed)
    BY <2>5, RenumberDescribes
  <2> HIDE DEF may, s
  <2>8. Allocates(m, s, new)
    BY <2>6, <2>7 DEF Allocates, Taken
  <2> QED BY <2>8 DEF new
<1> HIDE DEF s
<1> QED BY <1>1, <1>2

-----------------------------------------------------------------------------
(* Free entries that grow together take nothing and leave nothing out.      *)
SameSpace(m, r) ==
  /\ Taken(r) = Taken(m)
  /\ Cover(Described(r)) = Cover(Described(m))

LEMMA MergedCovers ==
  ASSUME NEW c \in DpmeSet, NEW d \in DpmeSet, NEW r \in DpmeSet,
         c.start + c.length = d.start,
         r.start = c.start, r.length = c.length + d.length
  PROVE  Extent(r) = Extent(c) \cup Extent(d)
<1>1. c.start \in Nat /\ c.length \in Nat /\ d.start \in Nat /\ d.length \in Nat
  BY DpmeFields, U32Assumption
<1> QED BY <1>1 DEF Extent

LEMMA FreeMergeIsSame ==
  ASSUME NEW m, NEW r, NEW c \in Described(m), NEW d \in Described(m), NEW new,
         c.type = FreeType, d.type = FreeType, new.type = FreeType,
         Extent(new) = Extent(c) \cup Extent(d),
         Described(r) = (Described(m) \ {c, d}) \cup {new}
  PROVE  SameSpace(m, r)
<1>1. Taken(r) = Taken(m)
  BY DEF Taken
<1>2. Cover(Described(m)) =
        Cover(Described(m) \ {c, d}) \cup Extent(c) \cup Extent(d)
  BY DEF Cover
<1>3. Cover(Described(r)) = Cover(Described(m) \ {c, d}) \cup Extent(new)
  BY DEF Cover
<1> QED BY <1>1, <1>2, <1>3 DEF SameSpace

LEMMA MergeNextSpace ==
  ASSUME NEW m, WellLinked(m), InOrder(m), NEW e \in Linked(m), IsFree(m, e)
  PROVE  LET r == MergeNext(m, e)
         IN  SameSpace(m, r) /\ IsFree(r, e)
<1> DEFINE others == {p \in ToSet(m.base_order) :
                        Follows(m, p, e) /\ IsFree(m, p) /\ Contiguous(m, e, p)}
           p == CHOOSE q \in others : TRUE
           c == m.data[e]
           d == m.data[p]
           new == Dpme(c.type, c.start, Wrap(c.length + d.length))
           r == DeleteEntry([m EXCEPT !.data[e] = new], p)
<1>1. CASE others = {}
  BY <1>1 DEF MergeNext, SameSpace
<1>2. CASE others # {}
  <2>1. p \in others
    BY <1>2
  <2>2. /\ p \in Linked(m)
        /\ Follows(m, p, e)
        /\ IsFree(m, p)
        /\ End(c) = d.start
    BY <2>1 DEF Linked, Contiguous
  <2>3. MergeNext(m, e) = r
    <3>1. [m EXCEPT !.data[e] =
             Dpme(@.type, @.start, Wrap(@.length + m.data[p].length))]
          = [m EXCEPT !.data[e] = new]
      OBVIOUS
    <3> QED BY <1>2, <3>1 DEF MergeNext
  <2> HIDE DEF p
  <2>4. e # p
    BY <2>2, FollowsIsAnother
  <2>5. /\ c \in DpmeSet /\ d \in DpmeSet
        /\ c.type \in PartitionType
        /\ c.type = FreeType /\ d.type = FreeType
        /\ Small(c.start + c.length)
        /\ Small(d.start + d.length)
        /\ c \in Described(m) /\ d \in Described(m)
    BY <2>2, LinkedData, DpmeFields DEF InOrder, IsFree, Described
  <2>6. End(c) = c.start + c.length
    BY <2>5, EndIsExact
  <2> HIDE DEF c, d
  <2>7. /\ new \in DpmeSet
        /\ new.type = FreeType
        /\ new.start = c.start
        /\ new.length = c.length + d.length
    BY <2>2, <2>5, MergedExtent
  <2> HIDE DEF new
  <2>8. Extent(new) = Extent(c) \cup Extent(d)
    BY <2>2, <2>5, <2>6, <2>7, MergedCovers
  <2>9. Described(r) = (Described(m) \ {c, d}) \cup {new}
    BY <2>2, <2>4, <2>7, MergeDescribes DEF c, d
  <2>10. r.data[e] = new
    BY <2>2, <2>4, <2>7, MergeKeepsDisjoint
  <2> HIDE DEF r
  <2>11. SameSpace(m, r)
    BY <2>5, <2>7, <2>8, <2>9, FreeMergeIsSame
  <2>12. IsFree(r, e)
    BY <2>7, <2>10 DEF IsFree
  <2> QED BY <2>3, <2>11, <2>12
<1> QED BY <1>1, <1>2

LEMMA MergePrevSpace ==
  ASSUME NEW m, WellLinked(m), InOrder(m), NEW e \in Linked(m), IsFree(m, e)
  PROVE  LET r == MergePrev(m, e)
         IN  SameSpace(m, r) /\ IsFree(r, e)
<1> DEFINE others == {p \in ToSet(m.base_order) :
                        Follows(m, e, p) /\ IsFree(m, p) /\ Contiguous(m, p, e)}
           p == CHOOSE q \in others : TRUE
           c == m.data[e]
           d == m.data[p]
           new == Dpme(c.type, d.start, Wrap(c.length + d.length))
           r == DeleteEntry([m EXCEPT !.data[e] = new], p)
<1>1. CASE others = {}
  BY <1>1 DEF MergePrev, SameSpace
<1>2. CASE others # {}
  <2>1. p \in others
    BY <1>2
  <2>2. /\ p \in Linked(m)
        /\ Follows(m, e, p)
        /\ IsFree(m, p)
        /\ End(d) = c.start
    BY <2>1 DEF Linked, Contiguous
  <2>3. MergePrev(m, e) = r
    <3>1. [m EXCEPT !.data[e] =
             Dpme(@.type, m.data[p].start, Wrap(@.length + m.data[p].length))]
          = [m EXCEPT !.data[e] = new]
      OBVIOUS
    <3> QED BY <1>2, <3>1 DEF MergePrev
  <2> HIDE DEF p
  <2>4. e # p
    BY <2>2, FollowsIsAnother
  <2>5. /\ c \in DpmeSet /\ d \in DpmeSet
        /\ c.type \in PartitionType
        /\ c.length \in Nat /\ d.length \in Nat
        /\ c.type = FreeType /\ d.type = FreeType
        /\ Small(c.start + c.length)
        /\ Small(d.start + d.length)
        /\ c \in Described(m) /\ d \in Described(m)
    BY <2>2, LinkedData, DpmeFields, U32Assumption DEF InOrder, IsFree, Described
  <2>6. End(d) = d.start + d.length
    BY <2>5, EndIsExact
  <2> HIDE DEF c, d
  <2>7. /\ new \in DpmeSet
        /\ new.type = FreeType
        /\ new.start = d.start
        /\ new.length = d.length + c.length
    <3>1. new = Dpme(c.type, d.start, Wrap(d.length + c.length))
      BY <2>5
    <3> HIDE DEF new
    <3> QED BY <3>1, <2>2, <2>5, MergedExtent
  <2> HIDE DEF new
  <2>8. Extent(new) = Extent(d) \cup Extent(c)
    BY <2>2, <2>5, <2>6, <2>7, MergedCovers
  <2>9. Described(r) = (Described(m) \ {c, d}) \cup {new}
    BY <2>2, <2>4, <2>7, MergeDescribes DEF c, d
  <2>10. r.data[e] = new
    BY <2>2, <2>4, <2>7, MergeKeepsDisjoint
  <2> HIDE DEF r
  <2>11. SameSpace(m, r)
    <3>1. Extent(new) = Extent(c) \cup Extent(d)
      BY <2>8
    <3> QED BY <3>1, <2>5, <2>7, <2>9, FreeMergeIsSame
  <2>12. IsFree(r, e)
    BY <2>7, <2>10 DEF IsFree
  <2> QED BY <2>3, <2>11, <2>12
<1> QED BY <1>1, <1>2

LEMMA CombineEntrySpace ==
  ASSUME NEW m, WellLinked(m), InOrder(m), NEW e \in Linked(m), IsFree(m, e)
  PROVE  SameSpace(m, CombineEntry(m, e))
<1> DEFINE n == MergeNext(m, e)
           r == MergePrev(n, e)
<1>1. CombineEntry(m, e) = r
  BY DEF CombineEntry
<1>2. WellLinked(n) /\ e \in Linked(n)
  BY MergeNextKeeps DEF Keeps
<1>3. InOrder(n)
  BY MergeNextTidied
<1>4. SameSpace(m, n) /\ IsFree(n, e)
  BY MergeNextSpace
<1> HIDE DEF n
<1>5. SameSpace(n, r)
  BY <1>2, <1>3, <1>4, MergePrevSpace
<1> HIDE DEF r
<1> QED BY <1>1, <1>4, <1>5 DEF SameSpace

(* An entry that changes its type keeps its blocks.                         *)
LEMMA RetypeSpace ==
  ASSUME NEW m, WellLinked(m), InOrder(m), NEW e \in Linked(m),
         NEW type \in PartitionType
  PROVE  LET c == m.data[e]
             d == Dpme(type, c.start, c.length)
             r == [m EXCEPT !.data[e] = Dpme(type, @.start, @.length)]
         IN  /\ Described(r) = (Described(m) \ {c}) \cup {d}
             /\ Cover(Described(r)) = Cover(Described(m))
             /\ Extent(d) = Extent(c)
             /\ d \notin Described(m) \ {c}
<1> DEFINE c == m.data[e]
           d == Dpme(type, c.start, c.length)
           r == [m EXCEPT !.data[e] = d]
<1>1. [m EXCEPT !.data[e] = Dpme(type, @.start, @.length)] = r
  OBVIOUS
<1>2. /\ c \in DpmeSet
      /\ c \in Described(m)
      /\ c.length > 0
      /\ d \in DpmeSet
      /\ d.start = c.start
      /\ d.length = c.length
  BY LinkedData, DpmeFields, DpmeIsTyped DEF InOrder, Described
<1>3. Described(r) = (Described(m) \ {c}) \cup {d}
  BY <1>2, SetDescribes
<1> HIDE DEF c, d, r
<1>4. Extent(d) = Extent(c)
  BY <1>2 DEF Extent
<1>5. Cover(Described(r)) = Cover(Described(m))
  BY <1>2, <1>3, <1>4 DEF Cover
<1>6. c.start \in Extent(c)
  BY <1>2, DpmeFields, U32Assumption DEF Extent
<1>7. d \notin Described(m) \ {c}
  BY <1>2, <1>4, <1>6, DescribedApart
<1> QED BY <1>1, <1>3, <1>4, <1>5, <1>7 DEF c, d

(* Deleting an entry takes it away from what is taken, and nothing else.    *)
LEMMA DeletePartitionReleases ==
  ASSUME NEW m, WellLinked(m), InOrder(m), NEW e \in Linked(m), NEW mallocs \in Int
  PROVE  LET r  == DeletePartitionFromMap(m, e, mallocs)
             no == \/ m.data[e].type = MapType
                   \/ ContainsDriver(m, e)
                   \/ mallocs < 1
         IN  /\ no => r = m
             /\ ~ no => /\ Taken(r) = Taken(m) \ {m.data[e]}
                        /\ Cover(Described(r)) = Cover(Described(m))
<1> DEFINE c == m.data[e]
           free == Dpme(FreeType, c.start, c.length)
           freed == [m EXCEPT !.data[e] = Dpme(FreeType, @.start, @.length)]
           combined == CombineEntry(freed, e)
           s == [RenumberDiskAddresses(combined) EXCEPT !.changed = TRUE]
           no == \/ m.data[e].type = MapType
                 \/ ContainsDriver(m, e)
                 \/ mallocs < 1
<1>1. DeletePartitionFromMap(m, e, mallocs) = IF no THEN m ELSE s
  BY DEF DeletePartitionFromMap
<1>2. InOrder(freed) /\ IsFree(freed, e)
  BY RetypeTidied, FreeIsType
<1>3. WellLinked(freed) /\ Linked(freed) = Linked(m)
  BY RetypeKeeps, FreeIsType DEF Keeps
<1>4. /\ Described(freed) = (Described(m) \ {c}) \cup {free}
      /\ Cover(Described(freed)) = Cover(Described(m))
  BY RetypeSpace, FreeIsType
<1>5. free.type = FreeType
  BY DEF Dpme
<1> HIDE DEF freed, free
<1>6. Taken(freed) = Taken(m) \ {c}
  BY <1>4, <1>5 DEF Taken
<1>7. WellLinked(combined)
  BY <1>3, CombineEntryKeeps DEF Keeps
<1>8. SameSpace(freed, combined)
  BY <1>2, <1>3, CombineEntrySpace
<1> HIDE DEF combined
<1>9. Described(s) = Described(combined)
  BY <1>7, RenumberDescribes
<1> HIDE DEF s, no
<1>10. Taken(s) = Taken(m) \ {c} /\ Cover(Described(s)) = Cover(Described(m))
  BY <1>4, <1>6, <1>8, <1>9 DEF SameSpace, Taken
<1> QED BY <1>1, <1>10 DEF no, c

(* Nothing is added at block 1 while an entry that is not free begins there.*)
LEMMA FirstBlockIsTaken ==
  ASSUME NEW m, WellLinked(m), InOrder(m), Small(1), NEW e \in Linked(m),
         m.data[e].start = 1, ~ IsFree(m, e),
         NEW size \in 0 .. U32 - 1, Small(size), size > 0
  PROVE  ~ WithinFree(m, 1, size)
<1> SUFFICES ASSUME WithinFree(m, 1, size) PROVE FALSE
  OBVIOUS
<1> DEFINE cur == Container(m, 1, size)
<1>1. cur \in Linked(m) /\ Includes(m.data[cur], 1, size) /\ IsFree(m, cur)
  BY ContainerIsLinked DEF WithinFree, IsFree
<1> HIDE DEF cur
<1> DEFINE c == m.data[cur]
           d == m.data[e]
<1>2. /\ c \in DpmeSet
      /\ c.start \in Nat /\ c.length \in Nat
      /\ d.length \in Nat /\ d.length > 0 /\ d.start = 1
      /\ size \in Nat
  BY <1>1, LinkedData, DpmeFields, U32Assumption DEF InOrder
<1>3. Apart(c, d) /\ c.length > 0 /\ Small(c.start + c.length)
  BY <1>1, OrderedIsDisjoint DEF Disjoint, InOrder
<1>4. End(c) = c.start + c.length
  BY <1>2, <1>3, EndIsExact
<1>5. Wrap(1 + size) = 1 + size
  <2>1. 1 + size \in 0 .. U32 - 1
    BY <1>2, U32Assumption DEF Small
  <2> QED BY <2>1, WrapSmall
<1>6. c.start <= 1 /\ 1 + size <= c.start + c.length
  BY <1>1, <1>4, <1>5 DEF Includes
<1> HIDE DEF c, d
<1> QED BY <1>2, <1>3, <1>6 DEF Apart

LEMMA NewSizeIsPositive ==
  ASSUME NEW m, WellLinked(m), InOrder(m), MapSlots(m) # {},
         NEW new_size \in 0 .. U32 - 1, MayShrink(m, new_size) \/ MayGrow(m, new_size)
  PROVE  new_size > 0
<1> DEFINE e == MapEntry(m)
<1>1. e \in Linked(m)
  BY MapEntryIsLinked
<1>2. m.data[e].length > 0 /\ m.data[e].length \in Nat
  BY <1>1, LinkedData, DpmeFields, U32Assumption DEF InOrder
<1>3. CASE MayGrow(m, new_size)
  BY <1>2, <1>3 DEF MayGrow
<1>4. CASE MayShrink(m, new_size)
  <2>1. m.blocks_in_map > 0
    <3>1. m.base_order \in Seq(Entry) /\ ToSet(m.base_order) # {}
      BY <1>1, BaseListIsTyped
    <3>2. Len(m.base_order) \in Nat /\ DOMAIN m.base_order = 1 .. Len(m.base_order)
      BY <3>1, LenProperties
    <3>3. Len(m.base_order) # 0
      BY <3>1, <3>2 DEF ToSet
    <3> QED BY <3>2, <3>3 DEF WellLinked
  <2>2. AsInt(new_size) >= m.blocks_in_map
    BY <1>4, CountIsNatural, U32Assumption DEF MayShrink, AsInt
  <2>3. AsInt(0) = 0
    BY HalfIsSmaller, U32Assumption DEF AsInt
  <2> QED BY <2>1, <2>2, <2>3, CountIsNatural
<1> QED BY <1>3, <1>4

(* What becomes of the entry of the map when its size is changed: it is     *)
(* lost, has the new size, or lost its type.                                *)
Resized(m, r, e, size) ==
  LET c == m.data[e]
      new == Dpme(MapType, 1, size)
  IN  /\ c.type = MapType
      /\ Cover(Described(r)) = Cover(Described(m))
      /\ \/ /\ ~ ContainsDriver(m, e)
            /\ Taken(r) = Taken(m) \ {c}
         \/ /\ ~ ContainsDriver(m, e)
            /\ Taken(r) = (Taken(m) \ {c}) \cup {new}
            /\ Extent(new) \subseteq Cover(Described(m)) \ Cover(Taken(m) \ {c})
         \/ /\ ContainsDriver(m, e)
            /\ Taken(r) = (Taken(m) \ {c}) \cup {Dpme(BlankType, c.start, c.length)}

LEMMA ResizeMapSpace ==
  ASSUME NEW m, WellLinked(m), InOrder(m), Houses(m), U32 >= 5, Small(1),
         \A e \in Linked(m) : m.data[e].type = MapType => m.data[e].start = 1,
         NEW new_size \in 0 .. U32 - 1, Small(new_size),
         NEW mallocs \in Int, mallocs >= 5
  PROVE  LET r == ResizeMap(m, new_size, mallocs)
         IN  r = m \/ \E e \in Linked(m) : Resized(m, r, e, new_size)
<1> DEFINE e == MapEntry(m)
           c == m.data[e]
           blank == Dpme(BlankType, c.start, c.length)
           blanked == [m EXCEPT !.data[e] = Dpme(BlankType, @.start, @.length)]
           deleted == DeletePartitionFromMap(blanked, e, mallocs)
           new == Dpme(MapType, 1, new_size)
           added == AddPartitionToMap(deleted, MapType, 1, new_size, mallocs - 1)
           may == /\ MapSlots(m) # {}
                  /\ MayShrink(m, new_size) \/ MayGrow(m, new_size)
<1>1. ResizeMap(m, new_size, mallocs) = IF may THEN added ELSE m
  BY DEF ResizeMap
<1>2. CASE ~ may
  <2> HIDE DEF added, may
  <2> QED BY <1>1, <1>2
<1>3. CASE may
  <2>1. e \in Linked(m) /\ c.type = MapType /\ e \in Entry
    BY <1>3, MapEntryIsLinked, LinkedData
  <2>2. /\ BlankType \in PartitionType
        /\ MapType \in PartitionType
        /\ BlankType # FreeType
        /\ MapType # FreeType
        /\ BlankType # MapType
    BY DEF PartitionType, BlankType, MapType, FreeType
  <2>3. new_size > 0
    BY <1>3, NewSizeIsPositive
  <2>4. /\ c \in DpmeSet
        /\ c.start = 1
        /\ c \in Described(m)
        /\ c \in Taken(m)
        /\ c.start \in 0 .. U32 - 1 /\ c.length \in 0 .. U32 - 1
    BY <2>1, <2>2, LinkedData, DpmeFields DEF Described, Taken
  <2>5. /\ blank \in DpmeSet
        /\ blank.type = BlankType
        /\ blank.start = c.start
        /\ blank.length = c.length
    BY <2>2, <2>4, DpmeIsTyped
  <2>6. blanked = [m EXCEPT !.data[e] = blank]
    OBVIOUS
  <2> HIDE DEF e, c
  <2>7. InOrder(blanked)
    BY <2>1, <2>2, RetypeTidied
  <2>8. /\ Described(blanked) = (Described(m) \ {c}) \cup {blank}
        /\ Cover(Described(blanked)) = Cover(Described(m))
        /\ blank \notin Described(m) \ {c}
    BY <2>1, <2>2, RetypeSpace DEF c
  <2> HIDE DEF blank, blanked
  <2>9. /\ WellLinked(blanked)
        /\ Linked(blanked) = Linked(m)
        /\ blanked.data = [m.data EXCEPT ![e] = blank]
        /\ blanked.drivers = m.drivers
    BY <2>1, <2>5, <2>6, SetDataKeepsLinks
  <2>10. Grows(m, blanked, 0, FreeType)
    BY <2>1, <2>2, <2>5, <2>6, SetDataGrows
  <2>11. blanked.data[e] = blank
    BY <2>1, <2>9 DEF WellLinked, MapRecord
  <2>12. ContainsDriver(blanked, e) = ContainsDriver(m, e)
    BY <2>5, <2>9, <2>11 DEF ContainsDriver, End, c
  <2>13. Taken(blanked) = (Taken(m) \ {c}) \cup {blank}
    BY <2>2, <2>5, <2>8 DEF Taken
  <2>14. Roomy(blanked) /\ blanked.maximum_in_map = m.maximum_in_map
    BY <2>9, <2>10, ShrunkIsRoomy DEF Houses, Grows
  <2>15. mallocs - 1 \in Int /\ 1 \in 0 .. U32 - 1 /\ ~ (mallocs - 1 < 1) /\ mallocs - 1 >= 4
         /\ ~ (mallocs < 1)
    BY U32Assumption
  <2>16. CASE ContainsDriver(m, e)
    <3>1. deleted = blanked
      BY <2>1, <2>9, <2>12, <2>16, <2>7, DeletePartitionReleases
    <3>2. ~ WithinFree(blanked, 1, new_size)
      BY <2>1, <2>2, <2>3, <2>4, <2>5, <2>7, <2>9, <2>11, FirstBlockIsTaken DEF IsFree
    <3>3. added = blanked
      BY <3>1, <3>2 DEF AddPartitionToMap
    <3> HIDE DEF added, deleted, may
    <3>4. Resized(m, added, e, new_size)
      BY <3>3, <2>1, <2>8, <2>13, <2>16 DEF Resized, c, blank
    <3> QED BY <3>4, <1>1, <1>3, <2>1
  <2>17. CASE ~ ContainsDriver(m, e)
    <3>1. /\ Taken(deleted) = Taken(blanked) \ {blank}
          /\ Cover(Described(deleted)) = Cover(Described(blanked))
      <4>1. /\ blanked.data[e].type # MapType
            /\ ~ ContainsDriver(blanked, e)
            /\ ~ (mallocs < 1)
        BY <2>2, <2>5, <2>11, <2>12, <2>15, <2>17
      <4>2. e \in Linked(blanked)
        BY <2>1, <2>9
      <4>3. ~ (\/ blanked.data[e].type = MapType
               \/ ContainsDriver(blanked, e)
               \/ mallocs < 1)
            => /\ Taken(deleted) = Taken(blanked) \ {blanked.data[e]}
               /\ Cover(Described(deleted)) = Cover(Described(blanked))
        BY <4>2, <2>7, <2>9, DeletePartitionReleases
      <4> HIDE DEF deleted
      <4> QED BY <4>1, <4>3, <2>11
    <3>2. WellLinked(deleted)
      BY <2>1, <2>9, DeletePartitionKeeps DEF Edited, Keeps
    <3>3. InOrder(deleted)
      BY <2>1, <2>7, <2>9, DeletePartitionTidied DEF Tidied
    <3>4. Grows(blanked, deleted, 0, FreeType)
      BY <2>1, <2>9, DeletePartitionGrows
    <3> HIDE DEF deleted
    <3>5. Houses(deleted)
      BY <3>2, <3>4, <2>9, <2>14, ShrunkIsRoomy DEF Houses, Grows
    <3>6. Taken(deleted) = Taken(m) \ {c}
      BY <3>1, <2>8, <2>13 DEF Taken
    <3>7. added = deleted \/ Allocates(deleted, added, new)
      BY <3>2, <3>3, <3>5, <2>2, <2>3, <2>15, AddPartitionAllocates
    <3> HIDE DEF added, may, new
    <3>8. Resized(m, added, e, new_size)
      <4>1. CASE added = deleted
        BY <4>1, <3>1, <3>6, <2>1, <2>8, <2>17 DEF Resized, c
      <4>2. CASE Allocates(deleted, added, new)
        <5>1. /\ Taken(added) = (Taken(m) \ {c}) \cup {new}
              /\ Cover(Described(added)) = Cover(Described(m))
              /\ Extent(new) \subseteq Cover(Described(m)) \ Cover(Taken(m) \ {c})
          BY <4>2, <3>1, <3>6, <2>8 DEF Allocates
        <5> QED BY <5>1, <2>1, <2>17 DEF Resized, c, new
      <4> QED BY <4>1, <4>2, <3>7
    <3> QED BY <3>8, <1>1, <1>3, <2>1
  <2> QED BY <2>16, <2>17
<1> QED BY <1>2, <1>3

(* A u32 kept in an int is the same u32 again.                              *)
LEMMA WrapSigned ==
  ASSUME NEW n \in 0 .. U32 - 1
  PROVE  Wrap(AsInt(n)) = n
<1>1. CASE n >= U32 \div 2
  <2>1. (n - U32) % U32 = n
    BY U32Assumption, SMTT(30)
  <2> QED BY <2>1, <1>1 DEF Wrap, AsInt
<1>2. CASE ~ (n >= U32 \div 2)
  BY <1>2, WrapSmall DEF AsInt
<1> QED BY <1>1, <1>2

(* A new map is free from block 1 on, and its own entry is added there.     *)
LEMMA CreatedSpace ==
  ASSUME NEW media \in 1 .. U32 - 1, NEW drivers \in SUBSET [block : Nat, size : Nat],
         Entry # {}
  PROVE  Described(CreatePartitionMap(media, drivers)) = {Dpme(FreeType, 1, media - 1)}
<1> DEFINE m == CreatePartitionMap(media, drivers)
           d == Dpme(FreeType, 1, media - 1)
<1>1. Linked(m) # {}
  BY CreatedIsMarked
<1>2. \A f \in Linked(m) : m.data[f] = d
  BY CreatedIsFree
<1> HIDE DEF m, d
<1>3. Described(m) = {d}
  BY <1>1, <1>2 DEF Described
<1> QED BY <1>3 DEF m, d

LEMMA FirstMapSpace ==
  ASSUME NEW media \in 1 .. U32 - 1, NEW drivers \in SUBSET [block : Nat, size : Nat],
         Small(media), NEW size \in 0 .. U32 - 1, 0 < size, size < media - 1,
         size < U32 \div 2,
         NEW mallocs \in Int, mallocs >= 4,
         IsFiniteSet(Entry), Cardinality(Entry) >= 2, U32 >= 5
  PROVE  LET m == CreatePartitionMap(media, drivers)
             r == AddPartitionToMap(m, MapType, 1, size, mallocs)
         IN  Allocates(m, r, Dpme(MapType, 1, size)) /\ r.maximum_in_map = size
<1> DEFINE m      == CreatePartitionMap(media, drivers)
           cur    == Container(m, 1, size)
           d      == Dpme(FreeType, 1, media - 1)
           act    == AddAction(m.data[cur], 1, size)
           new    == Dpme(MapType, 1, size)
           index  == m.disk_address[cur]
           rest   == Rest(d, 1, size)
           shrunk == [m EXCEPT !.data[cur] = rest]
           added  == AddDataToMap(shrunk, new, index)
           placed == PlaceNew(m, cur, new, mallocs)
           may    == /\ WithinFree(m, 1, size)
                     /\ MapIsBigEnough(m, act)
                     /\ mallocs >= 1
           s      == [RenumberDiskAddresses(placed) EXCEPT !.changed = TRUE]
           r      == AddPartitionToMap(m, MapType, 1, size, mallocs)
<1>1. r = IF may THEN s ELSE m
  BY DEF AddPartitionToMap
<1>2. Entry # {} /\ Cardinality(Entry) \in Nat
  <2>1. Cardinality({}) = 0
    BY FS_EmptySet
  <2>2. Entry # {}
    <3> SUFFICES ASSUME Entry = {} PROVE FALSE
      OBVIOUS
    <3> HIDE DEF m, cur, d, act, new, index, rest, shrunk, added, placed, may, s, r
    <3>1. Cardinality(Entry) = 0
      BY <2>1
    <3> QED BY <3>1
  <2> HIDE DEF m, cur, d, act, new, index, rest, shrunk, added, placed, may, s, r
  <2>3. Cardinality(Entry) \in Nat
    BY FS_CardinalityType
  <2> QED BY <2>2, <2>3
<1>3. media \in 2 .. U32 - 1 /\ media \in Nat /\ U32 \in Nat /\ size \in Nat
  BY U32Assumption
<1>4. /\ WellLinked(m)
      /\ m.blocks_in_map <= 1
      /\ m.maximum_in_map = -1
      /\ Linked(m) # {}
      /\ \A f \in Linked(m) : m.data[f] = d
      /\ m.media_size = media
  <2>1. WellLinked(m) /\ m.blocks_in_map <= 1 /\ m.maximum_in_map = -1
    BY CreatedIsSound, CreatedIsFree
  <2>2. \A f \in Linked(m) : m.data[f] = d
    BY CreatedIsFree
  <2>3. Linked(m) # {}
    BY <1>2, CreatedIsMarked
  <2>4. m.media_size = media
    <3> DEFINE x == EmptyMap(media, drivers)
               f == Dpme(FreeType, 1, Wrap(media - 1))
               a == AddDataToMap(x, f, 1)
    <3>1. x.media_size = media
      BY DEF EmptyMap
    <3>2. WellLinked(x)
      BY <1>3, EmptyMapIsWellLinked
    <3>3. f \in DpmeSet /\ 1 \in Int
      <4>1. Wrap(media - 1) \in 0 .. U32 - 1 /\ 1 \in 0 .. U32 - 1
        BY <1>3, WrapIsU32
      <4> QED BY <4>1, DpmeIsTyped, FreeIsType
    <3>4. m.media_size = a.media_size
      BY DEF CreatePartitionMap
    <3> HIDE DEF x, f, m
    <3>5. CASE Unused(x) = {}
      BY <3>1, <3>4, <3>5 DEF AddDataToMap
    <3>6. CASE Unused(x) # {}
      <4>1. a.media_size = x.media_size
        BY <3>2, <3>3, <3>6, AddDataToMapLinks
      <4> QED BY <3>1, <3>4, <4>1
    <3> QED BY <3>5, <3>6
  <2> HIDE DEF m, d
  <2> QED BY <2>1, <2>2, <2>3, <2>4
<1>5. InOrder(m)
  BY <1>3, CreatedIsTidy
<1> HIDE DEF m
<1>6. /\ d \in DpmeSet /\ d.start = 1 /\ d.length = media - 1 /\ d.type = FreeType
      /\ new \in DpmeSet /\ new.type = MapType /\ new.start = 1
      /\ new.length = size
      /\ 1 \in 0 .. U32 - 1
      /\ MapType \in PartitionType /\ MapType # FreeType
  <2>1. MapType \in PartitionType /\ 1 \in 0 .. U32 - 1 /\ media - 1 \in 0 .. U32 - 1
        /\ MapType # FreeType
    BY U32Assumption DEF PartitionType, MapType, FreeType
  <2> QED BY <2>1, DpmeIsTyped, FreeIsType
<1> HIDE DEF d, new
<1>7. Small(1) /\ Small(size)
  BY <1>3, U32Assumption DEF Small
<1>8. WithinFree(m, 1, size) /\ cur \in Linked(m) /\ Includes(m.data[cur], 1, size)
  <2>1. PICK f \in Linked(m) : m.data[f] = d
    BY <1>4
  <2>2. Includes(d, 1, size)
    <3>1. Small(d.start + d.length)
      BY <1>3, <1>6
    <3>2. End(d) = media
      BY <3>1, <1>3, <1>6, EndIsExact
    <3>3. 1 + size \in 0 .. U32 - 1
      BY <1>3
    <3>4. Wrap(1 + size) = 1 + size
      BY <3>3, WrapSmall
    <3> QED BY <3>2, <3>4, <1>3, <1>6 DEF Includes
  <2>3. PICK i \in DOMAIN m.base_order : m.base_order[i] = f
    <3>1. m.base_order \in Seq(Entry)
      BY <1>4, BaseListIsTyped
    <3> QED BY <3>1, <2>1, LenProperties DEF Linked, ToSet
  <2>4. Including(m, 1, size) # {}
    BY <2>1, <2>2, <2>3 DEF Including
  <2>5. cur \in Linked(m) /\ Includes(m.data[cur], 1, size)
    BY <1>4, <2>4, ContainerIsLinked
  <2> QED BY <1>4, <1>6, <2>4, <2>5 DEF WithinFree
<1>9. m.data[cur] = d /\ cur \in Entry
  BY <1>4, <1>8, LinkedData
<1> HIDE DEF cur
<1>10. act = kAdd
  BY <1>3, <1>6, <1>9 DEF AddAction
<1>11. MapIsBigEnough(m, act)
  <2>1. m.blocks_in_map \in Nat
    BY <1>4, CountIsNatural
  <2>2. m.blocks_in_map + 1 \in 0 .. U32 - 1 /\ media \in 0 .. U32 - 1
    BY <1>3, <1>4, <2>1
  <2>3. Limit(m) = AsInt(media)
    BY <1>4 DEF Limit
  <2>4. Wrap(m.blocks_in_map + 1) = m.blocks_in_map + 1 /\ Wrap(AsInt(media)) = media
    BY <2>2, WrapSmall, WrapSigned
  <2> QED BY <1>3, <1>4, <1>10, <2>1, <2>3, <2>4 DEF MapIsBigEnough, kAdd
<1>12. r = s
  BY <1>1, <1>8, <1>11
<1>13. Allocates(m, placed, new)
  <2>1. IsFree(m, cur)
    BY <1>6, <1>9 DEF IsFree
  <2>2. m.blocks_in_map + AddAction(m.data[cur], 1, size) <= Cardinality(Entry)
    BY <1>2, <1>4, <1>10, CountIsNatural DEF kAdd
  <2>3. size > 0
    BY <1>3
  <2> HIDE DEF placed, act
  <2> QED BY <2>1, <2>2, <2>3, <1>3, <1>4, <1>5, <1>6, <1>7, <1>8, PlaceNewAllocates
          DEF placed, new
<1>14. WellLinked(placed)
  BY <1>4, <1>6, <1>8, PlaceNewKeeps DEF Keeps, new
<1>15. kAdd # kReplace /\ kAdd # kSplit
  BY DEF kAdd, kReplace, kSplit
<1>16. placed = added
  <2>1. AddAction(m.data[cur], new.start, new.length) = kAdd
    BY <1>6, <1>10
  <2>2. Rest(m.data[cur], new.start, new.length) = rest
    BY <1>6, <1>9
  <2>3. ~ (mallocs < 2)
    OBVIOUS
  <2> HIDE DEF rest, act
  <2> QED BY <2>1, <2>2, <2>3, <1>15 DEF PlaceNew
<1>17. rest \in DpmeSet
  BY <1>3, <1>6, PartsAreTyped
<1>18. index \in Int
  BY <1>4, <1>9 DEF WellLinked, MapRecord
<1> HIDE DEF rest, index
<1>19. /\ WellLinked(shrunk)
       /\ shrunk.blocks_in_map = m.blocks_in_map
       /\ shrunk.maximum_in_map = m.maximum_in_map
  BY <1>4, <1>8, <1>17, SetDataKeepsLinks
<1> HIDE DEF shrunk
<1>20. Unused(shrunk) # {}
  BY <1>2, <1>4, <1>19, CountIsNatural, NodeIsLeft
<1>21. placed.maximum_in_map = size
  <2>1. added.maximum_in_map =
          IF shrunk.maximum_in_map < 0 /\ new.type = MapType
          THEN AsInt(new.length) ELSE shrunk.maximum_in_map
    BY <1>6, <1>18, <1>19, <1>20, AddDataToMapLinks
  <2>2. AsInt(size) = size
    BY <1>3, HalfIsSmaller DEF AsInt
  <2> HIDE DEF added, placed
  <2> QED BY <2>1, <2>2, <1>4, <1>6, <1>16, <1>19
<1> HIDE DEF placed
<1>22. Described(s) = Described(placed) /\ s.maximum_in_map = placed.maximum_in_map
  BY <1>14, RenumberDescribes, RenumberNumbers
<1> HIDE DEF s, r
<1>23. Allocates(m, r, new)
  BY <1>12, <1>13, <1>22 DEF Allocates, Taken
<1> QED BY <1>12, <1>21, <1>22, <1>23 DEF m, new, r

-----------------------------------------------------------------------------
(* How far an entry reaches, and how many entries are left, once it has     *)
(* absorbed its free neighbours.                                            *)
Reach(m, e) == m.data[e].start + m.data[e].length

LEMMA DeleteEntryCounts ==
  ASSUME NEW m, WellLinked(m), NEW e \in Linked(m)
  PROVE  DeleteEntry(m, e).blocks_in_map = m.blocks_in_map - 1
<1> DEFINE r == DeleteEntry(m, e)
<1>1. r.blocks_in_map = m.blocks_in_map - 1
  BY DeleteEntryUnlinks
<1> QED BY <1>1

LEMMA FollowsIsOne ==
  ASSUME NEW m, WellLinked(m), NEW e, NEW p, NEW q, Follows(m, p, e), Follows(m, q, e)
  PROVE  p = q
<1>1. Len(m.base_order) \in Nat
  BY LenProperties DEF WellLinked, MapRecord
<1>2. PICK i \in 1 .. Len(m.base_order) - 1 :
        m.base_order[i] = e /\ m.base_order[i + 1] = p
  BY DEF Follows
<1>3. PICK j \in 1 .. Len(m.base_order) - 1 :
        m.base_order[j] = e /\ m.base_order[j + 1] = q
  BY DEF Follows
<1>4. i \in 1 .. Len(m.base_order) /\ j \in 1 .. Len(m.base_order)
  BY <1>1
<1>5. i = j
  BY <1>2, <1>3, <1>4 DEF WellLinked, Distinct
<1> QED BY <1>2, <1>3, <1>5

LEMMA FollowsIsLinked ==
  ASSUME NEW m, WellLinked(m), NEW e, NEW p, Follows(m, p, e)
  PROVE  p \in Linked(m)
<1>1. Len(m.base_order) \in Nat /\ DOMAIN m.base_order = 1 .. Len(m.base_order)
  BY LenProperties DEF WellLinked, MapRecord
<1>2. PICK i \in 1 .. Len(m.base_order) - 1 :
        m.base_order[i] = e /\ m.base_order[i + 1] = p
  BY DEF Follows
<1>3. i + 1 \in DOMAIN m.base_order
  BY <1>1
<1> QED BY <1>2, <1>3 DEF Linked, ToSet

LEMMA MergeNextReaches ==
  ASSUME NEW m, WellLinked(m), InOrder(m), NEW e \in Linked(m)
  PROVE  LET r == MergeNext(m, e)
         IN  /\ r.data[e].start = m.data[e].start
             /\ Reach(m, e) <= Reach(r, e)
             /\ r.blocks_in_map <= m.blocks_in_map
             /\ \A p : Follows(m, p, e) /\ IsFree(m, p) /\ Contiguous(m, e, p)
                       => /\ Reach(r, e) = Reach(m, p)
                          /\ r.blocks_in_map = m.blocks_in_map - 1
<1> DEFINE others == {p \in ToSet(m.base_order) :
                        Follows(m, p, e) /\ IsFree(m, p) /\ Contiguous(m, e, p)}
           p == CHOOSE q \in others : TRUE
           c == m.data[e]
           d == m.data[p]
           new == Dpme(c.type, c.start, Wrap(c.length + d.length))
           n == [m EXCEPT !.data[e] = new]
           r == DeleteEntry(n, p)
<1>0. m.blocks_in_map \in Nat /\ c.start \in Nat /\ c.length \in Nat
  BY CountIsNatural, LinkedData, DpmeFields, U32Assumption
<1>1. CASE others = {}
  <2>1. MergeNext(m, e) = m
    BY <1>1 DEF MergeNext
  <2>2. ASSUME NEW q, Follows(m, q, e), IsFree(m, q), Contiguous(m, e, q) PROVE FALSE
    <3>1. q \in ToSet(m.base_order)
      BY <2>2, FollowsIsLinked DEF Linked
    <3> QED BY <3>1, <2>2, <1>1
  <2> QED BY <1>0, <2>1, <2>2 DEF Reach
<1>2. CASE others # {}
  <2>1. p \in others
    BY <1>2
  <2>2. /\ p \in Linked(m)
        /\ Follows(m, p, e)
        /\ End(c) = d.start
    BY <2>1 DEF Linked, Contiguous
  <2>3. MergeNext(m, e) = r
    <3>1. [m EXCEPT !.data[e] =
             Dpme(@.type, @.start, Wrap(@.length + m.data[p].length))]
          = [m EXCEPT !.data[e] = new]
      OBVIOUS
    <3> QED BY <1>2, <3>1 DEF MergeNext
  <2> HIDE DEF p
  <2>4. e # p
    BY <2>2, FollowsIsAnother
  <2>5. /\ c \in DpmeSet /\ d \in DpmeSet
        /\ c.type \in PartitionType
        /\ Small(c.start + c.length)
        /\ Small(d.start + d.length)
        /\ d.start \in Nat /\ d.length \in Nat
    BY <2>2, LinkedData, DpmeFields, U32Assumption DEF InOrder
  <2> HIDE DEF c, d
  <2>6. /\ new \in DpmeSet
        /\ new.start = c.start
        /\ new.length = c.length + d.length
        /\ new.start + new.length = d.start + d.length
    BY <2>2, <2>5, MergedExtent
  <2> HIDE DEF new
  <2>7. r.data[e] = new
    BY <2>2, <2>4, <2>6, MergeKeepsDisjoint
  <2>8. /\ WellLinked(n)
        /\ p \in Linked(n)
        /\ n.blocks_in_map = m.blocks_in_map
    BY <2>2, <2>6, SetDataKeepsLinks
  <2> HIDE DEF n
  <2>9. r.blocks_in_map = m.blocks_in_map - 1
    BY <2>8, DeleteEntryCounts
  <2> HIDE DEF r
  <2>10. Reach(r, e) = Reach(m, p) /\ Reach(m, e) <= Reach(r, e)
    BY <1>0, <2>5, <2>6, <2>7 DEF Reach, c, d
  <2>11. \A q : Follows(m, q, e) => q = p
    BY <2>2, FollowsIsOne
  <2>12. r.data[e].start = m.data[e].start
    BY <2>6, <2>7 DEF c
  <2> QED BY <1>0, <2>3, <2>9, <2>10, <2>11, <2>12
<1> QED BY <1>1, <1>2

LEMMA MergePrevReaches ==
  ASSUME NEW m, WellLinked(m), InOrder(m), NEW e \in Linked(m)
  PROVE  LET r == MergePrev(m, e)
         IN  \/ r = m
             \/ /\ r.data[e].start <= m.data[e].start
                /\ Reach(r, e) = Reach(m, e)
                /\ r.blocks_in_map = m.blocks_in_map - 1
<1> DEFINE others == {p \in ToSet(m.base_order) :
                        Follows(m, e, p) /\ IsFree(m, p) /\ Contiguous(m, p, e)}
           p == CHOOSE q \in others : TRUE
           c == m.data[e]
           d == m.data[p]
           new == Dpme(c.type, d.start, Wrap(c.length + d.length))
           n == [m EXCEPT !.data[e] = new]
           r == DeleteEntry(n, p)
<1>1. CASE others = {}
  BY <1>1 DEF MergePrev
<1>2. CASE others # {}
  <2>1. p \in others
    BY <1>2
  <2>2. /\ p \in Linked(m)
        /\ Follows(m, e, p)
        /\ End(d) = c.start
    BY <2>1 DEF Linked, Contiguous
  <2>3. MergePrev(m, e) = r
    <3>1. [m EXCEPT !.data[e] =
             Dpme(@.type, m.data[p].start, Wrap(@.length + m.data[p].length))]
          = [m EXCEPT !.data[e] = new]
      OBVIOUS
    <3> QED BY <1>2, <3>1 DEF MergePrev
  <2> HIDE DEF p
  <2>4. e # p
    BY <2>2, FollowsIsAnother
  <2>5. /\ c \in DpmeSet /\ d \in DpmeSet
        /\ c.type \in PartitionType
        /\ Small(c.start + c.length)
        /\ Small(d.start + d.length)
        /\ d.start \in Nat /\ d.length \in Nat
        /\ c.start \in Nat /\ c.length \in Nat
    BY <2>2, LinkedData, DpmeFields, U32Assumption DEF InOrder
  <2> HIDE DEF c, d
  <2>6. /\ new \in DpmeSet
        /\ new.start = d.start
        /\ new.start + new.length = c.start + c.length
        /\ d.start <= c.start
    <3>1. Wrap(c.length + d.length) = Wrap(d.length + c.length)
      BY <2>5
    <3>2. End(d) = d.start + d.length
      BY <2>5, EndIsExact
    <3>3. new = Dpme(c.type, d.start, Wrap(d.length + c.length))
      BY <3>1
    <3> HIDE DEF new
    <3> QED BY <3>2, <3>3, <2>2, <2>5, MergedExtent
  <2> HIDE DEF new
  <2>7. r.data[e] = new
    BY <2>2, <2>4, <2>6, MergeKeepsDisjoint
  <2>8. /\ WellLinked(n)
        /\ p \in Linked(n)
        /\ n.blocks_in_map = m.blocks_in_map
    BY <2>2, <2>6, SetDataKeepsLinks
  <2> HIDE DEF n
  <2>9. r.blocks_in_map = m.blocks_in_map - 1
    BY <2>8, DeleteEntryCounts
  <2> HIDE DEF r
  <2>10. Reach(r, e) = Reach(m, e) /\ r.data[e].start <= m.data[e].start
    BY <2>6, <2>7 DEF Reach, c
  <2> QED BY <2>3, <2>9, <2>10
<1> QED BY <1>1, <1>2

(* A deleted entry reaches at least as far as before, and there are fewer   *)
(* entries for every neighbour it absorbed.                                 *)
LEMMA DeletePartitionReaches ==
  ASSUME NEW m, WellLinked(m), InOrder(m), NEW e \in Linked(m), NEW mallocs \in Int,
         m.data[e].type # MapType, ~ ContainsDriver(m, e), mallocs >= 1
  PROVE  LET r == DeletePartitionFromMap(m, e, mallocs)
         IN  /\ e \in Linked(r) /\ IsFree(r, e)
             /\ r.data[e].start <= m.data[e].start
             /\ Reach(m, e) <= Reach(r, e)
             /\ r.blocks_in_map <= m.blocks_in_map
             /\ r.data[e].start # m.data[e].start => r.blocks_in_map <= m.blocks_in_map - 1
             /\ \A p : Follows(m, p, e) /\ IsFree(m, p) /\ Contiguous(m, e, p)
                       => /\ Reach(r, e) = Reach(m, p)
                          /\ r.blocks_in_map <= m.blocks_in_map - 1
                          /\ r.data[e].start # m.data[e].start
                             => r.blocks_in_map <= m.blocks_in_map - 2
<1> DEFINE c == m.data[e]
           free == Dpme(FreeType, c.start, c.length)
           freed == [m EXCEPT !.data[e] = free]
           n == MergeNext(freed, e)
           p == MergePrev(n, e)
           s == [RenumberDiskAddresses(p) EXCEPT !.changed = TRUE]
<1>1. c \in DpmeSet /\ c.start \in Nat /\ c.length \in Nat /\ e \in Entry
  BY LinkedData, DpmeFields, U32Assumption
<1>2. free \in DpmeSet /\ free.type = FreeType /\ free.start = c.start /\ free.length = c.length
  <2>1. c.start \in 0 .. U32 - 1 /\ c.length \in 0 .. U32 - 1
    BY <1>1, DpmeFields
  <2> HIDE DEF c
  <2> QED BY <2>1, DpmeIsTyped, FreeIsType
<1>3. [m EXCEPT !.data[e] = Dpme(FreeType, @.start, @.length)] = freed
  OBVIOUS
<1>4. InOrder(freed) /\ IsFree(freed, e)
  BY <1>3, RetypeTidied, FreeIsType
<1> HIDE DEF free
<1>5. /\ WellLinked(freed)
      /\ Linked(freed) = Linked(m)
      /\ freed.base_order = m.base_order
      /\ freed.blocks_in_map = m.blocks_in_map
      /\ freed.data = [m.data EXCEPT ![e] = free]
  BY <1>2, SetDataKeepsLinks
<1>6. \A q \in Entry : freed.data[q] = IF q = e THEN free ELSE m.data[q]
  BY <1>1, <1>5 DEF WellLinked, MapRecord
<1>7. DeletePartitionFromMap(m, e, mallocs) = s
  <2>1. CombineEntry(freed, e) = p
    BY <1>4 DEF CombineEntry
  <2>2. ~ (m.data[e].type = MapType \/ ContainsDriver(m, e) \/ mallocs < 1)
    OBVIOUS
  <2> HIDE DEF p, freed
  <2> QED BY <1>3, <2>1, <2>2 DEF DeletePartitionFromMap
<1> HIDE DEF freed
<1>8. WellLinked(n) /\ e \in Linked(n)
  BY <1>5, MergeNextKeeps DEF Keeps
<1>9. InOrder(n) /\ IsFree(n, e)
  BY <1>4, <1>5, MergeNextTidied, MergeNextSpace
<1>10. /\ n.data[e].start = c.start
       /\ Reach(freed, e) <= Reach(n, e)
       /\ n.blocks_in_map <= m.blocks_in_map
       /\ \A q : Follows(freed, q, e) /\ IsFree(freed, q) /\ Contiguous(freed, e, q)
                 => /\ Reach(n, e) = Reach(freed, q)
                    /\ n.blocks_in_map = m.blocks_in_map - 1
  <2>1. n.data[e].start = freed.data[e].start
    BY <1>4, <1>5, MergeNextReaches
  <2> QED BY <1>1, <1>2, <1>4, <1>5, <1>6, <2>1, MergeNextReaches
<1> HIDE DEF n
<1>11. WellLinked(p) /\ e \in Linked(p)
  BY <1>8, MergePrevKeeps DEF Keeps
<1>12. IsFree(p, e)
  BY <1>8, <1>9, MergePrevSpace
<1>13. \/ p = n
       \/ /\ p.data[e].start <= n.data[e].start
          /\ Reach(p, e) = Reach(n, e)
          /\ p.blocks_in_map = n.blocks_in_map - 1
  BY <1>8, <1>9, MergePrevReaches
<1> HIDE DEF p
<1>14. Linked(s) = Linked(p) /\ s.data = p.data /\ s.blocks_in_map = p.blocks_in_map
  BY <1>11, RenumberNumbers
<1> HIDE DEF s
<1>15. /\ m.blocks_in_map \in Int /\ n.blocks_in_map \in Int
       /\ n.data[e].start \in Nat /\ p.data[e].start \in Nat
       /\ Reach(n, e) \in Nat /\ Reach(m, e) \in Nat
  BY <1>8, <1>11, CountIsNatural, LinkedData, DpmeFields, U32Assumption DEF Reach
<1>16. Reach(freed, e) = Reach(m, e)
  BY <1>1, <1>2, <1>6 DEF Reach
<1>17. ASSUME NEW q, Follows(m, q, e), IsFree(m, q), Contiguous(m, e, q)
       PROVE  Reach(n, e) = Reach(m, q) /\ n.blocks_in_map = m.blocks_in_map - 1
  <2>1. q # e /\ q \in Entry
    BY <1>17, FollowsIsAnother, FollowsIsLinked, LinkedData
  <2>2. freed.data[q] = m.data[q] /\ freed.data[e] = free
    BY <1>1, <1>6, <2>1
  <2>3. End(free) = End(c)
    BY <1>2 DEF End
  <2>4. Follows(freed, q, e) /\ IsFree(freed, q) /\ Contiguous(freed, e, q)
    BY <1>5, <1>17, <2>2, <2>3 DEF Follows, IsFree, Contiguous
  <2>5. Reach(freed, q) = Reach(m, q)
    BY <2>2 DEF Reach
  <2> QED BY <1>10, <2>4, <2>5
<1>18. /\ e \in Linked(s) /\ IsFree(s, e)
       /\ s.data[e].start <= c.start
       /\ Reach(s, e) = Reach(n, e)
       /\ s.blocks_in_map <= n.blocks_in_map
       /\ s.data[e].start # c.start => s.blocks_in_map <= n.blocks_in_map - 1
  <2>1. Reach(s, e) = Reach(p, e)
    BY <1>14 DEF Reach
  <2> QED BY <1>10, <1>11, <1>12, <1>13, <1>14, <1>15, <2>1 DEF IsFree
<1>19. s.blocks_in_map \in Int
  BY <1>11, <1>14, CountIsNatural
<1>20. /\ Reach(m, e) <= Reach(s, e)
       /\ s.blocks_in_map <= m.blocks_in_map
       /\ s.data[e].start # c.start => s.blocks_in_map <= m.blocks_in_map - 1
  BY <1>10, <1>15, <1>16, <1>18, <1>19
<1>21. ASSUME NEW q, Follows(m, q, e), IsFree(m, q), Contiguous(m, e, q)
       PROVE  /\ Reach(s, e) = Reach(m, q)
              /\ s.blocks_in_map <= m.blocks_in_map - 1
              /\ s.data[e].start # c.start => s.blocks_in_map <= m.blocks_in_map - 2
  BY <1>15, <1>17, <1>18, <1>19, <1>21
<1> QED BY <1>7, <1>18, <1>20, <1>21

(* A deleted entry that reaches beyond a request at block 1 is where        *)
(* add_partition_to_map puts it, if the limit of the map admits two more    *)
(* entries, or one when the entry begins at block 1.                        *)
LEMMA FirstBlocksAreFree ==
  ASSUME NEW m, WellLinked(m), InOrder(m), NEW e \in Linked(m), IsFree(m, e),
         m.data[e].start <= 1,
         NEW size \in 0 .. U32 - 1, Small(1), Small(size), size > 0,
         1 + size <= Reach(m, e),
         0 <= m.maximum_in_map, m.maximum_in_map < U32,
         m.blocks_in_map + 1 <= m.maximum_in_map,
         m.data[e].start # 1 => m.blocks_in_map + 2 <= m.maximum_in_map
  PROVE  /\ WithinFree(m, 1, size)
         /\ MapIsBigEnough(m, AddAction(m.data[Container(m, 1, size)], 1, size))
<1> DEFINE cur == Container(m, 1, size)
           d == m.data[e]
           act == AddAction(d, 1, size)
<1>1. /\ d \in DpmeSet /\ d.start \in Nat /\ d.length \in Nat
      /\ Small(d.start + d.length) /\ size \in Nat /\ U32 \in Nat
  BY LinkedData, DpmeFields, U32Assumption DEF InOrder
<1>2. End(d) = d.start + d.length
  BY <1>1, EndIsExact
<1>3. Wrap(1 + size) = 1 + size
  <2>1. 1 + size \in 0 .. U32 - 1
    BY <1>1 DEF Small
  <2> QED BY <2>1, WrapSmall
<1>4. Includes(d, 1, size)
  BY <1>2, <1>3 DEF Includes, Reach
<1>5. PICK i \in DOMAIN m.base_order : m.base_order[i] = e
  <2>1. m.base_order \in Seq(Entry)
    BY BaseListIsTyped
  <2> QED BY <2>1, LenProperties DEF Linked, ToSet
<1>6. Including(m, 1, size) # {}
  BY <1>4, <1>5 DEF Including
<1>7. cur \in Linked(m) /\ Includes(m.data[cur], 1, size)
  BY <1>6, ContainerIsLinked
<1> HIDE DEF cur
<1>8. cur = e
  <2> SUFFICES ASSUME cur # e PROVE FALSE
    OBVIOUS
  <2> DEFINE c == m.data[cur]
  <2>1. Apart(c, d) /\ c.length > 0 /\ d.length > 0
    BY <1>7, OrderedIsDisjoint DEF Disjoint, InOrder
  <2>2. c \in DpmeSet /\ c.start \in Nat /\ c.length \in Nat /\ Small(c.start + c.length)
    BY <1>7, LinkedData, DpmeFields, U32Assumption DEF InOrder
  <2>3. End(c) = c.start + c.length
    BY <2>2, EndIsExact
  <2>4. c.start <= 1 /\ 1 + size <= c.start + c.length
    BY <1>3, <1>7, <2>3 DEF Includes
  <2>5. d.start <= 1 /\ 1 + size <= d.start + d.length
    BY DEF Reach
  <2> HIDE DEF c, d
  <2> QED BY <1>1, <2>1, <2>2, <2>4, <2>5 DEF Apart
<1>9. WithinFree(m, 1, size)
  BY <1>6, <1>8 DEF WithinFree, IsFree, cur
<1>10. act \in 0 .. 2 /\ (d.start = 1 => act <= 1)
  <2> HIDE DEF d
  <2> QED BY DEF AddAction, kReplace, kAdd, kSplit
<1>11. m.blocks_in_map + act <= m.maximum_in_map
  <2>1. m.blocks_in_map \in Nat /\ m.maximum_in_map \in Int
    BY CountIsNatural
  <2> HIDE DEF act
  <2>2. CASE d.start = 1
    BY <1>10, <2>1, <2>2
  <2>3. CASE d.start # 1
    <3>1. m.blocks_in_map + 2 <= m.maximum_in_map
      BY <2>3
    <3> QED BY <1>10, <2>1, <3>1
  <2> QED BY <2>2, <2>3
<1>12. MapIsBigEnough(m, act)
  <2>1. m.blocks_in_map \in Nat /\ m.maximum_in_map \in Int
    BY CountIsNatural
  <2>2. Limit(m) = m.maximum_in_map
    BY <2>1 DEF Limit
  <2> HIDE DEF act
  <2>3. m.blocks_in_map + act \in 0 .. U32 - 1 /\ m.maximum_in_map \in 0 .. U32 - 1
    BY <1>1, <1>10, <1>11, <2>1
  <2>4. /\ Wrap(m.blocks_in_map + act) = m.blocks_in_map + act
        /\ Wrap(m.maximum_in_map) = m.maximum_in_map
    BY <2>3, WrapSmall
  <2> QED BY <1>11, <2>2, <2>4 DEF MapIsBigEnough
<1> QED BY <1>8, <1>9, <1>12 DEF cur

(* change_size_of_partition_map finds room for the new entry of the map     *)
(* when the limit of the map still is the length of the old one and no      *)
(* driver lies in it.                                                       *)
LEMMA ResizedMapStays ==
  ASSUME NEW m, WellLinked(m), InOrder(m), Houses(m), U32 >= 5, Small(1),
         NEW new_size \in 0 .. U32 - 1, Small(new_size),
         NEW mallocs \in Int, mallocs >= 5,
         MapSlots(m) # {}, MayShrink(m, new_size) \/ MayGrow(m, new_size),
         m.data[MapEntry(m)].start = 1,
         m.maximum_in_map = m.data[MapEntry(m)].length,
         ~ ContainsDriver(m, MapEntry(m))
  PROVE  Dpme(MapType, 1, new_size) \in Taken(ResizeMap(m, new_size, mallocs))
<1> DEFINE e == MapEntry(m)
           c == m.data[e]
           blank == Dpme(BlankType, c.start, c.length)
           blanked == [m EXCEPT !.data[e] = Dpme(BlankType, @.start, @.length)]
           deleted == DeletePartitionFromMap(blanked, e, mallocs)
           new == Dpme(MapType, 1, new_size)
           added == AddPartitionToMap(deleted, MapType, 1, new_size, mallocs - 1)
<1>1. ResizeMap(m, new_size, mallocs) = added
  BY DEF ResizeMap
<1>2. e \in Linked(m) /\ c.type = MapType /\ e \in Entry
  BY MapEntryIsLinked, LinkedData
<1>3. /\ BlankType \in PartitionType
      /\ MapType \in PartitionType
      /\ BlankType # FreeType
      /\ MapType # FreeType
      /\ BlankType # MapType
  BY DEF PartitionType, BlankType, MapType, FreeType
<1>4. new_size > 0
  BY NewSizeIsPositive
<1>5. /\ c \in DpmeSet
      /\ c.start \in 0 .. U32 - 1 /\ c.length \in 0 .. U32 - 1
      /\ c.length \in Nat /\ c.start = 1
  BY <1>2, LinkedData, DpmeFields, U32Assumption
<1>6. /\ blank \in DpmeSet
      /\ blank.type = BlankType
      /\ blank.start = c.start
      /\ blank.length = c.length
  BY <1>3, <1>5, DpmeIsTyped
<1>7. blanked = [m EXCEPT !.data[e] = blank]
  OBVIOUS
<1>8. InOrder(blanked)
  BY <1>2, <1>3, RetypeTidied
<1>9. /\ MayShrink(m, new_size) =>
           new_size < c.length /\ m.blocks_in_map <= AsInt(new_size)
      /\ MayGrow(m, new_size) =>
           \E p \in FreeAfter(m, e) :
              Contiguous(m, e, p) /\ new_size <= Wrap(c.length + m.data[p].length)
  <2>1. AsInt(new_size) \in Int /\ m.blocks_in_map \in Int
    BY CountIsNatural, U32Assumption DEF AsInt
  <2>2. MayShrink(m, new_size) => m.blocks_in_map <= AsInt(new_size)
    BY <2>1 DEF MayShrink
  <2> QED BY <2>2 DEF MayShrink, MayGrow
<1>10. m.maximum_in_map = c.length /\ ~ ContainsDriver(m, e)
  OBVIOUS
<1> HIDE DEF e, c, blank, blanked
<1>11. /\ WellLinked(blanked)
       /\ Linked(blanked) = Linked(m)
       /\ blanked.data = [m.data EXCEPT ![e] = blank]
       /\ blanked.drivers = m.drivers
       /\ blanked.base_order = m.base_order
       /\ blanked.blocks_in_map = m.blocks_in_map
       /\ blanked.maximum_in_map = m.maximum_in_map
  BY <1>2, <1>6, <1>7, SetDataKeepsLinks
<1>12. \A f \in Entry : blanked.data[f] = IF f = e THEN blank ELSE m.data[f]
  BY <1>2, <1>11 DEF WellLinked, MapRecord
<1>13. ~ ContainsDriver(blanked, e) /\ blanked.data[e].type # MapType
  BY <1>2, <1>3, <1>6, <1>10, <1>11, <1>12 DEF ContainsDriver, End, c
<1>14. mallocs >= 1 /\ mallocs - 1 \in Int /\ mallocs - 1 >= 4 /\ mallocs - 1 >= 1
       /\ 1 \in 0 .. U32 - 1
  BY U32Assumption
<1>15. /\ e \in Linked(deleted) /\ IsFree(deleted, e)
       /\ deleted.data[e].start <= blanked.data[e].start
       /\ Reach(blanked, e) <= Reach(deleted, e)
       /\ deleted.blocks_in_map <= blanked.blocks_in_map
       /\ deleted.data[e].start # blanked.data[e].start
          => deleted.blocks_in_map <= blanked.blocks_in_map - 1
       /\ \A p : Follows(blanked, p, e) /\ IsFree(blanked, p) /\ Contiguous(blanked, e, p)
                 => /\ Reach(deleted, e) = Reach(blanked, p)
                    /\ deleted.blocks_in_map <= blanked.blocks_in_map - 1
                    /\ deleted.data[e].start # blanked.data[e].start
                       => deleted.blocks_in_map <= blanked.blocks_in_map - 2
  BY <1>2, <1>8, <1>11, <1>13, <1>14, DeletePartitionReaches
<1>16. WellLinked(deleted)
  BY <1>2, <1>11, DeletePartitionKeeps DEF Edited, Keeps
<1>17. InOrder(deleted)
  BY <1>2, <1>8, <1>11, DeletePartitionTidied DEF Tidied
<1>18. Grows(blanked, deleted, 0, FreeType)
  BY <1>2, <1>11, DeletePartitionGrows
<1> HIDE DEF deleted
<1>19. Roomy(blanked)
  <2>1. Grows(m, blanked, 0, FreeType)
    BY <1>2, <1>3, <1>6, <1>7, SetDataGrows
  <2> QED BY <2>1, <1>11, ShrunkIsRoomy DEF Houses
<1>20. Houses(deleted)
  BY <1>11, <1>16, <1>18, <1>19, ShrunkIsRoomy DEF Houses, Grows
<1>21. /\ m.blocks_in_map \in Nat /\ deleted.blocks_in_map \in Nat
       /\ m.blocks_in_map <= c.length
       /\ deleted.maximum_in_map = c.length
       /\ deleted.data[e].start \in Nat
       /\ deleted.data[e].start <= 1
       /\ blanked.data[e].start = 1
       /\ Reach(blanked, e) = 1 + c.length
  BY <1>2, <1>5, <1>6, <1>10, <1>11, <1>12, <1>15, <1>16, <1>18, CountIsNatural,
     LinkedData, DpmeFields, U32Assumption DEF Houses, Roomy, Grows, Reach
<1>22. /\ 1 + new_size <= Reach(deleted, e)
       /\ deleted.blocks_in_map + 1 <= c.length
       /\ deleted.data[e].start # 1 => deleted.blocks_in_map + 2 <= c.length
  <2>1. CASE MayShrink(m, new_size)
    <3>1. AsInt(new_size) <= new_size /\ AsInt(new_size) \in Int
      BY U32Assumption DEF AsInt
    <3>2. m.blocks_in_map + 1 <= c.length /\ 1 + new_size <= Reach(blanked, e)
      BY <1>5, <1>9, <1>21, <2>1, <3>1
    <3>3. Reach(deleted, e) \in Nat
      BY <1>15, <1>16, LinkedData, DpmeFields, U32Assumption DEF Reach
    <3> QED BY <1>5, <1>11, <1>15, <1>21, <3>2, <3>3
  <2>2. CASE MayGrow(m, new_size)
    <3>1. PICK p \in FreeAfter(m, e) :
            Contiguous(m, e, p) /\ new_size <= Wrap(c.length + m.data[p].length)
      BY <1>9, <2>2
    <3> DEFINE d == m.data[p]
    <3>2. Follows(m, p, e) /\ IsFree(m, p) /\ p \in Linked(m) /\ p # e /\ p \in Entry
      BY <3>1, FollowsIsLinked, FollowsIsAnother, LinkedData DEF FreeAfter
    <3>3. /\ d \in DpmeSet /\ Small(d.start + d.length) /\ Small(c.start + c.length)
          /\ End(c) = d.start /\ d.length \in Nat
      BY <1>2, <3>1, <3>2, LinkedData, DpmeFields, U32Assumption
         DEF InOrder, Contiguous, c
    <3>4. blanked.data[p] = d /\ blanked.data[e] = blank /\ End(blank) = End(c)
      BY <1>2, <1>6, <1>12, <3>2 DEF End
    <3>5. Follows(blanked, p, e) /\ IsFree(blanked, p) /\ Contiguous(blanked, e, p)
      BY <1>11, <3>2, <3>3, <3>4 DEF Follows, IsFree, Contiguous
    <3> HIDE DEF d
    <3>6. /\ Reach(deleted, e) = d.start + d.length
          /\ deleted.blocks_in_map <= m.blocks_in_map - 1
          /\ deleted.data[e].start # 1 => deleted.blocks_in_map <= m.blocks_in_map - 2
      <4>1. Reach(blanked, p) = d.start + d.length
        BY <3>4 DEF Reach
      <4> QED BY <1>11, <1>15, <1>21, <3>5, <4>1
    <3>7. d.start = 1 + c.length /\ Wrap(c.length + d.length) = c.length + d.length
      <4>1. End(c) = c.start + c.length
        BY <1>5, <3>3, EndIsExact
      <4>2. d.start = 1 + c.length
        BY <1>5, <3>3, <4>1
      <4>3. c.length + d.length \in 0 .. U32 - 1
        BY <1>5, <3>3, <4>2, U32Assumption DEF Small
      <4> QED BY <4>2, <4>3, WrapSmall
    <3>8. new_size <= c.length + d.length
      BY <3>1, <3>7 DEF d
    <3> QED BY <1>5, <1>21, <3>3, <3>6, <3>7, <3>8
  <2> QED BY <2>1, <2>2
<1>23. /\ WithinFree(deleted, 1, new_size)
       /\ MapIsBigEnough(deleted, AddAction(deleted.data[Container(deleted, 1, new_size)],
                                            1, new_size))
  <2>1. 0 <= c.length /\ c.length < U32
    BY <1>5, U32Assumption
  <2> QED BY <1>4, <1>15, <1>16, <1>17, <1>21, <1>22, <2>1, FirstBlocksAreFree
<1>24. Allocates(deleted, added, new)
  BY <1>3, <1>4, <1>14, <1>16, <1>17, <1>20, <1>23, AddPartitionAllocates
<1> HIDE DEF added
<1> QED BY <1>1, <1>24 DEF Allocates
=============================================================================
