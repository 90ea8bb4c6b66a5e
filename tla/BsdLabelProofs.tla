--------------------------- MODULE BsdLabelProofs ---------------------------
(***************************************************************************)
(* Theorems about BsdLabel, for every number of letters, geometry, slice,   *)
(* table of DOS partitions and label on the disk.                           *)
(***************************************************************************)
EXTENDS BsdLabel, WellFoundedInduction, TLAPS

(* A set of naturals below a bound has a greatest element, which Max        *)
(* returns.                                                                 *)
LEMMA GreatestExists ==
  ASSUME NEW n \in Nat, NEW S \in SUBSET (0 .. n), S # {}
  PROVE  /\ Max(S) \in S
         /\ \A y \in S : y <= Max(S)
<1> DEFINE R == {ss \in Nat \X Nat : ss[1] < ss[2]}
           T == {n - x : x \in S}
<1>1. IsWellFoundedOn(R, Nat)
  BY NatLessThanWellFounded DEF OpToRel
<1>2. T \in SUBSET Nat /\ T # {}
  <2>1. \A x \in S : n - x \in Nat
    OBVIOUS
  <2> QED BY <2>1
<1>3. PICK z \in T : \A y \in T : ~ (<<y, z>> \in R)
  <2> HIDE DEF R, T
  <2> QED BY <1>1, <1>2, WFMin
<1>4. PICK x \in S : z = n - x
  BY <1>3
<1>5. ASSUME NEW y \in S PROVE x >= y
  <2>1. n - y \in T /\ n - y \in Nat /\ z \in Nat
    OBVIOUS
  <2>2. ~ (n - y < z)
    BY <1>3, <2>1
  <2> QED BY <2>1, <2>2, <1>4
<1>6. \A y \in S : Max(S) >= y /\ Max(S) \in S
  BY <1>5 DEF Max
<1> QED BY <1>6

-----------------------------------------------------------------------------
(* The routines keep a label a label.                                       *)

LEMMA Constants ==
  /\ MaxPartitions \in Nat /\ MaxPartitions > 3
  /\ U32 \in Nat \ {0} /\ CylinderSize \in Nat \ {0} /\ Cylinders \in Nat
  /\ CylinderSize * Cylinders \in 0 .. U32 - 1
  /\ Slice.start_sect \in 1 .. U32 - 1
  /\ Slice.nr_sects \in 0 .. U32 - 1
  /\ Slice.start_sect + Slice.nr_sects <= U32
<1>1. Slice \in [start_sect : 0 .. U32 - 1, nr_sects : 0 .. U32 - 1, sys_ind : Nat]
  BY LabelAssumption DEF Slice
<1>2. U32 \in Nat \ {0} /\ CylinderSize \in Nat \ {0} /\ Cylinders \in Nat
  BY LabelAssumption
<1>3. CylinderSize * Cylinders \in 0 .. U32 - 1
  BY <1>2, LabelAssumption
<1> QED BY <1>1, <1>2, <1>3, LabelAssumption

LEMMA NoEntryIsEntry == NoEntry \in Entry /\ NoEntry.size = 0
BY Constants DEF NoEntry, Entry, Unused

LEMMA FixedLabels == Zeros \in Label /\ InitLabel \in Label
<1>1. Zeros \in Label
  BY Constants, NoEntryIsEntry DEF Zeros, Label
<1>2. \A i \in Letters : InitLabel.partitions[i] \in Entry
  BY Constants, NoEntryIsEntry DEF InitLabel, Entry, Unused, Letters
<1>3. InitLabel.partitions \in [Letters -> Entry]
  BY <1>2 DEF InitLabel
<1> QED BY <1>1, <1>3, Constants DEF InitLabel, Label

LEMMA ReadIsLabel ==
  ASSUME NEW l \in Label
  PROVE  /\ Read(l) \in Label
         /\ Read(l).npartitions = l.npartitions
         /\ \A i \in Letters : i >= l.npartitions => Read(l).partitions[i].size = 0
<1> DEFINE p == [i \in Letters |-> IF i < l.npartitions THEN l.partitions[i] ELSE NoEntry]
<1>1. p \in [Letters -> Entry]
  BY NoEntryIsEntry DEF Label
<1>2. Read(l) = [l EXCEPT !.partitions = p]
  BY DEF Read, Label
<1>3. l.npartitions \in Int /\ \A i \in Letters : i \in Int
  BY DEF Label, Letters
<1>4. \A i \in Letters : i >= l.npartitions => p[i] = NoEntry
  BY <1>3
<1> HIDE DEF p
<1> QED BY <1>1, <1>2, <1>4, NoEntryIsEntry DEF Label

(* Raising the count, clearing an entry and letting the count fall.         *)
LEMMA CountedIsMax ==
  ASSUME label \in Label, NEW i \in Letters
  PROVE  /\ Counted(i) \in Label
         /\ Counted(i).partitions = label.partitions
         /\ Counted(i).npartitions >= label.npartitions
         /\ Counted(i).npartitions >= i + 1
<1> DEFINE S == {label.npartitions, i + 1}
<1>1. S \in SUBSET (0 .. MaxPartitions) /\ S # {}
  BY Constants DEF Label, Letters
<1>2. Max(S) \in S /\ \A y \in S : y <= Max(S)
  <2> HIDE DEF S
  <2> QED BY <1>1, Constants, GreatestExists
<1>3. /\ Max(S) \in 0 .. MaxPartitions
      /\ Max(S) >= label.npartitions
      /\ Max(S) >= i + 1
  BY <1>1, <1>2, Constants DEF Label, Letters
<1>4. Counted(i) = [label EXCEPT !.npartitions = Max(S)]
  BY DEF Counted
<1> HIDE DEF S
<1> QED BY <1>3, <1>4 DEF Label

LEMMA SetEntry ==
  ASSUME NEW l \in Label, NEW i \in Letters, NEW e \in Entry
  PROVE  LET r == [l EXCEPT !.partitions[i] = e]
         IN  /\ r \in Label
             /\ r.npartitions = l.npartitions
             /\ r.partitions[i] = e
             /\ \A j \in Letters \ {i} : r.partitions[j] = l.partitions[j]
BY DEF Label

Covered(l) == \A i \in Letters : i >= l.npartitions => l.partitions[i].size = 0

LEMMA TrimmedIsCovered ==
  ASSUME NEW l \in Label, NEW i \in Letters
  PROVE  /\ Trimmed(l, i) \in Label
         /\ Covered(l) => Covered(Trimmed(l, i))
<1>1. CASE l.npartitions # i + 1
  BY <1>1 DEF Trimmed
<1>2. CASE l.npartitions = i + 1
  <2> DEFINE used == {k \in 0 .. i : l.partitions[k].size # 0}
             S == {0} \cup {j + 1 : j \in used}
             r == [l EXCEPT !.npartitions = Max(S)]
  <2>1. i \in Nat /\ i + 1 \in 0 .. MaxPartitions
    BY Constants DEF Letters
  <2>2. S \in SUBSET (0 .. MaxPartitions) /\ S # {}
    <3>1. 0 \in 0 .. MaxPartitions
      BY Constants
    <3>2. \A j \in used : j + 1 \in 0 .. MaxPartitions
      BY <2>1, Constants
    <3> HIDE DEF used
    <3> QED BY <3>1, <3>2
  <2>3. Max(S) \in S /\ \A y \in S : y <= Max(S)
    <3> HIDE DEF S
    <3> QED BY <2>2, Constants, GreatestExists
  <2>4. Trimmed(l, i) = r
    BY <1>2 DEF Trimmed
  <2>5. Max(S) \in 0 .. MaxPartitions
    BY <2>2, <2>3
  <2>6. ASSUME Covered(l), NEW k \in Letters, k >= Max(S)
        PROVE  l.partitions[k].size = 0
    <3>1. CASE k > i
      <4>1. k >= l.npartitions
        BY <3>1, <1>2, <2>1 DEF Letters
      <4> QED BY <4>1, <2>6 DEF Covered
    <3>2. CASE k \in 0 .. i
      <4>1. k \in used => k + 1 <= Max(S)
        BY <2>3
      <4>2. ~ (k + 1 <= Max(S))
        <5>1. Max(S) \in Int /\ k \in Int
          BY <2>5, <3>2
        <5> HIDE DEF S
        <5> QED BY <5>1, <2>6
      <4> QED BY <4>1, <4>2, <3>2
    <3> QED BY <3>1, <3>2, <2>1, Constants DEF Letters
  <2> HIDE DEF S
  <2>7. r \in Label /\ r.partitions = l.partitions /\ r.npartitions = Max(S)
    BY <2>5 DEF Label
  <2> QED BY <2>4, <2>6, <2>7 DEF Covered
<1> QED BY <1>1, <1>2

-----------------------------------------------------------------------------
(* What a new partition is, in either unit.                                 *)

LEMMA CRoundIsInt ==
  ASSUME NEW n \in Int, unit_flag \in BOOLEAN
  PROVE  CRound(n) \in Int
BY Constants DEF CRound

(* A cylinder begins at or before every sector in it.                       *)
LEMMA CylinderBegins ==
  ASSUME NEW n \in Nat
  PROVE  (n \div CylinderSize) * CylinderSize \in 0 .. n
BY Constants

LEMMA CylindersAscend ==
  ASSUME NEW a \in Nat, NEW b \in Nat, a <= b
  PROVE  a * CylinderSize \in Nat /\ a * CylinderSize <= b * CylinderSize
BY Constants

LEMMA NewBegins ==
  ASSUME unit_flag \in BOOLEAN,
         NEW first \in CRound(FirstSector) .. CRound(LastSector)
  PROVE  (IF unit_flag THEN (first - 1) * CylinderSize ELSE first) \in 0 .. U32 - 1
<1>1. FirstSector \in Nat /\ LastSector \in 0 .. U32 - 1
  BY Constants DEF FirstSector, LastSector
<1>2. CASE ~ unit_flag
  <2>1. CRound(FirstSector) = FirstSector /\ CRound(LastSector) = LastSector
    BY <1>2 DEF CRound
  <2> QED BY <1>1, <1>2, <2>1, Constants
<1>3. CASE unit_flag
  <2> DEFINE low == FirstSector \div CylinderSize
             high == LastSector \div CylinderSize
  <2>1. CRound(FirstSector) = low + 1 /\ CRound(LastSector) = high + 1
    BY <1>3 DEF CRound
  <2>2. low \in Nat /\ high \in Nat
    BY <1>1, Constants
  <2>3. high * CylinderSize \in 0 .. LastSector
    BY <1>1, CylinderBegins
  <2> HIDE DEF low, high
  <2>4. first - 1 \in Nat /\ first - 1 <= high
    BY <2>1, <2>2
  <2>5. /\ (first - 1) * CylinderSize \in Nat
        /\ (first - 1) * CylinderSize <= high * CylinderSize
    BY <2>2, <2>4, CylindersAscend
  <2> DEFINE begin == (first - 1) * CylinderSize
             end == high * CylinderSize
  <2>6. begin \in Nat /\ begin <= end /\ end \in 0 .. LastSector
    BY <2>3, <2>5
  <2> HIDE DEF begin, end
  <2>7. begin \in 0 .. U32 - 1
    BY <1>1, <2>6, Constants
  <2> QED BY <1>3, <2>7 DEF begin
<1> QED BY <1>2, <1>3

-----------------------------------------------------------------------------
(* A label in use covers its partitions, and the boot area has the label of *)
(* the disk or zeros, from the moment it is read.                           *)
LabelInv ==
  /\ TypeOK
  /\ mode \in {"label", "stuck"} => Covered(label)
  /\ mode \in {"asking", "label", "stuck"} => buffer \in {disk, Zeros}

(* Every change of the label hands Edit a label that covers its partitions. *)
SoundEdit ==
  \E l \in Label : mode = "label" /\ Edit(l) /\ (Covered(label) => Covered(l))

LEMMA DeletePartIsSound ==
  ASSUME TypeOK, NEW i \in Letters, DeletePart(i)
  PROVE  SoundEdit
<1> DEFINE cleared == [label EXCEPT !.partitions[i] = NoEntry]
<1>1. /\ cleared \in Label
      /\ cleared.npartitions = label.npartitions
      /\ cleared.partitions[i].size = 0
      /\ \A j \in Letters \ {i} : cleared.partitions[j] = label.partitions[j]
  BY SetEntry, NoEntryIsEntry DEF TypeOK
<1>2. Covered(label) => Covered(cleared)
  <2> HIDE DEF cleared
  <2> QED BY <1>1 DEF Covered
<1>3. mode = "label" /\ Edit(Trimmed(cleared, i))
  BY DEF DeletePart
<1> HIDE DEF cleared
<1> QED BY <1>1, <1>2, <1>3, TrimmedIsCovered DEF SoundEdit

LEMMA ChangeFstypeIsSound ==
  ASSUME TypeOK, NEW i \in Letters, ChangeFstype(i)
  PROVE  SoundEdit
<1>1. PICK type \in FsTypes : Edit([label EXCEPT !.partitions[i].fstype = type])
  BY DEF ChangeFstype
<1> DEFINE e == [label.partitions[i] EXCEPT !.fstype = type]
           l == [label EXCEPT !.partitions[i] = e]
<1>2. label \in Label /\ label.partitions[i] \in Entry
  BY DEF TypeOK, Label
<1>3. e \in Entry /\ e.size = label.partitions[i].size
  BY <1>2, LabelAssumption DEF Entry
<1>4. [label EXCEPT !.partitions[i].fstype = type] = l
  BY <1>2 DEF Label
<1> HIDE DEF e
<1>5. /\ l \in Label
      /\ l.npartitions = label.npartitions
      /\ l.partitions[i] = e
      /\ \A j \in Letters \ {i} : l.partitions[j] = label.partitions[j]
  BY <1>2, <1>3, SetEntry
<1> HIDE DEF l
<1>6. Covered(label) => Covered(l)
  BY <1>3, <1>5 DEF Covered
<1> QED BY <1>1, <1>4, <1>5, <1>6 DEF SoundEdit, ChangeFstype

(* A partition is put into the letter i, or is refused.                     *)
LEMMA CountedIsSound ==
  ASSUME TypeOK, NEW i \in Letters, MayCheck(i), Edit(Counted(i))
  PROVE  SoundEdit
<1>1. label \in Label
  BY DEF TypeOK
<1>2. /\ Counted(i) \in Label
      /\ Counted(i).partitions = label.partitions
      /\ Counted(i).npartitions >= label.npartitions
      /\ Counted(i).npartitions \in Int /\ label.npartitions \in Int
  BY <1>1, CountedIsMax DEF Label
<1>3. Covered(label) => Covered(Counted(i))
  BY <1>2 DEF Covered, Letters
<1> QED BY <1>2, <1>3 DEF SoundEdit, MayCheck

LEMMA PutIsSound ==
  ASSUME TypeOK, NEW i \in Letters, MayCheck(i), NEW e \in Entry,
         Edit([Counted(i) EXCEPT !.partitions[i] = e])
  PROVE  SoundEdit
<1> DEFINE c == Counted(i)
           l == [c EXCEPT !.partitions[i] = e]
<1>1. label \in Label
  BY DEF TypeOK
<1>2. /\ c \in Label
      /\ c.partitions = label.partitions
      /\ c.npartitions >= label.npartitions
      /\ c.npartitions >= i + 1
      /\ c.npartitions \in Int /\ label.npartitions \in Int
  BY <1>1, CountedIsMax DEF Label
<1> HIDE DEF c
<1>3. /\ l \in Label
      /\ l.npartitions = c.npartitions
      /\ \A j \in Letters \ {i} : l.partitions[j] = c.partitions[j]
  BY <1>2, SetEntry
<1>4. Edit(l)
  BY DEF c
<1> HIDE DEF l
<1>5. Covered(label) => Covered(l)
  <2> SUFFICES ASSUME Covered(label), NEW j \in Letters, j >= l.npartitions
               PROVE  l.partitions[j].size = 0
    BY DEF Covered
  <2>1. j # i /\ j >= label.npartitions
    BY <1>2, <1>3 DEF Letters
  <2> QED BY <1>2, <1>3, <2>1 DEF Covered
<1> QED BY <1>3, <1>4, <1>5 DEF SoundEdit, MayCheck

LEMMA NewPartIsSound ==
  ASSUME TypeOK, NEW i \in Letters, NewPart(i)
  PROVE  SoundEdit
<1>1. PICK first \in CRound(FirstSector) .. CRound(LastSector) :
        \E last \in CRound(first) .. CRound(LastSector) :
        LET begin == IF unit_flag THEN (first - 1) * CylinderSize ELSE first
            end   == IF unit_flag THEN last * CylinderSize - 1 ELSE last
        IN  Edit([Counted(i) EXCEPT !.partitions[i] =
                    [size |-> (end - begin + 1) % U32, offset |-> begin,
                     fstype |-> Unused]])
  BY DEF NewPart
<1>2. PICK last \in CRound(first) .. CRound(LastSector) :
        LET begin == IF unit_flag THEN (first - 1) * CylinderSize ELSE first
            end   == IF unit_flag THEN last * CylinderSize - 1 ELSE last
        IN  Edit([Counted(i) EXCEPT !.partitions[i] =
                    [size |-> (end - begin + 1) % U32, offset |-> begin,
                     fstype |-> Unused]])
  BY <1>1
<1> DEFINE begin == IF unit_flag THEN (first - 1) * CylinderSize ELSE first
           end   == IF unit_flag THEN last * CylinderSize - 1 ELSE last
           e     == [size |-> (end - begin + 1) % U32, offset |-> begin,
                     fstype |-> Unused]
<1>3. begin \in 0 .. U32 - 1
  BY NewBegins DEF TypeOK
<1>4. end \in Int
  BY Constants
<1> HIDE DEF begin, end
<1>5. (end - begin + 1) % U32 \in 0 .. U32 - 1
  BY <1>3, <1>4, Constants
<1>6. e \in Entry
  BY <1>3, <1>5 DEF Entry, Unused
<1>7. Edit([Counted(i) EXCEPT !.partitions[i] = e])
  BY <1>2 DEF begin, end
<1> HIDE DEF e
<1> QED BY <1>6, <1>7, PutIsSound DEF NewPart

LEMMA LinkPartIsSound ==
  ASSUME TypeOK, NEW i \in Letters, LinkPart(i)
  PROVE  SoundEdit
<1>1. PICK k \in DOMAIN DosPartitions :
        Edit([Counted(i) EXCEPT !.partitions[i] =
                [size |-> DosPartitions[k].nr_sects,
                 offset |-> DosPartitions[k].start_sect,
                 fstype |-> TranslateFstype(DosPartitions[k].sys_ind)]])
  BY DEF LinkPart
<1> DEFINE e == [size |-> DosPartitions[k].nr_sects,
                 offset |-> DosPartitions[k].start_sect,
                 fstype |-> TranslateFstype(DosPartitions[k].sys_ind)]
<1>2. DosPartitions[k] \in [start_sect : 0 .. U32 - 1, nr_sects : 0 .. U32 - 1,
                            sys_ind : Nat]
  BY LabelAssumption
<1>3. e \in Entry
  BY <1>2 DEF Entry, TranslateFstype
<1> HIDE DEF e
<1> QED BY <1>1, <1>3, PutIsSound DEF LinkPart, e

LEMMA EditDisklabelIsSound ==
  ASSUME TypeOK, EditDisklabel
  PROVE  SoundEdit
<1>1. PICK n \in {0, CylinderSize} : Edit([label EXCEPT !.secpercyl = n])
  BY DEF EditDisklabel
<1> DEFINE l == [label EXCEPT !.secpercyl = n]
<1>2. /\ l \in Label
      /\ l.npartitions = label.npartitions
      /\ l.partitions = label.partitions
  BY Constants DEF TypeOK, Label
<1> HIDE DEF l
<1> QED BY <1>1, <1>2 DEF SoundEdit, EditDisklabel, Covered, l

(* What a change of the label does to the invariant.                        *)
LEMMA SoundEditKeepsInv ==
  ASSUME LabelInv, SoundEdit
  PROVE  LabelInv'
<1>1. PICK l \in Label : mode = "label" /\ Edit(l) /\ (Covered(label) => Covered(l))
  BY DEF SoundEdit
<1>2. /\ label' = l /\ edits' = edits + 1 /\ edits < MaxEdits
      /\ mode' = mode /\ unit_flag' = unit_flag /\ buffer' = buffer /\ disk' = disk
  BY <1>1 DEF Edit
<1>3. TypeOK'
  BY <1>2, LabelAssumption DEF LabelInv, TypeOK
<1>4. Covered(label')
  BY <1>1, <1>2 DEF LabelInv
<1>5. Covered(label')  => Covered(label)'
  BY DEF Covered
<1> QED BY <1>1, <1>2, <1>3, <1>4, <1>5 DEF LabelInv

LEMMA InitLabelIsCovered == Covered(InitLabel)
BY Constants, NoEntryIsEntry DEF Covered, InitLabel, Letters

(* Every step keeps the invariant.                                          *)
LEMMA InvInit == Init => LabelInv
BY FixedLabels, LabelAssumption DEF Init, LabelInv, TypeOK

LEMMA InvNext ==
  ASSUME LabelInv, [Next]_vars
  PROVE  LabelInv'
<1> USE DEF LabelInv
<1>1. CASE Select
  <2>1. disk \in Label
    BY DEF TypeOK
  <2>2. Read(disk) \in Label /\ Covered(Read(disk))
    BY <2>1, ReadIsLabel DEF Covered
  <2>3. /\ label' = Read(disk) /\ buffer' = disk /\ disk' = disk
        /\ unit_flag' = unit_flag /\ edits' = edits
        /\ mode' \in {"label", "asking"}
    BY <1>1 DEF Select
  <2>4. Covered(label)'
    BY <2>2, <2>3 DEF Covered
  <2> QED BY <2>1, <2>2, <2>3, <2>4 DEF TypeOK
<1>2. CASE Create
  <2>1. /\ label' = InitLabel /\ buffer' = buffer /\ disk' = disk
        /\ unit_flag' = unit_flag /\ edits' = edits
        /\ mode = "asking" /\ mode' = "label"
    BY <1>2 DEF Create
  <2>2. Covered(label)'
    BY <2>1, InitLabelIsCovered DEF Covered
  <2> QED BY <2>1, <2>2, FixedLabels DEF TypeOK
<1>3. CASE NoLabel \/ Return \/ Quit \/ ChangeUnits \/ PrintLabel
  BY <1>3 DEF NoLabel, Return, Quit, ChangeUnits, PrintLabel, TypeOK
<1>4. CASE AskForLetter
  BY <1>4 DEF AskForLetter, TypeOK, Covered
<1>5. ASSUME NEW i \in Letters,
             DeletePart(i) \/ ChangeFstype(i) \/ Refuse(i) \/ NewPart(i) \/ LinkPart(i)
      PROVE  LabelInv'
  <2>1. Refuse(i) => MayCheck(i) /\ Edit(Counted(i))
    BY DEF Refuse
  <2>2. SoundEdit
    BY <1>5, <2>1, DeletePartIsSound, ChangeFstypeIsSound, CountedIsSound,
       NewPartIsSound, LinkPartIsSound
  <2> QED BY <2>2, SoundEditKeepsInv
<1>6. CASE EditDisklabel
  BY <1>6, EditDisklabelIsSound, SoundEditKeepsInv
<1>7. CASE WriteLabel
  BY <1>7 DEF WriteLabel, TypeOK, Covered
<1>8. CASE WriteLabelFails \/ BootstrapEnds
  BY <1>8 DEF WriteLabelFails, BootstrapEnds, TypeOK
<1>9. CASE BootstrapFails \/ Bootstrap
  BY <1>9, FixedLabels DEF BootstrapFails, Bootstrap, TypeOK, Covered
<1>10. CASE UNCHANGED vars
  BY <1>10 DEF vars, TypeOK, Covered
<1> QED
  BY <1>1, <1>2, <1>3, <1>4, <1>5, <1>6, <1>7, <1>8, <1>9, <1>10 DEF Next

LEMMA InvAlways == Spec => []LabelInv
<1>1. Init => LabelInv
  BY InvInit
<1>2. LabelInv /\ [Next]_vars => LabelInv'
  BY InvNext
<1> QED BY <1>1, <1>2, PTL DEF Spec

-----------------------------------------------------------------------------
(* The label in memory, the copy in the boot area and the label on the disk *)
(* are labels, whatever is edited: npartitions stays within the letters and *)
(* every size and offset within a u_long (fdisklabel.c's bsd_* commands).   *)
THEOREM LabelsAreWellTyped == Spec => []TypeOK
<1>1. LabelInv => TypeOK
  BY DEF LabelInv
<1> QED BY <1>1, InvAlways, PTL

(* No command of the label editor leaves a partition behind d_npartitions,  *)
(* whatever label the disk had, though bsd_check_new_partition raises the   *)
(* count before it refuses and bsd_delete_part lets it fall over the gaps.  *)
THEOREM PartitionsAreCounted == Spec => []CountCoversPartitions
<1>1. LabelInv => CountCoversPartitions
  BY DEF LabelInv, Covered, CountCoversPartitions
<1> QED BY <1>1, InvAlways, PTL

(* Between the commands of the label editor the boot area holds the label   *)
(* on the disk, or the zeros that a failed w of the bootstrap left.         *)
THEOREM BootAreaAgrees == Spec => []BootAreaHoldsLabel
<1>1. LabelInv => BootAreaHoldsLabel
  BY DEF LabelInv, BootAreaHoldsLabel
<1> QED BY <1>1, InvAlways, PTL

LEMMA NewPartIsInSlice ==
  ASSUME TypeOK, NEW i \in Letters, NewPart(i), ~ unit_flag
  PROVE  LET p == label'.partitions[i]
         IN  /\ p.size # 0
             /\ p.offset .. p.offset + p.size - 1
                  \subseteq FirstSector .. Slice.start_sect + Slice.nr_sects - 1
<1>1. PICK first \in FirstSector .. LastSector :
        \E last \in first .. LastSector :
          label' = [Counted(i) EXCEPT !.partitions[i] =
                      [size |-> (last - first + 1) % U32, offset |-> first,
                       fstype |-> Unused]]
  BY DEF NewPart, CRound, Edit
<1>2. PICK last \in first .. LastSector :
        label' = [Counted(i) EXCEPT !.partitions[i] =
                    [size |-> (last - first + 1) % U32, offset |-> first,
                     fstype |-> Unused]]
  BY <1>1
<1> DEFINE e == [size |-> (last - first + 1) % U32, offset |-> first,
                 fstype |-> Unused]
<1>3. /\ first \in Int /\ last \in Int
      /\ FirstSector <= first /\ first <= last /\ last <= LastSector
      /\ FirstSector \in Int /\ FirstSector > 0
      /\ LastSector \in Int /\ LastSector < U32
  BY Constants DEF FirstSector, LastSector
<1>4. (last - first + 1) % U32 = last - first + 1
  BY <1>3, Constants
<1>5. label \in Label
  BY DEF TypeOK
<1>6. Counted(i) \in Label
  BY <1>5, CountedIsMax
<1>7. label'.partitions[i] = e
  <2> HIDE DEF e
  <2> DEFINE c == Counted(i)
  <2>1. label' = [c EXCEPT !.partitions[i] = e]
    BY <1>2 DEF e
  <2> HIDE DEF c
  <2>2. c \in Label
    BY <1>6 DEF c
  <2> QED BY <2>1, <2>2 DEF Label
<1>8. e.size = last - first + 1 /\ e.offset = first
  BY <1>4
<1> HIDE DEF e
<1>9. LastSector = Slice.start_sect + Slice.nr_sects - 1
  BY DEF LastSector
<1>10. first .. first + (last - first + 1) - 1 \subseteq FirstSector .. LastSector
  BY <1>3
<1> QED BY <1>3, <1>7, <1>8, <1>9, <1>10

(* In sectors, bsd_new_part makes a partition that is not empty and lies in *)
(* the slice, for every slice that ends on a disk a u_long can count.       *)
THEOREM NewPartitionsAreInSlice == Spec => NewPartitionInSlice
<1> DEFINE InSlice ==
      \A i \in Letters :
        NewPart(i) /\ ~ unit_flag =>
          LET p == label'.partitions[i]
          IN  /\ p.size # 0
              /\ p.offset .. p.offset + p.size - 1
                   \subseteq FirstSector .. Slice.start_sect + Slice.nr_sects - 1
<1>1. LabelInv /\ [Next]_vars => [InSlice]_vars
  BY NewPartIsInSlice DEF LabelInv
<1>2. Spec => [][InSlice]_vars
  <2> HIDE DEF InSlice
  <2> QED BY <1>1, InvAlways, PTL DEF Spec
<1> QED BY <1>2 DEF NewPartitionInSlice

=============================================================================
