------------------------------ MODULE BsdLabel ------------------------------
(***************************************************************************)
(* The disklabel editor of fdisklabel.c, as built for the i386: the label   *)
(* in memory, the copy of it in the buffer of the boot area, and the label  *)
(* on the disk.  The DOS partitions it reads do not change meanwhile.       *)
(***************************************************************************)
EXTENDS Integers, FiniteSets, FiniteSetsExt

CONSTANTS
  MaxPartitions,   \* BSD_MAXPARTITIONS
  U32,             \* values of a u_long
  CylinderSize,    \* heads * sectors
  Cylinders,       \* cylinders of the disk
  DosPartitions,   \* partition numbers, from 0, to [start_sect, nr_sects, sys_ind]
  NetBSD,          \* the number of the partition that holds the label
  Labels,          \* what the disk may hold where the label is
  FsTypes,         \* answers to "Hex code"
  TypedFirst,      \* answers to "First", besides the default
  TypedLast,       \* answers to "Last", besides the default
  MaxEdits         \* a bound: changes of the label in memory

Unused == 0        \* BSD_FS_UNUSED
Letters == 0 .. MaxPartitions - 1
Slice   == DosPartitions[NetBSD]

Entry   == [size : 0 .. U32 - 1, offset : 0 .. U32 - 1, fstype : Nat]
NoEntry == [size |-> 0, offset |-> 0, fstype |-> Unused]

(* "valid" is whether both magic numbers are there.                         *)
Label == [valid : BOOLEAN, npartitions : 0 .. MaxPartitions,
          secpercyl : 0 .. CylinderSize, partitions : [Letters -> Entry]]

Zeros == [valid |-> FALSE, npartitions |-> 0, secpercyl |-> 0,
          partitions |-> [i \in Letters |-> NoEntry]]

(* The slice ends on the disk, whose sectors a u_long can count.            *)
ASSUME LabelAssumption ==
  /\ MaxPartitions \in Nat /\ MaxPartitions > 3
  /\ {U32, CylinderSize, Cylinders} \subseteq Nat \ {0}
  /\ CylinderSize * Cylinders < U32
  /\ NetBSD \in DOMAIN DosPartitions
  /\ \A k \in DOMAIN DosPartitions :
       DosPartitions[k] \in [start_sect : 0 .. U32 - 1, nr_sects : 0 .. U32 - 1,
                             sys_ind : Nat]
  /\ Slice.start_sect # 0
  /\ Slice.start_sect + Slice.nr_sects <= U32
  /\ Labels \subseteq Label
  /\ FsTypes \subseteq Nat
  /\ MaxEdits \in Nat

VARIABLES
  mode,      \* "main", "asking", "label", "stuck", "crashed" or "closed"
  unit_flag, \* whether prompts count cylinders
  label,     \* bsd_dlabel
  buffer,    \* the label in the buffer of the boot area
  disk,      \* the label on the disk
  edits      \* bound: changes of the label in memory

vars == <<mode, unit_flag, label, buffer, disk, edits>>

Init ==
  /\ mode = "main"
  /\ unit_flag \in BOOLEAN
  /\ label = Zeros
  /\ buffer = Zeros
  /\ disk \in Labels
  /\ edits = 0

-----------------------------------------------------------------------------
(* Entering and leaving.                                                    *)

\* Entries behind the last one of the label are cleared.
Read(l) ==
  [l EXCEPT !.partitions =
     [i \in Letters |-> IF i < l.npartitions THEN @[i] ELSE NoEntry]]

Select ==
  /\ mode = "main"
  /\ buffer' = disk
  /\ label' = Read(disk)
  /\ mode' = IF disk.valid THEN "label" ELSE "asking"
  /\ UNCHANGED <<unit_flag, disk, edits>>

(* Partition c is the NetBSD partition and d the whole disk.                *)
InitLabel ==
  [valid |-> TRUE, npartitions |-> 4, secpercyl |-> CylinderSize,
   partitions |->
     [i \in Letters |->
        CASE i = 2 -> [size |-> Slice.nr_sects, offset |-> Slice.start_sect,
                       fstype |-> Unused]
          [] i = 3 -> [size |-> CylinderSize * Cylinders, offset |-> 0,
                       fstype |-> Unused]
          [] OTHER -> NoEntry]]

Create ==
  /\ mode = "asking"
  /\ mode' = "label"
  /\ label' = InitLabel
  /\ UNCHANGED <<unit_flag, buffer, disk, edits>>

(* The user says no, or the geometry is not known.                          *)
NoLabel ==
  /\ mode = "asking"
  /\ mode' = "main"
  /\ UNCHANGED <<unit_flag, label, buffer, disk, edits>>

Return ==
  /\ mode = "label"
  /\ mode' = "main"
  /\ UNCHANGED <<unit_flag, label, buffer, disk, edits>>

Quit ==
  /\ mode \in {"main", "label"}
  /\ mode' = "closed"
  /\ UNCHANGED <<unit_flag, label, buffer, disk, edits>>

ChangeUnits ==
  /\ mode = "main"
  /\ unit_flag' = ~ unit_flag
  /\ UNCHANGED <<mode, label, buffer, disk, edits>>

-----------------------------------------------------------------------------
(* Changing the label in memory.                                            *)

Edit(l) ==
  /\ edits < MaxEdits
  /\ edits' = edits + 1
  /\ label' = l
  /\ UNCHANGED <<mode, unit_flag, buffer, disk>>

\* bsd_get_part_index(d_npartitions): no letter will do if there is none.
AskForLetter ==
  /\ mode = "label"
  /\ label.npartitions = 0
  /\ mode' = "stuck"
  /\ UNCHANGED <<unit_flag, label, buffer, disk, edits>>

\* Fault: empty entries do not stop the count from falling.
TrimmedToFirst(l, i) ==
  IF l.npartitions = i + 1
  THEN [l EXCEPT !.npartitions =
          Min({j \in Letters : l.partitions[j].size = 0})]
  ELSE l

(* If it was the last partition the count falls to the last one in use.     *)
(* The loop ends at 0 since the second magic number, which is never 0, lies *)
(* where the size of an entry before the first one would.                   *)
Trimmed(l, i) ==
  IF l.npartitions = i + 1
  THEN [l EXCEPT !.npartitions =
          Max({0} \cup {j + 1 : j \in {k \in 0 .. i : l.partitions[k].size # 0}})]
  ELSE l

DeletePart(i) ==
  /\ mode = "label"
  /\ i < label.npartitions
  /\ Edit(Trimmed([label EXCEPT !.partitions[i] = NoEntry], i))

ChangeFstype(i) ==
  /\ mode = "label"
  /\ i < label.npartitions
  /\ \E type \in FsTypes : Edit([label EXCEPT !.partitions[i].fstype = type])

\* Fault: the count is not raised.
CountedNot(i) == label

\* bsd_check_new_partition: the count is raised before the letter is refused.
Counted(i) ==
  [label EXCEPT !.npartitions = Max({label.npartitions, i + 1})]

Full ==
  /\ label.npartitions = MaxPartitions
  /\ \A i \in Letters : label.partitions[i].size # 0

MayCheck(i) == mode = "label" /\ ~ Full

Refuse(i) ==
  /\ MayCheck(i)
  /\ label.partitions[i].size # 0
  /\ Edit(Counted(i))

CRound(n) == IF unit_flag THEN n \div CylinderSize + 1 ELSE n

FirstSector == Slice.start_sect
\* Fault: the sector behind the partition is offered.
LastSectorAndOne == Slice.start_sect + Slice.nr_sects
LastSector  == Slice.start_sect + Slice.nr_sects - 1

(* The prompt for the last cylinder starts at what the first cylinder would *)
(* be if it were a sector: an end before the beginning is accepted, and the *)
(* size wraps.                                                              *)
NewPart(i) ==
  /\ MayCheck(i)
  /\ label.partitions[i].size = 0
  /\ \E first \in (TypedFirst \cup {CRound(FirstSector)})
                    \cap (CRound(FirstSector) .. CRound(LastSector)) :
     \E last \in (TypedLast \cup {CRound(LastSector)})
                   \cap (CRound(first) .. CRound(LastSector)) :
       LET begin == IF unit_flag THEN (first - 1) * CylinderSize ELSE first
           end   == IF unit_flag THEN last * CylinderSize - 1 ELSE last
       IN  Edit([Counted(i) EXCEPT !.partitions[i] =
                   [size |-> (end - begin + 1) % U32, offset |-> begin,
                    fstype |-> Unused]])

(* BSD_FS_MSDOS, BSD_FS_HPFS or BSD_FS_OTHER.                               *)
TranslateFstype(sys_ind) ==
  IF sys_ind \in {1, 4, 6, 225, 227, 242} THEN 8
  ELSE IF sys_ind = 7 THEN 11 ELSE 10

(* The sector of a DOS partition is taken as it stands in its table.        *)
LinkPart(i) ==
  /\ MayCheck(i)
  /\ label.partitions[i].size = 0
  /\ \E k \in DOMAIN DosPartitions :
       LET p == DosPartitions[k]
       IN  Edit([Counted(i) EXCEPT !.partitions[i] =
                   [size |-> p.nr_sects, offset |-> p.start_sect,
                    fstype |-> TranslateFstype(p.sys_ind)]])

\* Fault: more sectors per cylinder than the geometry has are accepted.
EditDisklabelUnchecked ==
  /\ mode = "label"
  /\ \E n \in {0, CylinderSize + 1} : Edit([label EXCEPT !.secpercyl = n])

(* More sectors per cylinder than the geometry has are asked for again.     *)
EditDisklabel ==
  /\ mode = "label"
  /\ \E n \in {0, CylinderSize} : Edit([label EXCEPT !.secpercyl = n])

(* Printing divides by the sectors per cylinder.                            *)
PrintLabel ==
  /\ mode = "label"
  /\ label.secpercyl = 0
  /\ \E i \in Letters : i < label.npartitions /\ label.partitions[i].size # 0
  /\ mode' = "crashed"
  /\ UNCHANGED <<unit_flag, label, buffer, disk, edits>>

-----------------------------------------------------------------------------
(* Writing.                                                                 *)

\* Fault: the boot area keeps the old label.
WriteLabelOnly ==
  /\ mode = "label"
  /\ disk' = label
  /\ UNCHANGED <<mode, unit_flag, label, buffer, edits>>

WriteLabel ==
  /\ mode = "label"
  /\ buffer' = label
  /\ disk' = label
  /\ UNCHANGED <<mode, unit_flag, label, edits>>

WriteLabelFails ==
  /\ mode = "label"
  /\ buffer' = label
  /\ mode' = "closed"
  /\ UNCHANGED <<unit_flag, label, disk, edits>>

(* The second file of the bootstrap cannot be read: the label in the buffer *)
(* is zeros by then, and stays so.                                          *)
BootstrapFails ==
  /\ mode = "label"
  /\ buffer' = Zeros
  /\ UNCHANGED <<mode, unit_flag, label, disk, edits>>

(* The bootstrap reaches into the label, or the write fails half way.       *)
BootstrapEnds ==
  /\ mode = "label"
  /\ mode' = "closed"
  /\ disk' \in {disk, buffer}
  /\ UNCHANGED <<unit_flag, label, buffer, edits>>

\* The boot area goes to the disk with the label that the buffer held.
Bootstrap ==
  /\ mode = "label"
  /\ disk' = buffer
  /\ UNCHANGED <<mode, unit_flag, label, buffer, edits>>

Next ==
  \/ Select \/ Create \/ NoLabel \/ Return \/ Quit \/ ChangeUnits
  \/ AskForLetter
  \/ \E i \in Letters :
       \/ DeletePart(i) \/ ChangeFstype(i)
       \/ Refuse(i) \/ NewPart(i) \/ LinkPart(i)
  \/ EditDisklabel \/ PrintLabel
  \/ WriteLabel \/ WriteLabelFails
  \/ BootstrapFails \/ BootstrapEnds \/ Bootstrap

Spec == Init /\ [][Next]_vars

-----------------------------------------------------------------------------
(* Properties.                                                              *)

TypeOK ==
  /\ mode \in {"main", "asking", "label", "stuck", "crashed", "closed"}
  /\ unit_flag \in BOOLEAN
  /\ {label, buffer, disk} \subseteq Label
  /\ edits \in 0 .. MaxEdits

(* No partition is behind the count of the label, where bsd_print_disklabel *)
(* would not show it, bsd_dkcksum would not cover it and bsd_readlabel      *)
(* would drop it.                                                           *)
CountCoversPartitions ==
  mode \in {"label", "stuck"} =>
    \A i \in Letters :
      i >= label.npartitions => label.partitions[i].size = 0

(* What a bootstrap would write is the label the disk has: bsd_writelabel   *)
(* says "This is necessary if we want to write the bootstrap later".  After *)
(* an attempt without its second file it is zeros.                          *)
BootAreaHoldsLabel == mode = "label" => buffer \in {disk, Zeros}

(* i keeps the label that is on the disk.  (Broken by a bootstrap after one *)
(* that found its first file and not its second.)                           *)
BootstrapKeepsLabel == [][Bootstrap => disk' = disk]_vars

(* In sectors, a new partition lies in the NetBSD partition; in cylinders   *)
(* it may begin before it, end behind it, or have a size that wrapped.      *)
NewPartitionInSlice ==
  [][\A i \in Letters :
       NewPart(i) /\ ~ unit_flag =>
         LET p == label'.partitions[i]
         IN  /\ p.size # 0
             /\ p.offset .. p.offset + p.size - 1
                  \subseteq FirstSector .. Slice.start_sect + Slice.nr_sects - 1]_vars

=============================================================================
