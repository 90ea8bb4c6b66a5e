----------------------------- MODULE DosEditor ------------------------------
(***************************************************************************)
(* One session of fdisk.c on a disk: the commands of the main and of the    *)
(* expert menu that change the tables, and the write that ends the session  *)
(* table by table.  The geometry is known and is not changed.               *)
(***************************************************************************)
EXTENDS DosTable

CONSTANTS
  Disks,        \* the disks a session may find: sectors to tables
  TypedStarts,  \* answers to "First", besides the lowest one
  TypedStops,   \* answers to "Last", besides the highest one
  Begins,       \* answers to "New beginning of data"
  MaxEdits      \* a bound: commands that change a table

(* Every sector of a disk can be read as a table.                           *)
ASSUME DisksAssumption ==
  Disks \subseteq [0 .. Total - 1 -> [slots : [0..3 -> Entry], flag : BOOLEAN]]

VARIABLES
  t,        \* the tables in memory
  u,        \* the units of the prompts, and sector_offset
  mode,     \* "open", "stuck", "writing", "saved" or "closed"
  disk,     \* the tables on the disk
  todo,     \* the tables still to be written
  kept,     \* history: the partitions found and not deleted since
  edits     \* bound: commands that changed a table

vars == <<t, u, mode, disk, todo, kept, edits>>

(* What a partition or an extended partition occupies.                      *)
Extents(tables) ==
  {[first |-> PartEntry(tables, i).begin, last |-> LastSector(tables, i),
    inside |-> i > 3] :
     i \in {j \in Numbers(tables) : IsData(PartEntry(tables, j))}}

Init ==
  /\ disk \in Disks
  /\ CanRead(disk)
  /\ t = ReadTables(disk)
  /\ u = [unit_flag |-> TRUE, sector_offset |-> TrackSize]
  /\ mode = "open"
  /\ todo = {}
  /\ kept = Extents(t)
  /\ edits = 0

-----------------------------------------------------------------------------
(* The commands.                                                            *)

Edit(tables) ==
  /\ t' = tables
  /\ kept' = kept \cap Extents(tables)
  /\ edits' = edits + 1
  /\ UNCHANGED <<u, mode, disk, todo>>

Prompt == mode = "open" /\ edits < MaxEdits

\* get_partition(0, partitions), for a partition that exists.
Chosen(i) == Prompt /\ i \in Numbers(t)

(* A prompt that accepts no number: not even the end of the input ends it.  *)
AskForEver ==
  /\ mode' = "stuck"
  /\ UNCHANGED <<t, u, disk, todo, kept, edits>>

\* Fault: one more.
MayAddOneMore == Prompt /\ Partitions(t) <= MaximumParts

MayAdd == Prompt /\ Partitions(t) < MaximumParts

(* add_partition from "First" on, in the tables "in" with n still empty.    *)
(* Outside the extended partition, and for the first logical one, the       *)
(* lowest number stands for the first free sector, which is accepted: that  *)
(* prompt is never endless.                                                 *)
Answers(in, n) ==
  UNION {{<<start, stop>> : stop \in Stops(in, u, n, start, TypedStops)} :
           start \in Starts(in, u, n, TypedStarts)}

NewPrimary(n) ==
  /\ MayAdd
  /\ t.primary[n].type = Empty
  /\ HasRoom(t, u, n)
  /\ \E a \in Answers(t, n) : Edit(AddPrimary(t, n, a[1], a[2]))

NewExtended(n) ==
  /\ MayAdd
  /\ t.extended_offset = 0
  /\ t.primary[n].type = Empty
  /\ HasRoom(t, u, n)
  /\ \E a \in Answers(t, n) : Edit(AddExtended(t, n, a[1], a[2]))

NewLogicalPartition ==
  /\ MayAdd
  /\ t.extended_offset # 0
  /\ LET r == Room(t)
         n == Partitions(r) - 1
     IN  /\ HasRoom(r, u, n)
         /\ IF NoAnswer(r, u, n) THEN AskForEver
            ELSE \E a \in Answers(r, n) : Edit(AddLogical(r, u, a[1], a[2]))

\* Type 0 given to t deletes too, if the partition is used and not extended.
Delete(i) == Chosen(i) /\ Edit(DeletePartition(t, i))

ChangeSysid(i) ==
  /\ Chosen(i)
  /\ IsData(PartEntry(t, i))
  /\ \E type \in Types \ {PartEntry(t, i).type} : Edit(SetType(t, i, type))

Activate(i) == Chosen(i) /\ Edit(ToggleActive(t, i))

MoveBeginning(i) ==
  /\ Chosen(i)
  /\ IsData(PartEntry(t, i))
  /\ PartEntry(t, i).size # 0
  /\ \E first \in Begins :
       /\ first \in PartEntry(t, i).begin .. LastSector(t, i)
       /\ Edit(MoveBegin(t, i, first))

SetUnits(units) ==
  /\ mode = "open"
  /\ u' = units
  /\ UNCHANGED <<t, mode, disk, todo, kept, edits>>

ToggleDos ==
  SetUnits([u EXCEPT !.sector_offset =
              IF @ = TrackSize THEN 1 ELSE TrackSize])

ChangeUnits == SetUnits([u EXCEPT !.unit_flag = ~ @])

-----------------------------------------------------------------------------
(* Writing.                                                                 *)

Marked == {i \in Numbers(t) \ 0..3 : t.logical[i - 3].changed}
          \cup (IF \E i \in 0..3 : t.changed[i] THEN {3} ELSE {})

StartWrite ==
  /\ mode = "open"
  /\ mode' = "writing"
  /\ todo' = Marked
  /\ UNCHANGED <<t, u, disk, kept, edits>>

Slots(i) == IF i = 3 THEN t.primary ELSE t.logical[i - 3].slots

Put(i) ==
  /\ mode = "writing"
  /\ disk' = [disk EXCEPT ![Offset(t, i)] =
                [slots |-> Slots(i), flag |-> TRUE]]
  /\ todo' = todo \ {i}
  /\ UNCHANGED <<t, u, mode, kept, edits>>

\* Fault: from the last table to the first.
WriteTableDown == todo # {} /\ Put(Max(todo))

WriteTable == todo # {} /\ Put(Min(todo))

Finish ==
  /\ mode = "writing"
  /\ todo = {}
  /\ mode' = "saved"
  /\ UNCHANGED <<t, u, disk, todo, kept, edits>>

(* q, a table that cannot be written, or the power fails.                   *)
Stop ==
  /\ mode \in {"open", "writing"}
  /\ mode' = "closed"
  /\ UNCHANGED <<t, u, disk, todo, kept, edits>>

Next ==
  \/ \E n \in 0..3 : NewPrimary(n) \/ NewExtended(n)
  \/ NewLogicalPartition
  \/ \E i \in Numbers(t) :
       Delete(i) \/ ChangeSysid(i) \/ Activate(i) \/ MoveBeginning(i)
  \/ ToggleDos \/ ChangeUnits
  \/ StartWrite \/ WriteTable \/ Finish \/ Stop

Spec == Init /\ [][Next]_vars

-----------------------------------------------------------------------------
(* verify: partitions are compared in the order of their numbers.           *)

Sectors == [unit_flag |-> FALSE, sector_offset |-> u.sector_offset]
Used    == {i \in Numbers(t) : IsData(PartEntry(t, i))}
First   == Firsts(t, Sectors, 4)
LastOf  == Lasts(t, 4)

Overlap(j, i) ==
  \/ First[j] <= First[i] /\ First[i] <= LastOf[j]
  \/ First[j] <= LastOf[i] /\ LastOf[i] <= LastOf[j]

Overlaps == {p \in Used \X Used : p[1] < p[2] /\ Overlap(p[1], p[2])}

\* Fault: the tables of logical partitions are taken for free.
UnallocatedTables ==
  Total - (1 + MapThenSumSet(LAMBDA i : LastOf[i] + 1 - First[i], Used))

Unallocated ==
  LET lower(p) == Later(First[p[1]], First[p[2]])
      upper(p) == Min({LastOf[p[1]], LastOf[p[2]]})
  IN  Total
      - (1
         + MapThenSumSet(LAMBDA i : LastOf[i] + 1 - First[i], Used)
         + MapThenSumSet(LAMBDA p : lower(p) - upper(p), Overlaps)
         + IF t.extended_offset # 0 THEN Len(t.logical) ELSE 0)


-----------------------------------------------------------------------------
(* Properties.                                                              *)

Table == [slots : [0..3 -> Entry], flag : BOOLEAN, part : 0..3, ext : 0..3,
          offset : 1 .. Total - 1, changed : BOOLEAN]

TypeOK ==
  /\ t.primary \in [0..3 -> Entry]
  /\ t.changed \in [0..3 -> BOOLEAN]
  /\ Len(t.logical) <= MaxLogical
  /\ \A k \in DOMAIN t.logical :
       t.logical[k] \in Table /\ t.logical[k].part # t.logical[k].ext
  /\ t.ext_index \in 0..3
  /\ t.extended_offset \in 0 .. Total - 1
  /\ mode \in {"open", "stuck", "writing", "saved", "closed"}
  /\ todo \subseteq Numbers(t)

(* The tables of the logical partitions are one chain: the extended primary  *)
(* leads to the first, the link of each leads to the next, counted from the *)
(* extended partition, and the link of the last is empty.  (add_partition,  *)
(* delete_partition and read_extended keep it in offsets, ext_pointers and  *)
(* extended_offset.)                                                        *)
ChainAgrees ==
  /\ (t.logical = << >>) <=> (t.extended_offset = 0)
  /\ t.extended_offset # 0 =>
       /\ Extended(t).type = EXTENDED
       /\ Extended(t).start = t.extended_offset
       /\ t.logical[1].offset = t.extended_offset
  /\ \A i \in Numbers(t) \ 0..3 :
       IF i + 1 \in Numbers(t)
       THEN /\ ExtEntry(t, i).type = EXTENDED
            /\ t.extended_offset + ExtEntry(t, i).start = Offset(t, i + 1)
       ELSE ExtEntry(t, i).type = Empty

Found == Extents(ReadTables(disk))

(* Every table has a sector of its own, outside the partitions.  Broken by  *)
(* a logical partition whose beginning is typed, or counted with another    *)
(* sector_offset than the tables on the disk were made with: its table goes *)
(* sector_offset sectors before it, whatever is there.                      *)
TableSectors == {Offset(t, i) : i \in Numbers(t) \ 0..2}
DataSectors  == UNION {First[i] .. LastOf[i] : i \in Used}
OwnSectors   == Cardinality(TableSectors) = Partitions(t) - 3

TablesApart == OwnSectors /\ TableSectors \cap DataSectors = {}

(* Until the session is over no partition the user did not delete is lost:  *)
(* whatever is on the disk when write_table stops, between two tables or at  *)
(* a table that cannot be written, leads to all of them.  (If every table   *)
(* has a sector of its own.)                                                *)
TornWriteKeepsPartitions == OwnSectors => kept \subseteq Found

(* After a complete write the next session finds every partition that was   *)
(* shown when w was given.  (It may find more: a deleted one comes back.)   *)
SavedIsFound == mode = "saved" /\ OwnSectors => Extents(t) \subseteq Found

(* What w promises and does not keep: the next session finds the partitions  *)
(* that were shown and no other.                                            *)
SavedIsExact == mode = "saved" => Found = Extents(t)

(* A table that is not marked is on the disk as it is in memory, except for *)
(* the link of the last one, which delete_partition clears without a mark.  *)
UnmarkedIsOnDisk ==
  mode = "open" =>
    \A i \in Numbers(t) \ (0..2 \cup Marked) :
      \/ disk[Offset(t, i)].slots = Slots(i)
      \/ /\ i > 3
         /\ i = Partitions(t) - 1
         /\ disk[Offset(t, i)].slots =
              [Slots(i) EXCEPT ![t.logical[i - 3].ext] =
                 disk[Offset(t, i)].slots[t.logical[i - 3].ext]]

(* verify reports as unallocated what no partition and no table occupies.   *)
VerifyCountsFreeSectors ==
  TablesApart =>
    Unallocated = Cardinality((0 .. Total - 1) \ (TableSectors \cup DataSectors))

(* The search for the first free sector passes over no room: no sector below *)
(* the one it ends at is free together with the sector_offset before it.    *)
HasRoomAt(r, n, s) ==
  /\ Pass(r, u, n, s) = s
  /\ (s - u.sector_offset .. s) \cap (TableSectors \cup DataSectors) = {}

NothingFreeBelow ==
  mode = "open" =>
    \A n \in {k \in 0..3 : t.primary[k].type = Empty}
             \cup (IF t.logical = << >> THEN {} ELSE {Partitions(Room(t)) - 1}) :
      LET r == IF n < 4 THEN t ELSE Room(t)
      IN  \A s \in Base(r, u, n) .. Min({LimitOf(r, n), FirstFree(r, u, n) - 1}) :
            ~ HasRoomAt(r, n, s)

(* The prompt for the first sector of a logical partition is repeated for   *)
(* ever only where none of its numbers stands for a sector with room: in    *)
(* sectors, where there is no room at all; in cylinders, where none begins  *)
(* at the lowest start or with a cylinder.  (There may be room elsewhere.)  *)
InReach(r, n, s) ==
  u.unit_flag => s = LowestStart(r, u, n) \/ s % CylinderSize = 0

RoomLeftIsOutOfReach ==
  mode = "stuck" =>
    LET r == Room(t)
        n == Partitions(r) - 1
    IN  \A s \in Base(r, u, n) .. LimitOf(r, n) :
          HasRoomAt(r, n, s) => ~ InReach(r, n, s)

(* What DosSpace sees of the tables.                                        *)
Part(tables, i) ==
  LET e == PartEntry(tables, i)
  IN  [first |-> e.begin, last |-> LastSector(tables, i),
       start |-> Offset(tables, i) + e.start, kind |-> e.type,
       active |-> e.active, inside |-> i > 3]

Parts(tables) ==
  {Part(tables, i) : i \in {j \in Numbers(tables) : IsData(PartEntry(tables, j))}}

Box(tables) ==
  IF tables.extended_offset = 0 THEN {}
  ELSE {[first |-> tables.extended_offset,
         last  |-> LastSector(tables, tables.ext_index)]}

Space == INSTANCE DosSpace WITH Kinds <- Types, box <- Box(t), parts <- Parts(t)

(* A new partition takes free sectors only, in the extended partition or    *)
(* outside it; deleting one touches no other, except that the extended      *)
(* partition takes the logical ones along; t, a and b change one partition  *)
(* and leave what it occupies.                                              *)
EditorImplementsDosSpace == Space!Spec

=============================================================================
