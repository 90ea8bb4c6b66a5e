------------------------------ MODULE DosTable ------------------------------
(***************************************************************************)
(* The partition tables of fdisk.c in memory: the four primary entries in   *)
(* the first sector of the disk, and the chain of logical tables that       *)
(* starts at the extended partition.  Every routine that changes them is an *)
(* operator from tables to tables.                                          *)
(*                                                                          *)
(* The parallel arrays changed, buffers, offsets, part_table and            *)
(* ext_pointers are always shifted together from index 4 on; here one       *)
(* record holds what they say about one table, and "logical" is the         *)
(* sequence of these records, so that partition i (counted from 0) is       *)
(* logical[i - 3].  SECTORS per cylinder and the size of the disk are       *)
(* fixed; a disk has at most 1024 cylinders.                                *)
(***************************************************************************)
EXTENDS Integers, Sequences, FiniteSets, FiniteSetsExt, SequencesExt

CONSTANTS
  MaximumParts,    \* MAXIMUM_PARTS
  CylinderSize,    \* heads * sectors
  TrackSize,       \* sectors
  Cylinders,       \* cylinders
  Linux,           \* the type n gives to a partition
  OtherTypes       \* further types t can give

Empty    == 0
EXTENDED == 5

Total    == CylinderSize * Cylinders
NoSector == 2 * Total + CylinderSize   \* stands for 0xffffffff
Types    == {Linux} \cup OtherTypes

ASSUME GeometryAssumption ==
  /\ MaximumParts \in Nat /\ MaximumParts > 5
  /\ {CylinderSize, TrackSize, Cylinders} \subseteq Nat \ {0}
  /\ TrackSize <= CylinderSize

ASSUME TypesAssumption == {Empty, EXTENDED} \cap Types = {}

(* struct partition.  "begin" is what the cylinder, head and sector of the  *)
(* beginning stand for: a sector of the disk, whereas "start" counts from   *)
(* the table (from the extended partition, in a link).                      *)
Entry == [type : {Empty, EXTENDED} \cup Types, active : BOOLEAN,
          begin : Nat, start : Nat, size : Nat]

NoEntry == [type |-> Empty, active |-> FALSE,
            begin |-> 0, start |-> 0, size |-> 0]

(* A sector as a table: its four entries and whether its flag is right.     *)
NoSlots == [k \in 0..3 |-> NoEntry]
Blank   == [slots |-> NoSlots, flag |-> FALSE]

IsData(e) == e.type \notin {Empty, EXTENDED}

-----------------------------------------------------------------------------
(* Access by partition number, as through part_table, offsets and so on.    *)

Partitions(t)  == 4 + Len(t.logical)
Numbers(t)     == 0 .. Partitions(t) - 1
PartEntry(t, i) ==
  IF i < 4 THEN t.primary[i]
  ELSE t.logical[i - 3].slots[t.logical[i - 3].part]
ExtEntry(t, i) == t.logical[i - 3].slots[t.logical[i - 3].ext]
Offset(t, i)   == IF i < 4 THEN 0 ELSE t.logical[i - 3].offset
Extended(t)    == t.primary[t.ext_index]

SetPart(t, i, e) ==
  IF i < 4 THEN [t EXCEPT !.primary[i] = e, !.changed[i] = TRUE]
  ELSE LET l == t.logical[i - 3]
       IN  [t EXCEPT !.logical[i - 3] =
              [l EXCEPT !.slots[l.part] = e, !.changed = TRUE]]

\* Fault: the table is not marked.
SetLinkUnmarked(t, i, e) ==
  LET l == t.logical[i - 3]
  IN  [t EXCEPT !.logical[i - 3] = [l EXCEPT !.slots[l.ext] = e]]

SetLink(t, i, e) ==
  LET l == t.logical[i - 3]
  IN  [t EXCEPT !.logical[i - 3] =
         [l EXCEPT !.slots[l.ext] = e, !.changed = TRUE]]

\* A link that is cleared without a mark: what clear_partition alone does.
ClearLink(t, i) ==
  LET l == t.logical[i - 3]
  IN  [t EXCEPT !.logical[i - 3] = [l EXCEPT !.slots[l.ext] = NoEntry]]

-----------------------------------------------------------------------------
(* Reading.  In a logical table the first used entry that is no link is the *)
(* partition and the first link is the next one; what is missing is put in  *)
(* the first of the two first entries that is free.                         *)

FirstOf(S, default) == IF S = {} THEN default ELSE Min(S)

PartSlot(slots) ==
  LET links == {k \in 0..3 : slots[k].type = EXTENDED}
  IN  FirstOf({k \in 0..3 : IsData(slots[k])},
              IF FirstOf(links, 3) = 0 THEN 1 ELSE 0)

ExtSlot(slots) ==
  FirstOf({k \in 0..3 : slots[k].type = EXTENDED},
          IF PartSlot(slots) = 0 THEN 1 ELSE 0)

Logical(sector, address) ==
  [slots |-> sector.slots, flag |-> sector.flag,
   part |-> PartSlot(sector.slots), ext |-> ExtSlot(sector.slots),
   offset |-> address, changed |-> ~ sector.flag]

LastLink(l) == l.slots[l.ext]

(* The chain, one table longer in each step while there is a link to follow *)
(* and room for it.  A sector that cannot be read ends the program.         *)
MaxLogical == MaximumParts - 4

Chain(disk, extended) ==
  LET Link(s) == IF s = << >> THEN extended ELSE LastLink(Last(s))
      At(s)   == IF s = << >> THEN extended.start
                 ELSE extended.start + Link(s).start
      chain[n \in 0 .. MaxLogical] ==
        IF n = 0 THEN << >>
        ELSE LET s == chain[n - 1]
             IN  IF Len(s) = n - 1 /\ Link(s).type = EXTENDED
                    /\ At(s) \in DOMAIN disk
                 THEN Append(s, Logical(disk[At(s)], At(s)))
                 ELSE s
  IN  chain[MaxLogical]

\* "deleting partitions after": the link of the last table is cut.
Cut(s) ==
  IF Len(s) = MaxLogical /\ LastLink(Last(s)).type = EXTENDED
  THEN [s EXCEPT ![Len(s)] =
          [@ EXCEPT !.slots[@.ext] = NoEntry, !.changed = TRUE]]
  ELSE s

(* The first extended primary that leads anywhere is the one that counts.   *)
ExtIndex(primary) ==
  LET boxes == {i \in 0..3 : primary[i].type = EXTENDED}
      good  == {i \in boxes : primary[i].start # 0}
  IN  IF good # {} THEN Min(good) ELSE IF boxes # {} THEN Max(boxes) ELSE 0

ReadTables(disk) ==
  LET primary == disk[0].slots
      x       == ExtIndex(primary)
      leads   == primary[x].type = EXTENDED /\ primary[x].start # 0
      chain   == IF leads THEN Chain(disk, primary[x]) ELSE << >>
  IN  [primary |-> primary,
       changed |-> [i \in 0..3 |-> i = 3 /\ ~ disk[0].flag],
       logical |-> IF chain = << >> THEN chain ELSE Cut(chain),
       ext_index |-> x,
       extended_offset |-> IF leads THEN primary[x].start ELSE 0]

\* No table of the chain lies outside the disk.
CanRead(disk) ==
  LET t == ReadTables(disk)
      l == IF t.logical = << >> THEN Extended(t) ELSE LastLink(Last(t.logical))
  IN  l.type = EXTENDED => t.extended_offset = 0

-----------------------------------------------------------------------------
(* Deleting.                                                                *)

Unlinked(t, i) ==
  LET q == ExtEntry(t, i)
  IN  SetLink(t, i - 1, [q EXCEPT !.type = EXTENDED, !.active = FALSE])

\* Fault: the table is not marked.
RebasedUnmarked(t) ==
  LET l == t.logical[2]
      b == t.extended_offset
  IN  [t EXCEPT !.logical[2] =
         [l EXCEPT !.slots[l.part].start = @ + l.offset - b, !.offset = b]]

\* Fault: only the offset is moved.
RebasedAddress(t) ==
  [t EXCEPT !.logical[2].offset = t.extended_offset,
            !.logical[2].changed = TRUE]

\* The second logical partition moves into the first table's sector.
Rebased(t) ==
  LET l == t.logical[2]
      b == t.extended_offset
  IN  [t EXCEPT !.logical[2] =
         [l EXCEPT !.slots[l.part].start = @ + l.offset - b,
                   !.offset = b, !.changed = TRUE]]

Dropped(t, i) == [t EXCEPT !.logical = RemoveAt(@, i - 3)]

DeletePrimary(t, i) ==
  LET cleared == SetPart(t, i, NoEntry)
  IN  IF t.primary[i].type = EXTENDED /\ i = t.ext_index
      THEN [cleared EXCEPT !.logical = << >>, !.extended_offset = 0]
      ELSE cleared

DeletePartition(t, i) ==
  IF i < 4 THEN DeletePrimary(t, i)
  ELSE IF ExtEntry(t, i).type = Empty /\ i > 4
  THEN ClearLink(Dropped(t, i), i - 1)
  ELSE IF i > 4 THEN Dropped(Unlinked(t, i), i)
  ELSE IF Partitions(t) > 5 THEN Dropped(Rebased(t), 4)
  ELSE SetPart(t, 4, NoEntry)

-----------------------------------------------------------------------------
(* Where a new partition may begin.                                         *)

Round(u, n)  == IF u.unit_flag THEN (n \div CylinderSize) * CylinderSize ELSE n
CRound(u, n) == IF u.unit_flag THEN n \div CylinderSize + 1 ELSE n

LastSector(t, i) ==
  LET e == PartEntry(t, i) IN e.start + Offset(t, i) + e.size - 1

(* check_bounds, and for a primary partition the whole extended one.        *)
Firsts(t, u, n) ==
  [i \in Numbers(t) |->
     IF n < 4 /\ t.extended_offset # 0 /\ i = t.ext_index
     THEN Round(u, t.extended_offset)
     ELSE IF IsData(PartEntry(t, i)) THEN Round(u, PartEntry(t, i).begin)
     ELSE NoSector]

Lasts(t, n) ==
  [i \in Numbers(t) |->
     IF \/ n < 4 /\ t.extended_offset # 0 /\ i = t.ext_index
        \/ IsData(PartEntry(t, i))
     THEN LastSector(t, i) ELSE 0]

Base(t, u, n) == IF n < 4 THEN u.sector_offset
                 ELSE t.extended_offset + u.sector_offset
LimitOf(t, n) == IF n < 4 THEN Total - 1 ELSE LastSector(t, t.ext_index)

\* Fault: the rest of the cylinder behind a partition is skipped.
PassToCylinder(t, u, n, start) ==
  LET inside == {i \in Numbers(t) :
                   Firsts(t, u, n)[i] <= start /\ start <= Lasts(t, n)[i]}
  IN  IF inside = {} THEN start ELSE start + CylinderSize

(* One round of the search: past every table and partition it meets.        *)
Pass(t, u, n, start) ==
  LET first == Firsts(t, u, n)
      last  == Lasts(t, n)
      pass[i \in 0 .. Partitions(t)] ==
        IF i = 0 THEN start
        ELSE LET k == i - 1
                 b == pass[k]
                 s == IF b = Offset(t, k) THEN b + u.sector_offset ELSE b
             IN  IF first[k] <= s /\ s <= last[k]
                 THEN IF n < 4 THEN last[k] + 1 ELSE last[k] + u.sector_offset
                 ELSE s
  IN  pass[Partitions(t)]

(* Rounds until nothing moves any more, or nothing is left.                 *)
FirstFree(t, u, n) ==
  LET limit == LimitOf(t, n)
      round[k \in 0 .. Total] ==
        IF k = 0 THEN Base(t, u, n)
        ELSE LET s == round[k - 1]
             IN  IF s > limit THEN s ELSE Pass(t, u, n, s)
  IN  round[Total]

\* Fault: room for the table is left once more.
LowestStartLate(t, u, n) == FirstFree(t, u, n) + (IF n > 4 THEN 2 ELSE 0)

LowestStart(t, u, n) == FirstFree(t, u, n) + (IF n > 4 THEN 1 ELSE 0)

HasRoom(t, u, n) == FirstFree(t, u, n) <= LimitOf(t, n)

Later(a, b) == IF a < b THEN b ELSE a

(* The numbers the prompt for the first sector asks for, and the sector one *)
(* of them stands for.                                                      *)
Asked(t, u, n) ==
  CRound(u, LowestStart(t, u, n)) .. CRound(u, LimitOf(t, n))

Answered(t, u, n, v) ==
  IF u.unit_flag THEN Later((v - 1) * CylinderSize, LowestStart(t, u, n)) ELSE v

(* "Sector is already allocated": the search goes on from it, but not       *)
(* behind the limit, and the prompt is repeated.                            *)
Refused(t, u, n, s) ==
  LET next == Pass(t, u, n, s)
  IN  s # FirstFree(t, u, n) /\ next # s /\ next <= LimitOf(t, n)

(* The prompt is repeated for ever: every number it asks for is refused, or *)
(* the lowest it asks for is above the highest.                             *)
NoAnswer(t, u, n) ==
  /\ HasRoom(t, u, n)
  /\ \A v \in Asked(t, u, n) : Refused(t, u, n, Answered(t, u, n, v))

(* The starts the prompt accepts.  "typed" is what the user may type.       *)
(* Behind the limit there is no room: such an answer, or one from which the *)
(* search leads there, ends the command, and nothing has changed.           *)
Starts(t, u, n, typed) ==
  LET answers == (typed \cup {CRound(u, LowestStart(t, u, n))}) \cap Asked(t, u, n)
  IN  {s \in {Answered(t, u, n, v) : v \in answers} :
         /\ s <= LimitOf(t, n)
         /\ s = FirstFree(t, u, n) \/ Pass(t, u, n, s) = s}

(* A new partition ends before the next table and the next partition.       *)
StopLimit(t, u, n, start) ==
  LET first == Firsts(t, u, n)
  IN  Min({LimitOf(t, n)}
          \cup {Offset(t, i) - 1 : i \in {j \in Numbers(t) : start < Offset(t, j)}}
          \cup {first[i] - 1 : i \in {j \in Numbers(t) : start < first[j]}})

Stops(t, u, n, start, typed) ==
  LET limit == StopLimit(t, u, n, start)
      last(v) == IF ~ u.unit_flag THEN v
                 ELSE IF v * CylinderSize - 1 > limit THEN limit
                 ELSE v * CylinderSize - 1
  IN  IF CRound(u, start) = CRound(u, limit) THEN {start}
      ELSE {last(v) : v \in {w \in typed \cup {CRound(u, limit)} :
                               w \in CRound(u, start) .. CRound(u, limit)}}

-----------------------------------------------------------------------------
(* Adding.                                                                  *)

NewEntry(type, start, stop, offset) ==
  [type |-> type, active |-> FALSE, begin |-> start,
   start |-> start - offset, size |-> stop - start + 1]

NewLogical(address) ==
  [slots |-> NoSlots, flag |-> FALSE, part |-> 0, ext |-> 1,
   offset |-> address, changed |-> TRUE]

AddPrimary(t, n, start, stop) ==
  SetPart(t, n, NewEntry(Linux, start, stop, 0))

AddExtended(t, n, start, stop) ==
  [SetPart(t, n, NewEntry(EXTENDED, start, stop, 0)) EXCEPT
     !.ext_index = n, !.extended_offset = start,
     !.logical = << NewLogical(start) >>]

(* add_logical makes a new table unless the first one is still empty.       *)
NeedsTable(t) == Partitions(t) > 5 \/ PartEntry(t, 4).type # Empty
Room(t) ==
  IF NeedsTable(t) THEN [t EXCEPT !.logical = Append(@, NewLogical(0))] ELSE t

\* Fault: the link counts from the table it is in.
AddLogicalRelative(t, u, start, stop) ==
  LET n      == Partitions(t) - 1
      table  == start - u.sector_offset
      placed == IF n > 4 THEN [t EXCEPT !.logical[n - 3].offset = table] ELSE t
      added  == SetPart(placed, n,
                        NewEntry(Linux, start, stop, Offset(placed, n)))
  IN  IF n = 4 THEN added
      ELSE SetLink(added, n - 1,
                   NewEntry(EXTENDED, table, stop, Offset(t, n - 1)))

AddLogical(t, u, start, stop) ==
  LET n      == Partitions(t) - 1
      table  == start - u.sector_offset
      placed == IF n > 4 THEN [t EXCEPT !.logical[n - 3].offset = table] ELSE t
      added  == SetPart(placed, n,
                        NewEntry(Linux, start, stop, Offset(placed, n)))
  IN  IF n = 4 THEN added
      ELSE SetLink(added, n - 1,
                   NewEntry(EXTENDED, table, stop, t.extended_offset))

-----------------------------------------------------------------------------
(* Changing an entry.                                                       *)

ToggleActive(t, i) ==
  SetPart(t, i, [PartEntry(t, i) EXCEPT !.active = ~ @])

SetType(t, i, type) == SetPart(t, i, [PartEntry(t, i) EXCEPT !.type = type])

(* move_begin compares the new beginning with the size of the partition.    *)
MoveBegin(t, i, first) ==
  LET e   == PartEntry(t, i)
      new == first - Offset(t, i)
  IN  IF new = e.size THEN t
      ELSE SetPart(t, i, [e EXCEPT !.start = new,
                                   !.size = e.size + e.start - new])

=============================================================================
