---------------------------- MODULE PartitionMap ----------------------------
(***************************************************************************)
(* The in-memory partition map of src/partition_map.c: one header          *)
(* (struct partition_map_header) and the entries it owns (struct           *)
(* partition_map, with the DPME block each entry points to).               *)
(*                                                                         *)
(* Every routine of the file that changes a map is an operator here, from  *)
(* the map before the call to the map after it.  The two doubly linked     *)
(* lists are sequences of entries: entries keep an identity, as the nodes  *)
(* do in C, because one entry is linked in both lists at once.  MapEditor  *)
(* makes the operators the actions of a session.                           *)
(*                                                                         *)
(* A definition marked "Fault" is never used: it is its neighbour below    *)
(* with a mistake in it, to see which property notices.                    *)
(***************************************************************************)
EXTENDS Integers, SequencesExt

CONSTANTS
  Entry,      \* the list nodes malloc can return
  U32,        \* how many values a u32 has (2^32 in the program)
  UserTypes   \* partition types that are none of the types named below

ASSUME U32Assumption == U32 \in Nat /\ U32 > 1
ASSUME UserTypesAssumption == "unallocated" \notin UserTypes

-----------------------------------------------------------------------------
(* The types partition_map.c knows.  BlankType is what is left of a type   *)
(* whose first character resize_map cleared.                               *)

FreeType      == "Apple_Free"
MapType       == "Apple_partition_map"
UnixType      == "Apple_UNIX_SVR2"
BootstrapType == "Apple_Bootstrap"
BlankType     == ""

PartitionType ==
  {FreeType, MapType, UnixType, BootstrapType, BlankType} \cup UserTypes

(* A u32 computation keeps its low bits; an int holds the same bits signed. *)
(* A long is as wide as both, as on the machines with such disks.           *)
Wrap(n)  == n % U32
AsInt(n) == IF n >= U32 \div 2 THEN n - U32 ELSE n

(* What the editor reads and writes of a DPME: the names, flags and logical *)
(* extents are formatting here.  NoData marks a node that is not allocated. *)
Dpme(type, start, length) == [type |-> type, start |-> start, length |-> length]
NoData == Dpme("unallocated", 0, 0)
End(d) == Wrap(d.start + d.length)

EmptyMap(media, drivers) ==
  [ disk_order     |-> << >>,
    base_order     |-> << >>,
    data           |-> [e \in Entry |-> NoData],
    disk_address   |-> [e \in Entry |-> 0],
    blocks_in_map  |-> 0,
    maximum_in_map |-> -1,
    media_size     |-> media,
    changed        |-> FALSE,
    drivers        |-> drivers ]

DpmeSet == [type : PartitionType, start : 0 .. U32 - 1, length : 0 .. U32 - 1]

MapRecord ==
  [ disk_order     : Seq(Entry),
    base_order     : Seq(Entry),
    data           : [Entry -> DpmeSet \cup {NoData}],
    disk_address   : [Entry -> Int],
    blocks_in_map  : Int,
    maximum_in_map : Int,
    media_size     : 0 .. U32 - 1,
    changed        : BOOLEAN,
    drivers        : SUBSET [block : Nat, size : Nat] ]

Linked(m) == ToSet(m.base_order)
Unused(m) == {e \in Entry : m.data[e] = NoData}

-----------------------------------------------------------------------------
(* The lists.  Both insertions walk the list for the first place between    *)
(* two neighbours whose keys admit the new one; an entry no place admits    *)
(* stays out of the list.                                                   *)

\* Fault: an equal key ends the search of an insertion without a place.
SlotsBetween(list, key, v) ==
  {i \in 1 .. Len(list) + 1 :
     /\ i > 1 => key[list[i - 1]] < v
     /\ i <= Len(list) => v < key[list[i]]}

Slots(list, key, v) ==
  {i \in 1 .. Len(list) + 1 :
     /\ i > 1 => key[list[i - 1]] <= v
     /\ i <= Len(list) => v <= key[list[i]]}

Link(list, key, e) ==
  LET slots == Slots(list, key, key[e])
  IN  IF slots = {} THEN list ELSE InsertAt(list, Min(slots), e)

Unlink(list, e) ==
  IF e \in ToSet(list)
  THEN RemoveAt(list, CHOOSE i \in DOMAIN list : list[i] = e)
  ELSE list

Starts(m) == [e \in Entry |-> m.data[e].start]

InsertInDiskOrder(m, e) ==
  [m EXCEPT !.disk_order = Link(@, m.disk_address, e)]

\* Fault: the key of the other list.
InsertByDiskAddress(m, e) ==
  [m EXCEPT !.base_order = Link(@, m.disk_address, e)]

InsertInBaseOrder(m, e) ==
  [m EXCEPT !.base_order = Link(@, Starts(m), e)]

RemoveFromDiskOrder(m, e) == [m EXCEPT !.disk_order = Unlink(@, e)]

FindEntryByDiskAddress(m, index) ==
  {e \in ToSet(m.disk_order) : m.disk_address[e] = index}

RenumberDiskAddresses(m) ==
  [m EXCEPT !.disk_address =
     [e \in Entry |->
        IF e \in ToSet(m.disk_order)
        THEN CHOOSE i \in DOMAIN m.disk_order : m.disk_order[i] = e
        ELSE @[e]]]

(* The node malloc returns is any one that is not in use.  Adding fails     *)
(* when none is left.  maximum_in_map is taken from the first map entry     *)
(* that is added, and only while it is negative.                            *)
NewNode(m) == CHOOSE e \in Unused(m) : TRUE

AddDataToMap(m, d, index) ==
  LET e      == NewNode(m)
      node   == [m EXCEPT !.data[e] = d, !.disk_address[e] = index]
      linked == InsertInBaseOrder(InsertInDiskOrder(node, e), e)
  IN  IF Unused(m) = {} THEN m
      ELSE [linked EXCEPT
              !.blocks_in_map = @ + 1,
              !.maximum_in_map =
                 IF @ < 0 /\ d.type = MapType THEN AsInt(d.length) ELSE @]

DeleteEntry(m, e) ==
  [RemoveFromDiskOrder(m, e) EXCEPT
     !.blocks_in_map = @ - 1,
     !.base_order = Unlink(@, e),
     !.data[e] = NoData,
     !.disk_address[e] = 0]

-----------------------------------------------------------------------------
(* Adding a partition.  "mallocs" is how many allocations the operation is  *)
(* granted before malloc returns NULL: one for the block of the partition,  *)
(* one for its node, two more for the left part of a split.                 *)

\* Fault: only the first block of the request is looked at.
IncludesStart(d, base, length) == d.start <= base /\ base < End(d)

Includes(d, base, length) == d.start <= base /\ Wrap(base + length) <= End(d)

Including(m, base, length) ==
  {i \in DOMAIN m.base_order :
     Includes(m.data[m.base_order[i]], base, length)}

Container(m, base, length) == m.base_order[Min(Including(m, base, length))]

WithinFree(m, base, length) ==
  /\ Including(m, base, length) # {}
  /\ m.data[Container(m, base, length)].type = FreeType

kReplace == 0
kAdd     == 1
kSplit   == 2

AddAction(d, base, length) ==
  IF d.start = base
  THEN IF d.length = length THEN kReplace ELSE kAdd
  ELSE IF End(d) = Wrap(base + length) THEN kAdd ELSE kSplit

\* Fault: the name of the type is misspelt.
LeftOfMisspelt(d, base) == Dpme("Apple_free", d.start, Wrap(base - d.start))

LeftOf(d, base) == Dpme(FreeType, d.start, Wrap(base - d.start))

RightOf(d, base, length) ==
  Dpme(FreeType, Wrap(base + length),
       Wrap(d.length - (length + (IF d.start = base THEN 0
                                  ELSE base - d.start))))

(* The free block that keeps the old entry. *)
Rest(d, base, length) ==
  IF d.start # base /\ End(d) = Wrap(base + length)
  THEN LeftOf(d, base)
  ELSE RightOf(d, base, length)

Limit(m) ==
  IF m.maximum_in_map < 0 THEN AsInt(m.media_size) ELSE m.maximum_in_map

\* Fault: the entries to come are not counted.
MapIsNotFull(m, act) == m.blocks_in_map <= Limit(m)

(* act is an enum without negative values, unsigned in the compilers the    *)
(* Makefile names, and so is the comparison.                                *)
MapIsBigEnough(m, act) == Wrap(m.blocks_in_map + act) <= Wrap(Limit(m))

\* Fault: the old entry is shrunk last, once nothing can fail any more.
PlaceNewThenShrink(m, cur, new, mallocs) ==
  LET d      == m.data[cur]
      index  == m.disk_address[cur]
      act    == AddAction(d, new.start, new.length)
      added  == AddDataToMap(m, new, index)
      both   == AddDataToMap(added, LeftOf(d, new.start), index)
      rest   == Rest(d, new.start, new.length)
  IN  IF act = kReplace THEN [m EXCEPT !.data[cur] = new]
      ELSE IF mallocs < 2 THEN m
      ELSE IF act = kAdd THEN [added EXCEPT !.data[cur] = rest]
      ELSE IF mallocs < 4 THEN added
      ELSE [both EXCEPT !.data[cur] = rest]

PlaceNew(m, cur, new, mallocs) ==
  LET d      == m.data[cur]
      index  == m.disk_address[cur]
      act    == AddAction(d, new.start, new.length)
      shrunk == [m EXCEPT !.data[cur] = Rest(d, new.start, new.length)]
      added  == AddDataToMap(shrunk, new, index)
  IN  IF act = kReplace THEN [m EXCEPT !.data[cur] = new]
      ELSE IF mallocs < 2 THEN shrunk
      ELSE IF act = kSplit /\ mallocs >= 4
      THEN AddDataToMap(added, LeftOf(d, new.start), index)
      ELSE added

AddPartitionToMap(m, type, base, length, mallocs) ==
  LET cur == Container(m, base, length)
      act == AddAction(m.data[cur], base, length)
      new == Dpme(type, base, length)
  IN  IF /\ WithinFree(m, base, length)
         /\ MapIsBigEnough(m, act)
         /\ mallocs >= 1
      THEN [RenumberDiskAddresses(PlaceNew(m, cur, new, mallocs))
              EXCEPT !.changed = TRUE]
      ELSE m

-----------------------------------------------------------------------------
(* Deleting a partition leaves a free one, which absorbs the free           *)
(* neighbours it touches.                                                   *)

Follows(m, p, e) ==
  \E i \in 1 .. Len(m.base_order) - 1 :
     m.base_order[i] = e /\ m.base_order[i + 1] = p

IsFree(m, e) == m.data[e].type = FreeType

Contiguous(m, e, p) == End(m.data[e]) = m.data[p].start

MergeNext(m, e) ==
  LET next == {p \in ToSet(m.base_order) :
                 Follows(m, p, e) /\ IsFree(m, p) /\ Contiguous(m, e, p)}
      p    == CHOOSE q \in next : TRUE
  IN  IF next = {} THEN m
      ELSE DeleteEntry(
             [m EXCEPT !.data[e] =
                Dpme(@.type, @.start, Wrap(@.length + m.data[p].length))], p)

MergePrev(m, e) ==
  LET prev == {p \in ToSet(m.base_order) :
                 Follows(m, e, p) /\ IsFree(m, p) /\ Contiguous(m, p, e)}
      p    == CHOOSE q \in prev : TRUE
  IN  IF prev = {} THEN m
      ELSE DeleteEntry(
             [m EXCEPT !.data[e] =
                Dpme(@.type, m.data[p].start,
                     Wrap(@.length + m.data[p].length))], p)

\* Fault: only the next entry is looked at.
CombineNext(m, e) == IF IsFree(m, e) THEN MergeNext(m, e) ELSE m

CombineEntry(m, e) ==
  IF IsFree(m, e) THEN MergePrev(MergeNext(m, e), e) ELSE m

\* Fault: only a driver that fills the partition is found.
IsDriver(m, e) ==
  \E drv \in m.drivers :
     m.data[e].start = drv.block /\ m.data[e].length = drv.size

ContainsDriver(m, e) ==
  \E drv \in m.drivers :
     /\ m.data[e].start <= drv.block
     /\ Wrap(drv.block + drv.size) <= End(m.data[e])

\* Fault: the map is not marked as changed.
DeleteUnmarked(m, e, mallocs) ==
  LET d     == m.data[e]
      freed == [m EXCEPT !.data[e] = Dpme(FreeType, @.start, @.length)]
  IN  IF d.type = MapType \/ ContainsDriver(m, e) \/ mallocs < 1
      THEN m
      ELSE RenumberDiskAddresses(CombineEntry(freed, e))

DeletePartitionFromMap(m, e, mallocs) ==
  LET d     == m.data[e]
      freed == [m EXCEPT !.data[e] = Dpme(FreeType, @.start, @.length)]
  IN  IF d.type = MapType \/ ContainsDriver(m, e) \/ mallocs < 1
      THEN m
      ELSE [RenumberDiskAddresses(CombineEntry(freed, e))
              EXCEPT !.changed = TRUE]

-----------------------------------------------------------------------------
(* Moving an entry in the map, and changing the size of the map itself.     *)

\* Fault: a move to a higher number lands one place early.
MoveEntryEarly(m, old_index, index) ==
  LET found == FindEntryByDiskAddress(m, old_index)
      cur   == CHOOSE e \in found : TRUE
      moved == [RemoveFromDiskOrder(m, cur) EXCEPT !.disk_address[cur] = index]
  IN  IF found = {} THEN m
      ELSE [RenumberDiskAddresses(InsertInDiskOrder(moved, cur))
              EXCEPT !.changed = TRUE]

MoveEntryInMap(m, old_index, index) ==
  LET found == FindEntryByDiskAddress(m, old_index)
      cur   == CHOOSE e \in found : TRUE
      moved == [RemoveFromDiskOrder(m, cur) EXCEPT
                  !.disk_address[cur] =
                     IF old_index < index THEN index + 1 ELSE index]
  IN  IF found = {} THEN m
      ELSE [RenumberDiskAddresses(InsertInDiskOrder(moved, cur))
              EXCEPT !.changed = TRUE]

MapSlots(m) ==
  {i \in DOMAIN m.base_order : m.data[m.base_order[i]].type = MapType}

MapEntry(m) == m.base_order[Min(MapSlots(m))]

FreeAfter(m, e) ==
  {p \in ToSet(m.base_order) : Follows(m, p, e) /\ IsFree(m, p)}

MayShrink(m, new_size) ==
  LET e    == MapEntry(m)
      incr == IF FreeAfter(m, e) = {} THEN 1 ELSE 0
  IN  new_size < m.data[e].length /\ AsInt(new_size) >= m.blocks_in_map + incr

\* Fault: the size of the free entry is not looked at.
MayGrowBeyond(m, new_size) ==
  LET e == MapEntry(m)
  IN  /\ new_size > m.data[e].length
      /\ \E p \in FreeAfter(m, e) : Contiguous(m, e, p)

MayGrow(m, new_size) ==
  LET e == MapEntry(m)
  IN  /\ new_size > m.data[e].length
      /\ \E p \in FreeAfter(m, e) :
            /\ Contiguous(m, e, p)
            /\ new_size <= Wrap(m.data[e].length + m.data[p].length)

(* Shrinking and growing both blank the type of the map entry, delete it as *)
(* if it were any partition and add a new map entry at block 1.             *)
ResizeMap(m, new_size, mallocs) ==
  LET e       == MapEntry(m)
      blanked == [m EXCEPT !.data[e] = Dpme(BlankType, @.start, @.length)]
      deleted == DeletePartitionFromMap(blanked, e, mallocs)
  IN  IF MapSlots(m) # {} /\ (MayShrink(m, new_size) \/ MayGrow(m, new_size))
      THEN AddPartitionToMap(deleted, MapType, 1, new_size, mallocs - 1)
      ELSE m

-----------------------------------------------------------------------------
(* A new map: one free entry for the whole media behind block zero, then an *)
(* entry for the map itself.  create_partition_map never clears the block   *)
(* zero buffer it mallocs, so the driver table is whatever was there.       *)

CreatePartitionMap(media, drivers) ==
  [AddDataToMap(EmptyMap(media, drivers),
                Dpme(FreeType, 1, Wrap(media - 1)), 1)
     EXCEPT !.changed = TRUE]

-----------------------------------------------------------------------------
(* The blocks a map describes.                                              *)

Extent(d) == d.start .. d.start + d.length - 1
Blocks(m) == UNION {Extent(m.data[e]) : e \in Linked(m)}

Apart(c, d) ==
  \/ c.start + c.length <= d.start
  \/ d.start + d.length <= c.start
  \/ c.length = 0
  \/ d.length = 0

=============================================================================
