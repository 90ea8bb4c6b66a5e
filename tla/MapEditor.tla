------------------------------ MODULE MapEditor ------------------------------
(***************************************************************************)
(* A session of pdisk/mac-fdisk on one disk: open_partition_map reads the   *)
(* map block by block, then the commands of edit() (src/pdisk.c) change it  *)
(* in memory.  What the user types is chosen by \E from small sets of       *)
(* numbers; a command the program refuses leaves the map alone.             *)
(***************************************************************************)
EXTENDS PartitionMap

CONSTANTS
  Disks,          \* what the disk may hold: [media, drivers, entries]
  DriverTables,   \* the driver tables an uncleared block zero may show
  MediaNumbers,   \* numbers typed for the size of the device
  BaseNumbers,    \* numbers typed for a first block
  LengthNumbers,  \* numbers typed for a length in blocks, k, M or G
  IndexNumbers,   \* numbers typed for a partition number
  SizeNumbers,    \* numbers typed for the size of the map
  CreateTypes,    \* types typed for the C command
  Bootstrap,      \* blocks of a bootstrap partition (1600)
  SmallMedia,     \* the largest media that gets the small map (128)
  SmallMap,       \* blocks of the small map (2)
  LargeMap,       \* blocks of the large map (63)
  Mallocs         \* how many allocations an operation may be granted

(* Every number is a u32, every disk a list of DPMEs.                       *)
ASSUME InputsAssumption ==
  /\ BaseNumbers \cup LengthNumbers \cup IndexNumbers \cup SizeNumbers
       \cup MediaNumbers \cup {4, Bootstrap, SmallMedia, SmallMap, LargeMap}
       \subseteq 0 .. U32 - 1
  /\ CreateTypes \subseteq PartitionType
  /\ Mallocs \subseteq Nat
  /\ DriverTables \subseteq SUBSET [block : Nat, size : Nat]

ASSUME DisksAssumption ==
  \A d \in Disks :
    /\ d.media \in 0 .. U32 - 1
    /\ d.drivers \in SUBSET [block : Nat, size : Nat]
    /\ d.entries \in Seq(DpmeSet)

VARIABLES
  disk,    \* what the disk holds
  mode,    \* "reading" in open_partition_map, "none" without a map, "open"
  next,    \* index of the map block read next
  map      \* the map in memory

vars == <<disk, mode, next, map>>

NoMap == EmptyMap(0, {})

Init ==
  /\ disk \in Disks
  /\ mode = "reading"
  /\ next = 1
  /\ map = EmptyMap(disk.media, disk.drivers)

-----------------------------------------------------------------------------
(* Opening the disk.                                                        *)

ReadEntry ==
  /\ mode = "reading"
  /\ next <= Len(disk.entries)
  /\ Unused(map) # {}
  /\ map' = AddDataToMap(map, disk.entries[next], next)
  /\ IF next >= Len(disk.entries)
     THEN mode' = "open" /\ UNCHANGED next
     ELSE next' = next + 1 /\ UNCHANGED mode
  /\ UNCHANGED disk

(* A read error, a wrong signature, an entry count that is not the first    *)
(* block's, or malloc returning NULL: the half read map is closed.          *)
GiveUpReading ==
  /\ mode = "reading"
  /\ mode' = "none"
  /\ next' = 1
  /\ map' = NoMap
  /\ UNCHANGED disk

-----------------------------------------------------------------------------
(* The commands.  One that is refused is a stuttering step.                 *)

Edit(m) ==
  /\ mode = "open"
  /\ m # map
  /\ map' = m
  /\ UNCHANGED <<disk, mode, next>>

InitPartitionMap ==
  \E n \in MediaNumbers, drivers \in DriverTables, mallocs \in Mallocs :
    LET media   == IF n < 4 THEN 4 ELSE n
        size    == IF media <= SmallMedia THEN SmallMap ELSE LargeMap
        created == CreatePartitionMap(media, drivers)
    IN  /\ mode \in {"none", "open"}
        /\ mallocs >= 4
        /\ map' = AddPartitionToMap(created, MapType, 1, size, mallocs - 4)
        /\ mode' = "open"
        /\ UNCHANGED <<disk, next>>

(* A number followed by 'p' stands for that partition's start or length.    *)
Bases   == BaseNumbers \cup {map.data[e].start : e \in ToSet(map.disk_order)}
Lengths == LengthNumbers \cup {map.data[e].length : e \in ToSet(map.disk_order)}

CreatePartition ==
  \E base \in Bases, length \in Lengths, mallocs \in Mallocs,
     type \in {UnixType} \cup (CreateTypes \ {FreeType, MapType}) :
    Edit(AddPartitionToMap(map, type, base, length, mallocs))

CreateBootstrap ==
  \E base \in Bases, mallocs \in Mallocs :
    Edit(AddPartitionToMap(map, BootstrapType, base, Bootstrap, mallocs))

DeletePartition ==
  \E index \in IndexNumbers, mallocs \in Mallocs :
    \E e \in FindEntryByDiskAddress(map, AsInt(index)) :
      Edit(DeletePartitionFromMap(map, e, mallocs))

Reorder(old_index, index) ==
  Edit(MoveEntryInMap(map, AsInt(old_index), AsInt(index)))

ChangeMapSize ==
  \E size \in SizeNumbers, mallocs \in Mallocs :
    Edit(ResizeMap(map, size, mallocs))

Next ==
  \/ ReadEntry
  \/ GiveUpReading
  \/ InitPartitionMap
  \/ CreatePartition
  \/ CreateBootstrap
  \/ DeletePartition
  \/ \E old_index, index \in IndexNumbers : Reorder(old_index, index)
  \/ ChangeMapSize

Spec == Init /\ [][Next]_vars

-----------------------------------------------------------------------------
(* Properties.                                                              *)

MapEntries(m) == {e \in Linked(m) : m.data[e].type = MapType}

(* The header and its entries have the types the C declarations of          *)
(* partition_map.h and dpme.h give them.                                    *)
TypeOK ==
  /\ mode \in {"reading", "none", "open"}
  /\ next \in Nat
  /\ map \in MapRecord

(* The two lists, the counter and the numbering tell the same story after   *)
(* every command: each list links every live entry exactly once,            *)
(* blocks_in_map counts them, and the entry printed as number i is the i-th *)
(* on disk (insert_in_disk_order and insert_in_base_order silently drop an  *)
(* entry they find no place for; delete_entry unlinks from both).           *)
ListsAgree ==
  LET n == Len(map.disk_order)
  IN  /\ map.blocks_in_map = n
      /\ Len(map.base_order) = n
      /\ Linked(map) = ToSet(map.disk_order)
      /\ Linked(map) = Entry \ Unused(map)
      /\ \A i \in 1 .. n : map.disk_address[map.disk_order[i]] = i

(* No block belongs to two entries: what add_partition_to_map carves out of *)
(* a free entry, what delete_partition_from_map merges and what resize_map  *)
(* rebuilds never share a block with another entry.                         *)
NoOverlap ==
  \A e, f \in Linked(map) : e # f => Apart(map.data[e], map.data[f])

(* The base list is ascending, although only insertions sort it and the     *)
(* add and combine routines change the start of an entry in place.          *)
BaseOrderAscends ==
  \A i \in 1 .. Len(map.base_order) - 1 :
    map.data[map.base_order[i]].start <= map.data[map.base_order[i + 1]].start

(* Two free entries never touch once the map is open: a request that fits   *)
(* in unused blocks fits in one free entry, the only place                  *)
(* add_partition_to_map looks for room.                                     *)
FreeSpaceInOnePiece ==
  \A e, f \in Linked(map) :
    /\ mode = "open"
    /\ IsFree(map, e)
    /\ IsFree(map, f)
    => ~ Contiguous(map, e, f)

(* add_partition_to_map keeps the count of entries within maximum_in_map,   *)
(* through every split, merge and resize.                                   *)
EntriesWithinMaximum ==
  map.maximum_in_map >= 0 => map.blocks_in_map <= map.maximum_in_map

(* A resize loses the map entry (the add after the delete is refused) only  *)
(* when maximum_in_map no longer is the length of the map entry, or when a  *)
(* driver lies inside the map.                                              *)
MapEntryLostOnlyWhenStale ==
  [][\A e \in MapEntries(map) :
       mode = "open" /\ MapEntries(map') = {} /\ ~ InitPartitionMap
       => \/ map.maximum_in_map # map.data[e].length
          \/ ContainsDriver(map, e)]_vars

(* The r command: the entry gets the number the user asked for (the last    *)
(* one when that is beyond the map), the others keep their order.           *)
Within(i, n) == IF i < 1 THEN 1 ELSE IF i > n THEN n ELSE i

ReorderGivesNumber ==
  [][\A old, new \in IndexNumbers :
       LET list == map.disk_order
           n    == Len(list)
       IN  map'.data = map.data /\ AsInt(old) \in 1 .. n /\ Reorder(old, new)
           => map'.disk_order = InsertAt(RemoveAt(list, old),
                                         Within(AsInt(new), n), list[old])]_vars

=============================================================================
