------------------------------ MODULE MapStore ------------------------------
(***************************************************************************)
(* The map on the disk and in memory: sessions of the editor one after the  *)
(* other, the w command (do_write_partition_map in src/pdisk.c and          *)
(* write_partition_map in src/partition_map.c) block by block, writes that  *)
(* fail (write_block in src/io.c) and a program that stops between two of   *)
(* them.  What happens in memory is MapEditor's.                            *)
(***************************************************************************)
EXTENDS MapEditor

CONSTANTS
  WritesMayFail,   \* whether write_block may return 0
  MaxWrites        \* bound on the w commands, over all sessions

VARIABLES
  blocks,      \* what each block of the device holds
  writeable,   \* whether the device is open for writing
  at,          \* index of the map block written next, 0 for block zero
  saved,       \* the entries last reported saved, none after a torn write
  writes       \* how many w commands there were

storeVars == <<disk, mode, next, map, blocks, writeable, at, saved, writes>>

(* A block of the map carries the number of entries of its map.  Of block   *)
(* zero only the driver table matters, of the others that they are no       *)
(* entries: the user's data, or a block whose first byte was cleared.       *)
BlockZero(drivers) == [drivers |-> drivers]
MapBlock(d, n)     == [entry |-> d, count |-> n]
Data               == [other |-> "data"]
Zapped             == [other |-> "zapped"]

HoldsEntryOf(b, n) == "count" \in DOMAIN b /\ b.count = n

(* What read_partition_map makes of the blocks: the map, or nothing when a  *)
(* block is no entry or counts differently from the first one.              *)
OnDisk(bs) ==
  IF /\ "count" \in DOMAIN bs[1]
     /\ \A i \in 1 .. bs[1].count :
          i \in DOMAIN bs /\ HoldsEntryOf(bs[i], bs[1].count)
  THEN [i \in 1 .. bs[1].count |-> bs[i].entry]
  ELSE << >>

Image(d) ==
  [b \in 0 .. d.media - 1 |->
     IF b = 0 THEN BlockZero(d.drivers)
     ELSE IF b <= Len(d.entries)
     THEN MapBlock(d.entries[b], Len(d.entries))
     ELSE Data]

Listing(m) == [i \in DOMAIN m.disk_order |-> m.data[m.disk_order[i]]]

StoreInit ==
  /\ Init
  /\ blocks = Image(disk)
  /\ writeable \in BOOLEAN
  /\ at = 0
  /\ saved = disk.entries
  /\ writes = 0

-----------------------------------------------------------------------------
(* Reading and editing do not write.                                        *)
Session ==
  /\ Next
  /\ UNCHANGED <<blocks, writeable, at, saved, writes>>

StartWrite ==
  /\ mode = "open"
  /\ map.changed
  /\ writeable
  /\ writes < MaxWrites
  /\ writes' = writes + 1
  /\ mode' = "writing"
  /\ at' = 0
  /\ UNCHANGED <<disk, next, map, blocks, writeable, saved>>

(* What opening the disk would find.                                        *)
DiskOf(bs) ==
  [media |-> disk.media, drivers |-> bs[0].drivers, entries |-> OnDisk(bs)]

(* The result of write_block is never looked at.                            *)
WriteBlock(b, contents) ==
  /\ \/ blocks' = [blocks EXCEPT ![b] = contents]
     \/ WritesMayFail /\ UNCHANGED blocks
  /\ disk' = DiskOf(blocks')

WriteBlockZero ==
  /\ mode = "writing"
  /\ at = 0
  /\ WriteBlock(0, BlockZero(map.drivers))
  /\ at' = 1
  /\ UNCHANGED <<mode, next, map, writeable, saved, writes>>

\* Fault: the blocks keep the number of entries of the map before.
WriteEntryOldCount ==
  /\ mode = "writing"
  /\ at \in DOMAIN map.disk_order
  /\ LET e == map.disk_order[at]
     IN  WriteBlock(map.disk_address[e], MapBlock(map.data[e], Len(saved)))
  /\ at' = at + 1
  /\ UNCHANGED <<mode, next, map, writeable, saved, writes>>

WriteEntry ==
  /\ mode = "writing"
  /\ at \in DOMAIN map.disk_order
  /\ LET e == map.disk_order[at]
     IN  WriteBlock(map.disk_address[e],
                    MapBlock(map.data[e], map.blocks_in_map))
  /\ at' = at + 1
  /\ UNCHANGED <<mode, next, map, writeable, saved, writes>>

LastAddress == map.disk_address[Last(map.disk_order)]

\* Fault: the last block of the map is zapped, not the one behind it.
FinishOnLastEntry ==
  /\ mode = "writing"
  /\ at > Len(map.disk_order)
  /\ IF map.maximum_in_map > 0 /\ LastAddress < map.maximum_in_map
     THEN WriteBlock(LastAddress, Zapped)
     ELSE UNCHANGED <<disk, blocks>>
  /\ mode' = "open"
  /\ at' = 0
  /\ saved' = Listing(map)
  /\ UNCHANGED <<next, map, writeable, writes>>

\* Fault: the block behind the map is zapped whatever it belongs to.
FinishWithoutLimit ==
  /\ mode = "writing"
  /\ at > Len(map.disk_order)
  /\ WriteBlock(LastAddress + 1, Zapped)
  /\ mode' = "open"
  /\ at' = 0
  /\ saved' = Listing(map)
  /\ UNCHANGED <<next, map, writeable, writes>>

(* The block behind the map is zapped, if there is room for it in the map,  *)
(* and the map is reported saved.                                           *)
FinishWrite ==
  /\ mode = "writing"
  /\ at > Len(map.disk_order)
  /\ IF map.maximum_in_map > 0 /\ LastAddress < map.maximum_in_map
     THEN WriteBlock(LastAddress + 1, Zapped)
     ELSE UNCHANGED <<disk, blocks>>
  /\ mode' = "open"
  /\ at' = 0
  /\ saved' = Listing(map)
  /\ UNCHANGED <<next, map, writeable, writes>>

(* The session ends, with q, because the device cannot be opened again, or  *)
(* because the program is killed at any point, and the next one begins.     *)
NewSession ==
  /\ mode' = "reading"
  /\ next' = 1
  /\ map' = EmptyMap(disk.media, disk.drivers)
  /\ writeable' \in BOOLEAN
  /\ at' = 0
  /\ saved' = IF mode = "writing" THEN << >> ELSE saved
  /\ UNCHANGED <<disk, blocks, writes>>

StoreNext ==
  \/ Session
  \/ StartWrite
  \/ WriteBlockZero
  \/ WriteEntry
  \/ FinishWrite
  \/ NewSession

StoreSpec == StoreInit /\ [][StoreNext]_storeVars

-----------------------------------------------------------------------------
(* Properties.                                                              *)

(* "The partition map has been saved successfully!": the disk holds the map *)
(* that was reported saved, through the sessions that follow, until the     *)
(* next write begins.                                                       *)
SavedIsOnDisk ==
  mode # "writing" /\ saved # << >> => disk.entries = saved

(* The w command refuses a map that is not marked as changed: nothing is    *)
(* lost by that, because such a map is the one on the disk.                 *)
UnchangedIsOnDisk ==
  mode = "open" /\ ~ map.changed => disk.entries = Listing(map)

(* A write that stops half way and changes the number of entries leaves the *)
(* old map, the new map or one that read_partition_map refuses, never a     *)
(* mixture that it accepts: every block carries the number of entries of    *)
(* its map.  Entries of a still older map may lie behind the old one.       *)
LeftOver(n) ==
  \E b \in DOMAIN blocks :
    b > Len(saved) /\ b >= at /\ HoldsEntryOf(blocks[b], n)

TornMapIsRefused ==
  /\ mode = "writing"
  /\ saved # << >>
  /\ map.blocks_in_map # Len(saved)
  => \/ disk.entries \in {saved, << >>, Listing(map)}
     \/ LeftOver(map.blocks_in_map)

(* The partitions the user leaves alone: they are where they were on the    *)
(* disk.                                                                    *)
Kept(e) ==
  /\ map.data[e].type \notin {MapType, FreeType}
  /\ \E i \in DOMAIN saved : Extent(saved[i]) = Extent(map.data[e])

KeptBlocks ==
  UNION {Extent(map.data[e]) : e \in {f \in Linked(map) : Kept(f)}}

(* "For any partition you changed the start or size of, writing out the map *)
(* causes all data on that partition to be LOST FOREVER" (pdisk.c:642): the *)
(* others keep theirs.                                                      *)
KeptPartitionsKeepTheirData ==
  [][mode = "writing" =>
       \A b \in KeptBlocks \cap DOMAIN blocks : blocks'[b] = blocks[b]]_storeVars

(* They do as long as no two entries overlap (those of a torn map may) and  *)
(* neither the entries nor the limit of their number have outgrown the      *)
(* partition of the map.                                                    *)
WithinMapPartition ==
  /\ NoOverlap
  /\ \E e \in MapEntries(map) :
       /\ map.data[e].start = 1
       /\ {map.maximum_in_map, map.blocks_in_map} \subseteq
            1 .. map.data[e].length

DataIsKeptWithinLimit ==
  [][mode = "writing" /\ WithinMapPartition =>
       \A b \in KeptBlocks \cap DOMAIN blocks : blocks'[b] = blocks[b]]_storeVars

=============================================================================
