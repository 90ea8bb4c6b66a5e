---------------------------- MODULE MapStoreProofs ----------------------------
(***************************************************************************)
(* Theorems about MapStore: what the disk holds, from write to write and    *)
(* through torn writes.                                                     *)
(***************************************************************************)
EXTENDS MapStore, MapEditorProofs, FiniteSetTheorems

(* What a block of the device may hold.                                     *)
BlockSet ==
  {BlockZero(drivers) : drivers \in SUBSET [block : Nat, size : Nat]}
    \cup {MapBlock(d, n) : d \in DpmeSet, n \in Nat}
    \cup {Data, Zapped}

EntryBlocks(bs) == {i \in DOMAIN bs : "count" \in DOMAIN bs[i]}

LEMMA MapBlockIsEntry ==
  ASSUME NEW d, NEW n
  PROVE  LET b == MapBlock(d, n)
         IN  "count" \in DOMAIN b /\ b.count = n /\ b.entry = d
BY DEF MapBlock

LEMMA OthersAreNoEntries ==
  /\ \A drivers : "count" \notin DOMAIN BlockZero(drivers)
  /\ "count" \notin DOMAIN Data
  /\ "count" \notin DOMAIN Zapped
BY DEF BlockZero, Data, Zapped

LEMMA BlockIsEntry ==
  ASSUME NEW b \in BlockSet, "count" \in DOMAIN b
  PROVE  b.entry \in DpmeSet /\ b.count \in Nat
<1>1. PICK d \in DpmeSet, n \in Nat : b = MapBlock(d, n)
  BY OthersAreNoEntries DEF BlockSet
<1> QED BY <1>1, MapBlockIsEntry

LEMMA OnDiskIsTyped ==
  ASSUME NEW media \in Nat, 2 <= media, NEW bs \in [0 .. media - 1 -> BlockSet]
  PROVE  OnDisk(bs) \in Seq(DpmeSet)
<1> DEFINE n == bs[1].count
           whole == /\ "count" \in DOMAIN bs[1]
                    /\ \A i \in 1 .. n : i \in DOMAIN bs /\ HoldsEntryOf(bs[i], n)
<1>1. CASE ~ whole
  BY <1>1 DEF OnDisk
<1>2. CASE whole
  <2>1. n \in Nat
    BY <1>2, BlockIsEntry
  <2>2. ASSUME NEW i \in 1 .. n PROVE bs[i].entry \in DpmeSet
    <3>1. i \in DOMAIN bs /\ "count" \in DOMAIN bs[i]
      BY <1>2 DEF HoldsEntryOf
    <3> QED BY <3>1, BlockIsEntry
  <2>3. OnDisk(bs) = [i \in 1 .. n |-> bs[i].entry]
    BY <1>2 DEF OnDisk
  <2>4. [i \in 1 .. n |-> bs[i].entry] \in [1 .. n -> DpmeSet]
    BY <2>2
  <2> QED BY <2>1, <2>3, <2>4
<1> QED BY <1>1, <1>2

(* Blocks that hold a whole map hold that map.                              *)
LEMMA OnDiskIs ==
  ASSUME NEW media \in Nat, NEW bs, DOMAIN bs = 0 .. media - 1,
         NEW list \in Seq(DpmeSet), Len(list) >= 1, Len(list) < media,
         \A i \in 1 .. Len(list) : bs[i] = MapBlock(list[i], Len(list))
  PROVE  OnDisk(bs) = list
<1> DEFINE n == Len(list)
<1>1. n \in Nat /\ DOMAIN list = 1 .. n
  BY LenProperties
<1>2. 1 \in 1 .. n
  BY <1>1
<1>3. "count" \in DOMAIN bs[1] /\ bs[1].count = n
  BY <1>2, MapBlockIsEntry
<1>4. ASSUME NEW i \in 1 .. n
      PROVE  /\ i \in DOMAIN bs
             /\ HoldsEntryOf(bs[i], n)
             /\ bs[i].entry = list[i]
  BY <1>1, MapBlockIsEntry DEF HoldsEntryOf
<1>5. OnDisk(bs) = [i \in 1 .. n |-> bs[i].entry]
  BY <1>3, <1>4 DEF OnDisk
<1>6. [i \in 1 .. n |-> bs[i].entry] = [i \in 1 .. n |-> list[i]]
  BY <1>4
<1>7. list = [i \in 1 .. n |-> list[i]]
  BY <1>1
<1> QED BY <1>5, <1>6, <1>7

-----------------------------------------------------------------------------
(* A node to allocate, and a device with more than block zero.              *)
Devices ==
  /\ Entry # {}
  /\ \A d \in Disks : 2 <= d.media

(* A write walks the entries one block after the other; a map that is open  *)
(* has an entry.                                                            *)
StoreInv ==
  /\ SessionInv
  /\ mode \in {"reading", "none", "open", "writing"}
  /\ mode \in {"open", "writing"} => Linked(map) # {}
  /\ mode = "writing" => at <= Len(map.disk_order) + 1
  /\ at \in Nat
  /\ \E d \in Disks : disk.media = d.media
  /\ blocks \in [0 .. disk.media - 1 -> BlockSet]
  /\ \E drivers \in SUBSET [block : Nat, size : Nat] : blocks[0] = BlockZero(drivers)

LEMMA DeviceHasBlocks ==
  ASSUME Devices, StoreInv
  PROVE  disk.media \in Nat /\ 2 <= disk.media
BY U32Assumption DEF Devices, StoreInv, SessionInv

LEMMA MapHasEntries ==
  ASSUME WellLinked(map), Linked(map) # {}
  PROVE  /\ map.disk_order \in Seq(Entry)
         /\ DOMAIN map.disk_order = 1 .. Len(map.disk_order)
         /\ Len(map.disk_order) \in Nat
         /\ Len(map.disk_order) >= 1
         /\ map.blocks_in_map = Len(map.disk_order)
<1>1. map.disk_order \in Seq(Entry) /\ ToSet(map.disk_order) # {}
  BY DEF WellLinked, MapRecord
<1>2. Len(map.disk_order) \in Nat /\ DOMAIN map.disk_order = 1 .. Len(map.disk_order)
  BY <1>1, LenProperties
<1>3. Len(map.disk_order) # 0
  BY <1>1, <1>2 DEF ToSet
<1> QED BY <1>1, <1>2, <1>3 DEF WellLinked

(* The block an entry is written to is the one of its place in the list.    *)
LEMMA EntriesAreNumbered ==
  ASSUME SessionInv, Linked(map) # {}
  PROVE  /\ \A i \in DOMAIN map.disk_order :
              /\ map.disk_order[i] \in Linked(map)
              /\ map.data[map.disk_order[i]] \in DpmeSet
              /\ map.disk_address[map.disk_order[i]] = i
         /\ LastAddress = Len(map.disk_order)
<1>1. WellLinked(map) /\ Numbered(map)
  BY DEF SessionInv
<1>2. /\ map.disk_order \in Seq(Entry)
      /\ DOMAIN map.disk_order = 1 .. Len(map.disk_order)
      /\ Len(map.disk_order) \in Nat
      /\ Len(map.disk_order) >= 1
  BY <1>1, MapHasEntries
<1>3. ASSUME NEW i \in DOMAIN map.disk_order
      PROVE  /\ map.disk_order[i] \in Linked(map)
             /\ map.data[map.disk_order[i]] \in DpmeSet
             /\ map.disk_address[map.disk_order[i]] = i
  <2>1. map.disk_order[i] \in Linked(map)
    BY <1>1, <1>2 DEF WellLinked, ToSet
  <2> QED BY <1>1, <1>2, <2>1, LinkedData DEF Numbered
<1>4. LastAddress = Len(map.disk_order)
  BY <1>2, <1>3 DEF LastAddress, Last
<1> QED BY <1>3, <1>4

LEMMA InitPartitionMapStarts ==
  ASSUME InitPartitionMap
  PROVE  /\ map'.changed = TRUE
         /\ map'.drivers \in DriverTables
         /\ Entry # {} => Linked(map') # {}
<1>1. PICK n \in MediaNumbers, drivers \in DriverTables, mallocs \in Mallocs :
        LET media   == IF n < 4 THEN 4 ELSE n
            size    == IF media <= SmallMedia THEN SmallMap ELSE LargeMap
            created == CreatePartitionMap(media, drivers)
        IN  map' = AddPartitionToMap(created, MapType, 1, size, mallocs - 4)
  BY DEF InitPartitionMap
<1> DEFINE media   == IF n < 4 THEN 4 ELSE n
           size    == IF media <= SmallMedia THEN SmallMap ELSE LargeMap
           created == CreatePartitionMap(media, drivers)
<1>2. /\ n \in 0 .. U32 - 1
      /\ 4 \in 0 .. U32 - 1
      /\ 1 \in 0 .. U32 - 1
      /\ SmallMap \in 0 .. U32 - 1
      /\ LargeMap \in 0 .. U32 - 1
      /\ mallocs - 4 \in Int
      /\ drivers \in SUBSET [block : Nat, size : Nat]
  BY InputsAssumption, U32Assumption
<1>3. media \in 1 .. U32 - 1
  BY <1>2, U32Assumption
<1>4. size \in 0 .. U32 - 1
  BY <1>2
<1>5. map' = AddPartitionToMap(created, MapType, 1, size, mallocs - 4)
  BY <1>1
<1> HIDE DEF media, size
<1>6. WellLinked(created)
  BY <1>2, <1>3, CreatedIsSound
<1>7. /\ created.changed = TRUE
      /\ created.drivers = drivers
      /\ Entry # {} => Linked(created) # {}
  BY <1>2, <1>3, CreatedIsMarked
<1> HIDE DEF created
<1>8. MapType \in PartitionType
  BY DEF PartitionType
<1>9. /\ Edited(created, map', Small(1) /\ Small(size))
      /\ map'.changed = TRUE
  BY <1>2, <1>4, <1>5, <1>6, <1>7, <1>8, AddPartitionKeeps, AddPartitionMarks
<1> QED BY <1>7, <1>9 DEF Edited, Keeps

(* A map that is open after a step of a session has an entry.               *)
LEMMA NextHasEntries ==
  ASSUME SessionInv, Next, Entry # {}, mode = "open" => Linked(map) # {},
         mode' = "open"
  PROVE  Linked(map') # {}
<1>1. CASE ReadEntry
  <2>1. WellLinked(map) /\ Unused(map) # {} /\ next \in Int
    BY <1>1 DEF ReadEntry, SessionInv
  <2>2. disk.entries[next] \in DpmeSet
    <3>1. map.disk_order \in Seq(Entry) /\ disk.entries \in Seq(DpmeSet)
      BY DEF SessionInv, WellLinked, MapRecord
    <3>2. Len(map.disk_order) \in Nat /\ Len(map.disk_order) = next - 1
      BY <1>1, <3>1, LenProperties DEF ReadEntry, SessionInv
    <3>3. next \in 1 .. Len(disk.entries)
      BY <1>1, <2>1, <3>1, <3>2, LenProperties DEF ReadEntry
    <3> QED BY <3>1, <3>3, LenProperties
  <2>3. map' = AddDataToMap(map, disk.entries[next], next)
    BY <1>1 DEF ReadEntry
  <2>4. NewNode(map) \in Linked(map')
    BY <2>1, <2>2, <2>3, AddDataToMapLinks
  <2> QED BY <2>4
<1>2. CASE GiveUpReading
  BY <1>2 DEF GiveUpReading
<1>3. CASE InitPartitionMap
  BY <1>3, InitPartitionMapStarts
<1>4. CASE SoundEdit
  BY <1>4 DEF SoundEdit, Edit, Edited, Keeps
<1> QED BY <1>1, <1>2, <1>3, <1>4, EveryStep

-----------------------------------------------------------------------------
LEMMA ImageIsTyped ==
  ASSUME NEW d, d.media \in Nat, 2 <= d.media,
         d.drivers \in SUBSET [block : Nat, size : Nat], d.entries \in Seq(DpmeSet)
  PROVE  /\ Image(d) \in [0 .. d.media - 1 -> BlockSet]
         /\ Image(d)[0] = BlockZero(d.drivers)
<1>1. Len(d.entries) \in Nat /\ \A b \in 1 .. Len(d.entries) : d.entries[b] \in DpmeSet
  BY LenProperties
<1>2. ASSUME NEW b \in 0 .. d.media - 1
      PROVE  (IF b = 0 THEN BlockZero(d.drivers)
              ELSE IF b <= Len(d.entries)
              THEN MapBlock(d.entries[b], Len(d.entries))
              ELSE Data) \in BlockSet
  <2>1. BlockZero(d.drivers) \in BlockSet /\ Data \in BlockSet
    BY DEF BlockSet
  <2>2. CASE b # 0 /\ b <= Len(d.entries)
    <3>1. d.entries[b] \in DpmeSet
      BY <1>1, <2>2
    <3> QED BY <1>1, <2>2, <3>1 DEF BlockSet
  <2> QED BY <2>1, <2>2
<1> QED BY <1>2 DEF Image

LEMMA InitStore ==
  ASSUME Devices
  PROVE  StoreInit => StoreInv
<1> SUFFICES ASSUME StoreInit PROVE StoreInv
  OBVIOUS
<1>1. Init /\ blocks = Image(disk) /\ at = 0 /\ disk \in Disks /\ mode = "reading"
  BY DEF StoreInit, Init
<1>2. SessionInv
  BY <1>1, InitLists DEF ListsInv
<1>3. disk.media \in Nat /\ 2 <= disk.media
  BY <1>1, <1>2, U32Assumption DEF Devices, SessionInv
<1>4. /\ blocks \in [0 .. disk.media - 1 -> BlockSet]
      /\ blocks[0] = BlockZero(disk.drivers)
  BY <1>1, <1>2, <1>3, ImageIsTyped DEF SessionInv
<1>5. \E drivers \in SUBSET [block : Nat, size : Nat] : blocks[0] = BlockZero(drivers)
  BY <1>2, <1>4 DEF SessionInv
<1>6. \E d \in Disks : disk.media = d.media
  BY <1>1
<1> QED BY <1>1, <1>2, <1>4, <1>5, <1>6 DEF StoreInv

(* Whether it goes through or not, the write of a block leaves a device of  *)
(* the same size, and the disk is again what it holds.                      *)
LEMMA WriteKeepsDevice ==
  ASSUME Devices, StoreInv, NEW b \in Nat, NEW contents \in BlockSet,
         b = 0 => \E drivers \in SUBSET [block : Nat, size : Nat] :
                    contents = BlockZero(drivers),
         WriteBlock(b, contents)
  PROVE  /\ blocks' \in [0 .. disk'.media - 1 -> BlockSet]
         /\ \E drivers \in SUBSET [block : Nat, size : Nat] :
              blocks'[0] = BlockZero(drivers)
         /\ disk' = DiskOf(blocks')
         /\ disk'.media = disk.media
         /\ disk'.drivers = blocks'[0].drivers
         /\ disk'.drivers \in SUBSET [block : Nat, size : Nat]
         /\ disk'.entries = OnDisk(blocks')
         /\ disk'.entries \in Seq(DpmeSet)
<1>1. disk.media \in Nat /\ 2 <= disk.media
  BY DeviceHasBlocks
<1>2. blocks \in [0 .. disk.media - 1 -> BlockSet]
  BY DEF StoreInv
<1>3. /\ \/ blocks' = [blocks EXCEPT ![b] = contents]
         \/ blocks' = blocks
      /\ disk' = DiskOf(blocks')
  BY DEF WriteBlock
<1>4. disk'.media = disk.media /\ disk'.drivers = blocks'[0].drivers
      /\ disk'.entries = OnDisk(blocks')
  BY <1>3 DEF DiskOf
<1>5. blocks' \in [0 .. disk.media - 1 -> BlockSet]
  BY <1>2, <1>3
<1>6. \E drivers \in SUBSET [block : Nat, size : Nat] : blocks'[0] = BlockZero(drivers)
  <2>1. 0 \in 0 .. disk.media - 1
    BY <1>1
  <2>2. CASE b = 0 /\ blocks' = [blocks EXCEPT ![b] = contents]
    <3>1. blocks'[0] = contents
      BY <1>2, <2>1, <2>2
    <3> QED BY <2>2, <3>1
  <2>3. CASE b # 0 \/ blocks' = blocks
    <3>1. blocks'[0] = blocks[0]
      BY <1>2, <1>3, <2>1, <2>3
    <3> QED BY <3>1 DEF StoreInv
  <2> QED BY <1>3, <2>2, <2>3
<1>7. disk'.drivers \in SUBSET [block : Nat, size : Nat]
  BY <1>4, <1>6 DEF BlockZero
<1>8. disk'.entries \in Seq(DpmeSet)
  BY <1>1, <1>4, <1>5, OnDiskIsTyped
<1> QED BY <1>3, <1>4, <1>5, <1>6, <1>7, <1>8

LEMMA WritersAreSound ==
  ASSUME Devices, StoreInv, mode = "writing"
  PROVE  /\ BlockZero(map.drivers) \in BlockSet
         /\ map.drivers \in SUBSET [block : Nat, size : Nat]
         /\ Zapped \in BlockSet
         /\ \A i \in DOMAIN map.disk_order :
              /\ i \in Nat
              /\ i # 0
              /\ map.disk_address[map.disk_order[i]] = i
              /\ MapBlock(map.data[map.disk_order[i]], map.blocks_in_map) \in BlockSet
         /\ LastAddress + 1 \in Nat
         /\ LastAddress + 1 # 0
<1>1. SessionInv /\ WellLinked(map) /\ Linked(map) # {}
  BY DEF StoreInv, SessionInv
<1>2. map.drivers \in SUBSET [block : Nat, size : Nat]
  BY <1>1 DEF WellLinked, MapRecord
<1>3. /\ DOMAIN map.disk_order = 1 .. Len(map.disk_order)
      /\ Len(map.disk_order) \in Nat
      /\ map.blocks_in_map = Len(map.disk_order)
  BY <1>1, MapHasEntries
<1>4. /\ \A i \in DOMAIN map.disk_order :
           /\ map.data[map.disk_order[i]] \in DpmeSet
           /\ map.disk_address[map.disk_order[i]] = i
      /\ LastAddress = Len(map.disk_order)
  BY <1>1, EntriesAreNumbered
<1>5. ASSUME NEW i \in DOMAIN map.disk_order
      PROVE  /\ i \in Nat
             /\ i # 0
             /\ map.disk_address[map.disk_order[i]] = i
             /\ MapBlock(map.data[map.disk_order[i]], map.blocks_in_map) \in BlockSet
  BY <1>3, <1>4 DEF BlockSet
<1>6. BlockZero(map.drivers) \in BlockSet /\ Zapped \in BlockSet
  BY <1>2 DEF BlockSet
<1> QED BY <1>2, <1>3, <1>4, <1>5, <1>6

LEMMA SessionStore ==
  ASSUME Devices, StoreInv, Session
  PROVE  StoreInv'
<1>1. /\ Next
      /\ blocks' = blocks
      /\ at' = at
      /\ disk' = disk
      /\ mode \in {"reading", "none", "open"}
      /\ mode' \in {"reading", "none", "open"}
  BY NextModes DEF Session
<1>2. SessionInv'
  BY <1>1, NextSession DEF StoreInv
<1>3. mode' = "open" => Linked(map') # {}
  BY <1>1, NextHasEntries DEF StoreInv, Devices
<1> QED BY <1>1, <1>2, <1>3 DEF StoreInv

LEMMA StartWriteStore ==
  ASSUME Devices, StoreInv, StartWrite
  PROVE  StoreInv'
<1>1. /\ mode = "open"
      /\ mode' = "writing"
      /\ at' = 0
      /\ disk' = disk
      /\ next' = next
      /\ map' = map
      /\ blocks' = blocks
  BY DEF StartWrite
<1>2. SessionInv'
  BY <1>1 DEF StoreInv, SessionInv
<1>3. 0 <= Len(map.disk_order) + 1
  BY <1>1, MapHasEntries DEF StoreInv, SessionInv
<1> QED BY <1>1, <1>2, <1>3 DEF StoreInv

(* What the steps of a write have in common.                                *)
LEMMA WriteStore ==
  ASSUME Devices, StoreInv, mode = "writing", NEW b \in Nat, NEW contents \in BlockSet,
         b = 0 => \E drivers \in SUBSET [block : Nat, size : Nat] :
                    contents = BlockZero(drivers),
         WriteBlock(b, contents) \/ UNCHANGED <<disk, blocks>>,
         mode' \in {"writing", "open"}, next' = next, map' = map, at' \in Nat,
         mode' = "writing" => at' <= Len(map.disk_order) + 1
  PROVE  StoreInv'
<1>1. /\ blocks' \in [0 .. disk'.media - 1 -> BlockSet]
      /\ \E drivers \in SUBSET [block : Nat, size : Nat] : blocks'[0] = BlockZero(drivers)
      /\ disk'.media = disk.media
      /\ disk'.drivers \in SUBSET [block : Nat, size : Nat]
      /\ disk'.entries \in Seq(DpmeSet)
  <2>1. CASE WriteBlock(b, contents)
    BY <2>1, WriteKeepsDevice
  <2>2. CASE UNCHANGED <<disk, blocks>>
    BY <2>2 DEF StoreInv, SessionInv
  <2> QED BY <2>1, <2>2
<1>2. SessionInv'
  BY <1>1 DEF StoreInv, SessionInv
<1>3. \E d \in Disks : disk'.media = d.media
  BY <1>1 DEF StoreInv
<1>4. Linked(map') # {}
  BY DEF StoreInv
<1>5. mode' = "writing" => at' <= Len(map'.disk_order) + 1
  OBVIOUS
<1> QED BY <1>1, <1>2, <1>3, <1>4, <1>5 DEF StoreInv

LEMMA WriteBlockZeroStore ==
  ASSUME Devices, StoreInv, WriteBlockZero
  PROVE  StoreInv'
<1>1. /\ mode = "writing"
      /\ WriteBlock(0, BlockZero(map.drivers))
      /\ at' = 1
      /\ mode' = "writing"
      /\ next' = next
      /\ map' = map
  BY DEF WriteBlockZero
<1>2. /\ BlockZero(map.drivers) \in BlockSet
      /\ map.drivers \in SUBSET [block : Nat, size : Nat]
  BY <1>1, WritersAreSound
<1>3. 1 <= Len(map.disk_order) + 1
  BY <1>1, MapHasEntries DEF StoreInv, SessionInv
<1> QED BY <1>1, <1>2, <1>3, WriteStore

LEMMA WriteEntryStore ==
  ASSUME Devices, StoreInv, WriteEntry
  PROVE  StoreInv'
<1> DEFINE e == map.disk_order[at]
           contents == MapBlock(map.data[e], map.blocks_in_map)
<1>1. /\ mode = "writing"
      /\ at \in DOMAIN map.disk_order
      /\ WriteBlock(map.disk_address[e], contents)
      /\ at' = at + 1
      /\ mode' = "writing"
      /\ next' = next
      /\ map' = map
  BY DEF WriteEntry
<1>2. /\ map.disk_address[e] = at
      /\ at \in Nat
      /\ at # 0
      /\ contents \in BlockSet
  BY <1>1, WritersAreSound
<1> HIDE DEF e, contents
<1>3. at + 1 <= Len(map.disk_order) + 1
  <2>1. /\ DOMAIN map.disk_order = 1 .. Len(map.disk_order)
        /\ Len(map.disk_order) \in Nat
    BY <1>1, MapHasEntries DEF StoreInv, SessionInv
  <2> QED BY <1>1, <2>1
<1> QED BY <1>1, <1>2, <1>3, WriteStore

LEMMA FinishWriteStore ==
  ASSUME Devices, StoreInv, FinishWrite
  PROVE  StoreInv'
<1>1. /\ mode = "writing"
      /\ WriteBlock(LastAddress + 1, Zapped) \/ UNCHANGED <<disk, blocks>>
      /\ at' = 0
      /\ mode' = "open"
      /\ next' = next
      /\ map' = map
  BY DEF FinishWrite
<1>2. LastAddress + 1 \in Nat /\ LastAddress + 1 # 0 /\ Zapped \in BlockSet
  BY <1>1, WritersAreSound
<1> QED BY <1>1, <1>2, WriteStore

LEMMA NewSessionStore ==
  ASSUME Devices, StoreInv, NewSession
  PROVE  StoreInv'
<1>1. /\ mode' = "reading"
      /\ next' = 1
      /\ map' = EmptyMap(disk.media, disk.drivers)
      /\ at' = 0
      /\ disk' = disk
      /\ blocks' = blocks
  BY DEF NewSession
<1>2. WellLinked(map') /\ Numbered(map') /\ Len(map'.disk_order) = 0
  BY <1>1, NoMapIsSound DEF StoreInv, SessionInv
<1>3. SessionInv'
  BY <1>1, <1>2 DEF StoreInv, SessionInv
<1> QED BY <1>1, <1>3 DEF StoreInv

LEMMA StoreAlways ==
  ASSUME Devices
  PROVE  StoreSpec => []StoreInv
<1>1. StoreInit => StoreInv
  BY InitStore
<1>2. StoreInv /\ [StoreNext]_storeVars => StoreInv'
  <2> SUFFICES ASSUME StoreInv, [StoreNext]_storeVars PROVE StoreInv'
    OBVIOUS
  <2>1. CASE UNCHANGED storeVars
    BY <2>1 DEF storeVars, StoreInv, SessionInv
  <2> QED BY <2>1, SessionStore, StartWriteStore, WriteBlockZeroStore, WriteEntryStore,
             FinishWriteStore, NewSessionStore DEF StoreNext
<1> QED BY <1>1, <1>2, PTL DEF StoreSpec

-----------------------------------------------------------------------------
(* No driver in any partition, and memory for every command: without them a *)
(* resize may blank the type of the map entry and not mark the map.         *)
NoDrivers ==
  /\ \A d \in Disks : d.drivers = {}
  /\ DriverTables \subseteq {{}}

EnoughMemory == \A mallocs \in Mallocs : mallocs >= 1

DriversInv ==
  /\ map.drivers = {}
  /\ disk.drivers = {}
  /\ blocks[0] = BlockZero({})

(* The map in memory is the one on the disk, as far as it has been read,    *)
(* until it is marked.                                                      *)
MarkedInv ==
  /\ mode = "reading" =>
       /\ ~ map.changed
       /\ \A i \in 1 .. next - 1 : map.data[map.disk_order[i]] = disk.entries[i]
  /\ mode = "open" /\ ~ map.changed => disk.entries = Listing(map)
  /\ mode = "writing" => map.changed

MarkedEdit == \E r : Edit(r) /\ Edited(map, r, SmallInputs) /\ Marks(map, r)

LEMMA EveryStepMarks ==
  ASSUME EnoughMemory, SessionInv, map.drivers = {}, Next
  PROVE  ReadEntry \/ GiveUpReading \/ InitPartitionMap \/ MarkedEdit
<1>0. WellLinked(map)
  BY DEF SessionInv
<1>1. ASSUME NEW r, NEW within, Edit(r), Edited(map, r, within), Marks(map, r),
             SmallInputs /\ Disjoint(map) => within
      PROVE  MarkedEdit
  BY <1>1 DEF MarkedEdit, Edited, Keeps
<1>2. CASE CreatePartition
  <2>1. PICK base \in Bases, length \in Lengths, mallocs \in Mallocs,
             type \in {UnixType} \cup (CreateTypes \ {FreeType, MapType}) :
          Edit(AddPartitionToMap(map, type, base, length, mallocs))
    BY <1>2 DEF CreatePartition
  <2>2. type \in PartitionType /\ mallocs \in Int
    BY InputsAssumption DEF PartitionType
  <2>3. /\ base \in 0 .. U32 - 1
        /\ length \in 0 .. U32 - 1
        /\ SmallInputs /\ Disjoint(map) => Small(base) /\ Small(length)
    BY <1>0, BasesAreTyped, LengthsAreTyped
  <2>4. /\ Edited(map, AddPartitionToMap(map, type, base, length, mallocs),
                  Small(base) /\ Small(length))
        /\ Marks(map, AddPartitionToMap(map, type, base, length, mallocs))
    BY <1>0, <2>2, <2>3, AddPartitionKeeps, AddPartitionMarks
  <2> QED BY <1>1, <2>1, <2>3, <2>4
<1>3. CASE CreateBootstrap
  <2>1. PICK base \in Bases, mallocs \in Mallocs :
          Edit(AddPartitionToMap(map, BootstrapType, base, Bootstrap, mallocs))
    BY <1>3 DEF CreateBootstrap
  <2>2. BootstrapType \in PartitionType /\ mallocs \in Int
    BY InputsAssumption DEF PartitionType
  <2>3. /\ base \in 0 .. U32 - 1
        /\ Bootstrap \in 0 .. U32 - 1
        /\ SmallInputs /\ Disjoint(map) => Small(base) /\ Small(Bootstrap)
    BY <1>0, BasesAreTyped, InputsAssumption DEF SmallInputs
  <2>4. /\ Edited(map, AddPartitionToMap(map, BootstrapType, base, Bootstrap, mallocs),
                  Small(base) /\ Small(Bootstrap))
        /\ Marks(map, AddPartitionToMap(map, BootstrapType, base, Bootstrap, mallocs))
    BY <1>0, <2>2, <2>3, AddPartitionKeeps, AddPartitionMarks
  <2> QED BY <1>1, <2>1, <2>3, <2>4
<1>4. CASE DeletePartition
  <2>1. PICK index \in IndexNumbers, mallocs \in Mallocs :
          \E e \in FindEntryByDiskAddress(map, AsInt(index)) :
            Edit(DeletePartitionFromMap(map, e, mallocs))
    BY <1>4 DEF DeletePartition
  <2>2. PICK e \in FindEntryByDiskAddress(map, AsInt(index)) :
          Edit(DeletePartitionFromMap(map, e, mallocs))
    BY <2>1
  <2>3. e \in Linked(map) /\ mallocs \in Int
    BY <1>0, InputsAssumption DEF FindEntryByDiskAddress, WellLinked
  <2>4. /\ Edited(map, DeletePartitionFromMap(map, e, mallocs), TRUE)
        /\ Marks(map, DeletePartitionFromMap(map, e, mallocs))
    BY <1>0, <2>3, DeletePartitionKeeps, DeletePartitionMarks
  <2> QED BY <1>1, <2>2, <2>4
<1>5. ASSUME NEW old_index \in IndexNumbers, NEW index \in IndexNumbers,
             Reorder(old_index, index)
      PROVE  MarkedEdit
  <2>1. /\ Edited(map, MoveEntryInMap(map, AsInt(old_index), AsInt(index)), TRUE)
        /\ Marks(map, MoveEntryInMap(map, AsInt(old_index), AsInt(index)))
    BY <1>0, AsIntIsInt, MoveEntryKeeps, MoveEntryMarks
  <2> QED BY <1>1, <1>5, <2>1 DEF Reorder
<1>6. CASE ChangeMapSize
  <2>1. PICK size \in SizeNumbers, mallocs \in Mallocs :
          Edit(ResizeMap(map, size, mallocs))
    BY <1>6 DEF ChangeMapSize
  <2>2. size \in 0 .. U32 - 1 /\ mallocs \in Int /\ mallocs >= 1
    BY InputsAssumption DEF EnoughMemory
  <2>3. /\ Edited(map, ResizeMap(map, size, mallocs), Small(1) /\ Small(size))
        /\ Marks(map, ResizeMap(map, size, mallocs))
    BY <1>0, <2>2, ResizeMapKeeps, ResizeMapMarks
  <2>4. SmallInputs => Small(1) /\ Small(size)
    BY DEF SmallInputs
  <2> QED BY <1>1, <2>1, <2>3, <2>4
<1> QED BY <1>2, <1>3, <1>4, <1>5, <1>6 DEF Next

(* The entry read next is appended to the disk list.                        *)
LEMMA ReadEntryAppends ==
  ASSUME SessionInv, ReadEntry
  PROVE  /\ next \in 1 .. Len(disk.entries)
         /\ Len(disk.entries) \in Nat
         /\ Len(map.disk_order) = next - 1
         /\ Len(map'.disk_order) = next
         /\ map'.disk_order \in Seq(Entry)
         /\ \A i \in 1 .. next - 1 :
              map'.data[map'.disk_order[i]] = map.data[map.disk_order[i]]
         /\ map'.data[map'.disk_order[next]] = disk.entries[next]
         /\ map'.drivers = map.drivers
         /\ map'.changed = map.changed
<1> DEFINE d == disk.entries[next]
           e == NewNode(map)
<1>1. /\ next \in 1 .. Len(disk.entries)
      /\ Len(map.disk_order) = next - 1
      /\ Len(disk.entries) \in Nat
      /\ d \in DpmeSet
  <2>1. map.disk_order \in Seq(Entry) /\ disk.entries \in Seq(DpmeSet)
    BY DEF SessionInv, WellLinked, MapRecord
  <2>2. Len(map.disk_order) \in Nat /\ Len(map.disk_order) = next - 1
    BY <2>1, LenProperties DEF SessionInv, ReadEntry
  <2>3. Len(disk.entries) \in Nat /\ next \in Nat /\ next <= Len(disk.entries)
    BY <2>1, LenProperties DEF SessionInv, ReadEntry
  <2>4. next \in 1 .. Len(disk.entries)
    BY <2>2, <2>3
  <2> QED BY <2>1, <2>2, <2>3, <2>4, LenProperties
<1>2. /\ WellLinked(map)
      /\ Numbered(map)
      /\ Unused(map) # {}
      /\ map' = AddDataToMap(map, d, next)
      /\ next \in Int
  BY DEF SessionInv, ReadEntry
<1>3. d = disk.entries[next]
  OBVIOUS
<1> HIDE DEF d
<1>4. /\ e \in Entry
      /\ e \notin Linked(map)
      /\ WellLinked(map')
      /\ map'.data[e] = d
      /\ \A f \in Linked(map) : map'.data[f] = map.data[f]
      /\ map'.disk_address[e] = next
      /\ \A f \in Linked(map) : map'.disk_address[f] = map.disk_address[f]
      /\ map'.disk_address \in [Entry -> Int]
      /\ map'.disk_order = Link(map.disk_order, map'.disk_address, e)
      /\ map'.drivers = map.drivers
      /\ map'.changed = map.changed
  BY <1>1, <1>2, AddDataToMapLinks
<1> HIDE DEF e
<1>5. /\ map.disk_order \in Seq(Entry)
      /\ Distinct(map.disk_order)
      /\ ToSet(map.disk_order) = Linked(map)
  BY <1>2 DEF WellLinked, MapRecord
<1>6. \A i \in 1 .. Len(map.disk_order) : map.disk_order[i] \in Linked(map)
  BY <1>5, LenProperties DEF ToSet
<1>7. \A i \in 1 .. Len(map.disk_order) : map'.disk_address[map.disk_order[i]] = i
  BY <1>2, <1>4, <1>6 DEF Numbered
<1>8. map'.disk_address[e] = Len(map.disk_order) + 1
  BY <1>1, <1>4
<1>9. \A i \in 1 .. Len(map.disk_order) + 1 :
        map'.disk_order[i] = IF i <= Len(map.disk_order) THEN map.disk_order[i] ELSE e
  <2> DEFINE key == map'.disk_address
             list == map.disk_order
  <2>1. /\ key \in [Entry -> Int]
        /\ key[e] = Len(list) + 1
        /\ \A i \in 1 .. Len(list) : key[list[i]] = i
        /\ list \in Seq(Entry)
        /\ Distinct(list)
        /\ e \notin ToSet(list)
        /\ e \in Entry
        /\ map'.disk_order = Link(list, key, e)
    BY <1>4, <1>5, <1>7, <1>8
  <2> HIDE DEF key, list
  <2>2. \A i \in 1 .. Len(list) + 1 :
          Link(list, key, e)[i] = IF i <= Len(list) THEN list[i] ELSE e
    BY <2>1, LinkAppends
  <2> QED BY <2>1, <2>2 DEF list
<1>10. Len(map'.disk_order) = Len(map.disk_order) + 1 /\ map'.disk_order \in Seq(Entry)
  BY <1>4, <1>5, LinkAdds
<1>11. Len(map'.disk_order) = next
  BY <1>1, <1>10
<1>12. ASSUME NEW i \in 1 .. next - 1
       PROVE  map'.data[map'.disk_order[i]] = map.data[map.disk_order[i]]
  <2>1. i \in 1 .. Len(map.disk_order) /\ i \in 1 .. Len(map.disk_order) + 1
    BY <1>1
  <2>2. map'.disk_order[i] = map.disk_order[i]
    BY <1>9, <2>1
  <2> QED BY <1>4, <1>6, <2>1, <2>2
<1>13. map'.disk_order[next] = e
  <2>1. next \in 1 .. Len(map.disk_order) + 1 /\ ~ (next <= Len(map.disk_order))
    BY <1>1
  <2> QED BY <1>9, <2>1
<1> QED BY <1>1, <1>3, <1>4, <1>10, <1>11, <1>12, <1>13

LEMMA InitMarked ==
  ASSUME Devices, NoDrivers
  PROVE  StoreInit => DriversInv /\ MarkedInv
<1> SUFFICES ASSUME StoreInit PROVE DriversInv /\ MarkedInv
  OBVIOUS
<1>1. /\ disk \in Disks
      /\ mode = "reading"
      /\ next = 1
      /\ map = EmptyMap(disk.media, disk.drivers)
      /\ blocks = Image(disk)
  BY DEF StoreInit, Init
<1>2. disk.drivers = {}
  BY <1>1 DEF NoDrivers
<1>3. /\ disk.media \in Nat
      /\ 2 <= disk.media
      /\ disk.entries \in Seq(DpmeSet)
  BY <1>1, DisksAssumption, U32Assumption DEF Devices
<1>4. blocks[0] = BlockZero({})
  BY <1>1, <1>2, <1>3, ImageIsTyped
<1>5. map.drivers = {} /\ map.changed = FALSE
  BY <1>1, <1>2 DEF EmptyMap
<1>6. DriversInv
  BY <1>2, <1>4, <1>5 DEF DriversInv
<1>7. MarkedInv
  BY <1>1, <1>5 DEF MarkedInv
<1> QED BY <1>6, <1>7

LEMMA SessionDrivers ==
  ASSUME NoDrivers, StoreInv, DriversInv, Session
  PROVE  DriversInv'
<1>1. /\ SessionInv
      /\ Next
      /\ blocks' = blocks
      /\ disk' = disk
      /\ map.drivers = {}
  BY NextModes DEF Session, StoreInv, DriversInv
<1>2. CASE ReadEntry
  BY <1>1, <1>2, ReadEntryAppends DEF DriversInv
<1>3. CASE GiveUpReading
  <2>1. map'.drivers = {}
    BY <1>3 DEF GiveUpReading, NoMap, EmptyMap
  <2> QED BY <1>1, <2>1 DEF DriversInv
<1>4. CASE InitPartitionMap
  <2>1. map'.drivers = {}
    BY <1>4, InitPartitionMapStarts DEF NoDrivers
  <2> QED BY <1>1, <2>1 DEF DriversInv
<1>5. CASE SoundEdit
  <2>1. map'.drivers = map.drivers
    BY <1>5 DEF SoundEdit, Edit, Edited, Keeps
  <2> QED BY <1>1, <2>1 DEF DriversInv
<1> QED BY <1>1, <1>2, <1>3, <1>4, <1>5, EveryStep

LEMMA SessionMarked ==
  ASSUME NoDrivers, EnoughMemory, StoreInv, DriversInv, MarkedInv, Session
  PROVE  MarkedInv'
<1>1. /\ SessionInv
      /\ Next
      /\ disk' = disk
      /\ map.drivers = {}
  BY NextModes DEF Session, StoreInv, DriversInv
<1>2. CASE ReadEntry
  <2>1. /\ next \in 1 .. Len(disk.entries)
        /\ Len(disk.entries) \in Nat
        /\ Len(map'.disk_order) = next
        /\ map'.disk_order \in Seq(Entry)
        /\ \A i \in 1 .. next - 1 :
             map'.data[map'.disk_order[i]] = map.data[map.disk_order[i]]
        /\ map'.data[map'.disk_order[next]] = disk.entries[next]
        /\ map'.changed = map.changed
    BY <1>1, <1>2, ReadEntryAppends
  <2>2. mode = "reading" /\ ~ map.changed
    BY <1>2 DEF ReadEntry, MarkedInv
  <2>3. ASSUME NEW i \in 1 .. next
        PROVE  map'.data[map'.disk_order[i]] = disk.entries[i]
    <3>1. CASE i = next
      BY <2>1, <3>1
    <3>2. CASE i # next
      <4>1. i \in 1 .. next - 1
        BY <2>1, <3>2
      <4> QED BY <2>1, <2>2, <4>1 DEF MarkedInv
    <3> QED BY <3>1, <3>2
  <2>4. CASE next >= Len(disk.entries)
    <3>1. mode' = "open"
      BY <1>2, <2>4 DEF ReadEntry
    <3>2. next = Len(disk.entries)
      BY <2>1, <2>4
    <3>3. disk.entries = [i \in 1 .. next |-> disk.entries[i]]
      BY <1>1, <3>2, LenProperties DEF SessionInv
    <3>4. DOMAIN map'.disk_order = 1 .. next
      BY <2>1, LenProperties
    <3>5. Listing(map') = [i \in 1 .. next |-> map'.data[map'.disk_order[i]]]
      BY <3>4 DEF Listing
    <3>6. [i \in 1 .. next |-> map'.data[map'.disk_order[i]]]
          = [i \in 1 .. next |-> disk.entries[i]]
      BY <2>3
    <3>7. disk'.entries = Listing(map')
      BY <1>1, <3>3, <3>5, <3>6
    <3> QED BY <1>1, <2>1, <3>1, <3>7 DEF MarkedInv
  <2>5. CASE ~ (next >= Len(disk.entries))
    <3>1. mode' = "reading" /\ next' = next + 1
      BY <1>2, <2>2, <2>5 DEF ReadEntry
    <3>2. \A i \in 1 .. next' - 1 : map'.data[map'.disk_order[i]] = disk'.entries[i]
      BY <1>1, <2>1, <2>3, <3>1
    <3> QED BY <1>1, <2>1, <2>2, <3>1, <3>2 DEF MarkedInv
  <2> QED BY <2>4, <2>5
<1>3. CASE GiveUpReading
  BY <1>3 DEF GiveUpReading, MarkedInv
<1>4. CASE InitPartitionMap
  <2>1. map'.changed = TRUE
    BY <1>4, InitPartitionMapStarts
  <2>2. mode' = "open"
    BY <1>4 DEF InitPartitionMap
  <2> QED BY <1>1, <2>1, <2>2 DEF MarkedInv
<1>5. CASE MarkedEdit
  <2>1. /\ mode' = mode
        /\ mode = "open"
        /\ map'.changed = TRUE
    BY <1>5 DEF MarkedEdit, Edit, Edited, Keeps, Marks
  <2> QED BY <1>1, <2>1 DEF MarkedInv
<1> QED BY <1>1, <1>2, <1>3, <1>4, <1>5, EveryStepMarks

(* Block zero is written as it was, and no other block holds drivers.       *)
LEMMA WriteKeepsDrivers ==
  ASSUME Devices, StoreInv, DriversInv, NEW b \in Nat, NEW contents,
         b = 0 => contents = BlockZero({}),
         WriteBlock(b, contents)
  PROVE  disk'.drivers = {} /\ blocks'[0] = BlockZero({})
<1>1. /\ blocks \in [0 .. disk.media - 1 -> BlockSet]
      /\ 0 \in 0 .. disk.media - 1
      /\ blocks[0] = BlockZero({})
  BY DeviceHasBlocks DEF StoreInv, DriversInv
<1>2. /\ blocks' = [blocks EXCEPT ![b] = contents] \/ blocks' = blocks
      /\ disk'.drivers = blocks'[0].drivers
  BY DEF WriteBlock, DiskOf
<1>3. blocks'[0] = BlockZero({})
  BY <1>1, <1>2
<1> QED BY <1>2, <1>3 DEF BlockZero

LEMMA DriversAlways ==
  ASSUME Devices, NoDrivers
  PROVE  StoreSpec => []DriversInv
<1>1. StoreInit => DriversInv
  BY InitMarked
<1>2. StoreInv /\ DriversInv /\ [StoreNext]_storeVars => DriversInv'
  <2> SUFFICES ASSUME StoreInv, DriversInv, [StoreNext]_storeVars PROVE DriversInv'
    OBVIOUS
  <2>1. CASE Session
    BY <2>1, SessionDrivers
  <2>2. CASE StartWrite
    BY <2>2 DEF StartWrite, DriversInv
  <2>3. CASE WriteBlockZero
    <3>1. disk'.drivers = {} /\ blocks'[0] = BlockZero({})
      BY <2>3, WriteKeepsDrivers DEF WriteBlockZero, DriversInv
    <3> QED BY <2>3, <3>1 DEF WriteBlockZero, DriversInv
  <2>4. CASE WriteEntry
    <3>1. at \in Nat /\ at # 0 /\ map.disk_address[map.disk_order[at]] = at
      BY <2>4, WritersAreSound DEF WriteEntry
    <3>2. disk'.drivers = {} /\ blocks'[0] = BlockZero({})
      BY <2>4, <3>1, WriteKeepsDrivers DEF WriteEntry
    <3> QED BY <2>4, <3>2 DEF WriteEntry, DriversInv
  <2>5. CASE FinishWrite
    <3>1. LastAddress + 1 \in Nat /\ LastAddress + 1 # 0
      BY <2>5, WritersAreSound DEF FinishWrite
    <3>2. CASE UNCHANGED <<disk, blocks>>
      BY <2>5, <3>2 DEF FinishWrite, DriversInv
    <3>3. CASE WriteBlock(LastAddress + 1, Zapped)
      <4>1. disk'.drivers = {} /\ blocks'[0] = BlockZero({})
        BY <3>1, <3>3, WriteKeepsDrivers
      <4> QED BY <2>5, <4>1 DEF FinishWrite, DriversInv
    <3> QED BY <2>5, <3>2, <3>3 DEF FinishWrite
  <2>6. CASE NewSession
    BY <2>6 DEF NewSession, EmptyMap, DriversInv
  <2>7. CASE UNCHANGED storeVars
    BY <2>7 DEF storeVars, DriversInv
  <2> QED BY <2>1, <2>2, <2>3, <2>4, <2>5, <2>6, <2>7 DEF StoreNext
<1> QED BY <1>1, <1>2, StoreAlways, PTL DEF StoreSpec

LEMMA MarkedAlways ==
  ASSUME Devices, NoDrivers, EnoughMemory
  PROVE  StoreSpec => []MarkedInv
<1>1. StoreInit => MarkedInv
  BY InitMarked
<1>2. StoreInv /\ DriversInv /\ MarkedInv /\ [StoreNext]_storeVars => MarkedInv'
  <2> SUFFICES ASSUME StoreInv, DriversInv, MarkedInv, [StoreNext]_storeVars
               PROVE  MarkedInv'
    OBVIOUS
  <2>1. CASE Session
    BY <2>1, SessionMarked
  <2>2. CASE StartWrite
    BY <2>2 DEF StartWrite, MarkedInv
  <2>3. CASE WriteBlockZero
    BY <2>3 DEF WriteBlockZero, MarkedInv
  <2>4. CASE WriteEntry
    BY <2>4 DEF WriteEntry, MarkedInv
  <2>5. CASE FinishWrite
    BY <2>5 DEF FinishWrite, MarkedInv
  <2>6. CASE NewSession
    BY <2>6 DEF NewSession, EmptyMap, MarkedInv
  <2>7. CASE UNCHANGED storeVars
    BY <2>7 DEF storeVars, MarkedInv, Listing
  <2> QED BY <2>1, <2>2, <2>3, <2>4, <2>5, <2>6, <2>7 DEF StoreNext
<1> QED BY <1>1, <1>2, StoreAlways, DriversAlways, PTL DEF StoreSpec

(* The w command may refuse a map that is not marked: it is the one on the  *)
(* disk, entry by entry, in every session, after any number of writes, torn *)
(* ones and failed ones included.                                           *)
THEOREM UnmarkedMapsAreOnDisk ==
  ASSUME Devices, NoDrivers, EnoughMemory
  PROVE  StoreSpec => []UnchangedIsOnDisk
<1>1. MarkedInv => UnchangedIsOnDisk
  BY DEF MarkedInv, UnchangedIsOnDisk
<1> QED BY <1>1, MarkedAlways, PTL

-----------------------------------------------------------------------------
(* The device has a block for every node malloc can return, and for every   *)
(* entry of the map it starts out with.                                     *)
NodesFit ==
  /\ IsFiniteSet(Entry)
  /\ \A d \in Disks : Cardinality(Entry) < d.media /\ Len(d.entries) < d.media

LEMMA ListFits ==
  ASSUME IsFiniteSet(Entry), NEW list \in Seq(Entry), Distinct(list)
  PROVE  Len(list) <= Cardinality(Entry)
<1> DEFINE n == Len(list)
<1>1. n \in Nat /\ list \in [1 .. n -> Entry]
  BY LenProperties
<1>2. list \in Injection(1 .. n, Entry)
  BY <1>1 DEF Injection, Distinct, IsInjective
<1>3. Cardinality(1 .. n) <= Cardinality(Entry)
  BY <1>2, FS_Injection
<1>4. Cardinality(1 .. n) = n
  BY <1>1, FS_Interval
<1> QED BY <1>3, <1>4

LEMMA MapFits ==
  ASSUME NodesFit, StoreInv
  PROVE  Len(map.disk_order) < disk.media
<1>1. PICK d \in Disks : disk.media = d.media
  BY DEF StoreInv
<1>2. map.disk_order \in Seq(Entry) /\ Distinct(map.disk_order)
  BY DEF StoreInv, SessionInv, WellLinked, MapRecord
<1>3. Len(map.disk_order) <= Cardinality(Entry) /\ Len(map.disk_order) \in Nat
  BY <1>2, ListFits, LenProperties DEF NodesFit
<1>4. Cardinality(Entry) \in Nat /\ Cardinality(Entry) < d.media /\ d.media \in Nat
  BY DisksAssumption, U32Assumption, FS_CardinalityType DEF NodesFit
<1> QED BY <1>1, <1>3, <1>4

Reliable == WritesMayFail = FALSE

(* Up to the block written next the device holds the new map, from there on *)
(* the old one.                                                             *)
NewBlocks ==
  /\ mode = "writing" => \A b \in 1 .. at - 1 :
                           blocks[b] = MapBlock(map.data[map.disk_order[b]],
                                                map.blocks_in_map)
  /\ mode = "writing" /\ at >= 1 => disk.entries = OnDisk(blocks)

OldBlocks ==
  saved # << >> =>
    /\ Len(saved) < disk.media
    /\ \A b \in 1 .. Len(saved) :
         (mode = "writing" => b >= at) => blocks[b] = MapBlock(saved[b], Len(saved))
    /\ mode # "writing" \/ at <= 1 => disk.entries = saved

SavedInv ==
  /\ saved \in Seq(DpmeSet)
  /\ NewBlocks
  /\ OldBlocks

LEMMA SavedHasEntries ==
  ASSUME saved \in Seq(DpmeSet), saved # << >>
  PROVE  Len(saved) \in Nat /\ Len(saved) >= 1
<1>1. Len(saved) \in Nat
  BY LenProperties
<1>2. Len(saved) # 0
  BY EmptySeq
<1> QED BY <1>1, <1>2

LEMMA InitSaved ==
  ASSUME Devices, NodesFit
  PROVE  StoreInit => SavedInv
<1> SUFFICES ASSUME StoreInit PROVE SavedInv
  OBVIOUS
<1>1. /\ disk \in Disks
      /\ mode = "reading"
      /\ blocks = Image(disk)
      /\ saved = disk.entries
  BY DEF StoreInit, Init
<1>2. saved \in Seq(DpmeSet) /\ Len(saved) < disk.media /\ disk.media \in Nat
  BY <1>1, DisksAssumption, U32Assumption DEF NodesFit
<1>3. ASSUME NEW b \in 1 .. Len(saved)
      PROVE  blocks[b] = MapBlock(saved[b], Len(saved))
  <2>1. b \in 0 .. disk.media - 1 /\ b # 0 /\ b <= Len(disk.entries)
    BY <1>1, <1>2, LenProperties
  <2> QED BY <1>1, <2>1 DEF Image
<1> QED BY <1>1, <1>2, <1>3 DEF SavedInv, NewBlocks, OldBlocks

(* A step that leaves the device, the disk and what is saved on it alone.   *)
LEMMA SessionSaved ==
  ASSUME SavedInv, Session
  PROVE  SavedInv'
<1>1. /\ mode # "writing"
      /\ mode' # "writing"
      /\ disk' = disk
      /\ blocks' = blocks
      /\ saved' = saved
  BY NextModes DEF Session
<1> QED BY <1>1 DEF SavedInv, NewBlocks, OldBlocks

LEMMA StartWriteSaved ==
  ASSUME SavedInv, StartWrite
  PROVE  SavedInv'
<1>1. /\ mode = "open"
      /\ at' = 0
      /\ disk' = disk
      /\ blocks' = blocks
      /\ saved' = saved
  BY DEF StartWrite
<1> QED BY <1>1 DEF SavedInv, NewBlocks, OldBlocks

LEMMA WriteBlockZeroSaved ==
  ASSUME Devices, NodesFit, Reliable, StoreInv, SavedInv, WriteBlockZero
  PROVE  SavedInv'
<1>1. /\ mode = "writing" /\ mode' = "writing"
      /\ at = 0 /\ at' = 1
      /\ blocks' = [blocks EXCEPT ![0] = BlockZero(map.drivers)]
      /\ disk' = DiskOf(blocks')
      /\ saved' = saved
      /\ map' = map
  BY DEF WriteBlockZero, WriteBlock, Reliable
<1>2. /\ DOMAIN blocks = 0 .. disk.media - 1
      /\ disk.media \in Nat
      /\ 2 <= disk.media
  BY DeviceHasBlocks DEF StoreInv
<1>3. DOMAIN blocks' = 0 .. disk.media - 1 /\ \A b \in 1 .. disk.media - 1 : blocks'[b] = blocks[b]
  BY <1>1, <1>2
<1>4. disk'.media = disk.media /\ disk'.entries = OnDisk(blocks')
  BY <1>1 DEF DiskOf
<1>5. NewBlocks'
  BY <1>1, <1>4 DEF NewBlocks
<1>6. OldBlocks'
  <2> SUFFICES ASSUME saved # << >> PROVE OldBlocks'
    BY <1>1 DEF OldBlocks
  <2>1. Len(saved) \in Nat /\ Len(saved) >= 1
    BY SavedHasEntries DEF SavedInv
  <2>2. Len(saved) < disk.media
    BY DEF SavedInv, OldBlocks
  <2>3. ASSUME NEW b \in 1 .. Len(saved)
        PROVE  blocks'[b] = MapBlock(saved[b], Len(saved))
    <3>1. b \in 1 .. disk.media - 1 /\ b >= at
      BY <1>1, <1>2, <2>1, <2>2
    <3> QED BY <1>3, <3>1 DEF SavedInv, OldBlocks
  <2>4. OnDisk(blocks') = saved
    BY <1>2, <1>3, <2>1, <2>2, <2>3, OnDiskIs DEF SavedInv
  <2> QED BY <1>1, <1>4, <2>2, <2>3, <2>4 DEF OldBlocks
<1> QED BY <1>1, <1>5, <1>6 DEF SavedInv

LEMMA WriteEntrySaved ==
  ASSUME Devices, NodesFit, Reliable, StoreInv, SavedInv, WriteEntry
  PROVE  SavedInv'
<1> DEFINE e == map.disk_order[at]
           contents == MapBlock(map.data[e], map.blocks_in_map)
<1>1. /\ mode = "writing" /\ mode' = "writing"
      /\ at \in DOMAIN map.disk_order
      /\ at' = at + 1
      /\ blocks' = [blocks EXCEPT ![map.disk_address[e]] = contents]
      /\ disk' = DiskOf(blocks')
      /\ saved' = saved
      /\ map' = map
  BY DEF WriteEntry, WriteBlock, Reliable
<1>2. map.disk_address[e] = at /\ at \in Nat /\ at # 0
  BY <1>1, WritersAreSound
<1>3. /\ DOMAIN blocks = 0 .. disk.media - 1
      /\ disk.media \in Nat
  BY DeviceHasBlocks DEF StoreInv
<1>4. at \in 0 .. disk.media - 1
  <2>1. at \in 1 .. Len(map.disk_order) /\ Len(map.disk_order) \in Nat
    BY <1>1, MapHasEntries DEF StoreInv, SessionInv
  <2> QED BY <1>3, <2>1, MapFits
<1>5. contents = MapBlock(map.data[map.disk_order[at]], map.blocks_in_map)
  OBVIOUS
<1> HIDE DEF e, contents
<1>6. /\ blocks'[at] = contents
      /\ \A b \in DOMAIN blocks : b # at => blocks'[b] = blocks[b]
  BY <1>1, <1>2, <1>3, <1>4
<1>7. disk'.media = disk.media /\ disk'.entries = OnDisk(blocks')
  BY <1>1 DEF DiskOf
<1>8. NewBlocks'
  <2>1. ASSUME NEW b \in 1 .. at
        PROVE  blocks'[b] = MapBlock(map.data[map.disk_order[b]], map.blocks_in_map)
    <3>1. CASE b = at
      BY <3>1, <1>5, <1>6
    <3>2. CASE b # at
      <4>1. b \in 1 .. at - 1 /\ b \in DOMAIN blocks
        BY <3>2, <1>2, <1>3, <1>4
      <4> QED BY <1>1, <1>6, <3>2, <4>1 DEF SavedInv, NewBlocks
    <3> QED BY <3>1, <3>2
  <2>2. at' - 1 = at
    BY <1>1, <1>2
  <2> QED BY <1>1, <1>7, <2>1, <2>2 DEF NewBlocks
<1>9. OldBlocks'
  <2> SUFFICES ASSUME saved # << >> PROVE OldBlocks'
    BY <1>1 DEF OldBlocks
  <2>1. Len(saved) \in Nat /\ Len(saved) < disk.media
    BY SavedHasEntries DEF SavedInv, OldBlocks
  <2>2. ASSUME NEW b \in 1 .. Len(saved), b >= at + 1
        PROVE  blocks'[b] = MapBlock(saved[b], Len(saved))
    <3>1. b \in DOMAIN blocks /\ b # at /\ b >= at
      BY <1>2, <1>3, <2>1, <2>2
    <3> QED BY <1>6, <3>1 DEF SavedInv, OldBlocks
  <2>3. ~ (at' <= 1)
    BY <1>1, <1>2
  <2> QED BY <1>1, <1>7, <2>1, <2>2, <2>3 DEF OldBlocks
<1> QED BY <1>1, <1>8, <1>9 DEF SavedInv

LEMMA ListingIsTyped ==
  ASSUME SessionInv, Linked(map) # {}
  PROVE  /\ Listing(map) \in Seq(DpmeSet)
         /\ Len(Listing(map)) = Len(map.disk_order)
         /\ \A i \in 1 .. Len(map.disk_order) :
              Listing(map)[i] = map.data[map.disk_order[i]]
<1>1. /\ DOMAIN map.disk_order = 1 .. Len(map.disk_order)
      /\ Len(map.disk_order) \in Nat
  BY MapHasEntries DEF SessionInv
<1>2. \A i \in 1 .. Len(map.disk_order) : map.data[map.disk_order[i]] \in DpmeSet
  BY <1>1, EntriesAreNumbered
<1>3. Listing(map) = [i \in 1 .. Len(map.disk_order) |-> map.data[map.disk_order[i]]]
  BY <1>1 DEF Listing
<1>4. Listing(map) \in [1 .. Len(map.disk_order) -> DpmeSet]
  BY <1>2, <1>3
<1> QED BY <1>1, <1>3, <1>4, LenProperties

LEMMA FinishWriteSaved ==
  ASSUME Devices, NodesFit, Reliable, StoreInv, SavedInv, FinishWrite
  PROVE  SavedInv'
<1> DEFINE n == Len(map.disk_order)
<1>1. /\ mode = "writing" /\ mode' = "open"
      /\ at > n
      /\ \/ blocks' = [blocks EXCEPT ![LastAddress + 1] = Zapped]
              /\ disk' = DiskOf(blocks')
         \/ blocks' = blocks /\ disk' = disk
      /\ saved' = Listing(map)
  BY DEF FinishWrite, WriteBlock, Reliable
<1>2. SessionInv /\ WellLinked(map) /\ Linked(map) # {}
  BY <1>1 DEF StoreInv, SessionInv
<1>3. n \in Nat /\ n >= 1 /\ map.blocks_in_map = n
  BY <1>2, MapHasEntries
<1>4. LastAddress = n
  BY <1>2, EntriesAreNumbered
<1>5. at = n + 1
  BY <1>1, <1>3 DEF StoreInv
<1>6. /\ DOMAIN blocks = 0 .. disk.media - 1
      /\ disk.media \in Nat
      /\ n < disk.media
  BY DeviceHasBlocks, MapFits DEF StoreInv
<1>7. /\ saved' \in Seq(DpmeSet)
      /\ Len(saved') = n
      /\ \A b \in 1 .. n : saved'[b] = map.data[map.disk_order[b]]
  BY <1>1, <1>2, ListingIsTyped
<1>8. disk'.media = disk.media /\ disk'.entries = OnDisk(blocks')
  BY <1>1, <1>3, <1>5 DEF DiskOf, SavedInv, NewBlocks
<1>9. DOMAIN blocks' = 0 .. disk.media - 1 /\ \A b \in 1 .. n : blocks'[b] = blocks[b]
  BY <1>1, <1>3, <1>4, <1>6
<1> HIDE DEF n
<1>10. ASSUME NEW b \in 1 .. n PROVE blocks'[b] = MapBlock(saved'[b], n)
  <2>1. b \in 1 .. at - 1
    BY <1>3, <1>5
  <2>2. blocks[b] = MapBlock(map.data[map.disk_order[b]], map.blocks_in_map)
    BY <1>1, <2>1 DEF SavedInv, NewBlocks
  <2> QED BY <1>3, <1>7, <1>9, <2>2
<1>11. OnDisk(blocks') = saved'
  BY <1>3, <1>6, <1>7, <1>9, <1>10, OnDiskIs, SMTT(60)
<1>12. NewBlocks' /\ OldBlocks'
  BY <1>1, <1>6, <1>7, <1>8, <1>10, <1>11 DEF NewBlocks, OldBlocks
<1> QED BY <1>7, <1>12 DEF SavedInv

LEMMA NewSessionSaved ==
  ASSUME SavedInv, NewSession
  PROVE  SavedInv'
<1>1. /\ mode' = "reading"
      /\ disk' = disk
      /\ blocks' = blocks
      /\ saved' = IF mode = "writing" THEN << >> ELSE saved
  BY DEF NewSession
<1>2. CASE mode = "writing"
  <2>1. saved' = << >> /\ << >> \in Seq(DpmeSet)
    BY <1>1, <1>2
  <2> QED BY <1>1, <2>1 DEF SavedInv, NewBlocks, OldBlocks
<1>3. CASE mode # "writing"
  BY <1>1, <1>3 DEF SavedInv, NewBlocks, OldBlocks
<1> QED BY <1>2, <1>3

LEMMA SavedAlways ==
  ASSUME Devices, NodesFit, Reliable
  PROVE  StoreSpec => [](StoreInv /\ SavedInv)
<1>1. StoreInit => SavedInv
  BY InitSaved
<1>2. StoreInv /\ SavedInv /\ [StoreNext]_storeVars => SavedInv'
  <2> SUFFICES ASSUME StoreInv, SavedInv, [StoreNext]_storeVars PROVE SavedInv'
    OBVIOUS
  <2>1. CASE UNCHANGED storeVars
    BY <2>1 DEF storeVars, SavedInv, NewBlocks, OldBlocks
  <2> QED BY <2>1, SessionSaved, StartWriteSaved, WriteBlockZeroSaved, WriteEntrySaved,
             FinishWriteSaved, NewSessionSaved DEF StoreNext
<1> QED BY <1>1, <1>2, StoreAlways, PTL DEF StoreSpec

(* A map that was reported saved is what opening the disk finds, block by   *)
(* block, through all the sessions that follow, until the next write begins:*)
(* neither the block zapped behind the map nor entries of an older, longer  *)
(* map show through.  The device must really write what it is given.        *)
THEOREM SavedMapsAreOnDisk ==
  ASSUME Devices, NodesFit, Reliable
  PROVE  StoreSpec => []SavedIsOnDisk
<1>1. SavedInv => SavedIsOnDisk
  BY DEF SavedInv, OldBlocks, SavedIsOnDisk
<1> QED BY <1>1, SavedAlways, PTL

(* A write cut short between two blocks: a map with another number of       *)
(* entries is the old one, the new one, or refused when the disk is opened, *)
(* whatever the entries of both maps are, unless the blocks behind the old  *)
(* map still hold entries of a map with as many entries as the new one.     *)
THEOREM TornMapsAreRefused ==
  ASSUME Devices, NodesFit, Reliable
  PROVE  StoreSpec => []TornMapIsRefused
<1>1. ASSUME StoreInv, SavedInv, mode = "writing", saved # << >>,
             map.blocks_in_map # Len(saved)
      PROVE  \/ disk.entries \in {saved, << >>, Listing(map)}
             \/ LeftOver(map.blocks_in_map)
  <2> DEFINE n == map.blocks_in_map
  <2>1. SessionInv /\ WellLinked(map) /\ Linked(map) # {}
    BY <1>1 DEF StoreInv, SessionInv
  <2>2. n \in Nat /\ n >= 1 /\ n = Len(map.disk_order)
    BY <2>1, MapHasEntries
  <2>3. /\ DOMAIN blocks = 0 .. disk.media - 1
        /\ disk.media \in Nat
        /\ n < disk.media
        /\ at \in Nat
        /\ at <= n + 1
    BY <1>1, <2>2, DeviceHasBlocks, MapFits DEF StoreInv
  <2>4. Len(saved) \in Nat
    BY <1>1, LenProperties DEF SavedInv
  <2> HIDE DEF n
  <2>5. CASE at <= 1
    BY <1>1, <2>5 DEF SavedInv, OldBlocks
  <2>6. CASE at > 1
    <3>1. /\ disk.entries = OnDisk(blocks)
          /\ \A b \in 1 .. at - 1 :
               blocks[b] = MapBlock(map.data[map.disk_order[b]], n)
      BY <1>1, <2>3, <2>6 DEF SavedInv, NewBlocks, n
    <3>2. "count" \in DOMAIN blocks[1] /\ blocks[1].count = n
      <4>1. 1 \in 1 .. at - 1
        BY <2>3, <2>6
      <4> QED BY <3>1, <4>1, MapBlockIsEntry
    <3>3. CASE \E i \in 1 .. n : ~ HoldsEntryOf(blocks[i], n)
      BY <3>1, <3>2, <3>3 DEF OnDisk
    <3>4. CASE \A i \in 1 .. n : HoldsEntryOf(blocks[i], n)
      <4>1. CASE at = n + 1
        <5>1. \A i \in 1 .. n : i \in DOMAIN blocks
          BY <2>2, <2>3
        <5>2. OnDisk(blocks) = [i \in 1 .. n |-> blocks[i].entry]
          BY <3>2, <3>4, <5>1 DEF OnDisk
        <5>3. \A i \in 1 .. n : blocks[i].entry = map.data[map.disk_order[i]]
          BY <2>2, <3>1, <4>1, MapBlockIsEntry
        <5>4. Listing(map) = [i \in 1 .. n |-> map.data[map.disk_order[i]]]
          BY <2>1, <2>2, MapHasEntries DEF Listing
        <5>5. [i \in 1 .. n |-> blocks[i].entry]
              = [i \in 1 .. n |-> map.data[map.disk_order[i]]]
          BY <5>3
        <5> QED BY <3>1, <5>2, <5>4, <5>5
      <4>2. CASE at # n + 1
        <5>1. at \in 1 .. n /\ at \in DOMAIN blocks
          BY <2>2, <2>3, <2>6, <4>2
        <5>2. HoldsEntryOf(blocks[at], n)
          BY <3>4, <5>1
        <5>3. ~ (at <= Len(saved))
          <6> SUFFICES ASSUME at <= Len(saved) PROVE FALSE
            OBVIOUS
          <6>1. at \in 1 .. Len(saved) /\ at >= at
            BY <2>4, <5>1
          <6>2. blocks[at] = MapBlock(saved[at], Len(saved))
            BY <1>1, <6>1 DEF SavedInv, OldBlocks
          <6>3. blocks[at].count = Len(saved)
            BY <6>2, MapBlockIsEntry
          <6> QED BY <1>1, <5>2, <6>3 DEF HoldsEntryOf, n
        <5>4. at > Len(saved) /\ at >= at
          BY <2>3, <2>4, <5>3
        <5>5. LeftOver(n)
          BY <5>1, <5>2, <5>4 DEF LeftOver
        <5> QED BY <5>5 DEF n
      <4> QED BY <4>1, <4>2
    <3> QED BY <3>3, <3>4
  <2> QED BY <2>3, <2>5, <2>6
<1>2. StoreInv /\ SavedInv => TornMapIsRefused
  BY <1>1 DEF TornMapIsRefused
<1> QED BY <1>2, SavedAlways, PTL

-----------------------------------------------------------------------------
(* All a write may touch behind block zero is in the extent of the map.     *)
LEMMA KeptBlocksAreOutside ==
  ASSUME SessionInv, WithinMapPartition, NEW b \in KeptBlocks
  PROVE  /\ b \notin 1 .. Len(map.disk_order)
         /\ LastAddress < map.maximum_in_map => b # LastAddress + 1
<1>1. WellLinked(map)
  BY DEF SessionInv
<1>2. PICK e \in MapEntries(map) :
        /\ map.data[e].start = 1
        /\ {map.maximum_in_map, map.blocks_in_map} \subseteq 1 .. map.data[e].length
  BY DEF WithinMapPartition
<1>3. e \in Linked(map) /\ map.data[e].type = MapType
  BY DEF MapEntries
<1>4. PICK f \in Linked(map) : Kept(f) /\ b \in Extent(map.data[f])
  BY DEF KeptBlocks
<1>5. map.data[f].type # MapType /\ e # f
  BY <1>3, <1>4 DEF Kept
<1>6. Apart(map.data[e], map.data[f])
  BY <1>3, <1>5 DEF WithinMapPartition, NoOverlap
<1> DEFINE l == map.data[e].length
           s == map.data[f].start
           k == map.data[f].length
<1>7. l \in Nat /\ s \in Nat /\ k \in Nat
  BY <1>1, <1>3, <1>4, LinkedData, DpmeFields, U32Assumption
<1>8. b \in s .. s + k - 1
  BY <1>4 DEF Extent
<1>9. \/ 1 + l <= s
      \/ s + k <= 1
      \/ l = 0
      \/ k = 0
  BY <1>2, <1>6 DEF Apart
<1>10. /\ map.maximum_in_map \in 1 .. l
       /\ map.blocks_in_map \in 1 .. l
  BY <1>2
<1>11. /\ Len(map.disk_order) = map.blocks_in_map
       /\ LastAddress = Len(map.disk_order)
  BY <1>1, <1>3, EntriesAreNumbered DEF WellLinked
<1> HIDE DEF l, s, k
<1>12. b \notin 1 .. l
  BY <1>7, <1>8, <1>9, <1>10
<1>13. b \in Int
  BY <1>7, <1>8
<1> QED BY <1>7, <1>10, <1>11, <1>12, <1>13

(* "For any partition you changed the start or size of, writing out the map *)
(* causes all data on that partition to be LOST FOREVER" (pdisk.c:642): the *)
(* others keep theirs, whether the writes go through or not, as long as the *)
(* entries and the limit of their number have not outgrown the partition of *)
(* the map.                                                                 *)
THEOREM WritesStayWithinMap ==
  ASSUME Devices, NoDrivers
  PROVE  StoreSpec => DataIsKeptWithinLimit
<1>1. StoreInv /\ DriversInv /\ [StoreNext]_storeVars
      => [mode = "writing" /\ WithinMapPartition =>
            \A b \in KeptBlocks \cap DOMAIN blocks : blocks'[b] = blocks[b]]_storeVars
  <2> SUFFICES ASSUME StoreInv, DriversInv, StoreNext, mode = "writing",
                      WithinMapPartition, NEW b \in KeptBlocks, b \in DOMAIN blocks
               PROVE  blocks'[b] = blocks[b]
    OBVIOUS
  <2>1. /\ SessionInv
        /\ Linked(map) # {}
        /\ DOMAIN blocks = 0 .. disk.media - 1
    BY DEF StoreInv
  <2>2. CASE Session
    BY <2>2 DEF Session
  <2>3. CASE StartWrite
    BY <2>3 DEF StartWrite
  <2>4. CASE WriteBlockZero
    <3>1. \/ blocks' = [blocks EXCEPT ![0] = BlockZero({})]
          \/ blocks' = blocks
      BY <2>4 DEF WriteBlockZero, WriteBlock, DriversInv
    <3> QED BY <3>1 DEF DriversInv
  <2>5. CASE WriteEntry
    <3>1. map.disk_address[map.disk_order[at]] = at /\ at \in 1 .. Len(map.disk_order)
      BY <2>1, <2>5, EntriesAreNumbered, MapHasEntries DEF WriteEntry, SessionInv
    <3>2. b # at
      BY <2>1, <2>5, <3>1, KeptBlocksAreOutside
    <3> QED BY <2>5, <3>1, <3>2 DEF WriteEntry, WriteBlock
  <2>6. CASE FinishWrite
    <3>1. CASE UNCHANGED blocks
      BY <3>1
    <3>2. CASE LastAddress < map.maximum_in_map /\ WriteBlock(LastAddress + 1, Zapped)
      <4>1. b # LastAddress + 1
        BY <2>1, <3>2, KeptBlocksAreOutside
      <4> QED BY <3>2, <4>1 DEF WriteBlock
    <3> QED BY <2>6, <3>1, <3>2 DEF FinishWrite
  <2>7. CASE NewSession
    BY <2>7 DEF NewSession
  <2> QED BY <2>2, <2>3, <2>4, <2>5, <2>6, <2>7 DEF StoreNext
<1> QED BY <1>1, StoreAlways, DriversAlways, PTL DEF StoreSpec, DataIsKeptWithinLimit

=============================================================================
