--------------------------- MODULE MapEditorProofs ---------------------------
(***************************************************************************)
(* Theorems about MapEditor.                                                *)
(***************************************************************************)
EXTENDS MapEditorSpace, PartitionMapProofs

(* While the map is read, the entries read so far are linked, numbered by   *)
(* their block.                                                             *)
SessionInv ==
  /\ disk.media \in 0 .. U32 - 1
  /\ disk.drivers \in SUBSET [block : Nat, size : Nat]
  /\ disk.entries \in Seq(DpmeSet)
  /\ next \in Nat
  /\ mode = "reading" => Len(map.disk_order) = next - 1
  /\ WellLinked(map)
  /\ Numbered(map)

ListsInv ==
  /\ disk \in Disks
  /\ mode \in {"reading", "none", "open"}
  /\ SessionInv

(* Numbers far enough from the largest u32, and disks whose entries share   *)
(* no block.                                                                *)
SmallInputs ==
  /\ \A n \in BaseNumbers \cup LengthNumbers \cup SizeNumbers \cup MediaNumbers
               \cup {1, 4, Bootstrap, SmallMap, LargeMap} : Small(n)
  /\ \A d \in Disks :
       /\ \A i \in DOMAIN d.entries :
            Small(d.entries[i].start + d.entries[i].length)
       /\ \A i, j \in DOMAIN d.entries :
            i # j => Apart(d.entries[i], d.entries[j])

ExtentsInv ==
  /\ Disjoint(map)
  /\ mode = "reading" =>
       \A e \in Linked(map) : \E i \in 1 .. next - 1 : map.data[e] = disk.entries[i]

-----------------------------------------------------------------------------
LEMMA NoMapIsSound ==
  ASSUME NEW media \in 0 .. U32 - 1, NEW drivers \in SUBSET [block : Nat, size : Nat]
  PROVE  LET m == EmptyMap(media, drivers)
         IN  /\ WellLinked(m)
             /\ Numbered(m)
             /\ Disjoint(m)
             /\ Linked(m) = {}
             /\ Len(m.disk_order) = 0
<1> DEFINE m == EmptyMap(media, drivers)
<1>1. m.disk_order = << >>
  BY DEF EmptyMap
<1>2. WellLinked(m) /\ Linked(m) = {}
  BY EmptyMapIsWellLinked
<1> HIDE DEF m
<1> QED BY <1>1, <1>2 DEF Numbered, Disjoint, m

LEMMA InitLists == Init => ListsInv
<1> SUFFICES ASSUME Init PROVE ListsInv
  OBVIOUS
<1>1. disk.media \in 0 .. U32 - 1 /\ disk.drivers \in SUBSET [block : Nat, size : Nat]
  BY DisksAssumption DEF Init
<1>2. map = EmptyMap(disk.media, disk.drivers)
  BY DEF Init
<1>3. WellLinked(map) /\ Numbered(map) /\ Len(map.disk_order) = 0
  BY <1>1, <1>2, NoMapIsSound
<1>4. disk.entries \in Seq(DpmeSet)
  BY DisksAssumption DEF Init
<1> QED BY <1>1, <1>3, <1>4 DEF Init, ListsInv, SessionInv

LEMMA ReadEntrySession ==
  ASSUME SessionInv, ReadEntry
  PROVE  SessionInv'
<1> DEFINE d == disk.entries[next]
           e == NewNode(map)
<1>1. next \in 1 .. Len(disk.entries) /\ Len(map.disk_order) = next - 1
  <2>1. map.disk_order \in Seq(Entry)
    BY DEF SessionInv, WellLinked, MapRecord
  <2>2. Len(map.disk_order) \in Nat /\ Len(map.disk_order) = next - 1
    BY <2>1, LenProperties DEF SessionInv, ReadEntry
  <2>3. Len(disk.entries) \in Nat /\ next \in Nat /\ next <= Len(disk.entries)
    BY LenProperties DEF SessionInv, ReadEntry
  <2> QED BY <2>2, <2>3
<1>2. d \in DpmeSet
  BY <1>1, LenProperties DEF SessionInv
<1>3. WellLinked(map) /\ Unused(map) # {} /\ map' = AddDataToMap(map, d, next)
  BY DEF SessionInv, ReadEntry
<1>4. next \in Int
  BY DEF SessionInv
<1> HIDE DEF d
<1>5. /\ e \in Entry
      /\ e \notin Linked(map)
      /\ WellLinked(map')
      /\ map'.disk_address[e] = next
      /\ \A f \in Linked(map) : map'.disk_address[f] = map.disk_address[f]
      /\ map'.disk_address \in [Entry -> Int]
      /\ map'.disk_order = Link(map.disk_order, map'.disk_address, e)
  BY <1>2, <1>3, <1>4, AddDataToMapLinks
<1> HIDE DEF e
<1>6. /\ map.disk_order \in Seq(Entry)
      /\ Distinct(map.disk_order)
      /\ ToSet(map.disk_order) = Linked(map)
  BY <1>3 DEF WellLinked, MapRecord
<1>7. Len(map'.disk_order) = next
  <2>1. Len(map'.disk_order) = Len(map.disk_order) + 1
    BY <1>5, <1>6, LinkAdds
  <2> QED BY <1>1, <2>1
<1>8. Numbered(map')
  <2>1. ASSUME NEW i \in 1 .. Len(map.disk_order)
        PROVE  map'.disk_address[map.disk_order[i]] = i
    <3>1. map.disk_order[i] \in Linked(map)
      BY <1>6, LenProperties DEF ToSet
    <3> QED BY <3>1, <1>5 DEF SessionInv, Numbered
  <2>2. map'.disk_address[e] = Len(map.disk_order) + 1
    BY <1>1, <1>5
  <2>3. \A i \in 1 .. Len(map.disk_order) + 1 :
          map'.disk_address[Link(map.disk_order, map'.disk_address, e)[i]] = i
    BY <1>5, <1>6, <2>1, <2>2, LinkLast
  <2> QED BY <1>1, <1>5, <1>7, <2>3 DEF Numbered
<1>9. /\ disk' = disk
      /\ mode' \in {"reading", "open"}
      /\ next' \in Nat
      /\ mode' = "reading" => next' = next + 1
  BY DEF ReadEntry, SessionInv
<1>10. mode' = "reading" => Len(map'.disk_order) = next' - 1
  BY <1>1, <1>7, <1>9
<1> QED BY <1>5, <1>8, <1>9, <1>10 DEF SessionInv

LEMMA GiveUpReadingSession ==
  ASSUME SessionInv, GiveUpReading
  PROVE  SessionInv'
<1>1. WellLinked(map') /\ Numbered(map')
  BY NoMapIsSound, U32Assumption DEF GiveUpReading, NoMap
<1> QED BY <1>1 DEF SessionInv, GiveUpReading

-----------------------------------------------------------------------------
(* Every command hands Edit a map that keeps what Keeps promises.           *)
SoundEdit == \E r : Edit(r) /\ Edited(map, r, SmallInputs)

LEMMA WithinSmallInputs ==
  ASSUME NEW r, NEW within, Edited(map, r, within), Edit(r),
         SmallInputs /\ Disjoint(map) => within
  PROVE  SoundEdit
BY DEF SoundEdit, Edited, Keeps

LEMMA BasesAreTyped ==
  ASSUME WellLinked(map), NEW n \in Bases
  PROVE  n \in 0 .. U32 - 1 /\ (SmallInputs /\ Disjoint(map) => Small(n))
<1>1. CASE n \in BaseNumbers
  BY <1>1, InputsAssumption DEF SmallInputs
<1>2. ASSUME NEW e \in ToSet(map.disk_order), n = map.data[e].start
      PROVE  n \in 0 .. U32 - 1 /\ (SmallInputs /\ Disjoint(map) => Small(n))
  <2>1. e \in Linked(map)
    BY DEF WellLinked
  <2>2. map.data[e] \in DpmeSet
    BY <2>1, LinkedData
  <2>3. n \in 0 .. U32 - 1 /\ map.data[e].length \in Nat
    BY <1>2, <2>2, DpmeFields, U32Assumption
  <2>4. Disjoint(map) => Small(n + map.data[e].length)
    BY <1>2, <2>1 DEF Disjoint
  <2> QED BY <2>3, <2>4, U32Assumption DEF Small
<1> QED BY <1>1, <1>2 DEF Bases

LEMMA LengthsAreTyped ==
  ASSUME WellLinked(map), NEW n \in Lengths
  PROVE  n \in 0 .. U32 - 1 /\ (SmallInputs /\ Disjoint(map) => Small(n))
<1>1. CASE n \in LengthNumbers
  BY <1>1, InputsAssumption DEF SmallInputs
<1>2. ASSUME NEW e \in ToSet(map.disk_order), n = map.data[e].length
      PROVE  n \in 0 .. U32 - 1 /\ (SmallInputs /\ Disjoint(map) => Small(n))
  <2>1. e \in Linked(map)
    BY DEF WellLinked
  <2>2. map.data[e] \in DpmeSet
    BY <2>1, LinkedData
  <2>3. n \in 0 .. U32 - 1 /\ map.data[e].start \in Nat
    BY <1>2, <2>2, DpmeFields, U32Assumption
  <2>4. Disjoint(map) => Small(map.data[e].start + n)
    BY <1>2, <2>1 DEF Disjoint
  <2> QED BY <2>3, <2>4, U32Assumption DEF Small
<1> QED BY <1>1, <1>2 DEF Lengths

LEMMA AsIntIsInt ==
  ASSUME NEW n \in IndexNumbers
  PROVE  AsInt(n) \in Int
BY InputsAssumption, U32Assumption DEF AsInt

LEMMA CreatePartitionIsSound ==
  ASSUME WellLinked(map), CreatePartition
  PROVE  SoundEdit
<1>1. PICK base \in Bases, length \in Lengths, mallocs \in Mallocs,
           type \in {UnixType} \cup (CreateTypes \ {FreeType, MapType}) :
        Edit(AddPartitionToMap(map, type, base, length, mallocs))
  BY DEF CreatePartition
<1>2. type \in PartitionType /\ mallocs \in Int
  BY InputsAssumption DEF PartitionType
<1>3. /\ base \in 0 .. U32 - 1
      /\ length \in 0 .. U32 - 1
      /\ SmallInputs /\ Disjoint(map) => Small(base) /\ Small(length)
  BY BasesAreTyped, LengthsAreTyped
<1>4. Edited(map, AddPartitionToMap(map, type, base, length, mallocs),
             Small(base) /\ Small(length))
  BY <1>2, <1>3, AddPartitionKeeps
<1> QED BY <1>1, <1>3, <1>4, WithinSmallInputs

LEMMA CreateBootstrapIsSound ==
  ASSUME WellLinked(map), CreateBootstrap
  PROVE  SoundEdit
<1>1. PICK base \in Bases, mallocs \in Mallocs :
        Edit(AddPartitionToMap(map, BootstrapType, base, Bootstrap, mallocs))
  BY DEF CreateBootstrap
<1>2. BootstrapType \in PartitionType /\ mallocs \in Int
  BY InputsAssumption DEF PartitionType
<1>3. /\ base \in 0 .. U32 - 1
      /\ Bootstrap \in 0 .. U32 - 1
      /\ SmallInputs /\ Disjoint(map) => Small(base) /\ Small(Bootstrap)
  BY BasesAreTyped, InputsAssumption DEF SmallInputs
<1>4. Edited(map, AddPartitionToMap(map, BootstrapType, base, Bootstrap, mallocs),
             Small(base) /\ Small(Bootstrap))
  BY <1>2, <1>3, AddPartitionKeeps
<1> QED BY <1>1, <1>3, <1>4, WithinSmallInputs

LEMMA DeletePartitionIsSound ==
  ASSUME WellLinked(map), DeletePartition
  PROVE  SoundEdit
<1>1. PICK index \in IndexNumbers, mallocs \in Mallocs :
        \E e \in FindEntryByDiskAddress(map, AsInt(index)) :
          Edit(DeletePartitionFromMap(map, e, mallocs))
  BY DEF DeletePartition
<1>2. PICK e \in FindEntryByDiskAddress(map, AsInt(index)) :
        Edit(DeletePartitionFromMap(map, e, mallocs))
  BY <1>1
<1>3. e \in Linked(map) /\ mallocs \in Int
  BY InputsAssumption DEF FindEntryByDiskAddress, WellLinked
<1>4. Edited(map, DeletePartitionFromMap(map, e, mallocs), TRUE)
  BY <1>3, DeletePartitionKeeps
<1> QED BY <1>2, <1>4, WithinSmallInputs

LEMMA ReorderIsSound ==
  ASSUME WellLinked(map), NEW old_index \in IndexNumbers,
         NEW index \in IndexNumbers, Reorder(old_index, index)
  PROVE  SoundEdit
<1>1. Edited(map, MoveEntryInMap(map, AsInt(old_index), AsInt(index)), TRUE)
  BY AsIntIsInt, MoveEntryKeeps
<1> QED BY <1>1, WithinSmallInputs DEF Reorder

LEMMA ChangeMapSizeIsSound ==
  ASSUME WellLinked(map), ChangeMapSize
  PROVE  SoundEdit
<1>1. PICK size \in SizeNumbers, mallocs \in Mallocs :
        Edit(ResizeMap(map, size, mallocs))
  BY DEF ChangeMapSize
<1>2. size \in 0 .. U32 - 1 /\ mallocs \in Int
  BY InputsAssumption
<1>3. Edited(map, ResizeMap(map, size, mallocs), Small(1) /\ Small(size))
  BY <1>2, ResizeMapKeeps
<1>4. SmallInputs => Small(1) /\ Small(size)
  BY DEF SmallInputs
<1> QED BY <1>1, <1>3, <1>4, WithinSmallInputs

LEMMA InitPartitionMapIsSound ==
  ASSUME InitPartitionMap
  PROVE  /\ WellLinked(map')
         /\ Numbered(map')
         /\ SmallInputs => Disjoint(map')
<1>1. PICK n \in MediaNumbers, drivers \in DriverTables, mallocs \in Mallocs :
        LET media   == IF n < 4 THEN 4 ELSE n
            size    == IF media <= SmallMedia THEN SmallMap ELSE LargeMap
            created == CreatePartitionMap(media, drivers)
        IN  map' = AddPartitionToMap(created, MapType, 1, size, mallocs - 4)
  BY DEF InitPartitionMap
<1> DEFINE media   == IF n < 4 THEN 4 ELSE n
           size    == IF media <= SmallMedia THEN SmallMap ELSE LargeMap
           created == CreatePartitionMap(media, drivers)
<1>2. /\ media \in 1 .. U32 - 1
      /\ size \in 0 .. U32 - 1
      /\ 1 \in 0 .. U32 - 1
      /\ mallocs - 4 \in Int
      /\ drivers \in SUBSET [block : Nat, size : Nat]
      /\ MapType \in PartitionType
  <2>1. n \in 0 .. U32 - 1 /\ 4 \in 0 .. U32 - 1 /\ mallocs \in Int
    BY InputsAssumption
  <2>2. SmallMap \in 0 .. U32 - 1 /\ LargeMap \in 0 .. U32 - 1
    BY InputsAssumption
  <2>3. media \in 1 .. U32 - 1
    BY <2>1, U32Assumption
  <2> HIDE DEF media
  <2>4. drivers \in SUBSET [block : Nat, size : Nat]
    BY InputsAssumption
  <2> QED BY <2>1, <2>2, <2>3, <2>4, U32Assumption DEF PartitionType
<1>3. SmallInputs => Small(media) /\ Small(size) /\ Small(1)
  BY DEF SmallInputs
<1>4. map' = AddPartitionToMap(created, MapType, 1, size, mallocs - 4)
  BY <1>1
<1> HIDE DEF media, size
<1>5. WellLinked(created) /\ Numbered(created) /\ (SmallInputs => Disjoint(created))
  BY <1>2, <1>3, CreatedIsSound
<1> HIDE DEF created
<1>6. Edited(created, map', Small(1) /\ Small(size))
  BY <1>2, <1>4, <1>5, AddPartitionKeeps
<1> QED BY <1>3, <1>5, <1>6 DEF Edited, Keeps

-----------------------------------------------------------------------------
(* A step reads on, gives up, starts a new map or edits the one there is.   *)
LEMMA EveryStep ==
  ASSUME SessionInv, Next
  PROVE  ReadEntry \/ GiveUpReading \/ InitPartitionMap \/ SoundEdit
<1>1. WellLinked(map)
  BY DEF SessionInv
<1> QED BY <1>1, CreatePartitionIsSound, CreateBootstrapIsSound,
           DeletePartitionIsSound, ReorderIsSound, ChangeMapSizeIsSound
        DEF Next

LEMMA NextSession ==
  ASSUME SessionInv, Next
  PROVE  SessionInv'
<1>1. CASE ReadEntry
  BY <1>1, ReadEntrySession
<1>2. CASE GiveUpReading
  BY <1>2, GiveUpReadingSession
<1>3. CASE InitPartitionMap
  <2>1. WellLinked(map') /\ Numbered(map')
    BY <1>3, InitPartitionMapIsSound
  <2>2. mode' = "open" /\ disk' = disk /\ next' = next
    BY <1>3 DEF InitPartitionMap
  <2> QED BY <2>1, <2>2 DEF SessionInv
<1>4. CASE SoundEdit
  BY <1>4 DEF SoundEdit, Edit, Edited, Keeps, SessionInv
<1> QED BY <1>1, <1>2, <1>3, <1>4, EveryStep

(* A session leaves the disk alone, and is over once a write begins.        *)
LEMMA NextModes ==
  ASSUME Next
  PROVE  /\ mode \in {"reading", "none", "open"}
         /\ mode' \in {"reading", "none", "open"}
         /\ disk' = disk
BY DEF Next, ReadEntry, GiveUpReading, InitPartitionMap, CreatePartition,
       CreateBootstrap, DeletePartition, Reorder, ChangeMapSize, Edit

LEMMA NextLists == ListsInv /\ [Next]_vars => ListsInv'
<1> SUFFICES ASSUME ListsInv, [Next]_vars PROVE ListsInv'
  OBVIOUS
<1>1. CASE Next
  BY <1>1, NextSession, NextModes DEF ListsInv
<1>2. CASE UNCHANGED vars
  BY <1>2 DEF vars, ListsInv, SessionInv
<1> QED BY <1>1, <1>2

LEMMA ListsAlways == Spec => []ListsInv
<1>1. Init => ListsInv
  BY InitLists
<1>2. ListsInv /\ [Next]_vars => ListsInv'
  BY NextLists
<1> QED BY <1>1, <1>2, PTL DEF Spec

(* The declared types hold in every session.                                *)
THEOREM TypeCorrect == Spec => []TypeOK
<1>1. ListsInv => TypeOK
  BY DEF ListsInv, SessionInv, WellLinked, TypeOK
<1> QED BY <1>1, ListsAlways, PTL

(* Both lists, the counter and the numbering agree in every session,        *)
(* whatever numbers are typed, also those that wrap, and wherever malloc    *)
(* fails.                                                                   *)
THEOREM ListsAlwaysAgree == Spec => []ListsAgree
<1>1. ListsInv => ListsAgree
  BY DEF ListsInv, SessionInv, WellLinked, Numbered, ListsAgree
<1> QED BY <1>1, ListsAlways, PTL

-----------------------------------------------------------------------------
LEMMA InitExtents == Init => ExtentsInv
<1> SUFFICES ASSUME Init PROVE ExtentsInv
  OBVIOUS
<1>1. disk.media \in 0 .. U32 - 1 /\ disk.drivers \in SUBSET [block : Nat, size : Nat]
  BY DisksAssumption DEF Init
<1>2. map = EmptyMap(disk.media, disk.drivers)
  BY DEF Init
<1>3. Disjoint(map) /\ Linked(map) = {}
  BY <1>1, <1>2, NoMapIsSound
<1> QED BY <1>3 DEF ExtentsInv

(* The entries on the disk are apart from those read before them.           *)
LEMMA ReadEntryExtents ==
  ASSUME SmallInputs, ListsInv, ExtentsInv, ReadEntry
  PROVE  ExtentsInv'
<1> DEFINE d == disk.entries[next]
           e == NewNode(map)
<1>1. /\ next \in 1 .. Len(disk.entries)
      /\ DOMAIN disk.entries = 1 .. Len(disk.entries)
      /\ Len(disk.entries) \in Nat
      /\ disk \in Disks
  <2>1. map.disk_order \in Seq(Entry)
    BY DEF ListsInv, SessionInv, WellLinked, MapRecord
  <2>2. Len(map.disk_order) \in Nat /\ Len(map.disk_order) = next - 1
    BY <2>1, LenProperties DEF ListsInv, SessionInv, ReadEntry
  <2>3. /\ Len(disk.entries) \in Nat
        /\ DOMAIN disk.entries = 1 .. Len(disk.entries)
        /\ next \in Nat
        /\ next <= Len(disk.entries)
        /\ disk \in Disks
    BY DisksAssumption, LenProperties DEF ListsInv, SessionInv, ReadEntry
  <2> QED BY <2>2, <2>3
<1>2. d \in DpmeSet /\ Small(d.start + d.length)
  BY <1>1, DisksAssumption, LenProperties DEF ListsInv, SessionInv, SmallInputs
<1>3. /\ WellLinked(map)
      /\ Unused(map) # {}
      /\ map' = AddDataToMap(map, d, next)
      /\ next \in Int
      /\ mode = "reading"
  BY DEF ListsInv, SessionInv, ReadEntry
<1>4. ASSUME NEW f \in Linked(map) PROVE Apart(d, map.data[f])
  <2>1. PICK i \in 1 .. next - 1 : map.data[f] = disk.entries[i]
    BY <1>3 DEF ExtentsInv
  <2>2. i \in DOMAIN disk.entries /\ next \in DOMAIN disk.entries /\ i # next
    BY <1>1, <2>1
  <2> QED BY <1>1, <2>1, <2>2 DEF SmallInputs
<1>5. d = disk.entries[next]
  OBVIOUS
<1> HIDE DEF d
<1>6. Disjoint(map')
  BY <1>2, <1>3, <1>4, AddDataKeepsDisjoint DEF ExtentsInv
<1>7. /\ Linked(map') = Linked(map) \cup {e}
      /\ map'.data[e] = d
      /\ \A f \in Linked(map) : map'.data[f] = map.data[f]
  BY <1>2, <1>3, AddDataToMapLinks
<1> HIDE DEF e
<1>8. ASSUME mode' = "reading", NEW f \in Linked(map')
      PROVE  \E i \in 1 .. next' - 1 : map'.data[f] = disk'.entries[i]
  <2>1. next' = next + 1 /\ disk' = disk
    BY <1>8 DEF ReadEntry
  <2>2. CASE f = e
    <3>1. next \in 1 .. next' - 1
      BY <1>1, <2>1
    <3> QED BY <3>1, <1>5, <1>7, <2>1, <2>2
  <2>3. CASE f \in Linked(map)
    <3>1. PICK i \in 1 .. next - 1 : map.data[f] = disk.entries[i]
      BY <1>3, <2>3 DEF ExtentsInv
    <3>2. i \in 1 .. next' - 1
      BY <1>1, <2>1
    <3> QED BY <3>1, <3>2, <1>7, <2>1, <2>3
  <2> QED BY <1>7, <2>2, <2>3
<1> QED BY <1>6, <1>8 DEF ExtentsInv

LEMMA NextExtents ==
  ASSUME SmallInputs
  PROVE  ListsInv /\ ExtentsInv /\ [Next]_vars => ExtentsInv'
<1> SUFFICES ASSUME ListsInv, ExtentsInv, [Next]_vars PROVE ExtentsInv'
  OBVIOUS
<1>1. CASE ReadEntry
  BY <1>1, ReadEntryExtents
<1>2. CASE GiveUpReading
  <2>1. map' = EmptyMap(0, {}) /\ mode' = "none"
    BY <1>2 DEF GiveUpReading, NoMap
  <2>2. Disjoint(map')
    BY <2>1, NoMapIsSound, U32Assumption
  <2> QED BY <2>1, <2>2 DEF ExtentsInv
<1>3. CASE InitPartitionMap
  <2>1. Disjoint(map')
    BY <1>3, InitPartitionMapIsSound
  <2>2. mode' = "open"
    BY <1>3 DEF InitPartitionMap
  <2> QED BY <2>1, <2>2 DEF ExtentsInv
<1>4. CASE SoundEdit
  BY <1>4 DEF SoundEdit, Edit, Edited, Keeps, ExtentsInv
<1>5. CASE UNCHANGED vars
  BY <1>5 DEF vars, ExtentsInv
<1> QED BY <1>1, <1>2, <1>3, <1>4, <1>5, EveryStep DEF ListsInv

(* No block ever belongs to two entries, as long as no number comes near    *)
(* the largest u32 and the disk did not start out with overlapping entries. *)
(* Zero lengths and failing allocations are included.                       *)
THEOREM EntriesNeverOverlap ==
  ASSUME SmallInputs
  PROVE  Spec => []NoOverlap
<1>1. Init => ExtentsInv
  BY InitExtents
<1>2. ListsInv /\ ExtentsInv /\ [Next]_vars => ExtentsInv'
  BY NextExtents
<1>3. ExtentsInv => NoOverlap
  BY DEF ExtentsInv, Disjoint, NoOverlap
<1> QED BY <1>1, <1>2, <1>3, ListsAlways, PTL DEF Spec

-----------------------------------------------------------------------------
(* Disks whose map entries say there is room for all their entries, and the *)
(* sizes init_partition_map chooses: room for two entries, and never the    *)
(* whole of the media.                                                      *)
RoomyInputs ==
  /\ \A d \in Disks : \A i \in DOMAIN d.entries :
       d.entries[i].type = MapType => Len(d.entries) <= AsInt(d.entries[i].length)
  /\ \A size \in {SmallMap, LargeMap} : 2 <= size /\ size < U32 \div 2
  /\ SmallMap < 3
  /\ LargeMap < SmallMedia

(* While the map is read there is room for the entries still to come.       *)
RoomInv ==
  /\ Roomy(map)
  /\ mode = "reading" /\ map.maximum_in_map >= 0
     => Len(disk.entries) <= map.maximum_in_map

LEMMA U32HoldsFour == U32 >= 5
BY InputsAssumption, U32Assumption

LEMMA EmptyMapIsRoomy ==
  ASSUME NEW media, NEW drivers
  PROVE  /\ Roomy(EmptyMap(media, drivers))
         /\ EmptyMap(media, drivers).maximum_in_map = -1
<1> DEFINE m == EmptyMap(media, drivers)
<1>1. m.maximum_in_map = -1 /\ m.data = [e \in Entry |-> NoData]
  BY DEF EmptyMap
<1> HIDE DEF m
<1>2. NoData.type # MapType
  BY DEF NoData, Dpme, MapType
<1>3. ~ HasMap(m)
  BY <1>1, <1>2 DEF HasMap
<1>4. -1 < U32 \div 2
  BY HalfIsSmaller
<1> QED BY <1>1, <1>3, <1>4 DEF Roomy, m

LEMMA ReadEntryIsRoomy ==
  ASSUME RoomyInputs, ListsInv, RoomInv, ReadEntry
  PROVE  RoomInv'
<1> DEFINE d == disk.entries[next]
           n == Len(disk.entries)
           e == NewNode(map)
<1>1. /\ next \in 1 .. n
      /\ DOMAIN disk.entries = 1 .. n
      /\ n \in Nat
      /\ disk \in Disks
      /\ Len(map.disk_order) = next - 1
      /\ d \in DpmeSet
  <2>1. map.disk_order \in Seq(Entry)
    BY DEF ListsInv, SessionInv, WellLinked, MapRecord
  <2>2. Len(map.disk_order) \in Nat /\ Len(map.disk_order) = next - 1
    BY <2>1, LenProperties DEF ListsInv, SessionInv, ReadEntry
  <2>3. /\ n \in Nat
        /\ DOMAIN disk.entries = 1 .. n
        /\ next \in Nat
        /\ next <= n
        /\ disk \in Disks
        /\ disk.entries \in Seq(DpmeSet)
    BY DisksAssumption, LenProperties DEF ListsInv, SessionInv, ReadEntry
  <2>4. next \in 1 .. n
    BY <2>2, <2>3
  <2> QED BY <2>2, <2>3, <2>4, LenProperties
<1>2. /\ WellLinked(map)
      /\ Unused(map) # {}
      /\ map' = AddDataToMap(map, d, next)
      /\ next \in Int
      /\ mode = "reading"
      /\ disk' = disk
  BY DEF ListsInv, SessionInv, ReadEntry
<1>3. d.type = MapType => n <= AsInt(d.length)
  BY <1>1 DEF RoomyInputs
<1> HIDE DEF d, e
<1>4. /\ \A f \in Entry : map'.data[f] = IF f = e THEN d ELSE map.data[f]
      /\ map'.blocks_in_map = map.blocks_in_map + 1
      /\ map'.maximum_in_map =
           IF map.maximum_in_map < 0 /\ d.type = MapType
           THEN AsInt(d.length) ELSE map.maximum_in_map
  <2>1. /\ \A f \in Entry : AddDataToMap(map, d, next).data[f]
                             = IF f = NewNode(map) THEN d ELSE map.data[f]
        /\ AddDataToMap(map, d, next).blocks_in_map = map.blocks_in_map + 1
        /\ AddDataToMap(map, d, next).maximum_in_map =
             IF map.maximum_in_map < 0 /\ d.type = MapType
             THEN AsInt(d.length) ELSE map.maximum_in_map
    BY <1>1, <1>2, AddDataToMapLinks
  <2> QED BY <1>2, <2>1 DEF e
<1>5. map.blocks_in_map = next - 1 /\ map.maximum_in_map \in Int
  BY <1>1, <1>2, CountIsNatural DEF WellLinked
<1>6. map'.blocks_in_map \in 1 .. n
  BY <1>1, <1>4, <1>5
<1>7. AsInt(d.length) \in Int /\ AsInt(d.length) < U32 \div 2
  BY <1>1, DpmeFields, U32Assumption, HalfIsSmaller DEF AsInt
<1>8. map'.maximum_in_map \in Int /\ map'.maximum_in_map < U32 \div 2
  BY <1>4, <1>5, <1>7 DEF RoomInv, Roomy
<1>9. map'.maximum_in_map >= 0 => n <= map'.maximum_in_map
  BY <1>1, <1>2, <1>3, <1>4, <1>5, <1>7 DEF RoomInv
<1>10. HasMap(map') => map'.maximum_in_map >= 0
  <2>1. CASE d.type = MapType
    BY <2>1, <1>1, <1>3, <1>4, <1>5, <1>7
  <2>2. CASE d.type # MapType
    <3>1. HasMap(map') => HasMap(map)
      BY <2>2, <1>4 DEF HasMap
    <3> QED BY <3>1, <2>2, <1>4 DEF RoomInv, Roomy
  <2> QED BY <2>1, <2>2
<1>11. map'.maximum_in_map >= 0 => map'.blocks_in_map <= map'.maximum_in_map
  BY <1>1, <1>6, <1>8, <1>9
<1> QED BY <1>2, <1>8, <1>9, <1>10, <1>11 DEF RoomInv, Roomy

LEMMA InitPartitionMapIsRoomy ==
  ASSUME RoomyInputs, InitPartitionMap
  PROVE  Roomy(map')
<1>1. PICK n \in MediaNumbers, drivers \in DriverTables, mallocs \in Mallocs :
        LET media   == IF n < 4 THEN 4 ELSE n
            size    == IF media <= SmallMedia THEN SmallMap ELSE LargeMap
            created == CreatePartitionMap(media, drivers)
        IN  map' = AddPartitionToMap(created, MapType, 1, size, mallocs - 4)
  BY DEF InitPartitionMap
<1> DEFINE media   == IF n < 4 THEN 4 ELSE n
           size    == IF media <= SmallMedia THEN SmallMap ELSE LargeMap
<1>2. /\ n \in 0 .. U32 - 1
      /\ 4 \in 0 .. U32 - 1
      /\ SmallMedia \in 0 .. U32 - 1
      /\ SmallMap \in 0 .. U32 - 1
      /\ LargeMap \in 0 .. U32 - 1
      /\ mallocs \in Int
      /\ drivers \in SUBSET [block : Nat, size : Nat]
  BY InputsAssumption
<1>3. media \in 1 .. U32 - 1 /\ media >= 4
  BY <1>2, U32Assumption
<1>4. /\ size \in 0 .. U32 - 1
      /\ 2 <= size
      /\ size < U32 \div 2
      /\ size # media - 1
  <2>1. CASE media <= SmallMedia
    BY <2>1, <1>2, <1>3, U32Assumption DEF RoomyInputs
  <2>2. CASE ~ (media <= SmallMedia)
    <3>1. size = LargeMap /\ LargeMap < SmallMedia /\ SmallMedia < media
      BY <2>2, <1>2, <1>3, U32Assumption DEF RoomyInputs
    <3> HIDE DEF media, size
    <3>2. size # media - 1
      BY <3>1, <1>2, <1>3, U32Assumption
    <3> QED BY <3>1, <3>2, <1>2 DEF RoomyInputs
  <2> QED BY <2>1, <2>2
<1>5. map' = AddPartitionToMap(CreatePartitionMap(media, drivers), MapType, 1,
                               size, mallocs - 4)
  BY <1>1
<1> HIDE DEF media, size
<1>6. mallocs - 4 \in Int
  BY <1>2
<1> QED BY <1>2, <1>3, <1>4, <1>5, <1>6, FirstMapIsRoomy

LEMMA NextIsRoomy ==
  ASSUME RoomyInputs
  PROVE  ListsInv /\ RoomInv /\ [Next]_vars => RoomInv'
<1> SUFFICES ASSUME ListsInv, RoomInv, [Next]_vars PROVE RoomInv'
  OBVIOUS
<1>0. WellLinked(map) /\ Roomy(map) /\ U32 >= 5
  BY U32HoldsFour DEF ListsInv, SessionInv, RoomInv
<1>1. CASE ReadEntry
  BY <1>1, ReadEntryIsRoomy
<1>2. CASE GiveUpReading
  <2>1. map' = EmptyMap(0, {}) /\ mode' = "none"
    BY <1>2 DEF GiveUpReading, NoMap
  <2> QED BY <2>1, EmptyMapIsRoomy DEF RoomInv
<1>3. CASE InitPartitionMap
  <2>1. Roomy(map') /\ mode' = "open"
    BY <1>3, InitPartitionMapIsRoomy DEF InitPartitionMap
  <2> QED BY <2>1 DEF RoomInv
<1>4. ASSUME NEW r, Edit(r), Roomy(r) PROVE RoomInv'
  BY <1>4 DEF Edit, RoomInv
<1>5. CASE CreatePartition
  <2>1. PICK base \in Bases, length \in Lengths, mallocs \in Mallocs,
             type \in {UnixType} \cup (CreateTypes \ {FreeType, MapType}) :
          Edit(AddPartitionToMap(map, type, base, length, mallocs))
    BY <1>5 DEF CreatePartition
  <2>2. type \in PartitionType /\ mallocs \in Int /\ type # MapType
    BY InputsAssumption DEF PartitionType, UnixType, MapType
  <2>3. base \in 0 .. U32 - 1 /\ length \in 0 .. U32 - 1
    BY <1>0, BasesAreTyped, LengthsAreTyped
  <2>4. Roomy(AddPartitionToMap(map, type, base, length, mallocs))
    BY <2>2, <2>3, <1>0, AddPartitionIsRoomy
  <2> QED BY <2>1, <2>4, <1>4
<1>6. CASE CreateBootstrap
  <2>1. PICK base \in Bases, mallocs \in Mallocs :
          Edit(AddPartitionToMap(map, BootstrapType, base, Bootstrap, mallocs))
    BY <1>6 DEF CreateBootstrap
  <2>2. /\ BootstrapType \in PartitionType
        /\ mallocs \in Int
        /\ BootstrapType # MapType
    BY InputsAssumption DEF PartitionType, BootstrapType, MapType
  <2>3. base \in 0 .. U32 - 1 /\ Bootstrap \in 0 .. U32 - 1
    BY <1>0, BasesAreTyped, InputsAssumption
  <2>4. Roomy(AddPartitionToMap(map, BootstrapType, base, Bootstrap, mallocs))
    BY <2>2, <2>3, <1>0, AddPartitionIsRoomy
  <2> QED BY <2>1, <2>4, <1>4
<1>7. CASE DeletePartition
  <2>1. PICK index \in IndexNumbers, mallocs \in Mallocs :
          \E e \in FindEntryByDiskAddress(map, AsInt(index)) :
            Edit(DeletePartitionFromMap(map, e, mallocs))
    BY <1>7 DEF DeletePartition
  <2>2. PICK e \in FindEntryByDiskAddress(map, AsInt(index)) :
          Edit(DeletePartitionFromMap(map, e, mallocs))
    BY <2>1
  <2>3. e \in Linked(map) /\ mallocs \in Int
    BY <1>0, InputsAssumption DEF FindEntryByDiskAddress, WellLinked
  <2>4. Roomy(DeletePartitionFromMap(map, e, mallocs))
    BY <2>3, <1>0, DeletePartitionIsRoomy
  <2> QED BY <2>2, <2>4, <1>4
<1>8. ASSUME NEW old_index \in IndexNumbers, NEW index \in IndexNumbers,
             Reorder(old_index, index)
      PROVE  RoomInv'
  <2>1. Roomy(MoveEntryInMap(map, AsInt(old_index), AsInt(index)))
    BY <1>0, AsIntIsInt, MoveEntryIsRoomy
  <2> QED BY <2>1, <1>4, <1>8 DEF Reorder
<1>9. CASE ChangeMapSize
  <2>1. PICK size \in SizeNumbers, mallocs \in Mallocs :
          Edit(ResizeMap(map, size, mallocs))
    BY <1>9 DEF ChangeMapSize
  <2>2. size \in 0 .. U32 - 1 /\ mallocs \in Int
    BY InputsAssumption
  <2>3. Roomy(ResizeMap(map, size, mallocs))
    BY <2>2, <1>0, ResizeMapIsRoomy
  <2> QED BY <2>1, <2>3, <1>4
<1>10. CASE UNCHANGED vars
  BY <1>10 DEF vars, RoomInv
<1> QED BY <1>1, <1>2, <1>3, <1>5, <1>6, <1>7, <1>8, <1>9, <1>10 DEF Next

(* add_partition_to_map never lets the entries outnumber maximum_in_map,    *)
(* whatever numbers are typed and wherever malloc fails: the unsigned       *)
(* comparison is exact, a resize adds at most what its delete made room     *)
(* for, and a map without a maximum has no map entry that could be resized. *)
THEOREM EntriesStayWithinMaximum ==
  ASSUME RoomyInputs
  PROVE  Spec => []EntriesWithinMaximum
<1>1. Init => RoomInv
  BY EmptyMapIsRoomy DEF Init, RoomInv
<1>2. ListsInv /\ RoomInv /\ [Next]_vars => RoomInv'
  BY NextIsRoomy
<1>3. RoomInv => EntriesWithinMaximum
  BY DEF RoomInv, Roomy, EntriesWithinMaximum
<1> QED BY <1>1, <1>2, <1>3, ListsAlways, PTL DEF Spec

-----------------------------------------------------------------------------
(* No length typed and no entry on the disk is empty.                       *)
PositiveInputs ==
  /\ \A n \in LengthNumbers \cup {Bootstrap, SmallMap, LargeMap} : n > 0
  /\ \A d \in Disks : \A i \in DOMAIN d.entries : d.entries[i].length > 0

(* No two free entries on the disk touch.                                   *)
SeparateDisks ==
  \A d \in Disks : \A i, j \in DOMAIN d.entries :
    d.entries[i].type = FreeType /\ d.entries[j].type = FreeType
    => End(d.entries[i]) # d.entries[j].start

OrderInv == InOrder(map)

(* The entries read so far are apart from the next one, which is not empty. *)
LEMMA ReadEntryIsOrdered ==
  ASSUME SmallInputs, PositiveInputs, ListsInv, ExtentsInv, OrderInv, ReadEntry
  PROVE  /\ OrderInv'
         /\ \A f \in Linked(map') :
              \E i \in DOMAIN disk.entries : map'.data[f] = disk.entries[i]
<1> DEFINE d == disk.entries[next]
           e == NewNode(map)
<1>1. /\ next \in 1 .. Len(disk.entries)
      /\ DOMAIN disk.entries = 1 .. Len(disk.entries)
      /\ Len(disk.entries) \in Nat
      /\ disk \in Disks
  <2>1. map.disk_order \in Seq(Entry)
    BY DEF ListsInv, SessionInv, WellLinked, MapRecord
  <2>2. Len(map.disk_order) \in Nat /\ Len(map.disk_order) = next - 1
    BY <2>1, LenProperties DEF ListsInv, SessionInv, ReadEntry
  <2>3. /\ Len(disk.entries) \in Nat
        /\ DOMAIN disk.entries = 1 .. Len(disk.entries)
        /\ next \in Nat
        /\ next <= Len(disk.entries)
        /\ disk \in Disks
    BY DisksAssumption, LenProperties DEF ListsInv, SessionInv, ReadEntry
  <2> QED BY <2>2, <2>3
<1>2. d \in DpmeSet /\ Small(d.start + d.length) /\ d.length > 0
  BY <1>1, DisksAssumption, LenProperties DEF ListsInv, SessionInv, SmallInputs, PositiveInputs
<1>3. /\ WellLinked(map)
      /\ Unused(map) # {}
      /\ map' = AddDataToMap(map, d, next)
      /\ next \in Int
      /\ mode = "reading"
  BY DEF ListsInv, SessionInv, ReadEntry
<1>4. ASSUME NEW f \in Linked(map)
      PROVE  \E i \in 1 .. next - 1 : map.data[f] = disk.entries[i]
  BY <1>3 DEF ExtentsInv
<1>5. ASSUME NEW f \in Linked(map) PROVE Apart(d, map.data[f])
  <2>1. PICK i \in 1 .. next - 1 : map.data[f] = disk.entries[i]
    BY <1>4
  <2>2. i \in DOMAIN disk.entries /\ next \in DOMAIN disk.entries /\ i # next
    BY <1>1, <2>1
  <2> QED BY <1>1, <2>1, <2>2 DEF SmallInputs
<1>6. d = disk.entries[next]
  OBVIOUS
<1> HIDE DEF d
<1>7. OrderInv'
  BY <1>2, <1>3, <1>5, AddDataKeepsOrder DEF OrderInv
<1>8. /\ Linked(map') = Linked(map) \cup {e}
      /\ map'.data[e] = d
      /\ \A f \in Linked(map) : map'.data[f] = map.data[f]
  BY <1>2, <1>3, AddDataToMapLinks
<1> HIDE DEF e
<1>9. ASSUME NEW f \in Linked(map')
      PROVE  \E i \in DOMAIN disk.entries : map'.data[f] = disk.entries[i]
  <2>1. CASE f = e
    BY <2>1, <1>1, <1>6, <1>8
  <2>2. CASE f \in Linked(map)
    <3>1. PICK i \in 1 .. next - 1 : map.data[f] = disk.entries[i]
      BY <1>4, <2>2
    <3>2. i \in DOMAIN disk.entries
      BY <1>1
    <3> QED BY <3>1, <3>2, <1>8, <2>2
  <2> QED BY <1>8, <2>1, <2>2
<1> QED BY <1>7, <1>9

(* Every command hands Edit a map in order; none makes two free entries     *)
(* touch.                                                                   *)
TidyEdit == \E r : Edit(r) /\ Tidied(map, r)

LEMMA LengthsArePositive ==
  ASSUME PositiveInputs, WellLinked(map), InOrder(map), NEW n \in Lengths
  PROVE  n > 0
<1>1. CASE n \in LengthNumbers
  BY <1>1 DEF PositiveInputs
<1>2. ASSUME NEW e \in ToSet(map.disk_order), n = map.data[e].length
      PROVE  n > 0
  BY <1>2 DEF WellLinked, InOrder
<1> QED BY <1>1, <1>2 DEF Lengths

LEMMA EveryEditIsTidy ==
  ASSUME SmallInputs, PositiveInputs, ListsInv, OrderInv, Next
  PROVE  ReadEntry \/ GiveUpReading \/ InitPartitionMap \/ TidyEdit
<1>0. WellLinked(map) /\ InOrder(map) /\ Disjoint(map) /\ Small(1)
  BY OrderedIsDisjoint DEF ListsInv, SessionInv, OrderInv, SmallInputs
<1>1. CASE CreatePartition
  <2>1. PICK base \in Bases, length \in Lengths, mallocs \in Mallocs,
             type \in {UnixType} \cup (CreateTypes \ {FreeType, MapType}) :
          Edit(AddPartitionToMap(map, type, base, length, mallocs))
    BY <1>1 DEF CreatePartition
  <2>2. type \in PartitionType /\ mallocs \in Int /\ type # FreeType
    BY InputsAssumption DEF PartitionType, UnixType, FreeType
  <2>3. /\ base \in 0 .. U32 - 1 /\ Small(base)
        /\ length \in 0 .. U32 - 1 /\ Small(length)
        /\ length > 0
    BY <1>0, BasesAreTyped, LengthsAreTyped, LengthsArePositive
  <2>4. Tidied(map, AddPartitionToMap(map, type, base, length, mallocs))
    BY <2>2, <2>3, <1>0, AddPartitionTidied
  <2> QED BY <2>1, <2>4 DEF TidyEdit
<1>2. CASE CreateBootstrap
  <2>1. PICK base \in Bases, mallocs \in Mallocs :
          Edit(AddPartitionToMap(map, BootstrapType, base, Bootstrap, mallocs))
    BY <1>2 DEF CreateBootstrap
  <2>2. /\ BootstrapType \in PartitionType
        /\ mallocs \in Int
        /\ BootstrapType # FreeType
    BY InputsAssumption DEF PartitionType, BootstrapType, FreeType
  <2>3. /\ base \in 0 .. U32 - 1 /\ Small(base)
        /\ Bootstrap \in 0 .. U32 - 1 /\ Small(Bootstrap)
        /\ Bootstrap > 0
    BY <1>0, BasesAreTyped, InputsAssumption DEF SmallInputs, PositiveInputs
  <2>4. Tidied(map, AddPartitionToMap(map, BootstrapType, base, Bootstrap, mallocs))
    BY <2>2, <2>3, <1>0, AddPartitionTidied
  <2> QED BY <2>1, <2>4 DEF TidyEdit
<1>3. CASE DeletePartition
  <2>1. PICK index \in IndexNumbers, mallocs \in Mallocs :
          \E e \in FindEntryByDiskAddress(map, AsInt(index)) :
            Edit(DeletePartitionFromMap(map, e, mallocs))
    BY <1>3 DEF DeletePartition
  <2>2. PICK e \in FindEntryByDiskAddress(map, AsInt(index)) :
          Edit(DeletePartitionFromMap(map, e, mallocs))
    BY <2>1
  <2>3. e \in Linked(map) /\ mallocs \in Int
    BY <1>0, InputsAssumption DEF FindEntryByDiskAddress, WellLinked
  <2>4. Tidied(map, DeletePartitionFromMap(map, e, mallocs))
    BY <2>3, <1>0, DeletePartitionTidied
  <2> QED BY <2>2, <2>4 DEF TidyEdit
<1>4. ASSUME NEW old_index \in IndexNumbers, NEW index \in IndexNumbers,
             Reorder(old_index, index)
      PROVE  TidyEdit
  <2>1. Tidied(map, MoveEntryInMap(map, AsInt(old_index), AsInt(index)))
    BY <1>0, AsIntIsInt, MoveEntryTidied
  <2> QED BY <2>1, <1>4 DEF Reorder, TidyEdit
<1>5. CASE ChangeMapSize
  <2>1. PICK size \in SizeNumbers, mallocs \in Mallocs :
          Edit(ResizeMap(map, size, mallocs))
    BY <1>5 DEF ChangeMapSize
  <2>2. size \in 0 .. U32 - 1 /\ mallocs \in Int /\ Small(size)
    BY InputsAssumption DEF SmallInputs
  <2>3. Tidied(map, ResizeMap(map, size, mallocs))
    BY <2>2, <1>0, ResizeMapTidied
  <2> QED BY <2>1, <2>3 DEF TidyEdit
<1> QED BY <1>1, <1>2, <1>3, <1>4, <1>5 DEF Next

LEMMA InitPartitionMapIsTidy ==
  ASSUME SmallInputs, PositiveInputs, InitPartitionMap
  PROVE  InOrder(map') /\ Separate(map')
<1>1. PICK n \in MediaNumbers, drivers \in DriverTables, mallocs \in Mallocs :
        LET media   == IF n < 4 THEN 4 ELSE n
            size    == IF media <= SmallMedia THEN SmallMap ELSE LargeMap
            created == CreatePartitionMap(media, drivers)
        IN  map' = AddPartitionToMap(created, MapType, 1, size, mallocs - 4)
  BY DEF InitPartitionMap
<1> DEFINE media   == IF n < 4 THEN 4 ELSE n
           size    == IF media <= SmallMedia THEN SmallMap ELSE LargeMap
           created == CreatePartitionMap(media, drivers)
<1>2. /\ n \in 0 .. U32 - 1
      /\ 4 \in 0 .. U32 - 1
      /\ SmallMap \in 0 .. U32 - 1
      /\ LargeMap \in 0 .. U32 - 1
      /\ mallocs - 4 \in Int
      /\ drivers \in SUBSET [block : Nat, size : Nat]
  BY InputsAssumption
<1>3. media \in 2 .. U32 - 1 /\ media \in 1 .. U32 - 1
  BY <1>2, U32Assumption
<1>4. /\ size \in 0 .. U32 - 1
      /\ size > 0
      /\ 1 \in 0 .. U32 - 1
  <2>1. SmallMap > 0 /\ LargeMap > 0
    BY DEF PositiveInputs
  <2> HIDE DEF media
  <2> QED BY <2>1, <1>2, U32Assumption
<1>5. Small(media) /\ Small(size) /\ Small(1)
  BY DEF SmallInputs
<1>6. map' = AddPartitionToMap(created, MapType, 1, size, mallocs - 4)
  BY <1>1
<1> HIDE DEF media, size
<1>7. WellLinked(created)
  BY <1>2, <1>3, CreatedIsSound
<1>8. InOrder(created) /\ Separate(created)
  BY <1>2, <1>3, <1>5, CreatedIsTidy
<1> HIDE DEF created
<1>9. MapType \in PartitionType /\ MapType # FreeType
  BY DEF PartitionType, MapType, FreeType
<1>10. Tidied(created, map')
  BY <1>2, <1>4, <1>5, <1>6, <1>7, <1>8, <1>9, AddPartitionTidied
<1> QED BY <1>8, <1>10 DEF Tidied

LEMMA NoMapIsTidy ==
  ASSUME NEW media \in 0 .. U32 - 1, NEW drivers \in SUBSET [block : Nat, size : Nat]
  PROVE  InOrder(EmptyMap(media, drivers))
<1> DEFINE m == EmptyMap(media, drivers)
<1>1. Linked(m) = {}
  BY EmptyMapIsWellLinked
<1> HIDE DEF m
<1>2. InOrder(m)
  BY <1>1 DEF InOrder
<1> QED BY <1>2 DEF m

LEMMA InitOrder == Init => OrderInv
<1> SUFFICES ASSUME Init PROVE OrderInv
  OBVIOUS
<1>1. disk.media \in 0 .. U32 - 1 /\ disk.drivers \in SUBSET [block : Nat, size : Nat]
  BY DisksAssumption DEF Init
<1> QED BY <1>1, NoMapIsTidy DEF Init, OrderInv

LEMMA NextOrder ==
  ASSUME SmallInputs, PositiveInputs
  PROVE  ListsInv /\ ExtentsInv /\ OrderInv /\ [Next]_vars => OrderInv'
<1> SUFFICES ASSUME ListsInv, ExtentsInv, OrderInv, [Next]_vars PROVE OrderInv'
  OBVIOUS
<1>1. CASE ReadEntry
  BY <1>1, ReadEntryIsOrdered
<1>2. CASE GiveUpReading
  <2>1. 0 \in 0 .. U32 - 1 /\ {} \in SUBSET [block : Nat, size : Nat]
    BY U32Assumption
  <2> QED BY <1>2, <2>1, NoMapIsTidy DEF GiveUpReading, NoMap, OrderInv
<1>3. CASE InitPartitionMap
  BY <1>3, InitPartitionMapIsTidy DEF OrderInv
<1>4. CASE TidyEdit
  BY <1>4 DEF TidyEdit, Edit, Tidied, OrderInv
<1>5. CASE UNCHANGED vars
  BY <1>5 DEF vars, OrderInv
<1> QED BY <1>1, <1>2, <1>3, <1>4, <1>5, EveryEditIsTidy

LEMMA OrderAlways ==
  ASSUME SmallInputs, PositiveInputs
  PROVE  Spec => [](ListsInv /\ ExtentsInv /\ OrderInv)
<1>1. Init => ExtentsInv /\ OrderInv
  BY InitExtents, InitOrder
<1>2. ListsInv /\ ExtentsInv /\ OrderInv /\ [Next]_vars => ExtentsInv' /\ OrderInv'
  BY NextExtents, NextOrder
<1> QED BY <1>1, <1>2, ListsAlways, PTL DEF Spec

(* The base list ascends after every command, although the commands change  *)
(* the starts of linked entries in place: each entry that shrinks, grows or *)
(* splits stays behind the one before it.  No number comes near the largest *)
(* u32, and nobody types a length of 0.                                     *)
THEOREM BaseOrderStaysAscending ==
  ASSUME SmallInputs, PositiveInputs
  PROVE  Spec => []BaseOrderAscends
<1>1. ListsInv /\ OrderInv => BaseOrderAscends
  <2> SUFFICES ASSUME ListsInv, OrderInv, NEW i \in 1 .. Len(map.base_order) - 1
               PROVE  map.data[map.base_order[i]].start
                        <= map.data[map.base_order[i + 1]].start
    BY DEF BaseOrderAscends
  <2> DEFINE x == map.base_order[i]
             y == map.base_order[i + 1]
  <2>1. /\ map.base_order \in Seq(Entry)
        /\ ToSet(map.base_order) = Linked(map)
        /\ WellLinked(map)
    BY BaseListIsTyped DEF ListsInv, SessionInv
  <2>2. Len(map.base_order) \in Nat /\ DOMAIN map.base_order = 1 .. Len(map.base_order)
    BY <2>1, LenProperties
  <2>3. i \in 1 .. Len(map.base_order) /\ i + 1 \in 1 .. Len(map.base_order)
    BY <2>2
  <2>4. x \in Linked(map) /\ y \in Linked(map)
    BY <2>1, <2>2, <2>3 DEF ToSet
  <2>5. Before(map.base_order, x, y)
    BY <2>2, <2>3 DEF Before
  <2> HIDE DEF x, y
  <2>6. map.data[x].start + map.data[x].length <= map.data[y].start
    BY <2>4, <2>5 DEF OrderInv, InOrder
  <2>7. /\ map.data[x].start \in Nat
        /\ map.data[x].length \in Nat
        /\ map.data[y].start \in Nat
    BY <2>1, <2>4, LinkedData, DpmeFields, U32Assumption
  <2>8. map.data[x].start <= map.data[y].start
    BY <2>6, <2>7
  <2> QED BY <2>8 DEF x, y
<1> QED BY <1>1, OrderAlways, PTL

PiecesInv == mode = "open" => Separate(map)

(* Free space is always in one piece: whatever add_partition_to_map leaves  *)
(* of a free entry and whatever combine_entry merges, no free entry ends    *)
(* where another one starts, as long as the disk did not start out that     *)
(* way, no number comes near the largest u32, and nobody types a length     *)
(* of 0.  Failing allocations are included.                                 *)
THEOREM FreeSpaceStaysInOnePiece ==
  ASSUME SmallInputs, PositiveInputs, SeparateDisks
  PROVE  Spec => []FreeSpaceInOnePiece
<1>1. Init => PiecesInv
  BY DEF Init, PiecesInv
<1>2. ListsInv /\ ExtentsInv /\ OrderInv /\ PiecesInv /\ [Next]_vars => PiecesInv'
  <2> SUFFICES ASSUME ListsInv, ExtentsInv, OrderInv, PiecesInv, [Next]_vars,
                      mode' = "open"
               PROVE  Separate(map')
    BY DEF PiecesInv
  <2>1. CASE ReadEntry
    <3>1. disk \in Disks
      BY DEF ListsInv, SessionInv
    <3>2. \A f \in Linked(map') :
            \E i \in DOMAIN disk.entries : map'.data[f] = disk.entries[i]
      BY <2>1, ReadEntryIsOrdered
    <3>3. ASSUME NEW e \in Linked(map'), NEW f \in Linked(map'),
                 IsFree(map', e), IsFree(map', f)
          PROVE  ~ Contiguous(map', e, f)
      <4>1. PICK i \in DOMAIN disk.entries : map'.data[e] = disk.entries[i]
        BY <3>2
      <4>2. PICK j \in DOMAIN disk.entries : map'.data[f] = disk.entries[j]
        BY <3>2
      <4> QED BY <3>1, <3>3, <4>1, <4>2 DEF SeparateDisks, IsFree, Contiguous
    <3> QED BY <3>3 DEF Separate
  <2>2. CASE GiveUpReading
    BY <2>2 DEF GiveUpReading
  <2>3. CASE InitPartitionMap
    BY <2>3, InitPartitionMapIsTidy
  <2>4. CASE TidyEdit
    BY <2>4 DEF TidyEdit, Edit, Tidied, PiecesInv
  <2>5. CASE UNCHANGED vars
    BY <2>5 DEF vars, PiecesInv
  <2> QED BY <2>1, <2>2, <2>3, <2>4, <2>5, EveryEditIsTidy
<1>3. PiecesInv => FreeSpaceInOnePiece
  BY DEF PiecesInv, Separate, FreeSpaceInOnePiece
<1> QED BY <1>1, <1>2, <1>3, OrderAlways, PTL DEF Spec

-----------------------------------------------------------------------------
(* The r command puts the entry where the user said, also when it moves     *)
(* towards its own end of the map (move_entry_in_map, do_reorder).          *)
THEOREM ReorderPlacesEntry == Spec => ReorderGivesNumber
<1> DEFINE Placed ==
      \A old, new \in IndexNumbers :
        LET list == map.disk_order
            n    == Len(list)
        IN  map'.data = map.data /\ AsInt(old) \in 1 .. n /\ Reorder(old, new)
            => map'.disk_order = InsertAt(RemoveAt(list, old),
                                          Within(AsInt(new), n), list[old])
<1>1. ListsInv => Placed
  <2> SUFFICES ASSUME ListsInv, NEW old \in IndexNumbers, NEW new \in IndexNumbers,
                      AsInt(old) \in 1 .. Len(map.disk_order), Reorder(old, new)
               PROVE  map'.disk_order =
                        InsertAt(RemoveAt(map.disk_order, old),
                                 Within(AsInt(new), Len(map.disk_order)),
                                 map.disk_order[old])
    OBVIOUS
  <2>1. old \in Int /\ new \in Int /\ old < U32
    BY InputsAssumption, U32Assumption
  <2>2. Len(map.disk_order) \in Nat
    BY LenProperties DEF ListsInv, SessionInv, WellLinked, MapRecord
  <2>3. AsInt(old) = old
    BY <2>1, <2>2, U32Assumption DEF AsInt
  <2>4. AsInt(new) \in Int
    BY <2>1, U32Assumption DEF AsInt
  <2>5. map' = MoveEntryInMap(map, old, AsInt(new))
    BY <2>3 DEF Reorder, Edit
  <2> DEFINE to == AsInt(new)
  <2> HIDE DEF to
  <2>6. WellLinked(map) /\ Numbered(map) /\ old \in 1 .. Len(map.disk_order) /\ to \in Int
    BY <2>3, <2>4 DEF ListsInv, SessionInv, to
  <2>7. MoveEntryInMap(map, old, to).disk_order =
          InsertAt(RemoveAt(map.disk_order, old),
                   IF to < 1 THEN 1
                   ELSE IF to > Len(map.disk_order) THEN Len(map.disk_order) ELSE to,
                   map.disk_order[old])
    BY <2>6, MoveEntryPlaces
  <2> QED BY <2>5, <2>7 DEF Within, to
<1>2. Spec => [][Placed]_vars
  <2> HIDE DEF Placed
  <2> QED BY <1>1, ListsAlways, PTL DEF Spec
<1> QED BY <1>2 DEF ReorderGivesNumber

-----------------------------------------------------------------------------
(* Memory for every allocation an operation may make.                       *)
AmpleMemory == \A mallocs \in Mallocs : mallocs >= 8

(* A node for every entry the largest map has room for.                     *)
EnoughNodes ==
  /\ IsFiniteSet(Entry)
  /\ \A size \in {SmallMap, LargeMap} : size <= Cardinality(Entry)
  /\ \A d \in Disks : \A i \in DOMAIN d.entries :
       d.entries[i].type = MapType => d.entries[i].length <= Cardinality(Entry)

(* A map on a disk has an entry of its own, and it begins at block 1.       *)
MapsFirst ==
  \A d \in Disks :
    /\ \A i \in DOMAIN d.entries :
         d.entries[i].type = MapType => d.entries[i].start = 1
    /\ d.entries # << >> => \E i \in DOMAIN d.entries : d.entries[i].type = MapType

(* Drivers end before the largest u32.                                      *)
DriversFit ==
  /\ \A d \in Disks : \A drv \in d.drivers : drv.block + drv.size < U32
  /\ \A drivers \in DriverTables : \A drv \in drivers : drv.block + drv.size < U32

SpaceInv ==
  /\ \A t \in Taken(map) : t.type = MapType => t.start = 1
  /\ \A drv \in map.drivers : drv.block + drv.size < U32
  /\ map.maximum_in_map <= Cardinality(Entry)
  /\ mode = "open" => 0 <= map.maximum_in_map
  /\ mode = "reading" /\ (\E i \in 1 .. next - 1 : disk.entries[i].type = MapType)
     => 0 <= map.maximum_in_map

Parts(m) == {m.data[e] : e \in {f \in Linked(m) : ~ IsFree(m, f)}}

LEMMA AllocateStep ==
  ASSUME NEW r, Edit(r), r.drivers = map.drivers,
         NEW new, Allocates(map, r, new), new.type \notin {FreeType, MapType}
  PROVE  Space!Allocate
<1>1. mode = "open" /\ mode' = mode /\ map' = r
  BY DEF Edit
<1>2. Blocks(map) = Cover(Described(map)) /\ Blocks(r) = Cover(Described(r))
  BY BlocksAreCovered
<1>3. Taken(map) = Parts(map) /\ Taken(r) = Parts(r)
  BY TakenAreLinked DEF Parts
<1>4. /\ Parts(r) = Parts(map) \cup {new}
      /\ Blocks(r) = Blocks(map)
      /\ new.start .. new.start + new.length - 1
           \subseteq Blocks(map)
                     \ UNION {p.start .. p.start + p.length - 1 : p \in Parts(map)}
      /\ new \notin Parts(map)
  BY <1>2, <1>3 DEF Allocates, Cover, Extent
<1> QED BY <1>1, <1>4 DEF Space!Allocate, Space!Extent, Space!Used, Parts

(* What contains_driver computes with u32s is what DiskSpace means.         *)
LEMMA DriverIsHeld ==
  ASSUME ListsInv, OrderInv, SpaceInv, NEW e \in Linked(map)
  PROVE  ContainsDriver(map, e) <=> Space!HoldsDriver(map.data[e])
<1> DEFINE d == map.data[e]
<1>1. WellLinked(map) /\ map.drivers \in SUBSET [block : Nat, size : Nat]
  BY DEF ListsInv, SessionInv, WellLinked, MapRecord
<1>2. d \in DpmeSet /\ Small(d.start + d.length)
  BY <1>1, LinkedData DEF OrderInv, InOrder
<1>3. End(d) = d.start + d.length
  BY <1>2, EndIsExact
<1>4. ASSUME NEW drv \in map.drivers
      PROVE  Wrap(drv.block + drv.size) = drv.block + drv.size
  <2>1. drv.block + drv.size \in 0 .. U32 - 1
    BY <1>1, U32Assumption DEF SpaceInv
  <2> QED BY <2>1, WrapSmall
<1> QED BY <1>3, <1>4 DEF ContainsDriver, Space!HoldsDriver

LEMMA SpaceOf ==
  ASSUME NEW r, Edit(r)
  PROVE  /\ mode = "open" /\ mode' = mode /\ map' = r
         /\ Blocks(map) = Cover(Described(map)) /\ Blocks(map') = Cover(Described(r))
         /\ Parts(map) = Taken(map) /\ Parts(map') = Taken(r)
BY BlocksAreCovered, TakenAreLinked DEF Edit, Parts

LEMMA ReleaseStep ==
  ASSUME ListsInv, OrderInv, SpaceInv, NEW r, Edit(r), r.drivers = map.drivers,
         NEW e \in Linked(map), map.data[e].type # MapType, ~ ContainsDriver(map, e),
         Taken(r) = Taken(map) \ {map.data[e]},
         Cover(Described(r)) = Cover(Described(map))
  PROVE  Space!Release \/ UNCHANGED Space!vars
<1> DEFINE d == map.data[e]
<1>1. /\ mode = "open" /\ mode' = mode /\ map'.drivers = map.drivers
      /\ Blocks(map') = Blocks(map)
      /\ Parts(map') = Parts(map) \ {d}
  BY SpaceOf
<1>2. ~ Space!HoldsDriver(d) /\ d.type # MapType
  BY DriverIsHeld
<1> HIDE DEF d
<1>3. CASE d \in Parts(map)
  BY <1>1, <1>2, <1>3 DEF Space!Release, Parts
<1>4. CASE d \notin Parts(map)
  <2>1. Parts(map') = Parts(map)
    BY <1>1, <1>4
  <2> QED BY <1>1, <2>1 DEF Space!vars, Parts
<1> QED BY <1>3, <1>4

LEMMA SameSpaceStep ==
  ASSUME NEW r, Edit(r), r.drivers = map.drivers, SameSpace(map, r)
  PROVE  UNCHANGED Space!vars
<1>1. /\ mode' = mode /\ map'.drivers = map.drivers
      /\ Blocks(map') = Blocks(map)
      /\ Parts(map') = Parts(map)
  BY SpaceOf DEF SameSpace
<1> QED BY <1>1 DEF Space!vars, Parts

LEMMA ResizeStep ==
  ASSUME ListsInv, OrderInv, SpaceInv, NEW r, Edit(r), r.drivers = map.drivers,
         NEW e \in Linked(map), NEW size, Resized(map, r, e, size)
  PROVE  Space!Resize \/ Space!LoseMap \/ Space!SpoilMap
<1> DEFINE c == map.data[e]
           new == Dpme(MapType, 1, size)
           blank == Dpme(BlankType, c.start, c.length)
<1>1. /\ mode = "open" /\ mode' = mode /\ map'.drivers = map.drivers
      /\ Blocks(map') = Blocks(map)
      /\ c.type = MapType
      /\ Parts(map) = Taken(map) /\ Parts(map') = Taken(r)
  BY SpaceOf DEF Resized
<1>2. c \in Parts(map)
  <2>1. MapType # FreeType
    BY DEF MapType, FreeType
  <2> QED BY <2>1, <1>1 DEF Parts, IsFree
<1>3. ContainsDriver(map, e) <=> Space!HoldsDriver(c)
  BY DriverIsHeld
<1>4. /\ new.type = MapType /\ new.start = 1
      /\ blank.type = BlankType /\ blank.start = c.start /\ blank.length = c.length
  BY DEF Dpme
<1>5. \/ /\ ~ ContainsDriver(map, e)
         /\ Parts(map') = Parts(map) \ {c}
      \/ /\ ~ ContainsDriver(map, e)
         /\ Parts(map') = (Parts(map) \ {c}) \cup {new}
         /\ Extent(new) \subseteq Blocks(map) \ Cover(Parts(map) \ {c})
      \/ /\ ContainsDriver(map, e)
         /\ Parts(map') = (Parts(map) \ {c}) \cup {blank}
  BY <1>1, BlocksAreCovered DEF Resized
<1> HIDE DEF c, new, blank
<1>6. CASE ~ ContainsDriver(map, e) /\ Parts(map') = Parts(map) \ {c}
  BY <1>1, <1>2, <1>3, <1>6 DEF Space!LoseMap, Parts
<1>7. CASE /\ ~ ContainsDriver(map, e)
           /\ Parts(map') = (Parts(map) \ {c}) \cup {new}
           /\ Extent(new) \subseteq Blocks(map) \ Cover(Parts(map) \ {c})
  <2>1. new.start .. new.start + new.length - 1
          \subseteq Blocks(map) \ UNION {p.start .. p.start + p.length - 1 :
                                           p \in Parts(map) \ {c}}
    BY <1>7 DEF Extent, Cover
  <2>2. new \in Parts(map')
    BY <1>7
  <2> QED BY <1>1, <1>2, <1>3, <1>4, <1>7, <2>1, <2>2
          DEF Space!Resize, Space!Extent, Space!Used, Parts
<1>8. CASE ContainsDriver(map, e) /\ Parts(map') = (Parts(map) \ {c}) \cup {blank}
  <2>1. blank \in Parts(map')
    BY <1>8
  <2> QED BY <1>1, <1>2, <1>3, <1>4, <1>8, <2>1
          DEF Space!SpoilMap, Space!Extent, Parts
<1> QED BY <1>5, <1>6, <1>7, <1>8

(* A step of the editor is a step of DiskSpace, or none.                    *)
SpaceStep == (Space!Next \/ UNCHANGED Space!vars) /\ SpaceInv'

LEMMA EditKeepsSpace ==
  ASSUME SpaceInv, NEW r, Edit(r), r.drivers = map.drivers,
         r.maximum_in_map = map.maximum_in_map,
         \A t \in Taken(r) : t \in Taken(map) \/ (t.type = MapType => t.start = 1)
  PROVE  SpaceInv'
<1>1. mode = "open" /\ mode' = mode /\ map' = r
  BY DEF Edit
<1> QED BY <1>1 DEF SpaceInv

LEMMA AddedSpace ==
  ASSUME SmallInputs, RoomyInputs, EnoughNodes, AmpleMemory,
         ListsInv, OrderInv, RoomInv, SpaceInv, mode = "open",
         NEW type \in PartitionType, type # FreeType, type # MapType,
         NEW base \in 0 .. U32 - 1, NEW length \in 0 .. U32 - 1,
         Small(base), Small(length), length > 0, NEW mallocs \in Mallocs,
         Edit(AddPartitionToMap(map, type, base, length, mallocs))
  PROVE  SpaceStep
<1> DEFINE r == AddPartitionToMap(map, type, base, length, mallocs)
           new == Dpme(type, base, length)
<1>1. WellLinked(map) /\ InOrder(map) /\ Houses(map) /\ U32 >= 5
  BY U32HoldsFour DEF ListsInv, SessionInv, OrderInv, RoomInv, SpaceInv, Houses, EnoughNodes
<1>2. mallocs \in Int /\ mallocs >= 4 /\ Edit(r)
  BY InputsAssumption DEF AmpleMemory
<1>3. r = map \/ Allocates(map, r, new)
  BY <1>1, <1>2, AddPartitionAllocates
<1>4. r.drivers = map.drivers
  BY <1>1, <1>2, AddPartitionKeeps DEF Edited, Keeps
<1>5. r.maximum_in_map = map.maximum_in_map
  <2>1. r = map \/ \E act \in 0 .. 2 : MapIsBigEnough(map, act) /\ Grows(map, r, act, type)
    BY <1>1, <1>2, AddPartitionGrows
  <2> HIDE DEF r
  <2> QED BY <2>1 DEF Grows
<1>6. new.type = type
  BY DEF Dpme
<1> HIDE DEF r, new
<1>7. Allocates(map, r, new)
  BY <1>2, <1>3 DEF Edit
<1>8. Space!Allocate
  BY <1>2, <1>4, <1>6, <1>7, AllocateStep
<1>9. SpaceInv'
  BY <1>2, <1>4, <1>5, <1>6, <1>7, EditKeepsSpace DEF Allocates
<1> QED BY <1>8, <1>9 DEF SpaceStep, Space!Next

LEMMA DeletedSpace ==
  ASSUME AmpleMemory, ListsInv, OrderInv, SpaceInv,
         NEW e \in Linked(map), NEW mallocs \in Mallocs,
         Edit(DeletePartitionFromMap(map, e, mallocs))
  PROVE  SpaceStep
<1> DEFINE r == DeletePartitionFromMap(map, e, mallocs)
           no == \/ map.data[e].type = MapType
                 \/ ContainsDriver(map, e)
                 \/ mallocs < 1
<1>1. WellLinked(map) /\ InOrder(map) /\ mallocs \in Int /\ Edit(r) /\ r # map
  BY InputsAssumption DEF ListsInv, SessionInv, OrderInv, Edit
<1>2. /\ no => r = map
      /\ ~ no => /\ Taken(r) = Taken(map) \ {map.data[e]}
                 /\ Cover(Described(r)) = Cover(Described(map))
  BY <1>1, DeletePartitionReleases
<1>3. r.drivers = map.drivers
  BY <1>1, DeletePartitionKeeps DEF Edited, Keeps
<1>4. r.maximum_in_map = map.maximum_in_map
  BY <1>1, DeletePartitionGrows DEF Grows
<1> HIDE DEF r
<1>5. SpaceInv'
  BY <1>1, <1>2, <1>3, <1>4, EditKeepsSpace
<1>6. Space!Release \/ UNCHANGED Space!vars
  BY <1>1, <1>2, <1>3, ReleaseStep
<1> QED BY <1>5, <1>6 DEF SpaceStep, Space!Next

LEMMA ReorderedSpace ==
  ASSUME ListsInv, SpaceInv, NEW old \in Int, NEW index \in Int,
         Edit(MoveEntryInMap(map, old, index))
  PROVE  SpaceStep
<1> DEFINE r == MoveEntryInMap(map, old, index)
<1>1. WellLinked(map) /\ Edit(r)
  BY DEF ListsInv, SessionInv
<1>2. /\ Edited(map, r, TRUE)
      /\ r.data = map.data
      /\ r.base_order = map.base_order
      /\ r.maximum_in_map = map.maximum_in_map
  BY <1>1, MoveEntryKeeps
<1> HIDE DEF r
<1>3. SameSpace(map, r) /\ r.drivers = map.drivers
  BY <1>2 DEF SameSpace, Taken, Described, Linked, Edited, Keeps
<1>4. UNCHANGED Space!vars
  BY <1>1, <1>3, SameSpaceStep
<1>5. SpaceInv'
  BY <1>1, <1>2, <1>3, EditKeepsSpace DEF SameSpace
<1> QED BY <1>4, <1>5 DEF SpaceStep

LEMMA ResizedSpace ==
  ASSUME SmallInputs, EnoughNodes, AmpleMemory,
         ListsInv, OrderInv, RoomInv, SpaceInv, mode = "open",
         NEW size \in SizeNumbers, NEW mallocs \in Mallocs,
         Edit(ResizeMap(map, size, mallocs))
  PROVE  SpaceStep
<1> DEFINE r == ResizeMap(map, size, mallocs)
<1>1. /\ WellLinked(map) /\ InOrder(map) /\ Houses(map) /\ Roomy(map) /\ U32 >= 5
      /\ Small(1)
  BY U32HoldsFour DEF ListsInv, SessionInv, OrderInv, RoomInv, SpaceInv, Houses,
                      EnoughNodes, SmallInputs
<1>2. /\ size \in 0 .. U32 - 1 /\ Small(size)
      /\ mallocs \in Int /\ mallocs >= 5
      /\ Edit(r) /\ r # map
  BY InputsAssumption DEF SmallInputs, AmpleMemory, Edit
<1>3. \A e \in Linked(map) : map.data[e].type = MapType => map.data[e].start = 1
  <2>1. MapType # FreeType
    BY DEF MapType, FreeType
  <2> QED BY <2>1 DEF SpaceInv, Taken, Described
<1>4. r = map \/ \E e \in Linked(map) : Resized(map, r, e, size)
  BY <1>1, <1>2, <1>3, ResizeMapSpace
<1>5. r.drivers = map.drivers
  BY <1>1, <1>2, ResizeMapKeeps DEF Edited, Keeps
<1>6. r.maximum_in_map = map.maximum_in_map
  BY <1>1, <1>2, ResizeMapIsRoomy
<1> HIDE DEF r
<1>7. PICK e \in Linked(map) : Resized(map, r, e, size)
  BY <1>2, <1>4
<1>8. Space!Resize \/ Space!LoseMap \/ Space!SpoilMap
  BY <1>2, <1>5, <1>7, ResizeStep
<1>9. SpaceInv'
  <2>1. BlankType # MapType
    BY DEF BlankType, MapType
  <2>2. \A t \in Taken(r) : t \in Taken(map) \/ (t.type = MapType => t.start = 1)
    BY <1>7, <2>1 DEF Resized, Dpme
  <2> QED BY <1>2, <1>5, <1>6, <2>2, EditKeepsSpace
<1> QED BY <1>8, <1>9 DEF SpaceStep, Space!Next

LEMMA ReadSpace ==
  ASSUME SmallInputs, PositiveInputs, RoomyInputs, EnoughNodes, MapsFirst,
         ListsInv, ExtentsInv, OrderInv, RoomInv, SpaceInv, ReadEntry
  PROVE  SpaceStep
<1> DEFINE d == disk.entries[next]
<1>1. /\ next \in 1 .. Len(disk.entries)
      /\ DOMAIN disk.entries = 1 .. Len(disk.entries)
      /\ Len(disk.entries) \in Nat
      /\ disk \in Disks
      /\ Len(map.disk_order) = next - 1
  <2>1. map.disk_order \in Seq(Entry)
    BY DEF ListsInv, SessionInv, WellLinked, MapRecord
  <2>2. Len(map.disk_order) \in Nat /\ Len(map.disk_order) = next - 1
    BY <2>1, LenProperties DEF ListsInv, SessionInv, ReadEntry
  <2>3. /\ Len(disk.entries) \in Nat
        /\ DOMAIN disk.entries = 1 .. Len(disk.entries)
        /\ next \in Nat
        /\ next <= Len(disk.entries)
        /\ disk \in Disks
    BY DisksAssumption, LenProperties DEF ListsInv, SessionInv, ReadEntry
  <2> QED BY <2>2, <2>3
<1>2. d \in DpmeSet /\ Small(d.start + d.length) /\ d.length > 0
  BY <1>1, DisksAssumption, LenProperties DEF ListsInv, SessionInv, SmallInputs, PositiveInputs
<1>3. /\ WellLinked(map)
      /\ Unused(map) # {}
      /\ map' = AddDataToMap(map, d, next)
      /\ next \in Int
      /\ mode = "reading"
      /\ mode' \in {"reading", "open"}
      /\ disk' = disk
      /\ mode' = "reading" => next' = next + 1
      /\ mode' = "open" => next >= Len(disk.entries)
  BY DEF ListsInv, SessionInv, ReadEntry
<1>4. ASSUME NEW f \in Linked(map) PROVE Apart(d, map.data[f])
  <2>1. PICK i \in 1 .. next - 1 : map.data[f] = disk.entries[i]
    BY <1>3 DEF ExtentsInv
  <2>2. i \in DOMAIN disk.entries /\ next \in DOMAIN disk.entries /\ i # next
    BY <1>1, <2>1
  <2> QED BY <1>1, <2>1, <2>2 DEF SmallInputs
<1>5. d.type = MapType => /\ d.start = 1
                          /\ d.length <= Cardinality(Entry)
                          /\ 0 <= AsInt(d.length)
  <2>1. d.type = MapType => Len(disk.entries) <= AsInt(d.length)
    BY <1>1 DEF RoomyInputs
  <2>2. AsInt(d.length) \in Int
    BY <1>2, DpmeFields, U32Assumption DEF AsInt
  <2> QED BY <1>1, <2>1, <2>2 DEF MapsFirst, EnoughNodes
<1>6. \E i \in 1 .. Len(disk.entries) : disk.entries[i].type = MapType
  <2>1. disk.entries # << >>
    BY <1>1
  <2> QED BY <1>1, <2>1 DEF MapsFirst
<1>7. d = disk.entries[next]
  OBVIOUS
<1> HIDE DEF d
<1>8. /\ Described(map') = Described(map) \cup {d}
      /\ map'.drivers = map.drivers
      /\ map'.maximum_in_map = IF map.maximum_in_map < 0 /\ d.type = MapType
                               THEN AsInt(d.length) ELSE map.maximum_in_map
  BY <1>2, <1>3, AddDescribes, AddDataToMapLinks
<1>9. \A c \in Described(map) : Extent(c) \cap Extent(d) = {}
  <2> SUFFICES ASSUME NEW c \in Described(map) PROVE Extent(c) \cap Extent(d) = {}
    OBVIOUS
  <2>1. PICK f \in Linked(map) : c = map.data[f]
    BY DEF Described
  <2>2. c \in DpmeSet /\ Apart(d, c)
    BY <1>3, <1>4, <2>1, LinkedData
  <2>3. Extent(d) \cap Extent(c) = {}
    BY <1>2, <2>2, ApartExtents
  <2> QED BY <2>3
<1>10. Space!Load
  <2>1. Blocks(map) = Cover(Described(map)) /\ Blocks(map') = Cover(Described(map'))
    BY BlocksAreCovered
  <2>2. Parts(map) = Taken(map) /\ Parts(map') = Taken(map')
    BY TakenAreLinked DEF Parts
  <2>3. Blocks(map') = Blocks(map) \cup Extent(d)
    BY <1>8, <2>1 DEF Cover
  <2>4. Extent(d) = Blocks(map') \ Blocks(map)
    BY <1>9, <2>1, <2>3 DEF Cover
  <2>5. Parts(map) \subseteq Parts(map') /\ Parts(map') \subseteq Parts(map) \cup {d}
    BY <1>8, <2>2 DEF Taken
  <2>6. d.start .. d.start + d.length - 1 = Blocks(map') \ Blocks(map)
    BY <2>4 DEF Extent
  <2>7. Blocks(map) \subseteq Blocks(map')
    BY <2>3
  <2> QED BY <1>3, <1>8, <2>5, <2>6, <2>7 DEF Space!Load, Space!Extent, Parts
<1>11. SpaceInv'
  <2>1. \A t \in Taken(map') : t.type = MapType => t.start = 1
    BY <1>5, <1>8 DEF SpaceInv, Taken
  <2>2. \A drv \in map'.drivers : drv.block + drv.size < U32
    BY <1>8 DEF SpaceInv
  <2>3. map.maximum_in_map \in Int /\ Cardinality(Entry) \in Nat
    BY <1>3, CountIsNatural, FS_CardinalityType DEF EnoughNodes
  <2>4. d.type = MapType => AsInt(d.length) <= Cardinality(Entry)
    <3>1. d.length \in 0 .. U32 - 1
      BY <1>2, DpmeFields
    <3>2. AsInt(d.length) <= d.length
      BY <3>1, U32Assumption DEF AsInt
    <3>3. AsInt(d.length) \in Int
      BY <3>1, U32Assumption DEF AsInt
    <3> QED BY <1>5, <2>3, <3>1, <3>2, <3>3, U32Assumption
  <2>5. map'.maximum_in_map <= Cardinality(Entry)
    BY <1>8, <2>4 DEF SpaceInv
  <2>6. ASSUME \E i \in 1 .. next : disk.entries[i].type = MapType
        PROVE  0 <= map'.maximum_in_map
    <3>1. CASE d.type = MapType
      BY <1>5, <1>8, <2>3, <3>1
    <3>2. CASE d.type # MapType
      <4>1. PICK i \in 1 .. next : disk.entries[i].type = MapType
        BY <2>6
      <4>2. i \in 1 .. next - 1
        BY <1>1, <1>7, <3>2, <4>1
      <4> QED BY <1>3, <1>8, <2>3, <3>2, <4>1, <4>2 DEF SpaceInv
    <3> QED BY <3>1, <3>2
  <2>7. mode' = "reading" /\ (\E i \in 1 .. next' - 1 : disk'.entries[i].type = MapType)
        => 0 <= map'.maximum_in_map
    <3> SUFFICES ASSUME mode' = "reading",
                        \E i \in 1 .. next' - 1 : disk'.entries[i].type = MapType
                 PROVE  0 <= map'.maximum_in_map
      OBVIOUS
    <3>1. next' - 1 = next
      BY <1>3
    <3> QED BY <1>3, <2>6, <3>1
  <2>8. mode' = "open" => 0 <= map'.maximum_in_map
    <3>1. mode' = "open" => next = Len(disk.entries)
      BY <1>1, <1>3
    <3> QED BY <1>6, <2>6, <3>1
  <2> QED BY <2>1, <2>2, <2>5, <2>7, <2>8 DEF SpaceInv
<1> QED BY <1>10, <1>11 DEF SpaceStep, Space!Next

LEMMA NoMapSpace ==
  ASSUME NEW media \in 0 .. U32 - 1, NEW drivers \in SUBSET [block : Nat, size : Nat]
  PROVE  LET m == EmptyMap(media, drivers)
         IN  /\ Blocks(m) = {} /\ Parts(m) = {} /\ Taken(m) = {}
             /\ m.drivers = drivers
             /\ m.maximum_in_map = -1
<1> DEFINE m == EmptyMap(media, drivers)
<1>1. Linked(m) = {}
  BY EmptyMapIsWellLinked
<1>2. m.drivers = drivers /\ m.maximum_in_map = -1
  BY DEF EmptyMap
<1> HIDE DEF m
<1>3. Blocks(m) = {} /\ Parts(m) = {} /\ Taken(m) = {}
  BY <1>1 DEF Blocks, Parts, Taken, Described
<1> QED BY <1>2, <1>3 DEF m

LEMMA GiveUpSpace ==
  ASSUME EnoughNodes, GiveUpReading
  PROVE  SpaceStep
<1>1. /\ mode = "reading" /\ mode' = "none"
      /\ map' = EmptyMap(0, {})
  BY DEF GiveUpReading, NoMap
<1>2. 0 \in 0 .. U32 - 1 /\ {} \in SUBSET [block : Nat, size : Nat]
  BY U32Assumption
<1>3. /\ Blocks(map') = {} /\ Parts(map') = {} /\ Taken(map') = {}
      /\ map'.drivers = {} /\ map'.maximum_in_map = -1
  BY <1>1, <1>2, NoMapSpace
<1>4. Space!GiveUp
  BY <1>1, <1>3 DEF Space!GiveUp, Parts
<1>5. Cardinality(Entry) \in Nat
  BY FS_CardinalityType DEF EnoughNodes
<1>6. SpaceInv'
  BY <1>1, <1>3, <1>5 DEF SpaceInv
<1> QED BY <1>4, <1>6 DEF SpaceStep, Space!Next

LEMMA NewMapSpace ==
  ASSUME SmallInputs, PositiveInputs, RoomyInputs, EnoughNodes, AmpleMemory, DriversFit,
         InitPartitionMap
  PROVE  SpaceStep
<1>1. PICK n \in MediaNumbers, drivers \in DriverTables, mallocs \in Mallocs :
        LET media   == IF n < 4 THEN 4 ELSE n
            size    == IF media <= SmallMedia THEN SmallMap ELSE LargeMap
            created == CreatePartitionMap(media, drivers)
        IN  map' = AddPartitionToMap(created, MapType, 1, size, mallocs - 4)
  BY DEF InitPartitionMap
<1> DEFINE media   == IF n < 4 THEN 4 ELSE n
           size    == IF media <= SmallMedia THEN SmallMap ELSE LargeMap
           created == CreatePartitionMap(media, drivers)
           new     == Dpme(MapType, 1, size)
<1>2. /\ n \in 0 .. U32 - 1
      /\ 4 \in 0 .. U32 - 1
      /\ SmallMedia \in 0 .. U32 - 1
      /\ SmallMap \in 0 .. U32 - 1
      /\ LargeMap \in 0 .. U32 - 1
      /\ mallocs - 4 \in Int /\ mallocs - 4 >= 4
      /\ drivers \in SUBSET [block : Nat, size : Nat]
  BY InputsAssumption DEF AmpleMemory
<1>3. media \in 1 .. U32 - 1 /\ media >= 4 /\ Small(media) /\ media \in Nat
  BY <1>2, U32Assumption DEF SmallInputs
<1>4. /\ size \in 0 .. U32 - 1
      /\ 0 < size
      /\ size < media - 1
      /\ size < U32 \div 2
      /\ size <= Cardinality(Entry)
      /\ 2 <= Cardinality(Entry)
  <2>1. /\ SmallMap < 3 /\ LargeMap < SmallMedia
        /\ SmallMap < U32 \div 2 /\ LargeMap < U32 \div 2
        /\ SmallMap <= Cardinality(Entry) /\ LargeMap <= Cardinality(Entry)
        /\ 2 <= SmallMap /\ 2 <= LargeMap
        /\ Cardinality(Entry) \in Nat
    BY FS_CardinalityType DEF RoomyInputs, EnoughNodes
  <2> HIDE DEF media
  <2>2. CASE media <= SmallMedia
    <3>1. size = SmallMap
      BY <2>2
    <3> HIDE DEF size
    <3> QED BY <2>1, <3>1, <1>2, <1>3
  <2>3. CASE ~ (media <= SmallMedia)
    <3>1. size = LargeMap
      BY <2>3
    <3> HIDE DEF size
    <3> QED BY <2>1, <2>3, <3>1, <1>2, <1>3
  <2> QED BY <2>2, <2>3
<1>5. /\ map' = AddPartitionToMap(created, MapType, 1, size, mallocs - 4)
      /\ mode \in {"none", "open"}
      /\ mode' = "open"
  BY <1>1 DEF InitPartitionMap
<1> HIDE DEF media, size
<1>6. /\ Allocates(created, map', new)
      /\ map'.maximum_in_map = size
  BY <1>2, <1>3, <1>4, <1>5, U32HoldsFour, FirstMapSpace DEF EnoughNodes
<1>7. Described(created) = {Dpme(FreeType, 1, media - 1)}
  <2>1. Cardinality({}) = 0
    BY FS_EmptySet
  <2>2. Entry # {}
    <3> SUFFICES ASSUME Entry = {} PROVE FALSE
      OBVIOUS
    <3>1. Cardinality(Entry) = 0
      BY <2>1
    <3> HIDE DEF created, new
    <3> QED BY <3>1, <1>4
  <2> QED BY <2>2, <1>2, <1>3, CreatedSpace
<1>8. map'.drivers = drivers
  <2>1. WellLinked(created) /\ created.drivers = drivers
    BY <1>2, <1>3, CreatedIsSound, CreatedIsMarked
  <2> HIDE DEF created
  <2>2. 1 \in 0 .. U32 - 1 /\ MapType \in PartitionType
    BY U32Assumption DEF PartitionType
  <2>3. Edited(created, map', Small(1) /\ Small(size))
    BY <1>2, <1>4, <1>5, <2>1, <2>2, AddPartitionKeeps
  <2> QED BY <2>1, <2>3 DEF Edited, Keeps
<1>9. new.type = MapType /\ new.start = 1
  BY DEF Dpme
<1> HIDE DEF created, new
<1>10. Taken(created) = {} /\ Cover(Described(created)) = 1 .. media - 1
  BY <1>3, <1>7 DEF Taken, Cover, Extent, Dpme
<1>11. /\ Blocks(map') = 1 .. media - 1
       /\ Parts(map') = {new}
       /\ Taken(map') = {new}
       /\ Extent(new) \subseteq Blocks(map')
  BY <1>6, <1>10, BlocksAreCovered, TakenAreLinked DEF Allocates, Parts
<1>12. Space!Format
  <2>1. media - 1 \in Blocks(map')
    BY <1>3, <1>11
  <2>2. new.start .. new.start + new.length - 1 \subseteq Blocks(map')
    BY <1>11 DEF Extent
  <2>3. \E last \in Blocks(map') : Blocks(map') = 1 .. last
    BY <2>1, <1>11
  <2> QED BY <1>5, <1>9, <1>11, <2>2, <2>3 DEF Space!Format, Space!Extent, Parts
<1>13. SpaceInv'
  <2>1. \A t \in Taken(map') : t.type = MapType => t.start = 1
    BY <1>9, <1>11
  <2>2. \A drv \in map'.drivers : drv.block + drv.size < U32
    BY <1>8 DEF DriversFit
  <2>3. 0 <= map'.maximum_in_map /\ map'.maximum_in_map <= Cardinality(Entry)
    BY <1>4, <1>6
  <2> QED BY <1>5, <2>1, <2>2, <2>3 DEF SpaceInv
<1> QED BY <1>12, <1>13 DEF SpaceStep, Space!Next

LEMMA InitSpace ==
  ASSUME EnoughNodes, DriversFit
  PROVE  Init => Space!Init /\ SpaceInv
<1> SUFFICES ASSUME Init PROVE Space!Init /\ SpaceInv
  OBVIOUS
<1>1. /\ disk \in Disks
      /\ disk.media \in 0 .. U32 - 1
      /\ disk.drivers \in SUBSET [block : Nat, size : Nat]
      /\ map = EmptyMap(disk.media, disk.drivers)
      /\ mode = "reading" /\ next = 1
  BY DisksAssumption DEF Init
<1>2. /\ Blocks(map) = {} /\ Parts(map) = {} /\ Taken(map) = {}
      /\ map.drivers = disk.drivers /\ map.maximum_in_map = -1
  BY <1>1, NoMapSpace
<1>3. Cardinality(Entry) \in Nat
  BY FS_CardinalityType DEF EnoughNodes
<1>4. SpaceInv
  BY <1>1, <1>2, <1>3 DEF SpaceInv, DriversFit
<1>5. Space!Init
  BY <1>1, <1>2 DEF Space!Init, Parts
<1> QED BY <1>4, <1>5

LEMMA NextSpace ==
  ASSUME SmallInputs, PositiveInputs, RoomyInputs, EnoughNodes, AmpleMemory,
         MapsFirst, DriversFit
  PROVE  ListsInv /\ ExtentsInv /\ OrderInv /\ RoomInv /\ SpaceInv /\ [Next]_vars
         => SpaceStep
<1> SUFFICES ASSUME ListsInv, ExtentsInv, OrderInv, RoomInv, SpaceInv, [Next]_vars
             PROVE  SpaceStep
  OBVIOUS
<1>0. WellLinked(map) /\ InOrder(map) /\ Disjoint(map)
  BY OrderedIsDisjoint DEF ListsInv, SessionInv, OrderInv
<1>1. CASE ReadEntry
  BY <1>1, ReadSpace
<1>2. CASE GiveUpReading
  BY <1>2, GiveUpSpace
<1>3. CASE InitPartitionMap
  BY <1>3, NewMapSpace
<1>4. CASE CreatePartition
  <2>1. PICK base \in Bases, length \in Lengths, mallocs \in Mallocs,
             type \in {UnixType} \cup (CreateTypes \ {FreeType, MapType}) :
          Edit(AddPartitionToMap(map, type, base, length, mallocs))
    BY <1>4 DEF CreatePartition
  <2>2. type \in PartitionType /\ type # FreeType /\ type # MapType /\ mode = "open"
    BY <2>1, InputsAssumption DEF PartitionType, UnixType, FreeType, MapType, Edit
  <2>3. /\ base \in 0 .. U32 - 1 /\ Small(base)
        /\ length \in 0 .. U32 - 1 /\ Small(length)
        /\ length > 0
    BY <1>0, BasesAreTyped, LengthsAreTyped, LengthsArePositive
  <2> QED BY <2>1, <2>2, <2>3, AddedSpace
<1>5. CASE CreateBootstrap
  <2>1. PICK base \in Bases, mallocs \in Mallocs :
          Edit(AddPartitionToMap(map, BootstrapType, base, Bootstrap, mallocs))
    BY <1>5 DEF CreateBootstrap
  <2>2. /\ BootstrapType \in PartitionType
        /\ BootstrapType # FreeType
        /\ BootstrapType # MapType
        /\ mode = "open"
    BY <2>1 DEF PartitionType, BootstrapType, FreeType, MapType, Edit
  <2>3. /\ base \in 0 .. U32 - 1 /\ Small(base)
        /\ Bootstrap \in 0 .. U32 - 1 /\ Small(Bootstrap)
        /\ Bootstrap > 0
    BY <1>0, BasesAreTyped, InputsAssumption DEF SmallInputs, PositiveInputs
  <2> QED BY <2>1, <2>2, <2>3, AddedSpace
<1>6. CASE DeletePartition
  <2>1. PICK index \in IndexNumbers, mallocs \in Mallocs :
          \E e \in FindEntryByDiskAddress(map, AsInt(index)) :
            Edit(DeletePartitionFromMap(map, e, mallocs))
    BY <1>6 DEF DeletePartition
  <2>2. PICK e \in FindEntryByDiskAddress(map, AsInt(index)) :
          Edit(DeletePartitionFromMap(map, e, mallocs))
    BY <2>1
  <2>3. e \in Linked(map)
    BY <1>0 DEF FindEntryByDiskAddress, WellLinked
  <2> QED BY <2>2, <2>3, DeletedSpace
<1>7. ASSUME NEW old_index \in IndexNumbers, NEW index \in IndexNumbers,
             Reorder(old_index, index)
      PROVE  SpaceStep
  BY <1>7, AsIntIsInt, ReorderedSpace DEF Reorder
<1>8. CASE ChangeMapSize
  <2>1. PICK size \in SizeNumbers, mallocs \in Mallocs :
          Edit(ResizeMap(map, size, mallocs))
    BY <1>8 DEF ChangeMapSize
  <2>2. mode = "open"
    BY <2>1 DEF Edit
  <2> QED BY <2>1, <2>2, ResizedSpace
<1>9. CASE UNCHANGED vars
  BY <1>9 DEF vars, SpaceStep, SpaceInv, Taken, Described, Linked, Space!vars, Blocks, Extent, IsFree
<1> QED BY <1>1, <1>2, <1>3, <1>4, <1>5, <1>6, <1>7, <1>8, <1>9 DEF Next

(* Every command, with its splits, merges and renumbering, is one step on   *)
(* the set of partitions or none: a new partition takes described blocks    *)
(* nobody uses, a deleted one gives its blocks back, a partition that holds *)
(* a driver stays, and a resize touches the map's own partition only.  No   *)
(* number comes near the largest u32, nobody types a length of 0, malloc    *)
(* does not fail, and the disks describe themselves as the editor would.    *)
THEOREM EditorIsDiskSpace ==
  ASSUME SmallInputs, PositiveInputs, RoomyInputs, EnoughNodes, AmpleMemory,
         MapsFirst, DriversFit
  PROVE  Spec => EditorImplementsDiskSpace
<1>1. Init => RoomInv
  BY EmptyMapIsRoomy DEF Init, RoomInv
<1>2. ListsInv /\ RoomInv /\ [Next]_vars => RoomInv'
  BY NextIsRoomy
<1>3. Init => Space!Init /\ SpaceInv
  BY InitSpace
<1>4. ListsInv /\ ExtentsInv /\ OrderInv /\ RoomInv /\ SpaceInv /\ [Next]_vars
      => [Space!Next]_(Space!vars) /\ SpaceInv'
  BY NextSpace DEF SpaceStep
<1> QED BY <1>1, <1>2, <1>3, <1>4, OrderAlways, PTL
        DEF Spec, EditorImplementsDiskSpace, Space!Spec

-----------------------------------------------------------------------------
(* What the invariants above say together about every reachable map.        *)
LEMMA SpaceAlways ==
  ASSUME SmallInputs, PositiveInputs, RoomyInputs, EnoughNodes, AmpleMemory,
         MapsFirst, DriversFit
  PROVE  Spec => [](ListsInv /\ OrderInv /\ RoomInv /\ SpaceInv)
<1>1. Init => RoomInv
  BY EmptyMapIsRoomy DEF Init, RoomInv
<1>2. ListsInv /\ RoomInv /\ [Next]_vars => RoomInv'
  BY NextIsRoomy
<1>3. Init => SpaceInv
  BY InitSpace
<1>4. ListsInv /\ ExtentsInv /\ OrderInv /\ RoomInv /\ SpaceInv /\ [Next]_vars
      => SpaceInv'
  BY NextSpace DEF SpaceStep
<1> QED BY <1>1, <1>2, <1>3, <1>4, OrderAlways, PTL DEF Spec

LEMMA MapIsTaken ==
  ASSUME NEW m, NEW t \in Taken(m), t.type = MapType
  PROVE  MapEntries(m) # {}
BY DEF Taken, Described, MapEntries

LEMMA MapStaysTaken ==
  ASSUME NEW m, NEW e \in MapEntries(m), NEW r,
         \A t \in Taken(m) : t.type = MapType => t \in Taken(r)
  PROVE  MapEntries(r) # {}
<1>1. MapType # FreeType
  BY DEF MapType, FreeType
<1>2. m.data[e] \in Taken(m) /\ m.data[e].type = MapType
  BY <1>1 DEF Taken, Described, MapEntries
<1> QED BY <1>2, MapIsTaken

(* There is one map entry, and find_entry_by_type finds it.                 *)
LEMMA OneMapEntry ==
  ASSUME ListsInv, OrderInv, SpaceInv, NEW e \in MapEntries(map)
  PROVE  MapSlots(map) # {} /\ MapEntry(map) = e /\ map.data[e].start = 1
<1>1. WellLinked(map) /\ InOrder(map) /\ Disjoint(map)
  BY OrderedIsDisjoint DEF ListsInv, SessionInv, OrderInv
<1>2. ASSUME NEW f \in MapEntries(map) PROVE map.data[f].start = 1
  <2>1. MapType # FreeType
    BY DEF MapType, FreeType
  <2>2. map.data[f] \in Taken(map) /\ map.data[f].type = MapType
    BY <2>1 DEF Taken, Described, MapEntries
  <2> QED BY <2>2 DEF SpaceInv
<1>3. MapSlots(map) # {}
  <2>1. e \in Linked(map) /\ map.data[e].type = MapType
    BY DEF MapEntries
  <2>2. \E i \in DOMAIN map.base_order : map.base_order[i] = e
    BY <2>1 DEF Linked, ToSet
  <2> QED BY <2>1, <2>2 DEF MapSlots
<1>4. MapEntry(map) \in MapEntries(map)
  BY <1>1, <1>3, MapEntryIsLinked DEF MapEntries
<1>5. MapEntry(map) = e
  <2> DEFINE f == MapEntry(map)
  <2> HIDE DEF f
  <2>1. f \in Linked(map) /\ e \in Linked(map)
    BY <1>4 DEF MapEntries, f
  <2>2. map.data[f].start = 1 /\ map.data[e].start = 1
    BY <1>2, <1>4 DEF f
  <2>3. /\ map.data[f].length \in Nat /\ map.data[f].length > 0
        /\ map.data[e].length \in Nat /\ map.data[e].length > 0
    BY <1>1, <2>1, LinkedData, DpmeFields, U32Assumption DEF InOrder
  <2>4. ~ Apart(map.data[f], map.data[e])
    BY <2>2, <2>3 DEF Apart
  <2>5. f = e
    BY <1>1, <2>1, <2>4 DEF Disjoint
  <2> QED BY <2>5 DEF f
<1> QED BY <1>2, <1>3, <1>5

LEMMA ResizedMapIsKept ==
  ASSUME SmallInputs, EnoughNodes, AmpleMemory, ListsInv, OrderInv, RoomInv, SpaceInv,
         mode = "open", NEW e \in MapEntries(map),
         map.maximum_in_map = map.data[e].length, ~ ContainsDriver(map, e),
         NEW size \in SizeNumbers, NEW mallocs \in Mallocs,
         Edit(ResizeMap(map, size, mallocs))
  PROVE  MapEntries(map') # {}
<1>1. /\ WellLinked(map) /\ InOrder(map) /\ Houses(map) /\ U32 >= 5 /\ Small(1)
  BY U32HoldsFour DEF ListsInv, SessionInv, OrderInv, RoomInv, SpaceInv, Houses,
                      EnoughNodes, SmallInputs
<1>2. /\ size \in 0 .. U32 - 1 /\ Small(size)
      /\ mallocs \in Int /\ mallocs >= 5
  BY InputsAssumption DEF SmallInputs, AmpleMemory
<1>3. MapSlots(map) # {} /\ MapEntry(map) = e /\ map.data[e].start = 1
  BY OneMapEntry
<1>4. ResizeMap(map, size, mallocs) # map /\ map' = ResizeMap(map, size, mallocs)
  BY DEF Edit
<1>5. MayShrink(map, size) \/ MayGrow(map, size)
  BY <1>4 DEF ResizeMap
<1>6. Dpme(MapType, 1, size) \in Taken(ResizeMap(map, size, mallocs))
  BY <1>1, <1>2, <1>3, <1>5, ResizedMapStays
<1>7. Dpme(MapType, 1, size).type = MapType
  BY DEF Dpme
<1> QED BY <1>4, <1>6, <1>7, MapIsTaken

LEMMA StepKeepsMap ==
  ASSUME SmallInputs, PositiveInputs, RoomyInputs, EnoughNodes, AmpleMemory,
         ListsInv, OrderInv, RoomInv, SpaceInv, [Next]_vars,
         mode = "open", ~ InitPartitionMap, NEW e \in MapEntries(map),
         map.maximum_in_map = map.data[e].length, ~ ContainsDriver(map, e)
  PROVE  MapEntries(map') # {}
<1>0. /\ WellLinked(map) /\ InOrder(map) /\ Disjoint(map) /\ Houses(map) /\ U32 >= 5
  BY OrderedIsDisjoint, U32HoldsFour
     DEF ListsInv, SessionInv, OrderInv, RoomInv, SpaceInv, Houses, EnoughNodes
<1>1. ASSUME NEW type \in PartitionType, type # FreeType,
             NEW base \in 0 .. U32 - 1, NEW length \in 0 .. U32 - 1,
             Small(base), Small(length), length > 0, NEW mallocs \in Mallocs,
             Edit(AddPartitionToMap(map, type, base, length, mallocs))
      PROVE  MapEntries(map') # {}
  <2> DEFINE r == AddPartitionToMap(map, type, base, length, mallocs)
  <2>1. mallocs \in Int /\ mallocs >= 4
    BY InputsAssumption DEF AmpleMemory
  <2>2. r = map \/ Allocates(map, r, Dpme(type, base, length))
    BY <1>0, <1>1, <2>1, AddPartitionAllocates
  <2>3. map' = r /\ r # map
    BY <1>1 DEF Edit
  <2> HIDE DEF r
  <2>4. Taken(map) \subseteq Taken(r)
    BY <2>2, <2>3 DEF Allocates
  <2> QED BY <2>3, <2>4, MapStaysTaken
<1>2. CASE CreatePartition
  <2>1. PICK base \in Bases, length \in Lengths, mallocs \in Mallocs,
             type \in {UnixType} \cup (CreateTypes \ {FreeType, MapType}) :
          Edit(AddPartitionToMap(map, type, base, length, mallocs))
    BY <1>2 DEF CreatePartition
  <2>2. type \in PartitionType /\ type # FreeType
    BY <2>1, InputsAssumption DEF PartitionType, UnixType, FreeType
  <2>3. /\ base \in 0 .. U32 - 1 /\ Small(base)
        /\ length \in 0 .. U32 - 1 /\ Small(length)
        /\ length > 0
    BY <1>0, BasesAreTyped, LengthsAreTyped, LengthsArePositive
  <2> QED BY <1>1, <2>1, <2>2, <2>3
<1>3. CASE CreateBootstrap
  <2>1. PICK base \in Bases, mallocs \in Mallocs :
          Edit(AddPartitionToMap(map, BootstrapType, base, Bootstrap, mallocs))
    BY <1>3 DEF CreateBootstrap
  <2>2. BootstrapType \in PartitionType /\ BootstrapType # FreeType
    BY DEF PartitionType, BootstrapType, FreeType
  <2>3. /\ base \in 0 .. U32 - 1 /\ Small(base)
        /\ Bootstrap \in 0 .. U32 - 1 /\ Small(Bootstrap)
        /\ Bootstrap > 0
    BY <1>0, BasesAreTyped, InputsAssumption DEF SmallInputs, PositiveInputs
  <2> QED BY <1>1, <2>1, <2>2, <2>3
<1>4. CASE DeletePartition
  <2>1. PICK index \in IndexNumbers, mallocs \in Mallocs :
          \E f \in FindEntryByDiskAddress(map, AsInt(index)) :
            Edit(DeletePartitionFromMap(map, f, mallocs))
    BY <1>4 DEF DeletePartition
  <2>2. PICK f \in FindEntryByDiskAddress(map, AsInt(index)) :
          Edit(DeletePartitionFromMap(map, f, mallocs))
    BY <2>1
  <2>3. f \in Linked(map)
    BY <1>0, <2>2 DEF FindEntryByDiskAddress, WellLinked
  <2> DEFINE r  == DeletePartitionFromMap(map, f, mallocs)
             no == \/ map.data[f].type = MapType
                   \/ ContainsDriver(map, f)
                   \/ mallocs < 1
  <2>4. mallocs \in Int /\ Edit(r) /\ r # map /\ map' = r
    BY <2>1, <2>2, InputsAssumption DEF Edit
  <2>5. /\ no => r = map
        /\ ~ no => /\ Taken(r) = Taken(map) \ {map.data[f]}
                   /\ Cover(Described(r)) = Cover(Described(map))
    BY <1>0, <2>3, <2>4, DeletePartitionReleases
  <2> HIDE DEF r
  <2>6. map.data[f].type # MapType /\ Taken(r) = Taken(map) \ {map.data[f]}
    BY <2>4, <2>5
  <2> QED BY <2>4, <2>6, MapStaysTaken
<1>5. CASE \E old_index, index \in IndexNumbers : Reorder(old_index, index)
  <2>1. PICK old_index, index \in IndexNumbers : Reorder(old_index, index)
    BY <1>5
  <2> DEFINE r == MoveEntryInMap(map, AsInt(old_index), AsInt(index))
  <2>2. map' = r
    BY <2>1 DEF Reorder, Edit
  <2>3. AsInt(old_index) \in Int /\ AsInt(index) \in Int
    BY <2>1, AsIntIsInt, InputsAssumption
  <2>4. r.data = map.data /\ r.base_order = map.base_order
    BY <1>0, <2>3, MoveEntryKeeps
  <2> HIDE DEF r
  <2>5. Taken(map) \subseteq Taken(r)
    BY <2>4 DEF Taken, Described, Linked
  <2> QED BY <2>2, <2>5, MapStaysTaken
<1>6. CASE ChangeMapSize
  <2>1. PICK size \in SizeNumbers, mallocs \in Mallocs :
          Edit(ResizeMap(map, size, mallocs))
    BY <1>6 DEF ChangeMapSize
  <2> QED BY <2>1, ResizedMapIsKept
<1>7. CASE UNCHANGED vars
  BY <1>7 DEF vars
<1>8. ~ ReadEntry /\ ~ GiveUpReading
  BY DEF ReadEntry, GiveUpReading
<1> QED BY <1>2, <1>3, <1>4, <1>5, <1>6, <1>7, <1>8 DEF Next

(* While maximum_in_map is the length of the map entry and no driver lies   *)
(* in it, no command but i leaves a map that had a map entry without one:   *)
(* change_size_of_partition_map blanks and deletes the entry before it adds *)
(* the new one, and nothing else makes that add fail.                       *)
THEOREM MapEntryIsLostOnlyWhenStale ==
  ASSUME SmallInputs, PositiveInputs, RoomyInputs, EnoughNodes, AmpleMemory,
         MapsFirst, DriversFit
  PROVE  Spec => MapEntryLostOnlyWhenStale
<1> DEFINE Kept ==
      \A e \in MapEntries(map) :
        mode = "open" /\ MapEntries(map') = {} /\ ~ InitPartitionMap
        => \/ map.maximum_in_map # map.data[e].length
           \/ ContainsDriver(map, e)
<1>1. ListsInv /\ OrderInv /\ RoomInv /\ SpaceInv /\ [Next]_vars => Kept
  BY StepKeepsMap
<1>2. Spec => [][Kept]_vars
  <2> HIDE DEF Kept
  <2> QED BY <1>1, SpaceAlways, PTL DEF Spec
<1> QED BY <1>2 DEF MapEntryLostOnlyWhenStale
=============================================================================
