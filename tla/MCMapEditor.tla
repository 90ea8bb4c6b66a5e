---------------------------- MODULE MCMapEditor ----------------------------
(***************************************************************************)
(* Small disks and inputs for MapEditor.                                    *)
(***************************************************************************)
EXTENDS MapEditorSpace

Other == "Apple_HFS"
MCUserTypes == {Other}
MCCreateTypes == {UnixType, FreeType, MapType}

(* A disk the map describes completely. *)
WholeDisk ==
  [media |-> 9, drivers |-> {},
   entries |-> << Dpme(MapType, 1, 4), Dpme(UnixType, 5, 2),
                  Dpme(FreeType, 7, 2) >>]

(* A driver in its own partition, entries not in the order of their bases,  *)
(* and blocks 5 and 9 in no entry.                                          *)
GappedDisk ==
  [media |-> 10, drivers |-> {[block |-> 6, size |-> 1]},
   entries |-> << Dpme(MapType, 1, 4), Dpme(FreeType, 8, 1),
                  Dpme(Other, 6, 2) >>]

BlankDisk == [media |-> 9, drivers |-> {}, entries |-> << >>]

(* A driver behind the entries of the map, in the map's own partition. *)
DriverDisk ==
  [media |-> 9, drivers |-> {[block |-> 3, size |-> 1]},
   entries |-> << Dpme(MapType, 1, 4), Dpme(FreeType, 5, 4) >>]

MCDriverDisks  == {DriverDisk}
MCDisks        == {WholeDisk, GappedDisk, BlankDisk}
MCWholeDisks   == {WholeDisk, BlankDisk}
MCDriverTables == {{}, {[block |-> 3, size |-> 1]}}
MCHighDrivers  == {{}, {[block |-> 7, size |-> 1]}}
MCBothDrivers  == MCDriverTables \cup MCHighDrivers

(* Nodes are interchangeable: only their places in the lists matter, and    *)
(* NewNode takes any of the unused ones.                                    *)
Nodes == Permutations(Entry)

=============================================================================
