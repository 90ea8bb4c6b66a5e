----------------------------- MODULE MCMapStore -----------------------------
(***************************************************************************)
(* A small disk for MapStore: a full map with one partition right behind it.*)
(***************************************************************************)
EXTENDS MapStore

MCUserTypes   == {}
MCCreateTypes == {UnixType}

MCDisks ==
  { [media |-> 6, drivers |-> {},
     entries |-> << Dpme(MapType, 1, 3), Dpme(UnixType, 4, 1),
                    Dpme(FreeType, 5, 1) >>] }

Nodes == Permutations(Entry)

=============================================================================
