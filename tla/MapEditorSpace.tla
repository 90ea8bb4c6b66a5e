--------------------------- MODULE MapEditorSpace ---------------------------
(***************************************************************************)
(* The editor implements DiskSpace: every command, with its splits, merges  *)
(* and renumbering, is one step on the set of partitions or none at all.    *)
(***************************************************************************)
EXTENDS MapEditor

Space == INSTANCE DiskSpace WITH
  phase   <- mode,
  space   <- Blocks(map),
  parts   <- {map.data[e] : e \in {f \in Linked(map) : ~ IsFree(map, f)}},
  drivers <- map.drivers

(* Creating a partition takes described blocks nobody uses, deleting one    *)
(* gives them back and touches no other, a partition that holds a driver    *)
(* stays, a resize changes the map's own partition only (it may lose it, or *)
(* its type), reordering and every refused command change nothing.         *)
EditorImplementsDiskSpace == Space!Spec

=============================================================================
