------------------------------ MODULE DiskSpace ------------------------------
(***************************************************************************)
(* What a partition map editor promises about a disk, without lists, free   *)
(* entries or numbers: some blocks are described, disjoint partitions       *)
(* occupy some of these, and one command changes one partition.  The free   *)
(* entries of the program are the described blocks no partition occupies.   *)
(* MapEditorSpace shows that the editor implements this module.             *)
(***************************************************************************)
EXTENDS Integers

CONSTANTS FreeType, MapType, BlankType

VARIABLES
  phase,    \* "reading", "none" or "open"
  space,    \* the blocks the map describes
  parts,    \* the partitions: [type, start, length]
  drivers   \* where block zero says the drivers are: [block, size]

vars == <<phase, space, parts, drivers>>

Extent(p) == p.start .. p.start + p.length - 1
Used(ps)  == UNION {Extent(p) : p \in ps}

HoldsDriver(p) ==
  \E drv \in drivers :
    p.start <= drv.block /\ drv.block + drv.size <= p.start + p.length

Init ==
  /\ phase = "reading"
  /\ space = {}
  /\ parts = {}

(* The next entry of the map on the disk: a partition or free blocks.       *)
Load ==
  /\ phase = "reading"
  /\ phase' \in {"reading", "open"}
  /\ space \subseteq space'
  /\ parts \subseteq parts'
  /\ \A p \in parts' \ parts : Extent(p) = space' \ space
  /\ \A p, q \in parts' \ parts : p = q
  /\ UNCHANGED drivers

GiveUp ==
  /\ phase = "reading"
  /\ phase' = "none"
  /\ space' = {}
  /\ parts' = {}
  /\ drivers' = {}

(* A new map describes everything after block zero and holds at most the    *)
(* map itself.                                                              *)
Format ==
  /\ phase \in {"none", "open"}
  /\ phase' = "open"
  /\ \E last \in space' : space' = 1 .. last
  /\ \A p, q \in parts' : p = q
  /\ \A p \in parts' :
       p.type = MapType /\ p.start = 1 /\ Extent(p) \subseteq space'

Allocate ==
  /\ phase = "open"
  /\ \E p \in parts' \ parts :
       /\ parts' = parts \cup {p}
       /\ p.type \notin {FreeType, MapType}
       /\ Extent(p) \subseteq space \ Used(parts)
  /\ UNCHANGED <<phase, space, drivers>>

Release ==
  /\ phase = "open"
  /\ \E p \in parts :
       /\ p.type # MapType
       /\ ~ HoldsDriver(p)
       /\ parts' = parts \ {p}
  /\ UNCHANGED <<phase, space, drivers>>

(* The map's own partition may get another length, never another place.     *)
Resize ==
  /\ phase = "open"
  /\ \E p \in parts, q \in parts' :
       /\ p.type = MapType
       /\ q.type = MapType
       /\ q.start = 1
       /\ ~ HoldsDriver(p)
       /\ parts' = (parts \ {p}) \cup {q}
       /\ Extent(q) \subseteq space \ Used(parts \ {p})
  /\ UNCHANGED <<phase, space, drivers>>

(* A resize that fails half way: the map's own partition is given back and  *)
(* not taken again.                                                         *)
LoseMap ==
  /\ phase = "open"
  /\ \E p \in parts :
       /\ p.type = MapType
       /\ ~ HoldsDriver(p)
       /\ parts' = parts \ {p}
  /\ UNCHANGED <<phase, space, drivers>>

(* A resize of a map that holds a driver: its partition keeps the extent    *)
(* and loses the type.                                                      *)
SpoilMap ==
  /\ phase = "open"
  /\ \E p \in parts, q \in parts' :
       /\ p.type = MapType
       /\ HoldsDriver(p)
       /\ q.type = BlankType
       /\ Extent(q) = Extent(p)
       /\ parts' = (parts \ {p}) \cup {q}
  /\ UNCHANGED <<phase, space, drivers>>

Next ==
  \/ Load \/ GiveUp \/ Format
  \/ Allocate \/ Release \/ Resize \/ LoseMap \/ SpoilMap

Spec == Init /\ [][Next]_vars

=============================================================================
