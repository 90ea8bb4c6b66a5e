------------------------------ MODULE DosSpace ------------------------------
(***************************************************************************)
(* What the DOS partition editor promises about a disk, without tables,     *)
(* links or numbers: at most one box (the extended partition) and a set of  *)
(* partitions, and one command adds, removes or changes one of them.        *)
(* DosEditor shows that the program implements this module.                 *)
(***************************************************************************)
EXTENDS Integers, FiniteSets

CONSTANTS Total, Kinds

VARIABLES
  box,     \* the extents of the extended partition: one or none
  parts    \* the partitions: [first, last, start, kind, active, inside]

vars == <<box, parts>>

Extent(p) == p.first .. p.last
Used      == UNION {Extent(p) : p \in parts}
Inside    == {p \in parts : p.inside}

Init == box \in SUBSET {b \in [first : 1 .. Total, last : 1 .. Total] :
                          b.first <= b.last}

(* A new partition takes sectors no other one has, in the box or out of it. *)
Create ==
  /\ \E p \in parts' \ parts :
       /\ parts' = parts \cup {p}
       /\ p.first <= p.last
       /\ p.start = p.first
       /\ ~ p.active
       /\ Extent(p) \subseteq (1 .. Total - 1) \ Used
       /\ IF p.inside
          THEN \E b \in box : Extent(p) \subseteq (b.first + 1) .. b.last
          ELSE \A b \in box : Extent(p) \cap Extent(b) = {}
  /\ UNCHANGED box

CreateBox ==
  /\ box = {}
  /\ \E b \in box' :
       /\ box' = {b}
       /\ b.first <= b.last
       /\ Extent(b) \subseteq (1 .. Total - 1) \ Used
  /\ UNCHANGED parts

Remove ==
  /\ \E p \in parts : parts' = parts \ {p}
  /\ UNCHANGED box

(* The box goes with everything in it.                                      *)
RemoveBox ==
  /\ box # {}
  /\ box' = {}
  /\ parts' = parts \ Inside

(* The kind, the flag or the first block of the data of one partition       *)
(* changes; what the partition occupies does not.                           *)
Change ==
  /\ \E p \in parts, q \in parts' :
       /\ parts' = (parts \ {p}) \cup {q}
       /\ q.kind \in Kinds
       /\ q.start \in Extent(p)
       /\ <<q.first, q.last, q.inside>> = <<p.first, p.last, p.inside>>
  /\ UNCHANGED box

Next == Create \/ CreateBox \/ Remove \/ RemoveBox \/ Change

Spec == Init /\ [][Next]_vars

=============================================================================
