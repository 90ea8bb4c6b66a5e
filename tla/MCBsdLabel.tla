----------------------------- MODULE MCBsdLabel -----------------------------
(***************************************************************************)
(* A disk of four cylinders of four sectors with a NetBSD partition that    *)
(* is not on cylinder boundaries, a primary, an empty and a logical one.    *)
(***************************************************************************)
EXTENDS BsdLabel

MCPartitions ==
  [k \in {0, 1, 2, 4} |->
     CASE k = 0 -> [start_sect |-> 1, nr_sects |-> 4, sys_ind |-> 6]
       [] k = 1 -> [start_sect |-> 6, nr_sects |-> 7, sys_ind |-> 165]
       [] k = 2 -> [start_sect |-> 0, nr_sects |-> 0, sys_ind |-> 0]
       [] k = 4 -> [start_sect |-> 1, nr_sects |-> 2, sys_ind |-> 7]]

OldLabel ==
  [valid |-> TRUE, npartitions |-> 2, secpercyl |-> 4,
   partitions |-> [i \in Letters |->
     IF i = 1 THEN [size |-> 7, offset |-> 6, fstype |-> 7]
     ELSE IF i = 3 THEN [size |-> 2, offset |-> 9, fstype |-> 1]
     ELSE NoEntry]]

Garbage == [OldLabel EXCEPT !.valid = FALSE]

MCLabels == {OldLabel, Garbage}

=============================================================================
