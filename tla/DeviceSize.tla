----------------------------- MODULE DeviceSize -----------------------------
(***************************************************************************)
(* compute_device_size in src/partition_map.c: the size of a device, found  *)
(* by reading single blocks, first at doubling distances until one cannot   *)
(* be read, then by bisection.                                              *)
(***************************************************************************)
EXTENDS Integers

CONSTANTS
  Devices,   \* each a set of blocks that can be read
  First,     \* the block read first (1024)
  Factor,    \* the first step from it (1024)
  Cap        \* the distance at which the doubling stops (2^30)

ASSUME DevicesAssumption == \A d \in Devices : d \subseteq Nat
ASSUME StepsAssumption ==
  First \in Nat \ {0} /\ Factor \in Nat \ {0, 1} /\ Cap \in Nat

VARIABLES
  readable,   \* the blocks of this device
  pc,         \* "doubling", "searching", "done" or "failed"
  l, r,       \* the bounds of the search
  x,          \* the block read last; the result in the end
  valid       \* whether it could be read

vars == <<readable, pc, l, r, x, valid>>

Init ==
  /\ readable \in Devices
  /\ pc = "doubling"
  /\ l = 0
  /\ r = First
  /\ x = 0
  /\ valid = FALSE

(* malloc returns NULL: the result is 0.                                    *)
NoBuffer ==
  /\ pc = "doubling"
  /\ l = 0
  /\ pc' = "failed"
  /\ UNCHANGED <<readable, l, r, x, valid>>

\* Fault: the lower bound stays behind by one step.
DoubleLate ==
  /\ pc = "doubling"
  /\ r \in readable
  /\ r' = IF r <= First THEN r * Factor ELSE r * 2
  /\ l' = r'
  /\ pc' = IF r' >= Cap THEN "searching" ELSE "doubling"
  /\ UNCHANGED <<readable, x, valid>>

Double ==
  /\ pc = "doubling"
  /\ r \in readable
  /\ l' = r
  /\ r' = IF r <= First THEN r * Factor ELSE r * 2
  /\ pc' = IF r' >= Cap THEN "searching" ELSE "doubling"
  /\ UNCHANGED <<readable, x, valid>>

OffTheEnd ==
  /\ pc = "doubling"
  /\ r \notin readable
  /\ pc' = "searching"
  /\ UNCHANGED <<readable, l, r, x, valid>>

\* Fault: the block that could not be read stays between the bounds.
BisectSlowly ==
  /\ pc = "searching"
  /\ l <= r
  /\ x' = (l + r) \div 2
  /\ valid' = (x' \in readable)
  /\ IF valid'
     THEN l' = x' + 1 /\ UNCHANGED <<r, pc>>
     ELSE IF x' > 0
     THEN r' = x' /\ UNCHANGED <<l, pc>>
     ELSE pc' = "done" /\ UNCHANGED <<l, r>>
  /\ UNCHANGED readable

Bisect ==
  /\ pc = "searching"
  /\ l <= r
  /\ x' = (l + r) \div 2
  /\ valid' = (x' \in readable)
  /\ IF valid'
     THEN l' = x' + 1 /\ UNCHANGED <<r, pc>>
     ELSE IF x' > 0
     THEN r' = x' - 1 /\ UNCHANGED <<l, pc>>
     ELSE pc' = "done" /\ UNCHANGED <<l, r>>
  /\ UNCHANGED readable

Finish ==
  /\ pc = "searching"
  /\ l > r
  /\ x' = IF valid THEN x + 1 ELSE x
  /\ pc' = "done"
  /\ UNCHANGED <<readable, l, r, valid>>

Next == NoBuffer \/ Double \/ OffTheEnd \/ Bisect \/ Finish

Spec == Init /\ [][Next]_vars

(* The routine is one thread that nothing blocks.                           *)
FairSpec == Spec /\ WF_vars(Next)

-----------------------------------------------------------------------------
(* Properties.                                                              *)

(* The bounds are unsigned longs, so neither may fall below 0.              *)
TypeOK ==
  /\ readable \in Devices
  /\ pc \in {"doubling", "searching", "done", "failed"}
  /\ l \in Nat
  /\ r \in Nat
  /\ x \in Nat
  /\ valid \in BOOLEAN

(* The result lies at an end of what can be read: the block before it can   *)
(* be read and the block at it cannot, whichever other blocks are bad.      *)
(* Only at the cap the search stops although there is more.  So a device    *)
(* without bad blocks, no larger than the cap, is measured exactly.         *)
ResultIsAnEnd ==
  pc = "done" =>
    /\ x # 0 => x - 1 \in readable
    /\ x \notin readable \/ x > Cap

(* The search ends.                                                         *)
SearchEnds == <>(pc \in {"done", "failed"})

=============================================================================
