---------------------------- MODULE MCDeviceSize ----------------------------
(***************************************************************************)
(* Small devices for DeviceSize, with and without bad blocks.               *)
(***************************************************************************)
EXTENDS DeviceSize

(* Every size up to n blocks, and every one of them with up to two blocks   *)
(* that cannot be read.                                                     *)
Whole(n) == {0 .. size - 1 : size \in 0 .. n}

WithBadBlocks(n) ==
  {device \ {b, c} : device \in Whole(n), b \in 0 .. n, c \in 0 .. n}

MCDevices == WithBadBlocks(18)

=============================================================================
