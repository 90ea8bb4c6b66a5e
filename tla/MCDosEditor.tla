---------------------------- MODULE MCDosEditor ----------------------------
(***************************************************************************)
(* Disks of 16 sectors, 2 to a track and 4 to a cylinder, for DosEditor.    *)
(***************************************************************************)
EXTENDS DosEditor

Data(begin, table, size) ==
  [type |-> Linux, active |-> FALSE,
   begin |-> begin, start |-> begin - table, size |-> size]
Link(table, extended, size) ==
  [type |-> EXTENDED, active |-> FALSE,
   begin |-> table, start |-> table - extended, size |-> size]
Sector(a, b) ==
  [slots |-> [k \in 0..3 |-> IF k = 0 THEN a ELSE IF k = 1 THEN b ELSE NoEntry],
   flag |-> TRUE]
Disk(sectors) ==
  [s \in 0 .. Total - 1 |-> IF s \in DOMAIN sectors THEN sectors[s] ELSE Blank]

EmptyDisk == Disk(<< >>)

(* One primary partition and three logical ones. *)
FullDisk ==
  Disk((0 :> Sector(Data(2, 0, 2), Link(4, 0, 12)))
       @@ (4 :> Sector(Data(6, 4, 2), Link(8, 4, 4)))
       @@ (8 :> Sector(Data(10, 8, 2), Link(12, 4, 4)))
       @@ (12 :> Sector(Data(14, 12, 2), NoEntry)))

(* The chain is not in the order of addresses, one table has its entries    *)
(* swapped and another one a wrong flag; a second extended primary leads    *)
(* nowhere.                                                                 *)
OddDisk ==
  Disk((0 :> [slots |-> (0 :> Link(0, 0, 0)) @@ (1 :> NoEntry)
                          @@ (2 :> Link(4, 0, 12)) @@ (3 :> Data(2, 0, 2)),
              flag |-> TRUE])
       @@ (4 :> Sector(Link(12, 4, 4), Data(6, 4, 1)))
       @@ (8 :> [Sector(Data(10, 8, 2), NoEntry) EXCEPT !.flag = FALSE])
       @@ (12 :> Sector(Data(14, 12, 1), Link(8, 4, 4))))

(* Four logical partitions, and an old table in a sector that is free.      *)
LongDisk ==
  Disk((0 :> Sector(NoEntry, Link(4, 0, 12)))
       @@ (4 :> Sector(Data(5, 4, 1), Link(6, 4, 2)))
       @@ (6 :> Sector(Data(7, 6, 1), Link(8, 4, 2)))
       @@ (8 :> Sector(Data(9, 8, 1), Link(12, 4, 4)))
       @@ (10 :> Sector(Data(11, 10, 1), Link(8, 4, 2)))
       @@ (12 :> Sector(Data(13, 12, 3), NoEntry)))

(* Of the extended partition only the last sector is free. *)
TightDisk ==
  Disk((0 :> Sector(Data(1, 0, 3), Link(4, 0, 12)))
       @@ (4 :> Sector(Data(6, 4, 8), NoEntry)))

(* The last sectors are free, but every cylinder begins in a partition or a *)
(* table.                                                                   *)
UnevenDisk ==
  Disk((0 :> Sector(NoEntry, Link(4, 0, 12)))
       @@ (4 :> Sector(Data(6, 4, 1), Link(8, 4, 5)))
       @@ (8 :> Sector(Data(10, 8, 3), NoEntry)))

MCDisks == {EmptyDisk, FullDisk, OddDisk, LongDisk, TightDisk, UnevenDisk}

=============================================================================
