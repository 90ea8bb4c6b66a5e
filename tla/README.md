# A verification project for mac-fdisk

The repository holds `pdisk`/`mac-fdisk`, the editor of Apple partition maps,
and `pmac-fdisk`, the Linux `fdisk` with a BSD label editor. This directory
models its core in TLA+, checks it with TLC and proves what matters most about
it with TLAPS. `PROJECT.json` lists for every definition the lines it models,
for every property the mistake that breaks it, and every hazard of the code
with the properties that watch it.

## 1. The system

| Component | Source | State | Operations | What makes it correct |
|---|---|---|---|---|
| Partition map editor core | `partition_map.c`, `dpme.h` | one header with two doubly linked lists over the same entries (order on disk, order of bases), a counter, a limit, the driver table of block zero | read, create, add, delete, combine, move, resize, renumber | the lists agree, no block in two entries, no block forgotten, free space in one piece, the map keeps its entry and its room |
| Map store | `partition_map.c` 103-342, `io.c` 430-491, `pdisk.c` 625-657 | the blocks of the device, the descriptor | open, read, write, close | what is reported saved is on the disk, a torn write is noticed, nothing but the map is written |
| Device size | `partition_map.c` 663-752 | two bounds and a probe | doubling, bisection | the result is an end of the device, the search ends |
| Command interpreter | `pdisk.c` | the current map, flags | the commands i b c C d r s w q and the expert menu | a refused command changes nothing; what is changed can be written |
| Console input | `io.c` 96-420 | a pushback buffer, the unread part of the line | commands, numbers, strings, multipliers | the numbers are those that were typed; the rest of a refused line is not executed |
| Byte order and bit fields | `convert.c`, `bitfield.c` | none | convert, get, set | converting twice is the identity, fields do not touch their neighbours |
| Listing | `dump.c` | none | print | (output only) |
| DOS partition editor | `fdisk.c` | four primary entries, a chain of logical tables with offsets and changed marks | read, add, delete, change type, toggle, verify, write | chain and arrays agree, partitions do not overlap, every change is written |
| BSD label editor | `fdisklabel.c` | one label | add, delete, edit, initialise, read, write | entries and their count agree, the checksum fits |
| MacOS SCSI calls | `DoSCSICommandWithSense.c`, `DoReadWrite.c`, `DoTestUnitReady.c` | none of its own | read, write, test | (only built on MacOS) |

`edit()` in `pdisk.c` opens the map (`open_partition_map` measures the device
and reads the map block by block), hands it to one `do_...` routine per
command, each of which asks the console for its numbers and calls one routine
of `partition_map.c`, and closes it at the end. `fdisk.c` is a program of its
own: `main()` reads the tables into parallel arrays, runs one routine per
command on them, and writes them when it is left with `w`; its `b` command
hands a DOS partition to `bselect()` of `fdisklabel.c`, which edits the BSD label
inside it and writes that by itself. On MacOS `read_block` and `write_block` of
`io.c` call `DoRead` and `DoWrite`, which run a SCSI command on a bus that is
shared. Nothing runs concurrently inside the programs and there are no
callbacks: all state is in the header, the arrays or the label, shared by every
call. What is hard here is not interleaving but

* **two views of one set**: each entry is in two lists, insertions silently
  drop what they cannot place, and starts are changed in place; each logical
  partition is an element of five arrays that are shifted together, and a link
  in the table before it;
* **long sequences of legal commands** that meet a limit nobody refreshed
  (`maximum_in_map`), a step that fails in the middle (`resize_map`), a mark
  that was forgotten (`changed`) or a count that was raised too early
  (`d_npartitions`);
* **memory that runs out** between two changes of one command;
* **32 bit numbers** that wrap, and lengths of zero;
* **a write in place**, block by block, whose errors are ignored and which may
  stop anywhere;
* **one line of input** read by several loops, each of which puts one
  character back, and whose end may come at any of them;
* **a bus and a device** that may answer anything, at any try.

## 2. The modules

| Module | What it is |
|---|---|
| `PartitionMap` | every routine of `partition_map.c` that changes a map, as an operator from map to map |
| `MapEditor` | one session: `ReadEntry` and `GiveUpReading` for `open_partition_map`, then one action per command of `edit()` |
| `DiskSpace` | the abstract specification: described blocks, disjoint partitions, allocate, release, resize, and the two ways a resize fails half way |
| `MapEditorSpace` | `DiskSpace` with the map's entries substituted for its variables |
| `MapStore` | `MapEditor` (all its actions) composed with the device: writing, failing, stopping, the next session |
| `DeviceSize` | `compute_device_size` |
| `DosTable` | the routines of `fdisk.c` that read or change the tables, as operators from tables to tables, and the search for free sectors |
| `DosEditor` | a session of `fdisk.c`: one action per command, the write table by table, and a stop anywhere in it |
| `DosSpace` | the abstract specification of `DosEditor`: at most one box and a set of partitions, one of which is added, removed or changed by a command |
| `BsdLabel` | `bselect()` of `fdisklabel.c`: the label in memory, in the buffer of the boot area and on the disk |
| `ConsoleInput` | every loop of `io.c` and `pdisk.c` that reads a character |
| `ScsiCommand` | one call of `DoRead`, `DoWrite` or `DoTestUnitReady` |
| `MCMapEditor`, `MCMapStore`, `MCDeviceSize`, `MCDosEditor`, `MCBsdLabel`, `MCConsoleInput` | small disks, devices, labels and keyboards for TLC (`MCMapEditor` extends `MapEditorSpace`, the others the module they are named for) |
| `PartitionMapProofs` | what every routine of `PartitionMap` does, as lemmas |
| `MapEditorProofs`, `MapStoreProofs`, `DeviceSizeProofs`, `DosEditorProofs`, `BsdLabelProofs`, `ConsoleInputProofs`, `ScsiCommandProofs` | the theorems about the module they are named for (`MapEditorProofs` also about `MapEditorSpace`) |

**State.** `map` is the header. The linked lists are sequences of nodes
(`disk_order`, `base_order`); a node is what `malloc` returned for it, so that
the same one can be in both lists, and `data` and `disk_address` are the fields
of the nodes. A DPME keeps its type, start and length. `misc`, the block zero
buffer, is represented by its driver table. `mode` is where the program is:
reading, without a map, open, or writing.

**Actions.** Each command is one action: nothing can happen between the calls it
makes. `CreatePartition`, for example, is `do_create_partition` with
`add_partition_to_map`, its splits, insertions and the renumbering at its end.
The numbers the user types are chosen with `\E` from sets that are constants,
together with the starts and lengths of the existing partitions (the `3p` form
the prompts accept). A refused command leaves the map as it is. The number of
allocations a command is granted before `malloc` fails is a parameter too
(`mallocs`). The run `editor_no_memory` has a number for every outcome of an
add, a delete and a resize: nothing done, the old entry blanked or shrunk, the
new one added, both added. For a new map it has the failure after the free entry was shrunk
and before the map's own entry is linked, but not the one that leaves the free
entry whole, which has too many continuations to check.

**Numbers.** A `u32` is taken modulo `U32`. A `long` is as wide, as on the
machines these disks belong to. The comparison with the limit of the map is
unsigned because the enum in it is (`MapIsBigEnough`).

**The disk.** In `MapStore`, `blocks` is what each block holds: the driver
table, an entry with the number of entries of its map, data, or a block whose
first byte was cleared. `disk` is what opening the device would read from them.
`saved` is the map that was last reported saved, and empty when a write was cut
short since. A killed program keeps the order of its own writes; that a power
failure may reorder them in the kernel's cache is outside the model.

**The DOS tables.** What the arrays `changed`, `buffers`, `offsets`,
`part_table` and `ext_pointers` say of one logical table is one record, and the
records a sequence (`t.logical`), since every routine shifts the arrays from
index 4 on together. A table keeps its four slots as they are in the sector;
`part` and `ext` are which slots `part_table` and `ext_pointers` point at. An
entry has its beginning twice, as cylinder, head and sector (`begin`) and
counted from a table (`start`): `fdisk.c` uses the one for the first and the
other for the last sector of a partition. `u` is what the user may toggle, the
units and `sector_offset`. `AddLogical` is what `add_partition`,
`add_logical` and `set_partition` do together, and `Room` the table that
`add_logical` makes first. The disk is a function from sectors to tables, so
that old tables in free sectors may be found again. A prompt that refuses every
number it asks for (`NoAnswer`) leads to the mode "stuck"; one that refuses some of
them is answered until one is accepted or ends the command.

**The label.** `label` is `bsd_dlabel`, `buffer` the copy in the boot area and
`disk` what is on the disk. The three differ in what a failure leaves behind:
`WriteLabelFails`, `BootstrapFails` and `BootstrapEnds` are the outcomes of the
calls in the middle of `w` and `i`. "crashed" is a division by zero.

**The console.** `todo` is the stack of loops that are open, named for their
routines: `c` opens `number`, `block`, `number`, `multiplier`, `length` and
`string`. An action reads one character and says whether it is consumed, put
back, ends the loop or refuses the command. Whether a map exists and may be
written is the choice of `Command`. What is typed is any character of a small
set that has one for every case of the code: digits in and out of a base,
letters that are digits, commands, multipliers and answers.

**The SCSI call.** `pc` follows `OriginalSCSI`; `call` holds its locals. What
the SCSI Manager returns, the status and message bytes, how much of the data
was moved and when the bus is free are chosen freely at each step. `stage` says
whether the command itself or the Request Sense behind it runs. The clock wraps
after `Ticks` values.

Operators whose comment begins with "Fault" are used by nothing: each is its
neighbour with one plausible mistake, and shows that a property would notice.

## 3. The runs

All runs check every reachable state of their instance.

| Run | Shows |
|---|---|
| `editor` | With memory to spare and no number near the largest `u32`: the lists, the counter and the numbers agree; no two entries overlap; the base list ascends; free space is in one piece; the limit of the map is respected; a resize loses the map entry only when the limit is stale or a driver lies in the map; a reordered entry gets its number. Every command is one step of `DiskSpace` (through `MapEditorSpace`): a new partition was free space, no edit forgets a block, no second map entry is made |
| `editor_no_memory` | No block gets two entries when any allocation fails (that the lists agree then is proved for every map) |
| `store` | What was reported saved is what later sessions read; an unmarked map is the one on the disk; a torn write that changes the number of entries is refused by the next session; while the entries fit in the map, a write touches no partition |
| `dos` | The chain of logical tables agrees with the links in them; wherever a write stops, the disk leads to every partition that was not deleted; after it, to every one that was shown; a table that is not marked is the one on the disk; the search for free sectors passes over none; the prompt for it is endless only where none of its numbers stands for a sector with room; `verify` counts what is free. Every command is one step of `DosSpace` |
| `bsd` | The count of a label covers its partitions, so that what is written is read back and a prompt without an answer means a label without partitions; the boot area holds the label of the disk, or zeros after a bootstrap that failed; new partitions lie in their slice |
| `console` | At most one character is pushed back, as `ungetch` assumes; numbers are read as they were typed; only a `y` typed for it writes a map; nothing of a refused line is executed; at the end of the input the program ends |
| `scsi` | A call that succeeds moved the whole block; however it ends, the bus is free and no buffer is held; sense data is that of the command; every call ends |
| `device_size` | The result is an end of what can be read, hence exact for a device without bad blocks, and the search ends |

Where the code does not do what it says, a run shows it:

| Run | What the code does |
|---|---|
| `store_stale_limit` | `maximum_in_map` is never refreshed: after the map is shrunk it accepts more entries than it has blocks, and they are written over the partition behind the map |
| `dos_deleted` | deleting the last logical partition clears the link to it without marking its table, so `w` does not write it and the partition is back in the next session |
| `dos_tables` | the table of a new logical partition is put `sector_offset` sectors before its start, whatever is there |
| `bsd_bootstrap` | a bootstrap whose second file is missing clears the label in the boot area, and the next one writes the zeros over the label on the disk |

The following is known of the code too. It is part of the models, so that the
properties of the passing runs are worded to allow for it, or is kept out by the
instance where it says so:

* A partition of length 0 is accepted and puts the base list out of order, so
  that `P` does not print it by base address (`LengthNumbers` has no 0).
* `base + length` wraps in 32 bits, and a request far beyond the free entry is
  accepted (the numbers of the runs stay below `U32`; `SmallInputs` in the
  theorem).
* A resize may delete the entry of the map and then be refused the new one;
  with a driver in the map it blanks the type of the entry, changes nothing else
  and does not mark the map (`MapEntryLostOnlyWhenStale`, `BlankType`).
* An allocation that fails during an add leaves blocks in no entry
  (`DiskSpace` is implemented by the run with memory to spare).
* `write_partition_map` reports success although a block could not be written
  (`WritesMayFail` is FALSE in `store`).
* A device above the cap is measured as 2^30 + 1 blocks (`ResultIsAnEnd`).
* `get_number` drops the character behind a leading 0 unless it is an x; the
  rest of the line behind the answer y, behind a partition number that does not
  exist, and behind a letter typed for the size of a device, is read as
  commands (`NumberIsTyped`, `RefusedLineIsDropped`).
* The prompt for the first sector of a logical partition may refuse every
  number and is then repeated for ever: because the lowest lies above the
  highest, which happens only where there is no room, or because all of them
  stand for sectors that are allocated. The second happens in cylinders, also
  while sectors are free that begin no cylinder (`RoomLeftIsOutOfReach`; on
  `UnevenDisk`, with `sector_offset` toggled to 1, both cylinders that may be
  answered are refused and three sectors are left). The prompt for the letter of
  a partition never ends for an empty label.
* In cylinders a BSD partition may begin before the one that holds it, end
  behind it, or get a size that wrapped (`NewPartitionInSlice`).
* The count of transferred bytes goes on over busy tries, and a wait for the
  bus never ends when its limit is the last value of the clock
  (`SuccessIsWhole`, `EveryCallEnds`).

**A torn write with the same number of entries** is not refused: moving an
entry and stopping after its first block leaves a map that names one partition
twice and another not at all, and the next session accepts it. Nothing in the
repository promises otherwise. `TornMapIsRefused` therefore speaks of writes
that change the number, and excepts blocks of a still older map that may lie
behind the old one. Both situations occur in the run.

**Bounds, and why they are enough.** *Editor:* four nodes and about nine blocks:
enough for a map entry, two partitions and the free space on either side of a
third, for every kind of split (replace, left, right, middle) and merge
(previous, next, both), for a map with room and a full one. Three disks: one
described completely, one with gaps, a driver and entries out of order, one
blank, on which the driver table of the new map may name no block, one in the
map or one behind it. A new map has room for three entries, so that the four
nodes exceed its limit. `U32` is 32, so that starts and lengths reach neither the sign bit nor a
wrap. The nodes are symmetric: the model uses them only
through their places in the lists. *Store:* three nodes and six blocks, the
smallest disk on which a full map can be shrunk by one block, lose its free
neighbour to a new partition, and be written again; `MaxWrites = 3` allows for
a complete write, a torn one and one that meets what both left behind. The
editor's commands are limited to those that change the number of entries, their
order or the size of the map. *Device size:* a first step of 2, a factor of 4
and a cap of 16 keep the order of 1024, 1024 and 2^30; devices reach beyond the
cap, and up to two bad blocks fall on every probe. *DOS tables:* 16 sectors, two
to a track and four to a cylinder, so that a cylinder holds a table, its track
and a partition; `MaximumParts` is 7, so that three logical partitions fit and a
disk with four meets the cut. Six disks: empty; full; with a chain out of
order, swapped slots and a wrong flag; with a chain that is too long and an old
table in a free sector; with one free sector at the end of the extended
partition; and with free sectors in a cylinder that begins in a partition. Two edits reach a delete followed by an add in the gap, which is where
tables and partitions meet, from disks that already are what several edits would
make; a third is beyond what can be checked in minutes. *Label:* five letters, one more than the
count `bsd_initlabel` gives a label; three edits suffice to raise the count, clear an entry and
let the count fall again. `U32` is 64, above every sector of the disk.
*Console:* two names, four digits (a hexadecimal number needs three), an int of 9
bits, so that four digits in base 16 wrap. *SCSI:* three tries, two of the four
`SCSIGet` rounds, blocks of two units, so that a transfer can be empty, short or
whole and two short ones add up; a clock of five values wraps during a call.

**Fairness.** Three modules have a liveness property, all under weak fairness of
their next step and nothing stronger. `DeviceSize` is one thread that waits for
nothing but the disk. `ScsiCommand` polls: while the bus is busy the clock is
the only thing that moves, and each reading of it is a step, so no fairness
towards the bus or the device is assumed. `ConsoleInput` reads on as long as it
is given something; its property only speaks of inputs that have ended, when
`getc` returns at once. The editors wait for their user at every step, so
nothing must ever happen there. `CHECK_DEADLOCK` is off where the program ends:
in `DeviceSize`, `ScsiCommand` and `ConsoleInput` when they are done, in
`DosEditor` and `BsdLabel` when the session is over or stuck in a prompt.

## 4. The proofs

Every theorem is about all values of the constants that satisfy the assumptions
of the modules and the hypotheses it names. A hypothesis says something about
the disks and the numbers typed that the code relies on and does not check; the
run that checks the same property satisfies all of them.

| Hypothesis | Says | Without it |
|---|---|---|
| `SmallInputs` | no number typed and no end on the disk reaches half of `U32`; the disk holds no overlap | `base + length` wraps |
| `PositiveInputs` | no length typed or on the disk is 0 | an entry of length 0 puts the base list out of order |
| `RoomyInputs` | a map on a disk is as long as the number of its entries; a new map has room for two and is shorter than the media (`SmallMap` is 2, `LargeMap` below `SmallMedia`, as 63 is below 128) | the limit is exceeded before the first command |
| `SeparateDisks` | no two free entries on the disk touch | the editor merges only what it frees itself |
| `MapsFirst` | a map on a disk has an entry, which begins at block 1 | `resize_map` adds its new entry at block 1 whatever the old start was |
| `DriversFit` | a driver ends below `U32` | `contains_driver` wraps |
| `AmpleMemory`, `EnoughMemory` | 8 allocations for a command, or 1 | an add stops half way and leaves blocks in no entry; a resize leaves an unmarked map |
| `EnoughNodes`, `NodesFit` | a node of the model for each entry a map has room for; a block for each node | the model runs out of nodes, or the device of blocks |
| `TidyDisks` | a sector of a disk, read as a table of logical partitions, has one data partition at most, which does not begin before that sector; an extended partition ends on the disk (`TablesInv` needs both, see below) | `read_extended` takes one slot for both the partition and the link; a rebased start wraps |
| `ProperDisks` | as read from a disk, no partition is empty or begins behind its data, no two overlap, and the extended partition is not empty | the editor keeps what it found: an overlap stays, and the search, which rounds a beginning down to its cylinder, skips the sectors before an empty partition |
| `LinkedDisks` | on a disk that can be read one extended primary at most leads anywhere, and no sector is in the chain of logical tables twice | of two the next session follows the first, and that need not be the one made last; a table that is written goes over another one of the chain |
| `WholeDisks` | as read from a disk, no partition reaches over its first sector or behind its end | verify takes sectors off that the disk does not have |
| `Devices`, `NoDrivers`, `Reliable` | a device has two blocks; no driver is listed; every block can be written | nothing can be written; a resize that meets a driver is not marked; errors of a write are ignored |

**`PartitionMapProofs`** has, for every routine of `partition_map.c`, what it does
to each of the predicates the theorems are made of:

* `WellLinked` (each live entry once in both lists, the counter right) and
  `Numbered` (the i-th entry on disk has number i), from lemmas about removing
  from and inserting into sequences. The search of an insertion needs the least
  care with arithmetic and the most with existence: in a list ordered by a key
  there is always a place (`Slots` is not empty).
* `Disjoint` (extents apart, ends below `U32`) and its refinement `InOrder` (an
  entry ends before the next one of the base list begins, and is not empty).
  `InOrder` is what makes `combine_entry` correct: the entry it absorbs is the
  neighbour in the base list, and only if no other lies between them does the
  merged extent stay apart from the rest.
* `Roomy` (entries within the limit, counted by the number of nodes a routine
  adds), `Separate` (no free entries touch), `Marks` (a change is marked).
* The set of extents: `Described`, `Taken` and `Cover`, and from them what a
  command does to the disk as a whole: `Allocates`, `DeletePartitionReleases`,
  `Resized`, `SameSpace`. `Reach` follows an entry through both merges of a
  delete, which shows that the add behind it finds the first blocks free.

**`MapEditorProofs`** The inductive invariants, in the order they are stacked:

| Invariant | Adds | For |
|---|---|---|
| `ListsInv` | well linked and numbered; while reading, as many entries as blocks read (without it a block just read need not go to the end of the list) | `TypeCorrect`, `ListsAlwaysAgree`, `ReorderPlacesEntry`, with no hypothesis at all: they hold with wrapping numbers and failing allocations |
| `ExtentsInv` | what has been read is what the disk holds, and apart | `EntriesNeverOverlap` |
| `OrderInv` | `InOrder` | `BaseOrderStaysAscending` |
| `PiecesInv` | `Separate`, once the map is open | `FreeSpaceStaysInOnePiece` |
| `RoomInv` | room for what is linked and for what is still to be read | `EntriesStayWithinMaximum` |
| `SpaceInv` | map entries begin at block 1; drivers end below `U32`; the limit is set once the map is open, and no larger than the number of nodes | `EditorIsDiskSpace`, `MapEntryIsLostOnlyWhenStale` |

Each command is first shown to be a `SoundEdit`, `TidyEdit` or `SpaceStep`, so
that an invariant is argued once for all of them. `EditorIsDiskSpace` is the
refinement: initial states map to initial states, and each action to the step of
`DiskSpace` it should be (`AddedSpace`, `DeletedSpace`, `ReorderedSpace`,
`ResizedSpace`, `ReadSpace`, `GiveUpSpace`, `NewMapSpace`). A resize is the hard
one: it is a delete and an add, and maps to `Resize`, `LoseMap` or `SpoilMap`.
`MapEntryIsLostOnlyWhenStale` excludes the second: with the limit equal to the
length of the old entry, either the delete merged a neighbour, which makes room
for the split the add needs, or the add needs none.

**`MapStoreProofs`** `StoreInv` ties the device to the session. `MarkedInv` says
that the map in memory is what the disk holds, as far as it has been read, until
it is marked (`UnmarkedMapsAreOnDisk`). `SavedInv` splits the blocks of the
device during a write at the one written next: below it the new map
(`NewBlocks`), from it on the old one (`OldBlocks`). Both `SavedMapsAreOnDisk`
and `TornMapsAreRefused` follow: what opening finds is decided by the first
block that has another entry count. `WritesStayWithinMap` is the action property
that no write reaches beyond the map while its entries fit.

**`DeviceSizeProofs`** `FindsAnEnd`, for every pattern of readable blocks, first
step, factor and cap; for a device without bad blocks it gives the exact size. The invariant `SearchInv` says what
each bound knows: the last block read by the doubling is itself the lower bound,
whereas a bound the bisection moved is the neighbour of a block that was read or
not. A bound of the first kind is never crossed, which is why the two kinds need
no flag in the code.

**`BsdLabelProofs`** `LabelInv` adds to the types that a label in use covers its
partitions and that the boot area, from the moment it is read, has the label of
the disk or zeros. Every change of the label is a `SoundEdit` that covers if the
label did. From it `LabelsAreWellTyped`, `PartitionsAreCounted`,
`BootAreaAgrees`, and the action property `NewPartitionsAreInSlice`.

**`ConsoleInputProofs`** `InputInv` says which loops may be open under which
command: a `w` runs its two loops and nothing else, and after a refusal only the
loop that drops the line, or none with the line at its end. `OnePushedBack`,
`WritesAreConfirmed` and `RefusedLinesAreDropped` follow for every set of
characters and any nesting of the prompts. `NumbersAreTyped` compares
`get_number`, which multiplies, adds and wraps one digit at a time, with a fold
over all that was typed. `NumberInv` is its invariant: only the innermost loop
may be that of a number, a 0 of its own is never read further as a decimal
number, and as long as the number read so far fits an int it is the one that was
typed. The last is kept because a number that fits has no prefix that does not
(`FittingIsKept`). That the fold takes one digit more for one character more
(`ReadGrows`) is proved from its definition, a recursion over sets of places.

**`ScsiCommandProofs`** `BusAndBufferAreFree`, `SenseBelongsToCommand`,
`SuccessMeansWhole` and `CallsStayInBounds`, for every clock, length and number of
tries, and whatever the SCSI Manager and the device answer. None is inductive.
`BusInv` adds that the place in `OriginalSCSI` says who owns the bus;
`SenseInv`, that sense data is asked for once, behind a command that ended in a
check condition, and is unset before; `CountInv`, that the count of the TIB is
what this try and those before it moved, and that a try has moved nothing when
its data phase begins. The last says why the count can be whole with the block
in pieces: it is never set back between tries. `TryInv` bounds what each try
starts with.

**`DosEditorProofs`** goes through `DosTable` routine by routine. `TablesInv` is
the inductive invariant of a session. It says of the tables in memory
(`SoundTables`) that each has two different slots for partition and link, that
no other slot before the link or beside the partition holds one (so that a table
that is read again has the same slots), that its data begins behind its own
sector, and that they are one chain, closed at
its end; and, while the session is open, that the chain and the disk agree in
everything that is not marked (`Recorded`). `TypesAreRight`, `ChainHolds` and
`UnmarkedIsRecorded` follow. Data behind its table is needed because deleting the
first logical partition rebases the second one: its start is counted from
another sector then, and must not become negative. The two slots are needed
because a write through one of them must not reach the other. That the extended
partition ends on the disk keeps a new table on it.

`UnmarkedIsRecorded` cannot be shown from the marks of one command, since a
delete shifts the chain and clears a link without a mark. What every command
keeps is `Remembers`: each table that is there afterwards is marked, or was there
before, and the last one before is still the last one; or it is an old one that
has lost its link and become the last. `RememberedIsRecorded` turns that into the
invariant.

The refinement of `DosSpace` needs what the disk looked like, `ProperDisks`, and
the invariant `SpaceInv`: `TablesInv`, and no partition empty, beginning behind
its data or overlapping another (`Spaced`). Each command is one step of
`DosSpace` or a stutter and keeps `Spaced` (`SpaceStep`); from this follow
`EditorIsDosSpace` and `PartitionsStayApart`. Deleting is a matter of which
entries of the shifted arrays are still the same partition (`SamePart`,
`DeleteParts`); rebasing the first logical one changes its table's sector and
its relative start, and nothing `DosSpace` sees. Adding is the hard half: why are
the sectors between two accepted answers free? A round of the search that moves
nothing meets no partition (`FixedIsFree`: a step never goes back, so all steps
of the round stood still); the search ends at such a round, because it goes on by
a sector in every other and a disk has no more sectors than it may have rounds
(`SearchEnds`); and the last sector accepted is in front of the next beginning
(`AnswersAreFree`). The proof first failed for a typed first sector behind the
limit: the code stops its search there and adds nothing, which the model of
the prompt had left out.

`SearchMissesNothing` is the opposite: below the sector found there is none that
is free with the sectors its table needs. A step of the search that starts at or
below such a sector does not jump over it (`StepKeepsRoom`), as it goes on to
`sector_offset` behind something in use, and the same number of sectors before
the free one hold nothing in use. `EndlessPromptLeavesNoneInReach` needs two things
more. The sector at which the search ended has one in use `sector_offset` before
it, where the new table would go (`SearchFollowsUse`). Above it, a sector that a
number of the prompt stands for (`ReachedIsAnswered`) was refused, so it is
taken.

`VerifyCountsRight` compares the sum that verify makes with a cardinality. No
partition reaches over the end of the disk (`FitInv`: an answer never does), and
as none overlap, verify takes nothing off twice. `SumsExist` is the recursion
behind the fold of the community modules, `SumIsSize` the induction over the
size of a subset.

`NoPartitionIsLost` (`TornWriteKeepsPartitions`) and `EveryPartitionIsSaved`
(`SavedIsFound`) say what `ReadTables` finds on a disk of which a part is new.
Two facts make up their invariant, `WriteInv`. The first is about the disk: it is
the one the session found, with the first of the marked tables put on it
(`Mixed`); a table that is not marked is on it by `Recorded`. The second is about
the tables in memory: they are `Heirs` of those that were read. The first ones of
them come from old tables, in the old order and, but for the first table, in the
old sectors; a partition that was on the disk and is kept is in one of these, and
the table that one comes from holds the same partition on the disk. Every command
leaves heirs (`Loyal`), since it only takes tables out of the chain and appends
new ones behind it, and heirs of heirs are heirs. From this a partition is
found wherever `write_table` stops. If no table up to its own is still to be
written, the new links lead to it (`NewPath`). Otherwise they lead to the first
table that is still to be written, which is in its old sector, and from there the
old links go on (`OldPath`), because nothing behind it has been written over
(`OldIsThere`). That last step is why the tables must be written from the first
to the last. If the primary table is still to be written, none has been, as it
is the first. The hypothesis of both properties, a sector for every table
(`OwnSectors`), is needed for the sectors in memory as `LinkedDisks` is for
those on the disk.

`FirstFree`, `Pass` and `Chain` are recursive functions, and their theorems
(`SearchRounds`, `PassSteps`, `ChainIsRead`) are inductions over the passes of
the search and over the chain on the disk. The library's induction theorems take
operators and cannot be used; `Induction` and `RecursionExists` say the same of
sets and functions and are proved from the one on well-founded relations that
does not. `ConsoleInputProofs` has its own `Induction`, for the fold.

The assumptions on the constants (`U32Assumption`, `UserTypesAssumption`,
`InputsAssumption`, `DisksAssumption`, `DevicesAssumption`, `StepsAssumption`,
`GeometryAssumption`, `TypesAssumption`, `LabelAssumption`, `ConsoleAssumption`,
`ScsiAssumption`) say that numbers are numbers of the width in question, that
a disk is a list of entries and that a digit is worth at most 15, or 9 if it is
decimal; TLC evaluates them in every run.

**Only model-checked:** that the search of `DeviceSize`, a SCSI call and a
session without input end (liveness is beyond the prover).

## 5. What is not modelled

* Names, flags, logical extents and boot blocks of an entry; `sbBlkSize` and the
  other fields of block zero; the `ioctl`s after a write. `-r` and a read-only
  file appear in `MapEditor` as a device that is not writeable.
* `dump.c`, help and messages (`errors.c`): output only.
* `convert.c` and `bitfield.c`: pure functions of a few lines without state. The
  models keep an entry in one byte order, which is sound because
  `write_partition_map` and `read_partition_map` convert every entry they touch.
* In `fdisk.c` the commands of the expert menu that change the geometry (`c`,
  `h`, `s`) and those that only print; getting the geometry; `SIGINT`.
* In `fdisklabel.c` the code for the Alpha and the PowerPC, whose label has a
  fixed place, and the fields of a label that only `e` and the listing use.
* The branch of `DoSCSICommand` for the asynchronous SCSI Manager: every caller
  sets the bus to `kOriginalSCSIBusAdaptor`. The MacOS top level menu.
* Build files, manuals and resources.

## 6. Plan

1. *done:* `PartitionMap`, `MapEditor`, `DiskSpace`, `MapStore`, `DeviceSize`,
   `DosTable`, `DosEditor`, `DosSpace`, `BsdLabel`, `ConsoleInput`,
   `ScsiCommand`.
2. *done:* every safety property of `MapEditor`, `MapStore`, `DeviceSize`,
   `BsdLabel`, `ScsiCommand` and `ConsoleInput`, with the
   refinement of `DiskSpace`; the inductive invariant of `DosEditor`, the
   refinement of `DosSpace`, that the search finds free sectors only and misses
   none, what verify counts, and what the next session finds on a disk that was
   written in part or in full.
3. *left:* the commands and fields that section 5 names.
