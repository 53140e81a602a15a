----------------------------- MODULE DiskStream -----------------------------
(***************************************************************************)
(* The disk (src/disk/disk.c) and the stream over it (src/disk/streamer.c):*)
(* a position, and reads of any number of bytes that fetch the sectors one *)
(* by one.                                                                 *)
(*                                                                         *)
(* A byte is represented by its place on the disk, so that the outcome of  *)
(* a read tells exactly which bytes were delivered, and in which order.    *)
(***************************************************************************)
EXTENDS Integers, Sequences

CONSTANTS
  SectorSize,     \* BIMBLEOS_SECTOR_SIZE
  DiskSectors     \* the sectors the drive has

ASSUME DiskStreamAssumption ==
  /\ SectorSize \in Nat \ {0}
  /\ DiskSectors \in Nat \ {0}

\* The n bytes from place p on.
Stretch(p, n) == [i \in 1 .. n |-> p + i - 1]

\* disk_get knows one disk.
disk_get(index) == index = 0

\* disk_read_block, one sector: the loop that waits for the drive to be ready
\* never ends for a sector the drive does not have.
disk_read_block(lba) ==
  [hung |-> lba \notin 0 .. DiskSectors - 1,
   buff |-> Stretch(lba * SectorSize, SectorSize)]

\* The position of a stream after a seek.
diskstreamer_seek(stream, pos) == pos

\* Mutation: the position moves on after the rest was read.
diskstreamer_read_late(pos, total) ==
  LET read[x \in Nat \X Nat] ==
        LET p        == x[1]
            n        == x[2]
            offset   == p % SectorSize
            overflow == offset + n >= SectorSize
            Fetched(block, total_to_read, out) ==
              IF block.hung THEN [hung |-> TRUE, out |-> <<>>, pos |-> p]
              ELSE IF overflow THEN [read[<<p, n - total_to_read>>] EXCEPT !.out = out \o @, !.pos = @ + total_to_read]
              ELSE [hung |-> FALSE, out |-> out, pos |-> p + total_to_read]
            Sector(block, total_to_read) ==
              Fetched(block, total_to_read, [i \in 1 .. total_to_read |-> block.buff[offset + i]])
        IN Sector(disk_read_block(p \div SectorSize), IF overflow THEN SectorSize - offset ELSE n)
  IN read[<<pos, total>>]

\* A read from position pos.  A read that ends exactly at the end of a sector
\* still fetches the next sector, of which it wants nothing.
diskstreamer_read(pos, total) ==
  LET read[x \in Nat \X Nat] ==
        LET p        == x[1]
            n        == x[2]
            offset   == p % SectorSize
            overflow == offset + n >= SectorSize
            Fetched(block, total_to_read, out) ==
              IF block.hung THEN [hung |-> TRUE, out |-> <<>>, pos |-> p]
              ELSE IF overflow THEN [read[<<p + total_to_read, n - total_to_read>>] EXCEPT !.out = out \o @]
              ELSE [hung |-> FALSE, out |-> out, pos |-> p + total_to_read]
            Sector(block, total_to_read) ==
              Fetched(block, total_to_read, [i \in 1 .. total_to_read |-> block.buff[offset + i]])
        IN Sector(disk_read_block(p \div SectorSize), IF overflow THEN SectorSize - offset ELSE n)
  IN read[<<pos, total>>]
==============================================================================
