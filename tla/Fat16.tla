-------------------------------- MODULE Fat16 --------------------------------
(***************************************************************************)
(* The FAT16 file system (src/fs/fat/fat16.c) as functions of the volume:  *)
(* the root directory read at resolve time, the search for the item a path *)
(* names, and the read of a stretch of a file.                             *)
(*                                                                         *)
(* A volume says what the bytes of the disk mean: the directory item that  *)
(* starts at a place and the 16-bit word at a place.  "grown" counts the   *)
(* kernel heap allocations a call makes minus the ones it releases.        *)
(***************************************************************************)
EXTENDS DiskStream, FiniteSets, FiniteSetsExt

CONSTANTS
  ReservedSectors, FatCopies, SectorsPerFat,  \* the FAT header
  RootDirEntries, SectorsPerCluster,
  ItemSize,       \* sizeof(struct FAT_DirectoryItem)
  FatEntrySize    \* BIMBLEOS_FAT16_FAT_ENTRY_SIZE

ASSUME Fat16Assumption ==
  /\ ReservedSectors \in Nat \ {0}
  /\ FatCopies \in Nat \ {0}
  /\ SectorsPerFat \in Nat \ {0}
  /\ RootDirEntries \in Nat \ {0}
  /\ SectorsPerCluster \in Nat \ {0}
  /\ ItemSize \in Nat \ {0}
  /\ FatEntrySize \in Nat \ {0}
  /\ (SectorSize % ItemSize) = 0
  /\ ((RootDirEntries * ItemSize) % SectorSize) = 0  \* as in boot.asm
  \* clusters 0 and 1, which the disk does not have, would lie on it
  /\ 2 * SectorsPerCluster <=
       ReservedSectors + FatCopies * SectorsPerFat + (RootDirEntries * ItemSize) \div SectorSize

\* The first byte of an item's name: 0x00 ends a directory, 0xE5 marks an
\* unused item.
EndOfDirectory == "end"
Unused == "unused"

\* struct FAT_DirectoryItem: what its name and its attributes say, where it starts
\* and how large it is.
DirectoryItem == [name : STRING, dir : BOOLEAN, cluster : Nat, filesize : Nat]

\* What a zeroed struct FAT_DirectoryItem holds.
ZeroItem == [name |-> EndOfDirectory, dir |-> FALSE, cluster |-> 0, filesize |-> 0]

NoItem == [name |-> "none"]

\* The item, and the word, whose first byte is at place p.
ItemAt(volume, p) == IF p \in DOMAIN volume.item THEN volume.item[p] ELSE volume.data
WordAt(volume, p) == IF p \in DOMAIN volume.word THEN volume.word[p] ELSE volume.fill

\* The items and the words that can be read from the disk.
ItemsOf(volume) == {volume.item[p] : p \in DOMAIN volume.item} \cup {volume.data}
WordsOf(volume) == {volume.word[p] : p \in DOMAIN volume.word} \cup {volume.fill}

ClusterBytes == SectorsPerCluster * SectorSize

EIO == 1
EINVARG == 2
ENOMEM == 3
ERDONLY == 6
EUNIMP == 7
EINFORMAT == 9
------------------------------------------------------------------------------
(***************************************************************************)
(* Directories.                                                            *)
(***************************************************************************)

fat16_sector_to_absolute(sector) == sector * SectorSize

\* The items up to the end of the directory, without the unused ones.  The
\* stream goes on from where the last item ended, however far that is.
fat16_get_total_items_for_directory(volume, sector) ==
  LET count[p \in Nat] ==
        LET Counted(r, item) ==
              IF r.hung THEN [hung |-> TRUE, total |-> 0]
              ELSE IF item.name = EndOfDirectory THEN [hung |-> FALSE, total |-> 0]
              ELSE [count[r.pos] EXCEPT !.total = IF item.name = Unused THEN @ ELSE @ + 1]
            Item(r) == Counted(r, ItemAt(volume, r.out[1]))
        IN Item(diskstreamer_read(p, ItemSize))
  IN count[fat16_sector_to_absolute(sector)]

RootSector == FatCopies * SectorsPerFat + ReservedSectors

\* The places of the items read, and how many of them the search looks at.
fat16_get_root_directory(volume) ==
  LET size  == RootDirEntries * ItemSize
      items == fat16_get_total_items_for_directory(volume, RootSector)
      dir   == diskstreamer_read(fat16_sector_to_absolute(RootSector), size)
  IN [hung |-> items.hung \/ dir.hung, item |-> dir.out, total |-> items.total]

ending_sector_pos == RootSector + (RootDirEntries * ItemSize) \div SectorSize

\* What fat16_resolve keeps for a disk: nothing when the signature is not
\* FAT16's.
fat16_resolve(volume) ==
  IF ~volume.signature
    THEN [ours |-> FALSE, hung |-> FALSE, seen |-> TRUE]
    ELSE LET root == fat16_get_root_directory(volume)
         IN [ours |-> TRUE, hung |-> root.hung, seen |-> TRUE, root_directory |-> root]

\* Item i of a directory that was read; the rest of its heap block is zero.
DirItem(volume, directory, i) ==
  IF i * ItemSize < Len(directory.item)
    THEN ItemAt(volume, directory.item[i * ItemSize + 1])
    ELSE ZeroItem
------------------------------------------------------------------------------
(***************************************************************************)
(* Clusters.                                                               *)
(***************************************************************************)

fat16_get_first_cluster(item) == item.cluster

fat16_cluster_to_sector(cluster) ==
  ending_sector_pos + (cluster - 2) * SectorsPerCluster

fat16_get_first_fat_sector == ReservedSectors

\* The place where the code looks for the entry of a cluster: the place of the
\* table is multiplied by the offset of the entry.
FatEntryPos(cluster) ==
  (fat16_get_first_fat_sector * SectorSize) * (cluster * FatEntrySize)

fat16_get_fat_entry(volume, cluster) ==
  LET Entry(r) == [hung |-> r.hung, entry |-> IF r.hung THEN 0 ELSE WordAt(volume, r.out[1])]
  IN Entry(diskstreamer_read(FatEntryPos(cluster), FatEntrySize))

\* 0xFF8, 0xFFF: last of the file; 0xFF7: bad; 0xFF0, 0xFF6: reserved; 0: free.
StopMarks == {4088, 4095, 4087, 4080, 4086, 0}

\* The cluster that holds an offset, or -EIO.
fat16_get_cluster_for_offset(volume, starting_cluster, offset) ==
  LET Link(next) == [hung |-> next.hung,
                     res  |-> IF next.entry \in StopMarks THEN -EIO ELSE next.entry]
      Onward(before) == IF before.hung \/ before.res < 0 THEN before
                        ELSE Link(fat16_get_fat_entry(volume, before.res))
      walk[i \in Nat] == IF i = 0 THEN [hung |-> FALSE, res |-> starting_cluster]
                         ELSE Onward(walk[i - 1])
  IN walk[offset \div ClusterBytes]

\* Mutation: the offset inside the cluster is left out.
StartingPos_cluster(cluster, offset) ==
  fat16_sector_to_absolute(fat16_cluster_to_sector(cluster))

\* Where a read at an offset of a file starts, in the cluster of that offset.
StartingPos(cluster, offset) ==
  fat16_sector_to_absolute(fat16_cluster_to_sector(cluster)) + (offset % ClusterBytes)

\* One turn of fat16_read_internal_from_stream, when cluster use.res holds the
\* offset.  A piece that does not start with its cluster runs on into the next.
Piece(stream, use, offset, size) ==
  LET Read(r) == [hung |-> r.hung, res |-> 0, out |-> r.out, pos |-> r.pos]
  IN IF use.hung \/ use.res < 0
       THEN [hung |-> use.hung, res |-> use.res, out |-> <<>>, pos |-> stream]
       ELSE Read(diskstreamer_read(diskstreamer_seek(stream, StartingPos(use.res, offset)), size))

\* fat16_read_internal: total bytes at an offset of the file that starts at a
\* cluster, in pieces of at most a cluster, over a stream all reads share.
fat16_read_internal(volume, stream, cluster, offset, total) ==
  LET read[x \in Nat \X Nat \X Nat] ==
        LET o    == x[2]
            t    == x[3]
            size == IF t > ClusterBytes THEN ClusterBytes ELSE t
            Goes(r) == IF r.hung \/ r.res < 0 \/ t = size THEN r
                       ELSE [read[<<r.pos, o + size, t - size>>] EXCEPT !.out = r.out \o @]
        IN Goes(Piece(x[1], fat16_get_cluster_for_offset(volume, cluster, o), o, size))
  IN read[<<stream, offset, total>>]
------------------------------------------------------------------------------
(***************************************************************************)
(* The search for an item.                                                 *)
(***************************************************************************)

\* The heap allocations of a struct FAT_Item: itself and the copy of the file's
\* directory item, or itself, the directory and the directory's items.
ItemBlocks(item) == IF item.dir THEN 3 ELSE 2

\* A directory of which the items were counted and r was read.  When the read
\* fails it is released, and returned all the same.
Directory(items, r) ==
  [hung |-> items.hung \/ r.hung, stray |-> r.res < 0,
   item |-> r.out, total |-> items.total, pos |-> r.pos]

fat16_load_fat_directory(volume, stream, item) ==
  LET cluster == fat16_get_first_cluster(item)
      items   == fat16_get_total_items_for_directory(volume, fat16_cluster_to_sector(cluster))
  IN Directory(items, fat16_read_internal(volume, stream, cluster, 0, items.total * ItemSize))

NoDirectory(pos) ==
  [hung |-> FALSE, stray |-> FALSE, item |-> <<>>, total |-> 0, pos |-> pos]

\* What a search leaves: an item, the directory it is, and the blocks allocated.
Found(item, directory, grown) ==
  [item |-> item, directory |-> directory, grown |-> grown, pos |-> directory.pos,
   hung |-> directory.hung, stray |-> directory.stray, broke |-> FALSE]

\* A new struct FAT_Item for a directory item.
fat16_new_fat_item_for_directory_item(volume, stream, item, grown) ==
  Found(item, IF item.dir THEN fat16_load_fat_directory(volume, stream, item)
              ELSE NoDirectory(stream), grown)

\* The item of a name: the search goes on after a match, so that the last match
\* counts and the ones before it are lost.
fat16_find_item_in_directory(volume, stream, directory, name) ==
  LET Item(i) == DirItem(volume, directory, i)
      matches == {i \in 0 .. directory.total - 1 : Item(i).name = name}
  IN IF matches = {} THEN Found(NoItem, NoDirectory(stream), 0)
     ELSE fat16_new_fat_item_for_directory_item(volume, stream, Item(Max(matches)),
            MapThenSumSet(LAMBDA i : ItemBlocks(Item(i)), matches))

\* Mutation: the items passed on the way are kept.
Step_keeps(here, found) ==
  [found EXCEPT !.grown = here.grown + @, !.stray = here.stray \/ @]

\* From an item on the way to the one found in it: the former is released.
Step(here, found) ==
  [found EXCEPT !.grown = here.grown + @ - ItemBlocks(here.item),
                !.stray = here.stray \/ @]

\* The item that a path names.  A file on the way ends the walk and is lost.  An
\* item that is missing on the way is only noticed in the root directory; below
\* it the walk reads the type of the item at address 0.
fat16_get_directory_entry(volume, stream, root, parts) ==
  LET start == [NoDirectory(stream) EXCEPT !.hung = root.hung, !.item = root.item,
                                           !.total = root.total]
      Into(here, found, k) ==
        IF here.hung \/ here.broke THEN here
        ELSE IF here.item = NoItem THEN [here EXCEPT !.broke = TRUE, !.stray = @ \/ k > 2]
        ELSE IF ~here.item.dir THEN [here EXCEPT !.broke = TRUE, !.item = NoItem]
        ELSE IF k = 1 THEN found
        ELSE Step(here, found)
      walk[k \in 0 .. Len(parts)] ==
        IF k = 0 THEN Found([dir |-> TRUE], start, 0)
        ELSE LET here == walk[k - 1]
             IN Into(here, fat16_find_item_in_directory(volume, here.pos, here.directory, parts[k]), k)
  IN walk[Len(parts)]
------------------------------------------------------------------------------
(***************************************************************************)
(* The operations of the file system.                                      *)
(***************************************************************************)

\* fat16_open: an item and a position, or an error.  With mem FALSE the
\* allocation of the descriptor fails.
fat16_open(volume, stream, root, parts, mode, mem) ==
  LET Failed(err) == [res |-> -err, item |-> NoItem, grown |-> 0, pos |-> stream,
                      hung |-> FALSE, stray |-> FALSE]
      Opened(entry) ==
        [res   |-> IF entry.item = NoItem THEN -EIO ELSE 0,
         item  |-> entry.item,
         grown |-> entry.grown + (IF entry.item = NoItem THEN 0 ELSE 1),
         pos   |-> entry.pos, hung |-> entry.hung, stray |-> entry.stray]
  IN IF mode # "r" THEN Failed(ERDONLY)
     ELSE IF ~mem THEN Failed(ENOMEM)
     ELSE Opened(fat16_get_directory_entry(volume, stream, root, parts))

\* fat16_close releases the item and the descriptor.
fat16_close(item) == [res |-> 0, grown |-> -(ItemBlocks(item) + 1)]

\* The size of a file.
fat16_stat(item) ==
  IF item.dir THEN [res |-> -EINVARG, filesize |-> 0]
  ELSE [res |-> 0, filesize |-> item.filesize]

\* The directory item that fat16_read takes a descriptor's item for: the memory
\* of a struct FAT_Directory is zero where the cluster would be.
ReadItem(item) == IF item.dir THEN ZeroItem ELSE item

\* The offset of element i of a read.
Element(pos, size, i) == pos + (i - 1) * size

\* fat16_read: nmemb elements, up to the first that fails.  Neither the position
\* of the descriptor nor the size of the file plays a part in where it ends.
fat16_read(volume, stream, item, pos, size, nmemb) ==
  LET cluster == fat16_get_first_cluster(ReadItem(item))
      Then(sofar, i) ==
        IF sofar.hung \/ sofar.res < 0 THEN sofar
        ELSE [fat16_read_internal(volume, sofar.pos, cluster, Element(pos, size, i), size)
                EXCEPT !.out = sofar.out \o @]
      elem[i \in 0 .. nmemb] ==
        IF i = 0 THEN [hung |-> FALSE, res |-> 0, out |-> <<>>, pos |-> stream]
        ELSE Then(elem[i - 1], i)
  IN [elem[nmemb] EXCEPT !.res = IF @ < 0 THEN @ ELSE nmemb]

\* Mutation: SEEK_CUR goes backwards.
fat16_seek_back(item, pos, offset, whence) ==
  IF item.dir THEN [res |-> -EINVARG, pos |-> pos]
  ELSE IF offset >= item.filesize THEN [res |-> -EIO, pos |-> pos]
  ELSE [res |-> 0, pos |-> IF whence = "SEEK_CUR" THEN pos - offset ELSE offset]

\* fat16_seek: the offset is compared with the size of the file, the position it
\* leads to is not.
fat16_seek(item, pos, offset, whence) ==
  IF item.dir THEN [res |-> -EINVARG, pos |-> pos]
  ELSE IF offset >= item.filesize THEN [res |-> -EIO, pos |-> pos]
  ELSE CASE whence = "SEEK_SET" -> [res |-> 0, pos |-> offset]
         [] whence = "SEEK_END" -> [res |-> -EUNIMP, pos |-> pos]
         [] whence = "SEEK_CUR" -> [res |-> 0, pos |-> pos + offset]
         [] OTHER -> [res |-> -EINVARG, pos |-> pos]
==============================================================================
