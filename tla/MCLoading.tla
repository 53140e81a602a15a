----------------------------- MODULE MCLoading -----------------------------
(***************************************************************************)
(* Finite instances of the file layer for TLC.  Sectors of 4 bytes, items  *)
(* and FAT entries of 2, clusters of 8: the FAT is at places 8 to 23, the  *)
(* root directory at 24 to 31, and cluster c starts at 32 + 8 * (c - 2).   *)
(***************************************************************************)
EXTENDS Loading, TLC

Entry(name, dir, cluster, filesize) ==
  [name |-> name, dir |-> dir, cluster |-> cluster, filesize |-> filesize]

\* A file of two clusters that are not neighbours and a directory, with a file of
\* one full cluster in it.
MCItem ==
  (24 :> Entry("a", FALSE, 2, 12)) @@ (26 :> Entry("d", TRUE, 3, 0)) @@ (28 :> ZeroItem) @@
  (40 :> Entry("b", FALSE, 5, 8)) @@ (42 :> ZeroItem)

\* The entries of clusters 2 to 6.
MCWord == (12 :> 4) @@ (14 :> 65535) @@ (16 :> 65535) @@ (18 :> 65535) @@ (20 :> 65535)

Segment(vaddr, offset, filesz, memsz) ==
  [type |-> PT_LOAD, vaddr |-> vaddr, offset |-> offset, filesz |-> filesz, memsz |-> memsz]

Elf(phdrs) == [signature |-> TRUE, class |-> ELFCLASS32, data |-> ELFDATA2LSB,
               phoff |-> 1, phdrs |-> phdrs]

Stack == [type |-> 6, vaddr |-> 0, offset |-> 0, filesz |-> 0, memsz |-> 0]

\* Text and data; one segment inside a page, in the other order; a .bss that goes
\* past the end of the file.
MCElf == Elf(<<Segment(16, 0, 4, 4), Segment(20, 4, 3, 4), Stack>>)
MCElfBack == Elf(<<Segment(25, 5, 2, 2), Stack, Segment(17, 1, 3, 3)>>)
MCElfBss == Elf(<<Segment(16, 0, 8, 14)>>)

\* File data reads as an empty directory item, and as the word fill where the
\* code looks for FAT entries.
MCVolume(item, program, fill) ==
  [signature |-> TRUE, item |-> item, word |-> MCWord, data |-> ZeroItem, fill |-> fill,
   program |-> program]

\* An unused item before the others; a full root directory.
MCItemUnused ==
  (24 :> Entry(Unused, FALSE, 0, 0)) @@ (26 :> MCItem[24]) @@ (28 :> MCItem[26]) @@
  (30 :> ZeroItem) @@ MCItem
MCItemFull ==
  (28 :> Entry("e", FALSE, 6, 8)) @@ (30 :> Entry("f", FALSE, 4, 4)) @@ MCItem

\* Of the last three, one has its last item unreachable, one makes the count of
\* the root directory run off the disk, and one is not FAT16.
MCVolumes ==
  {MCVolume(MCItem, 56 :> MCElf, 0),
   MCVolume(MCItem, 56 :> MCElfBack, 99),
   MCVolume(MCItemUnused, (56 :> MCElf) @@ (32 :> MCElfBss), 4),
   [MCVolume(MCItemFull, 56 :> MCElf, 0) EXCEPT !.data = Entry("x", FALSE, 0, 0)],
   [MCVolume(MCItem, 56 :> MCElf, 0) EXCEPT !.signature = FALSE]}

MCChainVolumes == {MCVolume(MCItem, 56 :> MCElf, 3)}

\* What theorems about files and loads assume of the volumes and the paths.
ASSUME FilesOnDisk /\ DirectoriesEnd /\ NamesApart /\ SegmentsApart /\ PathsSplit

Root == <<"0", ":", "/">>

\* Two files, a directory, a root, a path without a drive, a drive that is not
\* there, a path through a file, and one through a directory that is missing.
MCPaths ==
  {Root \o <<"a">>, Root \o <<"d", "/", "b">>, Root \o <<"d">>,
   Root, <<"a">>, <<"1", ":", "/", "a">>,
   Root \o <<"a", "/", "b">>, Root \o <<"d", "/", "x", "/", "b">>}

MCChainPaths == {Root \o <<"a">>}
=============================================================================
