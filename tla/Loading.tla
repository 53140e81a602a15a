------------------------------- MODULE Loading -------------------------------
(***************************************************************************)
(* The descriptor layer as a state machine, together with its one client   *)
(* in the kernel: the load of a program as an ELF file or, when it is not  *)
(* one, as a flat binary (src/loader/format/elfloader.c and                *)
(* process_load_data in src/task/process.c).                               *)
(***************************************************************************)
EXTENDS Files

CONSTANT PageSize    \* PAGING_PAGE_SIZE

ASSUME LoadingAssumption == PageSize \in Nat \ {0}

\* A program header.  Its fields are unsigned, but for the offset, which is signed;
\* in what a linker wrote it is not negative.
Header == [type : Nat, vaddr : Nat, offset : Nat, filesz : Nat, memsz : Nat]

ASSUME HeadersAssumption ==
  \A v \in Volumes : \A p \in DOMAIN v.program :
    v.program[p].signature => v.program[p].phdrs \in Seq(Header)

NoImage == [type |-> "none"]

\* The program whose first byte is at place p.
ProgramAt(p) ==
  IF p \in DOMAIN volume.program THEN volume.program[p] ELSE [signature |-> FALSE]
------------------------------------------------------------------------------
(***************************************************************************)
(* ELF files.  Addresses of the file in memory count from its first byte,  *)
(* which elf_load puts at the start of a page.                             *)
(***************************************************************************)

ELFCLASSNONE == 0
ELFCLASS32 == 1
ELFDATANONE == 0
ELFDATA2LSB == 1
PT_LOAD == 1

elf_validate_loaded(header) ==
  /\ header.signature
  /\ header.class \in {ELFCLASSNONE, ELFCLASS32}
  /\ header.data \in {ELFDATANONE, ELFDATA2LSB}
  /\ header.phoff # 0

NoSpan == [virtual_base |-> 0, physical_base |-> 0, virtual_end |-> 0, physical_end |-> 0]

elf_process_phdr_pt_load(span, phdr) ==
  LET end    == phdr.vaddr + phdr.filesz
      lower  == span.virtual_base >= phdr.vaddr \/ span.virtual_base = 0
      higher == span.virtual_end <= end \/ span.virtual_end = 0
  IN [virtual_base  |-> IF lower THEN phdr.vaddr ELSE span.virtual_base,
      physical_base |-> IF lower THEN phdr.offset ELSE span.physical_base,
      virtual_end   |-> IF higher THEN end ELSE span.virtual_end,
      physical_end  |-> IF higher THEN phdr.offset + phdr.filesz ELSE span.physical_end]

elf_process_pheaders(phdrs) ==
  LET span[k \in 0 .. Len(phdrs)] ==
        IF k = 0 THEN NoSpan
        ELSE IF phdrs[k].type = PT_LOAD THEN elf_process_phdr_pt_load(span[k - 1], phdrs[k])
        ELSE span[k - 1]
  IN span[Len(phdrs)]

paging_align_to_lower_page(addr) == addr - (addr % PageSize)

\* Mutation: an address at a page boundary is moved up too.
paging_align_address_up(addr) == addr + PageSize - (addr % PageSize)

paging_align_address(addr) ==
  IF addr % PageSize # 0 THEN addr + PageSize - (addr % PageSize) ELSE addr

\* Mutation: the range starts at the page of the file.
MapTo_file(map, phdr) ==
  LET virt  == phdr.vaddr \div PageSize
      count == (paging_align_address(phdr.offset + phdr.memsz)
                  - paging_align_to_lower_page(phdr.offset)) \div PageSize
      range == virt .. virt + count - 1
  IN [v \in DOMAIN map \cup range |-> IF v \in range THEN v - virt ELSE map[v]]

\* paging_map_to for one header: page after page, over what was mapped before.
MapTo(map, phdr) ==
  LET virt  == paging_align_to_lower_page(phdr.vaddr) \div PageSize
      phys  == paging_align_to_lower_page(phdr.offset) \div PageSize
      end   == paging_align_address(phdr.offset + phdr.memsz) \div PageSize
      range == virt .. virt + (end - phys) - 1
  IN [v \in DOMAIN map \cup range |-> IF v \in range THEN phys + (v - virt) ELSE map[v]]

\* The pages of the program: every header is mapped, of whatever type.
process_map_elf(phdrs) ==
  LET map[k \in 0 .. Len(phdrs)] ==
        IF k = 0 THEN [v \in {} |-> 0] ELSE MapTo(map[k - 1], phdrs[k])
  IN map[Len(phdrs)]
------------------------------------------------------------------------------
(***************************************************************************)
(* Loads.                                                                  *)
(***************************************************************************)

\* The answer of call b made after call a, with the heap blocks of both.
After(a, b) == [b EXCEPT !.grown = a.grown + @, !.stray = a.stray \/ @]

\* Mutation: the file is only closed when it could be read.
elf_load_unclosed(s, path, mem) ==
  LET Done(opened, a, res, blocks) ==
        [After(a, fclose(a.fs, opened.res)) EXCEPT !.res = res, !.grown = @ + blocks, !.out = a.out]
      Delivered(opened, read) ==
        IF read.hung THEN read
        ELSE IF read.res < 0 THEN [read EXCEPT !.grown = @ + 2]
        ELSE IF ~elf_validate_loaded(ProgramAt(read.out[1])) THEN Done(opened, read, -EINFORMAT, 2)
        ELSE Done(opened, read, 0, 2)
      Known(opened, stat) ==
        IF stat.res < 0 THEN [stat EXCEPT !.grown = @ + 1]
        ELSE Delivered(opened, After(stat, fread(stat.fs, stat.out[1], 1, opened.res)))
      Opened(opened) ==
        IF opened.hung THEN opened
        ELSE IF opened.res <= 0 THEN Done(opened, opened, -EIO, 1)
        ELSE Known(opened, After(opened, fstat(opened.fs, opened.res)))
  IN Opened(fopen(s, path, "r", mem))

\* elf_load: the struct Elf_file and the bytes of the file stay allocated,
\* whether the load goes well or not.
elf_load(s, path, mem) ==
  LET Done(opened, a, res, blocks) ==
        [After(a, fclose(a.fs, opened.res)) EXCEPT !.res = res, !.grown = @ + blocks, !.out = a.out]
      Delivered(opened, read) ==
        IF read.hung THEN read
        ELSE IF read.res < 0 THEN Done(opened, read, read.res, 2)
        ELSE IF ~elf_validate_loaded(ProgramAt(read.out[1])) THEN Done(opened, read, -EINFORMAT, 2)
        ELSE Done(opened, read, 0, 2)
      Known(opened, stat) ==
        IF stat.res < 0 THEN Done(opened, stat, stat.res, 1)
        ELSE Delivered(opened, After(stat, fread(stat.fs, stat.out[1], 1, opened.res)))
      Opened(opened) ==
        IF opened.hung THEN opened
        ELSE IF opened.res <= 0 THEN Done(opened, opened, -EIO, 1)
        ELSE Known(opened, After(opened, fstat(opened.fs, opened.res)))
  IN Opened(fopen(s, path, "r", mem))

\* process_load_binary: the error path before the allocation of program_data_ptr
\* releases whatever the variable holds.
process_load_binary(s, path, mem) ==
  LET Done(opened, a, res, blocks) ==
        [After(a, fclose(a.fs, opened.res)) EXCEPT !.res = res, !.grown = @ + blocks, !.out = a.out]
      Delivered(opened, read) ==
        IF read.hung THEN read
        ELSE IF read.res # 1 THEN Done(opened, read, -EIO, 0)
        ELSE Done(opened, read, 0, 1)
      Known(opened, stat) ==
        IF stat.res # 0 THEN [Done(opened, stat, stat.res, 0) EXCEPT !.stray = TRUE]
        ELSE Delivered(opened, After(stat, fread(stat.fs, stat.out[1], 1, opened.res)))
      Opened(opened) ==
        IF opened.hung THEN opened
        ELSE IF opened.res = 0 THEN [Done(opened, opened, -EIO, 0) EXCEPT !.stray = TRUE]
        ELSE Known(opened, After(opened, fstat(opened.fs, opened.res)))
  IN Opened(fopen(s, path, "r", mem))

\* Mutation: every error makes the file a flat binary.
process_load_data_any(s, path, mem, again) ==
  LET Otherwise(elf) ==
        IF elf.hung \/ elf.res >= 0 THEN elf
        ELSE After(elf, process_load_binary(elf.fs, path, again))
  IN Otherwise(elf_load(s, path, mem))

\* A file that is not in ELF format is opened and read a second time.
process_load_data(s, path, mem, again) ==
  LET Otherwise(elf) ==
        IF elf.hung \/ elf.res # -EINFORMAT THEN elf
        ELSE After(elf, process_load_binary(elf.fs, path, again))
  IN Otherwise(elf_load(s, path, mem))

\* What the process has of a load that went well.
Image(a) ==
  LET header == ProgramAt(a.out[1])
  IN IF a.hung \/ a.res < 0 THEN NoImage
     ELSE IF ~elf_validate_loaded(header) THEN [type |-> "binary", bytes |-> a.out]
     ELSE [type |-> "elf", bytes |-> a.out, phdrs |-> header.phdrs,
           span |-> elf_process_pheaders(header.phdrs),
           map  |-> process_map_elf(header.phdrs)]
------------------------------------------------------------------------------
Unseen == [ours |-> FALSE, hung |-> FALSE, seen |-> FALSE]

Init ==
  /\ volume \in Volumes
  /\ disk = Unseen
  /\ fs = [descriptors |-> [fd \in 1 .. MaxFileDescriptors |-> Closed], stream |-> 0]
  /\ hung = FALSE

\* The disk is looked at once, before anything is opened.
disk_search_and_init ==
  /\ disk = Unseen
  /\ disk' = fat16_resolve(volume)
  /\ hung' = disk'.hung
  /\ UNCHANGED <<volume, fs>>

\* A call waits for ever when the drive does not have the sector asked for.
Running == disk # Unseen /\ ~hung

Returned(a) ==
  /\ fs' = a.fs
  /\ hung' = a.hung
  /\ UNCHANGED <<volume, disk>>

Fds == 0 .. MaxFileDescriptors

Open(path, mode, mem) == Returned(fopen(fs, path, mode, mem))

Stat(fd) == Returned(fstat(fs, fd))

Seek(fd, offset, whence) ==
  /\ Returned(fseek(fs, fd, offset, whence))
  /\ \A d \in 1 .. MaxFileDescriptors : fs'.descriptors[d].pos <= MaxPos

Read(fd, size, nmemb) == Returned(fread(fs, size, nmemb, fd))

Close(fd) == Returned(fclose(fs, fd))

Load(path, mem, again) == Returned(process_load_data(fs, path, mem, again))

Call ==
  \/ \E path \in Paths, mode \in Modes, mem \in BOOLEAN : Open(path, mode, mem)
  \/ \E fd \in Fds : Stat(fd) \/ Close(fd)
  \/ \E fd \in Fds, offset \in Offsets, whence \in {"SEEK_SET", "SEEK_CUR", "SEEK_END"} :
       Seek(fd, offset, whence)
  \/ \E fd \in Fds, size \in Sizes, nmemb \in Counts : Read(fd, size, nmemb)
  \/ \E path \in Paths, mem, again \in BOOLEAN : Load(path, mem, again)

Next == disk_search_and_init \/ (Running /\ Call)

Spec == Init /\ [][Next]_vars
------------------------------------------------------------------------------
(***************************************************************************)
(* What a FAT16 volume means: the items of a directory are the ones before *)
(* its end that are in use, and a file is the chain of clusters that the   *)
(* table at the first FAT sector gives.                                    *)
(***************************************************************************)

ClusterPlace(cluster) == (ending_sector_pos + (cluster - 2) * SectorsPerCluster) * SectorSize

\* The places of the items of a directory whose n items start at place p.
Entries(v, p, n) ==
  LET place == {p + k * ItemSize : k \in 0 .. n - 1}
      ends  == {q \in place : ItemAt(v, q).name = EndOfDirectory}
  IN {q \in place : /\ \A e \in ends : q < e
                    /\ ItemAt(v, q).name # Unused}

\* The root directory, and the directory of an item, which is one cluster.
RootEntries(v) == Entries(v, RootSector * SectorSize, RootDirEntries)
ClusterItems == ClusterBytes \div ItemSize
EntriesOf(v, item) == Entries(v, ClusterPlace(item.cluster), ClusterItems)

Named(entries, name) == {i \in {ItemAt(volume, q) : q \in entries} : i.name = name}

\* The items that a sequence of names leads to: one or none.
Lookup(parts) ==
  LET found[k \in 1 .. Len(parts)] ==
        IF k = 1 THEN Named(RootEntries(volume), parts[1])
        ELSE UNION {Named(EntriesOf(volume, d), parts[k]) : d \in {i \in found[k - 1] : i.dir}}
  IN found[Len(parts)]

\* The names of a well-formed path: every other token after the drive.
NamesOf(path) == [k \in 1 .. (Len(path) - 2) \div 2 |-> path[2 * k + 2]]

\* Byte number o of the file that starts at a cluster.
FileByte(cluster, o) ==
  LET chain[k \in Nat] ==
        IF k = 0 THEN cluster
        ELSE WordAt(volume, ReservedSectors * SectorSize + chain[k - 1] * FatEntrySize)
  IN ClusterPlace(chain[o \div ClusterBytes]) + (o % ClusterBytes)

FileBytes(item, pos, n) == [i \in 1 .. n |-> FileByte(item.cluster, pos + i - 1)]
------------------------------------------------------------------------------
(***************************************************************************)
(* Properties.                                                             *)
(***************************************************************************)

Items == ItemsOf(volume) \cup {ZeroItem, NoItem}

TypeOK ==
  /\ volume \in Volumes
  /\ fs.descriptors \in [1 .. MaxFileDescriptors -> [item : Items, pos : 0 .. MaxPos]]
  /\ fs.stream \in Nat
  /\ hung \in BOOLEAN

\* Of every item that can be read, the cluster where it starts lies on the disk,
\* and does not end with the disk.
FilesOnDisk ==
  \A v \in Volumes : \A i \in ItemsOf(v) \cup {ZeroItem} :
    ClusterPlace(i.cluster) + ClusterBytes < DiskSectors * SectorSize

\* What whoever fills a volume takes care of: a directory below the root has its
\* end in its cluster, and no two items of a directory have the same name.
DirectoriesEnd ==
  \A v \in Volumes : \A i \in ItemsOf(v) : i.dir =>
    \E k \in 0 .. ClusterItems - 1 :
      ItemAt(v, ClusterPlace(i.cluster) + k * ItemSize).name = EndOfDirectory

NamesApart ==
  \A v \in Volumes :
    LET Apart(entries) ==
          \A q, r \in entries : ItemAt(v, q).name = ItemAt(v, r).name => q = r
    IN /\ Apart(RootEntries(v))
       /\ \A i \in ItemsOf(v) : i.dir => Apart(EntriesOf(v, i))

\* Paths are not too long, and their names, which are those of items in use, are
\* separated by one slash.
PathsSplit ==
  \A path \in Paths :
    /\ Len(path) <= MaxPath
    /\ \A i \in 4 .. Len(path) :
         IF i % 2 = 1 THEN path[i] = "/" ELSE path[i] \notin {"/", EndOfDirectory, Unused}

\* The descriptors of files that can be read.
OpenFiles ==
  {fd \in Fds : /\ file_get_descriptor(fs, fd) # Closed
                /\ ~file_get_descriptor(fs, fd).item.dir}

\* fread delivers the bytes of its file that follow the position of the
\* descriptor, whatever was read through other descriptors before and wherever
\* the sectors begin, as long as the read ends in the first cluster of the file.
ReadsTheFile ==
  Running =>
    \A fd \in OpenFiles, size \in Sizes \ {0}, nmemb \in Counts \ {0} :
      LET desc == fs.descriptors[fd]
          n    == size * nmemb
          a    == fread(fs, size, nmemb, fd)
      IN desc.pos + n <= ClusterBytes =>
           /\ ~a.hung
           /\ a.res = nmemb
           /\ a.out = FileBytes(desc.item, desc.pos, n)

\* fat16_get_cluster_for_offset "Gets the correct cluster to use based on the
\* starting cluster and the offset": a read of one byte anywhere in a file
\* delivers that byte.
ReadsAnyCluster ==
  Running =>
    \A fd \in OpenFiles :
      LET desc == fs.descriptors[fd]
      IN desc.pos < desc.item.filesize =>
           fread(fs, 1, 1, fd).out = FileBytes(desc.item, desc.pos, 1)

\* fopen gives a descriptor of the item that the path names, and gives one
\* whenever there is such an item, unless memory or descriptors have run out, or
\* unused items in a directory have shifted the item out of the search.
OpensTheItem ==
  Running =>
    \A path \in {p \in Paths : pathparser_path_valid_format(p)}, mode \in Modes, mem \in BOOLEAN :
      \A item \in {IF NamesOf(path) = <<>> THEN {} ELSE Lookup(NamesOf(path))},
         a \in {fopen(fs, path, mode, mem)} :
        /\ a.res > 0 => a.fs.descriptors[a.res] \in [item : item, pos : {0}]
        /\ (/\ item # {} /\ disk.ours /\ path[1] = "0" /\ mode = "r"
            /\ mem /\ Free(fs) # {} /\ \A i \in Items : i.name # Unused) => a.res > 0

\* While a descriptor is open it names the same item, and only a seek on it moves
\* it: neither an fopen, nor the fread, fseek or fclose of another descriptor, nor
\* a load does.
DescriptorsStable ==
  Running =>
    \A fd \in 1 .. MaxFileDescriptors :
      LET Kept(a) == a.fs.descriptors[fd] = fs.descriptors[fd]
      IN fs.descriptors[fd] # Closed =>
           /\ \A path \in Paths, mem \in BOOLEAN :
                /\ Kept(fopen(fs, path, "r", mem))
                /\ Kept(process_load_data(fs, path, mem, TRUE))
           /\ \A other \in Fds \ {fd} :
                /\ Kept(fclose(fs, other))
                /\ \A o \in Offsets : Kept(fseek(fs, other, o, "SEEK_SET"))
                /\ \A n \in Sizes : Kept(fread(fs, n, 1, other))

\* The allocations that open descriptors hold.
Held(s) ==
  MapThenSumSet(LAMBDA fd : ItemBlocks(s.descriptors[fd].item) + 2,
                (1 .. MaxFileDescriptors) \ Free(s))

\* A file lies on the way that a path takes.
ThroughFile(path) ==
  LET names == NamesOf(path)
  IN \E k \in 1 .. Len(names) - 1 : \E i \in Lookup(SubSeq(names, 1, k)) : ~i.dir

\* The file layer gives back to the heap what it took, but for the parsed path of
\* each fopen, an item opened when no descriptor is free, and a file on the way.
HeapBalanced ==
  Running =>
    /\ \A fd \in Fds : fclose(fs, fd).grown = Held(fclose(fs, fd).fs) - Held(fs)
    /\ \A path \in Paths, mode \in Modes, mem \in BOOLEAN :
         \A a \in {fopen(fs, path, mode, mem)} :
           \/ a.grown = Held(a.fs) - Held(fs) + pathparser_parse(path).blocks
           \/ a.hung
           \/ a.res = 0 /\ (Free(fs) = {} \/ ThroughFile(path))

\* A load leaves the descriptors as they were, whichever of its steps fails, as
\* long as it is not given the descriptor that nothing can close.
LoadsCloseFiles ==
  (Running /\ Free(fs) # {MaxFileDescriptors}) =>
    \A path \in Paths, mem, again \in BOOLEAN :
      \A a \in {process_load_data(fs, path, mem, again)} :
        a.hung \/ a.fs.descriptors = fs.descriptors

\* Memory that was never given is only touched (the item at address 0, the
\* pointer that has no value) when a directory below the root is missing on the
\* way, or when a file that could be read could not be opened again.
StrayOnlyBelowRoot ==
  Running =>
    \A path \in Paths, mem, again \in BOOLEAN :
      process_load_data(fs, path, mem, again).stray =>
        \/ Len(NamesOf(path)) > 2
        \/ ~again

\* The programs that can be loaded now, with what the load gives.
Loaded ==
  {r \in {[path |-> p, a |-> process_load_data(fs, p, TRUE, TRUE)] : p \in Paths} :
     ~r.a.hung /\ r.a.res >= 0}

\* A program no larger than a cluster is in memory byte for byte.
LoadsTheFile ==
  Running =>
    \A r \in Loaded, item \in Items :
      (item \in Lookup(NamesOf(r.path)) /\ item.filesize <= ClusterBytes) =>
        r.a.out = FileBytes(item, 0, item.filesize)

LoadedElfs == {i \in {Image(r.a) : r \in Loaded} : i.type = "elf"}

Segments(phdrs) == {phdrs[k] : k \in {j \in DOMAIN phdrs : phdrs[j].type = PT_LOAD}}

\* The pages of a header: as many as its memory would touch if it lay in the file,
\* from the page of its virtual address on.
PagesMapped(phdr) ==
  LET first == phdr.vaddr \div PageSize
      count == (phdr.offset + phdr.memsz + PageSize - 1) \div PageSize - phdr.offset \div PageSize
  IN first .. first + count - 1

\* What a linker does: it places a segment as far into a page as it lies in the
\* file, and it gives it pages of its own.
SegmentsApart ==
  \A v \in Volumes : \A p \in DOMAIN v.program : v.program[p].signature =>
    \A k \in DOMAIN v.program[p].phdrs :
      LET phdrs == v.program[p].phdrs
      IN phdrs[k].type = PT_LOAD =>
           /\ phdrs[k].vaddr % PageSize = phdrs[k].offset % PageSize
           /\ phdrs[k].filesz <= phdrs[k].memsz
           /\ \A l \in DOMAIN phdrs :
                l > k => PagesMapped(phdrs[k]) \cap PagesMapped(phdrs[l]) = {}

\* Every byte of a segment is found at its virtual address, where the linker gave
\* segments pages of their own.
ImageMapped ==
  Running =>
    \A img \in LoadedElfs : \A seg \in Segments(img.phdrs) : \A k \in 0 .. seg.filesz - 1 :
      LET v == seg.vaddr + k
      IN /\ v \div PageSize \in DOMAIN img.map
         /\ img.map[v \div PageSize] * PageSize + (v % PageSize) = seg.offset + k

\* The pages mapped are pages of the block the file was read into, unless a
\* segment is larger in memory than what the file has left.
OwnPages ==
  Running =>
    \A img \in LoadedElfs :
      (\A k \in DOMAIN img.phdrs : img.phdrs[k].offset + img.phdrs[k].memsz <= Len(img.bytes)) =>
        \A v \in DOMAIN img.map : img.map[v] * PageSize < Len(img.bytes)
==============================================================================
