-------------------------------- MODULE Files --------------------------------
(***************************************************************************)
(* The path parser (src/fs/pparser.c) and the descriptor layer             *)
(* (src/fs/file.c) over one FAT16 disk.                                    *)
(*                                                                         *)
(* Each call is a function from the state of the layer to the state it     *)
(* leaves and what it answers, so that the callers can be composed of them.*)
(* A path is the sequence of its tokens: a separator or a name.            *)
(***************************************************************************)
EXTENDS Fat16

CONSTANTS
  MaxFileDescriptors,   \* BIMBLEOS_MAX_FILE_DESCRIPTORS
  MaxPath,              \* BIMBLEOS_MAX_PATH, in tokens
  Volumes,              \* the disks the system may be booted from
  Paths, Modes,         \* the arguments of fopen
  Sizes, Counts,        \* the arguments of fread
  Offsets,              \* the argument of fseek
  MaxPos                \* bound on the position of a descriptor

ASSUME FilesAssumption ==
  /\ MaxFileDescriptors \in Nat \ {0}
  /\ MaxPath \in Nat
  /\ Paths \subseteq Seq(STRING)
  /\ Sizes \subseteq Nat /\ Counts \subseteq Nat /\ Offsets \subseteq Nat
  /\ MaxPos \in Nat

\* The fields of an item and the words of the table are unsigned.
ASSUME VolumesAssumption ==
  \A v \in Volumes : ItemsOf(v) \subseteq DirectoryItem /\ WordsOf(v) \subseteq Nat

VARIABLES
  volume,   \* what the disk holds
  disk,     \* struct Disk: the file system found on it, once looked at
  fs,       \* file_descriptors, and the position of cluster_read_stream
  hung      \* the kernel waits for the drive for ever

vars == <<volume, disk, fs, hung>>

Closed == [item |-> NoItem, pos |-> 0]

\* What a call leaves and answers.
Answer(s, res) ==
  [fs |-> s, res |-> res, grown |-> 0, hung |-> FALSE, stray |-> FALSE, out |-> <<>>]
------------------------------------------------------------------------------
(***************************************************************************)
(* The path parser.                                                        *)
(***************************************************************************)

Digits == {"0", "1"}

pathparser_path_valid_format(path) ==
  /\ Len(path) >= 3
  /\ path[1] \in Digits
  /\ path[2] = ":" /\ path[3] = "/"

pathparser_get_drive_by_path(path) == IF path[1] = "0" THEN 0 ELSE 1

\* Mutation: the slash after a part is not skipped.
PathParts_slash(path) ==
  LET parts[i \in Nat] ==
        IF i > Len(path) \/ path[i] = "/" THEN <<>> ELSE <<path[i]>> \o parts[i + 1]
  IN parts[4]

\* The parts of a path, up to the first that is empty.
PathParts(path) ==
  LET parts[i \in Nat] ==
        IF i > Len(path) \/ path[i] = "/" THEN <<>> ELSE <<path[i]>> \o parts[i + 2]
  IN parts[4]

\* The allocations of a PathRoot: itself, and a PathPart and a name for each part.
pathparser_parse(path) ==
  IF Len(path) > MaxPath \/ ~pathparser_path_valid_format(path)
    THEN [ok |-> FALSE, blocks |-> 0]
    ELSE [ok |-> TRUE, drive |-> pathparser_get_drive_by_path(path),
          parts |-> PathParts(path), blocks |-> 1 + 2 * Len(PathParts(path))]
------------------------------------------------------------------------------
(***************************************************************************)
(* Descriptors.                                                            *)
(***************************************************************************)

Free(s) == {fd \in 1 .. MaxFileDescriptors : s.descriptors[fd] = Closed}

\* Mutation: the slot after the first free one is taken.
file_new_descriptor_next(s) == IF Free(s) = {} THEN 0 ELSE (Min(Free(s)) % MaxFileDescriptors) + 1

\* The number of the lowest free slot; 0 when there is none.
file_new_descriptor(s) == IF Free(s) = {} THEN 0 ELSE Min(Free(s))

\* The descriptor of a number.  The largest number that fopen gives out is
\* refused here.
file_get_descriptor(s, fd) ==
  IF fd <= 0 \/ fd >= MaxFileDescriptors THEN Closed ELSE s.descriptors[fd]

ModeStrings == {"r", "w", "a"}

\* fopen: a number, or 0.  The parsed path is never released; what the file
\* system opened is lost when no descriptor is free.
fopen(s, path, mode, mem) ==
  LET parsed == pathparser_parse(path)
      fd     == file_new_descriptor(s)
      Opened(opened, given) ==
        [fs    |-> [descriptors |->
                      IF given THEN [s.descriptors EXCEPT ![fd] = [item |-> opened.item, pos |-> 0]]
                      ELSE s.descriptors,
                    stream |-> opened.pos],
         res   |-> IF given THEN fd ELSE 0,
         grown |-> parsed.blocks + opened.grown + (IF given THEN 1 ELSE 0),
         hung  |-> opened.hung,
         stray |-> opened.stray,
         out   |-> <<>>]
      Tried(opened) == Opened(opened, opened.res >= 0 /\ fd # 0)
  IN IF \/ ~parsed.ok
        \/ parsed.parts = <<>>
        \/ ~disk_get(parsed.drive)
        \/ ~disk.ours
        \/ mode \notin ModeStrings
       THEN [Answer(s, 0) EXCEPT !.grown = parsed.blocks]
       ELSE Tried(fat16_open(volume, s.stream, disk.root_directory, parsed.parts, mode, mem))

fstat(s, fd) ==
  LET desc == file_get_descriptor(s, fd)
      stat == fat16_stat(desc.item)
  IN IF desc = Closed THEN Answer(s, -EIO)
     ELSE [Answer(s, stat.res) EXCEPT !.out = <<stat.filesize>>]

fseek(s, fd, offset, whence) ==
  LET desc == file_get_descriptor(s, fd)
      sought == fat16_seek(desc.item, desc.pos, offset, whence)
  IN IF desc = Closed THEN Answer(s, -EIO)
     ELSE Answer([s EXCEPT !.descriptors[fd].pos = sought.pos], sought.res)

fread(s, size, nmemb, fd) ==
  LET desc    == file_get_descriptor(s, fd)
      Read(r) == [fs |-> [s EXCEPT !.stream = r.pos], res |-> r.res, grown |-> 0,
                  hung |-> r.hung, stray |-> FALSE, out |-> r.out]
  IN IF size = 0 \/ nmemb = 0 \/ fd < 1 \/ desc = Closed THEN Answer(s, -EINVARG)
     ELSE Read(fat16_read(volume, s.stream, desc.item, desc.pos, size, nmemb))

\* fclose releases what the file system holds, then the descriptor.
fclose(s, fd) ==
  LET desc   == file_get_descriptor(s, fd)
      closed == fat16_close(desc.item)
  IN IF desc = Closed THEN Answer(s, -EIO)
     ELSE [Answer([s EXCEPT !.descriptors[fd] = Closed], closed.res)
             EXCEPT !.grown = closed.grown - 1]
==============================================================================
