---------------------------- MODULE LoadingProofs ----------------------------
(***************************************************************************)
(* Proofs about the file layer and the load of programs.                   *)
(***************************************************************************)
EXTENDS Loading, FiniteSetTheorems, SequenceTheorems, TLAPS

(***************************************************************************)
(* The table of descriptors.                                               *)
(***************************************************************************)

\* A state of the layer, and an answer of one of its calls.
Slots(f) == f = [fd \in 1 .. MaxFileDescriptors |-> f[fd]]
Table(s) == DOMAIN s = {"descriptors", "stream"} /\ Slots(s.descriptors)

Fields == {"fs", "res", "grown", "hung", "stray", "out"}

Answers(a) == DOMAIN a = Fields /\ Table(a.fs)

Numbers == INSTANCE Recursion WITH
  Dom <- LAMBDA c : {}, Size <- LAMBDA c, x : 0, Def <- LAMBDA c, f, x : 0

\* A slot may be filled or cleared.
LEMMA SlotsKept ==
  ASSUME NEW f, Slots(f), NEW fd, NEW desc
  PROVE  LET g == [f EXCEPT ![fd] = desc]
         IN /\ Slots(g) /\ DOMAIN f = 1 .. MaxFileDescriptors
            /\ \A d \in 1 .. MaxFileDescriptors : g[d] = IF d = fd THEN desc ELSE f[d]
<1> DEFINE g == [f EXCEPT ![fd] = desc]
<1>1. DOMAIN f = 1 .. MaxFileDescriptors
  BY DEF Slots
<1>2. \A d \in 1 .. MaxFileDescriptors : g[d] = IF d = fd THEN desc ELSE f[d]
  BY <1>1
<1>3. g = [d \in 1 .. MaxFileDescriptors |-> g[d]]
  BY <1>1
<1>4. QED
  BY <1>1, <1>2, <1>3 DEF Slots

\* The slot that fopen takes is a free one, and the one that nothing can close is
\* the last one taken.
LEMMA LowestFree ==
  ASSUME NEW s, Free(s) # {}
  PROVE  /\ file_new_descriptor(s) = Min(Free(s))
         /\ Min(Free(s)) \in Free(s) /\ Min(Free(s)) \in 1 .. MaxFileDescriptors
         /\ Free(s) # {MaxFileDescriptors} => Min(Free(s)) < MaxFileDescriptors
<1>1. Free(s) \subseteq 1 .. MaxFileDescriptors /\ MaxFileDescriptors \in Nat
  BY FilesAssumption DEF Free
<1>2. Free(s) \subseteq Nat
  BY <1>1
<1>3. PICK k \in Free(s) : \A j \in Free(s) : k <= j
  BY <1>2, Numbers!LeastNumber
<1>4. Min(Free(s)) \in Free(s) /\ \A j \in Free(s) : Min(Free(s)) <= j
  BY <1>3 DEF Min
<1>5. ASSUME Free(s) # {MaxFileDescriptors} PROVE Min(Free(s)) < MaxFileDescriptors
  <2>1. PICK j \in Free(s) : j # MaxFileDescriptors
    BY <1>4, <1>5
  <2>2. QED
    BY <1>1, <1>4, <2>1
<1>6. QED
  BY <1>1, <1>4, <1>5 DEF file_new_descriptor

\* Two answers joined are one, with the outcome of the second.
LEMMA AfterOf ==
  ASSUME NEW a, NEW b, Answers(b)
  PROVE  LET c == After(a, b)
         IN Answers(c) /\ c.fs = b.fs /\ c.res = b.res /\ c.hung = b.hung /\ c.out = b.out
  BY DEF After, Answers, Fields

\* The table after a file was opened.
Opening(s, item) == [s.descriptors EXCEPT ![Min(Free(s))] = [item |-> item, pos |-> 0]]

\* fopen takes one free slot, or answers 0.
LEMMA FopenOf ==
  ASSUME NEW s, Table(s), NEW path, NEW mode, NEW mem
  PROVE  LET a == fopen(s, path, mode, mem)
         IN /\ Answers(a)
            /\ \/ a.res = 0 /\ a.fs.descriptors = s.descriptors
               \/ /\ Free(s) # {} /\ a.res = Min(Free(s))
                  /\ \E item : a.fs.descriptors = Opening(s, item)
<1> DEFINE a == fopen(s, path, mode, mem)
           parsed == pathparser_parse(path)
           fd == file_new_descriptor(s)
           opened == fat16_open(volume, s.stream, disk.root_directory, parsed.parts, mode, mem)
           given == opened.res >= 0 /\ fd # 0
           none == \/ ~parsed.ok
                   \/ parsed.parts = <<>>
                   \/ ~disk_get(parsed.drive)
                   \/ ~disk.ours
                   \/ mode \notin ModeStrings
<1>1. CASE none
  <2> DEFINE g == parsed.blocks
  <2>1. a = [Answer(s, 0) EXCEPT !.grown = g]
    BY <1>1 DEF fopen
  <2> HIDE DEF a, g
  <2>2. Answers(a) /\ a.res = 0 /\ a.fs = s
    BY <2>1 DEF Answer, Answers, Fields
  <2>3. QED
    BY <2>2 DEF a
<1>2. CASE ~none
  <2>1. a = [fs    |-> [descriptors |->
                          IF given THEN [s.descriptors EXCEPT ![fd] = [item |-> opened.item, pos |-> 0]]
                          ELSE s.descriptors,
                        stream |-> opened.pos],
             res   |-> IF given THEN fd ELSE 0,
             grown |-> parsed.blocks + opened.grown + (IF given THEN 1 ELSE 0),
             hung  |-> opened.hung,
             stray |-> opened.stray,
             out   |-> <<>>]
    BY <1>2, Zenon DEF fopen
  <2> DEFINE g == parsed.blocks + opened.grown + (IF given THEN 1 ELSE 0)
             item == opened.item
             pos == opened.pos
             h == opened.hung
             st == opened.stray
  <2>2. a = [fs    |-> [descriptors |->
                          IF given THEN [s.descriptors EXCEPT ![fd] = [item |-> item, pos |-> 0]]
                          ELSE s.descriptors,
                        stream |-> pos],
             res   |-> IF given THEN fd ELSE 0,
             grown |-> g, hung |-> h, stray |-> st, out   |-> <<>>]
    BY <2>1
  <2>3. given => Free(s) # {} /\ fd = Min(Free(s))
    BY DEF file_new_descriptor
  <2> HIDE DEF a, given, fd, g, item, pos, h, st
  <2>4. CASE given
    <3>1. /\ DOMAIN a = Fields /\ a.res = fd
          /\ DOMAIN a.fs = {"descriptors", "stream"}
          /\ a.fs.descriptors = [s.descriptors EXCEPT ![fd] = [item |-> item, pos |-> 0]]
      BY <2>2, <2>4 DEF Fields
    <3>2. Answers(a)
      <4>1. Slots([s.descriptors EXCEPT ![fd] = [item |-> item, pos |-> 0]])
        BY SlotsKept DEF Table
      <4>2. QED
        BY <3>1, <4>1 DEF Answers, Table
    <3>3. a.fs.descriptors = Opening(s, item)
      BY <2>3, <2>4, <3>1 DEF Opening
    <3>4. QED
      BY <2>3, <2>4, <3>1, <3>2, <3>3 DEF a
  <2>5. CASE ~given
    <3>1. /\ DOMAIN a = Fields /\ a.res = 0
          /\ DOMAIN a.fs = {"descriptors", "stream"}
          /\ a.fs.descriptors = s.descriptors
      BY <2>2, <2>5 DEF Fields
    <3>2. Answers(a)
      BY <3>1 DEF Answers, Table
    <3>3. QED
      BY <3>1, <3>2 DEF a
  <2>6. QED
    BY <2>4, <2>5
<1>3. QED
  BY <1>1, <1>2

\* fstat and fread leave the table alone; fseek and fclose change one slot.
LEMMA FstatOf ==
  ASSUME NEW s, Table(s), NEW fd
  PROVE  LET a == fstat(s, fd) IN Answers(a) /\ a.fs = s
BY DEF fstat, Answer, Answers, Fields

\* fread moves the stream of the disk, and no descriptor.
LEMMA FreadOf ==
  ASSUME NEW s, Table(s), NEW fd, NEW size, NEW nmemb
  PROVE  LET a == fread(s, size, nmemb, fd)
         IN Answers(a) /\ a.fs.descriptors = s.descriptors
<1> DEFINE desc == file_get_descriptor(s, fd)
           r == fat16_read(volume, s.stream, desc.item, desc.pos, size, nmemb)
           a == fread(s, size, nmemb, fd)
<1>1. \/ a = Answer(s, -EINVARG)
      \/ a = [fs |-> [s EXCEPT !.stream = r.pos], res |-> r.res, grown |-> 0,
              hung |-> r.hung, stray |-> FALSE, out |-> r.out]
  BY DEF fread
<1> HIDE DEF a, r
<1>2. QED
  BY <1>1 DEF Answer, Answers, Fields, Table, a

\* fseek changes the descriptor it is given, and no other.
LEMMA FseekOf ==
  ASSUME NEW s, Table(s), NEW fd, NEW offset, NEW whence
  PROVE  LET a == fseek(s, fd, offset, whence)
         IN /\ Answers(a)
            /\ \A d \in (1 .. MaxFileDescriptors) \ {fd} :
                 a.fs.descriptors[d] = s.descriptors[d]
<1> DEFINE desc == file_get_descriptor(s, fd)
           sought == fat16_seek(desc.item, desc.pos, offset, whence)
           a == fseek(s, fd, offset, whence)
           res == sought.res
           pos == sought.pos
<1>1. \/ a = Answer(s, -EIO)
      \/ a = Answer([s EXCEPT !.descriptors[fd].pos = pos], res)
  BY DEF fseek
<1> DEFINE new == [s EXCEPT !.descriptors[fd].pos = pos]
           moved == [s.descriptors[fd] EXCEPT !.pos = pos]
           slots == [s.descriptors EXCEPT ![fd] = moved]
<1>2. new = [s EXCEPT !.descriptors = slots]
  OBVIOUS
<1>3. /\ Slots(slots)
      /\ \A d \in (1 .. MaxFileDescriptors) \ {fd} : slots[d] = s.descriptors[d]
  <2> HIDE DEF moved
  <2>1. QED
    BY SlotsKept DEF Table
<1> HIDE DEF slots
<1>4. DOMAIN new = {"descriptors", "stream"} /\ new.descriptors = slots
  BY <1>2 DEF Table
<1>5. a = Answer(s, -EIO) \/ a = Answer(new, res)
  BY <1>1
<1> HIDE DEF a, res, new
<1>6. DOMAIN a = Fields /\ (a.fs = s \/ a.fs = new)
  BY <1>5 DEF Answer, Fields
<1>7. QED
  BY <1>3, <1>4, <1>6 DEF Answers, Table, a

\* fclose clears the slot of a descriptor that is open, and nothing else.
LEMMA FcloseOf ==
  ASSUME NEW s, Table(s), NEW fd
  PROVE  LET a == fclose(s, fd)
         IN /\ Answers(a)
            /\ a.fs.descriptors = IF file_get_descriptor(s, fd) = Closed THEN s.descriptors
                                  ELSE [s.descriptors EXCEPT ![fd] = Closed]
<1> DEFINE desc == file_get_descriptor(s, fd)
           a == fclose(s, fd)
           res == fat16_close(desc.item).res
           g == fat16_close(desc.item).grown - 1
<1>1. a = IF desc = Closed THEN Answer(s, -EIO)
          ELSE [Answer([s EXCEPT !.descriptors[fd] = Closed], res) EXCEPT !.grown = g]
  BY DEF fclose
<1> HIDE DEF res, g, a, desc
<1>2. Answers(a) /\ a.fs.descriptors = IF desc = Closed THEN s.descriptors
                                       ELSE [s.descriptors EXCEPT ![fd] = Closed]
  BY <1>1, SlotsKept DEF Answer, Answers, Fields, Table
<1>3. QED
  BY <1>2 DEF a, desc
------------------------------------------------------------------------------
(***************************************************************************)
(* Loads: what one step of a load leaves of the table.                     *)
(***************************************************************************)

\* Since state s, slot fd alone may have changed.
Since(s, fd, t) ==
  /\ Table(t)
  /\ \A d \in 1 .. MaxFileDescriptors : d # fd => t.descriptors[d] = s.descriptors[d]

\* What a load that took slot fd answers: it changed no other slot, and it gave the
\* slot back, unless it hangs or the slot is one that nothing can close.
LoadAnswer(s, fd, a) ==
  /\ Answers(a) /\ Since(s, fd, a.fs)
  /\ fd # MaxFileDescriptors => a.hung \/ a.fs.descriptors = s.descriptors

\* Every file is opened in the table with a free slot or in none.
LEMMA FopenSince ==
  ASSUME NEW s, Table(s), NEW path, NEW mode, NEW mem
  PROVE  LET a == fopen(s, path, mode, mem)
         IN /\ Answers(a) /\ Since(s, a.res, a.fs)
            /\ a.res \in Free(s) \cup {0} /\ a.res \in Nat
            /\ Free(s) # {MaxFileDescriptors} => a.res # MaxFileDescriptors
<1> DEFINE a == fopen(s, path, mode, mem)
<1>1. Answers(a) /\ Slots(s.descriptors) /\ MaxFileDescriptors \in Nat \ {0}
  BY FopenOf, FilesAssumption DEF Table
<1>2. \/ a.res = 0 /\ a.fs.descriptors = s.descriptors
      \/ Free(s) # {} /\ a.res = Min(Free(s)) /\ \E item : a.fs.descriptors = Opening(s, item)
  BY FopenOf
<1> DEFINE Fit == /\ Answers(a) /\ Since(s, a.res, a.fs)
                  /\ a.res \in Free(s) \cup {0} /\ a.res \in Nat
                  /\ Free(s) # {MaxFileDescriptors} => a.res # MaxFileDescriptors
<1> HIDE DEF a
<1>3. ASSUME a.res = 0 /\ a.fs.descriptors = s.descriptors PROVE Fit
  BY <1>1, <1>3 DEF Answers, Since
<1>4. ASSUME Free(s) # {} /\ a.res = Min(Free(s))
           /\ \E item : a.fs.descriptors = Opening(s, item)
      PROVE  Fit
  <2> DEFINE m == Min(Free(s))
  <2>1. PICK item : a.fs.descriptors = [s.descriptors EXCEPT ![m] = [item |-> item, pos |-> 0]]
    BY <1>4 DEF Opening
  <2>2. m \in Free(s) /\ m \in 1 .. MaxFileDescriptors
        /\ (Free(s) # {MaxFileDescriptors} => m < MaxFileDescriptors)
    BY <1>4, LowestFree
  <2> DEFINE new == [item |-> item, pos |-> 0]
  <2> HIDE DEF m, new
  <2>3. \A d \in 1 .. MaxFileDescriptors : d # m => a.fs.descriptors[d] = s.descriptors[d]
    <3>1. a.fs.descriptors = [s.descriptors EXCEPT ![m] = new]
      BY <2>1 DEF new
    <3>2. QED
      BY <1>1, <3>1, SlotsKept
  <2>4. a.res = m
    BY <1>4 DEF m
  <2>5. m \in Nat /\ (Free(s) # {MaxFileDescriptors} => m # MaxFileDescriptors)
    BY <1>1, <2>2
  <2>6. Since(s, a.res, a.fs)
    BY <1>1, <2>3, <2>4 DEF Answers, Since
  <2>7. a.res \in Free(s) \cup {0} /\ a.res \in Nat
        /\ (Free(s) # {MaxFileDescriptors} => a.res # MaxFileDescriptors)
    BY <2>2, <2>4, <2>5
  <2>8. QED
    BY <1>1, <2>6, <2>7
<1>5. Fit
  BY <1>2, <1>3, <1>4
<1>6. QED
  BY <1>5 DEF a

\* A load that ends by closing its file.
LEMMA ClosingLoad ==
  ASSUME NEW s, Table(s), NEW fd \in Free(s) \cup {0}, NEW a, Answers(a), Since(s, fd, a.fs),
         NEW res, NEW grown, NEW out
  PROVE  LET c == [After(a, fclose(a.fs, fd)) EXCEPT !.res = res, !.grown = grown, !.out = out]
         IN LoadAnswer(s, fd, c) /\ LoadAnswer(s, fd, [c EXCEPT !.stray = TRUE])
<1> DEFINE closed == fclose(a.fs, fd)
           b == After(a, closed)
           c == [b EXCEPT !.res = res, !.grown = grown, !.out = out]
           t == a.fs
<1>1. /\ Answers(closed)
      /\ closed.fs.descriptors = IF file_get_descriptor(t, fd) = Closed THEN t.descriptors
                                 ELSE [t.descriptors EXCEPT ![fd] = Closed]
  BY FcloseOf DEF Since
<1>2. Answers(b) /\ b.fs = closed.fs
  BY <1>1, AfterOf
<1>3. Slots(s.descriptors) /\ Slots(t.descriptors) /\ Slots(closed.fs.descriptors)
  BY <1>1 DEF Table, Since, Answers
<1>4. \A d \in 1 .. MaxFileDescriptors : d # fd => t.descriptors[d] = s.descriptors[d]
  BY DEF Since
<1> HIDE DEF t, closed, b
<1>5. \A d \in 1 .. MaxFileDescriptors : d # fd => closed.fs.descriptors[d] = s.descriptors[d]
  BY <1>1, <1>3, <1>4, SlotsKept
<1>6. ASSUME fd # MaxFileDescriptors PROVE closed.fs.descriptors = s.descriptors
  <2>1. \A d \in 1 .. MaxFileDescriptors : closed.fs.descriptors[d] = s.descriptors[d]
    <3> SUFFICES ASSUME fd \in 1 .. MaxFileDescriptors
                 PROVE  closed.fs.descriptors[fd] = s.descriptors[fd]
      BY <1>5
    <3>1. s.descriptors[fd] = Closed
      <4>1. fd # 0
        OBVIOUS
      <4>2. QED
        BY <4>1 DEF Free
    <3>2. file_get_descriptor(t, fd) = t.descriptors[fd]
      BY <1>6, FilesAssumption DEF file_get_descriptor
    <3>3. CASE t.descriptors[fd] = Closed
      BY <1>1, <3>1, <3>2, <3>3
    <3>4. CASE t.descriptors[fd] # Closed
      <4>1. closed.fs.descriptors = [t.descriptors EXCEPT ![fd] = Closed]
        BY <1>1, <3>2, <3>4
      <4>2. fd \in DOMAIN t.descriptors
        BY <1>3, SlotsKept
      <4>3. QED
        BY <3>1, <4>1, <4>2
    <3>5. QED
      BY <3>3, <3>4
  <2>2. QED
    BY <1>3, <2>1 DEF Slots
<1>7. ASSUME NEW d, d = c \/ d = [c EXCEPT !.stray = TRUE]
      PROVE  DOMAIN d = Fields /\ d.fs = b.fs
  <2>1. DOMAIN b = Fields
    BY <1>2 DEF Answers
  <2> DEFINE c1 == [b EXCEPT !.res = res]
             c2 == [c1 EXCEPT !.grown = grown]
             c3 == [c2 EXCEPT !.out = out]
  <2>2. c = c3
    BY <2>1 DEF Fields
  <2>3. DOMAIN c1 = Fields /\ c1.fs = b.fs
    BY <2>1 DEF Fields
  <2> HIDE DEF c1
  <2>4. DOMAIN c2 = Fields /\ c2.fs = b.fs
    BY <2>3 DEF Fields
  <2> HIDE DEF c2
  <2>5. DOMAIN c3 = Fields /\ c3.fs = b.fs
    BY <2>4 DEF Fields
  <2> HIDE DEF c3, c
  <2>6. QED
    BY <1>7, <2>2, <2>5 DEF Fields
<1>8. ASSUME NEW d, DOMAIN d = Fields, d.fs = b.fs
      PROVE  LoadAnswer(s, fd, d)
  BY <1>2, <1>5, <1>6, <1>8 DEF LoadAnswer, Answers, Since
<1>9. QED
  BY <1>7, <1>8 DEF c, b, closed, t

\* The load of an ELF file, and of a flat binary.
LEMMA LoadOf ==
  ASSUME NEW s, Table(s), NEW path, NEW mem
  PROVE  \E fd \in Free(s) \cup {0} :
           /\ Free(s) # {MaxFileDescriptors} => fd # MaxFileDescriptors
           /\ LoadAnswer(s, fd, elf_load(s, path, mem))
           /\ LoadAnswer(s, fd, process_load_binary(s, path, mem))
<1> DEFINE opened == fopen(s, path, "r", mem)
           fd == opened.res
           stat == After(opened, fstat(opened.fs, fd))
           read == After(stat, fread(stat.fs, stat.out[1], 1, fd))
           Done(a, res, blocks) ==
             LET c == After(a, fclose(a.fs, fd))
             IN [c EXCEPT !.res = res, !.grown = c.grown + blocks, !.out = a.out]
           valid == elf_validate_loaded(ProgramAt(read.out[1]))
           elf == elf_load(s, path, mem)
           binary == process_load_binary(s, path, mem)
<1>1. elf = IF opened.hung THEN opened
            ELSE IF opened.res <= 0 THEN Done(opened, -EIO, 1)
            ELSE IF stat.res < 0 THEN Done(stat, stat.res, 1)
            ELSE IF read.hung THEN read
            ELSE IF read.res < 0 THEN Done(read, read.res, 2)
            ELSE IF ~valid THEN Done(read, -EINFORMAT, 2)
            ELSE Done(read, 0, 2)
  BY DEF elf_load
<1>2. binary = IF opened.hung THEN opened
               ELSE IF opened.res = 0 THEN [Done(opened, -EIO, 0) EXCEPT !.stray = TRUE]
               ELSE IF stat.res # 0 THEN [Done(stat, stat.res, 0) EXCEPT !.stray = TRUE]
               ELSE IF read.hung THEN read
               ELSE IF read.res # 1 THEN Done(read, -EIO, 0)
               ELSE Done(read, 0, 1)
  BY DEF process_load_binary
<1>3. /\ Answers(opened) /\ Since(s, fd, opened.fs)
      /\ fd \in Free(s) \cup {0}
      /\ Free(s) # {MaxFileDescriptors} => fd # MaxFileDescriptors
  BY FopenSince
<1> HIDE DEF opened, fd
<1>4. Answers(stat) /\ Since(s, fd, stat.fs)
  <2> DEFINE b == fstat(opened.fs, fd)
  <2>1. Answers(b) /\ b.fs = opened.fs
    BY <1>3, FstatOf DEF Answers
  <2> HIDE DEF b
  <2>2. Answers(After(opened, b)) /\ After(opened, b).fs = b.fs
    BY <2>1, AfterOf
  <2>3. QED
    BY <1>3, <2>1, <2>2 DEF b
<1> HIDE DEF stat
<1>5. Answers(read) /\ Since(s, fd, read.fs)
  <2> DEFINE b == fread(stat.fs, stat.out[1], 1, fd)
  <2>1. Answers(b) /\ b.fs.descriptors = stat.fs.descriptors
    <3>1. Table(stat.fs)
      BY <1>4 DEF Answers
    <3>2. QED
      BY <3>1, FreadOf
  <2> HIDE DEF b
  <2>2. Answers(After(stat, b)) /\ After(stat, b).fs = b.fs
    BY <2>1, AfterOf
  <2>3. QED
    BY <1>4, <2>1, <2>2 DEF b, Since, Answers
<1> HIDE DEF read
<1>6. ASSUME NEW a, Answers(a), Since(s, fd, a.fs), NEW res, NEW blocks
      PROVE  /\ LoadAnswer(s, fd, Done(a, res, blocks))
             /\ LoadAnswer(s, fd, [Done(a, res, blocks) EXCEPT !.stray = TRUE])
  BY <1>3, <1>6, ClosingLoad
<1>7. ASSUME NEW a, Answers(a), Since(s, fd, a.fs), a.hung
      PROVE  LoadAnswer(s, fd, a)
  BY <1>7 DEF LoadAnswer
<1> HIDE DEF Done, valid, elf, binary
<1>8. LoadAnswer(s, fd, elf)
  BY <1>1, <1>3, <1>4, <1>5, <1>6, <1>7
<1>9. LoadAnswer(s, fd, binary)
  BY <1>2, <1>3, <1>4, <1>5, <1>6, <1>7
<1>10. QED
  BY <1>3, <1>8, <1>9 DEF elf, binary

\* A program is loaded: the second load opens its file anew.
LEMMA ProgramLoad ==
  ASSUME NEW s, Table(s), NEW path, NEW mem, NEW again
  PROVE  LET a == process_load_data(s, path, mem, again)
         IN /\ Answers(a)
            /\ \A d \in 1 .. MaxFileDescriptors :
                 s.descriptors[d] # Closed => a.fs.descriptors[d] = s.descriptors[d]
            /\ Free(s) # {MaxFileDescriptors} => a.hung \/ a.fs.descriptors = s.descriptors
<1> DEFINE elf == elf_load(s, path, mem)
           binary == process_load_binary(elf.fs, path, again)
           a == process_load_data(s, path, mem, again)
           Fit(x) == /\ Answers(x)
                     /\ \A d \in 1 .. MaxFileDescriptors :
                          s.descriptors[d] # Closed => x.fs.descriptors[d] = s.descriptors[d]
                     /\ Free(s) # {MaxFileDescriptors} => x.hung \/ x.fs.descriptors = s.descriptors
<1>1. a = IF elf.hung \/ elf.res # -EINFORMAT THEN elf ELSE After(elf, binary)
  BY DEF process_load_data
<1>2. PICK fd \in Free(s) \cup {0} :
        /\ Free(s) # {MaxFileDescriptors} => fd # MaxFileDescriptors
        /\ LoadAnswer(s, fd, elf)
  BY LoadOf
<1>3. Fit(elf)
  BY <1>2 DEF LoadAnswer, Since, Free
<1>4. ASSUME ~elf.hung PROVE Fit(After(elf, binary))
  <2> HIDE DEF elf
  <2>1. Table(elf.fs)
    BY <1>3 DEF Answers
  <2>2. PICK f \in Free(elf.fs) \cup {0} :
          /\ Free(elf.fs) # {MaxFileDescriptors} => f # MaxFileDescriptors
          /\ LoadAnswer(elf.fs, f, binary)
    BY <2>1, LoadOf
  <2> HIDE DEF binary
  <2>3. Answers(binary)
    BY <2>2 DEF LoadAnswer
  <2>4. /\ Answers(After(elf, binary)) /\ After(elf, binary).fs = binary.fs
        /\ After(elf, binary).hung = binary.hung
    BY <2>3, AfterOf
  <2>5. \A d \in 1 .. MaxFileDescriptors :
          s.descriptors[d] # Closed => binary.fs.descriptors[d] = s.descriptors[d]
    BY <1>3, <2>2 DEF LoadAnswer, Since, Free
  <2>6. Free(s) # {MaxFileDescriptors} => binary.hung \/ binary.fs.descriptors = s.descriptors
    BY <1>3, <1>4, <2>2 DEF LoadAnswer, Free
  <2>7. QED
    BY <2>4, <2>5, <2>6
<1> HIDE DEF a
<1>5. Fit(a)
  BY <1>1, <1>3, <1>4
<1>6. QED
  BY <1>5 DEF a

\* Every call leaves a table.
LEMMA TableInvariance == Spec => []Table(fs)
<1>1. Init => Table(fs)
  <2> SUFFICES ASSUME Init PROVE Table(fs)
    OBVIOUS
  <2> DEFINE closed == [fd \in 1 .. MaxFileDescriptors |-> Closed]
  <2>1. Slots(closed)
    BY DEF Slots
  <2> HIDE DEF closed
  <2>2. fs = [descriptors |-> closed, stream |-> 0]
    BY DEF Init, closed
  <2>3. QED
    BY <2>1, <2>2 DEF Table
<1>2. Table(fs) /\ [Next]_vars => Table(fs)'
  <2> SUFFICES ASSUME Table(fs), [Next]_vars PROVE Table(fs')
    BY DEF Table, Slots
  <2>1. CASE UNCHANGED fs
    BY <2>1 DEF Table, Slots
  <2>2. ASSUME NEW a, Answers(a), Returned(a) PROVE Table(fs')
    BY <2>2 DEF Answers, Returned
  <2>3. ASSUME NEW path, NEW mode, NEW mem, Open(path, mode, mem) PROVE Table(fs')
    BY <2>2, <2>3, FopenSince DEF Open
  <2>4. ASSUME NEW fd, Stat(fd) PROVE Table(fs')
    BY <2>2, <2>4, FstatOf DEF Stat
  <2>5. ASSUME NEW fd, Close(fd) PROVE Table(fs')
    BY <2>2, <2>5, FcloseOf DEF Close
  <2>6. ASSUME NEW fd, NEW offset, NEW whence, Seek(fd, offset, whence) PROVE Table(fs')
    BY <2>2, <2>6, FseekOf DEF Seek
  <2>7. ASSUME NEW fd, NEW size, NEW nmemb, Read(fd, size, nmemb) PROVE Table(fs')
    BY <2>2, <2>7, FreadOf DEF Read
  <2>8. ASSUME NEW path, NEW mem, NEW again, Load(path, mem, again) PROVE Table(fs')
    BY <2>2, <2>8, ProgramLoad DEF Load
  <2>9. QED
    BY <2>1, <2>3, <2>4, <2>5, <2>6, <2>7, <2>8 DEF Next, Call, disk_search_and_init, vars
<1>3. QED
  BY <1>1, <1>2, PTL DEF Spec

\* Neither fopen nor a load nor a call on another descriptor changes what an open
\* descriptor names or where it stands, for any number of descriptors and whatever
\* the disk holds.
THEOREM DescriptorsKept == Spec => []DescriptorsStable
<1>1. Table(fs) => DescriptorsStable
  <2> SUFFICES ASSUME Table(fs), NEW fd \in 1 .. MaxFileDescriptors, fs.descriptors[fd] # Closed
               PROVE  /\ \A path \in Paths, mem \in BOOLEAN :
                           /\ fopen(fs, path, "r", mem).fs.descriptors[fd] = fs.descriptors[fd]
                           /\ process_load_data(fs, path, mem, TRUE).fs.descriptors[fd]
                                = fs.descriptors[fd]
                      /\ \A other \in Fds \ {fd} :
                           /\ fclose(fs, other).fs.descriptors[fd] = fs.descriptors[fd]
                           /\ \A o \in Offsets : fseek(fs, other, o, "SEEK_SET").fs.descriptors[fd]
                                                   = fs.descriptors[fd]
                           /\ \A n \in Sizes : fread(fs, n, 1, other).fs.descriptors[fd]
                                                 = fs.descriptors[fd]
    BY DEF DescriptorsStable
  <2>1. fd \notin Free(fs) \cup {0}
    BY FilesAssumption DEF Free
  <2>2. ASSUME NEW path \in Paths, NEW mem \in BOOLEAN
        PROVE  /\ fopen(fs, path, "r", mem).fs.descriptors[fd] = fs.descriptors[fd]
               /\ process_load_data(fs, path, mem, TRUE).fs.descriptors[fd] = fs.descriptors[fd]
    <3> DEFINE a == fopen(fs, path, "r", mem)
    <3>1. Since(fs, a.res, a.fs) /\ a.res \in Free(fs) \cup {0}
      BY FopenSince
    <3> HIDE DEF a
    <3>2. a.fs.descriptors[fd] = fs.descriptors[fd]
      BY <2>1, <3>1 DEF Since
    <3>3. process_load_data(fs, path, mem, TRUE).fs.descriptors[fd] = fs.descriptors[fd]
      <4>1. \A again : process_load_data(fs, path, mem, again).fs.descriptors[fd]
                          = fs.descriptors[fd]
        BY ProgramLoad
      <4>2. QED
        BY <4>1, Zenon
    <3>4. QED
      BY <3>2, <3>3 DEF a
  <2>3. ASSUME NEW other \in Fds \ {fd}
        PROVE  /\ fclose(fs, other).fs.descriptors[fd] = fs.descriptors[fd]
               /\ \A o \in Offsets : fseek(fs, other, o, "SEEK_SET").fs.descriptors[fd]
                                       = fs.descriptors[fd]
               /\ \A n \in Sizes : fread(fs, n, 1, other).fs.descriptors[fd] = fs.descriptors[fd]
    <3>1. fclose(fs, other).fs.descriptors[fd] = fs.descriptors[fd]
      <4> DEFINE g == fclose(fs, other).fs.descriptors
      <4>1. g = IF file_get_descriptor(fs, other) = Closed THEN fs.descriptors
                ELSE [fs.descriptors EXCEPT ![other] = Closed]
        BY FcloseOf
      <4>2. Slots(fs.descriptors) /\ fd # other
        BY <2>3 DEF Table
      <4> HIDE DEF g
      <4>3. g[fd] = fs.descriptors[fd]
        BY <4>1, <4>2, SlotsKept
      <4>4. QED
        BY <4>3 DEF g
    <3>2. ASSUME NEW o \in Offsets
          PROVE  fseek(fs, other, o, "SEEK_SET").fs.descriptors[fd] = fs.descriptors[fd]
      BY <2>3, FseekOf
    <3>3. ASSUME NEW n \in Sizes
          PROVE  fread(fs, n, 1, other).fs.descriptors[fd] = fs.descriptors[fd]
      BY FreadOf
    <3>4. QED
      BY <3>1, <3>2, <3>3
  <2>4. QED
    BY <2>2, <2>3
<1>2. QED
  BY <1>1, TableInvariance, PTL

\* Whichever step of a load fails, and whether or not it tries twice, the table of
\* descriptors is as before, unless the load was given the slot nothing can close.
THEOREM LoadsAlwaysClose == Spec => []LoadsCloseFiles
<1>1. Table(fs) => LoadsCloseFiles
  BY ProgramLoad DEF LoadsCloseFiles
<1>2. QED
  BY <1>1, TableInvariance, PTL
------------------------------------------------------------------------------
(***************************************************************************)
(* The stream over the disk.                                               *)
(***************************************************************************)

\* The sector of a place and the offset in it, and the bytes up to its end.
Sector(p) == p \div SectorSize
InSector(p) == p % SectorSize
ToEnd(p) == SectorSize - InSector(p)

\* The places the disk has.
DiskBytes == DiskSectors * SectorSize

\* A place is a sector and an offset in it, and the disk has the sector if and only
\* if it has the place.
LEMMA SectorOf ==
  ASSUME NEW p \in Nat
  PROVE  /\ Sector(p) \in Nat /\ InSector(p) \in Nat /\ ToEnd(p) \in Nat \ {0}
         /\ Sector(p) * SectorSize + InSector(p) = p
         /\ Sector(p) \in 0 .. DiskSectors - 1 <=> p < DiskBytes
<1>1. SectorSize \in Nat \ {0} /\ DiskSectors \in Nat \ {0}
  BY DiskStreamAssumption
<1> DEFINE q == Sector(p)
           r == InSector(p)
<1>2. q \in Nat /\ r \in 0 .. SectorSize - 1 /\ p = SectorSize * q + r
  BY <1>1 DEF Sector, InSector
<1> HIDE DEF q, r
<1>3. q * SectorSize + r = p
  BY <1>1, <1>2
<1>4. ASSUME q < DiskSectors PROVE p < DiskSectors * SectorSize
  <2>1. SectorSize * q + SectorSize <= SectorSize * DiskSectors
    BY <1>1, <1>2, <1>4
  <2>2. SectorSize * DiskSectors = DiskSectors * SectorSize
    BY <1>1
  <2> DEFINE a == SectorSize * q
             b == SectorSize * DiskSectors
  <2>3. a \in Nat /\ b \in Nat
    BY <1>1, <1>2
  <2> HIDE DEF a, b
  <2>4. p < b
    BY <1>1, <1>2, <2>1, <2>3 DEF a, b
  <2>5. QED
    BY <2>2, <2>4 DEF b
<1>5. ASSUME q >= DiskSectors PROVE ~(p < DiskSectors * SectorSize)
  <2>1. SectorSize * q >= SectorSize * DiskSectors
    BY <1>1, <1>2, <1>5
  <2>2. SectorSize * DiskSectors = DiskSectors * SectorSize
    BY <1>1
  <2> DEFINE a == SectorSize * q
             b == SectorSize * DiskSectors
  <2>3. a \in Nat /\ b \in Nat
    BY <1>1, <1>2
  <2> HIDE DEF a, b
  <2>4. p >= b
    BY <1>1, <1>2, <2>1, <2>3 DEF a, b
  <2>5. QED
    BY <1>2, <2>2, <2>3, <2>4 DEF b
<1>6. q \in 0 .. DiskSectors - 1 <=> q < DiskSectors
  BY <1>1, <1>2
<1>7. q < DiskSectors \/ q >= DiskSectors
  BY <1>1, <1>2
<1>8. q \in 0 .. DiskSectors - 1 <=> p < DiskBytes
  BY <1>4, <1>5, <1>6, <1>7 DEF DiskBytes
<1>9. SectorSize - r \in Nat \ {0} /\ r \in Nat
  BY <1>1, <1>2
<1>10. QED
  BY <1>2, <1>3, <1>8, <1>9 DEF q, r, ToEnd

\* One turn of the loop: the part of sector p that is wanted, and what read leaves
\* for the rest.
Taken(p, t) == [i \in 1 .. t |-> disk_read_block(Sector(p)).buff[InSector(p) + i]]
Turn(p, n) == IF InSector(p) + n >= SectorSize THEN ToEnd(p) ELSE n
StreamStep(read, p, n) ==
  IF disk_read_block(Sector(p)).hung THEN [hung |-> TRUE, out |-> <<>>, pos |-> p]
  ELSE IF InSector(p) + n >= SectorSize
    THEN [read[<<p + Turn(p, n), n - Turn(p, n)>>] EXCEPT !.out = Taken(p, Turn(p, n)) \o @]
  ELSE [hung |-> FALSE, out |-> Taken(p, Turn(p, n)), pos |-> p + Turn(p, n)]

StreamCalls(c) == Nat \X Nat
Wanted(c, x) == x[2]
Streamed(c, f, x) == StreamStep(f, x[1], x[2])

Streaming == INSTANCE Recursion WITH Dom <- StreamCalls, Size <- Wanted, Def <- Streamed

\* A read that goes past its sector is the rest of the sector and another read.
LEMMA StreamCall ==
  ASSUME NEW p \in Nat, NEW n \in Nat
  PROVE  diskstreamer_read(p, n) =
           IF disk_read_block(Sector(p)).hung THEN [hung |-> TRUE, out |-> <<>>, pos |-> p]
           ELSE IF InSector(p) + n >= SectorSize
             THEN [diskstreamer_read(p + ToEnd(p), n - ToEnd(p))
                     EXCEPT !.out = Taken(p, ToEnd(p)) \o @]
           ELSE [hung |-> FALSE, out |-> Taken(p, n), pos |-> p + n]
<1> DEFINE read == CHOOSE f : f = [x \in Nat \X Nat |-> StreamStep(f, x[1], x[2])]
<1>1. read = [x \in Nat \X Nat |-> StreamStep(read, x[1], x[2])]
  <2>1. ASSUME NEW x \in Nat \X Nat, NEW g, NEW h,
               \A y \in Nat \X Nat : y[2] < x[2] => g[y] = h[y]
        PROVE  StreamStep(g, x[1], x[2]) = StreamStep(h, x[1], x[2])
    <3>1. x[1] \in Nat /\ x[2] \in Nat /\ SectorSize \in Nat
      BY DiskStreamAssumption
    <3>2. CASE ~(InSector(x[1]) + x[2] >= SectorSize)
      BY <3>2 DEF StreamStep
    <3>3. CASE InSector(x[1]) + x[2] >= SectorSize
      <4> DEFINE t == Turn(x[1], x[2])
                 y == <<x[1] + t, x[2] - t>>
      <4>1. t \in Nat \ {0} /\ t <= x[2]
        BY <3>1, <3>3, SectorOf DEF Turn, ToEnd
      <4> HIDE DEF t
      <4>2. x[1] + t \in Nat /\ x[2] - t \in Nat /\ x[2] - t < x[2]
        BY <3>1, <4>1
      <4>3. y \in Nat \X Nat /\ y[2] < x[2]
        BY <4>2
      <4>4. g[y] = h[y]
        BY <2>1, <4>3
      <4> HIDE DEF y
      <4>5. QED
        BY <4>4 DEF StreamStep, y, t
    <3>4. QED
      BY <3>2, <3>3
  <2>2. \A x \in Nat \X Nat : x[2] \in Nat
    OBVIOUS
  <2>3. Streaming!Decreasing(0)
    BY <2>1, <2>2 DEF Streaming!Decreasing, StreamCalls, Wanted, Streamed
  <2>4. \E f : f = [x \in StreamCalls(0) |-> Streamed(0, f, x)]
    BY <2>3, Streaming!RecursionDefines
  <2>5. \E f : f = [x \in Nat \X Nat |-> StreamStep(f, x[1], x[2])]
    BY <2>4 DEF StreamCalls, Streamed
  <2>6. QED
    BY <2>5
<1>2. ASSUME NEW q, NEW m PROVE diskstreamer_read(q, m) = read[<<q, m>>]
  BY DEF diskstreamer_read, StreamStep, Turn, Taken, Sector, InSector, ToEnd
<1> HIDE DEF read
<1>3. read[<<p, n>>] = StreamStep(read, p, n)
  <2> DEFINE x == <<p, n>>
  <2>1. x \in Nat \X Nat /\ x[1] = p /\ x[2] = n
    OBVIOUS
  <2> HIDE DEF x
  <2>2. read[x] = StreamStep(read, x[1], x[2])
    BY <1>1, <2>1
  <2>3. QED
    BY <2>1, <2>2 DEF x
<1>4. QED
  BY <1>2, <1>3 DEF StreamStep, Turn

\* A stretch is a sequence of as many places as it was asked for.
LEMMA StretchType ==
  ASSUME NEW p \in Nat, NEW n \in Nat
  PROVE  Stretch(p, n) \in Seq(Nat) /\ Len(Stretch(p, n)) = n
<1>1. \A i \in 1 .. n : p + i - 1 \in Nat
  OBVIOUS
<1>2. QED
  BY <1>1 DEF Stretch

\* What is taken of a sector are the bytes from the place read on.
LEMMA TakenIs ==
  ASSUME NEW p \in Nat, NEW t \in Nat, t <= ToEnd(p)
  PROVE  Taken(p, t) = Stretch(p, t)
<1> DEFINE q == Sector(p) * SectorSize
           r == InSector(p)
<1>1. q \in Nat /\ r \in Nat /\ q + r = p /\ SectorSize \in Nat
  <2> DEFINE k == Sector(p)
  <2>1. k \in Nat /\ r \in Nat /\ k * SectorSize + r = p /\ SectorSize \in Nat
    BY SectorOf, DiskStreamAssumption
  <2> HIDE DEF k, r
  <2>2. k * SectorSize \in Nat
    BY <2>1
  <2>3. QED
    BY <2>1, <2>2 DEF k, r
<1>2. t <= SectorSize - r
  BY DEF ToEnd
<1>3. disk_read_block(Sector(p)).buff = Stretch(q, SectorSize)
  BY DEF disk_read_block
<1> HIDE DEF q, r
<1>4. ASSUME NEW i \in 1 .. t PROVE Stretch(q, SectorSize)[r + i] = p + i - 1
  <2>1. r + i \in 1 .. SectorSize /\ q + (r + i) - 1 = p + i - 1
    BY <1>1, <1>2
  <2>2. QED
    BY <2>1 DEF Stretch
<1>5. QED
  BY <1>3, <1>4 DEF Taken, Stretch, r

\* Two reads one after the other are one read.
LEMMA StretchJoin ==
  ASSUME NEW p \in Nat, NEW a \in Nat, NEW b \in Nat
  PROVE  Stretch(p, a) \o Stretch(p + a, b) = Stretch(p, a + b)
<1> DEFINE u == Stretch(p, a)
           v == Stretch(p + a, b)
           w == Stretch(p, a + b)
<1>1. p + a \in Nat /\ a + b \in Nat
  OBVIOUS
<1>2. /\ u \in Seq(Nat) /\ Len(u) = a /\ v \in Seq(Nat) /\ Len(v) = b
      /\ w \in Seq(Nat) /\ Len(w) = a + b
  BY <1>1, StretchType
<1>3. /\ \A i \in 1 .. a : u[i] = p + i - 1
      /\ \A i \in 1 .. b : v[i] = p + a + i - 1
      /\ \A i \in 1 .. a + b : w[i] = p + i - 1
  BY DEF Stretch
<1> DEFINE x == u \o v
<1> HIDE DEF u, v, w
<1>4. /\ x \in Seq(Nat) /\ Len(x) = a + b
      /\ \A i \in 1 .. a + b : x[i] = IF i <= a THEN u[i] ELSE v[i - a]
  <2>1. u \in Seq(Nat) /\ v \in Seq(Nat) /\ Len(u) = a /\ Len(v) = b
    BY <1>2
  <2>2. /\ x \in Seq(Nat) /\ Len(x) = Len(u) + Len(v)
        /\ \A i \in 1 .. Len(u) + Len(v) : x[i] = IF i <= Len(u) THEN u[i] ELSE v[i - Len(u)]
    BY <2>1, ConcatProperties
  <2> HIDE DEF x
  <2>3. QED
    BY <2>1, <2>2
<1> HIDE DEF x
<1>5. ASSUME NEW i \in 1 .. a + b PROVE x[i] = w[i]
  <2>1. CASE i <= a
    <3>1. i \in 1 .. a
      BY <2>1
    <3>2. QED
      BY <1>3, <1>4, <2>1, <3>1
  <2>2. CASE ~(i <= a)
    <3> DEFINE k == i - a
    <3>1. x[i] = v[k]
      BY <1>4, <2>2
    <3>2. k \in 1 .. b /\ p + a + k - 1 = p + i - 1
      BY <2>2
    <3> HIDE DEF k
    <3>3. v[k] = p + a + k - 1
      BY <1>3, <3>2
    <3>4. QED
      BY <1>3, <3>1, <3>2, <3>3
  <2>3. QED
    BY <2>1, <2>2
<1>6. x = w
  BY <1>1, <1>2, <1>4, <1>5
<1>7. QED
  BY <1>6 DEF x, u, v, w

\* What a read leaves.
Outcomes == {"hung", "out", "pos"}
ReadLeaves(r, p, n) ==
  /\ DOMAIN r = Outcomes
  /\ r.hung \in BOOLEAN /\ r.out \in Seq(Nat) /\ r.pos \in Nat
  /\ ~r.hung => r.out = Stretch(p, n) /\ r.pos = p + n
  /\ p + n < DiskBytes => ~r.hung
  /\ p >= DiskBytes => r.hung

\* A read delivers the bytes from its place on, however many sectors they lie in,
\* unless it comes to the end of the disk.
LEMMA StreamReads ==
  ASSUME NEW pos \in Nat, NEW total \in Nat
  PROVE  ReadLeaves(diskstreamer_read(pos, total), pos, total)
<1> DEFINE T == {n \in Nat : \E p \in Nat : ~ReadLeaves(diskstreamer_read(p, n), p, n)}
<1>1. DiskBytes \in Nat /\ SectorSize \in Nat
  BY DiskStreamAssumption DEF DiskBytes
<1>2. T = {}
  <2> SUFFICES ASSUME T # {} PROVE FALSE
    OBVIOUS
  <2>1. PICK n \in T : \A m \in T : n <= m
    BY Numbers!LeastNumber
  <2>2. PICK p \in Nat : ~ReadLeaves(diskstreamer_read(p, n), p, n)
    BY <2>1
  <2>3. n \in Nat
    BY <2>1
  <2> DEFINE r == diskstreamer_read(p, n)
             t == ToEnd(p)
             f == diskstreamer_read(p + t, n - t)
  <2>4. r = IF disk_read_block(Sector(p)).hung THEN [hung |-> TRUE, out |-> <<>>, pos |-> p]
            ELSE IF InSector(p) + n >= SectorSize
              THEN [f EXCEPT !.out = Taken(p, t) \o @]
            ELSE [hung |-> FALSE, out |-> Taken(p, n), pos |-> p + n]
    BY <2>3, StreamCall
  <2>5. t \in Nat \ {0} /\ InSector(p) \in Nat /\ t = SectorSize - InSector(p)
    BY SectorOf DEF ToEnd
  <2>6. disk_read_block(Sector(p)).hung <=> p >= DiskBytes
    <3>1. disk_read_block(Sector(p)).hung <=> ~(Sector(p) \in 0 .. DiskSectors - 1)
      BY DEF disk_read_block
    <3>2. Sector(p) \in 0 .. DiskSectors - 1 <=> p < DiskBytes
      BY SectorOf
    <3>3. p >= DiskBytes <=> ~(p < DiskBytes)
      BY <1>1
    <3>4. QED
      BY <3>1, <3>2, <3>3
  <2>7. CASE p >= DiskBytes
    <3>1. r = [hung |-> TRUE, out |-> <<>>, pos |-> p]
      BY <2>4, <2>6, <2>7
    <3>2. ~(p + n < DiskBytes)
      BY <1>1, <2>3, <2>7
    <3> HIDE DEF r
    <3>3. ReadLeaves(r, p, n)
      BY <3>1, <3>2 DEF ReadLeaves, Outcomes
    <3>4. QED
      BY <2>2, <3>3 DEF r
  <2>8. CASE p < DiskBytes /\ ~(InSector(p) + n >= SectorSize)
    <3>1. r = [hung |-> FALSE, out |-> Taken(p, n), pos |-> p + n]
      BY <1>1, <2>4, <2>6, <2>8
    <3>2. n <= t
      BY <1>1, <2>3, <2>5, <2>8
    <3>3. Taken(p, n) = Stretch(p, n) /\ Stretch(p, n) \in Seq(Nat)
      BY <2>3, <3>2, TakenIs, StretchType
    <3>4. ~(p >= DiskBytes) /\ p + n \in Nat
      BY <1>1, <2>3, <2>8
    <3> HIDE DEF r
    <3>5. ReadLeaves(r, p, n)
      BY <3>1, <3>3, <3>4 DEF ReadLeaves, Outcomes
    <3>6. QED
      BY <2>2, <3>5 DEF r
  <2>9. CASE p < DiskBytes /\ InSector(p) + n >= SectorSize
    <3> DEFINE a == Stretch(p, t)
    <3>1. r = [f EXCEPT !.out = Taken(p, t) \o @]
      BY <1>1, <2>4, <2>6, <2>9
    <3>2. /\ t <= n /\ n - t \in Nat /\ n - t < n /\ p + t \in Nat
          /\ (p + t) + (n - t) = p + n /\ t + (n - t) = n /\ ~(p >= DiskBytes)
      BY <1>1, <2>3, <2>5, <2>9
    <3>3. n - t \notin T
      <4> HIDE DEF T
      <4>1. QED
        BY <2>1, <2>3, <3>2
    <3>4. ReadLeaves(f, p + t, n - t)
      BY <3>2, <3>3
    <3>5. Taken(p, t) = a /\ a \in Seq(Nat)
      BY <2>5, TakenIs, StretchType
    <3> DEFINE b == Stretch(p + t, n - t)
    <3>6. a \o b = Stretch(p, n)
      <4> DEFINE m == n - t
      <4>1. t \in Nat /\ m \in Nat /\ t + m = n
        BY <2>5, <3>2
      <4> HIDE DEF t, m
      <4>2. Stretch(p, t) \o Stretch(p + t, m) = Stretch(p, t + m)
        BY <4>1, StretchJoin
      <4>3. QED
        BY <4>1, <4>2 DEF m
    <3> HIDE DEF f, r, t, a, b
    <3>7. DOMAIN f = Outcomes /\ f.out \in Seq(Nat) /\ f.hung \in BOOLEAN /\ f.pos \in Nat
      BY <3>4 DEF ReadLeaves
    <3>8. DOMAIN r = Outcomes /\ r.hung = f.hung /\ r.pos = f.pos /\ r.out = a \o f.out
      BY <3>1, <3>5, <3>7 DEF Outcomes
    <3>9. r.out \in Seq(Nat)
      BY <3>5, <3>7, <3>8
    <3>10. ~f.hung => f.out = b /\ f.pos = p + n
      BY <3>2, <3>4 DEF ReadLeaves, b
    <3>11. p + n < DiskBytes => ~f.hung
      BY <3>2, <3>4 DEF ReadLeaves
    <3>12. ReadLeaves(r, p, n)
      BY <3>2, <3>6, <3>7, <3>8, <3>9, <3>10, <3>11 DEF ReadLeaves
    <3>13. QED
      BY <2>2, <3>12 DEF r
  <2>10. QED
    BY <1>1, <2>7, <2>8, <2>9
<1>3. QED
  BY <1>2
------------------------------------------------------------------------------
(***************************************************************************)
(* Clusters, and the read of a stretch of a file.                          *)
(***************************************************************************)

\* The place where a cluster begins; cluster 2 is the first of the disk.
ClusterStart(cluster) == fat16_sector_to_absolute(fat16_cluster_to_sector(cluster))

\* The sectors and positions that fat16.c computes are numbers, cluster 0 included.
LEMMA PlacesOf ==
  /\ ClusterBytes \in Nat \ {0}
  /\ RootSector \in Nat /\ ending_sector_pos \in Nat
  /\ \A cluster \in Nat : /\ fat16_cluster_to_sector(cluster) \in Nat
                          /\ ClusterStart(cluster) \in Nat
                          /\ FatEntryPos(cluster) \in Nat
                          /\ \A o \in Nat : StartingPos(cluster, o) \in Nat
  /\ \A sector \in Nat : fat16_sector_to_absolute(sector) \in Nat
<1>1. /\ SectorSize \in Nat \ {0} /\ SectorsPerCluster \in Nat \ {0} /\ FatCopies \in Nat
      /\ SectorsPerFat \in Nat /\ ReservedSectors \in Nat /\ RootDirEntries \in Nat
      /\ ItemSize \in Nat /\ FatEntrySize \in Nat
      /\ 2 * SectorsPerCluster <=
           ReservedSectors + FatCopies * SectorsPerFat + (RootDirEntries * ItemSize) \div SectorSize
  BY DiskStreamAssumption, Fat16Assumption
<1>2. ClusterBytes \in Nat \ {0}
  BY <1>1 DEF ClusterBytes
<1>3. RootSector \in Nat
  BY <1>1 DEF RootSector
<1> DEFINE root == (RootDirEntries * ItemSize) \div SectorSize
           fats == FatCopies * SectorsPerFat
<1>4. root \in Nat /\ fats \in Nat
  BY <1>1
<1>5. /\ ending_sector_pos = (fats + ReservedSectors) + root
      /\ 2 * SectorsPerCluster <= ReservedSectors + fats + root
  BY <1>1 DEF ending_sector_pos, RootSector
<1> HIDE DEF root, fats
<1>6. ending_sector_pos \in Nat /\ 2 * SectorsPerCluster <= ending_sector_pos
  BY <1>1, <1>4, <1>5
<1>7. ASSUME NEW sector \in Nat PROVE fat16_sector_to_absolute(sector) \in Nat
  BY <1>1 DEF fat16_sector_to_absolute
<1>8. ASSUME NEW cluster \in Nat
      PROVE  /\ fat16_cluster_to_sector(cluster) \in Nat
             /\ ClusterStart(cluster) \in Nat
             /\ FatEntryPos(cluster) \in Nat
             /\ \A o \in Nat : StartingPos(cluster, o) \in Nat
  <2> DEFINE all == cluster * SectorsPerCluster
             two == 2 * SectorsPerCluster
  <2>1. all \in Nat /\ two \in Nat /\ (cluster - 2) * SectorsPerCluster = all - two
    BY <1>1
  <2>2. fat16_cluster_to_sector(cluster) = ending_sector_pos + (cluster - 2) * SectorsPerCluster
    BY DEF fat16_cluster_to_sector
  <2> HIDE DEF all
  <2>3. fat16_cluster_to_sector(cluster) \in Nat
    BY <1>6, <2>1, <2>2
  <2>4. ClusterStart(cluster) \in Nat
    BY <1>7, <2>3 DEF ClusterStart
  <2>5. FatEntryPos(cluster) \in Nat
    <3>1. ReservedSectors * SectorSize \in Nat /\ cluster * FatEntrySize \in Nat
      BY <1>1
    <3> DEFINE a == ReservedSectors * SectorSize
               b == cluster * FatEntrySize
    <3>2. FatEntryPos(cluster) = a * b
      BY DEF FatEntryPos, fat16_get_first_fat_sector
    <3> HIDE DEF a, b
    <3>3. QED
      BY <3>1, <3>2 DEF a, b
  <2>6. ASSUME NEW o \in Nat PROVE StartingPos(cluster, o) \in Nat
    <3>1. o % ClusterBytes \in Nat
      BY <1>2
    <3>2. StartingPos(cluster, o) = ClusterStart(cluster) + (o % ClusterBytes)
      BY DEF StartingPos, ClusterStart
    <3> DEFINE rest == o % ClusterBytes
    <3> HIDE DEF rest
    <3>3. QED
      BY <2>4, <3>1, <3>2 DEF rest
  <2>7. QED
    BY <2>3, <2>4, <2>5, <2>6
<1>9. QED
  BY <1>2, <1>3, <1>6, <1>7, <1>8

\* A volume that can be booted from.
Formatted(v) ==
  /\ ItemsOf(v) \subseteq DirectoryItem
  /\ WordsOf(v) \subseteq Nat

\* The chain of a file, as the recursion and one step of it.
Onward(v, before) ==
  IF before.hung \/ before.res < 0 THEN before
  ELSE LET next == fat16_get_fat_entry(v, before.res)
       IN [hung |-> next.hung,
           res  |-> IF next.entry \in StopMarks THEN -EIO ELSE next.entry]

Links(c) == Nat
LinkNumber(c, i) == i
Linked(c, f, i) ==
  IF i = 0 THEN [hung |-> FALSE, res |-> c.cluster] ELSE Onward(c.volume, f[i - 1])

Linking == INSTANCE Recursion WITH Dom <- Links, Size <- LinkNumber, Def <- Linked

\* A link that was found is a cluster number.
LinkLeaves(r) ==
  r.hung \in BOOLEAN /\ r.res \in Int /\ r.res >= -EIO

\* Following the chain of a cluster ends at a cluster, an error or a drive that is
\* never ready; in the first cluster it follows nothing.
LEMMA LinksOf ==
  ASSUME NEW v, Formatted(v), NEW cluster \in Nat, NEW o \in Nat
  PROVE  LET r == fat16_get_cluster_for_offset(v, cluster, o)
         IN /\ LinkLeaves(r)
            /\ o < ClusterBytes => r = [hung |-> FALSE, res |-> cluster]
<1> DEFINE c == [volume |-> v, cluster |-> cluster]
           First == [hung |-> FALSE, res |-> cluster]
           walk == CHOOSE f : f = [i \in Nat |-> IF i = 0 THEN First ELSE Onward(v, f[i - 1])]
<1>1. walk = [i \in Nat |-> IF i = 0 THEN First ELSE Onward(v, walk[i - 1])]
  <2>1. \A f, i : Linked(c, f, i) = IF i = 0 THEN First ELSE Onward(v, f[i - 1])
    BY DEF Linked
  <2> HIDE DEF c, First
  <2>2. ASSUME NEW i \in Nat, NEW g, NEW h, \A j \in Nat : j < i => g[j] = h[j]
        PROVE  Linked(c, g, i) = Linked(c, h, i)
    <3>1. CASE i = 0
      BY <2>1, <3>1
    <3>2. CASE i # 0
      <4>1. i - 1 \in Nat /\ i - 1 < i
        BY <3>2
      <4>2. g[i - 1] = h[i - 1]
        BY <2>2, <4>1
      <4>3. QED
        BY <2>1, <4>2
    <3>3. QED
      BY <3>1, <3>2
  <2>3. Linking!Decreasing(c)
    BY <2>2 DEF Linking!Decreasing, Links, LinkNumber
  <2>4. \E f : f = [i \in Links(c) |-> Linked(c, f, i)]
    BY <2>3, Linking!RecursionDefines
  <2>5. \E f : f = [i \in Nat |-> IF i = 0 THEN First ELSE Onward(v, f[i - 1])]
    BY <2>1, <2>4 DEF Links
  <2>6. QED
    BY <2>5
<1>2. fat16_get_cluster_for_offset(v, cluster, o) = walk[o \div ClusterBytes]
  BY DEF fat16_get_cluster_for_offset, Onward
<1> HIDE DEF walk
<1>3. walk[0] = First /\ \A i \in Nat : i # 0 => walk[i] = Onward(v, walk[i - 1])
  BY <1>1
<1>4. ASSUME NEW n \in Nat PROVE fat16_get_fat_entry(v, n).hung \in BOOLEAN
                                 /\ fat16_get_fat_entry(v, n).entry \in Nat
  <2> DEFINE r == diskstreamer_read(FatEntryPos(n), FatEntrySize)
  <2>1. FatEntryPos(n) \in Nat /\ FatEntrySize \in Nat \ {0}
    BY PlacesOf, Fat16Assumption
  <2>2. ReadLeaves(r, FatEntryPos(n), FatEntrySize)
    BY <2>1, StreamReads
  <2> HIDE DEF r
  <2>3. fat16_get_fat_entry(v, n) = [hung  |-> r.hung,
                                     entry |-> IF r.hung THEN 0 ELSE WordAt(v, r.out[1])]
    BY DEF fat16_get_fat_entry, r
  <2>4. \A p : WordAt(v, p) \in Nat
    BY DEF WordAt, WordsOf, Formatted
  <2>5. r.hung \in BOOLEAN
    BY <2>2 DEF ReadLeaves
  <2>6. QED
    BY <2>3, <2>4, <2>5
<1> DEFINE T == {i \in Nat : ~LinkLeaves(walk[i])}
<1>5. T = {}
  <2> SUFFICES ASSUME T # {} PROVE FALSE
    OBVIOUS
  <2>1. PICK i \in T : \A j \in T : i <= j
    BY Numbers!LeastNumber
  <2>2. i # 0
    <3>1. LinkLeaves(walk[0])
      BY <1>3 DEF LinkLeaves, EIO
    <3>2. QED
      BY <2>1, <3>1
  <2>3. i \in Nat /\ i - 1 \in Nat /\ i - 1 < i
    BY <2>1, <2>2
  <2>4. i - 1 \notin T
    <3> HIDE DEF T
    <3>1. QED
      BY <2>1, <2>3
  <2> DEFINE before == walk[i - 1]
             entry == fat16_get_fat_entry(v, before.res)
  <2>5. LinkLeaves(before)
    BY <2>3, <2>4
  <2>6. walk[i] = Onward(v, before)
    BY <1>3, <2>2, <2>3
  <2> HIDE DEF before
  <2>7. LinkLeaves(Onward(v, before))
    <3>1. CASE before.hung \/ before.res < 0
      BY <2>5, <3>1 DEF Onward
    <3>2. CASE ~(before.hung \/ before.res < 0)
      <4>1. before.res \in Nat
        BY <2>5, <3>2 DEF LinkLeaves
      <4>2. entry.hung \in BOOLEAN /\ entry.entry \in Nat
        BY <1>4, <4>1
      <4>3. Onward(v, before) = [hung |-> entry.hung,
                                 res  |-> IF entry.entry \in StopMarks THEN -EIO ELSE entry.entry]
        BY <3>2 DEF Onward
      <4>4. -EIO \in Int
        BY DEF EIO
      <4> HIDE DEF entry
      <4>5. QED
        BY <4>2, <4>3, <4>4 DEF LinkLeaves, EIO
    <3>3. QED
      BY <3>1, <3>2
  <2>8. QED
    BY <2>1, <2>6, <2>7
<1>6. o \div ClusterBytes \in Nat /\ (o < ClusterBytes => o \div ClusterBytes = 0)
  BY PlacesOf
<1>7. LinkLeaves(walk[o \div ClusterBytes])
  BY <1>5, <1>6
<1>8. QED
  BY <1>2, <1>3, <1>6, <1>7

\* What a read of a file leaves.
FileOutcomes == {"hung", "res", "out", "pos"}
FileRead(r) ==
  /\ DOMAIN r = FileOutcomes
  /\ r.hung \in BOOLEAN /\ r.res \in Int /\ r.res >= -EIO
  /\ r.out \in Seq(Nat) /\ r.pos \in Nat

\* It delivered the n bytes from place p on.
Delivered(r, p, n) ==
  /\ FileRead(r) /\ r.res = 0
  /\ ~r.hung => r.out = Stretch(p, n)
  /\ p + n < DiskBytes => ~r.hung

\* One turn of fat16_read_internal delivers the bytes of its cluster, if the offset
\* is in the first one.
LEMMA PieceOf ==
  ASSUME NEW v, Formatted(v), NEW stream \in Nat, NEW cluster \in Nat, NEW o \in Nat,
         NEW size \in Nat
  PROVE  LET r == Piece(stream, fat16_get_cluster_for_offset(v, cluster, o), o, size)
         IN /\ FileRead(r)
            /\ o < ClusterBytes => Delivered(r, ClusterStart(cluster) + o, size)
<1> DEFINE use == fat16_get_cluster_for_offset(v, cluster, o)
           r == Piece(stream, use, o, size)
<1>1. LinkLeaves(use) /\ (o < ClusterBytes => use = [hung |-> FALSE, res |-> cluster])
  BY LinksOf
<1> HIDE DEF use
<1>2. CASE use.hung \/ use.res < 0
  <2>1. r = [hung |-> use.hung, res |-> use.res, out |-> <<>>, pos |-> stream]
    BY <1>2 DEF Piece
  <2>2. ~(o < ClusterBytes)
    BY <1>1, <1>2
  <2> HIDE DEF r
  <2>3. FileRead(r)
    BY <1>1, <2>1 DEF FileRead, FileOutcomes, LinkLeaves
  <2>4. QED
    BY <2>2, <2>3 DEF r, use
<1>3. CASE ~(use.hung \/ use.res < 0)
  <2> DEFINE p == StartingPos(use.res, o)
             d == diskstreamer_read(p, size)
  <2>1. r = [hung |-> d.hung, res |-> 0, out |-> d.out, pos |-> d.pos]
    BY <1>3 DEF Piece, diskstreamer_seek
  <2>2. use.res \in Nat
    BY <1>1, <1>3 DEF LinkLeaves
  <2>3. p \in Nat
    BY <2>2, PlacesOf
  <2>4. ReadLeaves(d, p, size)
    BY <2>3, StreamReads
  <2>5. o < ClusterBytes => p = ClusterStart(cluster) + o
    <3> SUFFICES ASSUME o < ClusterBytes PROVE p = ClusterStart(cluster) + o
      OBVIOUS
    <3>1. use.res = cluster
      BY <1>1
    <3>2. o % ClusterBytes = o
      BY PlacesOf
    <3>3. QED
      BY <3>1, <3>2 DEF StartingPos, ClusterStart
  <2> HIDE DEF d, p, r
  <2>6. /\ d.hung \in BOOLEAN /\ d.out \in Seq(Nat) /\ d.pos \in Nat
        /\ ~d.hung => d.out = Stretch(p, size)
        /\ p + size < DiskBytes => ~d.hung
    BY <2>4 DEF ReadLeaves
  <2>7. FileRead(r) /\ Delivered(r, p, size)
    BY <2>1, <2>6 DEF FileRead, FileOutcomes, Delivered, EIO
  <2>8. QED
    BY <2>5, <2>7 DEF r, use
<1>4. QED
  BY <1>2, <1>3

\* A turn of the read of a file: a piece, and what read leaves for the rest.
PieceSize(t) == IF t > ClusterBytes THEN ClusterBytes ELSE t
PieceRead(v, cluster, s, o, t) ==
  Piece(s, fat16_get_cluster_for_offset(v, cluster, o), o, PieceSize(t))
InternalStep(v, cluster, read, s, o, t) ==
  LET r == PieceRead(v, cluster, s, o, t)
  IN IF r.hung \/ r.res < 0 \/ t = PieceSize(t) THEN r
     ELSE [read[<<r.pos, o + PieceSize(t), t - PieceSize(t)>>] EXCEPT !.out = r.out \o @]

InternalCalls(c) == Nat \X Nat \X Nat
BytesLeft(c, x) == x[3]
Internal(c, f, x) == InternalStep(c.volume, c.cluster, f, x[1], x[2], x[3])

Reading == INSTANCE Recursion WITH Dom <- InternalCalls, Size <- BytesLeft, Def <- Internal

\* The same with fat16_read_internal for the function it is defined by.
InternalTurn(v, cluster, s, o, t) ==
  LET r == PieceRead(v, cluster, s, o, t)
  IN IF r.hung \/ r.res < 0 \/ t = PieceSize(t) THEN r
     ELSE [fat16_read_internal(v, r.pos, cluster, o + PieceSize(t), t - PieceSize(t))
             EXCEPT !.out = r.out \o @]

\* fat16_read_internal is its first turn followed by the call for the rest.
LEMMA InternalCall ==
  ASSUME NEW v, Formatted(v), NEW cluster \in Nat, NEW s \in Nat, NEW o \in Nat, NEW t \in Nat
  PROVE  fat16_read_internal(v, s, cluster, o, t) = InternalTurn(v, cluster, s, o, t)
<1> DEFINE D == Nat \X Nat \X Nat
           c == [volume |-> v, cluster |-> cluster]
           Turned(f, x) == InternalStep(v, cluster, f, x[1], x[2], x[3])
           read == CHOOSE f : f = [x \in D |-> Turned(f, x)]
<1>1. read = [x \in D |-> Turned(read, x)]
  <2>1. ASSUME NEW x \in D, NEW g, NEW h, \A y \in D : y[3] < x[3] => g[y] = h[y]
        PROVE  Turned(g, x) = Turned(h, x)
    <3>1. x[1] \in Nat /\ x[2] \in Nat /\ x[3] \in Nat
      OBVIOUS
    <3> DEFINE piece == PieceRead(v, cluster, x[1], x[2], x[3])
               size == PieceSize(x[3])
               y == <<piece.pos, x[2] + size, x[3] - size>>
    <3>2. CASE piece.hung \/ piece.res < 0 \/ x[3] = size
      BY <3>2 DEF InternalStep
    <3>3. CASE ~(piece.hung \/ piece.res < 0 \/ x[3] = size)
      <4>1. size \in Nat \ {0} /\ size <= x[3]
        BY <3>1, <3>3, PlacesOf DEF PieceSize
      <4>2. piece.pos \in Nat
        BY <3>1, <4>1, PieceOf DEF PieceRead, FileRead
      <4> HIDE DEF piece, size
      <4>3. x[2] + size \in Nat /\ x[3] - size \in Nat /\ x[3] - size < x[3]
        BY <3>1, <4>1
      <4>4. y \in D /\ y[3] < x[3]
        BY <4>2, <4>3
      <4>5. g[y] = h[y]
        BY <2>1, <4>4
      <4> HIDE DEF y
      <4>6. QED
        BY <4>5 DEF InternalStep, y, piece, size
    <3>4. QED
      BY <3>2, <3>3
  <2>2. \A x \in D : x[3] \in Nat
    OBVIOUS
  <2>3. \A f, x : Internal(c, f, x) = Turned(f, x)
    BY DEF Internal
  <2>4. InternalCalls(c) = D /\ \A x : BytesLeft(c, x) = x[3]
    BY DEF InternalCalls, BytesLeft
  <2> HIDE DEF Turned, c, D
  <2>5. Reading!Decreasing(c)
    <3>1. \A x \in InternalCalls(c) : BytesLeft(c, x) \in Nat
      BY <2>2, <2>4
    <3>2. ASSUME NEW x \in InternalCalls(c), NEW g, NEW h,
                 \A y \in InternalCalls(c) : BytesLeft(c, y) < BytesLeft(c, x) => g[y] = h[y]
          PROVE  Internal(c, g, x) = Internal(c, h, x)
      <4>1. x \in D /\ \A y \in D : y[3] < x[3] => g[y] = h[y]
        BY <2>4, <3>2
      <4>2. Turned(g, x) = Turned(h, x)
        BY <2>1, <4>1
      <4>3. QED
        BY <2>3, <4>2
    <3>3. QED
      BY <3>1, <3>2 DEF Reading!Decreasing
  <2>6. \E f : f = [x \in InternalCalls(c) |-> Internal(c, f, x)]
    BY <2>5, Reading!RecursionDefines
  <2>7. \E f : f = [x \in D |-> Turned(f, x)]
    BY <2>3, <2>4, <2>6
  <2>8. QED
    BY <2>7
<1>2. ASSUME NEW p, NEW q, NEW n
      PROVE  fat16_read_internal(v, p, cluster, q, n) = read[<<p, q, n>>]
  BY DEF fat16_read_internal, InternalStep, PieceRead, PieceSize
<1> HIDE DEF read
<1>3. read[<<s, o, t>>] = InternalStep(v, cluster, read, s, o, t)
  <2> DEFINE x == <<s, o, t>>
  <2>1. x \in D /\ x[1] = s /\ x[2] = o /\ x[3] = t
    OBVIOUS
  <2> HIDE DEF x
  <2>2. read[x] = InternalStep(v, cluster, read, x[1], x[2], x[3])
    BY <1>1, <2>1
  <2>3. QED
    BY <2>1, <2>2 DEF x
<1> DEFINE r == PieceRead(v, cluster, s, o, t)
           rest == fat16_read_internal(v, r.pos, cluster, o + PieceSize(t), t - PieceSize(t))
<1>4. rest = read[<<r.pos, o + PieceSize(t), t - PieceSize(t)>>]
  BY <1>2
<1>5. fat16_read_internal(v, s, cluster, o, t) = read[<<s, o, t>>]
  BY <1>2
<1>6. fat16_read_internal(v, s, cluster, o, t) = InternalStep(v, cluster, read, s, o, t)
  BY <1>3, <1>5
<1>7. InternalStep(v, cluster, read, s, o, t) =
        IF r.hung \/ r.res < 0 \/ t = PieceSize(t) THEN r ELSE [rest EXCEPT !.out = r.out \o @]
  BY <1>4 DEF InternalStep
<1>8. InternalTurn(v, cluster, s, o, t) =
        IF r.hung \/ r.res < 0 \/ t = PieceSize(t) THEN r ELSE [rest EXCEPT !.out = r.out \o @]
  BY DEF InternalTurn
<1>9. QED
  BY <1>6, <1>7, <1>8

\* The read of a file leaves what a read leaves, and as long as it stays in the
\* first cluster of the file it delivers the bytes of that cluster.
LEMMA InternalReads ==
  ASSUME NEW v, Formatted(v), NEW cluster \in Nat, NEW stream \in Nat, NEW offset \in Nat,
         NEW total \in Nat
  PROVE  LET r == fat16_read_internal(v, stream, cluster, offset, total)
         IN /\ FileRead(r)
            /\ offset < ClusterBytes /\ total <= ClusterBytes
                 => Delivered(r, ClusterStart(cluster) + offset, total)
<1> DEFINE Fit(t) == \A s \in Nat, o \in Nat : FileRead(fat16_read_internal(v, s, cluster, o, t))
           T == {t \in Nat : ~Fit(t)}
<1>1. T = {}
  <2> SUFFICES ASSUME T # {} PROVE FALSE
    OBVIOUS
  <2>1. PICK t \in T : \A m \in T : t <= m
    BY Numbers!LeastNumber
  <2>2. t \in Nat
    BY <2>1
  <2>3. PICK s \in Nat, o \in Nat : ~FileRead(fat16_read_internal(v, s, cluster, o, t))
    BY <2>1
  <2> DEFINE r == PieceRead(v, cluster, s, o, t)
             size == PieceSize(t)
             f == fat16_read_internal(v, r.pos, cluster, o + size, t - size)
             whole == fat16_read_internal(v, s, cluster, o, t)
  <2>4. whole = IF r.hung \/ r.res < 0 \/ t = size THEN r ELSE [f EXCEPT !.out = r.out \o @]
    <3>1. whole = InternalTurn(v, cluster, s, o, t)
      BY <2>2, InternalCall
    <3>2. InternalTurn(v, cluster, s, o, t)
            = IF r.hung \/ r.res < 0 \/ t = size THEN r ELSE [f EXCEPT !.out = r.out \o @]
      BY DEF InternalTurn
    <3>3. QED
      BY <3>1, <3>2
  <2>5. size \in Nat /\ size <= t /\ (t # size => size # 0)
    BY <2>2, PlacesOf DEF PieceSize
  <2>6. FileRead(r)
    BY <2>5, PieceOf DEF PieceRead
  <2>7. CASE r.hung \/ r.res < 0 \/ t = size
    BY <2>3, <2>4, <2>6, <2>7
  <2>8. CASE ~(r.hung \/ r.res < 0 \/ t = size)
    <3>1. whole = [f EXCEPT !.out = r.out \o @]
      BY <2>4, <2>8
    <3> HIDE DEF r, size
    <3>2. t - size \in Nat /\ t - size < t /\ o + size \in Nat /\ r.pos \in Nat
      BY <2>2, <2>5, <2>6, <2>8 DEF FileRead
    <3>3. t - size \notin T
      <4> HIDE DEF T
      <4>1. QED
        BY <2>1, <2>2, <3>2
    <3>4. FileRead(f)
      BY <3>2, <3>3
    <3> HIDE DEF f, whole
    <3>5. r.out \o f.out \in Seq(Nat)
      BY <2>6, <3>4 DEF FileRead
    <3>6. FileRead(whole)
      BY <3>1, <3>4, <3>5 DEF FileRead, FileOutcomes
    <3>7. QED
      BY <2>3, <3>6 DEF whole
  <2>9. QED
    BY <2>7, <2>8
<1>2. ASSUME offset < ClusterBytes, total <= ClusterBytes
      PROVE  Delivered(fat16_read_internal(v, stream, cluster, offset, total),
                       ClusterStart(cluster) + offset, total)
  <2>1. PieceSize(total) = total
    BY <1>2, PlacesOf DEF PieceSize
  <2>2. fat16_read_internal(v, stream, cluster, offset, total)
          = Piece(stream, fat16_get_cluster_for_offset(v, cluster, offset), offset, total)
    <3> DEFINE r == PieceRead(v, cluster, stream, offset, total)
    <3>1. r = PieceRead(v, cluster, stream, offset, total)
      OBVIOUS
    <3>2. fat16_read_internal(v, stream, cluster, offset, total)
            = InternalTurn(v, cluster, stream, offset, total)
      BY InternalCall
    <3>3. InternalTurn(v, cluster, stream, offset, total) = r
      BY <2>1 DEF InternalTurn
    <3>4. QED
      BY <2>1, <3>2, <3>3 DEF PieceRead
  <2>3. QED
    BY <1>2, <2>2, PieceOf
<1>3. QED
  BY <1>1, <1>2

\* The elements of a read of nmemb elements, as the recursion and one step of it.
Nothing(stream) == [hung |-> FALSE, res |-> 0, out |-> <<>>, pos |-> stream]
NextElement(v, cluster, pos, size, sofar, i) ==
  IF sofar.hung \/ sofar.res < 0 THEN sofar
  ELSE [fat16_read_internal(v, sofar.pos, cluster, Element(pos, size, i), size)
          EXCEPT !.out = sofar.out \o @]

ElementNumbers(c) == 0 .. c.nmemb
ElementNumber(c, i) == i
ElementRead(c, f, i) ==
  IF i = 0 THEN Nothing(c.stream)
  ELSE NextElement(c.volume, c.cluster, c.pos, c.size, f[i - 1], i)

Elements == INSTANCE Recursion WITH
  Dom <- ElementNumbers, Size <- ElementNumber, Def <- ElementRead

\* fat16_read as a sequence of elements, each read after the one before.
LEMMA ElementsOf ==
  ASSUME NEW v, NEW stream, NEW item, NEW pos, NEW size, NEW nmemb \in Nat
  PROVE  LET cluster == fat16_get_first_cluster(ReadItem(item))
         IN \E elem : /\ fat16_read(v, stream, item, pos, size, nmemb)
                           = [elem[nmemb] EXCEPT !.res = IF @ < 0 THEN @ ELSE nmemb]
                      /\ elem[0] = Nothing(stream)
                      /\ \A i \in 1 .. nmemb :
                           elem[i] = NextElement(v, cluster, pos, size, elem[i - 1], i)
<1> DEFINE cluster == fat16_get_first_cluster(ReadItem(item))
           c == [volume |-> v, stream |-> stream, cluster |-> cluster, pos |-> pos,
                 size |-> size, nmemb |-> nmemb]
           Turned(f, i) == IF i = 0 THEN Nothing(stream)
                           ELSE NextElement(v, cluster, pos, size, f[i - 1], i)
           elem == CHOOSE f : f = [i \in 0 .. nmemb |-> Turned(f, i)]
<1>1. elem = [i \in 0 .. nmemb |-> Turned(elem, i)]
  <2>1. \A f, i : ElementRead(c, f, i) = Turned(f, i)
    BY DEF ElementRead
  <2>2. ElementNumbers(c) = 0 .. nmemb
    BY DEF ElementNumbers
  <2>3. ASSUME NEW i \in 0 .. nmemb, NEW g, NEW h, \A j \in 0 .. nmemb : j < i => g[j] = h[j]
        PROVE  Turned(g, i) = Turned(h, i)
    <3>1. CASE i = 0
      BY <3>1
    <3>2. CASE i # 0
      <4>1. i - 1 \in 0 .. nmemb /\ i - 1 < i
        BY <3>2
      <4>2. g[i - 1] = h[i - 1]
        BY <2>3, <4>1
      <4>3. QED
        BY <3>2, <4>2
    <3>3. QED
      BY <3>1, <3>2
  <2> HIDE DEF Turned, c
  <2>4. Elements!Decreasing(c)
    <3>1. \A i \in ElementNumbers(c) : ElementNumber(c, i) \in Nat
      BY <2>2 DEF ElementNumber
    <3>2. ASSUME NEW i \in ElementNumbers(c), NEW g, NEW h,
                 \A j \in ElementNumbers(c) : ElementNumber(c, j) < ElementNumber(c, i) => g[j] = h[j]
          PROVE  ElementRead(c, g, i) = ElementRead(c, h, i)
      <4>1. i \in 0 .. nmemb /\ \A j \in 0 .. nmemb : j < i => g[j] = h[j]
        BY <2>2, <3>2 DEF ElementNumber
      <4>2. Turned(g, i) = Turned(h, i)
        BY <2>3, <4>1
      <4>3. QED
        BY <2>1, <4>2
    <3>3. QED
      BY <3>1, <3>2 DEF Elements!Decreasing
  <2>5. \E f : f = [i \in ElementNumbers(c) |-> ElementRead(c, f, i)]
    BY <2>4, Elements!RecursionDefines
  <2>6. \E f : f = [i \in 0 .. nmemb |-> Turned(f, i)]
    BY <2>1, <2>2, <2>5
  <2>7. QED
    BY <2>6
<1>2. fat16_read(v, stream, item, pos, size, nmemb)
        = [elem[nmemb] EXCEPT !.res = IF @ < 0 THEN @ ELSE nmemb]
  BY DEF fat16_read, NextElement, Nothing
<1> HIDE DEF elem
<1>3. elem[0] = Nothing(stream)
  BY <1>1
<1>4. ASSUME NEW i \in 1 .. nmemb
      PROVE  elem[i] = NextElement(v, cluster, pos, size, elem[i - 1], i)
  <2>1. i \in 0 .. nmemb /\ i # 0
    OBVIOUS
  <2>2. QED
    BY <1>1, <2>1
<1>5. QED
  BY <1>2, <1>3, <1>4

\* An element read well, with the ones before it.
LEMMA ProductGrows ==
  ASSUME NEW size \in Nat, NEW n \in Nat, NEW i \in 1 .. n
  PROVE  /\ (i - 1) * size \in Nat /\ i * size \in Nat /\ size * n \in Nat
         /\ i * size = (i - 1) * size + size
         /\ i * size <= size * n
<1>1. i \in Nat /\ i - 1 \in Nat /\ n - i \in Nat
  OBVIOUS
<1>2. (i - 1) * size \in Nat /\ i * size \in Nat /\ size * n \in Nat /\ (n - i) * size \in Nat
  BY <1>1
<1>3. i * size = (i - 1) * size + size
  BY <1>1
<1>4. size * n = i * size + (n - i) * size
  BY <1>1
<1>5. QED
  BY <1>2, <1>3, <1>4

\* A read that ends in the first cluster of a file delivers the bytes of that
\* cluster from its place on.
ReadsCluster(r, cluster, pos, size, nmemb) ==
  (/\ size # 0 /\ pos + size * nmemb <= ClusterBytes
   /\ ClusterStart(cluster) + ClusterBytes < DiskBytes)
    => /\ ~r.hung /\ r.res = nmemb
       /\ r.out = Stretch(ClusterStart(cluster) + pos, size * nmemb)

\* fat16_read is such a read, however many elements it is asked for.
LEMMA FileReads ==
  ASSUME NEW v, Formatted(v), NEW stream \in Nat, NEW item,
         NEW cluster \in Nat, cluster = fat16_get_first_cluster(ReadItem(item)),
         NEW pos \in Nat, NEW size \in Nat, NEW nmemb \in Nat
  PROVE  LET r == fat16_read(v, stream, item, pos, size, nmemb)
         IN FileRead(r) /\ ReadsCluster(r, cluster, pos, size, nmemb)
<1> DEFINE start == ClusterStart(cluster)
           inside == /\ size # 0 /\ pos + size * nmemb <= ClusterBytes
                     /\ start + ClusterBytes < DiskBytes
           r == fat16_read(v, stream, item, pos, size, nmemb)
<1>1. PICK elem : /\ r = [elem[nmemb] EXCEPT !.res = IF @ < 0 THEN @ ELSE nmemb]
                  /\ elem[0] = Nothing(stream)
                  /\ \A i \in 1 .. nmemb :
                       elem[i] = NextElement(v, cluster, pos, size, elem[i - 1], i)
  BY ElementsOf
<1>2. start \in Nat /\ ClusterBytes \in Nat /\ DiskBytes \in Nat
  BY PlacesOf, DiskStreamAssumption DEF DiskBytes
<1> DEFINE Fits(i) == /\ FileRead(elem[i])
                      /\ inside => /\ ~elem[i].hung /\ elem[i].res = 0
                                   /\ elem[i].out = Stretch(start + pos, i * size)
           T == {i \in 0 .. nmemb : ~Fits(i)}
<1>3. T = {}
  <2> SUFFICES ASSUME T # {} PROVE FALSE
    OBVIOUS
  <2>1. PICK i \in T : \A j \in T : i <= j
    <3>1. T \subseteq Nat
      OBVIOUS
    <3> HIDE DEF T
    <3>2. QED
      BY <3>1, Numbers!LeastNumber
  <2>2. i \in 0 .. nmemb /\ ~Fits(i)
    BY <2>1
  <2>3. i # 0
    <3> SUFFICES ASSUME i = 0 PROVE FALSE
      OBVIOUS
    <3>1. elem[0] = Nothing(stream)
      BY <1>1
    <3>2. Stretch(start + pos, 0 * size) = <<>>
      BY DEF Stretch
    <3>3. DOMAIN elem[0] = FileOutcomes /\ elem[0].hung = FALSE /\ elem[0].res = 0
          /\ elem[0].out = <<>> /\ elem[0].pos = stream
      BY <3>1 DEF Nothing, FileOutcomes
    <3>4. FileRead(elem[0])
      <4>1. elem[0].hung \in BOOLEAN /\ elem[0].res \in Int /\ elem[0].res >= -EIO
        BY <3>1 DEF Nothing, EIO
      <4>2. elem[0].out \in Seq(Nat) /\ elem[0].pos \in Nat
        BY <3>3
      <4>3. QED
        BY <3>3, <4>1, <4>2 DEF FileRead
    <3> HIDE DEF inside
    <3>5. Fits(0)
      BY <3>2, <3>3, <3>4
    <3>6. QED
      BY <2>2, <3>5
  <2>4. i \in 1 .. nmemb /\ i - 1 \in 0 .. nmemb /\ i - 1 < i
    BY <2>2, <2>3
  <2>5. Fits(i - 1)
    <3>1. i - 1 \notin T
      <4> HIDE DEF T
      <4>1. QED
        BY <2>1, <2>4
    <3> HIDE DEF Fits
    <3>2. QED
      BY <2>4, <3>1
  <2> DEFINE sofar == elem[i - 1]
             o == Element(pos, size, i)
             f == fat16_read_internal(v, sofar.pos, cluster, o, size)
             next == elem[i]
             before == (i - 1) * size
  <2>6. next = NextElement(v, cluster, pos, size, sofar, i)
    BY <1>1, <2>4
  <2>7. FileRead(sofar)
    BY <2>5
  <2>8. inside => ~sofar.hung /\ sofar.res = 0 /\ sofar.out = Stretch(start + pos, before)
    BY <2>5
  <2>9. /\ before \in Nat /\ i * size \in Nat /\ size * nmemb \in Nat
        /\ i * size = before + size /\ i * size <= size * nmemb
    BY <2>4, ProductGrows
  <2>10. o = pos + before
    BY DEF Element
  <2> HIDE DEF before, sofar, o, next
  <2>11. o \in Nat /\ sofar.pos \in Nat
    BY <2>7, <2>9, <2>10 DEF FileRead
  <2>12. FileRead(f) /\ (o < ClusterBytes /\ size <= ClusterBytes => Delivered(f, start + o, size))
    BY <2>11, InternalReads
  <2>13. inside => o < ClusterBytes /\ size <= ClusterBytes /\ (start + o) + size < DiskBytes
    <3> DEFINE all == size * nmemb
               upto == i * size
    <3>1. ASSUME inside
          PROVE size # 0 /\ pos + all <= ClusterBytes /\ start + ClusterBytes < DiskBytes
      BY <3>1
    <3>2. all \in Nat /\ upto \in Nat /\ upto = before + size /\ upto <= all
      BY <2>9
    <3> HIDE DEF all, upto, inside, start
    <3>3. QED
      BY <1>2, <2>9, <2>10, <3>1, <3>2
  <2> HIDE DEF inside, f, start
  <2>14. CASE sofar.hung \/ sofar.res < 0
    <3>1. next = sofar
      BY <2>6, <2>14 DEF NextElement
    <3>2. ~inside
      BY <2>8, <2>14
    <3>3. QED
      BY <2>2, <2>7, <3>1, <3>2 DEF next
  <2>15. CASE ~(sofar.hung \/ sofar.res < 0)
    <3>1. next = [f EXCEPT !.out = sofar.out \o @]
      BY <2>6, <2>15 DEF NextElement, f, o
    <3>2. DOMAIN f = FileOutcomes /\ f.hung \in BOOLEAN /\ f.res \in Int /\ f.res >= -EIO
          /\ f.out \in Seq(Nat) /\ f.pos \in Nat
      BY <2>12 DEF FileRead
    <3>3. /\ DOMAIN next = FileOutcomes /\ next.hung = f.hung /\ next.res = f.res
          /\ next.pos = f.pos /\ next.out = sofar.out \o f.out
      BY <3>1, <3>2 DEF FileOutcomes
    <3>4. next.out \in Seq(Nat)
      BY <2>7, <3>2, <3>3 DEF FileRead
    <3>5. FileRead(next)
      BY <3>2, <3>3, <3>4 DEF FileRead
    <3>6. ASSUME inside
          PROVE  ~next.hung /\ next.res = 0 /\ next.out = Stretch(start + pos, i * size)
      <4>1. Delivered(f, start + o, size) /\ (start + o) + size < DiskBytes
        BY <2>12, <2>13, <3>6
      <4>2. ~f.hung /\ f.res = 0 /\ f.out = Stretch(start + o, size)
        BY <4>1 DEF Delivered
      <4>3. sofar.out = Stretch(start + pos, before)
        BY <2>8, <3>6
      <4>4. start + o = (start + pos) + before /\ start + pos \in Nat
        BY <1>2, <2>9, <2>10
      <4>5. Stretch(start + pos, before) \o Stretch((start + pos) + before, size)
              = Stretch(start + pos, before + size)
        <5> DEFINE q == start + pos
        <5>1. q \in Nat /\ before \in Nat /\ size \in Nat
          BY <2>9, <4>4
        <5> HIDE DEF q
        <5>2. \A b \in Nat, c \in Nat :
                Stretch(q, b) \o Stretch(q + b, c) = Stretch(q, b + c)
          BY <5>1, StretchJoin
        <5>3. QED
          BY <5>1, <5>2 DEF q
      <4>6. QED
        BY <2>9, <3>3, <4>2, <4>3, <4>4, <4>5
    <3>7. QED
      BY <2>2, <3>5, <3>6 DEF next
  <2>16. QED
    BY <2>14, <2>15
<1>4. Fits(nmemb)
  <2>1. nmemb \in 0 .. nmemb /\ nmemb \notin T
    BY <1>3
  <2> HIDE DEF Fits
  <2>2. QED
    BY <2>1
<1> DEFINE last == elem[nmemb]
<1>5. r = [last EXCEPT !.res = IF @ < 0 THEN @ ELSE nmemb]
  BY <1>1
<1>6. FileRead(last) /\ (inside => /\ ~last.hung /\ last.res = 0
                                   /\ last.out = Stretch(start + pos, nmemb * size))
  BY <1>4
<1>7. nmemb * size = size * nmemb
  OBVIOUS
<1> HIDE DEF last, inside
<1>8. /\ DOMAIN r = FileOutcomes /\ r.hung = last.hung /\ r.out = last.out /\ r.pos = last.pos
      /\ r.res = IF last.res < 0 THEN last.res ELSE nmemb
  <2> HIDE DEF r
  <2>1. QED
    BY <1>5, <1>6 DEF FileRead, FileOutcomes
<1> HIDE DEF r
<1>9. FileRead(r)
  BY <1>6, <1>8 DEF FileRead, EIO
<1>10. inside => /\ ~r.hung /\ r.res = nmemb /\ r.out = Stretch(start + pos, size * nmemb)
  BY <1>6, <1>7, <1>8
<1>11. QED
  BY <1>9, <1>10 DEF inside, r, ReadsCluster
------------------------------------------------------------------------------
(***************************************************************************)
(* Directories, and the search for an item.                                *)
(***************************************************************************)

\* The count of the items of a directory, as the recursion and one step of it.
CountStep(v, f, p) ==
  LET r == diskstreamer_read(p, ItemSize)
      item == ItemAt(v, r.out[1])
  IN IF r.hung THEN [hung |-> TRUE, total |-> 0]
     ELSE IF item.name = EndOfDirectory THEN [hung |-> FALSE, total |-> 0]
     ELSE [f[r.pos] EXCEPT !.total = IF item.name = Unused THEN @ ELSE @ + 1]

CountCalls(c) == Nat
BytesToEnd(p) == IF p < DiskBytes THEN DiskBytes - p ELSE 0
CountSize(c, p) == BytesToEnd(p)

Counting == INSTANCE Recursion WITH Dom <- CountCalls, Size <- CountSize, Def <- CountStep

\* A read that went well ends nearer to the end of the disk.
LEMMA ReadGoesOn ==
  ASSUME NEW p \in Nat, ~diskstreamer_read(p, ItemSize).hung
  PROVE  /\ diskstreamer_read(p, ItemSize).pos \in Nat
         /\ BytesToEnd(diskstreamer_read(p, ItemSize).pos) < BytesToEnd(p)
<1> DEFINE r == diskstreamer_read(p, ItemSize)
<1>1. ItemSize \in Nat \ {0} /\ DiskBytes \in Nat
  BY Fat16Assumption, DiskStreamAssumption DEF DiskBytes
<1>2. ReadLeaves(r, p, ItemSize)
  BY <1>1, StreamReads
<1> HIDE DEF r
<1>3. r.pos \in Nat /\ (~r.hung => r.pos = p + ItemSize) /\ (p >= DiskBytes => r.hung)
  BY <1>2 DEF ReadLeaves
<1>4. ~r.hung
  BY DEF r
<1>5. BytesToEnd(r.pos) < BytesToEnd(p)
  BY <1>1, <1>3, <1>4 DEF BytesToEnd
<1>6. QED
  BY <1>3, <1>5 DEF r

CountLeaves(r) == DOMAIN r = {"hung", "total"} /\ r.hung \in BOOLEAN /\ r.total \in Nat

\* Item number j of those that start at place p.
Nth(p, j) == p + j * ItemSize
Ends(v, p, j) == ItemAt(v, Nth(p, j)).name = EndOfDirectory

\* Items follow each other.
LEMMA NthOf ==
  ASSUME NEW p \in Nat, NEW j \in Nat
  PROVE  /\ Nth(p, j) \in Nat /\ Nth(p, 0) = p
         /\ Nth(p + ItemSize, j) = Nth(p, j + 1)
         /\ \A k \in Nat : Nth(p, j) < Nth(p, k) <=> j < k
<1>1. ItemSize \in Nat \ {0}
  BY Fat16Assumption
<1>2. j * ItemSize \in Nat /\ (j + 1) * ItemSize = j * ItemSize + ItemSize /\ 0 * ItemSize = 0
  BY <1>1
<1>3. ASSUME NEW k \in Nat PROVE j * ItemSize < k * ItemSize <=> j < k
  <2>1. ASSUME j < k PROVE j * ItemSize < k * ItemSize
    <3>1. PICK d \in Nat \ {0} : k = j + d
      <4>1. k - j \in Nat \ {0} /\ k = j + (k - j)
        BY <2>1
      <4>2. QED
        BY <4>1
    <3>2. k * ItemSize = j * ItemSize + d * ItemSize /\ d * ItemSize \in Nat
      BY <1>1, <3>1
    <3>3. d * ItemSize > 0
      BY <1>1
    <3>4. QED
      BY <1>2, <3>2, <3>3
  <2>2. ASSUME ~(j < k) PROVE ~(j * ItemSize < k * ItemSize)
    <3>1. PICK d \in Nat : j = k + d
      <4>1. j - k \in Nat /\ j = k + (j - k)
        BY <2>2
      <4>2. QED
        BY <4>1
    <3>2. j * ItemSize = k * ItemSize + d * ItemSize /\ d * ItemSize \in Nat /\ k * ItemSize \in Nat
      BY <1>1, <3>1
    <3> DEFINE a == k * ItemSize
               b == d * ItemSize
    <3> HIDE DEF a, b
    <3>3. ~(a + b < a)
      BY <3>2 DEF a, b
    <3>4. QED
      BY <3>2, <3>3 DEF a, b
  <2>3. QED
    BY <2>1, <2>2
<1> DEFINE a == j * ItemSize
           b == (j + 1) * ItemSize
<1>4. a \in Nat /\ b = a + ItemSize
  BY <1>2
<1>5. Nth(p, j) = p + a /\ Nth(p + ItemSize, j) = (p + ItemSize) + a /\ Nth(p, j + 1) = p + b
      /\ Nth(p, 0) = p + 0 * ItemSize
  BY DEF Nth
<1> HIDE DEF a, b
<1>6. Nth(p, j) \in Nat /\ Nth(p, 0) = p /\ Nth(p + ItemSize, j) = Nth(p, j + 1)
  BY <1>1, <1>2, <1>4, <1>5
<1>7. ASSUME NEW k \in Nat PROVE Nth(p, j) < Nth(p, k) <=> j < k
  <2> DEFINE c == k * ItemSize
  <2>1. c \in Nat /\ (a < c <=> j < k)
    BY <1>1, <1>3 DEF a
  <2>2. Nth(p, k) = p + c
    BY DEF Nth
  <2> HIDE DEF c
  <2>3. QED
    BY <1>4, <1>5, <2>1, <2>2
<1>8. QED
  BY <1>6, <1>7

\* The function that counts, and the count that starts at a sector.
Counter(count, v) == count = [p \in Nat |-> CountStep(v, count, p)]

\* There is such a function.
LEMMA CounterOf ==
  ASSUME NEW v
  PROVE  \E count : /\ Counter(count, v)
                    /\ \A sector : fat16_get_total_items_for_directory(v, sector)
                                     = count[fat16_sector_to_absolute(sector)]
<1> DEFINE count == CHOOSE f : f = [p \in Nat |-> CountStep(v, f, p)]
<1>1. count = [p \in Nat |-> CountStep(v, count, p)]
  <2>1. ASSUME NEW p \in Nat, NEW g, NEW h,
               \A q \in Nat : BytesToEnd(q) < BytesToEnd(p) => g[q] = h[q]
        PROVE  CountStep(v, g, p) = CountStep(v, h, p)
    <3> DEFINE r == diskstreamer_read(p, ItemSize)
    <3>1. CASE r.hung
      BY <3>1 DEF CountStep
    <3>2. CASE ~r.hung
      <4>1. r.pos \in Nat /\ BytesToEnd(r.pos) < BytesToEnd(p)
        BY <3>2, ReadGoesOn
      <4>2. g[r.pos] = h[r.pos]
        BY <2>1, <4>1
      <4>3. QED
        BY <4>2 DEF CountStep
    <3>3. QED
      BY <3>1, <3>2
  <2>2. \A p \in Nat : BytesToEnd(p) \in Nat
    BY DiskStreamAssumption DEF BytesToEnd, DiskBytes
  <2>3. Counting!Decreasing(v)
    BY <2>1, <2>2 DEF Counting!Decreasing, CountCalls, CountSize
  <2>4. \E f : f = [p \in CountCalls(v) |-> CountStep(v, f, p)]
    BY <2>3, Counting!RecursionDefines
  <2>5. \E f : f = [p \in Nat |-> CountStep(v, f, p)]
    BY <2>4 DEF CountCalls
  <2>6. QED
    BY <2>5
<1>2. ASSUME NEW sector
      PROVE  fat16_get_total_items_for_directory(v, sector) = count[fat16_sector_to_absolute(sector)]
  BY DEF fat16_get_total_items_for_directory, CountStep
<1> HIDE DEF count
<1>3. QED
  BY <1>1, <1>2 DEF Counter

\* No item of the volume is an unused one.
NoneUnused(v) == \A i \in ItemsOf(v) : i.name # Unused

\* What the count of the items from place p on says: so many items come before the
\* end, at least, and exactly so many if none is unused; and it is found if the
\* disk goes on after the end.
Counted(v, p, c) ==
  /\ CountLeaves(c)
  /\ \A j \in 0 .. c.total - 1 : ~Ends(v, p, j)
  /\ NoneUnused(v) /\ ~c.hung =>
       \A j \in Nat : (\A i \in 0 .. j : ~Ends(v, p, i)) => j < c.total
  /\ \A k \in Nat : Ends(v, p, k) /\ Nth(p, k + 1) < DiskBytes => ~c.hung

\* One item more in front of a count.
LEMMA CountsOneMore ==
  ASSUME NEW v, NEW p \in Nat, NEW f, Counted(v, p + ItemSize, f), ~Ends(v, p, 0),
         NEW c, c.hung = f.hung, DOMAIN c = DOMAIN f,
         c.total = IF ItemAt(v, p).name = Unused THEN f.total ELSE f.total + 1
  PROVE  Counted(v, p, c)
<1>1. ItemSize \in Nat /\ p + ItemSize \in Nat
  BY Fat16Assumption
<1>2. CountLeaves(f) /\ CountLeaves(c) /\ f.total \in Nat /\ c.total \in Nat
  BY DEF Counted, CountLeaves
<1>3. \A j \in Nat : Ends(v, p + ItemSize, j) = Ends(v, p, j + 1)
  BY NthOf DEF Ends
<1>4. ASSUME NEW j \in 0 .. c.total - 1 PROVE ~Ends(v, p, j)
  <2>1. CASE j = 0
    BY <2>1
  <2>2. CASE j # 0
    <3>1. j - 1 \in 0 .. f.total - 1 /\ j - 1 \in Nat /\ (j - 1) + 1 = j
      BY <1>2, <1>4, <2>2
    <3>2. ~Ends(v, p + ItemSize, j - 1)
      BY <3>1 DEF Counted
    <3>3. QED
      BY <1>3, <3>1, <3>2
  <2>3. QED
    BY <2>1, <2>2
<1>5. ASSUME NoneUnused(v), ~c.hung, NEW j \in Nat, \A i \in 0 .. j : ~Ends(v, p, i)
      PROVE  j < c.total
  <2>1. c.total = f.total + 1
    <3>1. ItemAt(v, p) \in ItemsOf(v)
      BY DEF ItemAt, ItemsOf
    <3>2. QED
      BY <1>5, <3>1 DEF NoneUnused
  <2>2. CASE j = 0
    BY <1>2, <2>1, <2>2
  <2>3. CASE j # 0
    <3>1. j - 1 \in Nat /\ \A i \in 0 .. j - 1 : i \in Nat /\ i + 1 \in 0 .. j
      BY <2>3
    <3>2. \A i \in 0 .. j - 1 : ~Ends(v, p + ItemSize, i)
      BY <1>3, <1>5, <3>1
    <3>3. j - 1 < f.total
      BY <1>5, <3>1, <3>2 DEF Counted
    <3>4. QED
      BY <1>2, <2>1, <3>1, <3>3
  <2>4. QED
    BY <2>2, <2>3
<1>6. ASSUME NEW k \in Nat, Ends(v, p, k), Nth(p, k + 1) < DiskBytes PROVE ~c.hung
  <2>1. k # 0 /\ k - 1 \in Nat /\ (k - 1) + 1 = k
    <3>1. k # 0
      BY <1>6
    <3>2. QED
      BY <3>1
  <2>2. Ends(v, p + ItemSize, k - 1)
    BY <1>3, <1>6, <2>1
  <2>3. Nth(p + ItemSize, k) < DiskBytes
    BY <1>6, NthOf
  <2>4. QED
    BY <2>1, <2>2, <2>3 DEF Counted
<1>7. QED
  BY <1>2, <1>4, <1>5, <1>6 DEF Counted

\* The count of the items of a directory.
LEMMA CountsOf ==
  ASSUME NEW v, NEW sector \in Nat
  PROVE  Counted(v, fat16_sector_to_absolute(sector),
                fat16_get_total_items_for_directory(v, sector))
<1>1. PICK count : /\ Counter(count, v)
                   /\ \A s : fat16_get_total_items_for_directory(v, s)
                               = count[fat16_sector_to_absolute(s)]
  BY CounterOf
<1>2. ItemSize \in Nat \ {0} /\ DiskBytes \in Nat
  BY Fat16Assumption, DiskStreamAssumption DEF DiskBytes
<1> DEFINE T == {n \in Nat : \E p \in Nat : BytesToEnd(p) = n /\ ~Counted(v, p, count[p])}
<1>3. T = {}
  <2> SUFFICES ASSUME T # {} PROVE FALSE
    OBVIOUS
  <2>1. PICK n \in T : \A m \in T : n <= m
    BY Numbers!LeastNumber
  <2>2. PICK p \in Nat : BytesToEnd(p) = n /\ ~Counted(v, p, count[p])
    BY <2>1
  <2> DEFINE r == diskstreamer_read(p, ItemSize)
             item == ItemAt(v, r.out[1])
             f == count[r.pos]
             c == count[p]
  <2>3. c = IF r.hung THEN [hung |-> TRUE, total |-> 0]
            ELSE IF item.name = EndOfDirectory THEN [hung |-> FALSE, total |-> 0]
            ELSE [f EXCEPT !.total = IF item.name = Unused THEN @ ELSE @ + 1]
    BY <1>1 DEF Counter, CountStep
  <2>4. ReadLeaves(r, p, ItemSize)
    BY <1>2, StreamReads
  <2>5. ~r.hung => r.pos = p + ItemSize /\ item = ItemAt(v, p) /\ Nth(p, 0) = p
    <3> SUFFICES ASSUME ~r.hung PROVE r.pos = p + ItemSize /\ r.out[1] = p /\ Nth(p, 0) = p
      OBVIOUS
    <3> HIDE DEF r
    <3>1. r.pos = p + ItemSize /\ r.out = Stretch(p, ItemSize)
      BY <2>4 DEF ReadLeaves
    <3>2. 1 \in 1 .. ItemSize /\ p + 1 - 1 = p
      BY <1>2
    <3>3. r.out[1] = p
      BY <3>1, <3>2 DEF Stretch
    <3>4. QED
      BY <3>1, <3>3, NthOf
  <2> HIDE DEF c, item
  <2>6. CASE r.hung
    <3>1. c = [hung |-> TRUE, total |-> 0]
      BY <2>3, <2>6
    <3>2. ASSUME NEW k \in Nat, Nth(p, k + 1) < DiskBytes PROVE FALSE
      <4>1. Nth(p, 1) = p + ItemSize
        BY <1>2 DEF Nth
      <4>2. Nth(p, 1) <= Nth(p, k + 1)
        <5>1. CASE k = 0
          BY <5>1, NthOf
        <5>2. CASE k # 0
          <6>1. 1 < k + 1 /\ k + 1 \in Nat /\ 1 \in Nat
            BY <5>2
          <6>2. Nth(p, 1) < Nth(p, k + 1) /\ Nth(p, 1) \in Nat /\ Nth(p, k + 1) \in Nat
            BY <6>1, NthOf
          <6>3. QED
            BY <6>2
        <5>3. QED
          BY <5>1, <5>2
      <4>3. p + ItemSize < DiskBytes
        <5>1. Nth(p, k + 1) \in Nat
          <6>1. k + 1 \in Nat
            OBVIOUS
          <6>2. QED
            BY <6>1, NthOf
        <5>2. QED
          BY <1>2, <3>2, <4>1, <4>2, <5>1
      <4>4. QED
        BY <2>4, <2>6, <4>3 DEF ReadLeaves
    <3>3. Counted(v, p, c)
      BY <3>1, <3>2 DEF Counted, CountLeaves
    <3>4. QED
      BY <2>2, <3>3 DEF c
  <2>7. CASE ~r.hung /\ item.name = EndOfDirectory
    <3>1. c = [hung |-> FALSE, total |-> 0]
      BY <2>3, <2>7
    <3>2. Ends(v, p, 0)
      BY <2>5, <2>7 DEF Ends
    <3>3. Counted(v, p, c)
      BY <3>1, <3>2 DEF Counted, CountLeaves
    <3>4. QED
      BY <2>2, <3>3 DEF c
  <2>8. CASE ~r.hung /\ item.name # EndOfDirectory
    <3>1. c = [f EXCEPT !.total = IF item.name = Unused THEN @ ELSE @ + 1]
      BY <2>3, <2>8
    <3>2. r.pos \in Nat /\ BytesToEnd(r.pos) < BytesToEnd(p)
      BY <2>8, ReadGoesOn
    <3>3. n \in Nat /\ BytesToEnd(r.pos) \in Nat
      BY <2>1, <3>2, DiskStreamAssumption DEF BytesToEnd, DiskBytes
    <3>4. BytesToEnd(r.pos) \notin T
      <4> HIDE DEF T
      <4>1. QED
        BY <2>1, <2>2, <3>2, <3>3
    <3>5. Counted(v, r.pos, f)
      BY <3>2, <3>3, <3>4
    <3>6. Counted(v, p + ItemSize, f) /\ item = ItemAt(v, p) /\ ~Ends(v, p, 0)
      BY <2>5, <2>8, <3>5 DEF Ends
    <3> HIDE DEF f, r
    <3>7. CountLeaves(f)
      BY <3>6 DEF Counted
    <3>8. c.hung = f.hung /\ c.total = (IF item.name = Unused THEN f.total ELSE f.total + 1)
          /\ DOMAIN c = DOMAIN f
      BY <3>1, <3>7 DEF CountLeaves
    <3>9. Counted(v, p, c)
      BY <3>6, <3>8, CountsOneMore
    <3>10. QED
      BY <2>2, <3>9 DEF c
  <2>9. QED
    BY <2>6, <2>7, <2>8
<1>4. fat16_sector_to_absolute(sector) \in Nat
  BY PlacesOf
<1>5. BytesToEnd(fat16_sector_to_absolute(sector)) \in Nat
  BY <1>4, DiskStreamAssumption DEF BytesToEnd, DiskBytes
<1>6. QED
  BY <1>1, <1>3, <1>4, <1>5

\* The count ends, with a number of items.
LEMMA CountOf ==
  ASSUME NEW v, NEW sector \in Nat
  PROVE  CountLeaves(fat16_get_total_items_for_directory(v, sector))
BY CountsOf DEF Counted

\* The items that can be read from a volume; the rest of a directory's block is
\* zero.
Readable(v) == ItemsOf(v) \cup {ZeroItem}

\* The fields of an item that can be read have their types.
LEMMA ReadableFormatted ==
  ASSUME NEW v, Formatted(v), NEW i \in Readable(v)
  PROVE  /\ i.dir \in BOOLEAN /\ i.cluster \in Nat /\ i.filesize \in Nat
         /\ i # NoItem
<1> DEFINE Members == {"name", "dir", "cluster", "filesize"}
<1>1. /\ ZeroItem.dir \in BOOLEAN /\ ZeroItem.cluster \in Nat /\ ZeroItem.filesize \in Nat
      /\ DOMAIN ZeroItem = Members
  BY DEF ZeroItem
<1>2. \A j \in DirectoryItem : /\ j.dir \in BOOLEAN /\ j.cluster \in Nat /\ j.filesize \in Nat
                              /\ DOMAIN j = Members
  BY DEF DirectoryItem
<1>3. "dir" \in Members /\ DOMAIN NoItem = {"name"} /\ "dir" \notin {"name"}
  BY DEF NoItem
<1>4. DOMAIN i = Members /\ i.dir \in BOOLEAN /\ i.cluster \in Nat /\ i.filesize \in Nat
  BY <1>1, <1>2 DEF Readable, Formatted
<1>5. QED
  BY <1>3, <1>4

\* An entry of a directory is an item of the volume, or zeroes.
LEMMA DirItemReadable ==
  ASSUME NEW v, NEW directory, NEW i
  PROVE  DirItem(v, directory, i) \in Readable(v)
<1>1. \A p : ItemAt(v, p) \in ItemsOf(v)
  BY DEF ItemAt, ItemsOf
<1>2. QED
  BY <1>1 DEF DirItem, Readable

\* What a search leaves.
SearchFields == {"item", "directory", "grown", "pos", "hung", "stray", "broke"}
Search(v, r) ==
  /\ DOMAIN r = SearchFields
  /\ r.item = NoItem \/ r.item \in Readable(v)
  /\ r.pos \in Nat /\ r.hung \in BOOLEAN

\* What was found, or the lack of it, is the result of a search.
LEMMA FoundOf ==
  ASSUME NEW v, NEW item, item = NoItem \/ item \in Readable(v), NEW directory,
         directory.pos \in Nat, directory.hung \in BOOLEAN, NEW grown
  PROVE  Search(v, Found(item, directory, grown))
BY DEF Found, Search, SearchFields

\* A search finds an item that can be read, or none.
LEMMA FindOf ==
  ASSUME NEW v, Formatted(v), NEW stream \in Nat, NEW directory, NEW name
  PROVE  Search(v, fat16_find_item_in_directory(v, stream, directory, name))
<1> DEFINE matches == {i \in 0 .. directory.total - 1 : DirItem(v, directory, i).name = name}
           item == DirItem(v, directory, Max(matches))
           grown == MapThenSumSet(LAMBDA i : ItemBlocks(DirItem(v, directory, i)), matches)
           r == fat16_find_item_in_directory(v, stream, directory, name)
           none == NoDirectory(stream)
           loaded == fat16_load_fat_directory(v, stream, item)
<1>1. none.pos \in Nat /\ none.hung \in BOOLEAN
  BY DEF NoDirectory
<1>2. r = Found(NoItem, none, 0) \/ r = fat16_new_fat_item_for_directory_item(v, stream, item, grown)
  BY DEF fat16_find_item_in_directory
<1>3. item \in Readable(v)
  BY DirItemReadable
<1> HIDE DEF item, grown, none, r
<1>4. fat16_new_fat_item_for_directory_item(v, stream, item, grown)
        = Found(item, IF item.dir THEN loaded ELSE none, grown)
  BY DEF fat16_new_fat_item_for_directory_item, none
<1>5. loaded.pos \in Nat /\ loaded.hung \in BOOLEAN
  <2> DEFINE cluster == fat16_get_first_cluster(item)
             items == fat16_get_total_items_for_directory(v, fat16_cluster_to_sector(cluster))
             read == fat16_read_internal(v, stream, cluster, 0, items.total * ItemSize)
  <2>1. cluster \in Nat
    BY <1>3, ReadableFormatted DEF fat16_get_first_cluster
  <2>2. fat16_cluster_to_sector(cluster) \in Nat
    BY <2>1, PlacesOf
  <2>3. CountLeaves(items)
    BY <2>2, CountOf
  <2>4. loaded = Directory(items, read)
    BY DEF fat16_load_fat_directory
  <2> HIDE DEF items, cluster, loaded
  <2>5. items.total * ItemSize \in Nat
    BY <2>3, Fat16Assumption DEF CountLeaves
  <2>6. FileRead(read)
    <3> DEFINE n == items.total * ItemSize
    <3>1. n \in Nat /\ 0 \in Nat
      BY <2>5
    <3> HIDE DEF n
    <3>2. FileRead(fat16_read_internal(v, stream, cluster, 0, n))
      BY <2>1, <3>1, InternalReads
    <3>3. QED
      BY <3>2 DEF n
  <2> HIDE DEF read
  <2>7. QED
    BY <2>3, <2>4, <2>6 DEF Directory, FileRead, CountLeaves
<1>6. QED
  <2>1. Search(v, Found(NoItem, none, 0))
    BY <1>1, FoundOf
  <2>2. Search(v, Found(item, IF item.dir THEN loaded ELSE none, grown))
    BY <1>1, <1>3, <1>5, FoundOf
  <2>3. QED
    BY <1>2, <1>4, <2>1, <2>2 DEF r

\* The walk along the parts of a path, as the recursion and one step of it.
Onto(here, found, k) ==
  IF here.hung \/ here.broke THEN here
  ELSE IF here.item = NoItem THEN [here EXCEPT !.broke = TRUE, !.stray = @ \/ k > 2]
  ELSE IF ~here.item.dir THEN [here EXCEPT !.broke = TRUE, !.item = NoItem]
  ELSE IF k = 1 THEN found
  ELSE Step(here, found)

Onwards(v, here, part, k) ==
  Onto(here, fat16_find_item_in_directory(v, here.pos, here.directory, part), k)

AtRoot(stream, root) ==
  Found([dir |-> TRUE],
        [NoDirectory(stream) EXCEPT !.hung = root.hung, !.item = root.item,
                                    !.total = root.total], 0)

PartNumbers(c) == 0 .. Len(c.parts)
PartNumber(c, k) == k
PartWalked(c, f, k) ==
  IF k = 0 THEN AtRoot(c.stream, c.root) ELSE Onwards(c.volume, f[k - 1], c.parts[k], k)

Walking == INSTANCE Recursion WITH
  Dom <- PartNumbers, Size <- PartNumber, Def <- PartWalked

\* fat16_get_directory_entry as a sequence of directories, one for each part of the
\* path.
Walk(walk, v, stream, root, parts) ==
  /\ fat16_get_directory_entry(v, stream, root, parts) = walk[Len(parts)]
  /\ walk[0] = AtRoot(stream, root)
  /\ \A k \in 1 .. Len(parts) : walk[k] = Onwards(v, walk[k - 1], parts[k], k)

\* There is such a sequence.
LEMMA WalkOf ==
  ASSUME NEW v, NEW stream, NEW root, NEW parts, Len(parts) \in Nat
  PROVE  \E walk : Walk(walk, v, stream, root, parts)
<1> DEFINE n == Len(parts)
           c == [volume |-> v, stream |-> stream, root |-> root, parts |-> parts]
           Turned(f, k) == IF k = 0 THEN AtRoot(stream, root)
                           ELSE Onwards(v, f[k - 1], parts[k], k)
           walk == CHOOSE f : f = [k \in 0 .. n |-> Turned(f, k)]
<1>1. walk = [k \in 0 .. n |-> Turned(walk, k)]
  <2>1. \A f, k : PartWalked(c, f, k) = Turned(f, k)
    BY DEF PartWalked
  <2>2. PartNumbers(c) = 0 .. n /\ n \in Nat
    BY DEF PartNumbers
  <2> HIDE DEF n
  <2>3. ASSUME NEW k \in 0 .. n, NEW g, NEW h, \A j \in 0 .. n : j < k => g[j] = h[j]
        PROVE  Turned(g, k) = Turned(h, k)
    <3>1. CASE k = 0
      BY <3>1
    <3>2. CASE k # 0
      <4>1. k - 1 \in 0 .. n /\ k - 1 < k
        BY <2>2, <3>2
      <4>2. g[k - 1] = h[k - 1]
        BY <2>3, <4>1
      <4>3. QED
        BY <3>2, <4>2
    <3>3. QED
      BY <3>1, <3>2
  <2> HIDE DEF Turned, c
  <2>4. Walking!Decreasing(c)
    <3>1. \A k \in PartNumbers(c) : PartNumber(c, k) \in Nat
      BY <2>2 DEF PartNumber
    <3>2. ASSUME NEW k \in PartNumbers(c), NEW g, NEW h,
                 \A j \in PartNumbers(c) : PartNumber(c, j) < PartNumber(c, k) => g[j] = h[j]
          PROVE  PartWalked(c, g, k) = PartWalked(c, h, k)
      <4>1. k \in 0 .. n /\ \A j \in 0 .. n : j < k => g[j] = h[j]
        BY <2>2, <3>2 DEF PartNumber
      <4>2. Turned(g, k) = Turned(h, k)
        BY <2>3, <4>1
      <4>3. QED
        BY <2>1, <4>2
    <3>3. QED
      BY <3>1, <3>2 DEF Walking!Decreasing
  <2>5. \E f : f = [k \in PartNumbers(c) |-> PartWalked(c, f, k)]
    BY <2>4, Walking!RecursionDefines
  <2>6. \E f : f = [k \in 0 .. n |-> Turned(f, k)]
    BY <2>1, <2>2, <2>5
  <2>7. QED
    BY <2>6
<1>2. fat16_get_directory_entry(v, stream, root, parts) = walk[n]
  BY DEF fat16_get_directory_entry, Onwards, Onto, AtRoot
<1> HIDE DEF walk
<1>3. walk[0] = AtRoot(stream, root)
  BY <1>1
<1>4. ASSUME NEW k \in 1 .. n PROVE walk[k] = Onwards(v, walk[k - 1], parts[k], k)
  <2>1. k \in 0 .. n /\ k # 0
    OBVIOUS
  <2>2. QED
    BY <1>1, <2>1
<1>5. Walk(walk, v, stream, root, parts)
  BY <1>2, <1>3, <1>4 DEF Walk
<1>6. QED
  BY <1>5

\* The walk leaves an item that can be read, or none.
LEMMA EntryOf ==
  ASSUME NEW v, Formatted(v), NEW stream \in Nat, NEW root, ~root.hung,
         NEW parts, Len(parts) \in Nat \ {0}
  PROVE  Search(v, fat16_get_directory_entry(v, stream, root, parts))
<1> DEFINE n == Len(parts)
<1>0. PICK walk : Walk(walk, v, stream, root, parts)
  BY WalkOf
<1>1. /\ fat16_get_directory_entry(v, stream, root, parts) = walk[n]
      /\ walk[0] = AtRoot(stream, root)
      /\ \A k \in 1 .. n : walk[k] = Onwards(v, walk[k - 1], parts[k], k)
  BY <1>0 DEF Walk
<1>2. n \in Nat \ {0}
  OBVIOUS
<1> HIDE DEF n
<1>3. /\ ~walk[0].hung /\ ~walk[0].broke /\ walk[0].item # NoItem /\ walk[0].item.dir
      /\ walk[0].pos = stream
  <2> DEFINE at == [NoDirectory(stream) EXCEPT !.hung = root.hung, !.item = root.item,
                                               !.total = root.total]
  <2>1. at.hung = root.hung /\ at.pos = stream
    BY DEF NoDirectory
  <2>2. walk[0] = Found([dir |-> TRUE], at, 0)
    BY <1>1 DEF AtRoot
  <2> HIDE DEF at
  <2>3. walk[0].hung = root.hung /\ walk[0].pos = stream /\ walk[0].item = [dir |-> TRUE]
    BY <2>1, <2>2 DEF Found
  <2>4. ~walk[0].broke
    BY <2>2 DEF Found
  <2>5. [dir |-> TRUE] # NoItem
    <3>1. DOMAIN [dir |-> TRUE] = {"dir"} /\ DOMAIN NoItem = {"name"}
      BY DEF NoItem
    <3>2. "dir" \notin {"name"}
      OBVIOUS
    <3>3. QED
      BY <3>1, <3>2
  <2>6. QED
    BY <2>3, <2>4, <2>5
<1> DEFINE T == {k \in 1 .. n : ~Search(v, walk[k])}
<1>4. T = {}
  <2> SUFFICES ASSUME T # {} PROVE FALSE
    OBVIOUS
  <2>1. PICK k \in T : \A j \in T : k <= j
    <3>1. T \subseteq Nat
      OBVIOUS
    <3> HIDE DEF T
    <3>2. QED
      BY <3>1, Numbers!LeastNumber
  <2>2. k \in 1 .. n /\ ~Search(v, walk[k])
    BY <2>1
  <2> DEFINE here == walk[k - 1]
             found == fat16_find_item_in_directory(v, here.pos, here.directory, parts[k])
             next == walk[k]
  <2>3. next = Onto(here, found, k)
    BY <1>1, <2>2 DEF Onwards
  <2>4. CASE k = 1
    <3>1. next = found
      BY <1>3, <2>3, <2>4 DEF Onto
    <3>2. here.pos \in Nat
      BY <1>3, <2>4
    <3>3. Search(v, found)
      BY <3>2, FindOf
    <3>4. QED
      BY <2>2, <3>1, <3>3
  <2>5. CASE k # 1
    <3>1. k - 1 \in 1 .. n /\ k - 1 < k
      BY <1>2, <2>2, <2>5
    <3>2. k - 1 \notin T
      <4> HIDE DEF T
      <4>1. k \in Int /\ \A j \in T : k <= j
        BY <2>1, <2>2
      <4>2. QED
        BY <3>1, <4>1
    <3>3. Search(v, here)
      BY <3>1, <3>2
    <3>4. here.pos \in Nat
      BY <3>3 DEF Search
    <3>5. Search(v, found)
      BY <3>4, FindOf
    <3> DEFINE stray == here.stray \/ k > 2
               grown == here.grown + found.grown - ItemBlocks(here.item)
               lost == here.stray \/ found.stray
    <3>6. \/ next = here
          \/ next = [here EXCEPT !.broke = TRUE, !.stray = stray]
          \/ next = [here EXCEPT !.broke = TRUE, !.item = NoItem]
          \/ next = [found EXCEPT !.grown = grown, !.stray = lost]
      BY <2>3, <2>5 DEF Onto, Step
    <3> HIDE DEF here, found, next, stray, grown, lost
    <3>7. Search(v, next)
      BY <3>3, <3>5, <3>6 DEF Search, SearchFields
    <3>8. QED
      BY <2>2, <3>7 DEF next
  <2>6. QED
    BY <2>4, <2>5
<1>5. n \in 1 .. n /\ n \notin T
  BY <1>2, <1>4
<1>6. QED
  BY <1>1, <1>5

\* The parts of a path, as the recursion and one step of it.
PartStep(path, f, i) ==
  IF i > Len(path) \/ path[i] = "/" THEN <<>> ELSE <<path[i]>> \o f[i + 2]

PartCalls(c) == Nat
TokensLeft(c, i) == IF i <= Len(c) THEN Len(c) + 1 - i ELSE 0
Parts == INSTANCE Recursion WITH Dom <- PartCalls, Size <- TokensLeft, Def <- PartStep

\* The function that takes the parts.
LEMMA PartingOf ==
  ASSUME NEW path \in Seq(STRING)
  PROVE  \E parts : parts = [i \in Nat |-> PartStep(path, parts, i)] /\ PathParts(path) = parts[4]
<1> DEFINE parts == CHOOSE f : f = [i \in Nat |-> PartStep(path, f, i)]
<1>1. Len(path) \in Nat
  OBVIOUS
<1>2. \A i \in Nat : TokensLeft(path, i) \in Nat
  BY <1>1 DEF TokensLeft
<1>3. \A i \in Nat : i <= Len(path) => i + 2 \in Nat /\ TokensLeft(path, i + 2) < TokensLeft(path, i)
  BY <1>1 DEF TokensLeft
<1>4. parts = [i \in Nat |-> PartStep(path, parts, i)]
  <2>1. ASSUME NEW i \in Nat, NEW g, NEW h,
               \A j \in Nat : TokensLeft(path, j) < TokensLeft(path, i) => g[j] = h[j]
        PROVE  PartStep(path, g, i) = PartStep(path, h, i)
    <3>1. CASE i > Len(path)
      BY <3>1 DEF PartStep
    <3>2. CASE ~(i > Len(path))
      <4>1. i <= Len(path)
        BY <1>1, <3>2
      <4>2. g[i + 2] = h[i + 2]
        BY <1>3, <2>1, <4>1
      <4>3. QED
        BY <4>2 DEF PartStep
    <3>3. QED
      BY <3>1, <3>2
  <2>2. Parts!Decreasing(path)
    BY <1>2, <2>1 DEF Parts!Decreasing, PartCalls
  <2>3. \E f : f = [i \in PartCalls(path) |-> PartStep(path, f, i)]
    BY <2>2, Parts!RecursionDefines
  <2>4. \E f : f = [i \in Nat |-> PartStep(path, f, i)]
    BY <2>3 DEF PartCalls
  <2>5. QED
    BY <2>4
<1>5. PathParts(path) = parts[4]
  BY DEF PathParts, PartStep
<1> HIDE DEF parts
<1>6. QED
  BY <1>4, <1>5

\* The parts of a path are a sequence of tokens.
LEMMA PartsOf ==
  ASSUME NEW path \in Seq(STRING)
  PROVE  PathParts(path) \in Seq(STRING)
<1>1. Len(path) \in Nat
  OBVIOUS
<1>2. \A i \in Nat : TokensLeft(path, i) \in Nat
  BY <1>1 DEF TokensLeft
<1>3. \A i \in Nat : i <= Len(path) => i + 2 \in Nat /\ TokensLeft(path, i + 2) < TokensLeft(path, i)
  BY <1>1 DEF TokensLeft
<1>4. PICK parts : parts = [i \in Nat |-> PartStep(path, parts, i)] /\ PathParts(path) = parts[4]
  BY PartingOf
<1> DEFINE T == {m \in Nat : \E i \in Nat \ {0} : TokensLeft(path, i) = m /\ parts[i] \notin Seq(STRING)}
<1>5. T = {}
  <2> SUFFICES ASSUME T # {} PROVE FALSE
    OBVIOUS
  <2>1. PICK m \in T : \A j \in T : m <= j
    BY Numbers!LeastNumber
  <2>2. PICK i \in Nat \ {0} : TokensLeft(path, i) = m /\ parts[i] \notin Seq(STRING)
    BY <2>1
  <2> DEFINE w == parts[i]
             rest == parts[i + 2]
  <2>3. w = IF i > Len(path) \/ path[i] = "/" THEN <<>> ELSE <<path[i]>> \o rest
    BY <1>4 DEF PartStep
  <2> HIDE DEF w, rest
  <2>4. w # <<>>
    <3>1. <<>> \in Seq(STRING)
      OBVIOUS
    <3>2. QED
      BY <2>2, <3>1 DEF w
  <2>5. ~(i > Len(path)) /\ i <= Len(path) /\ w = <<path[i]>> \o rest
    BY <1>1, <2>3, <2>4
  <2>6. i + 2 \in Nat \ {0} /\ TokensLeft(path, i + 2) < m /\ TokensLeft(path, i + 2) \in Nat /\ m \in Nat
    BY <1>2, <1>3, <2>2, <2>5
  <2>7. TokensLeft(path, i + 2) \notin T
    <3> HIDE DEF T
    <3>1. QED
      BY <2>1, <2>6
  <2>8. rest \in Seq(STRING)
    BY <2>6, <2>7 DEF rest
  <2>9. path[i] \in STRING
    BY <2>2, <2>5
  <2>10. QED
    BY <2>2, <2>5, <2>8, <2>9 DEF w
<1>6. 4 \in Nat \ {0} /\ TokensLeft(path, 4) \in Nat
  BY <1>2
<1>7. QED
  BY <1>4, <1>5, <1>6
------------------------------------------------------------------------------
(***************************************************************************)
(* What every call leaves: descriptors of items that can be read.          *)
(***************************************************************************)

Descriptor(d) == d = Closed \/ d \in [item : Readable(volume), pos : 0 .. MaxPos]

Typed(s) ==
  /\ Table(s) /\ s.stream \in Nat
  /\ \A fd \in 1 .. MaxFileDescriptors : Descriptor(s.descriptors[fd])

\* The volume is one the system may be booted from, and its root directory, when
\* there is one, was read.
Mounted == volume \in Volumes /\ (disk.ours => ~disk.root_directory.hung)

\* An answer that leaves such descriptors.
Ready(a) == Answers(a) /\ Typed(a.fs) /\ a.hung \in BOOLEAN

\* The volumes the system is booted from are formatted.
LEMMA VolumeFormatted ==
  ASSUME volume \in Volumes
  PROVE  Formatted(volume)
BY VolumesAssumption DEF Formatted

\* An open that went well has an item that can be read.
LEMMA OpenOf ==
  ASSUME NEW v, Formatted(v), NEW stream \in Nat, NEW root, ~root.hung,
         NEW parts, Len(parts) \in Nat \ {0}, NEW mode, NEW mem
  PROVE  LET o == fat16_open(v, stream, root, parts, mode, mem)
         IN /\ o.hung \in BOOLEAN /\ o.pos \in Nat
            /\ o.res >= 0 => o.item \in Readable(v)
<1> DEFINE o == fat16_open(v, stream, root, parts, mode, mem)
           entry == fat16_get_directory_entry(v, stream, root, parts)
           grown == entry.grown + (IF entry.item = NoItem THEN 0 ELSE 1)
           Failed(err) == [res |-> -err, item |-> NoItem, grown |-> 0, pos |-> stream,
                           hung |-> FALSE, stray |-> FALSE]
<1>1. Search(v, entry)
  BY EntryOf
<1>2. \/ o = Failed(ERDONLY)
      \/ o = Failed(ENOMEM)
      \/ o = [res   |-> IF entry.item = NoItem THEN -EIO ELSE 0,
              item  |-> entry.item, grown |-> grown,
              pos   |-> entry.pos, hung |-> entry.hung, stray |-> entry.stray]
  BY DEF fat16_open
<1> HIDE DEF entry, grown, o
<1>3. ASSUME NEW err \in {ERDONLY, ENOMEM}, o = Failed(err)
      PROVE  o.hung \in BOOLEAN /\ o.pos \in Nat /\ ~(o.res >= 0)
  <2>1. o.hung \in BOOLEAN /\ o.pos \in Nat /\ o.res = -err
    BY <1>3
  <2>2. err \in {6, 3}
    BY DEF ERDONLY, ENOMEM
  <2>3. QED
    BY <2>1, <2>2
<1>4. ASSUME o = [res   |-> IF entry.item = NoItem THEN -EIO ELSE 0,
                  item  |-> entry.item, grown |-> grown,
                  pos   |-> entry.pos, hung |-> entry.hung, stray |-> entry.stray]
      PROVE  o.hung \in BOOLEAN /\ o.pos \in Nat /\ (o.res >= 0 => o.item \in Readable(v))
  <2>1. /\ o.hung = entry.hung /\ o.pos = entry.pos /\ o.item = entry.item
        /\ o.res = IF entry.item = NoItem THEN -EIO ELSE 0
    BY <1>4
  <2>2. o.res >= 0 => entry.item # NoItem
    BY <2>1 DEF EIO
  <2>3. QED
    BY <1>1, <2>1, <2>2 DEF Search
<1>5. QED
  BY <1>2, <1>3, <1>4 DEF o

\* A call that only answers leaves the layer as it was.
LEMMA AnswerReady ==
  ASSUME NEW s, Typed(s), NEW res
  PROVE  Ready(Answer(s, res))
BY DEF Answer, Ready, Answers, Fields, Typed

\* A slot may be filled with a descriptor.
LEMMA SlotTyped ==
  ASSUME NEW s, Typed(s), NEW fd, NEW d, Descriptor(d), NEW t,
         DOMAIN t = {"descriptors", "stream"},
         t.descriptors = [s.descriptors EXCEPT ![fd] = d], t.stream \in Nat
  PROVE  Typed(t)
<1> DEFINE g == [s.descriptors EXCEPT ![fd] = d]
<1>1. Slots(s.descriptors)
  BY DEF Typed, Table
<1>2. /\ Slots(g)
      /\ \A e \in 1 .. MaxFileDescriptors : g[e] = IF e = fd THEN d ELSE s.descriptors[e]
  BY <1>1, SlotsKept
<1> HIDE DEF g
<1>3. \A e \in 1 .. MaxFileDescriptors : Descriptor(g[e])
  BY <1>2 DEF Typed
<1>4. t.descriptors = g
  BY DEF g
<1>5. QED
  BY <1>2, <1>3, <1>4 DEF Typed, Table

\* fopen leaves descriptors of items that can be read.
LEMMA FopenReady ==
  ASSUME Mounted, NEW s, Typed(s), NEW path \in Paths, NEW mode, NEW mem
  PROVE  Ready(fopen(s, path, mode, mem))
<1> DEFINE a == fopen(s, path, mode, mem)
           parsed == pathparser_parse(path)
           fd == file_new_descriptor(s)
           opened == fat16_open(volume, s.stream, disk.root_directory, parsed.parts, mode, mem)
           given == opened.res >= 0 /\ fd # 0
           none == \/ ~parsed.ok
                   \/ parsed.parts = <<>>
                   \/ ~disk_get(parsed.drive)
                   \/ ~disk.ours
                   \/ mode \notin ModeStrings
<1>1. CASE none
  <2> DEFINE g == parsed.blocks
             b == Answer(s, 0)
  <2>1. a = [b EXCEPT !.grown = g]
    BY <1>1 DEF fopen
  <2>2. Ready(b)
    BY AnswerReady
  <2> HIDE DEF a, g, b
  <2>3. Ready(a)
    BY <2>1, <2>2 DEF Ready, Answers, Fields
  <2>4. QED
    BY <2>3 DEF a
<1>2. CASE ~none
  <2> DEFINE g == parsed.blocks + opened.grown + (IF given THEN 1 ELSE 0)
             item == opened.item
             pos == opened.pos
             h == opened.hung
             st == opened.stray
             new == [item |-> item, pos |-> 0]
             table == IF given THEN [s.descriptors EXCEPT ![fd] = new] ELSE s.descriptors
             t == [descriptors |-> table, stream |-> pos]
  <2>1. a = [fs |-> t, res |-> IF given THEN fd ELSE 0,
             grown |-> g, hung |-> h, stray |-> st, out |-> <<>>]
    BY <1>2, Zenon DEF fopen
  <2>2. parsed.parts = PathParts(path) /\ parsed.ok
    BY <1>2 DEF pathparser_parse
  <2>3. Len(parsed.parts) \in Nat \ {0}
    <3>1. path \in Seq(STRING)
      BY FilesAssumption
    <3>2. parsed.parts \in Seq(STRING)
      BY <2>2, <3>1, PartsOf
    <3> DEFINE parts == parsed.parts
    <3>3. parts \in Seq(STRING) /\ parts # <<>>
      BY <1>2, <3>2
    <3> HIDE DEF parts
    <3>4. Len(parts) \in Nat \ {0}
      BY <3>3
    <3>5. QED
      BY <3>4 DEF parts
  <2>4. h \in BOOLEAN /\ pos \in Nat /\ (opened.res >= 0 => item \in Readable(volume))
    <3>1. ~disk.root_directory.hung /\ Formatted(volume) /\ s.stream \in Nat
      BY <1>2, VolumeFormatted DEF Mounted, Typed
    <3>2. QED
      BY <2>3, <3>1, OpenOf
  <2>5. Typed(t)
    <3>1. t.stream = pos /\ DOMAIN t = {"descriptors", "stream"} /\ t.descriptors = table
      OBVIOUS
    <3> HIDE DEF t
    <3>2. CASE given
      <4>1. t.descriptors = [s.descriptors EXCEPT ![fd] = new]
        BY <3>1, <3>2
      <4>2. Descriptor(new)
        <5>1. item \in Readable(volume) /\ 0 \in 0 .. MaxPos
          BY <2>4, <3>2, FilesAssumption
        <5> HIDE DEF item
        <5>2. QED
          BY <5>1 DEF Descriptor
      <4> HIDE DEF new, fd, table, pos
      <4>3. QED
        BY <2>4, <3>1, <4>1, <4>2, SlotTyped
    <3>3. CASE ~given
      <4>1. t.descriptors = s.descriptors
        BY <3>1, <3>3
      <4> HIDE DEF table, pos
      <4>2. QED
        BY <2>4, <3>1, <4>1 DEF Typed, Table
    <3>4. QED
      BY <3>2, <3>3
  <2> HIDE DEF a, t, g, h, st, given, fd
  <2>6. DOMAIN a = Fields /\ a.fs = t /\ a.hung = h
    BY <2>1 DEF Fields
  <2>7. Ready(a)
    BY <2>4, <2>5, <2>6 DEF Ready, Answers, Typed
  <2>8. QED
    BY <2>7 DEF a
<1>3. QED
  BY <1>1, <1>2

\* What file_get_descriptor answers is a descriptor of the table, or none.
LEMMA DescriptorOf ==
  ASSUME NEW s, Typed(s), NEW fd \in Nat
  PROVE  /\ Descriptor(file_get_descriptor(s, fd))
         /\ file_get_descriptor(s, fd) # Closed =>
              fd \in 1 .. MaxFileDescriptors /\ file_get_descriptor(s, fd) = s.descriptors[fd]
<1>1. CASE fd <= 0 \/ fd >= MaxFileDescriptors
  <2>1. file_get_descriptor(s, fd) = Closed
    BY <1>1 DEF file_get_descriptor
  <2>2. QED
    BY <2>1 DEF Descriptor
<1>2. CASE ~(fd <= 0 \/ fd >= MaxFileDescriptors)
  <2>1. file_get_descriptor(s, fd) = s.descriptors[fd]
    BY <1>2 DEF file_get_descriptor
  <2>2. fd \in 1 .. MaxFileDescriptors
    BY <1>2, FilesAssumption
  <2>3. QED
    BY <2>1, <2>2 DEF Typed
<1>3. QED
  BY <1>1, <1>2

\* fstat answers the size of a file.
LEMMA FstatReady ==
  ASSUME Mounted, NEW s, Typed(s), NEW fd \in Nat
  PROVE  LET a == fstat(s, fd)
         IN Ready(a) /\ a.res \in {0, -EIO, -EINVARG} /\ (a.res = 0 => a.out[1] \in Nat)
<1> DEFINE a == fstat(s, fd)
           desc == file_get_descriptor(s, fd)
           stat == fat16_stat(desc.item)
<1>1. CASE desc = Closed
  <2>1. a = Answer(s, -EIO)
    BY <1>1 DEF fstat
  <2>2. Ready(Answer(s, -EIO))
    BY AnswerReady
  <2>3. Answer(s, -EIO).res = -EIO /\ -EIO # 0
    BY DEF Answer, EIO
  <2>4. QED
    BY <2>1, <2>2, <2>3
<1>2. CASE desc # Closed
  <2> DEFINE res == stat.res
             b == Answer(s, res)
             size == stat.filesize
  <2>1. a = [b EXCEPT !.out = <<size>>]
    BY <1>2 DEF fstat
  <2>2. Ready(b)
    BY AnswerReady
  <2>3. desc.item \in Readable(volume)
    BY <1>2, DescriptorOf DEF Descriptor
  <2>4. size \in Nat
    <3>1. desc.item.filesize \in Nat
      BY <2>3, ReadableFormatted, VolumeFormatted DEF Mounted
    <3>2. QED
      BY <3>1 DEF fat16_stat
  <2>5. b.res = res /\ res \in {0, -EINVARG}
    BY DEF Answer, fat16_stat
  <2> HIDE DEF a, b, size, res
  <2>6. Ready(a) /\ a.out = <<size>> /\ a.res = res
    BY <2>1, <2>2, <2>5 DEF Ready, Answers, Fields
  <2>7. QED
    BY <2>4, <2>5, <2>6 DEF a
<1>3. QED
  BY <1>1, <1>2

\* The cluster where a read of an item starts.
LEMMA ReadItemOf ==
  ASSUME Mounted, NEW item \in Readable(volume)
  PROVE  /\ fat16_get_first_cluster(ReadItem(item)) \in Nat
         /\ ReadItem(item) \in Readable(volume)
<1>1. ReadItem(item) \in Readable(volume)
  BY DEF ReadItem, Readable
<1>2. ReadItem(item).cluster \in Nat
  BY <1>1, ReadableFormatted, VolumeFormatted DEF Mounted
<1>3. QED
  BY <1>1, <1>2 DEF fat16_get_first_cluster

\* fread leaves the descriptors as they were, and the stream at a place.
LEMMA FreadReady ==
  ASSUME Mounted, NEW s, Typed(s), NEW fd \in Nat, NEW size \in Nat, NEW nmemb \in Nat
  PROVE  LET a == fread(s, size, nmemb, fd)
         IN Ready(a) /\ a.res \in Int /\ a.res >= -EINVARG /\ a.out \in Seq(Nat)
<1> DEFINE desc == file_get_descriptor(s, fd)
           r == fat16_read(volume, s.stream, desc.item, desc.pos, size, nmemb)
           a == fread(s, size, nmemb, fd)
           refused == size = 0 \/ nmemb = 0 \/ fd < 1 \/ desc = Closed
<1>1. CASE refused
  <2>1. a = Answer(s, -EINVARG)
    BY <1>1 DEF fread
  <2>2. Ready(Answer(s, -EINVARG))
    BY AnswerReady
  <2>3. a.out = <<>> /\ <<>> \in Seq(Nat) /\ a.res \in Int /\ a.res >= -EINVARG
    BY <2>1 DEF Answer, EINVARG
  <2>4. Ready(a)
    BY <2>1, <2>2
  <2> HIDE DEF a
  <2>5. Ready(a) /\ a.res \in Int /\ a.res >= -EINVARG /\ a.out \in Seq(Nat)
    BY <2>3, <2>4
  <2>6. QED
    BY <2>5 DEF a
<1>2. CASE ~refused
  <2>1. a = [fs |-> [s EXCEPT !.stream = r.pos], res |-> r.res, grown |-> 0,
             hung |-> r.hung, stray |-> FALSE, out |-> r.out]
    BY <1>2 DEF fread
  <2>2. desc.item \in Readable(volume) /\ desc.pos \in 0 .. MaxPos
    BY <1>2, DescriptorOf DEF Descriptor
  <2>3. FileRead(r)
    <3> DEFINE cluster == fat16_get_first_cluster(ReadItem(desc.item))
    <3>1. cluster \in Nat
      BY <2>2, ReadItemOf
    <3>2. desc.pos \in Nat /\ s.stream \in Nat /\ Formatted(volume)
      BY <2>2, FilesAssumption, VolumeFormatted DEF Typed, Mounted
    <3> HIDE DEF desc
    <3>3. QED
      BY <3>1, <3>2, FileReads
  <2> HIDE DEF r, a
  <2>4. DOMAIN a = Fields /\ a.fs = [s EXCEPT !.stream = r.pos] /\ a.out = r.out /\ a.res = r.res
    BY <2>1 DEF Fields
  <2>5. a.hung \in BOOLEAN
    BY <2>1, <2>3 DEF FileRead
  <2>6. Typed(a.fs)
    BY <2>3, <2>4 DEF Typed, Table, FileRead
  <2>7. a.res >= -EINVARG
    BY <2>3, <2>4 DEF FileRead, EIO, EINVARG
  <2>8. Ready(a) /\ a.res \in Int /\ a.out \in Seq(Nat)
    BY <2>3, <2>4, <2>5, <2>6 DEF Ready, Answers, Typed, FileRead
  <2>9. QED
    BY <2>7, <2>8 DEF a
<1>3. QED
  BY <1>1, <1>2

\* fclose leaves descriptors of items that can be read.
LEMMA FcloseReady ==
  ASSUME NEW s, Typed(s), NEW fd
  PROVE  Ready(fclose(s, fd))
<1> DEFINE desc == file_get_descriptor(s, fd)
           a == fclose(s, fd)
           res == fat16_close(desc.item).res
           g == fat16_close(desc.item).grown - 1
           t == [s EXCEPT !.descriptors[fd] = Closed]
           b == Answer(t, res)
<1>1. a = IF desc = Closed THEN Answer(s, -EIO) ELSE [b EXCEPT !.grown = g]
  BY DEF fclose
<1>2. Typed(t)
  <2> DEFINE slots == [s.descriptors EXCEPT ![fd] = Closed]
  <2>1. DOMAIN t = {"descriptors", "stream"} /\ t.descriptors = slots /\ t.stream = s.stream
    BY DEF Typed, Table
  <2>2. Descriptor(Closed) /\ s.stream \in Nat
    BY DEF Descriptor, Typed
  <2> HIDE DEF t
  <2>3. QED
    BY <2>1, <2>2, SlotTyped
<1> HIDE DEF t
<1>3. Ready(b) /\ Ready(Answer(s, -EIO))
  BY <1>2, AnswerReady
<1> HIDE DEF b, g, a
<1>4. Ready(a)
  BY <1>1, <1>3 DEF Ready, Answers, Fields
<1>5. QED
  BY <1>4 DEF a

\* A seek leaves such descriptors when the position it leads to is in bounds.
LEMMA FseekReady ==
  ASSUME NEW s, Typed(s), NEW fd \in Nat, NEW offset \in Nat, NEW whence,
         \A d \in 1 .. MaxFileDescriptors :
           fseek(s, fd, offset, whence).fs.descriptors[d].pos <= MaxPos
  PROVE  Ready(fseek(s, fd, offset, whence))
<1> DEFINE desc == file_get_descriptor(s, fd)
           sought == fat16_seek(desc.item, desc.pos, offset, whence)
           a == fseek(s, fd, offset, whence)
           res == sought.res
           pos == sought.pos
           new == [s EXCEPT !.descriptors[fd].pos = pos]
<1>1. CASE desc = Closed
  <2>1. a = Answer(s, -EIO)
    BY <1>1 DEF fseek
  <2>2. QED
    BY <2>1, AnswerReady
<1>2. CASE desc # Closed
  <2>1. a = Answer(new, res)
    BY <1>2 DEF fseek
  <2>2. /\ fd \in 1 .. MaxFileDescriptors /\ desc = s.descriptors[fd]
        /\ desc \in [item : Readable(volume), pos : 0 .. MaxPos]
    BY <1>2, DescriptorOf DEF Descriptor
  <2>3. pos \in Nat
    <3>1. pos \in {desc.pos, offset, desc.pos + offset}
      BY DEF fat16_seek
    <3>2. desc.pos \in Nat
      BY <2>2, FilesAssumption
    <3> HIDE DEF pos, desc
    <3>3. QED
      BY <3>1, <3>2
  <2> DEFINE moved == [s.descriptors[fd] EXCEPT !.pos = pos]
             slots == [s.descriptors EXCEPT ![fd] = moved]
  <2>4. /\ DOMAIN new = {"descriptors", "stream"} /\ new.descriptors = slots
        /\ new.stream = s.stream
    BY DEF Typed, Table
  <2>5. /\ pos <= MaxPos => moved \in [item : Readable(volume), pos : 0 .. MaxPos]
        /\ moved.pos = pos
    <3>1. pos <= MaxPos => pos \in 0 .. MaxPos
      BY <2>3, FilesAssumption
    <3> HIDE DEF pos
    <3>2. QED
      BY <2>2, <3>1
  <2> HIDE DEF new, res, pos, moved, desc
  <2>6. a.fs = new
    BY <2>1 DEF Answer
  <2>7. slots[fd] = moved
    BY <2>2 DEF Typed, Table, Slots
  <2>8. moved.pos <= MaxPos
    BY <2>2, <2>4, <2>6, <2>7
  <2>9. Descriptor(moved)
    BY <2>5, <2>8 DEF Descriptor
  <2>10. Typed(new)
    <3>1. s.stream \in Nat
      BY DEF Typed
    <3> HIDE DEF slots
    <3>2. new.descriptors = [s.descriptors EXCEPT ![fd] = moved] /\ new.stream \in Nat
      BY <2>4, <3>1 DEF slots
    <3>3. QED
      BY <2>4, <2>9, <3>2, SlotTyped
  <2>11. QED
    BY <2>1, <2>10, AnswerReady
<1>3. QED
  BY <1>1, <1>2

\* One call after another answers what the second does.
LEMMA AfterReady ==
  ASSUME NEW a, NEW b, Ready(b)
  PROVE  /\ Ready(After(a, b)) /\ After(a, b).res = b.res /\ After(a, b).out = b.out
BY AfterOf DEF Ready

\* What a load leaves: the bytes of a program when it went well.
Program(a) == Ready(a) /\ (~a.hung /\ a.res >= 0 => a.out \in Seq(Nat))

\* A load that ends by closing its file.
LEMMA ClosingReady ==
  ASSUME NEW a, Ready(a), NEW fd, NEW res, NEW grown, NEW out,
         (res < 0 /\ res \in Int) \/ out \in Seq(Nat)
  PROVE  LET c == [After(a, fclose(a.fs, fd)) EXCEPT !.res = res, !.grown = grown, !.out = out]
         IN Program(c) /\ Program([c EXCEPT !.stray = TRUE])
<1> DEFINE b == After(a, fclose(a.fs, fd))
           c == [b EXCEPT !.res = res, !.grown = grown, !.out = out]
<1>1. Ready(b)
  BY FcloseReady, AfterReady DEF Ready
<1> HIDE DEF b
<1>2. DOMAIN b = Fields
  BY <1>1 DEF Ready, Answers
<1>3. DOMAIN c = Fields /\ c.res = res /\ c.out = out /\ c.fs = b.fs /\ c.hung = b.hung
  BY <1>2 DEF Fields
<1> HIDE DEF c
<1>4. ASSUME NEW d, DOMAIN d = Fields, d.res = res, d.out = out, d.fs = b.fs, d.hung = b.hung
      PROVE  Program(d)
  <2>1. Ready(d)
    BY <1>1, <1>4 DEF Ready, Answers
  <2>2. d.res >= 0 => d.out \in Seq(Nat)
    BY <1>4
  <2>3. QED
    BY <2>1, <2>2 DEF Program
<1>5. Program(c)
  BY <1>3, <1>4
<1>6. Program([c EXCEPT !.stray = TRUE])
  <2> DEFINE d == [c EXCEPT !.stray = TRUE]
  <2>1. DOMAIN d = Fields /\ d.res = c.res /\ d.out = c.out /\ d.fs = c.fs /\ d.hung = c.hung
    BY <1>3 DEF Fields
  <2> HIDE DEF d
  <2>2. Program(d)
    BY <1>3, <1>4, <2>1
  <2>3. QED
    BY <2>2 DEF d
<1>7. QED
  BY <1>5, <1>6 DEF b, c

\* Either kind of load leaves the layer ready, whichever of its steps fails.
LEMMA LoadReady ==
  ASSUME Mounted, NEW s, Typed(s), NEW path \in Paths, NEW mem
  PROVE  Program(elf_load(s, path, mem)) /\ Program(process_load_binary(s, path, mem))
<1> DEFINE opened == fopen(s, path, "r", mem)
           fd == opened.res
           stat == After(opened, fstat(opened.fs, fd))
           read == After(stat, fread(stat.fs, stat.out[1], 1, fd))
           Done(a, res, blocks) ==
             LET c == After(a, fclose(a.fs, fd))
             IN [c EXCEPT !.res = res, !.grown = c.grown + blocks, !.out = a.out]
           valid == elf_validate_loaded(ProgramAt(read.out[1]))
           elf == elf_load(s, path, mem)
           binary == process_load_binary(s, path, mem)
<1>1. elf = IF opened.hung THEN opened
            ELSE IF opened.res <= 0 THEN Done(opened, -EIO, 1)
            ELSE IF stat.res < 0 THEN Done(stat, stat.res, 1)
            ELSE IF read.hung THEN read
            ELSE IF read.res < 0 THEN Done(read, read.res, 2)
            ELSE IF ~valid THEN Done(read, -EINFORMAT, 2)
            ELSE Done(read, 0, 2)
  BY DEF elf_load
<1>2. binary = IF opened.hung THEN opened
               ELSE IF opened.res = 0 THEN [Done(opened, -EIO, 0) EXCEPT !.stray = TRUE]
               ELSE IF stat.res # 0 THEN [Done(stat, stat.res, 0) EXCEPT !.stray = TRUE]
               ELSE IF read.hung THEN read
               ELSE IF read.res # 1 THEN Done(read, -EIO, 0)
               ELSE Done(read, 0, 1)
  BY DEF process_load_binary
<1>3. Ready(opened) /\ fd \in Nat
  BY FopenReady, FopenSince DEF Typed
<1> HIDE DEF opened, fd
<1>4. /\ Ready(stat) /\ stat.res \in {0, -EIO, -EINVARG}
      /\ stat.res = 0 => stat.out[1] \in Nat
  <2> DEFINE b == fstat(opened.fs, fd)
  <2>1. Ready(b) /\ b.res \in {0, -EIO, -EINVARG} /\ (b.res = 0 => b.out[1] \in Nat)
    BY <1>3, FstatReady DEF Ready
  <2> HIDE DEF b
  <2>2. Ready(After(opened, b)) /\ After(opened, b).res = b.res /\ After(opened, b).out = b.out
    BY <2>1, AfterReady
  <2>3. QED
    BY <2>1, <2>2 DEF b
<1>5. stat.res \in Int /\ (stat.res # 0 => stat.res < 0) /\ -EIO < 0 /\ -EINFORMAT < 0
      /\ -EIO \in Int /\ -EINFORMAT \in Int
  BY <1>4 DEF EIO, EINVARG, EINFORMAT
<1> HIDE DEF stat
<1>6. ASSUME stat.res = 0 PROVE Ready(read) /\ read.res \in Int /\ read.out \in Seq(Nat)
  <2> DEFINE size == stat.out[1]
             b == fread(stat.fs, size, 1, fd)
  <2>1. Ready(b) /\ b.res \in Int /\ b.out \in Seq(Nat)
    <3>1. Typed(stat.fs) /\ size \in Nat
      BY <1>4, <1>6 DEF Ready
    <3> HIDE DEF size
    <3>2. \A n \in Nat : LET c == fread(stat.fs, size, n, fd)
                         IN Ready(c) /\ c.res \in Int /\ c.out \in Seq(Nat)
      BY <1>3, <3>1, FreadReady
    <3>3. 1 \in Nat
      OBVIOUS
    <3>4. QED
      BY <3>2, <3>3, Zenon
  <2> HIDE DEF b
  <2>2. Ready(After(stat, b)) /\ After(stat, b).res = b.res /\ After(stat, b).out = b.out
    BY <2>1, AfterReady
  <2>3. QED
    BY <2>1, <2>2 DEF b
<1> HIDE DEF read
<1>7. ASSUME NEW a, Ready(a), NEW res, NEW blocks, (res < 0 /\ res \in Int) \/ a.out \in Seq(Nat)
      PROVE  /\ Program(Done(a, res, blocks))
             /\ Program([Done(a, res, blocks) EXCEPT !.stray = TRUE])
  BY <1>7, ClosingReady
<1>8. ASSUME NEW a, Ready(a), a.hung PROVE Program(a)
  BY <1>8 DEF Program
<1> HIDE DEF Done, valid, elf, binary
<1>9. Program(elf)
  <2>1. CASE opened.hung \/ opened.res <= 0 \/ stat.res < 0
    BY <1>1, <1>3, <1>4, <1>5, <1>7, <1>8, <2>1
  <2>2. CASE ~(opened.hung \/ opened.res <= 0 \/ stat.res < 0)
    <3>1. Ready(read) /\ read.res \in Int /\ read.out \in Seq(Nat)
      BY <1>5, <1>6, <2>2
    <3>2. elf = IF read.hung THEN read
                ELSE IF read.res < 0 THEN Done(read, read.res, 2)
                ELSE IF ~valid THEN Done(read, -EINFORMAT, 2)
                ELSE Done(read, 0, 2)
      BY <1>1, <2>2
    <3>3. QED
      BY <1>7, <1>8, <3>1, <3>2
  <2>3. QED
    BY <2>1, <2>2
<1>10. Program(binary)
  <2>1. CASE opened.hung \/ opened.res = 0 \/ stat.res # 0
    BY <1>2, <1>3, <1>4, <1>5, <1>7, <1>8, <2>1
  <2>2. CASE ~(opened.hung \/ opened.res = 0 \/ stat.res # 0)
    <3>1. Ready(read) /\ read.res \in Int /\ read.out \in Seq(Nat)
      BY <1>6, <2>2
    <3>2. binary = IF read.hung THEN read
                   ELSE IF read.res # 1 THEN Done(read, -EIO, 0)
                   ELSE Done(read, 0, 1)
      BY <1>2, <2>2
    <3>3. QED
      BY <1>7, <1>8, <3>1, <3>2
  <2>3. QED
    BY <2>1, <2>2
<1>11. QED
  BY <1>9, <1>10 DEF elf, binary

\* process_load_data leaves the layer ready, be it one load or two.
LEMMA ProgramReady ==
  ASSUME Mounted, NEW s, Typed(s), NEW path \in Paths, NEW mem, NEW again
  PROVE  Program(process_load_data(s, path, mem, again))
<1> DEFINE elf == elf_load(s, path, mem)
           binary == process_load_binary(elf.fs, path, again)
           a == process_load_data(s, path, mem, again)
<1>1. a = IF elf.hung \/ elf.res # -EINFORMAT THEN elf ELSE After(elf, binary)
  BY DEF process_load_data
<1>2. Program(elf)
  BY LoadReady
<1>3. Typed(elf.fs)
  BY <1>2 DEF Program, Ready
<1> HIDE DEF elf
<1>4. Program(binary)
  BY <1>3, LoadReady
<1> HIDE DEF binary, a
<1>5. Program(After(elf, binary))
  <2>1. Ready(binary) /\ Answers(binary)
    BY <1>4 DEF Program, Ready
  <2>2. /\ Ready(After(elf, binary)) /\ After(elf, binary).res = binary.res
        /\ After(elf, binary).out = binary.out /\ After(elf, binary).hung = binary.hung
    BY <2>1, AfterReady, AfterOf
  <2>3. QED
    BY <1>4, <2>2 DEF Program
<1>6. Program(a)
  BY <1>1, <1>2, <1>5
<1>7. QED
  BY <1>6 DEF a

\* The inductive invariant: descriptors of items that can be read, and a root
\* directory that was read before anything is opened.
LoadingInv ==
  /\ volume \in Volumes /\ hung \in BOOLEAN
  /\ Typed(fs)
  /\ disk \in {Unseen, fat16_resolve(volume)}
  /\ ~hung /\ disk.ours => ~disk.root_directory.hung

\* A call that returns keeps it.
LEMMA ReturnedKeeps ==
  ASSUME LoadingInv, Mounted, NEW a, Ready(a), Returned(a)
  PROVE  LoadingInv'
<1>1. /\ fs' = a.fs /\ hung' = a.hung /\ volume' = volume /\ disk' = disk
  BY DEF Returned
<1>2. Typed(a.fs) /\ a.hung \in BOOLEAN
  BY DEF Ready
<1>3. Typed(fs)'
  <2>1. Table(fs') /\ fs'.stream \in Nat
    BY <1>1, <1>2 DEF Typed
  <2>2. \A fd \in 1 .. MaxFileDescriptors : Descriptor(fs'.descriptors[fd])
    BY <1>1, <1>2 DEF Typed
  <2>3. ASSUME NEW d, Descriptor(d)
        PROVE  d = Closed \/ d \in [item : Readable(volume'), pos : 0 .. MaxPos]
    BY <1>1, <2>3 DEF Descriptor
  <2>4. Table(fs)'
    BY <2>1 DEF Table, Slots
  <2>5. QED
    BY <2>1, <2>2, <2>3, <2>4 DEF Typed, Descriptor
<1>4. QED
  BY <1>1, <1>2, <1>3 DEF LoadingInv, Mounted

\* The invariant holds in every state.
LEMMA LoadingInvariance == Spec => []LoadingInv
<1>1. Init => LoadingInv
  <2> SUFFICES ASSUME Init PROVE LoadingInv
    OBVIOUS
  <2> DEFINE closed == [fd \in 1 .. MaxFileDescriptors |-> Closed]
  <2>1. Slots(closed) /\ \A fd \in 1 .. MaxFileDescriptors : closed[fd] = Closed
    BY DEF Slots
  <2> HIDE DEF closed
  <2>2. fs = [descriptors |-> closed, stream |-> 0]
    BY DEF Init, closed
  <2>3. Typed(fs)
    BY <2>1, <2>2 DEF Typed, Table, Descriptor
  <2>4. volume \in Volumes /\ hung \in BOOLEAN /\ ~disk.ours
    BY DEF Init, Unseen
  <2>5. disk = Unseen
    BY DEF Init
  <2>6. QED
    BY <2>3, <2>4, <2>5 DEF LoadingInv
<1>2. LoadingInv /\ [Next]_vars => LoadingInv'
  <2> SUFFICES ASSUME LoadingInv, [Next]_vars PROVE LoadingInv'
    OBVIOUS
  <2>1. CASE UNCHANGED vars
    BY <2>1 DEF vars, LoadingInv, Typed, Table, Slots, Descriptor
  <2>2. CASE disk_search_and_init
    <3> DEFINE root == fat16_get_root_directory(volume)
    <3>1. /\ disk' = fat16_resolve(volume) /\ hung' = disk'.hung
          /\ volume' = volume /\ fs' = fs
      BY <2>2 DEF disk_search_and_init
    <3>2. Typed(fs)'
      BY <3>1 DEF LoadingInv, Typed, Table, Slots, Descriptor
    <3>3. root.hung \in BOOLEAN
      BY DEF fat16_get_root_directory
    <3> HIDE DEF root
    <3>4. hung' \in BOOLEAN /\ (~hung' /\ disk'.ours => ~disk'.root_directory.hung)
      <4>1. CASE volume.signature
        <5>1. disk' = [ours |-> TRUE, hung |-> root.hung, seen |-> TRUE, root_directory |-> root]
          BY <3>1, <4>1 DEF fat16_resolve, root
        <5>2. disk'.hung = root.hung /\ disk'.root_directory = root
          BY <5>1
        <5>3. QED
          BY <3>1, <3>3, <5>2
      <4>2. CASE ~volume.signature
        <5>1. disk' = [ours |-> FALSE, hung |-> FALSE, seen |-> TRUE]
          BY <3>1, <4>2 DEF fat16_resolve
        <5>2. ~disk'.ours /\ disk'.hung \in BOOLEAN
          BY <5>1
        <5>3. QED
          BY <3>1, <5>2
      <4>3. QED
        BY <4>1, <4>2
    <3>5. QED
      BY <3>1, <3>2, <3>4 DEF LoadingInv
  <2>3. CASE Running /\ Call
    <3>1. Mounted /\ Typed(fs)
      BY <2>3 DEF LoadingInv, Mounted, Running
    <3>2. \A fd \in Fds : fd \in Nat
      BY FilesAssumption DEF Fds
    <3>3. ASSUME NEW path \in Paths, NEW mode, NEW mem, Open(path, mode, mem) PROVE LoadingInv'
      BY <3>1, <3>3, FopenReady, ReturnedKeeps DEF Open
    <3>4. ASSUME NEW fd \in Fds, Stat(fd) PROVE LoadingInv'
      BY <3>1, <3>2, <3>4, FstatReady, ReturnedKeeps DEF Stat
    <3>5. ASSUME NEW fd \in Fds, Close(fd) PROVE LoadingInv'
      BY <3>1, <3>5, FcloseReady, ReturnedKeeps DEF Close
    <3>6. ASSUME NEW fd \in Fds, NEW offset \in Offsets, NEW whence, Seek(fd, offset, whence)
          PROVE  LoadingInv'
      <4> DEFINE a == fseek(fs, fd, offset, whence)
      <4>1. Returned(a) /\ \A d \in 1 .. MaxFileDescriptors : fs'.descriptors[d].pos <= MaxPos
        BY <3>6 DEF Seek
      <4>2. fs' = a.fs /\ fd \in Nat /\ offset \in Nat
        BY <3>2, <4>1, FilesAssumption DEF Returned
      <4>3. Ready(a)
        BY <3>1, <4>1, <4>2, FseekReady
      <4> HIDE DEF a
      <4>4. QED
        BY <3>1, <4>1, <4>3, ReturnedKeeps
    <3>7. ASSUME NEW fd \in Fds, NEW size \in Sizes, NEW nmemb \in Counts, Read(fd, size, nmemb)
          PROVE  LoadingInv'
      <4> DEFINE a == fread(fs, size, nmemb, fd)
      <4>1. fd \in Nat /\ size \in Nat /\ nmemb \in Nat
        BY <3>2, FilesAssumption
      <4>2. Ready(a)
        BY <3>1, <4>1, FreadReady
      <4>3. Returned(a)
        BY <3>7 DEF Read
      <4> HIDE DEF a
      <4>4. QED
        BY <3>1, <4>2, <4>3, ReturnedKeeps
    <3>8. ASSUME NEW path \in Paths, NEW mem, NEW again, Load(path, mem, again) PROVE LoadingInv'
      BY <3>1, <3>8, ProgramReady, ReturnedKeeps DEF Load, Program
    <3>9. QED
      BY <2>3, <3>3, <3>4, <3>5, <3>6, <3>7, <3>8 DEF Call
  <2>4. QED
    BY <2>1, <2>2, <2>3 DEF Next
<1>3. QED
  BY <1>1, <1>2, PTL DEF Spec

\* Whatever is opened, read, sought, closed and loaded, and wherever a call fails
\* or hangs, the descriptors hold items of the volume at positions in bounds, and
\* the stream stands at a place.
THEOREM LoadingTypeCorrect == Spec => []TypeOK
<1>1. LoadingInv => TypeOK
  <2> SUFFICES ASSUME LoadingInv PROVE TypeOK
    OBVIOUS
  <2>1. /\ Typed(fs) /\ volume \in Volumes /\ hung \in BOOLEAN
    BY DEF LoadingInv
  <2>2. ASSUME NEW d, Descriptor(d) PROVE d \in [item : Items, pos : 0 .. MaxPos]
    <3>1. 0 \in 0 .. MaxPos
      BY FilesAssumption
    <3>2. NoItem \in Items /\ Readable(volume) \subseteq Items
      BY DEF Items, Readable
    <3> HIDE DEF Items, Readable
    <3>3. Closed \in [item : Items, pos : 0 .. MaxPos]
      BY <3>1, <3>2 DEF Closed
    <3>4. QED
      BY <2>2, <3>2, <3>3 DEF Descriptor
  <2>3. fs.descriptors \in [1 .. MaxFileDescriptors -> [item : Items, pos : 0 .. MaxPos]]
    <3> DEFINE S == [item : Items, pos : 0 .. MaxPos]
    <3>1. \A fd \in 1 .. MaxFileDescriptors : fs.descriptors[fd] \in S
      BY <2>1, <2>2 DEF Typed
    <3> HIDE DEF S
    <3>2. QED
      BY <2>1, <3>1 DEF Typed, Table, Slots, S
  <2>4. QED
    BY <2>1, <2>3 DEF TypeOK, Typed
<1>2. QED
  BY <1>1, LoadingInvariance, PTL
------------------------------------------------------------------------------
(***************************************************************************)
(* A read delivers the bytes of its file.                                  *)
(***************************************************************************)

\* The chain that a volume means, as the recursion and one step of it.
ChainStep(cluster, chain, k) ==
  IF k = 0 THEN cluster
  ELSE WordAt(volume, ReservedSectors * SectorSize + chain[k - 1] * FatEntrySize)
ChainNumbers(c) == Nat
ChainNumber(c, k) == k

Chaining == INSTANCE Recursion WITH
  Dom <- ChainNumbers, Size <- ChainNumber, Def <- ChainStep

\* In the first cluster, the bytes of a file follow the beginning of the cluster.
LEMMA FirstFileByte ==
  ASSUME NEW cluster, NEW o \in Nat, o < ClusterBytes
  PROVE  FileByte(cluster, o) = ClusterPlace(cluster) + o
<1> DEFINE chain == CHOOSE f : f = [k \in Nat |-> ChainStep(cluster, f, k)]
<1>1. chain = [k \in Nat |-> ChainStep(cluster, chain, k)]
  <2>1. ASSUME NEW k \in Nat, NEW g, NEW h, \A j \in Nat : j < k => g[j] = h[j]
        PROVE  ChainStep(cluster, g, k) = ChainStep(cluster, h, k)
    <3>1. CASE k = 0
      BY <3>1 DEF ChainStep
    <3>2. CASE k # 0
      <4>1. k - 1 \in Nat /\ k - 1 < k
        BY <3>2
      <4>2. g[k - 1] = h[k - 1]
        BY <2>1, <4>1
      <4>3. QED
        BY <4>2 DEF ChainStep
    <3>3. QED
      BY <3>1, <3>2
  <2>2. Chaining!Decreasing(cluster)
    BY <2>1 DEF Chaining!Decreasing, ChainNumbers, ChainNumber
  <2>3. \E f : f = [k \in ChainNumbers(cluster) |-> ChainStep(cluster, f, k)]
    BY <2>2, Chaining!RecursionDefines
  <2>4. \E f : f = [k \in Nat |-> ChainStep(cluster, f, k)]
    BY <2>3 DEF ChainNumbers
  <2>5. QED
    BY <2>4
<1>2. FileByte(cluster, o) = ClusterPlace(chain[o \div ClusterBytes]) + (o % ClusterBytes)
  BY DEF FileByte, ChainStep
<1> HIDE DEF chain
<1>3. chain[0] = cluster
  BY <1>1 DEF ChainStep
<1>4. o \div ClusterBytes = 0 /\ o % ClusterBytes = o
  BY PlacesOf
<1>5. QED
  BY <1>2, <1>3, <1>4

\* fread through the descriptor of a file delivers the bytes of the file from the
\* position of the descriptor on, if they lie in the first cluster.
LEMMA FreadDelivers ==
  ASSUME FilesOnDisk, Mounted, NEW s, Typed(s), NEW fd \in Nat,
         file_get_descriptor(s, fd) # Closed, ~file_get_descriptor(s, fd).item.dir,
         NEW size \in Nat \ {0}, NEW nmemb \in Nat \ {0},
         s.descriptors[fd].pos + size * nmemb <= ClusterBytes
  PROVE  LET desc == s.descriptors[fd]
             a == fread(s, size, nmemb, fd)
         IN /\ ~a.hung /\ a.res = nmemb
            /\ a.out = FileBytes(desc.item, desc.pos, size * nmemb)
<1> DEFINE desc == s.descriptors[fd]
           item == desc.item
           pos == desc.pos
           cluster == item.cluster
           start == ClusterPlace(cluster)
           n == size * nmemb
           r == fat16_read(volume, s.stream, item, pos, size, nmemb)
           a == fread(s, size, nmemb, fd)
<1>1. /\ Mounted /\ Typed(s) /\ s.stream \in Nat /\ Formatted(volume)
  BY VolumeFormatted DEF Mounted, Typed
<1>2. /\ fd \in Nat /\ fd \in 1 .. MaxFileDescriptors
      /\ file_get_descriptor(s, fd) = desc /\ desc # Closed /\ ~item.dir
  BY <1>1, DescriptorOf
<1>3. /\ size \in Nat /\ size # 0 /\ nmemb \in Nat /\ nmemb # 0 /\ n \in Nat
      /\ fd >= 1 /\ ClusterBytes \in Nat /\ DiskBytes \in Nat
  BY <1>2, FilesAssumption, PlacesOf, DiskStreamAssumption DEF DiskBytes
<1>4. desc \in [item : Readable(volume), pos : 0 .. MaxPos]
  BY <1>1, <1>2 DEF Typed, Descriptor
<1>5. item \in Readable(volume) /\ pos \in 0 .. MaxPos
  <2> HIDE DEF desc
  <2>1. QED
    BY <1>4
<1>6. pos \in Nat /\ cluster \in Nat /\ fat16_get_first_cluster(ReadItem(item)) = cluster
  BY <1>1, <1>2, <1>5, ReadableFormatted, FilesAssumption DEF ReadItem, fat16_get_first_cluster
<1>7. start = ClusterStart(cluster) /\ start \in Nat
  <2>1. start = ClusterStart(cluster)
    BY DEF ClusterPlace, ClusterStart, fat16_sector_to_absolute, fat16_cluster_to_sector
  <2>2. QED
    BY <1>6, <2>1, PlacesOf
<1>8. start + ClusterBytes < DiskBytes
  BY <1>1, <1>5 DEF FilesOnDisk, Readable, Mounted, DiskBytes
<1>9. a = [fs |-> [s EXCEPT !.stream = r.pos], res |-> r.res, grown |-> 0,
           hung |-> r.hung, stray |-> FALSE, out |-> r.out]
  <2>1. ~(size = 0 \/ nmemb = 0 \/ fd < 1 \/ file_get_descriptor(s, fd) = Closed)
    BY <1>2, <1>3
  <2>2. a = [fs |-> [s EXCEPT !.stream = fat16_read(volume, s.stream,
                       file_get_descriptor(s, fd).item, file_get_descriptor(s, fd).pos,
                       size, nmemb).pos],
             res |-> fat16_read(volume, s.stream, file_get_descriptor(s, fd).item,
                       file_get_descriptor(s, fd).pos, size, nmemb).res,
             grown |-> 0,
             hung |-> fat16_read(volume, s.stream, file_get_descriptor(s, fd).item,
                        file_get_descriptor(s, fd).pos, size, nmemb).hung,
             stray |-> FALSE,
             out |-> fat16_read(volume, s.stream, file_get_descriptor(s, fd).item,
                       file_get_descriptor(s, fd).pos, size, nmemb).out]
    BY <2>1, Zenon DEF fread
  <2>3. QED
    BY <1>2, <2>2
<1> HIDE DEF desc, item, pos, cluster, start, r, a, n
<1>10. pos + n <= ClusterBytes
  BY DEF pos, n, desc
<1>11. ~r.hung /\ r.res = nmemb /\ r.out = Stretch(start + pos, n)
  <2>1. ReadsCluster(r, cluster, pos, size, nmemb)
    BY <1>1, <1>3, <1>6, FileReads DEF r
  <2>2. pos + size * nmemb <= ClusterBytes
    BY <1>10 DEF n
  <2>3. ClusterStart(cluster) + ClusterBytes < DiskBytes
    BY <1>7, <1>8
  <2>4. ~r.hung /\ r.res = nmemb /\ r.out = Stretch(ClusterStart(cluster) + pos, size * nmemb)
    BY <1>3, <2>1, <2>2, <2>3 DEF ReadsCluster
  <2>5. QED
    BY <1>7, <2>4 DEF n
<1>12. Stretch(start + pos, n) = FileBytes(item, pos, n)
  <2>1. ASSUME NEW i \in 1 .. n PROVE (start + pos) + i - 1 = FileByte(cluster, pos + i - 1)
    <3>1. pos + i - 1 \in Nat /\ pos + i - 1 < ClusterBytes
      BY <1>3, <1>6, <1>10
    <3>2. FileByte(cluster, pos + i - 1) = start + (pos + i - 1)
      BY <3>1, FirstFileByte DEF start
    <3>3. QED
      BY <1>3, <1>6, <1>7, <3>2
  <2>2. FileBytes(item, pos, n) = [i \in 1 .. n |-> FileByte(cluster, pos + i - 1)]
    BY DEF FileBytes, cluster
  <2>3. Stretch(start + pos, n) = [i \in 1 .. n |-> (start + pos) + i - 1]
    BY DEF Stretch
  <2>4. QED
    BY <2>1, <2>2, <2>3
<1>13. ~a.hung /\ a.res = nmemb /\ a.out = FileBytes(item, pos, n)
  BY <1>9, <1>11, <1>12
<1>14. QED
  BY <1>13 DEF a, item, pos, n, desc

\* A read through the descriptor of a file delivers the bytes of the file from the
\* position of the descriptor on, however many elements it is asked for, whatever
\* was read before and wherever the sectors begin, as long as it ends in the first
\* cluster of the file.
THEOREM ReadsAreOfTheFile ==
  ASSUME FilesOnDisk
  PROVE  Spec => []ReadsTheFile
<1>1. LoadingInv => ReadsTheFile
  <2> SUFFICES ASSUME LoadingInv, Running, NEW fd \in OpenFiles,
                      NEW size \in Sizes \ {0}, NEW nmemb \in Counts \ {0},
                      fs.descriptors[fd].pos + size * nmemb <= ClusterBytes
               PROVE  LET desc == fs.descriptors[fd]
                          a == fread(fs, size, nmemb, fd)
                      IN /\ ~a.hung /\ a.res = nmemb
                         /\ a.out = FileBytes(desc.item, desc.pos, size * nmemb)
    BY DEF ReadsTheFile
  <2>1. Mounted /\ Typed(fs)
    BY DEF LoadingInv, Mounted, Running
  <2>2. /\ fd \in Nat /\ file_get_descriptor(fs, fd) # Closed
        /\ ~file_get_descriptor(fs, fd).item.dir
    BY FilesAssumption DEF OpenFiles, Fds
  <2>3. size \in Nat \ {0} /\ nmemb \in Nat \ {0}
    BY FilesAssumption
  <2>4. QED
    BY <2>1, <2>2, <2>3, FreadDelivers
<1>2. QED
  BY <1>1, LoadingInvariance, PTL
------------------------------------------------------------------------------
(***************************************************************************)
(* The pages of a program.                                                 *)
(***************************************************************************)

\* A place is a page and an offset in the page, in one way.
LEMMA PageOf ==
  ASSUME NEW a \in Nat
  PROVE  /\ a \div PageSize \in Nat /\ a % PageSize \in 0 .. PageSize - 1
         /\ a = PageSize * (a \div PageSize) + (a % PageSize)
BY LoadingAssumption

\* A page and an offset in it are found again from the place.
LEMMA PageUnique ==
  ASSUME NEW m \in Nat, NEW t \in 0 .. PageSize - 1
  PROVE  (PageSize * m + t) \div PageSize = m /\ (PageSize * m + t) % PageSize = t
BY LoadingAssumption

\* The pages before the page where a place would be the first byte are the ones
\* that begin before that place.
LEMMA AlignOf ==
  ASSUME NEW a \in Nat
  PROVE  /\ paging_align_to_lower_page(a) \div PageSize = a \div PageSize
         /\ paging_align_address(a) \div PageSize \in Nat
         /\ paging_align_address(a) \div PageSize = (a + PageSize - 1) \div PageSize
         /\ \A m \in Nat : m < paging_align_address(a) \div PageSize <=> m * PageSize < a
<1> DEFINE q == a \div PageSize
           t == a % PageSize
           e == paging_align_address(a) \div PageSize
<1>1. PageSize \in Nat \ {0}
  BY LoadingAssumption
<1>2. q \in Nat /\ t \in 0 .. PageSize - 1 /\ a = PageSize * q + t
  BY PageOf
<1>3. paging_align_to_lower_page(a) = a - t
  BY DEF paging_align_to_lower_page
<1>4. paging_align_address(a) = IF t # 0 THEN a + PageSize - t ELSE a
  BY DEF paging_align_address
<1> HIDE DEF q, t
<1>5. a - t = PageSize * q + 0 /\ a + PageSize - t = PageSize * (q + 1) + 0
  BY <1>1, <1>2
<1>6. 0 \in 0 .. PageSize - 1 /\ q + 1 \in Nat
  BY <1>1, <1>2
<1>7. (PageSize * q + 0) \div PageSize = q /\ (PageSize * (q + 1) + 0) \div PageSize = q + 1
  BY <1>2, <1>6, PageUnique
<1>8. (a - t) \div PageSize = q /\ (a + PageSize - t) \div PageSize = q + 1
  BY <1>5, <1>7
<1>9. e = IF t # 0 THEN q + 1 ELSE q
  <2>1. t = 0 => a - t = a
    BY <1>2
  <2>2. QED
    BY <1>4, <1>8, <2>1
<1>10. ASSUME NEW m \in Nat PROVE m < e <=> m * PageSize < a
  <2> DEFINE x == PageSize * q
             y == PageSize * m
  <2>1. x \in Nat /\ y \in Nat /\ m * PageSize = y
    BY <1>1, <1>2
  <2>2. m <= q => y <= x
    BY <1>1, <1>2
  <2>3. m >= q + 1 => y >= x + PageSize
    BY <1>1, <1>2
  <2>4. m >= q => y >= x
    BY <1>1, <1>2
  <2>5. m < q => y + PageSize <= x
    BY <1>1, <1>2
  <2>6. a = x + t
    BY <1>2
  <2> HIDE DEF x, y, e
  <2>7. CASE t # 0
    BY <1>1, <1>2, <1>9, <2>1, <2>2, <2>3, <2>6, <2>7
  <2>8. CASE t = 0
    BY <1>1, <1>2, <1>9, <2>1, <2>4, <2>5, <2>6, <2>8
  <2>9. QED
    BY <2>7, <2>8
<1>11. e \in Nat
  BY <1>2, <1>9
<1>12. e = (a + PageSize - 1) \div PageSize
  <2>1. CASE t # 0
    <3> DEFINE x == PageSize * q
               y == PageSize * (q + 1)
    <3>1. x \in Nat /\ y = x + PageSize /\ a = x + t
      BY <1>1, <1>2
    <3> HIDE DEF x, y
    <3>2. a + PageSize - 1 = y + (t - 1) /\ t - 1 \in 0 .. PageSize - 1
      BY <1>1, <1>2, <2>1, <3>1
    <3>3. (y + (t - 1)) \div PageSize = q + 1
      BY <1>6, <3>2, PageUnique DEF y
    <3> HIDE DEF e
    <3>4. QED
      BY <1>9, <2>1, <3>2, <3>3
  <2>2. CASE t = 0
    <3>1. a + PageSize - 1 = PageSize * q + (PageSize - 1) /\ PageSize - 1 \in 0 .. PageSize - 1
      BY <1>1, <1>2, <2>2
    <3>2. (PageSize * q + (PageSize - 1)) \div PageSize = q
      BY <1>2, <3>1, PageUnique
    <3> HIDE DEF e
    <3>3. QED
      BY <1>9, <2>2, <3>1, <3>2
  <2>3. QED
    BY <2>1, <2>2
<1>13. QED
  BY <1>3, <1>8, <1>10, <1>11, <1>12 DEF e, q, t

\* The pages that are mapped for a header, and what they are mapped to.
FirstPage(h) == h.vaddr \div PageSize
FilePage(h) == h.offset \div PageSize
EndPage(h) == paging_align_address(h.offset + h.memsz) \div PageSize

\* A header maps the pages of its memory to the pages of the file, in order.
LEMMA MapToOf ==
  ASSUME NEW map, NEW h \in Header
  PROVE  /\ FirstPage(h) \in Nat /\ FilePage(h) \in Nat /\ EndPage(h) \in Nat
         /\ PagesMapped(h) = FirstPage(h) .. FirstPage(h) + (EndPage(h) - FilePage(h)) - 1
         /\ MapTo(map, h) =
              [v \in DOMAIN map \cup PagesMapped(h) |->
                 IF v \in PagesMapped(h) THEN FilePage(h) + (v - FirstPage(h)) ELSE map[v]]
<1> DEFINE virt == paging_align_to_lower_page(h.vaddr) \div PageSize
           phys == paging_align_to_lower_page(h.offset) \div PageSize
           end == paging_align_address(h.offset + h.memsz) \div PageSize
           range == virt .. virt + (end - phys) - 1
<1>1. h.vaddr \in Nat /\ h.offset \in Nat /\ h.memsz \in Nat /\ h.offset + h.memsz \in Nat
  BY DEF Header
<1>2. virt = FirstPage(h) /\ phys = FilePage(h) /\ end = EndPage(h)
  BY <1>1, AlignOf DEF FirstPage, FilePage, EndPage
<1>3. FirstPage(h) \in Nat /\ FilePage(h) \in Nat /\ EndPage(h) \in Nat
  <2>1. FirstPage(h) \in Nat /\ FilePage(h) \in Nat
    BY <1>1, PageOf DEF FirstPage, FilePage
  <2>2. EndPage(h) \in Nat
    BY <1>1, AlignOf DEF EndPage
  <2>3. QED
    BY <2>1, <2>2
<1>4. ASSUME NEW m
      PROVE  MapTo(m, h) = [v \in DOMAIN m \cup range |->
                              IF v \in range THEN phys + (v - virt) ELSE m[v]]
  BY DEF MapTo
<1> HIDE DEF virt, phys, end
<1>5. PagesMapped(h) = range
  <2>1. EndPage(h) = (h.offset + h.memsz + PageSize - 1) \div PageSize
    BY <1>1, AlignOf DEF EndPage
  <2>2. PagesMapped(h) = FirstPage(h) .. FirstPage(h) + (EndPage(h) - FilePage(h)) - 1
    BY <2>1 DEF PagesMapped, FirstPage, FilePage
  <2>3. QED
    BY <1>2, <2>2
<1>6. range = FirstPage(h) .. FirstPage(h) + (EndPage(h) - FilePage(h)) - 1
  BY <1>2
<1> HIDE DEF range
<1>7. QED
  BY <1>2, <1>3, <1>4, <1>5, <1>6

\* The same page by page.
LEMMA MapToAt ==
  ASSUME NEW map, NEW h \in Header
  PROVE  /\ DOMAIN MapTo(map, h) = DOMAIN map \cup PagesMapped(h)
         /\ \A v \in DOMAIN map \cup PagesMapped(h) :
              MapTo(map, h)[v] = IF v \in PagesMapped(h) THEN FilePage(h) + (v - FirstPage(h))
                                                         ELSE map[v]
<1> DEFINE new == MapTo(map, h)
           mine == PagesMapped(h)
           all == DOMAIN map \cup mine
<1>1. new = [v \in all |-> IF v \in mine THEN FilePage(h) + (v - FirstPage(h)) ELSE map[v]]
  BY MapToOf
<1> HIDE DEF new, mine, all
<1>2. /\ DOMAIN new = all
      /\ \A v \in all : new[v] = IF v \in mine THEN FilePage(h) + (v - FirstPage(h)) ELSE map[v]
  BY <1>1
<1>3. QED
  BY <1>2 DEF new, mine, all

\* The pages of a program, as the recursion and one step of it.
HeaderNumbers(c) == 0 .. Len(c)
HeaderNumber(c, k) == k
HeaderMapped(c, map, k) == IF k = 0 THEN [v \in {} |-> 0] ELSE MapTo(map[k - 1], c[k])

Mapping == INSTANCE Recursion WITH
  Dom <- HeaderNumbers, Size <- HeaderNumber, Def <- HeaderMapped

\* process_map_elf as a sequence of maps, one for each header.
LEMMA MapsOf ==
  ASSUME NEW phdrs, Len(phdrs) \in Nat
  PROVE  \E map : /\ process_map_elf(phdrs) = map[Len(phdrs)]
                  /\ map[0] = [v \in {} |-> 0]
                  /\ \A k \in 1 .. Len(phdrs) : map[k] = MapTo(map[k - 1], phdrs[k])
<1> DEFINE n == Len(phdrs)
           map == CHOOSE f : f = [k \in 0 .. n |-> HeaderMapped(phdrs, f, k)]
<1>1. map = [k \in 0 .. n |-> HeaderMapped(phdrs, map, k)]
  <2>1. HeaderNumbers(phdrs) = 0 .. n /\ n \in Nat
    BY DEF HeaderNumbers
  <2> HIDE DEF n
  <2>2. ASSUME NEW k \in 0 .. n, NEW g, NEW h, \A j \in 0 .. n : j < k => g[j] = h[j]
        PROVE  HeaderMapped(phdrs, g, k) = HeaderMapped(phdrs, h, k)
    <3>1. CASE k = 0
      BY <3>1 DEF HeaderMapped
    <3>2. CASE k # 0
      <4>1. k - 1 \in 0 .. n /\ k - 1 < k
        BY <2>1, <3>2
      <4>2. g[k - 1] = h[k - 1]
        BY <2>2, <4>1
      <4>3. QED
        BY <4>2 DEF HeaderMapped
    <3>3. QED
      BY <3>1, <3>2
  <2>3. \A k \in 0 .. n : k \in Nat
    BY <2>1
  <2>4. Mapping!Decreasing(phdrs)
    BY <2>1, <2>2, <2>3 DEF Mapping!Decreasing, HeaderNumber
  <2>5. \E f : f = [k \in HeaderNumbers(phdrs) |-> HeaderMapped(phdrs, f, k)]
    BY <2>4, Mapping!RecursionDefines
  <2>6. \E f : f = [k \in 0 .. n |-> HeaderMapped(phdrs, f, k)]
    BY <2>1, <2>5
  <2>7. QED
    BY <2>6
<1>2. process_map_elf(phdrs) = map[n]
  BY DEF process_map_elf, HeaderMapped
<1> HIDE DEF map
<1>3. map[0] = [v \in {} |-> 0]
  BY <1>1 DEF HeaderMapped
<1>4. ASSUME NEW k \in 1 .. n PROVE map[k] = MapTo(map[k - 1], phdrs[k])
  <2>1. k \in 0 .. n /\ k # 0
    OBVIOUS
  <2>2. map[k] = HeaderMapped(phdrs, map, k)
    BY <1>1, <2>1
  <2>3. QED
    BY <2>1, <2>2 DEF HeaderMapped
<1>5. QED
  BY <1>2, <1>3, <1>4

\* A page mapped for the headers up to number k is a page of the file that begins
\* before the end of one of them.
LEMMA MapsBelow ==
  ASSUME NEW phdrs \in Seq(Header), NEW size \in Nat,
         \A k \in DOMAIN phdrs : phdrs[k].offset + phdrs[k].memsz <= size
  PROVE  LET map == process_map_elf(phdrs)
         IN \A v \in DOMAIN map : map[v] * PageSize < size
<1> DEFINE n == Len(phdrs)
<1>1. n \in Nat /\ DOMAIN phdrs = 1 .. n
  OBVIOUS
<1>2. PICK map : /\ process_map_elf(phdrs) = map[n]
                 /\ map[0] = [v \in {} |-> 0]
                 /\ \A k \in 1 .. n : map[k] = MapTo(map[k - 1], phdrs[k])
  BY <1>1, MapsOf
<1> HIDE DEF n
<1> DEFINE Below(m) == \A v \in DOMAIN m : m[v] * PageSize < size
           T == {k \in 0 .. n : ~Below(map[k])}
<1>3. T = {}
  <2> SUFFICES ASSUME T # {} PROVE FALSE
    OBVIOUS
  <2>1. PICK k \in T : \A j \in T : k <= j
    <3>1. T \subseteq Nat
      BY <1>1
    <3> HIDE DEF T
    <3>2. QED
      BY <3>1, Numbers!LeastNumber
  <2>2. k \in 0 .. n /\ ~Below(map[k])
    BY <2>1
  <2>3. k # 0
    BY <1>2, <2>2
  <2>4. k \in 1 .. n /\ k - 1 \in 0 .. n /\ k - 1 < k /\ k \in Int
    BY <1>1, <2>2, <2>3
  <2>5. Below(map[k - 1])
    <3>1. k - 1 \notin T
      <4> HIDE DEF T
      <4>1. QED
        BY <2>1, <2>4
    <3> HIDE DEF Below
    <3>2. QED
      BY <2>4, <3>1
  <2> DEFINE h == phdrs[k]
             new == map[k]
             old == map[k - 1]
  <2>6. h \in Header /\ h.offset + h.memsz <= size
    BY <1>1, <2>4
  <2> HIDE DEF h, new, old
  <2>7. /\ FirstPage(h) \in Nat /\ FilePage(h) \in Nat /\ EndPage(h) \in Nat
        /\ PagesMapped(h) = FirstPage(h) .. FirstPage(h) + (EndPage(h) - FilePage(h)) - 1
    BY <2>6, MapToOf
  <2>8. /\ DOMAIN new = DOMAIN old \cup PagesMapped(h)
        /\ \A v \in DOMAIN old \cup PagesMapped(h) :
             new[v] = IF v \in PagesMapped(h) THEN FilePage(h) + (v - FirstPage(h)) ELSE old[v]
    <3>1. new = MapTo(old, h)
      BY <1>2, <2>4 DEF h, new, old
    <3>2. QED
      BY <2>6, <3>1, MapToAt
  <2>9. ASSUME NEW v \in DOMAIN new PROVE new[v] * PageSize < size
    <3>1. CASE v \in PagesMapped(h)
      <4> DEFINE m == FilePage(h) + (v - FirstPage(h))
      <4>1. new[v] = m
        BY <2>8, <3>1
      <4>2. m \in Nat /\ m < EndPage(h)
        BY <2>7, <3>1
      <4> HIDE DEF m
      <4>3. h.offset + h.memsz \in Nat
        BY <2>6 DEF Header
      <4>4. m * PageSize < h.offset + h.memsz
        BY <4>2, <4>3, AlignOf DEF EndPage
      <4>5. m * PageSize \in Nat
        BY <4>2, LoadingAssumption
      <4> DEFINE x == m * PageSize
                 y == h.offset + h.memsz
      <4> HIDE DEF x, y
      <4>6. x < size
        BY <2>6, <4>3, <4>4, <4>5 DEF x, y
      <4>7. QED
        BY <4>1, <4>6 DEF x
    <3>2. CASE v \notin PagesMapped(h)
      <4>1. v \in DOMAIN old /\ new[v] = old[v]
        BY <2>8, <3>2
      <4>2. QED
        BY <2>5, <4>1 DEF old
    <3>3. QED
      BY <3>1, <3>2
  <2>10. QED
    BY <2>2, <2>9 DEF new
<1>4. n \in 0 .. n /\ n \notin T
  BY <1>1, <1>3
<1> HIDE DEF T
<1>5. Below(map[n])
  <2> HIDE DEF Below
  <2>1. QED
    BY <1>1, <1>3, <1>4 DEF T
<1>6. QED
  BY <1>2, <1>5

\* The programs that are loaded: bytes, and headers of the volume.
LEMMA ImagesOf ==
  ASSUME LoadingInv, Running, NEW img \in LoadedElfs
  PROVE  /\ img.bytes \in Seq(Nat)
         /\ img.map = process_map_elf(img.phdrs)
         /\ \E p \in DOMAIN volume.program : /\ volume.program[p].signature
                                             /\ img.phdrs = volume.program[p].phdrs
<1>1. PICK r \in Loaded : img = Image(r.a) /\ Image(r.a).type = "elf"
  BY DEF LoadedElfs
<1> DEFINE a == r.a
<1>2. PICK path \in Paths : a = process_load_data(fs, path, TRUE, TRUE) /\ ~a.hung /\ a.res >= 0
  <2>1. r \in {[path |-> p, a |-> process_load_data(fs, p, TRUE, TRUE)] : p \in Paths}
        /\ ~r.a.hung /\ r.a.res >= 0
    BY DEF Loaded
  <2>2. PICK p \in Paths : r = [path |-> p, a |-> process_load_data(fs, p, TRUE, TRUE)]
    BY <2>1
  <2> DEFINE b == process_load_data(fs, p, TRUE, TRUE)
  <2> HIDE DEF b
  <2>3. r = [path |-> p, a |-> b]
    BY <2>2 DEF b
  <2>4. a = b
    BY <2>3
  <2>5. QED
    BY <2>1, <2>4 DEF b
<1>3. Program(a)
  <2>1. Mounted /\ Typed(fs)
    BY DEF LoadingInv, Mounted, Running
  <2>2. \A mem, again : Program(process_load_data(fs, path, mem, again))
    BY <2>1, ProgramReady
  <2>3. QED
    BY <1>2, <2>2, Zenon
<1> DEFINE header == ProgramAt(a.out[1])
           bytes == a.out
           phdrs == header.phdrs
           span == elf_process_pheaders(phdrs)
           map == process_map_elf(phdrs)
<1>4. elf_validate_loaded(header)
      /\ img = [type |-> "elf", bytes |-> bytes, phdrs |-> phdrs, span |-> span, map |-> map]
  <2>1. \/ img = NoImage
        \/ img = [type |-> "binary", bytes |-> bytes]
        \/ /\ elf_validate_loaded(header)
           /\ img = [type |-> "elf", bytes |-> bytes, phdrs |-> phdrs, span |-> span, map |-> map]
    BY <1>1 DEF Image
  <2> HIDE DEF bytes, phdrs, span, map
  <2>2. img.type = "elf"
    BY <1>1
  <2>3. NoImage.type = "none" /\ [type |-> "binary", bytes |-> bytes].type = "binary"
    BY DEF NoImage
  <2>4. QED
    BY <2>1, <2>2, <2>3
<1>5. a.out[1] \in DOMAIN volume.program /\ header = volume.program[a.out[1]]
  <2>1. header.signature
    BY <1>4 DEF elf_validate_loaded
  <2>2. ~[signature |-> FALSE].signature
    OBVIOUS
  <2>3. QED
    BY <2>1, <2>2 DEF ProgramAt
<1>6. bytes \in Seq(Nat)
  BY <1>2, <1>3 DEF Program
<1>7. img.bytes = bytes /\ img.phdrs = phdrs /\ img.map = map
  <2> HIDE DEF bytes, phdrs, span, map
  <2>1. QED
    BY <1>4
<1>8. header.signature
  BY <1>4 DEF elf_validate_loaded
<1>9. QED
  BY <1>5, <1>6, <1>7, <1>8

\* The pages mapped for a program are pages of the block that holds its file, as
\* long as every header's memory lies in what the file has.
THEOREM MapsOwnPages == Spec => []OwnPages
<1>1. LoadingInv => OwnPages
  <2> SUFFICES ASSUME LoadingInv, Running, NEW img \in LoadedElfs,
                      \A k \in DOMAIN img.phdrs :
                        img.phdrs[k].offset + img.phdrs[k].memsz <= Len(img.bytes)
               PROVE  \A v \in DOMAIN img.map : img.map[v] * PageSize < Len(img.bytes)
    BY DEF OwnPages
  <2>1. /\ img.bytes \in Seq(Nat) /\ img.map = process_map_elf(img.phdrs)
        /\ \E p \in DOMAIN volume.program : /\ volume.program[p].signature
                                            /\ img.phdrs = volume.program[p].phdrs
    BY ImagesOf
  <2>2. img.phdrs \in Seq(Header)
    BY <2>1, HeadersAssumption DEF LoadingInv
  <2>3. Len(img.bytes) \in Nat
    <3> DEFINE bytes == img.bytes
    <3>1. bytes \in Seq(Nat)
      BY <2>1
    <3> HIDE DEF bytes
    <3>2. Len(bytes) \in Nat
      BY <3>1
    <3>3. QED
      BY <3>2 DEF bytes
  <2>4. QED
    BY <2>1, <2>2, <2>3, MapsBelow
<1>2. QED
  BY <1>1, LoadingInvariance, PTL

\* The pages of a header stay mapped to its pages of the file, when no later header
\* is mapped over them.
LEMMA MapsKept ==
  ASSUME NEW phdrs \in Seq(Header), NEW k \in DOMAIN phdrs,
         \A l \in DOMAIN phdrs :
           l > k => PagesMapped(phdrs[k]) \cap PagesMapped(phdrs[l]) = {},
         NEW w \in PagesMapped(phdrs[k])
  PROVE  LET map == process_map_elf(phdrs)
             h   == phdrs[k]
         IN w \in DOMAIN map /\ map[w] = FilePage(h) + (w - FirstPage(h))
<1> DEFINE n == Len(phdrs)
           h == phdrs[k]
           page == FilePage(h) + (w - FirstPage(h))
<1>1. n \in Nat /\ DOMAIN phdrs = 1 .. n
  OBVIOUS
<1>2. PICK map : /\ process_map_elf(phdrs) = map[n]
                 /\ map[0] = [v \in {} |-> 0]
                 /\ \A j \in 1 .. n : map[j] = MapTo(map[j - 1], phdrs[j])
  BY <1>1, MapsOf
<1>3. k \in 1 .. n /\ k \in Nat /\ h \in Header
  BY <1>1
<1> HIDE DEF n, h, page
<1> DEFINE Kept(m) == w \in DOMAIN m /\ m[w] = page
           T == {j \in k .. n : ~Kept(map[j])}
<1>4. Kept(map[k])
  <2> DEFINE old == map[k - 1]
  <2>1. map[k] = MapTo(old, h)
    BY <1>2, <1>3 DEF h
  <2>2. w \in PagesMapped(h)
    BY DEF h
  <2> HIDE DEF old
  <2>3. /\ DOMAIN MapTo(old, h) = DOMAIN old \cup PagesMapped(h)
        /\ \A v \in DOMAIN old \cup PagesMapped(h) :
             MapTo(old, h)[v] = IF v \in PagesMapped(h) THEN FilePage(h) + (v - FirstPage(h))
                                                        ELSE old[v]
    BY <1>3, MapToAt
  <2>4. w \in DOMAIN MapTo(old, h) /\ MapTo(old, h)[w] = FilePage(h) + (w - FirstPage(h))
    BY <2>2, <2>3
  <2>5. QED
    BY <2>1, <2>4 DEF page
<1>5. T = {}
  <2> SUFFICES ASSUME T # {} PROVE FALSE
    OBVIOUS
  <2>1. PICK j \in T : \A i \in T : j <= i
    <3>1. T \subseteq Nat
      BY <1>1, <1>3
    <3> HIDE DEF T
    <3>2. QED
      BY <3>1, Numbers!LeastNumber
  <2>2. j \in k .. n /\ ~Kept(map[j])
    BY <2>1
  <2>3. j # k
    BY <1>4, <2>2
  <2>4. j \in 1 .. n /\ j - 1 \in k .. n /\ j - 1 < j /\ j \in Int /\ j > k
    BY <1>1, <1>3, <2>2, <2>3
  <2>5. Kept(map[j - 1])
    <3>1. j - 1 \notin T
      <4> HIDE DEF T
      <4>1. QED
        BY <2>1, <2>4
    <3> HIDE DEF Kept
    <3>2. QED
      BY <2>4, <3>1
  <2> DEFINE g == phdrs[j]
             new == map[j]
             old == map[j - 1]
  <2>6. g \in Header /\ w \notin PagesMapped(g)
    BY <1>1, <2>4
  <2>7. new = MapTo(old, g)
    BY <1>2, <2>4
  <2>8. w \in DOMAIN old /\ old[w] = page
    BY <2>5
  <2> HIDE DEF g, new, old
  <2>9. Kept(new)
    <3>1. w \in DOMAIN old \cup PagesMapped(g)
      BY <2>8
    <3>2. /\ DOMAIN MapTo(old, g) = DOMAIN old \cup PagesMapped(g)
          /\ \A v \in DOMAIN old \cup PagesMapped(g) :
               MapTo(old, g)[v] = IF v \in PagesMapped(g) THEN FilePage(g) + (v - FirstPage(g))
                                                          ELSE old[v]
      BY <2>6, MapToAt
    <3>3. w \in DOMAIN MapTo(old, g) /\ MapTo(old, g)[w] = old[w]
      BY <2>6, <3>1, <3>2
    <3>4. QED
      BY <2>7, <2>8, <3>3
  <2>10. QED
    BY <2>2, <2>9 DEF new
<1>6. n \in k .. n /\ n \notin T
  BY <1>1, <1>3, <1>5
<1>7. Kept(map[n])
  <2> HIDE DEF Kept
  <2>1. QED
    BY <1>6
<1>8. QED
  BY <1>2, <1>7 DEF h, page

\* A byte of a segment lies in a page of its own, as far into the page as in its
\* page of the file.
LEMMA ByteMapped ==
  ASSUME NEW h \in Header, h.vaddr % PageSize = h.offset % PageSize,
         NEW i \in Nat, i < h.memsz
  PROVE  LET v == h.vaddr + i
         IN /\ v \div PageSize \in PagesMapped(h)
            /\ (FilePage(h) + (v \div PageSize - FirstPage(h))) * PageSize + (v % PageSize)
                 = h.offset + i
<1> DEFINE a == FirstPage(h)
           b == FilePage(h)
           t == h.vaddr % PageSize
           q == (t + i) \div PageSize
           s == (t + i) % PageSize
           x == h.vaddr
           y == h.offset
           z == h.memsz
<1>1. PageSize \in Nat \ {0} /\ x \in Nat /\ y \in Nat /\ z \in Nat /\ i < z
  BY LoadingAssumption DEF Header
<1>2. a \in Nat /\ t \in 0 .. PageSize - 1 /\ x = PageSize * a + t
  BY <1>1, PageOf DEF FirstPage
<1>3. b \in Nat /\ y = PageSize * b + t
  BY <1>1, PageOf DEF FilePage
<1> HIDE DEF a, b, t, x, y, z
<1>4. t + i \in Nat
  BY <1>1, <1>2
<1>5. q \in Nat /\ s \in 0 .. PageSize - 1 /\ t + i = PageSize * q + s
  BY <1>4, PageOf
<1> HIDE DEF q, s
<1>6. PageSize * (a + q) = PageSize * a + PageSize * q
      /\ PageSize * (b + q) = PageSize * b + PageSize * q
  BY <1>1, <1>2, <1>3, <1>5
<1>7. /\ PageSize * a \in Nat /\ PageSize * b \in Nat /\ PageSize * q \in Nat
      /\ a + q \in Nat /\ b + q \in Nat
  BY <1>1, <1>2, <1>3, <1>5
<1>8. x + i = PageSize * (a + q) + s /\ y + i = PageSize * (b + q) + s
  <2> DEFINE pa == PageSize * a
             pb == PageSize * b
             pq == PageSize * q
             paq == PageSize * (a + q)
             pbq == PageSize * (b + q)
  <2>1. /\ pa \in Nat /\ pb \in Nat /\ pq \in Nat /\ paq = pa + pq /\ pbq = pb + pq
        /\ x = pa + t /\ y = pb + t /\ t + i = pq + s
    BY <1>2, <1>3, <1>5, <1>6, <1>7
  <2> HIDE DEF pa, pb, pq, paq, pbq
  <2>2. x + i = paq + s /\ y + i = pbq + s
    BY <1>1, <1>2, <1>5, <2>1
  <2>3. QED
    BY <2>2 DEF paq, pbq
<1>9. (x + i) \div PageSize = a + q /\ (x + i) % PageSize = s
  BY <1>5, <1>7, <1>8, PageUnique
<1>10. b + q < EndPage(h)
  <2> DEFINE e == paging_align_address(y + z) \div PageSize
             p == (b + q) * PageSize
  <2>1. y + z \in Nat
    BY <1>1
  <2>2. \A m \in Nat : m < e <=> m * PageSize < y + z
    BY <2>1, AlignOf
  <2>3. p = PageSize * (b + q) /\ p \in Nat
    BY <1>1, <1>7
  <2> HIDE DEF e, p
  <2>4. p < y + z
    <3> DEFINE pbq == PageSize * (b + q)
    <3>1. p = pbq /\ y + i = pbq + s
      BY <1>8, <2>3
    <3> HIDE DEF pbq
    <3>2. QED
      BY <1>1, <1>5, <2>3, <3>1
  <2>5. b + q < e
    BY <1>7, <2>2, <2>4 DEF p
  <2>6. QED
    BY <2>5 DEF EndPage, e, y, z
<1>11. /\ EndPage(h) \in Nat
       /\ PagesMapped(h) = a .. a + (EndPage(h) - b) - 1
  BY MapToOf DEF a, b
<1>12. a + q \in PagesMapped(h)
  BY <1>2, <1>3, <1>5, <1>10, <1>11
<1>13. (b + ((a + q) - a)) * PageSize + s = y + i
  <2>1. b + ((a + q) - a) = b + q
    BY <1>2, <1>3, <1>5
  <2>2. (b + q) * PageSize = PageSize * (b + q)
    BY <1>1, <1>7
  <2>3. QED
    BY <1>8, <2>1, <2>2
<1>14. QED
  BY <1>9, <1>12, <1>13 DEF a, b, x, y

\* Every byte of every segment of a program that was loaded is found at its virtual
\* address, for any number of segments in any order, when the linker gave segments
\* pages of their own.
THEOREM SegmentsInPlace ==
  ASSUME SegmentsApart
  PROVE  Spec => []ImageMapped
<1>1. LoadingInv => ImageMapped
  <2> SUFFICES ASSUME LoadingInv, Running, NEW img \in LoadedElfs,
                      NEW seg \in Segments(img.phdrs), NEW i \in 0 .. seg.filesz - 1
               PROVE  LET v == seg.vaddr + i
                      IN /\ v \div PageSize \in DOMAIN img.map
                         /\ img.map[v \div PageSize] * PageSize + (v % PageSize) = seg.offset + i
    BY DEF ImageMapped
  <2> DEFINE phdrs == img.phdrs
  <2>1. img.map = process_map_elf(phdrs)
    BY ImagesOf
  <2>2. PICK p \in DOMAIN volume.program : volume.program[p].signature
                                          /\ phdrs = volume.program[p].phdrs
    BY ImagesOf
  <2>3. phdrs \in Seq(Header)
    BY <2>2, HeadersAssumption DEF LoadingInv
  <2>4. PICK k \in DOMAIN phdrs : seg = phdrs[k] /\ phdrs[k].type = PT_LOAD
    BY DEF Segments
  <2>5. /\ phdrs[k].vaddr % PageSize = phdrs[k].offset % PageSize
        /\ phdrs[k].filesz <= phdrs[k].memsz
        /\ \A l \in DOMAIN phdrs :
             l > k => PagesMapped(phdrs[k]) \cap PagesMapped(phdrs[l]) = {}
    <3> DEFINE given == volume.program[p].phdrs
    <3>1. volume \in Volumes
      BY DEF LoadingInv
    <3>2. \A j \in DOMAIN given : given[j].type = PT_LOAD =>
            /\ given[j].vaddr % PageSize = given[j].offset % PageSize
            /\ given[j].filesz <= given[j].memsz
            /\ \A l \in DOMAIN given :
                 l > j => PagesMapped(given[j]) \cap PagesMapped(given[l]) = {}
      BY <2>2, <3>1, Zenon DEF SegmentsApart
    <3>3. given = phdrs
      BY <2>2
    <3> HIDE DEF given, phdrs
    <3>4. QED
      BY <2>4, <3>2, <3>3
  <2> HIDE DEF phdrs
  <2>6. seg \in Header
    BY <2>3, <2>4
  <2>7. i \in Nat /\ i < seg.memsz
    <3>1. seg.filesz \in Nat /\ seg.memsz \in Nat /\ seg.filesz <= seg.memsz
      BY <2>4, <2>5, <2>6 DEF Header
    <3>2. QED
      BY <3>1
  <2> DEFINE v == seg.vaddr + i
             w == v \div PageSize
  <2>8. /\ w \in PagesMapped(seg)
        /\ (FilePage(seg) + (w - FirstPage(seg))) * PageSize + (v % PageSize) = seg.offset + i
    BY <2>4, <2>5, <2>6, <2>7, ByteMapped
  <2> HIDE DEF v, w
  <2>9. w \in DOMAIN img.map /\ img.map[w] = FilePage(seg) + (w - FirstPage(seg))
    BY <2>1, <2>3, <2>4, <2>5, <2>8, MapsKept
  <2>10. QED
    BY <2>8, <2>9 DEF v, w
<1>2. QED
  BY <1>1, LoadingInvariance, PTL
------------------------------------------------------------------------------
(***************************************************************************)
(* Sums.                                                                   *)
(***************************************************************************)

\* The sum of some of the weights, as the recursion and one step of it.
SumStep(w, f, t) ==
  IF t = {} THEN 0 ELSE w[CHOOSE x \in t : TRUE] + f[t \ {CHOOSE x \in t : TRUE}]

SumCalls(w) == SUBSET DOMAIN w
SumSize(w, t) == Cardinality(t)

Summing == INSTANCE Recursion WITH Dom <- SumCalls, Size <- SumSize, Def <- SumStep

Sums(sum, w) == sum = [t \in SUBSET DOMAIN w |-> SumStep(w, sum, t)]

\* Finitely many numbers.
Weighted(w) == IsFiniteSet(DOMAIN w) /\ \A x \in DOMAIN w : w[x] \in Nat

\* A set without one of its members.
LEMMA OneLess ==
  ASSUME NEW S, IsFiniteSet(S), NEW t \in SUBSET S, NEW x \in t
  PROVE  /\ IsFiniteSet(t) /\ Cardinality(t) \in Nat
         /\ t \ {x} \in SUBSET S /\ IsFiniteSet(t \ {x})
         /\ Cardinality(t \ {x}) \in Nat /\ Cardinality(t \ {x}) < Cardinality(t)
<1>1. IsFiniteSet(t) /\ Cardinality(t) \in Nat
  BY FS_Subset, FS_CardinalityType
<1>2. IsFiniteSet(t \ {x}) /\ Cardinality(t \ {x}) = Cardinality(t) - 1
  BY <1>1, FS_RemoveElement
<1>3. Cardinality(t \ {x}) \in Nat
  BY <1>2, FS_CardinalityType
<1>4. QED
  BY <1>1, <1>2, <1>3

\* The choice of a member.
LEMMA SomeMember ==
  ASSUME NEW t, t # {}
  PROVE  (CHOOSE x \in t : TRUE) \in t
OBVIOUS

\* Every collection of weights has its sums.
LEMMA SumsOf ==
  ASSUME NEW w, Weighted(w)
  PROVE  \E sum : Sums(sum, w)
<1> DEFINE S == DOMAIN w
<1>1. ASSUME NEW t \in SUBSET S, NEW g, NEW h,
             \A u \in SUBSET S : Cardinality(u) < Cardinality(t) => g[u] = h[u]
      PROVE  SumStep(w, g, t) = SumStep(w, h, t)
  <2>1. CASE t = {}
    BY <2>1 DEF SumStep
  <2>2. CASE t # {}
    <3> DEFINE x == CHOOSE x \in t : TRUE
    <3>1. x \in t
      BY <2>2, SomeMember
    <3> HIDE DEF x
    <3>2. t \ {x} \in SUBSET S /\ Cardinality(t \ {x}) < Cardinality(t)
      BY <3>1, OneLess DEF Weighted
    <3>3. g[t \ {x}] = h[t \ {x}]
      BY <1>1, <3>2
    <3>4. SumStep(w, g, t) = w[x] + g[t \ {x}] /\ SumStep(w, h, t) = w[x] + h[t \ {x}]
      BY <2>2 DEF SumStep, x
    <3>5. QED
      BY <3>3, <3>4
  <2>3. QED
    BY <2>1, <2>2
<1>2. \A t \in SUBSET S : Cardinality(t) \in Nat
  BY FS_Subset, FS_CardinalityType DEF Weighted
<1>3. Summing!Decreasing(w)
  BY <1>1, <1>2 DEF Summing!Decreasing, SumCalls, SumSize
<1>4. \E f : f = [t \in SumCalls(w) |-> SumStep(w, f, t)]
  BY <1>3, Summing!RecursionDefines
<1>5. QED
  BY <1>4 DEF Sums, SumCalls

\* A sum is a number, and its terms can be taken in any order.
LEMMA SumTakes ==
  ASSUME NEW w, Weighted(w), NEW sum, Sums(sum, w), NEW t \in SUBSET DOMAIN w
  PROVE  /\ sum[{}] = 0 /\ sum[t] \in Nat
         /\ \A x \in t : sum[t] = w[x] + sum[t \ {x}]
<1> DEFINE S == DOMAIN w
           First(u) == CHOOSE x \in u : TRUE
           Fit(u) == sum[u] \in Nat /\ \A x \in u : sum[u] = w[x] + sum[u \ {x}]
           T == {n \in Nat : \E u \in SUBSET S : Cardinality(u) = n /\ ~Fit(u)}
<1>1. \A u \in SUBSET S : IsFiniteSet(u) /\ Cardinality(u) \in Nat
  BY FS_Subset, FS_CardinalityType DEF Weighted
<1>2. sum[{}] = 0
  BY DEF Sums, SumStep
<1>3. ASSUME NEW u \in SUBSET S, u # {}
      PROVE  First(u) \in u /\ sum[u] = w[First(u)] + sum[u \ {First(u)}]
  BY <1>3, SomeMember DEF Sums, SumStep
<1> HIDE DEF First
<1>4. T = {}
  <2> SUFFICES ASSUME T # {} PROVE FALSE
    OBVIOUS
  <2>1. PICK n \in T : \A m \in T : n <= m
    BY Numbers!LeastNumber
  <2>2. PICK u \in SUBSET S : Cardinality(u) = n /\ ~Fit(u)
    BY <2>1
  <2>3. ASSUME NEW z \in SUBSET S, Cardinality(z) < n PROVE Fit(z)
    <3>1. Cardinality(z) \in Nat /\ n \in Nat
      BY <1>1, <2>2
    <3>2. Cardinality(z) \notin T
      <4> HIDE DEF T
      <4>1. QED
        BY <2>1, <2>3, <3>1
    <3>3. QED
      BY <3>1, <3>2
  <2> HIDE DEF T
  <2>4. n \in Nat /\ IsFiniteSet(S)
    BY <1>1, <2>2 DEF Weighted
  <2>5. ASSUME NEW x \in u PROVE u \ {x} \in SUBSET S /\ Cardinality(u \ {x}) < n
    <3> HIDE DEF S
    <3>1. QED
      BY <2>2, <2>4, OneLess
  <2>6. ASSUME NEW x \in u PROVE Fit(u \ {x})
    BY <2>3, <2>5
  <2>7. CASE u = {}
    <3>1. Fit(u)
      BY <1>2, <2>7
    <3>2. QED
      BY <2>2, <3>1
  <2>8. CASE u # {}
    <3> DEFINE y == First(u)
    <3>1. y \in u /\ sum[u] = w[y] + sum[u \ {y}]
      BY <1>3, <2>8
    <3>2. sum[u \ {y}] \in Nat /\ \A x \in u \ {y} : sum[u \ {y}] = w[x] + sum[(u \ {y}) \ {x}]
      BY <2>6, <3>1
    <3>3. \A x \in u : w[x] \in Nat
      BY DEF Weighted
    <3> HIDE DEF y
    <3>4. sum[u] \in Nat
      BY <3>1, <3>2, <3>3
    <3>5. ASSUME NEW x \in u PROVE sum[u] = w[x] + sum[u \ {x}]
      <4>1. CASE x = y
        BY <3>1, <4>1
      <4>2. CASE x # y
        <5> DEFINE z == (u \ {x}) \ {y}
                   rest == sum[z]
        <5>1. x \in u \ {y} /\ y \in u \ {x} /\ (u \ {y}) \ {x} = z
          BY <3>1, <4>2
        <5>2. sum[u \ {x}] = w[y] + rest
          BY <2>6, <5>1
        <5>3. sum[u \ {y}] = w[x] + rest
          BY <3>2, <5>1
        <5>4. rest \in Nat
          <6>1. u \ {x} \in SUBSET S /\ Cardinality(u \ {x}) < n
            BY <2>5
          <6>2. Cardinality(u \ {x}) \in Nat
            BY <1>1, <6>1
          <6>3. z \in SUBSET S /\ Cardinality(z) < Cardinality(u \ {x}) /\ Cardinality(z) \in Nat
            <7> DEFINE v == u \ {x}
            <7> HIDE DEF S
            <7>1. v \in SUBSET S /\ y \in v
              BY <5>1, <6>1
            <7> HIDE DEF v
            <7>2. v \ {y} \in SUBSET S /\ Cardinality(v \ {y}) < Cardinality(v)
                  /\ Cardinality(v \ {y}) \in Nat
              BY <2>4, <7>1, OneLess
            <7>3. QED
              BY <7>2 DEF v
          <6> HIDE DEF z
          <6>4. Cardinality(z) < n
            BY <2>4, <6>1, <6>2, <6>3
          <6>5. Fit(z)
            BY <2>3, <6>3, <6>4
          <6>6. QED
            BY <6>5
        <5> HIDE DEF rest, z
        <5>5. QED
          BY <3>1, <3>3, <5>2, <5>3, <5>4
      <4>3. QED
        BY <4>1, <4>2
    <3>6. QED
      BY <2>2, <3>4, <3>5
  <2>9. QED
    BY <2>7, <2>8
<1>5. Fit(t)
  <2>1. Cardinality(t) \notin T /\ Cardinality(t) \in Nat
    BY <1>1, <1>4
  <2>2. QED
    BY <2>1
<1>6. QED
  BY <1>2, <1>5

\* The sum of weights that are the same is the same.
LEMMA SumsAgree ==
  ASSUME NEW w, Weighted(w), NEW f, Sums(f, w), NEW u, Weighted(u), NEW g, Sums(g, u),
         NEW t \in SUBSET DOMAIN w, t \subseteq DOMAIN u, \A x \in t : w[x] = u[x]
  PROVE  f[t] = g[t]
<1> DEFINE T == {n \in Nat : \E r \in SUBSET t : Cardinality(r) = n /\ f[r] # g[r]}
<1>1. IsFiniteSet(t) /\ \A r \in SUBSET t : Cardinality(r) \in Nat
  BY FS_Subset, FS_CardinalityType DEF Weighted
<1>2. T = {}
  <2> SUFFICES ASSUME T # {} PROVE FALSE
    OBVIOUS
  <2>1. PICK n \in T : \A m \in T : n <= m
    BY Numbers!LeastNumber
  <2>2. PICK r \in SUBSET t : Cardinality(r) = n /\ f[r] # g[r]
    BY <2>1
  <2>3. r # {}
    BY <2>2, SumTakes
  <2>4. PICK x \in r : TRUE
    BY <2>3
  <2>5. r \ {x} \in SUBSET t /\ Cardinality(r \ {x}) < n /\ Cardinality(r \ {x}) \in Nat
    BY <1>1, <2>2, OneLess
  <2>6. Cardinality(r \ {x}) \notin T
    <3> HIDE DEF T
    <3>1. n \in Nat
      BY <1>1, <2>2
    <3>2. QED
      BY <2>1, <2>5, <3>1
  <2>7. f[r \ {x}] = g[r \ {x}]
    BY <2>5, <2>6
  <2> HIDE DEF T
  <2>8. f[r] = w[x] + f[r \ {x}] /\ g[r] = u[x] + g[r \ {x}]
    <3>1. r \in SUBSET DOMAIN w /\ r \in SUBSET DOMAIN u
      OBVIOUS
    <3>2. f[r] = w[x] + f[r \ {x}]
      BY <2>4, <3>1, SumTakes
    <3>3. g[r] = u[x] + g[r \ {x}]
      BY <2>4, <3>1, SumTakes
    <3>4. QED
      BY <3>2, <3>3
  <2>9. QED
    BY <2>2, <2>4, <2>7, <2>8
<1>3. Cardinality(t) \in Nat /\ Cardinality(t) \notin T
  BY <1>1, <1>2
<1>4. QED
  BY <1>3

\* The allocations of the descriptors that are open.
Weights(s) == [fd \in (1 .. MaxFileDescriptors) \ Free(s) |-> ItemBlocks(s.descriptors[fd].item) + 2]

\* They are as many as Held says.
LEMMA HeldOf ==
  ASSUME NEW s
  PROVE  /\ Weighted(Weights(s)) /\ DOMAIN Weights(s) = (1 .. MaxFileDescriptors) \ Free(s)
         /\ \E sum : Sums(sum, Weights(s)) /\ Held(s) = sum[DOMAIN Weights(s)]
<1> DEFINE S == (1 .. MaxFileDescriptors) \ Free(s)
           w == Weights(s)
           Term(x) == ItemBlocks(s.descriptors[x].item) + 2
           Added(f, t) == IF t = {} THEN 0
                          ELSE Term(CHOOSE x \in t : TRUE) + f[t \ {CHOOSE x \in t : TRUE}]
           sum == CHOOSE f : f = [t \in SUBSET S |-> Added(f, t)]
<1>1. Held(s) = sum[S]
  BY DEF Held, MapThenSumSet, MapThenFoldSet
<1>2. DOMAIN w = S /\ \A x \in S : w[x] = Term(x)
  BY DEF Weights
<1>3. Weighted(w)
  <2>1. IsFiniteSet(1 .. MaxFileDescriptors)
    BY FS_Interval, FilesAssumption
  <2>2. IsFiniteSet(S)
    BY <2>1, FS_Subset
  <2>3. \A x : Term(x) \in Nat
    BY DEF ItemBlocks
  <2>4. QED
    BY <1>2, <2>2, <2>3 DEF Weighted
<1>4. ASSUME NEW f, NEW t \in SUBSET S PROVE Added(f, t) = SumStep(w, f, t)
  <2>1. CASE t = {}
    BY <2>1 DEF SumStep
  <2>2. CASE t # {}
    <3> DEFINE x == CHOOSE x \in t : TRUE
    <3>1. x \in S
      BY <2>2, SomeMember
    <3>2. Added(f, t) = Term(x) + f[t \ {x}] /\ SumStep(w, f, t) = w[x] + f[t \ {x}]
      BY <2>2 DEF SumStep
    <3> HIDE DEF x, w, Term, Added
    <3>3. QED
      BY <1>2, <3>1, <3>2
  <2>3. QED
    BY <2>1, <2>2
<1> HIDE DEF w, Added, S
<1>5. \A f : [t \in SUBSET S |-> Added(f, t)] = [t \in SUBSET S |-> SumStep(w, f, t)]
  BY <1>4
<1>6. PICK f : f = [t \in SUBSET S |-> SumStep(w, f, t)]
  BY <1>2, <1>3, SumsOf DEF Sums
<1>7. f = [t \in SUBSET S |-> Added(f, t)]
  BY <1>5, <1>6
<1>8. sum = [t \in SUBSET S |-> Added(sum, t)]
  BY <1>7
<1> HIDE DEF sum
<1>9. sum = [t \in SUBSET S |-> SumStep(w, sum, t)]
  BY <1>5, <1>8
<1>10. Sums(sum, w)
  BY <1>2, <1>9 DEF Sums
<1>11. QED
  BY <1>1, <1>2, <1>3, <1>10 DEF w, S

\* States that differ in one descriptor, which is open in the second.
LEMMA HeldGrows ==
  ASSUME NEW s, NEW t, NEW fd \in 1 .. MaxFileDescriptors,
         \A d \in 1 .. MaxFileDescriptors : d # fd => t.descriptors[d] = s.descriptors[d],
         s.descriptors[fd] = Closed, t.descriptors[fd] # Closed
  PROVE  /\ Held(s) \in Nat
         /\ Held(t) = Held(s) + ItemBlocks(t.descriptors[fd].item) + 2
<1> DEFINE w == Weights(s)
           u == Weights(t)
           S == DOMAIN w
           n == ItemBlocks(t.descriptors[fd].item) + 2
<1>1. /\ Weighted(w) /\ S = (1 .. MaxFileDescriptors) \ Free(s)
      /\ Weighted(u) /\ DOMAIN u = (1 .. MaxFileDescriptors) \ Free(t)
  BY HeldOf
<1>2. PICK f : Sums(f, w) /\ Held(s) = f[S]
  BY HeldOf
<1>3. PICK g : Sums(g, u) /\ Held(t) = g[DOMAIN u]
  BY HeldOf
<1>4. DOMAIN u = S \cup {fd} /\ fd \notin S
  BY <1>1 DEF Free
<1>5. \A x \in S : w[x] = u[x]
  <2> SUFFICES ASSUME NEW x \in S PROVE w[x] = u[x]
    OBVIOUS
  <2>1. x \in 1 .. MaxFileDescriptors /\ x # fd /\ x \in DOMAIN u
    BY <1>1, <1>4
  <2>2. t.descriptors[x] = s.descriptors[x]
    BY <2>1
  <2>3. QED
    BY <1>1, <2>1, <2>2 DEF Weights
<1>6. u[fd] = n
  BY <1>1, <1>4 DEF Weights
<1> HIDE DEF w, u, S
<1>7. f[S] = g[S] /\ f[S] \in Nat
  BY <1>1, <1>2, <1>3, <1>4, <1>5, SumsAgree, SumTakes DEF S
<1>8. g[DOMAIN u] = u[fd] + g[S]
  <2> DEFINE U == DOMAIN u
  <2>1. fd \in U /\ U \ {fd} = S /\ U \in SUBSET DOMAIN u
    BY <1>4
  <2> HIDE DEF U
  <2>2. g[U] = u[fd] + g[U \ {fd}]
    <3>1. Weighted(u) /\ Sums(g, u) /\ U \in SUBSET DOMAIN u
      BY <1>1, <1>3, <2>1
    <3>2. \A x \in U : g[U] = u[x] + g[U \ {x}]
      BY <3>1, SumTakes
    <3>3. QED
      BY <2>1, <3>2
  <2>3. QED
    BY <2>1, <2>2 DEF U
<1> DEFINE b == ItemBlocks(t.descriptors[fd].item)
<1>9. b \in Nat /\ n = b + 2
  BY DEF ItemBlocks
<1> HIDE DEF b, n
<1>10. Held(t) = Held(s) + b + 2 /\ Held(s) \in Nat
  BY <1>2, <1>3, <1>6, <1>7, <1>8, <1>9
<1>11. QED
  BY <1>10 DEF b

\* Only the descriptors hold something.
LEMMA HeldSame ==
  ASSUME NEW s, NEW t, t.descriptors = s.descriptors
  PROVE  Held(t) = Held(s) /\ Held(s) \in Nat
<1> DEFINE w == Weights(s)
           u == Weights(t)
<1>1. u = w
  BY DEF Weights, Free
<1>2. Weighted(w) /\ DOMAIN w \in SUBSET DOMAIN w
  BY HeldOf
<1>3. PICK f : Sums(f, w) /\ Held(s) = f[DOMAIN w]
  BY HeldOf
<1>4. PICK g : Sums(g, u) /\ Held(t) = g[DOMAIN u]
  BY HeldOf
<1> HIDE DEF w, u
<1>5. g[DOMAIN w] = f[DOMAIN w]
  BY <1>1, <1>2, <1>3, <1>4, SumsAgree
<1>6. f[DOMAIN w] \in Nat
  BY <1>2, <1>3, SumTakes
<1>7. QED
  BY <1>1, <1>3, <1>4, <1>5, <1>6

\* One number of an item of a directory.
Blocks(v, D, S) == [i \in S |-> ItemBlocks(DirItem(v, D, i))]

\* The allocations of one match.
LEMMA OneMatch ==
  ASSUME NEW v, NEW D, NEW m
  PROVE  MapThenSumSet(LAMBDA i : ItemBlocks(DirItem(v, D, i)), {m}) = ItemBlocks(DirItem(v, D, m))
<1> DEFINE S == {m}
           w == Blocks(v, D, S)
           Term(x) == ItemBlocks(DirItem(v, D, x))
           Added(f, t) == IF t = {} THEN 0
                          ELSE Term(CHOOSE x \in t : TRUE) + f[t \ {CHOOSE x \in t : TRUE}]
           sum == CHOOSE f : f = [t \in SUBSET S |-> Added(f, t)]
<1>1. MapThenSumSet(LAMBDA i : ItemBlocks(DirItem(v, D, i)), S) = sum[S]
  BY DEF MapThenSumSet, MapThenFoldSet
<1>2. DOMAIN w = S /\ \A x \in S : w[x] = Term(x)
  BY DEF Blocks
<1>3. \A x : Term(x) \in Nat
  BY DEF ItemBlocks
<1>4. Weighted(w)
  <2>1. IsFiniteSet({m})
    BY FS_Singleton
  <2>2. DOMAIN w = {m} /\ w[m] \in Nat
    BY <1>2, <1>3
  <2> HIDE DEF w
  <2>3. QED
    BY <2>1, <2>2 DEF Weighted
<1>5. ASSUME NEW f, NEW t \in SUBSET S PROVE Added(f, t) = SumStep(w, f, t)
  <2>1. CASE t = {}
    BY <2>1 DEF SumStep
  <2>2. CASE t # {}
    <3> DEFINE x == CHOOSE x \in t : TRUE
    <3>1. x \in S
      BY <2>2, SomeMember
    <3>2. Added(f, t) = Term(x) + f[t \ {x}] /\ SumStep(w, f, t) = w[x] + f[t \ {x}]
      BY <2>2 DEF SumStep
    <3> HIDE DEF x, w, Term, Added
    <3>3. QED
      BY <1>2, <3>1, <3>2
  <2>3. QED
    BY <2>1, <2>2
<1> HIDE DEF w, Added, S, Term
<1>6. \A f : [t \in SUBSET S |-> Added(f, t)] = [t \in SUBSET S |-> SumStep(w, f, t)]
  BY <1>5
<1>7. PICK f : f = [t \in SUBSET S |-> SumStep(w, f, t)]
  BY <1>2, <1>4, SumsOf DEF Sums
<1>8. f = [t \in SUBSET S |-> Added(f, t)]
  BY <1>6, <1>7
<1>9. sum = [t \in SUBSET S |-> Added(sum, t)]
  BY <1>8
<1> HIDE DEF sum
<1>10. Sums(sum, w)
  BY <1>2, <1>6, <1>9 DEF Sums
<1>11. m \in S /\ S \ {m} = {}
  BY DEF S
<1>12. sum[S] = w[m] + sum[{}] /\ sum[{}] = 0
  <2>1. S \in SUBSET DOMAIN w
    BY <1>2
  <2>2. sum[S] = w[m] + sum[S \ {m}] /\ sum[{}] = 0
    BY <1>4, <1>10, <1>11, <2>1, SumTakes
  <2>3. QED
    BY <1>11, <2>2
<1>13. QED
  BY <1>1, <1>2, <1>3, <1>11, <1>12 DEF S, Term
------------------------------------------------------------------------------
(***************************************************************************)
(* Directories of a volume in order.                                       *)
(***************************************************************************)

\* What theorems about opens assume of the volumes.
InOrder == FilesOnDisk /\ DirectoriesEnd /\ NamesApart

\* Directory D, as it was read, lists the items from place p on: those that can be
\* read, of which there are n, come before the end, and are all of them if none is
\* unused.
Lists(v, D, p, n) ==
  /\ D.total \in Nat
  /\ \A i \in 0 .. D.total - 1 :
       /\ ~Ends(v, p, i)
       /\ DirItem(v, D, i) = IF i < n THEN ItemAt(v, Nth(p, i)) ELSE ZeroItem
  /\ NoneUnused(v) =>
       \A j \in Nat : (\A i \in 0 .. j : ~Ends(v, p, i)) => j < D.total

\* Items in a stretch of bytes.
LEMMA StretchItems ==
  ASSUME NEW v, NEW D, NEW p \in Nat, NEW n \in Nat, D.item = Stretch(p, n * ItemSize),
         NEW i \in Nat
  PROVE  DirItem(v, D, i) = IF i < n THEN ItemAt(v, Nth(p, i)) ELSE ZeroItem
<1> DEFINE a == i * ItemSize
           b == n * ItemSize
<1>1. ItemSize \in Nat \ {0}
  BY Fat16Assumption
<1>2. a \in Nat /\ b \in Nat /\ (a < b <=> i < n)
  <2>1. a \in Nat /\ b \in Nat
    BY <1>1
  <2>2. Nth(0, i) = a /\ Nth(0, n) = b
    <3>1. Nth(0, i) = 0 + a /\ Nth(0, n) = 0 + b
      BY DEF Nth
    <3> HIDE DEF a, b
    <3>2. QED
      BY <2>1, <3>1
  <2> HIDE DEF a, b
  <2>3. Nth(0, i) < Nth(0, n) <=> i < n
    BY NthOf
  <2>4. QED
    BY <2>1, <2>2, <2>3
<1>3. Nth(p, i) = p + a
  BY DEF Nth
<1>4. DirItem(v, D, i) = IF a < Len(D.item) THEN ItemAt(v, D.item[a + 1]) ELSE ZeroItem
  BY DEF DirItem
<1>5. D.item = Stretch(p, b)
  OBVIOUS
<1> HIDE DEF a, b
<1>6. Len(D.item) = b
  BY <1>2, <1>5, StretchType
<1>7. a < b => D.item[a + 1] = p + a
  <2> SUFFICES ASSUME a < b PROVE D.item[a + 1] = p + a
    OBVIOUS
  <2>1. a + 1 \in 1 .. b /\ p + (a + 1) - 1 = p + a
    BY <1>2
  <2>2. QED
    BY <1>5, <2>1 DEF Stretch
<1>8. QED
  BY <1>2, <1>3, <1>4, <1>6, <1>7

\* A directory of one cluster.
LEMMA ClusterHolds ==
  /\ ClusterItems \in Nat
  /\ \A p \in Nat, k \in Nat : k <= ClusterItems =>
       k * ItemSize \in Nat /\ k * ItemSize <= ClusterBytes /\ Nth(p, k) <= p + ClusterBytes
<1>1. ItemSize \in Nat \ {0} /\ ClusterBytes \in Nat
  BY Fat16Assumption, PlacesOf
<1>2. ClusterItems \in Nat /\ ClusterItems * ItemSize <= ClusterBytes
  <2> DEFINE q == ClusterBytes \div ItemSize
  <2>1. q \in Nat /\ ClusterBytes = ItemSize * q + (ClusterBytes % ItemSize)
        /\ ClusterBytes % ItemSize \in Nat
    BY <1>1
  <2>2. ClusterItems = q
    BY DEF ClusterItems
  <2> HIDE DEF q
  <2>3. q * ItemSize = ItemSize * q /\ q * ItemSize \in Nat
    BY <1>1, <2>1
  <2>4. QED
    BY <1>1, <2>1, <2>2, <2>3
<1>3. ASSUME NEW p \in Nat, NEW k \in Nat, k <= ClusterItems
      PROVE  k * ItemSize \in Nat /\ k * ItemSize <= ClusterBytes /\ Nth(p, k) <= p + ClusterBytes
  <2> DEFINE a == k * ItemSize
             b == ClusterItems * ItemSize
  <2>1. a \in Nat /\ b \in Nat
    BY <1>1, <1>2
  <2>2. a <= b
    <3>1. Nth(0, k) = 0 + a /\ Nth(0, ClusterItems) = 0 + b
      BY DEF Nth
    <3> HIDE DEF a, b
    <3>2. CASE k = ClusterItems
      BY <2>1, <3>1, <3>2
    <3>3. CASE k # ClusterItems
      <4>1. k < ClusterItems
        BY <1>2, <1>3, <3>3
      <4>2. Nth(0, k) < Nth(0, ClusterItems)
        BY <1>2, <4>1, NthOf
      <4>3. QED
        BY <2>1, <3>1, <4>2
    <3>4. QED
      BY <3>2, <3>3
  <2>3. Nth(p, k) = p + a
    BY DEF Nth
  <2> HIDE DEF a
  <2>4. b <= ClusterBytes
    BY <1>2
  <2> HIDE DEF b
  <2>5. a <= ClusterBytes /\ p + a <= p + ClusterBytes
    BY <1>1, <2>1, <2>2, <2>4
  <2>6. QED
    BY <2>1, <2>3, <2>5 DEF a
<1>4. QED
  BY <1>2, <1>3

\* What is read of the directory of an item does not depend on where the stream
\* stood.
DirTotal(v, item) ==
  fat16_get_total_items_for_directory(v, fat16_cluster_to_sector(item.cluster)).total

DirectoryRead(v, D, item) ==
  /\ ~D.hung /\ ~D.stray /\ D.pos \in Nat
  /\ D.total = DirTotal(v, item)
  /\ D.item = Stretch(ClusterPlace(item.cluster), D.total * ItemSize)
  /\ Lists(v, D, ClusterPlace(item.cluster), ClusterItems)

\* The directory of an item is read to its end.
LEMMA DirectoryOf ==
  ASSUME InOrder, NEW v \in Volumes, Formatted(v), NEW stream \in Nat,
         NEW item \in ItemsOf(v), item.dir
  PROVE  DirectoryRead(v, fat16_load_fat_directory(v, stream, item), item)
<1> DEFINE cluster == item.cluster
           p == ClusterPlace(cluster)
           items == fat16_get_total_items_for_directory(v, fat16_cluster_to_sector(cluster))
           t == items.total
           n == t * ItemSize
           r == fat16_read_internal(v, stream, cluster, 0, n)
           D == fat16_load_fat_directory(v, stream, item)
<1>1. D = Directory(items, r)
  BY DEF fat16_load_fat_directory, fat16_get_first_cluster
<1>2. cluster \in Nat
  BY ReadableFormatted DEF Readable
<1>3. p = ClusterStart(cluster) /\ p \in Nat
  <2>1. p = ClusterStart(cluster)
    BY DEF ClusterPlace, ClusterStart, fat16_sector_to_absolute, fat16_cluster_to_sector
  <2>2. QED
    BY <1>2, <2>1, PlacesOf
<1>4. Counted(v, p, items)
  <2>1. fat16_cluster_to_sector(cluster) \in Nat
    BY <1>2, PlacesOf
  <2>2. fat16_sector_to_absolute(fat16_cluster_to_sector(cluster)) = p
    BY <1>3 DEF ClusterStart
  <2>3. QED
    BY <2>1, <2>2, CountsOf
<1>5. p + ClusterBytes < DiskBytes /\ ClusterBytes \in Nat \ {0} /\ DiskBytes \in Nat
  BY PlacesOf, DiskStreamAssumption DEF InOrder, FilesOnDisk, DiskBytes
<1>6. PICK k \in 0 .. ClusterItems - 1 : Ends(v, p, k)
  BY DEF InOrder, DirectoriesEnd, Ends, Nth
<1> DEFINE total == DirTotal(v, item)
<1>7. t = total
  BY DEF DirTotal
<1> HIDE DEF items, D, p, cluster
<1>8. k \in Nat /\ k + 1 \in Nat /\ k + 1 <= ClusterItems /\ ClusterItems \in Nat
  BY ClusterHolds
<1>9. ~items.hung
  <2>1. Nth(p, k + 1) <= p + ClusterBytes /\ Nth(p, k + 1) \in Nat
    BY <1>3, <1>8, ClusterHolds, NthOf
  <2>2. Nth(p, k + 1) < DiskBytes
    BY <1>3, <1>5, <2>1
  <2>3. QED
    BY <1>4, <1>6, <1>8, <2>2 DEF Counted
<1>10. t \in Nat /\ t <= k
  <2>1. t \in Nat
    BY <1>4 DEF Counted, CountLeaves
  <2>2. ASSUME t > k PROVE FALSE
    <3>1. k \in 0 .. t - 1
      BY <1>8, <2>1, <2>2
    <3>2. QED
      BY <1>4, <1>6, <3>1 DEF Counted
  <2>3. QED
    BY <1>8, <2>1, <2>2
<1> HIDE DEF t, total
<1>11. t \in Nat /\ t <= ClusterItems /\ n \in Nat /\ n <= ClusterBytes
  <2>1. t \in Nat /\ t <= ClusterItems
    BY <1>8, <1>10
  <2>2. QED
    BY <2>1, ClusterHolds, <1>3
<1> HIDE DEF n
<1>12. ~r.hung /\ r.res = 0 /\ r.out = Stretch(p, n) /\ r.pos \in Nat
  <2>1. 0 \in Nat /\ 0 < ClusterBytes /\ p + 0 = p
    BY <1>3, <1>5
  <2>2. Delivered(r, ClusterStart(cluster) + 0, n)
    BY <1>2, <1>11, <2>1, InternalReads
  <2>3. Delivered(r, p, n)
    BY <1>3, <2>1, <2>2
  <2> HIDE DEF r
  <2>4. p + n < DiskBytes
    BY <1>3, <1>5, <1>11
  <2>5. QED
    BY <2>3, <2>4 DEF Delivered, FileRead
<1> HIDE DEF r
<1>13. /\ D.hung = (items.hung \/ r.hung) /\ D.stray = (r.res < 0)
       /\ D.item = r.out /\ D.total = t /\ D.pos = r.pos
  BY <1>1 DEF Directory, t
<1>14. ~D.hung /\ ~D.stray /\ D.pos \in Nat /\ D.total = t /\ D.item = Stretch(p, t * ItemSize)
  <2>1. ~D.hung
    BY <1>9, <1>12, <1>13, Zenon
  <2>2. ~(r.res < 0)
    BY <1>12
  <2>3. ~D.stray
    BY <1>13, <2>2, Zenon
  <2>4. QED
    BY <1>12, <1>13, <2>1, <2>3, Zenon DEF n
<1>15. Lists(v, D, p, ClusterItems)
  <2>1. ASSUME NEW i \in 0 .. t - 1
        PROVE  ~Ends(v, p, i)
               /\ DirItem(v, D, i) = IF i < ClusterItems THEN ItemAt(v, Nth(p, i)) ELSE ZeroItem
    <3>1. ~Ends(v, p, i)
      BY <1>4 DEF Counted, t
    <3>2. i \in Nat /\ i < t /\ i < ClusterItems
      BY <1>8, <1>11
    <3>3. DirItem(v, D, i) = IF i < t THEN ItemAt(v, Nth(p, i)) ELSE ZeroItem
      BY <1>3, <1>11, <1>14, <3>2, StretchItems
    <3>4. QED
      BY <3>1, <3>2, <3>3
  <2>2. ASSUME NoneUnused(v), NEW j \in Nat, \A i \in 0 .. j : ~Ends(v, p, i)
        PROVE  j < t
    BY <1>4, <1>9, <2>2 DEF Counted, t
  <2>3. QED
    BY <1>10, <1>14, <2>1, <2>2 DEF Lists
<1>16. QED
  BY <1>7, <1>14, <1>15 DEF DirectoryRead, D, p, cluster, total

\* The root directory is read when the disk is looked at.
LEMMA RootListed ==
  ASSUME NEW v, NEW D, LET root == fat16_get_root_directory(v)
                       IN ~root.hung /\ D.item = root.item /\ D.total = root.total
  PROVE  Lists(v, D, RootSector * SectorSize, RootDirEntries)
<1> DEFINE root == fat16_get_root_directory(v)
           p == RootSector * SectorSize
           n == RootDirEntries * ItemSize
           items == fat16_get_total_items_for_directory(v, RootSector)
           r == diskstreamer_read(p, n)
           t == items.total
<1>1. RootSector \in Nat /\ p \in Nat /\ n \in Nat /\ RootDirEntries \in Nat
  BY Fat16Assumption, DiskStreamAssumption DEF RootSector
<1>2. fat16_sector_to_absolute(RootSector) = p
  BY DEF fat16_sector_to_absolute
<1>3. Counted(v, p, items)
  BY <1>1, <1>2, CountsOf
<1>4. root = [hung |-> items.hung \/ r.hung, item |-> r.out, total |-> t]
  BY <1>2, Zenon DEF fat16_get_root_directory
<1>5. ReadLeaves(r, p, n)
  BY <1>1, StreamReads
<1>6. ~root.hung /\ D.item = root.item /\ D.total = root.total
  OBVIOUS
<1> HIDE DEF root, r, items
<1>7. ~items.hung /\ ~r.hung /\ D.item = r.out /\ D.total = t
  BY <1>4, <1>6, Zenon
<1>8. D.item = Stretch(p, n)
  BY <1>5, <1>7 DEF ReadLeaves
<1>9. t \in Nat
  BY <1>3 DEF Counted, CountLeaves
<1>10. \A i \in 0 .. t - 1 : ~Ends(v, p, i)
  BY <1>3 DEF Counted
<1>11. NoneUnused(v) => \A j \in Nat : (\A i \in 0 .. j : ~Ends(v, p, i)) => j < t
  BY <1>3, <1>7 DEF Counted
<1> HIDE DEF t, p
<1>12. \A i \in Nat : DirItem(v, D, i) = IF i < RootDirEntries THEN ItemAt(v, Nth(p, i)) ELSE ZeroItem
  BY <1>1, <1>8, StretchItems
<1>13. Lists(v, D, p, RootDirEntries)
  <2>1. \A i \in 0 .. t - 1 : i \in Nat
    BY <1>9
  <2>2. QED
    BY <1>7, <1>9, <1>10, <1>11, <1>12, <2>1 DEF Lists
<1>14. QED
  BY <1>13 DEF p

\* The items of a directory are the ones before its end that are in use.
LEMMA EntriesAre ==
  ASSUME NEW v, NEW p \in Nat, NEW n \in Nat
  PROVE  \A q : q \in Entries(v, p, n) <=>
           \E j \in 0 .. n - 1 :
             /\ q = Nth(p, j) /\ ItemAt(v, q).name # Unused
             /\ \A i \in 0 .. j : ~Ends(v, p, i)
<1> DEFINE place == {Nth(p, k) : k \in 0 .. n - 1}
           ends == {q \in place : ItemAt(v, q).name = EndOfDirectory}
<1>1. Entries(v, p, n) = {q \in place : (\A e \in ends : q < e) /\ ItemAt(v, q).name # Unused}
  BY DEF Entries, Nth
<1>2. ASSUME NEW j \in 0 .. n - 1
      PROVE  (\A e \in ends : Nth(p, j) < e) <=> \A i \in 0 .. j : ~Ends(v, p, i)
  <2>1. j \in Nat
    OBVIOUS
  <2>2. \A k \in Nat : Nth(p, j) < Nth(p, k) <=> j < k
    BY <2>1, NthOf
  <2>3. \A k \in 0 .. n - 1 : Nth(p, k) \in ends <=> Ends(v, p, k)
    BY DEF Ends
  <2>4. \A e \in ends : \E k \in 0 .. n - 1 : e = Nth(p, k)
    OBVIOUS
  <2> HIDE DEF ends
  <2>5. ASSUME \A e \in ends : Nth(p, j) < e, NEW i \in 0 .. j PROVE ~Ends(v, p, i)
    <3>1. i \in 0 .. n - 1 /\ i \in Nat /\ ~(j < i)
      OBVIOUS
    <3>2. QED
      BY <2>2, <2>3, <2>5, <3>1
  <2>6. ASSUME \A i \in 0 .. j : ~Ends(v, p, i), NEW e \in ends PROVE Nth(p, j) < e
    <3>1. PICK k \in 0 .. n - 1 : e = Nth(p, k)
      BY <2>4
    <3>2. Ends(v, p, k)
      BY <2>3, <3>1
    <3>3. k \in Nat /\ k \notin 0 .. j
      BY <2>6, <3>2
    <3>4. j < k
      BY <2>1, <3>3
    <3>5. QED
      BY <2>2, <3>1, <3>3, <3>4
  <2>7. QED
    BY <2>5, <2>6
<1> HIDE DEF ends
<1>3. QED
  BY <1>1, <1>2

\* No two of these items have the same name.
Apart(v, entries) ==
  \A q, r \in entries : ItemAt(v, q).name = ItemAt(v, r).name => q = r

\* An item with a name that is in use is an item of the directory, at its place.
LEMMA MatchIsEntry ==
  ASSUME NEW v, NEW D, NEW p \in Nat, NEW n \in Nat, Lists(v, D, p, n),
         NEW i \in 0 .. D.total - 1, DirItem(v, D, i).name \notin {EndOfDirectory, Unused}
  PROVE  /\ i < n /\ Nth(p, i) \in Entries(v, p, n)
         /\ DirItem(v, D, i) = ItemAt(v, Nth(p, i))
<1>1. D.total \in Nat
  BY DEF Lists
<1>2. DirItem(v, D, i) = IF i < n THEN ItemAt(v, Nth(p, i)) ELSE ZeroItem
  BY DEF Lists
<1>3. i < n /\ DirItem(v, D, i) = ItemAt(v, Nth(p, i))
  BY <1>2 DEF ZeroItem
<1>4. i \in 0 .. n - 1 /\ \A k \in 0 .. i : k \in 0 .. D.total - 1
  BY <1>1, <1>3
<1>5. \A k \in 0 .. i : ~Ends(v, p, k)
  BY <1>4 DEF Lists
<1>6. ItemAt(v, Nth(p, i)).name # Unused
  BY <1>3
<1>7. QED
  BY <1>3, <1>4, <1>5, <1>6, EntriesAre

\* If no item is unused, an item of the directory is found by its name.
LEMMA EntryIsMatch ==
  ASSUME NEW v, NEW D, NEW p \in Nat, NEW n \in Nat, Lists(v, D, p, n), NoneUnused(v),
         NEW q \in Entries(v, p, n)
  PROVE  \E i \in 0 .. D.total - 1 : DirItem(v, D, i) = ItemAt(v, q)
<1>1. PICK j \in 0 .. n - 1 : q = Nth(p, j) /\ \A i \in 0 .. j : ~Ends(v, p, i)
  BY EntriesAre
<1>2. j \in Nat /\ j < n /\ D.total \in Nat
  BY DEF Lists
<1>3. j < D.total
  BY <1>1, <1>2 DEF Lists
<1>4. j \in 0 .. D.total - 1
  BY <1>2, <1>3
<1>5. DirItem(v, D, j) = ItemAt(v, q)
  BY <1>1, <1>2, <1>4 DEF Lists
<1>6. QED
  BY <1>4, <1>5

\* What the search for a name leaves, when some of the items of a directory have it:
\* the item, if there is one, with the directory that it is.
Finds(items, r) ==
  /\ DOMAIN r = SearchFields /\ ~r.hung /\ ~r.stray /\ ~r.broke /\ r.pos \in Nat
  /\ r.item # NoItem =>
       /\ r.item \in items /\ r.item \in ItemsOf(volume) /\ r.grown = ItemBlocks(r.item)
       /\ r.item.dir => DirectoryRead(volume, r.directory, r.item)
  /\ r.item = NoItem => r.grown = 0 /\ (NoneUnused(volume) => items = {})

\* The search in a directory.
LEMMA FindsOf ==
  ASSUME InOrder, volume \in Volumes, NEW stream \in Nat, NEW D, NEW p \in Nat, NEW n \in Nat,
         Lists(volume, D, p, n), Apart(volume, Entries(volume, p, n)),
         NEW name, name # EndOfDirectory, name # Unused
  PROVE  Finds(Named(Entries(volume, p, n), name),
               fat16_find_item_in_directory(volume, stream, D, name))
<1> DEFINE entries == Entries(volume, p, n)
           items == Named(entries, name)
           Item(i) == DirItem(volume, D, i)
           matches == {i \in 0 .. D.total - 1 : Item(i).name = name}
           none == NoDirectory(stream)
           grown == MapThenSumSet(LAMBDA i : ItemBlocks(DirItem(volume, D, i)), matches)
           r == fat16_find_item_in_directory(volume, stream, D, name)
<1>1. /\ matches = {} => r = Found(NoItem, none, 0)
      /\ matches # {} =>
           r = fat16_new_fat_item_for_directory_item(volume, stream, Item(Max(matches)), grown)
  BY DEF fat16_find_item_in_directory
<1>2. \A i \in matches : /\ i \in Nat /\ i < n /\ Nth(p, i) \in entries
                         /\ Item(i) = ItemAt(volume, Nth(p, i)) /\ Item(i).name = name
  <2>1. D.total \in Nat
    BY DEF Lists
  <2>2. \A i \in 0 .. D.total - 1 : i \in Nat
    BY <2>1
  <2>3. ASSUME NEW i \in 0 .. D.total - 1, DirItem(volume, D, i).name = name
        PROVE  i < n /\ Nth(p, i) \in entries /\ DirItem(volume, D, i) = ItemAt(volume, Nth(p, i))
    <3>1. Lists(volume, D, p, n)
      OBVIOUS
    <3>2. DirItem(volume, D, i).name \notin {EndOfDirectory, Unused}
      BY <2>3
    <3>3. QED
      BY <3>1, <3>2, MatchIsEntry
  <2> HIDE DEF entries
  <2>4. QED
    BY <2>2, <2>3
<1>3. none.pos \in Nat /\ ~none.hung /\ ~none.stray
  BY DEF NoDirectory
<1>4. Formatted(volume)
  BY VolumeFormatted
<1>5. CASE matches = {}
  <2>1. NoneUnused(volume) => items = {}
    <3>1. \A i \in 0 .. D.total - 1 : DirItem(volume, D, i).name # name
      BY <1>5
    <3>2. NoneUnused(volume) =>
            \A q \in entries : \E i \in 0 .. D.total - 1 : DirItem(volume, D, i) = ItemAt(volume, q)
      BY EntryIsMatch
    <3>3. QED
      BY <3>1, <3>2 DEF Named
  <2>2. r = Found(NoItem, none, 0)
    BY <1>1, <1>5
  <2> HIDE DEF r, none, items
  <2>3. /\ DOMAIN r = SearchFields /\ ~r.hung /\ ~r.stray /\ ~r.broke /\ r.pos \in Nat
        /\ r.item = NoItem /\ r.grown = 0
    BY <1>3, <2>2 DEF Found, SearchFields
  <2>4. Finds(items, r)
    BY <2>1, <2>3 DEF Finds
  <2>5. QED
    BY <2>4 DEF r, items
<1>6. CASE matches # {}
  <2>1. PICK m \in matches : TRUE
    BY <1>6
  <2>2. matches = {m}
    <3>1. ASSUME NEW i \in matches PROVE i = m
      <4>1. Nth(p, i) = Nth(p, m)
        BY <1>2 DEF Apart
      <4>2. i \in Nat /\ m \in Nat
        BY <1>2
      <4>3. Nth(p, i) \in Nat /\ \A k \in Nat : Nth(p, i) < Nth(p, k) <=> i < k
        BY <4>2, NthOf
      <4>4. \A k \in Nat : Nth(p, m) < Nth(p, k) <=> m < k
        BY <4>2, NthOf
      <4>5. ~(i < m) /\ ~(m < i)
        BY <4>1, <4>2, <4>3, <4>4
      <4>6. QED
        BY <4>2, <4>5
    <3>2. QED
      BY <2>1, <3>1
  <2> DEFINE item == Item(m)
             g == ItemBlocks(item)
             loaded == fat16_load_fat_directory(volume, stream, item)
             dir == IF item.dir THEN loaded ELSE none
  <2>3. grown = g
    BY <2>2, OneMatch
  <2>4. Max(matches) = m
    <3>1. m \in Int
      BY <1>2
    <3>2. Max({m}) = m
      BY <3>1 DEF Max
    <3>3. QED
      BY <2>2, <3>2
  <2>5. r = fat16_new_fat_item_for_directory_item(volume, stream, item, g)
    BY <1>1, <1>6, <2>3, <2>4
  <2>6. r = Found(item, dir, g)
    BY <2>5 DEF fat16_new_fat_item_for_directory_item
  <2>7. /\ item = ItemAt(volume, Nth(p, m)) /\ item.name = name
        /\ Nth(p, m) \in entries
    BY <1>2
  <2>8. item \in items /\ item \in ItemsOf(volume)
    BY <2>7 DEF Named, ItemAt, ItemsOf
  <2>9. item # NoItem
    BY <1>4, <2>8, ReadableFormatted DEF Readable
  <2>10. item.dir => DirectoryRead(volume, loaded, item)
    BY <1>4, <2>8, DirectoryOf
  <2> HIDE DEF item, loaded, none, items, r, g
  <2>11. dir.pos \in Nat /\ ~dir.hung /\ ~dir.stray
    BY <1>3, <2>10 DEF DirectoryRead
  <2>12. item.dir => dir = loaded
    OBVIOUS
  <2> HIDE DEF dir
  <2>13. /\ DOMAIN r = SearchFields /\ r.hung = dir.hung /\ r.stray = dir.stray /\ ~r.broke
         /\ r.pos = dir.pos /\ r.item = item /\ r.grown = g /\ r.directory = dir
    BY <2>6 DEF Found, SearchFields
  <2>14. Finds(items, r)
    BY <2>8, <2>9, <2>10, <2>11, <2>12, <2>13 DEF Finds, g
  <2>15. QED
    BY <2>14 DEF r, items
<1>7. QED
  BY <1>5, <1>6

\* What is found does not depend on where the stream stood, nor on how the
\* directory was read.
Alike(D, E) == D.item = E.item /\ D.total = E.total

\* fat16_find_item_in_directory: two readings of one directory find one item,
\* wherever the stream stands.
LEMMA FindAlike ==
  ASSUME NEW s, NEW t, NEW D, NEW E, Alike(D, E), NEW name
  PROVE  fat16_find_item_in_directory(volume, s, D, name).item
           = fat16_find_item_in_directory(volume, t, E, name).item
<1> DEFINE Where(C) == {i \in 0 .. C.total - 1 : DirItem(volume, C, i).name = name}
           Item(u, C) == fat16_find_item_in_directory(volume, u, C, name).item
<1>1. \A i : DirItem(volume, D, i) = DirItem(volume, E, i)
  BY DEF DirItem, Alike
<1>2. Where(D) = Where(E)
  BY <1>1 DEF Alike
<1>3. ASSUME NEW u, NEW C
      PROVE  Item(u, C) = IF Where(C) = {} THEN NoItem ELSE DirItem(volume, C, Max(Where(C)))
  BY DEF fat16_find_item_in_directory, fat16_new_fat_item_for_directory_item, Found
<1> HIDE DEF Where, Item
<1>4. Item(s, D) = Item(t, E)
  BY <1>1, <1>2, <1>3
<1>5. QED
  BY <1>4 DEF Item

\* Directories of this volume are in order.
LEMMA DirectoriesApart ==
  ASSUME InOrder, volume \in Volumes
  PROVE  /\ Apart(volume, RootEntries(volume))
         /\ \A i \in ItemsOf(volume) : i.dir => Apart(volume, EntriesOf(volume, i))
BY DEF InOrder, NamesApart, Apart

\* The items that the first parts of a path lead to, as the recursion and one step.
Lead(parts, led, k) ==
  IF k = 1 THEN Named(RootEntries(volume), parts[1])
  ELSE UNION {Named(EntriesOf(volume, d), parts[k]) : d \in {i \in led[k - 1] : i.dir}}

LeadNumbers(c) == 1 .. Len(c)
LeadNumber(c, k) == k
Leading == INSTANCE Recursion WITH Dom <- LeadNumbers, Size <- LeadNumber, Def <- Lead

Leads(led, parts) == led = [k \in 1 .. Len(parts) |-> Lead(parts, led, k)]

\* There are such items.
LEMMA LeadsOf ==
  ASSUME NEW parts, Len(parts) \in Nat
  PROVE  \E led : Leads(led, parts) /\ Lookup(parts) = led[Len(parts)]
<1> DEFINE n == Len(parts)
           led == CHOOSE f : f = [k \in 1 .. n |-> Lead(parts, f, k)]
<1>1. led = [k \in 1 .. n |-> Lead(parts, led, k)]
  <2>1. LeadNumbers(parts) = 1 .. n /\ n \in Nat
    BY DEF LeadNumbers
  <2> HIDE DEF n
  <2>2. ASSUME NEW k \in 1 .. n, NEW g, NEW h, \A j \in 1 .. n : j < k => g[j] = h[j]
        PROVE  Lead(parts, g, k) = Lead(parts, h, k)
    <3>1. CASE k = 1
      BY <3>1 DEF Lead
    <3>2. CASE k # 1
      <4>1. k - 1 \in 1 .. n /\ k - 1 < k
        BY <2>1, <3>2
      <4>2. g[k - 1] = h[k - 1]
        BY <2>2, <4>1
      <4>3. QED
        BY <3>2, <4>2 DEF Lead
    <3>3. QED
      BY <3>1, <3>2
  <2>3. \A k \in 1 .. n : LeadNumber(parts, k) = k /\ k \in Nat
    BY <2>1 DEF LeadNumber
  <2>4. Leading!Decreasing(parts)
    <3>1. ASSUME NEW k \in 1 .. n, NEW g, NEW h,
                 \A j \in 1 .. n : LeadNumber(parts, j) < LeadNumber(parts, k) => g[j] = h[j]
          PROVE  Lead(parts, g, k) = Lead(parts, h, k)
      <4>1. \A j \in 1 .. n : j < k => g[j] = h[j]
        BY <2>3, <3>1
      <4>2. QED
        BY <2>2, <4>1
    <3>2. QED
      BY <2>1, <2>3, <3>1 DEF Leading!Decreasing
  <2>5. \E f : f = [k \in LeadNumbers(parts) |-> Lead(parts, f, k)]
    BY <2>4, Leading!RecursionDefines
  <2>6. \E f : f = [k \in 1 .. n |-> Lead(parts, f, k)]
    BY <2>1, <2>5
  <2>7. QED
    BY <2>6
<1>2. Lookup(parts) = led[n]
  BY DEF Lookup, Lead
<1> HIDE DEF led
<1>3. QED
  BY <1>1, <1>2 DEF Leads

\* Step by step.
LEMMA LeadsStep ==
  ASSUME NEW parts, Len(parts) \in Nat, NEW led, Leads(led, parts), NEW k \in 1 .. Len(parts)
  PROVE  led[k] = Lead(parts, led, k)
BY DEF Leads

\* The beginning of a path leads to the same items.
LEMMA LeadsPrefix ==
  ASSUME NEW parts \in Seq(STRING), NEW led, Leads(led, parts), NEW m \in 1 .. Len(parts)
  PROVE  Lookup(SubSeq(parts, 1, m)) = led[m]
<1> DEFINE first == SubSeq(parts, 1, m)
<1>1. Len(parts) \in Nat /\ m \in Nat /\ m <= Len(parts)
  OBVIOUS
<1>2. Len(first) = m /\ \A k \in 1 .. m : first[k] = parts[k]
  BY <1>1
<1> HIDE DEF first
<1>3. PICK low : Leads(low, first) /\ Lookup(first) = low[m]
  BY <1>1, <1>2, LeadsOf
<1> DEFINE T == {k \in 1 .. m : low[k] # led[k]}
<1>4. T = {}
  <2> SUFFICES ASSUME T # {} PROVE FALSE
    OBVIOUS
  <2>1. PICK k \in T : \A j \in T : k <= j
    <3>1. T \subseteq Nat
      BY <1>1
    <3> HIDE DEF T
    <3>2. QED
      BY <3>1, Numbers!LeastNumber
  <2>2. k \in 1 .. m /\ low[k] # led[k]
    BY <2>1
  <2>3. low[k] = Lead(first, low, k) /\ led[k] = Lead(parts, led, k)
    <3>1. k \in 1 .. Len(first) /\ k \in 1 .. Len(parts) /\ Len(first) \in Nat
      BY <1>1, <1>2, <2>2
    <3>2. QED
      BY <1>1, <1>3, <3>1, LeadsStep
  <2>4. first[k] = parts[k]
    BY <1>2, <2>2
  <2>5. CASE k = 1
    BY <2>2, <2>3, <2>4, <2>5 DEF Lead
  <2>6. CASE k # 1
    <3>1. k - 1 \in 1 .. m /\ k - 1 < k
      BY <1>1, <2>2, <2>6
    <3>2. k - 1 \notin T
      <4> HIDE DEF T
      <4>1. k \in Int
        BY <2>2
      <4>2. QED
        BY <2>1, <3>1, <4>1
    <3>3. low[k - 1] = led[k - 1]
      BY <3>1, <3>2
    <3>4. QED
      BY <2>2, <2>3, <2>4, <2>6, <3>3 DEF Lead
  <2>7. QED
    BY <2>5, <2>6
<1>5. m \in 1 .. m
  BY <1>1
<1>6. QED
  BY <1>3, <1>4, <1>5 DEF first

\* Names of items in use.
Plain(parts) ==
  /\ parts \in Seq(STRING) /\ Len(parts) # 0
  /\ \A k \in 1 .. Len(parts) : parts[k] # EndOfDirectory /\ parts[k] # Unused

\* A path leads to items of the volume, one or none.
LEMMA LeadsToOne ==
  ASSUME InOrder, volume \in Volumes, NEW parts, Plain(parts), NEW led, Leads(led, parts),
         NEW k \in 1 .. Len(parts)
  PROVE  led[k] \subseteq ItemsOf(volume) /\ \A i, j \in led[k] : i = j
<1> DEFINE n == Len(parts)
           Fit(l) == led[l] \subseteq ItemsOf(volume) /\ \A i, j \in led[l] : i = j
           T == {l \in 1 .. n : ~Fit(l)}
<1>1. n \in Nat
  BY DEF Plain
<1>2. \A entries, name : Named(entries, name) \subseteq ItemsOf(volume)
  BY DEF Named, ItemAt, ItemsOf
<1>3. ASSUME NEW entries, Apart(volume, entries), NEW name, NEW i \in Named(entries, name),
             NEW j \in Named(entries, name)
      PROVE  i = j
  <2>1. PICK q \in entries : i = ItemAt(volume, q) /\ i.name = name
    BY DEF Named
  <2>2. PICK r \in entries : j = ItemAt(volume, r) /\ j.name = name
    BY DEF Named
  <2>3. q = r
    BY <1>3, <2>1, <2>2 DEF Apart
  <2>4. QED
    BY <2>1, <2>2, <2>3
<1>4. T = {}
  <2> SUFFICES ASSUME T # {} PROVE FALSE
    OBVIOUS
  <2>1. PICK l \in T : \A j \in T : l <= j
    <3>1. T \subseteq Nat
      BY <1>1
    <3> HIDE DEF T
    <3>2. QED
      BY <3>1, Numbers!LeastNumber
  <2>2. l \in 1 .. n /\ ~Fit(l)
    BY <2>1
  <2>3. led[l] = Lead(parts, led, l)
    BY <1>1, <2>2, LeadsStep
  <2>4. CASE l = 1
    <3>1. led[l] = Named(RootEntries(volume), parts[1])
      BY <2>3, <2>4 DEF Lead
    <3>2. Fit(l)
      BY <1>2, <1>3, <3>1, DirectoriesApart
    <3>3. QED
      BY <2>2, <3>2
  <2>5. CASE l # 1
    <3>1. l - 1 \in 1 .. n /\ l - 1 < l
      BY <1>1, <2>2, <2>5
    <3>2. l - 1 \notin T
      <4> HIDE DEF T
      <4>1. l \in Int
        BY <2>2
      <4>2. QED
        BY <2>1, <3>1, <4>1
    <3>3. Fit(l - 1)
      <4> HIDE DEF Fit
      <4>1. QED
        BY <3>1, <3>2
    <3>4. led[l] = UNION {Named(EntriesOf(volume, d), parts[l]) : d \in {i \in led[l - 1] : i.dir}}
      BY <2>3, <2>5 DEF Lead
    <3>5. led[l] \subseteq ItemsOf(volume)
      BY <1>2, <3>4
    <3>6. ASSUME NEW i \in led[l], NEW j \in led[l] PROVE i = j
      <4>1. PICK d \in led[l - 1] : d.dir /\ i \in Named(EntriesOf(volume, d), parts[l])
        BY <3>4
      <4>2. PICK e \in led[l - 1] : e.dir /\ j \in Named(EntriesOf(volume, e), parts[l])
        BY <3>4
      <4>3. d = e /\ d \in ItemsOf(volume)
        BY <3>3
      <4>4. Apart(volume, EntriesOf(volume, d))
        BY <4>1, <4>3, DirectoriesApart
      <4>5. QED
        BY <1>3, <4>1, <4>2, <4>3, <4>4
    <3>7. QED
      BY <2>2, <3>5, <3>6
  <2>6. QED
    BY <2>4, <2>5
<1>5. Fit(k)
  <2> HIDE DEF Fit
  <2>1. QED
    BY <1>4
<1>6. QED
  BY <1>5

\* The next part of a path leads into the directory before it, if there is one.
LEMMA LeadsOn ==
  ASSUME InOrder, volume \in Volumes, NEW parts, Plain(parts), NEW led, Leads(led, parts),
         NEW k \in 2 .. Len(parts)
  PROVE  /\ (\A i \in led[k - 1] : ~i.dir) => led[k] = {}
         /\ \A i \in led[k - 1] : i.dir => led[k] = Named(EntriesOf(volume, i), parts[k])
<1>1. Len(parts) \in Nat /\ k \in 1 .. Len(parts) /\ k - 1 \in 1 .. Len(parts) /\ k # 1
  BY DEF Plain
<1>2. led[k] = UNION {Named(EntriesOf(volume, d), parts[k]) : d \in {i \in led[k - 1] : i.dir}}
  <2>1. led[k] = Lead(parts, led, k)
    BY <1>1, LeadsStep
  <2>2. QED
    BY <1>1, <2>1 DEF Lead
<1>3. \A i, j \in led[k - 1] : i = j
  BY <1>1, LeadsToOne
<1> DEFINE dirs == {i \in led[k - 1] : i.dir}
<1>4. ASSUME \A i \in led[k - 1] : ~i.dir PROVE led[k] = {}
  <2>1. dirs = {}
    BY <1>4
  <2> HIDE DEF dirs
  <2>2. QED
    BY <1>2, <2>1 DEF dirs
<1>5. ASSUME NEW i \in led[k - 1], i.dir PROVE led[k] = Named(EntriesOf(volume, i), parts[k])
  <2>1. dirs = {i}
    BY <1>3, <1>5
  <2>2. led[k] = UNION {Named(EntriesOf(volume, d), parts[k]) : d \in {i}}
    BY <1>2, <2>1
  <2>3. QED
    BY <2>2
<1>6. QED
  BY <1>4, <1>5

\* A walk after k parts is at what they lead to, or broke off: where nothing was
\* found, or at a file, which is lost.
Off(led, k, r) ==
  /\ DOMAIN r = SearchFields /\ ~r.hung /\ r.broke /\ r.item = NoItem
  /\ r.stray => k > 2
  /\ NoneUnused(volume) => led[k] = {}
  /\ r.grown = 0 \/ \E j \in 1 .. k - 1 : \E i \in led[j] : ~i.dir

Way(led, k, r) == Finds(led[k], r) \/ Off(led, k, r)

\* It starts in the root directory.
LEMMA WayStarts ==
  ASSUME InOrder, volume \in Volumes, NEW parts, Plain(parts), NEW led, Leads(led, parts),
         NEW stream \in Nat, ~fat16_get_root_directory(volume).hung,
         NEW here, here = AtRoot(stream, fat16_get_root_directory(volume))
  PROVE  Way(led, 1, Onwards(volume, here, parts[1], 1))
<1> DEFINE root == fat16_get_root_directory(volume)
           at == [NoDirectory(stream) EXCEPT !.hung = root.hung, !.item = root.item,
                                             !.total = root.total]
           found == fat16_find_item_in_directory(volume, here.pos, here.directory, parts[1])
           p == RootSector * SectorSize
<1>1. /\ at.hung = root.hung /\ at.pos = stream /\ at.item = root.item /\ at.total = root.total
  BY DEF NoDirectory
<1>2. here = Found([dir |-> TRUE], at, 0)
  BY DEF AtRoot
<1>3. ~root.hung
  OBVIOUS
<1> HIDE DEF at
<1>4. /\ ~here.hung /\ ~here.broke /\ here.item = [dir |-> TRUE] /\ here.pos = stream
      /\ here.directory = at
  BY <1>1, <1>2, <1>3 DEF Found
<1>5. [dir |-> TRUE] # NoItem
  <2>1. DOMAIN [dir |-> TRUE] = {"dir"} /\ DOMAIN NoItem = {"name"}
    BY DEF NoItem
  <2>2. "dir" \notin {"name"}
    OBVIOUS
  <2>3. QED
    BY <2>1, <2>2
<1>6. Onwards(volume, here, parts[1], 1) = found
  BY <1>4, <1>5 DEF Onwards, Onto
<1>7. Lists(volume, here.directory, p, RootDirEntries)
  BY <1>1, <1>3, <1>4, RootListed
<1>8. p \in Nat /\ RootDirEntries \in Nat
  BY Fat16Assumption, DiskStreamAssumption DEF RootSector
<1>9. 1 \in 1 .. Len(parts) /\ Len(parts) \in Nat
  BY DEF Plain
<1>10. led[1] = Named(RootEntries(volume), parts[1])
  BY <1>9, LeadsStep DEF Lead
<1> HIDE DEF root, p, found
<1>11. RootEntries(volume) = Entries(volume, p, RootDirEntries) /\ Apart(volume, RootEntries(volume))
  BY DirectoriesApart DEF RootEntries, p
<1>12. parts[1] # EndOfDirectory /\ parts[1] # Unused
  BY <1>9 DEF Plain
<1>13. Finds(Named(RootEntries(volume), parts[1]), found)
  BY <1>4, <1>7, <1>8, <1>11, <1>12, FindsOf DEF found
<1>14. QED
  BY <1>6, <1>10, <1>13 DEF Way

\* It goes on from what the parts before lead to.
LEMMA WayGoesOn ==
  ASSUME InOrder, volume \in Volumes, NEW parts, Plain(parts), NEW led, Leads(led, parts),
         NEW k \in 2 .. Len(parts), NEW here, Way(led, k - 1, here)
  PROVE  Way(led, k, Onwards(volume, here, parts[k], k))
<1> DEFINE next == Onwards(volume, here, parts[k], k)
           found == fat16_find_item_in_directory(volume, here.pos, here.directory, parts[k])
           item == here.item
           stray == here.stray \/ k > 2
           grown == here.grown + found.grown - ItemBlocks(item)
           lost == here.stray \/ found.stray
<1>1. Len(parts) \in Nat /\ k \in Nat /\ k - 1 \in 1 .. Len(parts) /\ k \in 1 .. Len(parts) /\ k # 1
  BY DEF Plain
<1>2. /\ (\A i \in led[k - 1] : ~i.dir) => led[k] = {}
      /\ \A i \in led[k - 1] : i.dir => led[k] = Named(EntriesOf(volume, i), parts[k])
      /\ led[k - 1] \subseteq ItemsOf(volume) /\ \A i, j \in led[k - 1] : i = j
  BY <1>1, LeadsOn, LeadsToOne
<1>3. next = Onto(here, found, k)
  BY DEF Onwards
<1>4. CASE Off(led, k - 1, here)
  <2>1. here.broke
    BY <1>4 DEF Off
  <2>2. next = here
    BY <1>3, <2>1 DEF Onto
  <2>3. NoneUnused(volume) => led[k] = {}
    BY <1>2, <1>4 DEF Off
  <2>4. 1 .. (k - 1) - 1 \subseteq 1 .. k - 1 /\ (k - 1 > 2 => k > 2)
    BY <1>1
  <2> HIDE DEF next
  <2>5. Off(led, k, next)
    BY <1>4, <2>2, <2>3, <2>4 DEF Off
  <2>6. QED
    BY <2>5 DEF Way, next
<1>5. CASE Finds(led[k - 1], here) /\ item = NoItem
  <2>1. /\ DOMAIN here = SearchFields /\ ~here.hung /\ ~here.stray /\ ~here.broke
        /\ here.grown = 0 /\ (NoneUnused(volume) => led[k - 1] = {})
    BY <1>5 DEF Finds
  <2>2. next = [here EXCEPT !.broke = TRUE, !.stray = stray]
    BY <1>3, <1>5, <2>1 DEF Onto
  <2> HIDE DEF next, stray
  <2>3. /\ DOMAIN next = SearchFields /\ ~next.hung /\ next.broke /\ next.item = NoItem
        /\ next.grown = 0 /\ next.stray = stray
    BY <1>5, <2>1, <2>2 DEF SearchFields
  <2>4. stray => k > 2
    BY <2>1 DEF stray
  <2>5. NoneUnused(volume) => led[k] = {}
    BY <1>2, <2>1
  <2>6. Off(led, k, next)
    BY <2>3, <2>4, <2>5 DEF Off
  <2>7. QED
    BY <2>6 DEF Way, next
<1>6. CASE Finds(led[k - 1], here) /\ item # NoItem /\ ~item.dir
  <2>1. /\ DOMAIN here = SearchFields /\ ~here.hung /\ ~here.stray /\ ~here.broke
        /\ item \in led[k - 1]
    BY <1>6 DEF Finds
  <2>2. next = [here EXCEPT !.broke = TRUE, !.item = NoItem]
    BY <1>3, <1>6, <2>1 DEF Onto
  <2>3. led[k] = {}
    BY <1>2, <1>6, <2>1
  <2>4. \E j \in 1 .. k - 1 : \E i \in led[j] : ~i.dir
    <3>1. k - 1 \in 1 .. k - 1
      BY <1>1
    <3>2. QED
      BY <1>6, <2>1, <3>1
  <2> HIDE DEF next, item
  <2>5. /\ DOMAIN next = SearchFields /\ ~next.hung /\ next.broke /\ next.item = NoItem
        /\ ~next.stray
    BY <2>1, <2>2 DEF SearchFields
  <2>6. Off(led, k, next)
    BY <2>3, <2>4, <2>5 DEF Off
  <2>7. QED
    BY <2>6 DEF Way, next
<1>7. CASE Finds(led[k - 1], here) /\ item # NoItem /\ item.dir
  <2>1. /\ ~here.hung /\ ~here.stray /\ ~here.broke /\ here.pos \in Nat
        /\ item \in led[k - 1] /\ item \in ItemsOf(volume) /\ here.grown = ItemBlocks(item)
        /\ DirectoryRead(volume, here.directory, item)
    BY <1>7 DEF Finds
  <2>2. next = [found EXCEPT !.grown = grown, !.stray = lost]
    BY <1>1, <1>3, <1>7, <2>1 DEF Onto, Step
  <2> DEFINE items == Named(EntriesOf(volume, item), parts[k])
             p == ClusterPlace(item.cluster)
  <2>3. led[k] = items
    BY <1>2, <1>7, <2>1
  <2>4. Finds(items, found)
    <3>1. Lists(volume, here.directory, p, ClusterItems)
      BY <2>1 DEF DirectoryRead
    <3>2. p \in Nat
      <4>1. item.cluster \in Nat
        BY <2>1, VolumeFormatted, ReadableFormatted DEF Readable
      <4>2. p = ClusterStart(item.cluster)
        BY DEF ClusterPlace, ClusterStart, fat16_sector_to_absolute, fat16_cluster_to_sector
      <4>3. QED
        BY <4>1, <4>2, PlacesOf
    <3>3. Apart(volume, EntriesOf(volume, item))
      BY <1>7, <2>1, DirectoriesApart
    <3> HIDE DEF p, item, found
    <3>4. EntriesOf(volume, item) = Entries(volume, p, ClusterItems) /\ ClusterItems \in Nat
      BY ClusterHolds DEF EntriesOf, p
    <3>5. parts[k] # EndOfDirectory /\ parts[k] # Unused
      BY <1>1 DEF Plain
    <3>6. QED
      BY <2>1, <3>1, <3>2, <3>3, <3>4, <3>5, FindsOf DEF found
  <2> DEFINE b == ItemBlocks(item)
             f == found.grown
  <2>5. b \in Nat /\ f \in Nat
    <3>1. \A i : ItemBlocks(i) \in Nat
      BY DEF ItemBlocks
    <3>2. QED
      BY <2>4, <3>1 DEF Finds
  <2>6. grown = f
    <3>1. grown = b + f - b
      BY <2>1
    <3> HIDE DEF grown, b, f
    <3>2. QED
      BY <2>5, <3>1
  <2>7. DOMAIN found = SearchFields /\ ~found.stray
    BY <2>4 DEF Finds
  <2>8. ~lost
    BY <2>1, <2>7
  <2> HIDE DEF next, grown, lost, found, items, item
  <2>9. /\ DOMAIN next = SearchFields /\ next.hung = found.hung /\ next.stray = lost
        /\ next.broke = found.broke /\ next.pos = found.pos /\ next.item = found.item
        /\ next.grown = grown /\ next.directory = found.directory
    BY <2>2, <2>7 DEF SearchFields
  <2>10. Finds(items, next)
    BY <2>4, <2>6, <2>8, <2>9 DEF Finds, f
  <2>11. QED
    BY <2>3, <2>10 DEF Way, next
<1>8. QED
  BY <1>4, <1>5, <1>6, <1>7 DEF Way

\* A walk finds what the path leads to, from wherever the stream stands.
LEMMA WayOf ==
  ASSUME InOrder, volume \in Volumes, NEW parts, Plain(parts), NEW led, Leads(led, parts),
         NEW stream \in Nat, ~fat16_get_root_directory(volume).hung,
         NEW walk, Walk(walk, volume, stream, fat16_get_root_directory(volume), parts),
         NEW k \in 1 .. Len(parts)
  PROVE  Way(led, k, walk[k])
<1> DEFINE n == Len(parts)
           T == {l \in 1 .. n : ~Way(led, l, walk[l])}
<1>1. n \in Nat
  BY DEF Plain
<1>2. /\ walk[0] = AtRoot(stream, fat16_get_root_directory(volume))
      /\ \A l \in 1 .. n : walk[l] = Onwards(volume, walk[l - 1], parts[l], l)
  BY DEF Walk
<1>3. T = {}
  <2> SUFFICES ASSUME T # {} PROVE FALSE
    OBVIOUS
  <2>1. PICK l \in T : \A j \in T : l <= j
    <3>1. T \subseteq Nat
      BY <1>1
    <3> HIDE DEF T
    <3>2. QED
      BY <3>1, Numbers!LeastNumber
  <2>2. l \in 1 .. n /\ ~Way(led, l, walk[l])
    BY <2>1
  <2>3. walk[l] = Onwards(volume, walk[l - 1], parts[l], l)
    BY <1>2, <2>2
  <2>4. CASE l = 1
    <3>1. walk[l - 1] = walk[0]
      BY <2>4
    <3>2. Way(led, 1, Onwards(volume, walk[0], parts[1], 1))
      BY <1>2, WayStarts
    <3>3. QED
      BY <2>2, <2>3, <2>4, <3>1, <3>2
  <2>5. CASE l # 1
    <3>1. l - 1 \in 1 .. n /\ l - 1 < l /\ l \in 2 .. n
      BY <1>1, <2>2, <2>5
    <3>2. l - 1 \notin T
      <4> HIDE DEF T
      <4>1. l \in Int
        BY <2>2
      <4>2. QED
        BY <2>1, <3>1, <4>1
    <3>3. Way(led, l - 1, walk[l - 1])
      BY <3>1, <3>2
    <3>4. Way(led, l, Onwards(volume, walk[l - 1], parts[l], l))
      BY <3>1, <3>3, WayGoesOn
    <3>5. QED
      BY <2>2, <2>3, <3>4
  <2>6. QED
    BY <2>4, <2>5
<1>4. QED
  BY <1>3

\* The names of a path from number k on, of which there are m.
NamesFrom(path, k, m) == [l \in 1 .. m |-> path[2 * (k + l - 1) + 2]]

\* One name more in front of the others.
LEMMA NamesJoin ==
  ASSUME NEW path \in Seq(STRING), NEW k \in Nat \ {0}, NEW m \in Nat,
         2 * (k + m) + 2 <= Len(path)
  PROVE  <<path[2 * k + 2]>> \o NamesFrom(path, k + 1, m) = NamesFrom(path, k, m + 1)
<1> DEFINE u == <<path[2 * k + 2]>>
           v == NamesFrom(path, k + 1, m)
           w == NamesFrom(path, k, m + 1)
           x == u \o v
<1>1. Len(path) \in Nat /\ \A i \in 1 .. Len(path) : path[i] \in STRING
  OBVIOUS
<1>2. \A l \in 1 .. m : 2 * ((k + 1) + l - 1) + 2 \in 1 .. Len(path)
                        /\ (k + 1) + l - 1 = k + (l + 1) - 1
  BY <1>1
<1>3. \A l \in 1 .. m + 1 : 2 * (k + l - 1) + 2 \in 1 .. Len(path)
  BY <1>1
<1>4. v \in Seq(STRING) /\ Len(v) = m
  BY <1>1, <1>2 DEF NamesFrom
<1>5. w \in Seq(STRING) /\ Len(w) = m + 1
  <2>1. m + 1 \in Nat
    OBVIOUS
  <2>2. QED
    BY <1>1, <1>3, <2>1 DEF NamesFrom
<1>6. u \in Seq(STRING) /\ Len(u) = 1 /\ u[1] = path[2 * k + 2]
  <2>1. path[2 * k + 2] \in STRING
    <3>1. 2 * k + 2 \in 1 .. Len(path)
      BY <1>1
    <3>2. QED
      BY <1>1, <3>1
  <2>2. QED
    BY <2>1
<1>7. \A l \in 1 .. m : v[l] = path[2 * ((k + 1) + l - 1) + 2]
  BY DEF NamesFrom
<1>8. \A l \in 1 .. m + 1 : w[l] = path[2 * (k + l - 1) + 2]
  BY DEF NamesFrom
<1> HIDE DEF u, v, w
<1>9. /\ x \in Seq(STRING) /\ Len(x) = 1 + m
      /\ \A l \in 1 .. 1 + m : x[l] = IF l <= 1 THEN u[l] ELSE v[l - 1]
  <2>1. /\ x \in Seq(STRING) /\ Len(x) = Len(u) + Len(v)
        /\ \A l \in 1 .. Len(u) + Len(v) : x[l] = IF l <= Len(u) THEN u[l] ELSE v[l - Len(u)]
    BY <1>4, <1>6, ConcatProperties
  <2> HIDE DEF x
  <2>2. QED
    BY <1>4, <1>6, <2>1
<1> HIDE DEF x
<1>10. ASSUME NEW l \in 1 .. m + 1 PROVE x[l] = w[l]
  <2>1. CASE l = 1
    <3>1. 2 * (k + l - 1) + 2 = 2 * k + 2 /\ l \in 1 .. 1 + m
      BY <2>1
    <3>2. QED
      BY <1>6, <1>8, <1>9, <2>1, <3>1
  <2>2. CASE l # 1
    <3>1. l - 1 \in 1 .. m /\ (k + 1) + (l - 1) - 1 = k + l - 1 /\ l \in 1 .. 1 + m /\ ~(l <= 1)
      BY <2>2
    <3>2. x[l] = v[l - 1] /\ v[l - 1] = path[2 * ((k + 1) + (l - 1) - 1) + 2]
      BY <1>7, <1>9, <3>1
    <3>3. QED
      BY <1>8, <3>1, <3>2
  <2>3. QED
    BY <2>1, <2>2
<1>11. x = w
  <2>1. Len(x) = Len(w) /\ \A l \in 1 .. Len(x) : x[l] = w[l]
    BY <1>5, <1>9, <1>10
  <2>2. QED
    BY <1>5, <1>9, <2>1, SeqEqual
<1>12. QED
  BY <1>11 DEF x, u, v, w

\* The names of the items on the way are not separators.
Separated(path) ==
  \A i \in 4 .. Len(path) : i % 2 = 0 => path[i] # "/"

\* The path parser gives the names of a path.
LEMMA PartsAreNames ==
  ASSUME NEW path \in Seq(STRING), Len(path) >= 3, Separated(path)
  PROVE  PathParts(path) = NamesOf(path)
<1> DEFINE n == (Len(path) - 2) \div 2
<1>1. /\ Len(path) \in Nat /\ n \in Nat /\ 2 * n + 2 <= Len(path) /\ Len(path) < 2 * n + 4
  OBVIOUS
<1>2. NamesOf(path) = [k \in 1 .. n |-> path[2 * k + 2]]
  BY DEF NamesOf
<1> HIDE DEF n
<1>3. PICK parts : parts = [i \in Nat |-> PartStep(path, parts, i)] /\ PathParts(path) = parts[4]
  BY PartingOf
<1> DEFINE Fit(m) == parts[2 * (n - m + 1) + 2] = NamesFrom(path, n - m + 1, m)
           T == {m \in 0 .. n : ~Fit(m)}
<1>4. T = {}
  <2> SUFFICES ASSUME T # {} PROVE FALSE
    OBVIOUS
  <2>1. PICK m \in T : \A j \in T : m <= j
    <3>1. T \subseteq Nat
      BY <1>1
    <3> HIDE DEF T
    <3>2. QED
      BY <3>1, Numbers!LeastNumber
  <2>2. m \in 0 .. n /\ ~Fit(m)
    BY <2>1
  <2> DEFINE k == n - m + 1
  <2>3. k \in Nat \ {0} /\ 2 * k + 2 \in Nat /\ m \in Nat
    BY <1>1, <2>2
  <2>4. parts[2 * k + 2] = PartStep(path, parts, 2 * k + 2)
    BY <1>3, <2>3
  <2>5. CASE m = 0
    <3>1. 2 * k + 2 > Len(path)
      BY <1>1, <2>5
    <3>2. parts[2 * k + 2] = <<>>
      BY <2>4, <3>1 DEF PartStep
    <3>3. NamesFrom(path, k, m) = <<>>
      BY <2>5 DEF NamesFrom
    <3>4. QED
      BY <2>2, <3>2, <3>3
  <2>6. CASE m # 0
    <3>1. /\ m - 1 \in 0 .. n /\ m - 1 < m /\ m - 1 \in Nat /\ n - (m - 1) + 1 = k + 1
          /\ 2 * (k + (m - 1)) + 2 <= Len(path) /\ (m - 1) + 1 = m
          /\ 2 * k + 2 \in 4 .. Len(path) /\ (2 * k + 2) % 2 = 0
          /\ 2 * (k + 1) + 2 = (2 * k + 2) + 2
      BY <1>1, <2>2, <2>3, <2>6
    <3>2. m - 1 \notin T
      <4> HIDE DEF T
      <4>1. QED
        BY <2>1, <2>3, <3>1
    <3>3. Fit(m - 1)
      <4> HIDE DEF Fit
      <4>1. QED
        BY <3>1, <3>2
    <3>4. parts[2 * (k + 1) + 2] = NamesFrom(path, k + 1, m - 1)
      BY <3>1, <3>3
    <3>5. path[2 * k + 2] # "/" /\ ~(2 * k + 2 > Len(path))
      BY <1>1, <3>1 DEF Separated
    <3> HIDE DEF k
    <3>6. parts[2 * k + 2] = <<path[2 * k + 2]>> \o parts[(2 * k + 2) + 2]
      BY <2>4, <3>5 DEF PartStep
    <3>7. parts[2 * k + 2] = <<path[2 * k + 2]>> \o NamesFrom(path, k + 1, m - 1)
      BY <3>1, <3>4, <3>6
    <3>8. <<path[2 * k + 2]>> \o NamesFrom(path, k + 1, m - 1) = NamesFrom(path, k, (m - 1) + 1)
      BY <2>3, <3>1, NamesJoin
    <3>9. QED
      BY <2>2, <3>1, <3>7, <3>8 DEF k
  <2>7. QED
    BY <2>5, <2>6
<1>5. Fit(n)
  <2>1. n \in 0 .. n
    BY <1>1
  <2> HIDE DEF Fit
  <2>2. QED
    BY <1>4, <2>1
<1>6. n - n + 1 = 1 /\ 2 * (n - n + 1) + 2 = 4
  BY <1>1
<1>7. parts[4] = NamesFrom(path, 1, n)
  BY <1>5, <1>6
<1>8. NamesFrom(path, 1, n) = [k \in 1 .. n |-> path[2 * k + 2]]
  <2>1. \A l \in 1 .. n : 2 * (1 + l - 1) + 2 = 2 * l + 2
    BY <1>1
  <2>2. QED
    BY <2>1 DEF NamesFrom
<1>9. QED
  BY <1>2, <1>3, <1>7, <1>8
------------------------------------------------------------------------------
(***************************************************************************)
(* Opens.                                                                  *)
(***************************************************************************)

\* A path is parsed into its names.
LEMMA ParseOf ==
  ASSUME PathsSplit, NEW path \in Paths
  PROVE  /\ pathparser_parse(path).blocks \in Nat
         /\ ~pathparser_path_valid_format(path) => ~pathparser_parse(path).ok
         /\ pathparser_path_valid_format(path) =>
              /\ pathparser_parse(path).ok
              /\ pathparser_parse(path).parts = NamesOf(path)
              /\ path[1] = "0" => pathparser_parse(path).drive = 0
<1> DEFINE parsed == pathparser_parse(path)
           b == 1 + 2 * Len(PathParts(path))
           drive == pathparser_get_drive_by_path(path)
<1>1. path \in Seq(STRING) /\ Len(path) <= MaxPath /\ Len(path) \in Nat /\ MaxPath \in Nat
  BY FilesAssumption DEF PathsSplit
<1>2. b \in Nat
  <2>1. PathParts(path) \in Seq(STRING)
    BY <1>1, PartsOf
  <2>2. Len(PathParts(path)) \in Nat
    BY <2>1
  <2>3. QED
    BY <2>2
<1>3. parsed = IF Len(path) > MaxPath \/ ~pathparser_path_valid_format(path)
                 THEN [ok |-> FALSE, blocks |-> 0]
                 ELSE [ok |-> TRUE, drive |-> drive, parts |-> PathParts(path), blocks |-> b]
  BY DEF pathparser_parse
<1>4. ~(Len(path) > MaxPath)
  BY <1>1
<1> HIDE DEF parsed, b, drive
<1>5. CASE ~pathparser_path_valid_format(path)
  <2>1. parsed = [ok |-> FALSE, blocks |-> 0]
    BY <1>3, <1>5
  <2>2. parsed.blocks = 0 /\ ~parsed.ok
    BY <2>1
  <2>3. QED
    BY <1>5, <2>2 DEF parsed
<1>6. CASE pathparser_path_valid_format(path)
  <2>1. parsed = [ok |-> TRUE, drive |-> drive, parts |-> PathParts(path), blocks |-> b]
    BY <1>3, <1>4, <1>6
  <2>2. Len(path) >= 3 /\ Separated(path)
    <3>1. Len(path) >= 3
      BY <1>6 DEF pathparser_path_valid_format
    <3>2. ASSUME NEW i \in 4 .. Len(path), i % 2 = 0 PROVE path[i] # "/"
      <4>1. IF i % 2 = 1 THEN path[i] = "/" ELSE path[i] \notin {"/", EndOfDirectory, Unused}
        BY DEF PathsSplit
      <4>2. ~(i % 2 = 1)
        BY <3>2
      <4>3. QED
        BY <4>1, <4>2
    <3>3. QED
      BY <3>1, <3>2 DEF Separated
  <2>3. PathParts(path) = NamesOf(path)
    BY <1>1, <2>2, PartsAreNames
  <2>4. parsed.ok /\ parsed.parts = NamesOf(path) /\ parsed.blocks = b /\ parsed.drive = drive
    BY <2>1, <2>3
  <2>5. path[1] = "0" => drive = 0
    BY DEF drive, pathparser_get_drive_by_path
  <2>6. QED
    BY <1>2, <1>6, <2>4, <2>5 DEF parsed
<1>7. QED
  BY <1>5, <1>6

\* Its names are those of items in use.
LEMMA NamesPlain ==
  ASSUME PathsSplit, NEW path \in Paths, NamesOf(path) # <<>>, Len(path) >= 3
  PROVE  Plain(NamesOf(path))
<1> DEFINE n == (Len(path) - 2) \div 2
           names == NamesOf(path)
<1>1. path \in Seq(STRING)
  BY FilesAssumption
<1>2. Len(path) \in Nat /\ n \in Nat /\ 2 * n + 2 <= Len(path)
  BY <1>1
<1>3. names = [k \in 1 .. n |-> path[2 * k + 2]]
  BY DEF NamesOf
<1> HIDE DEF n, names
<1>4. \A k \in 1 .. n : 2 * k + 2 \in 4 .. Len(path) /\ ~((2 * k + 2) % 2 = 1)
  BY <1>2
<1>5. \A k \in 1 .. n : path[2 * k + 2] \in STRING
  BY <1>1, <1>2, <1>4
<1>6. names \in Seq(STRING) /\ Len(names) = n
  BY <1>2, <1>3, <1>5
<1>7. \A i \in 4 .. Len(path) :
        IF i % 2 = 1 THEN path[i] = "/" ELSE path[i] \notin {"/", EndOfDirectory, Unused}
  BY DEF PathsSplit
<1>8. \A k \in 1 .. n : path[2 * k + 2] # EndOfDirectory /\ path[2 * k + 2] # Unused
  BY <1>4, <1>7
<1>9. names # <<>>
  BY DEF names
<1>10. n # 0
  BY <1>6, <1>9
<1>11. QED
  BY <1>3, <1>6, <1>8, <1>10 DEF Plain, names

\* The root directory of the disk is the one of the volume, and was read.
MountedRoot ==
  /\ volume \in Volumes
  /\ disk.ours => /\ disk.root_directory = fat16_get_root_directory(volume)
                  /\ ~disk.root_directory.hung

\* What an open of a path gives: an item that the path leads to, or none, and then
\* what a walk that broke off has lost.
Opens(path, mode, mem, o) ==
  LET items == Lookup(NamesOf(path))
  IN /\ ~o.hung
     /\ \/ /\ o.res >= 0 /\ o.item \in items /\ o.item \in ItemsOf(volume)
           /\ o.grown = ItemBlocks(o.item) + 1 /\ ~o.stray
        \/ /\ ~(o.res >= 0)
           /\ o.stray => Len(NamesOf(path)) > 2
           /\ o.grown = 0 \/ ThroughFile(path)
           /\ mode = "r" /\ mem /\ NoneUnused(volume) => items = {}

\* fat16_open does what Opens says: where the stream ends, what is found, and when
\* memory or a cluster chain is at fault.
LEMMA OpensOf ==
  ASSUME InOrder, PathsSplit, MountedRoot, disk.ours, NEW stream \in Nat, NEW path \in Paths,
         Plain(NamesOf(path)), NEW mode, NEW mem
  PROVE  Opens(path, mode, mem,
               fat16_open(volume, stream, disk.root_directory, NamesOf(path), mode, mem))
<1> DEFINE names == NamesOf(path)
           n == Len(names)
           root == fat16_get_root_directory(volume)
           entry == fat16_get_directory_entry(volume, stream, root, names)
           o == fat16_open(volume, stream, root, names, mode, mem)
           grown == entry.grown + (IF entry.item = NoItem THEN 0 ELSE 1)
           Failed(err) == [res |-> -err, item |-> NoItem, grown |-> 0, pos |-> stream,
                           hung |-> FALSE, stray |-> FALSE]
<1>1. disk.root_directory = root /\ ~root.hung /\ volume \in Volumes
  BY DEF MountedRoot
<1>2. names \in Seq(STRING) /\ n \in Nat /\ n \in 1 .. n
  BY DEF Plain
<1>3. PICK led : Leads(led, names) /\ Lookup(names) = led[n]
  BY <1>2, LeadsOf
<1>4. PICK walk : Walk(walk, volume, stream, root, names)
  BY <1>2, WalkOf
<1>5. entry = walk[n]
  BY <1>4 DEF Walk
<1>6. Way(led, n, entry)
  BY <1>1, <1>2, <1>3, <1>4, <1>5, WayOf
<1>7. /\ mode # "r" => o = Failed(ERDONLY)
      /\ mode = "r" /\ ~mem => o = Failed(ENOMEM)
      /\ mode = "r" /\ mem =>
           o = [res   |-> IF entry.item = NoItem THEN -EIO ELSE 0,
                item  |-> entry.item, grown |-> grown,
                pos   |-> entry.pos, hung |-> entry.hung, stray |-> entry.stray]
  BY DEF fat16_open
<1> DEFINE Fit(x) == Opens(path, mode, mem, x)
<1>8. ASSUME NEW err \in {ERDONLY, ENOMEM}, o = Failed(err), ~(mode = "r" /\ mem) PROVE Fit(o)
  <2>1. ~(o.res >= 0) /\ ~o.hung /\ ~o.stray /\ o.grown = 0
    <3> HIDE DEF o
    <3>1. o.res = -err /\ ~o.hung /\ ~o.stray /\ o.grown = 0
      BY <1>8
    <3>2. err \in {6, 3}
      BY DEF ERDONLY, ENOMEM
    <3>3. QED
      BY <3>1, <3>2
  <2>2. QED
    BY <1>8, <2>1 DEF Opens
<1>9. ASSUME o = [res   |-> IF entry.item = NoItem THEN -EIO ELSE 0,
                  item  |-> entry.item, grown |-> grown,
                  pos   |-> entry.pos, hung |-> entry.hung, stray |-> entry.stray]
      PROVE  Fit(o)
  <2> HIDE DEF o, entry, grown
  <2>1. /\ o.res = (IF entry.item = NoItem THEN -EIO ELSE 0) /\ o.item = entry.item
        /\ o.grown = grown /\ o.hung = entry.hung /\ o.stray = entry.stray
    BY <1>9
  <2>2. CASE entry.item # NoItem
    <3>1. Finds(led[n], entry)
      BY <1>6, <2>2 DEF Way, Off
    <3>2. /\ ~entry.hung /\ ~entry.stray /\ entry.item \in led[n]
          /\ entry.item \in ItemsOf(volume) /\ entry.grown = ItemBlocks(entry.item)
      BY <2>2, <3>1 DEF Finds
    <3>3. o.grown = ItemBlocks(o.item) + 1
      BY <2>1, <2>2, <3>2 DEF grown
    <3>4. ~o.hung /\ ~o.stray
      BY <2>1, <3>2
    <3>5. o.res >= 0
      BY <2>1, <2>2
    <3>6. QED
      BY <1>3, <2>1, <3>2, <3>3, <3>4, <3>5 DEF Opens
  <2>3. CASE entry.item = NoItem
    <3>1. grown = entry.grown + 0
      BY <2>3 DEF grown
    <3>2. ~(o.res >= 0)
      BY <2>1, <2>3 DEF EIO
    <3>3. ~entry.hung /\ (entry.stray => n > 2) /\ (NoneUnused(volume) => led[n] = {})
      BY <1>6, <2>3 DEF Way, Off, Finds
    <3>4. o.grown = 0 \/ ThroughFile(path)
      <4>1. CASE entry.grown = 0
        BY <2>1, <3>1, <4>1
      <4>2. CASE entry.grown # 0
        <5>1. Off(led, n, entry)
          BY <1>6, <2>3, <4>2 DEF Way, Finds
        <5>2. PICK j \in 1 .. n - 1 : \E i \in led[j] : ~i.dir
          BY <4>2, <5>1 DEF Off
        <5>3. j \in 1 .. n
          BY <1>2
        <5>4. Lookup(SubSeq(names, 1, j)) = led[j]
          BY <1>2, <1>3, <5>3, LeadsPrefix
        <5>5. QED
          BY <5>2, <5>4 DEF ThroughFile
      <4>3. QED
        BY <4>1, <4>2
    <3>5. ~o.hung /\ (o.stray => n > 2)
      BY <2>1, <3>3
    <3>6. QED
      BY <1>3, <3>2, <3>3, <3>4, <3>5 DEF Opens
  <2>4. QED
    BY <2>2, <2>3
<1> HIDE DEF Failed, o, entry, grown, Fit
<1>10. Fit(o)
  BY <1>7, <1>8, <1>9
<1>11. QED
  BY <1>1, <1>10 DEF Fit, o

\* fopen gives the lowest free descriptor, of an item that the path leads to, or
\* nothing.
Gives(s, path, a) ==
  \E item \in Lookup(NamesOf(path)) :
    /\ pathparser_path_valid_format(path) /\ NamesOf(path) # <<>> /\ disk.ours
    /\ item \in ItemsOf(volume)
    /\ Free(s) # {} /\ a.res = Min(Free(s)) /\ a.fs.descriptors = Opening(s, item)
    /\ a.grown = pathparser_parse(path).blocks + ItemBlocks(item) + 2
    /\ ~a.stray

Denies(s, path, mode, mem, a) ==
  /\ a.res = 0 /\ a.fs.descriptors = s.descriptors
  /\ a.stray => Len(NamesOf(path)) > 2
  /\ a.grown = pathparser_parse(path).blocks \/ Free(s) = {} \/ ThroughFile(path)
  /\ (/\ pathparser_path_valid_format(path) /\ NamesOf(path) # <<>> /\ path[1] = "0"
      /\ disk.ours /\ mode = "r" /\ mem /\ Free(s) # {} /\ NoneUnused(volume)) =>
       Lookup(NamesOf(path)) = {}

Fopened(s, path, mode, mem, a) ==
  ~a.hung /\ (Gives(s, path, a) \/ Denies(s, path, mode, mem, a))

\* fopen gives a descriptor of the item named or denies, and never hangs on volumes
\* whose chains end.
LEMMA FopenedOf ==
  ASSUME InOrder, PathsSplit, MountedRoot, NEW s, s.stream \in Nat, NEW path \in Paths,
         NEW mode, NEW mem
  PROVE  Fopened(s, path, mode, mem, fopen(s, path, mode, mem))
<1> DEFINE a == fopen(s, path, mode, mem)
           parsed == pathparser_parse(path)
           valid == pathparser_path_valid_format(path)
           names == NamesOf(path)
           fd == file_new_descriptor(s)
           opened == fat16_open(volume, s.stream, disk.root_directory, parsed.parts, mode, mem)
           given == opened.res >= 0 /\ fd # 0
           none == \/ ~parsed.ok
                   \/ parsed.parts = <<>>
                   \/ ~disk_get(parsed.drive)
                   \/ ~disk.ours
                   \/ mode \notin ModeStrings
           blocks == parsed.blocks
<1>1. /\ blocks \in Nat
      /\ ~valid => ~parsed.ok
      /\ valid => parsed.ok /\ parsed.parts = names /\ (path[1] = "0" => parsed.drive = 0)
  BY ParseOf
<1>2. CASE none
  <2>1. a = [Answer(s, 0) EXCEPT !.grown = blocks]
    BY <1>2 DEF fopen
  <2>2. ~(valid /\ names # <<>> /\ path[1] = "0" /\ disk.ours /\ mode = "r")
    <3>1. ASSUME valid, names # <<>>, path[1] = "0", disk.ours, mode = "r" PROVE FALSE
      <4> DEFINE got == disk_get(parsed.drive)
      <4>1. parsed.ok /\ parsed.parts # <<>>
        BY <1>1, <3>1
      <4>2. got
        BY <1>1, <3>1 DEF disk_get
      <4>3. mode \in ModeStrings
        BY <3>1 DEF ModeStrings
      <4>4. none <=> \/ ~parsed.ok \/ parsed.parts = <<>> \/ ~got \/ ~disk.ours
                     \/ mode \notin ModeStrings
        OBVIOUS
      <4> HIDE DEF none, got, parsed, names, valid
      <4>5. QED
        BY <1>2, <3>1, <4>1, <4>2, <4>3, <4>4, Zenon
    <3> HIDE DEF names, valid
    <3>2. QED
      BY <3>1
  <2> HIDE DEF a, blocks, names, valid
  <2>3. ~a.hung /\ ~a.stray /\ a.res = 0 /\ a.fs = s /\ a.grown = blocks
    BY <2>1 DEF Answer
  <2>4. Denies(s, path, mode, mem, a)
    BY <2>2, <2>3 DEF Denies, blocks, names, valid
  <2>5. QED
    BY <2>3, <2>4 DEF Fopened, a
<1>3. CASE ~none
  <2>1. /\ valid /\ parsed.parts = names /\ names # <<>> /\ disk.ours
    BY <1>1, <1>3
  <2> DEFINE o == fat16_open(volume, s.stream, disk.root_directory, names, mode, mem)
  <2>2. opened = o
    BY <2>1
  <2>3. Opens(path, mode, mem, o)
    <3>1. Len(path) >= 3
      BY <2>1 DEF pathparser_path_valid_format
    <3>2. Plain(names)
      BY <2>1, <3>1, NamesPlain
    <3>3. QED
      BY <2>1, <3>2, OpensOf
  <2> DEFINE new == [item |-> o.item, pos |-> 0]
             table == IF given THEN [s.descriptors EXCEPT ![fd] = new] ELSE s.descriptors
             t == [descriptors |-> table, stream |-> opened.pos]
             g == blocks + opened.grown + (IF given THEN 1 ELSE 0)
  <2>4. a = [fs |-> t, res |-> IF given THEN fd ELSE 0, grown |-> g,
             hung |-> opened.hung, stray |-> opened.stray, out |-> <<>>]
    BY <1>3, <2>2, Zenon DEF fopen
  <2>5. /\ fd # 0 <=> Free(s) # {}
        /\ Free(s) # {} => fd = Min(Free(s)) /\ fd \in Nat
    <3>1. CASE Free(s) = {}
      BY <3>1 DEF file_new_descriptor
    <3>2. CASE Free(s) # {}
      <4>1. fd = Min(Free(s)) /\ Min(Free(s)) \in 1 .. MaxFileDescriptors
        BY <3>2, LowestFree
      <4> HIDE DEF fd
      <4>2. MaxFileDescriptors \in Nat
        BY FilesAssumption
      <4>3. QED
        BY <3>2, <4>1, <4>2
    <3>3. QED
      BY <3>1, <3>2
  <2>6. given <=> (o.res >= 0 /\ fd # 0)
    BY <2>2
  <2> DEFINE oh == opened.hung
             os == opened.stray
             og == opened.grown
  <2>7. oh = o.hung /\ os = o.stray /\ og = o.grown
    BY <2>2
  <2>8. a.fs = t /\ a.res = (IF given THEN fd ELSE 0) /\ a.grown = g /\ a.hung = oh /\ a.stray = os
    BY <2>4
  <2>9. t.descriptors = table
    OBVIOUS
  <2>10. g = blocks + og + (IF given THEN 1 ELSE 0)
    OBVIOUS
  <2>11. table = IF given THEN [s.descriptors EXCEPT ![fd] = new] ELSE s.descriptors
    OBVIOUS
  <2> HIDE DEF a, t, g, oh, os, og, given, o, opened, fd, table, new, blocks, names, valid, parsed
  <2>12. CASE given
    <3>1. /\ ~o.hung /\ o.item \in Lookup(names) /\ o.item \in ItemsOf(volume)
          /\ o.grown = ItemBlocks(o.item) + 1 /\ ~o.stray
      BY <2>3, <2>6, <2>12 DEF Opens, names
    <3>2. Free(s) # {} /\ fd = Min(Free(s))
      BY <2>5, <2>6, <2>12
    <3>3. a.res = Min(Free(s)) /\ ~a.hung /\ ~a.stray
      BY <2>7, <2>8, <2>12, <3>1, <3>2
    <3>4. a.fs.descriptors = Opening(s, o.item)
      BY <2>8, <2>9, <2>11, <2>12, <3>2 DEF Opening, new
    <3>5. a.grown = blocks + ItemBlocks(o.item) + 2
      <4> DEFINE b == ItemBlocks(o.item)
      <4>1. b \in Nat
        BY DEF ItemBlocks
      <4>2. o.grown = b + 1 /\ a.grown = blocks + o.grown + 1
        BY <2>7, <2>8, <2>10, <2>12, <3>1
      <4> HIDE DEF b
      <4>3. a.grown = blocks + b + 2
        BY <1>1, <4>1, <4>2
      <4>4. QED
        BY <4>3 DEF b
    <3>6. Gives(s, path, a)
      BY <2>1, <3>1, <3>2, <3>3, <3>4, <3>5 DEF Gives, blocks, names, valid, parsed
    <3>7. QED
      BY <3>3, <3>6 DEF Fopened, a
  <2>13. CASE ~given
    <3>1. ~a.hung /\ a.res = 0 /\ a.fs.descriptors = s.descriptors
      BY <2>3, <2>7, <2>8, <2>9, <2>11, <2>13 DEF Opens
    <3>2. a.stray => Len(names) > 2
      BY <2>3, <2>7, <2>8 DEF Opens, names
    <3>3. a.grown = blocks \/ Free(s) = {} \/ ThroughFile(path)
      <4>1. CASE o.grown = 0
        <5>1. a.grown = blocks + 0 + 0
          BY <2>7, <2>8, <2>10, <2>13, <4>1
        <5>2. QED
          BY <1>1, <5>1
      <4>2. CASE o.grown # 0 /\ ~(o.res >= 0)
        BY <2>3, <4>2 DEF Opens
      <4>3. CASE o.res >= 0
        BY <2>5, <2>6, <2>13, <4>3
      <4>4. QED
        BY <4>1, <4>2, <4>3
    <3>4. (mode = "r" /\ mem /\ Free(s) # {} /\ NoneUnused(volume)) => Lookup(names) = {}
      BY <2>3, <2>5, <2>6, <2>13 DEF Opens, names
    <3>5. Denies(s, path, mode, mem, a)
      BY <3>1, <3>2, <3>3, <3>4 DEF Denies, names, blocks, parsed
    <3>6. QED
      BY <3>1, <3>5 DEF Fopened, a
  <2>14. QED
    BY <2>12, <2>13
<1>4. QED
  BY <1>2, <1>3

\* Once the disk was looked at, its root directory is the one of the volume.
LEMMA RunningMounted ==
  ASSUME LoadingInv, Running
  PROVE  /\ Mounted /\ MountedRoot
         /\ Typed(fs) /\ fs.stream \in Nat /\ Table(fs)
<1>1. volume \in Volumes /\ Typed(fs) /\ disk = fat16_resolve(volume)
      /\ (disk.ours => ~disk.root_directory.hung)
  BY DEF LoadingInv, Running
<1>2. Table(fs) /\ fs.stream \in Nat
  BY <1>1 DEF Typed
<1>3. ASSUME disk.ours PROVE disk.root_directory = fat16_get_root_directory(volume)
  <2>1. CASE ~volume.signature
    <3>1. fat16_resolve(volume) = [ours |-> FALSE, hung |-> FALSE, seen |-> TRUE]
      BY <2>1 DEF fat16_resolve
    <3>2. QED
      BY <1>1, <1>3, <3>1
  <2>2. CASE volume.signature
    <3> DEFINE root == fat16_get_root_directory(volume)
    <3>1. fat16_resolve(volume)
            = [ours |-> TRUE, hung |-> root.hung, seen |-> TRUE, root_directory |-> root]
      BY <2>2 DEF fat16_resolve
    <3> HIDE DEF root
    <3>2. fat16_resolve(volume).root_directory = root
      BY <3>1
    <3>3. QED
      BY <1>1, <3>2 DEF root
  <2>3. QED
    BY <2>1, <2>2
<1>4. QED
  BY <1>1, <1>2, <1>3 DEF Mounted, MountedRoot

\* The slot that an open fills.
LEMMA OpeningOf ==
  ASSUME NEW s, Table(s), Free(s) # {}, NEW item
  PROVE  LET g == Opening(s, item)
         IN /\ Min(Free(s)) \in 1 .. MaxFileDescriptors
            /\ s.descriptors[Min(Free(s))] = Closed
            /\ \A d \in 1 .. MaxFileDescriptors :
                 g[d] = IF d = Min(Free(s)) THEN [item |-> item, pos |-> 0] ELSE s.descriptors[d]
<1>1. Min(Free(s)) \in Free(s)
  BY LowestFree
<1>2. Min(Free(s)) \in 1 .. MaxFileDescriptors /\ s.descriptors[Min(Free(s))] = Closed
  BY <1>1 DEF Free
<1>3. Slots(s.descriptors)
  BY DEF Table
<1>4. QED
  BY <1>2, <1>3, SlotsKept DEF Opening

\* Whatever is open, fopen gives a descriptor of the item that the path names, at
\* its beginning, and gives one whenever there is such an item, mode and memory
\* allow it and no item of the volume is an unused one.
THEOREM OpensWhatIsNamed ==
  ASSUME FilesOnDisk, DirectoriesEnd, NamesApart, PathsSplit
  PROVE  Spec => []OpensTheItem
<1>1. ASSUME LoadingInv, Running,
             NEW path \in Paths, pathparser_path_valid_format(path), NEW mode, NEW mem,
             NEW item, item = (IF NamesOf(path) = <<>> THEN {} ELSE Lookup(NamesOf(path))),
             NEW a, a = fopen(fs, path, mode, mem)
      PROVE  /\ a.res > 0 => a.fs.descriptors[a.res] \in [item : item, pos : {0}]
             /\ (/\ item # {} /\ disk.ours /\ path[1] = "0" /\ mode = "r"
                 /\ mem /\ Free(fs) # {} /\ \A i \in Items : i.name # Unused) => a.res > 0
  <2>1. MountedRoot /\ fs.stream \in Nat /\ Table(fs)
    BY <1>1, RunningMounted
  <2>2. Fopened(fs, path, mode, mem, a)
    <3>1. InOrder
      BY DEF InOrder
    <3>2. QED
      BY <1>1, <2>1, <3>1, FopenedOf
  <2>3. CASE Gives(fs, path, a)
    <3>1. PICK i \in Lookup(NamesOf(path)) :
            /\ NamesOf(path) # <<>> /\ Free(fs) # {} /\ a.res = Min(Free(fs))
            /\ a.fs.descriptors = Opening(fs, i)
      BY <2>3 DEF Gives
    <3>2. /\ a.res \in 1 .. MaxFileDescriptors
          /\ a.fs.descriptors[a.res] = [item |-> i, pos |-> 0]
      BY <2>1, <3>1, OpeningOf
    <3>3. i \in item
      BY <1>1, <3>1
    <3>4. a.fs.descriptors[a.res] \in [item : item, pos : {0}]
      BY <3>2, <3>3
    <3>5. a.res > 0
      BY <3>2, FilesAssumption
    <3>6. QED
      BY <3>4, <3>5
  <2>4. CASE Denies(fs, path, mode, mem, a)
    <3>1. ~(a.res > 0)
      BY <2>4 DEF Denies
    <3>2. ASSUME item # {}, disk.ours, path[1] = "0", mode = "r", mem, Free(fs) # {},
                 \A i \in Items : i.name # Unused
          PROVE  FALSE
      <4>1. NamesOf(path) # <<>> /\ Lookup(NamesOf(path)) # {}
        BY <1>1, <3>2
      <4>2. NoneUnused(volume)
        BY <3>2 DEF NoneUnused, Items
      <4>3. QED
        BY <1>1, <2>4, <3>2, <4>1, <4>2, Zenon DEF Denies
    <3>3. QED
      BY <3>1, <3>2
  <2>5. QED
    BY <2>2, <2>3, <2>4 DEF Fopened
<1>2. LoadingInv => OpensTheItem
  <2>1. SUFFICES
          ASSUME LoadingInv, Running,
                 NEW path \in {p \in Paths : pathparser_path_valid_format(p)},
                 NEW mode \in Modes, NEW mem \in BOOLEAN,
                 NEW item \in {IF NamesOf(path) = <<>> THEN {} ELSE Lookup(NamesOf(path))},
                 NEW a \in {fopen(fs, path, mode, mem)}
          PROVE  /\ a.res > 0 => a.fs.descriptors[a.res] \in [item : item, pos : {0}]
                 /\ (/\ item # {} /\ disk.ours /\ path[1] = "0" /\ mode = "r"
                     /\ mem /\ Free(fs) # {} /\ \A i \in Items : i.name # Unused) => a.res > 0
    BY Zenon DEF OpensTheItem
  <2>2. /\ path \in Paths /\ pathparser_path_valid_format(path)
        /\ item = (IF NamesOf(path) = <<>> THEN {} ELSE Lookup(NamesOf(path)))
        /\ a = fopen(fs, path, mode, mem)
    OBVIOUS
  <2>3. QED
    BY <1>1, <2>1, <2>2, Zenon
<1>3. QED
  BY <1>2, LoadingInvariance, PTL

\* A descriptor that is closed gives back what it held.
LEMMA FcloseGives ==
  ASSUME Mounted, NEW s, Typed(s), NEW fd \in Nat
  PROVE  fclose(s, fd).grown = Held(fclose(s, fd).fs) - Held(s)
<1> DEFINE a == fclose(s, fd)
           desc == file_get_descriptor(s, fd)
           b == ItemBlocks(desc.item)
<1>1. Table(s)
  BY DEF Typed
<1>2. CASE desc = Closed
  <2>1. a = Answer(s, -EIO)
    BY <1>2 DEF fclose
  <2>2. a.fs = s /\ a.grown = 0
    BY <2>1 DEF Answer
  <2>3. Held(s) \in Nat
    BY HeldSame
  <2> HIDE DEF a
  <2>4. Held(s) - Held(s) = 0
    BY <2>3
  <2>5. QED
    BY <2>2, <2>4 DEF a
<1>3. CASE desc # Closed
  <2>1. fd \in 1 .. MaxFileDescriptors /\ desc = s.descriptors[fd]
    BY <1>3, DescriptorOf
  <2>2. a.fs.descriptors = [s.descriptors EXCEPT ![fd] = Closed]
    BY <1>1, <1>3, FcloseOf
  <2> DEFINE c == fat16_close(desc.item)
             left == [s EXCEPT !.descriptors[fd] = Closed]
  <2>3. a = [Answer(left, c.res) EXCEPT !.grown = c.grown - 1]
    BY <1>3 DEF fclose
  <2>4. a.grown = c.grown - 1
    <3> HIDE DEF c, left
    <3>1. QED
      BY <2>3 DEF Answer
  <2>5. b \in Nat /\ c.grown = -(b + 1)
    BY DEF fat16_close, ItemBlocks
  <2> DEFINE t == a.fs
  <2>6. Slots(s.descriptors)
    BY <1>1 DEF Table
  <2>7. \A d \in 1 .. MaxFileDescriptors :
          t.descriptors[d] = IF d = fd THEN Closed ELSE s.descriptors[d]
    BY <2>2, <2>6, SlotsKept
  <2> HIDE DEF a, c, t, left
  <2>8. Held(t) \in Nat /\ Held(s) = Held(t) + ItemBlocks(s.descriptors[fd].item) + 2
    <3>1. t.descriptors[fd] = Closed /\ s.descriptors[fd] # Closed
      BY <1>3, <2>1, <2>7
    <3>2. \A d \in 1 .. MaxFileDescriptors : d # fd => s.descriptors[d] = t.descriptors[d]
      BY <2>7
    <3>3. QED
      BY <2>1, <3>1, <3>2, HeldGrows
  <2>9. Held(s) = Held(t) + b + 2
    BY <2>1, <2>8
  <2> HIDE DEF b
  <2>10. a.grown = Held(t) - Held(s)
    BY <2>4, <2>5, <2>8, <2>9
  <2>11. QED
    BY <2>10 DEF a, t
<1>4. QED
  BY <1>2, <1>3

\* What an open takes is what its descriptor holds, and the parsed path.
LEMMA FopenTakes ==
  ASSUME MountedRoot, Mounted, NEW s, Typed(s), NEW path \in Paths, NEW mode, NEW mem,
         NEW a, Fopened(s, path, mode, mem, a), pathparser_parse(path).blocks \in Nat
  PROVE  \/ a.grown = Held(a.fs) - Held(s) + pathparser_parse(path).blocks
         \/ a.res = 0 /\ (Free(s) = {} \/ ThroughFile(path))
<1> DEFINE blocks == pathparser_parse(path).blocks
           H == Held(s)
           t == a.fs
<1>1. Table(s)
  BY DEF Typed
<1>2. H \in Nat
  BY HeldSame
<1>3. CASE Gives(s, path, a)
  <2>1. PICK item \in Lookup(NamesOf(path)) :
          /\ item \in ItemsOf(volume) /\ Free(s) # {} /\ t.descriptors = Opening(s, item)
          /\ a.grown = blocks + ItemBlocks(item) + 2
    BY <1>3 DEF Gives
  <2> DEFINE fd == Min(Free(s))
             b == ItemBlocks(item)
  <2>2. /\ fd \in 1 .. MaxFileDescriptors /\ s.descriptors[fd] = Closed
        /\ \A d \in 1 .. MaxFileDescriptors :
             t.descriptors[d] = IF d = fd THEN [item |-> item, pos |-> 0] ELSE s.descriptors[d]
    BY <1>1, <2>1, OpeningOf
  <2> HIDE DEF fd, t
  <2>3. item # NoItem
    <3>1. Formatted(volume)
      BY VolumeFormatted DEF Mounted
    <3>2. item \in Readable(volume)
      BY <2>1 DEF Readable
    <3>3. QED
      BY <3>1, <3>2, ReadableFormatted
  <2>4. t.descriptors[fd] # Closed /\ t.descriptors[fd].item = item
    BY <2>2, <2>3 DEF Closed
  <2>5. \A d \in 1 .. MaxFileDescriptors : d # fd => t.descriptors[d] = s.descriptors[d]
    BY <2>2
  <2>6. Held(t) = Held(s) + ItemBlocks(t.descriptors[fd].item) + 2
    BY <2>2, <2>4, <2>5, HeldGrows
  <2>7. Held(t) = H + b + 2 /\ a.grown = blocks + b + 2
    BY <2>1, <2>4, <2>6
  <2>8. b \in Nat
    BY DEF ItemBlocks
  <2> HIDE DEF b, H, blocks
  <2>9. a.grown = Held(t) - H + blocks
    <3>1. blocks \in Nat
      BY DEF blocks
    <3>2. QED
      BY <1>2, <2>7, <2>8, <3>1
  <2>10. QED
    BY <2>9 DEF t, H, blocks
<1>4. CASE Denies(s, path, mode, mem, a)
  <2>1. /\ a.res = 0 /\ t.descriptors = s.descriptors
        /\ a.grown = blocks \/ Free(s) = {} \/ ThroughFile(path)
    BY <1>4 DEF Denies
  <2>2. Held(t) = H
    BY <2>1, HeldSame
  <2> HIDE DEF t, H
  <2>3. a.grown = blocks => a.grown = Held(t) - H + blocks
    BY <1>2, <2>2
  <2>4. QED
    BY <2>1, <2>3 DEF t, H
<1>5. QED
  BY <1>3, <1>4 DEF Fopened

\* The allocations that the file layer has are those of its open descriptors and
\* the parsed paths, however many descriptors there are and whatever the paths
\* lead to, unless an open found no free descriptor or came through a file.
THEOREM BalancesHeap ==
  ASSUME FilesOnDisk, DirectoriesEnd, NamesApart, PathsSplit
  PROVE  Spec => []HeapBalanced
<1>1. ASSUME LoadingInv, Running, NEW fd \in Fds
      PROVE  fclose(fs, fd).grown = Held(fclose(fs, fd).fs) - Held(fs)
  <2>1. fd \in Nat
    BY FilesAssumption DEF Fds
  <2>2. QED
    BY <1>1, <2>1, RunningMounted, FcloseGives
<1>2. ASSUME LoadingInv, Running, NEW path \in Paths, NEW mode \in Modes, NEW mem \in BOOLEAN,
             NEW a \in {fopen(fs, path, mode, mem)}
      PROVE  \/ a.grown = Held(a.fs) - Held(fs) + pathparser_parse(path).blocks
             \/ a.hung
             \/ a.res = 0 /\ (Free(fs) = {} \/ ThroughFile(path))
  <2>1. InOrder
    BY DEF InOrder
  <2>2. Fopened(fs, path, mode, mem, a)
    BY <1>2, <2>1, RunningMounted, FopenedOf
  <2>3. pathparser_parse(path).blocks \in Nat
    BY ParseOf
  <2>4. QED
    BY <1>2, <2>2, <2>3, RunningMounted, FopenTakes
<1>3. LoadingInv => HeapBalanced
  BY <1>1, <1>2, Zenon DEF HeapBalanced
<1>4. QED
  BY <1>3, LoadingInvariance, PTL
------------------------------------------------------------------------------
(***************************************************************************)
(* What a load delivers.                                                   *)
(***************************************************************************)

\* The calls that a load makes after it opened its file, and its end.
Asked(o) == After(o, fstat(o.fs, o.res))
ReadWhole(o) == After(Asked(o), fread(Asked(o).fs, Asked(o).out[1], 1, o.res))
Ending(o, a, res, blocks) ==
  LET c == After(a, fclose(a.fs, o.res))
  IN [c EXCEPT !.res = res, !.grown = c.grown + blocks, !.out = a.out]

\* A load is its open and these calls.
LEMMA ElfLoadIs ==
  ASSUME NEW s, NEW path, NEW mem, NEW o, o = fopen(s, path, "r", mem), ~o.hung
  PROVE  elf_load(s, path, mem) =
           IF o.res <= 0 THEN Ending(o, o, -EIO, 1)
           ELSE IF Asked(o).res < 0 THEN Ending(o, Asked(o), Asked(o).res, 1)
           ELSE IF ReadWhole(o).hung THEN ReadWhole(o)
           ELSE IF ReadWhole(o).res < 0 THEN Ending(o, ReadWhole(o), ReadWhole(o).res, 2)
           ELSE IF ~elf_validate_loaded(ProgramAt(ReadWhole(o).out[1]))
             THEN Ending(o, ReadWhole(o), -EINFORMAT, 2)
           ELSE Ending(o, ReadWhole(o), 0, 2)
BY ZenonT(60) DEF elf_load, Asked, ReadWhole, Ending

\* process_load_binary is its open and the same calls; its error path releases a pointer
\* that was never set.
LEMMA BinaryLoadIs ==
  ASSUME NEW s, NEW path, NEW mem, NEW o, o = fopen(s, path, "r", mem), ~o.hung
  PROVE  process_load_binary(s, path, mem) =
           IF o.res = 0 THEN [Ending(o, o, -EIO, 0) EXCEPT !.stray = TRUE]
           ELSE IF Asked(o).res # 0
             THEN [Ending(o, Asked(o), Asked(o).res, 0) EXCEPT !.stray = TRUE]
           ELSE IF ReadWhole(o).hung THEN ReadWhole(o)
           ELSE IF ReadWhole(o).res # 1 THEN Ending(o, ReadWhole(o), -EIO, 0)
           ELSE Ending(o, ReadWhole(o), 0, 1)
BY ZenonT(60) DEF process_load_binary, Asked, ReadWhole, Ending

\* An end answers what it is given, and touches nothing that was not given.
LEMMA EndingOf ==
  ASSUME NEW o, NEW a, NEW res, NEW blocks, NEW e, Answers(a), e = Ending(o, a, res, blocks)
  PROVE  /\ DOMAIN e = Fields /\ e.fs = fclose(a.fs, o.res).fs
         /\ e.res = res /\ e.out = a.out /\ ~e.hung /\ (e.stray => a.stray)
<1> DEFINE b == fclose(a.fs, o.res)
           c == After(a, b)
           stray == a.stray \/ b.stray
           grown == c.grown + blocks
<1>1. Answers(b)
  BY FcloseOf DEF Answers
<1>2. ~b.hung /\ ~b.stray
  BY DEF fclose, Answer
<1> HIDE DEF b
<1>3. c = [b EXCEPT !.grown = a.grown + @, !.stray = stray]
  BY DEF After
<1> HIDE DEF stray, c
<1>4. DOMAIN c = Fields /\ c.fs = b.fs /\ ~c.hung /\ c.stray = stray
  BY <1>1, <1>2, <1>3 DEF Answers, Fields
<1>5. e = [c EXCEPT !.res = res, !.grown = grown, !.out = a.out]
  BY DEF Ending, b, c
<1> HIDE DEF grown
<1>6. /\ DOMAIN e = Fields /\ e.fs = b.fs /\ e.res = res /\ e.out = a.out
      /\ ~e.hung /\ e.stray = stray
  BY <1>4, <1>5 DEF Fields
<1>7. e.stray => a.stray
  BY <1>2, <1>6, Zenon DEF stray
<1>8. QED
  BY <1>6, <1>7 DEF b

\* What an answer of two calls has touched.
LEMMA AfterStray ==
  ASSUME NEW a, NEW b, Answers(b)
  PROVE  After(a, b).stray <=> a.stray \/ b.stray
<1> DEFINE stray == a.stray \/ b.stray
<1>1. After(a, b) = [b EXCEPT !.grown = a.grown + @, !.stray = stray]
  BY DEF After
<1> HIDE DEF stray
<1>2. After(a, b).stray = stray
  BY <1>1 DEF Answers, Fields
<1>3. QED
  BY <1>2, Zenon DEF stray

\* A file that was opened: the answer o gives a descriptor of it in the table of s.
Obtained(s, o, item) ==
  /\ Ready(o) /\ item \in ItemsOf(volume)
  /\ Free(s) # {} /\ o.res = Min(Free(s)) /\ o.fs.descriptors = Opening(s, item)

\* Its size is known unless it is a directory or the descriptor is the last one.
LEMMA SizeKnown ==
  ASSUME Mounted, NEW s, Table(s), NEW o, NEW item, Obtained(s, o, item)
  PROVE  LET a == Asked(o)
             desc == file_get_descriptor(o.fs, o.res)
         IN /\ Ready(a) /\ a.fs = o.fs /\ (a.stray => o.stray)
            /\ a.res \in {0, -EIO, -EINVARG}
            /\ o.res \in 1 .. MaxFileDescriptors
            /\ a.res = 0 <=> (o.res < MaxFileDescriptors /\ ~item.dir)
            /\ a.res = 0 => /\ a.out[1] = item.filesize
                            /\ desc # Closed /\ desc = [item |-> item, pos |-> 0]
                            /\ o.fs.descriptors[o.res] = desc
<1> DEFINE a == Asked(o)
           b == fstat(o.fs, o.res)
           desc == file_get_descriptor(o.fs, o.res)
           new == [item |-> item, pos |-> 0]
           fd == o.res
<1>1. /\ fd \in 1 .. MaxFileDescriptors /\ o.fs.descriptors[fd] = new
  BY OpeningOf DEF Obtained
<1>2. fd \in Nat /\ ~(fd <= 0) /\ MaxFileDescriptors \in Nat
  BY <1>1, FilesAssumption
<1>3. Ready(b) /\ b.fs = o.fs /\ b.res \in {0, -EIO, -EINVARG}
  BY <1>2, FstatReady, FstatOf DEF Obtained, Ready, Answers
<1>4. ~b.stray
  <2> DEFINE stat == fat16_stat(desc.item)
             c == Answer(o.fs, stat.res)
  <2>1. b = IF desc = Closed THEN Answer(o.fs, -EIO) ELSE [c EXCEPT !.out = <<stat.filesize>>]
    BY DEF fstat
  <2> HIDE DEF b, desc, stat
  <2>2. QED
    BY <2>1 DEF Answer
<1>5. new # Closed
  <2>1. item \in Readable(volume)
    BY DEF Obtained, Readable
  <2>2. item # NoItem
    BY <2>1, VolumeFormatted, ReadableFormatted DEF Mounted
  <2>3. new.item = item /\ Closed.item = NoItem
    BY DEF Closed
  <2>4. QED
    BY <2>2, <2>3
<1>6. CASE ~(fd < MaxFileDescriptors)
  <2>1. desc = Closed
    BY <1>2, <1>6 DEF file_get_descriptor
  <2>2. b = Answer(o.fs, -EIO)
    BY <2>1 DEF fstat
  <2>3. b.res = -EIO /\ -EIO # 0
    BY <2>2 DEF Answer, EIO
  <2> HIDE DEF b
  <2>4. Answers(b)
    BY <1>3 DEF Ready
  <2>5. Ready(a) /\ a.fs = b.fs /\ a.res = b.res /\ (a.stray <=> o.stray \/ b.stray)
    BY <1>3, <2>4, AfterOf, AfterReady, AfterStray DEF Asked, b
  <2>6. QED
    BY <1>1, <1>3, <1>4, <1>6, <2>3, <2>5
<1>7. CASE fd < MaxFileDescriptors
  <2>1. desc = new
    BY <1>1, <1>2, <1>7 DEF file_get_descriptor
  <2> DEFINE stat == fat16_stat(item)
             c == Answer(o.fs, stat.res)
  <2>2. desc # Closed /\ desc.item = item
    BY <1>5, <2>1
  <2> HIDE DEF desc
  <2>3. b = [c EXCEPT !.out = <<stat.filesize>>]
    BY <2>2 DEF fstat, desc
  <2> HIDE DEF stat
  <2>4. b.res = stat.res /\ b.out = <<stat.filesize>>
    <3> HIDE DEF b
    <3>1. QED
      BY <2>3 DEF Answer
  <2>5. /\ stat.res = 0 <=> ~item.dir
        /\ ~item.dir => stat.filesize = item.filesize
    BY DEF stat, fat16_stat, EINVARG
  <2>6. Answers(b)
    BY <1>3 DEF Ready
  <2> HIDE DEF b
  <2>7. /\ Ready(a) /\ a.fs = b.fs /\ a.res = b.res /\ a.out = b.out
        /\ (a.stray <=> o.stray \/ b.stray)
    BY <1>3, <2>6, AfterOf, AfterReady, AfterStray DEF Asked, b
  <2> HIDE DEF a
  <2>8. a.res = 0 => a.out[1] = item.filesize
    BY <2>4, <2>5, <2>7
  <2>9. a.res = 0 <=> ~item.dir
    BY <2>4, <2>5, <2>7
  <2>10. desc = new /\ o.fs.descriptors[fd] = desc
    BY <1>1, <2>1
  <2>11. QED
    BY <1>1, <1>3, <1>4, <1>7, <2>2, <2>7, <2>8, <2>9, <2>10 DEF a, desc
<1>8. QED
  BY <1>6, <1>7

\* A file of which the size is known is read from its first byte to its last.
LEMMA WholeFile ==
  ASSUME FilesOnDisk, Mounted, NEW s, Table(s), NEW o, NEW item, Obtained(s, o, item),
         Asked(o).res = 0
  PROVE  LET r == ReadWhole(o)
         IN /\ Ready(r) /\ (r.stray => o.stray)
            /\ r.res \in Int /\ r.res >= -EINVARG /\ r.out \in Seq(Nat)
            /\ r.res >= 0 /\ item.filesize <= ClusterBytes
                 => r.out = FileBytes(item, 0, item.filesize)
<1> DEFINE a == Asked(o)
           fd == o.res
           t == a.fs
           n == a.out[1]
           b == fread(t, n, 1, fd)
           r == ReadWhole(o)
           desc == file_get_descriptor(t, fd)
<1>1. /\ Ready(a) /\ t = o.fs /\ (a.stray => o.stray) /\ fd \in 1 .. MaxFileDescriptors
      /\ ~item.dir /\ n = item.filesize /\ desc # Closed /\ desc = [item |-> item, pos |-> 0]
      /\ t.descriptors[fd] = desc
  BY SizeKnown
<1>2. Typed(t) /\ Table(t)
  BY <1>1 DEF Ready, Typed
<1>3. fd \in Nat /\ n \in Nat /\ 1 \in Nat
  <2>1. item \in Readable(volume)
    BY DEF Obtained, Readable
  <2>2. item.filesize \in Nat
    BY <2>1, VolumeFormatted, ReadableFormatted DEF Mounted
  <2>3. QED
    BY <1>1, <2>2, FilesAssumption
<1> HIDE DEF n, fd, t, a
<1>4. Ready(b) /\ b.res \in Int /\ b.res >= -EINVARG /\ b.out \in Seq(Nat)
  BY <1>2, <1>3, FreadReady
<1>5. ~b.stray
  <2> DEFINE got == fat16_read(volume, t.stream, desc.item, desc.pos, n, 1)
  <2>1. \/ b = Answer(t, -EINVARG)
        \/ b = [fs |-> [t EXCEPT !.stream = got.pos], res |-> got.res, grown |-> 0,
                hung |-> got.hung, stray |-> FALSE, out |-> got.out]
    BY DEF fread
  <2> HIDE DEF b, got
  <2>2. QED
    BY <2>1 DEF Answer
<1>6. ASSUME b.res >= 0, item.filesize <= ClusterBytes
      PROVE  b.out = FileBytes(item, 0, item.filesize)
  <2>1. n # 0
    <3>1. SUFFICES ASSUME n = 0 PROVE FALSE
      OBVIOUS
    <3>2. b = Answer(t, -EINVARG)
      BY <3>1 DEF fread
    <3>3. b.res = -EINVARG
      BY <3>2 DEF Answer
    <3> HIDE DEF b
    <3>4. QED
      BY <1>6, <3>3 DEF EINVARG
  <2>2. desc.item = item /\ desc.pos = 0
    BY <1>1
  <2>3. n \in Nat \ {0} /\ 1 \in Nat \ {0}
    BY <1>3, <2>1
  <2>4. n * 1 = n
    BY <1>3
  <2> HIDE DEF desc
  <2>5. t.descriptors[fd].pos + n * 1 <= ClusterBytes
    <3>1. t.descriptors[fd].pos = 0 /\ n <= ClusterBytes
      BY <1>1, <1>6, <2>2
    <3>2. QED
      BY <1>3, <2>4, <3>1
  <2>6. desc # Closed /\ ~desc.item.dir
    BY <1>1, <2>2
  <2>7. b.out = FileBytes(t.descriptors[fd].item, t.descriptors[fd].pos, n * 1)
    BY <1>2, <1>3, <2>3, <2>5, <2>6, FreadDelivers DEF desc
  <2>8. t.descriptors[fd].item = item /\ t.descriptors[fd].pos = 0
    BY <1>1, <2>2
  <2>9. QED
    BY <1>1, <2>4, <2>7, <2>8
<1> HIDE DEF b
<1>7. r = After(a, b)
  BY DEF ReadWhole, b, n, fd, t, a
<1>8. Answers(b)
  BY <1>4 DEF Ready
<1>9. Ready(r) /\ r.res = b.res /\ r.out = b.out /\ (r.stray <=> a.stray \/ b.stray)
  BY <1>4, <1>7, <1>8, AfterOf, AfterReady, AfterStray
<1> HIDE DEF r
<1>10. QED
  BY <1>1, <1>4, <1>5, <1>6, <1>9 DEF r

\* An open in reading mode that did not answer 0.
LEMMA OpenedFile ==
  ASSUME InOrder, PathsSplit, Mounted, MountedRoot, NEW s, Typed(s), NEW path \in Paths, NEW mem,
         NEW o, o = fopen(s, path, "r", mem)
  PROVE  /\ ~o.hung /\ Ready(o) /\ o.res \in Nat
         /\ o.stray => Len(NamesOf(path)) > 2
         /\ o.res # 0 => /\ Gives(s, path, o) /\ ~o.stray
                         /\ Plain(NamesOf(path))
                         /\ \E item \in Lookup(NamesOf(path)) : Obtained(s, o, item)
<1>1. Fopened(s, path, "r", mem, o)
  BY FopenedOf DEF Typed
<1>2. Ready(o)
  BY FopenReady
<1>3. Table(s)
  BY DEF Typed
<1>4. CASE Gives(s, path, o)
  <2>1. PICK item \in Lookup(NamesOf(path)) :
          /\ pathparser_path_valid_format(path) /\ NamesOf(path) # <<>>
          /\ item \in ItemsOf(volume) /\ Free(s) # {} /\ o.res = Min(Free(s))
          /\ o.fs.descriptors = Opening(s, item) /\ ~o.stray
    BY <1>4 DEF Gives
  <2>2. Obtained(s, o, item)
    BY <1>2, <2>1 DEF Obtained
  <2>3. o.res \in Nat
    <3>1. Min(Free(s)) \in 1 .. MaxFileDescriptors
      BY <2>1, LowestFree
    <3> HIDE DEF Min
    <3>2. QED
      BY <2>1, <3>1, FilesAssumption
  <2>4. Plain(NamesOf(path))
    BY <2>1, NamesPlain DEF pathparser_path_valid_format
  <2>5. QED
    BY <1>1, <1>2, <1>4, <2>1, <2>2, <2>3, <2>4 DEF Fopened
<1>5. CASE Denies(s, path, "r", mem, o)
  <2>1. o.res = 0 /\ (o.stray => Len(NamesOf(path)) > 2)
    BY <1>5 DEF Denies
  <2>2. QED
    BY <1>1, <1>2, <2>1 DEF Fopened
<1>6. QED
  BY <1>1, <1>4, <1>5 DEF Fopened

\* Every item that a path leads to is the one.
LEMMA OneItem ==
  ASSUME InOrder, volume \in Volumes, NEW parts, Plain(parts)
  PROVE  \A i, j \in Lookup(parts) : i = j
<1>1. Len(parts) \in Nat /\ Len(parts) \in 1 .. Len(parts)
  BY DEF Plain
<1>2. PICK led : Leads(led, parts) /\ Lookup(parts) = led[Len(parts)]
  BY <1>1, LeadsOf
<1>3. QED
  BY <1>1, <1>2, LeadsToOne

\* A program that was loaded, if it is no larger than a cluster, is the file that
\* the path names.
Whole(path, a) ==
  ~a.hung /\ a.res >= 0 =>
    \A item \in Lookup(NamesOf(path)) :
      item.filesize <= ClusterBytes => a.out = FileBytes(item, 0, item.filesize)

\* A load that succeeds holds the bytes of the file its path names.
LEMMA LoadsWhole ==
  ASSUME InOrder, PathsSplit, Mounted, MountedRoot, NEW s, Typed(s), NEW path \in Paths, NEW mem
  PROVE  Whole(path, elf_load(s, path, mem)) /\ Whole(path, process_load_binary(s, path, mem))
<1> DEFINE o == fopen(s, path, "r", mem)
           a == Asked(o)
           r == ReadWhole(o)
           elf == elf_load(s, path, mem)
           binary == process_load_binary(s, path, mem)
           valid == elf_validate_loaded(ProgramAt(r.out[1]))
<1>1. /\ ~o.hung /\ Ready(o) /\ o.res \in Nat
      /\ o.res # 0 => /\ Plain(NamesOf(path))
                      /\ \E item \in Lookup(NamesOf(path)) : Obtained(s, o, item)
  BY OpenedFile
<1>2. elf = IF o.res <= 0 THEN Ending(o, o, -EIO, 1)
            ELSE IF a.res < 0 THEN Ending(o, a, a.res, 1)
            ELSE IF r.hung THEN r
            ELSE IF r.res < 0 THEN Ending(o, r, r.res, 2)
            ELSE IF ~valid THEN Ending(o, r, -EINFORMAT, 2)
            ELSE Ending(o, r, 0, 2)
  BY <1>1, ElfLoadIs
<1>3. binary = IF o.res = 0 THEN [Ending(o, o, -EIO, 0) EXCEPT !.stray = TRUE]
               ELSE IF a.res # 0 THEN [Ending(o, a, a.res, 0) EXCEPT !.stray = TRUE]
               ELSE IF r.hung THEN r
               ELSE IF r.res # 1 THEN Ending(o, r, -EIO, 0)
               ELSE Ending(o, r, 0, 1)
  BY <1>1, BinaryLoadIs
<1> HIDE DEF o, a, r, elf, binary, valid
<1>4. -EIO < 0 /\ -EINVARG < 0 /\ -EINFORMAT < 0
      /\ -EIO \in Int /\ -EINVARG \in Int /\ -EINFORMAT \in Int
  BY DEF EIO, EINVARG, EINFORMAT
<1>5. ASSUME NEW e, e.res < 0, e.res \in Int PROVE Whole(path, e)
  BY <1>5 DEF Whole
<1>6. ASSUME NEW e, e.hung PROVE Whole(path, e)
  BY <1>6, Zenon DEF Whole
<1>7. ASSUME NEW b, Answers(b), NEW res, res < 0, res \in Int, NEW blocks
      PROVE  /\ Whole(path, Ending(o, b, res, blocks))
             /\ Whole(path, [Ending(o, b, res, blocks) EXCEPT !.stray = TRUE])
  <2> DEFINE e == Ending(o, b, res, blocks)
             d == [e EXCEPT !.stray = TRUE]
  <2>1. e = Ending(o, b, res, blocks)
    OBVIOUS
  <2> HIDE DEF e
  <2>2. DOMAIN e = Fields /\ e.res = res
    <3>1. DOMAIN e = Fields
      BY <1>7, <2>1, EndingOf, Zenon
    <3>2. e.res = res
      BY <1>7, <2>1, EndingOf
    <3>3. QED
      BY <3>1, <3>2
  <2>3. d.res = res
    BY <2>2 DEF Fields
  <2> HIDE DEF d
  <2>4. Whole(path, e) /\ Whole(path, d)
    BY <1>5, <1>7, <2>2, <2>3
  <2>5. QED
    BY <2>4 DEF e, d
<1>8. CASE o.res = 0
  <2>1. Answers(o)
    BY <1>1 DEF Ready
  <2>2. /\ Whole(path, Ending(o, o, -EIO, 1))
        /\ Whole(path, [Ending(o, o, -EIO, 0) EXCEPT !.stray = TRUE])
    BY <1>4, <1>7, <2>1
  <2>3. /\ elf = Ending(o, o, -EIO, 1)
        /\ binary = [Ending(o, o, -EIO, 0) EXCEPT !.stray = TRUE]
    BY <1>2, <1>3, <1>8
  <2>4. QED
    BY <2>2, <2>3 DEF elf, binary
<1>9. CASE o.res # 0
  <2>1. PICK item \in Lookup(NamesOf(path)) : Obtained(s, o, item)
    BY <1>1, <1>9
  <2>2. Table(s) /\ ~(o.res <= 0)
    BY <1>1, <1>9 DEF Typed
  <2>3. Ready(a) /\ a.res \in {0, -EIO, -EINVARG}
    BY <2>1, <2>2, SizeKnown DEF a
  <2>4. CASE a.res # 0
    <3>1. Answers(a) /\ a.res < 0 /\ a.res \in Int
      BY <1>4, <2>3, <2>4 DEF Ready
    <3>2. /\ Whole(path, Ending(o, a, a.res, 1))
          /\ Whole(path, [Ending(o, a, a.res, 0) EXCEPT !.stray = TRUE])
      BY <1>7, <3>1
    <3>3. /\ elf = Ending(o, a, a.res, 1)
          /\ binary = [Ending(o, a, a.res, 0) EXCEPT !.stray = TRUE]
      BY <1>2, <1>3, <1>9, <2>2, <2>4, <3>1
    <3>4. QED
      BY <3>2, <3>3 DEF elf, binary
  <2>5. CASE a.res = 0
    <3>1. /\ Ready(r) /\ r.res \in Int
          /\ r.res >= 0 /\ item.filesize <= ClusterBytes => r.out = FileBytes(item, 0, item.filesize)
      BY <2>1, <2>2, <2>5, WholeFile DEF a, r, InOrder
    <3>2. Answers(r)
      BY <3>1 DEF Ready
    <3>3. elf = IF r.hung THEN r
                ELSE IF r.res < 0 THEN Ending(o, r, r.res, 2)
                ELSE IF ~valid THEN Ending(o, r, -EINFORMAT, 2)
                ELSE Ending(o, r, 0, 2)
      BY <1>2, <2>2, <2>5
    <3>4. binary = IF r.hung THEN r
                   ELSE IF r.res # 1 THEN Ending(o, r, -EIO, 0)
                   ELSE Ending(o, r, 0, 1)
      BY <1>3, <1>9, <2>5
    <3>5. ASSUME r.res >= 0, NEW res, NEW blocks PROVE Whole(path, Ending(o, r, res, blocks))
      <4> DEFINE e == Ending(o, r, res, blocks)
      <4>1. e = Ending(o, r, res, blocks)
        OBVIOUS
      <4> HIDE DEF e
      <4>2. e.out = r.out
        BY <3>2, <4>1, EndingOf
      <4>3. \A i \in Lookup(NamesOf(path)) : i = item
        BY <1>1, <1>9, <2>1, OneItem DEF Mounted
      <4>4. Whole(path, e)
        BY <3>1, <3>5, <4>2, <4>3 DEF Whole
      <4>5. QED
        BY <4>4 DEF e
    <3>6. Whole(path, elf)
      <4>1. CASE r.hung
        BY <1>6, <3>3, <4>1
      <4>2. CASE ~r.hung /\ r.res < 0
        <5>1. Whole(path, Ending(o, r, r.res, 2))
          BY <1>7, <3>1, <3>2, <4>2
        <5>2. QED
          BY <3>3, <4>2, <5>1
      <4>3. CASE ~r.hung /\ ~(r.res < 0)
        <5>1. Whole(path, Ending(o, r, -EINFORMAT, 2))
          BY <1>4, <1>7, <3>2
        <5>2. Whole(path, Ending(o, r, 0, 2))
          BY <3>1, <3>5, <4>3
        <5>3. QED
          BY <3>3, <4>3, <5>1, <5>2
      <4>4. QED
        BY <4>1, <4>2, <4>3
    <3>7. Whole(path, binary)
      <4>1. CASE r.hung
        BY <1>6, <3>4, <4>1
      <4>2. CASE ~r.hung /\ r.res # 1
        <5>1. Whole(path, Ending(o, r, -EIO, 0))
          BY <1>4, <1>7, <3>2
        <5>2. QED
          BY <3>4, <4>2, <5>1
      <4>3. CASE ~r.hung /\ r.res = 1
        <5>1. Whole(path, Ending(o, r, 0, 1))
          BY <3>1, <3>5, <4>3
        <5>2. QED
          BY <3>4, <4>3, <5>1
      <4>4. QED
        BY <4>1, <4>2, <4>3
    <3>8. QED
      BY <3>6, <3>7 DEF elf, binary
  <2>6. QED
    BY <2>4, <2>5
<1>10. QED
  BY <1>8, <1>9

\* A program that is no larger than a cluster is in memory byte for byte once it is
\* loaded, be it an ELF file or a flat binary, whatever was open or read before and
\* however many directories the path goes through.
THEOREM LoadsByteForByte ==
  ASSUME FilesOnDisk, DirectoriesEnd, NamesApart, PathsSplit
  PROVE  Spec => []LoadsTheFile
<1>1. ASSUME LoadingInv, Running, NEW path \in Paths
      PROVE  Whole(path, process_load_data(fs, path, TRUE, TRUE))
  <2> DEFINE elf == elf_load(fs, path, TRUE)
             binary == process_load_binary(elf.fs, path, TRUE)
             a == process_load_data(fs, path, TRUE, TRUE)
  <2>1. Mounted /\ MountedRoot /\ Typed(fs) /\ InOrder
    BY <1>1, RunningMounted DEF InOrder
  <2>2. a = IF elf.hung \/ elf.res # -EINFORMAT THEN elf ELSE After(elf, binary)
    BY DEF process_load_data
  <2>3. Whole(path, elf) /\ Program(elf)
    BY <2>1, LoadsWhole, LoadReady
  <2>4. Typed(elf.fs)
    BY <2>3 DEF Program, Ready
  <2> HIDE DEF elf
  <2>5. Whole(path, binary) /\ Program(binary)
    BY <2>1, <2>4, LoadsWhole, LoadReady
  <2> HIDE DEF binary, a
  <2>6. Answers(binary)
    BY <2>5 DEF Program, Ready
  <2> DEFINE c == After(elf, binary)
  <2>7. c.hung = binary.hung /\ c.res = binary.res /\ c.out = binary.out
    BY <2>6, AfterOf
  <2> HIDE DEF c
  <2>8. Whole(path, c)
    BY <2>5, <2>7 DEF Whole
  <2>9. Whole(path, a)
    BY <2>2, <2>3, <2>8 DEF c
  <2>10. QED
    BY <2>9 DEF a
<1>2. LoadingInv => LoadsTheFile
  <2> SUFFICES ASSUME LoadingInv, Running, NEW r \in Loaded, NEW item \in Items,
                      item \in Lookup(NamesOf(r.path)), item.filesize <= ClusterBytes
               PROVE  r.a.out = FileBytes(item, 0, item.filesize)
    BY DEF LoadsTheFile
  <2> DEFINE load(p) == process_load_data(fs, p, TRUE, TRUE)
  <2>1. PICK path \in Paths : r = [path |-> path, a |-> load(path)]
    BY DEF Loaded
  <2>2. ~r.a.hung /\ r.a.res >= 0
    BY DEF Loaded
  <2>3. Whole(path, load(path))
    BY <1>1
  <2> HIDE DEF load
  <2>4. r.path = path /\ r.a = load(path)
    BY <2>1
  <2>5. QED
    BY <2>2, <2>3, <2>4 DEF Whole
<1>3. QED
  BY <1>2, LoadingInvariance, PTL
------------------------------------------------------------------------------
(***************************************************************************)
(* A file that is opened a second time.                                    *)
(***************************************************************************)

\* Two walks at the same item.
Same(a, b) == (a.broke <=> b.broke) /\ a.item = b.item

\* What a search finds is on the way.
LEMMA FindNotBroke ==
  ASSUME NEW v, NEW s, NEW D, NEW name
  PROVE  ~fat16_find_item_in_directory(v, s, D, name).broke
BY DEF fat16_find_item_in_directory, fat16_new_fat_item_for_directory_item, Found

\* Two walks that start at different places of the stream start in the same
\* directory.
LEMMA StartAlike ==
  ASSUME NEW root, ~root.hung, NEW s, NEW t, NEW part, NEW a, NEW b,
         a = Onwards(volume, AtRoot(s, root), part, 1),
         b = Onwards(volume, AtRoot(t, root), part, 1)
  PROVE  Same(a, b)
<1> DEFINE F(here) == fat16_find_item_in_directory(volume, here.pos, here.directory, part)
<1>1. ASSUME NEW u, NEW here, here = AtRoot(u, root)
      PROVE  /\ Onwards(volume, here, part, 1) = F(here)
             /\ here.directory.item = root.item /\ here.directory.total = root.total
  <2> DEFINE at == [NoDirectory(u) EXCEPT !.hung = root.hung, !.item = root.item,
                                          !.total = root.total]
  <2>1. at.hung = root.hung /\ at.item = root.item /\ at.total = root.total
    BY DEF NoDirectory
  <2>2. here = Found([dir |-> TRUE], at, 0)
    BY <1>1 DEF AtRoot
  <2>3. ~root.hung
    OBVIOUS
  <2> HIDE DEF at
  <2>4. /\ ~here.hung /\ ~here.broke /\ here.item = [dir |-> TRUE] /\ here.directory = at
    BY <2>1, <2>2, <2>3 DEF Found
  <2>5. [dir |-> TRUE] # NoItem
    <3>1. DOMAIN [dir |-> TRUE] = {"dir"} /\ DOMAIN NoItem = {"name"}
      BY DEF NoItem
    <3>2. "dir" \notin {"name"}
      OBVIOUS
    <3>3. QED
      BY <3>1, <3>2
  <2> HIDE DEF F
  <2>6. Onwards(volume, here, part, 1) = F(here)
    BY <2>4, <2>5 DEF Onwards, Onto, F
  <2>7. QED
    BY <2>1, <2>4, <2>6
<1> DEFINE here == AtRoot(s, root)
           there == AtRoot(t, root)
<1>2. a = F(here) /\ b = F(there)
  BY <1>1
<1>3. Alike(here.directory, there.directory)
  BY <1>1 DEF Alike
<1> HIDE DEF here, there
<1>4. a.item = b.item
  BY <1>2, <1>3, FindAlike
<1>5. ~a.broke /\ ~b.broke
  BY <1>2, FindNotBroke
<1>6. QED
  BY <1>4, <1>5 DEF Same

\* Walks at the same item go on to the same item.
LEMMA NextAlike ==
  ASSUME NEW led, NEW k \in Nat, k # 1, NEW here, NEW there, Same(here, there),
         Way(led, k - 1, here), Way(led, k - 1, there), NEW part, NEW a, NEW b,
         a = Onwards(volume, here, part, k), b = Onwards(volume, there, part, k)
  PROVE  Same(a, b)
<1> DEFINE found == fat16_find_item_in_directory(volume, here.pos, here.directory, part)
           other == fat16_find_item_in_directory(volume, there.pos, there.directory, part)
<1>1. a = Onto(here, found, k) /\ b = Onto(there, other, k)
  BY DEF Onwards
<1>2. /\ ~here.hung /\ ~there.hung /\ DOMAIN here = SearchFields /\ DOMAIN there = SearchFields
      /\ here.item = there.item /\ (here.broke <=> there.broke)
  BY DEF Way, Finds, Off, Same
<1>3. ~found.broke /\ ~other.broke
  BY FindNotBroke
<1> HIDE DEF found, other
<1>4. CASE here.broke
  <2>1. a = here /\ b = there
    BY <1>1, <1>2, <1>4 DEF Onto
  <2>2. QED
    BY <2>1
<1>5. CASE ~here.broke /\ here.item = NoItem
  <2>1. ASSUME NEW h, DOMAIN h = SearchFields, NEW stray
        PROVE  LET x == [h EXCEPT !.broke = TRUE, !.stray = stray] IN x.broke /\ x.item = h.item
    BY <2>1 DEF SearchFields
  <2> DEFINE x == [here EXCEPT !.broke = TRUE, !.stray = here.stray \/ k > 2]
             y == [there EXCEPT !.broke = TRUE, !.stray = there.stray \/ k > 2]
  <2>2. a = x /\ b = y
    BY <1>1, <1>2, <1>5 DEF Onto
  <2>3. x.broke /\ x.item = here.item /\ y.broke /\ y.item = there.item
    BY <1>2, <2>1
  <2> HIDE DEF x, y
  <2>4. QED
    BY <1>2, <2>2, <2>3 DEF Same
<1>6. CASE ~here.broke /\ here.item # NoItem /\ ~here.item.dir
  <2> DEFINE x == [here EXCEPT !.broke = TRUE, !.item = NoItem]
             y == [there EXCEPT !.broke = TRUE, !.item = NoItem]
  <2>1. a = x /\ b = y
    BY <1>1, <1>2, <1>6 DEF Onto
  <2>2. x.broke /\ x.item = NoItem /\ y.broke /\ y.item = NoItem
    BY <1>2 DEF SearchFields
  <2> HIDE DEF x, y
  <2>3. QED
    BY <2>1, <2>2 DEF Same
<1>7. CASE ~here.broke /\ here.item # NoItem /\ here.item.dir
  <2>1. Finds(led[k - 1], here) /\ Finds(led[k - 1], there)
    BY <1>2, <1>7 DEF Way, Off
  <2>2. DirectoryRead(volume, here.directory, here.item)
        /\ DirectoryRead(volume, there.directory, here.item)
    BY <1>2, <1>7, <2>1 DEF Finds
  <2>3. Alike(here.directory, there.directory)
    BY <2>2 DEF DirectoryRead, Alike
  <2>4. found.item = other.item
    BY <2>3, FindAlike DEF found, other
  <2>5. ASSUME NEW h, NEW f, DOMAIN f = SearchFields
        PROVE  Step(h, f).item = f.item /\ (Step(h, f).broke <=> f.broke)
    <3> DEFINE grown == h.grown + f.grown - ItemBlocks(h.item)
               stray == h.stray \/ f.stray
    <3>1. Step(h, f) = [f EXCEPT !.grown = grown, !.stray = stray]
      BY DEF Step
    <3> HIDE DEF grown, stray
    <3>2. QED
      BY <2>5, <3>1 DEF SearchFields
  <2>6. DOMAIN found = SearchFields /\ DOMAIN other = SearchFields
    BY DEF found, other, fat16_find_item_in_directory, fat16_new_fat_item_for_directory_item,
           Found, SearchFields
  <2>7. a = Step(here, found) /\ b = Step(there, other)
    BY <1>1, <1>2, <1>7 DEF Onto
  <2>8. QED
    BY <1>3, <2>4, <2>5, <2>6, <2>7 DEF Same
<1>8. QED
  BY <1>4, <1>5, <1>6, <1>7

\* The item that a path names does not depend on where the stream stands.
LEMMA EntryAlike ==
  ASSUME InOrder, volume \in Volumes, NEW parts, Plain(parts),
         NEW root, root = fat16_get_root_directory(volume), ~root.hung,
         NEW s \in Nat, NEW t \in Nat
  PROVE  fat16_get_directory_entry(volume, s, root, parts).item
           = fat16_get_directory_entry(volume, t, root, parts).item
<1> DEFINE n == Len(parts)
<1>1. n \in Nat /\ n \in 1 .. n
  BY DEF Plain
<1>2. PICK led : Leads(led, parts)
  BY <1>1, LeadsOf
<1>3. PICK walk : Walk(walk, volume, s, root, parts)
  BY <1>1, WalkOf
<1>4. PICK other : Walk(other, volume, t, root, parts)
  BY <1>1, WalkOf
<1> DEFINE T == {l \in 1 .. n : ~Same(walk[l], other[l])}
<1>5. T = {}
  <2> SUFFICES ASSUME T # {} PROVE FALSE
    OBVIOUS
  <2>1. PICK l \in T : \A j \in T : l <= j
    <3>1. T \subseteq Nat
      BY <1>1
    <3> HIDE DEF T
    <3>2. QED
      BY <3>1, Numbers!LeastNumber
  <2>2. l \in 1 .. n /\ ~Same(walk[l], other[l])
    BY <2>1
  <2>3. /\ walk[l] = Onwards(volume, walk[l - 1], parts[l], l)
        /\ other[l] = Onwards(volume, other[l - 1], parts[l], l)
        /\ walk[0] = AtRoot(s, root) /\ other[0] = AtRoot(t, root)
    BY <1>3, <1>4, <2>2 DEF Walk
  <2>4. CASE l = 1
    <3>1. /\ walk[1] = Onwards(volume, AtRoot(s, root), parts[1], 1)
          /\ other[1] = Onwards(volume, AtRoot(t, root), parts[1], 1)
      BY <2>3, <2>4
    <3>2. Same(walk[1], other[1])
      BY <3>1, StartAlike
    <3>3. QED
      BY <2>2, <2>4, <3>2
  <2>5. CASE l # 1
    <3>1. l - 1 \in 1 .. n /\ l - 1 < l /\ l \in Nat
      BY <1>1, <2>2, <2>5
    <3>2. l - 1 \notin T
      <4> HIDE DEF T
      <4>1. l \in Int
        BY <2>2
      <4>2. QED
        BY <2>1, <3>1, <4>1
    <3>3. Same(walk[l - 1], other[l - 1])
      BY <3>1, <3>2
    <3>4. Way(led, l - 1, walk[l - 1])
      BY <1>2, <1>3, <3>1, WayOf
    <3>5. Way(led, l - 1, other[l - 1])
      BY <1>2, <1>4, <3>1, WayOf
    <3>6. Same(walk[l], other[l])
      BY <2>3, <2>5, <3>1, <3>3, <3>4, <3>5, NextAlike
    <3>7. QED
      BY <2>2, <3>6
  <2>6. QED
    BY <2>4, <2>5
<1>6. Same(walk[n], other[n])
  BY <1>1, <1>5
<1>7. QED
  BY <1>3, <1>4, <1>6 DEF Walk, Same

\* An open that is refused before the file system is asked.
Refused(path) ==
  LET parsed == pathparser_parse(path)
  IN \/ ~parsed.ok
     \/ parsed.parts = <<>>
     \/ ~disk_get(parsed.drive)
     \/ ~disk.ours
     \/ "r" \notin ModeStrings

\* The answer of an open is a descriptor if memory and descriptors have not run out
\* and the search finds an item.
Walked(stream, parts) == fat16_get_directory_entry(volume, stream, disk.root_directory, parts)

\* When fat16_open answers: memory at hand and an item at the end of the walk.
LEMMA OpenRes ==
  ASSUME NEW stream, NEW parts, NEW mem
  PROVE  fat16_open(volume, stream, disk.root_directory, parts, "r", mem).res >= 0
           <=> mem /\ Walked(stream, parts).item # NoItem
<1> DEFINE entry == Walked(stream, parts)
           o == fat16_open(volume, stream, disk.root_directory, parts, "r", mem)
           grown == entry.grown + (IF entry.item = NoItem THEN 0 ELSE 1)
<1>1. CASE ~mem
  <2>1. o = [res |-> -ENOMEM, item |-> NoItem, grown |-> 0, pos |-> stream,
             hung |-> FALSE, stray |-> FALSE]
    BY <1>1 DEF fat16_open
  <2>2. o.res = -ENOMEM
    BY <2>1
  <2> HIDE DEF o
  <2>3. ~(o.res >= 0)
    BY <2>2 DEF ENOMEM
  <2>4. QED
    BY <1>1, <2>3 DEF o
<1>2. CASE mem
  <2>1. o = [res |-> IF entry.item = NoItem THEN -EIO ELSE 0, item |-> entry.item, grown |-> grown,
             pos |-> entry.pos, hung |-> entry.hung, stray |-> entry.stray]
    BY <1>2 DEF fat16_open, Walked
  <2> HIDE DEF entry, grown
  <2>2. o.res = IF entry.item = NoItem THEN -EIO ELSE 0
    BY <2>1
  <2> HIDE DEF o
  <2>3. o.res >= 0 <=> entry.item # NoItem
    BY <2>2 DEF EIO
  <2>4. QED
    BY <1>2, <2>3 DEF o, entry
<1>3. QED
  BY <1>1, <1>2

\* When fopen answers: a well-formed path, memory, a free descriptor and an item at
\* the end of the walk.
LEMMA FopenRes ==
  ASSUME NEW s, NEW path, NEW mem
  PROVE  fopen(s, path, "r", mem).res # 0
           <=> /\ ~Refused(path) /\ mem /\ file_new_descriptor(s) # 0
               /\ Walked(s.stream, pathparser_parse(path).parts).item # NoItem
<1> DEFINE parsed == pathparser_parse(path)
           fd == file_new_descriptor(s)
           opened == fat16_open(volume, s.stream, disk.root_directory, parsed.parts, "r", mem)
           given == opened.res >= 0 /\ fd # 0
           a == fopen(s, path, "r", mem)
           table == IF given THEN [s.descriptors EXCEPT ![fd] = [item |-> opened.item, pos |-> 0]]
                    ELSE s.descriptors
           grown == parsed.blocks + opened.grown + (IF given THEN 1 ELSE 0)
<1>1. CASE Refused(path)
  <2>1. a = [Answer(s, 0) EXCEPT !.grown = parsed.blocks]
    BY <1>1 DEF fopen, Refused
  <2>2. a.res = 0
    BY <2>1 DEF Answer
  <2>3. QED
    BY <1>1, <2>2
<1>2. CASE ~Refused(path)
  <2>1. a = [fs |-> [descriptors |-> table, stream |-> opened.pos],
             res |-> IF given THEN fd ELSE 0, grown |-> grown,
             hung |-> opened.hung, stray |-> opened.stray, out |-> <<>>]
    BY <1>2, Zenon DEF fopen, Refused
  <2>2. opened.res >= 0 <=> mem /\ Walked(s.stream, parsed.parts).item # NoItem
    BY OpenRes
  <2> HIDE DEF opened, table, grown, fd, parsed, given
  <2>3. a.res = IF given THEN fd ELSE 0
    BY <2>1
  <2> HIDE DEF a
  <2>4. a.res # 0 <=> fd # 0 /\ mem /\ Walked(s.stream, parsed.parts).item # NoItem
    BY <2>2, <2>3 DEF given
  <2>5. QED
    BY <1>2, <2>4 DEF a, fd, parsed
<1>3. QED
  BY <1>1, <1>2

\* A file that was opened can be opened again while its descriptor is free.
LEMMA FopenAgain ==
  ASSUME InOrder, PathsSplit, Mounted, MountedRoot, NEW path \in Paths,
         NEW s, Typed(s), NEW t, Typed(t), t.descriptors = s.descriptors,
         NEW mem, fopen(s, path, "r", mem).res # 0
  PROVE  fopen(t, path, "r", TRUE).res # 0
<1> DEFINE parts == pathparser_parse(path).parts
           root == fat16_get_root_directory(volume)
<1>1. s.stream \in Nat /\ t.stream \in Nat
  BY DEF Typed
<1>2. /\ ~Refused(path) /\ file_new_descriptor(s) # 0 /\ Walked(s.stream, parts).item # NoItem
  BY FopenRes
<1>3. file_new_descriptor(t) = file_new_descriptor(s)
  BY DEF file_new_descriptor, Free
<1>4. pathparser_path_valid_format(path) /\ parts = NamesOf(path) /\ Plain(NamesOf(path))
  <2>1. Gives(s, path, fopen(s, path, "r", mem))
    BY OpenedFile
  <2>2. pathparser_path_valid_format(path) /\ NamesOf(path) # <<>>
    BY <2>1 DEF Gives
  <2>3. QED
    BY <2>2, ParseOf, NamesPlain DEF pathparser_path_valid_format
<1>5. disk.ours /\ disk.root_directory = root /\ ~root.hung /\ volume \in Volumes
  BY <1>2 DEF Refused, MountedRoot
<1> HIDE DEF parts, root
<1>6. Plain(parts)
  BY <1>4
<1>7. Walked(t.stream, parts).item = Walked(s.stream, parts).item
  BY <1>1, <1>5, <1>6, EntryAlike DEF Walked, root
<1>8. QED
  BY <1>2, <1>3, <1>7, FopenRes DEF parts

\* What a load of an ELF file touches, and what it knows when it says that the file
\* is not one.
LEMMA ElfStray ==
  ASSUME InOrder, PathsSplit, Mounted, MountedRoot, NEW s, Typed(s), NEW path \in Paths, NEW mem,
         NEW elf, elf = elf_load(s, path, mem),
         NEW o, o = fopen(s, path, "r", mem)
  PROVE  /\ elf.stray => Len(NamesOf(path)) > 2
         /\ ~elf.hung /\ elf.res = -EINFORMAT => o.res # 0 /\ Asked(o).res = 0
<1> DEFINE a == Asked(o)
           r == ReadWhole(o)
           valid == elf_validate_loaded(ProgramAt(r.out[1]))
           Right(e) == /\ e.stray => Len(NamesOf(path)) > 2
                       /\ ~e.hung /\ e.res = -EINFORMAT => o.res # 0 /\ Asked(o).res = 0
<1>1. /\ ~o.hung /\ Ready(o) /\ o.res \in Nat /\ (o.stray => Len(NamesOf(path)) > 2)
      /\ o.res # 0 => /\ ~o.stray
                      /\ \E item \in Lookup(NamesOf(path)) : Obtained(s, o, item)
  BY OpenedFile
<1>2. elf = IF o.res <= 0 THEN Ending(o, o, -EIO, 1)
            ELSE IF a.res < 0 THEN Ending(o, a, a.res, 1)
            ELSE IF r.hung THEN r
            ELSE IF r.res < 0 THEN Ending(o, r, r.res, 2)
            ELSE IF ~valid THEN Ending(o, r, -EINFORMAT, 2)
            ELSE Ending(o, r, 0, 2)
  BY <1>1, ElfLoadIs
<1>3. -EIO = -1 /\ -EINVARG = -2 /\ -EINFORMAT = -9
  BY DEF EIO, EINVARG, EINFORMAT
<1>4. Table(s)
  BY DEF Typed
<1>5. ASSUME NEW b, Answers(b), b.stray => Len(NamesOf(path)) > 2, NEW res, NEW blocks,
             res = -EINFORMAT => o.res # 0 /\ Asked(o).res = 0
      PROVE  Right(Ending(o, b, res, blocks))
  <2> DEFINE e == Ending(o, b, res, blocks)
  <2>1. e = Ending(o, b, res, blocks)
    OBVIOUS
  <2> HIDE DEF e
  <2>2. e.res = res /\ (e.stray => b.stray)
    BY <1>5, <2>1, EndingOf
  <2>3. Right(e)
    BY <1>5, <2>2
  <2>4. QED
    BY <2>3 DEF e
<1> HIDE DEF a, r, valid
<1>6. CASE o.res = 0
  <2>1. elf = Ending(o, o, -EIO, 1)
    BY <1>2, <1>6
  <2>2. Answers(o) /\ -EIO # -EINFORMAT
    BY <1>1, <1>3 DEF Ready
  <2> HIDE DEF Right
  <2>3. Right(Ending(o, o, -EIO, 1))
    BY <1>1, <1>5, <2>2
  <2>4. QED
    BY <2>1, <2>3 DEF Right
<1>7. CASE o.res # 0
  <2>1. PICK item \in Lookup(NamesOf(path)) : Obtained(s, o, item)
    BY <1>1, <1>7
  <2>2. Ready(a) /\ ~a.stray /\ a.res \in {0, -EIO, -EINVARG} /\ ~(o.res <= 0)
    <3> HIDE DEF Right
    <3>1. Ready(a) /\ (a.stray => o.stray) /\ a.res \in {0, -EIO, -EINVARG}
      BY <1>4, <2>1, SizeKnown DEF a
    <3>2. ~o.stray /\ o.res \in Nat /\ o.res # 0
      BY <1>1, <1>7
    <3>3. QED
      BY <3>1, <3>2
  <2>3. CASE a.res # 0
    <3>1. Answers(a) /\ a.res < 0 /\ a.res # -EINFORMAT
      BY <1>3, <2>2, <2>3 DEF Ready
    <3>2. elf = Ending(o, a, a.res, 1)
      BY <1>2, <2>2, <3>1
    <3> HIDE DEF Right
    <3>3. Right(Ending(o, a, a.res, 1))
      BY <1>5, <2>2, <3>1
    <3>4. QED
      BY <3>2, <3>3 DEF Right
  <2>4. CASE a.res = 0
    <3>1. Ready(r) /\ ~r.stray
      BY <1>1, <1>4, <1>7, <2>1, <2>4, WholeFile DEF a, r, InOrder
    <3>2. Answers(r)
      BY <3>1 DEF Ready
    <3>3. elf = IF r.hung THEN r
                ELSE IF r.res < 0 THEN Ending(o, r, r.res, 2)
                ELSE IF ~valid THEN Ending(o, r, -EINFORMAT, 2)
                ELSE Ending(o, r, 0, 2)
      BY <1>2, <2>2, <2>4
    <3>4. o.res # 0 /\ Asked(o).res = 0
      BY <1>7, <2>4 DEF a
    <3>5. Right(r)
      BY <3>1, <3>4
    <3>6. ASSUME NEW res, NEW blocks PROVE Right(Ending(o, r, res, blocks))
      BY <1>5, <3>1, <3>2, <3>4
    <3> HIDE DEF Right
    <3>7. Right(elf)
      BY <3>3, <3>5, <3>6
    <3>8. QED
      BY <3>7 DEF Right
  <2>5. QED
    BY <2>3, <2>4
<1>8. QED
  BY <1>6, <1>7

\* A load of a flat binary touches nothing that was not given, if the file can be
\* opened and its size is known.
LEMMA BinaryStray ==
  ASSUME InOrder, PathsSplit, Mounted, MountedRoot, NEW s, Typed(s), NEW path \in Paths, NEW mem,
         NEW o, o = fopen(s, path, "r", mem), o.res # 0, Asked(o).res = 0
  PROVE  ~process_load_binary(s, path, mem).stray
<1> DEFINE r == ReadWhole(o)
           binary == process_load_binary(s, path, mem)
<1>1. /\ ~o.hung /\ Ready(o) /\ ~o.stray
      /\ \E item \in Lookup(NamesOf(path)) : Obtained(s, o, item)
  BY OpenedFile
<1>2. binary = IF r.hung THEN r
               ELSE IF r.res # 1 THEN Ending(o, r, -EIO, 0)
               ELSE Ending(o, r, 0, 1)
  BY <1>1, BinaryLoadIs
<1>3. PICK item \in Lookup(NamesOf(path)) : Obtained(s, o, item)
  BY <1>1
<1>4. Table(s)
  BY DEF Typed
<1>5. Ready(r) /\ ~r.stray
  BY <1>1, <1>3, <1>4, WholeFile DEF InOrder
<1> HIDE DEF r, binary
<1>6. Answers(r)
  BY <1>5 DEF Ready
<1>7. ASSUME NEW res, NEW blocks PROVE ~Ending(o, r, res, blocks).stray
  <2> DEFINE e == Ending(o, r, res, blocks)
  <2>1. e = Ending(o, r, res, blocks)
    OBVIOUS
  <2> HIDE DEF e
  <2>2. ~e.stray
    BY <1>5, <1>6, <2>1, EndingOf
  <2>3. QED
    BY <2>2 DEF e
<1>8. ~binary.stray
  <2>1. ~Ending(o, r, -EIO, 0).stray /\ ~Ending(o, r, 0, 1).stray
    BY <1>7
  <2>2. QED
    BY <1>2, <1>5, <2>1
<1>9. QED
  BY <1>8 DEF binary

\* However a load goes, and whichever descriptors are open, the item at address 0
\* and the pointer without a value are only touched when a directory below the root
\* is missing on the way: the second open of a file that is not in ELF format
\* succeeds wherever the first one did.
THEOREM StrayOnlyOnTheWay ==
  ASSUME FilesOnDisk, DirectoriesEnd, NamesApart, PathsSplit
  PROVE  Spec => []StrayOnlyBelowRoot
<1>1. ASSUME LoadingInv, Running, NEW path \in Paths, NEW mem,
             process_load_data(fs, path, mem, TRUE).stray
      PROVE  Len(NamesOf(path)) > 2
  <2> DEFINE s == fs
             elf == elf_load(s, path, mem)
             o == fopen(s, path, "r", mem)
             t == elf.fs
             again == fopen(t, path, "r", TRUE)
             binary == process_load_binary(t, path, TRUE)
             a == process_load_data(s, path, mem, TRUE)
  <2>1. Mounted /\ MountedRoot /\ Typed(s) /\ Table(s) /\ InOrder
    BY <1>1, RunningMounted DEF InOrder
  <2>2. a = IF elf.hung \/ elf.res # -EINFORMAT THEN elf ELSE After(elf, binary)
    BY DEF process_load_data
  <2>3. /\ elf.stray => Len(NamesOf(path)) > 2
        /\ ~elf.hung /\ elf.res = -EINFORMAT => o.res # 0 /\ Asked(o).res = 0
    BY <2>1, ElfStray
  <2>4. Program(elf)
    BY <2>1, LoadReady
  <2>5. PICK fd \in Free(s) \cup {0} :
          /\ Free(s) # {MaxFileDescriptors} => fd # MaxFileDescriptors
          /\ LoadAnswer(s, fd, elf)
    BY <2>1, LoadOf
  <2>6. a.stray
    BY <1>1
  <2> HIDE DEF a, elf, s
  <2>7. Typed(t)
    BY <2>4 DEF Program, Ready
  <2> HIDE DEF t
  <2>8. Program(binary)
    BY <2>1, <2>7, LoadReady
  <2>9. CASE elf.hung \/ elf.res # -EINFORMAT
    BY <2>2, <2>3, <2>6, <2>9
  <2>10. CASE ~(elf.hung \/ elf.res # -EINFORMAT)
    <3>1. o.res # 0 /\ Asked(o).res = 0
      BY <2>3, <2>10
    <3>2. PICK item \in Lookup(NamesOf(path)) : Obtained(s, o, item)
      BY <2>1, <3>1, OpenedFile
    <3>3. o.res < MaxFileDescriptors /\ ~item.dir /\ Plain(NamesOf(path))
      <4>1. o.res < MaxFileDescriptors /\ ~item.dir
        BY <2>1, <3>1, <3>2, SizeKnown
      <4>2. Plain(NamesOf(path))
        BY <2>1, <3>1, OpenedFile
      <4>3. QED
        BY <4>1, <4>2
    <3>4. t.descriptors = s.descriptors
      <4>1. o.res \in Free(s)
        BY <3>2, LowestFree DEF Obtained
      <4>2. Free(s) # {MaxFileDescriptors}
        <5> HIDE DEF o
        <5>1. o.res # MaxFileDescriptors
          BY <3>3, <4>1, FilesAssumption DEF Free
        <5>2. QED
          BY <4>1, <5>1
      <4>3. QED
        BY <2>5, <2>10, <4>2 DEF LoadAnswer, t
    <3>5. again.res # 0
      BY <2>1, <2>7, <3>1, <3>4, FopenAgain
    <3>6. PICK other \in Lookup(NamesOf(path)) : Obtained(t, again, other)
      BY <2>1, <2>7, <3>5, OpenedFile
    <3>7. other = item
      BY <2>1, <3>3, OneItem DEF Mounted
    <3>8. again.res = o.res
      BY <3>2, <3>4, <3>6 DEF Obtained, Free
    <3>9. Asked(again).res = 0
      <4>1. Table(t)
        BY <2>7 DEF Typed
      <4>2. Asked(again).res = 0 <=> (again.res < MaxFileDescriptors /\ ~other.dir)
        BY <2>1, <3>6, <4>1, SizeKnown
      <4> HIDE DEF again, o
      <4>3. QED
        BY <3>3, <3>7, <3>8, <4>2
    <3>10. ~binary.stray
      BY <2>1, <2>7, <3>5, <3>9, BinaryStray
    <3> HIDE DEF binary
    <3>11. a.stray <=> elf.stray \/ binary.stray
      <4>1. Answers(binary)
        BY <2>8 DEF Program, Ready
      <4>2. a = After(elf, binary)
        BY <2>2, <2>10
      <4>3. QED
        BY <4>1, <4>2, AfterStray
    <3>12. QED
      BY <2>3, <2>6, <3>10, <3>11
  <2>11. QED
    BY <2>9, <2>10
<1>2. LoadingInv => StrayOnlyBelowRoot
  <2> SUFFICES ASSUME LoadingInv, Running, NEW path \in Paths, NEW mem \in BOOLEAN,
                      NEW again \in BOOLEAN, process_load_data(fs, path, mem, again).stray,
                      again
               PROVE  Len(NamesOf(path)) > 2
    BY DEF StrayOnlyBelowRoot
  <2>1. again = TRUE
    OBVIOUS
  <2>2. QED
    BY <1>1, <2>1
<1>3. QED
  BY <1>2, LoadingInvariance, PTL
==============================================================================
