--------------------------- MODULE CS1550FSProofs ---------------------------
(***************************************************************************)
(* Theorems about CS1550FS, for any number of threads, directories, files  *)
(* and blocks.  The invariants, each resting on those before it:           *)
(*                                                                         *)
(*   DiskInv     types, the entries of the root, and what a call refers to *)
(*   DirInv      files fill a directory from its first slot; directories   *)
(*               and files stay in their sections of the disk              *)
(*   OwnerInv    no block is claimed twice, on the disk or by a call       *)
(*   RaceInv     one thread at a time has a directory in its hands, with   *)
(*               every file that it has on the disk                        *)
(*   FsInv       what a call has in its hands is the directory on the disk *)
(*               but for its own file, and the data belongs to that        *)
(*                                                                         *)
(* Each is shown to hold after every action; then follow the theorems that *)
(* it yields.  The last part is the refinement of FileStore.               *)
(***************************************************************************)
EXTENDS CS1550FS, FiniteSetTheorems, SequenceTheorems, WellFoundedInduction, TLAPS

-----------------------------------------------------------------------------
(* What the disk and the calls look like at any time.                      *)

(* Where a file can be: in the file section; or, when it was made on a     *)
(* full disk, nowhere.                                                     *)
Place(b) == b \in FileBlocks(disk) \/ (b = -1 /\ "full" \in trouble)
Placed(entry) == entry.fname # NoName => Place(entry.nStartBlock)
Sized(entry) == entry.fname # NoName => entry.fsize > 0

(* The directories fill the first slots of the root.                       *)
RootPacked(r) ==
    /\ \A i \in DirSlots :
          /\ i < r.nDirectories <=> r.directories[i].dname # NoName
          /\ i < r.nDirectories => r.directories[i].nStartBlock = i + 1
    /\ \A i, j \in DirSlots :
          i < r.nDirectories /\ j < r.nDirectories /\ r.directories[i].dname = r.directories[j].dname
             => i = j

RootInv == /\ RootReadable => RootPacked(root)
           /\ "full" \notin trouble => RootReadable

DirsInv ==
    \A b \in DOMAIN disk : disk[b].kind = "dir" =>
        \A i \in FileSlots : Placed(disk[b].files[i]) /\ Sized(disk[b].files[i])

(* A call never has block 0 in its hands, and only the size of the file    *)
(* that it makes can be 0, until it has read the block.                    *)
CallFits(t) ==
    /\ call[t].key \in DirNames \X FileNames
    /\ call[t].dirBlock \in 1..MAX_DIRS_IN_ROOT
    /\ call[t].offset + Len(call[t].buf) + 1 < BLOCK_SIZE /\ Len(call[t].buf) > 0
    /\ pc[t] = "find_block" => call[t].new
    /\ pc[t] # "find_block" => Place(call[t].block)
    /\ \A i \in FileSlots :
          /\ Placed(call[t].directory.files[i])
          /\ Sized(call[t].directory.files[i]) \/ (pc[t] = "read_block" /\ i = call[t].slot)
    /\ pc[t] \in {"write_dir", "write_data"} =>
          /\ call[t].data.kind \in {"data", "junk"}
          /\ "zero" \notin trouble /\ call[t].data.kind = "data" => call[t].data.data[0] # NUL

CallsInv == \A t \in Threads : pc[t] # "idle" => CallFits(t)

DiskInv == TypeOK /\ RootInv /\ DirsInv /\ CallsInv

-----------------------------------------------------------------------------
(* Blocks *)

LEMMA FirstIsFirst ==
    ASSUME NEW S, S \subseteq Nat, S # {}
    PROVE  First(S) \in S /\ \A j \in S : First(S) <= j
<1>1. PICK n \in S : \A m \in S : ~(<<m, n>> \in OpToRel(<, Nat))
  BY WFMin, NatLessThanWellFounded, Zenon
<1>2. \A m \in S : ~(m < n)
  BY <1>1 DEF OpToRel
<1>3. \A m \in S : n <= m
  BY <1>2
<1> QED
  BY <1>3 DEF First

(* A block is what its kind says, and a block of zeros is an empty one of  *)
(* any kind.                                                               *)
LEMMA BlockKinds ==
    ASSUME NEW b \in Block
    PROVE  /\ AsRoot(b).kind = "root" => AsRoot(b) \in Root
           /\ AsDir(b).kind = "dir" => AsDir(b) \in Directory
           /\ AsData(b).kind = "data" => AsData(b) \in Data
           /\ b.kind = "dir" => b \in Directory /\ AsDir(b) = b
           /\ b # Zero => AsRoot(b) = b /\ AsDir(b) = b /\ AsData(b) = b
           /\ b = Zero \/ b = Junk \/ b \in Root \/ b \in Directory \/ b \in Data
<1>1. AsRoot(Zero) \in Root
  BY DiskAssumption DEF AsRoot, Root, RootBlock, RootEntry, NoDirectory, DirSlots
<1>2. AsDir(Zero) \in Directory
  BY DiskAssumption DEF AsDir, Directory, DirBlock, FileEntry, NoFile, FileSlots
<1>3. AsData(Zero) \in Data
  BY DiskAssumption DEF AsData, Data, DataBlock, NUL, Bytes
<1>4. b = Zero \/ b = Junk \/ b \in Root \/ b \in Directory \/ b \in Data
  BY DEF Block
<1>5. Zero.kind = "zero" /\ Junk.kind = "junk"
  BY DEF Zero, Junk
<1>6. /\ b \in Root => b.kind = "root"
      /\ b \in Directory => b.kind = "dir"
      /\ b \in Data => b.kind = "data"
  BY DEF Root, Directory, Data
<1>7. b # Zero => AsRoot(b) = b /\ AsDir(b) = b /\ AsData(b) = b
  BY DEF AsRoot, AsDir, AsData
<1> QED
  BY <1>1, <1>2, <1>3, <1>4, <1>5, <1>6, <1>7

LEMMA DiskFacts ==
    ASSUME TypeOK
    PROVE  /\ DOMAIN disk \subseteq Nat
           /\ 0 \in DOMAIN disk
           /\ 1..MAX_DIRS_IN_ROOT \subseteq DOMAIN disk
           /\ 1..MAX_FILES_IN_DIR \subseteq DOMAIN disk
           /\ FileBlocks(disk) \subseteq DOMAIN disk
           /\ \A b \in FileBlocks(disk) : b \in Nat /\ b > MAX_FILES_IN_DIR
           /\ \A b \in DOMAIN disk : disk[b] \in Block
<1>1. PICK n \in DiskSizes : disk \in [0..n - 1 -> Block]
  BY DEF TypeOK
<1>2. n \in Nat /\ n > 1 + MAX_FILES_IN_DIR /\ n > MAX_DIRS_IN_ROOT
  BY DiskAssumption
<1>3. DOMAIN disk = 0..n - 1
  BY <1>1
<1> QED
  BY <1>1, <1>2, <1>3, DiskAssumption DEF FileBlocks, FirstFileBlock

LEMMA DiskUpdate ==
    ASSUME TypeOK, NEW b \in DOMAIN disk, NEW x \in Block, disk' = [disk EXCEPT ![b] = x]
    PROVE  /\ \E n \in DiskSizes : disk' \in [0..n - 1 -> Block]
           /\ DOMAIN disk' = DOMAIN disk
           /\ FileBlocks(disk') = FileBlocks(disk)
           /\ disk'[b] = x
           /\ \A c \in DOMAIN disk : c # b => disk'[c] = disk[c]
<1>1. PICK n \in DiskSizes : disk \in [0..n - 1 -> Block]
  BY DEF TypeOK
<1>2. disk' \in [0..n - 1 -> Block]
  BY <1>1
<1>3. DOMAIN disk' = DOMAIN disk
  BY <1>1
<1>4. FileBlocks(disk') = FileBlocks(disk)
  BY <1>3 DEF FileBlocks
<1> QED
  BY <1>1, <1>2, <1>3, <1>4

(* What the search for a free block returns is one, or -1. *)
LEMMA FreeBlock ==
    ASSUME TypeOK
    PROVE  \/ find_next_free_file_block(disk) = -1
           \/ /\ find_next_free_file_block(disk) \in FreeFileBlocks(disk)
              /\ find_next_free_file_block(disk) \in FileBlocks(disk)
<1>1. FreeFileBlocks(disk) \subseteq FileBlocks(disk)
  BY DEF FreeFileBlocks
<1>2. FileBlocks(disk) \subseteq Nat
  BY DiskFacts
<1> QED
  BY <1>1, <1>2, FirstIsFirst DEF find_next_free_file_block

LEMMA RootFound ==
    ASSUME DiskInv, RootReadable, NEW d
    PROVE  /\ DirBlockOf(d) # -1 =>
                 \E i \in DirSlots : /\ i < root.nDirectories /\ root.directories[i].dname = d
                                     /\ DirBlockOf(d) = i + 1
           /\ \A i \in DirSlots : i < root.nDirectories /\ root.directories[i].dname = d =>
                 DirBlockOf(d) = i + 1
<1> DEFINE found == {i \in DirSlots : i < root.nDirectories /\ root.directories[i].dname = d}
<1>1. RootPacked(root)
  BY DEF DiskInv, RootInv
<1>2. DirBlockOf(d) = IF found = {} THEN -1 ELSE root.directories[First(found)].nStartBlock
  BY DEF DirBlockOf, get_subdirectory_starting_block
<1>3. DirSlots \subseteq Nat
  BY DiskAssumption DEF DirSlots
<1>4. found \subseteq Nat
  BY <1>3
<1>5. found # {} => First(found) \in found
  BY <1>4, FirstIsFirst
<1>6. \A i \in found : root.directories[i].nStartBlock = i + 1
  BY <1>1 DEF RootPacked
<1>7. \A i, j \in found : i = j
  BY <1>1 DEF RootPacked
<1>8. found # {} => DirBlockOf(d) = First(found) + 1
  BY <1>2, <1>5, <1>6
<1>9. ASSUME NEW i \in DirSlots, i < root.nDirectories, root.directories[i].dname = d
      PROVE  DirBlockOf(d) = i + 1
  <2>1. i \in found
    BY <1>9
  <2>2. First(found) = i
    BY <2>1, <1>5, <1>7
  <2> QED
    BY <2>1, <2>2, <1>8
<1>10. ASSUME DirBlockOf(d) # -1
       PROVE  \E i \in DirSlots : /\ i < root.nDirectories /\ root.directories[i].dname = d
                                  /\ DirBlockOf(d) = i + 1
  <2>1. found # {}
    BY <1>10, <1>2
  <2>2. First(found) \in found
    BY <2>1, <1>5
  <2> QED
    BY <2>1, <2>2, <1>8
<1> QED
  BY <1>9, <1>10

LEMMA DirFound ==
    ASSUME DiskInv, NEW d, DirReadable(d)
    PROVE  /\ DirBlockOf(d) \in 1..MAX_DIRS_IN_ROOT
           /\ DirBlockOf(d) \in DOMAIN disk
           /\ AsDir(disk[DirBlockOf(d)]) \in Directory
           /\ \A i \in FileSlots : /\ Placed(AsDir(disk[DirBlockOf(d)]).files[i])
                                   /\ Sized(AsDir(disk[DirBlockOf(d)]).files[i])
<1> DEFINE b == DirBlockOf(d)
<1>0. TypeOK /\ DirsInv
  BY DEF DiskInv
<1>1. b \in 1..MAX_DIRS_IN_ROOT
  BY RootFound, DiskAssumption DEF DirReadable, DirSlots
<1>2. b \in DOMAIN disk /\ disk[b] \in Block
  BY <1>0, <1>1, DiskFacts
<1>3. AsDir(disk[b]) \in Directory
  BY <1>2, BlockKinds DEF DirReadable
<1>4. ASSUME NEW i \in FileSlots
      PROVE  Placed(AsDir(disk[b]).files[i]) /\ Sized(AsDir(disk[b]).files[i])
  <2>1. CASE disk[b] = Zero
    <3>1. AsDir(disk[b]).files[i].fname = NoName
      BY <2>1, <1>4 DEF AsDir, DirBlock, NoFile
    <3> QED
      BY <3>1 DEF Placed, Sized
  <2>2. CASE disk[b] # Zero
    <3>1. AsDir(disk[b]) = disk[b] /\ disk[b].kind = "dir"
      BY <2>2 DEF AsDir, DirReadable
    <3> QED
      BY <3>1, <1>0, <1>2, <1>4 DEF DirsInv
  <2> QED
    BY <2>1, <2>2
<1> QED
  BY <1>1, <1>2, <1>3, <1>4

(* What another thread does leaves a call alone. *)
LEMMA CallStays ==
    ASSUME NEW t \in Threads, CallFits(t), call'[t] = call[t], pc'[t] = pc[t],
           FileBlocks(disk') = FileBlocks(disk), trouble \subseteq trouble'
    PROVE  CallFits(t)'
<1>1. ASSUME NEW b, Place(b) PROVE Place(b)'
  BY <1>1 DEF Place
<1>2. ASSUME NEW entry, Placed(entry) PROVE Placed(entry)'
  BY <1>1, <1>2 DEF Placed
<1>3. \A i \in FileSlots : Placed(call[t].directory.files[i]) => Placed(call[t].directory.files[i])'
  BY <1>2
<1>4. pc'[t] # "find_block" => Place(call[t].block)'
  BY <1>1 DEF CallFits
<1> QED
  BY <1>3, <1>4 DEF CallFits, Sized

LEMMA PlacesStay ==
    ASSUME NEW entry, Placed(entry), FileBlocks(disk') = FileBlocks(disk), trouble \subseteq trouble'
    PROVE  Placed(entry)'
BY DEF Placed, Place

(* A step that does not write: the disk keeps what holds of it. *)
LEMMA DiskStays ==
    ASSUME RootInv, DirsInv, UNCHANGED disk, trouble \subseteq trouble'
    PROVE  RootInv' /\ DirsInv'
<1>1. RootInv'
  BY DEF RootInv, RootReadable, root
<1>2. ASSUME NEW b \in DOMAIN disk, disk[b].kind = "dir", NEW i \in FileSlots
      PROVE  Placed(disk[b].files[i])' /\ Sized(disk[b].files[i])'
  BY <1>2 DEF DirsInv, Placed, Place, Sized
<1> QED
  BY <1>1, <1>2 DEF DirsInv

-----------------------------------------------------------------------------
(* The steps *)

Labels == {"idle", "find_block", "read_block", "write_dir", "write_data"}

LEMMA Goes ==
    ASSUME TypeOK, NEW t \in Threads, NEW label \in Labels, Goto(t, label)
    PROVE  /\ pc' \in [Threads -> Labels] /\ pc'[t] = label
           /\ \A u \in Threads : u # t => pc'[u] = pc[u]
BY DEF Goto, TypeOK, Labels

LEMMA NoCallType == NoCall \in Call
<1>1. AsDir(Zero) \in Directory
  BY DiskAssumption DEF AsDir, Directory, DirBlock, FileEntry, NoFile, FileSlots
<1>2. <<>> \in Seq(Nat)
  OBVIOUS
<1> QED
  BY <1>1, <1>2, DiskAssumption DEF NoCall, Call

LEMMA KeyType ==
    ASSUME NEW k \in DirNames \X FileNames
    PROVE  k \in (DirNames \union {NoName}) \X (FileNames \union {NoName})
OBVIOUS

LEMMA BeginsType ==
    ASSUME DiskInv, NEW t \in Threads, NEW k \in DirNames \X FileNames,
           NEW offset \in Offsets, NEW buf \in Payloads, WriteBegins(t, k, offset, buf)
    PROVE  /\ calls' \in 0..MaxCalls
           /\ offset \in Nat /\ buf \in Seq(Nat) /\ Len(buf) \in Nat \ {0}
           /\ DirReadable(k[1]) /\ k[1] \in DirNames /\ k[2] \in FileNames
           /\ disk' = disk
<1>1. calls' \in 0..MaxCalls
  BY CallAssumption DEF WriteBegins, DiskInv, TypeOK
<1>2. buf \in Seq(Nat) /\ buf # <<>>
  BY CallAssumption
<1>3. Len(buf) \in Nat \ {0}
  BY <1>2
<1> QED
  BY <1>1, <1>2, <1>3, CallAssumption DEF WriteBegins

(* What write has in its hands when it makes a new file, ... *)
LEMMA NewCall ==
    ASSUME DiskInv, NEW t \in Threads, NEW k \in DirNames \X FileNames,
           NEW offset \in Offsets, NEW buf \in Payloads, WriteNew(t, k, offset, buf)
    PROVE  LET dir == AsDir(disk[DirBlockOf(k[1])])
               n == IF dir.nFiles > MAX_FILES_IN_DIR THEN 0 ELSE dir.nFiles
           IN  /\ n \in 0..MAX_FILES_IN_DIR
               /\ call' \in [Threads -> Call]
               /\ \A u \in Threads : u # t => call'[u] = call[u]
               /\ call'[t].key = k /\ call'[t].new /\ call'[t].dirBlock = DirBlockOf(k[1])
               /\ call'[t].directory = DirBlock(n + 1, dir.files, dir.padding) /\ call'[t].slot = n
               /\ call'[t].offset = offset /\ call'[t].buf = buf
<1> DEFINE dir == AsDir(disk[DirBlockOf(k[1])])
           n == IF dir.nFiles > MAX_FILES_IN_DIR THEN 0 ELSE dir.nFiles
           nFiles == (IF dir.nFiles > MAX_FILES_IN_DIR THEN 0 ELSE dir.nFiles) + 1
           c == [key |-> k, new |-> TRUE, dirBlock |-> DirBlockOf(k[1]),
                 directory |-> DirBlock(nFiles, dir.files, dir.padding), slot |-> nFiles - 1,
                 offset |-> offset, buf |-> buf, block |-> 0, data |-> Zero]
<1>1. WriteBegins(t, k, offset, buf) /\ call' = [call EXCEPT ![t] = c]
  <2>1. WriteBegins(t, k, offset, buf)
    BY DEF WriteNew
  <2>2. call' = [call EXCEPT ![t] = c]
    BY Zenon DEF WriteNew
  <2> QED
    BY <2>1, <2>2
<1>2. /\ offset \in Nat /\ buf \in Seq(Nat) /\ DirReadable(k[1])
  BY <1>1, BeginsType
<1>3. DirBlockOf(k[1]) \in 1..MAX_DIRS_IN_ROOT /\ dir \in Directory
  BY <1>2, DirFound
<1>4. /\ dir.nFiles \in 0..MAX_FILES_IN_DIR + 1 /\ dir.files \in [FileSlots -> FileEntry]
      /\ dir.padding \in FileNames \union {NoName}
  BY <1>3 DEF Directory
<1>5. n \in 0..MAX_FILES_IN_DIR /\ nFiles = n + 1 /\ nFiles - 1 = n
  BY <1>4, DiskAssumption
<1>6. DirBlock(n + 1, dir.files, dir.padding) \in Directory
  BY <1>4, <1>5, DiskAssumption DEF DirBlock, Directory
<1> HIDE DEF n, nFiles, dir
<1>7. c \in Call
  <2>2. nFiles - 1 \in 0..MAX_FILES_IN_DIR /\ nFiles = n + 1
    BY <1>5
  <2>3. k \in (DirNames \union {NoName}) \X (FileNames \union {NoName})
    BY KeyType
  <2>4. DirBlockOf(k[1]) \in 0..MAX_DIRS_IN_ROOT
    BY <1>3, DiskAssumption
  <2> QED
    BY <2>2, <2>3, <2>4, <1>2, <1>6 DEF Call
<1>8. /\ c.key = k /\ c.new /\ c.dirBlock = DirBlockOf(k[1])
      /\ c.directory = DirBlock(n + 1, dir.files, dir.padding) /\ c.slot = n
      /\ c.offset = offset /\ c.buf = buf
  BY <1>5
<1> HIDE DEF c
<1>9. call \in [Threads -> Call]
  BY DEF DiskInv, TypeOK
<1>10. call' \in [Threads -> Call] /\ call'[t] = c /\ \A u \in Threads : u # t => call'[u] = call[u]
  BY <1>1, <1>7, <1>9
<1> QED
  BY <1>5, <1>8, <1>10 DEF n, dir

(* ... and when it finds the file. *)
LEMMA OldCall ==
    ASSUME DiskInv, NEW t \in Threads, NEW k \in DirNames \X FileNames,
           NEW offset \in Offsets, NEW buf \in Payloads, WriteOld(t, k, offset, buf)
    PROVE  LET dir == AsDir(disk[DirBlockOf(k[1])])
               slot == First(WriteFinds(dir, k[2]))
               entry == dir.files[slot]
           IN  /\ slot \in FileSlots /\ entry.fname = k[2]
               /\ entry.fsize \in Nat \ {0} /\ offset # entry.fsize
               /\ call' \in [Threads -> Call]
               /\ \A u \in Threads : u # t => call'[u] = call[u]
               /\ call'[t].key = k /\ ~call'[t].new /\ call'[t].dirBlock = DirBlockOf(k[1])
               /\ call'[t].directory = dir /\ call'[t].slot = slot
               /\ call'[t].offset = IF offset > entry.fsize THEN entry.fsize - 1 ELSE offset
               /\ call'[t].offset <= offset /\ call'[t].offset < entry.fsize
               /\ call'[t].buf = buf /\ call'[t].block = entry.nStartBlock
<1> DEFINE dir == AsDir(disk[DirBlockOf(k[1])])
           slot == First(WriteFinds(dir, k[2]))
           entry == dir.files[slot]
           o == IF offset > entry.fsize THEN entry.fsize - 1 ELSE offset
           c == [key |-> k, new |-> FALSE, dirBlock |-> DirBlockOf(k[1]), directory |-> dir,
                 slot |-> slot, offset |-> o, buf |-> buf, block |-> entry.nStartBlock,
                 data |-> Zero]
<1>1. /\ WriteBegins(t, k, offset, buf) /\ call' = [call EXCEPT ![t] = c]
      /\ WriteFinds(dir, k[2]) # {} /\ offset # entry.fsize
  BY DEF WriteOld
<1>2. /\ offset \in Nat /\ buf \in Seq(Nat) /\ DirReadable(k[1]) /\ k[2] \in FileNames
  BY <1>1, BeginsType
<1>3. /\ DirBlockOf(k[1]) \in 1..MAX_DIRS_IN_ROOT /\ dir \in Directory
      /\ \A i \in FileSlots : Sized(dir.files[i])
  BY <1>2, DirFound
<1>4. slot \in FileSlots /\ entry.fname = k[2]
  <2>1. WriteFinds(dir, k[2]) \subseteq Nat
    BY DiskAssumption DEF WriteFinds, FileSlots
  <2>2. slot \in WriteFinds(dir, k[2])
    BY <1>1, <2>1, FirstIsFirst
  <2> QED
    BY <2>2 DEF WriteFinds
<1>5. entry \in FileEntry /\ slot \in 0..MAX_FILES_IN_DIR
  BY <1>3, <1>4, DiskAssumption DEF Directory, FileSlots
<1>6. entry.fsize \in Nat \ {0} /\ entry.nStartBlock \in Nat \union {-1}
  <2>1. k[2] # NoName
    BY <1>2, DiskAssumption
  <2>2. entry.fsize \in 0..BLOCK_SIZE /\ entry.fsize > 0
    BY <1>3, <1>4, <1>5, <2>1 DEF Sized, FileEntry
  <2> QED
    BY <2>2, <1>5, DiskAssumption DEF FileEntry
<1>7. o \in Nat /\ o <= offset /\ o < entry.fsize
  BY <1>1, <1>2, <1>6
<1> HIDE DEF entry, slot, o, dir
<1>8. c \in Call
  <2>2. k \in (DirNames \union {NoName}) \X (FileNames \union {NoName})
    BY KeyType
  <2>3. DirBlockOf(k[1]) \in 0..MAX_DIRS_IN_ROOT
    BY <1>3, DiskAssumption
  <2>4. entry.nStartBlock \in Nat \union {-1}
    BY <1>6
  <2> QED
    BY <2>2, <2>3, <2>4, <1>2, <1>3, <1>5, <1>7 DEF Call
<1>9. /\ c.key = k /\ ~c.new /\ c.dirBlock = DirBlockOf(k[1]) /\ c.directory = dir
      /\ c.slot = slot /\ c.offset = o /\ c.buf = buf /\ c.block = entry.nStartBlock
  OBVIOUS
<1> HIDE DEF c
<1>10. call \in [Threads -> Call]
  BY DEF DiskInv, TypeOK
<1>11. call' \in [Threads -> Call] /\ call'[t] = c /\ \A u \in Threads : u # t => call'[u] = call[u]
  BY <1>1, <1>8, <1>10
<1> QED
  BY <1>1, <1>4, <1>6, <1>7, <1>9, <1>11 DEF entry, slot, o, dir

LEMMA FoundBlock ==
    ASSUME DiskInv, NEW t \in Threads, FindBlock(t)
    PROVE  LET block == find_next_free_file_block(disk)
               entry == [fname |-> call[t].key[2], fsize |-> 0, nStartBlock |-> block]
           IN  /\ call' \in [Threads -> Call]
               /\ \A u \in Threads : u # t => call'[u] = call[u]
               /\ call'[t].key = call[t].key /\ call'[t].new = call[t].new
               /\ call'[t].dirBlock = call[t].dirBlock /\ call'[t].slot = call[t].slot
               /\ call'[t].offset = call[t].offset /\ call'[t].buf = call[t].buf
               /\ call'[t].block = block
               /\ call'[t].directory.kind = "dir"
               /\ call'[t].directory.nFiles = call[t].directory.nFiles
               /\ \A i \in FileSlots : call'[t].directory.files[i] =
                     IF i = call[t].slot THEN entry ELSE call[t].directory.files[i]
<1> DEFINE block == find_next_free_file_block(disk)
           entry == [fname |-> call[t].key[2], fsize |-> 0, nStartBlock |-> block]
           dir == call[t].directory
           files == IF call[t].slot \in FileSlots
                    THEN [dir.files EXCEPT ![call[t].slot] = entry] ELSE dir.files
           padding == IF call[t].slot \in FileSlots THEN dir.padding ELSE entry.fname
           c == [call[t] EXCEPT !.block = block,
                                !.directory = [@ EXCEPT !.files = files, !.padding = padding]]
<1>1. call \in [Threads -> Call] /\ call[t] \in Call
  BY DEF DiskInv, TypeOK
<1>2. dir \in Directory /\ dir.files \in [FileSlots -> FileEntry] /\ dir.kind = "dir"
  BY <1>1 DEF Call, Directory
<1>3. block \in Nat \union {-1}
  BY FreeBlock, DiskFacts DEF DiskInv
<1>4. entry \in FileEntry
  <2>1. call[t].key[2] \in FileNames \union {NoName}
    BY <1>1 DEF Call
  <2> QED
    BY <2>1, <1>3, DiskAssumption DEF FileEntry
<1>5. call' = [call EXCEPT ![t] = c]
  BY <1>1, <1>2 DEF FindBlock, Call, Directory
<1>5a. padding \in FileNames \union {NoName}
  BY <1>1, <1>2 DEF Call, Directory
<1> HIDE DEF block, entry, padding
<1>6. /\ files \in [FileSlots -> FileEntry]
      /\ \A i \in FileSlots : files[i] = IF i = call[t].slot THEN entry ELSE dir.files[i]
  BY <1>2, <1>4
<1> HIDE DEF files
<1>7. [dir EXCEPT !.files = files, !.padding = padding] \in Directory
  BY <1>2, <1>6, <1>5a DEF Directory
<1>8. c \in Call
  BY <1>1, <1>3, <1>7 DEF Call
<1>9. /\ c.key = call[t].key /\ c.new = call[t].new
      /\ c.dirBlock = call[t].dirBlock /\ c.slot = call[t].slot
      /\ c.offset = call[t].offset /\ c.buf = call[t].buf /\ c.block = block
      /\ c.directory.kind = "dir" /\ c.directory.nFiles = dir.nFiles
      /\ c.directory.files = files
  BY <1>1, <1>2 DEF Call, Directory
<1> HIDE DEF c
<1>10. call' \in [Threads -> Call] /\ call'[t] = c /\ \A u \in Threads : u # t => call'[u] = call[u]
  BY <1>1, <1>5, <1>8
<1> QED
  BY <1>6, <1>9, <1>10 DEF block, entry

LEMMA PatchedType ==
    ASSUME NEW b \in Block, NEW offset \in Nat, NEW buf \in Seq(Nat)
    PROVE  /\ Patched(b, offset, buf) \in Data \union {Junk}
           /\ Patched(b, offset, buf).kind \in {"data", "junk"}
<1>1. CASE AsData(b).kind # "data"
  BY <1>1 DEF Patched, Junk
<1>2. CASE AsData(b).kind = "data"
  <2>1. AsData(b) \in Data
    BY <1>2, BlockKinds
  <2>2. AsData(b).data \in [Bytes -> Nat]
    BY <2>1 DEF Data
  <2> DEFINE d == [i \in Bytes |-> IF i >= offset /\ i < offset + Len(buf) THEN buf[i - offset + 1]
                                   ELSE IF i = offset + Len(buf) + 1 THEN NUL
                                   ELSE AsData(b).data[i]]
  <2>3. Len(buf) \in Nat /\ \A j \in 1..Len(buf) : buf[j] \in Nat
    OBVIOUS
  <2>4. ASSUME NEW i \in Bytes, i >= offset, i < offset + Len(buf)
        PROVE  buf[i - offset + 1] \in Nat
    <3>1. i \in Nat
      BY DiskAssumption DEF Bytes
    <3>2. i - offset + 1 \in 1..Len(buf)
      BY <3>1, <2>3, <2>4
    <3> QED
      BY <3>2, <2>3
  <2>5. d \in [Bytes -> Nat]
    BY <2>2, <2>4 DEF NUL
  <2>6. Patched(b, offset, buf) = DataBlock(d)
    BY <1>2 DEF Patched
  <2> QED
    BY <2>5, <2>6 DEF DataBlock, Data
<1> QED
  BY <1>1, <1>2

LEMMA SeekPlace ==
    ASSUME TypeOK, NEW b, Place(b)
    PROVE  /\ Seek(b) \in DOMAIN disk
           /\ \/ Seek(b) = 0 /\ b = -1 /\ "full" \in trouble
              \/ Seek(b) = b /\ b \in FileBlocks(disk)
<1>1. CASE b \in FileBlocks(disk)
  BY <1>1, DiskFacts DEF Seek
<1>2. CASE b = -1 /\ "full" \in trouble
  <2>1. Seek(b) = 0
    BY <1>2 DEF Seek
  <2> QED
    BY <1>2, <2>1, DiskFacts
<1> QED
  BY <1>1, <1>2 DEF Place

LEMMA BlockRead ==
    ASSUME DiskInv, NEW t \in Threads, ReadBlock(t)
    PROVE  LET size == call[t].offset + Len(call[t].buf)
               dir == call[t].directory
           IN  /\ call' \in [Threads -> Call]
               /\ \A u \in Threads : u # t => call'[u] = call[u]
               /\ call'[t].key = call[t].key /\ call'[t].new = call[t].new
               /\ call'[t].dirBlock = call[t].dirBlock /\ call'[t].slot = call[t].slot
               /\ call'[t].offset = call[t].offset /\ call'[t].buf = call[t].buf
               /\ call'[t].block = call[t].block
               /\ call'[t].data = Patched(disk[Seek(call[t].block)], call[t].offset, call[t].buf)
               /\ call'[t].data.kind \in {"data", "junk"}
               /\ call'[t].directory.kind = "dir"
               /\ call'[t].directory.nFiles = dir.nFiles
               /\ \A i \in FileSlots :
                     /\ call'[t].directory.files[i].fname = dir.files[i].fname
                     /\ call'[t].directory.files[i].nStartBlock = dir.files[i].nStartBlock
                     /\ call'[t].directory.files[i].fsize =
                           IF i = call[t].slot THEN size ELSE dir.files[i].fsize
               /\ size > 0
<1> DEFINE data == Patched(disk[Seek(call[t].block)], call[t].offset, call[t].buf)
           size == call[t].offset + Len(call[t].buf)
           dir == call[t].directory
           files == IF call[t].slot \in FileSlots
                    THEN [dir.files EXCEPT ![call[t].slot] = [@ EXCEPT !.fsize = size]] ELSE dir.files
           c == [call[t] EXCEPT !.data = data, !.directory = [@ EXCEPT !.files = files]]
<1>1. call \in [Threads -> Call] /\ call[t] \in Call /\ TypeOK
  BY DEF DiskInv, TypeOK
<1>2. dir \in Directory /\ dir.files \in [FileSlots -> FileEntry] /\ dir.kind = "dir"
  BY <1>1 DEF Call, Directory
<1>3. CallFits(t) /\ pc[t] = "read_block"
  BY DEF DiskInv, CallsInv, ReadBlock
<1>4. call[t].offset \in Nat /\ call[t].buf \in Seq(Nat) /\ Len(call[t].buf) \in Nat
  BY <1>1 DEF Call
<1>5. data \in Data \union {Junk} /\ data.kind \in {"data", "junk"}
  <2>1. Seek(call[t].block) \in DOMAIN disk
    BY <1>1, <1>3, SeekPlace DEF CallFits
  <2>2. disk[Seek(call[t].block)] \in Block
    BY <1>1, <2>1, DiskFacts
  <2> QED
    BY <2>2, <1>4, PatchedType
<1>6. size \in 0..BLOCK_SIZE /\ size > 0
  <2>1. call[t].offset + Len(call[t].buf) + 1 < BLOCK_SIZE /\ Len(call[t].buf) > 0
    BY <1>3 DEF CallFits
  <2> QED
    BY <2>1, <1>4, DiskAssumption
<1>7. call' = [call EXCEPT ![t] = c]
  <2>1. call' = [call EXCEPT
            ![t].data = data,
            ![t].directory.files = IF call[t].slot \in FileSlots
                                   THEN [@ EXCEPT ![call[t].slot].fsize = size] ELSE @]
    BY Zenon DEF ReadBlock
  <2> HIDE DEF data, size
  <2> QED
    BY <2>1, <1>1, <1>2 DEF Call
<1> HIDE DEF data, size
<1>8. /\ files \in [FileSlots -> FileEntry]
      /\ \A i \in FileSlots :
            /\ files[i].fname = dir.files[i].fname
            /\ files[i].nStartBlock = dir.files[i].nStartBlock
            /\ files[i].fsize = IF i = call[t].slot THEN size ELSE dir.files[i].fsize
  BY <1>2, <1>6 DEF FileEntry
<1> HIDE DEF files
<1>9. [dir EXCEPT !.files = files] \in Directory
  BY <1>2, <1>8 DEF Directory
<1>10. c \in Call
  BY <1>1, <1>5, <1>9 DEF Call
<1>11. /\ c.key = call[t].key /\ c.new = call[t].new
       /\ c.dirBlock = call[t].dirBlock /\ c.slot = call[t].slot
       /\ c.offset = call[t].offset /\ c.buf = call[t].buf /\ c.block = call[t].block
       /\ c.data = data
       /\ c.directory.kind = "dir" /\ c.directory.nFiles = dir.nFiles
       /\ c.directory.files = files
  BY <1>1, <1>2 DEF Call, Directory
<1> HIDE DEF c
<1>12. call' \in [Threads -> Call] /\ call'[t] = c /\ \A u \in Threads : u # t => call'[u] = call[u]
  BY <1>1, <1>7, <1>10
<1> QED
  BY <1>5, <1>6, <1>8, <1>11, <1>12 DEF data, size

LEMMA NewDisk ==
    ASSUME DiskInv, NEW t \in Threads, NEW k \in DirNames \X FileNames,
           NEW offset \in Offsets, NEW buf \in Payloads, WriteNew(t, k, offset, buf)
    PROVE  DiskInv'
<1> DEFINE dir == AsDir(disk[DirBlockOf(k[1])])
<1>1. /\ WriteBegins(t, k, offset, buf) /\ Goto(t, "find_block")
      /\ trouble \subseteq trouble' /\ trouble' \subseteq Troubles
  BY DEF WriteNew, Flag, Troubles, DiskInv, TypeOK
<1>2. /\ calls' \in 0..MaxCalls /\ disk' = disk
      /\ DirReadable(k[1]) /\ Len(buf) \in Nat \ {0}
  BY <1>1, BeginsType
<1>3. /\ call' \in [Threads -> Call]
      /\ \A u \in Threads : u # t => call'[u] = call[u]
      /\ call'[t].key = k /\ call'[t].new /\ call'[t].dirBlock = DirBlockOf(k[1])
      /\ call'[t].directory.files = dir.files
      /\ call'[t].offset = offset /\ call'[t].buf = buf
  <2> DEFINE n == IF dir.nFiles > MAX_FILES_IN_DIR THEN 0 ELSE dir.nFiles
  <2>1. call'[t].directory = DirBlock(n + 1, dir.files, dir.padding)
    BY NewCall
  <2>2. call'[t].directory.files = dir.files
    BY <2>1 DEF DirBlock
  <2> QED
    BY <2>2, NewCall
<1>4. /\ pc' \in [Threads -> Labels] /\ pc'[t] = "find_block"
      /\ \A u \in Threads : u # t => pc'[u] = pc[u]
  BY <1>1, Goes DEF DiskInv, Labels
<1>5. TypeOK'
  BY <1>1, <1>2, <1>3, <1>4 DEF DiskInv, TypeOK, Labels
<1>6. RootInv' /\ DirsInv'
  BY <1>1, <1>2, DiskStays DEF DiskInv
<1>7. CallFits(t)'
  <2>1. /\ DirBlockOf(k[1]) \in 1..MAX_DIRS_IN_ROOT
        /\ \A i \in FileSlots : Placed(dir.files[i]) /\ Sized(dir.files[i])
    BY <1>2, DirFound
  <2>2. \A b : Place(b) => Place(b)'
    BY <1>1, <1>2 DEF Place
  <2>3. ASSUME NEW i \in FileSlots
        PROVE  /\ Placed(call[t].directory.files[i])'
               /\ Sized(call[t].directory.files[i])'
    <3>1. call'[t].directory.files[i] = dir.files[i]
      BY <1>3
    <3>2. Placed(dir.files[i]) /\ Sized(dir.files[i])
      BY <2>1
    <3> HIDE DEF dir
    <3> QED
      BY <2>2, <3>1, <3>2 DEF Placed, Sized
  <2>4. offset + Len(buf) + 1 < BLOCK_SIZE /\ Len(buf) > 0
    BY <1>1, <1>2 DEF WriteBegins
  <2> QED
    BY <2>1, <2>3, <2>4, <1>3, <1>4 DEF CallFits
<1>8. ASSUME NEW u \in Threads, u # t, pc'[u] # "idle" PROVE CallFits(u)'
  BY <1>1, <1>2, <1>3, <1>4, <1>8, CallStays DEF DiskInv, CallsInv
<1> QED
  BY <1>5, <1>6, <1>7, <1>8 DEF DiskInv, CallsInv

LEMMA OldDisk ==
    ASSUME DiskInv, NEW t \in Threads, NEW k \in DirNames \X FileNames,
           NEW offset \in Offsets, NEW buf \in Payloads, WriteOld(t, k, offset, buf)
    PROVE  DiskInv'
<1> DEFINE dir == AsDir(disk[DirBlockOf(k[1])])
           slot == First(WriteFinds(dir, k[2]))
<1>1. /\ WriteBegins(t, k, offset, buf) /\ Goto(t, "read_block")
      /\ trouble \subseteq trouble' /\ trouble' \subseteq Troubles
  BY DEF WriteOld, Flag, Troubles, DiskInv, TypeOK
<1>2. /\ calls' \in 0..MaxCalls /\ disk' = disk /\ offset \in Nat
      /\ DirReadable(k[1]) /\ Len(buf) \in Nat \ {0} /\ k[2] \in FileNames
  BY <1>1, BeginsType
<1>3. /\ slot \in FileSlots /\ dir.files[slot].fname = k[2]
      /\ call' \in [Threads -> Call]
      /\ \A u \in Threads : u # t => call'[u] = call[u]
      /\ call'[t].key = k /\ call'[t].dirBlock = DirBlockOf(k[1])
      /\ call'[t].directory = dir
      /\ call'[t].offset <= offset /\ call'[t].buf = buf
      /\ call'[t].block = dir.files[slot].nStartBlock
  BY OldCall
<1>4. /\ pc' \in [Threads -> Labels] /\ pc'[t] = "read_block"
      /\ \A u \in Threads : u # t => pc'[u] = pc[u]
  BY <1>1, Goes DEF DiskInv, Labels
<1>5. TypeOK'
  BY <1>1, <1>2, <1>3, <1>4 DEF DiskInv, TypeOK, Labels
<1>6. RootInv' /\ DirsInv'
  BY <1>1, <1>2, DiskStays DEF DiskInv
<1>7. CallFits(t)'
  <2>1. /\ DirBlockOf(k[1]) \in 1..MAX_DIRS_IN_ROOT
        /\ \A i \in FileSlots : Placed(dir.files[i]) /\ Sized(dir.files[i])
    BY <1>2, DirFound
  <2>2. \A b : Place(b) => Place(b)'
    BY <1>1, <1>2 DEF Place
  <2>3. ASSUME NEW i \in FileSlots
        PROVE  /\ Placed(call[t].directory.files[i])'
               /\ Sized(call[t].directory.files[i])'
    <3>1. call'[t].directory.files[i] = dir.files[i]
      BY <1>3
    <3>2. Placed(dir.files[i]) /\ Sized(dir.files[i])
      BY <2>1
    <3> HIDE DEF dir
    <3> QED
      BY <2>2, <3>1, <3>2 DEF Placed, Sized
  <2>4. call'[t].offset + Len(buf) + 1 < BLOCK_SIZE /\ Len(buf) > 0
    <3>1. call'[t].offset \in Nat
      BY <1>3 DEF Call
    <3>2. offset + Len(buf) + 1 < BLOCK_SIZE
      BY <1>1 DEF WriteBegins
    <3> QED
      BY <3>1, <3>2, <1>2, <1>3, DiskAssumption
  <2>5. Place(call[t].block)'
    <3>1. k[2] # NoName
      BY <1>2, DiskAssumption
    <3>2. Place(dir.files[slot].nStartBlock)
      BY <2>1, <1>3, <3>1 DEF Placed
    <3> QED
      BY <3>2, <1>1, <1>2, <1>3 DEF Place
  <2> QED
    BY <2>1, <2>3, <2>4, <2>5, <1>3, <1>4 DEF CallFits
<1>8. ASSUME NEW u \in Threads, u # t, pc'[u] # "idle" PROVE CallFits(u)'
  BY <1>1, <1>2, <1>3, <1>4, <1>8, CallStays DEF DiskInv, CallsInv
<1> QED
  BY <1>5, <1>6, <1>7, <1>8 DEF DiskInv, CallsInv

LEMMA FindDisk == ASSUME DiskInv, NEW t \in Threads, FindBlock(t) PROVE DiskInv'
<1> DEFINE block == find_next_free_file_block(disk)
           entry == [fname |-> call[t].key[2], fsize |-> 0, nStartBlock |-> block]
<1>1. /\ Goto(t, "read_block") /\ pc[t] = "find_block" /\ UNCHANGED <<disk, calls>>
      /\ trouble \subseteq trouble' /\ trouble' \subseteq Troubles
      /\ block = -1 => "full" \in trouble'
  BY DEF FindBlock, Flag, Troubles, DiskInv, TypeOK
<1>2. /\ call' \in [Threads -> Call]
      /\ \A u \in Threads : u # t => call'[u] = call[u]
      /\ call'[t].key = call[t].key /\ call'[t].dirBlock = call[t].dirBlock
      /\ call'[t].offset = call[t].offset /\ call'[t].buf = call[t].buf
      /\ call'[t].slot = call[t].slot /\ call'[t].block = block
      /\ \A i \in FileSlots : call'[t].directory.files[i] =
            IF i = call[t].slot THEN entry ELSE call[t].directory.files[i]
  BY FoundBlock
<1>3. /\ pc' \in [Threads -> Labels] /\ pc'[t] = "read_block"
      /\ \A u \in Threads : u # t => pc'[u] = pc[u]
  BY <1>1, Goes DEF DiskInv, Labels
<1>4. TypeOK'
  BY <1>1, <1>2, <1>3 DEF DiskInv, TypeOK, Labels
<1>5. RootInv' /\ DirsInv'
  BY <1>1, DiskStays DEF DiskInv
<1>6. CallFits(t)
  BY <1>1 DEF DiskInv, CallsInv
<1>7. Place(block)'
  BY <1>1, FreeBlock DEF DiskInv, Place
<1>8. ASSUME NEW i \in FileSlots
      PROVE  /\ Placed(call[t].directory.files[i])'
             /\ i # call[t].slot => Sized(call[t].directory.files[i])'
  <2>1. CASE i = call[t].slot
    <3>1. call'[t].directory.files[i] = entry
      BY <2>1, <1>2
    <3>2. entry.nStartBlock = block
      OBVIOUS
    <3> QED
      BY <2>1, <3>1, <3>2, <1>1, <1>7 DEF Placed, Place
  <2>2. CASE i # call[t].slot
    <3>1. call'[t].directory.files[i] = call[t].directory.files[i]
      BY <2>2, <1>2
    <3>2. Placed(call[t].directory.files[i]) /\ Sized(call[t].directory.files[i])
      BY <2>2, <1>1, <1>6 DEF CallFits
    <3> QED
      BY <3>1, <3>2, <1>1 DEF Placed, Place, Sized
  <2> QED
    BY <2>1, <2>2
<1>9. CallFits(t)'
  <2>1. Place(call[t].block)'
    BY <1>1, <1>2, <1>7 DEF Place
  <2> QED
    BY <2>1, <1>1, <1>2, <1>3, <1>6, <1>8 DEF CallFits
<1>10. ASSUME NEW u \in Threads, u # t, pc'[u] # "idle" PROVE CallFits(u)'
  BY <1>1, <1>2, <1>3, <1>10, CallStays DEF DiskInv, CallsInv
<1> QED
  BY <1>4, <1>5, <1>9, <1>10 DEF DiskInv, CallsInv

LEMMA ReadDisk == ASSUME DiskInv, NEW t \in Threads, ReadBlock(t) PROVE DiskInv'
<1> DEFINE dir == call[t].directory
<1>1. /\ Goto(t, "write_dir") /\ pc[t] = "read_block" /\ UNCHANGED <<disk, calls>>
      /\ trouble \subseteq trouble' /\ trouble' \subseteq Troubles
  BY DEF ReadBlock, Flag, Troubles, DiskInv, TypeOK
<1>2. /\ call' \in [Threads -> Call]
      /\ \A u \in Threads : u # t => call'[u] = call[u]
      /\ call'[t].key = call[t].key /\ call'[t].dirBlock = call[t].dirBlock
      /\ call'[t].offset = call[t].offset /\ call'[t].buf = call[t].buf
      /\ call'[t].slot = call[t].slot /\ call'[t].block = call[t].block
      /\ call'[t].data.kind \in {"data", "junk"}
      /\ call'[t].data = Patched(disk[Seek(call[t].block)], call[t].offset, call[t].buf)
  BY BlockRead
<1>3. \A i \in FileSlots :
        /\ call'[t].directory.files[i].fname = dir.files[i].fname
        /\ call'[t].directory.files[i].nStartBlock = dir.files[i].nStartBlock
        /\ i # call[t].slot => call'[t].directory.files[i].fsize = dir.files[i].fsize
        /\ i = call[t].slot => call'[t].directory.files[i].fsize > 0
  BY BlockRead
<1>4. /\ pc' \in [Threads -> Labels] /\ pc'[t] = "write_dir"
      /\ \A u \in Threads : u # t => pc'[u] = pc[u]
  BY <1>1, Goes DEF DiskInv, Labels
<1>5. TypeOK'
  BY <1>1, <1>2, <1>4 DEF DiskInv, TypeOK, Labels
<1>6. RootInv' /\ DirsInv'
  BY <1>1, DiskStays DEF DiskInv
<1>7. CallFits(t)
  BY <1>1 DEF DiskInv, CallsInv
<1>8. ASSUME NEW i \in FileSlots
      PROVE  Placed(call[t].directory.files[i])' /\ Sized(call[t].directory.files[i])'
  <2>1. Placed(dir.files[i]) /\ (i # call[t].slot => Sized(dir.files[i]))
    BY <1>1, <1>7 DEF CallFits
  <2>2. Placed(call[t].directory.files[i])'
    BY <2>1, <1>1, <1>3 DEF Placed, Place
  <2>3. Sized(call[t].directory.files[i])'
    BY <2>1, <1>3 DEF Sized
  <2> QED
    BY <2>2, <2>3
<1>9. "zero" \notin trouble' /\ call'[t].data.kind = "data" => call'[t].data.data[0] # NUL
  BY <1>2 DEF ReadBlock, Flag
<1>10. CallFits(t)'
  <2>1. Place(call[t].block)'
    BY <1>1, <1>2, <1>7 DEF CallFits, Place
  <2> QED
    BY <2>1, <1>1, <1>2, <1>4, <1>7, <1>8, <1>9 DEF CallFits
<1>11. ASSUME NEW u \in Threads, u # t, pc'[u] # "idle" PROVE CallFits(u)'
  BY <1>1, <1>2, <1>4, <1>11, CallStays DEF DiskInv, CallsInv
<1> QED
  BY <1>5, <1>6, <1>10, <1>11 DEF DiskInv, CallsInv

(* mkdir puts the directory into the slot behind the last one. *)
LEMMA NewDirectory ==
    ASSUME DiskInv, NEW d \in DirNames, Mkdir(d)
    PROVE  LET n == root.nDirectories
           IN  /\ n \in DirSlots /\ RootPacked(root) /\ root \in Root /\ RootReadable
               /\ \A i \in DirSlots : i < n => root.directories[i].dname # d
               /\ \E m \in DiskSizes : disk' \in [0..m - 1 -> Block]
               /\ DOMAIN disk' = DOMAIN disk /\ FileBlocks(disk') = FileBlocks(disk)
               /\ \A b \in DOMAIN disk : b # 0 => disk'[b] = disk[b]
               /\ disk'[0].kind = "root"
               /\ root' \in Root /\ root'.nDirectories = n + 1
               /\ \A i \in DirSlots : root'.directories[i] =
                     IF i = n THEN [dname |-> d, nStartBlock |-> n + 1] ELSE root.directories[i]
               /\ trouble' = trouble \union Flag("dirs", n + 1 >= FirstFileBlock)
<1> DEFINE n == root.nDirectories
           slot == First(FreeSlots)
<1>1. TypeOK /\ RootReadable /\ RootPacked(root) /\ FreeSlots # {} /\ DirBlockOf(d) = -1
  BY DEF Mkdir, DiskInv, RootInv
<1>2. root \in Root
  BY <1>1, DiskFacts, BlockKinds DEF root, RootReadable
<1>3. /\ n \in 0..MAX_DIRS_IN_ROOT /\ root.directories \in [DirSlots -> RootEntry]
      /\ ~(n >= MAX_DIRS_IN_ROOT)
  BY <1>1, <1>2 DEF Root, FreeSlots
<1>4. n \in DirSlots
  BY <1>3, DiskAssumption DEF DirSlots
<1>5. slot = n
  <2>1. FreeSlots = {i \in DirSlots : root.directories[i].dname = NoName}
    BY <1>3 DEF FreeSlots
  <2>2. \A i \in DirSlots : i \in FreeSlots <=> ~(i < n)
    BY <2>1, <1>1 DEF RootPacked
  <2>3. FreeSlots \subseteq DirSlots /\ DirSlots \subseteq Nat
    BY <2>1, DiskAssumption DEF DirSlots
  <2>4. slot \in FreeSlots /\ \A j \in FreeSlots : slot <= j
    BY <2>3, <1>1, FirstIsFirst
  <2>5. n \in FreeSlots
    BY <2>2, <1>3, <1>4
  <2>6. slot \in Nat /\ n \in Nat
    BY <2>3, <2>4, <2>5
  <2>7. ~(slot < n) /\ slot <= n
    BY <2>2, <2>3, <2>4, <2>5
  <2> HIDE DEF slot, n
  <2> QED
    BY <2>6, <2>7
<1> DEFINE dirs == [root.directories EXCEPT ![n] = [dname |-> d, nStartBlock |-> n + 1]]
           new == RootBlock(n + 1, dirs)
<1>6. /\ disk' = [disk EXCEPT ![0] = new]
      /\ trouble' = trouble \union Flag("dirs", n + 1 >= FirstFileBlock)
  BY <1>5 DEF Mkdir, RootWith
<1>7. /\ dirs \in [DirSlots -> RootEntry]
      /\ \A i \in DirSlots : dirs[i] = IF i = n THEN [dname |-> d, nStartBlock |-> n + 1]
                                       ELSE root.directories[i]
  <2>1. n + 1 \in 0..MAX_DIRS_IN_ROOT
    BY <1>3, DiskAssumption
  <2>2. [dname |-> d, nStartBlock |-> n + 1] \in RootEntry
    BY <2>1 DEF RootEntry
  <2> QED
    BY <2>2, <1>3
<1> HIDE DEF dirs
<1>8. new \in Root /\ new.kind = "root" /\ new.nDirectories = n + 1 /\ new.directories = dirs
  BY <1>3, <1>7, DiskAssumption DEF RootBlock, Root
<1> HIDE DEF new
<1>9. 0 \in DOMAIN disk /\ new \in Block
  BY <1>1, <1>8, DiskFacts DEF Block
<1>10. /\ \E m \in DiskSizes : disk' \in [0..m - 1 -> Block]
       /\ DOMAIN disk' = DOMAIN disk /\ FileBlocks(disk') = FileBlocks(disk)
       /\ disk'[0] = new
       /\ \A c \in DOMAIN disk : c # 0 => disk'[c] = disk[c]
  BY <1>1, <1>6, <1>9, DiskUpdate
<1>11. root' = new
  <2>1. new # Zero
    BY <1>8 DEF Zero
  <2> QED
    BY <2>1, <1>10 DEF root, AsRoot
<1>12. \A i \in DirSlots : i < n => root.directories[i].dname # d
  <2>1. ASSUME NEW i \in DirSlots, i < n, root.directories[i].dname = d PROVE FALSE
    <3>1. DirBlockOf(d) = i + 1
      BY <2>1, <1>1, RootFound
    <3>2. i \in Nat
      BY DiskAssumption DEF DirSlots
    <3> QED
      BY <3>1, <3>2, <1>1
  <2> QED
    BY <2>1
<1> QED
  BY <1>1, <1>2, <1>4, <1>6, <1>7, <1>8, <1>10, <1>11, <1>12

LEMMA MkdirDisk == ASSUME DiskInv, NEW d \in DirNames, Mkdir(d) PROVE DiskInv'
<1> DEFINE n == root.nDirectories
<1>1. /\ n \in DirSlots /\ RootPacked(root)
      /\ \A i \in DirSlots : i < n => root.directories[i].dname # d
      /\ DOMAIN disk' = DOMAIN disk /\ FileBlocks(disk') = FileBlocks(disk)
      /\ \A b \in DOMAIN disk : b # 0 => disk'[b] = disk[b]
      /\ disk'[0].kind = "root"
      /\ root' \in Root /\ root'.nDirectories = n + 1
      /\ \A i \in DirSlots : root'.directories[i] =
            IF i = n THEN [dname |-> d, nStartBlock |-> n + 1] ELSE root.directories[i]
      /\ trouble' = trouble \union Flag("dirs", n + 1 >= FirstFileBlock)
  BY NewDirectory
<1>2. trouble \subseteq trouble' /\ trouble' \subseteq Troubles
  BY <1>1 DEF DiskInv, TypeOK, Flag, Troubles
<1>3. UNCHANGED <<pc, call>> /\ calls' \in 0..MaxCalls
  BY CallAssumption DEF Mkdir, DiskInv, TypeOK
<1>4. TypeOK'
  <2>1. \E m \in DiskSizes : disk' \in [0..m - 1 -> Block]
    BY NewDirectory
  <2> QED
    BY <2>1, <1>2, <1>3 DEF DiskInv, TypeOK
<1>5. RootInv'
  <2>1. n \in Nat /\ DirSlots \subseteq Nat
    BY <1>1, DiskAssumption DEF DirSlots
  <2>2. d # NoName
    BY DiskAssumption
  <2>3. \A i \in DirSlots :
          /\ i < n <=> root.directories[i].dname # NoName
          /\ i < n => root.directories[i].nStartBlock = i + 1
    BY <1>1 DEF RootPacked
  <2>4. \A i, j \in DirSlots :
          i < n /\ j < n /\ root.directories[i].dname = root.directories[j].dname => i = j
    BY <1>1 DEF RootPacked
  <2>5. ASSUME NEW i \in DirSlots
        PROVE  /\ i < n + 1 <=> root'.directories[i].dname # NoName
               /\ i < n + 1 => root'.directories[i].nStartBlock = i + 1
    <3>1. CASE i = n
      BY <3>1, <1>1, <2>1, <2>2
    <3>2. CASE i # n
      <4>1. root'.directories[i] = root.directories[i]
        BY <3>2, <1>1
      <4>2. i < n + 1 <=> i < n
        BY <3>2, <2>1
      <4> QED
        BY <4>1, <4>2, <2>3
    <3> QED
      BY <3>1, <3>2
  <2>6. ASSUME NEW i \in DirSlots, NEW j \in DirSlots, i < n + 1, j < n + 1,
               root'.directories[i].dname = root'.directories[j].dname
        PROVE  i = j
    <3>1. /\ (i < n /\ i # n) \/ i = n
          /\ (j < n /\ j # n) \/ j = n
      BY <2>1, <2>6
    <3>2. CASE i # n /\ j # n
      BY <3>1, <3>2, <2>4, <2>6, <1>1
    <3>3. CASE i = n /\ j # n
      BY <3>1, <3>3, <2>6, <1>1
    <3>4. CASE i # n /\ j = n
      BY <3>1, <3>4, <2>6, <1>1
    <3> QED
      BY <3>2, <3>3, <3>4
  <2>7. RootPacked(root)'
    BY <2>5, <2>6, <1>1 DEF RootPacked
  <2>8. RootReadable'
    BY <1>1 DEF RootReadable, Root
  <2> QED
    BY <2>7, <2>8 DEF RootInv
<1>6. DirsInv'
  <2>1. ASSUME NEW b \in DOMAIN disk', disk'[b].kind = "dir", NEW i \in FileSlots
        PROVE  Placed(disk[b].files[i])' /\ Sized(disk[b].files[i])'
    <3>1. b \in DOMAIN disk /\ disk'[b] = disk[b]
      BY <2>1, <1>1
    <3>2. Placed(disk[b].files[i]) /\ Sized(disk[b].files[i])
      BY <2>1, <3>1 DEF DiskInv, DirsInv
    <3> QED
      BY <3>1, <3>2, <1>1, <1>2 DEF Placed, Place, Sized
  <2> QED
    BY <2>1 DEF DirsInv
<1>7. CallsInv'
  BY <1>1, <1>2, <1>3, CallStays DEF DiskInv, CallsInv
<1> QED
  BY <1>4, <1>5, <1>6, <1>7 DEF DiskInv

(* A write to a block other than the root. *)
LEMMA OtherBlock ==
    ASSUME DiskInv, NEW b \in DOMAIN disk, b # 0, NEW x \in Block,
           disk' = [disk EXCEPT ![b] = x], trouble \subseteq trouble',
           x.kind = "dir" => \A i \in FileSlots : Placed(x.files[i]) /\ Sized(x.files[i])
    PROVE  RootInv' /\ DirsInv'
<1>1. /\ DOMAIN disk' = DOMAIN disk /\ FileBlocks(disk') = FileBlocks(disk)
      /\ disk'[b] = x
      /\ \A c \in DOMAIN disk : c # b => disk'[c] = disk[c]
  BY DiskUpdate DEF DiskInv
<1>2. disk'[0] = disk[0]
  BY <1>1, DiskFacts DEF DiskInv
<1>3. RootInv'
  BY <1>2 DEF DiskInv, RootInv, RootReadable, root
<1>4. ASSUME NEW c \in DOMAIN disk', disk'[c].kind = "dir", NEW i \in FileSlots
      PROVE  Placed(disk[c].files[i])' /\ Sized(disk[c].files[i])'
  <2>1. Placed(disk'[c].files[i]) /\ Sized(disk'[c].files[i])
    <3>1. CASE c = b
      BY <3>1, <1>1, <1>4
    <3>2. CASE c # b
      BY <3>2, <1>1, <1>4 DEF DiskInv, DirsInv
    <3> QED
      BY <3>1, <3>2
  <2> QED
    BY <2>1, <1>1 DEF Placed, Place, Sized
<1> QED
  BY <1>3, <1>4 DEF DirsInv

LEMMA MknodDisk == ASSUME DiskInv, NEW d \in DirNames, Mknod(d) PROVE DiskInv'
<1> DEFINE b == DirBlockOf(d)
<1>1. b \in DOMAIN disk /\ b # 0
  BY DirFound DEF Mknod
<1>2. Junk \in Block /\ Junk.kind # "dir"
  BY DEF Block, Junk
<1>3. /\ disk' = [disk EXCEPT ![b] = Junk] /\ UNCHANGED <<pc, call>> /\ calls' \in 0..MaxCalls
      /\ trouble \subseteq trouble' /\ trouble' \subseteq Troubles
  BY CallAssumption DEF Mknod, DiskInv, TypeOK, Troubles
<1>4. /\ \E m \in DiskSizes : disk' \in [0..m - 1 -> Block]
      /\ FileBlocks(disk') = FileBlocks(disk)
  BY <1>1, <1>2, <1>3, DiskUpdate DEF DiskInv
<1>5. TypeOK'
  BY <1>3, <1>4 DEF DiskInv, TypeOK
<1>6. RootInv' /\ DirsInv'
  BY <1>1, <1>2, <1>3, OtherBlock
<1>7. CallsInv'
  BY <1>3, <1>4, CallStays DEF DiskInv, CallsInv
<1> QED
  BY <1>5, <1>6, <1>7 DEF DiskInv

LEMMA WriteDirDisk == ASSUME DiskInv, NEW t \in Threads, WriteDir(t) PROVE DiskInv'
<1> DEFINE b == call[t].dirBlock
           x == call[t].directory
<1>1. /\ disk' = [disk EXCEPT ![b] = x] /\ UNCHANGED <<call, calls, trouble>>
      /\ pc[t] = "write_dir" /\ Goto(t, "write_data")
  BY DEF WriteDir
<1>2. CallFits(t) /\ TypeOK
  BY <1>1 DEF DiskInv, CallsInv
<1>3. b \in DOMAIN disk /\ b # 0
  BY <1>2, DiskFacts DEF CallFits
<1>4. x \in Block
  BY <1>2 DEF TypeOK, Call, Block
<1>5. /\ \E m \in DiskSizes : disk' \in [0..m - 1 -> Block]
      /\ FileBlocks(disk') = FileBlocks(disk)
  BY <1>1, <1>2, <1>3, <1>4, DiskUpdate
<1>6. /\ pc' \in [Threads -> Labels] /\ pc'[t] = "write_data"
      /\ \A u \in Threads : u # t => pc'[u] = pc[u]
  BY <1>1, <1>2, Goes DEF Labels
<1>7. TypeOK'
  BY <1>1, <1>2, <1>5, <1>6 DEF TypeOK, Labels
<1>8. RootInv' /\ DirsInv'
  <2>1. \A i \in FileSlots : Placed(x.files[i]) /\ Sized(x.files[i])
    BY <1>1, <1>2 DEF CallFits
  <2> QED
    BY <2>1, <1>1, <1>3, <1>4, OtherBlock
<1>9. CallFits(t)'
  <2>1. \A c : Place(c) => Place(c)'
    BY <1>1, <1>5 DEF Place
  <2>2. \A i \in FileSlots : Placed(call[t].directory.files[i]) => Placed(call[t].directory.files[i])'
    BY <2>1, <1>1 DEF Placed
  <2>3. Place(call[t].block)'
    BY <2>1, <1>1, <1>2 DEF CallFits
  <2> QED
    BY <2>2, <2>3, <1>1, <1>2, <1>6 DEF CallFits, Sized
<1>10. ASSUME NEW u \in Threads, u # t, pc'[u] # "idle" PROVE CallFits(u)'
  BY <1>1, <1>5, <1>6, <1>10, CallStays DEF DiskInv, CallsInv
<1> QED
  BY <1>7, <1>8, <1>9, <1>10 DEF DiskInv, CallsInv

LEMMA WriteDataDisk == ASSUME DiskInv, NEW t \in Threads, WriteData(t) PROVE DiskInv'
<1> DEFINE b == Seek(call[t].block)
           x == call[t].data
<1>1. /\ disk' = [disk EXCEPT ![b] = x] /\ UNCHANGED <<calls, trouble>>
      /\ call' = [call EXCEPT ![t] = NoCall]
      /\ pc[t] = "write_data" /\ Goto(t, "idle")
  BY DEF WriteData
<1>2. CallFits(t) /\ TypeOK
  BY <1>1 DEF DiskInv, CallsInv
<1>3. Place(call[t].block) /\ x.kind \in {"data", "junk"}
  BY <1>1, <1>2 DEF CallFits
<1>4. b \in DOMAIN disk
  BY <1>2, <1>3, SeekPlace
<1>5. x \in Block
  BY <1>2 DEF TypeOK, Call, Block
<1>6. /\ \E m \in DiskSizes : disk' \in [0..m - 1 -> Block]
      /\ FileBlocks(disk') = FileBlocks(disk) /\ DOMAIN disk' = DOMAIN disk
      /\ disk'[b] = x /\ \A c \in DOMAIN disk : c # b => disk'[c] = disk[c]
  BY <1>1, <1>2, <1>4, <1>5, DiskUpdate
<1>7. /\ pc' \in [Threads -> Labels] /\ pc'[t] = "idle"
      /\ \A u \in Threads : u # t => pc'[u] = pc[u]
  BY <1>1, <1>2, Goes DEF Labels
<1>8. call' \in [Threads -> Call] /\ \A u \in Threads : u # t => call'[u] = call[u]
  BY <1>1, <1>2, NoCallType DEF TypeOK
<1>9. TypeOK'
  BY <1>1, <1>2, <1>6, <1>7, <1>8 DEF TypeOK, Labels
<1>10. RootInv' /\ DirsInv'
  <2>1. CASE b # 0
    BY <2>1, <1>1, <1>3, <1>4, <1>5, OtherBlock
  <2>2. CASE b = 0
    <3>1. "full" \in trouble
      BY <2>2, <1>2, <1>3, SeekPlace, DiskFacts, DiskAssumption
    <3>2. disk'[0] = x /\ x.kind # "zero" /\ x.kind # "root"
      BY <2>2, <1>3, <1>6
    <3>3. ~RootReadable'
      BY <3>2 DEF RootReadable, root, AsRoot, Zero
    <3>4. ASSUME NEW c \in DOMAIN disk', disk'[c].kind = "dir", NEW i \in FileSlots
          PROVE  Placed(disk[c].files[i])' /\ Sized(disk[c].files[i])'
      <4>1. c # b
        BY <3>4, <2>2, <3>2, <1>3
      <4>2. c \in DOMAIN disk /\ disk'[c] = disk[c]
        BY <3>4, <4>1, <1>6
      <4>3. Placed(disk[c].files[i]) /\ Sized(disk[c].files[i])
        BY <3>4, <4>2 DEF DiskInv, DirsInv
      <4> QED
        BY <4>2, <4>3, <1>1, <1>6 DEF Placed, Place, Sized
    <3> QED
      BY <3>1, <3>3, <3>4, <1>1 DEF RootInv, DirsInv
  <2> QED
    BY <2>1, <2>2
<1>11. ASSUME NEW u \in Threads, pc'[u] # "idle" PROVE CallFits(u)'
  <2>1. u # t
    BY <1>7, <1>11
  <2> QED
    BY <2>1, <1>1, <1>6, <1>7, <1>8, <1>11, CallStays DEF DiskInv, CallsInv
<1> QED
  BY <1>9, <1>10, <1>11 DEF DiskInv, CallsInv

LEMMA StopDisk == ASSUME DiskInv, Stop PROVE DiskInv'
<1>1. /\ pc' = [t \in Threads |-> "idle"] /\ call' = [t \in Threads |-> NoCall]
      /\ UNCHANGED <<disk, calls>>
      /\ trouble \subseteq trouble' /\ trouble' \subseteq Troubles
  BY DEF Stop, Flag, Troubles, DiskInv, TypeOK
<1>2. TypeOK'
  BY <1>1, NoCallType DEF DiskInv, TypeOK
<1>3. RootInv' /\ DirsInv'
  BY <1>1, DiskStays DEF DiskInv
<1> QED
  BY <1>1, <1>2, <1>3 DEF DiskInv, CallsInv

LEMMA FailDisk == ASSUME DiskInv, NEW t \in Threads, Fail(t) PROVE DiskInv'
<1>1. /\ Goto(t, "idle") /\ call' = [call EXCEPT ![t] = NoCall] /\ UNCHANGED <<disk, calls>>
      /\ trouble \subseteq trouble' /\ trouble' \subseteq Troubles
  BY DEF Fail, Flag, Troubles, DiskInv, TypeOK
<1>2. /\ pc' \in [Threads -> Labels] /\ pc'[t] = "idle"
      /\ \A u \in Threads : u # t => pc'[u] = pc[u]
  BY <1>1, Goes DEF DiskInv, Labels
<1>3. call' \in [Threads -> Call] /\ \A u \in Threads : u # t => call'[u] = call[u]
  BY <1>1, NoCallType DEF DiskInv, TypeOK
<1>4. TypeOK'
  BY <1>1, <1>2, <1>3 DEF DiskInv, TypeOK, Labels
<1>5. RootInv' /\ DirsInv'
  BY <1>1, DiskStays DEF DiskInv
<1>6. ASSUME NEW u \in Threads, pc'[u] # "idle" PROVE CallFits(u)'
  BY <1>1, <1>2, <1>3, <1>6, CallStays DEF DiskInv, CallsInv
<1> QED
  BY <1>4, <1>5, <1>6 DEF DiskInv, CallsInv

LEMMA IdleDisk == ASSUME DiskInv, UNCHANGED vars PROVE DiskInv'
<1>1. UNCHANGED <<disk, pc, call, calls, trouble>>
  BY DEF vars
<1>2. TypeOK'
  BY <1>1 DEF DiskInv, TypeOK
<1>3. RootInv' /\ DirsInv'
  BY <1>1, DiskStays DEF DiskInv
<1>4. CallsInv'
  BY <1>1, CallStays DEF DiskInv, CallsInv
<1> QED
  BY <1>2, <1>3, <1>4 DEF DiskInv

LEMMA InitDisk == Init => DiskInv
<1> SUFFICES ASSUME Init PROVE DiskInv
  OBVIOUS
<1>1. PICK n \in DiskSizes : disk = [b \in 0..n - 1 |-> Zero]
  BY DEF Init
<1>2. TypeOK
  BY <1>1, NoCallType, CallAssumption DEF Init, TypeOK, Block
<1>3. 0 \in DOMAIN disk /\ disk[0] = Zero
  BY <1>1, <1>2, DiskFacts
<1>4. root = RootBlock(0, [i \in DirSlots |-> NoDirectory])
  BY <1>3 DEF root, AsRoot
<1>5. RootInv
  <2>1. /\ root.kind = "root" /\ root.nDirectories = 0
        /\ \A i \in DirSlots : root.directories[i] = NoDirectory
    BY <1>4 DEF RootBlock
  <2>2. \A i \in DirSlots : ~(i < 0)
    BY DiskAssumption DEF DirSlots
  <2> QED
    BY <2>1, <2>2 DEF RootInv, RootReadable, RootPacked, NoDirectory
<1>6. DirsInv
  BY <1>1 DEF DirsInv, Zero
<1>7. CallsInv
  BY DEF Init, CallsInv
<1> QED
  BY <1>2, <1>5, <1>6, <1>7 DEF DiskInv

(* The ends of calls that have not done what they were to do. *)
Ends == Stop \/ \E t \in Threads : Fail(t)

LEMMA Ended ==
    ASSUME TypeOK, Ends
    PROVE  /\ UNCHANGED disk /\ trouble \subseteq trouble'
           /\ \A t \in Threads : pc'[t] = "idle" \/ (pc'[t] = pc[t] /\ call'[t] = call[t])
           /\ \A t \in Threads : pc[t] = "write_data" /\ pc'[t] = "idle" => "stop" \in trouble'
<1>1. CASE Stop
  BY <1>1 DEF Stop, Flag
<1>2. ASSUME NEW t \in Threads, Fail(t)
      PROVE  /\ UNCHANGED disk /\ trouble \subseteq trouble'
             /\ \A u \in Threads : pc'[u] = "idle" \/ (pc'[u] = pc[u] /\ call'[u] = call[u])
             /\ \A u \in Threads : pc[u] = "write_data" /\ pc'[u] = "idle" => "stop" \in trouble'
  <2>1. /\ UNCHANGED disk /\ call' = [call EXCEPT ![t] = NoCall] /\ Goto(t, "idle")
        /\ trouble \subseteq trouble' /\ (pc[t] = "write_data" => "stop" \in trouble')
    BY <1>2 DEF Fail, Flag
  <2>2. pc'[t] = "idle" /\ \A u \in Threads : u # t => pc'[u] = pc[u]
    BY <2>1, Goes DEF Labels
  <2>3. \A u \in Threads : u # t => call'[u] = call[u]
    BY <2>1 DEF TypeOK
  <2> QED
    BY <2>1, <2>2, <2>3
<1> QED
  BY <1>1, <1>2 DEF Ends

(* What a step may be; the proofs that a step preserves an invariant have  *)
(* one case for each of these.                                             *)
LEMMA Steps ==
    ASSUME [Next]_vars
    PROVE  \/ \E d \in DirNames : Mkdir(d)
           \/ \E d \in DirNames : Mknod(d)
           \/ \E t \in Threads, k \in DirNames \X FileNames, offset \in Offsets, buf \in Payloads :
                 WriteNew(t, k, offset, buf)
           \/ \E t \in Threads, k \in DirNames \X FileNames, offset \in Offsets, buf \in Payloads :
                 WriteOld(t, k, offset, buf)
           \/ \E t \in Threads : FindBlock(t)
           \/ \E t \in Threads : ReadBlock(t)
           \/ \E t \in Threads : WriteDir(t)
           \/ \E t \in Threads : WriteData(t)
           \/ Ends
           \/ UNCHANGED vars
BY Zenon DEF Next, Ends

(* What has gone wrong stays wrong. *)
LEMMA TroubleKept == ASSUME [Next]_vars PROVE trouble \subseteq trouble'
<1>1. ASSUME NEW d \in DirNames, Mkdir(d) \/ Mknod(d) PROVE trouble \subseteq trouble'
  BY <1>1 DEF Mkdir, Mknod
<1>2. ASSUME NEW t \in Threads, NEW k \in DirNames \X FileNames, NEW offset \in Offsets,
             NEW buf \in Payloads, WriteNew(t, k, offset, buf) \/ WriteOld(t, k, offset, buf)
      PROVE  trouble \subseteq trouble'
  BY <1>2 DEF WriteNew, WriteOld
<1>3. ASSUME NEW t \in Threads, FindBlock(t) \/ ReadBlock(t) \/ WriteDir(t) \/ WriteData(t)
      PROVE  trouble \subseteq trouble'
  BY <1>3 DEF FindBlock, ReadBlock, WriteDir, WriteData
<1>4. Ends \/ UNCHANGED vars => trouble \subseteq trouble'
  BY DEF Ends, Stop, Fail, vars
<1> QED
  BY <1>1, <1>2, <1>3, <1>4, Steps

LEMMA StepDisk == DiskInv /\ [Next]_vars => DiskInv'
BY Steps, MkdirDisk, MknodDisk, NewDisk, OldDisk, FindDisk, ReadDisk, WriteDirDisk, WriteDataDisk,
   StopDisk, FailDisk, IdleDisk DEF Ends

(* Every variable holds a value of its type: no block has the contents of  *)
(* another kind, no size exceeds a block and no call seeks where the disk  *)
(* does not reach, whatever has gone wrong.                                *)
THEOREM FileSystemType == Spec => []TypeOK
<1>1. DiskInv => TypeOK
  BY DEF DiskInv
<1> QED
  BY <1>1, InitDisk, StepDisk, PTL DEF Spec

(* Only mkdir writes block 0, and it finds the slot behind the last one,   *)
(* unless a file was made on a full disk.                                  *)
THEOREM FileSystemRoot == Spec => []RootIntact
<1>1. DiskInv => RootIntact
  BY DEF DiskInv, RootInv, RootPacked, RootIntact
<1> QED
  BY <1>1, InitDisk, StepDisk, PTL DEF Spec

-----------------------------------------------------------------------------
(* What a directory holds, as long as none has outgrown its block: its     *)
(* files lie in its first slots, each with a name of its own.              *)

Packed(files, n) ==
    /\ n <= MAX_FILES_IN_DIR
    /\ \A i \in FileSlots : i < n <=> files[i].fname # NoName
    /\ \A i, j \in FileSlots : i < n /\ files[i].fname = files[j].fname => i = j

(* Until it has found a block, a call for a new file has counted the slot  *)
(* of the file but not filled it.                                          *)
PackedCall(t) ==
    LET dir == call[t].directory
    IN  /\ pc[t] = "find_block" =>
              /\ call[t].slot \in FileSlots /\ dir.nFiles = call[t].slot + 1
              /\ Packed(dir.files, call[t].slot)
              /\ \A i \in FileSlots : dir.files[i].fname # call[t].key[2]
        /\ pc[t] \in {"read_block", "write_dir"} => Packed(dir.files, dir.nFiles)

PackedInv ==
    "slots" \notin trouble =>
        /\ \A b \in DOMAIN disk : disk[b].kind = "dir" => Packed(disk[b].files, disk[b].nFiles)
        /\ \A t \in Threads : PackedCall(t)

(* Nothing but mknod writes something else into the block of a directory,  *)
(* and the file section holds files.                                       *)
SectionInv ==
    /\ "mknod" \notin trouble => \A b \in 1..MAX_FILES_IN_DIR : AsDir(disk[b]).kind = "dir"
    /\ "dirs" \notin trouble =>
          /\ RootReadable => root.nDirectories <= MAX_FILES_IN_DIR
          /\ \A t \in Threads : pc[t] # "idle" => call[t].dirBlock <= MAX_FILES_IN_DIR
          /\ \A b \in FileBlocks(disk) : disk[b].kind # "dir"

DirInv == DiskInv /\ PackedInv /\ SectionInv

LEMMA SamePacked ==
    ASSUME NEW f, NEW g, NEW n, Packed(f, n), \A i \in FileSlots : f[i].fname = g[i].fname
    PROVE  Packed(g, n)
BY DEF Packed

(* No name lies in the padding of such a directory. *)
LEMMA PackedFinds ==
    ASSUME NEW dir, NEW f, dir.nFiles \in Nat, Packed(dir.files, dir.nFiles)
    PROVE  ReadFinds(dir, f) = {i \in FileSlots : i < dir.nFiles /\ dir.files[i].fname = f}
<1>1. dir.nFiles <= MAX_FILES_IN_DIR
  BY DEF Packed
<1>2. \A i \in 0..MAX_FILES_IN_DIR : i \in FileSlots \/ i = MAX_FILES_IN_DIR
  BY DiskAssumption DEF FileSlots
<1>3. ~(MAX_FILES_IN_DIR < dir.nFiles)
  BY <1>1, DiskAssumption
<1>4. FileSlots \subseteq 0..MAX_FILES_IN_DIR
  BY DiskAssumption DEF FileSlots
<1> QED
  BY <1>2, <1>3, <1>4 DEF ReadFinds, NameAt

LEMMA PackedDir ==
    ASSUME PackedInv, "slots" \notin trouble, NEW b \in DOMAIN disk, AsDir(disk[b]).kind = "dir"
    PROVE  Packed(AsDir(disk[b]).files, AsDir(disk[b]).nFiles)
<1>1. CASE disk[b] = Zero
  <2>1. \A i \in FileSlots : AsDir(disk[b]).files[i].fname = NoName
    BY <1>1 DEF AsDir, DirBlock, NoFile
  <2>2. \A i \in FileSlots : ~(i < AsDir(disk[b]).nFiles)
    BY <1>1, DiskAssumption DEF AsDir, DirBlock, FileSlots
  <2>3. AsDir(disk[b]).nFiles <= MAX_FILES_IN_DIR
    BY <1>1, DiskAssumption DEF AsDir, DirBlock
  <2> QED
    BY <2>1, <2>2, <2>3 DEF Packed
<1>2. CASE disk[b] # Zero
  BY <1>2 DEF PackedInv, AsDir
<1> QED
  BY <1>1, <1>2

(* A step of another thread leaves the directory of a call alone, and a    *)
(* write of anything but a directory leaves the directories packed.        *)
LEMMA PackedStays ==
    ASSUME PackedInv, trouble \subseteq trouble', DOMAIN disk' = DOMAIN disk,
           \A b \in DOMAIN disk : disk'[b].kind = "dir" => disk'[b] = disk[b],
           \A t \in Threads : \/ pc'[t] \in {"idle", "write_data"}
                              \/ pc'[t] = pc[t] /\ call'[t] = call[t]
    PROVE  PackedInv'
<1> SUFFICES ASSUME "slots" \notin trouble' PROVE PackedInv'
  BY DEF PackedInv
<1>1. "slots" \notin trouble
  OBVIOUS
<1>2. ASSUME NEW b \in DOMAIN disk', disk'[b].kind = "dir"
      PROVE  Packed(disk'[b].files, disk'[b].nFiles)
  BY <1>1, <1>2 DEF PackedInv
<1>3. ASSUME NEW t \in Threads PROVE PackedCall(t)'
  <2>1. CASE pc'[t] \in {"idle", "write_data"}
    BY <2>1 DEF PackedCall
  <2>2. CASE pc'[t] = pc[t] /\ call'[t] = call[t]
    <3>1. PackedCall(t)
      BY <1>1 DEF PackedInv
    <3> QED
      BY <2>2, <3>1 DEF PackedCall, Packed
  <2> QED
    BY <2>1, <2>2
<1>4. \A b \in DOMAIN disk' : disk'[b].kind = "dir" => Packed(disk[b].files, disk[b].nFiles)'
  BY <1>2 DEF Packed
<1> QED
  BY <1>3, <1>4 DEF PackedInv

LEMMA CallPacked ==
    ASSUME PackedInv, NEW t \in Threads, UNCHANGED disk, trouble \subseteq trouble',
           \A u \in Threads : u # t => pc'[u] = pc[u] /\ call'[u] = call[u],
           "slots" \notin trouble' => PackedCall(t)'
    PROVE  PackedInv'
<1> SUFFICES ASSUME "slots" \notin trouble' PROVE PackedInv'
  BY DEF PackedInv
<1>1. "slots" \notin trouble
  OBVIOUS
<1>2. ASSUME NEW u \in Threads PROVE PackedCall(u)'
  <2>1. CASE u = t
    BY <2>1
  <2>2. CASE u # t
    <3>1. PackedCall(u) /\ pc'[u] = pc[u] /\ call'[u] = call[u]
      BY <1>1, <2>2 DEF PackedInv
    <3> QED
      BY <3>1 DEF PackedCall, Packed
  <2> QED
    BY <2>1, <2>2
<1>3. \A b \in DOMAIN disk' : disk'[b].kind = "dir" => Packed(disk[b].files, disk[b].nFiles)'
  BY <1>1 DEF PackedInv, Packed
<1> QED
  BY <1>2, <1>3 DEF PackedInv

LEMMA NewPacked ==
    ASSUME DirInv, NEW t \in Threads, NEW k \in DirNames \X FileNames,
           NEW offset \in Offsets, NEW buf \in Payloads, WriteNew(t, k, offset, buf)
    PROVE  PackedInv'
<1> DEFINE b == DirBlockOf(k[1])
           dir == AsDir(disk[b])
           n == IF dir.nFiles > MAX_FILES_IN_DIR THEN 0 ELSE dir.nFiles
<1>1. /\ DiskInv /\ PackedInv /\ TypeOK
  BY DEF DirInv, DiskInv
<1>2. /\ WriteBegins(t, k, offset, buf) /\ Goto(t, "find_block") /\ WriteFinds(dir, k[2]) = {}
      /\ trouble \subseteq trouble' /\ (dir.nFiles >= MAX_FILES_IN_DIR => "slots" \in trouble')
  BY DEF WriteNew, Flag
<1>3. disk' = disk /\ DirReadable(k[1])
  BY <1>1, <1>2, BeginsType
<1>4. b \in DOMAIN disk /\ dir \in Directory
  BY <1>1, <1>3, DirFound
<1>5. /\ \A u \in Threads : u # t => call'[u] = call[u]
      /\ call'[t].key = k /\ call'[t].directory = DirBlock(n + 1, dir.files, dir.padding)
      /\ call'[t].slot = n
  BY <1>1, NewCall
<1>6. pc'[t] = "find_block" /\ \A u \in Threads : u # t => pc'[u] = pc[u]
  BY <1>1, <1>2, Goes DEF Labels
<1>7. ASSUME "slots" \notin trouble' PROVE PackedCall(t)'
  <2>1. n = dir.nFiles /\ n \in FileSlots
    <3>1. dir.nFiles \in 0..MAX_FILES_IN_DIR + 1
      BY <1>4 DEF Directory
    <3>2. ~(dir.nFiles >= MAX_FILES_IN_DIR)
      BY <1>2, <1>7
    <3> QED
      BY <3>1, <3>2, DiskAssumption DEF FileSlots
  <2>2. Packed(dir.files, n)
    <3>1. "slots" \notin trouble /\ dir.kind = "dir"
      BY <1>2, <1>3, <1>7 DEF DirReadable
    <3> QED
      BY <3>1, <2>1, <1>1, <1>4, PackedDir
  <2>3. \A i \in FileSlots : dir.files[i].fname # k[2]
    BY <1>2 DEF WriteFinds
  <2> HIDE DEF n, dir
  <2>4. call'[t].directory.files = dir.files /\ call'[t].directory.nFiles = n + 1
    BY <1>5 DEF DirBlock
  <2> QED
    BY <2>1, <2>2, <2>3, <2>4, <1>5, <1>6 DEF PackedCall, Packed
<1> QED
  BY <1>1, <1>2, <1>3, <1>5, <1>6, <1>7, CallPacked

LEMMA OldPacked ==
    ASSUME DirInv, NEW t \in Threads, NEW k \in DirNames \X FileNames,
           NEW offset \in Offsets, NEW buf \in Payloads, WriteOld(t, k, offset, buf)
    PROVE  PackedInv'
<1> DEFINE b == DirBlockOf(k[1])
           dir == AsDir(disk[b])
<1>1. /\ DiskInv /\ PackedInv /\ TypeOK
  BY DEF DirInv, DiskInv
<1>2. /\ WriteBegins(t, k, offset, buf) /\ Goto(t, "read_block")
      /\ trouble \subseteq trouble'
  BY DEF WriteOld, Flag
<1>3. disk' = disk /\ DirReadable(k[1])
  BY <1>1, <1>2, BeginsType
<1>4. b \in DOMAIN disk
  BY <1>1, <1>3, DirFound
<1>5. /\ \A u \in Threads : u # t => call'[u] = call[u]
      /\ call'[t].directory = dir
  BY <1>1, OldCall
<1>6. pc'[t] = "read_block" /\ \A u \in Threads : u # t => pc'[u] = pc[u]
  BY <1>1, <1>2, Goes DEF Labels
<1>7. ASSUME "slots" \notin trouble' PROVE PackedCall(t)'
  <2>1. "slots" \notin trouble /\ dir.kind = "dir"
    BY <1>2, <1>3, <1>7 DEF DirReadable
  <2>2. Packed(dir.files, dir.nFiles)
    BY <2>1, <1>1, <1>4, PackedDir
  <2> HIDE DEF dir
  <2> QED
    BY <2>2, <1>5, <1>6 DEF PackedCall, Packed
<1> QED
  BY <1>1, <1>2, <1>3, <1>5, <1>6, <1>7, CallPacked

LEMMA FindPacked == ASSUME DirInv, NEW t \in Threads, FindBlock(t) PROVE PackedInv'
<1> DEFINE dir == call[t].directory
           slot == call[t].slot
<1>1. DiskInv /\ PackedInv /\ TypeOK
  BY DEF DirInv, DiskInv
<1>2. /\ Goto(t, "read_block") /\ pc[t] = "find_block" /\ UNCHANGED disk
      /\ trouble \subseteq trouble'
  BY DEF FindBlock, Flag
<1>3. /\ \A u \in Threads : u # t => call'[u] = call[u]
      /\ call'[t].directory.nFiles = dir.nFiles
      /\ \A i \in FileSlots : call'[t].directory.files[i].fname =
            IF i = slot THEN call[t].key[2] ELSE dir.files[i].fname
  <2>1. \A i \in FileSlots : call'[t].directory.files[i] =
          IF i = slot THEN [fname |-> call[t].key[2], fsize |-> 0,
                            nStartBlock |-> find_next_free_file_block(disk)]
          ELSE dir.files[i]
    BY <1>1, FoundBlock
  <2> QED
    BY <1>1, <2>1, FoundBlock
<1>4. pc'[t] = "read_block" /\ \A u \in Threads : u # t => pc'[u] = pc[u]
  BY <1>1, <1>2, Goes DEF Labels
<1>5. ASSUME "slots" \notin trouble' PROVE PackedCall(t)'
  <2>1. /\ slot \in FileSlots /\ dir.nFiles = slot + 1 /\ Packed(dir.files, slot)
        /\ \A i \in FileSlots : dir.files[i].fname # call[t].key[2]
    BY <1>1, <1>2, <1>5 DEF PackedInv, PackedCall
  <2>2. call[t].key[2] # NoName
    BY <1>1, <1>2, DiskAssumption DEF DiskInv, CallsInv, CallFits
  <2>3. \A i \in FileSlots : i \in Nat
    BY DiskAssumption DEF FileSlots
  <2>4. \A i \in FileSlots : i < slot + 1 <=> i < slot \/ i = slot
    BY <2>1, <2>3
  <2>5. \A i \in FileSlots : i < slot => i # slot
    BY <2>1, <2>3
  <2> HIDE DEF dir, slot
  <2>5a. slot + 1 <= MAX_FILES_IN_DIR
    BY <2>1, DiskAssumption DEF FileSlots
  <2>6. Packed(call'[t].directory.files, slot + 1)
    BY <2>1, <2>2, <2>4, <2>5, <2>5a, <1>3 DEF Packed
  <2>7. Packed(call'[t].directory.files, call'[t].directory.nFiles)
    BY <2>1, <2>6, <1>3
  <2> QED
    BY <2>7, <1>4 DEF PackedCall, Packed
<1> QED
  BY <1>1, <1>2, <1>3, <1>4, <1>5, CallPacked

LEMMA ReadPacked == ASSUME DirInv, NEW t \in Threads, ReadBlock(t) PROVE PackedInv'
<1> DEFINE dir == call[t].directory
<1>1. DiskInv /\ PackedInv /\ TypeOK
  BY DEF DirInv, DiskInv
<1>2. /\ Goto(t, "write_dir") /\ pc[t] = "read_block" /\ UNCHANGED disk
      /\ trouble \subseteq trouble'
  BY DEF ReadBlock, Flag
<1>3. /\ \A u \in Threads : u # t => call'[u] = call[u]
      /\ call'[t].directory.nFiles = dir.nFiles
      /\ \A i \in FileSlots : call'[t].directory.files[i].fname = dir.files[i].fname
  BY <1>1, BlockRead
<1>4. pc'[t] = "write_dir" /\ \A u \in Threads : u # t => pc'[u] = pc[u]
  BY <1>1, <1>2, Goes DEF Labels
<1>5. ASSUME "slots" \notin trouble' PROVE PackedCall(t)'
  <2>1. Packed(dir.files, dir.nFiles)
    BY <1>1, <1>2, <1>5 DEF PackedInv, PackedCall
  <2>2. Packed(call'[t].directory.files, call'[t].directory.nFiles)
    BY <2>1, <1>3, SamePacked
  <2> QED
    BY <2>2, <1>4 DEF PackedCall, Packed
<1> QED
  BY <1>1, <1>2, <1>3, <1>4, <1>5, CallPacked

LEMMA WriteDirPacked == ASSUME DirInv, NEW t \in Threads, WriteDir(t) PROVE PackedInv'
<1> DEFINE b == call[t].dirBlock
           x == call[t].directory
<1>1. /\ disk' = [disk EXCEPT ![b] = x] /\ UNCHANGED <<call, calls, trouble>>
      /\ pc[t] = "write_dir" /\ Goto(t, "write_data")
  BY DEF WriteDir
<1>2. CallFits(t) /\ TypeOK /\ PackedInv
  BY <1>1 DEF DirInv, DiskInv, CallsInv
<1>3. b \in DOMAIN disk /\ x \in Block
  BY <1>2, DiskFacts DEF CallFits, TypeOK, Call, Block
<1>4. /\ DOMAIN disk' = DOMAIN disk /\ disk'[b] = x
      /\ \A c \in DOMAIN disk : c # b => disk'[c] = disk[c]
  BY <1>1, <1>2, <1>3, DiskUpdate
<1>5. pc'[t] = "write_data" /\ \A u \in Threads : u # t => pc'[u] = pc[u]
  BY <1>1, <1>2, Goes DEF Labels
<1> SUFFICES ASSUME "slots" \notin trouble' PROVE PackedInv'
  BY DEF PackedInv
<1>6. "slots" \notin trouble
  BY <1>1
<1>7. ASSUME NEW c \in DOMAIN disk', disk'[c].kind = "dir"
      PROVE  Packed(disk[c].files, disk[c].nFiles)'
  <2>1. CASE c = b
    <3>1. Packed(x.files, x.nFiles)
      BY <1>1, <1>2, <1>6 DEF PackedInv, PackedCall
    <3> QED
      BY <2>1, <3>1, <1>4 DEF Packed
  <2>2. CASE c # b
    <3>1. disk'[c] = disk[c] /\ Packed(disk[c].files, disk[c].nFiles)
      BY <2>2, <1>2, <1>4, <1>6, <1>7 DEF PackedInv
    <3> QED
      BY <3>1 DEF Packed
  <2> QED
    BY <2>1, <2>2
<1>8. ASSUME NEW u \in Threads PROVE PackedCall(u)'
  <2>1. PackedCall(u)
    BY <1>2, <1>6 DEF PackedInv
  <2> QED
    BY <2>1, <1>1, <1>5 DEF PackedCall, Packed
<1> QED
  BY <1>7, <1>8 DEF PackedInv

LEMMA WrittenBlock ==
    ASSUME DiskInv, NEW t \in Threads, WriteData(t)
    PROVE  LET b == Seek(call[t].block)
           IN  /\ b \in DOMAIN disk /\ Place(call[t].block) /\ CallFits(t)
               /\ \/ b = 0 /\ call[t].block = -1 /\ "full" \in trouble
                  \/ b = call[t].block /\ b \in FileBlocks(disk)
               /\ DOMAIN disk' = DOMAIN disk /\ FileBlocks(disk') = FileBlocks(disk)
               /\ disk'[b] = call[t].data /\ call[t].data.kind \in {"data", "junk"}
               /\ \A c \in DOMAIN disk : c # b => disk'[c] = disk[c]
               /\ pc[t] = "write_data" /\ pc'[t] = "idle" /\ call'[t] = NoCall
               /\ \A u \in Threads : u # t => pc'[u] = pc[u] /\ call'[u] = call[u]
               /\ UNCHANGED trouble
<1> DEFINE b == Seek(call[t].block)
<1>1. /\ disk' = [disk EXCEPT ![b] = call[t].data] /\ UNCHANGED <<calls, trouble>>
      /\ call' = [call EXCEPT ![t] = NoCall]
      /\ pc[t] = "write_data" /\ Goto(t, "idle")
  BY DEF WriteData
<1>2. CallFits(t) /\ TypeOK
  BY <1>1 DEF DiskInv, CallsInv
<1>3. Place(call[t].block) /\ call[t].data.kind \in {"data", "junk"}
  BY <1>1, <1>2 DEF CallFits
<1>4. /\ b \in DOMAIN disk
      /\ \/ b = 0 /\ call[t].block = -1 /\ "full" \in trouble
         \/ b = call[t].block /\ b \in FileBlocks(disk)
  BY <1>2, <1>3, SeekPlace
<1>5. call[t].data \in Block
  BY <1>2 DEF TypeOK, Call, Block
<1>6. /\ FileBlocks(disk') = FileBlocks(disk) /\ DOMAIN disk' = DOMAIN disk
      /\ disk'[b] = call[t].data /\ \A c \in DOMAIN disk : c # b => disk'[c] = disk[c]
  BY <1>1, <1>2, <1>4, <1>5, DiskUpdate
<1>7. /\ pc'[t] = "idle" /\ \A u \in Threads : u # t => pc'[u] = pc[u]
  BY <1>1, <1>2, Goes DEF Labels
<1>8. call'[t] = NoCall /\ \A u \in Threads : u # t => call'[u] = call[u]
  BY <1>1, <1>2 DEF TypeOK
<1> QED
  BY <1>1, <1>2, <1>3, <1>4, <1>6, <1>7, <1>8

LEMMA PackedStep == DirInv /\ [Next]_vars => PackedInv'
<1> SUFFICES ASSUME DirInv, [Next]_vars PROVE PackedInv'
  OBVIOUS
<1>1. DiskInv /\ PackedInv /\ TypeOK
  BY DEF DirInv, DiskInv
<1>2. ASSUME NEW d \in DirNames, Mkdir(d) PROVE PackedInv'
  <2>1. /\ DOMAIN disk' = DOMAIN disk /\ disk'[0].kind = "root"
        /\ \A b \in DOMAIN disk : b # 0 => disk'[b] = disk[b]
        /\ trouble \subseteq trouble'
    BY <1>1, <1>2, NewDirectory
  <2>2. UNCHANGED <<pc, call>>
    BY <1>2 DEF Mkdir
  <2> QED
    BY <1>1, <2>1, <2>2, PackedStays
<1>3. ASSUME NEW d \in DirNames, Mknod(d) PROVE PackedInv'
  <2>1. /\ disk' = [disk EXCEPT ![DirBlockOf(d)] = Junk] /\ UNCHANGED <<pc, call>>
        /\ trouble \subseteq trouble'
    BY <1>3 DEF Mknod
  <2>2. DirBlockOf(d) \in DOMAIN disk
    BY <1>1, <1>3, DirFound DEF Mknod
  <2>3. Junk \in Block /\ Junk.kind # "dir"
    BY DEF Block, Junk
  <2>4. /\ DOMAIN disk' = DOMAIN disk /\ disk'[DirBlockOf(d)] = Junk
        /\ \A c \in DOMAIN disk : c # DirBlockOf(d) => disk'[c] = disk[c]
    BY <1>1, <2>1, <2>2, <2>3, DiskUpdate
  <2>5. \A c \in DOMAIN disk : disk'[c].kind = "dir" => disk'[c] = disk[c]
    BY <2>3, <2>4
  <2> QED
    BY <1>1, <2>1, <2>4, <2>5, PackedStays
<1>4. ASSUME NEW t \in Threads, WriteData(t) PROVE PackedInv'
  <2> DEFINE b == Seek(call[t].block)
  <2>1. /\ DOMAIN disk' = DOMAIN disk /\ disk'[b].kind # "dir"
        /\ \A c \in DOMAIN disk : c # b => disk'[c] = disk[c]
        /\ pc'[t] = "idle" /\ UNCHANGED trouble
        /\ \A u \in Threads : u # t => pc'[u] = pc[u] /\ call'[u] = call[u]
    BY <1>1, <1>4, WrittenBlock
  <2>2. \A c \in DOMAIN disk : disk'[c].kind = "dir" => disk'[c] = disk[c]
    BY <2>1
  <2> QED
    BY <1>1, <2>1, <2>2, PackedStays
<1>5. CASE Ends
  <2>1. /\ UNCHANGED disk /\ trouble \subseteq trouble'
        /\ \A t \in Threads : pc'[t] = "idle" \/ (pc'[t] = pc[t] /\ call'[t] = call[t])
    BY <1>1, <1>5, Ended
  <2> QED
    BY <1>1, <2>1, PackedStays
<1>6. CASE UNCHANGED vars
  BY <1>1, <1>6, PackedStays DEF vars
<1> QED
  BY <1>2, <1>3, <1>4, <1>5, <1>6, Steps, NewPacked, OldPacked, FindPacked, ReadPacked, WriteDirPacked

(* What write_dir does to the disk. *)
LEMMA WrittenDir ==
    ASSUME DiskInv, NEW t \in Threads, WriteDir(t)
    PROVE  LET b == call[t].dirBlock
           IN  /\ b \in DOMAIN disk /\ b \in 1..MAX_DIRS_IN_ROOT /\ CallFits(t)
               /\ DOMAIN disk' = DOMAIN disk /\ FileBlocks(disk') = FileBlocks(disk)
               /\ disk'[b] = call[t].directory /\ call[t].directory \in Directory
               /\ \A c \in DOMAIN disk : c # b => disk'[c] = disk[c]
               /\ pc[t] = "write_dir" /\ pc'[t] = "write_data"
               /\ \A u \in Threads : u # t => pc'[u] = pc[u]
               /\ UNCHANGED <<call, trouble>>
<1> DEFINE b == call[t].dirBlock
           x == call[t].directory
<1>1. /\ disk' = [disk EXCEPT ![b] = x] /\ UNCHANGED <<call, calls, trouble>>
      /\ pc[t] = "write_dir" /\ Goto(t, "write_data")
  BY DEF WriteDir
<1>2. CallFits(t) /\ TypeOK
  BY <1>1 DEF DiskInv, CallsInv
<1>3. b \in DOMAIN disk /\ x \in Directory /\ x \in Block /\ b \in 1..MAX_DIRS_IN_ROOT
  BY <1>2, DiskFacts DEF CallFits, TypeOK, Call, Block
<1>4. /\ DOMAIN disk' = DOMAIN disk /\ FileBlocks(disk') = FileBlocks(disk)
      /\ disk'[b] = x /\ \A c \in DOMAIN disk : c # b => disk'[c] = disk[c]
  BY <1>1, <1>2, <1>3, DiskUpdate
<1>5. pc'[t] = "write_data" /\ \A u \in Threads : u # t => pc'[u] = pc[u]
  BY <1>1, <1>2, Goes DEF Labels
<1> QED
  BY <1>1, <1>2, <1>3, <1>4, <1>5

(* A step that leaves the disk, or writes no directory, into the section   *)
(* of the files.                                                           *)
LEMMA SectionStays ==
    ASSUME DirInv, trouble \subseteq trouble', UNCHANGED disk,
           \A t \in Threads : \/ pc'[t] = "idle"
                              \/ pc[t] # "idle" /\ call'[t].dirBlock = call[t].dirBlock
                              \/ "dirs" \notin trouble' => call'[t].dirBlock <= MAX_FILES_IN_DIR
    PROVE  SectionInv'
<1>1. SectionInv
  BY DEF DirInv
<1>2. "mknod" \notin trouble' => \A b \in 1..MAX_FILES_IN_DIR : AsDir(disk'[b]).kind = "dir"
  BY <1>1 DEF SectionInv
<1>3. ASSUME "dirs" \notin trouble'
      PROVE  /\ RootReadable' => root'.nDirectories <= MAX_FILES_IN_DIR
             /\ \A t \in Threads : pc'[t] # "idle" => call'[t].dirBlock <= MAX_FILES_IN_DIR
             /\ \A b \in FileBlocks(disk') : disk'[b].kind # "dir"
  <2>1. "dirs" \notin trouble
    BY <1>3
  <2>2. root' = root
    BY DEF root
  <2> QED
    BY <1>1, <1>3, <2>1, <2>2 DEF SectionInv, RootReadable
<1> QED
  BY <1>2, <1>3 DEF SectionInv

LEMMA DirInSection ==
    ASSUME DirInv, NEW d, DirReadable(d), "dirs" \notin trouble
    PROVE  DirBlockOf(d) \in 1..MAX_FILES_IN_DIR
<1>1. DiskInv /\ SectionInv /\ RootReadable /\ DirBlockOf(d) # -1
  BY DEF DirInv, DirReadable
<1>2. PICK i \in DirSlots : i < root.nDirectories /\ DirBlockOf(d) = i + 1
  BY <1>1, RootFound
<1>3. root.nDirectories <= MAX_FILES_IN_DIR
  BY <1>1 DEF SectionInv
<1>4. root \in Root
  BY <1>1, DiskFacts, BlockKinds DEF root, RootReadable, DiskInv
<1>5. root.nDirectories \in Nat /\ i \in Nat
  BY <1>4, DiskAssumption DEF Root, DirSlots
<1> QED
  BY <1>2, <1>3, <1>5, DiskAssumption

LEMMA SectionStep == DirInv /\ [Next]_vars => SectionInv'
<1> SUFFICES ASSUME DirInv, [Next]_vars PROVE SectionInv'
  OBVIOUS
<1>1. DiskInv /\ SectionInv /\ TypeOK
  BY DEF DirInv, DiskInv
<1>2. ASSUME NEW d \in DirNames, Mkdir(d) PROVE SectionInv'
  <2> DEFINE n == root.nDirectories
  <2>1. /\ DOMAIN disk' = DOMAIN disk /\ FileBlocks(disk') = FileBlocks(disk)
        /\ \A b \in DOMAIN disk : b # 0 => disk'[b] = disk[b]
        /\ n \in DirSlots /\ root'.nDirectories = n + 1
        /\ trouble' = trouble \union Flag("dirs", n + 1 >= FirstFileBlock)
    BY <1>1, <1>2, NewDirectory
  <2>2. UNCHANGED <<pc, call>>
    BY <1>2 DEF Mkdir
  <2>3. \A b \in 1..MAX_FILES_IN_DIR : disk'[b] = disk[b]
    BY <1>1, <2>1, DiskFacts, DiskAssumption
  <2>4. \A b \in FileBlocks(disk) : disk'[b] = disk[b]
    BY <1>1, <2>1, DiskFacts, DiskAssumption
  <2>5. "dirs" \notin trouble' => n + 1 <= MAX_FILES_IN_DIR
    <3>1. n \in Nat
      BY <2>1, DiskAssumption DEF DirSlots
    <3>2. "dirs" \notin trouble' => ~(n + 1 >= FirstFileBlock)
      BY <2>1 DEF Flag
    <3> QED
      BY <3>1, <3>2, DiskAssumption DEF FirstFileBlock
  <2> HIDE DEF n
  <2> QED
    BY <1>1, <2>1, <2>2, <2>3, <2>4, <2>5 DEF SectionInv
<1>3. ASSUME NEW d \in DirNames, Mknod(d) PROVE SectionInv'
  <2>1. /\ disk' = [disk EXCEPT ![DirBlockOf(d)] = Junk] /\ UNCHANGED <<pc, call>>
        /\ trouble' = trouble \union {"mknod"}
    BY <1>3 DEF Mknod
  <2>2. DirBlockOf(d) \in DOMAIN disk /\ DirBlockOf(d) # 0
    BY <1>1, <1>3, DirFound DEF Mknod
  <2>3. Junk \in Block /\ Junk.kind # "dir"
    BY DEF Block, Junk
  <2>4. /\ DOMAIN disk' = DOMAIN disk /\ disk'[DirBlockOf(d)] = Junk
        /\ FileBlocks(disk') = FileBlocks(disk)
        /\ \A c \in DOMAIN disk : c # DirBlockOf(d) => disk'[c] = disk[c]
    BY <1>1, <2>1, <2>2, <2>3, DiskUpdate
  <2>5. \A c \in DOMAIN disk : disk'[c].kind = "dir" => disk[c].kind = "dir"
    BY <2>3, <2>4
  <2>6. root' = root
    BY <1>1, <2>2, <2>4, DiskFacts DEF root
  <2> QED
    BY <1>1, <2>1, <2>4, <2>5, <2>6, DiskFacts DEF SectionInv, RootReadable
<1>4. ASSUME NEW t \in Threads, NEW k \in DirNames \X FileNames, NEW offset \in Offsets,
             NEW buf \in Payloads, WriteNew(t, k, offset, buf) \/ WriteOld(t, k, offset, buf)
      PROVE  SectionInv'
  <2>1. /\ WriteBegins(t, k, offset, buf) /\ trouble \subseteq trouble'
        /\ \E label \in {"find_block", "read_block"} : Goto(t, label)
    BY <1>4 DEF WriteNew, WriteOld
  <2>2. disk' = disk /\ DirReadable(k[1])
    BY <1>1, <2>1, BeginsType
  <2>3. /\ \A u \in Threads : u # t => call'[u] = call[u]
        /\ call'[t].dirBlock = DirBlockOf(k[1])
    BY <1>1, <1>4, NewCall, OldCall
  <2>4. \A u \in Threads : u # t => pc'[u] = pc[u]
    BY <1>1, <2>1, Goes DEF Labels
  <2>5. "dirs" \notin trouble' => DirBlockOf(k[1]) <= MAX_FILES_IN_DIR
    BY <2>1, <2>2, DirInSection, DiskAssumption
  <2> QED
    BY <2>1, <2>2, <2>3, <2>4, <2>5, SectionStays
<1>5. ASSUME NEW t \in Threads, FindBlock(t) PROVE SectionInv'
  <2>1. Goto(t, "read_block") /\ pc[t] = "find_block" /\ UNCHANGED disk /\ trouble \subseteq trouble'
    BY <1>5 DEF FindBlock
  <2>2. \A u \in Threads : call'[u].dirBlock = call[u].dirBlock
    BY <1>1, <1>5, FoundBlock
  <2>3. \A u \in Threads : u # t => pc'[u] = pc[u]
    BY <1>1, <2>1, Goes DEF Labels
  <2> QED
    BY <2>1, <2>2, <2>3, SectionStays
<1>6. ASSUME NEW t \in Threads, ReadBlock(t) PROVE SectionInv'
  <2>1. Goto(t, "write_dir") /\ pc[t] = "read_block" /\ UNCHANGED disk /\ trouble \subseteq trouble'
    BY <1>6 DEF ReadBlock
  <2>2. \A u \in Threads : call'[u].dirBlock = call[u].dirBlock
    BY <1>1, <1>6, BlockRead
  <2>3. \A u \in Threads : u # t => pc'[u] = pc[u]
    BY <1>1, <2>1, Goes DEF Labels
  <2> QED
    BY <2>1, <2>2, <2>3, SectionStays
<1>7. ASSUME NEW t \in Threads, WriteDir(t) PROVE SectionInv'
  <2> DEFINE b == call[t].dirBlock
  <2>1. /\ b \in DOMAIN disk /\ b \in 1..MAX_DIRS_IN_ROOT
        /\ DOMAIN disk' = DOMAIN disk /\ FileBlocks(disk') = FileBlocks(disk)
        /\ disk'[b] = call[t].directory /\ call[t].directory \in Directory
        /\ \A c \in DOMAIN disk : c # b => disk'[c] = disk[c]
        /\ pc[t] = "write_dir" /\ \A u \in Threads : u # t => pc'[u] = pc[u]
        /\ UNCHANGED <<call, trouble>>
    BY <1>1, <1>7, WrittenDir
  <2>2. disk'[b].kind = "dir" /\ AsDir(disk'[b]).kind = "dir"
    BY <2>1 DEF Directory, AsDir, DirBlock
  <2>3. \A c \in 1..MAX_FILES_IN_DIR : AsDir(disk[c]).kind = "dir" => AsDir(disk'[c]).kind = "dir"
    BY <1>1, <2>1, <2>2, DiskFacts
  <2>4. root' = root
    BY <1>1, <2>1, DiskFacts DEF root
  <2>5. ASSUME "dirs" \notin trouble PROVE b \notin FileBlocks(disk)
    <3>1. b <= MAX_FILES_IN_DIR
      BY <1>1, <2>1, <2>5 DEF SectionInv
    <3> QED
      BY <1>1, <2>1, <3>1, DiskFacts, DiskAssumption
  <2>6. "dirs" \notin trouble => \A c \in FileBlocks(disk) : disk'[c] = disk[c]
    BY <1>1, <2>1, <2>5, DiskFacts
  <2> HIDE DEF b
  <2> QED
    BY <1>1, <2>1, <2>3, <2>4, <2>6 DEF SectionInv, RootReadable
<1>8. ASSUME NEW t \in Threads, WriteData(t) PROVE SectionInv'
  <2> DEFINE b == Seek(call[t].block)
  <2>1. /\ b \in DOMAIN disk /\ (b = 0 \/ b \in FileBlocks(disk))
        /\ DOMAIN disk' = DOMAIN disk /\ FileBlocks(disk') = FileBlocks(disk)
        /\ disk'[b].kind \in {"data", "junk"}
        /\ \A c \in DOMAIN disk : c # b => disk'[c] = disk[c]
        /\ pc'[t] = "idle" /\ UNCHANGED trouble
        /\ \A u \in Threads : u # t => pc'[u] = pc[u] /\ call'[u] = call[u]
    BY <1>1, <1>8, WrittenBlock
  <2>2. \A c \in 1..MAX_FILES_IN_DIR : disk'[c] = disk[c]
    BY <1>1, <2>1, DiskFacts, DiskAssumption
  <2>3. RootReadable' => RootReadable /\ root' = root
    <3>1. CASE b = 0
      <4>1. disk'[0].kind # "root" /\ disk'[0] # Zero
        BY <2>1, <3>1 DEF Zero
      <4> QED
        BY <4>1 DEF RootReadable, root, AsRoot
    <3>2. CASE b # 0
      BY <1>1, <2>1, <3>2, DiskFacts DEF RootReadable, root
    <3> QED
      BY <3>1, <3>2
  <2>4. \A c \in FileBlocks(disk) : disk'[c].kind = "dir" => disk[c].kind = "dir"
    BY <1>1, <2>1, DiskFacts
  <2> HIDE DEF b
  <2> QED
    BY <1>1, <2>1, <2>2, <2>3, <2>4 DEF SectionInv
<1>9. CASE Ends
  <2>1. /\ UNCHANGED disk /\ trouble \subseteq trouble'
        /\ \A t \in Threads : pc'[t] = "idle" \/ (pc'[t] = pc[t] /\ call'[t] = call[t])
    BY <1>1, <1>9, Ended
  <2> QED
    BY <2>1, SectionStays
<1>10. CASE UNCHANGED vars
  BY <1>10, SectionStays DEF vars
<1> QED
  BY <1>2, <1>3, <1>4, <1>5, <1>6, <1>7, <1>8, <1>9, <1>10, Steps

LEMMA InitDir == Init => DirInv
<1> SUFFICES ASSUME Init PROVE DirInv
  OBVIOUS
<1>1. DiskInv /\ TypeOK
  BY InitDisk DEF DiskInv
<1>2. \A b \in DOMAIN disk : disk[b] = Zero
  BY DEF Init
<1>3. PackedInv
  <2>1. \A t \in Threads : pc[t] = "idle"
    BY DEF Init
  <2> QED
    BY <1>2, <2>1 DEF PackedInv, PackedCall, Zero
<1>4. SectionInv
  <2>1. AsDir(Zero).kind = "dir" /\ Zero.kind # "dir"
    BY DEF AsDir, DirBlock, Zero
  <2>2. root.nDirectories = 0
    BY <1>1, <1>2, DiskFacts DEF root, AsRoot, RootBlock
  <2>3. \A t \in Threads : pc[t] = "idle"
    BY DEF Init
  <2> QED
    BY <1>1, <1>2, <2>1, <2>2, <2>3, DiskFacts, DiskAssumption DEF SectionInv
<1> QED
  BY <1>1, <1>3, <1>4 DEF DirInv

LEMMA StepDir == DirInv /\ [Next]_vars => DirInv'
<1>1. DirInv => DiskInv
  BY DEF DirInv
<1> QED
  BY <1>1, StepDisk, PackedStep, SectionStep DEF DirInv

(* The directories that the root names: where they are. *)
LEMMA DirectoryFound ==
    ASSUME DiskInv, NEW d \in Directories
    PROVE  RootReadable /\ \E i \in DirSlots : /\ i < root.nDirectories
                                               /\ root.directories[i].dname = d
                                               /\ DirBlockOf(d) = i + 1
<1>1. RootReadable
  BY DEF Directories
<1>2. PICK i \in DirSlots : i < root.nDirectories /\ root.directories[i].dname = d
  BY DEF Directories
<1>3. DirBlockOf(d) = i + 1
  BY <1>1, <1>2, RootFound
<1> QED
  BY <1>1, <1>2, <1>3

LEMMA DirectoryReadable ==
    ASSUME DirInv, NEW d \in Directories, trouble \intersect {"mknod", "dirs"} = {}
    PROVE  DirReadable(d)
<1>1. DiskInv /\ SectionInv /\ TypeOK
  BY DEF DirInv, DiskInv
<1>2. PICK i \in DirSlots : i < root.nDirectories /\ DirBlockOf(d) = i + 1
  BY <1>1, DirectoryFound
<1>3. RootReadable /\ root \in Root
  BY <1>1, DirectoryFound, DiskFacts, BlockKinds DEF root, RootReadable
<1>4. root.nDirectories \in Nat /\ i \in Nat
  BY <1>3, DiskAssumption DEF Root, DirSlots
<1>5. root.nDirectories <= MAX_FILES_IN_DIR
  BY <1>1, <1>3 DEF SectionInv
<1>6. DirBlockOf(d) \in 1..MAX_FILES_IN_DIR
  BY <1>2, <1>4, <1>5, DiskAssumption
<1> QED
  BY <1>1, <1>3, <1>6 DEF DirReadable, SectionInv

LEMMA LookupsFollow == ASSUME DirInv PROVE LookupsAgree
<1> SUFFICES ASSUME trouble \intersect {"slots", "mknod", "dirs"} = {}, NEW d \in Directories,
                    NEW f \in FileNames
             PROVE  LET dir == AsDir(disk[DirBlockOf(d)])
                    IN  /\ dir.kind = "dir"
                        /\ ReadFinds(dir, f) = WriteFinds(dir, f)
                        /\ WriteFinds(dir, f) = {i \in Lists(dir) : dir.files[i].fname = f}
                        /\ Cardinality(WriteFinds(dir, f)) <= 1
  <2> DEFINE dir(d) == AsDir(disk[DirBlockOf(d)])
  <2>1. trouble \intersect {"slots", "mknod", "dirs"} = {} => \A d \in Directories : dir(d).kind = "dir"
    BY DirectoryReadable DEF DirReadable
  <2> QED
    BY <2>1 DEF LookupsAgree
<1> DEFINE dir == AsDir(disk[DirBlockOf(d)])
<1>1. DiskInv /\ PackedInv /\ TypeOK
  BY DEF DirInv, DiskInv
<1>2. DirReadable(d)
  BY DirectoryReadable
<1>3. /\ DirBlockOf(d) \in DOMAIN disk /\ dir \in Directory
      /\ \A i \in FileSlots : Sized(dir.files[i])
  BY <1>1, <1>2, DirFound
<1>4. dir.kind = "dir"
  BY <1>2 DEF DirReadable
<1>5. Packed(dir.files, dir.nFiles)
  BY <1>1, <1>3, <1>4, PackedDir
<1>6. f # NoName
  BY DiskAssumption
<1>7. \A i \in FileSlots : dir.files[i].fsize \in 0..BLOCK_SIZE /\ i \in Nat
  BY <1>3, DiskAssumption DEF Directory, FileEntry, FileSlots
<1>8. dir.nFiles \in Nat
  BY <1>3, DiskAssumption DEF Directory
<1> HIDE DEF dir
<1>9. ReadFinds(dir, f) = WriteFinds(dir, f)
  BY <1>5, <1>6, <1>8, PackedFinds DEF WriteFinds, Packed
<1>10. ASSUME NEW i \in WriteFinds(dir, f) PROVE i \in Lists(dir)
  <2>1. i \in FileSlots /\ dir.files[i].fname = f /\ i < dir.nFiles
    BY <1>5, <1>6 DEF WriteFinds, Packed
  <2>2. dir.nFiles # 0
    BY <2>1, <1>7, <1>8
  <2>3. dir.files[i].fsize > 0 /\ dir.files[i].fsize <= BLOCK_SIZE
    BY <2>1, <1>3, <1>6, <1>7, DiskAssumption DEF Sized
  <2> QED
    BY <2>1, <2>2, <2>3, <1>6 DEF Lists
<1>11. WriteFinds(dir, f) = {i \in Lists(dir) : dir.files[i].fname = f}
  BY <1>10 DEF WriteFinds, Lists
<1>12. Cardinality(WriteFinds(dir, f)) <= 1
  <2>1. \A i, j \in WriteFinds(dir, f) : i = j
    BY <1>5, <1>6 DEF WriteFinds, Packed
  <2>2. CASE WriteFinds(dir, f) = {}
    BY <2>2, FS_EmptySet
  <2>3. CASE WriteFinds(dir, f) # {}
    <3>1. PICK i : WriteFinds(dir, f) = {i}
      BY <2>1, <2>3
    <3>2. Cardinality({i}) = 1
      BY FS_Singleton
    <3> QED
      BY <3>1, <3>2
  <2> QED
    BY <2>2, <2>3
<1> QED
  BY <1>4, <1>9, <1>11, <1>12 DEF dir

(* As long as no directory outgrows its block, the searches of read, write *)
(* and readdir find the same: every thread writes back a directory whose   *)
(* files lie in its first slots, also when threads race or are stopped.    *)
THEOREM FileSystemLookups == Spec => []LookupsAgree
<1>1. DirInv => LookupsAgree
  BY LookupsFollow
<1> QED
  BY <1>1, InitDir, StepDir, PTL DEF Spec

-----------------------------------------------------------------------------
(* Who has a block.  Slot i of the directory in block b claims block x     *)
(* when it names a file there, on the disk or in the hands of a call.      *)

InHand(t) == pc[t] \in {"find_block", "read_block", "write_dir"}

OnDisk(b, i) == disk[b].kind = "dir" /\ disk[b].files[i].fname # NoName
InCall(t, i) == InHand(t) /\ call[t].directory.files[i].fname # NoName

Claim(b, i, x) ==
    \/ b \in DOMAIN disk /\ OnDisk(b, i) /\ disk[b].files[i].nStartBlock = x
    \/ \E t \in Threads : /\ InCall(t, i) /\ call[t].dirBlock = b
                          /\ call[t].directory.files[i].nStartBlock = x

Disjoint ==
    \A b, c \in DOMAIN disk, i, j \in FileSlots, x \in FileBlocks(disk) :
        Claim(b, i, x) /\ Claim(c, j, x) => b = c /\ i = j

(* A block is used when it does not look free, or a thread is about to     *)
(* write the first data into it.                                           *)
Pending(x) == \E t \in Threads : pc[t] = "write_data" /\ call[t].new /\ call[t].block = x
Used(x) == x \notin FreeFileBlocks(disk) \/ Pending(x)

DiskUsed == \A b \in DOMAIN disk, i \in FileSlots : OnDisk(b, i) => Used(disk[b].files[i].nStartBlock)

(* So is every block that a call has in its directory, but for the one     *)
(* that it has just found.                                                 *)
CallUsed(t, i) ==
    \/ Used(call[t].directory.files[i].nStartBlock)
    \/ /\ pc[t] # "find_block" /\ call[t].new /\ i = call[t].slot
       /\ call[t].directory.files[i].nStartBlock = call[t].block

CallsUsed == \A t \in Threads, i \in FileSlots : InCall(t, i) => CallUsed(t, i)

Orderly == trouble \intersect {"race", "stop", "full", "slots", "zero", "dirs"} = {}
OwnerInv == Orderly => Disjoint /\ DiskUsed /\ CallsUsed

(* What is not written keeps looking used. *)
LEMMA FreeStays ==
    ASSUME FileBlocks(disk') = FileBlocks(disk),
           \A b \in FileBlocks(disk) : disk'[b] = disk[b]
    PROVE  FreeFileBlocks(disk') = FreeFileBlocks(disk)
BY DEF FreeFileBlocks

LEMMA UsedStays ==
    ASSUME FreeFileBlocks(disk') \subseteq FreeFileBlocks(disk),
           NEW x, Used(x), Pending(x) => x \notin FreeFileBlocks(disk') \/ Pending(x)'
    PROVE  Used(x)'
BY DEF Used

LEMMA Owners ==
    ASSUME DirInv, OwnerInv, Orderly
    PROVE  /\ Disjoint /\ DiskUsed /\ CallsUsed
           /\ \A b \in DOMAIN disk, i \in FileSlots :
                 OnDisk(b, i) => disk[b].files[i].nStartBlock \in FileBlocks(disk)
           /\ \A t \in Threads, i \in FileSlots :
                 InCall(t, i) => call[t].directory.files[i].nStartBlock \in FileBlocks(disk)
<1>1. DirsInv /\ CallsInv /\ "full" \notin trouble
  BY DEF DirInv, DiskInv, Orderly
<1>2. \A b \in DOMAIN disk, i \in FileSlots :
         OnDisk(b, i) => disk[b].files[i].nStartBlock \in FileBlocks(disk)
  BY <1>1 DEF DirsInv, OnDisk, Placed, Place
<1>3. ASSUME NEW t \in Threads, NEW i \in FileSlots, InCall(t, i)
      PROVE  call[t].directory.files[i].nStartBlock \in FileBlocks(disk)
  <2>1. pc[t] # "idle" /\ call[t].directory.files[i].fname # NoName
    BY <1>3 DEF InCall, InHand
  <2>2. Placed(call[t].directory.files[i])
    BY <1>1, <2>1 DEF CallsInv, CallFits
  <2> QED
    BY <1>1, <2>1, <2>2 DEF Placed, Place
<1> QED
  BY <1>2, <1>3 DEF OwnerInv

(* A step after which no slot claims a block that it did not claim before. *)
LEMMA DisjointStays ==
    ASSUME Disjoint, DOMAIN disk' = DOMAIN disk, FileBlocks(disk') = FileBlocks(disk),
           \A b \in DOMAIN disk, i \in FileSlots, x \in FileBlocks(disk) :
               Claim(b, i, x)' => Claim(b, i, x)
    PROVE  Disjoint'
BY DEF Disjoint

(* Claims of the disk, and of the calls, that a step leaves alone.         *)
LEMMA DiskClaim ==
    ASSUME NEW b \in DOMAIN disk, NEW i \in FileSlots, disk'[b] = disk[b], DOMAIN disk' = DOMAIN disk
    PROVE  /\ OnDisk(b, i)' <=> OnDisk(b, i)
           /\ OnDisk(b, i)' => Claim(b, i, disk'[b].files[i].nStartBlock)
BY DEF OnDisk, Claim

LEMMA CallClaim ==
    ASSUME NEW t \in Threads, NEW i \in FileSlots, pc'[t] = pc[t], call'[t] = call[t]
    PROVE  /\ InCall(t, i)' <=> InCall(t, i)
           /\ InCall(t, i)' => Claim(call'[t].dirBlock, i, call'[t].directory.files[i].nStartBlock)
           /\ (\A x : Used(x) => Used(x)') /\ CallUsed(t, i) => CallUsed(t, i)'
BY DEF InCall, InHand, Claim, CallUsed

LEMMA NewClaims ==
    ASSUME NEW b \in DOMAIN disk, NEW i \in FileSlots, NEW x, Claim(b, i, x)', DOMAIN disk' = DOMAIN disk,
           OnDisk(b, i)' => Claim(b, i, disk'[b].files[i].nStartBlock),
           \A t \in Threads : InCall(t, i)' =>
               Claim(call'[t].dirBlock, i, call'[t].directory.files[i].nStartBlock)
    PROVE  Claim(b, i, x)
<1>1. CASE OnDisk(b, i)' /\ disk'[b].files[i].nStartBlock = x
  BY <1>1
<1>2. CASE \E t \in Threads : /\ InCall(t, i)' /\ call'[t].dirBlock = b
                              /\ call'[t].directory.files[i].nStartBlock = x
  BY <1>2
<1> QED
  BY <1>1, <1>2 DEF Claim

-----------------------------------------------------------------------------
(* The steps that leave the disk alone, or write no file's block.          *)
LEMMA OwnerStays ==
    ASSUME DirInv, OwnerInv, trouble \subseteq trouble',
           DOMAIN disk' = DOMAIN disk, FileBlocks(disk') = FileBlocks(disk),
           Orderly' => /\ \A b \in FileBlocks(disk) : disk'[b] = disk[b]
                       /\ \A b \in DOMAIN disk : disk'[b].kind = "dir" => disk'[b] = disk[b]
                       /\ \A x : Pending(x) => Pending(x)',
           \A t \in Threads : pc'[t] = "idle" \/ (pc'[t] = pc[t] /\ call'[t] = call[t])
    PROVE  OwnerInv'
<1> SUFFICES ASSUME Orderly' PROVE Disjoint' /\ DiskUsed' /\ CallsUsed'
  BY DEF OwnerInv
<1>1. Orderly
  BY DEF Orderly
<1>2. Disjoint /\ DiskUsed /\ CallsUsed
  BY <1>1, Owners
<1>3. FreeFileBlocks(disk') = FreeFileBlocks(disk)
  BY FreeStays
<1>4. \A x : Used(x) => Used(x)'
  BY <1>3, UsedStays
<1>5. ASSUME NEW b \in DOMAIN disk, NEW i \in FileSlots, OnDisk(b, i)'
      PROVE  OnDisk(b, i) /\ disk'[b] = disk[b]
  <2>1. disk'[b] = disk[b]
    BY <1>5 DEF OnDisk
  <2> QED
    BY <1>5, <2>1, DiskClaim
<1>6. ASSUME NEW t \in Threads, NEW i \in FileSlots, InCall(t, i)'
      PROVE  InCall(t, i) /\ pc'[t] = pc[t] /\ call'[t] = call[t]
  <2>1. pc'[t] = pc[t] /\ call'[t] = call[t]
    BY <1>6 DEF InCall, InHand
  <2> QED
    BY <1>6, <2>1, CallClaim
<1>7. DiskUsed'
  BY <1>2, <1>4, <1>5 DEF DiskUsed
<1>8. CallsUsed'
  BY <1>2, <1>4, <1>6, CallClaim DEF CallsUsed
<1>9. ASSUME NEW b \in DOMAIN disk, NEW i \in FileSlots, NEW x \in FileBlocks(disk), Claim(b, i, x)'
      PROVE  Claim(b, i, x)
  <2>1. OnDisk(b, i)' => Claim(b, i, disk'[b].files[i].nStartBlock)
    BY <1>5, DiskClaim
  <2>2. \A t \in Threads : InCall(t, i)' =>
            Claim(call'[t].dirBlock, i, call'[t].directory.files[i].nStartBlock)
    BY <1>6, CallClaim
  <2> QED
    BY <1>9, <2>1, <2>2, NewClaims
<1>10. Disjoint'
  BY <1>2, <1>9, DisjointStays
<1> QED
  BY <1>7, <1>8, <1>10

(* write begins with what is on the disk. *)
LEMMA BeginsOwner ==
    ASSUME DirInv, OwnerInv, NEW t \in Threads, NEW k \in DirNames \X FileNames,
           NEW offset \in Offsets, NEW buf \in Payloads,
           WriteNew(t, k, offset, buf) \/ WriteOld(t, k, offset, buf)
    PROVE  OwnerInv'
<1> DEFINE b == DirBlockOf(k[1])
           dir == AsDir(disk[b])
<1>1. DiskInv /\ TypeOK
  BY DEF DirInv, DiskInv
<1>2. /\ WriteBegins(t, k, offset, buf) /\ trouble \subseteq trouble'
      /\ \E label \in {"find_block", "read_block"} : Goto(t, label)
  BY DEF WriteNew, WriteOld
<1>3. disk' = disk /\ DirReadable(k[1])
  BY <1>1, <1>2, BeginsType
<1>4. b \in DOMAIN disk /\ dir.kind = "dir"
  BY <1>1, <1>3, DirFound DEF DirReadable
<1>5. /\ \A u \in Threads : u # t => call'[u] = call[u]
      /\ call'[t].dirBlock = b /\ call'[t].directory.files = dir.files
  <2>1. CASE WriteNew(t, k, offset, buf)
    <3> DEFINE n == IF dir.nFiles > MAX_FILES_IN_DIR THEN 0 ELSE dir.nFiles
    <3>1. /\ \A u \in Threads : u # t => call'[u] = call[u]
          /\ call'[t].dirBlock = b /\ call'[t].directory = DirBlock(n + 1, dir.files, dir.padding)
      BY <1>1, <2>1, NewCall
    <3> QED
      BY <3>1 DEF DirBlock
  <2>2. CASE WriteOld(t, k, offset, buf)
    BY <1>1, <2>2, OldCall
  <2> QED
    BY <2>1, <2>2
<1>6. /\ pc[t] = "idle" /\ pc'[t] \in {"find_block", "read_block"}
      /\ \A u \in Threads : u # t => pc'[u] = pc[u]
  BY <1>1, <1>2, Goes DEF Labels, WriteBegins
<1> SUFFICES ASSUME Orderly' PROVE Disjoint' /\ DiskUsed' /\ CallsUsed'
  BY DEF OwnerInv
<1>7. Orderly /\ Disjoint /\ DiskUsed /\ CallsUsed
  BY <1>2, Owners DEF Orderly
<1>8. \A x : Pending(x) => Pending(x)'
  BY <1>5, <1>6 DEF Pending
<1>9. \A x : Used(x) => Used(x)'
  BY <1>3, <1>8 DEF Used
<1>10. ASSUME NEW i \in FileSlots, InCall(t, i)'
       PROVE  /\ OnDisk(b, i)
              /\ call'[t].directory.files[i].nStartBlock = disk[b].files[i].nStartBlock
  <2>1. dir.files[i].fname # NoName /\ call'[t].directory.files[i] = dir.files[i]
    BY <1>5, <1>10 DEF InCall
  <2>2. disk[b] # Zero
    BY <2>1 DEF AsDir, DirBlock, NoFile
  <2>3. dir = disk[b]
    BY <2>2 DEF AsDir
  <2> QED
    BY <2>1, <2>3, <1>4 DEF OnDisk
<1> HIDE DEF dir
<1>11. DiskUsed'
  BY <1>3, <1>7, <1>9 DEF DiskUsed, OnDisk
<1>12. CallsUsed'
  <2>1. ASSUME NEW u \in Threads, NEW i \in FileSlots, InCall(u, i)' PROVE CallUsed(u, i)'
    <3>1. CASE u = t
      <4>1. Used(call'[t].directory.files[i].nStartBlock)
        BY <2>1, <3>1, <1>4, <1>7, <1>10 DEF DiskUsed
      <4>2. Used(call[t].directory.files[i].nStartBlock)'
        BY <4>1, <1>3, <1>8 DEF Used, Pending
      <4> QED
        BY <3>1, <4>2 DEF CallUsed
    <3>2. CASE u # t
      BY <2>1, <3>2, <1>5, <1>6, <1>7, <1>9, CallClaim DEF CallsUsed
    <3> QED
      BY <3>1, <3>2
  <2> QED
    BY <2>1 DEF CallsUsed
<1>13. ASSUME NEW c \in DOMAIN disk, NEW i \in FileSlots, NEW x \in FileBlocks(disk), Claim(c, i, x)'
       PROVE  Claim(c, i, x)
  <2>1. OnDisk(c, i)' => Claim(c, i, disk'[c].files[i].nStartBlock)
    BY <1>3, DiskClaim
  <2>2. ASSUME NEW u \in Threads, InCall(u, i)'
        PROVE  Claim(call'[u].dirBlock, i, call'[u].directory.files[i].nStartBlock)
    <3>1. CASE u = t
      BY <2>2, <3>1, <1>4, <1>5, <1>10 DEF Claim
    <3>2. CASE u # t
      BY <2>2, <3>2, <1>5, <1>6, CallClaim
    <3> QED
      BY <3>1, <3>2
  <2> QED
    BY <1>3, <1>13, <2>1, <2>2, NewClaims
<1>14. Disjoint'
  BY <1>3, <1>7, <1>13, DisjointStays
<1> QED
  BY <1>11, <1>12, <1>14

(* A block that looks free belongs to nobody, when no other call has one   *)
(* in its hands.                                                           *)
LEMMA FindOwner ==
    ASSUME DirInv, OwnerInv, NEW t \in Threads, FindBlock(t) PROVE OwnerInv'
<1> DEFINE block == find_next_free_file_block(disk)
           entry == [fname |-> call[t].key[2], fsize |-> 0, nStartBlock |-> block]
           slot == call[t].slot
<1>1. DiskInv /\ TypeOK
  BY DEF DirInv, DiskInv
<1>2. /\ Goto(t, "read_block") /\ pc[t] = "find_block" /\ disk' = disk
      /\ trouble \subseteq trouble' /\ (block = -1 => "full" \in trouble')
      /\ (\E u \in Threads : HasFreeBlock(u)) => "race" \in trouble'
  BY DEF FindBlock, Flag
<1>3. /\ \A u \in Threads : u # t => call'[u] = call[u]
      /\ call'[t].dirBlock = call[t].dirBlock /\ call'[t].new = call[t].new
      /\ call'[t].slot = slot /\ call'[t].block = block
      /\ \A i \in FileSlots : call'[t].directory.files[i] =
            IF i = slot THEN entry ELSE call[t].directory.files[i]
  BY <1>1, FoundBlock
<1>4. /\ pc'[t] = "read_block" /\ \A u \in Threads : u # t => pc'[u] = pc[u]
  BY <1>1, <1>2, Goes DEF Labels
<1>5. call[t].new
  BY <1>1, <1>2 DEF DiskInv, CallsInv, CallFits
<1> SUFFICES ASSUME Orderly' PROVE Disjoint' /\ DiskUsed' /\ CallsUsed'
  BY DEF OwnerInv
<1>6. Orderly /\ block # -1 /\ \A u \in Threads : ~HasFreeBlock(u)
  BY <1>2 DEF Orderly
<1>7. /\ Disjoint /\ DiskUsed /\ CallsUsed
      /\ \A b \in DOMAIN disk, i \in FileSlots :
            OnDisk(b, i) => disk[b].files[i].nStartBlock \in FileBlocks(disk)
      /\ \A u \in Threads, i \in FileSlots :
            InCall(u, i) => call[u].directory.files[i].nStartBlock \in FileBlocks(disk)
  BY <1>6, Owners
<1>8. block \in FreeFileBlocks(disk)
  BY <1>1, <1>6, FreeBlock
<1>9. \A x : ~Pending(x)
  BY <1>6 DEF Pending, HasFreeBlock
<1>10. \A u \in Threads, i \in FileSlots :
         InCall(u, i) => call[u].directory.files[i].nStartBlock \notin FreeFileBlocks(disk)
  BY <1>6, <1>7, <1>9 DEF CallsUsed, CallUsed, Used, InCall, InHand, HasFreeBlock
<1>11. \A b \in DOMAIN disk, i \in FileSlots :
         OnDisk(b, i) => disk[b].files[i].nStartBlock \notin FreeFileBlocks(disk)
  BY <1>7, <1>9 DEF DiskUsed, Used
<1>12. \A b \in DOMAIN disk, i \in FileSlots : ~Claim(b, i, block)
  BY <1>8, <1>10, <1>11 DEF Claim
<1> HIDE DEF block
<1>13. InHand(t) /\ InHand(t)'
  BY <1>2, <1>4 DEF InHand
<1>14. DiskUsed'
  BY <1>2, <1>11 DEF DiskUsed, OnDisk, Used
<1>15. CallsUsed'
  <2>1. ASSUME NEW u \in Threads, NEW i \in FileSlots, InCall(u, i)' PROVE CallUsed(u, i)'
    <3>1. CASE u = t /\ i = slot
      BY <3>1, <1>3, <1>4, <1>5 DEF CallUsed
    <3>2. CASE u = t /\ i # slot
      <4>1. call'[t].directory.files[i] = call[t].directory.files[i]
        BY <3>2, <1>3
      <4>2. InCall(t, i)
        BY <2>1, <3>2, <4>1, <1>13 DEF InCall
      <4>3. call'[t].directory.files[i].nStartBlock \notin FreeFileBlocks(disk')
        BY <4>1, <4>2, <1>2, <1>10
      <4> QED
        BY <3>2, <4>3 DEF CallUsed, Used
    <3>3. CASE u # t
      <4>1. InCall(u, i) /\ call'[u] = call[u]
        BY <2>1, <3>3, <1>3, <1>4, CallClaim
      <4>2. call'[u].directory.files[i].nStartBlock \notin FreeFileBlocks(disk')
        BY <4>1, <1>2, <1>10
      <4> QED
        BY <4>2 DEF CallUsed, Used
    <3> QED
      BY <3>1, <3>2, <3>3
  <2> QED
    BY <2>1 DEF CallsUsed
<1>16. ASSUME NEW b \in DOMAIN disk, NEW i \in FileSlots, NEW x \in FileBlocks(disk), Claim(b, i, x)'
       PROVE  Claim(b, i, x) \/ (b = call[t].dirBlock /\ i = slot /\ x = block)
  <2>1. CASE OnDisk(b, i)' /\ disk'[b].files[i].nStartBlock = x
    BY <2>1, <1>2 DEF Claim, OnDisk
  <2>2. ASSUME NEW u \in Threads, InCall(u, i)', call'[u].dirBlock = b,
               call'[u].directory.files[i].nStartBlock = x
        PROVE  Claim(b, i, x) \/ (b = call[t].dirBlock /\ i = slot /\ x = block)
    <3>1. CASE u = t /\ i = slot
      BY <2>2, <3>1, <1>3
    <3>2. CASE u = t /\ i # slot
      <4>1. call'[t].directory.files[i] = call[t].directory.files[i]
        BY <3>2, <1>3
      <4>2. InCall(t, i)
        BY <2>2, <3>2, <4>1, <1>13 DEF InCall
      <4> QED
        BY <2>2, <3>2, <4>1, <4>2, <1>3 DEF Claim
    <3>3. CASE u # t
      BY <2>2, <3>3, <1>3, <1>4, CallClaim
    <3> QED
      BY <3>1, <3>2, <3>3
  <2> QED
    BY <1>16, <2>1, <2>2 DEF Claim
<1>17. Disjoint'
  <2>1. ASSUME NEW b \in DOMAIN disk, NEW c \in DOMAIN disk, NEW i \in FileSlots, NEW j \in FileSlots,
               NEW x \in FileBlocks(disk), Claim(b, i, x)', Claim(c, j, x)'
        PROVE  b = c /\ i = j
    <3>1. Claim(b, i, x) \/ (b = call[t].dirBlock /\ i = slot /\ x = block)
      BY <2>1, <1>16
    <3>2. Claim(c, j, x) \/ (c = call[t].dirBlock /\ j = slot /\ x = block)
      BY <2>1, <1>16
    <3>3. CASE x = block
      BY <3>1, <3>2, <3>3, <1>12
    <3>4. CASE x # block
      <4>1. Claim(b, i, x) /\ Claim(c, j, x)
        BY <3>1, <3>2, <3>4
      <4> QED
        BY <4>1, <1>7 DEF Disjoint
    <3> QED
      BY <3>3, <3>4
  <2>2. DOMAIN disk' = DOMAIN disk /\ FileBlocks(disk') = FileBlocks(disk)
    BY <1>2
  <2> QED
    BY <2>1, <2>2 DEF Disjoint
<1> QED
  BY <1>14, <1>15, <1>17

LEMMA ReadOwner ==
    ASSUME DirInv, OwnerInv, NEW t \in Threads, ReadBlock(t) PROVE OwnerInv'
<1>1. DiskInv /\ TypeOK
  BY DEF DirInv, DiskInv
<1>2. /\ Goto(t, "write_dir") /\ pc[t] = "read_block" /\ disk' = disk
      /\ trouble \subseteq trouble'
  BY DEF ReadBlock
<1>3. /\ \A u \in Threads : u # t => call'[u] = call[u]
      /\ call'[t].dirBlock = call[t].dirBlock /\ call'[t].new = call[t].new
      /\ call'[t].slot = call[t].slot /\ call'[t].block = call[t].block
  BY <1>1, BlockRead
<1>4. \A i \in FileSlots :
        /\ call'[t].directory.files[i].fname = call[t].directory.files[i].fname
        /\ call'[t].directory.files[i].nStartBlock = call[t].directory.files[i].nStartBlock
  BY <1>1, BlockRead
<1>5. /\ pc'[t] = "write_dir" /\ \A u \in Threads : u # t => pc'[u] = pc[u]
  BY <1>1, <1>2, Goes DEF Labels
<1> SUFFICES ASSUME Orderly' PROVE Disjoint' /\ DiskUsed' /\ CallsUsed'
  BY DEF OwnerInv
<1>6. Orderly /\ Disjoint /\ DiskUsed /\ CallsUsed
  BY <1>2, Owners DEF Orderly
<1>7. \A x : Used(x) => Used(x)'
  BY <1>2, <1>3, <1>5 DEF Used, Pending
<1>8. \A i \in FileSlots : InCall(t, i)' => InCall(t, i)
  BY <1>2, <1>4 DEF InCall, InHand
<1>9. DiskUsed'
  BY <1>2, <1>6, <1>7 DEF DiskUsed, OnDisk
<1>10. CallsUsed'
  <2>1. ASSUME NEW u \in Threads, NEW i \in FileSlots, InCall(u, i)' PROVE CallUsed(u, i)'
    <3>1. CASE u = t
      <4>1. CallUsed(t, i)
        BY <2>1, <3>1, <1>6, <1>8 DEF CallsUsed
      <4> QED
        BY <3>1, <4>1, <1>2, <1>3, <1>4, <1>5, <1>7 DEF CallUsed
    <3>2. CASE u # t
      BY <2>1, <3>2, <1>3, <1>5, <1>6, <1>7, CallClaim DEF CallsUsed
    <3> QED
      BY <3>1, <3>2
  <2> QED
    BY <2>1 DEF CallsUsed
<1>11. ASSUME NEW b \in DOMAIN disk, NEW i \in FileSlots, NEW x \in FileBlocks(disk), Claim(b, i, x)'
       PROVE  Claim(b, i, x)
  <2>1. OnDisk(b, i)' => Claim(b, i, disk'[b].files[i].nStartBlock)
    BY <1>2, DiskClaim
  <2>2. ASSUME NEW u \in Threads, InCall(u, i)'
        PROVE  Claim(call'[u].dirBlock, i, call'[u].directory.files[i].nStartBlock)
    <3>1. CASE u = t
      BY <2>2, <3>1, <1>3, <1>4, <1>8 DEF Claim
    <3>2. CASE u # t
      BY <2>2, <3>2, <1>3, <1>5, CallClaim
    <3> QED
      BY <3>1, <3>2
  <2> QED
    BY <1>2, <1>11, <2>1, <2>2, NewClaims
<1>12. Disjoint'
  BY <1>2, <1>6, <1>11, DisjointStays
<1> QED
  BY <1>9, <1>10, <1>12

LEMMA WriteDirOwner ==
    ASSUME DirInv, OwnerInv, NEW t \in Threads, WriteDir(t) PROVE OwnerInv'
<1> DEFINE b == call[t].dirBlock
           dir == call[t].directory
<1>1. DiskInv /\ TypeOK /\ SectionInv
  BY DEF DirInv, DiskInv
<1>2. /\ b \in DOMAIN disk /\ b \in 1..MAX_DIRS_IN_ROOT
      /\ DOMAIN disk' = DOMAIN disk /\ FileBlocks(disk') = FileBlocks(disk)
      /\ disk'[b] = dir
      /\ \A c \in DOMAIN disk : c # b => disk'[c] = disk[c]
      /\ pc[t] = "write_dir" /\ pc'[t] = "write_data"
      /\ \A u \in Threads : u # t => pc'[u] = pc[u]
      /\ UNCHANGED <<call, trouble>>
  BY <1>1, WrittenDir
<1> SUFFICES ASSUME Orderly' PROVE Disjoint' /\ DiskUsed' /\ CallsUsed'
  BY DEF OwnerInv
<1>3. Orderly /\ Disjoint /\ DiskUsed /\ CallsUsed
  BY <1>2, Owners DEF Orderly
<1>4. FreeFileBlocks(disk') = FreeFileBlocks(disk)
  <2>1. b <= MAX_FILES_IN_DIR
    BY <1>1, <1>2, <1>3 DEF SectionInv, Orderly
  <2>2. b \notin FileBlocks(disk)
    BY <1>1, <1>2, <2>1, DiskFacts, DiskAssumption
  <2>3. \A c \in FileBlocks(disk) : disk'[c] = disk[c]
    BY <1>1, <1>2, <2>2, DiskFacts
  <2> QED
    BY <1>2, <2>3, FreeStays
<1>5. \A x : Pending(x) => Pending(x)'
  BY <1>2 DEF Pending
<1>6. \A x : Used(x) => Used(x)'
  BY <1>4, <1>5 DEF Used
<1>7. ASSUME NEW c \in DOMAIN disk, NEW i \in FileSlots, c = b, OnDisk(c, i)'
      PROVE  /\ InCall(t, i)
             /\ disk'[c].files[i].nStartBlock = call[t].directory.files[i].nStartBlock
             /\ Used(disk[c].files[i].nStartBlock)'
  <2>1. disk'[c] = dir /\ call'[t] = call[t]
    BY <1>2, <1>7
  <2>2. InCall(t, i)
    BY <1>2, <1>7, <2>1 DEF OnDisk, InCall, InHand
  <2>3. CallUsed(t, i)
    BY <2>2, <1>3 DEF CallsUsed
  <2>4. PICK y : y = dir.files[i].nStartBlock
    OBVIOUS
  <2>5. CASE Used(y)
    <3>1. Used(y)'
      BY <2>5, <1>6
    <3> QED
      BY <2>1, <2>2, <2>4, <3>1
  <2>6. CASE call[t].new /\ y = call[t].block
    <3>1. Pending(y)'
      BY <2>6, <2>1, <1>2 DEF Pending
    <3>2. Used(y)'
      BY <3>1 DEF Used
    <3> QED
      BY <2>1, <2>2, <2>4, <3>2
  <2> QED
    BY <2>3, <2>4, <2>5, <2>6 DEF CallUsed
<1>8. DiskUsed'
  <2>1. ASSUME NEW c \in DOMAIN disk, NEW i \in FileSlots, OnDisk(c, i)'
        PROVE  Used(disk[c].files[i].nStartBlock)'
    <3>1. CASE c = b
      BY <2>1, <3>1, <1>7
    <3>2. CASE c # b
      <4>1. disk'[c] = disk[c]
        BY <3>2, <1>2
      <4>2. OnDisk(c, i)
        BY <2>1, <4>1, <1>2, DiskClaim
      <4>3. Used(disk[c].files[i].nStartBlock)
        BY <4>2, <1>3 DEF DiskUsed
      <4> QED
        BY <4>1, <4>3, <1>6
    <3> QED
      BY <3>1, <3>2
  <2> QED
    BY <2>1, <1>2 DEF DiskUsed
<1>9. CallsUsed'
  <2>1. ASSUME NEW u \in Threads, NEW i \in FileSlots, InCall(u, i)' PROVE CallUsed(u, i)'
    <3>1. u # t /\ pc'[u] = pc[u] /\ call'[u] = call[u]
      BY <2>1, <1>2 DEF InCall, InHand
    <3> QED
      BY <2>1, <3>1, <1>3, <1>6, CallClaim DEF CallsUsed
  <2> QED
    BY <2>1 DEF CallsUsed
<1>10. ASSUME NEW c \in DOMAIN disk, NEW i \in FileSlots, NEW x \in FileBlocks(disk), Claim(c, i, x)'
       PROVE  Claim(c, i, x)
  <2>1. OnDisk(c, i)' => Claim(c, i, disk'[c].files[i].nStartBlock)
    <3>1. CASE c = b
      <4>1. ASSUME OnDisk(c, i)' PROVE InCall(t, i) /\ call[t].dirBlock = c
                  /\ disk'[c].files[i].nStartBlock = call[t].directory.files[i].nStartBlock
        BY <3>1, <4>1, <1>7
      <4> QED
        BY <4>1 DEF Claim
    <3>2. CASE c # b
      BY <3>2, <1>2, DiskClaim
    <3> QED
      BY <3>1, <3>2
  <2>2. ASSUME NEW u \in Threads, InCall(u, i)'
        PROVE  Claim(call'[u].dirBlock, i, call'[u].directory.files[i].nStartBlock)
    <3>1. u # t /\ pc'[u] = pc[u] /\ call'[u] = call[u]
      BY <2>2, <1>2 DEF InCall, InHand
    <3> QED
      BY <2>2, <3>1, CallClaim
  <2> QED
    BY <1>2, <1>10, <2>1, <2>2, NewClaims
<1>11. Disjoint'
  BY <1>2, <1>3, <1>10, DisjointStays
<1> QED
  BY <1>8, <1>9, <1>11

LEMMA WriteDataOwner ==
    ASSUME DirInv, OwnerInv, NEW t \in Threads, WriteData(t) PROVE OwnerInv'
<1> DEFINE b == Seek(call[t].block)
           data == call[t].data
<1>1. DiskInv /\ TypeOK /\ SectionInv
  BY DEF DirInv, DiskInv
<1>2. /\ b \in DOMAIN disk
      /\ \/ b = 0 /\ "full" \in trouble
         \/ b = call[t].block /\ b \in FileBlocks(disk)
      /\ DOMAIN disk' = DOMAIN disk /\ FileBlocks(disk') = FileBlocks(disk)
      /\ disk'[b] = data /\ data.kind \in {"data", "junk"}
      /\ \A c \in DOMAIN disk : c # b => disk'[c] = disk[c]
      /\ CallFits(t) /\ pc[t] = "write_data" /\ pc'[t] = "idle"
      /\ \A u \in Threads : u # t => pc'[u] = pc[u] /\ call'[u] = call[u]
      /\ trouble' = trouble
  BY <1>1, WrittenBlock
<1> HIDE DEF b
<1> SUFFICES ASSUME Orderly' PROVE Disjoint' /\ DiskUsed' /\ CallsUsed'
  BY DEF OwnerInv
<1>3. Orderly /\ Disjoint /\ DiskUsed /\ CallsUsed
  BY <1>2, Owners DEF Orderly
<1>4. b = call[t].block /\ b \in FileBlocks(disk)
  BY <1>2, <1>3 DEF Orderly
<1>5. b \notin FreeFileBlocks(disk')
  <2>1. data.kind = "data" => data.data[0] # NUL
    BY <1>2, <1>3 DEF CallFits, Orderly
  <2>2. disk'[b] # Zero
    BY <1>2 DEF Zero
  <2>3. AsData(disk'[b]) = data
    BY <1>2, <2>2 DEF AsData
  <2> QED
    BY <1>2, <2>1, <2>3 DEF FreeFileBlocks
<1>6. FreeFileBlocks(disk') \subseteq FreeFileBlocks(disk)
  <2>1. ASSUME NEW c \in FreeFileBlocks(disk') PROVE c \in FreeFileBlocks(disk)
    <3>1. c \in FileBlocks(disk) /\ c # b /\ disk'[c] = disk[c]
      BY <1>1, <1>2, <1>5, <2>1, DiskFacts DEF FreeFileBlocks
    <3> QED
      BY <2>1, <3>1 DEF FreeFileBlocks
  <2> QED
    BY <2>1
<1>7. ASSUME NEW x, Pending(x) PROVE x \notin FreeFileBlocks(disk') \/ Pending(x)'
  <2>1. PICK u \in Threads : pc[u] = "write_data" /\ call[u].new /\ call[u].block = x
    BY <1>7 DEF Pending
  <2>2. CASE u = t
    BY <2>1, <2>2, <1>4, <1>5
  <2>3. CASE u # t
    BY <2>1, <2>3, <1>2 DEF Pending
  <2> QED
    BY <2>2, <2>3
<1>8. \A x : Used(x) => Used(x)'
  BY <1>6, <1>7, UsedStays
<1>9. ASSUME NEW c \in DOMAIN disk, NEW i \in FileSlots, OnDisk(c, i)'
      PROVE  OnDisk(c, i) /\ disk'[c] = disk[c]
  <2>1. c # b /\ disk'[c] = disk[c]
    BY <1>2, <1>9 DEF OnDisk
  <2> QED
    BY <1>2, <1>9, <2>1, DiskClaim
<1>10. ASSUME NEW u \in Threads, NEW i \in FileSlots, InCall(u, i)'
       PROVE  InCall(u, i) /\ pc'[u] = pc[u] /\ call'[u] = call[u]
  <2>1. u # t
    BY <1>2, <1>10 DEF InCall, InHand
  <2> QED
    BY <2>1, <1>2, <1>10, CallClaim
<1>11. DiskUsed'
  BY <1>2, <1>3, <1>8, <1>9 DEF DiskUsed
<1>12. CallsUsed'
  BY <1>3, <1>8, <1>10, CallClaim DEF CallsUsed
<1>13. ASSUME NEW c \in DOMAIN disk, NEW i \in FileSlots, NEW x \in FileBlocks(disk), Claim(c, i, x)'
       PROVE  Claim(c, i, x)
  <2>1. OnDisk(c, i)' => Claim(c, i, disk'[c].files[i].nStartBlock)
    BY <1>2, <1>9, DiskClaim
  <2>2. \A u \in Threads : InCall(u, i)' =>
            Claim(call'[u].dirBlock, i, call'[u].directory.files[i].nStartBlock)
    BY <1>10, CallClaim
  <2> QED
    BY <1>2, <1>13, <2>1, <2>2, NewClaims
<1>14. Disjoint'
  BY <1>2, <1>3, <1>13, DisjointStays
<1> QED
  BY <1>11, <1>12, <1>14

LEMMA OwnerStep == DirInv /\ OwnerInv /\ [Next]_vars => OwnerInv'
<1> SUFFICES ASSUME DirInv, OwnerInv, [Next]_vars PROVE OwnerInv'
  OBVIOUS
<1>1. DiskInv /\ TypeOK /\ SectionInv
  BY DEF DirInv, DiskInv
<1>2. ASSUME NEW d \in DirNames, Mkdir(d) PROVE OwnerInv'
  <2>1. /\ DOMAIN disk' = DOMAIN disk /\ FileBlocks(disk') = FileBlocks(disk)
        /\ disk'[0].kind = "root"
        /\ \A b \in DOMAIN disk : b # 0 => disk'[b] = disk[b]
        /\ trouble \subseteq trouble'
    BY <1>1, <1>2, NewDirectory
  <2>2. UNCHANGED <<pc, call>>
    BY <1>2 DEF Mkdir
  <2>3. \A b \in FileBlocks(disk) : disk'[b] = disk[b]
    BY <1>1, <2>1, DiskFacts, DiskAssumption
  <2>4. \A x : Pending(x) => Pending(x)'
    BY <2>2 DEF Pending
  <2> QED
    BY <2>1, <2>2, <2>3, <2>4, OwnerStays
<1>3. ASSUME NEW d \in DirNames, Mknod(d) PROVE OwnerInv'
  <2> DEFINE b == DirBlockOf(d)
  <2>1. /\ disk' = [disk EXCEPT ![b] = Junk] /\ UNCHANGED <<pc, call>>
        /\ trouble \subseteq trouble' /\ DirReadable(d)
    BY <1>3 DEF Mknod
  <2>2. b \in DOMAIN disk
    BY <1>1, <2>1, DirFound
  <2>3. Junk \in Block /\ Junk.kind # "dir"
    BY DEF Block, Junk
  <2>4. /\ DOMAIN disk' = DOMAIN disk /\ disk'[b] = Junk
        /\ FileBlocks(disk') = FileBlocks(disk)
        /\ \A c \in DOMAIN disk : c # b => disk'[c] = disk[c]
    BY <1>1, <2>1, <2>2, <2>3, DiskUpdate
  <2>5. \A c \in DOMAIN disk : disk'[c].kind = "dir" => disk'[c] = disk[c]
    BY <2>3, <2>4
  <2>6. ASSUME Orderly' PROVE \A c \in FileBlocks(disk) : disk'[c] = disk[c]
    <3>1. b \in 1..MAX_FILES_IN_DIR
      BY <2>1, <2>6, DirInSection DEF Orderly
    <3>2. b \notin FileBlocks(disk)
      BY <1>1, <3>1, DiskFacts, DiskAssumption
    <3> QED
      BY <1>1, <2>4, <3>2, DiskFacts
  <2>7. \A x : Pending(x) => Pending(x)'
    BY <2>1 DEF Pending
  <2> HIDE DEF b
  <2> QED
    BY <2>1, <2>4, <2>5, <2>6, <2>7, OwnerStays
<1>4. CASE Ends
  <2>1. /\ UNCHANGED disk /\ trouble \subseteq trouble'
        /\ \A t \in Threads : pc'[t] = "idle" \/ (pc'[t] = pc[t] /\ call'[t] = call[t])
        /\ \A t \in Threads : pc[t] = "write_data" /\ pc'[t] = "idle" => "stop" \in trouble'
    BY <1>1, <1>4, Ended
  <2>2. Orderly' => \A x : Pending(x) => Pending(x)'
    BY <2>1 DEF Orderly, Pending
  <2>3. /\ DOMAIN disk' = DOMAIN disk /\ FileBlocks(disk') = FileBlocks(disk)
    BY <2>1
  <2>4. Orderly' => /\ \A b \in FileBlocks(disk) : disk'[b] = disk[b]
                    /\ \A b \in DOMAIN disk : disk'[b].kind = "dir" => disk'[b] = disk[b]
                    /\ \A x : Pending(x) => Pending(x)'
    BY <2>1, <2>2
  <2> QED
    BY <2>1, <2>3, <2>4, OwnerStays
<1>5. CASE UNCHANGED vars
  <2>1. UNCHANGED <<disk, pc, call, trouble>>
    BY <1>5 DEF vars
  <2>2. \A x : Pending(x) => Pending(x)'
    BY <2>1 DEF Pending
  <2> QED
    BY <2>1, <2>2, OwnerStays
<1> QED
  BY <1>2, <1>3, <1>4, <1>5, Steps, BeginsOwner, FindOwner, ReadOwner, WriteDirOwner, WriteDataOwner

LEMMA InitOwner == Init => OwnerInv
<1> SUFFICES ASSUME Init PROVE OwnerInv
  OBVIOUS
<1>1. \A t \in Threads : pc[t] = "idle"
  BY DEF Init
<1>2. \A b \in DOMAIN disk : disk[b] = Zero
  BY DEF Init
<1>3. \A b \in DOMAIN disk, i \in FileSlots : ~OnDisk(b, i)
  BY <1>2 DEF OnDisk, Zero
<1>4. \A t \in Threads, i \in FileSlots : ~InCall(t, i)
  BY <1>1 DEF InCall, InHand
<1> QED
  BY <1>3, <1>4 DEF OwnerInv, Disjoint, DiskUsed, CallsUsed, Claim

(* The slot in which read finds a file, if no directory has outgrown its block. *)
LEMMA FileFound ==
    ASSUME DiskInv, PackedInv, "slots" \notin trouble, NEW k \in Files
    PROVE  LET b == DirBlockOf(k[1])
               i == First(ReadFinds(AsDir(disk[b]), k[2]))
           IN  /\ k[1] \in Directories /\ k[2] \in FileNames /\ k = <<k[1], k[2]>>
               /\ b \in DOMAIN disk /\ i \in FileSlots /\ OnDisk(b, i)
               /\ AsDir(disk[b]) = disk[b] /\ i < disk[b].nFiles
               /\ disk[b].files[i] = EntryOf(k) /\ EntryOf(k).fname = k[2]
<1> DEFINE b == DirBlockOf(k[1])
           dir == AsDir(disk[b])
           i == First(ReadFinds(dir, k[2]))
<1>1. k \in Directories \X FileNames /\ DirReadable(k[1]) /\ ReadFinds(dir, k[2]) # {}
  BY DEF Files
<1>2. b \in DOMAIN disk /\ dir.nFiles \in Nat /\ Packed(dir.files, dir.nFiles)
  <2>1. b \in DOMAIN disk /\ dir.nFiles \in Nat
    BY <1>1, DirFound, DiskAssumption DEF Directory
  <2> QED
    BY <1>1, <2>1, PackedDir DEF DirReadable
<1>3. ReadFinds(dir, k[2]) \subseteq Nat
  BY DiskAssumption DEF ReadFinds
<1>4. i \in ReadFinds(dir, k[2])
  BY <1>1, <1>3, FirstIsFirst
<1>5. i \in FileSlots /\ i < dir.nFiles /\ dir.files[i].fname = k[2]
  <2> HIDE DEF dir, i
  <2>1. ReadFinds(dir, k[2]) = {j \in FileSlots : j < dir.nFiles /\ dir.files[j].fname = k[2]}
    BY <1>2, PackedFinds
  <2> QED
    BY <1>4, <2>1
<1>6. k[2] # NoName
  BY <1>1, DiskAssumption
<1>7. disk[b] # Zero
  <2>1. disk[b] = Zero => dir.files[i].fname = NoName
    BY <1>5 DEF AsDir, DirBlock, NoFile
  <2> QED
    BY <2>1, <1>5, <1>6
<1>8. dir = disk[b] /\ disk[b].kind = "dir"
  BY <1>1, <1>7 DEF AsDir, DirReadable
<1>9. EntryOf(k) = dir.files[i]
  BY DEF EntryOf
<1> HIDE DEF dir, i
<1>10. OnDisk(b, i)
  BY <1>5, <1>6, <1>8 DEF OnDisk
<1>11. k[1] \in Directories /\ k[2] \in FileNames /\ k = <<k[1], k[2]>>
  BY <1>1
<1> QED
  BY <1>2, <1>5, <1>8, <1>9, <1>10, <1>11 DEF dir, i

LEMMA SameDirectory ==
    ASSUME DiskInv, NEW d \in Directories, NEW e \in Directories, DirBlockOf(d) = DirBlockOf(e)
    PROVE  d = e
<1>1. PICK i \in DirSlots : root.directories[i].dname = d /\ DirBlockOf(d) = i + 1
  BY DirectoryFound
<1>2. PICK j \in DirSlots : root.directories[j].dname = e /\ DirBlockOf(e) = j + 1
  BY DirectoryFound
<1>3. i \in Nat /\ j \in Nat
  BY DiskAssumption DEF DirSlots
<1>4. i + 1 = j + 1
  BY <1>1, <1>2
<1>5. i = j
  BY <1>3, <1>4
<1> QED
  BY <1>1, <1>2, <1>5

LEMMA OwnerFollows == ASSUME DirInv, OwnerInv PROVE OneOwner
<1> SUFFICES ASSUME Orderly
             PROVE  /\ \A k \in Files : EntryOf(k).nStartBlock \in FileBlocks(disk)
                    /\ \A k \in Files, d \in Directories : EntryOf(k).nStartBlock # DirBlockOf(d)
                    /\ \A k, l \in Files : EntryOf(k).nStartBlock = EntryOf(l).nStartBlock => k = l
  BY Zenon DEF OneOwner, Orderly
<1>1. DiskInv /\ SectionInv /\ TypeOK /\ PackedInv /\ "slots" \notin trouble
  BY DEF DirInv, DiskInv, Orderly
<1>2. /\ Disjoint
      /\ \A b \in DOMAIN disk, i \in FileSlots :
            OnDisk(b, i) => disk[b].files[i].nStartBlock \in FileBlocks(disk)
  BY Owners
<1>3. ASSUME NEW k \in Files PROVE EntryOf(k).nStartBlock \in FileBlocks(disk)
  BY <1>1, <1>2, FileFound
<1>4. ASSUME NEW k \in Files, NEW d \in Directories PROVE EntryOf(k).nStartBlock # DirBlockOf(d)
  <2>1. PICK i \in DirSlots : i < root.nDirectories /\ DirBlockOf(d) = i + 1
    BY <1>1, DirectoryFound
  <2>2. RootReadable /\ root \in Root
    BY <1>1, DirectoryFound, DiskFacts, BlockKinds DEF root, RootReadable
  <2>3. root.nDirectories \in Nat /\ i \in Nat
    BY <2>2, DiskAssumption DEF Root, DirSlots
  <2>4. root.nDirectories <= MAX_FILES_IN_DIR
    BY <1>1, <2>2 DEF SectionInv, Orderly
  <2>5. DirBlockOf(d) <= MAX_FILES_IN_DIR
    BY <2>1, <2>3, <2>4, DiskAssumption
  <2> QED
    BY <1>1, <1>3, <2>1, <2>3, <2>5, DiskFacts, DiskAssumption
<1>5. ASSUME NEW k \in Files, NEW l \in Files, EntryOf(k).nStartBlock = EntryOf(l).nStartBlock
      PROVE  k = l
  <2> DEFINE b(m) == DirBlockOf(m[1])
             i(m) == First(ReadFinds(AsDir(disk[b(m)]), m[2]))
  <2>1. /\ k[1] \in Directories /\ k = <<k[1], k[2]>>
        /\ b(k) \in DOMAIN disk /\ i(k) \in FileSlots /\ OnDisk(b(k), i(k))
        /\ disk[b(k)].files[i(k)] = EntryOf(k) /\ EntryOf(k).fname = k[2]
    BY <1>1, FileFound
  <2>2. /\ l[1] \in Directories /\ l = <<l[1], l[2]>>
        /\ b(l) \in DOMAIN disk /\ i(l) \in FileSlots /\ OnDisk(b(l), i(l))
        /\ disk[b(l)].files[i(l)] = EntryOf(l) /\ EntryOf(l).fname = l[2]
    BY <1>1, FileFound
  <2> HIDE DEF b, i
  <2>3. Claim(b(k), i(k), EntryOf(k).nStartBlock) /\ Claim(b(l), i(l), EntryOf(k).nStartBlock)
    BY <2>1, <2>2, <1>5 DEF Claim
  <2>4. b(k) = b(l) /\ i(k) = i(l)
    BY <2>1, <2>2, <2>3, <1>2, <1>3 DEF Disjoint
  <2>5. k[1] = l[1]
    BY <1>1, <2>1, <2>2, <2>4, SameDirectory DEF b
  <2>6. k[2] = l[2]
    BY <2>1, <2>2, <2>4
  <2> QED
    BY <2>1, <2>2, <2>5, <2>6
<1> QED
  BY <1>3, <1>4, <1>5

(* No block ever belongs to two files, or to a file and a directory, as    *)
(* long as no call finds a free block while another has one, none is       *)
(* stopped before it writes its data, no file begins with a 0, and the     *)
(* disk is large enough for its files and directories.                     *)
THEOREM FileSystemOwners == Spec => []OneOwner
<1>1. Init => DirInv /\ OwnerInv
  BY InitDir, InitOwner
<1>2. DirInv /\ OwnerInv /\ [Next]_vars => (DirInv /\ OwnerInv)'
  BY StepDir, OwnerStep
<1>3. DirInv /\ OwnerInv => OneOwner
  BY OwnerFollows
<1> QED
  BY <1>1, <1>2, <1>3, PTL DEF Spec

-----------------------------------------------------------------------------
(* What a call will write into a directory, as long as no two calls raced  *)
(* for it: the files that the directory on the disk has, and one more.     *)

KeepsNames(t) ==
    \A i \in FileSlots : i < AsDir(disk[call[t].dirBlock]).nFiles =>
        /\ i < call[t].directory.nFiles
        /\ call[t].directory.files[i].fname = AsDir(disk[call[t].dirBlock]).files[i].fname

OneHand == \A t, u \in Threads :
               InHand(t) /\ InHand(u) /\ call[t].dirBlock = call[u].dirBlock => t = u

RaceInv ==
    "race" \notin trouble =>
        /\ OneHand
        /\ trouble \intersect {"slots", "mknod", "dirs"} = {} =>
               \A t \in Threads : InHand(t) => KeepsNames(t)

(* A thread that comes to a directory finds it in no other hands.          *)
LEMMA BeginsRace ==
    ASSUME RaceInv, NEW t \in Threads, UNCHANGED disk, trouble \subseteq trouble',
           \A u \in Threads : u # t => pc'[u] = pc[u] /\ call'[u] = call[u],
           InHand(t)',
           (\E u \in Threads : HasDirectory(u, call'[t].dirBlock)) => "race" \in trouble',
           trouble' \intersect {"slots", "mknod", "dirs"} = {} => KeepsNames(t)'
    PROVE  RaceInv'
<1> SUFFICES ASSUME "race" \notin trouble'
             PROVE  /\ OneHand'
                    /\ trouble' \intersect {"slots", "mknod", "dirs"} = {} =>
                          \A u \in Threads : InHand(u)' => KeepsNames(u)'
  BY DEF RaceInv
<1>1. OneHand /\ "race" \notin trouble
  BY DEF RaceInv
<1>2. \A u \in Threads : u # t => (InHand(u)' <=> InHand(u)) /\ call'[u] = call[u]
  BY DEF InHand
<1>3. \A u \in Threads : InHand(u) => call[u].dirBlock # call'[t].dirBlock
  BY DEF InHand, HasDirectory
<1>4. OneHand'
  BY <1>1, <1>2, <1>3 DEF OneHand
<1>5. ASSUME trouble' \intersect {"slots", "mknod", "dirs"} = {}, NEW u \in Threads, InHand(u)'
      PROVE  KeepsNames(u)'
  <2>1. CASE u = t
    BY <2>1, <1>5
  <2>2. CASE u # t
    <3>1. InHand(u) /\ call'[u] = call[u]
      BY <2>2, <1>2, <1>5
    <3>2. KeepsNames(u)
      BY <3>1, <1>1, <1>5 DEF RaceInv
    <3> QED
      BY <3>1, <3>2 DEF KeepsNames
  <2> QED
    BY <2>1, <2>2
<1> QED
  BY <1>4, <1>5

(* A thread that goes on with its directory keeps the names in it.         *)
LEMMA GoesOnRace ==
    ASSUME RaceInv, NEW t \in Threads, UNCHANGED disk, trouble \subseteq trouble',
           \A u \in Threads : u # t => pc'[u] = pc[u] /\ call'[u] = call[u],
           InHand(t), call'[t].dirBlock = call[t].dirBlock,
           trouble' \intersect {"race", "slots", "mknod", "dirs"} = {} /\ KeepsNames(t) => KeepsNames(t)'
    PROVE  RaceInv'
<1> SUFFICES ASSUME "race" \notin trouble'
             PROVE  /\ OneHand'
                    /\ trouble' \intersect {"slots", "mknod", "dirs"} = {} =>
                          \A u \in Threads : InHand(u)' => KeepsNames(u)'
  BY DEF RaceInv
<1>1. OneHand /\ "race" \notin trouble
  BY DEF RaceInv
<1>2. \A u \in Threads : InHand(u)' => InHand(u) /\ call'[u].dirBlock = call[u].dirBlock
  BY DEF InHand
<1>3. OneHand'
  BY <1>1, <1>2 DEF OneHand
<1>4. ASSUME trouble' \intersect {"slots", "mknod", "dirs"} = {}, NEW u \in Threads, InHand(u)'
      PROVE  KeepsNames(u)'
  <2>1. InHand(u) /\ KeepsNames(u)
    BY <1>1, <1>2, <1>4 DEF RaceInv
  <2>2. CASE u = t
    BY <2>1, <2>2, <1>4
  <2>3. CASE u # t
    BY <2>1, <2>3 DEF KeepsNames
  <2> QED
    BY <2>2, <2>3
<1> QED
  BY <1>3, <1>4

(* A write to the disk that leaves alone the directories that are in       *)
(* somebody's hands after it.                                              *)
LEMMA DiskRace ==
    ASSUME RaceInv, trouble \subseteq trouble',
           \A u \in Threads : InHand(u)' => InHand(u) /\ call'[u] = call[u],
           trouble' \intersect {"race", "slots", "mknod", "dirs"} = {} =>
               \A u \in Threads : InHand(u)' => disk'[call[u].dirBlock] = disk[call[u].dirBlock]
    PROVE  RaceInv'
<1> SUFFICES ASSUME "race" \notin trouble'
             PROVE  /\ OneHand'
                    /\ trouble' \intersect {"slots", "mknod", "dirs"} = {} =>
                          \A u \in Threads : InHand(u)' => KeepsNames(u)'
  BY DEF RaceInv
<1>1. OneHand /\ "race" \notin trouble
  BY DEF RaceInv
<1>2. OneHand'
  BY <1>1 DEF OneHand
<1>3. ASSUME trouble' \intersect {"slots", "mknod", "dirs"} = {}, NEW u \in Threads, InHand(u)'
      PROVE  KeepsNames(u)'
  <2>1. InHand(u) /\ KeepsNames(u) /\ call'[u] = call[u]
    BY <1>1, <1>3 DEF RaceInv
  <2>2. disk'[call[u].dirBlock] = disk[call[u].dirBlock]
    BY <1>3
  <2> QED
    BY <2>1, <2>2 DEF KeepsNames
<1> QED
  BY <1>2, <1>3

LEMMA NewRace ==
    ASSUME DirInv, RaceInv, NEW t \in Threads, NEW k \in DirNames \X FileNames,
           NEW offset \in Offsets, NEW buf \in Payloads, WriteNew(t, k, offset, buf)
    PROVE  RaceInv'
<1> DEFINE b == DirBlockOf(k[1])
           dir == AsDir(disk[b])
           n == IF dir.nFiles > MAX_FILES_IN_DIR THEN 0 ELSE dir.nFiles
<1>1. DiskInv /\ TypeOK
  BY DEF DirInv, DiskInv
<1>2. /\ n \in 0..MAX_FILES_IN_DIR
      /\ \A u \in Threads : u # t => call'[u] = call[u]
      /\ call'[t].dirBlock = b
      /\ call'[t].directory = DirBlock(n + 1, dir.files, dir.padding)
  BY <1>1, NewCall
<1>3. /\ Goto(t, "find_block") /\ disk' = disk /\ trouble \subseteq trouble'
      /\ DirReadable(k[1])
      /\ (\E u \in Threads : HasDirectory(u, b)) => "race" \in trouble'
      /\ dir.nFiles >= MAX_FILES_IN_DIR => "slots" \in trouble'
  BY DEF WriteNew, WriteBegins, Flag
<1>4. /\ pc'[t] = "find_block" /\ \A u \in Threads : u # t => pc'[u] = pc[u]
  BY <1>1, <1>3, Goes DEF Labels
<1>5. dir.nFiles \in Nat
  BY <1>1, <1>3, DirFound, DiskAssumption DEF Directory
<1>6. ASSUME trouble' \intersect {"slots", "mknod", "dirs"} = {} PROVE KeepsNames(t)'
  <2>1. n = dir.nFiles
    BY <1>3, <1>5, <1>6, DiskAssumption
  <2>2. call'[t].directory.nFiles = dir.nFiles + 1 /\ call'[t].directory.files = dir.files
    BY <1>2, <2>1 DEF DirBlock
  <2>3. AsDir(disk'[call'[t].dirBlock]) = dir
    BY <1>2, <1>3
  <2>4. \A i \in FileSlots : i \in Nat
    BY DiskAssumption DEF FileSlots
  <2> HIDE DEF dir
  <2> QED
    BY <2>2, <2>3, <2>4, <1>5 DEF KeepsNames
<1>7. InHand(t)'
  BY <1>4 DEF InHand
<1> QED
  BY <1>2, <1>3, <1>4, <1>6, <1>7, BeginsRace

LEMMA OldRace ==
    ASSUME DirInv, RaceInv, NEW t \in Threads, NEW k \in DirNames \X FileNames,
           NEW offset \in Offsets, NEW buf \in Payloads, WriteOld(t, k, offset, buf)
    PROVE  RaceInv'
<1> DEFINE b == DirBlockOf(k[1])
           dir == AsDir(disk[b])
<1>1. DiskInv /\ TypeOK
  BY DEF DirInv, DiskInv
<1>2. /\ \A u \in Threads : u # t => call'[u] = call[u]
      /\ call'[t].dirBlock = b /\ call'[t].directory = dir
  BY <1>1, OldCall
<1>3. /\ Goto(t, "read_block") /\ disk' = disk /\ trouble \subseteq trouble'
      /\ (\E u \in Threads : HasDirectory(u, b)) => "race" \in trouble'
  BY DEF WriteOld, WriteBegins, Flag
<1>4. /\ pc'[t] = "read_block" /\ \A u \in Threads : u # t => pc'[u] = pc[u]
  BY <1>1, <1>3, Goes DEF Labels
<1>5. KeepsNames(t)'
  BY <1>2, <1>3 DEF KeepsNames
<1>6. InHand(t)'
  BY <1>4 DEF InHand
<1> QED
  BY <1>2, <1>3, <1>4, <1>5, <1>6, BeginsRace

LEMMA FindRace == ASSUME DirInv, RaceInv, NEW t \in Threads, FindBlock(t) PROVE RaceInv'
<1> DEFINE slot == call[t].slot
<1>1. DiskInv /\ TypeOK /\ SectionInv /\ PackedInv
  BY DEF DirInv, DiskInv
<1>2. /\ Goto(t, "read_block") /\ pc[t] = "find_block" /\ disk' = disk /\ trouble \subseteq trouble'
  BY DEF FindBlock
<1>3. /\ \A u \in Threads : u # t => call'[u] = call[u]
      /\ call'[t].dirBlock = call[t].dirBlock
      /\ call'[t].directory.nFiles = call[t].directory.nFiles
      /\ \A i \in FileSlots : i # slot =>
            call'[t].directory.files[i] = call[t].directory.files[i]
  BY <1>1, FoundBlock
<1>4. \A u \in Threads : u # t => pc'[u] = pc[u]
  BY <1>1, <1>2, Goes DEF Labels
<1>5. ASSUME trouble' \intersect {"race", "slots", "mknod", "dirs"} = {}, KeepsNames(t)
      PROVE  KeepsNames(t)'
  <2> DEFINE b == call[t].dirBlock
             dir == AsDir(disk[b])
  <2>1. call[t].dirBlock \in 1..MAX_FILES_IN_DIR
    BY <1>1, <1>2, <1>5, DiskAssumption DEF SectionInv, DiskInv, CallsInv, CallFits
  <2>2. dir.kind = "dir" /\ b \in DOMAIN disk
    BY <1>1, <1>2, <1>5, <2>1, DiskFacts DEF SectionInv
  <2>3. Packed(dir.files, dir.nFiles)
    BY <1>1, <1>2, <1>5, <2>2, PackedDir
  <2>4. slot \in FileSlots /\ Packed(call[t].directory.files, slot)
    BY <1>1, <1>2, <1>5 DEF PackedInv, PackedCall
  <2>5. slot \in Int
    BY <2>4 DEF FileSlots
  <2>6. call[t].directory.files[slot].fname = NoName
    BY <2>4, <2>5 DEF Packed
  <2>7. ~(slot < dir.nFiles)
    BY <1>5, <2>3, <2>4, <2>6 DEF Packed, KeepsNames
  <2>8. AsDir(disk'[call'[t].dirBlock]) = dir
    BY <1>2, <1>3
  <2> HIDE DEF dir
  <2>9. ASSUME NEW i \in FileSlots, i < dir.nFiles
        PROVE  i < call'[t].directory.nFiles /\ call'[t].directory.files[i].fname = dir.files[i].fname
    <3>1. i # slot
      BY <2>7, <2>9
    <3> QED
      BY <3>1, <2>9, <1>3, <1>5 DEF KeepsNames, dir
  <2> QED
    BY <2>8, <2>9 DEF KeepsNames
<1>6. InHand(t)
  BY <1>2 DEF InHand
<1> QED
  BY <1>2, <1>3, <1>4, <1>5, <1>6, GoesOnRace

LEMMA ReadRace == ASSUME DirInv, RaceInv, NEW t \in Threads, ReadBlock(t) PROVE RaceInv'
<1>1. DiskInv /\ TypeOK
  BY DEF DirInv, DiskInv
<1>2. /\ Goto(t, "write_dir") /\ pc[t] = "read_block" /\ disk' = disk /\ trouble \subseteq trouble'
  BY DEF ReadBlock
<1>3. /\ \A u \in Threads : u # t => call'[u] = call[u]
      /\ call'[t].dirBlock = call[t].dirBlock
      /\ call'[t].directory.nFiles = call[t].directory.nFiles
      /\ \A i \in FileSlots :
            call'[t].directory.files[i].fname = call[t].directory.files[i].fname
  BY <1>1, BlockRead
<1>4. \A u \in Threads : u # t => pc'[u] = pc[u]
  BY <1>1, <1>2, Goes DEF Labels
<1>5. KeepsNames(t) => KeepsNames(t)'
  BY <1>2, <1>3 DEF KeepsNames
<1>6. InHand(t)
  BY <1>2 DEF InHand
<1> QED
  BY <1>2, <1>3, <1>4, <1>5, <1>6, GoesOnRace

LEMMA WriteDirRace == ASSUME DirInv, RaceInv, NEW t \in Threads, WriteDir(t) PROVE RaceInv'
<1>1. DiskInv /\ CallsInv
  BY DEF DirInv, DiskInv
<1>2. /\ \A c \in DOMAIN disk : c # call[t].dirBlock => disk'[c] = disk[c]
      /\ pc[t] = "write_dir" /\ pc'[t] = "write_data"
      /\ \A u \in Threads : u # t => pc'[u] = pc[u]
      /\ UNCHANGED <<call, trouble>>
  BY <1>1, WrittenDir
<1>3. \A u \in Threads : InHand(u)' => InHand(u) /\ u # t
  BY <1>2 DEF InHand
<1>4. ASSUME "race" \notin trouble', NEW u \in Threads, InHand(u)'
      PROVE  disk'[call[u].dirBlock] = disk[call[u].dirBlock]
  <2>1. InHand(t) /\ InHand(u) /\ u # t
    BY <1>2, <1>3, <1>4 DEF InHand
  <2>2. call[u].dirBlock # call[t].dirBlock
    BY <2>1, <1>2, <1>4 DEF RaceInv, OneHand
  <2>3. call[u].dirBlock \in DOMAIN disk
    BY <1>1, <2>1, DiskFacts DEF CallsInv, CallFits, InHand, DiskInv
  <2> QED
    BY <2>2, <2>3, <1>2
<1> QED
  BY <1>2, <1>3, <1>4, DiskRace

(* The block of a directory lies before the file section, and is not 0.    *)
LEMMA HandBlock ==
    ASSUME DirInv, "dirs" \notin trouble, NEW t \in Threads, InHand(t)
    PROVE  /\ call[t].dirBlock \in DOMAIN disk \ FileBlocks(disk)
           /\ call[t].dirBlock # 0
<1>1. DiskInv /\ TypeOK /\ SectionInv /\ CallsInv
  BY DEF DirInv, DiskInv
<1>2. call[t].dirBlock \in 1..MAX_DIRS_IN_ROOT /\ call[t].dirBlock <= MAX_FILES_IN_DIR
  BY <1>1 DEF SectionInv, CallsInv, CallFits, InHand
<1> QED
  BY <1>1, <1>2, DiskFacts, DiskAssumption

LEMMA RaceStep == DirInv /\ RaceInv /\ [Next]_vars => RaceInv'
<1> SUFFICES ASSUME DirInv, RaceInv, [Next]_vars PROVE RaceInv'
  OBVIOUS
<1>1. DiskInv /\ TypeOK
  BY DEF DirInv, DiskInv
<1>2. ASSUME NEW d \in DirNames, Mkdir(d) PROVE RaceInv'
  <2>1. /\ \A b \in DOMAIN disk : b # 0 => disk'[b] = disk[b]
        /\ trouble \subseteq trouble'
    BY <1>1, <1>2, NewDirectory
  <2>2. UNCHANGED <<pc, call>>
    BY <1>2 DEF Mkdir
  <2>3. \A u \in Threads : InHand(u)' => InHand(u)
    BY <2>2 DEF InHand
  <2>4. "dirs" \notin trouble' =>
           \A u \in Threads : InHand(u)' => disk'[call[u].dirBlock] = disk[call[u].dirBlock]
    BY <2>1, <2>3, HandBlock
  <2> QED
    BY <2>1, <2>2, <2>3, <2>4, DiskRace
<1>3. ASSUME NEW d \in DirNames, Mknod(d) PROVE RaceInv'
  <2>1. UNCHANGED <<pc, call>> /\ trouble \subseteq trouble' /\ "mknod" \in trouble'
    BY <1>3 DEF Mknod
  <2>2. \A u \in Threads : InHand(u)' => InHand(u)
    BY <2>1 DEF InHand
  <2> QED
    BY <2>1, <2>2, DiskRace
<1>4. ASSUME NEW t \in Threads, WriteData(t) PROVE RaceInv'
  <2> DEFINE b == Seek(call[t].block)
  <2>1. /\ b = 0 \/ b \in FileBlocks(disk)
        /\ \A c \in DOMAIN disk : c # b => disk'[c] = disk[c]
        /\ pc'[t] = "idle"
        /\ \A u \in Threads : u # t => pc'[u] = pc[u] /\ call'[u] = call[u]
        /\ UNCHANGED trouble
    BY <1>1, <1>4, WrittenBlock
  <2> HIDE DEF b
  <2>2. \A u \in Threads : InHand(u)' => InHand(u) /\ call'[u] = call[u]
    BY <2>1 DEF InHand
  <2>3. "dirs" \notin trouble' =>
           \A u \in Threads : InHand(u)' => disk'[call[u].dirBlock] = disk[call[u].dirBlock]
    BY <2>1, <2>2, HandBlock
  <2> QED
    BY <2>1, <2>2, <2>3, DiskRace
<1>5. CASE Ends
  <2>1. /\ UNCHANGED disk /\ trouble \subseteq trouble'
        /\ \A u \in Threads : pc'[u] = "idle" \/ (pc'[u] = pc[u] /\ call'[u] = call[u])
    BY <1>1, <1>5, Ended
  <2>2. \A u \in Threads : InHand(u)' => InHand(u) /\ call'[u] = call[u]
    BY <2>1 DEF InHand
  <2> QED
    BY <2>1, <2>2, DiskRace
<1>6. CASE UNCHANGED vars
  <2>1. UNCHANGED <<disk, pc, call, trouble>>
    BY <1>6 DEF vars
  <2>2. \A u \in Threads : InHand(u)' => InHand(u)
    BY <2>1 DEF InHand
  <2> QED
    BY <2>1, <2>2, DiskRace
<1> QED
  BY <1>2, <1>3, <1>4, <1>5, <1>6, Steps, NewRace, OldRace, FindRace, ReadRace, WriteDirRace

LEMMA InitRace == Init => RaceInv
BY DEF Init, RaceInv, OneHand, InHand

-----------------------------------------------------------------------------
(* The files that read finds. *)

(* A step that leaves the root alone. *)
LEMMA RootStays ==
    ASSUME disk'[0] = disk[0]
    PROVE  /\ RootReadable' = RootReadable /\ Directories' = Directories
           /\ \A d : DirBlockOf(d)' = DirBlockOf(d)
BY DEF RootReadable, Directories, DirBlockOf, root

(* One that leaves the names in the directory of a file. *)
LEMMA FileStays ==
    ASSUME DiskInv, PackedInv, "slots" \notin trouble,
           NEW k \in Files, RootReadable', k[1] \in Directories',
           DirBlockOf(k[1])' = DirBlockOf(k[1]),
           disk'[DirBlockOf(k[1])].kind = "dir",
           \A i \in FileSlots : i < disk[DirBlockOf(k[1])].nFiles =>
               /\ i < disk'[DirBlockOf(k[1])].nFiles
               /\ disk'[DirBlockOf(k[1])].files[i].fname = disk[DirBlockOf(k[1])].files[i].fname
    PROVE  k \in Files'
<1> DEFINE b == DirBlockOf(k[1])
           i == First(ReadFinds(AsDir(disk[b]), k[2]))
<1>1. /\ k \in Directories \X FileNames /\ b \in DOMAIN disk /\ i \in FileSlots
      /\ i < disk[b].nFiles /\ disk[b].files[i].fname = k[2]
      /\ k = <<k[1], k[2]>> /\ k[2] \in FileNames
  BY FileFound
<1> HIDE DEF i
<1>2. i < disk'[b].nFiles /\ disk'[b].files[i].fname = k[2]
  BY <1>1
<1>3. AsDir(disk'[b]) = disk'[b]
  BY DEF AsDir, Zero
<1>4. i \in ReadFinds(AsDir(disk'[b]), k[2])
  BY <1>1, <1>2, <1>3, DiskAssumption DEF ReadFinds, NameAt, FileSlots
<1>5. DirBlockOf(k[1])' # -1
  BY <1>1, DiskFacts DEF DiskInv
<1>6. AsDir(disk'[DirBlockOf(k[1])']).kind = "dir"
  BY <1>3
<1>7. DirReadable(k[1])'
  BY <1>5, <1>6 DEF DirReadable
<1>8. ReadFinds(AsDir(disk'[DirBlockOf(k[1])']), k[2]) # {}
  BY <1>4
<1>9. k \in Directories' \X FileNames
  BY <1>1
<1> QED
  BY <1>7, <1>8, <1>9 DEF Files

RootPlaces ==
    \A i \in DirSlots : i < root.nDirectories => DirBlockOf(root.directories[i].dname) = i + 1

LEMMA RootFinds == DiskInv /\ RootReadable => RootPlaces
BY RootFound DEF RootPlaces

(* mkdir leaves every directory where it is. *)
LEMMA MkdirKeeps ==
    ASSUME DiskInv, NEW d \in DirNames, Mkdir(d), NEW e \in Directories
    PROVE  RootReadable' /\ e \in Directories' /\ DirBlockOf(e)' = DirBlockOf(e)
<1> DEFINE n == root.nDirectories
<1>1. /\ n \in DirSlots /\ disk'[0].kind = "root" /\ root'.nDirectories = n + 1
      /\ \A i \in DirSlots : i # n => root'.directories[i] = root.directories[i]
  BY NewDirectory
<1>2. RootReadable'
  BY <1>1 DEF RootReadable, root, AsRoot, Zero
<1>3. PICK i \in DirSlots : /\ i < root.nDirectories /\ root.directories[i].dname = e
                            /\ DirBlockOf(e) = i + 1
  BY DirectoryFound
<1>4. i # n /\ i < n + 1
  BY <1>1, <1>3, DiskAssumption DEF DirSlots
<1>5. i < root'.nDirectories /\ root'.directories[i].dname = e
  BY <1>1, <1>3, <1>4
<1>6. e \in Directories'
  BY <1>2, <1>3, <1>5 DEF Directories
<1>7. DiskInv'
  BY MkdirDisk
<1>8. RootPlaces'
  BY <1>2, <1>7, RootFinds, PTL
<1>9. DirBlockOf(e)' = i + 1
  BY <1>3, <1>5, <1>8 DEF RootPlaces
<1> QED
  BY <1>2, <1>3, <1>6, <1>9

LEMMA FilesStep == ASSUME DirInv, RaceInv, [Next]_vars,
                          trouble' \intersect {"race", "slots", "full", "mknod", "dirs"} = {},
                          NEW k \in Files
                   PROVE  k \in Files'
<1> DEFINE b == DirBlockOf(k[1])
<1>1. DiskInv /\ TypeOK /\ PackedInv /\ "slots" \notin trouble
  BY TroubleKept DEF DirInv, DiskInv
<1>2. /\ k[1] \in Directories /\ b \in DOMAIN disk /\ disk[b].kind = "dir"
      /\ RootReadable /\ DirReadable(k[1]) /\ AsDir(disk[b]) = disk[b]
  BY <1>1, FileFound DEF OnDisk, Files, DirReadable
<1>3. ASSUME trouble \subseteq trouble' PROVE b \in 1..MAX_FILES_IN_DIR
  BY <1>2, <1>3, DirInSection
<1>4. 0 \in DOMAIN disk
  BY <1>1, DiskFacts
<1>5. ASSUME UNCHANGED disk PROVE k \in Files'
  <2>1. Files' = Files
    BY <1>5 DEF Files, Directories, DirReadable, RootReadable, DirBlockOf, root
  <2> QED
    BY <2>1
<1>6. ASSUME NEW d \in DirNames, Mkdir(d) PROVE k \in Files'
  <2>1. /\ \A c \in DOMAIN disk : c # 0 => disk'[c] = disk[c]
        /\ trouble \subseteq trouble'
    BY <1>1, <1>6, NewDirectory
  <2>2. disk'[b] = disk[b]
    BY <1>2, <1>3, <2>1
  <2>3. RootReadable' /\ k[1] \in Directories' /\ DirBlockOf(k[1])' = DirBlockOf(k[1])
    BY <1>1, <1>2, <1>6, MkdirKeeps
  <2> HIDE DEF b
  <2>4. \A i \in FileSlots : i < disk[b].nFiles =>
            i < disk'[b].nFiles /\ disk'[b].files[i].fname = disk[b].files[i].fname
    BY <2>2
  <2>5. disk'[b].kind = "dir"
    BY <1>2, <2>2
  <2> QED
    BY <1>1, <2>3, <2>4, <2>5, FileStays DEF b
<1>7. ASSUME NEW t \in Threads, WriteDir(t) PROVE k \in Files'
  <2> DEFINE c == call[t].dirBlock
  <2>1. /\ c \in 1..MAX_DIRS_IN_ROOT /\ disk'[c] = call[t].directory
        /\ call[t].directory \in Directory
        /\ \A e \in DOMAIN disk : e # c => disk'[e] = disk[e]
        /\ pc[t] = "write_dir" /\ UNCHANGED trouble
    BY <1>1, <1>7, WrittenDir
  <2>2. RootReadable' /\ k[1] \in Directories' /\ DirBlockOf(k[1])' = DirBlockOf(k[1])
    <3>1. disk'[0] = disk[0]
      BY <1>4, <2>1
    <3> QED
      BY <3>1, <1>2, RootStays
  <2> HIDE DEF b
  <2>3. CASE b # c
    <3>1. disk'[b] = disk[b]
      BY <2>1, <2>3, <1>2
    <3> QED
      BY <3>1, <2>2, <1>1, <1>2, FileStays DEF b
  <2>4. CASE b = c
    <3>1. InHand(t)
      BY <2>1 DEF InHand
    <3>2. KeepsNames(t)
      BY <3>1, <2>1 DEF RaceInv
    <3>3. \A i \in FileSlots : i < disk[b].nFiles =>
              i < disk'[b].nFiles /\ disk'[b].files[i].fname = disk[b].files[i].fname
      BY <3>2, <2>1, <2>4, <1>2 DEF KeepsNames
    <3>4. disk'[b].kind = "dir"
      BY <2>1, <2>4 DEF Directory
    <3> QED
      BY <3>3, <3>4, <2>2, <1>1, FileStays DEF b
  <2> QED
    BY <2>3, <2>4
<1>8. ASSUME NEW t \in Threads, WriteData(t) PROVE k \in Files'
  <2> DEFINE c == Seek(call[t].block)
  <2>1. /\ c \in FileBlocks(disk)
        /\ \A e \in DOMAIN disk : e # c => disk'[e] = disk[e]
        /\ UNCHANGED trouble
    BY <1>1, <1>8, WrittenBlock
  <2> HIDE DEF c
  <2>2. c > MAX_FILES_IN_DIR /\ c \in Nat
    BY <1>1, <2>1, DiskFacts
  <2>3. disk'[b] = disk[b] /\ disk'[0] = disk[0]
    BY <1>2, <1>3, <1>4, <2>1, <2>2, DiskAssumption
  <2>4. RootReadable' /\ k[1] \in Directories' /\ DirBlockOf(k[1])' = DirBlockOf(k[1])
    BY <2>3, <1>2, RootStays
  <2> HIDE DEF b
  <2> QED
    BY <2>3, <2>4, <1>1, <1>2, FileStays DEF b
<1>9. \A d \in DirNames : ~Mknod(d)
  BY DEF Mknod
<1>10. ASSUME \/ Ends \/ UNCHANGED vars
              \/ \E t \in Threads : FindBlock(t)
              \/ \E t \in Threads : ReadBlock(t)
       PROVE  UNCHANGED disk
  BY <1>10 DEF Ends, Stop, Fail, FindBlock, ReadBlock, vars
<1>11. ASSUME NEW t \in Threads, NEW j \in DirNames \X FileNames, NEW offset \in Offsets,
              NEW buf \in Payloads, WriteNew(t, j, offset, buf) \/ WriteOld(t, j, offset, buf)
       PROVE  UNCHANGED disk
  BY <1>11 DEF WriteNew, WriteOld, WriteBegins
<1> HIDE DEF b
<1> QED
  BY <1>5, <1>6, <1>7, <1>8, <1>9, <1>10, <1>11, Steps

(* No step takes a file away, whatever the threads do and wherever they    *)
(* are stopped: a call writes the directory that it has read, with one     *)
(* file more, and nobody else has written that directory meanwhile.        *)
THEOREM FileSystemFilesStay == Spec => FilesStay
<1>1. Init => DirInv /\ RaceInv
  BY InitDir, InitRace
<1>2. DirInv /\ RaceInv /\ [Next]_vars => (DirInv /\ RaceInv)'
  BY StepDir, RaceStep
<1>3. DirInv /\ RaceInv /\ [Next]_vars =>
        (trouble' \intersect {"race", "slots", "full", "mknod", "dirs"} = {} => Files \subseteq Files')
  BY FilesStep
<1> QED
  BY <1>1, <1>2, <1>3, PTL DEF Spec, FilesStay

-----------------------------------------------------------------------------
(* The refinement of FileStore.  What has to hold between the steps of a   *)
(* call as long as nothing has happened that the file system is not made   *)
(* for.                                                                    *)

Calm == trouble = {}

(* The kernel lets one call at a time have a file. *)
KeysApart ==
    \A t, u \in Threads :
        pc[t] # "idle" /\ pc[u] # "idle" /\ call[t].key = call[u].key => t = u

(* The directory of a call is where the root has it.                       *)
DirOf(t) == AsDir(disk[call[t].dirBlock])

Knows(t) == /\ call[t].key[1] \in Directories
            /\ DirBlockOf(call[t].key[1]) = call[t].dirBlock
            /\ call[t].slot \in FileSlots

(* What a call has in its hands is the directory on the disk but for the   *)
(* entry of its own file: a new one in the slot after the last, or the one *)
(* that the file has had.                                                  *)
NewFits(t) ==
    /\ DirOf(t).nFiles = call[t].slot /\ call[t].directory.nFiles = call[t].slot + 1
    /\ \A i \in FileSlots : DirOf(t).files[i].fname # call[t].key[2]

OldFits(t) ==
    /\ call[t].directory.nFiles = DirOf(t).nFiles
    /\ DirOf(t).files[call[t].slot].fname = call[t].key[2]
    /\ DirOf(t).files[call[t].slot].nStartBlock = call[t].block
    /\ call[t].offset < DirOf(t).files[call[t].slot].fsize

DataFits(t) ==
    /\ call[t].directory.files[call[t].slot].fsize = call[t].offset + Len(call[t].buf)
    /\ call[t].data = Patched(disk[call[t].block], call[t].offset, call[t].buf)
    /\ call[t].new => call[t].offset = 0

HandFits(t) ==
    /\ call[t].buf \in Payloads
    /\ \A i \in FileSlots : i # call[t].slot => call[t].directory.files[i] = DirOf(t).files[i]
    /\ call[t].new => NewFits(t)
    /\ ~call[t].new => OldFits(t)
    /\ pc[t] # "find_block" =>
          /\ call[t].directory.files[call[t].slot].fname = call[t].key[2]
          /\ call[t].directory.files[call[t].slot].nStartBlock = call[t].block
    /\ pc[t] = "read_block" /\ call[t].new => call[t].block \in FreeFileBlocks(disk)
    /\ pc[t] = "write_dir" => DataFits(t)

(* A call that still has to write the data has its file on the disk.       *)
WrittenFits(t) ==
    /\ DirOf(t).files[call[t].slot].fname = call[t].key[2]
    /\ DirOf(t).files[call[t].slot].nStartBlock = call[t].block

(* The file section holds data, and the block of a directory that is not   *)
(* made yet holds nothing.                                                 *)
BlocksFit ==
    /\ \A b \in FileBlocks(disk) : AsData(disk[b]).kind = "data"
    /\ \A b \in 1..MAX_FILES_IN_DIR : b > root.nDirectories => disk[b] = Zero

CallStore(t) ==
    /\ pc[t] # "idle" => Knows(t)
    /\ InHand(t) => HandFits(t)
    /\ pc[t] = "write_data" => WrittenFits(t)
    /\ pc[t] \in {"write_dir", "write_data"} => call[t].data.kind = "data"

StoreInv == Calm => KeysApart /\ BlocksFit /\ \A t \in Threads : CallStore(t)

FsInv == DirInv /\ OwnerInv /\ RaceInv /\ StoreInv

LEMMA CalmFacts ==
    ASSUME FsInv, Calm
    PROVE  /\ TypeOK /\ DiskInv /\ PackedInv /\ SectionInv /\ CallsInv
           /\ RootReadable /\ root \in Root /\ RootPacked(root)
           /\ Disjoint /\ OneHand /\ KeysApart /\ BlocksFit
           /\ \A t \in Threads : CallStore(t)
<1>1. TypeOK /\ DiskInv /\ PackedInv /\ SectionInv /\ RootInv /\ CallsInv
  BY DEF FsInv, DirInv, DiskInv
<1>2. RootReadable /\ RootPacked(root)
  BY <1>1 DEF RootInv, Calm
<1>3. root \in Root
  BY <1>1, <1>2, DiskFacts, BlockKinds DEF root, RootReadable
<1>4. Orderly
  BY DEF Orderly, Calm
<1>5. Disjoint
  BY <1>4 DEF FsInv, OwnerInv
<1>6. OneHand
  BY DEF FsInv, RaceInv, Calm
<1> QED
  BY <1>1, <1>2, <1>3, <1>5, <1>6 DEF FsInv, StoreInv

(* The directory of a name that the root has.                              *)
LEMMA DirectoryOnDisk ==
    ASSUME FsInv, Calm, NEW d \in Directories
    PROVE  LET b == DirBlockOf(d)
               dir == AsDir(disk[b])
           IN  /\ b \in 1..MAX_FILES_IN_DIR /\ b \in DOMAIN disk /\ b \notin FileBlocks(disk)
               /\ b \in Nat \ {0} /\ b <= root.nDirectories
               /\ DirReadable(d) /\ dir \in Directory /\ dir.kind = "dir" /\ dir.nFiles \in Nat
               /\ Packed(dir.files, dir.nFiles)
               /\ \A i \in FileSlots : dir.files[i].fname # NoName => OnDisk(b, i) /\ disk[b] = dir
<1> DEFINE b == DirBlockOf(d)
           dir == AsDir(disk[b])
<1>1. DirInv /\ DiskInv /\ TypeOK /\ PackedInv
  BY CalmFacts DEF FsInv
<1>2. DirReadable(d)
  BY <1>1, DirectoryReadable DEF Calm
<1>3. b \in 1..MAX_FILES_IN_DIR
  BY <1>1, <1>2, DirInSection DEF Calm
<1>4. b \in DOMAIN disk /\ dir \in Directory
  BY <1>1, <1>2, DirFound
<1>5. dir.kind = "dir"
  BY <1>2 DEF DirReadable
<1>6. Packed(dir.files, dir.nFiles)
  BY <1>1, <1>4, <1>5, PackedDir DEF Calm
<1>7. dir.nFiles \in Nat
  BY <1>4, DiskAssumption DEF Directory
<1>8. b \in Nat \ {0} /\ b \notin FileBlocks(disk)
  BY <1>1, <1>3, DiskFacts, DiskAssumption
<1>9. ASSUME NEW i \in FileSlots, dir.files[i].fname # NoName
      PROVE  OnDisk(b, i) /\ disk[b] = dir
  <2>1. disk[b] # Zero
    BY <1>9 DEF AsDir, DirBlock, NoFile
  <2>2. disk[b] = dir
    BY <2>1 DEF AsDir
  <2> QED
    BY <1>5, <1>9, <2>2 DEF OnDisk
<1>10. b <= root.nDirectories
  <2>1. PICK i \in DirSlots : i < root.nDirectories /\ b = i + 1
    BY <1>1, DirectoryFound
  <2>2. i \in Nat /\ root.nDirectories \in Nat
    BY CalmFacts, DiskAssumption DEF DirSlots, Root
  <2> QED
    BY <2>1, <2>2
<1> HIDE DEF b
<1>11. \A i \in FileSlots : dir.files[i].fname # NoName => OnDisk(b, i) /\ disk[b] = dir
  BY <1>9
<1> QED
  BY <1>2, <1>3, <1>4, <1>5, <1>6, <1>7, <1>8, <1>10, <1>11 DEF b

LEMMA CallOnDisk ==
    ASSUME FsInv, Calm, NEW t \in Threads, pc[t] # "idle"
    PROVE  LET b == call[t].dirBlock
               dir == DirOf(t)
           IN  /\ b \in 1..MAX_FILES_IN_DIR /\ b \in DOMAIN disk /\ b \notin FileBlocks(disk)
               /\ b \in Nat \ {0} /\ b <= root.nDirectories
               /\ dir \in Directory /\ dir.kind = "dir" /\ dir.nFiles \in Nat
               /\ Packed(dir.files, dir.nFiles)
               /\ \A i \in FileSlots : dir.files[i].fname # NoName => OnDisk(b, i) /\ disk[b] = dir
               /\ Knows(t) /\ CallFits(t) /\ call[t] \in Call
               /\ call[t].slot \in FileSlots /\ call[t].slot \in Nat
               /\ call[t].key[1] \in DirNames /\ call[t].key[2] \in FileNames
               /\ call[t].key[2] # NoName /\ call[t].key = <<call[t].key[1], call[t].key[2]>>
<1>1. Knows(t) /\ CallFits(t) /\ call[t] \in Call
  BY CalmFacts DEF CallStore, CallsInv, TypeOK
<1>2. call[t].key \in DirNames \X FileNames
  BY <1>1 DEF CallFits
<1>3. PICK d \in Directories : d = call[t].key[1]
  BY <1>1 DEF Knows
<1>4. DirBlockOf(d) = call[t].dirBlock /\ DirOf(t) = AsDir(disk[DirBlockOf(d)])
  BY <1>1, <1>3 DEF Knows, DirOf
<1>5. call[t].slot \in FileSlots /\ call[t].slot \in Nat
  BY <1>1, DiskAssumption DEF Knows, FileSlots
<1>6. call[t].key[2] # NoName
  BY <1>2, DiskAssumption
<1>7. LET b == DirBlockOf(d)
          dir == AsDir(disk[b])
      IN  /\ b \in 1..MAX_FILES_IN_DIR /\ b \in DOMAIN disk /\ b \notin FileBlocks(disk)
          /\ b \in Nat \ {0} /\ b <= root.nDirectories
          /\ dir \in Directory /\ dir.kind = "dir" /\ dir.nFiles \in Nat
          /\ Packed(dir.files, dir.nFiles)
          /\ \A i \in FileSlots : dir.files[i].fname # NoName => OnDisk(b, i) /\ disk[b] = dir
  BY DirectoryOnDisk, Zenon
<1> QED
  BY <1>1, <1>2, <1>4, <1>5, <1>6, <1>7

(* The block of a file lies in the file section. *)
LEMMA CallBlock ==
    ASSUME FsInv, Calm, NEW t \in Threads, pc[t] \in {"read_block", "write_dir", "write_data"}
    PROVE  /\ call[t].block \in FileBlocks(disk) /\ call[t].block \in DOMAIN disk
           /\ Seek(call[t].block) = call[t].block /\ call[t].block \in Nat \ {0}
           /\ AsData(disk[call[t].block]).kind = "data" /\ disk[call[t].block] \in Block
           /\ call[t].offset \in Nat /\ call[t].buf \in Seq(Nat)
<1>1. TypeOK /\ CallFits(t) /\ BlocksFit /\ call[t] \in Call
  BY CalmFacts, CallOnDisk
<1>2. Place(call[t].block)
  BY <1>1 DEF CallFits
<1>3. call[t].block \in FileBlocks(disk)
  BY <1>2 DEF Place, Calm
<1>4. call[t].block \in Nat /\ call[t].block > MAX_FILES_IN_DIR /\ call[t].block \in DOMAIN disk
  BY <1>1, <1>3, DiskFacts
<1>5. call[t].block # 0 /\ Seek(call[t].block) = call[t].block
  BY <1>4, DiskAssumption DEF Seek
<1>6. AsData(disk[call[t].block]).kind = "data" /\ disk[call[t].block] \in Block
  BY <1>1, <1>3, <1>4, DiskFacts DEF BlocksFit
<1> QED
  BY <1>1, <1>3, <1>4, <1>5, <1>6 DEF Call

(* A call has another slot of its directory than one that still has to     *)
(* write its data.                                                         *)
LEMMA SlotsApart ==
    ASSUME FsInv, Calm, NEW t \in Threads, NEW u \in Threads, t # u,
           pc[t] # "idle", pc[u] = "write_data", call[t].dirBlock = call[u].dirBlock
    PROVE  call[t].slot # call[u].slot
<1> SUFFICES ASSUME call[t].slot = call[u].slot PROVE FALSE
  OBVIOUS
<1> DEFINE i == call[t].slot
<1>1. pc[u] # "idle"
  OBVIOUS
<1>2. Knows(u) /\ call[u].key = <<call[u].key[1], call[u].key[2]>> /\ call[u].key[2] # NoName
  BY <1>1, CallOnDisk
<1>3. /\ Knows(t) /\ call[t].key = <<call[t].key[1], call[t].key[2]>>
      /\ i \in FileSlots /\ i \in Nat
      /\ Packed(DirOf(t).files, DirOf(t).nFiles) /\ DirOf(t).nFiles \in Nat
  BY CallOnDisk
<1>4. KeysApart /\ DiskInv /\ CallStore(t) /\ CallStore(u) /\ TypeOK
  BY CalmFacts
<1>5. DirOf(t) = DirOf(u)
  BY DEF DirOf
<1>6. DirOf(t).files[i].fname = call[u].key[2]
  BY <1>4, <1>5 DEF CallStore, WrittenFits
<1>7. DirOf(t).files[i].fname = call[t].key[2]
  <2>1. CASE pc[t] = "write_data"
    BY <2>1, <1>4 DEF CallStore, WrittenFits
  <2>2. CASE pc[t] # "write_data"
    <3>1. InHand(t)
      BY <2>2, <1>4 DEF InHand, TypeOK
    <3>2. HandFits(t)
      BY <3>1, <1>4 DEF CallStore
    <3>3. ASSUME call[t].new PROVE FALSE
      <4>1. DirOf(t).nFiles = i
        BY <3>2, <3>3 DEF HandFits, NewFits
      <4>2. i < DirOf(t).nFiles
        BY <1>2, <1>3, <1>6 DEF Packed
      <4> QED
        BY <4>1, <4>2, <1>3
    <3> QED
      BY <3>2, <3>3 DEF HandFits, OldFits
  <2> QED
    BY <2>1, <2>2
<1>8. call[t].key[1] = call[u].key[1]
  BY <1>2, <1>3, <1>4, SameDirectory DEF Knows
<1>9. call[t].key = call[u].key
  BY <1>2, <1>3, <1>6, <1>7, <1>8
<1> QED
  BY <1>1, <1>4, <1>9 DEF KeysApart

(* No thread but its own is about to write the block of a call.            *)
LEMMA BlocksApart ==
    ASSUME FsInv, Calm, NEW t \in Threads, NEW u \in Threads, t # u,
           pc[t] \in {"read_block", "write_dir", "write_data"}, pc[u] = "write_data"
    PROVE  call[t].block # call[u].block
<1> SUFFICES ASSUME call[t].block = call[u].block PROVE FALSE
  OBVIOUS
<1> DEFINE x == call[t].block
           b == call[t].dirBlock
           c == call[u].dirBlock
           i == call[t].slot
           j == call[u].slot
<1>1. pc[t] # "idle" /\ pc[u] # "idle"
  OBVIOUS
<1>2. x \in FileBlocks(disk)
  BY CallBlock
<1>3. /\ c \in DOMAIN disk /\ j \in FileSlots /\ call[u].key[2] # NoName
      /\ \A n \in FileSlots : DirOf(u).files[n].fname # NoName => OnDisk(c, n) /\ disk[c] = DirOf(u)
  BY <1>1, CallOnDisk
<1>4. /\ b \in DOMAIN disk /\ i \in FileSlots /\ call[t].key[2] # NoName
      /\ \A n \in FileSlots : DirOf(t).files[n].fname # NoName => OnDisk(b, n) /\ disk[b] = DirOf(t)
  BY <1>1, CallOnDisk
<1>5. Disjoint
  BY CalmFacts
<1>6. WrittenFits(u)
  BY CalmFacts DEF CallStore
<1>7. Claim(c, j, x)
  <2>1. OnDisk(c, j) /\ disk[c] = DirOf(u)
    BY <1>3, <1>6 DEF WrittenFits
  <2>2. disk[c].files[j].nStartBlock = x
    BY <2>1, <1>6 DEF WrittenFits
  <2> QED
    BY <2>1, <2>2, <1>3 DEF Claim
<1>8. Claim(b, i, x)
  <2>1. CASE pc[t] = "write_data"
    <3>1. WrittenFits(t)
      BY <2>1, CalmFacts DEF CallStore
    <3>2. OnDisk(b, i) /\ disk[b] = DirOf(t)
      BY <1>4, <3>1 DEF WrittenFits
    <3>3. disk[b].files[i].nStartBlock = x
      BY <3>1, <3>2 DEF WrittenFits
    <3> QED
      BY <3>2, <3>3, <1>4 DEF Claim
  <2>2. CASE pc[t] # "write_data"
    <3>1. InHand(t) /\ pc[t] # "find_block"
      BY <2>2 DEF InHand
    <3>2. HandFits(t)
      BY <3>1, CalmFacts DEF CallStore
    <3>3. /\ call[t].directory.files[i].fname = call[t].key[2]
          /\ call[t].directory.files[i].nStartBlock = x
      BY <3>1, <3>2 DEF HandFits
    <3>4. InCall(t, i)
      BY <3>1, <3>3, <1>4 DEF InCall
    <3> QED
      BY <3>3, <3>4 DEF Claim
  <2> QED
    BY <2>1, <2>2
<1>9. b = c /\ i = j
  BY <1>2, <1>3, <1>4, <1>5, <1>7, <1>8 DEF Disjoint
<1> QED
  BY <1>1, <1>9, SlotsApart

(* What a step leaves of a call and of its blocks on the disk.             *)
LEMMA CallStoreStays ==
    ASSUME NEW t \in Threads, CallStore(t), pc'[t] = pc[t], call'[t] = call[t],
           FileBlocks(disk') = FileBlocks(disk),
           \A d \in Directories : d \in Directories' /\ DirBlockOf(d)' = DirBlockOf(d),
           pc[t] # "idle" => disk'[call[t].dirBlock] = disk[call[t].dirBlock],
           pc[t] \in {"read_block", "write_dir"} => disk'[call[t].block] = disk[call[t].block]
    PROVE  CallStore(t)'
<1>1. pc[t] # "idle" => DirOf(t)' = DirOf(t)
  BY DEF DirOf
<1>2. ASSUME pc[t] # "idle" PROVE Knows(t)'
  <2>1. Knows(t)
    BY <1>2 DEF CallStore
  <2>2. PICK d \in Directories : d = call[t].key[1]
    BY <2>1 DEF Knows
  <2>3. d \in Directories' /\ DirBlockOf(d)' = call[t].dirBlock
    BY <2>1, <2>2 DEF Knows
  <2>4. d = call'[t].key[1]
    BY <2>2
  <2> QED
    BY <2>1, <2>3, <2>4 DEF Knows
<1>3. ASSUME InHand(t) PROVE HandFits(t)'
  <2>1. HandFits(t)
    BY <1>3 DEF CallStore
  <2>2. DirOf(t)' = DirOf(t)
    BY <1>1, <1>3 DEF InHand
  <2>3. call[t].new => NewFits(t)'
    BY <2>1, <2>2 DEF HandFits, NewFits
  <2>4. ~call[t].new => OldFits(t)'
    BY <2>1, <2>2 DEF HandFits, OldFits
  <2>5. pc[t] = "write_dir" => DataFits(t)'
    BY <2>1 DEF HandFits, DataFits
  <2>6. pc[t] = "read_block" /\ call[t].new => call[t].block \in FreeFileBlocks(disk')
    BY <2>1 DEF HandFits, FreeFileBlocks
  <2> QED
    BY <2>1, <2>2, <2>3, <2>4, <2>5, <2>6 DEF HandFits
<1>4. ASSUME pc[t] = "write_data" PROVE WrittenFits(t)'
  <2>1. WrittenFits(t) /\ DirOf(t)' = DirOf(t)
    BY <1>1, <1>4 DEF CallStore
  <2> QED
    BY <2>1 DEF WrittenFits
<1>5. InHand(t)' <=> InHand(t)
  BY DEF InHand
<1> QED
  BY <1>2, <1>3, <1>4, <1>5 DEF CallStore

LEMMA KeysStay ==
    ASSUME KeysApart,
           \A t \in Threads : pc'[t] = "idle" \/ (pc[t] # "idle" /\ call'[t].key = call[t].key)
    PROVE  KeysApart'
BY DEF KeysApart

LEMMA BlocksFitStays ==
    ASSUME BlocksFit, UNCHANGED disk
    PROVE  BlocksFit'
BY DEF BlocksFit, root

(* A step of one thread that does not write. *)
LEMMA OneCallStore ==
    ASSUME FsInv, Calm, NEW t \in Threads, UNCHANGED disk,
           \A u \in Threads : u # t => pc'[u] = pc[u] /\ call'[u] = call[u],
           \A u \in Threads : u # t /\ pc[u] # "idle" => call[u].key # call'[t].key,
           CallStore(t)'
    PROVE  StoreInv'
<1>1. KeysApart /\ BlocksFit /\ \A u \in Threads : CallStore(u)
  BY CalmFacts
<1>2. KeysApart'
  BY <1>1 DEF KeysApart
<1>3. \A d \in Directories : d \in Directories' /\ DirBlockOf(d)' = DirBlockOf(d)
  BY RootStays
<1>4. ASSUME NEW u \in Threads PROVE CallStore(u)'
  <2>1. CASE u = t
    BY <2>1
  <2>2. CASE u # t
    BY <2>2, <1>1, <1>3, CallStoreStays
  <2> QED
    BY <2>1, <2>2
<1> QED
  BY <1>1, <1>2, <1>4, BlocksFitStays DEF StoreInv

(* A name that write has found in the root. *)
LEMMA NameKnown ==
    ASSUME FsInv, Calm, NEW d, DirReadable(d)
    PROVE  d \in Directories
<1>1. PICK i \in DirSlots : i < root.nDirectories /\ root.directories[i].dname = d
  BY CalmFacts, RootFound DEF DirReadable
<1> QED
  BY <1>1, CalmFacts DEF Directories

LEMMA NewStore ==
    ASSUME FsInv, NEW t \in Threads, NEW k \in DirNames \X FileNames,
           NEW offset \in Offsets, NEW buf \in Payloads, WriteNew(t, k, offset, buf)
    PROVE  StoreInv'
<1> SUFFICES ASSUME Calm' PROVE StoreInv'
  BY DEF StoreInv
<1> DEFINE b == DirBlockOf(k[1])
           dir == AsDir(disk[b])
           n == IF dir.nFiles > MAX_FILES_IN_DIR THEN 0 ELSE dir.nFiles
<1>1. /\ Goto(t, "find_block") /\ disk' = disk /\ DirReadable(k[1])
      /\ \A u \in Threads : pc[u] # "idle" => call[u].key # k
      /\ WriteFinds(dir, k[2]) = {}
      /\ trouble = {} /\ ~(dir.nFiles >= MAX_FILES_IN_DIR)
  BY DEF WriteNew, WriteBegins, Flag, Calm
<1>2. Calm /\ DiskInv /\ TypeOK
  BY <1>1, CalmFacts DEF Calm
<1>3. /\ \A u \in Threads : u # t => call'[u] = call[u]
      /\ call'[t].key = k /\ call'[t].new /\ call'[t].dirBlock = b
      /\ call'[t].directory = DirBlock(n + 1, dir.files, dir.padding)
      /\ call'[t].slot = n /\ call'[t].buf = buf
  BY <1>2, NewCall
<1>4. pc'[t] = "find_block" /\ \A u \in Threads : u # t => pc'[u] = pc[u]
  BY <1>1, <1>2, Goes DEF Labels
<1>5. k[1] \in Directories
  BY <1>1, <1>2, NameKnown
<1>6. dir.nFiles \in Nat
  BY <1>2, <1>5, DirectoryOnDisk
<1>7. n = dir.nFiles /\ n \in FileSlots
  BY <1>1, <1>6, DiskAssumption DEF FileSlots
<1>8. DirOf(t)' = dir
  BY <1>1, <1>3 DEF DirOf
<1>9. k[1] \in Directories' /\ DirBlockOf(k[1])' = b
  BY <1>1, <1>5, RootStays
<1>10. \A i \in FileSlots : dir.files[i].fname # k[2]
  BY <1>1 DEF WriteFinds
<1>11. call'[t].directory.nFiles = n + 1 /\ call'[t].directory.files = dir.files
  BY <1>3 DEF DirBlock
<1> HIDE DEF dir, n, b
<1>12. Knows(t)'
  BY <1>3, <1>7, <1>9 DEF Knows
<1>13. NewFits(t)'
  BY <1>3, <1>7, <1>8, <1>10, <1>11 DEF NewFits
<1>14. HandFits(t)'
  BY <1>3, <1>4, <1>8, <1>11, <1>13 DEF HandFits
<1>15. CallStore(t)'
  BY <1>4, <1>12, <1>14 DEF CallStore
<1> QED
  BY <1>1, <1>2, <1>3, <1>4, <1>15, OneCallStore

LEMMA OldStore ==
    ASSUME FsInv, NEW t \in Threads, NEW k \in DirNames \X FileNames,
           NEW offset \in Offsets, NEW buf \in Payloads, WriteOld(t, k, offset, buf)
    PROVE  StoreInv'
<1> SUFFICES ASSUME Calm' PROVE StoreInv'
  BY DEF StoreInv
<1> DEFINE b == DirBlockOf(k[1])
           dir == AsDir(disk[b])
           slot == First(WriteFinds(dir, k[2]))
<1>1. /\ Goto(t, "read_block") /\ disk' = disk /\ DirReadable(k[1])
      /\ \A u \in Threads : pc[u] # "idle" => call[u].key # k
      /\ trouble = {}
  BY DEF WriteOld, WriteBegins, Calm
<1>2. Calm /\ DiskInv /\ TypeOK
  BY <1>1, CalmFacts DEF Calm
<1>3. /\ \A u \in Threads : u # t => call'[u] = call[u]
      /\ call'[t].key = k /\ ~call'[t].new /\ call'[t].dirBlock = b
      /\ call'[t].directory = dir
      /\ call'[t].slot = slot /\ call'[t].buf = buf
      /\ slot \in FileSlots /\ dir.files[slot].fname = k[2]
      /\ call'[t].block = dir.files[slot].nStartBlock
      /\ call'[t].offset < dir.files[slot].fsize
  BY <1>2, OldCall
<1>4. pc'[t] = "read_block" /\ \A u \in Threads : u # t => pc'[u] = pc[u]
  BY <1>1, <1>2, Goes DEF Labels
<1>5. k[1] \in Directories
  BY <1>1, <1>2, NameKnown
<1>6. DirOf(t)' = dir
  BY <1>1, <1>3 DEF DirOf
<1>7. k[1] \in Directories' /\ DirBlockOf(k[1])' = b
  BY <1>1, <1>5, RootStays
<1> HIDE DEF dir, slot, b
<1>8. Knows(t)'
  BY <1>3, <1>7 DEF Knows
<1>9. OldFits(t)'
  BY <1>3, <1>6 DEF OldFits
<1>10. HandFits(t)'
  BY <1>3, <1>4, <1>6, <1>9 DEF HandFits
<1>11. CallStore(t)'
  BY <1>4, <1>8, <1>10 DEF CallStore
<1> QED
  BY <1>1, <1>2, <1>3, <1>4, <1>11, OneCallStore

LEMMA FindStore == ASSUME FsInv, NEW t \in Threads, FindBlock(t) PROVE StoreInv'
<1> SUFFICES ASSUME Calm' PROVE StoreInv'
  BY DEF StoreInv
<1> DEFINE block == find_next_free_file_block(disk)
           c == call[t]
           d == call'[t]
<1>1. /\ Goto(t, "read_block") /\ pc[t] = "find_block" /\ disk' = disk
      /\ trouble = {} /\ block # -1
  BY DEF FindBlock, Flag, Calm
<1>2. Calm /\ DiskInv /\ TypeOK /\ KeysApart /\ CallStore(t) /\ CallsInv
  BY <1>1, CalmFacts DEF Calm
<1>3. /\ \A u \in Threads : u # t => call'[u] = call[u]
      /\ d.key = c.key /\ d.new = c.new /\ d.dirBlock = c.dirBlock /\ d.slot = c.slot
      /\ d.buf = c.buf /\ d.block = block
      /\ d.directory.nFiles = c.directory.nFiles
      /\ \A i \in FileSlots : i # c.slot => d.directory.files[i] = c.directory.files[i]
      /\ c.slot \in FileSlots => /\ d.directory.files[c.slot].fname = c.key[2]
                                 /\ d.directory.files[c.slot].nStartBlock = block
  <2>1. \A i \in FileSlots : d.directory.files[i] =
            IF i = c.slot THEN [fname |-> c.key[2], fsize |-> 0, nStartBlock |-> block]
                          ELSE c.directory.files[i]
    BY <1>2, FoundBlock
  <2>2. /\ \A u \in Threads : u # t => call'[u] = call[u]
        /\ d.key = c.key /\ d.new = c.new /\ d.dirBlock = c.dirBlock /\ d.slot = c.slot
        /\ d.buf = c.buf /\ d.block = block
        /\ d.directory.nFiles = c.directory.nFiles
    BY <1>2, FoundBlock
  <2> HIDE DEF c, d, block
  <2> QED
    BY <2>1, <2>2
<1>4. pc'[t] = "read_block" /\ \A u \in Threads : u # t => pc'[u] = pc[u]
  BY <1>1, <1>2, Goes DEF Labels
<1>5. block \in FreeFileBlocks(disk')
  BY <1>1, <1>2, FreeBlock
<1>6. c.new /\ Knows(t) /\ HandFits(t) /\ NewFits(t)
  BY <1>1, <1>2 DEF CallStore, CallsInv, CallFits, InHand, HandFits
<1>7. DirOf(t)' = DirOf(t)
  BY <1>1, <1>3 DEF DirOf
<1>8. \A u \in Threads : u # t /\ pc[u] # "idle" => call[u].key # d.key
  BY <1>1, <1>2, <1>3 DEF KeysApart
<1>9. Knows(t)'
  <2>1. PICK e \in Directories : e = c.key[1]
    BY <1>6 DEF Knows
  <2>2. e \in Directories' /\ DirBlockOf(e)' = DirBlockOf(e) /\ e = d.key[1]
    BY <1>1, <1>3, <2>1, RootStays
  <2> QED
    BY <1>3, <1>6, <2>1, <2>2 DEF Knows
<1> HIDE DEF block
<1>10. NewFits(t)'
  BY <1>3, <1>6, <1>7 DEF NewFits
<1>11. HandFits(t)'
  <2>1. c.slot \in FileSlots
    BY <1>6 DEF Knows
  <2> QED
    BY <1>3, <1>4, <1>5, <1>6, <1>7, <1>10, <2>1 DEF HandFits
<1>12. CallStore(t)'
  BY <1>4, <1>9, <1>11 DEF CallStore
<1> QED
  BY <1>1, <1>2, <1>3, <1>4, <1>8, <1>12, OneCallStore

(* A block of data stays one, and a buffer that is copied in behind the    *)
(* first byte leaves that as it is.                                        *)
LEMMA PatchedData ==
    ASSUME NEW b \in Block, NEW offset \in Nat, NEW buf \in Seq(Nat), AsData(b).kind = "data"
    PROVE  LET p == Patched(b, offset, buf)
           IN  /\ p.kind = "data"
               /\ \A i \in Bytes : i < offset => p.data[i] = AsData(b).data[i]
               /\ \A i \in Bytes : i >= offset /\ i < offset + Len(buf) =>
                     p.data[i] = buf[i - offset + 1]
<1> DEFINE d == [i \in Bytes |->
            IF i >= offset /\ i < offset + Len(buf) THEN buf[i - offset + 1]
            ELSE IF i = offset + Len(buf) + 1 THEN NUL
            ELSE AsData(b).data[i]]
<1>1. Patched(b, offset, buf) = DataBlock(d)
  BY DEF Patched
<1>2. DataBlock(d).kind = "data" /\ DataBlock(d).data = d
  BY DEF DataBlock
<1>3. Len(buf) \in Nat /\ \A i \in Bytes : i \in Nat
  BY DiskAssumption DEF Bytes
<1>4. ASSUME NEW i \in Bytes, i < offset PROVE d[i] = AsData(b).data[i]
  BY <1>3, <1>4
<1>5. ASSUME NEW i \in Bytes, i >= offset, i < offset + Len(buf) PROVE d[i] = buf[i - offset + 1]
  BY <1>3, <1>5
<1> HIDE DEF d
<1> QED
  BY <1>1, <1>2, <1>4, <1>5

LEMMA SameEntry ==
    ASSUME NEW e \in FileEntry, NEW f \in FileEntry, e.fname = f.fname, e.fsize = f.fsize,
           e.nStartBlock = f.nStartBlock
    PROVE  e = f
<1>1. e = [fname |-> e.fname, fsize |-> e.fsize, nStartBlock |-> e.nStartBlock]
  BY DEF FileEntry
<1>2. f = [fname |-> e.fname, fsize |-> e.fsize, nStartBlock |-> e.nStartBlock]
  BY DEF FileEntry
<1> QED
  BY <1>1, <1>2

LEMMA ReadStore == ASSUME FsInv, NEW t \in Threads, ReadBlock(t) PROVE StoreInv'
<1> SUFFICES ASSUME Calm' PROVE StoreInv'
  BY DEF StoreInv
<1> DEFINE c == call[t]
           d == call'[t]
           data == Patched(disk[Seek(c.block)], c.offset, c.buf)
<1>1. /\ Goto(t, "write_dir") /\ pc[t] = "read_block" /\ disk' = disk
      /\ trouble = {} /\ ~(data.kind = "data" /\ data.data[0] = NUL)
  BY DEF ReadBlock, Flag, Calm
<1>2. Calm /\ DiskInv /\ TypeOK /\ KeysApart /\ CallStore(t) /\ SectionInv
  BY <1>1, CalmFacts DEF Calm
<1>3. /\ call' \in [Threads -> Call]
      /\ \A u \in Threads : u # t => call'[u] = call[u]
      /\ d.key = c.key /\ d.new = c.new /\ d.dirBlock = c.dirBlock /\ d.slot = c.slot
      /\ d.offset = c.offset /\ d.buf = c.buf /\ d.block = c.block /\ d.data = data
      /\ d.directory.nFiles = c.directory.nFiles
      /\ \A i \in FileSlots :
            /\ d.directory.files[i].fname = c.directory.files[i].fname
            /\ d.directory.files[i].nStartBlock = c.directory.files[i].nStartBlock
            /\ d.directory.files[i].fsize =
                  IF i = c.slot THEN c.offset + Len(c.buf) ELSE c.directory.files[i].fsize
  BY <1>2, BlockRead
<1>4. pc'[t] = "write_dir" /\ \A u \in Threads : u # t => pc'[u] = pc[u]
  BY <1>1, <1>2, Goes DEF Labels
<1>5. Knows(t) /\ HandFits(t) /\ pc[t] # "idle"
  BY <1>1, <1>2 DEF CallStore, InHand
<1>6. DirOf(t)' = DirOf(t)
  BY <1>1, <1>3 DEF DirOf
<1>7. \A u \in Threads : u # t /\ pc[u] # "idle" => call[u].key # d.key
  BY <1>1, <1>2, <1>3 DEF KeysApart
<1>8. Knows(t)'
  <2>1. PICK e \in Directories : e = c.key[1]
    BY <1>5 DEF Knows
  <2>2. e \in Directories' /\ DirBlockOf(e)' = DirBlockOf(e) /\ e = d.key[1]
    BY <1>1, <1>3, <2>1, RootStays
  <2> QED
    BY <1>3, <1>5, <2>1, <2>2 DEF Knows
<1>9. /\ c.block \in FileBlocks(disk) /\ Seek(c.block) = c.block
      /\ AsData(disk[c.block]).kind = "data" /\ disk[c.block] \in Block
      /\ c.offset \in Nat /\ c.buf \in Seq(Nat)
  BY <1>1, <1>2, CallBlock
<1>10. data = Patched(disk[c.block], c.offset, c.buf)
  BY <1>9
<1>11. /\ data.kind = "data"
       /\ \A i \in Bytes : i < c.offset => data.data[i] = AsData(disk[c.block]).data[i]
  BY <1>9, <1>10, PatchedData
<1>12. ASSUME c.new PROVE c.offset = 0
  <2>1. c.block \in FreeFileBlocks(disk)
    BY <1>1, <1>5, <1>12 DEF HandFits
  <2>2. disk[c.block].kind # "dir"
    BY <1>2, <1>9 DEF SectionInv, Calm
  <2>3. AsData(disk[c.block]).data[0] = NUL
    BY <2>1, <2>2 DEF FreeFileBlocks
  <2>4. 0 \in Bytes
    BY DiskAssumption DEF Bytes
  <2> HIDE DEF data
  <2>5. ~(0 < c.offset)
    BY <1>1, <1>11, <2>3, <2>4
  <2> QED
    BY <1>9, <2>5
<1> HIDE DEF data
<1>13. \A i \in FileSlots : i # c.slot => d.directory.files[i] = c.directory.files[i]
  <2>1. \A i \in FileSlots : /\ d.directory.files[i] \in FileEntry
                             /\ c.directory.files[i] \in FileEntry
    <3>1. c \in Call /\ d \in Call
      BY <1>2, <1>3 DEF TypeOK
    <3> HIDE DEF c, d
    <3> QED
      BY <3>1 DEF Call, Directory
  <2> SUFFICES ASSUME NEW i \in FileSlots, i # c.slot
               PROVE  d.directory.files[i] = c.directory.files[i]
    OBVIOUS
  <2> HIDE DEF c, d
  <2> QED
    BY <1>3, <2>1, SameEntry
<1>14. DataFits(t)'
  <2>1. c.slot \in FileSlots
    BY <1>5 DEF Knows
  <2>2. d.directory.files[d.slot].fsize = d.offset + Len(d.buf)
    BY <1>3, <2>1
  <2>3. d.data = Patched(disk'[d.block], d.offset, d.buf)
    BY <1>1, <1>3, <1>10
  <2>4. d.new => d.offset = 0
    BY <1>3, <1>12
  <2> QED
    BY <2>2, <2>3, <2>4 DEF DataFits
<1>15. HandFits(t)'
  <2>1. c.slot \in FileSlots
    BY <1>5 DEF Knows
  <2>2. d.new => NewFits(t)'
    BY <1>3, <1>5, <1>6 DEF HandFits, NewFits
  <2>3. ~d.new => OldFits(t)'
    BY <1>3, <1>5, <1>6 DEF HandFits, OldFits
  <2>4. \A i \in FileSlots : i # d.slot => d.directory.files[i] = DirOf(t)'.files[i]
    BY <1>3, <1>5, <1>6, <1>13 DEF HandFits
  <2>5. d.directory.files[d.slot].fname = d.key[2] /\ d.directory.files[d.slot].nStartBlock = d.block
    BY <1>1, <1>3, <1>5, <2>1 DEF HandFits
  <2>6. d.buf \in Payloads
    BY <1>3, <1>5 DEF HandFits
  <2> QED
    BY <1>4, <1>14, <2>2, <2>3, <2>4, <2>5, <2>6 DEF HandFits
<1>16. CallStore(t)'
  BY <1>3, <1>4, <1>8, <1>11, <1>15 DEF CallStore
<1> QED
  BY <1>1, <1>2, <1>3, <1>4, <1>7, <1>16, OneCallStore

LEMMA MkdirStore == ASSUME FsInv, NEW d \in DirNames, Mkdir(d) PROVE StoreInv'
<1> SUFFICES ASSUME Calm' PROVE StoreInv'
  BY DEF StoreInv
<1>1. trouble = {} /\ UNCHANGED <<pc, call>>
  BY DEF Mkdir, Calm
<1>2. Calm /\ DiskInv /\ TypeOK /\ KeysApart /\ BlocksFit /\ root \in Root
  BY <1>1, CalmFacts DEF Calm
<1>3. /\ \A b \in DOMAIN disk : b # 0 => disk'[b] = disk[b]
      /\ FileBlocks(disk') = FileBlocks(disk)
      /\ root'.nDirectories = root.nDirectories + 1
  BY <1>2, NewDirectory
<1>4. \A e \in Directories : e \in Directories' /\ DirBlockOf(e)' = DirBlockOf(e)
  BY <1>2, MkdirKeeps
<1>5. ASSUME NEW u \in Threads PROVE CallStore(u)'
  <2>1. pc[u] # "idle" => disk'[call[u].dirBlock] = disk[call[u].dirBlock]
    BY <1>2, <1>3, CallOnDisk
  <2>2. pc[u] \in {"read_block", "write_dir"} => disk'[call[u].block] = disk[call[u].block]
    BY <1>2, <1>3, CallBlock
  <2>3. CallStore(u)
    BY <1>2, CalmFacts
  <2>4. pc'[u] = pc[u] /\ call'[u] = call[u]
    BY <1>1
  <2> QED
    BY <1>3, <1>4, <2>1, <2>2, <2>3, <2>4, CallStoreStays
<1>6. BlocksFit'
  <2>1. \A b \in FileBlocks(disk) : b \in DOMAIN disk /\ b # 0
    BY <1>2, DiskFacts, DiskAssumption
  <2>2. \A b \in 1..MAX_FILES_IN_DIR : b \in DOMAIN disk /\ b # 0
    BY <1>2, DiskFacts
  <2>3. root.nDirectories \in Nat
    BY <1>2, DiskAssumption DEF Root
  <2>4. \A b \in 1..MAX_FILES_IN_DIR : b > root.nDirectories + 1 => b > root.nDirectories
    BY <2>3, DiskAssumption
  <2> QED
    BY <1>2, <1>3, <2>1, <2>2, <2>4 DEF BlocksFit
<1>7. KeysApart'
  BY <1>1, <1>2 DEF KeysApart
<1> QED
  BY <1>5, <1>6, <1>7 DEF StoreInv

LEMMA WriteDirStore == ASSUME FsInv, NEW t \in Threads, WriteDir(t) PROVE StoreInv'
<1> SUFFICES ASSUME Calm' PROVE StoreInv'
  BY DEF StoreInv
<1> DEFINE c == call[t].dirBlock
<1>1. trouble = {} /\ pc[t] = "write_dir"
  BY DEF WriteDir, Calm
<1>2. /\ Calm /\ DiskInv /\ TypeOK /\ KeysApart /\ BlocksFit /\ OneHand
      /\ \A u \in Threads : CallStore(u)
  BY <1>1, CalmFacts DEF Calm
<1>3. /\ FileBlocks(disk') = FileBlocks(disk)
      /\ disk'[c] = call[t].directory /\ call[t].directory \in Directory
      /\ \A b \in DOMAIN disk : b # c => disk'[b] = disk[b]
      /\ pc'[t] = "write_data" /\ UNCHANGED call
      /\ \A u \in Threads : u # t => pc'[u] = pc[u]
  BY <1>2, WrittenDir
<1>4. /\ c \in DOMAIN disk /\ c \notin FileBlocks(disk) /\ c # 0 /\ c <= root.nDirectories /\ c \in Nat
      /\ Knows(t)
  BY <1>1, <1>2, CallOnDisk
<1>5. HandFits(t) /\ InHand(t)
  BY <1>1, <1>2 DEF CallStore, InHand
<1>6. 0 \in DOMAIN disk
  BY <1>2, DiskFacts
<1>7. disk'[0] = disk[0]
  BY <1>3, <1>4, <1>6
<1>8. \A e \in Directories : e \in Directories' /\ DirBlockOf(e)' = DirBlockOf(e)
  BY <1>7, RootStays
<1>9. AsDir(disk'[c]) = call[t].directory
  BY <1>3 DEF AsDir, Zero, Directory
<1>10. ASSUME NEW u \in Threads, call[u].dirBlock # c, u # t PROVE CallStore(u)'
  <2>1. pc[u] # "idle" => disk'[call[u].dirBlock] = disk[call[u].dirBlock]
    BY <1>2, <1>3, <1>10, CallOnDisk
  <2>2. pc[u] \in {"read_block", "write_dir"} => disk'[call[u].block] = disk[call[u].block]
    BY <1>2, <1>3, <1>4, CallBlock
  <2>3. pc'[u] = pc[u] /\ call'[u] = call[u]
    BY <1>3, <1>10
  <2> HIDE DEF c
  <2> QED
    BY <1>2, <1>3, <1>8, <2>1, <2>2, <2>3, CallStoreStays
<1>11. ASSUME NEW u \in Threads, pc'[u] # "idle" PROVE Knows(u)'
  <2>1. Knows(u)
    <3>1. pc[u] # "idle"
      BY <1>1, <1>3, <1>11
    <3> QED
      BY <1>2, <3>1 DEF CallStore
  <2>2. PICK e \in Directories : e = call[u].key[1]
    BY <2>1 DEF Knows
  <2>3. e \in Directories' /\ DirBlockOf(e)' = DirBlockOf(e) /\ e = call'[u].key[1]
    BY <1>3, <1>8, <2>2
  <2> QED
    BY <1>3, <2>1, <2>2, <2>3 DEF Knows
<1>12. ASSUME NEW u \in Threads, call[u].dirBlock = c, u # t PROVE CallStore(u)'
  <2>1. ~InHand(u)
    BY <1>2, <1>5, <1>12 DEF OneHand
  <2>2. pc'[u] = pc[u] /\ ~InHand(u)'
    BY <1>3, <1>12, <2>1 DEF InHand
  <2>3. ASSUME pc[u] = "write_data" PROVE WrittenFits(u)'
    <3>1. WrittenFits(u)
      BY <1>2, <2>3 DEF CallStore
    <3>2. call[t].slot # call[u].slot
      BY <1>1, <1>2, <1>12, <2>3, SlotsApart
    <3>3. call[u].slot \in FileSlots
      BY <1>2, <2>3, CallOnDisk
    <3>4. DirOf(u) = DirOf(t) /\ DirOf(u)' = call[t].directory
      BY <1>3, <1>9, <1>12 DEF DirOf
    <3>5. call[t].directory.files[call[u].slot] = DirOf(t).files[call[u].slot]
      BY <1>5, <3>2, <3>3 DEF HandFits
    <3> QED
      BY <1>3, <3>1, <3>4, <3>5 DEF WrittenFits
  <2>4. pc[u] \in {"write_dir", "write_data"} => call[u].data.kind = "data"
    BY <1>2 DEF CallStore
  <2> QED
    BY <1>3, <1>11, <2>2, <2>3, <2>4 DEF CallStore
<1>13. CallStore(t)'
  <2>1. WrittenFits(t)'
    <3>1. DirOf(t)' = call[t].directory
      BY <1>3, <1>9 DEF DirOf
    <3> QED
      BY <1>1, <1>3, <1>5, <3>1 DEF HandFits, WrittenFits
  <2>2. call[t].data.kind = "data"
    BY <1>1, <1>2 DEF CallStore
  <2>3. ~InHand(t)'
    BY <1>3 DEF InHand
  <2> QED
    BY <1>3, <1>11, <2>1, <2>2, <2>3 DEF CallStore
<1>14. KeysApart'
  <2>1. \A u \in Threads : pc'[u] # "idle" => pc[u] # "idle"
    BY <1>1, <1>3
  <2> QED
    BY <1>2, <1>3, <2>1 DEF KeysApart
<1>15. BlocksFit'
  <2>1. root' = root
    BY <1>7 DEF root
  <2>2. 1..MAX_FILES_IN_DIR \subseteq DOMAIN disk /\ FileBlocks(disk) \subseteq DOMAIN disk
    BY <1>2, DiskFacts
  <2>3. \A b \in FileBlocks(disk) : disk'[b] = disk[b]
    BY <1>3, <1>4, <2>2
  <2>4. \A b \in 1..MAX_FILES_IN_DIR : b > root.nDirectories => disk'[b] = disk[b]
    <3>1. root.nDirectories \in Nat
      BY <1>2, CalmFacts, DiskAssumption DEF Root
    <3>2. \A b \in 1..MAX_FILES_IN_DIR : b > root.nDirectories => b # c
      BY <1>4, <3>1, DiskAssumption
    <3> QED
      BY <1>3, <2>2, <3>2
  <2> QED
    BY <1>2, <1>3, <2>1, <2>3, <2>4 DEF BlocksFit
<1> QED
  BY <1>10, <1>12, <1>13, <1>14, <1>15 DEF StoreInv

LEMMA WriteDataStore == ASSUME FsInv, NEW t \in Threads, WriteData(t) PROVE StoreInv'
<1> SUFFICES ASSUME Calm' PROVE StoreInv'
  BY DEF StoreInv
<1> DEFINE x == call[t].block
<1>1. trouble = {} /\ pc[t] = "write_data"
  BY DEF WriteData, Calm
<1>2. /\ Calm /\ DiskInv /\ TypeOK /\ KeysApart /\ BlocksFit
      /\ \A u \in Threads : CallStore(u)
  BY <1>1, CalmFacts DEF Calm
<1>3. x \in FileBlocks(disk) /\ Seek(x) = x
  BY <1>1, <1>2, CallBlock
<1>4. /\ FileBlocks(disk') = FileBlocks(disk)
      /\ disk'[x] = call[t].data
      /\ \A b \in DOMAIN disk : b # x => disk'[b] = disk[b]
      /\ pc'[t] = "idle"
      /\ \A u \in Threads : u # t => pc'[u] = pc[u] /\ call'[u] = call[u]
  BY <1>2, <1>3, WrittenBlock
<1>5. /\ 0 \in DOMAIN disk /\ 0 \notin FileBlocks(disk) /\ FileBlocks(disk) \subseteq DOMAIN disk
      /\ \A b \in 1..MAX_FILES_IN_DIR : b \in DOMAIN disk \ FileBlocks(disk)
  BY <1>2, DiskFacts, DiskAssumption
<1>6. disk'[0] = disk[0]
  BY <1>3, <1>4, <1>5
<1>7. \A e \in Directories : e \in Directories' /\ DirBlockOf(e)' = DirBlockOf(e)
  BY <1>6, RootStays
<1>8. ASSUME NEW u \in Threads, u # t PROVE CallStore(u)'
  <2>1. pc[u] # "idle" => disk'[call[u].dirBlock] = disk[call[u].dirBlock]
    BY <1>2, <1>3, <1>4, CallOnDisk
  <2>2. ASSUME pc[u] \in {"read_block", "write_dir"}
        PROVE  disk'[call[u].block] = disk[call[u].block]
    <3>1. call[u].block \in DOMAIN disk
      BY <1>2, <2>2, CallBlock
    <3>2. call[u].block # x
      BY <1>1, <1>2, <1>8, <2>2, BlocksApart
    <3> QED
      BY <1>4, <3>1, <3>2
  <2>3. pc'[u] = pc[u] /\ call'[u] = call[u] /\ CallStore(u)
    BY <1>2, <1>4, <1>8
  <2> QED
    BY <1>4, <1>7, <2>1, <2>2, <2>3, CallStoreStays
<1>9. CallStore(t)'
  BY <1>4 DEF CallStore, InHand
<1>10. KeysApart'
  <2>1. \A u \in Threads : pc'[u] = "idle" \/ (pc[u] # "idle" /\ call'[u].key = call[u].key)
    BY <1>4
  <2> QED
    BY <1>2, <2>1, KeysStay
<1>11. BlocksFit'
  <2>1. root' = root
    BY <1>6 DEF root
  <2>2. call[t].data.kind = "data"
    BY <1>1, <1>2 DEF CallStore
  <2>3. AsData(disk'[x]).kind = "data"
    BY <1>4, <2>2 DEF AsData, Zero
  <2>4. \A b \in FileBlocks(disk) : AsData(disk'[b]).kind = "data"
    BY <1>2, <1>4, <1>5, <2>3 DEF BlocksFit
  <2>5. \A b \in 1..MAX_FILES_IN_DIR : disk'[b] = disk[b]
    BY <1>3, <1>4, <1>5
  <2> QED
    BY <1>2, <1>4, <2>1, <2>4, <2>5 DEF BlocksFit
<1> QED
  BY <1>8, <1>9, <1>10, <1>11 DEF StoreInv

LEMMA StoreStep == FsInv /\ [Next]_vars => StoreInv'
<1> SUFFICES ASSUME FsInv, [Next]_vars PROVE StoreInv'
  OBVIOUS
<1>1. CASE Ends
  <2> SUFFICES ASSUME Calm' PROVE StoreInv'
    BY DEF StoreInv
  <2>1. /\ UNCHANGED disk /\ trouble = {}
        /\ \A t \in Threads : pc'[t] = "idle" \/ (pc'[t] = pc[t] /\ call'[t] = call[t])
    <3>1. TypeOK
      BY DEF FsInv, DirInv, DiskInv
    <3> QED
      BY <1>1, <3>1, Ended DEF Calm
  <2>2. KeysApart /\ BlocksFit /\ \A t \in Threads : CallStore(t)
    BY <2>1, CalmFacts DEF Calm
  <2>3. \A d \in Directories : d \in Directories' /\ DirBlockOf(d)' = DirBlockOf(d)
    BY <2>1, RootStays
  <2>4. ASSUME NEW t \in Threads PROVE CallStore(t)'
    <3>1. CASE pc'[t] = "idle"
      BY <3>1 DEF CallStore, InHand
    <3>2. CASE pc'[t] = pc[t] /\ call'[t] = call[t]
      BY <3>2, <2>1, <2>2, <2>3, CallStoreStays
    <3> QED
      BY <3>1, <3>2, <2>1
  <2>5. KeysApart'
    BY <2>1, <2>2, KeysStay
  <2> QED
    BY <2>1, <2>2, <2>4, <2>5, BlocksFitStays DEF StoreInv
<1>2. CASE UNCHANGED vars
  <2> SUFFICES ASSUME Calm' PROVE StoreInv'
    BY DEF StoreInv
  <2>1. UNCHANGED <<disk, pc, call, trouble>>
    BY <1>2 DEF vars
  <2>2. KeysApart /\ BlocksFit /\ \A t \in Threads : CallStore(t)
    BY <2>1, CalmFacts DEF Calm
  <2>3. \A d \in Directories : d \in Directories' /\ DirBlockOf(d)' = DirBlockOf(d)
    BY <2>1, RootStays
  <2>4. \A t \in Threads : CallStore(t)'
    BY <2>1, <2>2, <2>3, CallStoreStays
  <2>5. KeysApart'
    BY <2>1, <2>2 DEF KeysApart
  <2> QED
    BY <2>1, <2>2, <2>4, <2>5, BlocksFitStays DEF StoreInv
<1>3. ASSUME NEW d \in DirNames, Mknod(d) PROVE StoreInv'
  BY <1>3 DEF Mknod, StoreInv, Calm
<1> QED
  BY <1>1, <1>2, <1>3, Steps, MkdirStore, NewStore, OldStore, FindStore, ReadStore, WriteDirStore,
     WriteDataStore

LEMMA InitStore == Init => StoreInv
<1> SUFFICES ASSUME Init PROVE StoreInv
  OBVIOUS
<1>1. \A t \in Threads : pc[t] = "idle"
  BY DEF Init
<1>2. \A b \in DOMAIN disk : disk[b] = Zero
  BY DEF Init
<1>3. TypeOK
  BY InitDisk DEF DiskInv
<1>4. BlocksFit
  <2>1. AsData(Zero).kind = "data"
    BY DEF AsData, DataBlock
  <2> QED
    BY <1>2, <1>3, <2>1, DiskFacts DEF BlocksFit
<1> QED
  BY <1>1, <1>4 DEF StoreInv, KeysApart, CallStore, InHand

LEMMA InitFs == Init => FsInv
BY InitDir, InitOwner, InitRace, InitStore DEF FsInv

LEMMA StepFs == FsInv /\ [Next]_vars => FsInv'
<1>1. FsInv => DirInv /\ OwnerInv /\ RaceInv
  BY DEF FsInv
<1> QED
  BY <1>1, StepDir, OwnerStep, RaceStep, StoreStep DEF FsInv

-----------------------------------------------------------------------------
(* What the calls show of the store.  A file is found in the slot that has *)
(* its name, and in no other.                                              *)

DirAt(d) == AsDir(disk[DirBlockOf(d)])
View(k) == Contents(Settled, EntryOf(k))

FileTable ==
    /\ \A k \in Directories \X FileNames, i \in FileSlots :
          DirAt(k[1]).files[i].fname = k[2] => k \in Files /\ EntryOf(k) = DirAt(k[1]).files[i]
    /\ \A k \in Files : /\ k \in Directories \X FileNames
                        /\ \E i \in FileSlots : DirAt(k[1]).files[i].fname = k[2]
                        /\ EntryOf(k).nStartBlock \in FileBlocks(disk)
                        /\ Seek(EntryOf(k).nStartBlock) = EntryOf(k).nStartBlock
    /\ \A k, l \in Files : EntryOf(k).nStartBlock = EntryOf(l).nStartBlock => k = l

LEMMA FilesInTable == FsInv /\ Calm => FileTable
<1> SUFFICES ASSUME FsInv, Calm PROVE FileTable
  OBVIOUS
<1>1. DirInv /\ OwnerInv /\ DiskInv /\ TypeOK
  BY CalmFacts DEF FsInv
<1>2. ASSUME NEW k \in Directories \X FileNames, NEW i \in FileSlots,
             DirAt(k[1]).files[i].fname = k[2]
      PROVE  k \in Files /\ EntryOf(k) = DirAt(k[1]).files[i]
  <2> DEFINE dir == AsDir(disk[DirBlockOf(k[1])])
             found == ReadFinds(dir, k[2])
  <2>1. k[2] # NoName /\ k[1] \in Directories
    BY DiskAssumption
  <2>2. DirReadable(k[1]) /\ dir.nFiles \in Nat /\ Packed(dir.files, dir.nFiles)
    BY <2>1, DirectoryOnDisk
  <2>3. dir = DirAt(k[1])
    BY DEF DirAt
  <2> HIDE DEF dir
  <2>4. i \in found
    BY <1>2, <2>1, <2>2, <2>3, PackedFinds DEF Packed
  <2>5. \A j \in found : j = i
    BY <1>2, <2>1, <2>2, <2>3, <2>4, PackedFinds DEF Packed
  <2>6. found \subseteq Nat
    BY DiskAssumption DEF ReadFinds
  <2>7. First(found) = i
    <3> HIDE DEF found
    <3> QED
      BY <2>4, <2>5, <2>6, FirstIsFirst
  <2>8. k \in Files
    BY <2>2, <2>4 DEF Files, dir
  <2>9. EntryOf(k) = dir.files[First(found)]
    BY DEF EntryOf, dir
  <2> QED
    BY <2>3, <2>7, <2>8, <2>9
<1>3. ASSUME NEW k \in Files
      PROVE  /\ k \in Directories \X FileNames
             /\ \E i \in FileSlots : DirAt(k[1]).files[i].fname = k[2]
  <2>1. k \in Directories \X FileNames /\ ReadFinds(DirAt(k[1]), k[2]) # {}
    BY DEF Files, DirAt
  <2>2. DirAt(k[1]).nFiles \in Nat /\ Packed(DirAt(k[1]).files, DirAt(k[1]).nFiles)
    BY <2>1, DirectoryOnDisk DEF DirAt
  <2> QED
    BY <2>1, <2>2, PackedFinds
<1>4. OneOwner
  BY <1>1, OwnerFollows
<1>5. /\ \A k \in Files : EntryOf(k).nStartBlock \in FileBlocks(disk)
      /\ \A k, l \in Files : EntryOf(k).nStartBlock = EntryOf(l).nStartBlock => k = l
  BY <1>4 DEF OneOwner, Calm
<1>6. \A b \in FileBlocks(disk) : Seek(b) = b
  BY <1>1, DiskFacts, DiskAssumption DEF Seek
<1> QED
  BY <1>2, <1>3, <1>5, <1>6 DEF FileTable

(* The settled disk has the data of the one thread that will write it.     *)
Writes(t, x) == pc[t] = "write_data" /\ call[t].block = x

SettledTable ==
    \A x \in DOMAIN disk :
        /\ \A t \in Threads : Writes(t, x) => Settled[x] = call[t].data
        /\ (\A t \in Threads : ~Writes(t, x)) => Settled[x] = disk[x]

LEMMA SettledInTable == FsInv /\ Calm => SettledTable
<1> SUFFICES ASSUME FsInv, Calm, NEW x \in DOMAIN disk
             PROVE  /\ \A t \in Threads : Writes(t, x) => Settled[x] = call[t].data
                    /\ (\A t \in Threads : ~Writes(t, x)) => Settled[x] = disk[x]
  BY DEF SettledTable
<1>1. Settled[x] = IF \E t \in Threads : Writes(t, x)
                   THEN call[CHOOSE t \in Threads : Writes(t, x)].data ELSE disk[x]
  BY DEF Settled, Writes
<1>2. ASSUME NEW t \in Threads, Writes(t, x) PROVE Settled[x] = call[t].data
  <2>1. \A u \in Threads : Writes(u, x) => u = t
    BY <1>2, BlocksApart DEF Writes
  <2>2. (CHOOSE u \in Threads : Writes(u, x)) = t
    BY <1>2, <2>1
  <2> QED
    BY <1>1, <1>2, <2>2
<1> QED
  BY <1>1, <1>2

LEMMA SettledStays ==
    ASSUME SettledTable, SettledTable', NEW x \in DOMAIN disk, DOMAIN disk' = DOMAIN disk,
           disk'[x] = disk[x],
           \A t \in Threads : (Writes(t, x)' <=> Writes(t, x)) /\ (Writes(t, x) => call'[t] = call[t])
    PROVE  Settled'[x] = Settled[x]
<1>1. CASE \E t \in Threads : Writes(t, x)
  <2>1. PICK t \in Threads : Writes(t, x)
    BY <1>1
  <2>2. Settled[x] = call[t].data
    BY <2>1 DEF SettledTable
  <2>3. Settled'[x] = call'[t].data
    BY <2>1 DEF SettledTable
  <2> QED
    BY <2>1, <2>2, <2>3
<1>2. CASE \A t \in Threads : ~Writes(t, x)
  <2>1. Settled[x] = disk[x]
    BY <1>2 DEF SettledTable
  <2>2. Settled'[x] = disk'[x]
    BY <1>2 DEF SettledTable
  <2> QED
    BY <2>1, <2>2
<1> QED
  BY <1>1, <1>2

LEMMA ViewStays ==
    ASSUME NEW k, EntryOf(k)' = EntryOf(k),
           Settled'[Seek(EntryOf(k).nStartBlock)] = Settled[Seek(EntryOf(k).nStartBlock)]
    PROVE  View(k)' = View(k)
<1> DEFINE e == EntryOf(k)
<1>1. View(k) = [i \in 1..e.fsize |-> AsData(Settled[Seek(e.nStartBlock)]).data[i - 1]]
  BY DEF View, Contents
<1>2. View(k)' = [i \in 1..e'.fsize |-> AsData(Settled'[Seek(e'.nStartBlock)]).data[i - 1]]
  BY DEF View, Contents
<1> QED
  BY <1>1, <1>2

(* Two states that show the same store. *)
SameStore ==
    /\ Directories' = Directories /\ Files' = Files
    /\ \A k \in Files : View(k)' = View(k)

(* A step that leaves the root, the directories, and all data, settled.    *)
LEMMA QuietStep ==
    ASSUME FileTable, RootReadable' = RootReadable, Directories' = Directories,
           \A d : DirBlockOf(d)' = DirBlockOf(d),
           \A d \in Directories : disk'[DirBlockOf(d)] = disk[DirBlockOf(d)],
           \A x \in FileBlocks(disk) : Settled'[x] = Settled[x]
    PROVE  SameStore
<1>1. \A d \in Directories : DirReadable(d)' = DirReadable(d)
  BY DEF DirReadable
<1>2. \A d \in Directories : AsDir(disk[DirBlockOf(d)])' = AsDir(disk[DirBlockOf(d)])
  OBVIOUS
<1>3. Files' = Files
  <2>1. \A k \in Directories \X FileNames : k[1] \in Directories
    OBVIOUS
  <2> QED
    BY <1>1, <1>2, <2>1 DEF Files
<1>4. ASSUME NEW k \in Files PROVE View(k)' = View(k)
  <2>1. /\ k[1] \in Directories /\ EntryOf(k).nStartBlock \in FileBlocks(disk)
        /\ Seek(EntryOf(k).nStartBlock) = EntryOf(k).nStartBlock
    BY <1>4 DEF FileTable
  <2>2. EntryOf(k)' = EntryOf(k)
    BY <1>2, <2>1 DEF EntryOf
  <2>3. Settled'[Seek(EntryOf(k).nStartBlock)] = Settled[Seek(EntryOf(k).nStartBlock)]
    BY <2>1
  <2> QED
    BY <2>2, <2>3, ViewStays
<1> QED
  BY <1>3, <1>4 DEF SameStore

(* A step between the reads and writes of a call. *)
LEMMA IdleStep ==
    ASSUME FsInv, Calm, FsInv', Calm', UNCHANGED disk,
           \A t \in Threads : pc[t] = "write_data" \/ pc'[t] = "write_data" =>
               pc'[t] = pc[t] /\ call'[t] = call[t]
    PROVE  SameStore
<1>1. FileTable /\ SettledTable
  BY FilesInTable, SettledInTable
<1>2. SettledTable'
  BY SettledInTable, PTL
<1>3. FileBlocks(disk) \subseteq DOMAIN disk
  BY CalmFacts, DiskFacts
<1>4. ASSUME NEW x \in FileBlocks(disk) PROVE Settled'[x] = Settled[x]
  <2>1. \A t \in Threads :
            (Writes(t, x)' <=> Writes(t, x)) /\ (Writes(t, x) => call'[t] = call[t])
    BY DEF Writes
  <2>2. x \in DOMAIN disk
    BY <1>3
  <2> QED
    BY <1>1, <1>2, <2>1, <2>2, SettledStays
<1>5. RootReadable' = RootReadable /\ Directories' = Directories /\ \A d : DirBlockOf(d)' = DirBlockOf(d)
  BY RootStays
<1> QED
  BY <1>1, <1>4, <1>5, QuietStep

LEMMA CallSame ==
    ASSUME FsInv, Calm, FsInv', Calm', UNCHANGED disk, NEW t \in Threads,
           pc[t] # "write_data", pc'[t] # "write_data",
           \A u \in Threads : u # t => pc'[u] = pc[u] /\ call'[u] = call[u]
    PROVE  SameStore
<1>1. \A u \in Threads : pc[u] = "write_data" \/ pc'[u] = "write_data" =>
          pc'[u] = pc[u] /\ call'[u] = call[u]
  OBVIOUS
<1> QED
  BY <1>1, IdleStep

LEMMA BeginsSame ==
    ASSUME FsInv, Calm, FsInv', Calm', NEW t \in Threads, NEW k \in DirNames \X FileNames,
           NEW offset \in Offsets, NEW buf \in Payloads,
           WriteNew(t, k, offset, buf) \/ WriteOld(t, k, offset, buf)
    PROVE  SameStore
<1>1. DiskInv /\ TypeOK
  BY CalmFacts
<1>2. \A u \in Threads : u # t => call'[u] = call[u]
  BY <1>1, NewCall, OldCall
<1>3. /\ UNCHANGED disk /\ pc[t] = "idle"
      /\ Goto(t, "find_block") \/ Goto(t, "read_block")
  BY Zenon DEF WriteNew, WriteOld, WriteBegins
<1>4. pc'[t] # "write_data" /\ \A u \in Threads : u # t => pc'[u] = pc[u]
  BY <1>1, <1>3, Goes DEF Labels
<1> QED
  BY <1>2, <1>3, <1>4, CallSame

LEMMA ReadsSame ==
    ASSUME FsInv, Calm, FsInv', Calm', NEW t \in Threads, FindBlock(t) \/ ReadBlock(t)
    PROVE  SameStore
<1>1. DiskInv /\ TypeOK
  BY CalmFacts
<1>2. \A u \in Threads : u # t => call'[u] = call[u]
  BY <1>1, FoundBlock, BlockRead
<1>3. /\ UNCHANGED disk /\ pc[t] # "write_data"
      /\ Goto(t, "read_block") \/ Goto(t, "write_dir")
  BY DEF FindBlock, ReadBlock
<1>4. pc'[t] # "write_data" /\ \A u \in Threads : u # t => pc'[u] = pc[u]
  BY <1>1, <1>3, Goes DEF Labels
<1> QED
  BY <1>2, <1>3, <1>4, CallSame

LEMMA EndSame == ASSUME FsInv, Calm, FsInv', Calm', Ends PROVE SameStore
<1>1. UNCHANGED disk /\ \A t \in Threads : pc[t] = "write_data" \/ pc'[t] = "write_data" =>
                                                pc'[t] = pc[t] /\ call'[t] = call[t]
  <2>1. TypeOK
    BY CalmFacts
  <2> QED
    BY <2>1, Ended DEF Calm
<1> QED
  BY <1>1, IdleStep

(* The data goes where it is settled. *)
LEMMA WriteDataSame ==
    ASSUME FsInv, Calm, FsInv', Calm', NEW t \in Threads, WriteData(t)
    PROVE  SameStore
<1>0. PICK x : x = call[t].block
  OBVIOUS
<1>1. FileTable /\ SettledTable /\ DiskInv /\ TypeOK
  BY FilesInTable, SettledInTable, CalmFacts
<1>2. SettledTable'
  BY SettledInTable, PTL
<1>3. pc[t] = "write_data"
  BY DEF WriteData
<1>4. x \in FileBlocks(disk) /\ Seek(x) = x
  BY <1>0, <1>3, CallBlock
<1>5. /\ DOMAIN disk' = DOMAIN disk
      /\ disk'[x] = call[t].data
      /\ \A b \in DOMAIN disk : b # x => disk'[b] = disk[b]
      /\ pc'[t] = "idle"
      /\ \A u \in Threads : u # t => pc'[u] = pc[u] /\ call'[u] = call[u]
  BY <1>0, <1>1, <1>4, WrittenBlock
<1>6. 0 \in DOMAIN disk /\ 0 \notin FileBlocks(disk) /\ FileBlocks(disk) \subseteq DOMAIN disk
  BY <1>1, DiskFacts, DiskAssumption
<1>7. RootReadable' = RootReadable /\ Directories' = Directories /\ \A d : DirBlockOf(d)' = DirBlockOf(d)
  <2>1. disk'[0] = disk[0]
    BY <1>4, <1>5, <1>6
  <2> QED
    BY <2>1, RootStays
<1>8. \A d \in Directories : disk'[DirBlockOf(d)] = disk[DirBlockOf(d)]
  BY <1>4, <1>5, DirectoryOnDisk
<1>9. Settled'[x] = Settled[x]
  <2>1. Settled[x] = call[t].data
    BY <1>0, <1>1, <1>3, <1>4, <1>6 DEF SettledTable, Writes
  <2>2. ASSUME NEW u \in Threads PROVE ~Writes(u, x)'
    <3>1. CASE u = t
      BY <1>5, <3>1 DEF Writes
    <3>2. CASE u # t
      <4>1. pc[u] = "write_data" => call[u].block # x
        BY <1>0, <1>3, <3>2, BlocksApart
      <4> QED
        BY <1>5, <3>2, <4>1 DEF Writes
    <3> QED
      BY <3>1, <3>2
  <2>3. Settled'[x] = disk'[x]
    BY <1>2, <1>4, <1>5, <1>6, <2>2 DEF SettledTable
  <2> QED
    BY <1>5, <2>1, <2>3
<1>10. ASSUME NEW y \in FileBlocks(disk), y # x PROVE Settled'[y] = Settled[y]
  <2>1. y \in DOMAIN disk /\ disk'[y] = disk[y]
    BY <1>5, <1>6, <1>10
  <2>2. ASSUME NEW u \in Threads
        PROVE  (Writes(u, y)' <=> Writes(u, y)) /\ (Writes(u, y) => call'[u] = call[u])
    BY <1>0, <1>3, <1>5, <1>10 DEF Writes
  <2> QED
    BY <1>1, <1>2, <1>5, <2>1, <2>2, SettledStays
<1> QED
  BY <1>1, <1>7, <1>8, <1>9, <1>10, QuietStep

(* A file whose entry a step leaves alone. *)
LEMMA EntryStays ==
    ASSUME FileTable, FileTable', NEW k \in Directories \X FileNames,
           k \in Directories' \X FileNames,
           \A i \in FileSlots :
               DirAt(k[1]).files[i].fname = k[2] \/ DirAt(k[1])'.files[i].fname = k[2] =>
                   DirAt(k[1])'.files[i] = DirAt(k[1]).files[i]
    PROVE  (k \in Files' <=> k \in Files) /\ (k \in Files => EntryOf(k)' = EntryOf(k))
<1>1. ASSUME k \in Files PROVE k \in Files' /\ EntryOf(k)' = EntryOf(k)
  <2>1. PICK i \in FileSlots : DirAt(k[1]).files[i].fname = k[2]
    BY <1>1 DEF FileTable
  <2>2. EntryOf(k) = DirAt(k[1]).files[i]
    BY <2>1 DEF FileTable
  <2>3. DirAt(k[1])'.files[i] = DirAt(k[1]).files[i]
    BY <2>1
  <2>4. k \in Files' /\ EntryOf(k)' = DirAt(k[1])'.files[i]
    BY <2>1, <2>3 DEF FileTable
  <2> QED
    BY <2>2, <2>3, <2>4
<1>2. ASSUME k \in Files' PROVE k \in Files
  <2>1. PICK i \in FileSlots : DirAt(k[1])'.files[i].fname = k[2]
    BY <1>2 DEF FileTable
  <2>2. DirAt(k[1]).files[i].fname = k[2]
    BY <2>1
  <2> QED
    BY <2>2 DEF FileTable
<1> QED
  BY <1>1, <1>2

(* mkdir makes a directory without a file. *)
LEMMA MkdirShows ==
    ASSUME FsInv, Calm, FsInv', Calm', NEW d \in DirNames, Mkdir(d)
    PROVE  /\ d \notin Directories /\ Directories' = Directories \union {d}
           /\ Files' = Files
           /\ \A k \in Files : View(k)' = View(k)
<1> DEFINE n == root.nDirectories
<1>1. FileTable /\ SettledTable /\ DiskInv /\ TypeOK /\ RootReadable /\ BlocksFit
  BY FilesInTable, SettledInTable, CalmFacts
<1>2. FileTable' /\ SettledTable'
  BY FilesInTable, SettledInTable, PTL
<1>3. /\ n \in DirSlots /\ root \in Root
      /\ \A i \in DirSlots : i < n => root.directories[i].dname # d
      /\ DOMAIN disk' = DOMAIN disk /\ FileBlocks(disk') = FileBlocks(disk)
      /\ \A b \in DOMAIN disk : b # 0 => disk'[b] = disk[b]
      /\ root'.nDirectories = n + 1
      /\ \A i \in DirSlots : root'.directories[i] =
            IF i = n THEN [dname |-> d, nStartBlock |-> n + 1] ELSE root.directories[i]
      /\ trouble' = trouble \union Flag("dirs", n + 1 >= FirstFileBlock)
  BY <1>1, NewDirectory
<1>4. RootReadable' /\ DiskInv'
  <2>1. DiskInv'
    BY <1>1, MkdirDisk
  <2>2. disk'[0].kind = "root"
    BY <1>1, NewDirectory
  <2>3. RootReadable'
    BY <2>2 DEF RootReadable, root, AsRoot, Zero
  <2> QED
    BY <2>1, <2>3
<1>5. n \in Nat /\ n + 1 <= MAX_FILES_IN_DIR
  <2>1. n \in Nat
    BY <1>3, DiskAssumption DEF DirSlots
  <2>2. ~(n + 1 >= FirstFileBlock)
    BY <1>3 DEF Calm, Flag
  <2> QED
    BY <2>1, <2>2, DiskAssumption DEF FirstFileBlock
<1>6. DirSlots \subseteq Nat
  BY DiskAssumption DEF DirSlots
<1>7. /\ Directories = {root.directories[i].dname : i \in {j \in DirSlots : j < n}}
      /\ Directories' = {root'.directories[i].dname : i \in {j \in DirSlots : j < n + 1}}
  BY <1>1, <1>3, <1>4 DEF Directories
<1>8. d \notin Directories
  BY <1>3, <1>7
<1> HIDE DEF n
<1>9. {j \in DirSlots : j < n + 1} = {j \in DirSlots : j < n} \union {n}
  <2>1. \A j \in DirSlots : j < n + 1 <=> j < n \/ j = n
    BY <1>5, <1>6
  <2>2. n \in DirSlots
    BY <1>3
  <2> QED
    BY <2>1, <2>2
<1>10. /\ \A j \in DirSlots : j < n => root'.directories[j].dname = root.directories[j].dname
       /\ root'.directories[n].dname = d
  <2>1. root'.directories[n] = [dname |-> d, nStartBlock |-> n + 1]
    BY <1>3
  <2>2. \A j \in DirSlots : j < n => j # n
    BY <1>5, <1>6
  <2>3. \A j \in DirSlots : j < n => root'.directories[j] = root.directories[j]
    BY <1>3, <2>2
  <2> QED
    BY <2>1, <2>3
<1>11. Directories' = Directories \union {d}
  <2> DEFINE S == {j \in DirSlots : j < n}
             T == {j \in DirSlots : j < n + 1}
             old(i) == root.directories[i].dname
             new(i) == root'.directories[i].dname
  <2>1. Directories = {old(i) : i \in S} /\ Directories' = {new(i) : i \in T}
    BY <1>7
  <2>2. T = S \union {n} /\ new(n) = d /\ \A j \in S : new(j) = old(j)
    BY <1>9, <1>10
  <2> HIDE DEF S, T, old, new
  <2> QED
    BY <2>1, <2>2
<1>12. DirBlockOf(d)' = n + 1
  <2>1. RootPlaces'
    BY <1>4, RootFinds, PTL
  <2>2. n < root'.nDirectories /\ root'.directories[n].dname = d
    BY <1>3, <1>5
  <2> QED
    BY <1>3, <2>1, <2>2 DEF RootPlaces
<1>13. \A e \in Directories : DirBlockOf(e)' = DirBlockOf(e) /\ DirAt(e)' = DirAt(e)
  <2> SUFFICES ASSUME NEW e \in Directories PROVE DirBlockOf(e)' = DirBlockOf(e) /\ DirAt(e)' = DirAt(e)
    OBVIOUS
  <2>1. DirBlockOf(e)' = DirBlockOf(e)
    BY <1>1, MkdirKeeps
  <2>2. PICK b : b = DirBlockOf(e)
    OBVIOUS
  <2>3. disk'[b] = disk[b]
    BY <1>3, <2>2, DirectoryOnDisk
  <2> QED
    BY <2>1, <2>2, <2>3 DEF DirAt
<1>14. \A i \in FileSlots : DirAt(d)'.files[i].fname = NoName
  <2>1. n + 1 \in 1..MAX_FILES_IN_DIR
    BY <1>5, DiskAssumption
  <2>2. n + 1 \in DOMAIN disk /\ n + 1 # 0
    BY <1>1, <1>5, <2>1, DiskFacts
  <2>3. disk[n + 1] = Zero
    BY <1>1, <1>5, <2>1 DEF BlocksFit, n
  <2>4. disk'[n + 1] = Zero
    BY <1>3, <2>2, <2>3
  <2>5. DirAt(d)' = AsDir(Zero)
    BY <1>12, <2>4 DEF DirAt
  <2> QED
    BY <2>5 DEF AsDir, DirBlock, NoFile
<1>15. ASSUME NEW k \in Directories \X FileNames
       PROVE  (k \in Files' <=> k \in Files) /\ (k \in Files => EntryOf(k)' = EntryOf(k))
  <2>1. k \in Directories' \X FileNames /\ DirAt(k[1])' = DirAt(k[1])
    BY <1>11, <1>13
  <2> QED
    BY <1>1, <1>2, <2>1, EntryStays
<1>16. ASSUME NEW k \in Files' PROVE k \in Directories \X FileNames
  <2>1. /\ k \in Directories' \X FileNames
        /\ \E i \in FileSlots : DirAt(k[1])'.files[i].fname = k[2]
    BY <1>2 DEF FileTable
  <2>2. k[2] \in FileNames /\ k[2] # NoName /\ k = <<k[1], k[2]>> /\ k[1] \in Directories'
    BY <2>1, DiskAssumption
  <2>3. k[1] # d
    BY <1>14, <2>1, <2>2
  <2> QED
    BY <1>11, <2>2, <2>3
<1>17. Files' = Files
  <2>1. \A k \in Files : k \in Directories \X FileNames
    BY <1>1 DEF FileTable
  <2> QED
    BY <1>15, <1>16, <2>1
<1>18. ASSUME NEW k \in Files PROVE View(k)' = View(k)
  <2>1. /\ k \in Directories \X FileNames /\ EntryOf(k).nStartBlock \in FileBlocks(disk)
        /\ Seek(EntryOf(k).nStartBlock) = EntryOf(k).nStartBlock
    BY <1>1 DEF FileTable
  <2>2. EntryOf(k)' = EntryOf(k)
    BY <1>15, <2>1
  <2>3. PICK x : x = EntryOf(k).nStartBlock
    OBVIOUS
  <2>4. x \in DOMAIN disk /\ disk'[x] = disk[x]
    BY <1>1, <1>3, <2>1, <2>3, DiskFacts, DiskAssumption
  <2>5. UNCHANGED <<pc, call>>
    BY DEF Mkdir
  <2>6. Settled'[x] = Settled[x]
    <3>1. \A t \in Threads :
              (Writes(t, x)' <=> Writes(t, x)) /\ (Writes(t, x) => call'[t] = call[t])
      BY <2>5 DEF Writes
    <3> QED
      BY <1>1, <1>2, <1>3, <2>4, <3>1, SettledStays
  <2> QED
    BY <2>1, <2>2, <2>3, <2>6, ViewStays
<1> QED
  BY <1>8, <1>11, <1>17, <1>18

(* What an overwrite makes of a file, byte by byte. *)
LEMMA Spliced ==
    ASSUME NEW old \in Seq(Nat), NEW buf \in Seq(Nat), NEW m \in Nat, m <= Len(old),
           NEW new \in Seq(Nat), Len(new) = m + Len(buf),
           \A n \in 1..m + Len(buf) : new[n] = IF n <= m THEN old[n] ELSE buf[n - m]
    PROVE  new = SubSeq(old, 1, m) \o buf
<1> DEFINE head == SubSeq(old, 1, m)
           all == head \o buf
<1>1. Len(old) \in Nat /\ Len(buf) \in Nat /\ \A n \in 1..Len(old) : old[n] \in Nat
  OBVIOUS
<1>2. \A n \in 1..m : old[n] \in Nat
  BY <1>1
<1>3. head \in Seq(Nat) /\ Len(head) = m /\ \A n \in 1..m : head[n] = old[n]
  <2>1. /\ SubSeq(old, 1, m) \in Seq(Nat)
        /\ Len(SubSeq(old, 1, m)) = IF 1 <= m THEN m - 1 + 1 ELSE 0
        /\ \A i \in 1..m - 1 + 1 : SubSeq(old, 1, m)[i] = old[1 + i - 1]
    BY <1>2, SubSeqProperties
  <2> QED
    BY <2>1
<1> HIDE DEF head
<1>4. /\ all \in Seq(Nat) /\ Len(all) = m + Len(buf)
      /\ \A n \in 1..m + Len(buf) : all[n] = IF n <= m THEN head[n] ELSE buf[n - m]
  BY <1>3, ConcatProperties
<1> HIDE DEF all
<1>5. \A n \in 1..Len(new) : new[n] = all[n]
  <2> SUFFICES ASSUME NEW n \in 1..m + Len(buf) PROVE new[n] = all[n]
    OBVIOUS
  <2>1. CASE n <= m
    <3>1. n \in 1..m
      BY <1>1, <2>1
    <3> QED
      BY <1>3, <1>4, <2>1, <3>1
  <2>2. CASE ~(n <= m)
    BY <1>4, <2>2
  <2> QED
    BY <2>1, <2>2
<1>6. new = all
  BY <1>4, <1>5, SeqEqual
<1> QED
  BY <1>6 DEF all, head

LEMMA ByIndex ==
    ASSUME NEW n \in Nat, NEW f, \A i \in 1..n : f[i - 1] \in Nat
    PROVE  /\ [i \in 1..n |-> f[i - 1]] \in Seq(Nat) /\ Len([i \in 1..n |-> f[i - 1]]) = n
           /\ \A i \in 1..n : [j \in 1..n |-> f[j - 1]][i] = f[i - 1]
OBVIOUS

(* What write shows when it writes the directory: its own file, with the   *)
(* data that is still to come, and every other file as it was.             *)
LEMMA WriteDirShows ==
    ASSUME FsInv, Calm, FsInv', Calm', NEW t \in Threads, WriteDir(t),
           NEW k, k = call[t].key, NEW x, x = call[t].block
    PROVE  /\ k \in DirNames \X FileNames /\ k[1] \in Directories
           /\ Directories' = Directories
           /\ Files' = Files \union {k}
           /\ \A l \in Files : l # k => View(l)' = View(l)
           /\ EntryOf(k)' = call[t].directory.files[call[t].slot]
           /\ EntryOf(k)'.nStartBlock = x /\ Seek(x) = x
           /\ Settled'[x] = call[t].data /\ Settled[x] = disk[x]
           /\ DirAt(k[1]) = DirOf(t) /\ HandFits(t) /\ DataFits(t)
<1>1. /\ FileTable /\ SettledTable /\ DiskInv /\ TypeOK
      /\ FileTable' /\ SettledTable'
  BY FilesInTable, SettledInTable, CalmFacts, PTL
<1>2. pc[t] = "write_dir" /\ CallStore(t)
  BY CalmFacts DEF WriteDir
<1>3. Knows(t) /\ HandFits(t) /\ DataFits(t)
  BY <1>2 DEF CallStore, InHand, HandFits
<1>4. PICK b : b = call[t].dirBlock
  OBVIOUS
<1>5. PICK i : i = call[t].slot
  OBVIOUS
<1>6. /\ b \in DOMAIN disk /\ b \notin FileBlocks(disk) /\ b # 0
      /\ i \in FileSlots /\ i \in Nat /\ k[1] \in DirNames /\ k[2] \in FileNames
      /\ k[2] # NoName /\ k = <<k[1], k[2]>>
      /\ Packed(DirOf(t).files, DirOf(t).nFiles)
  BY <1>2, <1>4, <1>5, CallOnDisk
<1>7. k[1] \in Directories /\ DirBlockOf(k[1]) = b
  BY <1>3, <1>4 DEF Knows
<1>8. x \in FileBlocks(disk) /\ x \in DOMAIN disk /\ Seek(x) = x
  BY <1>2, CallBlock
<1>9. /\ DOMAIN disk' = DOMAIN disk /\ FileBlocks(disk') = FileBlocks(disk)
      /\ disk'[b] = call[t].directory /\ call[t].directory \in Directory
      /\ \A c \in DOMAIN disk : c # b => disk'[c] = disk[c]
      /\ pc'[t] = "write_data" /\ \A u \in Threads : u # t => pc'[u] = pc[u]
      /\ UNCHANGED call
  BY <1>1, <1>4, WrittenDir
<1>10. Directories' = Directories /\ \A d : DirBlockOf(d)' = DirBlockOf(d)
  <2>1. disk'[0] = disk[0]
    BY <1>1, <1>6, <1>9, DiskFacts
  <2> QED
    BY <2>1, RootStays
<1>11. DirAt(k[1]) = DirOf(t)
  BY <1>4, <1>7 DEF DirAt, DirOf
<1>12. DirAt(k[1])' = call[t].directory
  <2>1. disk'[b] # Zero
    BY <1>9 DEF Directory, Zero
  <2> QED
    BY <1>7, <1>9, <1>10, <2>1 DEF DirAt, AsDir
<1>13. /\ call[t].directory.files[i].fname = k[2] /\ call[t].directory.files[i].nStartBlock = x
       /\ \A j \in FileSlots : j # i => call[t].directory.files[j] = DirOf(t).files[j]
  BY <1>2, <1>3, <1>5 DEF HandFits
<1>14. k \in Files' /\ EntryOf(k)' = call[t].directory.files[i]
  <2>1. k \in Directories' \X FileNames
    BY <1>6, <1>7, <1>10
  <2>2. DirAt(k[1])'.files[i].fname = k[2]
    BY <1>12, <1>13
  <2> QED
    BY <1>1, <1>6, <1>12, <2>1, <2>2 DEF FileTable
<1>15. DirOf(t).files[i].fname \in {k[2], NoName}
  <2>1. CASE call[t].new
    <3>1. DirOf(t).nFiles = i
      BY <1>3, <1>5, <2>1 DEF HandFits, NewFits
    <3> QED
      BY <1>6, <3>1 DEF Packed
  <2>2. CASE ~call[t].new
    BY <1>3, <1>5, <2>2 DEF HandFits, OldFits
  <2> QED
    BY <2>1, <2>2
<1>16. ASSUME NEW l \in Directories \X FileNames, l # k
       PROVE  (l \in Files' <=> l \in Files) /\ (l \in Files => EntryOf(l)' = EntryOf(l))
  <2>1. /\ l \in Directories' \X FileNames /\ l[1] \in Directories
        /\ l = <<l[1], l[2]>> /\ l[2] # NoName
    BY <1>10, <1>16, DiskAssumption
  <2>2. CASE l[1] = k[1]
    <3>1. l[2] # k[2]
      BY <1>6, <1>16, <2>1, <2>2
    <3>2. ASSUME NEW j \in FileSlots,
                 DirAt(l[1]).files[j].fname = l[2] \/ DirAt(l[1])'.files[j].fname = l[2]
          PROVE  DirAt(l[1])'.files[j] = DirAt(l[1]).files[j]
      <4>1. DirAt(l[1]) = DirOf(t) /\ DirAt(l[1])' = call[t].directory
        BY <1>11, <1>12, <2>2
      <4>2. j # i
        BY <1>13, <1>15, <2>1, <3>1, <3>2, <4>1
      <4> QED
        BY <1>13, <4>1, <4>2
    <3> QED
      BY <1>1, <2>1, <3>2, EntryStays
  <2>3. CASE l[1] # k[1]
    <3>1. PICK c : c = DirBlockOf(l[1])
      OBVIOUS
    <3>2. c # b
      BY <1>1, <1>7, <2>1, <2>3, <3>1, SameDirectory
    <3>3. c \in DOMAIN disk
      BY <2>1, <3>1, DirectoryOnDisk
    <3>4. DirAt(l[1])' = DirAt(l[1])
      BY <1>9, <1>10, <3>1, <3>2, <3>3 DEF DirAt
    <3> QED
      BY <1>1, <2>1, <3>4, EntryStays
  <2> QED
    BY <2>2, <2>3
<1>17. Files' = Files \union {k}
  <2>1. \A l \in Files : l \in Directories \X FileNames
    BY <1>1 DEF FileTable
  <2>2. \A l \in Files' : l \in Directories \X FileNames
    BY <1>1, <1>10 DEF FileTable
  <2> QED
    BY <1>14, <1>16, <2>1, <2>2
<1>18. Settled'[x] = call[t].data
  <2>1. Writes(t, x)'
    BY <1>9 DEF Writes
  <2> QED
    BY <1>1, <1>8, <1>9, <2>1 DEF SettledTable
<1>19. Settled[x] = disk[x]
  <2>1. ASSUME NEW u \in Threads PROVE ~Writes(u, x)
    BY <1>2, BlocksApart DEF Writes
  <2> QED
    BY <1>1, <1>8, <2>1 DEF SettledTable
<1>20. ASSUME NEW l \in Files, l # k PROVE View(l)' = View(l)
  <2>1. /\ l \in Directories \X FileNames /\ EntryOf(l).nStartBlock \in FileBlocks(disk)
        /\ Seek(EntryOf(l).nStartBlock) = EntryOf(l).nStartBlock
    BY <1>1 DEF FileTable
  <2>2. l \in Files' /\ EntryOf(l)' = EntryOf(l)
    BY <1>16, <1>20, <2>1
  <2>3. PICK y : y = EntryOf(l).nStartBlock
    OBVIOUS
  <2>4. y # x
    BY <1>1, <1>13, <1>14, <1>20, <2>2, <2>3 DEF FileTable
  <2>5. y \in DOMAIN disk /\ disk'[y] = disk[y]
    BY <1>1, <1>6, <1>9, <2>1, <2>3, DiskFacts
  <2>6. \A u \in Threads : (Writes(u, y)' <=> Writes(u, y)) /\ (Writes(u, y) => call'[u] = call[u])
    BY <1>2, <1>9, <2>4 DEF Writes
  <2>7. Settled'[y] = Settled[y]
    BY <1>1, <1>9, <2>5, <2>6, SettledStays
  <2> QED
    BY <2>1, <2>2, <2>3, <2>7, ViewStays
<1> QED
  BY <1>3, <1>5, <1>6, <1>7, <1>8, <1>10, <1>11, <1>13, <1>14, <1>17, <1>18, <1>19, <1>20

(* The bytes that read would return of it. *)
LEMMA WrittenBytes ==
    ASSUME FsInv, Calm, FsInv', Calm', NEW t \in Threads, WriteDir(t),
           NEW k, k = call[t].key, NEW x, x = call[t].block
    PROVE  LET m == call[t].offset
               buf == call[t].buf
           IN  /\ m \in Nat /\ buf \in Seq(Nat) /\ disk[x] \in Block
               /\ AsData(disk[x]).kind = "data"
               /\ View(k)' \in Seq(Nat) /\ Len(View(k)') = m + Len(buf)
               /\ \A n \in 1..m + Len(buf) :
                     /\ n - 1 \in Bytes
                     /\ View(k)'[n] = IF n <= m THEN AsData(disk[x]).data[n - 1] ELSE buf[n - m]
<1> DEFINE m == call[t].offset
           buf == call[t].buf
           data == call[t].data
           e == EntryOf(k)'
<1>1. pc[t] = "write_dir" /\ TypeOK /\ CallStore(t)
  BY CalmFacts DEF WriteDir
<1>2. /\ e = call[t].directory.files[call[t].slot] /\ e.nStartBlock = x /\ Seek(x) = x
      /\ Settled'[x] = data /\ DataFits(t)
  BY WriteDirShows
<1>3. m \in Nat /\ buf \in Seq(Nat) /\ disk[x] \in Block /\ AsData(disk[x]).kind = "data"
  BY <1>1, CallBlock
<1>4. e.fsize = m + Len(buf) /\ data = Patched(disk[x], m, buf)
  BY <1>2 DEF DataFits
<1>5. e.fsize <= BLOCK_SIZE
  <2>1. call[t] \in Call /\ call[t].slot \in FileSlots
    BY <1>1, CallOnDisk
  <2>2. call[t].directory.files[call[t].slot] \in FileEntry
    BY <2>1 DEF Call, Directory
  <2> QED
    BY <1>2, <2>2, DiskAssumption DEF FileEntry
<1>6. /\ data.kind = "data"
      /\ \A i \in Bytes : i < m => data.data[i] = AsData(disk[x]).data[i]
      /\ \A i \in Bytes : i >= m /\ i < m + Len(buf) => data.data[i] = buf[i - m + 1]
  <2> HIDE DEF m, buf, data, e
  <2> DEFINE p == Patched(disk[x], m, buf)
  <2>1. /\ p.kind = "data"
        /\ \A i \in Bytes : i < m => p.data[i] = AsData(disk[x]).data[i]
        /\ \A i \in Bytes : i >= m /\ i < m + Len(buf) => p.data[i] = buf[i - m + 1]
    BY <1>3, PatchedData, Zenon
  <2>2. data = p
    BY <1>4
  <2> HIDE DEF p
  <2> QED
    BY <2>1, <2>2
<1>7. data \in Data
  <2>1. call[t] \in Call
    BY <1>1, CallOnDisk
  <2>2. data \in Data \union {Zero, Junk}
    BY <2>1 DEF Call
  <2> QED
    BY <1>6, <2>2 DEF Zero, Junk
<1>8. View(k)' = [n \in 1..m + Len(buf) |-> data.data[n - 1]]
  <2>1. View(k)' = [n \in 1..e.fsize |-> AsData(Settled'[Seek(e.nStartBlock)]).data[n - 1]]
    BY DEF View, Contents
  <2>2. AsData(data) = data
    BY <1>6 DEF AsData, Zero
  <2> QED
    BY <1>2, <1>4, <2>1, <2>2
<1> HIDE DEF m, buf, data, e
<1>9. Len(buf) \in Nat /\ m + Len(buf) \in Nat
  BY <1>3
<1>10. \A n \in 1..m + Len(buf) : n - 1 \in Bytes
  BY <1>3, <1>4, <1>5, <1>9, DiskAssumption DEF Bytes
<1>11. \A n \in 1..m + Len(buf) : data.data[n - 1] \in Nat
  BY <1>7, <1>10 DEF Data
<1>12. /\ View(k)' \in Seq(Nat) /\ Len(View(k)') = m + Len(buf)
       /\ \A n \in 1..m + Len(buf) : View(k)'[n] = data.data[n - 1]
  BY <1>8, <1>9, <1>11, ByIndex
<1>13. ASSUME NEW n \in 1..m + Len(buf)
       PROVE  data.data[n - 1] = IF n <= m THEN AsData(disk[x]).data[n - 1] ELSE buf[n - m]
  <2>1. CASE n <= m
    BY <1>3, <1>6, <1>9, <1>10, <2>1
  <2>2. CASE ~(n <= m)
    <3>1. n - 1 >= m /\ n - 1 < m + Len(buf) /\ n - 1 - m + 1 = n - m
      BY <1>3, <1>9, <2>2
    <3> QED
      BY <1>6, <1>10, <2>2, <3>1
  <2> QED
    BY <2>1, <2>2
<1> QED
  BY <1>3, <1>10, <1>12, <1>13 DEF m, buf

(* A new file contains what was written. *)
LEMMA NewFile ==
    ASSUME FsInv, Calm, FsInv', Calm', NEW t \in Threads, WriteDir(t),
           NEW k, k = call[t].key, call[t].new
    PROVE  k \notin Files /\ View(k)' = call[t].buf
<1> DEFINE buf == call[t].buf
<1>1. PICK x : x = call[t].block
  OBVIOUS
<1>2. FileTable
  BY FilesInTable
<1>3. DirAt(k[1]) = DirOf(t) /\ HandFits(t) /\ DataFits(t)
  BY <1>1, WriteDirShows
<1>4. k \notin Files
  <2>1. \A i \in FileSlots : DirAt(k[1]).files[i].fname # k[2]
    BY <1>3 DEF HandFits, NewFits
  <2> QED
    BY <1>2, <2>1 DEF FileTable
<1>5. call[t].offset = 0
  BY <1>3 DEF DataFits
<1>6. /\ buf \in Seq(Nat) /\ View(k)' \in Seq(Nat) /\ Len(View(k)') = 0 + Len(buf)
      /\ \A n \in 1..0 + Len(buf) :
            View(k)'[n] = IF n <= 0 THEN AsData(disk[x]).data[n - 1] ELSE buf[n - 0]
  BY <1>1, <1>5, WrittenBytes
<1> HIDE DEF buf
<1>7. Len(buf) \in Nat
  BY <1>6
<1>8. Len(View(k)') = Len(buf) /\ \A n \in 1..Len(buf) : View(k)'[n] = buf[n]
  BY <1>6, <1>7
<1>9. \A v \in Seq(Nat), w \in Seq(Nat) :
          Len(v) = Len(w) /\ (\A n \in 1..Len(w) : v[n] = w[n]) => v = w
  BY SeqEqual
<1>10. View(k)' = buf
  BY <1>6, <1>8, <1>9
<1> QED
  BY <1>4, <1>10 DEF buf

(* One that was there keeps what lies before the offset and ends with it.  *)
LEMMA OldFile ==
    ASSUME FsInv, Calm, FsInv', Calm', NEW t \in Threads, WriteDir(t),
           NEW k, k = call[t].key, ~call[t].new
    PROVE  LET m == call[t].offset
           IN  /\ k \in Files /\ View(k) \in Seq(Nat) /\ m \in 0..Len(View(k)) - 1
               /\ View(k)' = SubSeq(View(k), 1, m) \o call[t].buf
<1> DEFINE m == call[t].offset
           buf == call[t].buf
           e == EntryOf(k)
<1>1. PICK x : x = call[t].block
  OBVIOUS
<1>2. PICK i : i = call[t].slot
  OBVIOUS
<1>3. FileTable /\ pc[t] = "write_dir"
  BY FilesInTable DEF WriteDir
<1>4. /\ DirAt(k[1]) = DirOf(t) /\ HandFits(t) /\ k[1] \in Directories
      /\ k \in DirNames \X FileNames /\ Settled[x] = disk[x] /\ Seek(x) = x
  BY <1>1, WriteDirShows
<1>5. /\ DirOf(t).files[i].fname = k[2] /\ DirOf(t).files[i].nStartBlock = x
      /\ m < DirOf(t).files[i].fsize
  BY <1>1, <1>2, <1>4 DEF HandFits, OldFits
<1>6. i \in FileSlots /\ DirOf(t) \in Directory
  BY <1>2, <1>3, CallOnDisk
<1>7. DirOf(t).files[i] \in FileEntry
  BY <1>6 DEF Directory
<1>8. k \in Files /\ e = DirOf(t).files[i]
  <2>1. k \in Directories \X FileNames
    BY <1>4
  <2> QED
    BY <1>3, <1>4, <1>5, <1>6, <2>1 DEF FileTable
<1>9. e.fsize \in Nat /\ e.fsize <= BLOCK_SIZE /\ m < e.fsize /\ e.nStartBlock = x
  BY <1>5, <1>7, <1>8, DiskAssumption DEF FileEntry
<1>10. /\ m \in Nat /\ buf \in Seq(Nat) /\ disk[x] \in Block /\ AsData(disk[x]).kind = "data"
       /\ View(k)' \in Seq(Nat) /\ Len(View(k)') = m + Len(buf)
       /\ \A n \in 1..m + Len(buf) :
             View(k)'[n] = IF n <= m THEN AsData(disk[x]).data[n - 1] ELSE buf[n - m]
  BY <1>1, WrittenBytes
<1> DEFINE old == AsData(disk[x]).data
<1>11. AsData(disk[x]) \in Data
  BY <1>10, BlockKinds
<1>12. View(k) = [n \in 1..e.fsize |-> old[n - 1]]
  BY <1>4, <1>9 DEF View, Contents
<1> HIDE DEF m, buf, e, old
<1>13. \A n \in 1..e.fsize : n - 1 \in Bytes
  BY <1>9, DiskAssumption DEF Bytes
<1>14. \A n \in 1..e.fsize : old[n - 1] \in Nat
  BY <1>11, <1>13 DEF Data, old
<1>15. /\ View(k) \in Seq(Nat) /\ Len(View(k)) = e.fsize
       /\ \A n \in 1..e.fsize : View(k)[n] = old[n - 1]
  BY <1>9, <1>12, <1>14, ByIndex
<1>16. \A n \in 1..m + Len(buf) :
           View(k)'[n] = IF n <= m THEN View(k)[n] ELSE buf[n - m]
  <2> SUFFICES ASSUME NEW n \in 1..m + Len(buf)
               PROVE  View(k)'[n] = IF n <= m THEN View(k)[n] ELSE buf[n - m]
    OBVIOUS
  <2>1. n <= m => n \in 1..e.fsize
    BY <1>9, <1>10
  <2>2. View(k)'[n] = IF n <= m THEN old[n - 1] ELSE buf[n - m]
    BY <1>10 DEF old
  <2> QED
    BY <1>15, <2>1, <2>2
<1>17. View(k)' = SubSeq(View(k), 1, m) \o buf
  <2>1. m <= Len(View(k))
    BY <1>9, <1>10, <1>15
  <2>2. PICK v : v = View(k)
    OBVIOUS
  <2>3. PICK w : w = View(k)'
    OBVIOUS
  <2>4. v \in Seq(Nat) /\ w \in Seq(Nat) /\ m \in Nat /\ buf \in Seq(Nat)
    BY <1>10, <1>15, <2>2, <2>3
  <2>5. m <= Len(v) /\ Len(w) = m + Len(buf)
    BY <1>10, <2>1, <2>2, <2>3
  <2>6. \A n \in 1..m + Len(buf) : w[n] = IF n <= m THEN v[n] ELSE buf[n - m]
    BY <1>16, <2>2, <2>3
  <2> HIDE <2>2, <2>3
  <2>7. w = SubSeq(v, 1, m) \o buf
    BY <2>4, <2>5, <2>6, Spliced
  <2> QED
    BY <2>2, <2>3, <2>7
<1>18. m \in 0..Len(View(k)) - 1
  BY <1>9, <1>10, <1>15
<1> QED
  BY <1>8, <1>15, <1>17, <1>18 DEF m, buf

-----------------------------------------------------------------------------
(* The steps of the store. *)

Dirs == IF trouble = {} THEN Directories ELSE {}
Table == IF trouble = {} THEN [k \in Files |-> Contents(Settled, EntryOf(k))] ELSE <<>>

LEMMA StoreStays ==
    ASSUME Calm, Calm', Dirs' = Dirs, Table' = Table PROVE UNCHANGED Store!vars
BY DEF Store!vars, Dirs, Table, Calm

LEMMA StoreMkdir ==
    ASSUME Calm, Calm', NEW d, d \notin Dirs, Dirs' = Dirs \union {d}, Table' = Table
    PROVE  Store!Mkdir(d)
BY DEF Store!Mkdir, Dirs, Table, Calm

LEMMA StoreCreate ==
    ASSUME Calm, Calm', NEW k, NEW buf, k[1] \in Dirs, k \notin DOMAIN Table, Dirs' = Dirs,
           Table' = [j \in DOMAIN Table \union {k} |-> IF j = k THEN buf ELSE Table[j]]
    PROVE  Store!Create(k, buf)
BY DEF Store!Create, Dirs, Table, Calm

LEMMA StoreOverwrite ==
    ASSUME Calm, Calm', NEW k, NEW m, NEW buf, k \in DOMAIN Table, m < Len(Table[k]), Dirs' = Dirs,
           Table' = [Table EXCEPT ![k] = SubSeq(@, 1, m) \o buf]
    PROVE  Store!Overwrite(k, m, buf)
BY DEF Store!Overwrite, Dirs, Table, Calm

Shown == Dirs = Directories /\ Table = [k \in Files |-> View(k)]

LEMMA StoreShown == Calm => Shown
BY DEF Shown, Calm, Dirs, Table, View

LEMMA TroubleStays == [Next]_vars /\ Calm' => Calm
BY TroubleKept DEF Calm

LEMMA SameShown == ASSUME Calm, Calm', SameStore PROVE UNCHANGED Store!vars
<1>1. /\ Dirs = Directories /\ Table = [k \in Files |-> View(k)]
      /\ Dirs' = Directories' /\ Table' = [k \in Files' |-> View(k)']
  <2>1. Shown /\ Shown'
    BY StoreShown, PTL
  <2> QED
    BY <2>1 DEF Shown
<1>2. Dirs' = Dirs /\ Table' = Table
  BY <1>1 DEF SameStore
<1> QED
  BY <1>2, StoreStays

LEMMA MkdirStoreStep ==
    ASSUME FsInv, Calm, FsInv', Calm', NEW d \in DirNames, Mkdir(d) PROVE Store!Mkdir(d)
<1>1. /\ Dirs = Directories /\ Table = [k \in Files |-> View(k)]
      /\ Dirs' = Directories' /\ Table' = [k \in Files' |-> View(k)']
  <2>1. Shown /\ Shown'
    BY StoreShown, PTL
  <2> QED
    BY <2>1 DEF Shown
<1>2. /\ d \notin Directories /\ Directories' = Directories \union {d}
      /\ Files' = Files /\ \A k \in Files : View(k)' = View(k)
  BY MkdirShows
<1>3. Table' = Table
  BY <1>1, <1>2
<1> QED
  BY <1>1, <1>2, <1>3, StoreMkdir

LEMMA WriteDirStoreStep ==
    ASSUME FsInv, Calm, FsInv', Calm', NEW t \in Threads, WriteDir(t) PROVE Store!Next
<1>1. /\ Dirs = Directories /\ Table = [l \in Files |-> View(l)]
      /\ Dirs' = Directories' /\ Table' = [l \in Files' |-> View(l)']
  <2>1. Shown /\ Shown'
    BY StoreShown, PTL
  <2> QED
    BY <2>1 DEF Shown
<1>2. PICK k : k = call[t].key
  OBVIOUS
<1>3. PICK x : x = call[t].block
  OBVIOUS
<1>4. PICK buf : buf = call[t].buf
  OBVIOUS
<1>5. PICK m : m = call[t].offset
  OBVIOUS
<1>6. /\ k \in DirNames \X FileNames /\ k[1] \in Directories /\ Directories' = Directories
      /\ Files' = Files \union {k} /\ \A l \in Files : l # k => View(l)' = View(l)
      /\ buf \in Payloads
  BY <1>2, <1>3, <1>4, WriteDirShows DEF HandFits
<1>7. DOMAIN Table = Files
  BY <1>1
<1>8. CASE call[t].new
  <2>1. k \notin Files /\ View(k)' = buf
    BY <1>2, <1>4, <1>8, NewFile
  <2>2. Table' = [l \in Files \union {k} |-> IF l = k THEN buf ELSE Table[l]]
    BY <1>1, <1>6, <2>1
  <2>3. Store!Create(k, buf)
    BY <1>1, <1>6, <1>7, <2>1, <2>2, StoreCreate
  <2> QED
    BY <1>6, <2>3 DEF Store!Next
<1>9. CASE ~call[t].new
  <2>1. /\ k \in Files /\ View(k) \in Seq(Nat) /\ m \in 0..Len(View(k)) - 1
        /\ View(k)' = SubSeq(View(k), 1, m) \o buf
    BY <1>2, <1>4, <1>5, <1>9, OldFile
  <2>2. Table[k] = View(k) /\ k \in DOMAIN Table
    BY <1>1, <1>7, <2>1
  <2>3. Table' = [Table EXCEPT ![k] = SubSeq(@, 1, m) \o buf]
    BY <1>1, <1>6, <2>1, <2>2
  <2>4. m \in Nat /\ m < Len(Table[k]) /\ m \in 0..Len(Table[k]) - 1
    BY <2>1, <2>2
  <2>5. Store!Overwrite(k, m, buf)
    BY <1>1, <1>6, <2>2, <2>3, <2>4, StoreOverwrite
  <2>6. m \in IF k \in DOMAIN Table THEN 0..Len(Table[k]) - 1 ELSE {}
    BY <2>2, <2>4
  <2> QED
    BY <1>6, <2>5, <2>6 DEF Store!Next, Table
<1> QED
  BY <1>8, <1>9

LEMMA StoreRefined == FsInv /\ FsInv' /\ [Next]_vars => [Store!Next]_(Store!vars)
<1> SUFFICES ASSUME FsInv, FsInv', [Next]_vars PROVE [Store!Next]_(Store!vars)
  OBVIOUS
<1>1. CASE ~Calm'
  BY <1>1 DEF Calm, Store!Next, Store!Damage
<1>2. CASE Calm'
  <2>1. Calm
    BY <1>2, TroubleStays
  <2>2. SameStore => UNCHANGED Store!vars
    BY <1>2, <2>1, SameShown
  <2>3. ASSUME NEW d \in DirNames, Mkdir(d) PROVE Store!Next
    <3>1. Store!Mkdir(d)
      BY <1>2, <2>1, <2>3, MkdirStoreStep
    <3> QED
      BY <3>1 DEF Store!Next
  <2>4. ASSUME NEW d \in DirNames, Mknod(d) PROVE FALSE
    BY <1>2, <2>4 DEF Mknod, Calm
  <2>5. ASSUME NEW t \in Threads, NEW k \in DirNames \X FileNames, NEW offset \in Offsets,
               NEW buf \in Payloads, WriteNew(t, k, offset, buf) \/ WriteOld(t, k, offset, buf)
        PROVE  SameStore
    BY <1>2, <2>1, <2>5, BeginsSame
  <2>6. ASSUME NEW t \in Threads, FindBlock(t) \/ ReadBlock(t) PROVE SameStore
    BY <1>2, <2>1, <2>6, ReadsSame
  <2>7. ASSUME NEW t \in Threads, WriteDir(t) PROVE Store!Next
    BY <1>2, <2>1, <2>7, WriteDirStoreStep
  <2>8. ASSUME NEW t \in Threads, WriteData(t) PROVE SameStore
    BY <1>2, <2>1, <2>8, WriteDataSame
  <2>9. Ends => SameStore
    BY <1>2, <2>1, EndSame
  <2>10. UNCHANGED vars => SameStore
    BY <1>2, <2>1, IdleStep DEF vars
  <2> HIDE DEF Store!vars, Store!Next
  <2> QED
    BY <2>2, <2>3, <2>4, <2>5, <2>6, <2>7, <2>8, <2>9, <2>10, Steps
<1> QED
  BY <1>1, <1>2

LEMMA StoreBegins == Init => Store!Init
<1> SUFFICES ASSUME Init PROVE Store!Init
  OBVIOUS
<1>1. FsInv /\ Calm
  BY InitFs DEF Init, Calm
<1>2. TypeOK /\ RootReadable
  BY <1>1, CalmFacts
<1>3. disk[0] = Zero
  BY <1>2, DiskFacts DEF Init
<1>4. root.nDirectories = 0
  BY <1>3 DEF root, AsRoot, RootBlock
<1>5. Directories = {}
  BY <1>4, DiskAssumption DEF Directories, DirSlots
<1>6. Files = {}
  BY <1>5 DEF Files
<1>7. [k \in Files |-> Contents(Settled, EntryOf(k))] = [k \in {} |-> <<>>]
  BY <1>6
<1> QED
  BY <1>1, <1>5, <1>7 DEF Store!Init, Calm

(* As long as nothing has happened that the file system is not made for,   *)
(* it is a map from names to contents: of all that the threads read and    *)
(* write, only the root that mkdir writes and the directory that write     *)
(* writes change the map, by the one directory or the one file of the call.*)
THEOREM FileSystemImplementsStore == Spec => ImplementsFileStore
<1>1. Init => FsInv
  BY InitFs
<1>2. FsInv /\ [Next]_vars => FsInv'
  BY StepFs
<1>3. FsInv /\ FsInv' /\ [Next]_vars => [Store!Next]_(Store!vars)
  BY StoreRefined
<1>4. Init => Store!Init
  BY StoreBegins
<1> QED
  BY <1>1, <1>2, <1>3, <1>4, PTL DEF Spec, ImplementsFileStore, Store!Spec

=============================================================================
