----------------------------- MODULE DiskLayout -----------------------------
(***************************************************************************)
(* The disk of the cs1550 file system (cs1550.c): what a block of .disk    *)
(* can hold, and what the functions that only look at blocks find in them. *)
(*                                                                         *)
(* Block 0 is the root directory, the blocks from 1 belong to the          *)
(* directories, those from 1 + MAX_FILES_IN_DIR to the files; one block is *)
(* one file.  A name stands for a name of the 8.3 kind that fits.          *)
(***************************************************************************)
EXTENDS Integers, Sequences, FiniteSets

CONSTANTS DirNames, FileNames,
          BLOCK_SIZE, MAX_FILES_IN_DIR, MAX_DIRS_IN_ROOT,
          DiskSizes    \* how many blocks a .disk may have

NoName == ""   \* an array of characters that begins with a 0
NUL == 0       \* the character 0; any other one is a positive number

ASSUME DiskAssumption ==
    /\ BLOCK_SIZE \in Nat \ {0} /\ MAX_FILES_IN_DIR \in Nat \ {0}
    /\ MAX_DIRS_IN_ROOT \in Nat \ {0}
    /\ DiskSizes \subseteq Nat
    /\ \A n \in DiskSizes : n > 1 + MAX_FILES_IN_DIR /\ n > MAX_DIRS_IN_ROOT
    /\ NoName \notin DirNames \union FileNames

FirstFileBlock == 1 + MAX_FILES_IN_DIR
FileBlocks(disk) == {b \in DOMAIN disk : b >= FirstFileBlock}
DirSlots == 0..MAX_DIRS_IN_ROOT - 1
FileSlots == 0..MAX_FILES_IN_DIR - 1
Bytes == 0..BLOCK_SIZE - 1

-----------------------------------------------------------------------------
(* What a block holds.  The disk begins as a file of zeros, which reads as *)
(* an empty root, an empty directory and a free file block.                *)
(*                                                                         *)
(* The padding behind a directory's entries has room for a name: that of   *)
(* the entry one behind the last, whose size and block lie outside.        *)

NoDirectory == [dname |-> NoName, nStartBlock |-> 0]
NoFile == [fname |-> NoName, fsize |-> 0, nStartBlock |-> 0]

Zero == [kind |-> "zero"]
Junk == [kind |-> "junk"]
RootBlock(n, directories) == [kind |-> "root", nDirectories |-> n, directories |-> directories]
DirBlock(n, files, padding) == [kind |-> "dir", nFiles |-> n, files |-> files, padding |-> padding]
DataBlock(data) == [kind |-> "data", data |-> data]

AsRoot(b) == IF b = Zero THEN RootBlock(0, [i \in DirSlots |-> NoDirectory]) ELSE b
AsDir(b) == IF b = Zero THEN DirBlock(0, [i \in FileSlots |-> NoFile], NoName) ELSE b
AsData(b) == IF b = Zero THEN DataBlock([i \in Bytes |-> NUL]) ELSE b

RootEntry == [dname : DirNames \union {NoName}, nStartBlock : 0..MAX_DIRS_IN_ROOT]
FileEntry == [fname : FileNames \union {NoName}, fsize : 0..BLOCK_SIZE,
              nStartBlock : Nat \union {-1}]
Root == [kind : {"root"}, nDirectories : 0..MAX_DIRS_IN_ROOT, directories : [DirSlots -> RootEntry]]
Directory == [kind : {"dir"}, nFiles : 0..MAX_FILES_IN_DIR + 1, files : [FileSlots -> FileEntry],
              padding : FileNames \union {NoName}]
Data == [kind : {"data"}, data : [Bytes -> Nat]]
Block == Root \union Directory \union Data \union {Zero, Junk}

-----------------------------------------------------------------------------
(* Mutants: the search for a free block returns the block behind the one  *)
(* it has looked at; a lookup stops before the last entry.                 *)
FreeFileBlocks_next(disk) ==
    {b \in FileBlocks(disk) : b - 1 \in FileBlocks(disk) /\ AsData(disk[b - 1]).kind = "data"
                              /\ AsData(disk[b - 1]).data[0] = NUL}

ReadFinds_before_last(dir, f) == {i \in FileSlots : i < dir.nFiles - 1 /\ dir.files[i].fname = f}

-----------------------------------------------------------------------------
First(S) == CHOOSE i \in S : \A j \in S : i <= j

(* get_subdirectory_starting_block: -1 when the name is not found.         *)
get_subdirectory_starting_block(root, d) ==
    LET found == {i \in DirSlots : i < root.nDirectories /\ root.directories[i].dname = d}
    IN  IF found = {} THEN -1 ELSE root.directories[First(found)].nStartBlock

(* The slots in which write looks for a file: all of them.                 *)
WriteFinds(dir, f) == {i \in FileSlots : dir.files[i].fname = f}

(* Those in which read does (get_file_starting_block): nFiles of them, the *)
(* padding included when nFiles says so.                                   *)
NameAt(dir, i) == IF i \in FileSlots THEN dir.files[i].fname ELSE dir.padding
ReadFinds(dir, f) == {i \in 0..MAX_FILES_IN_DIR : i < dir.nFiles /\ NameAt(dir, i) = f}

(* Those that readdir lists: with a name and a size, if nFiles is not 0.   *)
Lists(dir) ==
    {i \in FileSlots : dir.nFiles # 0 /\ dir.files[i].fname # NoName
                       /\ dir.files[i].fsize > 0 /\ dir.files[i].fsize <= BLOCK_SIZE}

(* find_next_free_file_block: a block is free when its first byte is 0.  A *)
(* directory's first byte is that of nFiles.                               *)
FreeFileBlocks(disk) ==
    {b \in FileBlocks(disk) : \/ AsData(disk[b]).kind = "data" /\ AsData(disk[b]).data[0] = NUL
                              \/ disk[b].kind = "dir" /\ disk[b].nFiles = 0}

find_next_free_file_block(disk) ==
    IF FreeFileBlocks(disk) = {} THEN -1 ELSE First(FreeFileBlocks(disk))

(* The block that fseek(BLOCK_SIZE * block) leads to.  A negative position *)
(* is refused, and the stream stays at the beginning of the disk.          *)
Seek(block) == IF block < 0 THEN 0 ELSE block

(* A data block with buf copied in at offset and a 0 put behind it, one    *)
(* byte too far.                                                           *)
Patched(b, offset, buf) ==
    IF AsData(b).kind # "data" THEN Junk
    ELSE DataBlock([i \in Bytes |->
            IF i >= offset /\ i < offset + Len(buf) THEN buf[i - offset + 1]
            ELSE IF i = offset + Len(buf) + 1 THEN NUL
            ELSE AsData(b).data[i]])

(* What read returns of a file with this entry.                            *)
Contents(disk, entry) ==
    [i \in 1..entry.fsize |-> AsData(disk[Seek(entry.nStartBlock)]).data[i - 1]]
=============================================================================
