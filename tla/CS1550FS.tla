------------------------------ MODULE CS1550FS ------------------------------
(***************************************************************************)
(* The calls of the cs1550 file system (cs1550.c) that change the disk,    *)
(* made by the threads of FUSE.  Between the reads and writes of .disk     *)
(* that one call makes another thread can come, and the process can be     *)
(* stopped; it keeps nothing between calls, so mounting the disk again     *)
(* needs no step.                                                          *)
(*                                                                         *)
(* The kernel makes the calls of one mkdir after the other, and those of   *)
(* write to one file (external: the mutexes of its inodes).                *)
(*                                                                         *)
(* The history variable trouble collects what has happened that the file   *)
(* system is not made for.  It is never read by a call.                    *)
(***************************************************************************)
EXTENDS DiskLayout

CONSTANTS Threads,   \* the threads of FUSE
          Payloads,  \* what a write writes: sequences of bytes
          Offsets,   \* where
          MaxCalls   \* bound on the number of calls

(* The kernel makes no call for a write of nothing (external). *)
ASSUME CallAssumption ==
    MaxCalls \in Nat /\ Offsets \subseteq Nat /\ Payloads \subseteq Seq(Nat) \ {<<>>}

VARIABLES disk,      \* the file .disk
          pc, call,  \* what each thread does next, and the variables of its call
          calls,     \* the calls made so far, counted for the bound
          trouble

vars == <<disk, pc, call, calls, trouble>>

Troubles == {"race",   \* two calls had the same directory, or a free block, in their hands
             "stop",   \* a stop, or a failure, between the write of a directory and that of the data
             "full",   \* a new file on a full disk
             "slots",  \* a new file in a full directory
             "zero",   \* a block of data that begins with a 0
             "mknod",  \* mknod wrote a directory
             "dirs"}   \* more directories than there are blocks before the file section

root == AsRoot(disk[0])
DirBlockOf(d) == get_subdirectory_starting_block(root, d)

(* The block that the root names need not hold a directory.  What a call   *)
(* makes of other bytes is left open: no call that finds some is followed. *)
RootReadable == root.kind = "root"
DirReadable(d) ==
    RootReadable /\ DirBlockOf(d) # -1 /\ AsDir(disk[DirBlockOf(d)]).kind = "dir"

NoCall == [key |-> <<NoName, NoName>>, new |-> FALSE, dirBlock |-> 0, directory |-> AsDir(Zero),
           slot |-> 0, offset |-> 0, buf |-> <<>>, block |-> 0, data |-> Zero]

Init == /\ disk \in {[b \in 0..n - 1 |-> Zero] : n \in DiskSizes}
        /\ pc = [t \in Threads |-> "idle"]
        /\ call = [t \in Threads |-> NoCall]
        /\ calls = 0
        /\ trouble = {}

Goto(t, label) == pc' = [pc EXCEPT ![t] = label]
Flag(what, condition) == IF condition THEN {what} ELSE {}

(* Another thread has read the directory in this block and will write it.  *)
HasDirectory(u, b) == pc[u] \in {"find_block", "read_block", "write_dir"} /\ call[u].dirBlock = b
(* It has found a free block and has not written it yet.                   *)
HasFreeBlock(u) == pc[u] \in {"read_block", "write_dir", "write_data"} /\ call[u].new

-----------------------------------------------------------------------------
(* What write has to find before it does anything: its directory, and room *)
(* in the block.  (It does not test for room: what it does when there is   *)
(* none, beyond the end of its buffer, is left open.)                      *)
WriteBegins(t, k, offset, buf) ==
    /\ pc[t] = "idle" /\ calls < MaxCalls
    /\ \A u \in Threads : pc[u] # "idle" => call[u].key # k
    /\ DirReadable(k[1])
    /\ offset + Len(buf) + 1 < BLOCK_SIZE
    /\ calls' = calls + 1
    /\ UNCHANGED disk

-----------------------------------------------------------------------------
(* Mutants: mkdir without its test for a name that exists; write that      *)
(* never takes a count back to 0, or puts each new file into slot 0; and a *)
(* size to which the whole of the buffer is added.                         *)
Mkdir_no_eexist(d) ==
    LET slot == First({i \in DirSlots : root.directories[i].dname = NoName})
    IN  /\ calls < MaxCalls /\ RootReadable /\ root.nDirectories < MAX_DIRS_IN_ROOT
        /\ disk' = [disk EXCEPT ![0] =
               RootBlock(root.nDirectories + 1,
                         [root.directories EXCEPT ![slot] = [dname |-> d, nStartBlock |-> slot + 1]])]
        /\ trouble' = trouble \union Flag("dirs", slot + 1 >= FirstFileBlock)
        /\ calls' = calls + 1
        /\ UNCHANGED <<pc, call>>

WriteNew_in(t, k, offset, buf, nFiles, slot) ==
    /\ WriteBegins(t, k, offset, buf)
    /\ WriteFinds(AsDir(disk[DirBlockOf(k[1])]), k[2]) = {}
    /\ call' = [call EXCEPT ![t] =
           [key |-> k, new |-> TRUE, dirBlock |-> DirBlockOf(k[1]),
            directory |-> [AsDir(disk[DirBlockOf(k[1])]) EXCEPT !.nFiles = nFiles], slot |-> slot,
            offset |-> offset, buf |-> buf, block |-> 0, data |-> Zero]]
    /\ trouble' = trouble
           \union Flag("race", \E u \in Threads : HasDirectory(u, DirBlockOf(k[1])))
           \union Flag("slots", nFiles > MAX_FILES_IN_DIR)
    /\ Goto(t, "find_block")

WriteNew_never_resets(t, k, offset, buf) ==
    DirReadable(k[1]) /\ LET n == AsDir(disk[DirBlockOf(k[1])]).nFiles
                         IN  WriteNew_in(t, k, offset, buf, n + 1, n)

WriteNew_in_slot_0(t, k, offset, buf) ==
    DirReadable(k[1]) /\ LET n == AsDir(disk[DirBlockOf(k[1])]).nFiles
                         IN  WriteNew_in(t, k, offset, buf, n + 1, 0)

ReadBlock_adds_size(t) ==
    /\ pc[t] = "read_block"
    /\ call' = [call EXCEPT
           ![t].data = Patched(disk[Seek(call[t].block)], call[t].offset, call[t].buf),
           ![t].directory.files = IF call[t].slot \in FileSlots
                                  THEN [@ EXCEPT ![call[t].slot].fsize = @ + Len(call[t].buf)] ELSE @]
    /\ trouble' = trouble \union Flag("zero", call[t].offset > 0)
    /\ Goto(t, "write_dir")
    /\ UNCHANGED <<disk, calls>>

-----------------------------------------------------------------------------
(* find_next_free_directory_starting_block takes the first of the slots    *)
(* without a name, if the root does not count as full.                     *)
FreeSlots ==
    IF root.nDirectories >= MAX_DIRS_IN_ROOT THEN {}
    ELSE {i \in DirSlots : root.directories[i].dname = NoName}

(* create_directory: the new directory has the block that belongs to its   *)
(* slot; the block itself is not written.                                  *)
RootWith(slot, d) ==
    RootBlock(root.nDirectories + 1,
              [root.directories EXCEPT ![slot] = [dname |-> d, nStartBlock |-> slot + 1]])

Mkdir(d) ==
    /\ calls < MaxCalls /\ RootReadable
    /\ DirBlockOf(d) = -1   \* else -EEXIST
    /\ FreeSlots # {}
    /\ disk' = [disk EXCEPT ![0] = RootWith(First(FreeSlots), d)]
    /\ trouble' = trouble \union Flag("dirs", First(FreeSlots) + 1 >= FirstFileBlock)
    /\ calls' = calls + 1
    /\ UNCHANGED <<pc, call>>

(* write of a name that is not in the directory: a new file in slot        *)
(* nFiles, which may lie behind the last one; "if we have a crazy number,  *)
(* it really should be 0 at this point".                                   *)
WriteNew(t, k, offset, buf) ==
    LET b == DirBlockOf(k[1])
        dir == AsDir(disk[b])
        nFiles == (IF dir.nFiles > MAX_FILES_IN_DIR THEN 0 ELSE dir.nFiles) + 1
    IN  /\ WriteBegins(t, k, offset, buf)
        /\ WriteFinds(dir, k[2]) = {}
        /\ call' = [call EXCEPT ![t] =
               [key |-> k, new |-> TRUE, dirBlock |-> b,
                directory |-> DirBlock(nFiles, dir.files, dir.padding), slot |-> nFiles - 1,
                offset |-> offset, buf |-> buf, block |-> 0, data |-> Zero]]
        /\ trouble' = trouble
               \union Flag("race", \E u \in Threads : HasDirectory(u, b))
               \union Flag("slots", dir.nFiles >= MAX_FILES_IN_DIR)
        /\ Goto(t, "find_block")

(* write of a file that is there.  An offset behind the end is replaced by *)
(* that of the last byte; one at the end is refused (-EFBIG).              *)
WriteOld(t, k, offset, buf) ==
    LET b == DirBlockOf(k[1])
        dir == AsDir(disk[b])
        slot == First(WriteFinds(dir, k[2]))
        entry == dir.files[slot]
    IN  /\ WriteBegins(t, k, offset, buf)
        /\ WriteFinds(dir, k[2]) # {}
        /\ offset # entry.fsize
        /\ call' = [call EXCEPT ![t] =
               [key |-> k, new |-> FALSE, dirBlock |-> b, directory |-> dir, slot |-> slot,
                offset |-> IF offset > entry.fsize THEN entry.fsize - 1 ELSE offset,
                buf |-> buf, block |-> entry.nStartBlock, data |-> Zero]]
        /\ trouble' = trouble \union Flag("race", \E u \in Threads : HasDirectory(u, b))
        /\ Goto(t, "read_block")

(* find_next_free_file_block; -1, which nobody looks at, if there is none. *)
(* The new entry goes into its slot: of one behind the last, the name into *)
(* the padding and the rest past the end of the directory.                 *)
FindBlock(t) ==
    LET block == find_next_free_file_block(disk)
        entry == [fname |-> call[t].key[2], fsize |-> 0, nStartBlock |-> block]
    IN  /\ pc[t] = "find_block"
        /\ call' = [call EXCEPT
               ![t].block = block,
               ![t].directory.files = IF call[t].slot \in FileSlots
                                      THEN [@ EXCEPT ![call[t].slot] = entry] ELSE @,
               ![t].directory.padding = IF call[t].slot \in FileSlots THEN @ ELSE entry.fname]
        /\ trouble' = trouble \union Flag("full", block = -1)
                              \union Flag("race", \E u \in Threads : HasFreeBlock(u))
        /\ Goto(t, "read_block")
        /\ UNCHANGED <<disk, calls>>

(* The block is read and buf copied into it; the file is to end with it:   *)
(* fsize + size - (fsize - offset).                                        *)
ReadBlock(t) ==
    LET data == Patched(disk[Seek(call[t].block)], call[t].offset, call[t].buf)
        fsize == call[t].offset + Len(call[t].buf)
    IN  /\ pc[t] = "read_block"
        /\ call' = [call EXCEPT
               ![t].data = data,
               ![t].directory.files = IF call[t].slot \in FileSlots
                                      THEN [@ EXCEPT ![call[t].slot].fsize = fsize] ELSE @]
        /\ trouble' = trouble \union
               Flag("zero", data.kind = "data" /\ data.data[0] = NUL)
        /\ Goto(t, "write_dir")
        /\ UNCHANGED <<disk, calls>>

WriteDir(t) ==
    /\ pc[t] = "write_dir"
    /\ disk' = [disk EXCEPT ![call[t].dirBlock] = call[t].directory]
    /\ Goto(t, "write_data")
    /\ UNCHANGED <<call, calls, trouble>>

WriteData(t) ==
    /\ pc[t] = "write_data"
    /\ disk' = [disk EXCEPT ![Seek(call[t].block)] = call[t].data]
    /\ call' = [call EXCEPT ![t] = NoCall]
    /\ Goto(t, "idle")
    /\ UNCHANGED <<calls, trouble>>

(* fwrite does not write the block, and write returns -1. *)
Fail(t) ==
    /\ pc[t] \in {"write_dir", "write_data"}
    /\ call' = [call EXCEPT ![t] = NoCall]
    /\ trouble' = trouble \union Flag("stop", pc[t] = "write_data")
    /\ Goto(t, "idle")
    /\ UNCHANGED <<disk, calls>>

(* mknod, which is called only if getattr answers that a file is not       *)
(* there.  get_subdirectory_struct returns a pointer into its own frame,   *)
(* and write_to_subdirectory_on_disk writes what lies on the stack from    *)
(* the address of its argument on: nothing of the directory is left.       *)
Mknod(d) ==
    /\ calls < MaxCalls /\ DirReadable(d) /\ find_next_free_file_block(disk) # -1
    /\ disk' = [disk EXCEPT ![DirBlockOf(d)] = Junk]
    /\ trouble' = trouble \union {"mknod"}
    /\ calls' = calls + 1
    /\ UNCHANGED <<pc, call>>

(* The process ends, by a signal or because the disk is unmounted. *)
Stop ==
    /\ pc' = [t \in Threads |-> "idle"]
    /\ call' = [t \in Threads |-> NoCall]
    /\ trouble' = trouble \union Flag("stop", \E t \in Threads : pc[t] = "write_data")
    /\ UNCHANGED <<disk, calls>>

Next ==
    \/ \E d \in DirNames : Mkdir(d) \/ Mknod(d)
    \/ \E t \in Threads :
          \/ \E k \in DirNames \X FileNames, offset \in Offsets, buf \in Payloads :
                WriteNew(t, k, offset, buf) \/ WriteOld(t, k, offset, buf)
          \/ FindBlock(t) \/ ReadBlock(t) \/ WriteDir(t) \/ WriteData(t) \/ Fail(t)
    \/ Stop

Spec == Init /\ [][Next]_vars

-----------------------------------------------------------------------------
Call == [key : (DirNames \union {NoName}) \X (FileNames \union {NoName}), new : BOOLEAN,
         dirBlock : 0..MAX_DIRS_IN_ROOT, directory : Directory,
         slot : 0..MAX_FILES_IN_DIR, offset : Nat, buf : Seq(Nat),
         block : Nat \union {-1}, data : Data \union {Zero, Junk}]

(* Type invariant. *)
TypeOK ==
    /\ \E n \in DiskSizes : disk \in [0..n - 1 -> Block]
    /\ pc \in [Threads -> {"idle", "find_block", "read_block", "write_dir", "write_data"}]
    /\ call \in [Threads -> Call]
    /\ calls \in 0..MaxCalls
    /\ trouble \subseteq Troubles

(* Unless a file is made on a full disk: the directories lie in the first  *)
(* slots of the root, as many as it counts, each with a name of its own    *)
(* and the block that belongs to its slot.                                 *)
RootIntact ==
    "full" \notin trouble =>
        /\ RootReadable
        /\ \A i \in DirSlots :
              /\ i < root.nDirectories <=> root.directories[i].dname # NoName
              /\ i < root.nDirectories => root.directories[i].nStartBlock = i + 1
        /\ \A i, j \in DirSlots :
              i < root.nDirectories /\ j < root.nDirectories
                 /\ root.directories[i].dname = root.directories[j].dname => i = j

(* The directories that the root names. *)
Directories ==
    IF RootReadable THEN {root.directories[i].dname : i \in {j \in DirSlots : j < root.nDirectories}}
                    ELSE {}

(* The three searches for a file, those of read, write and readdir, find   *)
(* the same, whatever the threads do and wherever they are stopped, as     *)
(* long as no directory outgrows its block.                                *)
LookupsAgree ==
    trouble \intersect {"slots", "mknod", "dirs"} = {} =>
        \A d \in Directories :
            LET dir == AsDir(disk[DirBlockOf(d)])
            IN  /\ dir.kind = "dir"
                /\ \A f \in FileNames :
                      /\ ReadFinds(dir, f) = WriteFinds(dir, f)
                      /\ WriteFinds(dir, f) = {i \in Lists(dir) : dir.files[i].fname = f}
                      /\ Cardinality(WriteFinds(dir, f)) <= 1

(* The files that read finds, and their entries; of a name in the padding  *)
(* there is no entry that the disk keeps.                                  *)
Files ==
    {k \in Directories \X FileNames :
        DirReadable(k[1]) /\ ReadFinds(AsDir(disk[DirBlockOf(k[1])]), k[2]) # {}}

EntryOf(k) ==
    LET dir == AsDir(disk[DirBlockOf(k[1])]) IN dir.files[First(ReadFinds(dir, k[2]))]

(* No two files have the same block, and none has one that belongs to the  *)
(* root or a directory: unless calls raced for a block, or a stop, a full  *)
(* disk or a 0 at the beginning of its data let a file's block look free,  *)
(* or a directory outgrew its block, and a file has no entry.              *)
OneOwner ==
    trouble \intersect {"race", "stop", "full", "slots", "zero", "dirs"} = {} =>
        /\ \A k \in Files : EntryOf(k).nStartBlock \in FileBlocks(disk)
        /\ \A k \in Files, d \in Directories : EntryOf(k).nStartBlock # DirBlockOf(d)
        /\ \A k, l \in Files : EntryOf(k).nStartBlock = EntryOf(l).nStartBlock => k = l

(* A file that read finds is found ever after, also after a stop between   *)
(* any two writes: unless two calls raced for its directory, or the        *)
(* directory was lost to mknod, to its own size, or to a file.             *)
FilesStay ==
    [][trouble' \intersect {"race", "slots", "full", "mknod", "dirs"} = {} => Files \subseteq Files']_vars

(* With none of these troubles the file system is a map from names to      *)
(* contents, which each call changes in one step: mkdir when it writes the *)
(* root, write when it writes the directory.  The data that a thread is    *)
(* about to write counts as written: nobody else looks at that block.      *)
Settled ==
    [b \in DOMAIN disk |->
        IF \E t \in Threads : pc[t] = "write_data" /\ call[t].block = b
          THEN call[CHOOSE t \in Threads : pc[t] = "write_data" /\ call[t].block = b].data
          ELSE disk[b]]

Store == INSTANCE FileStore
    WITH dirs <- IF trouble = {} THEN Directories ELSE {},
         files <- IF trouble = {} THEN [k \in Files |-> Contents(Settled, EntryOf(k))] ELSE <<>>,
         intact <- trouble = {}

ImplementsFileStore == Store!Spec
=============================================================================
