----------------------------- MODULE MCCS1550FS -----------------------------
(***************************************************************************)
(* The file system with two threads, directories of two files and a disk   *)
(* of three file blocks, so that five calls can fill a directory and go    *)
(* round to its first slot, fill the disk, or make a directory too many.   *)
(* A new file is <<2, 1>>, or begins with a 0 when it is written at offset *)
(* 1; written again at 1 it becomes <<2, 2, 1>>, and at 0 shorter again.   *)
(***************************************************************************)
EXTENDS CS1550FS, TLC

MCPayloads == {<<2, 1>>}
MCSymmetry == Permutations(Threads) \union Permutations(DirNames) \union Permutations(FileNames)
=============================================================================
