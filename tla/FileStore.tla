------------------------------ MODULE FileStore ------------------------------
(***************************************************************************)
(* The abstract specification of the cs1550 file system: a set of          *)
(* directories and a map from the files in them, <<directory, name>>, to   *)
(* what they contain.  A call that returns has changed one file and        *)
(* nothing else.  A write inside a file keeps what lies before it and      *)
(* makes the file end with it; nothing is ever removed.                    *)
(*                                                                         *)
(* The promise is given as long as the disk is intact.                     *)
(***************************************************************************)
EXTENDS Integers, Sequences

CONSTANTS DirNames, FileNames, Payloads

VARIABLES dirs,    \* the directories
          files,   \* the contents of each file
          intact   \* nothing has happened that the file system cannot cope with

vars == <<dirs, files, intact>>

Init == dirs = {} /\ files = [k \in {} |-> <<>>] /\ intact = TRUE

Mkdir(d) ==
    /\ d \notin dirs
    /\ dirs' = dirs \union {d}
    /\ UNCHANGED <<files, intact>>

Create(k, buf) ==
    /\ k[1] \in dirs /\ k \notin DOMAIN files
    /\ files' = [j \in DOMAIN files \union {k} |-> IF j = k THEN buf ELSE files[j]]
    /\ UNCHANGED <<dirs, intact>>

Overwrite(k, offset, buf) ==
    /\ k \in DOMAIN files /\ offset < Len(files[k])
    /\ files' = [files EXCEPT ![k] = SubSeq(@, 1, offset) \o buf]
    /\ UNCHANGED <<dirs, intact>>

Damage == ~intact'

Next ==
    \/ \E d \in DirNames : Mkdir(d)
    \/ \E k \in DirNames \X FileNames, buf \in Payloads :
          \/ Create(k, buf)
          \/ \E offset \in IF k \in DOMAIN files THEN 0..Len(files[k]) - 1 ELSE {} :
                Overwrite(k, offset, buf)
    \/ Damage

Spec == Init /\ [][Next]_vars
=============================================================================
