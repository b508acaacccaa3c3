-------------------------- MODULE FileSystemTree ----------------------------
(***************************************************************************)
(* The handlers implement the tree of FileTree: the objects that exist are *)
(* those a path leads to on the disk, their bytes those that the pointers  *)
(* of their inodes lead to.                                                *)
(***************************************************************************)
EXTENDS FileSystem

Node(i) ==
    [type  |-> disk[i].type,
     perm  |-> disk[i].perm,
     mtime |-> disk[i].mtime,
     data  |-> IF IsFile(disk, i) THEN [n \in 1 .. disk[i].size |-> ByteAt(i, n - 1)] ELSE <<>>]

Parsed == {Parse(path) : path \in Paths}

tree == [q \in {r \in Parsed : Translate(disk, r) >= 0} |-> Node(Translate(disk, q))]

Tree == INSTANCE FileTree WITH
    reply   <- [reply EXCEPT !.path = Parse(@)],
    Paths   <- Parsed,
    Stale   <- {0, Junk},
    Buffers <- {[n \in 1 .. len |-> byte] : len \in IoLens, byte \in Bytes},
    Offsets <- IoOffsets,
    Lens    <- IoLens,
    Sizes   <- TruncLens

(***************************************************************************)
(* Every call does to the tree what it is for and nothing else, whatever   *)
(* blocks were reused in between: what the call does not name keeps its    *)
(* place, its attributes and its bytes, a read returns the bytes that were *)
(* written, and a failing call changes nothing.  The one exception is      *)
(* Overreach: unlink takes a directory, and rmdir one that is not empty,   *)
(* so that everything below it, which the call does not name, loses its    *)
(* place too (RmdirOnlyEmpty refutes that rmdir does not).                 *)
(***************************************************************************)
ImplementsTree == Tree!Init /\ [][Tree!Next \/ Tree!Overreach]_(Tree!vars)
=============================================================================
