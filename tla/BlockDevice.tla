---------------------------- MODULE BlockDevice -----------------------------
(***************************************************************************)
(* misc.c: the image file, and the one file offset that all threads of the *)
(* process share.  block_read is an lseek and a read, block_write two      *)
(* lseeks (the first to the end of the block) and a write: each of these   *)
(* system calls is an action, and whoever composes them decides what comes *)
(* in between.  Offsets are counted in blocks.                             *)
(***************************************************************************)
EXTENDS Integers

VARIABLES image, offset

\* lseek refuses a negative offset only: it may well pass the end of the image.
Seek(block) ==
    /\ block >= 0
    /\ offset' = block
    /\ UNCHANGED image

\* The block that a read would return.
Here == image[offset]

\* A read past the end of the image is short, and block_read makes an error of it.
Read ==
    /\ offset \in DOMAIN image
    /\ offset' = offset + 1
    /\ UNCHANGED image

\* A write past the end lengthens the file and changes no block of the disk.
Write(content) ==
    /\ offset' = offset + 1
    /\ image' = [b \in DOMAIN image |-> IF b = offset THEN content ELSE image[b]]
=============================================================================
