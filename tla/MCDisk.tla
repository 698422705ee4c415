------------------------------- MODULE MCDisk --------------------------------
(* Instances of Disk for TLC: a floppy with FAT12 and a hard disk with two   *)
(* FAT sectors, with a data sector of the same number on both.               *)
EXTENDS Disk

MCFat12 == <<1, 0>>
MCFat16 == {<<2, 0>>, <<2, 1>>}
MCData  == {<<1, 2>>, <<2, 2>>}
=============================================================================
