------------------------------- MODULE MCDisk -------------------------------
(***************************************************************************)
(* A small disk for TLC: four blocks of four bytes, block numbers of two   *)
(* one-bit bytes, ten bytes of RAM. All bytes differ at first, so a byte   *)
(* in the wrong place shows. Buffers overlap and start off page boundaries.*)
(***************************************************************************)
EXTENDS Disk

Image  == [b \in 0..3 |-> [i \in 0..3 |-> 10 * (b + 1) + i]]
Memory == [a \in 0..9 |-> 100 + a]
=============================================================================
