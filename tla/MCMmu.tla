------------------------------- MODULE MCMmu -------------------------------
(***************************************************************************)
(* A small MMU for TLC: four pages, two-bit bytes, one-bit frame numbers.  *)
(* The CPU rewrites one page-table entry, both bytes of u_bits, one of     *)
(* w_bits, the mode register and a reserved one.                           *)
(***************************************************************************)
EXTENDS Mmu

SomeWrites == {<<"ppn", 1>>, <<"u", 0>>, <<"u", 1>>, <<"w", 0>>, <<"mode", 0>>, <<"reserved", 0>>}
AllValues  == Bytes
=============================================================================
