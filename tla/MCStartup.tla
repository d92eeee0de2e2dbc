------------------------------ MODULE MCStartup ------------------------------
(***************************************************************************)
(* The demo system of main.c with the sizes pushed to where they pinch: a  *)
(* kernel whose block numbers cross a byte, and a second program of seven  *)
(* blocks, which ends where the third program's C stack begins.            *)
(***************************************************************************)
EXTENDS Startup

Demo == << [lba |-> 200, nblocks |-> 1, base |-> 1],
           [lba |-> 210, nblocks |-> 7, base |-> 3],
           [lba |-> 220, nblocks |-> 2, base |-> 5] >>

\* main.c as it is.
MainCalls == << [lba |-> 200, nblocks |-> 1, base |-> 1],
                [lba |-> 210, nblocks |-> 1, base |-> 3],
                [lba |-> 220, nblocks |-> 1, base |-> 5] >>
=============================================================================
