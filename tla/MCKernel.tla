------------------------------ MODULE MCKernel ------------------------------
(***************************************************************************)
(* Instances of the kernel for TLC: two or three programs loaded at the    *)
(* blocks main.c uses, register files whose three bytes all differ.        *)
(***************************************************************************)
EXTENDS KernelRefinement

TwoProcs   == [p \in 0..1 |-> SpawnPpn(<<1, 3>>[p + 1])]
ThreeProcs == [p \in 0..2 |-> SpawnPpn(<<1, 3, 5>>[p + 1])]

OwnRegs == <<[a |-> 5, x |-> 6, y |-> 7, c |-> TRUE],
             [a |-> 6, x |-> 7, y |-> 5, c |-> FALSE],
             [a |-> 7, x |-> 5, y |-> 6, c |-> TRUE]>>
OneRegFile  == [p \in 0..2 |-> {OwnRegs[p + 1]}]
TwoRegFiles == [p \in 0..2 |-> {OwnRegs[p + 1], OwnRegs[((p + 1) % 3) + 1]}]

\* Which program uses which calls.
YieldAndGetc == [p \in 0..2 |-> {0, 3}]
Services     == [p \in 0..1 |-> IF p = 0 THEN {0, 1, 4, 6} ELSE {0, 2, 3, 5, 7, 8}]
=============================================================================
