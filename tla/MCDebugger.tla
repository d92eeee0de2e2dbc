----------------------------- MODULE MCDebugger -----------------------------
(***************************************************************************)
(* The debugger on a program of five instructions: two bytes, one byte, a  *)
(* branch back, and an STP.                                                *)
(***************************************************************************)
EXTENDS Debugger

MCFollow ==
  [a \in {0, 2, 3, 5, 7} |->
     CASE a = 0 -> {2} [] a = 2 -> {3} [] a = 3 -> {2, 5} [] a = 5 -> {5} [] a = 7 -> {0}]
MCLength == [a \in {0, 2, 3, 5} |-> IF a \in {0, 3} THEN 2 ELSE 1]

Label(name, val) == [label |-> TRUE, caps |-> FALSE, name |-> name, val |-> val]
MCSymFiles ==
  << <<[label |-> FALSE, caps |-> FALSE, name |-> "equ", val |-> 0],
       Label("loop", 3),
       [label |-> TRUE, caps |-> TRUE, name |-> "UART", val |-> 0],
       Label("main", 2)>>,
     <<Label("main", 5)>> >>

MCKeys == {"c", "r", "m", "enter", "ctrl-c"}
=============================================================================
