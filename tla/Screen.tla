------------------------------- MODULE Screen -------------------------------
(***************************************************************************)
(* The monitor's text screen (tools/gpu.c): a grid of cells that is moved  *)
(* up when the cursor leaves its last row. The reference is a sheet of     *)
(* paper that never ends. A cell holding 0 and one holding a space look    *)
(* the same, and are both Blank here.                                      *)
(***************************************************************************)
EXTENDS Naturals, Sequences, SequencesExt

CONSTANTS Rows, Cols, \* 25 and 80
          Printable, Blank,
          NL, CR, BS, FF \* \n, \r, \b, \f

ASSUME ScreenAssumption == Rows \in Nat \ {0} /\ Cols \in Nat \ {0}
ASSUME CharacterAssumption == \* the four control characters are four, below 32
  /\ {NL, CR, BS, FF} \cap Printable = {}
  /\ NL \notin {CR, BS, FF} /\ CR \notin {BS, FF} /\ BS # FF

BlankRow == [x \in 0..(Cols - 1) |-> Blank]
ClearScreen == [cell |-> [y \in 0..(Rows - 1) |-> BlankRow], row |-> 0, col |-> 0]

ScrollKeepsLastRow(s) == \* seeded fault: the new last row is not cleared
  IF s.row < Rows THEN s
  ELSE [s EXCEPT !.row = Rows - 1,
                 !.cell = [y \in 0..(Rows - 1) |-> s.cell[IF y < Rows - 1 THEN y + 1 ELSE y]]]
ScrollNever(s) == s \* seeded fault: scroll_if_needed is not called
ScrollIfNeeded(s) ==
  IF s.row < Rows THEN s
  ELSE [s EXCEPT !.row = Rows - 1,
                 !.cell = [y \in 0..(Rows - 1) |->
                             IF y < Rows - 1 THEN s.cell[y + 1] ELSE BlankRow]]

NewLine(s) == [s EXCEPT !.row = @ + 1, !.col = 0]
Written(s, c) ==
  CASE c = NL -> NewLine(s)
    [] c = CR -> [s EXCEPT !.col = 0]
    [] c = BS /\ s.col > 0 -> [s EXCEPT !.col = @ - 1, !.cell[s.row][s.col - 1] = Blank]
    [] c = FF -> ClearScreen
    [] c \in Printable ->
         LET t == [s EXCEPT !.cell[s.row][s.col] = c]
         IN  IF s.col + 1 >= Cols THEN NewLine(t) ELSE [t EXCEPT !.col = @ + 1]
    [] OTHER -> s

put_char(s, c) == ScrollIfNeeded(Written(s, c))

----------------------------------------------------------------------------
(* The paper: all lines so far, the last one being written in column col.  *)

FreshPaper == [lines |-> <<BlankRow>>, col |-> 0]
Feed(p) == [lines |-> Append(p.lines, BlankRow), col |-> 0]
Print1(p, c) ==
  LET n == Len(p.lines)
  IN  CASE c = NL -> Feed(p)
        [] c = CR -> [p EXCEPT !.col = 0]
        [] c = BS /\ p.col > 0 -> [p EXCEPT !.col = @ - 1, !.lines[n][p.col - 1] = Blank]
        [] c = FF -> FreshPaper
        [] c \in Printable /\ p.col = Cols - 1 -> Feed([p EXCEPT !.lines[n][p.col] = c])
        [] c \in Printable /\ p.col < Cols - 1 -> [p EXCEPT !.lines[n][p.col] = c, !.col = @ + 1]
        [] OTHER -> p
Paper(text) == FoldLeft(Print1, FreshPaper, text)

\* The last Rows lines of the paper, the cursor where the paper's is.
Shows(s, p) ==
  LET n   == Len(p.lines)
      top == IF n > Rows THEN n - Rows ELSE 0
  IN  /\ s.row = n - top - 1 /\ s.col = p.col
      /\ \A y \in 0..(Rows - 1) :
           s.cell[y] = IF top + y + 1 <= n THEN p.lines[top + y + 1] ELSE BlankRow
=============================================================================
