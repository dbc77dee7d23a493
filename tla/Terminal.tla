-------------------------------- MODULE Terminal --------------------------------
(***************************************************************************)
(* The terminal the line editor writes to, as far as the editor uses it:    *)
(* the row the cursor is on.  External: no code of the shell, but what a     *)
(* terminal of Width columns with automatic margins does with "\b", "\r",   *)
(* ESC [ K and characters of one column.                                    *)
(*                                                                         *)
(* at is how many columns are left of the cursor.  A character in the last  *)
(* column leaves the cursor on it, and the next one goes to a new row (at = *)
(* Width).  Rows that were left, by a new line or at the margin, are never  *)
(* written again; the row below is blank.                                   *)
(***************************************************************************)
EXTENDS Integers, Sequences

CONSTANTS
  Width,  \* columns
  Glyphs, \* what a column can show
  Space   \* the blank

ASSUME TerminalAssumption ==
  /\ Width \in Nat /\ Width >= 2
  /\ Space \in Glyphs

Rows == [cells : [1 .. Width -> Glyphs], at : 0 .. Width]

BlankRow == [cells |-> [i \in 1 .. Width |-> Space], at |-> 0]

\* Characters of one column each, from the cursor on.
Write(row, text) ==
  LET end == row.at + Len(text)
      at == IF end <= Width THEN end ELSE ((end - 1) % Width) + 1
      left == end - at  \* columns of the rows that are left
      cell(i) == IF left + i \in row.at + 1 .. end THEN text[left + i - row.at]
                 ELSE IF left = 0 THEN row.cells[i] ELSE Space
  IN  [cells |-> [i \in 1 .. Width |-> cell(i)], at |-> at]

\* "\b": not beyond the start of the row, and from the column before last if the
\* cursor is kept on the last one.
Back(row) ==
  [row EXCEPT !.at = IF @ = Width THEN Width - 2 ELSE IF @ = 0 THEN 0 ELSE @ - 1]

\* "\r"
Return(row) == [cells |-> row.cells, at |-> 0]

\* ESC [ K
ClearToEnd(row) ==
  [cells |-> [i \in 1 .. Width |-> IF i <= row.at THEN row.cells[i] ELSE Space], at |-> row.at]

=================================================================================
