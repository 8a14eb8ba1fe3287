------------------------------ MODULE Teletype ------------------------------
(***************************************************************************)
(* What the console promises while its cursor is in view: an endless sheet *)
(* of paper of which the last Rows lines are seen.  A character lands      *)
(* where the cursor is and the cursor goes on; nothing else moves or       *)
(* changes, and nothing that has left the view ever does.                  *)
(***************************************************************************)
EXTENDS Naturals, Sequences

CONSTANTS Rows, Cols, Tab,
          Ink    (* attributes                                             *)

VARIABLES paper,      (* lines of cells <<character, attribute>>           *)
          row, col,   (* the cursor                                        *)
          colour      (* the attribute in force                            *)

vars == <<paper, row, col, colour>>

Blank(a)   == <<32, a>>
BlankLine(a) == [c \in 0..Cols - 1 |-> Blank(a)]

Init ==
  /\ colour \in Ink
  /\ paper = [r \in 1..Rows |-> BlankLine(colour)]
  /\ row = 1 /\ col = 0

(* The cursor goes to the next line; below the last one a line is added.   *)
Feed(p) ==
  /\ col' = 0 /\ row' = row + 1
  /\ paper' = IF row < Len(p) THEN p ELSE Append(p, BlankLine(colour))

Character ==
  /\ LET cell == paper'[row][col]
         p == [paper EXCEPT ![row][col] = cell]
     IN  /\ cell \in (1..255) \X Ink
         /\ cell[1] < 128 => cell[2] = colour
         /\ IF col = Cols - 1 THEN Feed(p)
            ELSE paper' = p /\ col' = col + 1 /\ UNCHANGED row
  /\ UNCHANGED colour

NewLine == Feed(paper) /\ UNCHANGED colour

Return == col' = 0 /\ UNCHANGED <<paper, row, colour>>

(* To the next tab stop of the line.                                       *)
TabStop ==
  /\ col' \in (col + 1)..(col + Tab) /\ col' % Tab = 0 /\ col' < Cols
  /\ UNCHANGED <<paper, row, colour>>

(* One cell back, not out of view, and the cell that the cursor was on is  *)
(* blank; the one that it goes to keeps its character.                     *)
Back ==
  /\ \/ col > 0 /\ col' = col - 1 /\ UNCHANGED row
     \/ col = 0 /\ row > Len(paper) - Rows + 1 /\ row' = row - 1 /\ col' = Cols - 1
  /\ \E a \in Ink : paper' = [paper EXCEPT ![row][col] = Blank(a)]
  /\ UNCHANGED colour

Colour == colour' \in Ink /\ UNCHANGED <<paper, row, col>>

Next == Character \/ NewLine \/ Return \/ TabStop \/ Back \/ Colour

Spec == Init /\ [][Next]_vars
=============================================================================
