------------------------------ MODULE Console -------------------------------
(***************************************************************************)
(* The text console, tty.c: a cursor, an attribute and the video memory,   *)
(* shared by the kernel and all programs.                                  *)
(*                                                                         *)
(* Characters are their codes, a cell of the video memory is a pair of     *)
(* character and attribute.  tty_puts, tty_puthex and tty_putdec call      *)
(* tty_putc for one character after the other; each is a step, and nobody  *)
(* else's comes in between: interrupts are off in the kernel.  What lies   *)
(* behind the last visible cell is never shown, and not kept.              *)
(***************************************************************************)
EXTENDS Naturals, SequencesExt

CONSTANTS
  Rows, Cols,   (* 25, 80                                                  *)
  Tab,          (* 8                                                       *)
  Byte,         (* 256: x and y are bytes                                  *)
  Nibbles,      (* 8: the width of a u32 in hexadecimal digits             *)
  Ink,          (* attributes: those of tty.h and aq.h, whose low byte,    *)
                (* where the character goes, is 0; system call 6 takes any *)
  White, Black, Flash,  (* WHITE, BLACK_BG, and all bits set               *)
  Texts, Numbers,       (* what is put                                     *)
  MaxPut        (* bound: characters put                                   *)

BS  == 8
TAB == 9
LF  == 10
CR  == 13
SP  == 32

ASSUME ConsoleAssumption ==
  /\ Rows \in Nat \ {0} /\ Cols \in Nat \ {0} /\ Tab \in Nat \ {0}
  /\ Byte \in Nat /\ Byte % Tab = 0 /\ Rows < Byte /\ Cols + Tab < Byte
  /\ Nibbles \in Nat \ {0}
  /\ {White, Black, Flash} \subseteq Ink
  /\ Texts \subseteq Seq(1..255) /\ Numbers \subseteq 0..16 ^ Nibbles - 1
  /\ MaxPut \in Nat

(* What a power is, of which the provers know nothing.                     *)
ASSUME PowersAssumption == \A i \in 1..Nibbles : 16 ^ i = 16 * 16 ^ (i - 1)

VARIABLES
  x, y, attribute,  (* statics of tty.c                                    *)
  video_memory,     (* its visible cells                                   *)
  crtc,             (* the position in the cursor registers                *)
  text,             (* characters that tty_puts is still to put            *)
  put,              (* history: how many have been put                     *)
  above             (* history: the lines that have been scrolled off      *)

vars == <<x, y, attribute, video_memory, crtc, text, put, above>>

Cells == 0..Rows * Cols - 1
Cell  == (1..255) \X Ink

tty_init ==
  /\ attribute = White
  /\ video_memory = [i \in Cells |-> <<SP, White>>]
  /\ x = 0 /\ y = 0 /\ crtc = 0
  /\ text = <<>> /\ put = 0 /\ above = <<>>

(***************************************************************************)
(* tty_putc                                                                *)
(***************************************************************************)
(* The attribute is or-ed to a char, which is signed.                      *)
Inked(c) == <<c, IF c < 128 THEN attribute ELSE Flash>>

Stored(i, cell) ==
  IF i \in Cells THEN [video_memory EXCEPT ![i] = cell] ELSE video_memory

Line(v, r) == [c \in 0..Cols - 1 |-> v[r * Cols + c]]

(* Mutated: the last line is not cleared.                                  *)
tty_scrollCopies(v) ==
  [i \in Cells |-> IF i < (Rows - 1) * Cols THEN v[i + Cols] ELSE v[i]]

tty_scroll(v) ==
  [i \in Cells |-> IF i < (Rows - 1) * Cols THEN v[i + Cols] ELSE <<SP, attribute>>]

(* Mutated: the cursor is shown where it was before the scroll.            *)
UpdateBelow(new_x, new_y, v) ==
  /\ x' = new_x /\ crtc' = new_y * Cols + new_x
  /\ IF new_y >= Rows
     THEN y' = Rows - 1 /\ video_memory' = tty_scroll(v) /\ above' = Append(above, Line(v, 0))
     ELSE y' = new_y /\ video_memory' = v /\ UNCHANGED above

(* The end of tty_putc: below the last line the screen is scrolled.        *)
Update(new_x, new_y, v) ==
  /\ x' = new_x
  /\ IF new_y >= Rows
     THEN y' = Rows - 1 /\ video_memory' = tty_scroll(v) /\ above' = Append(above, Line(v, 0))
     ELSE y' = new_y /\ video_memory' = v /\ UNCHANGED above
  /\ crtc' = y' * Cols + x'

(* Mutated: the first line is left upwards.                                *)
BackspaceUp ==
  IF x = 0 THEN Update(Cols - 1, y - 1, video_memory)
  ELSE Update(x - 1, y, Stored(y * Cols + x, <<SP, Black>>))

Backspace ==
  IF x = 0 /\ y = 0 THEN Update(x, y, video_memory)
  ELSE LET new_x == IF x = 0 THEN Cols - 1 ELSE x - 1
           new_y == IF x = 0 THEN y - 1 ELSE y
       IN  Update(new_x, new_y, Stored(new_y * Cols + new_x + 1, <<SP, Black>>))

(* x is a byte, and is not compared with the edge.                         *)
Tabulate == Update(((x + Tab) - ((x + Tab) % Tab)) % Byte, y, video_memory)

Printable(c) ==
  LET v == Stored(y * Cols + x, Inked(c))
  IN  IF x + 1 >= Cols THEN Update(0, y + 1, v) ELSE Update(x + 1, y, v)

tty_putc ==
  /\ text # <<>> /\ text' = Tail(text)
  /\ put' = put + 1
  /\ LET c == Head(text)
     IN  CASE c = BS  -> Backspace
           [] c = TAB -> Tabulate
           [] c = CR  -> Update(0, y, video_memory)
           [] c = LF  -> Update(0, y + 1, video_memory)
           [] OTHER   -> Printable(c)
  /\ UNCHANGED attribute

(***************************************************************************)
(* What the kernel and, through system calls 0 and 6, programs call.       *)
(***************************************************************************)
Begin(s) ==
  /\ text = <<>> /\ put + Len(s) <= MaxPut
  /\ text' = s
  /\ UNCHANGED <<x, y, attribute, video_memory, crtc, put, above>>

tty_puts(s) == Begin(s)

(* The code of a digit.                                                    *)
Digit(d) == IF d < 10 THEN 48 + d ELSE 97 + d - 10

nibble(n, i) == (n \div 16 ^ i) % 16

(* Mutated: zeros are skipped behind the first digit, too.                 *)
HexSqueezed(n) ==
  <<48, 120>> \o SelectSeq([k \in 1..Nibbles |-> Digit(nibble(n, Nibbles - k))],
                           LAMBDA d : d # 48)

(* 0x and the digits from the first that is not 0, or else the last, on.   *)
Hex(n) ==
  LET leading == {i \in 1..Nibbles - 1 : \A j \in i..Nibbles - 1 : nibble(n, j) = 0}
      digits == Nibbles - Cardinality(leading)
  IN  <<48, 120>> \o [k \in 1..digits |-> Digit(nibble(n, digits - k))]

tty_puthex(n) == Begin(Hex(n))

(* acc is signed: from 2^31 on it is negative and the loop does not start. *)
Decimal(n) ==
  LET digits[acc \in Nat] ==
        IF acc = 0 THEN <<>> ELSE Append(digits[acc \div 10], Digit(acc % 10))
  IN  IF n = 0 THEN <<48>>
      ELSE IF n < (16 ^ Nibbles) \div 2 THEN digits[n] ELSE <<>>

tty_putdec(n) == Begin(Decimal(n))

(* Only where the caller is between two calls.                             *)
tty_attr(a) ==
  /\ text = <<>> /\ attribute' = a
  /\ UNCHANGED <<x, y, video_memory, crtc, text, put, above>>

Next ==
  \/ \E s \in Texts : tty_puts(s)
  \/ \E n \in Numbers : tty_puthex(n) \/ tty_putdec(n)
  \/ \E a \in Ink \ {Black, Flash} : tty_attr(a)
  \/ tty_putc

Spec == tty_init /\ [][Next]_vars

-----------------------------------------------------------------------------
(***************************************************************************)
(* Properties                                                              *)
(***************************************************************************)
TypeOK ==
  /\ x \in Nat /\ y \in Nat /\ crtc \in Nat
  /\ attribute \in Ink
  /\ video_memory \in [Cells -> Cell]
  /\ text \in Seq(1..255) /\ put \in Nat

(* The console is a window on the paper of Teletype: lines scroll off      *)
(* whole and in order, a character goes where the cursor is, and no cell   *)
(* but that one changes, whatever is put and in whatever order.  It holds  *)
(* of every step that finds and leaves the cursor in its line.  Only a tab *)
(* takes it from there: x is not compared with the edge before the next    *)
(* character, which lands in a line below, or nowhere.                     *)
Screen == above \o [r \in 1..Rows |-> Line(video_memory, r - 1)]

T == INSTANCE Teletype WITH
       paper <- Screen, row <- Len(above) + y + 1, col <- x, colour <- attribute

InLine == x < Cols

WindowOnPaper ==
  T!Init /\ [][InLine /\ InLine' => T!Next \/ UNCHANGED T!vars]_vars

(* After every character y is a line of the screen, and the registers have *)
(* the position of x in it, also behind a scroll.  (A tab may have taken x *)
(* beyond the edge: the cursor is seen further down, or not at all.)       *)
CursorShown ==
  /\ x \in 0..Byte - 1 /\ y \in 0..Rows - 1
  /\ crtc = y * Cols + x

(* Read back, a number that was put is the number: every hexadecimal one,  *)
(* every decimal one that is not negative as a signed word.                *)
Value(s, base) ==
  LET value[i \in 0..Len(s)] ==
        IF i = 0 THEN 0
        ELSE value[i - 1] * base + IF s[i] < 58 THEN s[i] - 48 ELSE s[i] - 87
  IN  value[Len(s)]

NumbersReadBack ==
  [][\A n \in Numbers :
       /\ tty_puthex(n) => Value(SubSeq(text', 3, Len(text')), 16) = n
       /\ tty_putdec(n) /\ n < (16 ^ Nibbles) \div 2 => Value(text', 10) = n]_vars
=============================================================================
