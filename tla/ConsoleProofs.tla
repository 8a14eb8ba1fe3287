--------------------------- MODULE ConsoleProofs ----------------------------
(***************************************************************************)
(* For every screen size and every text: the cursor's line stays on the    *)
(* screen, tty.c implements the endless paper of Teletype wherever the     *)
(* cursor is in its line, and a number that is put can be read back from   *)
(* its digits.                                                             *)
(***************************************************************************)
EXTENDS Console, SequenceTheorems, FiniteSetTheorems, WellFoundedInduction, TLAPS

LEMMA Sizes ==
  /\ Rows \in Nat \ {0} /\ Cols \in Nat \ {0} /\ Tab \in Nat \ {0} /\ Byte \in Nat
  /\ Rows < Byte /\ Cols + Tab < Byte
BY ConsoleAssumption

(* Update leaves the cursor on the screen if it is given a column and a    *)
(* line at most one below.                                                 *)
LEMMA UpdateShows ==
  ASSUME NEW new_x \in 0..Byte - 1, NEW new_y \in 0..Rows, NEW v,
         Update(new_x, new_y, v)
  PROVE  CursorShown'
<1>1. x' \in 0..Byte - 1
  BY DEF Update
<1>2. y' \in 0..Rows - 1
  BY Sizes DEF Update
<1>3. crtc' = y' * Cols + x'
  BY DEF Update
<1>4. QED
  BY <1>1, <1>2, <1>3 DEF CursorShown

LEMMA CursorStep == CursorShown /\ [Next]_vars => CursorShown'
<1> SUFFICES ASSUME CursorShown, [Next]_vars PROVE CursorShown'
  OBVIOUS
<1>1. x \in 0..Byte - 1 /\ y \in 0..Rows - 1
  BY DEF CursorShown
<1>2. CASE tty_putc
  <2>1. CASE Backspace
    <3>1. CASE x = 0 /\ y = 0
      BY <1>1, <2>1, <3>1, UpdateShows, Sizes DEF Backspace
    <3>2. CASE x = 0 /\ y # 0
      <4>1. Cols - 1 \in 0..Byte - 1 /\ y - 1 \in 0..Rows
        BY <1>1, <3>2, Sizes
      <4>2. \E v : Update(Cols - 1, y - 1, v)
        BY <2>1, <3>2 DEF Backspace
      <4>3. QED
        BY <4>1, <4>2, UpdateShows
    <3>3. CASE x # 0
      <4>1. x - 1 \in 0..Byte - 1 /\ y \in 0..Rows
        BY <1>1, <3>3, Sizes
      <4>2. \E v : Update(x - 1, y, v)
        BY <2>1, <3>3 DEF Backspace
      <4>3. QED
        BY <4>1, <4>2, UpdateShows
    <3>4. QED
      BY <3>1, <3>2, <3>3
  <2>2. CASE Tabulate
    <3>1. (x + Tab) - ((x + Tab) % Tab) \in Int
      BY <1>1, Sizes
    <3>2. ((x + Tab) - ((x + Tab) % Tab)) % Byte \in 0..Byte - 1
      BY <3>1, Sizes
    <3>3. QED
      BY <1>1, <2>2, <3>2, UpdateShows, Sizes DEF Tabulate
  <2>3. CASE Update(0, y, video_memory) \/ Update(0, y + 1, video_memory)
    BY <1>1, <2>3, UpdateShows, Sizes
  <2>4. ASSUME NEW c, Printable(c) PROVE CursorShown'
    <3>1. CASE x + 1 >= Cols
      <4>1. 0 \in 0..Byte - 1 /\ y + 1 \in 0..Rows
        BY <1>1, Sizes
      <4>2. \E v : Update(0, y + 1, v)
        BY <2>4, <3>1 DEF Printable
      <4>3. QED
        BY <4>1, <4>2, UpdateShows
    <3>2. CASE ~(x + 1 >= Cols)
      <4>1. x + 1 \in 0..Byte - 1 /\ y \in 0..Rows
        BY <1>1, <3>2, Sizes
      <4>2. \E v : Update(x + 1, y, v)
        BY <2>4, <3>2 DEF Printable
      <4>3. QED
        BY <4>1, <4>2, UpdateShows
    <3>3. QED
      BY <3>1, <3>2
  <2>5. QED
    <3>1. \/ Backspace \/ Tabulate
          \/ Update(0, y, video_memory) \/ Update(0, y + 1, video_memory)
          \/ \E c : Printable(c)
      BY <1>2, Zenon DEF tty_putc
    <3>2. QED
      BY <2>1, <2>2, <2>3, <2>4, <3>1
<1>3. ASSUME UNCHANGED <<x, y, crtc>> PROVE CursorShown'
  BY <1>3 DEF CursorShown
<1>4. QED
  BY <1>2, <1>3 DEF Next, tty_puts, tty_puthex, tty_putdec, tty_attr, Begin, vars

(* Whatever text is put on a screen of whatever size, the cursor is on one *)
(* of its lines and is shown where it is.                                  *)
THEOREM AlwaysShown == Spec => []CursorShown
<1>1. tty_init => CursorShown
  BY Sizes DEF tty_init, CursorShown
<1>2. QED
  BY <1>1, CursorStep, PTL DEF Spec

-----------------------------------------------------------------------------
(***************************************************************************)
(* The paper of Teletype: the lines that have been scrolled off and those  *)
(* in the video memory.                                                    *)
(***************************************************************************)
LineType == [0..Cols - 1 -> Cell]

Paper(ab, v) == ab \o [r \in 1..Rows |-> Line(v, r - 1)]

LEMMA ScreenIsPaper == Screen = Paper(above, video_memory)
BY DEF Screen, Paper

(* Every cell of the video memory has one line and one column.             *)
LEMMA CellIndex ==
  ASSUME NEW r \in 0..Rows - 1, NEW c \in 0..Cols - 1
  PROVE  r * Cols + c \in Cells
<1>1. r \in Nat /\ c \in Nat /\ Rows \in Nat /\ Cols \in Nat /\ c < Cols /\ r < Rows
  BY Sizes
<1>2. r * Cols + c < Rows * Cols /\ r * Cols + c \in Nat
  BY <1>1
<1> QED BY <1>1, <1>2 DEF Cells

LEMMA CellUnique ==
  ASSUME NEW r \in Nat, NEW s \in Nat, NEW c \in 0..Cols - 1, NEW d \in 0..Cols - 1,
         r * Cols + c = s * Cols + d
  PROVE  r = s /\ c = d
<1>1. c \in Nat /\ d \in Nat /\ Cols \in Nat /\ c < Cols /\ d < Cols
  BY Sizes
<1> QED BY <1>1

LEMMA LineEqual ==
  ASSUME NEW l \in LineType, NEW m \in LineType, \A d \in 0..Cols - 1 : l[d] = m[d]
  PROVE  l = m
<1>1. l = [d \in 0..Cols - 1 |-> l[d]] /\ m = [d \in 0..Cols - 1 |-> m[d]]
  BY Zenon DEF LineType
<1>2. [d \in 0..Cols - 1 |-> l[d]] = [d \in 0..Cols - 1 |-> m[d]]
  OBVIOUS
<1> QED BY <1>1, <1>2, Zenon

LEMMA LineTyped ==
  ASSUME NEW v \in [Cells -> Cell], NEW r \in 0..Rows - 1
  PROVE  /\ Line(v, r) \in LineType
         /\ \A c \in 0..Cols - 1 : Line(v, r)[c] = v[r * Cols + c]
BY CellIndex DEF Line, LineType

LEMMA PaperShape ==
  ASSUME NEW ab \in Seq(LineType), NEW v \in [Cells -> Cell]
  PROVE  /\ Paper(ab, v) \in Seq(LineType)
         /\ Len(Paper(ab, v)) = Len(ab) + Rows
         /\ \A i \in 1..Len(ab) : Paper(ab, v)[i] = ab[i]
         /\ \A r \in 0..Rows - 1 : Paper(ab, v)[Len(ab) + r + 1] = Line(v, r)
<1> DEFINE w == [r \in 1..Rows |-> Line(v, r - 1)]
<1>1. w \in Seq(LineType) /\ Len(w) = Rows
  <2>1. \A r \in 1..Rows : r - 1 \in 0..Rows - 1
    BY Sizes
  <2>2. w \in [1..Rows -> LineType]
    BY <2>1, LineTyped
  <2>3. w \in Seq(LineType)
    BY <2>2, Sizes, SeqDef
  <2> QED BY <2>2, <2>3, Sizes, LenProperties
<1>2. Len(ab) \in Nat
  BY LenProperties
<1> HIDE DEF w
<1>3. /\ Paper(ab, v) \in Seq(LineType) /\ Len(Paper(ab, v)) = Len(ab) + Rows
      /\ \A i \in 1..Len(ab) + Rows :
           Paper(ab, v)[i] = IF i <= Len(ab) THEN ab[i] ELSE w[i - Len(ab)]
  BY <1>1, ConcatProperties DEF Paper, w
<1>4. \A i \in 1..Len(ab) : Paper(ab, v)[i] = ab[i]
  BY <1>2, <1>3, Sizes
<1>5. ASSUME NEW r \in 0..Rows - 1 PROVE Paper(ab, v)[Len(ab) + r + 1] = Line(v, r)
  <2>1. /\ Len(ab) + r + 1 \in 1..Len(ab) + Rows /\ ~ (Len(ab) + r + 1 <= Len(ab))
        /\ (Len(ab) + r + 1) - Len(ab) = r + 1 /\ r + 1 \in 1..Rows /\ (r + 1) - 1 = r
    BY <1>2, Sizes
  <2> QED BY <2>1, <1>3 DEF w
<1> QED BY <1>3, <1>4, <1>5

(* Storing a cell changes one place of the paper.                          *)
Inserted(P, k, c, cell) == [P EXCEPT ![k] = [P[k] EXCEPT ![c] = cell]]

LEMMA InsertedCell ==
  ASSUME NEW P, NEW k, NEW c, NEW cell
  PROVE  Inserted(P, k, c, cell) = [P EXCEPT ![k][c] = cell]
BY DEF Inserted

LEMMA PaperStored ==
  ASSUME NEW ab \in Seq(LineType), video_memory \in [Cells -> Cell],
         NEW r \in 0..Rows - 1, NEW c \in 0..Cols - 1, NEW cell \in Cell
  PROVE  LET v == Stored(r * Cols + c, cell)
         IN  /\ v \in [Cells -> Cell]
             /\ Paper(ab, v) = Inserted(Paper(ab, video_memory), Len(ab) + r + 1, c, cell)
<1> DEFINE v == Stored(r * Cols + c, cell)
           P == Paper(ab, video_memory)
           k == Len(ab) + r + 1
           l == [P[k] EXCEPT ![c] = cell]
           Q == [P EXCEPT ![k] = l]
<1>1. /\ v \in [Cells -> Cell] /\ r * Cols + c \in Cells
      /\ v = [video_memory EXCEPT ![r * Cols + c] = cell]
  BY CellIndex DEF Stored
<1>2. /\ Len(ab) \in Nat /\ r \in Nat /\ Rows \in Nat /\ r < Rows
      /\ k \in 1..Len(ab) + Rows
  BY LenProperties, Sizes
<1>3. /\ P \in Seq(LineType) /\ Len(P) = Len(ab) + Rows
      /\ \A i \in 1..Len(ab) : P[i] = ab[i]
      /\ \A s \in 0..Rows - 1 : P[Len(ab) + s + 1] = Line(video_memory, s)
  BY PaperShape
<1>4. /\ Paper(ab, v) \in Seq(LineType) /\ Len(Paper(ab, v)) = Len(ab) + Rows
      /\ \A i \in 1..Len(ab) : Paper(ab, v)[i] = ab[i]
      /\ \A s \in 0..Rows - 1 : Paper(ab, v)[Len(ab) + s + 1] = Line(v, s)
  BY <1>1, PaperShape
<1>5. l \in LineType
  <2>1. P[k] \in LineType
    <3>1. P[k] = Line(video_memory, r)
      BY <1>3
    <3> QED BY <3>1, LineTyped
  <2> HIDE DEF P, k
  <2> QED BY <2>1 DEF LineType
<1> HIDE DEF v, P, l
<1>6. /\ Q \in Seq(LineType) /\ Len(Q) = Len(ab) + Rows
      /\ \A i \in 1..Len(ab) + Rows : Q[i] = IF i = k THEN l ELSE P[i]
  BY <1>2, <1>3, <1>5, ExceptSeq
<1>7. \A i \in 1..Len(ab) + Rows : Paper(ab, v)[i] = Q[i]
  <2> SUFFICES ASSUME NEW i \in 1..Len(ab) + Rows PROVE Paper(ab, v)[i] = Q[i]
    OBVIOUS
  <2>1. CASE i \in 1..Len(ab)
    <3>1. i # k
      BY <1>2, <2>1
    <3> QED BY <3>1, <2>1, <1>3, <1>4, <1>6
  <2>2. CASE i \notin 1..Len(ab)
    <3> DEFINE s == i - Len(ab) - 1
    <3>1. s \in 0..Rows - 1 /\ i = Len(ab) + s + 1 /\ (i = k <=> s = r) /\ s \in Nat
      BY <1>2, <2>2
    <3> HIDE DEF s
    <3>2. /\ Line(v, s) \in LineType /\ Line(video_memory, s) \in LineType
          /\ \A d \in 0..Cols - 1 :
               /\ Line(v, s)[d] = v[s * Cols + d]
               /\ Line(video_memory, s)[d] = video_memory[s * Cols + d]
               /\ s * Cols + d \in Cells
      <4>1. \A d \in 0..Cols - 1 : s * Cols + d \in Cells
        BY <3>1, CellIndex
      <4>2. /\ Line(v, s) \in LineType
            /\ \A d \in 0..Cols - 1 : Line(v, s)[d] = v[s * Cols + d]
        BY <1>1, <3>1, LineTyped
      <4>3. /\ Line(video_memory, s) \in LineType
            /\ \A d \in 0..Cols - 1 :
                 Line(video_memory, s)[d] = video_memory[s * Cols + d]
        BY <3>1, LineTyped
      <4> QED BY <4>1, <4>2, <4>3
    <3>3. CASE s = r
      <4>1. P[k] = Line(video_memory, r)
        BY <1>3
      <4>2. \A d \in 0..Cols - 1 : Line(v, r)[d] = l[d]
        <5> SUFFICES ASSUME NEW d \in 0..Cols - 1 PROVE Line(v, r)[d] = l[d]
          OBVIOUS
        <5>1. r * Cols + d = r * Cols + c => d = c
          BY <1>2, CellUnique
        <5>2. l[d] = IF d = c THEN cell ELSE video_memory[r * Cols + d]
          BY <3>2, <3>3, <4>1 DEF l, LineType
        <5>3. v[r * Cols + d] = IF d = c THEN cell ELSE video_memory[r * Cols + d]
          BY <1>1, <3>2, <3>3, <5>1
        <5> QED BY <5>2, <5>3, <3>2, <3>3
      <4>3. Line(v, r) = l
        <5>1. Line(v, r) \in LineType
          BY <3>2, <3>3
        <5> QED BY <5>1, <4>2, <1>5, LineEqual
      <4> QED BY <3>1, <3>3, <4>3, <1>4, <1>6
    <3>4. CASE s # r
      <4>1. \A d \in 0..Cols - 1 : Line(v, s)[d] = Line(video_memory, s)[d]
        <5> SUFFICES ASSUME NEW d \in 0..Cols - 1
                     PROVE  Line(v, s)[d] = Line(video_memory, s)[d]
          OBVIOUS
        <5>1. s * Cols + d # r * Cols + c
          BY <1>2, <3>1, <3>4, CellUnique
        <5> QED BY <5>1, <3>2, <1>1
      <4>2. Line(v, s) = Line(video_memory, s)
        <5>1. Line(v, s) \in LineType /\ Line(video_memory, s) \in LineType
          BY <3>2
        <5> QED BY <5>1, <4>1, LineEqual
      <4> QED BY <3>1, <3>4, <4>2, <1>3, <1>4, <1>6
    <3> QED BY <3>3, <3>4
  <2> QED BY <2>1, <2>2
<1>8. Paper(ab, v) = Q
  BY <1>4, <1>6, <1>7, SeqEqual
<1> QED BY <1>1, <1>8 DEF v, P, l, Inserted

(* A scroll takes the first line of the screen into the lines above and    *)
(* shows a new one: on the paper a line is added.                          *)
LEMMA PaperScrolled ==
  ASSUME NEW ab \in Seq(LineType), NEW v \in [Cells -> Cell], attribute \in Ink
  PROVE  /\ tty_scroll(v) \in [Cells -> Cell]
         /\ Append(ab, Line(v, 0)) \in Seq(LineType)
         /\ Len(Append(ab, Line(v, 0))) = Len(ab) + 1
         /\ Paper(Append(ab, Line(v, 0)), tty_scroll(v))
              = Append(Paper(ab, v), T!BlankLine(attribute))
<1> DEFINE w == tty_scroll(v)
           b == Append(ab, Line(v, 0))
           n == Len(ab)
           P == Paper(ab, v)
           Q == Append(P, T!BlankLine(attribute))
<1>1. /\ n \in Nat /\ Rows \in Nat /\ Cols \in Nat /\ Rows > 0 /\ Cols > 0
      /\ 0 \in 0..Rows - 1
  BY LenProperties, Sizes
<1>2. <<SP, attribute>> \in Cell
  BY DEF Cell, SP
<1>3. w \in [Cells -> Cell]
  <2>1. ASSUME NEW i \in Cells, i < (Rows - 1) * Cols PROVE i + Cols \in Cells
    <3>1. i \in Nat /\ (Rows - 1) * Cols + Cols = Rows * Cols /\ (Rows - 1) * Cols \in Nat
      BY <1>1 DEF Cells
    <3>2. i + Cols \in Nat /\ i + Cols < Rows * Cols
      BY <3>1, <2>1, <1>1
    <3> QED BY <3>2, <1>1 DEF Cells
  <2> QED BY <2>1, <1>2 DEF tty_scroll
<1>4. \A s \in 0..Rows - 1, d \in 0..Cols - 1 :
        w[s * Cols + d] = IF s < Rows - 1 THEN v[(s + 1) * Cols + d] ELSE <<SP, attribute>>
  <2> SUFFICES ASSUME NEW s \in 0..Rows - 1, NEW d \in 0..Cols - 1
               PROVE  w[s * Cols + d] = IF s < Rows - 1 THEN v[(s + 1) * Cols + d]
                                        ELSE <<SP, attribute>>
    OBVIOUS
  <2>1. s * Cols + d \in Cells
    BY CellIndex
  <2>2. s \in Nat /\ d \in Nat /\ s < Rows /\ d < Cols
    BY <1>1
  <2>3. CASE s < Rows - 1
    <3>1. s * Cols + d < (Rows - 1) * Cols /\ (s * Cols + d) + Cols = (s + 1) * Cols + d
      BY <1>1, <2>2, <2>3
    <3> QED BY <3>1, <2>1, <2>3 DEF tty_scroll
  <2>4. CASE ~ (s < Rows - 1)
    <3>1. s = Rows - 1
      BY <1>1, <2>2, <2>4
    <3>2. ~ (s * Cols + d < (Rows - 1) * Cols)
      BY <1>1, <2>2, <3>1
    <3> QED BY <3>2, <2>1, <2>4 DEF tty_scroll
  <2> QED BY <2>3, <2>4
<1>5. Line(v, 0) \in LineType /\ T!BlankLine(attribute) \in LineType
  <2>1. T!BlankLine(attribute) = [c \in 0..Cols - 1 |-> <<SP, attribute>>]
    BY DEF T!BlankLine, T!Blank, SP
  <2> QED BY <2>1, <1>1, <1>2, LineTyped DEF LineType
<1>6. /\ P \in Seq(LineType) /\ Len(P) = n + Rows
      /\ \A i \in 1..n : P[i] = ab[i]
      /\ \A r \in 0..Rows - 1 : P[n + r + 1] = Line(v, r)
  BY PaperShape
<1>7. /\ b \in Seq(LineType) /\ Len(b) = n + 1
      /\ \A i \in 1..n : b[i] = ab[i]
      /\ b[n + 1] = Line(v, 0)
  BY <1>5, AppendProperties
<1> HIDE DEF P, b, w
<1>8. /\ Q \in Seq(LineType) /\ Len(Q) = n + Rows + 1
      /\ \A i \in 1..n + Rows : Q[i] = P[i]
      /\ Q[n + Rows + 1] = T!BlankLine(attribute)
  BY <1>5, <1>6, AppendProperties
<1> DEFINE R == Paper(b, w)
<1>9. /\ R \in Seq(LineType) /\ Len(R) = n + 1 + Rows
      /\ \A i \in 1..n + 1 : R[i] = b[i]
      /\ \A r \in 0..Rows - 1 : R[n + 1 + r + 1] = Line(w, r)
  <2>1. /\ R \in Seq(LineType) /\ Len(R) = Len(b) + Rows
        /\ \A i \in 1..Len(b) : R[i] = b[i]
        /\ \A r \in 0..Rows - 1 : R[Len(b) + r + 1] = Line(w, r)
    BY <1>3, <1>7, PaperShape
  <2>2. Len(b) = n + 1
    BY <1>7
  <2> HIDE DEF R, n
  <2> QED BY <2>1, <2>2
<1> HIDE DEF R, Q, n
<1>10. \A i \in 1..n + 1 + Rows : R[i] = Q[i]
  <2> SUFFICES ASSUME NEW i \in 1..n + 1 + Rows PROVE R[i] = Q[i]
    OBVIOUS
  <2>1. CASE i \in 1..n
    <3>1. i \in 1..n + 1 /\ i \in 1..n + Rows
      BY <1>1, <2>1
    <3> QED BY <3>1, <2>1, <1>6, <1>7, <1>8, <1>9
  <2>2. CASE i = n + 1
    <3>1. n + 1 \in 1..n + 1 /\ n + 1 \in 1..n + Rows /\ n + 1 = n + 0 + 1
      BY <1>1
    <3>2. P[n + 1] = Line(v, 0)
      BY <3>1, <1>1, <1>6
    <3> QED BY <3>1, <3>2, <2>2, <1>7, <1>8, <1>9
  <2>3. CASE i > n + 1
    <3> DEFINE s == i - n - 2
    <3>1. s \in 0..Rows - 1 /\ i = n + 1 + s + 1 /\ s \in Nat
      BY <1>1, <2>3
    <3> HIDE DEF s
    <3>2. R[i] = Line(w, s)
      BY <3>1, <1>9
    <3>3. /\ Line(w, s) \in LineType
          /\ \A d \in 0..Cols - 1 : Line(w, s)[d] = w[s * Cols + d]
      BY <3>1, <1>3, LineTyped
    <3>4. CASE s < Rows - 1
      <4>1. s + 1 \in 0..Rows - 1 /\ i = n + (s + 1) + 1 /\ i \in 1..n + Rows
        BY <1>1, <3>1, <3>4
      <4>2. Q[i] = Line(v, s + 1)
        BY <4>1, <1>6, <1>8
      <4>3. /\ Line(v, s + 1) \in LineType
            /\ \A d \in 0..Cols - 1 : Line(v, s + 1)[d] = v[(s + 1) * Cols + d]
        BY <4>1, LineTyped
      <4>4. \A d \in 0..Cols - 1 : Line(w, s)[d] = Line(v, s + 1)[d]
        BY <3>1, <3>3, <3>4, <4>3, <1>4
      <4> QED BY <4>2, <4>3, <4>4, <3>2, <3>3, LineEqual
    <3>5. CASE ~ (s < Rows - 1)
      <4>1. i = n + Rows + 1
        BY <1>1, <3>1, <3>5
      <4>2. \A d \in 0..Cols - 1 : T!BlankLine(attribute)[d] = <<SP, attribute>>
        BY DEF T!BlankLine, T!Blank, SP
      <4>3. \A d \in 0..Cols - 1 : Line(w, s)[d] = T!BlankLine(attribute)[d]
        BY <3>1, <3>3, <3>5, <4>2, <1>4
      <4> QED BY <4>1, <4>3, <3>2, <3>3, <1>5, <1>8, LineEqual
    <3> QED BY <3>4, <3>5
  <2> QED BY <1>1, <2>1, <2>2, <2>3
<1>11. R = Q
  <2>1. Len(R) = n + 1 + Rows /\ Len(Q) = n + 1 + Rows
    BY <1>1, <1>8, <1>9
  <2> QED BY <2>1, <1>8, <1>9, <1>10, SeqEqual
<1> QED BY <1>3, <1>7, <1>11 DEF R, Q, P, b, w, n

-----------------------------------------------------------------------------
(***************************************************************************)
(* The end of tty_putc, on the paper.                                      *)
(***************************************************************************)
ConsoleInv == TypeOK /\ CursorShown /\ above \in Seq(LineType)

LEMMA Stays ==
  ASSUME ConsoleInv, NEW new_x, NEW new_y \in 0..Rows - 1, NEW v \in [Cells -> Cell],
         Update(new_x, new_y, v)
  PROVE  /\ Screen' = Paper(above, v)
         /\ x' = new_x /\ y' = new_y
         /\ above' = above /\ video_memory' = v
<1>1. ~ (new_y >= Rows)
  BY Sizes
<1>2. x' = new_x /\ y' = new_y /\ above' = above /\ video_memory' = v
  BY <1>1 DEF Update
<1> QED BY <1>2 DEF Screen, Paper

LEMMA Feeds ==
  ASSUME ConsoleInv, attribute' = attribute, NEW v \in [Cells -> Cell],
         Update(0, y + 1, v)
  PROVE  /\ T!Feed(Paper(above, v))
         /\ \A i \in 1..Len(above) + Rows : Screen'[i] = Paper(above, v)[i]
         /\ video_memory' \in [Cells -> Cell]
         /\ above' \in Seq(LineType)
<1> DEFINE P == Paper(above, v)
           n == Len(above)
<1>1. /\ above \in Seq(LineType) /\ y \in 0..Rows - 1 /\ attribute \in Ink /\ n \in Nat
  BY LenProperties DEF ConsoleInv, TypeOK, CursorShown
<1>2. P \in Seq(LineType) /\ Len(P) = n + Rows
  BY <1>1, PaperShape
<1>3. T!BlankLine(attribute) \in LineType
  <2>1. <<32, attribute>> \in Cell
    BY <1>1 DEF Cell
  <2> QED BY <2>1 DEF T!BlankLine, T!Blank, LineType
<1>4. CASE y + 1 < Rows
  <2>1. Screen' = P /\ x' = 0 /\ y' = y + 1 /\ above' = above /\ video_memory' = v
    <3>1. y + 1 \in 0..Rows - 1
      BY <1>1, <1>4, Sizes
    <3> QED BY <3>1, Stays
  <2>2. n + y + 1 < Len(P) /\ n + (y + 1) + 1 = (n + y + 1) + 1
    BY <1>1, <1>2, <1>4, Sizes
  <2> HIDE DEF P
  <2>3. T!Feed(P)
    BY <2>1, <2>2 DEF T!Feed
  <2> QED BY <2>1, <2>3, <1>1 DEF P
<1>5. CASE ~ (y + 1 < Rows)
  <2>1. y + 1 >= Rows /\ y = Rows - 1
    BY <1>1, <1>5, Sizes
  <2>2. /\ x' = 0 /\ y' = Rows - 1 /\ video_memory' = tty_scroll(v)
        /\ above' = Append(above, Line(v, 0))
    BY <2>1 DEF Update
  <2>3. /\ video_memory' \in [Cells -> Cell] /\ above' \in Seq(LineType)
        /\ Len(above') = n + 1
        /\ Paper(above', video_memory') = Append(P, T!BlankLine(attribute))
    BY <1>1, <2>2, PaperScrolled
  <2>4. Screen' = Append(P, T!BlankLine(attribute))
    BY <2>3 DEF Screen, Paper
  <2>5. ~ (n + y + 1 < Len(P)) /\ (n + 1) + (Rows - 1) + 1 = (n + y + 1) + 1
    BY <1>1, <1>2, <2>1, Sizes
  <2> HIDE DEF P
  <2>6. T!Feed(P)
    BY <2>2, <2>3, <2>4, <2>5 DEF T!Feed
  <2>7. \A i \in 1..n + Rows : Screen'[i] = P[i]
    BY <1>2, <1>3, <2>4, AppendProperties
  <2> QED BY <2>3, <2>6, <2>7 DEF P
<1> QED BY <1>4, <1>5

-----------------------------------------------------------------------------
(***************************************************************************)
(* Each of tty_putc's cases is a step of Teletype.                         *)
(***************************************************************************)
LEMMA Divided ==
  ASSUME NEW a \in Nat, NEW b \in Nat, b > 0
  PROVE  \E q \in Nat, r \in 0..b - 1 : a = q * b + r
<1>1. a \div b \in Nat /\ a % b \in 0..b - 1
  OBVIOUS
<1>2. a % b = a - b * (a \div b)
  BY Z3
<1> DEFINE q == a \div b
           r == a % b
<1>3. q \in Nat /\ r \in 0..b - 1 /\ r = a - b * q
  BY <1>1, <1>2
<1> HIDE DEF q, r
<1>4. a = q * b + r
  BY <1>3
<1> QED BY <1>3, <1>4

Implemented ==
  /\ InLine /\ InLine' => T!Next \/ UNCHANGED T!vars
  /\ video_memory' \in [Cells -> Cell]
  /\ above' \in Seq(LineType)

LEMMA ConsoleTypes ==
  ASSUME ConsoleInv
  PROVE  /\ x \in 0..Byte - 1 /\ y \in 0..Rows - 1 /\ x \in Nat /\ y \in Nat
         /\ attribute \in Ink /\ video_memory \in [Cells -> Cell]
         /\ above \in Seq(LineType) /\ Len(above) \in Nat
         /\ Screen = Paper(above, video_memory)
         /\ Screen \in Seq(LineType) /\ Len(Screen) = Len(above) + Rows
BY LenProperties, PaperShape, ScreenIsPaper DEF ConsoleInv, TypeOK, CursorShown

LEMMA PrintableStep ==
  ASSUME ConsoleInv, attribute' = attribute, Flash \in Ink, NEW c \in 1..255, Printable(c)
  PROVE  Implemented
<1> DEFINE cell == Inked(c)
           v == Stored(y * Cols + x, cell)
           n == Len(above)
           P == Paper(above, v)
<1>1. /\ x \in Nat /\ y \in Nat /\ y \in 0..Rows - 1 /\ n \in Nat
      /\ Rows \in Nat /\ Cols \in Nat /\ Cols > 0
      /\ video_memory \in [Cells -> Cell] /\ above \in Seq(LineType)
      /\ Screen = Paper(above, video_memory) /\ Screen \in Seq(LineType)
      /\ Len(Screen) = n + Rows
  BY ConsoleTypes, Sizes
<1>2. cell \in (1..255) \X Ink /\ (cell[1] < 128 => cell[2] = attribute)
  <2>1. attribute \in Ink
    BY ConsoleTypes
  <2> QED BY <2>1 DEF Inked
<1>3. IF x + 1 >= Cols THEN Update(0, y + 1, v) ELSE Update(x + 1, y, v)
  BY DEF Printable
<1> HIDE DEF cell
<1>4. CASE x < Cols
  <2>1. x \in 0..Cols - 1
    BY <1>1, <1>4
  <2>2. v \in [Cells -> Cell] /\ P = [Screen EXCEPT ![n + y + 1][x] = cell]
    <3>1. cell \in Cell
      BY <1>2 DEF Cell
    <3>2. LET u == Stored(y * Cols + x, cell)
          IN  /\ u \in [Cells -> Cell]
              /\ Paper(above, u)
                   = Inserted(Paper(above, video_memory), Len(above) + y + 1, x, cell)
      BY <1>1, <2>1, <3>1, PaperStored, Zenon
    <3> QED BY <3>2, <1>1, InsertedCell
  <2>3. n + y + 1 \in 1..n + Rows /\ P[n + y + 1][x] = cell
    <3>1. n + y + 1 \in 1..n + Rows
      BY <1>1
    <3>2. Screen[n + y + 1] \in LineType /\ Screen \in [1..n + Rows -> LineType]
      BY <1>1, <3>1, ElementOfSeq, LenProperties
    <3> HIDE DEF P, v, n
    <3> QED BY <3>1, <3>2, <2>1, <2>2 DEF LineType
  <2>4. CASE x = Cols - 1
    <3>1. /\ T!Feed(P) /\ \A i \in 1..n + Rows : Screen'[i] = P[i]
          /\ video_memory' \in [Cells -> Cell] /\ above' \in Seq(LineType)
      <4>1. Update(0, y + 1, v)
        BY <1>1, <1>3, <2>4
      <4> HIDE DEF v
      <4> QED BY <4>1, <2>2, Feeds
    <3>2. Screen'[n + y + 1][x] = cell
      BY <2>3, <3>1
    <3> HIDE DEF P, v, n
    <3>3. T!Character
      BY <1>2, <1>4, <2>2, <2>4, <3>1, <3>2 DEF T!Character, n
    <3> QED BY <3>1, <3>3 DEF Implemented, T!Next
  <2>5. CASE x # Cols - 1
    <3>1. /\ Screen' = P /\ x' = x + 1 /\ y' = y /\ above' = above /\ video_memory' = v
      <4>1. Update(x + 1, y, v)
        BY <1>1, <1>3, <1>4, <2>5
      <4> HIDE DEF v
      <4> QED BY <4>1, <1>1, <2>2, Stays
    <3>2. Screen'[n + y + 1][x] = cell
      BY <2>3, <3>1
    <3> HIDE DEF P, v, n
    <3>3. T!Character
      BY <1>2, <1>4, <2>2, <2>5, <3>1, <3>2 DEF T!Character, n
    <3> QED BY <1>1, <2>2, <3>1, <3>3 DEF Implemented, T!Next
  <2> QED BY <2>4, <2>5
<1>5. CASE ~ (x < Cols)
  <2>1. x >= Cols /\ Update(0, y + 1, v)
    BY <1>1, <1>3, <1>5
  <2>2. v \in [Cells -> Cell]
    BY <1>1, <1>2 DEF Stored, Cell
  <2>3. /\ T!Feed(P) /\ \A i \in 1..n + Rows : Screen'[i] = P[i]
        /\ video_memory' \in [Cells -> Cell] /\ above' \in Seq(LineType)
    <3> HIDE DEF v
    <3> QED BY <2>1, <2>2, Feeds
  <2>4. ~InLine
    BY <1>5 DEF InLine
  <2> QED BY <2>3, <2>4 DEF Implemented
<1> QED BY <1>4, <1>5

(* The cell that a backspace rubs out is the one the cursor leaves.        *)
LEMMA BackspaceStep ==
  ASSUME ConsoleInv, attribute' = attribute, Black \in Ink, Backspace
  PROVE  Implemented
<1> DEFINE n == Len(above)
           cell == <<SP, Black>>
           v == Stored(y * Cols + x, cell)
           P == Paper(above, v)
<1>1. /\ x \in Nat /\ y \in Nat /\ y \in 0..Rows - 1 /\ n \in Nat
      /\ Rows \in Nat /\ Cols \in Nat /\ Cols > 0
      /\ video_memory \in [Cells -> Cell] /\ above \in Seq(LineType)
      /\ Screen = Paper(above, video_memory) /\ Screen \in Seq(LineType)
      /\ Len(Screen) = n + Rows
  BY ConsoleTypes, Sizes
<1>2. cell \in Cell /\ T!Blank(Black) = cell
  BY DEF Cell, SP, T!Blank
<1> HIDE DEF cell
<1>3. CASE x = 0 /\ y = 0
  <2>1. Update(x, y, video_memory)
    BY <1>3 DEF Backspace
  <2>2. /\ Screen' = Screen /\ x' = x /\ y' = y /\ above' = above
        /\ video_memory' = video_memory
    BY <1>1, <2>1, Stays
  <2> QED BY <1>1, <2>2 DEF Implemented, T!vars
<1>4. CASE ~ (x = 0 /\ y = 0)
  <2> DEFINE new_x == IF x = 0 THEN Cols - 1 ELSE x - 1
             new_y == IF x = 0 THEN y - 1 ELSE y
  <2>1. /\ new_y \in 0..Rows - 1 /\ new_y \in Nat
        /\ new_y * Cols + new_x + 1 = y * Cols + x
        /\ n + new_y + 1 = IF x = 0 THEN (n + y + 1) - 1 ELSE n + y + 1
    <3>1. new_y \in 0..Rows - 1 /\ new_y \in Nat
      BY <1>1, <1>4
    <3>2. new_y * Cols + new_x + 1 = y * Cols + x
      <4>1. CASE x = 0
        <5>1. (y - 1) * Cols + (Cols - 1) + 1 = y * Cols
          BY <1>1
        <5>2. y * Cols + 0 = y * Cols
          BY <1>1
        <5> QED BY <4>1, <5>1, <5>2
      <4>2. CASE x # 0
        <5>1. y * Cols \in Nat /\ new_y = y /\ new_x = x - 1
          BY <1>1, <4>2
        <5> DEFINE z == y * Cols
        <5>2. z \in Nat
          BY <5>1
        <5> HIDE DEF z
        <5>3. z + (x - 1) + 1 = z + x
          BY <5>2, <1>1
        <5> QED BY <5>1, <5>3 DEF z
      <4> QED BY <4>1, <4>2
    <3>3. n + new_y + 1 = IF x = 0 THEN (n + y + 1) - 1 ELSE n + y + 1
      BY <1>1
    <3> QED BY <3>1, <3>2, <3>3
  <2>2. Update(new_x, new_y, v)
    <3>1. Update(new_x, new_y, Stored(new_y * Cols + new_x + 1, cell))
      BY <1>4, Zenon DEF Backspace, cell
    <3> QED BY <3>1, <2>1, Zenon
  <2>3. v \in [Cells -> Cell]
    BY <1>1, <1>2 DEF Stored
  <2>4. Screen' = P /\ x' = new_x /\ y' = new_y /\ above' = above /\ video_memory' = v
    <3> HIDE DEF new_x, new_y, v
    <3> QED BY <2>1, <2>2, <2>3, Stays
  <2>5. /\ \/ x > 0 /\ x' = x - 1 /\ UNCHANGED (Len(above) + y + 1)
           \/ /\ x = 0 /\ n + y + 1 > Len(Screen) - Rows + 1
              /\ (Len(above) + y + 1)' = (n + y + 1) - 1 /\ x' = Cols - 1
    <3>1. CASE x = 0
      <4>1. n + y + 1 > Len(Screen) - Rows + 1
        BY <1>1, <1>4, <3>1
      <4>2. Len(above') + y' + 1 = (n + y + 1) - 1
        BY <2>1, <2>4, <3>1
      <4> QED BY <3>1, <4>1, <4>2, <2>4
    <3>2. CASE x # 0
      <4>1. x > 0
        BY <1>1, <3>2
      <4> QED BY <3>2, <4>1, <2>4
    <3> QED BY <3>1, <3>2
  <2>6. CASE x < Cols
    <3>1. x \in 0..Cols - 1
      BY <1>1, <2>6
    <3>2. P = Inserted(Paper(above, video_memory), Len(above) + y + 1, x, cell)
      BY <1>1, <1>2, <3>1, PaperStored, Zenon
    <3>3. P = [Screen EXCEPT ![n + y + 1][x] = cell]
      BY <3>2, <1>1, InsertedCell
    <3>4. \E a \in Ink : Screen' = [Screen EXCEPT ![n + y + 1][x] = T!Blank(a)]
      BY <3>3, <2>4, <1>2
    <3> HIDE DEF P, v
    <3>5. T!Back
      BY <3>4, <2>5, <2>6 DEF T!Back
    <3> QED BY <3>5, <2>3, <2>4, <1>1 DEF Implemented, T!Next
  <2>7. CASE ~ (x < Cols)
    <3>1. ~InLine
      BY <2>7 DEF InLine
    <3> QED BY <3>1, <2>3, <2>4, <1>1 DEF Implemented
  <2> QED BY <2>6, <2>7
<1> QED BY <1>3, <1>4

(* A tab leads to a stop at most one tab to the right; the byte that holds *)
(* x overflows only at a stop, and to 0.                                   *)
StopAfter(c) == ((c + Tab) - ((c + Tab) % Tab)) % Byte

LEMMA TabStops ==
  ASSUME NEW c \in 0..Byte - 1
  PROVE  /\ StopAfter(c) \in Nat /\ StopAfter(c) % Tab = 0
         /\ \/ StopAfter(c) \in (c + 1)..(c + Tab)
            \/ c >= Cols /\ StopAfter(c) = 0
<1> DEFINE a == c + Tab
           t == a - (a % Tab)
           d == t % Byte
<1> SUFFICES /\ d \in Nat /\ d % Tab = 0
             /\ d \in (c + 1)..(c + Tab) \/ (c >= Cols /\ d = 0)
  BY DEF StopAfter
<1>1. /\ c \in Nat /\ c < Byte /\ Tab \in Nat /\ Tab > 0 /\ Byte \in Nat /\ Byte > Tab
      /\ Cols \in Nat /\ Cols + Tab < Byte
  BY Sizes
<1>2. a \in Nat /\ a % Tab \in 0..Tab - 1
  BY <1>1
<1>3. t \in Nat /\ t \in (c + 1)..(c + Tab) /\ t % Tab = 0
  <2>1. t \in Nat /\ t \in (c + 1)..(c + Tab)
    <3> DEFINE m == a % Tab
    <3>1. m \in 0..Tab - 1
      BY <1>2
    <3> HIDE DEF m
    <3>2. a - m \in Nat /\ a - m \in (c + 1)..(c + Tab)
      BY <1>1, <3>1
    <3> QED BY <3>2 DEF m
  <2>2. (a - (a % Tab)) % Tab = 0
    <3> HIDE DEF a
    <3> QED BY <1>1, <1>2
  <2> QED BY <2>1, <2>2
<1> HIDE DEF t
<1>4. CASE t < Byte
  <2>1. d = t
    BY <1>1, <1>3, <1>4
  <2> QED BY <2>1, <1>3 DEF t
<1>5. CASE t >= Byte
  <2>1. t < 2 * Byte /\ t = Byte * 1 + (t - Byte) /\ t - Byte \in Nat /\ t - Byte < Tab
    BY <1>1, <1>3, <1>5
  <2>2. d = t - Byte
    BY <2>1, <1>1, <1>3
  <2>3. ASSUME NEW m \in Nat, m % Tab = 0
        PROVE  \E q \in Nat : m = q * Tab
    <3>1. PICK q \in Nat, r \in 0..Tab - 1 : m = q * Tab + r
      BY <1>1, Divided
    <3>2. r = 0
      <4>1. m % Tab = r
        BY <1>1, <3>1
      <4> QED BY <4>1, <2>3
    <3> QED BY <3>1, <3>2, <1>1
  <2>4. PICK p \in Nat, q \in Nat : Byte = p * Tab /\ t = q * Tab
    BY <1>1, <1>3, <2>3, ConsoleAssumption
  <2>5. t - Byte = 0
    <3>1. q >= p
      <4> SUFFICES ASSUME q < p PROVE FALSE
        OBVIOUS
      <4>1. q * Tab < p * Tab
        BY <1>1
      <4> QED BY <4>1, <2>1, <2>4, <1>1, <1>3
    <3>2. ~ (q >= p + 1)
      <4> SUFFICES ASSUME q >= p + 1 PROVE FALSE
        OBVIOUS
      <4>1. q * Tab >= p * Tab + Tab /\ q * Tab \in Nat /\ p * Tab \in Nat
        BY <1>1
      <4> QED BY <4>1, <2>1, <2>4, <1>1
    <3> QED BY <3>1, <3>2, <2>4, <1>1
  <2>6. c >= Cols
    BY <1>1, <1>3, <1>5
  <2>7. d = 0 /\ 0 % Tab = 0
    BY <2>2, <2>5, <1>1
  <2> QED BY <2>6, <2>7 DEF t
<1> QED BY <1>1, <1>3, <1>4, <1>5

-----------------------------------------------------------------------------
(***************************************************************************)
(* What tty_puthex and tty_putdec put are characters.                      *)
(***************************************************************************)
(* Every set of numbers has a least one, since the order of the numbers is *)
(* well-founded.                                                           *)
LEMMA LeastNumber ==
  ASSUME NEW N \in SUBSET Nat, N # {}
  PROVE  \E k \in N : \A l \in N : k <= l
<1> DEFINE Below == OpToRel(<, Nat)
<1>1. IsWellFoundedOn(Below, Nat)
  BY NatLessThanWellFounded
<1>2. \A l, k \in Nat : l < k => <<l, k>> \in Below
  BY DEF OpToRel
<1> HIDE DEF Below
<1>3. PICK k \in N : \A l \in N : ~ (<<l, k>> \in Below)
  BY <1>1, WFMin
<1>4. \A l \in N : k <= l
  <2> SUFFICES ASSUME NEW l \in N PROVE k <= l
    OBVIOUS
  <2>1. k \in Nat /\ l \in Nat /\ ~ (l < k)
    BY <1>2, <1>3
  <2> QED BY <2>1
<1> QED BY <1>4, Zenon

LEMMA Powers == \A i \in 0..Nibbles : 16 ^ i \in Nat \ {0}
<1> DEFINE Odd == {i \in 0..Nibbles : 16 ^ i \notin Nat \ {0}}
<1> SUFFICES ASSUME Odd # {} PROVE FALSE
  OBVIOUS
<1>1. Odd \in SUBSET Nat /\ Nibbles \in Nat
  BY ConsoleAssumption
<1>2. PICK i \in Odd : \A j \in Odd : i <= j
  BY <1>1, LeastNumber
<1>3. i \in 0..Nibbles /\ 16 ^ i \notin Nat \ {0}
  BY <1>2
<1>4. 16 ^ 0 \in Nat \ {0}
  OBVIOUS
<1>5. i # 0
  BY <1>3, <1>4, Zenon
<1>6. i - 1 \in 0..Nibbles /\ ~ (i <= i - 1) /\ i \in 1..Nibbles
  BY <1>1, <1>3, <1>5
<1>7. i - 1 \notin Odd
  BY <1>2, <1>6
<1> DEFINE p == 16 ^ (i - 1)
<1>8. p \in Nat \ {0} /\ 16 ^ i = 16 * p
  BY <1>6, <1>7, PowersAssumption
<1> HIDE DEF p
<1>9. 16 * p \in Nat \ {0}
  BY <1>8
<1> QED BY <1>3, <1>8, <1>9

LEMMA DigitTyped == \A d \in 0..15 : Digit(d) \in 1..255
BY DEF Digit

LEMMA HexTyped ==
  ASSUME NEW n \in Numbers
  PROVE  Hex(n) \in Seq(1..255)
<1> DEFINE leading == {i \in 1..Nibbles - 1 : \A j \in i..Nibbles - 1 : nibble(n, j) = 0}
           digits == Nibbles - Cardinality(leading)
           s == [k \in 1..digits |-> Digit(nibble(n, digits - k))]
<1>1. n \in Nat /\ Nibbles \in Nat /\ Nibbles > 0
  BY ConsoleAssumption
<1>2. digits \in Nat /\ digits <= Nibbles
  <2>1. IsFiniteSet(1..Nibbles - 1) /\ Cardinality(1..Nibbles - 1) = Nibbles - 1
    BY <1>1, FS_Interval
  <2>2. Cardinality(leading) \in Nat /\ Cardinality(leading) <= Nibbles - 1
    BY <2>1, FS_Subset, FS_CardinalityType
  <2> HIDE DEF leading
  <2> QED BY <1>1, <2>2
<1> HIDE DEF digits
<1>3. \A i \in 0..Nibbles : nibble(n, i) \in 0..15
  <2> SUFFICES ASSUME NEW i \in 0..Nibbles PROVE nibble(n, i) \in 0..15
    OBVIOUS
  <2> DEFINE p == 16 ^ i
  <2>1. p \in Nat \ {0}
    BY Powers
  <2> HIDE DEF p
  <2>2. n \div p \in Nat
    BY <1>1, <2>1
  <2>3. (n \div p) % 16 \in 0..15
    BY <2>2
  <2> QED BY <2>3 DEF nibble, p
<1>4. \A k \in 1..digits : Digit(nibble(n, digits - k)) \in 1..255
  <2>1. \A k \in 1..digits : digits - k \in 0..Nibbles
    BY <1>1, <1>2
  <2> QED BY <2>1, <1>3, DigitTyped
<1>5. s \in Seq(1..255)
  <2>1. s \in [1..digits -> 1..255]
    BY <1>4
  <2> HIDE DEF s
  <2> QED BY <2>1, <1>2, SeqDef
<1>6. <<48, 120>> \in Seq(1..255)
  OBVIOUS
<1>7. Hex(n) = <<48, 120>> \o s
  BY DEF Hex, s, digits
<1> HIDE DEF s
<1> QED BY <1>5, <1>6, <1>7, ConcatProperties

LEMMA Tenth ==
  ASSUME NEW a \in Nat, a # 0
  PROVE  a \div 10 \in Nat /\ a \div 10 < a /\ a % 10 \in 0..9 /\ a % 10 \in 0..15
BY Z3

(* The equation that defines the digits of a number, and what solves it as *)
(* far as the number m.                                                    *)
DigitsStep(w, a) == IF a = 0 THEN <<>> ELSE Append(w[a \div 10], Digit(a % 10))

UpTo(m) ==
  {f \in [0..m -> Seq(1..255)] : \A a \in 0..m : f[a] = DigitsStep(f, a)}

LEMMA DigitsCoherent ==
  ASSUME NEW k \in Nat, NEW m \in Nat, NEW f \in UpTo(k), NEW g \in UpTo(m)
  PROVE  \A a \in Nat : a <= k /\ a <= m => f[a] = g[a]
<1> DEFINE Odd == {a \in Nat : a <= k /\ a <= m /\ f[a] # g[a]}
<1> SUFFICES ASSUME Odd # {} PROVE FALSE
  OBVIOUS
<1>1. PICK a \in Odd : \A b \in Odd : a <= b
  BY LeastNumber
<1>2. f[a] = DigitsStep(f, a) /\ g[a] = DigitsStep(g, a) /\ a \in Nat /\ a <= k /\ a <= m
  BY <1>1 DEF UpTo
<1>3. a # 0
  BY <1>1, <1>2 DEF DigitsStep
<1>4. a \div 10 \in Nat /\ a \div 10 < a
  BY <1>2, <1>3, Tenth
<1> DEFINE b == a \div 10
<1> HIDE DEF b
<1>5. f[b] = g[b]
  <2>1. b \in Nat /\ b < a
    BY <1>4 DEF b
  <2>2. b \notin Odd
    BY <1>1, <1>2, <2>1
  <2> QED BY <1>2, <2>1, <2>2
<1>6. f[a] = g[a]
  BY <1>2, <1>3, <1>5 DEF DigitsStep, b
<1> QED BY <1>1, <1>6

LEMMA DigitsUpTo == \A m \in Nat : UpTo(m) # {}
<1> DEFINE Odd == {m \in Nat : UpTo(m) = {}}
<1> SUFFICES ASSUME Odd # {} PROVE FALSE
  OBVIOUS
<1>1. PICK m \in Odd : \A k \in Odd : m <= k
  BY LeastNumber
<1>2. m # 0
  <2> DEFINE f == [a \in 0..0 |-> <<>>]
  <2>1. f \in UpTo(0)
    <3>1. f \in [0..0 -> Seq(1..255)]
      BY EmptySeq
    <3>2. \A a \in 0..0 : f[a] = DigitsStep(f, a)
      BY DEF DigitsStep
    <3> QED BY <3>1, <3>2 DEF UpTo
  <2> QED BY <2>1, <1>1
<1>3. PICK f : f \in UpTo(m - 1)
  <2>1. m \in Nat /\ m - 1 \in Nat /\ m - 1 < m
    BY <1>1, <1>2
  <2>2. m - 1 \notin Odd
    BY <1>1, <2>1
  <2> QED BY <2>1, <2>2
<1> DEFINE b == m \div 10
           e == m % 10
           g == [a \in 0..m |-> IF a < m THEN f[a] ELSE Append(f[b], Digit(e))]
<1>4. m \in Nat /\ b \in Nat /\ b < m /\ e \in 0..15
  BY <1>1, <1>2, Tenth
<1>5. /\ f \in [0..m - 1 -> Seq(1..255)]
      /\ \A a \in 0..m - 1 : f[a] = DigitsStep(f, a)
  BY <1>3 DEF UpTo
<1>6. g \in [0..m -> Seq(1..255)]
  <2> HIDE DEF b, e
  <2>1. Append(f[b], Digit(e)) \in Seq(1..255)
    <3>1. f[b] \in Seq(1..255)
      BY <1>4, <1>5
    <3> QED BY <3>1, <1>4, DigitTyped, AppendProperties
  <2>2. \A a \in 0..m : a < m => f[a] \in Seq(1..255)
    BY <1>4, <1>5
  <2> QED BY <2>1, <2>2
<1>7. \A a \in 0..m : g[a] = DigitsStep(g, a)
  <2> SUFFICES ASSUME NEW a \in 0..m PROVE g[a] = DigitsStep(g, a)
    OBVIOUS
  <2>1. CASE a = m
    <3>1. g[a] = Append(f[b], Digit(e)) /\ g[b] = f[b]
      <4> HIDE DEF b, e
      <4> QED BY <2>1, <1>4
    <3> HIDE DEF g
    <3> QED BY <2>1, <3>1, <1>2 DEF DigitsStep, b, e
  <2>2. CASE a # m
    <3>1. a \in 0..m - 1 /\ a < m
      BY <2>2, <1>4
    <3>2. g[a] = f[a] /\ f[a] = DigitsStep(f, a)
      BY <3>1, <1>5
    <3>3. CASE a = 0
      BY <3>2, <3>3 DEF DigitsStep
    <3>4. CASE a # 0
      <4> DEFINE c == a \div 10
      <4>1. c \in Nat /\ c < a
        BY <3>1, <3>4, <1>4, Tenth
      <4>2. g[c] = f[c]
        <5> HIDE DEF c
        <5> QED BY <4>1, <3>1, <1>4
      <4> HIDE DEF g
      <4> QED BY <3>2, <3>4, <4>2 DEF DigitsStep
    <3> QED BY <3>3, <3>4
  <2> QED BY <2>1, <2>2
<1>8. g \in UpTo(m)
  BY <1>6, <1>7, Zenon DEF UpTo
<1> QED BY <1>1, <1>8

DigitsOf(w) == [acc \in Nat |-> DigitsStep(w, acc)]

LEMMA DigitsExist == \E w : w = DigitsOf(w)
<1> DEFINE F(m) == CHOOSE f : f \in UpTo(m)
           w == [m \in Nat |-> F(m)[m]]
<1>1. \A m \in Nat : F(m) \in UpTo(m)
  <2> SUFFICES ASSUME NEW m \in Nat PROVE F(m) \in UpTo(m)
    OBVIOUS
  <2>1. \E f : f \in UpTo(m)
    BY DigitsUpTo
  <2> QED BY <2>1, Zenon
<1> HIDE DEF F
<1>2. \A m \in Nat : w[m] = DigitsStep(w, m)
  <2> SUFFICES ASSUME NEW m \in Nat PROVE F(m)[m] = DigitsStep(w, m)
    OBVIOUS
  <2>1. F(m) \in UpTo(m) /\ m \in 0..m
    BY <1>1
  <2>2. F(m)[m] = DigitsStep(F(m), m)
    BY <2>1 DEF UpTo
  <2>3. CASE m = 0
    BY <2>2, <2>3 DEF DigitsStep
  <2>4. CASE m # 0
    <3> DEFINE b == m \div 10
    <3>1. b \in Nat /\ b < m
      BY <2>4, Tenth
    <3>2. F(m)[b] = w[b]
      <4> HIDE DEF b
      <4>1. b <= m /\ b <= b
        BY <3>1
      <4>2. F(m)[b] = F(b)[b]
        BY <3>1, <4>1, <1>1, DigitsCoherent
      <4> QED BY <3>1, <4>2
    <3> HIDE DEF w
    <3> QED BY <2>2, <2>4, <3>2 DEF DigitsStep
  <2> QED BY <2>3, <2>4
<1>3. w = DigitsOf(w)
  <2> HIDE DEF DigitsStep
  <2>1. [m \in Nat |-> w[m]] = [m \in Nat |-> DigitsStep(w, m)]
    BY <1>2
  <2> QED BY <2>1, Zenon DEF DigitsOf
<1> HIDE DEF w
<1> QED BY <1>3

LEMMA DigitsTyped ==
  ASSUME NEW w, w = DigitsOf(w)
  PROVE  \A n \in Nat : w[n] \in Seq(1..255)
<1> DEFINE Odd == {n \in Nat : w[n] \notin Seq(1..255)}
<1> SUFFICES ASSUME Odd # {} PROVE FALSE
  OBVIOUS
<1>1. PICK n \in Odd : \A m \in Odd : n <= m
  BY LeastNumber
<1>2. n \in Nat /\ w[n] = DigitsStep(w, n)
  BY <1>1 DEF DigitsOf
<1>3. n # 0
  BY <1>1, <1>2, EmptySeq DEF DigitsStep
<1> DEFINE b == n \div 10
           e == n % 10
<1>4. b \in Nat /\ b < n /\ e \in 0..15
  BY <1>2, <1>3, Tenth
<1>5. w[n] = Append(w[b], Digit(e))
  BY <1>2, <1>3 DEF DigitsStep
<1> HIDE DEF b, e
<1>6. w[b] \in Seq(1..255)
  <2>1. b \notin Odd
    BY <1>1, <1>2, <1>4
  <2> QED BY <2>1, <1>4
<1>7. w[n] \in Seq(1..255)
  <2>1. Digit(e) \in 1..255
    BY <1>4, DigitTyped
  <2> DEFINE d == Digit(e)
             v == w[b]
  <2>2. d \in 1..255 /\ v \in Seq(1..255)
    BY <1>6, <2>1
  <2> HIDE DEF d, v
  <2>3. Append(v, d) \in Seq(1..255)
    BY <2>2, AppendProperties
  <2> QED BY <1>5, <2>3 DEF d, v
<1> QED BY <1>1, <1>7

LEMMA DecimalTyped ==
  ASSUME NEW n \in Numbers
  PROVE  Decimal(n) \in Seq(1..255)
<1> DEFINE digits == CHOOSE w : w = DigitsOf(w)
<1>1. Decimal(n) = IF n = 0 THEN <<48>>
                   ELSE IF n < (16 ^ Nibbles) \div 2 THEN digits[n] ELSE <<>>
  BY DEF Decimal, DigitsOf, DigitsStep
<1>2. digits = DigitsOf(digits)
  BY DigitsExist
<1>3. n \in Nat
  BY ConsoleAssumption
<1> HIDE DEF digits
<1>4. \A m \in Nat : digits[m] \in Seq(1..255)
  BY <1>2, DigitsTyped
<1>5. digits[n] \in Seq(1..255)
  BY <1>3, <1>4
<1>6. <<48>> \in Seq(1..255) /\ <<>> \in Seq(1..255)
  OBVIOUS
<1> QED BY <1>1, <1>5, <1>6

-----------------------------------------------------------------------------
(***************************************************************************)
(* The console implements the teletype.                                    *)
(***************************************************************************)
LEMMA PutStep ==
  ASSUME ConsoleInv, tty_putc
  PROVE  Implemented
<1> DEFINE c == Head(text)
<1>1. c \in 1..255 /\ attribute' = attribute
  <2>1. text \in Seq(1..255) /\ text # <<>>
    BY DEF ConsoleInv, TypeOK, tty_putc
  <2> QED BY <2>1, HeadTailProperties DEF tty_putc
<1>2. /\ video_memory \in [Cells -> Cell] /\ above \in Seq(LineType)
      /\ x \in 0..Byte - 1 /\ y \in 0..Rows - 1
      /\ Screen = Paper(above, video_memory)
  BY ConsoleTypes
<1>3. White \in Ink /\ Black \in Ink /\ Flash \in Ink
  BY ConsoleAssumption
<1>4. CASE Backspace
  BY <1>1, <1>3, <1>4, BackspaceStep
<1>5. CASE Tabulate
  <2> DEFINE d == StopAfter(x)
  <2>1. Update(d, y, video_memory)
    BY <1>5 DEF Tabulate, StopAfter
  <2> HIDE DEF d
  <2>2. d % Tab = 0 /\ (d \in (x + 1)..(x + Tab) \/ x >= Cols)
    BY <1>2, TabStops, Zenon DEF d
  <2>3. /\ Screen' = Paper(above, video_memory) /\ x' = d /\ y' = y
        /\ above' = above /\ video_memory' = video_memory
    BY <1>2, <2>1, Stays
  <2>4. InLine /\ InLine' => T!TabStop
    <3> SUFFICES ASSUME x < Cols, x' < Cols PROVE T!TabStop
      BY DEF InLine
    <3>1. x \in Nat /\ Cols \in Nat /\ ~ (x >= Cols)
      BY <1>2, Sizes
    <3> QED BY <1>1, <1>2, <2>2, <2>3, <3>1 DEF T!TabStop
  <2> QED BY <1>2, <2>3, <2>4 DEF Implemented, T!Next
<1>6. CASE Update(0, y, video_memory)
  <2>1. /\ Screen' = Paper(above, video_memory) /\ x' = 0 /\ y' = y
        /\ above' = above /\ video_memory' = video_memory
    BY <1>2, <1>6, Stays
  <2>2. T!Return
    BY <1>1, <1>2, <2>1 DEF T!Return
  <2> QED BY <1>2, <2>1, <2>2 DEF Implemented, T!Next
<1>7. CASE Update(0, y + 1, video_memory)
  <2>1. /\ T!Feed(Screen)
        /\ video_memory' \in [Cells -> Cell] /\ above' \in Seq(LineType)
    BY <1>1, <1>2, <1>7, Feeds
  <2>2. T!NewLine
    BY <1>1, <2>1 DEF T!NewLine
  <2> QED BY <2>1, <2>2 DEF Implemented, T!Next
<1>8. CASE Printable(c)
  BY <1>1, <1>3, <1>8, PrintableStep
<1>9. \/ Backspace \/ Tabulate
      \/ Update(0, y, video_memory) \/ Update(0, y + 1, video_memory)
      \/ Printable(c)
  BY Zenon DEF tty_putc
<1> QED BY <1>4, <1>5, <1>6, <1>7, <1>8, <1>9

(* A call only hands over its text.                                        *)
LEMMA BeginStep ==
  ASSUME ConsoleInv, NEW s \in Seq(1..255), Begin(s)
  PROVE  Implemented /\ TypeOK'
<1>1. TypeOK /\ above \in Seq(LineType)
  BY DEF ConsoleInv
<1>2. UNCHANGED T!vars
  BY DEF Begin, T!vars, Screen
<1> QED BY <1>1, <1>2 DEF Begin, Implemented, TypeOK

LEMMA ConsoleStep ==
  ASSUME ConsoleInv, [Next]_vars
  PROVE  ConsoleInv' /\ (InLine /\ InLine' => T!Next \/ UNCHANGED T!vars)
<1>1. CursorShown'
  BY CursorStep DEF ConsoleInv
<1>2. SUFFICES Implemented /\ TypeOK'
  BY <1>1, <1>2 DEF Implemented, ConsoleInv
<1>3. TypeOK /\ above \in Seq(LineType)
  BY DEF ConsoleInv
<1>4. ASSUME NEW s \in Texts, tty_puts(s) PROVE Implemented /\ TypeOK'
  BY <1>4, BeginStep, ConsoleAssumption DEF tty_puts
<1>5. ASSUME NEW n \in Numbers, tty_puthex(n) PROVE Implemented /\ TypeOK'
  BY <1>5, BeginStep, HexTyped DEF tty_puthex
<1>6. ASSUME NEW n \in Numbers, tty_putdec(n) PROVE Implemented /\ TypeOK'
  BY <1>6, BeginStep, DecimalTyped DEF tty_putdec
<1>7. ASSUME NEW a \in Ink, tty_attr(a) PROVE Implemented /\ TypeOK'
  <2>1. T!Colour
    BY <1>7 DEF tty_attr, T!Colour, Screen
  <2> QED BY <1>3, <1>7, <2>1 DEF tty_attr, Implemented, T!Next, TypeOK
<1>8. ASSUME tty_putc PROVE Implemented /\ TypeOK'
  <2>1. Implemented
    BY <1>8, PutStep
  <2>2. text' \in Seq(1..255)
    <3>1. text \in Seq(1..255) /\ text # <<>> /\ text' = Tail(text)
      BY <1>3, <1>8 DEF tty_putc, TypeOK
    <3> QED BY <3>1, HeadTailProperties
  <2>3. put' \in Nat /\ attribute' \in Ink
    BY <1>3, <1>8 DEF tty_putc, TypeOK
  <2>4. x' \in Nat /\ y' \in Nat /\ crtc' \in Nat
    <3>1. x' \in 0..Byte - 1 /\ y' \in 0..Rows - 1 /\ crtc' = y' * Cols + x'
      BY <1>1 DEF CursorShown
    <3>2. x' \in Nat /\ y' \in Nat /\ Cols \in Nat
      BY <3>1, Sizes
    <3>3. \A i, j, k \in Nat : i * j + k \in Nat
      OBVIOUS
    <3> QED BY <3>1, <3>2, <3>3
  <2> QED BY <2>1, <2>2, <2>3, <2>4 DEF Implemented, TypeOK
<1>9. ASSUME UNCHANGED vars PROVE Implemented /\ TypeOK'
  <2>1. UNCHANGED T!vars
    BY <1>9 DEF vars, T!vars, Screen
  <2> QED BY <1>3, <1>9, <2>1 DEF vars, Implemented, TypeOK
<1> QED BY <1>4, <1>5, <1>6, <1>7, <1>8, <1>9 DEF Next

LEMMA ConsoleInit == tty_init => ConsoleInv /\ T!Init
<1> SUFFICES ASSUME tty_init PROVE ConsoleInv /\ T!Init
  OBVIOUS
<1>1. /\ attribute = White /\ video_memory = [i \in Cells |-> <<SP, White>>]
      /\ x = 0 /\ y = 0 /\ crtc = 0 /\ text = <<>> /\ put = 0 /\ above = <<>>
  BY DEF tty_init
<1>2. White \in Ink /\ <<SP, White>> \in Cell
  BY ConsoleAssumption DEF Cell, SP
<1>3. video_memory \in [Cells -> Cell] /\ above \in Seq(LineType)
  BY <1>1, <1>2
<1>4. ConsoleInv
  BY <1>1, <1>2, <1>3, Sizes DEF ConsoleInv, TypeOK, CursorShown
<1>5. Screen = [r \in 1..Rows |-> T!BlankLine(attribute)]
  <2> DEFINE q == [r \in 1..Rows |-> Line(video_memory, r - 1)]
  <2>1. \A r \in 1..Rows : Line(video_memory, r - 1) = T!BlankLine(attribute)
    <3> SUFFICES ASSUME NEW r \in 1..Rows
                 PROVE  Line(video_memory, r - 1) = T!BlankLine(attribute)
      OBVIOUS
    <3>1. r - 1 \in 0..Rows - 1
      BY Sizes
    <3>2. \A c \in 0..Cols - 1 : (r - 1) * Cols + c \in Cells
      BY <3>1, CellIndex
    <3>3. \A c \in 0..Cols - 1 : video_memory[(r - 1) * Cols + c] = <<32, attribute>>
      BY <1>1, <3>2 DEF SP
    <3> QED BY <3>3 DEF Line, T!BlankLine, T!Blank
  <2>2. q = [r \in 1..Rows |-> T!BlankLine(attribute)]
    BY <2>1
  <2>3. q \in Seq(LineType)
    <3>1. \A r \in 1..Rows : Line(video_memory, r - 1) \in LineType
      BY <1>3, LineTyped, Sizes
    <3>2. q \in [1..Rows -> LineType] /\ Rows \in Nat
      BY <3>1, Sizes
    <3> QED BY <3>2, SeqDef
  <2> HIDE DEF q
  <2>4. <<>> \o q = q
    BY <2>3, ConcatEmptySeq
  <2> QED BY <1>1, <2>2, <2>4 DEF Screen, q
<1>6. T!Init
  BY <1>1, <1>2, <1>5 DEF T!Init
<1> QED BY <1>4, <1>6

(* The inductive invariant of tty.c: registers, cells and the lines that   *)
(* were scrolled off keep their types, and the cursor is on the screen.    *)
THEOREM ConsoleInvHolds == Spec => []ConsoleInv
<1>1. ConsoleInv /\ [Next]_vars => ConsoleInv'
  BY ConsoleStep
<1> QED BY <1>1, ConsoleInit, PTL DEF Spec

(* x, y, the attribute, every visible cell and what tty_puts, tty_puthex   *)
(* and tty_putdec put keep their types.                                    *)
THEOREM TypeCorrect == Spec => []TypeOK
<1>1. ConsoleInv => TypeOK
  BY DEF ConsoleInv
<1> QED BY <1>1, ConsoleInvHolds, PTL

(* Whatever is put in whatever order, every step of tty.c that finds and   *)
(* leaves the cursor in its line is one of Teletype: a character lands     *)
(* where the cursor is, nothing else changes, and the screen shows the     *)
(* last lines of an endless paper.                                         *)
THEOREM ImplementsTeletype == Spec => WindowOnPaper
<1>1. ConsoleInv /\ [Next]_vars
        => ConsoleInv' /\ [InLine /\ InLine' => T!Next \/ UNCHANGED T!vars]_vars
  BY ConsoleStep
<1> QED BY <1>1, ConsoleInit, PTL DEF Spec, WindowOnPaper

(* As long as no tab passes the edge, tty.c implements Teletype.           *)
THEOREM TeletypeInLine == Spec /\ []InLine => T!Spec
<1>1. WindowOnPaper /\ []InLine => T!Spec
  <2>1. InLine /\ InLine' /\ [InLine /\ InLine' => T!Next \/ UNCHANGED T!vars]_vars
          => [T!Next]_(T!vars)
    BY DEF vars, T!vars, Screen
  <2> QED BY <2>1, PTL DEF WindowOnPaper, T!Spec
<1> QED BY <1>1, ImplementsTeletype, PTL

-----------------------------------------------------------------------------
(***************************************************************************)
(* A number that is put is the number that is read.                        *)
(***************************************************************************)
DigitValue(d) == IF d < 58 THEN d - 48 ELSE d - 87

(* The equation that defines the values of the prefixes of s.              *)
ValueStep(f, s, b, i) == IF i = 0 THEN 0 ELSE f[i - 1] * b + DigitValue(s[i])

ValuesOf(f, s, b, m) == [i \in 0..m |-> ValueStep(f, s, b, i)]

Values(f, s, b, m) == \A i \in 0..m : f[i] = ValueStep(f, s, b, i)

LEMMA ValuesExist ==
  ASSUME NEW s, NEW b, NEW n \in Nat
  PROVE  \E f : f = ValuesOf(f, s, b, n)
<1> DEFINE Odd == {m \in Nat : ~ \E f : f = ValuesOf(f, s, b, m)}
<1> SUFFICES ASSUME Odd # {} PROVE FALSE
  OBVIOUS
<1>1. PICK m \in Odd : \A k \in Odd : m <= k
  BY LeastNumber
<1>2. m \in Nat /\ ~ \E f : f = ValuesOf(f, s, b, m)
  BY <1>1
<1>3. CASE m = 0
  <2> DEFINE f == [i \in 0..0 |-> 0]
  <2>1. f = ValuesOf(f, s, b, 0)
    <3>1. ValuesOf(f, s, b, 0) = [i \in 0..0 |-> ValueStep(f, s, b, i)]
      BY DEF ValuesOf
    <3>2. \A i \in 0..0 : ValueStep(f, s, b, i) = 0
      BY DEF ValueStep
    <3> QED BY <3>1, <3>2
  <2> QED BY <1>2, <1>3, <2>1
<1>4. CASE m # 0
  <2>1. m - 1 \in Nat /\ ~ (m <= m - 1)
    BY <1>2, <1>4
  <2>2. PICK f : f = ValuesOf(f, s, b, m - 1)
    BY <1>1, <2>1
  <2>3. \A i \in 0..m - 1 : f[i] = ValueStep(f, s, b, i)
    BY <2>2, Zenon DEF ValuesOf
  <2> DEFINE g == [i \in 0..m |-> IF i < m THEN f[i] ELSE ValueStep(f, s, b, m)]
  <2>4. \A i \in 0..m : g[i] = ValueStep(g, s, b, i)
    <3> SUFFICES ASSUME NEW i \in 0..m PROVE g[i] = ValueStep(g, s, b, i)
      OBVIOUS
    <3>1. g[i] = ValueStep(f, s, b, i)
      <4>1. CASE i < m
        <5>1. i \in 0..m - 1
          BY <1>2, <4>1
        <5> QED BY <2>3, <4>1, <5>1
      <4>2. CASE ~ (i < m)
        <5>1. i = m
          BY <1>2, <4>2
        <5> QED BY <4>2, <5>1
      <4> QED BY <4>1, <4>2
    <3>2. i # 0 => g[i - 1] = f[i - 1]
      <4>1. i # 0 => i - 1 \in 0..m /\ i - 1 < m
        BY <1>2
      <4> QED BY <4>1
    <3> HIDE DEF g
    <3> QED BY <3>1, <3>2 DEF ValueStep
  <2>5. g = ValuesOf(g, s, b, m)
    <3>1. g = [i \in 0..m |-> g[i]]
      BY Zenon
    <3> HIDE DEF g
    <3>2. [i \in 0..m |-> g[i]] = [i \in 0..m |-> ValueStep(g, s, b, i)]
      BY <2>4
    <3> QED BY <3>1, <3>2, Zenon DEF ValuesOf
  <2> QED BY <1>2, <2>5
<1> QED BY <1>3, <1>4

LEMMA ValuesAgree ==
  ASSUME NEW s, NEW t, NEW b, NEW m \in Nat, NEW k \in Nat, m <= k,
         NEW f, Values(f, s, b, m), NEW g, Values(g, t, b, k),
         \A i \in 1..m : s[i] = t[i]
  PROVE  f[m] = g[m]
<1> DEFINE Odd == {i \in 0..m : f[i] # g[i]}
<1> SUFFICES ASSUME Odd # {} PROVE FALSE
  <2>1. m \in 0..m
    OBVIOUS
  <2> QED BY <2>1
<1>1. \A i \in 0..m : f[i] = ValueStep(f, s, b, i)
  BY DEF Values
<1>2. \A i \in 0..k : g[i] = ValueStep(g, t, b, i)
  BY DEF Values
<1>3. Odd \in SUBSET Nat
  OBVIOUS
<1>4. PICK i \in Odd : \A j \in Odd : i <= j
  BY <1>3, LeastNumber
<1>5. i \in 0..m /\ i \in 0..k /\ f[i] # g[i]
  BY <1>4
<1>6. i # 0
  BY <1>1, <1>2, <1>5 DEF ValueStep
<1>7. i - 1 \in 0..m /\ ~ (i <= i - 1) /\ i \in 1..m
  BY <1>5, <1>6
<1>8. f[i - 1] = g[i - 1]
  BY <1>4, <1>7
<1>9. f[i] = g[i]
  BY <1>1, <1>2, <1>5, <1>6, <1>7, <1>8 DEF ValueStep
<1> QED BY <1>5, <1>9

LEMMA ValueIs ==
  ASSUME NEW s \in Seq(1..255), NEW b
  PROVE  \E f : f = ValuesOf(f, s, b, Len(s)) /\ Value(s, b) = f[Len(s)]
<1> DEFINE value == CHOOSE f : f = ValuesOf(f, s, b, Len(s))
<1>1. Len(s) \in Nat
  BY LenProperties
<1>2. value = ValuesOf(value, s, b, Len(s))
  BY <1>1, ValuesExist
<1>3. Value(s, b) = value[Len(s)]
  BY DEF Value, ValuesOf, ValueStep, DigitValue
<1> QED BY <1>2, <1>3

LEMMA ValueLaws ==
  ASSUME NEW s \in Seq(1..255), NEW d \in 1..255, NEW b
  PROVE  /\ Value(<<>>, b) = 0
         /\ Value(Append(s, d), b) = Value(s, b) * b + DigitValue(d)
<1>1. Value(<<>>, b) = 0
  <2>1. <<>> \in Seq(1..255) /\ Len(<<>>) = 0
    OBVIOUS
  <2>2. PICK f : f = ValuesOf(f, <<>>, b, 0) /\ Value(<<>>, b) = f[0]
    BY <2>1, ValueIs
  <2>3. f[0] = ValueStep(f, <<>>, b, 0)
    <3>1. 0 \in 0..0
      OBVIOUS
    <3> QED BY <2>2, <3>1, Zenon DEF ValuesOf
  <2> QED BY <2>2, <2>3 DEF ValueStep
<1>2. Value(Append(s, d), b) = Value(s, b) * b + DigitValue(d)
  <2> DEFINE t == Append(s, d)
             n == Len(s)
  <2>1. /\ t \in Seq(1..255) /\ Len(t) = n + 1 /\ n \in Nat /\ t[n + 1] = d
        /\ \A i \in 1..n : s[i] = t[i]
    BY AppendProperties, LenProperties
  <2> HIDE DEF t
  <2>2. PICK f : f = ValuesOf(f, s, b, n) /\ Value(s, b) = f[n]
    BY ValueIs
  <2>3. PICK g : g = ValuesOf(g, t, b, n + 1) /\ Value(t, b) = g[n + 1]
    BY <2>1, ValueIs
  <2> HIDE DEF n
  <2>4. n \in 0..n /\ n + 1 \in 0..n + 1 /\ n + 1 # 0 /\ (n + 1) - 1 = n
        /\ n + 1 \in Nat /\ n <= n + 1
    BY <2>1
  <2>5. f[n] = g[n]
    <3> DEFINE k == n + 1
    <3>1. /\ n \in Nat /\ k \in Nat /\ n <= k
          /\ \A i \in 1..n : s[i] = t[i]
      BY <2>1, <2>4
    <3>2. Values(f, s, b, n)
      BY <2>2, Zenon DEF Values, ValuesOf
    <3>3. Values(g, t, b, k)
      BY <2>3, Zenon DEF Values, ValuesOf
    <3> HIDE DEF k
    <3> QED BY <3>1, <3>2, <3>3, ValuesAgree
  <2>6. g[n + 1] = ValueStep(g, t, b, n + 1)
    BY <2>3, <2>4, Zenon DEF ValuesOf
  <2>7. g[n + 1] = g[n] * b + DigitValue(d)
    BY <2>1, <2>4, <2>6 DEF ValueStep
  <2> QED BY <2>2, <2>3, <2>5, <2>7 DEF t
<1> QED BY <1>1, <1>2

LEMMA DigitRead == \A d \in 0..15 : DigitValue(Digit(d)) = d
BY DEF DigitValue, Digit

(* The digits that tty_putdec makes, last one first, are put in order.     *)
LEMMA DecimalRead ==
  ASSUME NEW n \in Numbers, n < (16 ^ Nibbles) \div 2
  PROVE  Value(Decimal(n), 10) = n
<1> DEFINE w == CHOOSE f : f = DigitsOf(f)
<1>1. Decimal(n) = IF n = 0 THEN <<48>> ELSE w[n]
  BY DEF Decimal, DigitsOf, DigitsStep
<1>2. w = DigitsOf(w) /\ n \in Nat
  BY DigitsExist, ConsoleAssumption
<1> HIDE DEF w
<1>3. \A m \in Nat : w[m] \in Seq(1..255) /\ w[m] = DigitsStep(w, m)
  BY <1>2, DigitsTyped DEF DigitsOf
<1>4. \A m \in Nat : Value(w[m], 10) = m
  <2> DEFINE Odd == {m \in Nat : Value(w[m], 10) # m}
  <2> SUFFICES ASSUME Odd # {} PROVE FALSE
    OBVIOUS
  <2>1. PICK m \in Odd : \A k \in Odd : m <= k
    BY LeastNumber
  <2>2. m \in Nat /\ Value(w[m], 10) # m
    BY <2>1
  <2>3. m # 0
    <3> SUFFICES ASSUME m = 0 PROVE FALSE
      OBVIOUS
    <3>1. w[m] = <<>>
      BY <1>3, <2>2 DEF DigitsStep
    <3>2. Value(<<>>, 10) = 0
      <4>1. <<>> \in Seq(1..255) /\ 1 \in 1..255
        OBVIOUS
      <4> QED BY <4>1, ValueLaws
    <3> QED BY <2>2, <3>1, <3>2
  <2> DEFINE k == m \div 10
             e == m % 10
  <2>4. k \in Nat /\ k < m /\ e \in 0..15 /\ m = k * 10 + e
    <3>1. e = m - 10 * k
      BY <2>2, Z3
    <3>2. k \in Nat /\ k < m /\ e \in 0..15
      BY <2>2, <2>3, Tenth
    <3> HIDE DEF k, e
    <3> QED BY <2>2, <3>1, <3>2
  <2>5. w[m] = Append(w[k], Digit(e))
    BY <1>3, <2>2, <2>3 DEF DigitsStep
  <2> HIDE DEF k, e
  <2>6. Value(w[k], 10) = k
    <3>1. k \notin Odd
      BY <2>1, <2>2, <2>4
    <3> QED BY <2>4, <3>1
  <2> DEFINE v == w[k]
             d == Digit(e)
  <2>7. v \in Seq(1..255) /\ d \in 1..255 /\ DigitValue(d) = e
    BY <1>3, <2>4, DigitTyped, DigitRead
  <2> HIDE DEF v, d
  <2>8. Value(Append(v, d), 10) = Value(v, 10) * 10 + DigitValue(d)
    BY <2>7, ValueLaws
  <2>9. Value(w[m], 10) = m
    BY <2>4, <2>5, <2>6, <2>7, <2>8 DEF v, d
  <2> QED BY <2>2, <2>9
<1>5. n = 0 => Value(<<48>>, 10) = 0
  <2>1. <<>> \in Seq(1..255) /\ 48 \in 1..255 /\ Append(<<>>, 48) = <<48>>
    OBVIOUS
  <2>2. Value(<<48>>, 10) = Value(<<>>, 10) * 10 + DigitValue(48) /\ Value(<<>>, 10) = 0
    BY <2>1, ValueLaws
  <2> QED BY <2>2 DEF DigitValue
<1> QED BY <1>1, <1>2, <1>4, <1>5

(* What is left of n after one nibble more is a sixteenth.                 *)
LEMMA Shorter ==
  ASSUME NEW n \in Nat, NEW i \in 1..Nibbles
  PROVE  /\ n \div 16 ^ (i - 1) \in Nat /\ n \div 16 ^ i \in Nat
         /\ n \div 16 ^ (i - 1) = (n \div 16 ^ i) * 16 + nibble(n, i - 1)
         /\ nibble(n, i - 1) \in 0..15
<1> DEFINE p == 16 ^ (i - 1)
           a == n \div p
           c == a % 16
           b == a \div 16
<1>1. p \in Nat /\ p > 0 /\ 16 ^ i = 16 * p
  <2>1. i - 1 \in 0..Nibbles
    BY ConsoleAssumption
  <2>2. p \in Nat \ {0} /\ 16 ^ i = 16 * p
    BY <2>1, Powers, PowersAssumption
  <2> HIDE DEF p
  <2> QED BY <2>2
<1> HIDE DEF p
<1>2. a \in Nat /\ n % p \in 0..p - 1 /\ n % p = n - p * a
  <2>1. a \in Nat /\ n % p \in 0..p - 1
    BY <1>1
  <2>2. n % p = n - p * (n \div p)
    BY <1>1, Z3
  <2> QED BY <2>1, <2>2
<1> DEFINE r == n % p
<1> HIDE DEF a, r
<1>3. r \in 0..p - 1 /\ r = n - p * a
  BY <1>2 DEF r
<1>4. b \in Nat /\ c \in 0..15 /\ c = a - 16 * b
  BY <1>2, Z3
<1> HIDE DEF b, c
<1>5. a = b * 16 + c
  BY <1>2, <1>4
<1> DEFINE P == 16 * p
           R == p * c + r
<1>6. R \in Nat /\ R < P /\ n = b * P + R
  <2>1. p * c \in Nat /\ p * c <= p * 15
    BY <1>1, <1>4
  <2>2. n = p * a + r
    BY <1>1, <1>2, <1>3
  <2>3. p * a = b * (16 * p) + p * c
    BY <1>1, <1>2, <1>4, <1>5
  <2>4. n = b * (16 * p) + p * c + r
    BY <2>2, <2>3
  <2> DEFINE u == p * c
             v == b * (16 * p)
  <2>5. v \in Nat
    BY <1>1, <1>4
  <2>6. u \in Nat /\ u <= 15 * p /\ n = v + u + r
    BY <1>1, <2>1, <2>4
  <2> HIDE DEF u, v
  <2>7. u + r \in Nat /\ u + r < 16 * p /\ n = v + (u + r)
    BY <1>1, <1>3, <2>5, <2>6
  <2> QED BY <2>7 DEF u, v
<1>7. P \in Nat /\ P > 0
  BY <1>1
<1> HIDE DEF P, R
<1>8. n \div P = b
  <2> DEFINE q == n \div P
             s == n % P
  <2>1. q \in Nat /\ s \in 0..P - 1
    BY <1>7
  <2>2. s = n - P * q
    BY <1>7, Z3
  <2> HIDE DEF q, s
  <2>3. q * P + s = b * P + R
    BY <1>6, <1>7, <2>1, <2>2
  <2>4. ~ (q < b)
    <3> SUFFICES ASSUME q < b PROVE FALSE
      OBVIOUS
    <3>1. (q + 1) * P <= b * P
      BY <1>4, <1>7, <2>1
    <3>2. (q + 1) * P = q * P + P
      BY <1>7, <2>1
    <3>3. q * P \in Nat /\ b * P \in Nat
      BY <1>4, <1>7, <2>1
    <3> QED BY <1>6, <1>7, <2>1, <2>3, <3>1, <3>2, <3>3
  <2>5. ~ (b < q)
    <3> SUFFICES ASSUME b < q PROVE FALSE
      OBVIOUS
    <3>1. (b + 1) * P <= q * P
      BY <1>4, <1>7, <2>1
    <3>2. (b + 1) * P = b * P + P
      BY <1>4, <1>7
    <3>3. q * P \in Nat /\ b * P \in Nat
      BY <1>4, <1>7, <2>1
    <3> QED BY <1>6, <1>7, <2>1, <2>3, <3>1, <3>2, <3>3
  <2> QED BY <1>4, <2>1, <2>4, <2>5 DEF q
<1>9. n \div 16 ^ i = b
  BY <1>1, <1>8 DEF P
<1>10. n \div 16 ^ (i - 1) = a /\ nibble(n, i - 1) = c
  BY DEF nibble, a, c, p
<1> QED BY <1>2, <1>4, <1>5, <1>9, <1>10

(* Above the digits that tty_puthex puts, n has none.                      *)
LEMMA HexLength ==
  ASSUME NEW n \in Numbers
  PROVE  LET leading == {i \in 1..Nibbles - 1 : \A j \in i..Nibbles - 1 : nibble(n, j) = 0}
             digits == Nibbles - Cardinality(leading)
         IN  digits \in 1..Nibbles /\ n \div 16 ^ digits = 0
<1> DEFINE Z(i) == \A j \in i..Nibbles - 1 : nibble(n, j) = 0
           leading == {i \in 1..Nibbles - 1 : Z(i)}
           digits == Nibbles - Cardinality(leading)
<1> SUFFICES digits \in 1..Nibbles /\ n \div 16 ^ digits = 0
  OBVIOUS
<1>1. n \in Nat /\ Nibbles \in Nat /\ Nibbles > 0 /\ n <= 16 ^ Nibbles - 1
  BY Powers, ConsoleAssumption
<1>2. n \div 16 ^ Nibbles = 0
  <2> DEFINE p == 16 ^ Nibbles
  <2>1. p \in Nat /\ p > 0
    <3>1. Nibbles \in 0..Nibbles
      BY <1>1
    <3>2. p \in Nat \ {0}
      BY <3>1, Powers
    <3> HIDE DEF p
    <3> QED BY <3>2
  <2>2. n < p
    BY <1>1, <2>1
  <2> HIDE DEF p
  <2>3. \A a, q \in Nat : q > 0 /\ a < q => a \div q = 0
    OBVIOUS
  <2>4. n \div p = 0
    BY <1>1, <2>1, <2>2, <2>3
  <2> QED BY <2>4 DEF p
<1>3. ASSUME NEW k \in 0..Nibbles, Z(k) PROVE n \div 16 ^ k = 0
  <2> DEFINE Nought == {j \in k..Nibbles : n \div 16 ^ j = 0}
  <2>1. Nought \in SUBSET Nat /\ Nibbles \in Nought
    BY <1>1, <1>2
  <2>2. PICK j \in Nought : \A l \in Nought : j <= l
    BY <2>1, LeastNumber
  <2>3. j \in k..Nibbles /\ n \div 16 ^ j = 0
    BY <2>2
  <2>4. CASE j = k
    BY <2>3, <2>4
  <2>5. CASE j # k
    <3>1. j \in 1..Nibbles /\ j - 1 \in k..Nibbles - 1 /\ j - 1 \in k..Nibbles
          /\ ~ (j <= j - 1)
      BY <1>1, <2>3, <2>5
    <3>2. n \div 16 ^ (j - 1) = (n \div 16 ^ j) * 16 + nibble(n, j - 1)
      BY <1>1, <3>1, Shorter
    <3>3. nibble(n, j - 1) = 0
      BY <1>3, <3>1
    <3>4. n \div 16 ^ (j - 1) = 0
      BY <2>3, <3>2, <3>3
    <3>5. j - 1 \in Nought
      BY <3>1, <3>4
    <3> QED BY <2>2, <3>1, <3>5
  <2> QED BY <2>4, <2>5
<1>4. CASE leading = {}
  <2>1. Cardinality(leading) = 0
    BY <1>4, FS_EmptySet
  <2> HIDE DEF leading
  <2>2. digits = Nibbles
    BY <1>1, <2>1
  <2> HIDE DEF digits
  <2> QED BY <1>1, <1>2, <2>2
<1>5. CASE leading # {}
  <2>1. leading \in SUBSET Nat
    OBVIOUS
  <2>2. PICK k \in leading : \A l \in leading : k <= l
    BY <1>5, <2>1, LeastNumber
  <2>3. k \in 1..Nibbles - 1 /\ Z(k)
    BY <2>2
  <2>4. leading = k..Nibbles - 1
    <3>1. ASSUME NEW l \in leading PROVE l \in k..Nibbles - 1
      <4>1. l \in 1..Nibbles - 1 /\ k <= l
        BY <2>2, <3>1
      <4> QED BY <1>1, <2>3, <4>1
    <3>2. ASSUME NEW l \in k..Nibbles - 1 PROVE l \in leading
      <4>1. l \in 1..Nibbles - 1 /\ \A j \in l..Nibbles - 1 : j \in k..Nibbles - 1
        BY <1>1, <2>3
      <4> QED BY <2>3, <4>1
    <3> QED BY <3>1, <3>2
  <2> HIDE DEF leading, Z
  <2>5. Cardinality(leading) = Nibbles - k
    <3>1. k \in Int /\ Nibbles - 1 \in Int
      BY <1>1, <2>3
    <3>2. Cardinality(k..Nibbles - 1) = IF k > Nibbles - 1 THEN 0 ELSE (Nibbles - 1) - k + 1
      BY <3>1, FS_Interval
    <3> QED BY <1>1, <2>3, <2>4, <3>2
  <2>6. digits = k /\ k \in 0..Nibbles /\ k \in 1..Nibbles
    BY <1>1, <2>3, <2>5
  <2> HIDE DEF digits
  <2> QED BY <1>3, <2>3, <2>6
<1> QED BY <1>4, <1>5

LEMMA HexRead ==
  ASSUME NEW n \in Numbers
  PROVE  Value(SubSeq(Hex(n), 3, Len(Hex(n))), 16) = n
<1> DEFINE leading == {i \in 1..Nibbles - 1 : \A j \in i..Nibbles - 1 : nibble(n, j) = 0}
           digits == Nibbles - Cardinality(leading)
           D(k) == Digit(nibble(n, digits - k))
           S(k) == [i \in 1..k |-> D(i)]
<1>1. n \in Nat /\ Nibbles \in Nat
  BY ConsoleAssumption
<1>2. digits \in 1..Nibbles /\ n \div 16 ^ digits = 0
  BY HexLength
<1>3. Hex(n) = <<48, 120>> \o S(digits)
  BY DEF Hex
<1> HIDE DEF digits
<1>4. ASSUME NEW k \in 1..digits
      PROVE  /\ D(k) \in 1..255 /\ DigitValue(D(k)) = nibble(n, digits - k)
             /\ n \div 16 ^ (digits - k)
                  = (n \div 16 ^ (digits - (k - 1))) * 16 + nibble(n, digits - k)
  <2> DEFINE i == digits - (k - 1)
  <2>1. i \in 1..Nibbles /\ i - 1 = digits - k
    BY <1>1, <1>2
  <2> HIDE DEF i
  <2>2. /\ n \div 16 ^ (i - 1) = (n \div 16 ^ i) * 16 + nibble(n, i - 1)
        /\ nibble(n, i - 1) \in 0..15
    BY <1>1, <2>1, Shorter
  <2>3. nibble(n, digits - k) \in 0..15
    BY <2>1, <2>2
  <2>4. D(k) \in 1..255 /\ DigitValue(D(k)) = nibble(n, digits - k)
    BY <2>3, DigitTyped, DigitRead
  <2> QED BY <2>1, <2>2, <2>4 DEF i
<1> HIDE DEF D
<1>5. ASSUME NEW k \in 0..digits PROVE S(k) \in Seq(1..255) /\ Len(S(k)) = k
  <2>1. k \in Nat /\ \A i \in 1..k : D(i) \in 1..255
    BY <1>1, <1>2, <1>4
  <2>2. S(k) \in [1..k -> 1..255] /\ DOMAIN S(k) = 1..k
    BY <2>1
  <2> DEFINE s == S(k)
  <2>3. s \in [1..k -> 1..255] /\ DOMAIN s = 1..k
    BY <2>2
  <2> HIDE DEF s, S
  <2>4. s \in Seq(1..255)
    BY <2>1, <2>3, SeqDef
  <2>5. Len(s) = k
    BY <2>1, <2>3, <2>4, LenProperties
  <2> QED BY <2>4, <2>5 DEF s
<1>6. ASSUME NEW k \in 1..digits PROVE S(k) = Append(S(k - 1), D(k))
  <2>1. k - 1 \in 0..digits /\ k \in 0..digits /\ (k - 1) + 1 = k /\ k \in Nat
    BY <1>1, <1>2
  <2> DEFINE s == S(k)
             t == S(k - 1)
             u == Append(t, D(k))
  <2>2. /\ s \in Seq(1..255) /\ Len(s) = k /\ t \in Seq(1..255) /\ Len(t) = k - 1
        /\ D(k) \in 1..255
    BY <1>4, <1>5, <2>1
  <2>3. /\ \A i \in 1..k : s[i] = D(i)
        /\ \A i \in 1..k - 1 : t[i] = D(i)
    OBVIOUS
  <2> HIDE DEF s, t
  <2>4. /\ u \in Seq(1..255) /\ Len(u) = Len(t) + 1 /\ u[Len(t) + 1] = D(k)
        /\ \A i \in 1..Len(t) : u[i] = t[i]
    BY <2>2, AppendProperties
  <2> HIDE DEF u
  <2>5. Len(s) = Len(u)
    BY <2>1, <2>2, <2>4
  <2>6. \A i \in 1..Len(s) : s[i] = u[i]
    <3> SUFFICES ASSUME NEW i \in 1..k PROVE s[i] = u[i]
      BY <2>2
    <3>1. CASE i = k
      BY <2>1, <2>2, <2>3, <2>4, <3>1
    <3>2. CASE i # k
      <4>1. i \in 1..k - 1
        BY <2>1, <3>2
      <4> QED BY <2>2, <2>3, <2>4, <4>1
    <3> QED BY <3>1, <3>2
  <2>7. s = u
    BY <2>2, <2>4, <2>5, <2>6, SeqEqual
  <2> QED BY <2>7 DEF s, t, u
<1>7. \A k \in 0..digits : Value(S(k), 16) = n \div 16 ^ (digits - k)
  <2> DEFINE Odd == {k \in 0..digits : Value(S(k), 16) # n \div 16 ^ (digits - k)}
  <2> SUFFICES ASSUME Odd # {} PROVE FALSE
    OBVIOUS
  <2>1. Odd \in SUBSET Nat
    BY <1>1, <1>2
  <2>2. PICK k \in Odd : \A l \in Odd : k <= l
    BY <2>1, LeastNumber
  <2>3. k \in 0..digits /\ Value(S(k), 16) # n \div 16 ^ (digits - k)
    BY <2>2
  <2>4. CASE k = 0
    <3>1. S(k) = <<>>
      <4>1. S(k) \in Seq(1..255) /\ Len(S(k)) = 0
        BY <1>5, <2>3, <2>4
      <4> HIDE DEF S
      <4> QED BY <4>1, EmptySeq
    <3>2. Value(<<>>, 16) = 0
      <4>1. <<>> \in Seq(1..255) /\ 1 \in 1..255
        OBVIOUS
      <4> QED BY <4>1, ValueLaws
    <3>3. digits - k = digits
      BY <1>1, <1>2, <2>4
    <3> QED BY <1>2, <2>3, <3>1, <3>2, <3>3
  <2>5. CASE k # 0
    <3>1. k \in 1..digits /\ k - 1 \in 0..digits /\ ~ (k <= k - 1)
      BY <1>1, <1>2, <2>3, <2>5
    <3> DEFINE s == S(k - 1)
               d == D(k)
    <3>2. s \in Seq(1..255) /\ d \in 1..255
      BY <1>4, <1>5, <3>1
    <3>3. S(k) = Append(s, d)
      BY <1>6, <3>1
    <3>4. Value(s, 16) = n \div 16 ^ (digits - (k - 1))
      <4>1. k - 1 \notin Odd
        BY <2>2, <3>1
      <4> HIDE DEF S
      <4> QED BY <3>1, <4>1
    <3>5. DigitValue(d) = nibble(n, digits - k)
          /\ n \div 16 ^ (digits - k)
                  = (n \div 16 ^ (digits - (k - 1))) * 16 + nibble(n, digits - k)
      BY <1>4, <3>1
    <3> HIDE DEF s, d, S
    <3>6. Value(Append(s, d), 16) = Value(s, 16) * 16 + DigitValue(d)
      BY <3>2, ValueLaws
    <3>7. Value(S(k), 16) = n \div 16 ^ (digits - k)
      BY <3>3, <3>4, <3>5, <3>6
    <3> QED BY <2>3, <3>7
  <2> QED BY <2>4, <2>5
<1> DEFINE s == S(digits)
           h == <<48, 120>>
           t == h \o s
<1>8. s \in Seq(1..255) /\ Len(s) = digits /\ digits \in Nat /\ digits \in 0..digits
  <2>1. digits \in Nat /\ digits \in 0..digits
    BY <1>1, <1>2
  <2> QED BY <1>5, <2>1
<1>9. Value(s, 16) = n
  <2>1. digits - digits = 0
    BY <1>8
  <2>2. Value(s, 16) = n \div 16 ^ (digits - digits)
    BY <1>7, <1>8
  <2>3. n \div 16 ^ 0 = n
    BY <1>1
  <2>4. n \div 16 ^ (digits - digits) = n \div 16 ^ 0
    BY <2>1, Zenon
  <2> QED BY <2>2, <2>3, <2>4, Zenon
<1> HIDE DEF s
<1>10. SubSeq(t, 3, Len(t)) = s
  <2>1. h \in Seq(1..255) /\ Len(h) = 2
    OBVIOUS
  <2> HIDE DEF h
  <2>2. /\ t \in Seq(1..255) /\ Len(t) = 2 + digits
        /\ \A i \in 1..2 + digits : t[i] = IF i <= 2 THEN h[i] ELSE s[i - 2]
    <3>1. /\ t \in Seq(1..255) /\ Len(t) = Len(h) + Len(s)
          /\ \A i \in 1..Len(h) + Len(s) : t[i] = IF i <= Len(h) THEN h[i] ELSE s[i - Len(h)]
      BY <1>8, <2>1, ConcatProperties
    <3> HIDE DEF t
    <3> QED BY <1>8, <2>1, <3>1
  <2> HIDE DEF t
  <2> DEFINE m == Len(t)
             u == SubSeq(t, 3, m)
  <2>3. m \in Int /\ 3 \in Int /\ m = 2 + digits
    BY <1>8, <2>2
  <2>4. \A i \in 3..m : t[i] \in 1..255
    <3>1. \A i \in 1..m : t[i] \in 1..255
      <4>1. t \in Seq(1..255)
        BY <2>2
      <4> QED BY <4>1, LenProperties
    <3>2. 3..m \subseteq 1..m
      BY <2>3
    <3> QED BY <3>1, <3>2
  <2> HIDE DEF m
  <2>5. /\ u \in Seq(1..255) /\ Len(u) = IF 3 <= m THEN m - 3 + 1 ELSE 0
        /\ \A i \in 1..m - 3 + 1 : u[i] = t[3 + i - 1]
    BY <2>2, <2>3, <2>4, SubSeqProperties
  <2> HIDE DEF u
  <2>6. Len(u) = Len(s) /\ m - 3 + 1 = digits
    BY <1>8, <2>3, <2>5
  <2>7. \A i \in 1..Len(u) : u[i] = s[i]
    <3> SUFFICES ASSUME NEW i \in 1..digits PROVE u[i] = s[i]
      BY <1>8, <2>6
    <3>1. 3 + i - 1 \in 1..2 + digits /\ ~ (3 + i - 1 <= 2) /\ (3 + i - 1) - 2 = i
      BY <1>8
    <3> QED BY <2>2, <2>5, <2>6, <3>1
  <2>8. u = s
    BY <1>8, <2>5, <2>6, <2>7, SeqEqual
  <2> QED BY <2>8 DEF u, m
<1>11. Hex(n) = t
  BY <1>3 DEF s
<1> QED BY <1>9, <1>10, <1>11

(* Every number that tty_puthex is given, and every number that tty_putdec *)
(* is given and that is not negative as a signed word, is put with digits  *)
(* that say that number, however wide the word is.                         *)
THEOREM NumbersAlwaysReadBack == Spec => NumbersReadBack
<1>1. \A n \in Numbers :
        /\ tty_puthex(n) => Value(SubSeq(text', 3, Len(text')), 16) = n
        /\ tty_putdec(n) /\ n < (16 ^ Nibbles) \div 2 => Value(text', 10) = n
  <2> SUFFICES ASSUME NEW n \in Numbers
               PROVE  /\ tty_puthex(n) => Value(SubSeq(text', 3, Len(text')), 16) = n
                      /\ tty_putdec(n) /\ n < (16 ^ Nibbles) \div 2 => Value(text', 10) = n
    OBVIOUS
  <2>1. ASSUME tty_puthex(n) PROVE Value(SubSeq(text', 3, Len(text')), 16) = n
    <3>1. text' = Hex(n)
      BY <2>1 DEF tty_puthex, Begin
    <3> QED BY <3>1, HexRead
  <2>2. ASSUME tty_putdec(n), n < (16 ^ Nibbles) \div 2 PROVE Value(text', 10) = n
    <3>1. text' = Decimal(n)
      BY <2>2 DEF tty_putdec, Begin
    <3> QED BY <2>2, <3>1, DecimalRead
  <2> QED BY <2>1, <2>2
<1> QED BY <1>1, PTL DEF NumbersReadBack
=============================================================================
