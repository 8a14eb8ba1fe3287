---------------------------- MODULE ShellProofs -----------------------------
(***************************************************************************)
(* For a buffer of every size and every sequence of keys: kbuffer begins   *)
(* with the line, holds nothing else unless backspace has left it there,   *)
(* and is left only where InsideBuffer says; and the command that Enter    *)
(* runs is the one that was typed.                                         *)
(***************************************************************************)
EXTENDS Shell, SequenceTheorems, FiniteSetTheorems, WellFoundedInduction, TLAPS

(* Nothing is in a place that no line has reached, and an empty line that  *)
(* was rubbed at has led out of the buffer.                                *)
Reached ==
  /\ longest \in Nat
  /\ \A i \in Place : kbuffer[i] # NUL => i < longest
  /\ ~astray /\ ~spinning =>
       /\ rubbed => knext \notin Place
       /\ ~rubbed => Len(line) <= longest

Typing ==
  /\ kbuffer \in [Place -> 0..127] /\ knext \in Int
  /\ line \in Seq(0..127)
  /\ astray \in BOOLEAN /\ spinning \in BOOLEAN
  /\ backspaced \in BOOLEAN /\ rubbed \in BOOLEAN

IInv == Typing /\ LineBuffered /\ CleanBehind /\ Reached /\ InsideBuffer

LEMMA SizePositive == Size \in Nat \ {0} /\ Key \subseteq 0..127
BY ShellAssumption

LEMMA Clearing ==
  ASSUME NEW k \in [Place -> 0..127], NEW a
  PROVE  /\ [k EXCEPT ![a] = NUL] \in [Place -> 0..127]
         /\ \A i \in Place : [k EXCEPT ![a] = NUL][i] \in {NUL, k[i]}
<1>1. NUL \in 0..127
  BY DEF NUL
<1>2. [k EXCEPT ![a] = NUL] = [i \in Place |-> IF i = a THEN NUL ELSE k[i]]
  OBVIOUS
<1>3. \A i \in Place : k[i] \in 0..127
  OBVIOUS
<1>4. QED
  BY <1>1, <1>2, <1>3, Zenon

(* Cutting and stripping write nothing but NUL.                            *)
LEMMA OnlyCleared ==
  ASSUME NEW k \in [Place -> 0..127]
  PROVE  /\ Stripped(Cut(k)) \in [Place -> 0..127]
         /\ \A i \in Place : Stripped(Cut(k))[i] \in {NUL, k[i]}
<1>1. /\ Cut(k) \in [Place -> 0..127]
      /\ \A i \in Place : Cut(k)[i] \in {NUL, k[i]}
  <2>1. ASSUME NEW a, NEW b
        PROVE  /\ [[k EXCEPT ![a] = NUL] EXCEPT ![b] = NUL] \in [Place -> 0..127]
               /\ \A i \in Place :
                    [[k EXCEPT ![a] = NUL] EXCEPT ![b] = NUL][i] \in {NUL, k[i]}
    <3> DEFINE h == [k EXCEPT ![a] = NUL]
    <3>1. h \in [Place -> 0..127] /\ \A i \in Place : h[i] \in {NUL, k[i]}
      BY Clearing
    <3> HIDE DEF h
    <3>2. /\ [h EXCEPT ![b] = NUL] \in [Place -> 0..127]
          /\ \A i \in Place : [h EXCEPT ![b] = NUL][i] \in {NUL, h[i]}
      BY <3>1, Clearing
    <3>3. \A i \in Place : [h EXCEPT ![b] = NUL][i] \in {NUL, k[i]}
      BY <3>1, <3>2, Zenon
    <3>4. QED
      BY <3>2, <3>3 DEF h
  <2>2. CASE strchr(k, SP) = {}
    BY <2>2 DEF Cut
  <2>3. CASE strchr(k, SP) # {}
    <3> DEFINE sp == CHOOSE i \in strchr(k, SP) : TRUE
    <3> DEFINE end == sp + strlen(k, sp + 1)
    <3>1. Cut(k) = [[k EXCEPT ![sp] = NUL] EXCEPT ![end] = NUL]
      BY <2>3, Zenon DEF Cut
    <3> HIDE DEF sp, end
    <3> DEFINE h == [[k EXCEPT ![sp] = NUL] EXCEPT ![end] = NUL]
    <3>2. h \in [Place -> 0..127] /\ \A i \in Place : h[i] \in {NUL, k[i]}
      BY <2>1
    <3> HIDE DEF h
    <3>3. Cut(k) = h
      BY <3>1 DEF h
    <3>4. QED
      BY <3>2, <3>3, Zenon
  <2>4. QED
    BY <2>2, <2>3
<1>2. ASSUME NEW h \in [Place -> 0..127]
      PROVE  /\ Stripped(h) \in [Place -> 0..127]
             /\ \A i \in Place : Stripped(h)[i] \in {NUL, h[i]}
  <2> DEFINE last == strlen(h, 0) - 1
  <2>1. Stripped(h) = h \/ Stripped(h) = [h EXCEPT ![last] = NUL]
    BY DEF Stripped
  <2>2. QED
    BY <2>1, Clearing
<1>3. QED
  BY <1>1, <1>2

LEMMA Appending ==
  ASSUME NEW l \in Seq(0..127), NEW c \in 0..127
  PROVE  /\ Append(l, c) \in Seq(0..127)
         /\ Len(Append(l, c)) = Len(l) + 1
         /\ Append(l, c)[Len(l) + 1] = c
         /\ \A i \in 1..Len(l) : Append(l, c)[i] = l[i]
OBVIOUS

LEMMA Rubbing ==
  ASSUME NEW l \in Seq(0..127), l # <<>>
  PROVE  /\ Front(l) \in Seq(0..127)
         /\ Len(Front(l)) = Len(l) - 1
         /\ \A i \in 1..Len(l) - 1 : Front(l)[i] = l[i]
<1>1. Len(l) \in Nat \ {0}
  BY EmptySeq, Zenon
<1>2. \A i \in 1..Len(l) - 1 : l[i] \in 0..127
  <2>1. \A i \in 1..Len(l) : l[i] \in 0..127
    BY LenProperties
  <2>2. 1..Len(l) - 1 \subseteq 1..Len(l)
    BY <1>1
  <2>3. QED
    BY <2>1, <2>2
<1>3. Len(l) - 1 \in Int
  BY <1>1
<1>4. /\ Front(l) \in Seq(0..127)
      /\ Len(Front(l)) = IF 1 <= Len(l) - 1 THEN Len(l) - 1 - 1 + 1 ELSE 0
      /\ \A i \in 1..Len(l) - 1 - 1 + 1 : Front(l)[i] = l[1 + i - 1]
  BY <1>2, <1>3, SubSeqProperties DEF Front
<1>5. Len(l) - 1 - 1 + 1 = Len(l) - 1 /\ \A i \in 1..Len(l) - 1 : 1 + i - 1 = i
  BY <1>1
<1>6. Len(Front(l)) = Len(l) - 1
  <2>1. CASE Len(l) = 1
    BY <1>4, <2>1
  <2>2. CASE Len(l) - 1 >= 1
    <3>1. Len(Front(l)) = Len(l) - 1 - 1 + 1
      BY <1>1, <1>4, <2>2
    <3>2. QED
      BY <1>1, <3>1
  <2>3. \A n \in Nat \ {0} : n = 1 \/ n - 1 >= 1
    OBVIOUS
  <2>4. QED
    BY <1>1, <2>1, <2>2, <2>3, Zenon
<1>7. \A i \in 1..Len(l) - 1 : Front(l)[i] = l[i]
  BY <1>4, <1>5
<1>8. QED
  BY <1>4, <1>6, <1>7

LEMMA InitIInv == Init => IInv
<1> SUFFICES ASSUME Init PROVE IInv
  OBVIOUS
<1>1. /\ kbuffer \in [Place -> 0..127]
      /\ \A i \in Place : kbuffer[i] = NUL
  BY DEF Init, NUL
<1>2. Typing
  <2>1. line = <<>> /\ line \in Seq(0..127)
    BY DEF Init
  <2>2. /\ astray \in BOOLEAN /\ spinning \in BOOLEAN
        /\ backspaced \in BOOLEAN /\ rubbed \in BOOLEAN
    BY Zenon DEF Init
  <2>3. knext \in Int
    BY DEF Init
  <2>4. QED
    BY <1>1, <2>1, <2>2, <2>3 DEF Typing
<1>3. LineBuffered /\ CleanBehind /\ Reached /\ InsideBuffer
  BY <1>1 DEF Init, LineBuffered, CleanBehind, Reached, InsideBuffer
<1>4. QED
  BY <1>2, <1>3 DEF IInv

LEMMA TypeKeeps ==
  ASSUME IInv, ~astray, ~spinning, NEW c \in Key, Type(c)
  PROVE  IInv'
<1> USE SizePositive
<1>1. /\ knext \in 0..Size - 1 /\ c # LF /\ c \in 0..127
      /\ kbuffer' = With(c) /\ Remember(c)
      /\ UNCHANGED <<astray, spinning>>
  BY DEF Type, Place
<1>2. ~rubbed /\ knext = Len(line)
  BY <1>1 DEF IInv, Reached, LineBuffered, Place
<1>3. /\ kbuffer' \in [Place -> 0..127]
      /\ kbuffer'[knext] = c
      /\ \A i \in Place : i # knext => kbuffer'[i] = kbuffer[i]
  BY <1>1 DEF IInv, Typing, With, Place
<1>4. \/ c = BS /\ line = <<>> /\ rubbed' /\ line' = <<>> /\ knext' = -1
      \/ c = BS /\ line # <<>> /\ ~rubbed' /\ line' = Front(line) /\ knext' = knext - 1
      \/ c # BS /\ ~rubbed' /\ line' = Append(line, c) /\ knext' = knext + 1
  <2>1. /\ line' = Edited(c) /\ knext' = NextPlace(c)
        /\ rubbed' = (c # LF /\ (rubbed \/ (c = BS /\ line = <<>>)))
    BY <1>1 DEF Remember, Type
  <2>2. rubbed' = (c = BS /\ line = <<>>)
    BY <1>1, <1>2, <2>1, Zenon
  <2>3. CASE c # BS
    BY <2>1, <2>2, <2>3 DEF Edited, NextPlace
  <2>4. CASE c = BS /\ line = <<>>
    <3>1. Len(line) = 0
      BY <2>4
    <3>2. rubbed' = TRUE /\ line' = <<>>
      BY <2>1, <2>2, <2>4, Zenon DEF Edited
    <3>3. knext' = -1
      BY <1>2, <2>1, <2>4, <3>1 DEF NextPlace
    <3>4. QED
      BY <2>4, <3>2, <3>3
  <2>5. CASE c = BS /\ line # <<>>
    BY <2>1, <2>2, <2>5 DEF Edited, NextPlace
  <2>6. QED
    BY <2>3, <2>4, <2>5
<1>5. Typing'
  <2>1. line' \in Seq(0..127)
    BY <1>1, <1>4, Appending, Rubbing DEF IInv, Typing
  <2>2. knext' \in Int /\ rubbed' \in BOOLEAN
    BY <1>1, <1>4 DEF Remember, IInv, Typing
  <2>3. backspaced' \in BOOLEAN
    BY <1>1 DEF Remember, IInv, Typing
  <2>4. QED
    BY <1>1, <1>3, <2>1, <2>2, <2>3 DEF Typing, IInv
<1>6. LineBuffered'
  <2>1. CASE c = BS /\ line # <<>>
    <3>1. /\ line' = Front(line) /\ knext' = Len(line')
          /\ Len(line') = Len(line) - 1
          /\ \A i \in 1..Len(line') : line'[i] = line[i]
      BY <1>2, <1>4, <2>1, Rubbing DEF IInv, Typing
    <3>2. \A i \in 1..Len(line) : kbuffer[i - 1] = line[i]
      BY <1>1, <1>2 DEF LineBuffered, IInv, Place
    <3>3. ASSUME NEW i \in 1..Len(line') PROVE kbuffer'[i - 1] = line'[i]
      BY <1>1, <1>2, <1>3, <3>1, <3>2 DEF IInv, Typing, Place
    <3>4. QED
      BY <3>1, <3>3 DEF LineBuffered
  <2>2. CASE c # BS
    <3>1. /\ line' = Append(line, c) /\ knext' = Len(line')
      BY <1>1, <1>2, <1>4, <2>2, Appending DEF IInv, Typing
    <3>2. ASSUME NEW i \in 1..Len(line') PROVE kbuffer'[i - 1] = line'[i]
      BY <1>1, <1>2, <1>3, <3>1, Appending DEF LineBuffered, IInv, Typing, Place
    <3>3. QED
      BY <3>1, <3>2 DEF LineBuffered
  <2>3. QED
    BY <1>4, <2>1, <2>2 DEF LineBuffered
<1>7. CleanBehind'
  <2>1. backspaced' = (backspaced \/ c = BS)
    BY <1>1 DEF Remember
  <2>2. ~backspaced' => /\ knext' = knext + 1
                        /\ \A i \in Place : i >= knext => kbuffer[i] = NUL
    BY <1>4, <2>1 DEF CleanBehind, IInv
  <2>3. QED
    BY <1>1, <1>3, <2>2 DEF CleanBehind, Place
<1>8. Reached'
  <2>1. /\ longest' \in Nat
        /\ longest <= longest' /\ Len(line) + 1 <= longest'
    BY <1>1 DEF Remember, IInv, Reached, Typing
  <2>2. \A i \in Place : kbuffer'[i] # NUL => i < longest'
    BY <1>2, <1>3, <2>1 DEF IInv, Reached, Typing, Place
  <2>3. rubbed' => knext' \notin Place
    BY <1>4 DEF Place
  <2>4. Len(line') <= Len(line) + 1
    BY <1>1, <1>4, Appending, Rubbing DEF IInv, Typing
  <2>5. ~rubbed' => Len(line') <= longest'
    BY <2>1, <2>4, <1>5 DEF IInv, Typing
  <2>6. QED
    BY <2>1, <2>2, <2>3, <2>5 DEF Reached
<1>9. InsideBuffer'
  BY <1>1 DEF InsideBuffer
<1>10. QED
  BY <1>5, <1>6, <1>7, <1>8, <1>9 DEF IInv

LEMMA EnterKeeps ==
  ASSUME IInv, ~astray, ~spinning, Enter
  PROVE  IInv'
<1> USE SizePositive
<1> DEFINE k == With(LF)
           bare == Stripped(Cut(k))
<1>1. /\ knext \in 0..Size - 1 /\ Run(k, knext + 1) /\ Remember(LF)
      /\ UNCHANGED astray
  BY DEF Enter, Place
<1>2. ~rubbed /\ knext = Len(line)
  BY <1>1 DEF IInv, Reached, LineBuffered, Place
<1>3. /\ k \in [Place -> 0..127]
      /\ \A i \in Place : i # knext => k[i] = kbuffer[i]
  BY <1>1 DEF IInv, Typing, With, Place, LF
<1>4. /\ bare \in [Place -> 0..127]
      /\ \A i \in Place : bare[i] \in {NUL, k[i]}
  BY <1>3, OnlyCleared
<1>5. \/ spinning' = TRUE /\ kbuffer' = bare /\ knext' = knext + 1
      \/ spinning' = spinning /\ kbuffer' = Cleared(bare, knext + 1) /\ knext' = 0
  BY <1>1 DEF Run
<1>6. /\ kbuffer' \in [Place -> 0..127]
      /\ \A i \in Place : i # knext => kbuffer'[i] \in {NUL, kbuffer[i]}
  <2>1. CASE kbuffer' = bare
    BY <1>3, <1>4, <2>1
  <2>2. CASE kbuffer' = Cleared(bare, knext + 1)
    BY <1>3, <1>4, <2>2 DEF Cleared, NUL
  <2>3. QED
    BY <1>5, <2>1, <2>2
<1>7. knext' = 0 => \A i \in Place : i <= knext => kbuffer'[i] = NUL
  BY <1>1, <1>5 DEF Cleared, Place
<1>8. /\ line' = <<>> /\ rubbed' = FALSE
      /\ backspaced' = (backspaced \/ LF = BS)
      /\ longest' = IF Len(line) < longest THEN longest ELSE Len(line) + 1
  BY <1>1 DEF Remember
<1>9. Typing'
  <2>1. knext' \in Int
    BY <1>1, <1>5
  <2>5. spinning' \in BOOLEAN
    BY <1>5, Zenon DEF IInv, Typing
  <2>2. line' \in Seq(0..127)
    BY <1>8
  <2>3. backspaced' \in BOOLEAN
    BY <1>8 DEF IInv, Typing
  <2>4. QED
    BY <1>1, <1>6, <1>8, <2>1, <2>2, <2>3, <2>5 DEF IInv, Typing
<1>10. LineBuffered'
  BY <1>5, <1>8 DEF LineBuffered, IInv, Typing
<1>11. CleanBehind'
  <2>1. ~backspaced' => \A i \in Place : i >= knext => kbuffer[i] = NUL
    BY <1>8 DEF IInv, CleanBehind
  <2>2. CASE knext' = 0
    BY <1>1, <1>6, <1>7, <2>1, <2>2 DEF CleanBehind, Place
  <2>3. CASE knext' = knext + 1
    BY <1>1, <1>6, <2>1, <2>3 DEF CleanBehind, Place
  <2>4. QED
    BY <1>5, <2>2, <2>3
<1>12. Reached'
  <2>1. /\ longest' \in Nat
        /\ longest <= longest' /\ Len(line) + 1 <= longest'
    BY <1>8 DEF IInv, Reached, Typing
  <2>2. \A i \in Place : kbuffer'[i] # NUL => i < longest'
    BY <1>2, <1>6, <2>1 DEF IInv, Reached, Typing, Place
  <2>3. QED
    BY <1>8, <2>1, <2>2 DEF Reached
<1>13. InsideBuffer'
  BY <1>1 DEF InsideBuffer
<1>14. QED
  BY <1>9, <1>10, <1>11, <1>12, <1>13 DEF IInv

LEMMA AstrayKeeps ==
  ASSUME IInv, ~astray, ~spinning, NEW c \in Key, GoAstray(c)
  PROVE  IInv'
<1> USE SizePositive
<1>1. astray' = TRUE /\ UNCHANGED <<kbuffer, knext, spinning, history>>
  BY DEF GoAstray
<1>2. rubbed \/ longest >= Size - 1
  <2>1. CASE knext \notin Place
    BY <2>1 DEF IInv, Typing, LineBuffered, Reached, Place
  <2>2. CASE knext \in Place /\ ~Terminated(With(LF))
    <3>1. Size - 1 \in Place
      BY DEF Place
    <3>2. With(LF)[Size - 1] # NUL
      BY <2>2, <3>1 DEF Terminated
    <3>3. CASE knext = Size - 1
      BY <3>3 DEF IInv, Typing, LineBuffered, Reached
    <3>4. CASE knext # Size - 1
      BY <3>1, <3>2, <3>4 DEF With, IInv, Typing, Reached
    <3>5. QED
      BY <3>3, <3>4
  <2>3. QED
    BY <2>1, <2>2 DEF GoAstray
<1>3. QED
  BY <1>1, <1>2 DEF IInv, Typing, LineBuffered, CleanBehind, Reached, InsideBuffer, history

LEMMA StepIInv == IInv /\ [Next]_vars => IInv'
<1> SUFFICES ASSUME IInv, [Next]_vars PROVE IInv'
  OBVIOUS
<1>1. CASE Next
  <2>1. PICK c \in Key : keypress_handler(c)
    BY <1>1 DEF Next
  <2>2. ~astray /\ ~spinning /\ (Type(c) \/ Enter \/ GoAstray(c))
    BY <2>1 DEF keypress_handler
  <2>3. QED
    BY <2>2, TypeKeeps, EnterKeeps, AstrayKeeps
<1>2. CASE UNCHANGED vars
  BY <1>2 DEF vars, history, IInv, Typing, LineBuffered, CleanBehind, Reached,
              InsideBuffer
<1>3. QED
  BY <1>1, <1>2

LEMMA AlwaysIInv == Spec => []IInv
BY InitIInv, StepIInv, PTL DEF Spec

(* Whatever was typed and rubbed out before, kbuffer begins with the line  *)
(* that stands, unless an empty one was rubbed at.                         *)
THEOREM AlwaysBuffered == Spec => []LineBuffered
<1>1. IInv => LineBuffered
  BY DEF IInv
<1>2. QED
  BY <1>1, AlwaysIInv, PTL

(* Without a backspace there is nothing behind the line, and nothing of    *)
(* one line is left for the next.                                          *)
THEOREM AlwaysClean == Spec => []CleanBehind
<1>1. IInv => CleanBehind
  BY DEF IInv
<1>2. QED
  BY <1>1, AlwaysIInv, PTL

(* Nothing outside kbuffer is touched unless an empty line was rubbed at   *)
(* or a line came within one key of filling it.                            *)
THEOREM AlwaysInside == Spec => []InsideBuffer
<1>1. IInv => InsideBuffer
  BY DEF IInv
<1>2. QED
  BY <1>1, AlwaysIInv, PTL

-----------------------------------------------------------------------------
(***************************************************************************)
(* str.c: what strlen and String return.                                   *)
(***************************************************************************)
(* Every set of numbers has a least one, since the order of the numbers is *)
(* well-founded.                                                           *)
LEMMA LeastNumber ==
  ASSUME NEW N \in SUBSET Nat, N # {}
  PROVE  \E k \in N : \A l \in N : k <= l
<1> DEFINE Below == OpToRel(<, Nat)
<1>1. IsWellFoundedOn(Below, Nat)
  BY NatLessThanWellFounded
<1>2. \A l, k \in Nat : l < k => <<l, k>> \in Below
  BY DEF OpToRel
<1> HIDE DEF Below
<1>3. PICK k \in N : \A l \in N : ~ (<<l, k>> \in Below)
  BY <1>1, WFMin
<1>4. \A l \in N : k <= l
  <2> SUFFICES ASSUME NEW l \in N PROVE k <= l
    OBVIOUS
  <2>1. k \in Nat /\ l \in Nat /\ ~ (l < k)
    BY <1>2, <1>3
  <2> QED BY <2>1
<1> QED BY <1>4, Zenon

(* n characters lead from k[i] to a NUL or to the end of the buffer.       *)
Ends(k, i, n) ==
  /\ n \in 0..Size - i
  /\ \A j \in i..i + n - 1 : k[j] # NUL
  /\ i + n = Size \/ k[i + n] = NUL

LEMMA StringEnds ==
  ASSUME NEW k \in [Place -> 0..127], NEW i \in 0..Size
  PROVE  Ends(k, i, strlen(k, i))
<1>1. Size \in Nat /\ i \in Nat /\ i <= Size
  BY SizePositive
<1> DEFINE N == {n \in Nat : i + n = Size \/ (i + n \in Place /\ k[i + n] = NUL)}
<1>2. N \in SUBSET Nat /\ Size - i \in N
  BY <1>1
<1>3. PICK n \in N : \A m \in N : n <= m
  BY <1>2, LeastNumber
<1>4. n \in Nat /\ n \in 0..Size - i /\ (i + n = Size \/ k[i + n] = NUL)
  BY <1>1, <1>2, <1>3
<1>5. ASSUME NEW j \in i..i + n - 1 PROVE k[j] # NUL
  <2>1. j - i \in Nat /\ j - i < n /\ i + (j - i) = j /\ j \in Place
    BY <1>1, <1>4 DEF Place
  <2>2. j - i \notin N
    BY <1>3, <1>4, <2>1
  <2> QED BY <2>1, <2>2
<1>6. \E m \in 0..Size - i : Ends(k, i, m)
  BY <1>4, <1>5 DEF Ends
<1>7. strlen(k, i) = CHOOSE m \in 0..Size - i : Ends(k, i, m)
  <2>1. \A m \in 0..Size - i : Ends(k, i, m) <=>
          /\ \A j \in i..i + m - 1 : k[j] # NUL
          /\ i + m = Size \/ k[i + m] = NUL
    BY DEF Ends
  <2> QED BY <2>1 DEF strlen
<1> QED BY <1>6, <1>7

LEMMA StringLength ==
  ASSUME NEW k \in [Place -> 0..127], NEW i \in 0..Size, NEW n, Ends(k, i, n)
  PROVE  strlen(k, i) = n
<1> DEFINE m == strlen(k, i)
<1>1. Ends(k, i, m)
  BY StringEnds
<1> HIDE DEF m
<1>2. Size \in Nat /\ i \in Nat /\ i <= Size /\ m \in Nat /\ n \in Nat
      /\ m <= Size - i /\ n <= Size - i
  BY <1>1, SizePositive DEF Ends
<1>3. ~ (m < n)
  <2> SUFFICES ASSUME m < n PROVE FALSE
    OBVIOUS
  <2>1. i + m \in i..i + n - 1 /\ i + m # Size
    BY <1>2
  <2> QED BY <1>1, <2>1 DEF Ends
<1>4. ~ (n < m)
  <2> SUFFICES ASSUME n < m PROVE FALSE
    OBVIOUS
  <2>1. i + n \in i..i + m - 1 /\ i + n # Size
    BY <1>2
  <2> QED BY <1>1, <2>1 DEF Ends
<1> QED BY <1>2, <1>3, <1>4 DEF m

LEMMA StringTyped ==
  ASSUME NEW k \in [Place -> 0..127], NEW i \in 0..Size
  PROVE  String(k, i) \in Seq(1..127)
<1> DEFINE n == strlen(k, i)
<1>1. Ends(k, i, n)
  BY StringEnds
<1> HIDE DEF n
<1>2. n \in Nat /\ \A j \in 1..n : i + j - 1 \in Place /\ k[i + j - 1] # NUL
  BY <1>1, SizePositive DEF Ends, Place
<1>3. \A j \in 1..n : k[i + j - 1] \in 1..127
  BY <1>2 DEF NUL
<1> DEFINE s == [j \in 1..n |-> k[i + j - 1]]
<1>4. s \in [1..n -> 1..127]
  BY <1>3
<1>5. s = String(k, i)
  BY DEF String, n
<1> HIDE DEF s
<1> QED BY <1>2, <1>4, <1>5, SeqDef

(* As strings are different from NUL, the same sequence is the same string.*)
LEMMA StringIs ==
  ASSUME NEW k \in [Place -> 0..127], NEW i \in 0..Size, NEW n, Ends(k, i, n),
         NEW s \in Seq(1..127), Len(s) = n, \A j \in 1..n : s[j] = k[i + j - 1]
  PROVE  String(k, i) = s
<1>1. strlen(k, i) = n
  BY StringLength
<1>2. s = [j \in 1..n |-> s[j]]
  BY LenProperties, Zenon
<1>3. [j \in 1..n |-> s[j]] = [j \in 1..n |-> k[i + j - 1]]
  OBVIOUS
<1> QED BY <1>1, <1>2, <1>3 DEF String

(* The sequence of the elements of a set that has one or none.             *)
LEMMA NoneToSeq == SetToSeq({}) = <<>>
<1>1. Cardinality({}) = 0
  BY FS_EmptySet
<1>2. <<>> \in [1..0 -> {}] /\ IsInjective(<<>>)
  BY DEF IsInjective
<1>3. SetToSeq({}) \in [1..0 -> {}]
  BY <1>1, <1>2 DEF SetToSeq
<1> QED BY <1>3

LEMMA OneToSeq == ASSUME NEW e PROVE SetToSeq({e}) = <<e>>
<1>1. Cardinality({e}) = 1
  BY FS_Singleton
<1>2. <<e>> \in [1..1 -> {e}] /\ IsInjective(<<e>>)
  BY DEF IsInjective
<1>3. SetToSeq({e}) \in [1..1 -> {e}]
  BY <1>1, <1>2 DEF SetToSeq
<1> QED BY <1>3

(* The argument is the text behind the first space, if there is one.       *)
LEMMA FirstSpace ==
  ASSUME NEW k, NEW c, NEW a \in strchr(k, c), NEW b \in strchr(k, c)
  PROVE  a = b
<1>1. a \in Int /\ b \in Int /\ k[a] = c /\ k[b] = c
      /\ (\A j \in 0..a - 1 : k[j] # c) /\ (\A j \in 0..b - 1 : k[j] # c)
      /\ a >= 0 /\ b >= 0
  BY DEF strchr
<1>2. ~ (a < b) /\ ~ (b < a)
  BY <1>1
<1> QED BY <1>1, <1>2

(* Typed, by the place of the first space.                                 *)
LEMMA TypedWhole ==
  ASSUME NEW l \in Seq(1..127), \A i \in 1..Len(l) : l[i] # SP
  PROVE  Typed(l) = [cmd |-> l, arg |-> <<>>]
<1>1. SelectInSeq(l, LAMBDA c : c = SP) = 0
  BY DEF SelectInSeq
<1> QED BY <1>1 DEF Typed

LEMMA TypedSplit ==
  ASSUME NEW l \in Seq(1..127), NEW p \in 1..Len(l), l[p] = SP,
         \A i \in 1..p - 1 : l[i] # SP
  PROVE  Typed(l) = [cmd |-> SubSeq(l, 1, p - 1), arg |-> <<SubSeq(l, p + 1, Len(l))>>]
<1> DEFINE I == {i \in 1..Len(l) : l[i] = SP}
<1>1. p \in I /\ \A i \in I : p <= i
  OBVIOUS
<1>2. \A q \in I : (\A i \in I : q <= i) => q = p
  BY <1>1
<1>3. Min(I) = p
  <2> HIDE DEF I
  <2> QED BY <1>1, <1>2 DEF Min
<1>4. SelectInSeq(l, LAMBDA c : c = SP) = IF I # {} THEN Min(I) ELSE 0
  BY DEF SelectInSeq
<1> HIDE DEF I
<1>5. SelectInSeq(l, LAMBDA c : c = SP) = p
  BY <1>1, <1>3, <1>4
<1>6. p # 0
  OBVIOUS
<1> QED BY <1>5, <1>6, Zenon DEF Typed

-----------------------------------------------------------------------------
(***************************************************************************)
(* What Enter runs.                                                        *)
(***************************************************************************)
(* kbuffer holds the line l, the newline, and nothing else.                *)
Holds(k, l) ==
  /\ k \in [Place -> 0..127] /\ Len(l) + 1 \in Place
  /\ \A i \in 1..Len(l) : k[i - 1] = l[i]
  /\ k[Len(l)] = LF
  /\ \A i \in Place : i > Len(l) => k[i] = NUL

LEMMA HeldString ==
  ASSUME NEW k, NEW l \in Seq((1..127) \ {LF}), Holds(k, l)
  PROVE  /\ Len(l) \in Nat /\ Len(l) + 1 < Size /\ Size \in Nat
         /\ k \in [Place -> 0..127]
         /\ \A i \in 0..Len(l) - 1 : k[i] = l[i + 1] /\ k[i] # NUL /\ k[i] # LF
         /\ \A i \in 0..Len(l) : k[i] # NUL
         /\ \A i \in 0..Len(l) + 1 : Ends(k, i, Len(l) + 1 - i)
         /\ strlen(k, 0) = Len(l) + 1
<1> DEFINE n == Len(l)
<1>1. n \in Nat /\ Size \in Nat /\ n + 1 < Size
  BY SizePositive, LenProperties DEF Holds, Place
<1>2. \A i \in 1..n : l[i] \in (1..127) \ {LF}
  BY LenProperties
<1>3. k \in [Place -> 0..127] /\ k[n] = LF /\ (\A i \in 1..n : k[i - 1] = l[i])
      /\ k[n + 1] = NUL
  BY <1>1 DEF Holds, Place
<1> HIDE DEF n
<1>4. \A i \in 0..n - 1 : k[i] = l[i + 1] /\ k[i] # NUL /\ k[i] # LF
  <2> SUFFICES ASSUME NEW i \in 0..n - 1 PROVE k[i] = l[i + 1] /\ k[i] # NUL /\ k[i] # LF
    OBVIOUS
  <2>1. i + 1 \in 1..n /\ (i + 1) - 1 = i
    BY <1>1
  <2>2. k[(i + 1) - 1] = l[i + 1] /\ l[i + 1] \in (1..127) \ {LF}
    BY <1>2, <1>3, <2>1
  <2>3. l[i + 1] # NUL /\ l[i + 1] # LF
    <3>1. \A e \in (1..127) \ {LF} : e # NUL /\ e # LF
      BY DEF NUL, LF
    <3> QED BY <2>2, <3>1, Zenon
  <2> QED BY <2>1, <2>2, <2>3
<1>5. \A i \in 0..n : k[i] # NUL
  <2>1. \A i \in 0..n : i = n \/ i \in 0..n - 1
    BY <1>1
  <2>2. \A i \in 0..n - 1 : k[i] # NUL
    BY <1>4
  <2> QED BY <1>3, <2>1, <2>2 DEF LF, NUL
<1>6. \A i \in 0..n + 1 : Ends(k, i, n + 1 - i)
  BY <1>1, <1>3, <1>5 DEF Ends
<1>7. Ends(k, 0, n + 1)
  BY <1>1, <1>6
<1>8. strlen(k, 0) = n + 1
  BY <1>1, <1>3, <1>7, StringLength
<1> QED BY <1>1, <1>3, <1>4, <1>5, <1>6, <1>8 DEF n

(* Without a space the command is the whole line.                          *)
LEMMA RunsWhole ==
  ASSUME NEW k, NEW l \in Seq((1..127) \ {LF}), Holds(k, l),
         \A i \in 1..Len(l) : l[i] # SP
  PROVE  /\ strchr(k, SP) = {}
         /\ String(Stripped(Cut(k)), 0) = l
<1> DEFINE n == Len(l)
           h == [k EXCEPT ![n] = NUL]
<1>1. /\ n \in Nat /\ n + 1 < Size /\ Size \in Nat
      /\ k \in [Place -> 0..127] /\ k[n] = LF /\ strlen(k, 0) = n + 1
      /\ \A i \in 0..n - 1 : k[i] = l[i + 1] /\ k[i] # NUL /\ k[i] # LF
  BY HeldString DEF Holds
<1>2. strchr(k, SP) = {}
  <2>1. \A i \in 0..n - 1 : k[i] # SP
    BY <1>1
  <2>2. \A i \in 0..(n + 1) - 1 : k[i] # SP
    BY <1>1, <2>1 DEF LF, SP
  <2> QED BY <1>1, <2>2 DEF strchr
<1>3. Stripped(Cut(k)) = h
  <2>1. Cut(k) = k
    BY <1>2 DEF Cut
  <2>2. (n + 1) - 1 = n /\ n >= 0
    BY <1>1
  <2> QED BY <1>1, <2>1, <2>2 DEF Stripped
<1>4. h \in [Place -> 0..127] /\ h[n] = NUL /\ \A i \in 0..n - 1 : h[i] = k[i]
  BY <1>1 DEF Place, NUL
<1> HIDE DEF h, n
<1>5. Ends(h, 0, n)
  <2>1. \A j \in 0..n - 1 : h[j] # NUL
    BY <1>1, <1>4
  <2>2. n \in 0..Size - 0 /\ 0 + n = n
    BY <1>1
  <2> QED BY <1>4, <2>1, <2>2 DEF Ends
<1>6. l \in Seq(1..127)
  OBVIOUS
<1>7. \A j \in 1..n : l[j] = h[0 + j - 1]
  <2> SUFFICES ASSUME NEW j \in 1..n PROVE l[j] = h[0 + j - 1]
    OBVIOUS
  <2>1. j - 1 \in 0..n - 1 /\ (j - 1) + 1 = j /\ 0 + j - 1 = j - 1
    BY <1>1
  <2> QED BY <1>1, <1>4, <2>1
<1>8. Len(l) = n /\ 0 \in 0..Size
  BY <1>1 DEF n
<1>9. String(h, 0) = l
  BY <1>4, <1>5, <1>6, <1>7, <1>8, StringIs
<1> QED BY <1>2, <1>3, <1>9

(* With a space the command is what is before it, and the argument what is *)
(* behind it.                                                              *)
LEMMA RunsSplit ==
  ASSUME NEW k, NEW l \in Seq((1..127) \ {LF}), Holds(k, l),
         NEW p \in 1..Len(l), l[p] = SP, \A i \in 1..p - 1 : l[i] # SP
  PROVE  /\ strchr(k, SP) = {p - 1}
         /\ String(Stripped(Cut(k)), 0) = SubSeq(l, 1, p - 1)
         /\ String(Stripped(Cut(k)), p) = SubSeq(l, p + 1, Len(l))
<1> DEFINE n == Len(l)
           sp == p - 1
           h == [k EXCEPT ![sp] = NUL, ![n] = NUL]
<1>1. /\ n \in Nat /\ n + 1 < Size /\ Size \in Nat
      /\ k \in [Place -> 0..127] /\ k[n] = LF /\ strlen(k, 0) = n + 1
      /\ \A i \in 0..n - 1 : k[i] = l[i + 1] /\ k[i] # NUL /\ k[i] # LF
      /\ Ends(k, p, n + 1 - p)
      /\ p \in 1..n /\ sp \in 0..n - 1 /\ p = sp + 1
  <2>1. /\ n \in Nat /\ n + 1 < Size /\ Size \in Nat
        /\ k \in [Place -> 0..127] /\ k[n] = LF /\ strlen(k, 0) = n + 1
        /\ \A i \in 0..n - 1 : k[i] = l[i + 1] /\ k[i] # NUL /\ k[i] # LF
        /\ \A i \in 0..n + 1 : Ends(k, i, n + 1 - i)
    BY HeldString DEF Holds
  <2> HIDE DEF n
  <2>2. p \in 1..n
    BY DEF n
  <2>3. sp \in 0..n - 1 /\ p = sp + 1 /\ p \in 0..n + 1
    BY <2>1, <2>2
  <2> QED BY <2>1, <2>2, <2>3
<1>2. sp \in strchr(k, SP)
  <2>1. k[sp] = SP
    BY <1>1
  <2>2. \A j \in 0..sp - 1 : k[j] # SP
    <3> SUFFICES ASSUME NEW j \in 0..sp - 1 PROVE k[j] # SP
      OBVIOUS
    <3>1. j \in 0..n - 1 /\ j + 1 \in 1..p - 1
      BY <1>1
    <3> QED BY <1>1, <3>1
  <2>3. sp \in 0..strlen(k, 0) - 1
    BY <1>1
  <2> QED BY <2>1, <2>2, <2>3 DEF strchr
<1>3. strchr(k, SP) = {sp}
  BY <1>2, FirstSpace
<1>4. strlen(k, p) = n + 1 - p
  <2>1. p \in 0..Size
    BY <1>1
  <2> QED BY <1>1, <2>1, StringLength
<1>5. Cut(k) = h
  <2>1. (CHOOSE i \in strchr(k, SP) : TRUE) = sp
    BY <1>3
  <2>2. sp + strlen(k, sp + 1) = n
    BY <1>1, <1>4
  <2> QED BY <1>3, <2>1, <2>2 DEF Cut
<1>6. /\ h \in [Place -> 0..127] /\ h[sp] = NUL /\ h[n] = NUL
      /\ \A i \in 0..n - 1 : i # sp => h[i] = k[i]
  <2> DEFINE g == [k EXCEPT ![sp] = NUL]
  <2>1. /\ sp \in Place /\ n \in Place /\ sp # n /\ 0..n - 1 \subseteq Place
        /\ \A i \in 0..n - 1 : i # n
    BY <1>1 DEF Place
  <2> HIDE DEF n, sp
  <2>2. g \in [Place -> 0..127] /\ g[sp] = NUL /\ \A i \in Place : i # sp => g[i] = k[i]
    BY <1>1, <2>1 DEF NUL
  <2>3. h = [g EXCEPT ![n] = NUL]
    BY Zenon
  <2> HIDE DEF g, h
  <2>4. h \in [Place -> 0..127] /\ h[n] = NUL /\ \A i \in Place : i # n => h[i] = g[i]
    BY <2>1, <2>2, <2>3 DEF NUL
  <2> QED BY <2>1, <2>2, <2>4
<1> HIDE DEF h, n, sp
<1>7. Ends(h, 0, sp)
  <2>1. \A j \in 0..sp - 1 : j \in 0..n - 1 /\ j # sp
    BY <1>1
  <2>2. \A j \in 0..sp - 1 : h[j] # NUL
    BY <1>1, <1>6, <2>1
  <2>3. sp \in 0..Size - 0 /\ 0 + sp = sp
    BY <1>1
  <2> QED BY <1>6, <2>2, <2>3 DEF Ends
<1>8. Stripped(h) = h
  <2>1. strlen(h, 0) = sp
    BY <1>1, <1>6, <1>7, StringLength
  <2>2. sp - 1 >= 0 => h[sp - 1] # LF
    <3> SUFFICES ASSUME sp - 1 >= 0 PROVE h[sp - 1] # LF
      OBVIOUS
    <3>1. sp - 1 \in 0..n - 1 /\ sp - 1 # sp
      BY <1>1
    <3> QED BY <1>1, <1>6, <3>1
  <2> QED BY <2>1, <2>2 DEF Stripped
<1>9. \A i \in 1..n : l[i] \in 1..127
  <2>1. l \in Seq(1..127)
    OBVIOUS
  <2> QED BY <2>1, LenProperties DEF n
<1>10. String(h, 0) = SubSeq(l, 1, sp)
  <2> DEFINE s == SubSeq(l, 1, sp)
  <2>1. \A i \in 1..sp : l[i] \in 1..127
    BY <1>1, <1>9
  <2>2. s \in Seq(1..127) /\ Len(s) = sp /\ \A j \in 1..sp : s[j] = l[j]
    BY <1>1, <2>1, SubSeqProperties
  <2> HIDE DEF s
  <2>3. \A j \in 1..sp : s[j] = h[0 + j - 1]
    <3> SUFFICES ASSUME NEW j \in 1..sp PROVE s[j] = h[0 + j - 1]
      OBVIOUS
    <3>1. j - 1 \in 0..n - 1 /\ j - 1 # sp /\ (j - 1) + 1 = j /\ 0 + j - 1 = j - 1
      BY <1>1
    <3>2. h[j - 1] = k[j - 1] /\ k[j - 1] = l[j] /\ s[j] = l[j]
      BY <1>1, <1>6, <2>2, <3>1
    <3> QED BY <3>1, <3>2
  <2>4. 0 \in 0..Size
    BY <1>1
  <2>5. String(h, 0) = s
    BY <1>6, <1>7, <2>2, <2>3, <2>4, StringIs
  <2> QED BY <2>5 DEF s
<1>11. String(h, p) = SubSeq(l, p + 1, n)
  <2> DEFINE s == SubSeq(l, p + 1, n)
             m == n - p
  <2>1. \A i \in p + 1..n : l[i] \in 1..127
    BY <1>1, <1>9
  <2>2. s \in Seq(1..127) /\ Len(s) = m /\ \A j \in 1..m : s[j] = l[p + j]
    <3>1. /\ s \in Seq(1..127)
          /\ Len(s) = IF p + 1 <= n THEN n - (p + 1) + 1 ELSE 0
          /\ \A j \in 1..n - (p + 1) + 1 : s[j] = l[p + 1 + j - 1]
      <4>1. l \in Seq(1..127) /\ p + 1 \in Int /\ n \in Int
        BY <1>1
      <4> QED BY <2>1, <4>1, SubSeqProperties
    <3> HIDE DEF s
    <3>2. n - (p + 1) + 1 = m /\ m \in Nat /\ (p + 1 <= n \/ m = 0)
      BY <1>1
    <3>3. \A j \in 1..m : p + 1 + j - 1 = p + j
      BY <1>1, <3>2
    <3> QED BY <3>1, <3>2, <3>3
  <2> HIDE DEF s
  <2>3. Ends(h, p, m)
    <3>1. m \in 0..Size - p /\ p + m = n
      BY <1>1
    <3>2. \A j \in p..p + m - 1 : j \in 0..n - 1 /\ j # sp
      BY <1>1
    <3>3. \A j \in p..p + m - 1 : h[j] # NUL
      <4> SUFFICES ASSUME NEW j \in p..p + m - 1 PROVE h[j] # NUL
        OBVIOUS
      <4>1. j \in 0..n - 1 /\ j # sp
        BY <3>2
      <4> HIDE DEF m
      <4> QED BY <1>1, <1>6, <4>1
    <3> QED BY <1>6, <3>1, <3>3 DEF Ends
  <2>4. \A j \in 1..m : s[j] = h[p + j - 1]
    <3> SUFFICES ASSUME NEW j \in 1..m PROVE s[j] = h[p + j - 1]
      OBVIOUS
    <3>1. /\ p + j - 1 \in 0..n - 1 /\ p + j - 1 # sp
          /\ (p + j - 1) + 1 = p + j
      BY <1>1
    <3> QED BY <1>1, <1>6, <2>2, <3>1
  <2>5. p \in 0..Size
    BY <1>1
  <2> HIDE DEF m
  <2>6. s \in Seq(1..127) /\ Len(s) = m
    BY <2>2
  <2>7. h \in [Place -> 0..127]
    BY <1>6
  <2>8. String(h, p) = s
    BY <2>3, <2>4, <2>5, <2>6, <2>7, StringIs
  <2> QED BY <2>8 DEF s
<1> QED BY <1>3, <1>5, <1>8, <1>10, <1>11 DEF n, sp

LEMMA RunTyped ==
  ASSUME NEW k \in [Place -> 0..127], NEW n, Run(k, n)
  PROVE  ran'.cmd \in Seq(1..127) /\ ran'.arg \in Seq(Seq(1..127))
<1> DEFINE bare == Stripped(Cut(k))
           arg == {String(bare, sp + 1) : sp \in strchr(k, SP)}
<1>1. ran' = [cmd |-> String(bare, 0), arg |-> SetToSeq(arg)]
  BY DEF Run
<1>2. bare \in [Place -> 0..127]
  BY OnlyCleared
<1> HIDE DEF bare
<1>3. 0 \in 0..Size
  BY SizePositive
<1>4. String(bare, 0) \in Seq(1..127)
  BY <1>2, <1>3, StringTyped
<1>5. SetToSeq(arg) \in Seq(Seq(1..127))
  <2>1. CASE strchr(k, SP) = {}
    <3>1. arg = {}
      BY <2>1
    <3> HIDE DEF arg
    <3>2. <<>> \in Seq(Seq(1..127))
      BY EmptySeq
    <3> QED BY <3>1, <3>2, NoneToSeq
  <2>2. CASE strchr(k, SP) # {}
    <3>1. PICK sp \in strchr(k, SP) : TRUE
      BY <2>2
    <3> DEFINE e == String(bare, sp + 1)
    <3>2. strchr(k, SP) = {sp}
      BY <3>1, FirstSpace
    <3>3. arg = {e}
      BY <3>2
    <3>4. e \in Seq(1..127)
      <4>1. Ends(k, 0, strlen(k, 0))
        BY <1>3, StringEnds
      <4>2. strlen(k, 0) \in 0..Size /\ sp \in 0..strlen(k, 0) - 1
        BY <4>1, SizePositive DEF Ends, strchr
      <4>3. sp + 1 \in 0..Size
        BY <4>2, SizePositive
      <4> QED BY <1>2, <4>3, StringTyped
    <3> HIDE DEF arg, e
    <3>5. <<e>> \in Seq(Seq(1..127))
      BY <3>4
    <3> QED BY <3>3, <3>5, OneToSeq
  <2> QED BY <2>1, <2>2
<1> HIDE DEF arg
<1> QED BY <1>1, <1>4, <1>5

(* A line behind which kbuffer is clean is run as Typed splits it.         *)
LEMMA RunIsTyped ==
  ASSUME NEW k, NEW n, NEW l \in Seq((1..127) \ {LF}), Holds(k, l), Run(k, n)
  PROVE  ran' = Typed(l)
<1> DEFINE bare == Stripped(Cut(k))
           arg == {String(bare, sp + 1) : sp \in strchr(k, SP)}
<1>1. ran' = [cmd |-> String(bare, 0), arg |-> SetToSeq(arg)]
  BY DEF Run
<1>2. l \in Seq(1..127)
  OBVIOUS
<1>3. CASE \A i \in 1..Len(l) : l[i] # SP
  <2>1. String(bare, 0) = l /\ arg = {}
    BY <1>3, RunsWhole
  <2>2. Typed(l) = [cmd |-> l, arg |-> <<>>]
    BY <1>2, <1>3, TypedWhole
  <2> HIDE DEF bare, arg
  <2> QED BY <1>1, <2>1, <2>2, NoneToSeq
<1>4. CASE \E i \in 1..Len(l) : l[i] = SP
  <2> DEFINE N == {i \in 1..Len(l) : l[i] = SP}
  <2>1. N \in SUBSET Nat /\ N # {}
    BY <1>4
  <2>2. PICK p \in N : \A i \in N : p <= i
    BY <2>1, LeastNumber
  <2>3. p \in 1..Len(l) /\ l[p] = SP
    BY <2>2
  <2>4. \A i \in 1..p - 1 : l[i] # SP
    <3> SUFFICES ASSUME NEW i \in 1..p - 1, l[i] = SP PROVE FALSE
      OBVIOUS
    <3>1. Len(l) \in Nat
      BY <1>2, LenProperties
    <3>2. i \in 1..Len(l) /\ ~ (p <= i)
      BY <2>3, <3>1
    <3> QED BY <2>2, <3>2
  <2> HIDE DEF N
  <2>5. /\ strchr(k, SP) = {p - 1}
        /\ String(bare, 0) = SubSeq(l, 1, p - 1)
        /\ String(bare, p) = SubSeq(l, p + 1, Len(l))
    BY <2>3, <2>4, RunsSplit
  <2> HIDE DEF bare
  <2>6. arg = {SubSeq(l, p + 1, Len(l))}
    <3>1. (p - 1) + 1 = p
      BY <2>3
    <3>2. arg = {String(bare, (p - 1) + 1)}
      BY <2>5
    <3> QED BY <2>5, <3>1, <3>2
  <2>7. Typed(l) = [cmd |-> SubSeq(l, 1, p - 1), arg |-> <<SubSeq(l, p + 1, Len(l))>>]
    BY <1>2, <2>3, <2>4, TypedSplit
  <2> HIDE DEF arg
  <2>8. SetToSeq(arg) = <<SubSeq(l, p + 1, Len(l))>>
    BY <2>6, OneToSeq
  <2> QED BY <1>1, <2>5, <2>7, <2>8, Zenon
<1> QED BY <1>3, <1>4

(* Enter is not part of a line, and what was run is what was typed.        *)
ShellInv ==
  IInv /\ TypeOK /\ RunsAsTyped /\ line \in Seq((0..127) \ {LF})

LEMMA EnterRuns ==
  ASSUME ShellInv, ~astray, ~spinning, Enter
  PROVE  RunsAsTyped'
<1> DEFINE k == With(LF)
<1>1. /\ knext \in Place /\ Terminated(k) /\ Run(k, knext + 1)
      /\ stale' = \E i \in Place : i > knext /\ kbuffer[i] # NUL
      /\ entered' = line
  BY DEF Enter, Remember
<1>2. /\ kbuffer \in [Place -> 0..127] /\ line \in Seq((0..127) \ {LF})
      /\ LineBuffered /\ (rubbed => knext \notin Place)
  BY DEF ShellInv, IInv, Typing, Reached
<1>3. /\ knext = Len(line) /\ Len(line) \in Nat
      /\ \A i \in 1..Len(line) : kbuffer[i - 1] = line[i]
  BY <1>1, <1>2, LenProperties DEF LineBuffered
<1> SUFFICES ASSUME ~ stale', NUL \notin ToSet(line) PROVE ran' = Typed(line)
  BY <1>1 DEF RunsAsTyped
<1>4. line \in Seq((1..127) \ {LF})
  <2>1. \A i \in 1..Len(line) : line[i] \in (0..127) \ {LF} /\ line[i] # NUL
    BY <1>2, LenProperties DEF ToSet
  <2>2. \A e \in (0..127) \ {LF} : e # NUL => e \in (1..127) \ {LF}
    BY DEF NUL
  <2>3. \A i \in 1..Len(line) : line[i] \in (1..127) \ {LF}
    BY <2>1, <2>2, Zenon
  <2>4. line = [i \in 1..Len(line) |-> line[i]]
    BY <1>2, LenProperties, Zenon
  <2>5. line \in [1..Len(line) -> (1..127) \ {LF}]
    BY <2>3, <2>4, Zenon
  <2> QED BY <1>3, <2>5, SeqDef
<1>5. /\ k \in [Place -> 0..127] /\ k[knext] = LF
      /\ \A i \in Place : i # knext => k[i] = kbuffer[i]
  BY <1>1, <1>2 DEF With, LF
<1> HIDE DEF k
<1>6. \A i \in Place : i > Len(line) => k[i] = NUL
  <2>1. \A i \in Place : i > knext => kbuffer[i] = NUL
    BY <1>1
  <2>2. \A i \in Place : i > knext => i # knext
    BY <1>1 DEF Place
  <2> QED BY <1>3, <1>5, <2>1, <2>2
<1>7. \A i \in 1..Len(line) : k[i - 1] = line[i]
  <2> SUFFICES ASSUME NEW i \in 1..Len(line) PROVE k[i - 1] = line[i]
    OBVIOUS
  <2>1. i - 1 \in Place /\ i - 1 # knext
    BY <1>1, <1>3, SizePositive DEF Place
  <2> QED BY <1>3, <1>5, <2>1
<1>8. Len(line) + 1 \in Place
  <2>1. PICK i \in Place : k[i] = NUL
    BY <1>1 DEF Terminated
  <2>2. i # Len(line)
    BY <1>3, <1>5, <2>1 DEF LF, NUL
  <2>3. ~ (i < Len(line))
    <3> SUFFICES ASSUME i < Len(line) PROVE FALSE
      OBVIOUS
    <3>1. i + 1 \in 1..Len(line) /\ (i + 1) - 1 = i
      BY <1>3 DEF Place
    <3>2. k[i] = line[i + 1]
      BY <1>7, <3>1
    <3>3. line[i + 1] # NUL
      <4>1. line[i + 1] \in (1..127) \ {LF}
        BY <1>4, <3>1, LenProperties
      <4>2. \A e \in (1..127) \ {LF} : e # NUL
        BY DEF NUL
      <4> QED BY <4>1, <4>2, Zenon
    <3> QED BY <2>1, <3>2, <3>3
  <2> QED BY <1>3, <2>2, <2>3, SizePositive DEF Place
<1>9. Holds(k, line)
  BY <1>3, <1>5, <1>6, <1>7, <1>8 DEF Holds
<1>10. Run(k, knext + 1)
  BY <1>1 DEF k
<1> QED BY <1>4, <1>9, <1>10, RunIsTyped

LEMMA TypeKeepsTypes ==
  ASSUME ShellInv, ~astray, ~spinning, NEW c \in Key, Type(c)
  PROVE  ShellInv'
<1>1. IInv'
  BY TypeKeeps DEF ShellInv
<1>2. /\ TypeOK /\ RunsAsTyped /\ line \in Seq((0..127) \ {LF})
      /\ line \in Seq(0..127)
  BY DEF ShellInv, TypeOK
<1>3. /\ c # LF /\ c \in 0..127 /\ knext \in Place /\ knext' = NextPlace(c)
      /\ line' = Edited(c) /\ entered' = entered /\ pressed' = pressed + 1
      /\ UNCHANGED <<astray, spinning, ran, stale>>
  BY SizePositive DEF Type, Remember
<1>4. line' \in Seq((0..127) \ {LF})
  <2>1. CASE c # BS
    <3>1. c \in (0..127) \ {LF}
      BY <1>3
    <3>2. line' = Append(line, c)
      BY <1>3, <2>1 DEF Edited
    <3> QED BY <1>2, <3>1, <3>2, AppendProperties
  <2>2. CASE c = BS /\ line = <<>>
    <3>1. line' = line
      BY <1>3, <2>2, Zenon DEF Edited
    <3> QED BY <1>2, <3>1
  <2>3. CASE c = BS /\ line # <<>>
    <3> DEFINE f == Front(line)
               S == (0..127) \ {LF}
    <3>1. line' = f
      BY <1>3, <2>3, Zenon DEF Edited
    <3>2. Len(line) \in Nat /\ \A i \in 1..Len(line) : line[i] \in S
      BY <1>2, LenProperties
    <3>3. f \in Seq(0..127) /\ Len(f) = Len(line) - 1 /\ \A i \in 1..Len(line) - 1 : f[i] = line[i]
      BY <1>2, <2>3, Rubbing
    <3> HIDE DEF f, S
    <3>4. Len(f) \in Nat /\ f = [i \in 1..Len(f) |-> f[i]]
      BY <3>3, LenProperties, Zenon
    <3>5. \A i \in 1..Len(f) : f[i] \in S
      BY <3>2, <3>3
    <3>6. f \in [1..Len(f) -> S]
      BY <3>4, <3>5, Zenon
    <3> QED BY <3>1, <3>4, <3>6, SeqDef DEF S
  <2> QED BY <2>1, <2>2, <2>3
<1>5. knext' \in -1..Size
  BY <1>3, SizePositive DEF NextPlace, Place
<1>6. Typing' /\ longest' \in Nat
  BY <1>1 DEF IInv, Reached
<1>7. pressed' \in Nat /\ entered' \in Seq(0..127)
  BY <1>2, <1>3 DEF TypeOK
<1>8. {astray, spinning, backspaced, rubbed, stale}' \subseteq BOOLEAN
  BY <1>2, <1>3, <1>6 DEF TypeOK, Typing
<1>9. ran'.cmd \in Seq(1..127) /\ ran'.arg \in Seq(Seq(1..127))
  BY <1>2, <1>3 DEF TypeOK
<1>10. TypeOK'
  BY <1>5, <1>6, <1>7, <1>8, <1>9 DEF TypeOK, Typing
<1>11. RunsAsTyped'
  BY <1>2, <1>3 DEF RunsAsTyped
<1> QED BY <1>1, <1>4, <1>10, <1>11 DEF ShellInv

LEMMA EnterKeepsTypes ==
  ASSUME ShellInv, ~astray, ~spinning, Enter
  PROVE  ShellInv'
<1>1. IInv' /\ RunsAsTyped'
  BY EnterKeeps, EnterRuns DEF ShellInv
<1>2. TypeOK /\ With(LF) \in [Place -> 0..127]
  <2>1. TypeOK /\ kbuffer \in [Place -> 0..127]
    BY DEF ShellInv, TypeOK
  <2>2. LF \in 0..127
    BY DEF LF
  <2>3. With(LF) \in [Place -> 0..127]
    BY <2>1, <2>2, Zenon DEF With
  <2> QED BY <2>1, <2>3
<1>3. /\ knext \in Place /\ Run(With(LF), knext + 1)
      /\ stale' = \E i \in Place : i > knext /\ kbuffer[i] # NUL
      /\ entered' = line /\ line' = <<>> /\ pressed' = pressed + 1
      /\ UNCHANGED astray
  BY DEF Enter, Remember
<1>4. line' \in Seq((0..127) \ {LF})
  BY <1>3, EmptySeq
<1>5. knext' \in -1..Size
  <2>1. knext' = 0 \/ knext' = knext + 1
    BY <1>3 DEF Run
  <2> QED BY <1>3, <2>1, SizePositive DEF Place
<1>6. Typing' /\ longest' \in Nat
  BY <1>1 DEF IInv, Reached
<1>7. pressed' \in Nat /\ entered' \in Seq(0..127)
  BY <1>2, <1>3 DEF TypeOK
<1>8. stale' \in BOOLEAN
  BY <1>3, Zenon
<1>9. {astray, spinning, backspaced, rubbed, stale}' \subseteq BOOLEAN
  BY <1>6, <1>8 DEF Typing
<1>10. ran'.cmd \in Seq(1..127) /\ ran'.arg \in Seq(Seq(1..127))
  BY <1>2, <1>3, RunTyped
<1>11. TypeOK'
  BY <1>5, <1>6, <1>7, <1>9, <1>10 DEF TypeOK, Typing
<1> QED BY <1>1, <1>4, <1>11 DEF ShellInv

LEMMA ShellStep == ShellInv /\ [Next]_vars => ShellInv'
<1> SUFFICES ASSUME ShellInv, [Next]_vars PROVE ShellInv'
  OBVIOUS
<1>1. IInv'
  BY StepIInv DEF ShellInv
<1>2. CASE Next
  <2>1. PICK c \in Key : keypress_handler(c)
    BY <1>2 DEF Next
  <2>2. ~astray /\ ~spinning /\ (Type(c) \/ Enter \/ GoAstray(c))
    BY <2>1 DEF keypress_handler
  <2>3. CASE GoAstray(c)
    BY <1>1, <2>3 DEF GoAstray, history, ShellInv, TypeOK, RunsAsTyped
  <2> QED BY <2>2, <2>3, TypeKeepsTypes, EnterKeepsTypes
<1>3. CASE UNCHANGED vars
  BY <1>1, <1>3 DEF vars, history, ShellInv, TypeOK, RunsAsTyped
<1> QED BY <1>2, <1>3

LEMMA ShellInit == Init => ShellInv
<1> SUFFICES ASSUME Init PROVE ShellInv
  OBVIOUS
<1>1. IInv
  BY InitIInv
<1>2. /\ knext = 0 /\ ran = [cmd |-> <<>>, arg |-> <<>>] /\ line = <<>> /\ entered = <<>>
      /\ pressed = 0 /\ longest = 0 /\ stale = FALSE
  BY DEF Init
<1>3. ran.cmd \in Seq(1..127) /\ ran.arg \in Seq(Seq(1..127))
  <2>1. <<>> \in Seq(1..127) /\ <<>> \in Seq(Seq(1..127))
    BY EmptySeq
  <2> QED BY <1>2, <2>1
<1>4. {astray, spinning, backspaced, rubbed, stale} \subseteq BOOLEAN
  BY <1>1, <1>2 DEF IInv, Typing
<1>5. knext \in -1..Size
  BY <1>2, SizePositive
<1>6. TypeOK
  BY <1>1, <1>2, <1>3, <1>4, <1>5 DEF TypeOK, IInv, Typing
<1>7. RunsAsTyped
  <2>1. entered \in Seq(1..127) /\ \A i \in 1..Len(entered) : entered[i] # SP
    BY <1>2
  <2>2. Typed(entered) = [cmd |-> entered, arg |-> <<>>]
    BY <2>1, TypedWhole
  <2> QED BY <1>2, <2>2 DEF RunsAsTyped
<1> QED BY <1>1, <1>2, <1>6, <1>7, EmptySeq DEF ShellInv

(* The inductive invariant of the shell.                                   *)
THEOREM ShellInvHolds == Spec => []ShellInv
BY ShellInit, ShellStep, PTL DEF Spec

(* kbuffer holds ASCII codes, knext is at most one place outside of it, and*)
(* the command and its argument are strings without a NUL.                 *)
THEOREM TypeCorrect == Spec => []TypeOK
<1>1. ShellInv => TypeOK
  BY DEF ShellInv
<1> QED BY <1>1, ShellInvHolds, PTL

(* For a buffer of every size and whatever was typed before: the command   *)
(* that keypress_handler runs and its argument are those that were typed,  *)
(* split at the first space, if no shift key was pressed in the line and   *)
(* nothing stale was behind it.                                            *)
THEOREM AlwaysRunsAsTyped == Spec => []RunsAsTyped
<1>1. ShellInv => RunsAsTyped
  BY DEF ShellInv
<1> QED BY <1>1, ShellInvHolds, PTL
=============================================================================
