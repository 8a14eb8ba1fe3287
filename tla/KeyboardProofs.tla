--------------------------- MODULE KeyboardProofs ---------------------------
(***************************************************************************)
(* What holds of Keyboard for any number of programs that poll, whatever   *)
(* the keyboard sends.                                                     *)
(***************************************************************************)
EXTENDS Keyboard, TLAPS

LEMMA CodeNotEmpty == Empty \notin Code
  BY DEF Empty, Code, Presses, Releases

(* keyboard() leaves a state of the right kind and hands on some ascii.    *)
LEMMA DecodingTypes ==
  ASSUME NEW s \in [escaped : BOOLEAN, shift : BOOLEAN], NEW c \in Code
  PROVE  /\ NextState(s, c) \in [escaped : BOOLEAN, shift : BOOLEAN]
         /\ Decoded(s, c) \subseteq Ascii
<1>1. NextState(s, c) \in [escaped : BOOLEAN, shift : BOOLEAN]
  BY DEF NextState
<1>2. Decoded(s, c) \subseteq Ascii
  BY DEF Decoded, Ascii
<1> QED BY <1>1, <1>2

LEMMA InitTypes == Init => TypeOK
<1> SUFFICES ASSUME Init PROVE TypeOK
  OBVIOUS
<1>1. /\ sent \in Seq(Code) /\ queue \in Seq(Code)
      /\ handed \in Seq([by : Reader, code : Code, ascii : Ascii])
  BY DEF Init
<1>2. buffer \in Code \cup {Empty} /\ port \in Code
  BY DEF Init, Code, Releases
<1>3. /\ kbd_state \in [Reader -> [escaped : BOOLEAN, shift : BOOLEAN]]
      /\ at \in [Reader -> {"poll", "read"}]
  BY DEF Init
<1> QED BY <1>1, <1>2, <1>3 DEF Init, TypeOK

LEMMA StepTypes == TypeOK /\ [Next]_vars => TypeOK'
<1> SUFFICES ASSUME TypeOK, [Next]_vars PROVE TypeOK'
  OBVIOUS
<1>1. CASE Stroke
  <2>1. PICK s \in Strokes : sent' = sent \o s /\ queue' = queue \o s
    BY <1>1 DEF Stroke
  <2>2. s \in Seq(Code)
    BY KeyboardAssumption
  <2>3. sent' \in Seq(Code) /\ queue' \in Seq(Code)
    BY <2>1, <2>2 DEF TypeOK
  <2> QED BY <1>1, <2>3 DEF Stroke, TypeOK, kernel
<1>2. CASE LoadBuffer
  <2>1. Head(queue) \in Code /\ Tail(queue) \in Seq(Code)
    BY <1>2 DEF LoadBuffer, TypeOK
  <2> QED BY <1>2, <2>1 DEF LoadBuffer, TypeOK
<1>3. CASE kbd_irq
  BY <1>3 DEF kbd_irq, TypeOK, device
<1>4. ASSUME NEW p \in Reader, SystemCall2(p) PROVE TypeOK'
  BY <1>4 DEF SystemCall2, TypeOK, device
<1>5. ASSUME NEW p \in Reader, keyboard(p) PROVE TypeOK'
  <2> DEFINE c == IF buffer = Empty THEN port ELSE buffer
             s == kbd_state[p]
  <2>1. c \in Code /\ s \in [escaped : BOOLEAN, shift : BOOLEAN]
    BY DEF TypeOK
  <2>2. /\ NextState(s, c) \in [escaped : BOOLEAN, shift : BOOLEAN]
        /\ Decoded(s, c) \subseteq Ascii
    BY <2>1, DecodingTypes
  <2>3. kbd_state' \in [Reader -> [escaped : BOOLEAN, shift : BOOLEAN]]
    <3>1. kbd_state' = [kbd_state EXCEPT ![p] = NextState(s, c)]
      BY <1>5 DEF keyboard
    <3> HIDE DEF c, s
    <3> QED BY <3>1, <2>2 DEF TypeOK
  <2>4. handed' \in Seq([by : Reader, code : Code, ascii : Ascii])
    <3>1. PICK a \in IF c \in Presses THEN Decoded(s, c) ELSE {"none"} :
            handed' = Append(handed, [by |-> p, code |-> c, ascii |-> a])
      BY <1>5 DEF keyboard
    <3>2. a \in Ascii
      BY <3>1, <2>2 DEF Ascii
    <3> QED BY <3>1, <3>2, <2>1 DEF TypeOK
  <2> HIDE DEF c
  <2> QED BY <1>5, <2>1, <2>3, <2>4 DEF keyboard, TypeOK, kernel, c
<1>6. ASSUME NEW p \in Reader, Drop(p) PROVE TypeOK'
  BY <1>6 DEF Drop, TypeOK, device, kernel
<1>7. CASE UNCHANGED vars
  BY <1>7 DEF vars, TypeOK
<1> QED BY <1>1, <1>2, <1>3, <1>4, <1>5, <1>6, <1>7 DEF Next

(* Every variable has its type: in particular a program never hands on     *)
(* anything but an ascii code or 0.                                        *)
THEOREM KeyboardTypes == Spec => []TypeOK
  BY InitTypes, StepTypes, PTL DEF Spec

(***************************************************************************)
(* The byte in the controller's buffer and the news of it: LoadBuffer      *)
(* makes the two together, keyboard() uses them up together, and kbd_irq   *)
(* and SystemCall2 pass the news on.                                       *)
(***************************************************************************)
LEMMA InitAnnounced == Init => Announced
  BY DEF Init, Announced, Reading

LEMMA StepAnnounced == TypeOK /\ Announced /\ [Next]_vars => Announced'
<1> SUFFICES ASSUME TypeOK, Announced, [Next]_vars PROVE Announced'
  OBVIOUS
<1>1. CASE Stroke \/ UNCHANGED vars \/ \E p \in Reader : Drop(p)
  BY <1>1 DEF Stroke, Drop, vars, kernel, device, Announced, Reading
<1>2. CASE LoadBuffer
  <2>1. Reading' = Reading /\ kbd_event' = kbd_event
    BY <1>2 DEF LoadBuffer, Reading
  <2>2. buffer = Empty /\ irq' = TRUE
    BY <1>2 DEF LoadBuffer
  <2>3. buffer' # Empty
    BY <1>2, CodeNotEmpty DEF LoadBuffer, TypeOK
  <2> QED BY <2>1, <2>2, <2>3 DEF Announced
<1>3. CASE kbd_irq
  <2>1. Reading' = Reading /\ buffer' = buffer
    BY <1>3 DEF kbd_irq, device, Reading
  <2> QED BY <1>3, <2>1 DEF kbd_irq, Announced
<1>4. ASSUME NEW p \in Reader, SystemCall2(p) PROVE Announced'
  <2>1. kbd_event /\ kbd_event' = FALSE /\ irq' = irq /\ buffer' = buffer
    BY <1>4 DEF SystemCall2, device
  <2>2. Reading = {} /\ ~irq
    BY <2>1 DEF Announced
  <2>3. Reading' = {p}
    <3>1. at' = [at EXCEPT ![p] = "read"]
      BY <1>4 DEF SystemCall2
    <3> QED BY <3>1, <2>2 DEF Reading, TypeOK
  <2> QED BY <2>1, <2>2, <2>3 DEF Announced
<1>5. ASSUME NEW p \in Reader, keyboard(p) PROVE Announced'
  <2>1. buffer' = Empty /\ irq' = irq /\ kbd_event' = kbd_event
    BY <1>5 DEF keyboard, kernel
  <2>2. Reading = {p}
    BY <1>5 DEF keyboard, Announced, Reading
  <2>3. Reading' = {}
    <3>1. at' = [at EXCEPT ![p] = "poll"]
      BY <1>5 DEF keyboard
    <3> QED BY <3>1, <2>2 DEF Reading, TypeOK
  <2> QED BY <2>1, <2>2, <2>3 DEF Announced
<1> QED BY <1>1, <1>2, <1>3, <1>4, <1>5 DEF Next

(* However many programs poll, a byte in the controller has been announced *)
(* to exactly one party that has not acted on it.                          *)
THEOREM AlwaysAnnounced == Spec => []Announced
  BY InitTypes, StepTypes, InitAnnounced, StepAnnounced, PTL DEF Spec

(***************************************************************************)
(* The order of the codes.                                                 *)
(***************************************************************************)
CodesOf(h) == [i \in DOMAIN h |-> h[i].code]

LEMMA CodesOfSeq ==
  ASSUME NEW R, NEW h \in Seq(R), \A x \in R : x.code \in Code
  PROVE  CodesOf(h) \in Seq(Code) /\ Len(CodesOf(h)) = Len(h)
  BY DEF CodesOf

LEMMA CodesOfAppend ==
  ASSUME NEW R, NEW h \in Seq(R), NEW r, \A x \in R : x.code \in Code, r.code \in Code
  PROVE  CodesOf(Append(h, r)) = CodesOf(h) \o <<r.code>>
<1>1. CodesOf(h) \in Seq(Code) /\ Len(CodesOf(h)) = Len(h)
  BY CodesOfSeq
<1>2. /\ DOMAIN CodesOf(Append(h, r)) = 1..(Len(h) + 1)
      /\ DOMAIN (CodesOf(h) \o <<r.code>>) = 1..(Len(h) + 1)
  BY <1>1 DEF CodesOf
<1>3. \A i \in 1..(Len(h) + 1) :
        CodesOf(Append(h, r))[i] = (CodesOf(h) \o <<r.code>>)[i]
  BY <1>1 DEF CodesOf
<1> QED BY <1>1, <1>2, <1>3 DEF CodesOf

LEMMA Concatenations ==
  ASSUME NEW S, NEW s \in Seq(S), NEW q \in Seq(S), NEW x \in Seq(S)
  PROVE  /\ (s \o q) \o x = s \o (q \o x)
         /\ s \o <<>> = s
         /\ q # <<>> => q = <<Head(q)>> \o Tail(q)
  OBVIOUS

LEMMA InitInOrder == Init => KeysInOrder
<1> SUFFICES ASSUME Init PROVE KeysInOrder
  OBVIOUS
<1>1. [i \in DOMAIN handed |-> handed[i].code] = <<>>
  BY DEF Init
<1> QED BY <1>1 DEF Init, KeysInOrder

LEMMA StepInOrder ==
  TypeOK /\ Announced /\ KeysInOrder /\ [Next]_vars => KeysInOrder'
<1> SUFFICES ASSUME TypeOK, Announced, KeysInOrder, [Next]_vars PROVE KeysInOrder'
  OBVIOUS
<1> DEFINE C == CodesOf(handed)
           B == IF buffer = Empty THEN <<>> ELSE <<buffer>>
<1>t. C \in Seq(Code) /\ B \in Seq(Code) /\ queue \in Seq(Code)
  <2>1. C \in Seq(Code)
    <3>1. \A x \in [by : Reader, code : Code, ascii : Ascii] : x.code \in Code
      OBVIOUS
    <3>2. handed \in Seq([by : Reader, code : Code, ascii : Ascii])
      BY DEF TypeOK
    <3> QED BY <3>1, <3>2, CodesOfSeq
  <2> QED BY <2>1 DEF TypeOK
<1>s. sent = C \o B \o queue
  BY DEF KeysInOrder, CodesOf
<1>g. ASSUME sent' = C' \o B' \o queue' PROVE KeysInOrder'
  BY <1>g DEF KeysInOrder, CodesOf
<1>1. CASE Stroke
  <2>1. PICK s \in Strokes : sent' = sent \o s /\ queue' = queue \o s
    BY <1>1 DEF Stroke
  <2>2. s \in Seq(Code)
    BY KeyboardAssumption
  <2>3. C' = C /\ B' = B
    BY <1>1 DEF Stroke, CodesOf
  <2>4. C \o B \in Seq(Code)
    BY <1>t
  <2> HIDE DEF C, B
  <2>5. (C \o B \o queue) \o s = (C \o B) \o (queue \o s)
    BY <2>2, <2>4, <1>t, Concatenations
  <2> QED BY <2>1, <2>3, <2>5, <1>s, <1>g
<1>2. CASE LoadBuffer
  <2>1. C' = C /\ sent' = sent /\ B = <<>> /\ B' = <<Head(queue)>> /\ queue' = Tail(queue)
    <3>1. Head(queue) # Empty
      BY <1>2, CodeNotEmpty DEF LoadBuffer, TypeOK
    <3> QED BY <1>2, <3>1 DEF LoadBuffer, CodesOf
  <2>2. queue # <<>> /\ <<Head(queue)>> \in Seq(Code) /\ Tail(queue) \in Seq(Code)
    BY <1>2, <1>t DEF LoadBuffer
  <2> HIDE DEF C, B
  <2>3. C \o <<>> \o queue = C \o queue
    BY <1>t, Concatenations
  <2>4. C \o <<Head(queue)>> \o Tail(queue) = C \o queue
    BY <1>t, <2>2, Concatenations
  <2> QED BY <2>1, <2>3, <2>4, <1>s, <1>g
<1>3. CASE kbd_irq \/ (\E p \in Reader : SystemCall2(p) \/ Drop(p)) \/ UNCHANGED vars
  <2>1. UNCHANGED <<sent, handed, buffer, queue>>
    BY <1>3 DEF kbd_irq, SystemCall2, Drop, device, vars
  <2> QED BY <2>1, <1>s, <1>g DEF CodesOf
<1>4. ASSUME NEW p \in Reader, keyboard(p) PROVE KeysInOrder'
  <2>1. buffer # Empty
    BY <1>4 DEF keyboard, Announced, Reading
  <2>2. PICK a \in IF buffer \in Presses THEN Decoded(kbd_state[p], buffer) ELSE {"none"} :
          handed' = Append(handed, [by |-> p, code |-> buffer, ascii |-> a])
    BY <1>4, <2>1 DEF keyboard
  <2>3. C' = C \o <<buffer>>
    <3>1. buffer \in Code
      BY <2>1 DEF TypeOK
    <3>2. \A x \in [by : Reader, code : Code, ascii : Ascii] : x.code \in Code
      OBVIOUS
    <3> DEFINE r == [by |-> p, code |-> buffer, ascii |-> a]
    <3>3. r.code = buffer
      OBVIOUS
    <3>4. CodesOf(Append(handed, r)) = CodesOf(handed) \o <<r.code>>
      <4> HIDE DEF r
      <4> QED BY <3>1, <3>2, <3>3, CodesOfAppend DEF TypeOK
    <3> QED BY <2>2, <3>3, <3>4 DEF CodesOf
  <2>4. B = <<buffer>> /\ B' = <<>> /\ sent' = sent /\ queue' = queue
    BY <1>4, <2>1 DEF keyboard
  <2>5. C \o <<buffer>> \in Seq(Code)
    BY <1>t, <2>4
  <2> HIDE DEF C, B
  <2>6. C \o <<buffer>> \o queue = (C \o <<buffer>>) \o <<>> \o queue
    BY <1>t, <2>5, Concatenations
  <2> QED BY <2>3, <2>4, <2>6, <1>s, <1>g
<1> QED BY <1>1, <1>2, <1>3, <1>4 DEF Next

(* However many programs poll and however their system calls interleave,   *)
(* no code is lost, read twice or read before an earlier one.              *)
THEOREM AlwaysInOrder == Spec => []KeysInOrder
  BY InitTypes, StepTypes, InitAnnounced, StepAnnounced, InitInOrder, StepInOrder,
     PTL DEF Spec

(***************************************************************************)
(* What the programs make of the codes.                                    *)
(***************************************************************************)
Records == [by : Reader, code : Code, ascii : Ascii]

n == Len(handed)

(* What is known of a press, to be kept when more is read.                 *)
First(i) == IF Escaped(i) THEN i - 1 ELSE i

Followed(i) ==
  /\ Known(i) /\ handed[First(i)].by = handed[i].by
  /\ ~Open(handed[i].by, First(i)) /\ FollowsShift(handed[i].by, i)

DecodedAt(i) == Followed(i) => handed[i].ascii = Meaning(i)

(* The state of a program against what it has read: escaped only behind an *)
(* escape, and certainly behind one that was the last code of all and      *)
(* found nothing pending; shift as the shift keys are, if it has read the  *)
(* last change.                                                            *)
ShiftDown ==
  \E j \in 1..n : /\ handed[j].code = "shift"
                  /\ \A k \in j..n : handed[k].code # "unshift"

Informed(q) ==
  /\ kbd_state[q].escaped => Open(q, n + 1)
  /\ n > 0 /\ handed[n].by = q /\ handed[n].code = "E0" /\ ~Open(q, n)
       => kbd_state[q].escaped
  /\ FollowsShift(q, n + 1) => (kbd_state[q].shift <=> ShiftDown)

Deciphering ==
  /\ \A q \in Reader : Informed(q)
  /\ \A i \in 1..n : DecodedAt(i)

LEMMA InitDeciphering == Init => Deciphering
<1> SUFFICES ASSUME Init PROVE Deciphering
  OBVIOUS
<1>1. n = 0 /\ 1..n = {}
  BY DEF Init, n
<1>2. \A q \in Reader : kbd_state[q].escaped = FALSE /\ kbd_state[q].shift = FALSE
  BY DEF Init
<1>3. ~ShiftDown
  BY <1>1 DEF ShiftDown
<1> QED BY <1>1, <1>2, <1>3 DEF Deciphering, Informed

(* A record more at the end changes nothing before it.                     *)
LEMMA Longer ==
  ASSUME n \in Nat, n' = n + 1, \A i \in 1..n : handed'[i] = handed[i]
  PROVE  /\ \A q \in Reader, m \in 1..(n + 1) : Open(q, m)' <=> Open(q, m)
         /\ \A q \in Reader, m \in 1..(n + 1) : FollowsShift(q, m)' <=> FollowsShift(q, m)
         /\ \A i \in 1..n : /\ Escaped(i)' <=> Escaped(i)
                            /\ Known(i)' <=> Known(i)
                            /\ Meaning(i)' = Meaning(i)
<1>1. \A m \in 1..(n + 1) : \A j \in 1..(m - 1) : j \in 1..n /\ handed'[j] = handed[j]
  OBVIOUS
<1>2. \A m \in 1..(n + 1) : \A j \in 1..(m - 1) : \A k \in (j + 1)..(m - 1) :
        k \in 1..n /\ handed'[k] = handed[k]
  OBVIOUS
<1>3. \A q \in Reader, m \in 1..(n + 1) : Open(q, m)' <=> Open(q, m)
  <2> TAKE q \in Reader, m \in 1..(n + 1)
  <2> QED BY <1>1, <1>2 DEF Open
<1>4. \A q \in Reader, m \in 1..(n + 1) : FollowsShift(q, m)' <=> FollowsShift(q, m)
  <2> TAKE q \in Reader, m \in 1..(n + 1)
  <2> QED BY <1>1, <1>2 DEF FollowsShift
<1>5. ASSUME NEW i \in 1..n
      PROVE  /\ Escaped(i)' <=> Escaped(i)
             /\ Known(i)' <=> Known(i)
             /\ Meaning(i)' = Meaning(i)
  <2>1. handed'[i] = handed[i]
    OBVIOUS
  <2>2. Escaped(i)' <=> Escaped(i)
    <3>1. i > 1 => i - 1 \in 1..n
      OBVIOUS
    <3> QED BY <3>1 DEF Escaped
  <2>3. Shifted(i)' <=> Shifted(i)
    <3>1. \A j \in 1..i : handed'[j] = handed[j] /\ \A k \in j..i : handed'[k] = handed[k]
      OBVIOUS
    <3> QED BY <3>1 DEF Shifted
  <2> QED BY <2>1, <2>2, <2>3 DEF Known, Meaning
<1> QED BY <1>3, <1>4, <1>5

(* keyboard(): one record more, of what the program read and made of it.   *)
Read(p, c, a) ==
  /\ n \in Nat /\ n' = n + 1
  /\ handed'[n + 1] = [by |-> p, code |-> c, ascii |-> a]
  /\ \A i \in 1..n : handed'[i] = handed[i]

(* The codes that leave an escape pending, as Open has it.                 *)
LEMMA OpenNext ==
  ASSUME NEW p \in Reader, NEW c \in Code, NEW a, Read(p, c, a), NEW q \in Reader
  PROVE  Open(q, n + 1)' <=> \/ q # p /\ Open(q, n + 1)
                             \/ q = p /\ c = "E0"
                             \/ q = p /\ c \in Modifiers /\ Open(q, n + 1)
<1>1. /\ n \in Nat /\ n' = n + 1
      /\ handed'[n + 1].by = p /\ handed'[n + 1].code = c
      /\ \A i \in 1..n : handed'[i] = handed[i]
  BY DEF Read
<1>2. Open(q, n + 1)' <=>
        \E j \in 1..(n + 1) :
          /\ handed'[j].by = q /\ handed'[j].code = "E0"
          /\ \A k \in (j + 1)..(n + 1) :
               handed'[k].by = q => handed'[k].code \in Modifiers \cup {"E0"}
  <2>1. (n' + 1) - 1 = n + 1
    BY <1>1
  <2> QED BY <2>1 DEF Open
<1>3. Open(q, n + 1) <=>
        \E j \in 1..n :
          /\ handed'[j].by = q /\ handed'[j].code = "E0"
          /\ \A k \in (j + 1)..n :
               handed'[k].by = q => handed'[k].code \in Modifiers \cup {"E0"}
  BY <1>1 DEF Open
<1>4. "E0" \notin Modifiers
  BY DEF Modifiers, Shifts
<1> DEFINE h == handed'
<1> HIDE DEF h
<1>5. /\ h[n + 1].by = p /\ h[n + 1].code = c
      /\ \A j \in 1..n : \A k \in (j + 1)..(n + 1) : k \in (j + 1)..n \/ k = n + 1
      /\ \A j \in 1..n : (j + 1)..n \subseteq (j + 1)..(n + 1) /\ n + 1 \in (j + 1)..(n + 1)
      /\ \A j \in 1..(n + 1) : j \in 1..n \/ j = n + 1
      /\ 1..n \subseteq 1..(n + 1) /\ n + 1 \in 1..(n + 1)
      /\ ((n + 1) + 1)..(n + 1) = {}
  BY <1>1 DEF h
<1>6. ASSUME q # p
      PROVE  Open(q, n + 1)' <=> Open(q, n + 1)
  BY <1>2, <1>3, <1>5, <1>6 DEF h
<1>7. ASSUME q = p, c = "E0" PROVE Open(q, n + 1)'
  BY <1>2, <1>5, <1>7 DEF h
<1>8. ASSUME q = p, c \in Modifiers
      PROVE  Open(q, n + 1)' <=> Open(q, n + 1)
  BY <1>2, <1>3, <1>4, <1>5, <1>8 DEF h
<1>9. ASSUME q = p, c \notin Modifiers, c # "E0"
      PROVE  ~Open(q, n + 1)'
  BY <1>2, <1>5, <1>9 DEF h
<1> QED BY <1>4, <1>6, <1>7, <1>8, <1>9

LEMMA ShiftNext ==
  ASSUME NEW p \in Reader, NEW c \in Code, NEW a, Read(p, c, a), NEW q \in Reader
  PROVE  /\ FollowsShift(q, n + 1)' => IF c \in Shifts THEN q = p
                                        ELSE FollowsShift(q, n + 1)
         /\ ShiftDown' <=> c = "shift" \/ (c # "unshift" /\ ShiftDown)
<1> DEFINE h == handed'
<1>1. /\ n \in Nat /\ n' = n + 1
      /\ h[n + 1].by = p /\ h[n + 1].code = c
      /\ \A i \in 1..n : h[i] = handed[i]
  BY DEF Read
<1>11. FollowsShift(q, n + 1)' <=>
        \A j \in 1..(n + 1) :
          h[j].code \in Shifts =>
            \/ h[j].by = q
            \/ \E k \in (j + 1)..(n + 1) : h[k].code \in Shifts
  <2>1. (n' + 1) - 1 = n + 1
    BY <1>1
  <2> QED BY <2>1 DEF FollowsShift
<1>2. ASSUME FollowsShift(q, n + 1)', c \in Shifts PROVE q = p
  <2>1. n + 1 \in 1..(n + 1) /\ ((n + 1) + 1)..(n + 1) = {}
    BY <1>1
  <2> HIDE DEF h
  <2> QED BY <1>1, <1>2, <1>11, <2>1
<1>3. ASSUME FollowsShift(q, n + 1)', c \notin Shifts PROVE FollowsShift(q, n + 1)
  <2> SUFFICES ASSUME NEW j \in 1..n, handed[j].code \in Shifts, handed[j].by # q
               PROVE  \E k \in (j + 1)..n : handed[k].code \in Shifts
    BY <1>1 DEF FollowsShift
  <2> HIDE DEF h
  <2>1. j \in 1..(n + 1) /\ h[j] = handed[j]
    BY <1>1
  <2>2. PICK k \in (j + 1)..(n + 1) : h[k].code \in Shifts
    BY <1>3, <1>11, <2>1
  <2>3. k \in (j + 1)..n \/ k = n + 1
    BY <1>1
  <2> QED BY <1>1, <1>3, <2>2, <2>3
<1>4. ShiftDown' <=> \E j \in 1..(n + 1) :
                       /\ h[j].code = "shift"
                       /\ \A k \in j..(n + 1) : h[k].code # "unshift"
  BY <1>1 DEF ShiftDown
<1>5. ShiftDown <=> \E j \in 1..n :
                      /\ h[j].code = "shift"
                      /\ \A k \in j..n : h[k].code # "unshift"
  <2>1. \A j \in 1..n : h[j] = handed[j] /\ \A k \in j..n : h[k] = handed[k]
    BY <1>1
  <2> HIDE DEF h
  <2> QED BY <2>1 DEF ShiftDown
<1>6. /\ \A j \in 1..n : /\ \A k \in j..(n + 1) : k \in j..n \/ k = n + 1
                         /\ \A k \in j..n : k \in j..(n + 1)
                         /\ n + 1 \in j..(n + 1) /\ j \in 1..(n + 1)
      /\ \A j \in 1..(n + 1) : j \in 1..n \/ j = n + 1
      /\ \A j \in 1..(n + 1) : n + 1 \in j..(n + 1)
      /\ n + 1 \in 1..(n + 1) /\ \A k \in (n + 1)..(n + 1) : k = n + 1
  BY <1>1
<1>7. h[n + 1].code = c
  BY <1>1
<1> HIDE DEF h
<1>8. SUFFICES ShiftDown' <=> c = "shift" \/ (c # "unshift" /\ ShiftDown)
  BY <1>2, <1>3
<1>9. CASE c = "shift"
  BY <1>4, <1>6, <1>7, <1>9
<1>12. CASE c = "unshift"
  BY <1>4, <1>6, <1>7, <1>12
<1>10. CASE c # "shift" /\ c # "unshift"
  <2>1. ASSUME ShiftDown' PROVE ShiftDown
    <3>1. PICK j \in 1..(n + 1) : /\ h[j].code = "shift"
                                  /\ \A k \in j..(n + 1) : h[k].code # "unshift"
      BY <1>4, <2>1
    <3>2. j \in 1..n
      BY <1>6, <1>7, <1>10, <3>1
    <3> QED BY <1>5, <1>6, <3>1, <3>2
  <2>2. ASSUME ShiftDown PROVE ShiftDown'
    <3>1. PICK j \in 1..n : /\ h[j].code = "shift"
                            /\ \A k \in j..n : h[k].code # "unshift"
      BY <1>5, <2>2
    <3> QED BY <1>4, <1>6, <1>7, <1>10, <3>1
  <2> QED BY <1>10, <2>1, <2>2
<1> QED BY <1>9, <1>10, <1>12

(* What keyboard() makes of one code in one state.                         *)
LEMMA Deciphered ==
  ASSUME NEW s \in [escaped : BOOLEAN, shift : BOOLEAN], NEW c \in Code
  PROVE  /\ c \in Modifiers => NextState(s, c).escaped = s.escaped
         /\ c = "E0" => NextState(s, c).escaped = ~s.escaped
         /\ c \notin Modifiers /\ c # "E0" => ~NextState(s, c).escaped
         /\ NextState(s, c).shift <=> c = "shift" \/ (c # "unshift" /\ s.shift)
<1>1. PICK e \in BOOLEAN, f \in BOOLEAN : s = [escaped |-> e, shift |-> f]
  OBVIOUS
<1>2. CASE c = "shift"
  BY <1>1, <1>2 DEF NextState, Modifiers, Shifts
<1>3. CASE c = "unshift"
  BY <1>1, <1>3 DEF NextState, Modifiers, Shifts
<1>4. CASE c \in {"ctrl", "unctrl"}
  BY <1>1, <1>4 DEF NextState, Modifiers, Shifts
<1>5. CASE c \notin Modifiers
  <2>1. NextState(s, c) = [escaped |-> ~e /\ c = "E0", shift |-> f]
    BY <1>1, <1>5 DEF NextState, Modifiers, Shifts
  <2>2. /\ NextState(s, c).escaped = (~e /\ c = "E0") /\ NextState(s, c).shift = f
        /\ s.escaped = e /\ s.shift = f
    BY <1>1, <2>1
  <2> QED BY <1>5, <2>2 DEF Modifiers, Shifts
<1> QED BY <1>2, <1>3, <1>4, <1>5 DEF Modifiers, Shifts

LEMMA KeyboardDeciphers ==
  ASSUME TypeOK, Announced, Deciphering, NEW p \in Reader, keyboard(p)
  PROVE  Deciphering'
<1> DEFINE s == kbd_state[p]
           c == buffer
<1>1. c \in Code /\ c # Empty
  BY CodeNotEmpty DEF keyboard, Announced, Reading, TypeOK
<1>2. kbd_state' = [kbd_state EXCEPT ![p] = NextState(s, c)]
  BY <1>1 DEF keyboard
<1>3. PICK a \in IF c \in Presses THEN Decoded(s, c) ELSE {"none"} :
        handed' = Append(handed, [by |-> p, code |-> c, ascii |-> a])
  BY <1>1 DEF keyboard
<1>4. handed \in Seq(Records) /\ s \in [escaped : BOOLEAN, shift : BOOLEAN]
  BY DEF TypeOK, Records
<1>5. Read(p, c, a)
  <2> HIDE DEF c
  <2> DEFINE r == [by |-> p, code |-> c, ascii |-> a]
  <2>1. handed' = Append(handed, r)
    BY <1>3
  <2> HIDE DEF r
  <2>2. /\ Len(handed) \in Nat /\ Len(handed') = Len(handed) + 1
        /\ handed'[Len(handed) + 1] = r
        /\ \A i \in 1..Len(handed) : handed'[i] = handed[i]
    BY <1>4, <2>1
  <2> QED BY <2>2 DEF Read, n, r
<1>6. /\ n \in Nat /\ n' = n + 1
      /\ handed'[n + 1].by = p /\ handed'[n + 1].code = c /\ handed'[n + 1].ascii = a
      /\ \A i \in 1..n : handed'[i] = handed[i]
  BY <1>5 DEF Read
<1>7. /\ kbd_state'[p] = NextState(s, c)
      /\ \A q \in Reader : q # p => kbd_state'[q] = kbd_state[q]
  BY <1>2 DEF TypeOK
<1> HIDE DEF s, c
<1>8. /\ c \in Modifiers => NextState(s, c).escaped = s.escaped
      /\ c = "E0" => NextState(s, c).escaped = ~s.escaped
      /\ c \notin Modifiers /\ c # "E0" => ~NextState(s, c).escaped
      /\ NextState(s, c).shift <=> c = "shift" \/ (c # "unshift" /\ s.shift)
  BY <1>1, <1>4, Deciphered
<1>m. PICK m \in Nat \ {0} : m = n + 1
  BY <1>6
<1>9. \A q \in Reader, l \in 1..m : /\ Open(q, l)' <=> Open(q, l)
                                    /\ FollowsShift(q, l)' <=> FollowsShift(q, l)
  BY <1>6, <1>m, Longer
<1>10. /\ s.escaped => Open(p, m)
       /\ n > 0 /\ handed[n].by = p /\ handed[n].code = "E0" /\ ~Open(p, n) => s.escaped
       /\ FollowsShift(p, m) => (s.shift <=> ShiftDown)
  BY <1>m DEF Deciphering, Informed, s
<1>11. m \in 1..m /\ n' = m /\ m > 0 /\ n = m - 1
  BY <1>6, <1>m
<1>12. ASSUME NEW q \in Reader PROVE Informed(q)'
  <2>1. Open(q, n + 1)' <=> \/ q # p /\ Open(q, n + 1)
                            \/ q = p /\ c = "E0"
                            \/ q = p /\ c \in Modifiers /\ Open(q, n + 1)
    BY <1>1, <1>5, OpenNext
  <2>2. kbd_state'[q].escaped => Open(q, n + 1)'
    <3>1. CASE q = p
      BY <1>m, <1>4, <1>7, <1>8, <1>10, <2>1, <3>1
    <3>2. CASE q # p
      <4>1. kbd_state[q].escaped => Open(q, n + 1)
        BY DEF Deciphering, Informed
      <4> QED BY <1>7, <2>1, <3>2, <4>1
    <3> QED BY <3>1, <3>2
  <2>3. ASSUME handed'[m].by = q, handed'[m].code = "E0", ~Open(q, m)'
        PROVE  kbd_state'[q].escaped
    <3>1. q = p /\ c = "E0" /\ ~Open(p, m)
      BY <1>6, <1>m, <1>9, <1>11, <2>3
    <3>2. s.escaped = FALSE
      BY <1>4, <1>10, <3>1
    <3> QED BY <1>7, <1>8, <3>1, <3>2
  <2>4. ASSUME FollowsShift(q, n + 1)' PROVE kbd_state'[q].shift <=> ShiftDown'
    <3>1. IF c \in Shifts THEN q = p ELSE FollowsShift(q, n + 1)
      BY <1>1, <1>5, <2>4, ShiftNext
    <3>2. ShiftDown' <=> c = "shift" \/ (c # "unshift" /\ ShiftDown)
      BY <1>1, <1>5, ShiftNext
    <3>3. FollowsShift(q, n + 1) => (kbd_state[q].shift <=> ShiftDown)
      BY DEF Deciphering, Informed
    <3>4. CASE q = p
      BY <1>m, <1>7, <1>8, <1>10, <3>1, <3>2, <3>4 DEF Shifts
    <3>5. CASE q # p
      BY <1>7, <3>1, <3>2, <3>3, <3>5 DEF Shifts
    <3> QED BY <3>4, <3>5
  <2>5. Open(q, n)' <=> Open(q, m)'
    BY <1>11 DEF Open
  <2>6. handed'[n'] = handed'[m]
    BY <1>11
  <2> QED BY <2>2, <2>3, <2>4, <2>5, <2>6 DEF Informed
<1>13. ASSUME NEW i \in 1..n PROVE DecodedAt(i)'
  <2>1. /\ Escaped(i)' <=> Escaped(i)
        /\ Known(i)' <=> Known(i)
        /\ Meaning(i)' = Meaning(i)
        /\ handed'[i] = handed[i]
    BY <1>6, Longer
  <2>2. PICK f \in 1..m : f = First(i) /\ f = First(i)' /\ f \in 1..n /\ i \in 1..m
    BY <1>6, <1>m, <2>1 DEF First, Escaped
  <2>3. PICK b \in Reader : b = handed[i].by /\ b = handed'[i].by /\ handed'[f] = handed[f]
    <3>1. handed[i] \in Records
      BY <1>4 DEF n
    <3> QED BY <1>6, <2>1, <2>2, <3>1 DEF Records
  <2>4. Followed(i)' <=> Followed(i)
    <3>1. (Open(b, f)' <=> Open(b, f)) /\ (FollowsShift(b, i)' <=> FollowsShift(b, i))
      BY <1>9, <2>2
    <3>2. Followed(i) <=> /\ Known(i) /\ handed[f].by = b
                          /\ ~Open(b, f) /\ FollowsShift(b, i)
      BY <2>2, <2>3 DEF Followed
    <3>3. Followed(i)' <=> /\ Known(i)' /\ handed'[f].by = b
                           /\ ~Open(b, f)' /\ FollowsShift(b, i)'
      BY <2>2, <2>3 DEF Followed, Open, FollowsShift
    <3> QED BY <2>1, <2>3, <3>1, <3>2, <3>3
  <2> QED BY <2>1, <2>4 DEF DecodedAt, Deciphering
<1>14. DecodedAt(m)'
  <2> SUFFICES ASSUME Followed(m)' PROVE handed'[m].ascii = Meaning(m)'
    BY DEF DecodedAt
  <2>0. /\ handed'[m].by = p /\ handed'[m].code = c /\ handed'[m].ascii = a
        /\ m - 1 = n /\ (m > 1 <=> n > 0) /\ (n > 0 => handed'[n] = handed[n])
    BY <1>6, <1>m
  <2>1. /\ Escaped(m)' <=> n > 0 /\ handed[n].code = "E0"
        /\ c \in Presses /\ (c \in {"letter", "home"} => ~Escaped(m)')
    BY <2>0 DEF Escaped, Followed, Known
  <2>f. PICK f \in Nat : f = First(m)' /\ f = IF Escaped(m)' THEN m - 1 ELSE m
    BY <1>m DEF First
  <2>2. handed'[f].by = p /\ ~Open(p, f)' /\ FollowsShift(p, m)'
    BY <2>0, <2>f DEF Followed, Open, FollowsShift
  <2>3. s.shift <=> ShiftDown
    BY <1>9, <1>10, <1>11, <2>2
  <2>4. Shifted(m)' <=> ShiftDown'
    BY <1>11 DEF Shifted, ShiftDown
  <2>5. s.escaped <=> Escaped(m)'
    <3>1. CASE Escaped(m)'
      <4>1. f = n /\ n > 0 /\ handed[n].code = "E0" /\ f \in 1..m
        BY <2>0, <2>1, <2>f, <3>1
      <4>2. handed[n].by = p /\ ~Open(p, f)
        BY <1>9, <2>0, <2>2, <4>1
      <4>3. ~Open(p, n)
        BY <4>1, <4>2
      <4> QED BY <1>10, <3>1, <4>1, <4>2, <4>3
    <3>2. CASE ~Escaped(m)'
      <4>1. f = m
        BY <2>f, <3>2
      <4>2. ~Open(p, m)
        BY <1>9, <1>11, <2>2, <4>1
      <4> QED BY <1>10, <3>2, <4>2
    <3> QED BY <3>1, <3>2
  <2>6. a \in Decoded(s, c)
    BY <1>3, <2>1 DEF c
  <2>7. c # "unshift"
    BY <2>1 DEF Presses
  <2>8. CASE c = "letter"
    <3>1. s.escaped = FALSE /\ a \in IF s.shift THEN {"A"} ELSE {"a"}
      BY <1>4, <2>1, <2>5, <2>6, <2>8 DEF Decoded
    <3>2. Meaning(m)' = IF Shifted(m)' THEN "A" ELSE "a"
      BY <2>0, <2>8 DEF Meaning
    <3>3. Shifted(m)' <=> s.shift
      <4>1. ShiftDown' <=> c = "shift" \/ (c # "unshift" /\ ShiftDown)
        BY <1>1, <1>5, ShiftNext
      <4> QED BY <2>3, <2>4, <2>8, <4>1
    <3> QED BY <2>0, <3>1, <3>2, <3>3
  <2>9. CASE c = "arrow"
    <3>1. a = IF s.escaped THEN "up" ELSE "none"
      BY <2>6, <2>9 DEF Decoded
    <3>2. Meaning(m)' = IF Escaped(m)' THEN "up" ELSE "none"
      BY <2>0, <2>9 DEF Meaning
    <3> QED BY <2>0, <2>5, <3>1, <3>2
  <2>10. CASE c \in {"shift", "ctrl", "home"}
    <3>1. a = "none"
      BY <1>4, <2>1, <2>5, <2>6, <2>10 DEF Decoded
    <3>2. Meaning(m)' = "none"
      BY <2>0, <2>10 DEF Meaning
    <3> QED BY <2>0, <3>1, <3>2
  <2> QED BY <2>1, <2>8, <2>9, <2>10 DEF Presses
<1>15. \A i \in 1..n' : DecodedAt(i)'
  <2>1. \A i \in 1..n' : i \in 1..n \/ i = m
    BY <1>6, <1>11
  <2> QED BY <1>13, <1>14, <2>1
<1> QED BY <1>12, <1>15 DEF Deciphering

LEMMA StepDeciphering ==
  TypeOK /\ Announced /\ Deciphering /\ [Next]_vars => Deciphering'
<1> SUFFICES ASSUME TypeOK, Announced, Deciphering, [Next]_vars PROVE Deciphering'
  OBVIOUS
<1>1. ASSUME NEW p \in Reader, keyboard(p) PROVE Deciphering'
  BY <1>1, KeyboardDeciphers
<1>2. CASE UNCHANGED <<handed, kbd_state>>
  BY <1>2 DEF Deciphering, Informed, ShiftDown, DecodedAt, Followed, First, Known, Open,
     FollowsShift, Meaning, Escaped, Shifted, n
<1>3. CASE \/ Stroke \/ LoadBuffer \/ kbd_irq \/ UNCHANGED vars
           \/ \E p \in Reader : SystemCall2(p) \/ Drop(p)
  BY <1>2, <1>3 DEF Stroke, LoadBuffer, kbd_irq, SystemCall2, Drop, vars
<1> QED BY <1>1, <1>3 DEF Next

(* Whatever the keyboard sends and whichever program reads which code: a   *)
(* program that has read a whole stroke and the last change of shift, and  *)
(* no lone escape just before, gives the key its character.                *)
THEOREM AlwaysDecodes == Spec => []KeysDecoded
<1>1. TypeOK /\ Deciphering => KeysDecoded
  <2> SUFFICES ASSUME TypeOK, Deciphering, NEW i \in DOMAIN handed, Followed(i)
               PROVE  handed[i].ascii = Meaning(i)
    BY DEF KeysDecoded, Followed, First
  <2>1. DOMAIN handed = 1..n
    BY DEF TypeOK, n
  <2> QED BY <2>1 DEF Deciphering, DecodedAt
<1>2. Init => TypeOK /\ Announced /\ Deciphering
  BY InitTypes, InitAnnounced, InitDeciphering
<1>3. TypeOK /\ Announced /\ Deciphering /\ [Next]_vars
        => (TypeOK /\ Announced /\ Deciphering)'
  BY StepTypes, StepAnnounced, StepDeciphering
<1> QED BY <1>1, <1>2, <1>3, PTL DEF Spec
=============================================================================
