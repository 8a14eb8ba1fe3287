------------------------------- MODULE Shell --------------------------------
(***************************************************************************)
(* The shell, autostart.c: keypress_handler collects keys in kbuffer and   *)
(* runs the line at Enter, with the string functions of str.c.             *)
(*                                                                         *)
(* Keys are the codes that keyboard() passes on, 0 for shift and ctrl.     *)
(* What a command prints is left out but for the argument of echo.  A      *)
(* write outside kbuffer, or a string that runs out of it, meets whatever  *)
(* the compiler has put there: the shell is then astray, and is followed   *)
(* no further.  (The byte before kbuffer, which is read when the command   *)
(* is empty and cleared should it be a newline, is not part of the model.) *)
(***************************************************************************)
EXTENDS Integers, SequencesExt

CONSTANTS
  Size,      (* of kbuffer: 256                                            *)
  Key,       (* keys that are pressed                                      *)
  Echo, Exec, Game, Known,  (* commands: echo, exec, game, and those that  *)
                            (* only print: help and version                *)
  MaxKeys    (* bound: keys pressed                                        *)

NUL == 0
BS  == 8
LF  == 10
SP  == 32

ASSUME ShellAssumption ==
  /\ Size \in Nat \ {0} /\ MaxKeys \in Nat
  /\ Key \subseteq 0..127
  /\ {Echo, Exec, Game} \cup Known \subseteq Seq(1..127)

VARIABLES
  kbuffer, knext,
  astray,      (* a place outside kbuffer has been used                    *)
  spinning,    (* the endless loop behind the start of the game            *)
  ran,         (* history: the command and its argument, if any            *)
  outcome,     (* history: what was done with it                           *)
  line,        (* history: the line typed so far, as one expects it        *)
  entered,     (* history: the line that was ended by Enter                *)
  backspaced,  (* history: backspace has been pressed                      *)
  rubbed,      (* history: ... on an empty line, since the last Enter      *)
  longest,     (* history: the most keys a line has had                    *)
  stale,       (* history: at Enter, kbuffer held something behind the line*)
  pressed      (* history: the number of keys                              *)

history == <<line, entered, backspaced, rubbed, longest, stale, pressed>>
vars == <<kbuffer, knext, astray, spinning, ran, outcome, history>>

Place == 0..Size - 1

Init ==
  /\ kbuffer = [i \in Place |-> NUL] /\ knext = 0
  /\ astray = FALSE /\ spinning = FALSE
  /\ ran = [cmd |-> <<>>, arg |-> <<>>] /\ outcome = "none"
  /\ line = <<>> /\ entered = <<>> /\ pressed = 0
  /\ backspaced = FALSE /\ rubbed = FALSE /\ stale = FALSE
  /\ longest = 0

(***************************************************************************)
(* str.c                                                                   *)
(***************************************************************************)
Terminated(k) == \E i \in Place : k[i] = NUL

(* The string at k[i]; Size if it is the empty one behind the end.         *)
strlen(k, i) ==
  CHOOSE n \in 0..Size - i :
    /\ \A j \in i..i + n - 1 : k[j] # NUL
    /\ i + n = Size \/ k[i + n] = NUL

String(k, i) == [j \in 1..strlen(k, i) |-> k[i + j - 1]]

(* The places in the string at k[0] where c is first: one or none.         *)
strchr(k, c) ==
  {i \in 0..strlen(k, 0) - 1 : k[i] = c /\ \A j \in 0..i - 1 : k[j] # c}

(***************************************************************************)
(* keypress_handler                                                        *)
(***************************************************************************)
(* Mutated: the newline stays in the argument.                             *)
CutOpen(k) ==
  IF strchr(k, SP) = {} THEN k
  ELSE LET sp == CHOOSE i \in strchr(k, SP) : TRUE IN [k EXCEPT ![sp] = NUL]

(* The space and the last character of the argument are overwritten.       *)
Cut(k) ==
  IF strchr(k, SP) = {} THEN k
  ELSE LET sp == CHOOSE i \in strchr(k, SP) : TRUE
       IN  [k EXCEPT ![sp] = NUL, ![sp + strlen(k, sp + 1)] = NUL]

(* A newline at the end of the command is overwritten.                     *)
Stripped(k) ==
  LET last == strlen(k, 0) - 1
  IN  IF last >= 0 /\ k[last] = LF THEN [k EXCEPT ![last] = NUL] ELSE k

Outcome(cmd, arg) ==
  CASE cmd = Echo    -> IF arg = <<>> THEN "echo NULL" ELSE "echo"
    [] cmd = Exec    -> IF arg = <<>> THEN "exec NULL" ELSE "exec"
    [] cmd = Game    -> "game"
    [] cmd \in Known -> "known"
    [] cmd = <<>>    -> "none"
    [] OTHER         -> "unknown"

(* Mutated: the last place is not cleared.                                 *)
ClearedShort(k, n) == [i \in Place |-> IF i < n - 1 THEN NUL ELSE k[i]]

Cleared(k, n) == [i \in Place |-> IF i < n THEN NUL ELSE k[i]]

(* Enter: k is kbuffer with the newline, n the number of keys in it.       *)
Run(k, n) ==
  LET cut  == Cut(k)
      bare == Stripped(cut)
      arg  == {String(bare, sp + 1) : sp \in strchr(k, SP)}
  IN  /\ ran' = [cmd |-> String(bare, 0), arg |-> SetToSeq(arg)]
      /\ outcome' = Outcome(ran'.cmd, ran'.arg)
      /\ IF outcome' = "game"
         THEN spinning' = TRUE /\ kbuffer' = bare /\ knext' = n
         ELSE kbuffer' = Cleared(bare, n) /\ knext' = 0 /\ UNCHANGED spinning

(* The line as one expects it: backspace takes the last key back.          *)
Edited(c) ==
  IF c # BS THEN Append(line, c) ELSE IF line = <<>> THEN <<>> ELSE Front(line)

Remember(c) ==
  /\ pressed' = pressed + 1
  /\ backspaced' = (backspaced \/ c = BS)
  /\ longest' = IF Len(line) < longest THEN longest ELSE Len(line) + 1
  /\ rubbed' = (c # LF /\ (rubbed \/ (c = BS /\ line = <<>>)))
  /\ line' = IF c = LF THEN <<>> ELSE Edited(c)
  /\ entered' = IF c = LF THEN line ELSE entered

(* Mutated: backspace leaves its own code in the line.                     *)
NextPlaceKept(c) == knext + 1

(* Mutated: backspace takes two places back.                               *)
NextPlaceTwice(c) == IF c = BS THEN knext - 2 ELSE knext + 1

(* Where the next key goes, behind a key other than Enter.                 *)
NextPlace(c) == IF c = BS THEN knext - 1 ELSE knext + 1

With(c) == [kbuffer EXCEPT ![knext] = c]

Type(c) ==
  /\ c # LF /\ knext \in Place
  /\ kbuffer' = With(c) /\ knext' = NextPlace(c)
  /\ Remember(c)
  /\ UNCHANGED <<astray, spinning, ran, outcome, stale>>

Enter ==
  /\ knext \in Place /\ Terminated(With(LF))
  /\ stale' = \E i \in Place : i > knext /\ kbuffer[i] # NUL
  /\ Run(With(LF), knext + 1)
  /\ Remember(LF)
  /\ UNCHANGED astray

GoAstray(c) ==
  /\ \/ knext \notin Place
     \/ c = LF /\ knext \in Place /\ ~Terminated(With(LF))
  /\ astray' = TRUE
  /\ UNCHANGED <<kbuffer, knext, spinning, ran, outcome, history>>

keypress_handler(c) ==
  /\ ~astray /\ ~spinning /\ pressed < MaxKeys
  /\ Type(c) \/ (c = LF /\ Enter) \/ GoAstray(c)

Next == \E c \in Key : keypress_handler(c)

Spec == Init /\ [][Next]_vars

-----------------------------------------------------------------------------
(***************************************************************************)
(* Properties                                                              *)
(***************************************************************************)
TypeOK ==
  /\ kbuffer \in [Place -> 0..127] /\ knext \in -1..Size
  /\ {astray, spinning, backspaced, rubbed, stale} \subseteq BOOLEAN
  /\ ran.cmd \in Seq(1..127) /\ ran.arg \in Seq(Seq(1..127))
  /\ longest \in Nat /\ line \in Seq(0..127) /\ entered \in Seq(0..127) /\ pressed \in Nat

(* kbuffer begins with the line as it has been edited, whatever was typed  *)
(* and rubbed out before, as long as no empty line was rubbed at.          *)
LineBuffered ==
  ~rubbed /\ ~astray /\ ~spinning =>
    /\ knext = Len(line)
    /\ \A i \in 1..Len(line) : kbuffer[i - 1] = line[i]

(* Behind the line there is nothing unless backspace has left it there.    *)
CleanBehind ==
  ~backspaced => \A i \in Place : i >= knext => kbuffer[i] = NUL

(* kbuffer is left only behind a backspace on an empty line, or when some  *)
(* line has come within one key of filling it, shift and ctrl counted.     *)
InsideBuffer == astray => rubbed \/ longest >= Size - 1

(* The command that is run is the one that was typed, split at its first   *)
(* space, if no shift key was pressed and nothing stale is behind it.      *)
Typed(l) ==
  LET sp == SelectInSeq(l, LAMBDA c : c = SP)
  IN  IF sp = 0 THEN [cmd |-> l, arg |-> <<>>]
      ELSE [cmd |-> SubSeq(l, 1, sp - 1), arg |-> <<SubSeq(l, sp + 1, Len(l))>>]

RunsAsTyped ==
  ~astray /\ ~stale /\ NUL \notin ToSet(entered)
    => ran = Typed(entered)
=============================================================================
