------------------------------ MODULE Keyboard ------------------------------
(***************************************************************************)
(* A key's way from the PS/2 controller to the program that uses it:       *)
(* kbd_irq and system calls 2 and 3 of the kernel, keyboard() of the       *)
(* programs that poll (autostart, and those built on os.c).                *)
(*                                                                         *)
(* The kernel keeps one flag and no data.  A program that finds it set     *)
(* clears it with the same system call and reads port 0x60 with another;   *)
(* the timer may come in between.  The controller (external) holds one     *)
(* byte, requests IRQ 1 when it has loaded one, and loads the next when    *)
(* the port has been read.  System calls and interrupts are atomic, and    *)
(* what keyboard() does after the read is the program's own: one step.     *)
(***************************************************************************)
EXTENDS Naturals, Sequences

CONSTANTS
  Reader,   (* the programs that poll                                      *)
  Strokes,  (* what a finger does: the codes the keyboard sends for it     *)
  MaxCodes  (* bound: codes sent                                           *)

(* Scancodes by what keyboard() makes of them: 0x2a and 0xaa; 0x1d and     *)
(* 0x9d (0x38 and 0xb8, alt, likewise); 0xe0; 0x48 and 0xc8; a key with a  *)
(* character and its release; one without (Home, Del...) and its release.  *)
Presses   == {"shift", "ctrl", "arrow", "letter", "home"}
Releases  == {"unshift", "unctrl", "E0", "unarrow", "unletter", "unhome"}
Code      == Presses \cup Releases
Shifts    == {"shift", "unshift"}
Modifiers == Shifts \cup {"ctrl", "unctrl"}
Ascii     == {"none", "a", "A", "up"}
Empty    == "empty"

ASSUME KeyboardAssumption ==
  /\ Strokes \subseteq Seq(Code)
  /\ MaxCodes \in Nat

VARIABLES
  sent,       (* history: the codes sent by the keyboard                   *)
  queue,      (* those not yet in the controller's output buffer           *)
  buffer,     (* the output buffer                                         *)
  irq,        (* IRQ 1 is requested                                        *)
  kbd_event,  (* volatile bool kbd_event                                   *)
  at,         (* where a program is: before system call 2, or between the  *)
              (* call that returned true and the read of the port          *)
  dropped,    (* the programs that have been killed or poll no more        *)
  kbd_state,  (* kbd_state of each program                                 *)
  port,       (* what the port yields when the buffer is empty             *)
  handed      (* history: the codes read, by whom, and their ascii         *)

kernel == <<irq, kbd_event>>
device == <<sent, queue, buffer, port>>
vars   == <<sent, queue, buffer, irq, kbd_event, at, dropped, kbd_state, port, handed>>

Init ==
  /\ sent = <<>> /\ queue = <<>> /\ buffer = Empty /\ port = "unletter"
  /\ irq = FALSE /\ kbd_event = FALSE
  /\ at = [p \in Reader |-> "poll"]
  /\ dropped = {}
  /\ kbd_state = [p \in Reader |-> [escaped |-> FALSE, shift |-> FALSE]]
  /\ handed = <<>>

(***************************************************************************)
(* The keyboard and its controller.                                        *)
(***************************************************************************)
Stroke ==
  /\ \E s \in Strokes :
       /\ Len(sent) + Len(s) <= MaxCodes
       /\ sent' = sent \o s
       /\ queue' = queue \o s
  /\ UNCHANGED <<buffer, port, kernel, at, dropped, kbd_state, handed>>

LoadBuffer ==
  /\ buffer = Empty /\ queue # <<>>
  /\ buffer' = Head(queue)
  /\ queue' = Tail(queue)
  /\ irq' = TRUE
  /\ UNCHANGED <<sent, port, kbd_event, at, dropped, kbd_state, handed>>

(***************************************************************************)
(* The kernel.                                                             *)
(***************************************************************************)
kbd_irq ==
  /\ irq
  /\ irq' = FALSE
  /\ kbd_event' = TRUE
  /\ UNCHANGED <<device, at, dropped, kbd_state, handed>>

(* Mutated: the flag is read and not cleared; it is cleared and not read.  *)
SystemCall2Keeps(p) ==
  /\ p \notin dropped /\ at[p] = "poll"
  /\ kbd_event
  /\ at' = [at EXCEPT ![p] = "read"]
  /\ UNCHANGED <<device, kernel, dropped, kbd_state, handed>>

SystemCall2Forgets(p) ==
  /\ p \notin dropped /\ at[p] = "poll"
  /\ kbd_event /\ kbd_event' = FALSE
  /\ at' \in {at, [at EXCEPT ![p] = "read"]}
  /\ UNCHANGED <<device, irq, dropped, kbd_state, handed>>

(* System call 2.  One that returns false changes nothing.                 *)
SystemCall2(p) ==
  /\ p \notin dropped /\ at[p] = "poll"
  /\ kbd_event /\ kbd_event' = FALSE
  /\ at' = [at EXCEPT ![p] = "read"]
  /\ UNCHANGED <<device, irq, dropped, kbd_state, handed>>

(***************************************************************************)
(* keyboard().                                                             *)
(***************************************************************************)
(* Mutated: releasing the shift key falls to the default.                  *)
NextStateSticky(s, c) ==
  CASE c = "shift" -> [s EXCEPT !.shift = TRUE]
    [] c \in {"ctrl", "unctrl"} -> s
    [] OTHER -> [s EXCEPT !.escaped = ~s.escaped /\ c = "E0"]

(* Shift and ctrl are looked at before escaped is, and leave it set.       *)
NextState(s, c) ==
  CASE c = "shift" -> [s EXCEPT !.shift = TRUE]
    [] c = "unshift" -> [s EXCEPT !.shift = FALSE]
    [] c \in {"ctrl", "unctrl"} -> s
    [] OTHER -> [s EXCEPT !.escaped = ~s.escaped /\ c = "E0"]

(* Mutated: a key without a character passes its code on.                  *)
DecodedRaw(s, c) == IF c = "letter" /\ ~s.escaped THEN {"a", "A"} ELSE {c}

(* The ascii codes a press may be given.  Behind an escape only the arrows *)
(* assign one; the others pass on an uninitialized variable.               *)
Decoded(s, c) ==
  CASE c \in {"shift", "ctrl"} -> {"none"}
    [] c = "arrow" /\ s.escaped -> {"up"}
    [] c \notin {"shift", "ctrl", "arrow"} /\ s.escaped -> Ascii
    [] c = "letter" /\ ~s.escaped -> IF s.shift THEN {"A"} ELSE {"a"}
    [] OTHER -> {"none"}

keyboard(p) ==
  LET c == IF buffer = Empty THEN port ELSE buffer IN
  /\ p \notin dropped /\ at[p] = "read"
  /\ buffer' = Empty /\ port' = c
  /\ kbd_state' = [kbd_state EXCEPT ![p] = NextState(@, c)]
  /\ \E a \in IF c \in Presses THEN Decoded(kbd_state[p], c) ELSE {"none"} :
       handed' = Append(handed, [by |-> p, code |-> c, ascii |-> a])
  /\ at' = [at EXCEPT ![p] = "poll"]
  /\ UNCHANGED <<sent, queue, kernel, dropped>>

(* The program is killed, by its own fault or another's, or stops polling  *)
(* for good as the shell does when it has started the game.                *)
Drop(p) ==
  /\ p \notin dropped
  /\ dropped' = dropped \cup {p}
  /\ UNCHANGED <<device, kernel, at, kbd_state, handed>>

-----------------------------------------------------------------------------
Next ==
  \/ Stroke \/ LoadBuffer \/ kbd_irq
  \/ \E p \in Reader : SystemCall2(p) \/ keyboard(p) \/ Drop(p)

(* Interrupts are on in user mode, and the scheduler serves every program  *)
(* (module Tasking).                                                       *)
Spec ==
  /\ Init /\ [][Next]_vars
  /\ WF_vars(kbd_irq)
  /\ \A p \in Reader : WF_vars(SystemCall2(p)) /\ WF_vars(keyboard(p))

-----------------------------------------------------------------------------
TypeOK ==
  /\ sent \in Seq(Code) /\ queue \in Seq(Code)
  /\ buffer \in Code \cup {Empty} /\ port \in Code
  /\ irq \in BOOLEAN /\ kbd_event \in BOOLEAN
  /\ at \in [Reader -> {"poll", "read"}]
  /\ dropped \subseteq Reader
  /\ kbd_state \in [Reader -> [escaped : BOOLEAN, shift : BOOLEAN]]
  /\ handed \in Seq([by : Reader, code : Code, ascii : Ascii])

Reading == {p \in Reader : at[p] = "read"}

(* There is a byte in the controller exactly when it has been announced to *)
(* one party that has not acted on it: the interrupt, the flag, or one     *)
(* program about to read the port.  So no program reads a byte twice, none *)
(* reads another's, and no byte waits without anybody knowing.             *)
Announced ==
  /\ buffer # Empty <=> irq \/ kbd_event \/ Reading # {}
  /\ ~(irq /\ kbd_event)
  /\ irq \/ kbd_event => Reading = {}
  /\ \A p, q \in Reading : p = q

(* The codes the programs have read, the one in the buffer and those       *)
(* behind it are what the keyboard has sent, in order.                     *)
KeysInOrder ==
  sent = [i \in DOMAIN handed |-> handed[i].code]
           \o (IF buffer = Empty THEN <<>> ELSE <<buffer>>) \o queue

(* A byte in the controller is read, unless all programs have been         *)
(* dropped, or just the one that was about to read it.                     *)
KeysServed ==
  buffer # Empty ~> \/ buffer = Empty
                    \/ dropped = Reader
                    \/ Reading # {} /\ Reading \subseteq dropped

(* What a press means, from the codes before it alone: a key with a        *)
(* character has it, shifted or not, and an arrow is told by its escape.   *)
Shifted(i) ==
  \E j \in 1..i : /\ handed[j].code = "shift"
                  /\ \A k \in j..i : handed[k].code # "unshift"

Escaped(i) == i > 1 /\ handed[i - 1].code = "E0"

Meaning(i) ==
  CASE handed[i].code = "letter" -> IF Shifted(i) THEN "A" ELSE "a"
    [] handed[i].code = "arrow" /\ Escaped(i) -> "up"
    [] OTHER -> "none"

(* The keys that "scancodes" (kbd.c:3) and the cases of keyboard() know:   *)
(* other escaped keys get what happens to be on the program's stack.       *)
Known(i) ==
  /\ handed[i].code \in Presses
  /\ handed[i].code \in {"letter", "home"} => ~Escaped(i)

(* The last code but of modifiers that p has read before the n-th is an    *)
(* escape.                                                                 *)
Open(p, n) ==
  \E j \in 1..(n - 1) :
    /\ handed[j].by = p /\ handed[j].code = "E0"
    /\ \A k \in (j + 1)..(n - 1) :
         handed[k].by = p => handed[k].code \in Modifiers \cup {"E0"}

(* The last code of a shift key before the n-th has been read by p.        *)
FollowsShift(p, n) ==
  \A j \in 1..(n - 1) :
    handed[j].code \in Shifts =>
      \/ handed[j].by = p
      \/ \E k \in (j + 1)..(n - 1) : handed[k].code \in Shifts

(* Whatever is typed and however the codes fall to the programs, a press   *)
(* gets its character from a program that has read the whole stroke and    *)
(* the last change of shift, and whose last key before was not a lone      *)
(* escape.  So an escape that right ctrl or a stroke torn apart leaves     *)
(* behind spoils the next key, and no other.                               *)
KeysDecoded ==
  \A i \in DOMAIN handed :
    LET p     == handed[i].by
        first == IF Escaped(i) THEN i - 1 ELSE i
    IN  /\ Known(i) /\ handed[first].by = p
        /\ ~Open(p, first) /\ FollowsShift(p, i)
        => handed[i].ascii = Meaning(i)
=============================================================================
