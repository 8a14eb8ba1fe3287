-------------------------- MODULE InterruptsProofs ---------------------------
(***************************************************************************)
(* Proofs that interrupts get through in user mode only, and that they     *)
(* find everything ready there, for any lines, any exceptions and any      *)
(* vectors that programs call.                                             *)
(***************************************************************************)
EXTENDS Interrupts, SequenceTheorems, TLAPS

Frame == [vec : Vector \cup {SYSENTER}, flag : BOOLEAN,
          at : {"eoi", "body", "out", "return"}, full : BOOLEAN]

(* The stack of entries: at most two, the upper one an exception in a      *)
(* system call.  Interrupts are on, and held back for an instruction, just *)
(* before the return; each entry has saved whether it came from user mode. *)
Layers ==
  /\ CleanedUp
  /\ Len(stack) <= 2
  /\ stack = <<>> => ~shadow /\ (iflag <=> done = Booted)
  /\ stack # <<>> /\ Top.at = "return" => iflag /\ shadow
  /\ stack # <<>> /\ Top.at # "return" => ~iflag /\ ~shadow
  /\ stack # <<>> => /\ stack[1].flag <=> done = Booted
                     /\ stack[1].vec >= 32 => done = Booted
  /\ Len(stack) = 2 => /\ stack[1].at = "body" /\ stack[1].vec \in Calls
                       /\ stack[2].vec < 32 /\ ~stack[2].flag

(* An entry whose return address is taken off its stack has been made in   *)
(* user mode and stays there.                                              *)
Wrecked == done = Booted /\ ~CleanedUp

(* What hal_main has set up by which step.                                 *)
Progress ==
  /\ done < 2 => stack = <<>> /\ \A v \in Vector : idt[v] = "none"
  /\ done >= 2 => \A v \in Vector \ {32} : idt[v] = IF v \in 32..47 THEN "irq" ELSE "isr"
  /\ done >= 2 => idt[32] = IF done >= 5 THEN "new_irq0" ELSE "irq"
  /\ done >= 4 => interrupt_handlers[14] = "page_fault"
  /\ done >= 6 => /\ kernel_stack
                  /\ interrupt_handlers[128] = "Int80hSyscall"
                  /\ interrupt_handlers[33] = "kbd_irq"
  /\ done >= 8 => usermode_started /\ (dead \/ current_task)

IInv == TypeOK /\ (Layers \/ Wrecked) /\ Progress

-----------------------------------------------------------------------------
(* A stack that is pushed, popped, or changed at its top.                  *)
LEMMA Pushed ==
  ASSUME NEW s \in Seq(Frame), NEW f \in Frame
  PROVE  /\ Append(s, f) \in Seq(Frame) /\ Append(s, f) # <<>>
         /\ Len(Append(s, f)) = Len(s) + 1
         /\ \A k \in 1..Len(s) : Append(s, f)[k] = s[k]
         /\ Append(s, f)[Len(s) + 1] = f
OBVIOUS

LEMMA Popped ==
  ASSUME NEW s \in Seq(Frame), s # <<>>
  PROVE  /\ SubSeq(s, 1, Len(s) - 1) \in Seq(Frame)
         /\ Len(SubSeq(s, 1, Len(s) - 1)) = Len(s) - 1
         /\ \A k \in 1..Len(s) - 1 : SubSeq(s, 1, Len(s) - 1)[k] = s[k]
         /\ Len(s) = 1 => SubSeq(s, 1, Len(s) - 1) = <<>>
<1>1. Len(s) \in Nat \ {0}
  OBVIOUS
<1>2. /\ SubSeq(s, 1, Len(s) - 1) \in Seq(Frame)
      /\ Len(SubSeq(s, 1, Len(s) - 1)) = Len(s) - 1
      /\ \A k \in 1..Len(s) - 1 : SubSeq(s, 1, Len(s) - 1)[k] = s[k]
  <2>1. \A k \in 1..Len(s) - 1 : s[k] \in Frame
    BY <1>1
  <2>2. 1 \in Int /\ Len(s) - 1 \in Int /\ Len(s) - 1 >= 0
    BY <1>1
  <2>3. SubSeq(s, 1, Len(s) - 1) \in Seq(Frame)
    BY <2>1, <2>2, SubSeqProperties
  <2>4. Len(SubSeq(s, 1, Len(s) - 1)) =
          IF 1 <= Len(s) - 1 THEN Len(s) - 1 - 1 + 1 ELSE 0
    BY <2>1, <2>2, SubSeqProperties
  <2>5. \A k \in 1..Len(s) - 1 - 1 + 1 : SubSeq(s, 1, Len(s) - 1)[k] = s[1 + k - 1]
    BY <2>1, <2>2, SubSeqProperties
  <2>6. ASSUME NEW k \in 1..Len(s) - 1
        PROVE  SubSeq(s, 1, Len(s) - 1)[k] = s[k]
    <3>1. 1 + k - 1 = k /\ k \in 1..Len(s) - 1 - 1 + 1
      BY <1>1
    <3>2. SubSeq(s, 1, Len(s) - 1)[k] = s[1 + k - 1]
      BY <2>5, <3>1
    <3>3. QED
      BY <3>1, <3>2
  <2>7. Len(SubSeq(s, 1, Len(s) - 1)) = Len(s) - 1
    <3>1. ASSUME NEW x, NEW n \in Nat, x = IF 1 <= n THEN n - 1 + 1 ELSE 0
          PROVE  x = n
      BY <3>1
    <3>2. Len(s) - 1 \in Nat
      BY <1>1
    <3>3. QED
      BY <2>4, <3>1, <3>2, Zenon
  <2>8. QED
    BY <2>3, <2>6, <2>7
<1>3. Len(s) = 1 => SubSeq(s, 1, Len(s) - 1) = <<>>
  BY SubSeqEmpty
<1>4. QED
  BY <1>2, <1>3

AtTop(s, x) == [s EXCEPT ![Len(s)].at = x]
Alike(f, g) == f.vec = g.vec /\ f.flag = g.flag /\ f.full = g.full

LEMMA Moved ==
  ASSUME NEW s \in Seq(Frame), s # <<>>, NEW x \in {"eoi", "body", "out", "return"}
  PROVE  LET t == AtTop(s, x) IN
         /\ t \in Seq(Frame) /\ t # <<>> /\ Len(t) = Len(s)
         /\ \A k \in 1..Len(s) - 1 : t[k] = s[k]
         /\ \A k \in 1..Len(s) : Alike(t[k], s[k])
         /\ t[Len(t)].at = x
<1>1. Len(s) \in 1..Len(s) /\ s[Len(s)] \in Frame
  OBVIOUS
<1> DEFINE f == [s[Len(s)] EXCEPT !.at = x]
           t == AtTop(s, x)
<1>2. f \in Frame /\ Alike(f, s[Len(s)]) /\ f.at = x
  BY <1>1 DEF Frame, Alike
<1>3. t = [s EXCEPT ![Len(s)] = f]
  BY DEF AtTop
<1> HIDE DEF f, t
<1>4. t \in Seq(Frame) /\ Len(t) = Len(s) /\ t[Len(s)] = f
      /\ \A k \in 1..Len(s) - 1 : t[k] = s[k]
  BY <1>1, <1>2, <1>3
<1>5. QED
  BY <1>1, <1>2, <1>4 DEF t, Alike

-----------------------------------------------------------------------------
(* What the stack of a good state may become.                              *)
Stacked ==
  /\ stack \in Seq(Frame)
  /\ \A k \in DOMAIN stack : stack[k].vec \in Vector => idt[stack[k].vec] # "none"

LEMMA InTop ==
  ASSUME IInv, stack # <<>>
  PROVE  Top \in Frame /\ stack \in Seq(Frame)
<1>1. stack \in Seq(Frame)
  BY DEF IInv, TypeOK, Frame
<1>2. Len(stack) \in 1..Len(stack)
  BY <1>1
<1>3. QED
  BY <1>1, <1>2 DEF Top

LEMMA Pushing ==
  ASSUME IInv, kernel' = kernel,
         NEW v \in Vector \cup {SYSENTER}, NEW at \in {"eoi", "body"}, NEW full \in BOOLEAN,
         v \in Vector => idt[v] # "none",
         Push(v, at, full)
  PROVE  /\ Stacked' /\ stack' # <<>>
         /\ ~full \/ ~CleanedUp => ~CleanedUp'
         /\ CleanedUp /\ full => CleanedUp'
<1> DEFINE f == [vec |-> v, flag |-> iflag, at |-> at, full |-> full]
<1>1. stack \in Seq(Frame) /\ iflag \in BOOLEAN
  BY DEF IInv, TypeOK, Frame
<1>2. f \in Frame /\ f.vec = v /\ f.full = full
  BY <1>1 DEF Frame
<1>3. stack' = Append(stack, f)
  BY DEF Push
<1> HIDE DEF f
<1>4. /\ stack' \in Seq(Frame) /\ stack' # <<>> /\ Len(stack') = Len(stack) + 1
      /\ \A k \in 1..Len(stack) : stack'[k] = stack[k]
      /\ stack'[Len(stack) + 1] = f
  BY <1>1, <1>2, <1>3, Pushed
<1>5. Len(stack) \in Nat /\ idt' = idt
  BY <1>1 DEF kernel
<1>6. DOMAIN stack = 1..Len(stack) /\ DOMAIN stack' = 1..(Len(stack) + 1)
  BY <1>1, <1>4
<1>7. Stacked'
  <2>1. \A k \in DOMAIN stack : stack[k].vec \in Vector => idt[stack[k].vec] # "none"
    BY DEF IInv, TypeOK
  <2>2. QED
    BY <1>2, <1>4, <1>5, <1>6, <2>1 DEF Stacked
<1>8. /\ ~full \/ ~CleanedUp => ~CleanedUp'
      /\ CleanedUp /\ full => CleanedUp'
  BY <1>2, <1>4, <1>5, <1>6 DEF CleanedUp
<1>9. QED
  BY <1>4, <1>7, <1>8

(* The layers of entries that the stub can leave again.                    *)
LEMMA PushedOn ==
  ASSUME IInv, Layers, kernel' = kernel,
         NEW v \in Vector \cup {SYSENTER}, NEW at \in {"eoi", "body"},
         v \in Vector => idt[v] # "none",
         Push(v, at, TRUE), ~iflag', ~shadow',
         \/ stack = <<>> /\ (v >= 32 => done = Booted)
         \/ stack # <<>> /\ Top.at = "body" /\ Top.vec \in Calls /\ v < 32
  PROVE  Layers'
<1> DEFINE f == [vec |-> v, flag |-> iflag, at |-> at, full |-> TRUE]
<1>1. stack \in Seq(Frame) /\ iflag \in BOOLEAN
  BY DEF IInv, TypeOK, Frame
<1>2. f \in Frame /\ f.vec = v /\ (f.flag <=> iflag) /\ f.at = at
  BY <1>1 DEF Frame
<1>3. stack' = Append(stack, f)
  BY DEF Push
<1> HIDE DEF f
<1>4. /\ stack' # <<>> /\ Len(stack') = Len(stack) + 1
      /\ \A k \in 1..Len(stack) : stack'[k] = stack[k]
      /\ stack'[Len(stack) + 1] = f
  BY <1>1, <1>2, <1>3, Pushed
<1>5. Len(stack) \in Nat /\ done' = done
  BY <1>1 DEF kernel
<1>6. CleanedUp'
  BY Pushing DEF Layers
<1>7. Top' = f
  BY <1>4 DEF Top
<1>8. CASE stack = <<>> /\ (v >= 32 => done = Booted)
  <2>1. Len(stack) = 0 /\ (iflag <=> done = Booted)
    BY <1>8 DEF Layers
  <2>2. Len(stack') = 1 /\ stack'[1] = f
    BY <1>4, <2>1
  <2>3. QED
    BY <1>2, <1>4, <1>5, <1>6, <1>7, <1>8, <2>1, <2>2 DEF Layers
<1>9. CASE stack # <<>> /\ Top.at = "body" /\ Top.vec \in Calls /\ v < 32
  <2>1. Len(stack) = 1
    <3>1. Len(stack) # 2
      BY <1>9 DEF Layers, Top, Calls, SYSENTER
    <3>2. Len(stack) <= 2
      BY DEF Layers
    <3>3. Len(stack) # 0
      BY <1>1, <1>9
    <3>4. \A n \in Nat : n <= 2 /\ n # 2 /\ n # 0 => n = 1
      OBVIOUS
    <3>5. QED
      BY <1>5, <3>1, <3>2, <3>3, <3>4, Zenon
  <2>2. /\ Len(stack') = 2 /\ stack'[1] = stack[1] /\ stack'[2] = f
        /\ stack[1].at = "body" /\ stack[1].vec \in Calls
    BY <1>4, <1>9, <2>1 DEF Top
  <2>3. ~iflag /\ (stack[1].flag <=> done = Booted) /\ (stack[1].vec >= 32 => done = Booted)
    BY <1>9 DEF Layers
  <2>4. ~f.flag /\ f.at # "return" /\ f.vec < 32
    BY <1>2, <1>9, <2>3
  <2>5. /\ Top'.at # "return" /\ stack' # <<>>
        /\ stack'[1].at = "body" /\ stack'[1].vec \in Calls
        /\ stack'[2].vec < 32 /\ ~stack'[2].flag
    BY <1>4, <1>7, <2>2, <2>4
  <2>6. /\ stack'[1].flag <=> done' = Booted
        /\ stack'[1].vec >= 32 => done' = Booted
    BY <1>5, <2>2, <2>3
  <2>7. QED
    BY <1>6, <2>2, <2>5, <2>6 DEF Layers
<1>10. QED
  BY <1>8, <1>9

LEMMA Moving ==
  ASSUME IInv, kernel' = kernel,
         NEW at \in {"body", "out", "return"}, stack # <<>>, Move(at)
  PROVE  /\ Stacked' /\ stack' # <<>>
         /\ (CleanedUp => CleanedUp') /\ (~CleanedUp => ~CleanedUp')
         /\ Len(stack') = Len(stack) /\ Top'.at = at
         /\ \A k \in 1..Len(stack) - 1 : stack'[k] = stack[k]
         /\ \A k \in 1..Len(stack) :
              stack'[k].vec = stack[k].vec /\ stack'[k].flag = stack[k].flag
<1>1. stack \in Seq(Frame)
  BY DEF IInv, TypeOK, Frame
<1>2. /\ stack' \in Seq(Frame) /\ stack' # <<>> /\ Len(stack') = Len(stack)
      /\ \A k \in 1..Len(stack) - 1 : stack'[k] = stack[k]
      /\ \A k \in 1..Len(stack) : Alike(stack'[k], stack[k])
      /\ stack'[Len(stack')].at = at
  <2>1. stack' = AtTop(stack, at)
    BY DEF Move, AtTop
  <2>2. at \in {"eoi", "body", "out", "return"}
    OBVIOUS
  <2>3. QED
    BY <1>1, <2>1, <2>2, Moved
<1>3. Len(stack) \in Nat \ {0} /\ idt' = idt
  BY <1>1 DEF kernel
<1>4. DOMAIN stack = 1..Len(stack) /\ DOMAIN stack' = 1..Len(stack)
  BY <1>1, <1>2
<1>5. Stacked'
  <2>1. \A k \in DOMAIN stack : stack[k].vec \in Vector => idt[stack[k].vec] # "none"
    BY DEF IInv, TypeOK
  <2>2. QED
    BY <1>2, <1>3, <1>4, <2>1 DEF Stacked, Alike
<1>6. (CleanedUp => CleanedUp') /\ (~CleanedUp => ~CleanedUp')
  BY <1>2, <1>4 DEF CleanedUp, Alike
<1>7. Top'.at = at
  BY <1>2 DEF Top
<1>8. QED
  BY <1>2, <1>5, <1>6, <1>7 DEF Alike

LEMMA MovedOn ==
  ASSUME IInv, Layers, kernel' = kernel,
         NEW at \in {"body", "out", "return"}, stack # <<>>, Move(at),
         \/ at # "return" /\ Top.at # "return" /\ iflag' = iflag /\ shadow' = shadow
         \/ at = "return" /\ iflag' /\ shadow'
  PROVE  Layers'
<1>1. /\ stack' # <<>> /\ CleanedUp' /\ Len(stack') = Len(stack) /\ Top'.at = at
      /\ \A k \in 1..Len(stack) - 1 : stack'[k] = stack[k]
      /\ \A k \in 1..Len(stack) :
           stack'[k].vec = stack[k].vec /\ stack'[k].flag = stack[k].flag
  BY Moving DEF Layers
<1>2. Len(stack) \in Nat \ {0} /\ done' = done /\ Len(stack) <= 2
  BY InTop DEF kernel, Layers
<1>3. stack'[1].vec = stack[1].vec /\ stack'[1].flag = stack[1].flag
  BY <1>1, <1>2
<1>4. Len(stack) = 2 => /\ stack'[1] = stack[1]
                        /\ stack'[2].vec = stack[2].vec /\ stack'[2].flag = stack[2].flag
  BY <1>1, <1>2
<1>5. Top.at # "return" => ~iflag /\ ~shadow
  BY DEF Layers
<1>6. QED
  BY <1>1, <1>2, <1>3, <1>4, <1>5 DEF Layers

LEMMA Popping ==
  ASSUME IInv, Return
  PROVE  /\ Stacked' /\ iflag' \in BOOLEAN /\ ~(done < 2)
         /\ Layers => Layers'
         /\ ~CleanedUp => ~CleanedUp'
<1>1. stack \in Seq(Frame) /\ stack # <<>> /\ Top.at = "return" /\ Top.full
  BY DEF IInv, TypeOK, Frame, Return, Entered
<1>2. /\ stack' \in Seq(Frame) /\ Len(stack') = Len(stack) - 1
      /\ \A k \in 1..Len(stack) - 1 : stack'[k] = stack[k]
      /\ Len(stack) = 1 => stack' = <<>>
  <2>1. stack' = SubSeq(stack, 1, Len(stack) - 1)
    BY DEF Return
  <2>2. QED
    BY <1>1, <2>1, Popped
<1>3. DOMAIN stack = 1..Len(stack) /\ DOMAIN stack' = 1..(Len(stack) - 1)
      /\ Len(stack) \in Nat \ {0}
  BY <1>1, <1>2
<1>4. /\ done' = done /\ idt' = idt /\ ~shadow'
      /\ iflag' <=> IF Top.vec = SYSENTER THEN iflag ELSE Top.flag
  BY DEF Return, kernel
<1>5. Stacked'
  <2>1. \A k \in DOMAIN stack : stack[k].vec \in Vector => idt[stack[k].vec] # "none"
    BY DEF IInv, TypeOK
  <2>2. QED
    BY <1>1, <1>2, <1>3, <1>4, <2>1 DEF Stacked
<1>6. iflag' \in BOOLEAN
  <2>1. Top \in Frame /\ iflag \in BOOLEAN
    BY <1>1, InTop DEF IInv, TypeOK
  <2>2. Top.flag \in BOOLEAN
    BY <2>1 DEF Frame
  <2>3. QED
    BY <2>1, <2>2 DEF Return
<1>7. (~CleanedUp => ~CleanedUp') /\ (CleanedUp => CleanedUp')
  <2>1. \A k \in 1..Len(stack) : k # Len(stack) => k \in 1..(Len(stack) - 1)
    <3>1. \A n \in Nat \ {0} : \A k \in 1..n : k # n => k \in 1..(n - 1)
      OBVIOUS
    <3>2. QED
      BY <1>3, <3>1, Zenon
  <2>2. stack[Len(stack)].full
    BY <1>1 DEF Top
  <2>3. \A k \in 1..(Len(stack) - 1) : k \in 1..Len(stack)
    BY <1>3
  <2>4. QED
    BY <1>2, <1>3, <2>1, <2>2, <2>3 DEF CleanedUp
<1>8. ASSUME Layers PROVE Layers'
  <2>1. Len(stack) = 1 \/ Len(stack) = 2
    <3>1. Len(stack) <= 2
      BY <1>8 DEF Layers
    <3>2. \A n \in Nat \ {0} : n <= 2 => n = 1 \/ n = 2
      OBVIOUS
    <3>3. QED
      BY <1>3, <3>1, <3>2, Zenon
  <2>2. CleanedUp' /\ iflag
    BY <1>1, <1>7, <1>8 DEF Layers
  <2>3. CASE Len(stack) = 1
    <3>1. stack' = <<>> /\ Len(stack') = 0 /\ Top = stack[1]
      BY <1>2, <2>3 DEF Top
    <3>2. iflag' <=> done = Booted
      BY <1>1, <1>4, <1>8, <2>2, <3>1 DEF Layers, SYSENTER
    <3>3. QED
      BY <1>4, <2>2, <3>1, <3>2 DEF Layers
  <2>4. CASE Len(stack) = 2
    <3>1. /\ stack[1].at = "body" /\ stack[1].vec \in Calls
          /\ Top.vec < 32 /\ ~Top.flag
      BY <1>8, <2>4 DEF Layers, Top
    <3>2. Top.vec # SYSENTER
      BY <3>1 DEF SYSENTER
    <3>3. ~iflag'
      BY <1>4, <3>1, <3>2
    <3>4. Len(stack') = 1 /\ stack'[1] = stack[1] /\ stack' # <<>>
      BY <1>2, <2>4
    <3>5. Top'.at = "body"
      BY <3>1, <3>4 DEF Top
    <3>6. /\ stack[1].flag <=> done = Booted
          /\ stack[1].vec >= 32 => done = Booted
      BY <1>1, <1>8 DEF Layers
    <3>7. QED
      BY <1>4, <2>2, <3>3, <3>4, <3>5, <3>6 DEF Layers
  <2>5. QED
    BY <2>1, <2>3, <2>4
<1>9. ~(done < 2)
  BY <1>1 DEF IInv, Progress
<1>10. QED
  BY <1>5, <1>6, <1>7, <1>8, <1>9

(* What remains to be said of a step that is not one of hal_main.          *)
LEMMA Remaining ==
  ASSUME IInv, Stacked', Layers' \/ Wrecked', UNCHANGED kernel,
         dead' \in BOOLEAN, dead => dead', iflag' \in BOOLEAN, shadow' \in BOOLEAN,
         pending' \subseteq Line, master' \subseteq 0..7, slave' \subseteq 8..15,
         done < 2 => stack' = <<>>
  PROVE  IInv'
<1>1. TypeOK'
  BY DEF IInv, TypeOK, Stacked, Frame, kernel
<1>2. Progress'
  BY DEF IInv, Progress, kernel
<1>3. QED
  BY <1>1, <1>2 DEF IInv

LEMMA Types ==
  IInv => /\ dead \in BOOLEAN /\ iflag \in BOOLEAN /\ shadow \in BOOLEAN
          /\ pending \subseteq Line /\ master \subseteq 0..7 /\ slave \subseteq 8..15
          /\ done \in 0..9 /\ Stacked /\ (Layers \/ Wrecked)
          /\ idt \in [Vector -> Stub]
          /\ done < 2 => stack = <<>>
BY DEF IInv, TypeOK, Progress, Stacked, Frame, Booted

(* A step that leaves the stack and the interrupt flag alone.              *)
LEMMA Still ==
  ASSUME IInv, UNCHANGED <<kernel, iflag, shadow, stack>>
  PROVE  Stacked' /\ (Layers' \/ Wrecked') /\ (done < 2 => stack' = <<>>)
<1>1. IInv => Stacked /\ (Layers \/ Wrecked) /\ (done < 2 => stack = <<>>)
  BY Types
<1>2. QED
  BY <1>1 DEF Stacked, Layers, Wrecked, CleanedUp, Top, kernel

(* An entry by gate v: onto layers as PushedOn has them, from user mode    *)
(* without an error code that the stub expects, or where such an entry is. *)
LEMMA Gated ==
  ASSUME IInv, UNCHANGED kernel, ~dead,
         NEW v \in Vector, NEW full \in BOOLEAN, Gate(v, full),
         pending' \subseteq Line, master' \subseteq 0..7, slave' \subseteq 8..15,
         \/ Wrecked
         \/ ~full /\ done = Booted
         \/ full /\ stack = <<>> /\ (v >= 32 => done = Booted)
         \/ full /\ stack # <<>> /\ Top.at = "body" /\ Top.vec \in Calls /\ v < 32
  PROVE  IInv'
<1>1. CASE idt[v] = "none"
  <2>1. dead' = TRUE /\ iflag' = iflag /\ shadow' = shadow /\ stack' = stack
    BY <1>1 DEF Gate
  <2>2. Stacked' /\ (Layers' \/ Wrecked') /\ (done < 2 => stack' = <<>>)
    BY <2>1, Still
  <2>3. QED
    BY <2>1, <2>2, Types, Remaining
<1>2. CASE idt[v] # "none"
  <2>1. /\ Push(v, First(v), full) /\ iflag' = FALSE /\ shadow' = FALSE /\ dead' = dead
        /\ First(v) \in {"eoi", "body"}
    BY <1>2 DEF Gate, First
  <2>2. Stacked' /\ (~full \/ ~CleanedUp => ~CleanedUp')
    BY <1>2, <2>1, Pushing
  <2>3. Layers' \/ Wrecked'
    <3>1. CASE Wrecked \/ (~full /\ done = Booted)
      BY <2>2, <3>1 DEF Wrecked, kernel
    <3>2. CASE ~Wrecked /\ ~(~full /\ done = Booted)
      <4>1. Layers /\ full = TRUE
        BY <3>2, Types
      <4>2. Push(v, First(v), TRUE)
        BY <2>1, <4>1
      <4>3. Layers'
        BY <1>2, <2>1, <3>2, <4>1, <4>2, PushedOn
      <4>4. QED
        BY <4>3
    <3>3. QED
      BY <3>1, <3>2
  <2>4. ~(done < 2)
    BY <1>2 DEF IInv, Progress
  <2>5. QED
    BY <2>1, <2>2, <2>3, <2>4, Types, Remaining
<1>3. QED
  BY <1>1, <1>2

-----------------------------------------------------------------------------
(* When the kernel is started nothing is set up and no entry is on its     *)
(* stack.                                                                  *)
THEOREM InitIInv == Init => IInv
<1> SUFFICES ASSUME Init PROVE IInv
  OBVIOUS
<1>1. /\ done = 0 /\ stack = <<>> /\ ~iflag /\ ~shadow
      /\ idt = [v \in Vector |-> "none"] /\ interrupt_handlers = [v \in Vector |-> "none"]
  BY DEF Init
<1>2. TypeOK
  <2>1. idt \in [Vector -> Stub] /\ interrupt_handlers \in [Vector -> Handler]
    BY <1>1 DEF Stub, Handler
  <2>2. DOMAIN stack = {} /\ stack \in Seq(Frame)
    BY <1>1
  <2>3. \A k \in DOMAIN stack : stack[k].vec \in Vector => idt[stack[k].vec] # "none"
    BY <2>2
  <2>4. /\ kernel_stack \in BOOLEAN /\ current_task \in BOOLEAN
        /\ usermode_started \in BOOLEAN /\ dead \in BOOLEAN
        /\ iflag \in BOOLEAN /\ shadow \in BOOLEAN
    BY DEF Init
  <2>5. pending \subseteq Line /\ master \subseteq 0..7 /\ slave \subseteq 8..15
    BY Zenon DEF Init
  <2>6. done \in 0..9
    BY DEF Init
  <2>7. QED
    BY <2>1, <2>2, <2>3, <2>4, <2>5, <2>6 DEF TypeOK, Booted, Frame
<1>3. Layers
  BY <1>1 DEF Layers, CleanedUp, Booted
<1>4. Progress
  BY <1>1 DEF Progress
<1>5. QED
  BY <1>2, <1>3, <1>4 DEF IInv

LEMMA Interrupted ==
  IInv /\ Interruptible => /\ ~dead
                           /\ Wrecked \/ (stack = <<>> /\ done = Booted)
BY DEF IInv, Layers, Interruptible

LEMMA Lines ==
  ASSUME NEW i \in Line
  PROVE  i \in 0..15 /\ 32 + i \in Vector /\ Input(i) \in 0..7
BY InterruptsAssumption DEF Vector, Input

(* The steps of the processor and the controllers.                         *)
LEMMA EntryStep ==
  ASSUME IInv,
         \/ \E i \in Line : Request(i) \/ Deliver(i)
         \/ Spurious \/ IntN \/ SyscallEntry \/ Exception \/ ReturnAstray
  PROVE  IInv'
<1>1. ASSUME NEW i \in Line, Request(i) PROVE IInv'
  <2>1. UNCHANGED <<kernel, iflag, shadow, stack, dead>>
    BY <1>1 DEF Request
  <2>2. Stacked' /\ (Layers' \/ Wrecked') /\ (done < 2 => stack' = <<>>)
    BY <2>1, Still
  <2>3. QED
    BY <1>1, <2>1, <2>2, Types, Remaining DEF Request
<1>2. ASSUME NEW i \in Line, Deliver(i) PROVE IInv'
  <2>1. ~dead /\ (Wrecked \/ (stack = <<>> /\ done = Booted))
    BY <1>2, Interrupted DEF Deliver
  <2>2. pending' \subseteq Line /\ master' \subseteq 0..7 /\ slave' \subseteq 8..15
    BY <1>2, Lines, Types DEF Deliver
  <2>3. UNCHANGED kernel /\ Gate(32 + i, TRUE)
    BY <1>2 DEF Deliver
  <2>4. QED
    BY <2>1, <2>2, <2>3, Lines, Gated
<1>3. ASSUME UNCHANGED pic
      PROVE  pending' \subseteq Line /\ master' \subseteq 0..7 /\ slave' \subseteq 8..15
  BY <1>3, Types DEF pic
<1>4. CASE Spurious
  <2>1. ~dead /\ (Wrecked \/ (stack = <<>> /\ done = Booted))
    BY <1>4, Interrupted DEF Spurious
  <2>2. UNCHANGED kernel /\ UNCHANGED pic /\ Gate(32 + 7, TRUE)
    BY <1>4 DEF Spurious
  <2>3. 32 + 7 \in Vector
    BY DEF Vector
  <2>4. QED
    BY <1>3, <2>1, <2>2, <2>3, Gated
<1>5. CASE IntN
  <2>1. stack = <<>> /\ done = Booted /\ ~dead
    BY <1>5 DEF IntN, User
  <2>2. PICK v \in Soft : Gate(v, v \notin ErrorCode)
    BY <1>5 DEF IntN
  <2>3. v \in Vector /\ (v \notin ErrorCode) \in BOOLEAN
    BY InterruptsAssumption
  <2>4. UNCHANGED kernel /\ UNCHANGED pic
    BY <1>5 DEF IntN
  <2>5. QED
    BY <1>3, <2>1, <2>2, <2>3, <2>4, Gated
<1>6. CASE SyscallEntry
  <2>1. /\ stack = <<>> /\ done = Booted /\ ~dead /\ ~iflag' /\ ~shadow'
        /\ kernel' = kernel /\ UNCHANGED pic /\ dead' = dead
        /\ iflag' = FALSE /\ shadow' = FALSE
        /\ Push(SYSENTER, "body", TRUE)
    BY <1>6 DEF SyscallEntry, User
  <2>2. SYSENTER \in Vector \cup {SYSENTER} /\ SYSENTER \notin Vector
    BY DEF SYSENTER, Vector
  <2>3. Stacked'
    BY <2>1, <2>2, Pushing
  <2>4. Layers
    BY <2>1, Types DEF Wrecked, CleanedUp
  <2>5. Layers'
    BY <2>1, <2>2, <2>4, PushedOn
  <2>6. ~(done < 2)
    BY <2>1 DEF Booted
  <2>7. QED
    BY <1>3, <2>1, <2>3, <2>5, <2>6, Types, Remaining
<1>7. CASE Exception
  <2>1. PICK v \in Fault : Gate(v, TRUE)
    BY <1>7 DEF Exception
  <2>2. v \in Vector /\ v < 32
    BY InterruptsAssumption DEF Vector
  <2>3. UNCHANGED kernel /\ UNCHANGED pic /\ ~dead
    BY <1>7 DEF Exception
  <2>4. \/ stack = <<>> /\ (v >= 32 => done = Booted)
        \/ stack # <<>> /\ Top.at = "body" /\ Top.vec \in Calls /\ v < 32
    BY <1>7, <2>2 DEF Exception, Vector
  <2>5. QED
    BY <1>3, <2>1, <2>2, <2>3, <2>4, Gated
<1>8. CASE ReturnAstray
  <2>1. /\ ~dead /\ stack # <<>> /\ ~Top.full /\ Gate(13, TRUE)
        /\ UNCHANGED kernel /\ UNCHANGED pic
    BY <1>8 DEF ReturnAstray, Entered
  <2>2. ~CleanedUp
    <3>1. Len(stack) \in DOMAIN stack
      BY <2>1, InTop
    <3>2. QED
      BY <2>1, <3>1 DEF CleanedUp, Top
  <2>3. Wrecked
    BY <2>2, Types DEF Layers
  <2>4. 13 \in Vector
    BY DEF Vector
  <2>5. QED
    BY <1>3, <2>1, <2>3, <2>4, Gated
<1>9. QED
  BY <1>1, <1>2, <1>4, <1>5, <1>6, <1>7, <1>8

(* The steps of the stubs and what they call.                              *)
LEMMA StubStep ==
  ASSUME IInv, (Handle /\ ~ReturnAstray) \/ SystemCall
  PROVE  IInv'
<1>1. CASE Return
  <2>1. /\ Stacked' /\ iflag' \in BOOLEAN /\ ~(done < 2)
        /\ (Layers => Layers') /\ (~CleanedUp => ~CleanedUp')
    BY <1>1, Popping
  <2>2. UNCHANGED kernel /\ dead' = dead /\ shadow' = FALSE /\ UNCHANGED pic
    BY <1>1 DEF Return
  <2>3. Layers' \/ Wrecked'
    BY <2>1, <2>2, Types DEF Wrecked, kernel
  <2>4. QED
    BY <2>1, <2>2, <2>3, Types, Remaining DEF pic
<1>2. CASE Sti
  <2>1. /\ stack # <<>> /\ Top.at = "out" /\ Move("return") /\ iflag' = TRUE
        /\ shadow' = ~iflag /\ UNCHANGED kernel /\ dead' = dead /\ UNCHANGED pic
    BY <1>2 DEF Sti, Entered
  <2>2. Stacked' /\ stack' # <<>> /\ (~CleanedUp => ~CleanedUp')
    BY <2>1, Moving
  <2>3. CASE Layers
    <3>1. shadow' = TRUE
      BY <2>1, <2>3 DEF Layers
    <3>2. Layers'
      BY <2>1, <2>3, <3>1, MovedOn
    <3>3. QED
      BY <2>1, <2>2, <3>1, <3>2, Types, Remaining DEF pic
  <2>4. CASE Wrecked
    <3>1. Wrecked' /\ shadow' \in BOOLEAN /\ ~(done < 2)
      BY <2>1, <2>2, <2>4 DEF Wrecked, kernel, Booted
    <3>2. QED
      BY <2>1, <2>2, <3>1, Types, Remaining DEF pic
  <2>5. QED
    BY <2>3, <2>4, Types
<1>3. ASSUME NEW at \in {"body", "out"}, stack # <<>>, Top.at # "return",
             \/ Move(at) /\ dead' = dead
             \/ stack' = stack /\ dead' = TRUE,
             UNCHANGED kernel, iflag' = iflag, shadow' = shadow, pending' = pending,
             master' \subseteq master, slave' \subseteq slave
      PROVE  IInv'
  <2>1. CASE Move(at) /\ dead' = dead
    <3>1. Stacked' /\ stack' # <<>> /\ (~CleanedUp => ~CleanedUp')
      BY <1>3, <2>1, Moving
    <3>2. Layers => Layers'
      BY <1>3, <2>1, MovedOn
    <3>3. Layers' \/ Wrecked'
      BY <1>3, <3>1, <3>2, Types DEF Wrecked, kernel
    <3>4. ~(done < 2)
      BY <1>3, Types
    <3>5. QED
      BY <1>3, <2>1, <3>1, <3>3, <3>4, Types, Remaining
  <2>2. CASE stack' = stack /\ dead' = TRUE
    <3>1. Stacked' /\ (Layers' \/ Wrecked') /\ (done < 2 => stack' = <<>>)
      BY <1>3, <2>2, Still
    <3>2. QED
      BY <1>3, <2>2, <3>1, Types, Remaining
  <2>3. QED
    BY <1>3, <2>1, <2>2
<1>4. CASE Acknowledge
  BY <1>3, <1>4 DEF Acknowledge, Entered, EndOfInterrupt
<1>5. CASE switch_task
  BY <1>3, <1>5 DEF switch_task, Entered, pic
<1>6. CASE irq_handler
  BY <1>3, <1>6 DEF irq_handler, Entered, pic
<1>7. CASE isr_handler
  BY <1>3, <1>7 DEF isr_handler, panic, Entered, pic
<1>8. CASE SystemCall
  BY <1>3, <1>8 DEF SystemCall, Entered, pic
<1>9. QED
  BY <1>1, <1>2, <1>4, <1>5, <1>6, <1>7, <1>8 DEF Handle

LEMMA Replaced ==
  ASSUME NEW A, NEW B, NEW f \in [A -> B], NEW a \in A, NEW b \in B
  PROVE  /\ [f EXCEPT ![a] = b] \in [A -> B]
         /\ [f EXCEPT ![a] = b][a] = b
         /\ \A c \in A \ {a} : [f EXCEPT ![a] = b][c] = f[c]
OBVIOUS

(* The steps of hal_main.                                                  *)
LEMMA BootStep ==
  ASSUME IInv, hal_main
  PROVE  IInv'
<1> USE DEF Booted
<1>1. PICK n \in 0..8 : Step(n)
  BY DEF hal_main, init_gdt, init_idt, init_timer, init_paging, Register,
         init_tasking, InitSyscalls, LoadProcess, start_usermode, system
<1>2. /\ ~dead /\ stack = <<>> /\ stack' = <<>> /\ done = n /\ done' = n + 1
      /\ UNCHANGED pic /\ ~shadow /\ ~iflag /\ UNCHANGED shadow
  BY <1>1 DEF hal_main, init_gdt, init_idt, init_timer, init_paging, Register,
     init_tasking, InitSyscalls, LoadProcess, start_usermode, system, Step, Quiet,
     IInv, Layers, Wrecked
<1>3. ASSUME n # 8 => iflag' = iflag, n = 8 => iflag' = TRUE
      PROVE  Layers'
  BY <1>2, <1>3 DEF Layers, CleanedUp
<1>4. ASSUME idt' \in [Vector -> Stub], interrupt_handlers' \in [Vector -> Handler],
             kernel_stack' \in BOOLEAN, current_task' \in BOOLEAN,
             usermode_started' \in BOOLEAN, dead' \in BOOLEAN, iflag' \in BOOLEAN
      PROVE  TypeOK'
  <2>1. DOMAIN stack' = {} /\ stack' \in Seq([vec : Vector \cup {SYSENTER}, flag : BOOLEAN,
          at : {"eoi", "body", "out", "return"}, full : BOOLEAN])
    BY <1>2
  <2>2. done' \in 0..9
    BY <1>2
  <2>3. QED
    BY <1>2, <1>4, <2>1, <2>2 DEF IInv, TypeOK, pic
<1>5. CASE init_gdt
  <2>1. n = 0 /\ UNCHANGED <<idt, interrupt_handlers, kernel_stack, current_task,
                             usermode_started, iflag, dead>>
    BY <1>2, <1>5 DEF init_gdt, Step, Quiet
  <2>2. TypeOK' /\ Layers'
    BY <1>3, <1>4, <2>1 DEF IInv, TypeOK
  <2>3. Progress'
    BY <1>2, <2>1 DEF IInv, Progress
  <2>4. QED
    BY <2>2, <2>3 DEF IInv
<1>6. CASE init_idt
  <2>1. n = 1 /\ idt' = Gates /\ UNCHANGED <<interrupt_handlers, kernel_stack, current_task,
                             usermode_started, iflag, dead>>
    BY <1>2, <1>6 DEF init_idt, Step, Quiet
  <2>2. Gates \in [Vector -> Stub]
    BY DEF Gates, Stub
  <2>3. TypeOK' /\ Layers'
    BY <1>3, <1>4, <2>1, <2>2 DEF IInv, TypeOK
  <2>4. Progress'
    BY <1>2, <2>1 DEF IInv, Progress, Gates, Vector
  <2>5. QED
    BY <2>3, <2>4 DEF IInv
<1>7. CASE init_timer
  <2>1. /\ n = 2 /\ interrupt_handlers' = [interrupt_handlers EXCEPT ![32] = "timer_callback"]
        /\ UNCHANGED <<idt, kernel_stack, current_task, usermode_started, iflag, dead>>
    BY <1>2, <1>7 DEF init_timer, Register, Step, Quiet
  <2>2. TypeOK' /\ Layers'
    <3>1. interrupt_handlers' \in [Vector -> Handler]
      <4>1. 32 \in Vector /\ "timer_callback" \in Handler /\ interrupt_handlers \in [Vector -> Handler]
        BY DEF Vector, Handler, IInv, TypeOK
      <4>2. QED
        BY <2>1, <4>1, Replaced
    <3>2. QED
      BY <1>3, <1>4, <2>1, <3>1 DEF IInv, TypeOK
  <2>3. Progress'
    BY <1>2, <2>1 DEF IInv, Progress
  <2>4. QED
    BY <2>2, <2>3 DEF IInv
<1>8. CASE init_paging
  <2>1. /\ n = 3 /\ interrupt_handlers' = [interrupt_handlers EXCEPT ![14] = "page_fault"]
        /\ UNCHANGED <<idt, kernel_stack, current_task, usermode_started, iflag, dead>>
    BY <1>2, <1>8 DEF init_paging, Register, Step, Quiet
  <2>2. TypeOK' /\ Layers'
    <3>1. interrupt_handlers' \in [Vector -> Handler]
      <4>1. 14 \in Vector /\ "page_fault" \in Handler /\ interrupt_handlers \in [Vector -> Handler]
        BY DEF Vector, Handler, IInv, TypeOK
      <4>2. QED
        BY <2>1, <4>1, Replaced
    <3>2. QED
      BY <1>3, <1>4, <2>1, <3>1 DEF IInv, TypeOK
  <2>3. Progress'
    BY <1>2, <2>1 DEF IInv, Progress, TypeOK, Vector
  <2>4. QED
    BY <2>2, <2>3 DEF IInv
<1>9. CASE init_tasking
  <2>1. /\ n = 4 /\ idt' = [idt EXCEPT ![32] = "new_irq0"]
        /\ UNCHANGED <<interrupt_handlers, kernel_stack, current_task,
                       usermode_started, iflag, dead>>
    BY <1>2, <1>9 DEF init_tasking, Step, Quiet
  <2>2. TypeOK' /\ Layers'
    <3>1. idt' \in [Vector -> Stub]
      <4>1. 32 \in Vector /\ "new_irq0" \in Stub /\ idt \in [Vector -> Stub]
        BY DEF Vector, Stub, IInv, TypeOK
      <4>2. QED
        BY <2>1, <4>1, Replaced
    <3>2. QED
      BY <1>3, <1>4, <2>1, <3>1 DEF IInv, TypeOK
  <2>3. Progress'
    BY <1>2, <2>1 DEF IInv, Progress, TypeOK, Vector
  <2>4. QED
    BY <2>2, <2>3 DEF IInv
<1>10. CASE InitSyscalls
  <2>1. /\ n = 5 /\ kernel_stack' = TRUE
        /\ interrupt_handlers' =
             [interrupt_handlers EXCEPT ![128] = "Int80hSyscall", ![33] = "kbd_irq"]
        /\ UNCHANGED <<idt, current_task, usermode_started, iflag, dead>>
    BY <1>2, <1>10 DEF InitSyscalls, Step, Quiet
  <2>2. /\ interrupt_handlers' \in [Vector -> Handler]
        /\ interrupt_handlers'[128] = "Int80hSyscall" /\ interrupt_handlers'[33] = "kbd_irq"
        /\ interrupt_handlers'[14] = interrupt_handlers[14]
    <3> DEFINE h == [interrupt_handlers EXCEPT ![128] = "Int80hSyscall"]
    <3>1. /\ 128 \in Vector /\ 33 \in Vector \ {128} /\ 14 \in Vector \ {128, 33}
          /\ "Int80hSyscall" \in Handler /\ "kbd_irq" \in Handler
          /\ interrupt_handlers \in [Vector -> Handler]
      BY DEF Vector, Handler, IInv, TypeOK
    <3>2. h \in [Vector -> Handler] /\ h[128] = "Int80hSyscall" /\ h[14] = interrupt_handlers[14]
      BY <3>1, Replaced
    <3>3. interrupt_handlers' = [h EXCEPT ![33] = "kbd_irq"]
      BY <2>1
    <3> HIDE DEF h
    <3>4. 128 # 33
      OBVIOUS
    <3>5. QED
      BY <3>1, <3>2, <3>3, <3>4, Replaced
  <2>3. TypeOK' /\ Layers' /\ Progress'
    <3>1. TypeOK' /\ Layers'
      BY <1>3, <1>4, <2>1, <2>2 DEF IInv, TypeOK
    <3>2. Progress'
      BY <1>2, <2>1, <2>2 DEF IInv, Progress
    <3>3. QED
      BY <3>1, <3>2
  <2>4. QED
    BY <2>3 DEF IInv
<1>11. CASE LoadProcess
  <2>1. /\ n = 6 /\ current_task' \in BOOLEAN
        /\ UNCHANGED <<idt, interrupt_handlers, kernel_stack, usermode_started, iflag, dead>>
    BY <1>2, <1>11 DEF LoadProcess, Step, Quiet
  <2>2. TypeOK' /\ Layers'
    BY <1>3, <1>4, <2>1 DEF IInv, TypeOK
  <2>3. Progress'
    BY <1>2, <2>1 DEF IInv, Progress
  <2>4. QED
    BY <2>2, <2>3 DEF IInv
<1>12. CASE start_usermode
  <2>1. /\ n = 7 /\ usermode_started' = TRUE /\ dead' = ~current_task
        /\ UNCHANGED <<idt, interrupt_handlers, kernel_stack, current_task, iflag>>
    BY <1>2, <1>12 DEF start_usermode, Step
  <2>2. TypeOK' /\ Layers'
    BY <1>3, <1>4, <2>1 DEF IInv, TypeOK
  <2>3. dead' \/ current_task'
    BY <2>1, Zenon
  <2>4. Progress'
    BY <1>2, <2>1, <2>3 DEF IInv, Progress
  <2>5. QED
    BY <2>2, <2>4 DEF IInv
<1>13. CASE system
  <2>1. /\ n = 8 /\ iflag' = TRUE
        /\ UNCHANGED <<idt, interrupt_handlers, kernel_stack, current_task,
                       usermode_started, dead>>
    BY <1>2, <1>13 DEF system, Step, Quiet
  <2>2. TypeOK' /\ Layers'
    BY <1>3, <1>4, <2>1 DEF IInv, TypeOK
  <2>3. Progress'
    BY <1>2, <2>1 DEF IInv, Progress
  <2>4. QED
    BY <2>2, <2>3 DEF IInv
<1>14. QED
  BY <1>5, <1>6, <1>7, <1>8, <1>9, <1>10, <1>11, <1>12, <1>13 DEF hal_main

(* Each step of hal_main, of an entry's stub and of the controllers keeps  *)
(* what the stack looks like and what has been set up.                     *)
THEOREM NextIInv == IInv /\ [Next]_vars => IInv'
<1> SUFFICES ASSUME IInv, [Next]_vars PROVE IInv'
  OBVIOUS
<1>1. CASE UNCHANGED vars
  BY <1>1 DEF vars, kernel, pic, IInv, TypeOK, Layers, Wrecked, CleanedUp, Progress, Top
<1>2. CASE hal_main
  BY <1>2, BootStep
<1>3. CASE Next /\ ~hal_main
  BY <1>3, EntryStep, StubStep DEF Next, Handle
<1>4. QED
  BY <1>1, <1>2, <1>3

(* The inductive invariant: types and Progress hold throughout, Layers     *)
(* until a return address is lost.                                         *)
THEOREM InvariantHolds == Spec => []IInv
BY InitIInv, NextIInv, PTL DEF Spec

-----------------------------------------------------------------------------
(* Whatever interrupts, faults and calls occur in whatever order, every    *)
(* entry into the kernel has come by a gate that leads to a stub.          *)
THEOREM EntriesTyped == Spec => []TypeOK
<1>1. IInv => TypeOK
  BY DEF IInv
<1>2. QED
  BY <1>1, InvariantHolds, PTL

(* Whichever gates programs call, the kernel is not interrupted and its    *)
(* stack holds no more than an entry from user mode and an exception in    *)
(* it, until an int instruction names a vector whose stub takes an error   *)
(* code: what the other modules rest on when they take a system call or an *)
(* interrupt for one step.                                                 *)
THEOREM KernelNeverInterrupted == Spec => []OnlyInUser
<1>1. ASSUME IInv, CleanedUp
      PROVE  /\ Interruptible <=> User
             /\ Len(stack) <= 2
             /\ Len(stack) = 2 => stack[1].vec \in Calls /\ stack[2].vec < 32
  <2>1. Layers
    BY <1>1 DEF IInv, Wrecked
  <2>2. Interruptible <=> User
    BY <2>1 DEF Layers, Interruptible, User
  <2>3. QED
    BY <2>1, <2>2 DEF Layers
<1>2. IInv => OnlyInUser
  BY <1>1 DEF OnlyInUser
<1>3. QED
  BY <1>2, InvariantHolds, PTL

(* The first interrupt finds gates, handlers, a stack and a task.          *)
THEOREM BootedInOrder == Spec => []ReadyWhenOn
<1>1. ASSUME IInv, Interruptible
      PROVE  /\ current_task /\ usermode_started /\ kernel_stack
             /\ idt[32] = "new_irq0" /\ \A i \in 1..15 : idt[32 + i] = "irq"
             /\ Called(128) = "Int80hSyscall" /\ Called(33) = "kbd_irq"
             /\ Called(14) = "page_fault"
  <2>1. done = 9 /\ ~dead
    BY <1>1, Interrupted DEF Booted, Wrecked
  <2>2. \A i \in 1..15 : 32 + i \in Vector \ {32} /\ 32 + i \in 32..47
    BY DEF Vector
  <2>3. IntNo(128) % 256 = 128 /\ IntNo(33) % 256 = 33 /\ IntNo(14) % 256 = 14
    <3>1. IntNo(128) = 16777088 /\ IntNo(33) = 33 /\ IntNo(14) = 14
      BY DEF IntNo
    <3>2. 16777088 % 256 = 128 /\ 33 % 256 = 33 /\ 14 % 256 = 14
      OBVIOUS
    <3>3. QED
      BY <3>1, <3>2
  <2>4. Progress
    BY <1>1 DEF IInv
  <2>5. current_task /\ usermode_started /\ kernel_stack /\ idt[32] = "new_irq0"
    BY <2>1, <2>4 DEF Progress
  <2>6. \A i \in 1..15 : idt[32 + i] = "irq"
    BY <2>1, <2>2, <2>4 DEF Progress
  <2>7. QED
    BY <2>1, <2>3, <2>4, <2>5, <2>6 DEF Progress, Called
<1>2. IInv => ReadyWhenOn
  BY <1>1 DEF ReadyWhenOn
<1>3. QED
  BY <1>2, InvariantHolds, PTL
=============================================================================
