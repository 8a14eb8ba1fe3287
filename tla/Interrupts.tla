----------------------------- MODULE Interrupts ------------------------------
(***************************************************************************)
(* How the kernel comes up and how it is entered: hal_main, the gates and  *)
(* stubs of interrupts.s, irq0.s and syscall.s, isr_handler, irq_handler   *)
(* and panic.  The other modules take an entry into the kernel for one     *)
(* step; here it is several, and it is checked that they may.              *)
(*                                                                         *)
(* External: the processor (an interrupt gate saves and clears IF, sti     *)
(* takes effect behind the next instruction, iret restores IF and sysexit  *)
(* does not) and the two interrupt controllers.  What handlers do to data  *)
(* is left to the other modules; timer_ticks and the devices are left out. *)
(* GDT and paging have to work for a step to be taken at all.              *)
(***************************************************************************)
EXTENDS Integers, Sequences

CONSTANTS
  Line,   (* the interrupt lines devices use                               *)
  Fault,  (* the exceptions instructions raise                             *)
  Soft    (* the vectors programs name in an int instruction               *)

Vector    == 0..47 \cup {128}
ErrorCode == {8} \cup 10..14     \* vectors with a stub by ISR_ERRCODE

(* Line 2 of the first controller is where the second is connected.  The   *)
(* exceptions 17, 21, 29 and 30, for which a processor pushes a code and   *)
(* the stub does not expect one, are of features that nothing turns on.    *)
ASSUME InterruptsAssumption ==
  /\ Line \subseteq (0..15) \ {2}
  /\ Fault \subseteq (0..31) \ {8, 17, 21, 29, 30}
  /\ Soft \subseteq Vector

SYSENTER == 256     \* stands in a frame that no gate has made
Stub     == {"none", "isr", "irq", "new_irq0"}
Handler  == {"none", "timer_callback", "page_fault", "kbd_irq", "Int80hSyscall"}
Calls    == {128, SYSENTER}
Booted   == 9       \* the steps of hal_main and of /initrd/system

VARIABLES
  done,                (* how many of these steps have been made           *)
  idt,                 (* the stub each gate leads to                      *)
  interrupt_handlers,
  kernel_stack,        (* esp0 and the SYSENTER registers have been set    *)
  current_task,        (* current_task # NULL                              *)
  usermode_started,
  dead,                (* halted, reset, or in an endless loop with IF off *)
  iflag, shadow,       (* interrupt flag; the instruction before was sti   *)
  stack,               (* entries into the kernel that have not returned;  *)
                       (* full: the two words that the stub will take off  *)
                       (* behind the registers are not the return address  *)
  pending,             (* lines requested                                  *)
  master, slave        (* lines in service at the controllers              *)

kernel == <<done, idt, interrupt_handlers, kernel_stack, current_task, usermode_started>>
pic    == <<pending, master, slave>>
vars   == <<kernel, dead, iflag, shadow, stack, pic>>

Init ==
  /\ done = 0
  /\ idt = [v \in Vector |-> "none"]
  /\ interrupt_handlers = [v \in Vector |-> "none"]
  /\ kernel_stack = FALSE /\ current_task = FALSE /\ usermode_started = FALSE
  /\ dead = FALSE /\ iflag = FALSE /\ shadow = FALSE     \* hal_start: cli
  /\ stack = <<>>
  /\ pending = {} /\ master = {} /\ slave = {}

(***************************************************************************)
(* The controllers.  A line is passed on when nothing of its own or higher *)
(* priority is in service; an unspecific end of interrupt takes the        *)
(* highest one out of service.                                             *)
(***************************************************************************)
Input(i) == IF i < 8 THEN i ELSE 2
Rank(i)  == IF i < 2 THEN i ELSE IF i < 8 THEN i + 8 ELSE i

Free(i) == (\A s \in master : Input(i) < s) /\ (i >= 8 => \A s \in slave : i < s)

Offered(i) ==
  /\ i \in pending /\ Free(i)
  /\ \A j \in pending : Free(j) => Rank(i) <= Rank(j)

EndOfInterrupt(lines) == {s \in lines : \E t \in lines : t < s}

(* A device requests its line.                                             *)
Request(i) ==
  /\ ~dead
  /\ pending' = pending \cup {i}
  /\ UNCHANGED <<kernel, dead, iflag, shadow, stack, master, slave>>

(***************************************************************************)
(* Entries.                                                                *)
(***************************************************************************)
Top == stack[Len(stack)]

(* Entries by an irq stub begin with the acknowledgement.                  *)
First(v) == IF idt[v] \in {"irq", "new_irq0"} THEN "eoi" ELSE "body"

Push(v, at, full) ==
  stack' = Append(stack, [vec |-> v, flag |-> iflag, at |-> at, full |-> full])

(* Before init_idt there are no gates, and the processor is reset.         *)
Gate(v, full) ==
  IF idt[v] = "none"
  THEN dead' = TRUE /\ UNCHANGED <<iflag, shadow, stack>>
  ELSE Push(v, First(v), full) /\ iflag' = FALSE /\ shadow' = FALSE /\ UNCHANGED dead

Interruptible == iflag /\ ~shadow /\ ~dead

Deliver(i) ==
  /\ Interruptible /\ Offered(i)
  /\ pending' = pending \ {i}
  /\ master' = master \cup {Input(i)}
  /\ slave' = IF i >= 8 THEN slave \cup {i} ELSE slave
  /\ Gate(32 + i, TRUE)
  /\ UNCHANGED kernel

(* A request that is withdrawn too early still interrupts, as line 7, but  *)
(* nothing is in service then.                                             *)
Spurious ==
  /\ Interruptible
  /\ Gate(32 + 7, TRUE)
  /\ UNCHANGED <<kernel, pic>>

User == done = Booted /\ stack = <<>> /\ ~dead

(* Programs may use every gate (flags | 0x60), not only the int 80h of     *)
(* crt0.s.  An int instruction pushes no error code.                       *)
IntN ==
  /\ User
  /\ \E v \in Soft : Gate(v, v \notin ErrorCode)
  /\ UNCHANGED <<kernel, pic>>

SyscallEntry ==
  /\ User
  /\ Push(SYSENTER, "body", TRUE) /\ iflag' = FALSE /\ shadow' = FALSE
  /\ UNCHANGED <<kernel, dead, pic>>

(* An exception: in a program, in hal_main, or in a system call that       *)
(* touches memory of the program's.                                        *)
Exception ==
  /\ ~dead
  /\ stack # <<>> => Top.at = "body" /\ Top.vec \in Calls
  /\ \E v \in Fault : Gate(v, TRUE)
  /\ UNCHANGED <<kernel, pic>>

(***************************************************************************)
(* The stubs and what they call.                                           *)
(***************************************************************************)
Entered(at) == ~dead /\ stack # <<>> /\ Top.at = at

Move(at) == stack' = [stack EXCEPT ![Len(stack)].at = at]

(* Mutated: the first controller is told only of lines of its own.         *)
AcknowledgeOne ==
  /\ Entered("eoi") /\ Move("body")
  /\ slave' = IF Top.vec >= 40 THEN EndOfInterrupt(slave) ELSE slave
  /\ master' = IF Top.vec >= 40 THEN master ELSE EndOfInterrupt(master)
  /\ UNCHANGED <<kernel, dead, iflag, shadow, pending>>

(* irq_handler and new_irq0 tell the controllers before anything else.     *)
Acknowledge ==
  /\ Entered("eoi") /\ Move("body")
  /\ slave' = IF Top.vec >= 40 THEN EndOfInterrupt(slave) ELSE slave
  /\ master' = EndOfInterrupt(master)
  /\ UNCHANGED <<kernel, dead, iflag, shadow, pending>>

(* With no current_task there is nothing to follow next from.              *)
switch_task ==
  /\ Entered("body") /\ Top.vec \in Vector /\ idt[Top.vec] = "new_irq0"
  /\ IF current_task THEN Move("out") /\ UNCHANGED dead
                     ELSE dead' = TRUE /\ UNCHANGED stack
  /\ UNCHANGED <<kernel, iflag, shadow, pic>>

irq_handler ==
  /\ Entered("body") /\ Top.vec \in Vector /\ idt[Top.vec] = "irq"
  /\ Move("out")
  /\ UNCHANGED <<kernel, dead, iflag, shadow, pic>>

(* push byte extends the sign of the number (here to 24 bits, not 32);     *)
(* isr_handler casts it to u8.                                             *)
IntNo(v) == IF v < 128 THEN v ELSE v + 16777216 - 256
Called(v) == interrupt_handlers[IntNo(v) % 256]

(* Before user mode panic halts.  After it, it kills the current task: the *)
(* last one cannot be killed, and a system call goes on at the instruction *)
(* that has faulted, with IF off, again and again.  So does an iret that   *)
(* has faulted, but with IF on.                                            *)
panic ==
  \/ dead' = TRUE /\ UNCHANGED stack
  \/ /\ done = Booted /\ (Len(stack) = 2 => ~stack[1].full)
     /\ Move("out") /\ UNCHANGED dead

(* An exception has a handler or a message for panic.  The warning behind  *)
(* them is for other vectors, but 128, the only one with this stub, has a  *)
(* handler by the time programs run.                                       *)
isr_handler ==
  /\ Entered("body") /\ Top.vec \in Vector /\ idt[Top.vec] = "isr"
  /\ \/ Called(Top.vec) = "none" /\ Top.vec < 32 /\ panic
     \/ Called(Top.vec) = "page_fault" /\ (panic \/ (Move("out") /\ UNCHANGED dead))
  /\ UNCHANGED <<kernel, iflag, shadow, pic>>

(* It may panic as well, when there is no frame left; that of the last     *)
(* task does not come to an end.                                           *)
SystemCall ==
  /\ Entered("body") /\ Top.vec \in Calls
  /\ Top.vec \in Vector => idt[Top.vec] = "isr" /\ Called(Top.vec) = "Int80hSyscall"
  /\ \/ Move("out") /\ UNCHANGED dead
     \/ dead' = TRUE /\ UNCHANGED stack
  /\ UNCHANGED <<kernel, iflag, shadow, pic>>

Sti ==
  /\ Entered("out") /\ Move("return")
  /\ iflag' = TRUE /\ shadow' = ~iflag
  /\ UNCHANGED <<kernel, dead, pic>>

(* Mutated: every entry returns as a system call by SYSENTER does.         *)
ReturnAllAlike ==
  /\ Entered("return") /\ Top.full
  /\ stack' = SubSeq(stack, 1, Len(stack) - 1)
  /\ shadow' = FALSE
  /\ UNCHANGED <<kernel, dead, iflag, pic>>

(* iret, or sysexit.                                                       *)
Return ==
  /\ Entered("return") /\ Top.full
  /\ stack' = SubSeq(stack, 1, Len(stack) - 1)
  /\ iflag' = IF Top.vec = SYSENTER THEN iflag ELSE Top.flag
  /\ shadow' = FALSE
  /\ UNCHANGED <<kernel, dead, pic>>

(* add esp,8 has taken off the return address as well: iret finds CS in    *)
(* the place of EIP and EFLAGS, which is no selector, in that of CS.       *)
ReturnAstray ==
  /\ Entered("return") /\ ~Top.full
  /\ Gate(13, TRUE)
  /\ UNCHANGED <<kernel, pic>>

(***************************************************************************)
(* hal_main.  The parts that neither set a gate or handler nor anything    *)
(* else an entry depends on have no step.                                  *)
(***************************************************************************)
Step(n) == ~dead /\ stack = <<>> /\ done = n /\ done' = n + 1

Quiet == UNCHANGED <<dead, stack, pic>>

init_gdt ==
  /\ Step(0) /\ Quiet
  /\ UNCHANGED <<idt, interrupt_handlers, kernel_stack, current_task, usermode_started, iflag, shadow>>

(* All of them may be used in user mode.                                   *)
Gates == [v \in Vector |-> IF v \in 32..47 THEN "irq" ELSE "isr"]

(* Mutated: the interrupts are let in as soon as there are gates.          *)
init_idt_sti ==
  /\ Step(1) /\ Quiet
  /\ idt' = Gates /\ iflag' = TRUE
  /\ UNCHANGED <<interrupt_handlers, kernel_stack, current_task, usermode_started, shadow>>

init_idt ==
  /\ Step(1) /\ Quiet
  /\ idt' = Gates
  /\ UNCHANGED <<interrupt_handlers, kernel_stack, current_task, usermode_started, iflag, shadow>>

Register(n, v, h) ==
  /\ Step(n) /\ Quiet
  /\ interrupt_handlers' = [interrupt_handlers EXCEPT ![v] = h]
  /\ UNCHANGED <<idt, kernel_stack, current_task, usermode_started, iflag, shadow>>

init_timer  == Register(2, 32, "timer_callback")
init_paging == Register(3, 14, "page_fault")

init_tasking ==
  /\ Step(4) /\ Quiet
  /\ idt' = [idt EXCEPT ![32] = "new_irq0"]
  /\ UNCHANGED <<interrupt_handlers, kernel_stack, current_task, usermode_started, iflag, shadow>>

(* Mutated: the gate itself is made to lead to the C function.             *)
InitSyscallsGate ==
  /\ Step(5) /\ Quiet
  /\ kernel_stack' = TRUE
  /\ interrupt_handlers' = [interrupt_handlers EXCEPT ![33] = "kbd_irq"]
  /\ idt' = [idt EXCEPT ![128] = "Int80hSyscall"]
  /\ UNCHANGED <<current_task, usermode_started, iflag, shadow>>

InitSyscalls ==
  /\ Step(5) /\ Quiet
  /\ kernel_stack' = TRUE
  /\ interrupt_handlers' = [interrupt_handlers EXCEPT ![128] = "Int80hSyscall", ![33] = "kbd_irq"]
  /\ UNCHANGED <<idt, current_task, usermode_started, iflag, shadow>>

(* There may be no /initrd/system.                                         *)
LoadProcess ==
  /\ Step(6) /\ Quiet
  /\ current_task' \in BOOLEAN
  /\ UNCHANGED <<idt, interrupt_handlers, kernel_stack, usermode_started, iflag, shadow>>

(* hal_main goes on all the same, with the directory that a task_t at      *)
(* address 0 would have.                                                   *)
start_usermode ==
  /\ Step(7)
  /\ usermode_started' = TRUE
  /\ dead' = ~current_task
  /\ UNCHANGED <<idt, interrupt_handlers, kernel_stack, current_task, iflag, shadow, stack, pic>>

(* system begins in kernel mode and leaves it by an iret.                  *)
system ==
  /\ Step(8) /\ Quiet
  /\ iflag' = TRUE
  /\ UNCHANGED <<idt, interrupt_handlers, kernel_stack, current_task, usermode_started, shadow>>

hal_main ==
  \/ init_gdt \/ init_idt \/ init_timer \/ init_paging \/ init_tasking
  \/ InitSyscalls \/ LoadProcess \/ start_usermode \/ system

-----------------------------------------------------------------------------
Handle == Acknowledge \/ switch_task \/ irq_handler \/ isr_handler \/ Sti \/ Return \/ ReturnAstray

Next ==
  \/ \E i \in Line : Request(i) \/ Deliver(i)
  \/ Spurious \/ IntN \/ SyscallEntry \/ Exception
  \/ Handle \/ SystemCall \/ hal_main

(* Devices of higher priority leave the processor some time: the timer has *)
(* 10 ms, a key more.                                                      *)
Unhurried(i) ==
  []<>User => []<>(User /\ \A j \in pending : Rank(i) <= Rank(j))

(* The processor goes on, also behind the few page faults that are         *)
(* resolved in a system call.                                              *)
Spec ==
  /\ Init /\ [][Next]_vars
  /\ WF_vars(Handle) /\ SF_vars(SystemCall) /\ SF_vars(hal_main)
  /\ \A i \in Line : SF_vars(Deliver(i)) /\ Unhurried(i)

-----------------------------------------------------------------------------
(* Every gate leads to a stub of interrupts.s or irq0.s, which ends with   *)
(* iret, and each entry on the stack has come by a gate that is there.     *)
TypeOK ==
  /\ done \in 0..Booted
  /\ idt \in [Vector -> Stub] /\ interrupt_handlers \in [Vector -> Handler]
  /\ kernel_stack \in BOOLEAN /\ current_task \in BOOLEAN
  /\ usermode_started \in BOOLEAN /\ dead \in BOOLEAN
  /\ iflag \in BOOLEAN /\ shadow \in BOOLEAN
  /\ stack \in Seq([vec : Vector \cup {SYSENTER}, flag : BOOLEAN,
                    at : {"eoi", "body", "out", "return"}, full : BOOLEAN])
  /\ \A k \in DOMAIN stack : stack[k].vec \in Vector => idt[stack[k].vec] # "none"
  /\ pending \subseteq Line /\ master \subseteq 0..7 /\ slave \subseteq 8..15

(* What the stubs take off the stack before they return is an error code   *)
(* and a number (interrupts.s: "Cleans up the pushed error code and pushed *)
(* ISR number"), whichever way their vector has been entered.              *)
CleanedUp == \A k \in DOMAIN stack : stack[k].full

(* Interrupts get through in user mode and nowhere else: not in a handler, *)
(* not between its sti and its iret, not in a system call that goes on     *)
(* after a page fault, whichever of the gates programs call.  So the one   *)
(* kernel stack that all tasks share holds one entry from user mode and at *)
(* most an exception on top of it.  It is so until a program calls one of  *)
(* the six vectors in ErrorCode, and not after.                            *)
OnlyInUser ==
  CleanedUp =>
    /\ Interruptible <=> User
    /\ Len(stack) <= 2
    /\ Len(stack) = 2 => stack[1].vec \in Calls /\ stack[2].vec < 32

(* When interrupts get through for the first time everything they need is  *)
(* there: the gates, the handlers, a stack, and a task to switch from.     *)
ReadyWhenOn ==
  Interruptible =>
    /\ current_task /\ usermode_started /\ kernel_stack
    /\ idt[32] = "new_irq0" /\ \A i \in 1..15 : idt[32 + i] = "irq"
    /\ Called(128) = "Int80hSyscall" /\ Called(33) = "kbd_irq" /\ Called(14) = "page_fault"

(* A requested interrupt gets through, unless the kernel is dead or an     *)
(* entry cannot return.                                                    *)
LinesServed ==
  \A i \in Line : i \in pending ~> i \notin pending \/ dead \/ ~CleanedUp
=============================================================================
