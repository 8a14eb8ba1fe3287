------------------------------- MODULE Tasking -------------------------------
(***************************************************************************)
(* The scheduler of the Aquarius kernel (kernel/x86/tasking) with the      *)
(* timer interrupt that drives it and the exception path that ends in      *)
(* KillCurrent.                                                            *)
(*                                                                         *)
(* A step is one whole kernel entry or one computation in user mode: every *)
(* gate of the IDT is an interrupt gate, SyscallEntry starts with cli, and *)
(* the sti before each iret takes effect only after the iret, so kernel    *)
(* code is never interrupted by the timer and handlers are atomic.         *)
(*                                                                         *)
(* Data is abstracted.  A register file is the pair of the program it      *)
(* belongs to ("of") and an opaque content ("val").  cr3 is the task whose *)
(* page directory is loaded.  task_t's id is left out (nothing reads it),  *)
(* and so are the x87 registers, which no switch saves, and suspended:     *)
(* LoadProcess writes false, nothing ever writes true, so the scan of      *)
(* switch_task stops at the first task it looks at.                        *)
(* An exec of a missing file changes nothing here and has no action.       *)
(*                                                                         *)
(* How much memory there is is module Paging's subject.  Here a load or a  *)
(* page fault may at any time be the one that runs out of it, in either of *)
(* the two ways the code can: pop_pf panics, once, and returns; or a page  *)
(* directory lies beyond the identity map and every access to it faults.   *)
(***************************************************************************)
EXTENDS Naturals, Sequences, FiniteSets

CONSTANTS
  Task,      (* the task_t structures LoadProcess can get from kmalloc     *)
  Boot,      (* the one hal_main loads from /initrd/system                 *)
  Val,       (* contents of the saved registers                            *)
  Entry,     (* the content LoadProcess writes: eip = 0x80000000, IF set   *)
  Trap,      (* a content whose next instruction raises a fatal exception  *)
  Faulty,    (* the tasks whose own program can reach such an instruction  *)
  Plenty,    (* whether the memory suffices for all loads and page faults  *)
  NoTask     (* a link not yet written                                     *)

ASSUME TaskingAssumption ==
  /\ Boot \in Task
  /\ {Entry, Trap} \subseteq Val
  /\ Entry # Trap
  /\ Faulty \subseteq Task
  /\ Plenty \in BOOLEAN
  /\ NoTask \notin Task

VARIABLES
  loaded,        (* the structures that LoadProcess has filled in          *)
  next, prev,    (* the links of the ready queue                           *)
  saved,         (* the register fields of each task_t                     *)
  current_task,  (* static task_t *current_task                            *)
  regs,          (* the registers user mode resumes with                   *)
  cr3,           (* the task whose page directory is loaded                *)
  killed,        (* history: the tasks KillTask was called for             *)
  hung,          (* the kernel is in the endless panic/KillCurrent cycle   *)
  mode,          (* "user", or why the kernel is about to panic inside a   *)
                 (* call or a page fault: "overdraw" or "fault"            *)
  exhausted      (* pop_pf has met the empty stack; its index has wrapped  *)
                 (* and will not be zero again                             *)

links  == <<loaded, next, prev, current_task, killed>>
memory == <<mode, exhausted>>
vars   == <<links, saved, regs, cr3, hung, memory>>

Link == Task \cup {NoTask}

Context == [of : Task, val : Val]

EntryContext(t) == [of |-> t, val |-> Entry]

(***************************************************************************)
(* The ready queue: the tasks reached from current_task along next, and    *)
(* the last one of them, where the loop of LoadProcess stops.              *)
(***************************************************************************)
Closed(S, f) == \A t \in S : f[t] \in S

Reach(f, x) == {t \in Task : \A S \in SUBSET Task : x \in S /\ Closed(S, f) => t \in S}

Ring == Reach(next, current_task)

Last == CHOOSE t \in Ring : next[t] = current_task

(***************************************************************************)
(* hal_main has loaded /initrd/system into the empty queue and has jumped  *)
(* to its entry point in its address space.                                *)
(***************************************************************************)
Init ==
  /\ loaded = {Boot}
  /\ next = [t \in Task |-> IF t = Boot THEN Boot ELSE NoTask]
  /\ prev = next
  /\ saved = [t \in Task |-> EntryContext(t)]
  /\ current_task = Boot
  /\ regs = EntryContext(Boot)
  /\ cr3 = Boot
  /\ killed = {}
  /\ hung = FALSE
  /\ mode = "user" /\ exhausted = FALSE

(***************************************************************************)
(* User mode.                                                              *)
(***************************************************************************)

(* The registers belong to another program than the address space.         *)
Foreign == regs.of # cr3

(* The next instruction raises an exception nobody can resolve.            *)
Trapped == ~Foreign /\ regs.val = Trap

InUser == mode = "user" /\ ~hung

(* The program computes.  Only a Faulty one reaches Trap by itself; one    *)
(* resumed with the registers of another program, or run after frames have *)
(* been handed out that are in use, may end up anywhere.                   *)
Run ==
  /\ InUser /\ ~Trapped
  /\ \E v \in Val :
       /\ v = Trap => Foreign \/ exhausted \/ cr3 \in Faulty
       /\ regs' = [of |-> cr3, val |-> v]
  /\ UNCHANGED <<links, saved, cr3, hung, memory>>

(***************************************************************************)
(* Running out of memory.  The kernel comes to a panic in the middle of a  *)
(* handler: in pop_pf, or in page_fault for an access of the kernel itself *)
(* to the new page directory, which is repeated for ever.                  *)
(***************************************************************************)
Lasts == UNCHANGED memory

Overdraw ==
  /\ ~Plenty /\ ~exhausted
  /\ exhausted' = TRUE /\ mode' = "overdraw"

OutOfMap ==
  /\ ~Plenty
  /\ mode' = "fault" /\ UNCHANGED exhausted

(***************************************************************************)
(* SYS_EXEC: LoadProcess links the new task in behind the last one and     *)
(* leaves prev of current_task as it was.  Only then does it build the new *)
(* address space, which is where the memory may give out, load the image   *)
(* and come back to the caller's.                                          *)
(***************************************************************************)
(* Mutants: prev never written; next of the new task copied from the first *)
(* task; the new task put right behind the first one; a structure filled   *)
(* in again once its task has left the queue, as if KillTask freed it.     *)
LoadProcessNoPrev(t) ==
  /\ t \in Task \ loaded
  /\ loaded' = loaded \cup {t}
  /\ saved' = [saved EXCEPT ![t] = EntryContext(t)]
  /\ next' = [next EXCEPT ![t] = current_task, ![Last] = t]
  /\ UNCHANGED <<prev, current_task, killed, cr3>>

LoadProcessSkipsFirst(t) ==
  /\ t \in Task \ loaded
  /\ loaded' = loaded \cup {t}
  /\ saved' = [saved EXCEPT ![t] = EntryContext(t)]
  /\ next' = [next EXCEPT ![t] = next[current_task], ![Last] = t]
  /\ prev' = [prev EXCEPT ![t] = Last]
  /\ UNCHANGED <<current_task, killed, cr3>>

LoadProcessInFront(t) ==
  /\ t \in Task \ loaded
  /\ loaded' = loaded \cup {t}
  /\ saved' = [saved EXCEPT ![t] = EntryContext(t)]
  /\ next' = [next EXCEPT ![t] = next[current_task], ![current_task] = t]
  /\ prev' = [prev EXCEPT ![t] = current_task]
  /\ UNCHANGED <<current_task, killed, cr3>>

LoadProcessReuses(t) ==
  /\ t \in Task \ Ring
  /\ loaded' = loaded \cup {t}
  /\ saved' = [saved EXCEPT ![t] = EntryContext(t)]
  /\ next' = [next EXCEPT ![t] = current_task, ![Last] = t]
  /\ prev' = [prev EXCEPT ![t] = Last]
  /\ UNCHANGED <<current_task, killed, cr3>>

LoadProcess(t) ==
  /\ t \in Task \ loaded
  /\ loaded' = loaded \cup {t}
  /\ saved' = [saved EXCEPT ![t] = EntryContext(t)]
  /\ next' = [next EXCEPT ![t] = current_task, ![Last] = t]
  /\ prev' = [prev EXCEPT ![t] = Last]
  /\ UNCHANGED <<current_task, killed, cr3>>

SysExec ==
  /\ InUser /\ ~Trapped
  /\ \E t \in Task : LoadProcess(t)
  /\ Lasts \/ Overdraw \/ OutOfMap
  /\ UNCHANGED <<regs, hung>>

(* The program touches a page the kernel can supply, which changes nothing *)
(* here unless the frame for it, or for its page table, is not there.      *)
PageFault ==
  /\ InUser /\ ~Trapped
  /\ Overdraw
  /\ UNCHANGED <<links, saved, regs, cr3, hung>>

(***************************************************************************)
(* The timer interrupt.                                                    *)
(***************************************************************************)
(* Mutants: cr3 not written; current_task not advanced.                    *)
SwitchTaskOldSpace ==
  LET next_task == next[current_task] IN
  IF next_task = current_task
  THEN UNCHANGED <<saved, regs, cr3, current_task>>
  ELSE /\ saved' = [saved EXCEPT ![current_task] = regs]
       /\ regs' = saved[next_task]
       /\ current_task' = next_task
       /\ UNCHANGED cr3

SwitchTaskStays ==
  LET next_task == next[current_task] IN
  IF next_task = current_task
  THEN UNCHANGED <<saved, regs, cr3, current_task>>
  ELSE /\ saved' = [saved EXCEPT ![current_task] = regs]
       /\ regs' = saved[next_task]
       /\ cr3' = next_task
       /\ UNCHANGED current_task

SwitchTask ==
  LET next_task == next[current_task] IN
  IF next_task = current_task
  THEN UNCHANGED <<saved, regs, cr3, current_task>>
  ELSE /\ saved' = [saved EXCEPT ![current_task] = regs]
       /\ regs' = saved[next_task]
       /\ current_task' = next_task
       /\ cr3' = next_task

NewIrq0 ==
  /\ InUser
  /\ SwitchTask
  /\ UNCHANGED <<loaded, next, prev, killed, hung, memory>>

(***************************************************************************)
(* A fatal exception: isr_handler or page_fault calls panic, and panic     *)
(* calls KillCurrent.  The handler then returns with the registers and the *)
(* page directory of the task it has just killed.                          *)
(***************************************************************************)
KillTask(t) ==
  /\ next' = [next EXCEPT ![prev[t]] = next[t]]
  /\ prev' = [prev EXCEPT ![next[t]] = prev[t]]
  /\ killed' = killed \cup {t}

KillCurrent ==
  IF next[current_task] = current_task
  THEN /\ hung' = TRUE     \* "No processes left." panics, and panic kills
       /\ UNCHANGED links
  ELSE /\ KillTask(current_task)
       /\ current_task' = next[current_task]
       /\ UNCHANGED <<loaded, hung>>

Panic == KillCurrent /\ UNCHANGED <<saved, cr3>>

Exception ==
  /\ InUser
  /\ Trapped \/ Foreign
  /\ Panic
  /\ UNCHANGED <<regs, memory>>

(* The panic inside a handler.  pop_pf goes on with whatever lies below    *)
(* the stack and the handler ends in user mode; a faulting access is tried *)
(* again, and panics again, with the interrupts off.                       *)
KernelPanic ==
  /\ mode # "user" /\ ~hung
  /\ Panic
  /\ mode' = IF mode = "overdraw" THEN "user" ELSE mode
  /\ UNCHANGED <<regs, exhausted>>

-----------------------------------------------------------------------------
Next == Run \/ SysExec \/ PageFault \/ NewIrq0 \/ Exception \/ KernelPanic

(* The PIT interrupts for ever and user mode runs with IF set; a handler   *)
(* in the middle of its work goes on with it.                              *)
Spec == Init /\ [][Next]_vars /\ WF_vars(NewIrq0) /\ WF_vars(KernelPanic)

-----------------------------------------------------------------------------
(* Every variable has its type, and what a filled-in task_t points to is   *)
(* filled in as well: switch_task and KillTask never follow a pointer into *)
(* a structure LoadProcess has not initialised.                            *)
TypeOK ==
  /\ loaded \in SUBSET Task
  /\ next \in [Task -> Link] /\ prev \in [Task -> Link]
  /\ saved \in [Task -> Context]
  /\ regs \in Context
  /\ current_task \in loaded /\ cr3 \in loaded
  /\ killed \in SUBSET loaded
  /\ hung \in BOOLEAN /\ exhausted \in BOOLEAN
  /\ mode \in {"user", "overdraw", "fault"}
  /\ \A t \in loaded : next[t] \in loaded /\ prev[t] \in loaded

(* Whatever has been loaded and killed, and however wrong the prev links   *)
(* have become, following next from current_task comes back to it: the     *)
(* loop of LoadProcess that looks for the last task terminates, with the   *)
(* interrupts off, in every reachable state.                               *)
RingClosed == \E t \in Ring : next[t] = current_task

(* No load and no kill puts a task back into the ready queue: a loaded     *)
(* task that has dropped out of it stays out.                              *)
NeverRequeued == [][\A t \in loaded \ Ring : t \notin Ring']_vars

(* As long as nothing has been killed the ready queue holds every loaded   *)
(* task, the processor runs current_task's program in current_task's       *)
(* address space, and each other task_t holds its own program's registers. *)
Coherent ==
  killed = {} =>
    /\ Ring = loaded
    /\ cr3 = current_task /\ regs.of = current_task
    /\ \A t \in Task : saved[t].of = t

(* The first task the kernel kills is the one whose program it was         *)
(* serving, and that program had raised the exception itself unless the    *)
(* kernel had just run out of memory on its behalf: until one is killed,   *)
(* no fault is charged to a bystander.                                     *)
FirstKillDeserved ==
  [][killed = {} =>
       /\ killed' \subseteq {cr3}
       /\ mode = "user" => killed' \subseteq Faulty]_vars

(* A task in the ready queue gets the processor, unless a kill drops it    *)
(* from the queue or the kernel never comes back to user mode: it has      *)
(* killed the last task, or faults for ever outside the identity map.      *)
QueueServed ==
  \A t \in Task :
    t \in Ring ~> current_task = t \/ t \notin Ring \/ hung \/ mode = "fault"

-----------------------------------------------------------------------------
(***************************************************************************)
(* The refinement of Multitasking: the queue is the ring read from         *)
(* current_task on, and a process's registers are in the processor when it *)
(* is current_task and in its task_t otherwise.                            *)
(***************************************************************************)
Queue ==
  LET at[i \in 1..Cardinality(Ring)] ==
        IF i = 1 THEN current_task ELSE next[at[i - 1]]
  IN at

Registers == [t \in Task |-> IF t = current_task THEN regs ELSE saved[t]]

Promise == INSTANCE Multitasking WITH
  queue <- Queue, reg <- Registers,
  Val <- Context, Start <- [t \in Task |-> EntryContext(t)]

(* However many tasks are started, each has the processor again and again. *)
EveryoneServed == Promise!EveryoneServed

(* With no fatal exceptions and memory for all, this is preemptive         *)
(* multitasking: a first-come first-served queue, and registers no other   *)
(* process can change.                                                     *)
PreemptiveMultitasking == Promise!Spec

-----------------------------------------------------------------------------
(***************************************************************************)
(* What the code is meant to keep and does not.                            *)
(***************************************************************************)

(* "insert it into the ready queue" (tasking.c:65): a task that was loaded *)
(* and never killed is in the ready queue.                                 *)
LoadedStaysQueued == loaded \ killed \subseteq Ring
=============================================================================
