---------------------------- MODULE Multitasking ----------------------------
(***************************************************************************)
(* What "preemptive multitasking" (README.md) promises, without the ring   *)
(* of task_t structures: the processes stand in a queue whose head has the *)
(* processor, every process has a register file of its own that only it    *)
(* changes, the timer moves the head to the tail, and a new process joins  *)
(* at the tail.  Module Tasking is shown to implement this specification   *)
(* as long as no process takes a fatal exception.                          *)
(***************************************************************************)
EXTENDS Naturals, Sequences

CONSTANTS
  Task,   (* the processes                                                *)
  Boot,   (* the process the kernel starts by itself                      *)
  Val,    (* contents of a register file                                  *)
  Start   (* Start[t]: the contents process t starts with                 *)

VARIABLES
  queue,  (* the runnable processes; Head(queue) has the processor        *)
  reg     (* reg[t]: the registers as process t sees them                 *)

vars == <<queue, reg>>

Queued == {queue[i] : i \in DOMAIN queue}

Init ==
  /\ queue = <<Boot>>
  /\ reg = Start

(* The process at the head computes; nobody else's registers change.       *)
Run ==
  /\ \E v \in Val : reg' = [reg EXCEPT ![Head(queue)] = v]
  /\ UNCHANGED queue

(* The head asks for a new process, which will be served after all others. *)
Exec ==
  /\ \E t \in Task \ Queued : queue' = Append(queue, t)
  /\ UNCHANGED reg

(* The timer takes the processor from the head and gives it to the next.   *)
Preempt ==
  /\ Len(queue) > 1
  /\ queue' = Append(Tail(queue), Head(queue))
  /\ UNCHANGED reg

Next == Run \/ Exec \/ Preempt

Spec == Init /\ [][Next]_vars /\ WF_vars(Preempt)

-----------------------------------------------------------------------------
(* Every process that has been started has the processor again and again,  *)
(* however many others are started meanwhile.                              *)
EveryoneServed ==
  \A t \in Task : [](t \in Queued => <>(t = Head(queue)))
=============================================================================
