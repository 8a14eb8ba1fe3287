---------------------------- MODULE MCInterrupts ----------------------------
(***************************************************************************)
(* Instances of Interrupts for TLC: the timer, the keyboard, a serial port *)
(* and a disk, a page fault and an exception that nobody handles; programs *)
(* that call a breakpoint, the timer, the keyboard, the system call and,   *)
(* where the stub expects an error code, a page fault.                     *)
(***************************************************************************)
EXTENDS Interrupts

MCLine  == {0, 1, 3, 14}
MCFault == {6, 14}
MCSoft  == {3, 14, 32, 33, 128}
=============================================================================
