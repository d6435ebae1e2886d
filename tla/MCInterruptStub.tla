---------------------------- MODULE MCInterruptStub ----------------------------
(***************************************************************************)
(* kernel_main's stack and those of two tasks, with two interrupts under   *)
(* way on each, and one vector of each kind the stubs tell apart.          *)
(***************************************************************************)
EXTENDS InterruptStub, TLC

CONSTANTS Task1, Task2

MCTasks == {Task1, Task2}

(* The tasks are alike: nothing depends on which is which.                 *)
AnyTask == Permutations(MCTasks)

PageFault   == 14
DivideError == 0
SystemCall  == 128     (* interrupt_ignore answers it                       *)

(* The vectors with a stub that pushes, with the CPU, eleven words; and    *)
(* one with no stub.                                                       *)
Balanced == {Timer, Keyboard, PageFault, SystemCall}

AllKinds == Balanced \cup {DivideError}
=============================================================================
