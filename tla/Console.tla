------------------------------- MODULE Console -------------------------------
(***************************************************************************)
(* The screen and those who share it: kernel_main, which prints with       *)
(* interrupts enabled, and the handlers of the keyboard and the mouse,     *)
(* each of which may run between any two of its steps.  kernel_main does   *)
(* one thing at a time: it prints nothing while it is in reset().          *)
(***************************************************************************)
EXTENDS Keyboard, Mouse

vars == <<tvars, kvars, mvars>>

Init == InitTerminal /\ InitKeyboard /\ InitMouse

Next ==
  \/ Main /\ resetting = "no" /\ UNCHANGED <<kvars, mvars>>
  \/ NextKeyboard /\ UNCHANGED mvars
  \/ NextMouse /\ UNCHANGED kvars

Spec == Init /\ [][Next]_vars

TypeOK == TerminalTypeOK /\ KeyboardTypeOK /\ MouseTypeOK

=============================================================================
