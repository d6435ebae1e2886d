-------------------------- MODULE MCInterruptManager --------------------------
(***************************************************************************)
(* The timer, the keyboard and a network card on line 11 of the slave PIC. *)
(***************************************************************************)
EXTENDS InterruptManager

MCIrqs == {Timer, Keyboard, 11}
=============================================================================
