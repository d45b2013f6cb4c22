----------------------------- MODULE MCInterrupts -----------------------------
(***************************************************************************)
(* Interrupts with a keyboard, a serial port and a mouse; drivers may ask  *)
(* for their vectors, for the cascade's, for one spurious vector, for the  *)
(* page fault's and for a vector past the table.                           *)
(***************************************************************************)
EXTENDS Interrupts

MCLines      == {1, 4, 12}
MCDrivers    == {14, 33, 34, 39, 44, 48}
MCExceptions == {3, 14}
=============================================================================
