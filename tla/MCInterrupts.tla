---------------------------- MODULE MCInterrupts ----------------------------
(***************************************************************************)
(* main writes to the serial port, idle does not.                          *)
(***************************************************************************)
EXTENDS Interrupts

CONSTANTS main_task, idle

MCEvents == 1 :> 1 @@ 4 :> 2 @@ 14 :> 1
=============================================================================
