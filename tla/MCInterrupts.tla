---------------------------- MODULE MCInterrupts ----------------------------
(***************************************************************************)
(* Lines of both controllers, the last one of each among them, and all     *)
(* vectors of exceptions.                                                  *)
(***************************************************************************)
EXTENDS InterruptsProperties
MCExceptions == 0 .. 31
=============================================================================
