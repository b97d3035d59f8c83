------------------------------ MODULE MCInput ------------------------------
(***************************************************************************)
(* Space, Shift, Backspace and Enter, and a mouse that is moved to the     *)
(* lower left with a button held: the scancode of the space is also the    *)
(* first byte of its packet.                                               *)
(***************************************************************************)
EXTENDS InputProperties
MCScancodes == {57, 42, 14, 28}
MCPackets == {<<57, 240, 248>>}
=============================================================================
