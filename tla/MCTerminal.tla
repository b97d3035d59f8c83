----------------------------- MODULE MCTerminal -----------------------------
(***************************************************************************)
(* A screen that is full after one or two commands, and commands that take *)
(* more rows than it has left. No step looks at the character that is on   *)
(* the screen, so one of the two may stand for the other.                  *)
(***************************************************************************)
EXTENDS TerminalProperties, TLC

OtherCharacters == Permutations(Characters)
=============================================================================
