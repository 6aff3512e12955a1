------------------------------- MODULE MCPiu -------------------------------
(* One icon and the LCD; a sample every second tick. *)
EXTENDS Piu

CONSTANT i1

MCIcons == {i1}
=============================================================================
