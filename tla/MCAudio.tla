------------------------------- MODULE MCAudio -------------------------------
(***************************************************************************)
(* Audio with a ring of four samples and buffers of two; head and tail     *)
(* wrap after eight.                                                       *)
(***************************************************************************)
EXTENDS Audio

=============================================================================
