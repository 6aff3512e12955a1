-------------------------- MODULE MCNandController --------------------------
(***************************************************************************)
(* NandController on a chip of three blocks of one page, the middle one    *)
(* the filesystem arena; pages have 4 data and 2 + 2 spare bytes.          *)
(***************************************************************************)
EXTENDS NandController

\* Data bytes and both halves of the spare bytes hold different values.
MCPatterns == {[i \in 0 .. 7 |-> IF i \in {0, 3, 5, 6} THEN 0 ELSE 1]}
=============================================================================
