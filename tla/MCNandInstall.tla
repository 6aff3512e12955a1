--------------------------- MODULE MCNandInstall ----------------------------
(***************************************************************************)
(* NandInstall on a chip of six blocks of three pages: partition table and *)
(* manifest, SPL, kernel, one filesystem block and a pool of two.          *)
(***************************************************************************)
EXTENDS NandInstall
=============================================================================
