--------------------------- MODULE MCNandPhysical ---------------------------
(***************************************************************************)
(* NandPhysical on a boot block, a filesystem block, a quarantined         *)
(* filesystem block and, in the first run, a block of the pool, of two     *)
(* pages each.                                                             *)
(***************************************************************************)
EXTENDS NandPhysical

MCManifest == {2}

\* Without the histories, which no step and no marker depends on.
MCView == <<flash, sys, op>>
=============================================================================
