--------------------------- MODULE LibxfontSources ---------------------------
(***************************************************************************)
(* patch_libxfont_sources.py: libXfont's weak stub made to prefer the X    *)
(* server's own registry of font path elements.                            *)
(***************************************************************************)
EXTENDS SourceEdits, TLC

regfpefunc == "src/stubs/regfpefunc.c"

patch_register_fpe_bridge ==
  <<Step(regfpefunc, {},
      <<Edit({"declaration with prototype"}, {"stubs.h", "declaration"}),
        Unless("declaration", Must(Edit({"stubs.h"}, {"stubs.h", "declaration"}))),
        Unless("prefer Xfbdev FPE registry bridge",
          Must(Edit({"RegisterFPEFunctions body"}, {"prefer Xfbdev FPE registry bridge"})))>>)>>

main == patch_register_fpe_bridge

forms == "declaration with prototype" :> {"stubs.h"}
=============================================================================
