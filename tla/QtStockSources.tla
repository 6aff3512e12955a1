--------------------------- MODULE QtStockSources ---------------------------
(***************************************************************************)
(* patch_qt_sources_stock.py: the shorter patch set of the Linux 4.2 OPIE. *)
(* A definition taken from QtSources is the same code in both scripts.     *)
(***************************************************************************)
EXTENDS SourceEdits, TLC

Qt == INSTANCE QtSources

patch_file(file) == Qt!patch_file(file)

patch_mouse ==
  <<Rewrite(Qt!qwsmouse,
      <<Qt!strip_be300_fprintf, Erase("read error warning"),
        Insert("BE300_TOUCH_MOVE_MIN", "BE300_BTN_TOUCH"),
        Insert("evLastSentPressed", "evDirty members"),
        Edit({"evdev reports", "BE300_TOUCH_MOVE_MIN"},
             {"filtered evdev reports", "BE300_TOUCH_MOVE_MIN"})>>)>>

patch_time64_redirects == Qt!patch_time64_redirects
patch_widget_regions == Qt!patch_widget_regions
replace_linuxfb_accel_block == Qt!replace_linuxfb_accel_block
patch_linuxfb_accel == Qt!patch_linuxfb_accel

-----------------------------------------------------------------------------
\* The calls of main(), in their order.
main == Script(<<
  patch_file(Qt!qapplication), patch_file(Qt!qwindowsystem), patch_time64_redirects,
  patch_mouse, patch_widget_regions, patch_linuxfb_accel>>)

forms == "debug calls" :> {} @@ "accel block, older" :> {} @@ "Cassiopeia region" :> {}
=============================================================================
