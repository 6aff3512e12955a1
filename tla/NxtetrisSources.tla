--------------------------- MODULE NxtetrisSources ---------------------------
(***************************************************************************)
(* patch_nxtetris_be300.py: the game's buttons, one file in one write.     *)
(***************************************************************************)
EXTENDS SourceEdits, TLC

MARK == "BE300_HW_BUTTONS"

replace_once(passage, new) == Must(Edit({passage}, {passage, new}))

main ==
  <<Step("nxtetris.c", {MARK},
      <<replace_once("draw_pause_continue_button", MARK),
        replace_once("handle_exposure_event", "help drawn on exposure"),
        replace_once("handle_keyboard_event", "buttons"),
        replace_once("new_game_button map", "button not mapped"),
        replace_once("handle_event", "evdev buttons"),
        replace_once("main_window map", "buttons opened"),
        Unless("string.h", replace_once("stdlib.h", "string.h"))>>)>>

forms == [x \in {} |-> {}]
=============================================================================
