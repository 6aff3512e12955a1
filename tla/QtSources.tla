----------------------------- MODULE QtSources -----------------------------
(***************************************************************************)
(* patch_qt_sources.py: the transforms of Qt/Embedded for OPIE on Linux    *)
(* 2.4, one definition per function.  Most write their file back whether   *)
(* it changed or not; an edit is guarded by the passage it inserts.        *)
(***************************************************************************)
EXTENDS SourceEdits, TLC

qapplication == "src/kernel/qapplication_qws.cpp"
qwindowsystem == "src/kernel/qwindowsystem_qws.cpp"
qgfxraster == "src/kernel/qgfxraster_qws.cpp"
qwsmouse == "src/kernel/qwsmouse_qws.cpp"

strip_be300_fprintf == Erase("debug calls")

patch_file(file) == <<Rewrite(file, <<strip_be300_fprintf>>)>>

time64 ==
  <<qapplication, "src/tools/qdatetime.cpp", "src/kernel/qthread_p.h">>

patch_time64_redirects ==
  [k \in DOMAIN time64 |->
     Step(time64[k], {"time64 redirect"}, <<Edit({"gettimeofday"}, {"time64 redirect"})>>)]

patch_be300_select_timeout ==
  <<Step(qapplication, {"be300_seltm"}, <<Insert("be300_seltm", "select call")>>)>>

patch_be300_locale_paths ==
  <<Step(qapplication, {"no locale scan"}, <<Edit({"setlocale"}, {"no locale scan"})>>),
    Rewrite("src/tools/qstring.cpp",
      <<Unless("return latin1", Edit({"local8Bit codec"}, {"return latin1"})),
        Unless("return fromLatin1", Edit({"fromLocal8Bit codec"}, {"return fromLatin1"}))>>)>>

patch_be300_message_output ==
  <<Step("src/tools/qglobal.cpp", {"BE300_QT_MESSAGE_NO_VFPRINTF"},
      <<Unless("unistd.h", Edit({"limits.h", "qtMessageOutput"},
                                {"limits.h", "unistd.h", "qtMessageOutput"})),
        Edit({"qtMessageOutput"}, {"BE300_QT_MESSAGE_NO_VFPRINTF"})>>)>>

patch_be300_qfile_destructor ==
  <<Step("src/tools/qfile.cpp", {"BE300_QFILE_DTOR_NO_CLOSE"},
      <<Edit({"~QFile closes if open"}, {"BE300_QFILE_DTOR_NO_CLOSE"}),
        Edit({"~QFile closes"}, {"BE300_QFILE_DTOR_NO_CLOSE"})>>)>>

patch_be300_qstring_destructor_null_guard ==
  <<Step("src/tools/qstring.h", {"BE300_QSTRING_DTOR_NULL_GUARD"},
      <<Edit({"~QString"}, {"BE300_QSTRING_DTOR_NULL_GUARD"})>>)>>

patch_metaobject_pools ==
  <<Rewrite("src/kernel/qmetaobject.cpp",
      <<Unless("metadata pool", Edit({"new_metadata"}, {"metadata pool"})),
        Unless("metaaccess pool", Edit({"new_metaaccess"}, {"metaaccess pool"}))>>)>>

\* Bug: the filter is put in before the constants it tests for.
mouse_filter_first ==
  <<Rewrite(qwsmouse,
      <<Edit({"evdev reports", "BE300_TOUCH_MOVE_MIN"},
             {"filtered evdev reports", "BE300_TOUCH_MOVE_MIN"}),
        Insert("BE300_TOUCH_MOVE_MIN", "BE300_BTN_TOUCH")>>)>>

\* The filter goes in only where the constants it uses did.
patch_mouse ==
  <<Rewrite(qwsmouse,
      <<strip_be300_fprintf, Erase("cursor off"), Erase("read error warning"),
        Insert("BE300_TOUCH_MOVE_MIN", "BE300_BTN_TOUCH"),
        Insert("evLastSentPressed", "evDirty members"),
        Edit({"evdev reports", "BE300_TOUCH_MOVE_MIN"},
             {"filtered evdev reports", "BE300_TOUCH_MOVE_MIN"}),
        Unless("no raw tpanel connect", Edit({"raw tpanel connect"}, {"no raw tpanel connect"}))>>)>>

patch_widget_regions ==
  <<Step("src/kernel/qwidget_qws.cpp", {}, <<Edit({"Cassiopeia region"}, {})>>)>>

heads ==
  <<"screenSaverWake", "screenSaverSleep", "screenSave", "screenSaverTimeout", "screenSaverActive">>

\* A head whose early return is rewritten once more, now that it is in.
EarlyReturn(head) ==
  <<Unless("early return in " \o head,
      Edit({head}, {"early return in " \o head, "plain wake in " \o head})),
    Edit({"plain wake in " \o head}, {"wake if there is a server in " \o head})>>

patch_be300_disable_qws_screensaver ==
  <<Rewrite(qwindowsystem,
      <<Unless("BE300_DISABLE_QWS_SCREENSAVER",
          Edit({"setScreenSaverIntervals"}, {"BE300_DISABLE_QWS_SCREENSAVER"})),
        Edit({"undeclared timer flag"}, {"BE300_DISABLE_QWS_SCREENSAVER"})>>
      \o [k \in DOMAIN heads |-> Insert("early return in " \o heads[k], heads[k])]
      \o EarlyReturn("screenSaverActivate") \o EarlyReturn("restartScreenSaverTimer"))>>

\* Takes the place of whatever block is between the markers.
replace_linuxfb_accel_block ==
  <<Edit({"accel block, older"}, {"accel block"}), Insert("accel block", "optype")>>

patch_linuxfb_accel ==
  <<Rewrite(qgfxraster,
      <<Insert("stdlib.h", "errno.h")>> \o replace_linuxfb_accel_block
      \o <<Insert("BE300_ACCEL_FILL_HOOK", "fillRect GFX_START"),
           Insert("BE300_ACCEL_SCROLL_HOOK", "scroll GFX_START")>>)>>

patch_be300_stretchblt_integer_scale ==
  <<Rewrite(qgfxraster,
      <<Insert("BE300_STRETCHBLT_INTEGER_SCALE", "stretchBlt"),
        Unless("no scale factors", Edit({"scale factors"}, {"no scale factors"})),
        Unless("integer yp", Edit({"double yp"}, {"integer yp"})),
        Unless("integer sp", Edit({"double sp"}, {"integer sp"}))>>)>>

patch_be300_wait_timer_null_guard ==
  <<Rewrite(qapplication,
      <<Unless("BE300_TIMER_FAKE_GETTIME", Edit({"getTime"}, {"BE300_TIMER_FAKE_GETTIME"})),
        Unless("BE300_WAIT_TIMER_POINTER_SAFE",
          Edit({"clock turned back"}, {"BE300_WAIT_TIMER_POINTER_SAFE"})),
        Unless("BE300_WAIT_TIMER_NULL_GUARD",
          Edit({"first timer", "time to wait"}, {"BE300_WAIT_TIMER_NULL_GUARD", "time to wait"})),
        Insert("be300_timer_wait", "time to wait"),
        Insert("qt_wait_timer_max->tv_sec", "wait maximum")>>)>>

-----------------------------------------------------------------------------
\* The calls of main(), in their order.
main == Script(<<
  patch_file(qapplication), patch_file(qwindowsystem), patch_time64_redirects,
  patch_be300_select_timeout, patch_be300_locale_paths, patch_be300_message_output,
  patch_be300_qfile_destructor, patch_be300_qstring_destructor_null_guard,
  patch_metaobject_pools, patch_mouse, patch_widget_regions,
  patch_be300_disable_qws_screensaver, patch_linuxfb_accel,
  patch_be300_stretchblt_integer_scale, patch_be300_wait_timer_null_guard>>)

\* Passages only earlier versions of the script inserted, and what they replaced.
forms ==
  "debug calls" :> {} @@ "~QFile closes if open" :> {"~QFile closes"} @@
  "accel block, older" :> {} @@
  "undeclared timer flag" :> {"setScreenSaverIntervals"} @@ "Cassiopeia region" :> {}
=============================================================================
