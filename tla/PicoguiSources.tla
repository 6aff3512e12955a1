--------------------------- MODULE PicoguiSources ---------------------------
(***************************************************************************)
(* patch_picogui_sources.py: the transforms of PicoGUI, one definition per *)
(* function.  Unlike the X server's, a function here edits several files   *)
(* behind the marker of the first, and a stamp ends every later run.       *)
(***************************************************************************)
EXTENDS SourceEdits, TLC

configure_ac == "server/configure.ac"
configure == "server/configure"
client_Makefile == "client/c/src/Makefile.am"
request == "server/net/request.c"
posix == "server/os/posix.c"
omnibar == "apps/test/omnibar/omnibar.c"

rename_configure_in ==
  <<Step(configure_ac, {}, <<Edit({"named configure.in"}, {"named configure.ac"})>>)>>

modernize_autoconf ==
  <<Step(configure_ac, {}, <<Every(Edit({"AM_CONFIG_HEADER"}, {"AC_CONFIG_HEADERS"}))>>)>>

patch_input_makefile_am ==
  <<Step("server/input/Makefile.am", {"evdev.c"},
      <<Edit({"EXTRA sources"}, {"EXTRA sources", "evdev.c extra"}), AtEnd("evdev.c")>>)>>

patch_fbdev_close_no_clear ==
  <<Step("server/video/fbdev.c", {}, <<Edit({"clear on close"}, {"no clear on close"})>>)>>

patch_signals_kmsg_dump ==
  <<Step("server/os/posix_signals.c", {"BE300_KMSG_FAULT"},
      <<Insert("BE300_KMSG_FAULT", "recursion lock"),
        Unless("fcntl.h", AtEnd("fcntl.h")), Unless("unistd.h", AtEnd("unistd.h"))>>)>>

patch_omnibar_appmenu_dir ==
  <<Step(omnibar, {"be300_appmenu_path"},
      <<Edit({"opendir", "rewinddir loop", "menu run"},
             {"be300_appmenu_path", "guarded loop", "menu run"}),
        Edit({"closedir"}, {"guarded closedir"})>>)>>

patch_omnibar_launch ==
  <<Step(omnibar, {"BE300_OMNIBAR_LAUNCH"},
      <<Must(Edit({"launch"}, {"BE300_OMNIBAR_LAUNCH"})),
        Must(Edit({"includes"}, {"includes", "alloca.h, signal.h, string.h"})),
        Must(Edit({"event loop"}, {"event loop", "ignore SIGCHLD"}))>>)>>

patch_omnibar_tap_menus ==
  <<Step(omnibar, {"BE300_OMNIBAR_TAP_MENUS"},
      <<Must(Edit({"Applications button"}, {"BE300_OMNIBAR_TAP_MENUS"})),
        Must(Edit({"System button"}, {"System button on tap"}))>>)>>

patch_closefd_full_redraw ==
  <<Step(request, {"BE300_CLOSEFD_REDRAW"},
      <<Must(Edit({"closefd"}, {"BE300_CLOSEFD_REDRAW"}))>>)>>

patch_root_resize_relayout ==
  <<Step("server/widget/widget.c", {"BE300_ROOT_RELAYOUT"},
      <<Must(Insert("BE300_ROOT_RELAYOUT", "widget_base_set"))>>)>>

patch_full_redraw_drops_incremental ==
  <<Step("server/gcore/div.c", {"BE300_FULL_REDRAW_NOT_INCREMENTAL"},
      <<Must(Edit({"render test"}, {"BE300_FULL_REDRAW_NOT_INCREMENTAL"}))>>)>>

patch_pterm_default_shell ==
  <<Step("apps/working/pterm/main.c", {},
      <<Must(Unless("shell -l", Edit({"shell -sh"}, {"shell -l"})))>>)>>

\* main.c is guarded for all four; each companion once more for itself.
patch_atomicnav_kmsg_trace ==
  <<Step("atomicnav/main.c", {"be300_anv_kmsg"},
      <<Edit({"main head"}, {"main head", "be300_anv_kmsg"}),
        Edit({"argument test"}, {"argument test", "argument trace"}),
        Edit({"event loop test"}, {"event loop test", "pgUpdate before the loop"})>>),
    Chained(Step("atomicnav/browserwin.c", {"be300_anv_kmsg"},
      <<Insert("be300_anv_kmsg", "browserwin_showstatus"),
        Edit({"status update"}, {"traced status update"}),
        Edit({"browserwin_errormsg"}, {"browserwin_errormsg", "error trace"}),
        Edit({"browserwin_new"}, {"browserwin_new", "widget traces"})>>)),
    Chained(Step("atomicnav/p_http.c", {"be300_anv_kmsg"},
      <<Insert("be300_anv_kmsg", "p_http_connect")>>)),
    Chained(Step("atomicnav/url.c", {"be300_anv_kmsg"},
      <<Insert("be300_anv_kmsg", "unsupported protocol")>>))>>

patch_pgserver_png_link_order ==
  <<Step(configure_ac, {}, <<Edit({"-lm -lz -lpng"}, {"-lpng -lz -lm"})>>),
    Chained(Step(configure, {}, <<Edit({"-lm -lz -lpng"}, {"-lpng -lz -lm"})>>))>>

patch_appmgr_normal_recalc ==
  <<Step("server/appmgr/panel.c", {"BE300_NORMAL_RECALC_V3"},
      <<Edit({"BE300_NORMAL_RECALC, older"}, {"registration switch"}),
        Edit({"registration switch"}, {"BE300_NORMAL_RECALC_V3"})>>)>>

\* The timer is taken from the signal in one file and polled in the other.
patch_disable_sigalrm_timer ==
  <<Step(posix, {"BE300_NO_SIGALRM"}, <<Edit({"setitimer"}, {"BE300_NO_SIGALRM"})>>),
    Chained(Step(request, {"BE300_TIMER_POLL"},
      <<Edit({"default timeout"}, {"BE300_TIMER_POLL"})>>))>>

html_loader == <<AtEnd("html_load_be300")>>

patch_html_load_be300 ==
  <<Step("server/formats/html.c", {"html_load_be300"}, html_loader),
    Chained(Step("pgserver/textbox.h", {"html_load_be300"},
      <<Insert("html_load_be300", "text_formats")>>)),
    Chained(Step("server/widget/textbox_document.c", {},
      <<Edit({"HTML format disabled"}, {"HTML format enabled"})>>))>>

patch_driverinfo_c ==
  <<Step("server/gcore/driverinfo.c", {"evdev_regfunc"},
      <<Insert("evdev_regfunc", "inputdrivers")>>)>>

patch_inputdrivers_inc ==
  <<Step("server/gcore/inputdrivers.inc", {"evdev_regfunc"}, <<AtEnd("evdev_regfunc")>>)>>

patch_server_configure ==
  <<Step(configure_ac, {"CONFIG_DRIVER_EVDEV"}, <<AtEnd("CONFIG_DRIVER_EVDEV")>>)>>

patch_config_in ==
  <<Step("server/config.in", {"CONFIG_DRIVER_EVDEV"},
      <<Insert("CONFIG_DRIVER_EVDEV", "DRIVER_JSDEV")>>)>>

patch_select_in ==
  <<Step("server/select.in", {"evdev.c"}, <<Insert("evdev.c", "jsdev.c")>>)>>

substituted ==
  <<"server/widget/Makefile.am", "server/video/Makefile.am", "server/vidbase/Makefile.am",
    "server/os/Makefile.am", client_Makefile>>

patch_makefile_am_subst_in_sources ==
  [k \in DOMAIN substituted |->
     Step(substituted[k], {}, <<Edit({"variable in SOURCES"}, {})>>)]

patch_configure_script ==
  <<Step("pgserver/Makefile.am", {}, <<Every(Edit({"sh Configure"}, {"bash Configure"}))>>)>>

\* One of the .c files with casts as lvalues stands for all.
patch_cast_as_lvalue ==
  <<Step("server/vidbase/*.c", {},
      <<Every(Edit({"cast += n"}, {"assignment of cast + n"})),
        Every(Edit({"*(cast)++ = x"}, {"store, then advance"})),
        Every(Edit({"x = *(cast)++"}, {"load, then advance"}))>>)>>

patch_picogui_types_h ==
  <<Step("include/picogui/types.h", {}, <<Edit({"unsigned long __u32"}, {"unsigned int __u32"})>>)>>

patch_grab_keynames_py ==
  <<Step("client/c/grab_keynames.py", {}, <<Edit({"Python 2 script"}, {"Python 3 script"})>>),
    Step(client_Makefile, {}, <<Every(Edit({"python grab_keynames"}, {"python3 grab_keynames"}))>>)>>

\* Its list of fixes is empty.
fixup_kr_prototypes == << >>

-----------------------------------------------------------------------------
\* The calls of main(), in their order; the stamp is written after them.
main == Script(<<
  rename_configure_in, modernize_autoconf, patch_input_makefile_am,
  patch_fbdev_close_no_clear, patch_signals_kmsg_dump, patch_omnibar_appmenu_dir,
  patch_omnibar_launch, patch_omnibar_tap_menus, patch_closefd_full_redraw,
  patch_root_resize_relayout, patch_full_redraw_drops_incremental,
  patch_pterm_default_shell, patch_atomicnav_kmsg_trace, patch_pgserver_png_link_order,
  patch_appmgr_normal_recalc, patch_disable_sigalrm_timer, patch_html_load_be300,
  patch_driverinfo_c, patch_inputdrivers_inc, patch_server_configure, patch_config_in,
  patch_select_in, patch_makefile_am_subst_in_sources, patch_configure_script,
  patch_cast_as_lvalue, patch_picogui_types_h, patch_grab_keynames_py, fixup_kr_prototypes>>)

\* Passages only earlier versions of the script inserted, and what they replaced.
forms == "BE300_NORMAL_RECALC, older" :> {"registration switch"}
=============================================================================
