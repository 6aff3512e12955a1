---------------------------- MODULE OpieSources ----------------------------
(***************************************************************************)
(* patch_opie_sources.py: the transforms of OPIE 1.2.5 for Linux 2.4, one  *)
(* definition per function that main() reaches.  Most begin with the       *)
(* upstream file, read again from the archive, and edit it with no test of *)
(* their own; what one function wrote the next restore throws away.        *)
(***************************************************************************)
EXTENDS SourceEdits, TLC

launcher_h == "core/launcher/launcher.h"
launcher == "core/launcher/launcher.cpp"
launcherview == "core/launcher/launcherview.cpp"
documentlist == "core/launcher/documentlist.cpp"
server == "core/launcher/server.cpp"
serverapp == "core/launcher/serverapp.cpp"
config == "library/config.cpp"

strip_be300_debug == Erase("debug calls")
\* Bug: the archive is not found and the tree's own text stays.
not_restored(file) == Rewrite(file, << >>)

restore_original(file) == Restore(file)

\* Each passage is replaced; each passage gets a new one beside it.
Swaps(names) == [k \in DOMAIN names |-> Edit({names[k]}, {"BE300 " \o names[k]})]
Extends(names) == [k \in DOMAIN names |-> Edit({names[k]}, {names[k], "BE300 " \o names[k]})]

patch_qpeapplication ==
  <<Rewrite("library/qpeapplication.cpp",
      <<strip_be300_debug, Insert("BE300 full-screen main windows", "show_mx")>>)>>

launcher_restores == <<restore_original(launcher_h), restore_original(launcher)>>

launcher_header ==
  <<Rewrite(launcher_h,
      <<Insert("class Be300HomeWidget", "class Launcher")>>
      \o Extends(<<"makeVisible slot", "protected slots">>)
      \o <<Insert("be300Home", "tabs members")>>)>>

launcher_includes ==
  <<Insert("qevent.h", "qdir.h"), Insert("qfile.h", "qevent.h"), Insert("fcntl.h", "qfile.h"),
    Insert("unistd.h", "fcntl.h"), Insert("sys/mman.h", "fcntl.h")>>

launcher_home_widget ==
  <<Unless("be300PopulateLauncherDefaults",
      Edit({"isVisibleWindow"}, {"be300PopulateLauncherDefaults", "be300QpeBase"})),
    Insert("class Be300HomeWidget, defined", "be300QpeBase")>>

launcher_tab_widget ==
  Extends(<<"LauncherTabWidget tail">>)
  \o Swaps(<<"initLayout", "raiseTabWidget", "setLoadingProgress", "background type",
             "solid background", "Documents background", "Documents text color",
             "reCheckDoctab", "Documents tab", "tab widget", "tab widget deletion">>)
  \o Extends(<<"null members">>)

launcher_slots ==
  Swaps(<<"launch timers">>) \o Extends(<<"makeVisible">>)
  \o Swaps(<<"documentAdded", "aboutToAddBegin", "aboutToAddEnd", "showLoadingDocs",
             "showDocTab", "documentRemoved", "allDocumentsRemoved", "documentChanged",
             "documentScanningProgress", "typeAdded", "applicationAdded",
             "applicationScanningProgress", "DocTab configuration", "requiresDocuments">>)

patch_regular_launcher_shell ==
  launcher_restores \o launcher_header
  \o <<Rewrite(launcher,
         <<strip_be300_debug>> \o launcher_includes \o launcher_home_widget
         \o launcher_tab_widget \o launcher_slots)>>

patch_launcherview ==
  <<restore_original(launcherview),
    Step("core/launcher/launcherview.h", {"drawContents"},
      <<Edit({"class QIconViewItem", "keyPressEvent"},
             {"class QIconViewItem", "class QPainter", "keyPressEvent", "drawContents"})>>),
    Rewrite(launcherview,
      <<strip_be300_debug, Insert("BE300 direct icon item paint", "compare"),
        Edit({"setUpdatesEnabled"}, {"BE300 setUpdatesEnabled"})>>)>>

patch_launchertab ==
  <<restore_original("core/launcher/launchertab.cpp"),
    Rewrite("core/launcher/launchertab.cpp",
      <<Insert("BE300 fixed launcher tab geometry", "setFocusPolicy"),
        Insert("BE300 visible launcher tabs", "available width"),
        Insert("BE300 plain launcher tab paint", "paint")>>)>>

patch_documentlist ==
  <<restore_original(documentlist),
    Rewrite(documentlist,
      <<strip_be300_debug>> \o Swaps(<<"AppLnkSet", "startInitialScan">>)
      \o Extends(<<"initial scan timer", "reloadAppLnks">>))>>

\* Takes back what patch_documentlist did.
patch_regular_documentlist_shell == <<restore_original(documentlist)>>

server_edits == Swaps(<<"last_today_show", "services", "preloadApps", "Server::show">>)

patch_server ==
  <<restore_original(server),
    Rewrite(server, <<strip_be300_debug>> \o Extends(<<"createGUI">>) \o server_edits
                    \o <<Edit({"AppLauncher"}, {"appLauncher = 0"})>>)>>

patch_serverapp ==
  <<restore_original(serverapp),
    Rewrite(serverapp, <<strip_be300_debug>>
      \o Swaps(<<"power status", "screen saver", "key grabs">>)
      \o Extends(<<"systemMessage", "apmTimeout", "reloadPowerWarnSettings">>))>>

patch_taskbar ==
  <<Rewrite("core/launcher/taskbar.cpp",
      <<strip_be300_debug, Edit({"repeated inputMethods test"}, {"inputMethods test"}),
        Every(Edit({"InputMethods"}, {"BE300 InputMethods"})),
        Every(Edit({"Wait"}, {"BE300 Wait"})), Every(Edit({"AppIcons"}, {"BE300 AppIcons"}))>>)>>
  \o patch_server \o patch_serverapp

\* As patch_server, but the application launcher stays.
patch_regular_server_shell ==
  <<restore_original(server),
    Rewrite(server, <<strip_be300_debug>> \o Extends(<<"createGUI">>) \o server_edits)>>

\* Into the text the last restore of server.cpp left.
patch_be300_input_pump ==
  <<Step(server, {"be300_pump_input"},
      <<Edit({"unistd.h"}, {"unistd.h", "fcntl.h, signal.h"}),
        Edit({"Server::Server"}, {"Server::Server", "be300_pump_input"}),
        Edit({"tid_xfer"}, {"tid_xfer", "be300_pump_input installed"})>>)>>

patch_opie_application ==
  <<Rewrite("libopie2/opiecore/oapplication.cpp", <<strip_be300_debug>>),
    restore_original("library/applnk.cpp"),
    Rewrite("library/applnk.cpp", <<strip_be300_debug>> \o Swaps(<<"icon pixmaps">>))>>

stages ==
  <<"locale configuration", "Location group", "Timezone entry", "Timezone default", "setenv TZ",
    "Timezone written", "Language group", "Language entry", "Language default", "setenv LANG",
    "Language written", "configuration written", "QWS_DISPLAY">>

launcher_main_environment ==
  <<Insert("fcntl.h", "stdio.h"), Insert("be300_qpe_stage", "create_pidfile")>>
  \o Extends(stages)
  \o Swaps(<<"rotation report", "rotated display", "display already set">>)

launcher_main_start ==
  <<Insert("BE300 skips OPIE first-use wizard", "firstUse")>>
  \o Swaps(<<"initEnvironment call", "ServerApplication", "initKeyboard">>)
  \o Extends(<<"setBacklight">>) \o Swaps(<<"Server">>)
  \o <<Insert("BE300 skips invalid-date prompt", "first-use test")>>
  \o Swaps(<<"create_pidfile call">>) \o Extends(<<"main loop">>)
  \o Swaps(<<"handle_sigterm", "signal handlers">>)

\* One write: the archive's text is edited before it reaches the tree.
patch_launcher_main ==
  <<FromArchive(Rewrite("core/launcher/main.cpp",
      launcher_main_environment \o launcher_main_start))>>

patch_config_write ==
  <<Rewrite(config,
      <<Insert("BE300_CONFIG_WRITE_DISABLED", "Config::write"),
        Every(Edit({"open failure"}, {"open failure reported plainly"})),
        Every(Edit({"rename failure"}, {"rename failure reported plainly"})),
        Every(Edit({"rename of C strings"}, {"rename failure reported plainly"}))>>)>>

patch_config_raw_read ==
  <<Rewrite(config, <<Unless("raw read", Edit({"QFile read"}, {"raw read"}))>>)>>

patch_config_disable_cache ==
  <<Rewrite(config,
      <<Insert("insert disabled", "ConfigCache::insert"),
        Unless("find disabled", Edit({"ConfigCache::find"}, {"find disabled"}))>>)>>

patch_config_direct_read_entry ==
  <<Rewrite(config,
      <<Unless("readEntryDirect", Edit({"readEntry head"}, {"readEntryDirect"})),
        Unless("readEntryDirect closed",
          Edit({"readEntryDirect", "readEntry tail"},
               {"readEntryDirect", "readEntryDirect closed"}))>>)>>

backup_h == "noncore/settings/backup/backuprestore.h"
backup_cpp == "noncore/settings/backup/backuprestore.cpp"

patch_backup ==
  <<restore_original(backup_h),
    Rewrite(backup_h, <<Every(Edit({"__dev_t"}, {"dev_t"})), Insert("sys/types.h", "qlist.h")>>),
    restore_original(backup_cpp),
    Rewrite(backup_cpp, <<Every(Edit({"__dev_t"}, {"dev_t"}))>>)>>

-----------------------------------------------------------------------------
\* The calls of main(), in their order.
main == Script(<<
  patch_qpeapplication, patch_regular_launcher_shell, patch_launcherview, patch_launchertab,
  patch_documentlist, patch_regular_documentlist_shell, patch_taskbar,
  patch_regular_server_shell, patch_be300_input_pump, patch_opie_application,
  patch_launcher_main, patch_config_write, patch_config_raw_read,
  patch_config_disable_cache, patch_config_direct_read_entry, patch_backup>>)

\* Passages only earlier versions of the script inserted, and what they replaced.
forms ==
  "debug calls" :> {} @@ "repeated inputMethods test" :> {"inputMethods test"} @@
  "rename of C strings" :> {"rename failure"}
=============================================================================
