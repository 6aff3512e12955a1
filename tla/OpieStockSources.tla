-------------------------- MODULE OpieStockSources --------------------------
(***************************************************************************)
(* patch_opie_sources_stock.py: the patch set of the Linux 4.2 OPIE.  A    *)
(* definition taken from OpieSources is the same code in both scripts.     *)
(***************************************************************************)
EXTENDS SourceEdits, TLC

Opie == INSTANCE OpieSources

patch_qpeapplication == Opie!patch_qpeapplication

launcher_tabs ==
  Opie!Extends(<<"LauncherTabWidget tail">>)
  \o Opie!Swaps(<<"initLayout", "raiseTabWidget", "setLoadingProgress", "background type",
                  "solid background", "Documents background", "Documents text color",
                  "reCheckDoctab", "Documents tab">>)

launcher_slots ==
  Opie!Swaps(<<"applicationAdded", "documentAdded", "aboutToAddBegin", "aboutToAddEnd",
               "showLoadingDocs", "showDocTab", "documentRemoved", "allDocumentsRemoved",
               "documentChanged", "documentScanningProgress", "typeAdded",
               "applicationScanningProgress">>)

patch_launcher ==
  Opie!launcher_restores
  \o <<Rewrite(Opie!launcher,
         <<Opie!strip_be300_debug, Insert("qevent.h", "qdir.h")>> \o launcher_tabs \o launcher_slots)>>

patch_launcherview ==
  <<Restore(Opie!launcherview),
    Rewrite(Opie!launcherview,
      <<Opie!strip_be300_debug, Edit({"setUpdatesEnabled"}, {"BE300 setUpdatesEnabled"})>>)>>

patch_launchertab == Opie!patch_launchertab

patch_documentlist ==
  <<Restore(Opie!documentlist), Rewrite(Opie!documentlist, <<Opie!strip_be300_debug>>)>>

\* The server files are cleaned in place, not restored.
patch_taskbar ==
  <<Rewrite("core/launcher/taskbar.cpp",
      <<Opie!strip_be300_debug,
        Every(Edit({"InputMethods"}, {"BE300 InputMethods"})),
        Every(Edit({"Wait"}, {"BE300 Wait"})), Every(Edit({"AppIcons"}, {"BE300 AppIcons"}))>>),
    Rewrite(Opie!server,
      <<Opie!strip_be300_debug, Edit({"empty Server::show"}, {"Server::show"})>>),
    Rewrite(Opie!serverapp, <<Opie!strip_be300_debug>>)>>

patch_opie_application ==
  <<Rewrite("libopie2/opiecore/oapplication.cpp", <<Opie!strip_be300_debug>>)>>

\* The macro goes back in where the uses of it are and the strip took it.
patch_launcher_main ==
  <<Rewrite("core/launcher/main.cpp",
      <<Every(Edit({"stage macro with output"}, {"stage macro"})), Opie!strip_be300_debug,
        Unless("be300_qpe_stage",
          Edit({"stage uses", "create_pidfile"},
               {"stage uses", "create_pidfile", "be300_qpe_stage"})),
        Unless("stage macro",
          Edit({"stage uses", "be300_qpe_stage"},
               {"stage uses", "be300_qpe_stage", "stage macro"}))>>)>>

patch_backup == Opie!patch_backup

-----------------------------------------------------------------------------
\* The calls of main(), in their order.
main == Script(<<
  patch_qpeapplication, patch_launcher, patch_launcherview, patch_launchertab,
  patch_documentlist, patch_taskbar, patch_opie_application, patch_launcher_main,
  patch_backup>>)

forms ==
  "debug calls" :> {} @@ "empty Server::show" :> {"Server::show"} @@
  "stage uses" :> {} @@ "stage macro with output" :> {}
=============================================================================
