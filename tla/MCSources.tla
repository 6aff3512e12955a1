----------------------------- MODULE MCSources -----------------------------
(* The patch scripts over the trees they meet. *)
EXTENDS SourcePatch, TLC

Xorg == INSTANCE XorgSources
Picogui == INSTANCE PicoguiSources
Qt == INSTANCE QtSources
QtStock == INSTANCE QtStockSources
Opie == INSTANCE OpieSources
OpieStock == INSTANCE OpieStockSources
Board == INSTANCE BoardSources
Libxfont == INSTANCE LibxfontSources
Nxtetris == INSTANCE NxtetrisSources

\* An older tree is one that an earlier version of the script has patched.
Scripts == [xorg |-> [main |-> Xorg!main, forms |-> Xorg!forms],
            picogui |-> [main |-> Picogui!main, forms |-> Picogui!forms],
            qt |-> [main |-> Qt!main, forms |-> Qt!forms],
            qt_stock |-> [main |-> QtStock!main, forms |-> QtStock!forms],
            opie |-> [main |-> Opie!main, forms |-> Opie!forms],
            opie_stock |-> [main |-> OpieStock!main, forms |-> OpieStock!forms],
            board24 |-> [main |-> Board!install_24, forms |-> Board!forms],
            board26 |-> [main |-> Board!install_26, forms |-> Board!forms],
            board42 |-> [main |-> Board!install_42, forms |-> Board!forms],
            libxfont |-> [main |-> Libxfont!main, forms |-> Libxfont!forms],
            nxtetris |-> [main |-> Nxtetris!main, forms |-> Nxtetris!forms]]

MCJobs == (DOMAIN Scripts) \X {"upstream", "older"}

\* The stock scripts over trees that the legacy24 ones have patched.
SwitchJobs == {"qt_stock", "opie_stock"} \X {"legacy24"}
AllJobs == MCJobs \cup SwitchJobs

MCSteps == [j \in AllJobs |-> Scripts[j[1]].main]

\* Op of a value that is worked out once.
Once(value, Op(_)) == CHOOSE r \in {Op(v) : v \in {value}} : TRUE

Vanilla(s) == [f \in FilesOf(s.main) |-> Upstream(s.main, DOMAIN s.forms, f)]
Older(s) == [f \in FilesOf(s.main) |-> Aged(s.main, s.forms, f)]

Own(steps, f) == SelectSeq(steps, LAMBDA step : step.file = f)

\* One undisturbed run of steps over a text; archived: what restores it.
RECURSIVE Run(_, _, _)
Run(steps, archived, t) ==
  IF steps = << >> THEN t
  ELSE LET r == Outcome(Head(steps), IF Head(steps).restore THEN archived ELSE t)
       IN  Run(Tail(steps), archived, IF r.ok THEN r.text ELSE t)

\* The tree that the older set leaves where both sets have the file.
Legacy == [qt_stock |-> "qt", opie_stock |-> "opie"]

Switched(s, legacy) ==
  [f \in FilesOf(s.main) |->
     IF f \in FilesOf(legacy.main)
     THEN Once(Vanilla(legacy)[f], LAMBDA t : Run(Own(legacy.main, f), t, t))
     ELSE Vanilla(s)[f]]

MCOrigin ==
  Once(Scripts, LAMBDA all :
    [j \in AllJobs |-> CASE j[2] = "upstream" -> Vanilla(all[j[1]])
                          [] j[2] = "older" -> Older(all[j[1]])
                          [] j[2] = "legacy24" -> Switched(all[j[1]], all[Legacy[j[1]]])])

MCArchive == Once(Scripts, LAMBDA all : [j \in AllJobs |-> Vanilla(all[j[1]])])
MCStamps == {"picogui"} \X {"upstream", "older"}

\* file :> what it must hold and what it must not, once it is patched.
Wants(has, lacks) == [has |-> has, lacks |-> lacks]

XorgGoals ==
  Xorg!evdev :> Wants({"struct be300_evdev_event", "contact sent with position"}, {"struct input_event"}) @@
  Xorg!os_h :> Wants({"hide client I/O helpers", "exported InsertFakeRequest"}, {"client I/O declarations"}) @@
  Xorg!io :> Wants({"InsertFakeRequest head", "hidden client I/O heads"}, {"InsertFakeRequest hidden head"}) @@
  Xorg!dixutils :> Wants({"skip generic WakeupHandler callbacks", "quiet block/wakeup dispatch"},
                         {"registration logs", "generic WakeupHandler loop", "logged BlockHandler"}) @@
  Xorg!WaitFor :> Wants({"only wake DDX for readable input fds", "Select result logged"}, {}) @@
  Xorg!dispatch :> Wants({"local initial request", "be300_queue_initial_request"},
                         {"initial request", "logged initial request"})

PicoguiGoals ==
  Picogui!configure_ac :> Wants({"-lpng -lz -lm", "CONFIG_DRIVER_EVDEV"}, {"AM_CONFIG_HEADER"}) @@
  Picogui!omnibar :> Wants({"be300_appmenu_path", "BE300_OMNIBAR_LAUNCH", "BE300_OMNIBAR_TAP_MENUS"}, {}) @@
  Picogui!posix :> Wants({"BE300_NO_SIGALRM"}, {"setitimer"}) @@
  "server/appmgr/panel.c" :> Wants({"BE300_NORMAL_RECALC_V3"}, {"BE300_NORMAL_RECALC, older"})

QtStockGoals ==
  Qt!qwsmouse :> Wants({"filtered evdev reports"}, {"evdev reports", "debug calls"}) @@
  Qt!qgfxraster :> Wants({"accel block"}, {"accel block, older"})

QtGoals ==
  QtStockGoals @@
  Qt!qwindowsystem :> Wants({"wake if there is a server in screenSaverActivate"},
                            {"plain wake in screenSaverActivate", "undeclared timer flag"}) @@
  Qt!qapplication :> Wants({"be300_seltm", "BE300_WAIT_TIMER_NULL_GUARD", "be300_timer_wait"}, {})

\* The regular shell scans its documents and keeps its application launcher.
OpieGoals ==
  Opie!server :> Wants({"be300_pump_input", "BE300 Server::show"}, {"appLauncher = 0"}) @@
  Opie!documentlist :> Wants({"startInitialScan"}, {"BE300 startInitialScan"}) @@
  Opie!launcher :> Wants({"class Be300HomeWidget, defined"}, {"debug calls"}) @@
  Opie!config :> Wants({"BE300_CONFIG_WRITE_DISABLED", "readEntryDirect closed"}, {"rename of C strings"})

OpieStockGoals ==
  Opie!server :> Wants({}, {"empty Server::show", "debug calls"}) @@
  "core/launcher/main.cpp" :> Wants({}, {"stage macro with output", "debug calls"})

\* What every kernel gets, and what the older two get on top.
BoardGoals ==
  Board!makefile :> Wants({"hardware.o", "audio.o", "wifi.o", "buzzer.o", "battery.o"},
                          {"buzzer.o, after the include", "battery.o, after the include"}) @@
  Board!setup :> Wants({"source 1 masked", Board!HEADER}, {"all-ones GIRQ0 ack"}) @@
  Board!fb :> Wants({"be300_sfb_blank", Board!MARKER}, {"other fb_blank"})

LegacyGoals ==
  BoardGoals @@
  Board!touch_path :> Wants({"be300_piu_start", "stroke state with icons"},
                            {"unfiltered reports", "clamp to the LCD", "stroke state"}) @@
  Board!nand_path :> Wants({"unit select", "drain of 16 bytes"}, {"drain of 8 bytes", "drain in MODE 5"})

Board24Goals == LegacyGoals @@ Board!cf :> Wants({"storage gate"}, {"wireless gate"})
Board42Goals ==
  Board!makefile :> Wants({"battery.o", "pm.o", "pata_be300.o", "usb_serial.o"}, {"power.o"}) @@ BoardGoals

LibxfontGoals ==
  Libxfont!regfpefunc :> Wants({"declaration", "prefer Xfbdev FPE registry bridge"},
                               {"declaration with prototype", "RegisterFPEFunctions body"})

NxtetrisGoals == "nxtetris.c" :> Wants({Nxtetris!MARK, "buttons opened", "string.h"}, {})

GoalsOf ==
  [xorg |-> XorgGoals, picogui |-> PicoguiGoals, qt |-> QtGoals, qt_stock |-> QtStockGoals,
   opie |-> OpieGoals, opie_stock |-> OpieStockGoals,
   board24 |-> Board24Goals, board26 |-> LegacyGoals, board42 |-> Board42Goals,
   libxfont |-> LibxfontGoals, nxtetris |-> NxtetrisGoals]

MCGoals == [j \in AllJobs |-> GoalsOf[j[1]]]

\* The select clamp and the input pump of the legacy24 set.
SwitchGoals ==
  [j \in SwitchJobs |->
     IF j[1] = "qt_stock" THEN Qt!qapplication :> Wants({}, {"be300_seltm"})
     ELSE Opie!server :> Wants({}, {"be300_pump_input"})]

XorgOnly == {<<"xorg", "upstream">>}

-----------------------------------------------------------------------------
\* The texts one file goes through: those at the start of some run, and what
\* each of the file's own steps makes of them.
Stepped(step, archived, texts) ==
  LET taken == {Outcome(step, IF step.restore THEN archived ELSE t) : t \in texts}
  IN  {r.text : r \in {x \in taken : x.ok}} \cup (IF step.chained THEN texts ELSE {})

\* The texts before each step, and after the last.
Passage(own, archived, texts) ==
  LET at[k \in 1 .. Len(own) + 1] ==
        IF k = 1 THEN texts ELSE Stepped(own[k - 1], archived, at[k - 1])
  IN  at

\* Rounds of: whatever a run left, at whatever point, starts the next.
Again(own, archived, texts) ==
  texts \cup UNION {Passage(own, archived, texts)[k] : k \in 1 .. Len(own) + 1}

Rounds(own, archived, t) ==
  Once(FoldLeft(LAMBDA texts, n : Again(own, archived, texts), {t}, <<1, 2, 3>>),
       LAMBDA texts : Passage(own, archived, texts))

\* A file's own steps, its archived and its first text, each worked out once.
ForEachFile(Op(_, _, _, _, _)) ==
  Once(<<MCSteps, MCArchive, MCOrigin>>, LAMBDA all :
    [j \in AllJobs |-> [f \in FilesOf(all[1][j]) |->
       Once(Own(all[1][j], f), LAMBDA own : Op(all[1][j], f, own, all[2][j][f], all[3][j][f]))]])

MCReach ==
  ForEachFile(LAMBDA steps, f, own, archived, t :
    Once(Rounds(own, archived, t), LAMBDA at :
      [k \in 1 .. Len(steps) + 1 |-> at[1 + Cardinality({i \in 1 .. k - 1 : steps[i].file = f})]]))

\* Killed between patch_os_io_local_binding and the function that exports
\* InsertFakeRequest again, a run leaves the next two of them to hide.
HiddenTwice(text) ==
  (text (-) SetToBag({"exported InsertFakeRequest"})) (+) SetToBag({"hidden InsertFakeRequest"})

\* The two files that a second run over its own result still changes.
Unquiet == {Xorg!os_h, Xorg!dixutils}

\* What one undisturbed run leaves, and for the unquiet two the exceptions.
MCEnds ==
  ForEachFile(LAMBDA steps, f, own, archived, t :
    LET once == Run(own, archived, t)
        twice == Run(own, archived, once)
    IN  {once} \cup (IF f \in Unquiet THEN {twice} ELSE {})
               \cup (IF f = Xorg!os_h THEN {HiddenTwice(twice)} ELSE {}))
=============================================================================
