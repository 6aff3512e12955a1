---------------------------- MODULE XorgSources ----------------------------
(***************************************************************************)
(* patch_xorg_sources.py: the transforms of xorg-server 1.6 for TinyX, one *)
(* definition per function.  Fragments are named for the passage they      *)
(* stand for; a fragment that is a comment with a marker bears its name.   *)
(***************************************************************************)
EXTENDS SourceEdits, TLC

configure == "configure.ac"
linux == "hw/kdrive/linux/linux.c"
evdev == "hw/kdrive/linux/evdev.c"
kdrive == "hw/kdrive/src/kdrive.c"
kinput == "hw/kdrive/src/kinput.c"
xace == "Xext/xace.c"
os_h == "include/os.h"
dix_h == "include/dix.h"
dispatch == "dix/dispatch.c"
dixutils == "dix/dixutils.c"
connection == "os/connection.c"
io == "os/io.c"
WaitFor == "os/WaitFor.c"

\* Bug: no marker test.
HideAgain(file, symbol) == Step(file, {}, <<Edit({symbol}, {symbol, "hide " \o symbol})>>)

\* Declaration and definition given hidden visibility, each in its file.
Hide(file, symbol) ==
  Step(file, {"hide " \o symbol}, <<Edit({symbol}, {symbol, "hide " \o symbol})>>)

patch_xorg_server_configure ==
  <<Step(configure, {}, <<Every(Edit({"AM_CONFIG_HEADER"}, {"AC_CONFIG_HEADERS"}))>>)>>

drop_dead_hal_udev_requires ==
  <<Step(configure, {}, <<Every(Edit({"HAL and UDEV checks"}, {"disabled checks"}))>>)>>

patch_kdrive_linux_unistd ==
  <<Step(linux, {"unistd.h"}, <<Insert("unistd.h", "first include")>>)>>

patch_xace_hook_lifetime ==
  <<Step(xace, {"keep callback records alive"},
      <<Must(Edit({"XaceHook", "XaceHook body"}, {"XaceHook", "keep callback records alive"}))>>)>>

patch_animcur_without_screen_block_handler ==
  <<Step("render/animcur.c", {"do not wrap Screen.BlockHandler"},
      <<Must(Edit({"unwrap"}, {"unwrap", "test before unwrap"})),
        Must(Edit({"wrap"}, {"do not wrap Screen.BlockHandler"}))>>)>>

patch_kdrive_without_screen_block_handler ==
  <<Step(kdrive, {"input wakes through KdWakeupHandler"},
      <<Must(Edit({"block and wakeup handlers"}, {"input wakes through KdWakeupHandler"}))>>)>>

patch_kdrive_select_only_input_fds ==
  <<Step(kinput, {"select-driven input only"},
      <<Must(Edit({"KdNonBlockFd"}, {"select-driven input only"})),
        Must(Edit({"KdAddFd with SIGIO"}, {"KdAddFd without SIGIO"})),
        Must(Edit({"KdRemoveFd flags"}, {"KdRemoveFd without FASYNC"}))>>)>>

\* Returns 0: the keyboard's symbol tables are left to the next function.
patch_kdrive_evdev_keyboard == << >>

patch_kdrive_evdev_keyboard_mapping ==
  <<Step(evdev, {"align keymap with KEY_*"},
      <<Must(Edit({"scan code range"}, {"align keymap with KEY_*"}))>>)>>

\* Every native record in the file, whoever put it there.
patch_kdrive_evdev_wire_event ==
  <<Step(evdev, {"16-byte wire event"},
      <<Must(Insert("16-byte wire event", "ABS_UNSET")),
        Every(Edit({"struct input_event"}, {"struct be300_evdev_event"}))>>)>>

patch_dix_main_startup_logging ==
  <<Step("dix/main.c", {"startup milestone logging"},
      <<Must(Edit({"start-up calls", "InitInput calls", "NotifyParentProcess calls"},
                  {"start-up calls", "logged InitInput calls", "logged NotifyParentProcess calls",
                   "startup milestone logging"}))>>)>>

patch_connection_logging ==
  <<Step(connection, {},
      <<Erase("older accept logging"),
        Must(Unless("skip pre-accept straggler timeout",
             Edit({"readyconnections copy", "straggler loop", "accept loop"},
                  {"readyconnections copy", "skip pre-accept straggler timeout", "accept loop"})))>>)>>

patch_os_time_local_binding ==
  <<Hide(os_h, "GetTimeInMillis"),
    Step("os/utils.c", {},
      <<Unless("hide GetTimeInMillis definition",
               Edit({"exported GetTimeInMillis"}, {"hide GetTimeInMillis definition"})),
        Edit({"direct gettimeofday syscall"}, {"MIPS monotonic counter"}),
        Unless("MIPS monotonic counter",
               Edit({"GetTimeInMillis body"}, {"MIPS monotonic counter"}))>>)>>

\* A second run finds the marker and takes the other branch: the declarations
\* for other compilers, left plain by the first, are hidden too.
os_io_declarations ==
  <<Edit({"hide client I/O helpers", "plain fallback", "exported InsertFakeRequest"},
         {"hide client I/O helpers", "hidden fallback", "hidden InsertFakeRequest"}),
    Unless("hide client I/O helpers",
           Edit({"client I/O declarations"},
                {"hide client I/O helpers", "hidden InsertFakeRequest",
                 "plain fallback", "exported InsertFakeRequest"}))>>

os_io_definitions ==
  <<Edit({"hide client I/O helpers, older"},
         {"hide client I/O helpers", "hidden client I/O heads"}),
    Unless("hide client I/O helpers",
           Edit({"InsertFakeRequest head", "client I/O heads"},
                {"InsertFakeRequest hidden head", "hidden client I/O heads",
                 "hide client I/O helpers"}))>>

patch_os_io_local_binding ==
  <<Step(os_h, {}, os_io_declarations), Step(io, {}, os_io_definitions)>>

patch_dix_close_down_client_local_binding ==
  <<Hide(dix_h, "CloseDownClient"), Hide(dispatch, "CloseDownClient")>>

patch_connection_auth_local_binding ==
  <<Hide(os_h, "authorization helpers"), Hide(connection, "ClientAuthorized"),
    Hide("os/access.c", "InvalidHost"), Hide("os/auth.c", "CheckAuthorization")>>

patch_xace_hook_local_binding ==
  <<Hide("Xext/xace.h", "XaceHook"), Hide(xace, "XaceHook")>>

callback_declarations ==
  <<Step(dix_h, {},
      <<Unless("local callback manager symbols",
               Edit({"callback types"}, {"local callback manager symbols"})),
        Edit({"hidden CallCallbacks, older"}, {"local CallCallbacks"}),
        Unless("local CallCallbacks", Edit({"CallCallbacks"}, {"local CallCallbacks"})),
        Unless("local callback calls", Edit({"callback calls"}, {"local callback calls"}))>>),
    Hide("include/dixstruct.h", "ClientStateCallback")>>

callback_definitions ==
  <<Hide(dispatch, "ClientStateCallback"),
    Step(dixutils, {},
      <<Insert("callback registration logging", "callback registration"),
        Unless("callback node prelog",
               Edit({"logged callback loop"}, {"callback node prelog"})),
        Insert("omit ClientStateCallback registrations", "AddCallback test"),
        Unless("hide callback definitions",
               Edit({"callback definitions"}, {"hide callback definitions"}))>>)>>

patch_callback_local_binding == callback_declarations \o callback_definitions

block_wakeup_declarations ==
  <<Step(dix_h, {"local block/wakeup bindings"},
      <<Edit({"block/wakeup declarations"}, {"local block/wakeup bindings"})>>)>>

block_wakeup_definitions ==
  <<Step(dixutils, {"block/wakeup local binding"},
      <<Edit({"block/wakeup heads"}, {"block/wakeup local binding", "registration logs"}),
        Edit({"BlockHandler"}, {"logged BlockHandler"}),
        Edit({"WakeupHandler"}, {"logged WakeupHandler"})>>)>>

patch_block_wakeup_local_binding == block_wakeup_declarations \o block_wakeup_definitions

patch_block_wakeup_quiet_guards ==
  <<Step(dixutils, {"quiet block/wakeup dispatch"},
      <<Must(Edit({"logged BlockHandler"}, {"quiet block/wakeup dispatch"})),
        Must(Edit({"logged WakeupHandler"}, {"generic WakeupHandler loop"})),
        Edit({"registration logs"}, {})>>)>>

patch_waitfor_wakeup_only_for_input ==
  <<Step(WaitFor, {"only wake DDX for readable input fds"},
      <<Must(Edit({"selecterr, then WakeupHandler"}, {"only wake DDX for readable input fds"}))>>)>>

\* Bug: no marker test before "context not found".
inline_new_connections_again ==
  <<Step(WaitFor, {}, <<Must(Edit({"queued EstablishNewConnections"}, {"accept new X clients inline"}))>>)>>

patch_waitfor_inline_new_connections ==
  <<Step(WaitFor, {"accept new X clients inline"},
      <<Must(Edit({"queued EstablishNewConnections"}, {"accept new X clients inline"}))>>)>>

patch_waitfor_skip_block_handler ==
  <<Step(WaitFor, {"skip generic DIX BlockHandler"},
      <<Must(Edit({"BlockHandler call"}, {"skip generic DIX BlockHandler"}))>>)>>

\* The line it inserts after selecterr parts it from what followed.
patch_waitfor_select_logging ==
  <<Step(WaitFor, {"trace Select boundary"},
      <<Must(Insert("trace Select boundary", "dispatchException test")),
        Must(Edit({"selecterr"}, {"selecterr", "Select result logged"})),
        Erase("selecterr, then WakeupHandler")>>)>>

patch_waitfor_no_timer_timeouts ==
  <<Step(WaitFor, {"disable timeout-based timers"},
      <<Must(Edit({"timer timeout"}, {"disable timeout-based timers"}))>>)>>

patch_wakeup_skip_generic_handlers ==
  <<Step(dixutils, {"skip generic WakeupHandler callbacks"},
      <<Must(Edit({"generic WakeupHandler loop"}, {"skip generic WakeupHandler callbacks"}))>>)>>

\* Undoes what patch_os_io_local_binding does to this one symbol.
patch_insert_fake_request_exported ==
  <<Step(os_h, {}, <<Edit({"hidden InsertFakeRequest"}, {"exported InsertFakeRequest"})>>),
    Step(io, {}, <<Edit({"InsertFakeRequest hidden head"}, {"InsertFakeRequest head"})>>)>>

patch_insert_fake_request_logging ==
  <<Step(io, {"InsertFakeRequest internal logging"},
      <<Edit({"InsertFakeRequest body"}, {"InsertFakeRequest internal logging"})>>)>>

client_dispatch_headers ==
  <<Hide(dix_h, "NextAvailableClient"),
    Step(connection, {"AllocNewConnection logging"},
      <<Edit({"AllocNewConnection"}, {"AllocNewConnection logging"})>>)>>

\* Logs that older versions inserted once per run.
client_dispatch_setup ==
  <<Erase("repeated initial logs"),
    Unless("dispatch request bracketing",
           Edit({"NextAvailableClient"}, {"NextAvailableClient logged", "hide NextAvailableClient"}))>>

client_dispatch_bracketing ==
  <<Unless("dispatch request bracketing",
           Edit({"initial request"}, {"logged initial request"})),
    Unless("dispatch request bracketing",
           Edit({"request dispatch"}, {"dispatch request bracketing"}))>>

client_dispatch_requests ==
  <<Step(dispatch, {}, client_dispatch_setup \o client_dispatch_bracketing)>>

client_dispatch_callbacks ==
  <<Step("dix/resource.c", {},
      <<Insert("InitClientResources bracketing", "InitClientResources"),
        Insert("resources alloc", "resource table alloc"),
        Unless("zero resource table without memset",
               Edit({"resource table loop"}, {"zero resource table without memset"}))>>),
    Step(dixutils, {"callback dispatch logging"},
      <<Edit({"callback loop"}, {"callback dispatch logging", "logged callback loop"})>>)>>

patch_client_dispatch_logging ==
  client_dispatch_headers \o client_dispatch_requests \o client_dispatch_callbacks

patch_dispatch_local_initial_request ==
  <<Step(dispatch, {},
      <<Insert("osdep.h", "opaque.h"),
        Edit({"inlined queue_initial_request"},
             {"be300_queue_initial_request", "local initial request"}),
        Insert("be300_queue_initial_request", "mskcnt"),
        Edit({"logged initial request"}, {"local initial request"}),
        Edit({"initial request"}, {"local initial request"})>>)>>

patch_dispatch_wait_input_local_binding ==
  <<Hide(os_h, "WaitForSomething"), Hide(WaitFor, "WaitForSomething"),
    Hide("include/input.h", "ProcessInputEvents"), Hide(kinput, "ProcessInputEvents"),
    Hide("mi/mi.h", "mieqProcessInputEvents"), Hide("mi/mieq.c", "mieqProcessInputEvents")>>

patch_dispatch_loop_logging ==
  <<Step(dispatch, {"Dispatch wait loop logging"},
      <<Edit({"Dispatch wait loop"}, {"Dispatch wait loop logging"})>>)>>

patch_colormap_install_logging ==
  <<Step("mi/micmap.c", {"mi colormap install logging"},
      <<Edit({"InstallColormap call"}, {"mi colormap install logging"})>>),
    Step("hw/kdrive/src/kcmap.c", {"KdInstallColormap logging"},
      <<Edit({"KdInstallColormap"}, {"KdInstallColormap logging"})>>),
    Step("mi/misprite.c", {"miSpriteInstallColormap logging"},
      <<Edit({"miSpriteInstallColormap"}, {"miSpriteInstallColormap logging"})>>),
    Step(kdrive, {"KdScreenInit colormap logging"},
      <<Edit({"default colormap"}, {"KdScreenInit colormap logging"})>>)>>

patch_kdrive_screen_lifecycle_logging ==
  <<Step(kdrive, {"KdScreenInit lifecycle logging"},
      <<Edit({"screen life cycle"}, {"KdScreenInit lifecycle logging"})>>)>>

patch_kdrive_linux_no_vt_wait ==
  <<Step(linux, {"no VT activation wait"},
      <<Must(Edit({"VT activation"}, {"no VT activation wait"}))>>)>>

\* The handler it looks for names the native record.
patch_kdrive_evdev_touchscreen ==
  <<Step(evdev, {"absolute touchscreen support"},
      <<Must(Edit({"button handler", "struct input_event"},
                  {"absolute touchscreen support", "BTN_TOUCH handler", "struct input_event"})),
        Must(Edit({"absolute motion"}, {"absolute motion sent"}))>>)>>

patch_kdrive_evdev_touchscreen_class ==
  <<Step(evdev, {"mark pointer as touchscreen"},
      <<Must(Edit({"Evdev mouse"}, {"mark pointer as touchscreen"}))>>)>>

patch_kdrive_evdev_touchscreen_contact_state ==
  <<Step(evdev, {"touchscreen contact state"},
      <<Must(Edit({"Kevdev"}, {"touchscreen contact state"})),
        Must(Edit({"BTN_TOUCH handler", "absolute motion sent"}, {"contact sent with position"}))>>)>>

patch_dixfonts_no_fs ==
  <<Step("dix/dixfonts.c", {"skip fs_register_fpe_functions"},
      <<Edit({"fs_register_fpe_functions"}, {"skip fs_register_fpe_functions"})>>)>>

patch_dixfonts_fpe_bridge ==
  <<Step("dix/dixfonts.c", {"RegisterFPEFunctions bridge"},
      <<Must(Insert("RegisterFPEFunctions bridge", "RegisterFPEFunctions tail"))>>)>>

patch_drop_xtest_h ==
  <<Step("hw/xfree86/dixmods/extmod/modinit.h", {"skip XTest.h"},
      <<Edit({"XTest.h"}, {"skip XTest.h"})>>),
    Step("Xext/xtest.c", {"skip XTest.h"}, <<Edit({"XTest.h"}, {"skip XTest.h"})>>)>>

patch_skip_sha1 ==
  <<Step(configure, {"skip SHA1 detection"},
      <<Edit({"SHA1 detection"}, {"skip SHA1 detection"})>>),
    Step("render/glyph.c", {"stub HashGlyph"},
      <<Edit({"SHA1 include"}, {}), Edit({"HashGlyph body"}, {"stub HashGlyph"})>>)>>

patch_disable_smart_schedule ==
  <<Step(dispatch, {"disable SmartScheduleClient"},
      <<Edit({"SmartScheduleDisable"}, {"disable SmartScheduleClient"})>>)>>

\* The helper is an f-string in which the C comment's "{ regmask, status, pc, ...}"
\* is not escaped: building it evaluates names that do not exist.
patch_os_siginit_dump ==
  <<Step("os/osinit.c", {"SIGSEGV register dump"},
      <<Must(Edit({"OsInit", Unbound}, {"OsInit", "SIGSEGV register dump"}))>>)>>

-----------------------------------------------------------------------------
\* The calls of main(), in their order.
main == Script(<<
  patch_xorg_server_configure, drop_dead_hal_udev_requires, patch_kdrive_linux_unistd,
  patch_xace_hook_lifetime, patch_animcur_without_screen_block_handler,
  patch_kdrive_without_screen_block_handler, patch_kdrive_select_only_input_fds,
  patch_kdrive_evdev_keyboard, patch_kdrive_evdev_keyboard_mapping,
  patch_dix_main_startup_logging, patch_connection_logging, patch_os_time_local_binding,
  patch_os_io_local_binding, patch_dix_close_down_client_local_binding,
  patch_connection_auth_local_binding, patch_xace_hook_local_binding,
  patch_insert_fake_request_exported, patch_callback_local_binding,
  patch_block_wakeup_local_binding, patch_block_wakeup_quiet_guards,
  patch_waitfor_wakeup_only_for_input, patch_waitfor_inline_new_connections,
  patch_waitfor_skip_block_handler, patch_waitfor_select_logging,
  patch_waitfor_no_timer_timeouts, patch_wakeup_skip_generic_handlers,
  patch_insert_fake_request_logging, patch_client_dispatch_logging,
  patch_dispatch_local_initial_request, patch_dispatch_wait_input_local_binding,
  patch_dispatch_loop_logging, patch_colormap_install_logging,
  patch_kdrive_screen_lifecycle_logging, patch_kdrive_linux_no_vt_wait,
  patch_kdrive_evdev_touchscreen, patch_kdrive_evdev_touchscreen_class,
  patch_kdrive_evdev_touchscreen_contact_state, patch_kdrive_evdev_wire_event,
  patch_drop_xtest_h, patch_dixfonts_no_fs, patch_dixfonts_fpe_bridge, patch_skip_sha1,
  patch_disable_smart_schedule, patch_os_siginit_dump>>)

\* Passages only earlier versions of the script inserted, and what they replaced.
forms ==
  "older accept logging" :> {} @@ "direct gettimeofday syscall" :> {"GetTimeInMillis body"} @@
  "hide client I/O helpers, older" :> {"client I/O heads"} @@
  "hidden CallCallbacks, older" :> {"CallCallbacks"} @@
  "InsertFakeRequest hidden head" :> {"InsertFakeRequest head"} @@
  "repeated initial logs" :> {} @@ "inlined queue_initial_request" :> {"initial request"}
=============================================================================
