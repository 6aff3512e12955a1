---------------------------- MODULE BoardSources ----------------------------
(***************************************************************************)
(* install_board_hardware.py: the board support of this repository put     *)
(* into a kernel tree, once for each of the kernels 2.4, 2.6 and 4.2, with *)
(* the emulator's NAND driver.  The tree is the one the patch series made, *)
(* and the script is run again over it whenever the kernel is built.       *)
(***************************************************************************)
EXTENDS SourceEdits, TLC

makefile == "board Makefile"
kconfig == "arch/mips/Kconfig"
config_in == "arch/mips/config.in"
setup == "setup.c"
fb == "sfb.c"
touch_path == "touch.c"
irq_path == "irq.c"
nand_path == "nand.c"
cf == "cf_be300.c"
early == "kernel/printk.c"

HEADER == "be300_hardware.h"
MARKER == "board hardware integration v1"

Calls(function, call) == Edit({function}, {function, call})

\* function_body: the call is put into the function, which must be there.
function_body(function, call) == Must(Calls(function, call))
Bodies(functions, call) == [k \in DOMAIN functions |-> function_body(functions[k], call \o functions[k])]

adapt(file, edits) == Step(file, {MARKER}, edits \o <<Unless(HEADER, AtEnd(HEADER)), AtEnd(MARKER)>>)

\* An upgrade on top: a marker of its own, each passage required.
Upgrade(file, mark, edits) ==
  Step(file, {mark}, [k \in DOMAIN edits |-> Must(edits[k])] \o <<AtEnd(mark)>>)

Adds(file, line) == Step(file, {line}, <<AtEnd(line)>>)

\* copy_changed: the repository's file, whatever stands in the tree.
copy_changed(file) == FromArchive(Step(file, {}, << >>))

framebuffer ==
  <<adapt(fb, <<Must(Calls("fb_ops", "be300_sfb_blank")),
                Edit({"other fb_blank"}, {"fb_blank = be300_sfb_blank"}),
                Insert("fb_blank = be300_sfb_blank", "fb_ops")>>)>>

framebuffer_24 ==
  <<adapt(fb, <<Must(Calls("fb_ops", "be300_sfb_blank")),
                Must(Calls("register_framebuffer", "blank = be300_sfb_blank"))>>),
    Step(fb, {"be300_framebuffer_ready"}, <<function_body("sfb_init", "be300_framebuffer_ready")>>)>>

touch ==
  <<adapt(touch_path,
      <<Edit({"swapped PIU bits"}, {"PIU bits"}), function_body("be300_touch_init", "be300_piu_prepare")>>)>>

touch_scan_upgrade ==
  <<Upgrade(touch_path, "PIU hardware scan v2",
      <<Edit({"PIU startup"}, {"be300_piu_start"}), Edit({"PIU acknowledgement"}, {"be300_piu_ack"})>>)>>

touch_filter_upgrade ==
  <<Upgrade(touch_path, "touch filter v1",
      <<Edit({"unfiltered reports"}, {"stroke reports"}), Calls("poll", "stroke state"),
        Calls("adc_valid", "touch_filter.h")>>)>>

touch_icons_upgrade ==
  <<Upgrade(touch_path, "hard icons v1",
      <<Edit({"panel height 359"}, {"panel height 360"}), Edit({"clamp to the LCD"}, {}),
        Edit({"stroke state"}, {"stroke state with icons"})>>)>>

legacy_touch ==
  touch \o touch_scan_upgrade \o <<copy_changed("touch_filter.h")>>
  \o touch_filter_upgrade \o touch_icons_upgrade

irq ==
  <<adapt(irq_path,
      Bodies(<<"be300_irq_chip_init", "be300_irq_cascade_init", "mask", "unmask", "ack">>, "hardware's ")
      \o <<Every(Edit({"pending written to ack"}, {"be300_girq0_pending_ack"}))>>)>>

irq_legacy ==
  <<adapt(irq_path,
      Bodies(<<"be300_irq_cascade_init", "startup", "enable", "shutdown", "disable", "girq0_write_ack">>,
             "hardware's "))>>

\* The spare bytes are drained as the ROM does, also where an earlier install
\* drained them in MODE 5 alone.
nand_drain ==
  <<Every(Edit({"drain of 8 bytes"}, {"drain of 16 bytes"})),
    Every(Edit({"drain in MODE 5"}, {"drain of 16 bytes"}))>>

nand ==
  <<adapt(nand_path,
      <<function_body("nand_send_cmd", "unit select"), Every(Edit({"start"}, {"prepare and start"})),
        Every(Edit({"ack"}, {"ack and prepare"})), function_body("nand_send_addr", "xfer_wait_ready")>>
      \o nand_drain),
    Rewrite(nand_path, nand_drain)>>

\* At least one of the functions is there.
console(functions) ==
  [k \in DOMAIN functions |-> Calls(functions[k], "be300_console_ready")]
  \o <<Must(Edit({"be300_console_ready"}, {"be300_console_ready"}))>>

console_24 ==
  <<adapt("serial_be300.c", console(<<"be300_console_init", "be300_serial_init">>)),
    Step(early, {"be300_console_ready"},
      console(<<"Uart16550Init", "Uart16550GetPoll", "Uart16550Put">>) \o <<AtEnd(HEADER)>>)>>

hardware_object == <<Step(makefile, {"hardware.o"}, <<Must(Calls("obj-y", "hardware.o"))>>)>>

gnu99 == <<Adds(makefile, "CFLAGS_nand.o")>>

\* 2.4 reads obj-y at its include of Rules.make: what comes later is not built.
Late(object) == object \o ", after the include"

late_objects ==
  <<Step(makefile, {"buzzer.o", Late("buzzer.o")}, <<AtEnd(Late("buzzer.o"))>>),
    Step(makefile, {"battery.o", Late("battery.o")}, <<AtEnd(Late("battery.o"))>>)>>

rules_make_order ==
  <<Step(makefile, {}, [k \in 1 .. 2 |-> LET object == <<"buzzer.o", "battery.o">>[k]
                                         IN  Edit({Late(object)}, {object})])>>

objects == <<Adds(makefile, "buzzer.o"), Adds(makefile, "battery.o")>>

\* battery.c takes the place of power.c.
objects_42 ==
  <<Adds(makefile, "buzzer.o"),
    Step(makefile, {"battery.o"}, <<Erase("power.o"), AtEnd("battery.o")>>),
    Adds(makefile, "usb_serial.o"), Adds(makefile, "pm.o"), Adds(makefile, "pata_be300.o")>>

audio == <<Adds(makefile, "audio.o")>>
wifi == <<Adds(makefile, "wifi.o")>>

\* Generic ISA probing keeps off a wireless card.
ne ==
  <<Step("ne.c", {"be300_wired_card"},
      <<Calls("module.h", "be300_card.h"), function_body("ne_probe1", "be300_wired_card")>>)>>

\* Only storage gets an IDE channel; an older gate kept wireless cards off.
ide_gate ==
  <<Step(cf, {"storage gate"},
      <<Edit({"wireless gate"}, {"storage gate"}), Unless("storage gate", AtEnd("be300_card.h")),
        Unless("storage gate", function_body("be300_ide_default_io_base", "storage gate"))>>)>>

ack_source ==
  <<Step(setup, {}, <<Insert(HEADER, "all-ones GIRQ0 ack"), Edit({"all-ones GIRQ0 ack"}, {"source 1 masked"})>>)>>

prom_putchar == <<adapt(setup, console(<<"prom_putchar">>))>>

-----------------------------------------------------------------------------
\* install(tree, version)
install_24 == Script(<<
  <<copy_changed("drivers"), copy_changed("include/linux")>>,
  hardware_object, audio, late_objects, wifi, rules_make_order, ne,
  <<Adds(config_in, "CONFIG_BE300_AUDIO")>>, ide_gate, ack_source, console_24,
  framebuffer_24, legacy_touch, irq_legacy, nand>>)

install_26 == Script(<<
  <<copy_changed("drivers"), copy_changed("include/linux")>>,
  gnu99, hardware_object, audio, <<Adds(kconfig, "config BE300_AUDIO")>>, objects, wifi,
  <<Adds(kconfig, "config BE300_WIFI")>>, ne, ack_source, prom_putchar,
  framebuffer, legacy_touch, irq_legacy, nand>>)

\* The NAND and touch drivers are copies that bear the marker already.
install_42 == Script(<<
  <<copy_changed("drivers"), copy_changed("include/linux")>>,
  gnu99, hardware_object, audio, <<Adds(kconfig, "config BE300_AUDIO")>>, objects_42, wifi,
  <<Adds(kconfig, "config BE300_WIFI")>>, ne, ack_source, prom_putchar, framebuffer, irq>>)

forms ==
  "drain in MODE 5" :> {"drain of 8 bytes"} @@ "wireless gate" :> {}
=============================================================================
