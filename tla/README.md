# Specifications of the BE-300 Linux port

TLA+ models of the board support code that ports Linux 2.4, 2.6 and 4.2 to the
Casio BE-300 (`board/casio-be300`, `tools`) and of the scripts that patch
upstream sources for it (`board/*/patch_*.py`,
`scripts/install_board_hardware.py`), TLC configurations that check them on
small instances, and TLAPS proofs of what holds for every size. Paths below
are relative to the repository root; `file.c:n` without a directory is
`board/casio-be300/file.c`.

    tlc -config MCWifi.cfg MCWifi       # one run of the table in section 4
    tlapm NandPhysicalProofs.tla        # one module of proofs

## 1. The system

The BE-300 is a uniprocessor handheld: a VR4131 with a VRC4173 companion chip
(touch, audio, USB, GPIO), a 16 MiB NAND behind a transfer engine (XFER), and
a CompactFlash socket. The repository holds the board drivers, the second
stage loader (SPL), host tools that turn a Windows CE device into a Linux one,
and scripts that build kernels and root file systems.

| Component | State | Operations | Hard part | Correct when |
|---|---|---|---|---|
| XFER engine driver, `nand_controller.h` | burst position, page latches, sticky failure, captured page and tag | commands, address bytes, split page reads and programs, status | a stream read past a burst hangs the bus; a time-out lets the command go on | never past a burst; nothing outside the filesystem arena changes; what is reported good is true |
| NAND policy 4.2, `nand_physical.h` | bad-block table, manifest, sticky failure | read, program, erase, bad-block scan, set-up | failed, falsely reported and interrupted mutations, bit loss | reads are true, no page holding anything is programmed under 4.2, boot area, pool and (4.2) quarantine kept, markers found |
| NAND policy 2.4/2.6, `nand_legacy_physical.c` | the same, seen through the old MTD hooks | command, ECC hook, verify, bbt, set-up | works from what the controller captured; no checks before a mutation | reads are true, boot area and pool kept, markers found |
| Boot scan, `nand_boot.c` | map of logical to physical blocks | scan, read | old CE tags, lost pages | never reads a block of another image |
| SPL, `spl.c` | map, manifest, load position | scan, check manifest, load, fail | bits lost between scan and read | starts the installed kernel or fails |
| Installer, `tools/physical_linux_nand.py`, `nand_inventory.c`, `prepare_linux_nand_transaction.py` | backup, inventory, candidate image, snapshot | inventory, pack, check boot, bind to a snapshot | mask ROM and SPL choose copies by different rules; reinstalling over a used chip | a checked image boots; bad blocks stay untouched and marked |
| Audio, `audio.c` | ring, two DMA buffers, `running`, `failure`, `irq_off` | open, write, drain, reset, format, close; `service()` from IRQ and timer | counters read without the lock; lost completions; signals | samples heard in order and complete; every call returns; IRQ enables balanced |
| Wi-Fi, `wifi.c`, `wifi-proto.h` | `bw_state`, transmit queue, interface state | worker, open/stop, xmit, tick, wireless ioctls | commands that sleep with the lock held, time out, or lose their card | no data frame without its keys; nothing in use without a link; queue is woken, removal is noticed |
| Touch, battery, `touch_be300.c`, `battery.c` | stroke, filter window; samples | interrupt and poll; battery conversion on the same A/D | coalesced events, a shared scan | strokes reported whole, scan always restarted |
| Source patches, `patch_*_sources*.py`, `install_board_hardware.py`, `patch_libxfont_sources.py`, `patch_nxtetris_be300.py` | the extracted source tree, which later builds patch again; markers, one stamp | some hundred edits of named files, in a fixed order | edits of one another's text; runs killed between or inside writes; trees of an older script | no rerun stops on an anchor an earlier run consumed; kills between writes leave no trace in a file no function edits after another; the patch is there |
| Display, buzzer, watchdog, `hardware.c` | blank level, saved backlight, halted flag | blank, brightness, tone, tick, shutdown | shared registers, timer against shutdown | the last setting wins; a stopped watchdog stays stopped |
| Suspend, `pm.c` | `power_pressed`, saved masks | enter, wake | an interrupt just before SUSPEND | a press always wakes |
| USB serial, keys, Stowaway, bridges | session, DMA, edges, probe state | poll, step | one poll sees several events | old session never reaches the new |

How they interact. `NandController` runs below both policies: they issue
commands and see its sticky failure. The boot scan is one piece of code run
by the installer, the SPL and the 4.2 driver. The installer's manifest page
tells SPL and drivers which blocks are quarantined; JFFS2 above the drivers
writes cleanmarkers and bad-block markers, which a later installation has to
find. Touch and battery share the pen interface unit (PIU); the battery's
sample stops and restarts the touch scan. Otherwise audio, Wi-Fi and the PIU's
drivers meet only in the interrupt controller and in `jiffies`. The patch
scripts run over one tree per C library, whichever patch set a build chooses,
on every build. The network stack, the 10 ms timer and the ioctls meet in
`wifi.c` on a sleeping lock (`wifi_sem`), which `wifi_xmit` and `wifi_tick`
do not take. `PROJECT.json` lists every component and every hazard with the
line where it bites.

## 2. Plan

1. **NAND, from the bus to the boot** (done: checked and proved; the transfer
   engine's driver implements `NandArray`). It decides whether
   a device survives, and it cannot be tried out on hardware lightly.
2. **Audio** (done: checked, and all of its safety proved, with the
   implementation of `AudioStream`).
3. **Wi-Fi station** (CF8385 done: checked, every safety invariant proved).
   To come: command sequence
   numbers, so that a late answer is told from the next one; the PRISM card.
4. **Source patches** (done: nine scripts as tables of edits over one
   model of a script that is run, killed and run again; the two safety
   properties proved from the check of one file at a time).
5. **The pen interface unit** (done: touch and battery on one scan; safety
   proved). To come: the filter window's medians and the battery's arithmetic
   as pure operators against a reference; an abstract stroke that touch
   implements; `GirqCascade`.
6. `Panel` (blanking, backlight, buzzer) and `Suspend` (wake-up race,
   watchdog), composed over one interrupt model.
7. `UsbSerial`, `Stowaway`, `Keys`, `InputBridge`.

Rules for all of them: parameters as CONSTANTS with named assumptions, one
action per operation or per step between two places where others can run, no
RECURSIVE operators in a module with proofs.

## 3. The modules

### NandController: the transfer engine driver

`drv` is the file-scope state of `nand_controller.h:31-54`, `chip` the NAND's
command and row latches, its page register and the engine's burst, `cells`
the array, `client` the operation an MTD core has asked for, `loop` the locals
of `read_buf`/`write_buf`. There is one action for each call a client makes
(`SendMain`, `SendColumn`, `SendLow`, `SendHigh`, `CloseAddr`) and one for
each turn of the stream loops (`ReadByte`, `DiscardWord`, `PadByte`,
`WriteByte`), so that every split of a page into calls is explored. Every
wait may give up (`Waited`): the command goes on, `drv.failed` sticks.
The chip side (`LatchCmd`, `LatchByte`, `Stream`, `Mutated`) is external and
follows what the driver's comments say of the engine.

`NandArray` is what the layers above take the driver for: an array of pages
and one call at a time. A program or an erase that was asked for is taken by
the array at one moment (`Take`), by exactly what was asked and inside the arena
only, or not at all; an answer is good only after that, or with the bytes the
page holds, and never once the engine has failed. It does not say that an answer
that is not good changed nothing, for that is what the chip does (a page
half-programmed is the subject of `NandPhysical`). `IsArray` maps the driver to
it: `cells` and `drv.failed` are the array and the failure, `CallSeen` is
what the caller knows of its call, and `Executed` is the moment it is taken.

Not modelled: READID (a constant table), the GPIO unit select.

### NandPhysical: the two NAND policies

One level up, a page is a value, erased, or "torn" (uncorrectable), possibly
weak (a corrected bit), with the set of JFFS2 and bad-block marks in its
spare. Two history variables: `promise[p]` is what a read of `p` may truthfully
return, `dirty` the pages a mutation, finished or cut off, has left something in
since an erase last emptied them. Programs and erases are two steps each
(mutation, read-back), power can go between them, `Fade` loses bits. Both
kernels may be booted in turn. `WriteSpare` is the MTD core's spare-only program
(cleanmarker, marker), to any block: the drivers install no `write_oob`, so only
the controller's arena bound stands in its way.

What the code does not promise, the model does not either: a spare write, and
under 2.4/2.6 a program or an erase, of a block of the arena that the manifest
quarantines reaches the chip, and so does a 2.4/2.6 program of a page that is
not empty. That MTD and JFFS2 ask the bad-block table first is their side of the
bargain (`QuarantineKept`, `NeverTwice`).

Abstracted: Reed-Solomon decoding is its verdict, and no page is corrected to
wrong contents.

### NandBoot, NandInstall: installing and booting

`NandBoot` has the boot scan (`nand_boot.c`) and the mask ROM's choice of SPL
as `nand_inventory.c` mimics it, as operators over a chip. `NandInstall` is
the device's life: inventory, pack, check and install; ROM, SPL scan,
manifest and page-by-page load; driver set-up in either kernel; JFFS2 using
and giving up blocks; a second installation over it; pages that fail ECC at
any step (`Wear`). `host` holds the host's files, `spl` the boot under way,
`driver` the policy a kernel has chosen.

### AudioStream, Audio: /dev/dsp

`AudioStream` is what the device promises: what was accepted is heard in
order, nothing is left out, a reset drops the rest, a failure loses at most
what was in the buffers. `Audio` is the driver: `buf` (ring and DMA buffers),
`hw` (the engine: current and next buffer, status bits, stalled), `ctl`, `irq`
(`irq_off` and the kernel's disable depth), `op` (the one call inside the
semaphore and where it is), `svc` (`service()` between status read and
re-check). `Complete` can strike between any two steps; `service()` only
where interrupts are on. `KeepsOrder` is the implementation claim: `queue`
is mapped to `Unheard`, the samples in queued buffers followed by the ring.

Not modelled: sample conversion and gain, the mixer, read-only ioctls;
the order in which the compiler loads the four counters of `pending_bytes` is
the one written (`Drain0`, `Drain1`).

### Wifi: the CF8385 station

`st` is `struct bw_state` (a cipher is on or off, of the WEP keys the one in
use is set or not, `ssid` is given or not), `net` the interface, `queue` and
`work` the transmit queue and the pending worker, `job` the holder of
`wifi_sem` and where it is, `card` and `fw` the socket and the card's firmware:
its association, its two key slots with the age of the key, and a pending
link-loss event. `wifi_disconnect` is followed by `bm_disconnect`,
`ClearGroup`, `ClearPairwise`, `Disconnected` and `bm_connect`, one command
each; `bm_command(effect)` is the set of its outcomes: not done, done, done
but not answered in time. Between any two steps frames are queued, the timer
ticks, the access point deauthenticates, the card is pulled or exchanged for
a fresh one. A worker is `wifi_worker`, one of `PollGone`, `PollLost`,
`PollQuiet` (poll_card reads registers without sleeping and is one step),
`Dequeue` and `bm_send` for each frame, `DequeueNone` when the queue is found
empty, `WorkerDone` for the wake: in between, the stack may fill the queue
again, which is then awake and full, and `wifi_xmit` tests the length itself.
`Acceptable` is the test of a scanned BSS: the privacy bit and the driver's own
IE and ciphers, not the security the access point really has.

A card that is exchanged between two looks at the socket keeps `initialized`
set. What a card this driver never configured does with a command is not in the
source: the model's performs none and reads all ones or a quiet status, and no
property says that only configured cards get commands.

Not modelled: the XI-825, frame parsing, read-only ioctls, scans (one of the
ways `bm_connect` fails), channel selection, firmware download, sequence
numbers (that any later command may fail covers them).

### Piu: touch and battery

`unit` is the PIU as the two drivers' comments describe it (scan state, port
selected, pending sources, mask, two pages); `at` is where the CPU is in one
of the drivers, which run with interrupts off. `be300_touch_isr` is followed
by one action for each read or write of a register: `StrokeBegins`,
`ReportPage0`, `ReportPage1`, `StrokeEnds`, `be300_piu_ack`, `AckRestarts`.
The battery's timer decides in `batt_tick`, stops the scan in
`be300_regs_battery_begin`, looks again in `batt_sample_end`, and from
`SaveMask` to `be300_piu_start` is `be300_regs_battery_convert`. Between any
two, the pen moves and pages are scanned: noticed at once while the unit scans,
perhaps not while it stands by. `stroke` is the stroke filter, `pen_down` what
user space knows of BTN_TOUCH.

Not modelled: coordinates and the median (a page is a point of the LCD, an
icon, or invalid), the battery's arithmetic and its low-reading count, and the
adapter's interrupt.

### SourceEdits, SourcePatch and the scripts' tables

The scripts read a file, replace passages in its text and write it back. A text
is a bag of fragments (`SourceEdits`): the passages a script searches for and
the ones it puts in, each under a short name. An edit takes `old` fragments and
leaves `new` ones, may fail when `old` is missing (`Must`), may be skipped when
a marker is there (`Unless`), replaces one occurrence or all (`Every`). A step
is one read, edit and write of one file. `XorgSources`, `PicoguiSources`,
`QtSources`, `QtStockSources`, `OpieSources`, `OpieStockSources`,
`BoardSources`, `LibxfontSources` and `NxtetrisSources` are the scripts: one
definition for each function, with the function's name, and `main` (or
`install_24`, `install_26`, `install_42`) the order of the calls. What upstream
ships follows from a table: what it searches for and does not itself insert;
`forms` names the passages that only an older version of a script left.

`SourcePatch` runs a table: `Apply`, `Fail`, `Finish`; `Kill` between two writes
and `Tear` within one, when the file is truncated and empty (`write_text`); then
`Rerun` over what is left, or `StampedRerun` for PicoGUI, whose stamp ends the
run at once. `Pass` skips the later files of a function that returned at its
first. `MCSources` has the trees: upstream's, an older script's, and, for the
stock sets of Qt and OPIE, the one a legacy24 build left. A script's edits
being fragments, order and repetition are what the model sees; whether a
literal in the script occurs in the release it was written for it takes from
the script.

Left out: the scripts' own dead functions (`patch_launcher`, lines 91-1377, and
`patch_be300_regular_home_shell`, 1380-1926 of patch_opie_sources.py),
`rename_configure_in`, substitutions that hold of any text, the branch of
patch_opie_sources.py for a missing archive, in-place edits the build shell
scripts make themselves, and in install_board_hardware.py the exchange of the
2.4/2.6 NAND driver for the physical one (it copies one tree file to another;
a kill inside the write of nand.c lets the next run save the empty file as
`nand_emulator.c`) and the refusal of a tree that an older adaptation marked.

## 4. The runs

| Run | Module, cfg | Shows | Distinct states |
|---|---|---|---|
| nand_controller_physical | MCNandController | the driver implements `NandArray`; bus, latches, arena, reports, capture; operations return | 245 k |
| nand_physical_42 | MCNandPhysical | 4.2 on a chip whose status may lie: reads, no second program, boot area, pool and quarantine, sticky failure | 302 k |
| nand_physical_both | MCNandPhysical, MCNandPhysicalBoth | both kernels in turn find each other's markers | 640 k |
| nand_install_faults | MCNandInstall | installs and boots with pages failing at any moment | 1.2 M |
| nand_install_reinstall | MCNandInstall, MCNandReinstall | two installations with use in between | 641 k |
| audio_stream | MCAudio | the driver implements `AudioStream`; drain, IRQ balance; calls return | 1.0 M |
| wifi_station | MCWifi | keys, link, carrier and queue bound under all ioctls; a stopped queue is woken, a pulled card noticed | 1.5 M |
| wifi_removal | MCWifi, MCWifiRemoval | expected violation, see below | - |
| piu | MCPiu | a release is not lost, pending events survive a conversion, scan and samples go on | 1.0 M |
| sources | MCSources | all nine scripts over upstream's and older trees, killed and run again: no anchor consumed, whole files end in `Ends`, goals met | 45 k |
| xorg_reruns | MCSources, MCXorgReruns | expected violation, see below | - |
| opie_switch | MCSources, MCOpieSwitch | expected violation, see below | - |

Every property of a passing run has a mutant in `PROJECT.json`: a definition of
the model changed the way a plausible bug would change the code (the
operators commented "Bug:"), under which TLC finds the property violated.

**What the runs found.**

- `RemovalStops` states docs/WIFI_SOUND.md:70-71 ("Removal stops the carrier
  and queue, discards pending packets and keys..."). It holds when `wifi_worker`
  itself finds the socket empty. When the card goes after that test,
  `poll_card` reads 0xffff, stops and purges the queue, and `wifi_worker` then
  falls through to `netif_wake_queue` (wifi.c:286-287): the queue is awake
  again, frames pile up in it until it is full, and the WEP keys stay. The
  interface has to be taken down to clear this.
- `RerunsSucceed` states the docstring of patch_xorg_sources.py (lines 33-34):
  "re-running the script over an already-patched tree should produce no changes
  and exit 0". The last transform, `patch_os_siginit_dump`, builds its text with
  an f-string in which a C comment's braces are not escaped (line 4144):
  evaluating it raises NameError, in the first run as in every later one, and
  the marker that would skip it is never written. `Doomed` names such a step in
  the other properties. A second run also still changes `dix/dixutils.c` and
  `include/os.h` (`Unquiet` in MCSources).
- `NothingForeign` states build_opie_rootfs.sh:54-57, that the legacy24 patch set
  is opt-in. `QT_SRC` and `OPIE_SRC` (lines 73-79) depend on the C library only,
  so a stock build over the tree of a legacy24 build keeps its select clamp and
  its input pump.

What the properties of the source patches leave out is what the scripts do not
deliver:

- A function of PicoGUI's script that edits several files returns when the first
  has its marker (patch_picogui_sources.py:185): killed in between, it leaves the
  others unpatched for good, and later runs report "patches already applied".
  `Settled` is about the other files (`Whole`), and only those have goals.
- A file whose write was cut off (`torn`) is empty and is taken for a source by
  the next run. Most scripts then stop for want of an anchor; those that make
  optional replacements only go on and exit 0 (taskbar.cpp and server.cpp in
  OPIE's stock set). `Settled`, `NoFalseAlarm` and `GoalsMet` except such files,
  until `restore_original` brings one back.
- Two files of the X server, `dix/dixutils.c` and `include/os.h` (`Unquiet`), may
  also end with what a second run makes of the first one's result, and os.h, when
  a run was killed between hiding InsertFakeRequest and exporting it again, with
  its second declaration hidden too (`HiddenTwice`).

`ReleaseNotLost` has an exception of its own, `overtaken`: the handler reads
PIUCNT before it acknowledges the change in PIUINT, and a pen that moves in
between moves unseen until the next change.

### Bounds, and why they are enough

- *Chip geometry.* The code treats all blocks of an area alike, so one of
  each kind is kept: a boot block, a filesystem block, a quarantined one, a
  pool block. NandInstall needs six: partition table and manifest, SPL, kernel, one for the
  filesystem, a pool of two, because a relocated block must compete with its
  original and with a stale copy. Three pages per block are what a majority
  of two needs. The proofs cover all other sizes.
- *Pages of bytes.* Four data and two plus two spare bytes, half page two,
  words of three: a discarded area is part of a word, or a word and a rest.
- *MaxWorn, MaxFaults, MaxUses, Images.* Pages failing before installation
  (up to two), after it (up to three: enough to break a majority in one block
  and a page in another), Linux's writes between two installations, images.
- *Values.* Two contents tell a page from its predecessor; where only markers
  matter, one is enough.
- *Spare bytes and histories.* The 4.2 run writes cleanmarkers, the other one
  bad-block markers (`Markers`); the proofs have both. The run on markers
  ignores the two histories (`MCView`): no step depends on them, nor does
  `MarkersKnown`.
- *Audio.* Ring of four and buffers of two samples (one buffer = one stereo
  frame), writes of six samples (longer than the ring, so the writer sleeps;
  the proofs cover every size), counters that wrap at eight: the stream wraps
  several times.
- *Wi-Fi.* An open and a WPA access point (a WEP one is in the model and in the
  proofs, not in the instance), one queued frame: the queue's order is in no
  property.
- *PIU.* One icon, the LCD and an invalid page are all the filter tells apart;
  a sample every second tick, so that ticks pass between two.
- *Source patches.* Each script in full. Two runs over a tree, one write cut off;
  the proofs cover any number of runs. `Closed` is no bound: `Reach` is
  computed by three rounds and checked to be closed under a further one.

### Fairness

- `NandController`: WF of the client's step; driver calls are straight-line
  code whose loops are bounded.
- `Audio`: WF of `service()` (the 10 ms timer calls it for ever), WF of the
  engine's completion, disabled by a stall; SF of the
  calling process, which `service()` interrupts for far less than the 10 ms
  between two runs and so for ever finds time to take its step.
- `Wifi`: WF of the lock holder (each wait in `wifi-proto.h` is bounded by a count),
  WF of the timer (whose worker is the one to look for a pulled card), SF of the worker: it competes for `wifi_sem` with any
  number of ioctls, and a semaphore hands over in order of arrival. No
  fairness for calls, cards or access points.
- `Piu`: SF of either driver's step. Interrupt, 20 ms poll and timer recur for
  ever and find the CPU free again and again; each of them is straight-line
  code, the conversion's wait is bounded by a count. None for the pen.
- `NandPhysical`, `NandInstall`, `SourcePatch`: safety only, no fairness.

Deadlock is checked in every run but those of the source patches, where a
finished script stops.

## 5. The proofs

Each `*Proofs` module proves `Init => IInv`, one lemma per action that
`IInv` is kept, and takes the theorems from `Spec => []IInv`. Assumptions are
the named ASSUMEs of the modules only; TLC evaluates them in every run.

- **NandControllerProofs** (`TypeCorrect`, `BusSafe`, `LatchCorrect`,
  `ArenaSafe`), for all page sizes, discard widths and splits of a transfer.
  That the bus never hangs is not inductive: `ReadInv` and `WriteInv` say that
  the engine's position is the driver's and that what is left of the burst
  follows from it; `SizeInv` that a program hands over exactly a page's bytes,
  or padding would run over the end; `AddrInv` that driver and chip
  accumulate one page address byte by byte, from which `LatchAgrees` follows
  and with it that the arena check judges the row that will be mutated.
- **NandReportProofs** (`ReportsTrue`, `CaptureCorrect`, `DeviceIsArray`) goes on from where the
  stream stands to the data in it. Neither property is inductive, for each
  speaks of the end of an operation only. `RowInv` and `ColumnInv` say that chip
  and driver work on the caller's page and column, `CallInv` that the calls of
  an operation cover the page from there to its end; `GotInv` and `TagInv` that
  what was read, and captured on the way, is a prefix of what the array holds;
  `RegInv` that the page register holds the caller's bytes up to the driver's
  position and ones before the column; `BeforeInv` and `ResultInv` that the array
  changes at the execution only and how. A command that times out sets the
  sticky flag, and `ResultInv` keeps every later report from being good.
  `DeviceIsArray` is the refinement of `NandArray`. A call begins as `Ask`;
  PAGEPROG or ERASE2 is `Take` when the array afterwards is what was asked for
  (`AskedIsAfter`; `ExecuteOutcome`: else it is unchanged), a read's or a status'
  end is `Answer`, the write that gives up too, and every other step stutters or is
  `Fail`, when a wait times out in it. It needs that the flag stays set
  (`FailureKept`) and `ArenaInv`: a command whose status can still be good
  was not refused, so its page was in the arena.
- **NandPhysicalProofs** (`TypeCorrect`, `ReadsTrue`, `ProgramsOnce`,
  `MarkersFound`, `QuarantineSafe`, `FailureIsSticky`), for all chip sizes and
  manifests. `PromiseInv`: a page that decodes holds something promised,
  kept by both halves of a mutation however power goes; `DirtyInv`: a page that
  something was left in does not read as empty, which is what 4.2 tests;
  `MarkInv`: a marker sits where both kernels look for it; `GuardInv`: what the
  checks at the start of a mutation still guarantee when it happens. A lying
  status is assumed with Linux 4.2 only: all kernels compare what they programmed
  byte by byte (nand_legacy_physical.c:94-101), but 2.4/2.6 do not read back an
  erased block and take the chip's word for it. `ProgramsOnce` is about 4.2, the
  only one with such a check; `FailureIsSticky` about the engine and erases: a
  program whose read-back differs fails alone.
- **NandInstallProofs** (`TypeCorrect`, `NeverStale`, `DriverKnows`,
  `QuarantineSafe`, `MarkersKept`), for all geometries and any number of
  images and failing pages. `CeInv` describes CE chip and backup, `KeptInv`,
  `ImageInv`, `ManifestInv` what the installed chip keeps of the candidate
  however many pages fail, `BootInv` that an SPL's map leads nowhere else.
  `PackedDevicesBoot` needs what holds only until a page fails (`PackedInv`):
  the manifest can be read, every boot block has exactly one home outside the
  quarantine (`OneHome`) with good pages only, one block has a quorum for the
  SPL and is intact. The home follows from what `--check-boot` saw of the
  candidate, strictly; the SPL scans leniently, and elects the same blocks
  because no page without parity carries a boot tag. What Linux writes in its
  filesystem carries no boot tag either, so neither vote changes.

- **AudioProofs** (`IrqIsBalanced`, `FramesWhole`, `TypesOfAudio`,
  `DrainsAreComplete`, `OrderKept`), for all rings, buffers,
  counter widths and writes. `IrqInv`: a stopped engine has its interrupt off,
  and so has a call about to start it. `FrameInv`: head, tail, both in-flight
  counts and what is left of a write are whole frames; `EvenWrap` is the
  arithmetic that counters wrapping at a multiple of the ring keep it so.
  `StreamInv` adds what the order of samples rests on. `Buffered`: the ring is
  never filled past its size, nor a buffer; `QueueInv`: the engine has nothing in
  its queue, the buffer filled last, or both, the older one first, and its
  status bits stand for buffers no longer queued (or `service()` would refill a
  buffer that is still to be played); `UserInv`: a write appends no more than
  there was room for when it looked, which refills in between can only
  increase; `DrainInv`: a sum of zero so far is still true of the loads it was
  made of, because samples move only from ring to buffers and out.
  `OrderKept` is the refinement of `AudioStream`, whose queue is the contents
  of the engine's buffers in its order followed by those of the ring. A
  completion maps to `Play`, an append to `Accept`, a reset to `Reset`, a stop
  to `Fail` with as many samples as the two buffers held, and every other step,
  the refills among them, to a stutter. The lemmas on `Mod` (`WrapSum`,
  `WrapInRing`, `FillTaken`, `FillAdded`, ...) say that counters running free and
  wrapping at a multiple of the ring count and place samples as unbounded ones
  would.
- **WifiProofs** (`TypeCorrect`, `Keyed`, `Dropped`, `NoneStale`,
  `Revocation`, `CarrierCorrect`), for any access points and any
  length of the queue. `LinkInv`: a station that believes in a link is
  initialized, has a network set that fits its settings, and the card's
  association is that one or none; `KeyInv`: keys in use are the firmware's;
  `JobInv`: what the holder of the lock has seen to at each of its steps
  (between two commands anyone can pull the card); `ClearInv`: the slots are
  empty before the station connects, which is why `NoStaleKeys` survives
  commands that fail or are not answered. That the queue stays within its bound
  (`TypeCorrect`) rests on `wifi_xmit`'s own test, not on the queue being stopped.

- **PiuProofs** (`TypeCorrect`, `ReleaseIsNotLost`, `EventsAreKept`), for any
  icons and sampling rate. `ReleaseNotLost` is not inductive:
  `OwedInv` says that at every step a release is owed (the unit knows the pen
  down, or holds a change, or was overtaken), or the stroke is `Short`: not
  reported, with too few pages unread to become so, or the handler is about to
  restart the scan under the pen. `SeenInv` ties what the handler read to what
  is still pending, `ScanInv` the scan's state to what the unit knows,
  `StrokeInv` the filter to the button, and `AckInv` says that what the
  acknowledgement clears is not what a release needs.
- **SourcePatchProofs** (`SettledAlways`, `NoFalseAlarmAlways`, `GoalsMetAlways`),
  for any scripts
  and trees that pass the check `Closed`, any number of runs and kills.
  `Closed` looks at one file at a time: `Reach[j][f][k]` holds every text the
  file can have before step `k`, is closed under the step and under being
  killed and started again, and ends in `Ends` if no function edits the file after
  another. The invariant `Within` says
  that every file not cut off is in its `Reach`; files share nothing but the
  flag of a chained function, so each step keeps it. `GoalsMetAlways` asks that
  each text in `Ends` of a file with a goal meets it (`Fulfilled`). TLC checks `Closed` and
  `Fulfilled` of the nine scripts where each starts on its tree
  (`StartsClosed`).

`TypeOK` of NandController, NandPhysical, NandInstall and Piu and `WholeFrames`
of Audio are proved and no longer checked by a run.

Only model-checked: `StartsClosed`, a fact about the nine tables, to be worked
out and not derived; and the liveness properties `OperationsReturn`,
`CallsReturn`, `QueueWoken`, `RemovalNoticed`, `ScanComesBack` and `SamplesGoOn`:
liveness under fairness and ENABLED are out of the prover's reach. `MCSources`, which works out
the tables, is recursive and only TLC's. Every other property of a passing run is
proved.

## 6. Not modelled

The external program that carries out an installation plan (`nand-apply`) is
not in this repository; of an interrupted installation only its documented
order (docs/PHYSICAL_NAND.md:153-159: block zero last) is known. `--restore` is
a byte copy by the same program. Manifest CRCs and hashes are taken to detect
what they protect. Reed-Solomon arithmetic, sample conversion, CIS parsing,
packers, kernel patches and the build scripts that compile and pack what the
patch scripts left are sequential transformations of data without a protocol;
the reasons are with each component in `PROJECT.json`. The software that runs on
the device above the drivers (the TinyX launcher and keyboard, OPIE's and
PicoGUI's own sources) is not modelled either. Steps 6 and 7 of the plan, and
what steps 3 and 5 have "to come", are components with hard behaviour whose
models are still to be written.
