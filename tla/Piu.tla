-------------------------------- MODULE Piu --------------------------------
(***************************************************************************)
(* The pen interface unit and the two drivers that share it: the touch     *)
(* panel (touch_be300.c), whose interrupt and 20 ms poll read the scanned  *)
(* pages, and the battery monitor (battery.c), whose timer stops the scan  *)
(* to make an A/D conversion with the same unit.  Each driver runs with    *)
(* interrupts off on the one CPU, so they never interleave with each       *)
(* other; the pen and the unit go on between any two register accesses.    *)
(***************************************************************************)
EXTENDS Naturals, FiniteSets

CONSTANTS
  Icons,        \* the printed icons under the LCD
  Lcd,          \* a point of the LCD
  Bad,          \* a page whose samples are not all valid
  SamplePolls   \* SAMPLE_POLLS: timer ticks from one sample to the next

ASSUME PiuAssumption ==
  Lcd \notin Icons /\ Bad \notin Icons /\ Bad # Lcd /\ SamplePolls \in Nat \ {0}

Points == Icons \cup {Lcd}
Pages == {"page0", "page1"}
Sources == Pages \cup {"pen change", "data lost", "converted"}

\* The mask be300_regs_piu_start() writes.
TouchMask == Sources

VARIABLES
  pen,       \* the pen touches the panel
  unit,      \* the PIU
  at,        \* where the CPU is in one of the drivers
  seen,      \* the status the interrupt handler has read
  stroke,    \* struct be300_touch: the stroke filter
  pen_down,  \* BTN_TOUCH is pressed, for all user space knows
  battery,   \* battery.c: polls, settling, the interrupt mask it saves
  overtaken  \* the pen moved between the handler's last look and its restart

vars == <<pen, unit, at, seen, stroke, pen_down, battery, overtaken>>

Clean == [samples |-> 0, held |-> FALSE, strip |-> Lcd, over |-> Lcd]

Init ==
  /\ pen = FALSE
  /\ unit = [scan |-> "wait", port |-> FALSE, known |-> FALSE, next |-> "page0",
             pending |-> {}, mask |-> TouchMask, page |-> [p \in Pages |-> Bad]]
  /\ at = "idle" /\ seen = {} /\ stroke = Clean /\ pen_down = FALSE
  /\ battery = [polls |-> 0, settling |-> FALSE, mask |-> {}]
  /\ overtaken = FALSE

-----------------------------------------------------------------------------
(***************************************************************************)
(* The unit: standby, or enabled and waiting for the pen, scanning pages,  *)
(* halted by a page nobody took, or converting the battery's port.         *)
(***************************************************************************)
Raise(source) == [unit EXCEPT !.pending = @ \cup {source}]

Noticed(u, level) ==
  IF u.known = level THEN u
  ELSE [u EXCEPT !.known = level, !.pending = @ \cup {"pen change"}]

Moves ==
  /\ pen' = ~pen
  /\ overtaken' = (overtaken \/ at \in {"ack", "restart"})
  /\ UNCHANGED <<at, seen, stroke, pen_down, battery>>

\* While it waits or scans, the unit sees a pen change at once.
PenMoves ==
  /\ unit.scan \in {"wait", "data"}
  /\ Moves
  /\ unit' = [Noticed(unit, ~pen) EXCEPT !.scan = IF ~pen THEN "data" ELSE "wait"]

\* Otherwise it may miss it.
PenMovesUnseen ==
  /\ unit.scan \in {"standby", "port", "halted"}
  /\ Moves
  /\ unit' \in {unit, Noticed(unit, ~pen)}

\* A page is scanned into its buffer, or halts the scan if the last one there
\* has not been acknowledged.
ScanPage ==
  /\ unit.scan = "data"
  /\ \E point \in Points \cup {Bad} :
       unit' = IF unit.next \in unit.pending
               THEN [Raise("data lost") EXCEPT !.scan = "halted"]
               ELSE [Raise(unit.next) EXCEPT !.page[unit.next] = point,
                       !.next = CHOOSE p \in Pages : p # unit.next]
  /\ UNCHANGED <<pen, at, seen, stroke, pen_down, battery, overtaken>>

Convert ==
  /\ unit.scan = "port" /\ "converted" \notin unit.pending
  /\ unit' = Raise("converted")
  /\ UNCHANGED <<pen, at, seen, stroke, pen_down, battery, overtaken>>

\* PIUCNT bit 13: the level, or the last change while one is pending.
Detected == pen \/ ("pen change" \in unit.pending /\ unit.known)

\* PIUCNT = 0306: the scan starts, or goes on, where the pen is.
Restarted(u) ==
  [Noticed(u, pen) EXCEPT !.scan = IF pen THEN "data" ELSE "wait", !.port = FALSE]

Acked(u, sources) == [u EXCEPT !.pending = @ \ sources]
Masked(u, mask) == [u EXCEPT !.mask = mask]

Idle == unit.scan \in {"standby", "wait"}

-----------------------------------------------------------------------------
(***************************************************************************)
(* touch_be300.c: the interrupt handler, also called by the 20 ms poll.    *)
(***************************************************************************)
Handle(from, to) == at = from /\ at' = to /\ UNCHANGED <<pen, battery>>

be300_touch_isr ==
  /\ Handle("idle", "begin")
  /\ unit.pending \cap unit.mask # {}
  /\ seen' = unit.pending \cap unit.mask
  /\ UNCHANGED <<unit, stroke, pen_down, overtaken>>

\* A new stroke starts clean.
StrokeBegins ==
  /\ Handle("begin", "page0")
  /\ stroke' = IF "pen change" \in seen /\ ~pen_down /\ Detected THEN Clean ELSE stroke
  /\ UNCHANGED <<unit, seen, pen_down, overtaken>>

\* be300_touch_sample: the first sample says whose the stroke is, the next are
\* the icon's, or held back one by one.
Sampled(s, point) ==
  IF s.samples = 0 THEN [s EXCEPT !.samples = 1, !.strip = point, !.over = point]
  ELSE IF s.strip # Lcd THEN [s EXCEPT !.over = point]
  ELSE [s EXCEPT !.held = TRUE]

\* be300_touch_report: the sample held back is reported when the next comes.
TakesPage(page, to) ==
  /\ Handle(page, to)
  /\ LET point == unit.page[page]
         valid == page \in seen /\ point # Bad
     IN  /\ stroke' = IF valid THEN Sampled(stroke, point) ELSE stroke
         /\ pen_down' = (pen_down \/ (valid /\ stroke.held /\ stroke.strip = Lcd))
  /\ UNCHANGED <<unit, seen, overtaken>>

ReportPage0 == TakesPage("page0", "page1")
ReportPage1 == TakesPage("page1", "end")

\* be300_touch_release: a strip stroke fires its icon or nothing; a pointer
\* stroke too short to have pressed does so now; then the button is up.
be300_touch_release ==
  /\ stroke' = Clean
  /\ pen_down' = (pen_down /\ stroke.strip # Lcd)

StrokeEnds ==
  /\ Handle("end", "ack")
  /\ IF "pen change" \in seen /\ ~Detected
     THEN be300_touch_release /\ overtaken' = FALSE
     ELSE UNCHANGED <<stroke, pen_down, overtaken>>
  /\ UNCHANGED <<unit, seen>>

\* Bug: acknowledges what is pending now, not what was read.
AckEverything ==
  /\ Handle("ack", "restart")
  /\ unit' = Acked(unit, unit.pending)
  /\ UNCHANGED <<seen, stroke, pen_down, overtaken>>

\* be300_regs_piu_ack: after an overrun both pages must clear.
be300_piu_ack ==
  /\ Handle("ack", "restart")
  /\ unit' = Acked(unit, IF "data lost" \in seen THEN seen \cup Pages ELSE seen)
  /\ UNCHANGED <<seen, stroke, pen_down, overtaken>>

AckRestarts ==
  /\ Handle("restart", "idle")
  /\ unit' = Restarted(unit) /\ seen' = {}
  /\ UNCHANGED <<stroke, pen_down, overtaken>>

Touch ==
  \/ be300_touch_isr \/ StrokeBegins \/ ReportPage0 \/ ReportPage1
  \/ StrokeEnds \/ be300_piu_ack \/ AckRestarts

-----------------------------------------------------------------------------
(***************************************************************************)
(* battery.c: the timer.                                                   *)
(***************************************************************************)
Works(from, to) ==
  at = from /\ at' = to /\ UNCHANGED <<pen, seen, stroke, pen_down, overtaken>>

\* Not yet due, or put off because the pen is down.
Put(polls) ==
  /\ Works("idle", "idle")
  /\ battery' = [battery EXCEPT !.polls = polls] /\ UNCHANGED unit

batt_tick ==
  /\ at = "idle" /\ ~battery.settling
  /\ IF battery.polls + 1 < SamplePolls THEN Put(battery.polls + 1)
     ELSE IF ~Idle THEN Put(SamplePolls - 1)
     ELSE /\ Works("idle", "stop")
          /\ battery' = [battery EXCEPT !.polls = 0] /\ UNCHANGED unit

\* be300_regs_battery_begin: the scan stops, GPIO8 goes low, and the timer is
\* armed for SETTLE_MS.
be300_regs_battery_begin ==
  /\ Works("stop", "idle")
  /\ unit' = [unit EXCEPT !.scan = "standby"]
  /\ battery' = [battery EXCEPT !.settling = TRUE]

\* Bug: the sample stays due when the touch driver has restarted the scan.
SettleForEver ==
  /\ at = "idle" /\ battery.settling
  /\ IF unit.scan # "standby" THEN Works("idle", "idle") /\ UNCHANGED battery
     ELSE Works("idle", "save") /\ battery' = [battery EXCEPT !.settling = FALSE]
  /\ UNCHANGED unit

\* The line has settled.  If the touch driver has restarted the scan, try
\* again soon.
batt_sample_end ==
  /\ at = "idle" /\ battery.settling
  /\ IF unit.scan # "standby"
     THEN /\ Works("idle", "idle")
          /\ battery' = [battery EXCEPT !.settling = FALSE, !.polls = SamplePolls - 1]
     ELSE /\ Works("idle", "save")
          /\ battery' = [battery EXCEPT !.settling = FALSE]
  /\ UNCHANGED unit

(* be300_regs_battery_convert *)
SaveMask ==
  /\ Works("save", "mask")
  /\ battery' = [battery EXCEPT !.mask = unit.mask]
  /\ unit' = [unit EXCEPT !.port = TRUE]

\* Bug: writes PIUINT back with its pending byte, as Windows CE does.
MaskTwoAcking ==
  /\ Works("mask", "clear")
  /\ unit' = Masked(Acked(unit, unit.pending), battery.mask \ {"converted", "pen change"})
  /\ UNCHANGED battery

MaskTwo ==
  /\ Works("mask", "clear")
  /\ unit' = Masked(unit, battery.mask \ {"converted", "pen change"})
  /\ UNCHANGED battery

ClearConverted ==
  /\ Works("clear", "enable")
  /\ unit' = Acked(unit, {"converted"})
  /\ UNCHANGED battery

Enable ==
  /\ Works("enable", "converting")
  /\ unit' = [unit EXCEPT !.scan = "port"]
  /\ UNCHANGED battery

\* Read, or given up after 3000 looks.
ConversionEnds ==
  /\ Works("converting", "disabled")
  /\ unit' = [unit EXCEPT !.scan = "standby"]
  /\ UNCHANGED battery

ClearAgain ==
  /\ Works("disabled", "unmask")
  /\ unit' = [Acked(unit, {"converted"}) EXCEPT !.port = FALSE]
  /\ UNCHANGED battery

\* Bug: without a reading it returns before the scan is restarted.
ReturnUnread ==
  /\ Works("unmask", "start") \/ Works("unmask", "idle")
  /\ unit' = Masked(unit, battery.mask)
  /\ UNCHANGED battery

RestoreMask ==
  /\ Works("unmask", "start")
  /\ unit' = Masked(unit, battery.mask)
  /\ UNCHANGED battery

\* The touch scan goes on whether there was a reading or not.
be300_piu_start ==
  /\ Works("start", "idle")
  /\ unit' = Restarted(Masked(unit, TouchMask))
  /\ UNCHANGED battery

Battery ==
  \/ batt_tick \/ be300_regs_battery_begin \/ batt_sample_end
  \/ SaveMask \/ MaskTwo \/ ClearConverted \/ Enable \/ ConversionEnds
  \/ ClearAgain \/ RestoreMask \/ be300_piu_start

-----------------------------------------------------------------------------
Unit == PenMoves \/ PenMovesUnseen \/ ScanPage \/ Convert

Next == Unit \/ Touch \/ Battery

Spec == Init /\ [][Next]_vars

\* Interrupt and poll, and the timer, come round again and again, however
\* busy the other is.
FairSpec == Spec /\ SF_vars(Touch) /\ SF_vars(Battery)

-----------------------------------------------------------------------------
(***************************************************************************)
(* Properties.                                                             *)
(***************************************************************************)
Units ==
  [scan : {"standby", "wait", "data", "halted", "port"}, port : BOOLEAN, known : BOOLEAN,
   next : Pages, pending : SUBSET Sources, mask : SUBSET Sources,
   page : [Pages -> Points \cup {Bad}]]

TypeOK ==
  /\ pen \in BOOLEAN /\ unit \in Units /\ seen \subseteq Sources
  /\ at \in {"idle", "begin", "page0", "page1", "end", "ack", "restart", "stop", "save",
             "mask", "clear", "enable", "converting", "disabled", "unmask", "start"}
  /\ stroke \in [samples : {0, 1}, held : BOOLEAN, strip : Points, over : Points]
  /\ pen_down \in BOOLEAN /\ overtaken \in BOOLEAN
  /\ battery \in [polls : 0 .. SamplePolls - 1, settling : BOOLEAN, mask : SUBSET Sources]

\* BTN_TOUCH never stays pressed with the pen away and nothing left that would
\* release it, whatever the interrupts coalesce and the battery's conversion
\* interrupts: the unit takes the pen for down, or holds a change the handler
\* will see, unless the pen moved just when the handler acknowledged the change
\* before (be300_touch_isr reads PIUCNT before it writes PIUINT).
ReleaseNotLost ==
  pen_down => pen \/ unit.known \/ "pen change" \in unit.pending \/ overtaken

\* "the conversion never acknowledges pending touch events" (docs/HARDWARE.md;
\* be300_regs_battery_convert writes PIUINT four times).
ConversionKeepsEvents ==
  [][Battery => unit.pending \ {"converted"} \subseteq unit'.pending]_vars

\* The touch scan always comes back: stopped for a sample that is then tried
\* again, or gives no reading, or halted by an overrun (batt_sample_end,
\* be300_regs_piu_ack).
ScanComesBack == []<>(unit.scan \in {"wait", "data"})

\* Once the pen is left alone the battery is sampled again and again, however
\* often the touch driver has put a sample off before (batt_tick).
SamplesGoOn == <>[]~pen => []<>(at = "converting")
=============================================================================
