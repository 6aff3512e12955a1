----------------------------- MODULE PiuProofs -----------------------------
(***************************************************************************)
(* That a release is never lost, for any number of icons and any sampling  *)
(* period.  ReleaseNotLost is not inductive: a handler may acknowledge the *)
(* change that pen_down waits for, and a press may come from samples that  *)
(* an earlier handler left behind.  Owed says that a release is still to   *)
(* come; Short, that what is left in the filter and the unread pages would *)
(* not press the button: two samples at most, where a press takes three.   *)
(***************************************************************************)
EXTENDS Piu, TLAPS

Owed == unit.known \/ "pen change" \in unit.pending \/ overtaken

\* The sources the handler at work has not taken, and those still to come.
Unread ==
  CASE at = "page1" -> unit.pending \ (seen \cap {"page0"})
    [] at \in {"end", "ack"} -> unit.pending \ seen
    [] OTHER -> unit.pending

Short ==
  /\ ~pen_down
  /\ stroke.held => Unread \cap Pages = {}
  /\ stroke.samples = 1 => ~(Pages \subseteq Unread)

SeenInv ==
  /\ at \in {"begin", "page0", "page1", "end", "ack"} => seen \subseteq unit.pending
  /\ at \notin {"begin", "page0", "page1", "end", "ack", "restart"} => seen = {}

ScanInv ==
  /\ unit.scan \in {"wait", "data"} => unit.known = pen
  /\ unit.scan = "data" => pen

StrokeInv ==
  /\ stroke.held => stroke.samples = 1
  /\ pen_down => stroke.samples = 1
  /\ stroke.strip # Lcd => ~pen_down /\ ~stroke.held

\* What the acknowledgement is about to clear is not what a release needs.
AckInv ==
  at = "ack" /\ "pen change" \in seen => pen \/ unit.known \/ overtaken \/ Short

OwedInv == Owed \/ Short \/ (at = "restart" /\ pen)

IInv == TypeOK /\ SeenInv /\ ScanInv /\ StrokeInv /\ AckInv /\ OwedInv

USE DEF Pages, Sources, TouchMask, Points

LEMMA InitInv == Init => IInv
<1> SUFFICES ASSUME Init PROVE IInv
  OBVIOUS
<1>1. TypeOK
  <2>1. unit \in Units
    BY DEF Init, Units
  <2>2. stroke \in [samples : {0, 1}, held : BOOLEAN, strip : Points, over : Points]
    BY DEF Init, Clean
  <2>3. battery \in [polls : 0 .. SamplePolls - 1, settling : BOOLEAN, mask : SUBSET Sources]
    <3>1. 0 \in 0 .. SamplePolls - 1
      BY PiuAssumption
    <3> QED
      BY <3>1 DEF Init
  <2> QED
    BY <2>1, <2>2, <2>3 DEF Init, TypeOK
<1>2. ~stroke.held /\ stroke.samples = 0 /\ stroke.strip = Lcd /\ ~pen_down
  BY DEF Init, Clean
<1>3. at = "idle" /\ seen = {} /\ unit.known = pen /\ unit.scan = "wait"
  BY DEF Init
<1>4. StrokeInv /\ OwedInv
  BY <1>2 DEF StrokeInv, OwedInv, Short
<1>5. SeenInv /\ ScanInv /\ AckInv
  BY <1>3 DEF SeenInv, ScanInv, AckInv
<1> QED
  BY <1>1, <1>4, <1>5 DEF IInv

-----------------------------------------------------------------------------
(***************************************************************************)
(* The pen and the unit.                                                   *)
(***************************************************************************)
\* What a noticed pen change leaves.
LEMMA NoticedUnit ==
  ASSUME NEW u \in Units, NEW level \in BOOLEAN
  PROVE  /\ Noticed(u, level) \in Units
         /\ Noticed(u, level).known = level
         /\ u.pending \subseteq Noticed(u, level).pending
         /\ Noticed(u, level).pending \subseteq u.pending \cup {"pen change"}
         /\ u.known # level => "pen change" \in Noticed(u, level).pending
         /\ Noticed(u, level).scan = u.scan
BY DEF Noticed, Units

\* The unit keeps what is pending, adds a pen change where it noticed one, and
\* no page: what pen changes do to the invariant.
LEMMA PenMovedInv ==
  ASSUME IInv, Moves, unit' \in Units,
         unit.pending \subseteq unit'.pending,
         unit'.pending \subseteq unit.pending \cup {"pen change"},
         unit'.known = unit.known \/ unit'.known = pen',
         unit.known => unit'.known \/ "pen change" \in unit'.pending,
         ScanInv'
  PROVE  IInv'
<1>1. /\ at' = at /\ seen' = seen /\ stroke' = stroke /\ pen_down' = pen_down
      /\ battery' = battery /\ pen' = ~pen
      /\ overtaken' = (overtaken \/ at \in {"ack", "restart"})
  BY DEF Moves
<1>2. TypeOK'
  BY <1>1 DEF IInv, TypeOK
<1>3. SeenInv' /\ StrokeInv'
  BY <1>1 DEF IInv, SeenInv, StrokeInv
<1>4. Short => Short'
  BY <1>1 DEF Short, Unread
<1>5. AckInv'
  BY <1>1 DEF AckInv
<1>6. Owed => Owed'
  BY <1>1 DEF Owed
<1>7. OwedInv'
  <2>1. CASE Owed
    BY <1>6, <2>1 DEF OwedInv
  <2>2. CASE Short
    BY <1>4, <2>2 DEF OwedInv
  <2>3. CASE at = "restart" /\ pen
    BY <1>1, <2>3 DEF OwedInv, Owed
  <2> QED
    BY <2>1, <2>2, <2>3 DEF IInv, OwedInv
<1> QED
  BY <1>2, <1>3, <1>5, <1>7 DEF IInv

LEMMA PenMovesInv == IInv /\ PenMoves => IInv'
<1> SUFFICES ASSUME IInv, PenMoves PROVE IInv'
  OBVIOUS
<1> DEFINE seenMove == Noticed(unit, ~pen)
<1>1. unit \in Units /\ pen \in BOOLEAN /\ unit.known = pen
  BY DEF IInv, TypeOK, ScanInv, PenMoves
<1>2. /\ seenMove \in Units /\ seenMove.known = ~pen
      /\ unit.pending \subseteq seenMove.pending
      /\ seenMove.pending \subseteq unit.pending \cup {"pen change"}
      /\ "pen change" \in seenMove.pending
  BY <1>1, NoticedUnit
<1>3. /\ Moves /\ pen' = ~pen
      /\ unit' = [seenMove EXCEPT !.scan = IF ~pen THEN "data" ELSE "wait"]
  BY DEF PenMoves, Moves
<1> HIDE DEF seenMove
<1>4. /\ unit' \in Units /\ unit'.known = pen' /\ unit'.pending = seenMove.pending
      /\ unit'.scan = IF ~pen THEN "data" ELSE "wait"
  BY <1>1, <1>2, <1>3 DEF Units
<1>5. ScanInv'
  <2>1. CASE pen
    BY <1>3, <1>4, <2>1 DEF ScanInv
  <2>2. CASE ~pen
    BY <1>3, <1>4, <2>2 DEF ScanInv
  <2> QED
    BY <2>1, <2>2
<1> QED
  BY <1>2, <1>3, <1>4, <1>5, PenMovedInv

LEMMA PenMovesUnseenInv == IInv /\ PenMovesUnseen => IInv'
<1> SUFFICES ASSUME IInv, PenMovesUnseen PROVE IInv'
  OBVIOUS
<1>1. unit \in Units /\ pen \in BOOLEAN /\ Moves /\ pen' = ~pen
  BY DEF IInv, TypeOK, PenMovesUnseen, Moves
<1>2. unit.scan \notin {"wait", "data"}
  BY DEF PenMovesUnseen
<1>3. CASE unit' = unit
  <2>1. ScanInv'
    BY <1>2, <1>3 DEF ScanInv
  <2> QED
    BY <1>1, <1>3, <2>1, PenMovedInv
<1>4. CASE unit' = Noticed(unit, ~pen)
  <2>1. /\ unit' \in Units /\ unit'.known = ~pen
        /\ unit.pending \subseteq unit'.pending
        /\ unit'.pending \subseteq unit.pending \cup {"pen change"}
        /\ unit.known # ~pen => "pen change" \in unit'.pending
        /\ unit'.scan = unit.scan
    BY <1>1, <1>4, NoticedUnit
  <2>2. ScanInv'
    BY <1>2, <2>1 DEF ScanInv
  <2>3. unit.known \in BOOLEAN
    BY <1>1 DEF Units
  <2> QED
    BY <1>1, <2>1, <2>2, <2>3, PenMovedInv
<1> QED
  BY <1>3, <1>4 DEF PenMovesUnseen

LEMMA ScanPageInv == IInv /\ ScanPage => IInv'
<1> SUFFICES ASSUME IInv, ScanPage PROVE IInv'
  OBVIOUS
<1>1. /\ pen' = pen /\ at' = at /\ seen' = seen /\ stroke' = stroke
      /\ pen_down' = pen_down /\ battery' = battery /\ overtaken' = overtaken
      /\ unit.scan = "data" /\ unit \in Units
  BY DEF ScanPage, IInv, TypeOK
<1>2. /\ unit' \in Units /\ unit'.known = unit.known /\ unit.pending \subseteq unit'.pending
      /\ unit'.scan \in {"data", "halted"}
  <2>1. PICK point \in Points \cup {Bad} :
          unit' = IF unit.next \in unit.pending
                  THEN [Raise("data lost") EXCEPT !.scan = "halted"]
                  ELSE [Raise(unit.next) EXCEPT !.page[unit.next] = point,
                          !.next = CHOOSE p \in Pages : p # unit.next]
    BY DEF ScanPage
  <2>2. CASE unit.next \in unit.pending
    BY <1>1, <2>1, <2>2 DEF Raise, Units
  <2>3. CASE unit.next \notin unit.pending
    <3>1. unit.next \in Pages /\ (CHOOSE p \in Pages : p # unit.next) \in Pages
      BY <1>1 DEF Units
    <3> QED
      BY <1>1, <2>1, <2>3, <3>1 DEF Raise, Units
  <2> QED
    BY <2>2, <2>3
<1>3. pen /\ unit.known
  BY <1>1 DEF IInv, ScanInv, TypeOK, Units
<1>4. TypeOK' /\ SeenInv' /\ StrokeInv'
  BY <1>1, <1>2, ZenonT(40) DEF IInv, TypeOK, SeenInv, StrokeInv
<1>5. ScanInv' /\ AckInv' /\ OwedInv'
  BY <1>1, <1>2, <1>3 DEF ScanInv, AckInv, OwedInv, Owed
<1> QED
  BY <1>4, <1>5 DEF IInv

LEMMA ConvertInv == IInv /\ Convert => IInv'
<1> SUFFICES ASSUME IInv, Convert PROVE IInv'
  OBVIOUS
<1>1. /\ pen' = pen /\ at' = at /\ seen' = seen /\ stroke' = stroke
      /\ pen_down' = pen_down /\ battery' = battery /\ overtaken' = overtaken /\ unit \in Units
  BY DEF Convert, IInv, TypeOK
<1>2. /\ unit' \in Units /\ unit'.known = unit.known /\ unit'.scan = unit.scan
      /\ unit'.pending = unit.pending \cup {"converted"}
  BY <1>1 DEF Convert, Raise, Units
<1>3. TypeOK' /\ StrokeInv'
  BY <1>1, <1>2 DEF IInv, TypeOK, StrokeInv
<1>6. SeenInv' /\ ScanInv'
  BY <1>1, <1>2 DEF IInv, SeenInv, ScanInv
<1>4. (Short => Short') /\ (Owed => Owed')
  BY <1>1, <1>2 DEF Short, Owed, Unread
<1>5. AckInv' /\ OwedInv'
  BY <1>1, <1>2, <1>4 DEF IInv, AckInv, OwedInv
<1> QED
  BY <1>3, <1>5, <1>6 DEF IInv

-----------------------------------------------------------------------------
(***************************************************************************)
(* The interrupt handler.                                                  *)
(***************************************************************************)
LEMMA TouchIsrInv == IInv /\ be300_touch_isr => IInv'
<1> SUFFICES ASSUME IInv, be300_touch_isr PROVE IInv'
  OBVIOUS
<1>1. /\ pen' = pen /\ at = "idle" /\ at' = "begin" /\ unit' = unit /\ stroke' = stroke
      /\ pen_down' = pen_down /\ battery' = battery /\ overtaken' = overtaken
      /\ seen' \subseteq unit.pending
  BY DEF be300_touch_isr, Handle
<1>2. unit.pending \subseteq Sources
  BY DEF IInv, TypeOK, Units
<1>3. TypeOK' /\ StrokeInv'
  BY <1>1, <1>2 DEF IInv, TypeOK, StrokeInv
<1>4. SeenInv' /\ ScanInv' /\ AckInv'
  BY <1>1 DEF IInv, SeenInv, ScanInv, AckInv
<1>5. (Short => Short') /\ (Owed => Owed')
  BY <1>1 DEF Short, Unread, Owed
<1>6. OwedInv'
  BY <1>1, <1>5 DEF IInv, OwedInv
<1> QED
  BY <1>3, <1>4, <1>6 DEF IInv

LEMMA StrokeBeginsInv == IInv /\ StrokeBegins => IInv'
<1> SUFFICES ASSUME IInv, StrokeBegins PROVE IInv'
  OBVIOUS
<1>1. /\ pen' = pen /\ at = "begin" /\ at' = "page0" /\ unit' = unit /\ seen' = seen
      /\ pen_down' = pen_down /\ battery' = battery /\ overtaken' = overtaken
      /\ stroke' = stroke \/ (stroke' = Clean /\ ~pen_down)
  BY DEF StrokeBegins, Handle
<1>2. stroke' \in [samples : {0, 1}, held : BOOLEAN, strip : Points, over : Points]
  <2>1. CASE stroke' = stroke
    BY <2>1 DEF IInv, TypeOK
  <2>2. CASE stroke' = Clean
    BY <2>2 DEF Clean
  <2> QED
    BY <1>1, <2>1, <2>2
<1>3. TypeOK'
  BY <1>1, <1>2 DEF IInv, TypeOK
<1>4. SeenInv' /\ ScanInv' /\ AckInv'
  BY <1>1 DEF IInv, SeenInv, ScanInv, AckInv
<1>5. StrokeInv'
  BY <1>1 DEF IInv, StrokeInv, Clean
<1>6. (Short => Short') /\ (Owed => Owed')
  <2>1. CASE stroke' = stroke
    BY <1>1, <2>1 DEF Short, Unread, Owed
  <2>2. CASE stroke' = Clean
    <3>1. ~stroke'.held /\ stroke'.samples = 0
      BY <2>2 DEF Clean
    <3>2. ~pen_down' \/ ~Short
      BY <1>1 DEF Short
    <3>3. Short => Short'
      BY <3>1, <3>2 DEF Short
    <3> QED
      BY <1>1, <3>3 DEF Owed
  <2> QED
    BY <1>1, <2>1, <2>2
<1>7. OwedInv'
  BY <1>1, <1>6 DEF IInv, OwedInv
<1> QED
  BY <1>3, <1>4, <1>5, <1>7 DEF IInv

\* A page is read: the third sample presses, and Short is not so far.
LEMMA TakesPageInv ==
  ASSUME NEW page \in Pages, NEW to \in {"page1", "end"},
         page = "page0" <=> to = "page1", IInv, TakesPage(page, to)
  PROVE  IInv'
<1> DEFINE point == unit.page[page]
           valid == page \in seen /\ point # Bad
<1>1. /\ pen' = pen /\ at = page /\ at' = to /\ unit' = unit /\ seen' = seen
      /\ battery' = battery /\ overtaken' = overtaken
      /\ stroke' = IF valid THEN Sampled(stroke, point) ELSE stroke
      /\ pen_down' = (pen_down \/ (valid /\ stroke.held /\ stroke.strip = Lcd))
  BY DEF TakesPage, Handle
<1>2. valid => point \in Points
  BY DEF IInv, TypeOK, Units
<1>3. stroke \in [samples : {0, 1}, held : BOOLEAN, strip : Points, over : Points]
  BY DEF IInv, TypeOK
<1>4. valid => /\ stroke'.samples = 1
               /\ stroke.samples = 0 => stroke'.held = stroke.held
               /\ stroke.strip # Lcd /\ stroke.samples = 1
                    => stroke'.held = stroke.held /\ stroke'.strip = stroke.strip
               /\ stroke.strip = Lcd /\ stroke.samples = 1 => stroke'.strip = Lcd
               /\ stroke' \in [samples : {0, 1}, held : BOOLEAN, strip : Points, over : Points]
  <2>1. CASE stroke.samples = 0
    <3> SUFFICES ASSUME valid PROVE
             /\ stroke'.samples = 1 /\ stroke'.held = stroke.held
             /\ stroke' \in [samples : {0, 1}, held : BOOLEAN, strip : Points, over : Points]
      BY <2>1
    <3>1. stroke' = [stroke EXCEPT !.samples = 1, !.strip = point, !.over = point]
      BY <1>1, <2>1 DEF Sampled
    <3>2. point \in Points
      BY <1>2
    <3> HIDE DEF point
    <3> QED
      BY <1>3, <3>1, <3>2
  <2>2. CASE stroke.samples # 0 /\ stroke.strip # Lcd
    BY <1>1, <1>2, <1>3, <2>2 DEF Sampled
  <2>3. CASE stroke.samples # 0 /\ stroke.strip = Lcd
    BY <1>1, <1>2, <1>3, <2>3 DEF Sampled
  <2> QED
    BY <2>1, <2>2, <2>3
<1> HIDE DEF point
<1>5. TypeOK'
  BY <1>1, <1>3, <1>4 DEF IInv, TypeOK
<1>6. SeenInv' /\ ScanInv' /\ AckInv'
  BY <1>1 DEF IInv, SeenInv, ScanInv, AckInv
<1>7. StrokeInv'
  <2>1. CASE ~valid
    BY <1>1, <2>1 DEF IInv, StrokeInv
  <2>2. CASE valid
    BY <1>1, <1>3, <1>4, <2>2 DEF IInv, StrokeInv
  <2> QED
    BY <2>1, <2>2
<1>8. Short => Short'
  <2> SUFFICES ASSUME Short PROVE Short'
    OBVIOUS
  <2>1. Unread' \subseteq Unread /\ (page \in seen => page \notin Unread')
    BY <1>1 DEF Unread, IInv, SeenInv
  <2>2. page \in seen => page \in Unread
    BY <1>1 DEF Unread, IInv, SeenInv
  <2>3. CASE ~valid
    BY <1>1, <2>1, <2>3 DEF Short
  <2>4. CASE valid
    <3>1. ~stroke.held /\ ~pen_down'
      BY <1>1, <2>2, <2>4 DEF Short
    <3>2. ~(Pages \subseteq Unread')
      BY <2>1, <2>4
    <3>3. stroke'.held => Unread' \cap Pages = {}
      <4>1. CASE stroke.samples = 0
        BY <1>4, <2>4, <3>1, <4>1
      <4>2. CASE stroke.samples = 1
        BY <2>1, <2>2, <2>4, <4>2 DEF Short
      <4> QED
        BY <1>3, <4>1, <4>2
    <3> QED
      BY <3>1, <3>2, <3>3 DEF Short
  <2> QED
    BY <2>3, <2>4
<1>9. OwedInv'
  BY <1>1, <1>8 DEF IInv, OwedInv, Owed
<1> QED
  BY <1>5, <1>6, <1>7, <1>9 DEF IInv

LEMMA StrokeEndsInv == IInv /\ StrokeEnds => IInv'
<1> SUFFICES ASSUME IInv, StrokeEnds PROVE IInv'
  OBVIOUS
<1>1. /\ pen' = pen /\ at = "end" /\ at' = "ack" /\ unit' = unit /\ seen' = seen
      /\ battery' = battery
  BY DEF StrokeEnds, Handle
<1>2. SeenInv' /\ ScanInv'
  BY <1>1 DEF IInv, SeenInv, ScanInv
<1>3. CASE "pen change" \in seen /\ ~Detected
  <2>1. stroke' = Clean /\ pen_down' = (pen_down /\ stroke.strip # Lcd) /\ overtaken' = FALSE
    BY <1>3 DEF StrokeEnds, be300_touch_release
  <2>2. ~pen_down' /\ ~stroke'.held /\ stroke'.samples = 0 /\ stroke'.strip = Lcd
    BY <2>1 DEF IInv, StrokeInv, Clean
  <2>3. stroke' \in [samples : {0, 1}, held : BOOLEAN, strip : Points, over : Points]
    BY <2>1 DEF Clean
  <2>4. TypeOK'
    BY <1>1, <2>1, <2>2, <2>3 DEF IInv, TypeOK
  <2>5. Short' /\ StrokeInv'
    BY <2>2 DEF Short, StrokeInv
  <2> QED
    BY <1>2, <2>4, <2>5 DEF IInv, AckInv, OwedInv
<1>4. CASE ~("pen change" \in seen /\ ~Detected)
  <2>1. stroke' = stroke /\ pen_down' = pen_down /\ overtaken' = overtaken
    BY <1>4 DEF StrokeEnds
  <2>2. TypeOK' /\ StrokeInv'
    BY <1>1, <2>1 DEF IInv, TypeOK, StrokeInv
  <2>3. AckInv'
    BY <1>1, <1>4, <2>1 DEF AckInv, Detected
  <2>4. (Short => Short') /\ (Owed => Owed')
    BY <1>1, <2>1 DEF Short, Unread, Owed
  <2>5. OwedInv'
    BY <1>1, <2>4 DEF IInv, OwedInv
  <2> QED
    BY <1>2, <2>2, <2>3, <2>5 DEF IInv
<1> QED
  BY <1>3, <1>4

LEMMA PiuAckInv == IInv /\ be300_piu_ack => IInv'
<1> SUFFICES ASSUME IInv, be300_piu_ack PROVE IInv'
  OBVIOUS
<1> DEFINE cleared == IF "data lost" \in seen THEN seen \cup Pages ELSE seen
<1>1. /\ pen' = pen /\ at = "ack" /\ at' = "restart" /\ seen' = seen /\ stroke' = stroke
      /\ pen_down' = pen_down /\ battery' = battery /\ overtaken' = overtaken
      /\ unit' = [unit EXCEPT !.pending = @ \ cleared] /\ unit \in Units
  BY DEF be300_piu_ack, Handle, Acked, IInv, TypeOK
<1>2. /\ unit' \in Units /\ unit'.pending = unit.pending \ cleared
      /\ unit'.known = unit.known /\ unit'.scan = unit.scan
  BY <1>1 DEF Units
<1>3. TypeOK' /\ StrokeInv'
  BY <1>1, <1>2 DEF IInv, TypeOK, StrokeInv
<1>4. SeenInv' /\ ScanInv' /\ AckInv'
  BY <1>1, <1>2 DEF IInv, SeenInv, ScanInv, AckInv
<1>5. Short => Short'
  BY <1>1, <1>2 DEF Short, Unread
<1>6. OwedInv'
  <2>1. CASE "pen change" \in seen
    BY <1>1, <1>2, <1>5, <2>1 DEF IInv, AckInv, OwedInv, Owed
  <2>2. CASE "pen change" \notin seen
    BY <1>1, <1>2, <1>5, <2>2 DEF IInv, OwedInv, Owed
  <2> QED
    BY <2>1, <2>2
<1> QED
  BY <1>3, <1>4, <1>6 DEF IInv

\* The scan restarts: what the unit owes it raises now.
LEMMA RestartedUnit ==
  ASSUME NEW u \in Units, pen \in BOOLEAN
  PROVE  /\ Restarted(u) \in Units
         /\ Restarted(u).known = pen
         /\ Restarted(u).scan = IF pen THEN "data" ELSE "wait"
         /\ u.pending \subseteq Restarted(u).pending
         /\ Restarted(u).pending \subseteq u.pending \cup {"pen change"}
         /\ u.known # pen => "pen change" \in Restarted(u).pending
<1> DEFINE n == Noticed(u, pen)
<1>1. /\ n \in Units /\ n.known = pen
      /\ u.pending \subseteq n.pending /\ n.pending \subseteq u.pending \cup {"pen change"}
      /\ u.known # pen => "pen change" \in n.pending
  BY NoticedUnit
<1>2. Restarted(u) = [n EXCEPT !.scan = IF pen THEN "data" ELSE "wait", !.port = FALSE]
  BY DEF Restarted
<1> HIDE DEF n
<1> QED
  BY <1>1, <1>2 DEF Units

\* What a restart does to the invariant, whichever driver makes it.
LEMMA RestartInv ==
  ASSUME IInv, at' = "idle", seen' = {}, pen' = pen, stroke' = stroke,
         pen_down' = pen_down, overtaken' = overtaken,
         at \notin {"page1", "end", "ack"}, battery' = battery,
         NEW u \in Units, u.pending = unit.pending, u.known = unit.known,
         unit' = Restarted(u)
  PROVE  IInv'
<1>1. unit \in Units /\ pen \in BOOLEAN /\ unit.known \in BOOLEAN
  BY DEF IInv, TypeOK, Units
<1>2. /\ unit' \in Units /\ unit'.known = pen
      /\ unit'.scan = IF pen THEN "data" ELSE "wait"
      /\ unit.pending \subseteq unit'.pending
      /\ unit'.pending \subseteq unit.pending \cup {"pen change"}
      /\ unit.known # pen => "pen change" \in unit'.pending
  BY <1>1, RestartedUnit
<1>3. TypeOK' /\ StrokeInv'
  BY <1>2 DEF IInv, TypeOK, StrokeInv
<1>4. SeenInv' /\ AckInv'
  BY DEF SeenInv, AckInv
<1>5. ScanInv'
  <2>1. CASE pen
    BY <1>2, <2>1 DEF ScanInv
  <2>2. CASE ~pen
    BY <1>2, <2>2 DEF ScanInv
  <2> QED
    BY <2>1, <2>2
<1>6. Short => Short'
  BY <1>2 DEF Short, Unread
<1>7. OwedInv'
  BY <1>1, <1>2, <1>6 DEF IInv, OwedInv, Owed
<1> QED
  BY <1>3, <1>4, <1>5, <1>7 DEF IInv

LEMMA AckRestartsInv == IInv /\ AckRestarts => IInv'
<1> SUFFICES ASSUME IInv, AckRestarts PROVE IInv'
  OBVIOUS
<1>1. unit \in Units
  BY DEF IInv, TypeOK
<1> QED
  BY <1>1, RestartInv DEF AckRestarts, Handle

LEMMA TouchInv == IInv /\ Touch => IInv'
<1>1. IInv /\ ReportPage0 => IInv'
  BY TakesPageInv DEF ReportPage0
<1>2. IInv /\ ReportPage1 => IInv'
  BY TakesPageInv DEF ReportPage1
<1> QED
  BY <1>1, <1>2, TouchIsrInv, StrokeBeginsInv, StrokeEndsInv, PiuAckInv, AckRestartsInv
  DEF Touch

-----------------------------------------------------------------------------
(***************************************************************************)
(* The battery's timer: it changes the unit's mode and mask, and of what   *)
(* is pending only the conversion.                                         *)
(***************************************************************************)
LEMMA WorksInv ==
  ASSUME IInv, NEW from \in {"idle", "stop", "save", "mask", "clear", "enable", "converting",
                             "disabled", "unmask"},
         NEW to \in {"idle", "stop", "save", "mask", "clear", "enable", "converting",
                     "disabled", "unmask", "start"},
         Works(from, to), unit' \in Units,
         battery' \in [polls : 0 .. SamplePolls - 1, settling : BOOLEAN, mask : SUBSET Sources],
         unit'.pending \subseteq unit.pending,
         unit.pending \ {"converted"} \subseteq unit'.pending,
         unit'.known = unit.known,
         unit'.scan = unit.scan \/ unit'.scan \in {"standby", "port"}
  PROVE  IInv'
<1>1. /\ at = from /\ at' = to /\ pen' = pen /\ seen' = seen /\ stroke' = stroke
      /\ pen_down' = pen_down /\ overtaken' = overtaken
  BY DEF Works
<1>2. TypeOK' /\ StrokeInv'
  BY <1>1 DEF IInv, TypeOK, StrokeInv
<1>3. SeenInv' /\ AckInv' /\ ScanInv'
  BY <1>1 DEF IInv, SeenInv, AckInv, ScanInv
<1>4. (Short => Short') /\ (Owed => Owed')
  BY <1>1 DEF Short, Unread, Owed
<1>5. OwedInv'
  BY <1>1, <1>4 DEF IInv, OwedInv
<1> QED
  BY <1>2, <1>3, <1>5 DEF IInv

LEMMA BatteryInv == IInv /\ Battery => IInv'
<1> SUFFICES ASSUME IInv, Battery PROVE IInv'
  OBVIOUS
<1>1. /\ unit \in Units /\ SamplePolls \in Nat \ {0}
      /\ battery \in [polls : 0 .. SamplePolls - 1, settling : BOOLEAN, mask : SUBSET Sources]
  BY PiuAssumption DEF IInv, TypeOK
<1>0. /\ battery.polls \in 0 .. SamplePolls - 1
      /\ \A n \in 0 .. SamplePolls - 1 : n + 1 < SamplePolls => n + 1 \in 0 .. SamplePolls - 1
      /\ SamplePolls - 1 \in 0 .. SamplePolls - 1 /\ 0 \in 0 .. SamplePolls - 1
  <2>1. battery.polls \in 0 .. SamplePolls - 1
    BY <1>1
  <2>2. SamplePolls \in Nat \ {0}
    BY PiuAssumption
  <2> QED
    BY ONLY <2>1, <2>2
<1>2. CASE batt_tick
  <2>1. ASSUME NEW polls \in 0 .. SamplePolls - 1, Put(polls) PROVE IInv'
    BY <1>1, <2>1, WorksInv DEF Put
  <2>2. battery.polls + 1 < SamplePolls => battery.polls + 1 \in 0 .. SamplePolls - 1
    BY <1>0
  <2>3. SamplePolls - 1 \in 0 .. SamplePolls - 1 /\ 0 \in 0 .. SamplePolls - 1
    BY <1>0
  <2>4. CASE Works("idle", "stop") /\ battery' = [battery EXCEPT !.polls = 0] /\ UNCHANGED unit
    BY <1>1, <2>3, <2>4, WorksInv
  <2> QED
    BY <1>2, <2>1, <2>2, <2>3, <2>4 DEF batt_tick
<1>3. CASE be300_regs_battery_begin
  BY <1>1, <1>3, WorksInv DEF be300_regs_battery_begin, Units
<1>4. CASE batt_sample_end
  <2>1. SamplePolls - 1 \in 0 .. SamplePolls - 1
    BY <1>0
  <2>2. battery' \in [polls : 0 .. SamplePolls - 1, settling : BOOLEAN, mask : SUBSET Sources]
    BY <1>1, <1>4, <2>1 DEF batt_sample_end
  <2>3. unit' = unit /\ (Works("idle", "idle") \/ Works("idle", "save"))
    BY <1>4 DEF batt_sample_end
  <2> QED
    BY <1>1, <2>2, <2>3, WorksInv
<1>5. CASE SaveMask
  BY <1>1, <1>5, WorksInv DEF SaveMask, Units
<1>6. CASE MaskTwo
  BY <1>1, <1>6, WorksInv DEF MaskTwo, Masked, Units
<1>7. CASE ClearConverted
  BY <1>1, <1>7, WorksInv DEF ClearConverted, Acked, Units
<1>8. CASE Enable
  BY <1>1, <1>8, WorksInv DEF Enable, Units
<1>9. CASE ConversionEnds
  BY <1>1, <1>9, WorksInv DEF ConversionEnds, Units
<1>10. CASE ClearAgain
  BY <1>1, <1>10, WorksInv DEF ClearAgain, Acked, Units
<1>11. CASE RestoreMask
  BY <1>1, <1>11, WorksInv DEF RestoreMask, Masked, Units
<1>12. CASE be300_piu_start
  <2>1. /\ Masked(unit, TouchMask) \in Units
        /\ Masked(unit, TouchMask).pending = unit.pending
        /\ Masked(unit, TouchMask).known = unit.known
    BY <1>1 DEF Masked, Units
  <2>2. at = "start" /\ seen = {} /\ at' = "idle" /\ seen' = seen
    BY <1>12 DEF be300_piu_start, Works, IInv, SeenInv
  <2> QED
    BY <1>12, <2>1, <2>2, RestartInv DEF be300_piu_start, Works
<1> QED
  BY <1>2, <1>3, <1>4, <1>5, <1>6, <1>7, <1>8, <1>9, <1>10, <1>11, <1>12 DEF Battery

-----------------------------------------------------------------------------
LEMMA NextInv == IInv /\ [Next]_vars => IInv'
<1>1. IInv /\ UNCHANGED vars => IInv'
  <2> SUFFICES ASSUME IInv, UNCHANGED vars PROVE IInv'
    OBVIOUS
  <2>0. TypeOK'
    BY ZenonT(40) DEF vars, IInv, TypeOK
  <2>1. SeenInv' /\ ScanInv' /\ StrokeInv'
    BY DEF vars, IInv, SeenInv, ScanInv, StrokeInv
  <2>2. Short' = Short /\ Owed' = Owed
    BY DEF vars, Short, Unread, Owed
  <2>3. AckInv' /\ OwedInv'
    BY <2>2 DEF vars, IInv, AckInv, OwedInv
  <2> QED
    BY <2>0, <2>1, <2>3 DEF IInv
<1> QED
  BY <1>1, PenMovesInv, PenMovesUnseenInv, ScanPageInv, ConvertInv, TouchInv, BatteryInv
  DEF Next, Unit

LEMMA AlwaysInv == Spec => []IInv
BY InitInv, NextInv, PTL DEF Spec

\* Every variable keeps its type.
THEOREM TypeCorrect == Spec => []TypeOK
<1>1. IInv => TypeOK
  BY DEF IInv
<1> QED
  BY <1>1, AlwaysInv, PTL

\* The pointer's button never stays pressed with nothing left to release it,
\* but for a pen that moves in the very window of an acknowledgement
\* (be300_touch_isr, with the battery's conversions in between).
THEOREM ReleaseIsNotLost == Spec => []ReleaseNotLost
<1>1. IInv => ReleaseNotLost
  BY DEF IInv, OwedInv, Owed, Short, ReleaseNotLost
<1> QED
  BY <1>1, AlwaysInv, PTL

\* No step of the battery monitor acknowledges a touch event
\* (be300_regs_battery_begin, be300_regs_battery_convert, be300_regs_piu_start).
THEOREM EventsAreKept == Spec => ConversionKeepsEvents
<1>1. IInv /\ Battery => unit.pending \ {"converted"} \subseteq unit'.pending
  <2> SUFFICES ASSUME IInv, Battery PROVE unit.pending \ {"converted"} \subseteq unit'.pending
    OBVIOUS
  <2>1. unit \in Units /\ pen \in BOOLEAN
    BY DEF IInv, TypeOK
  <2>2. CASE be300_piu_start
    <3>1. Masked(unit, TouchMask) \in Units /\ Masked(unit, TouchMask).pending = unit.pending
      BY <2>1 DEF Masked, Units
    <3> QED
      BY <2>1, <2>2, <3>1, RestartedUnit DEF be300_piu_start
  <2>3. CASE ~be300_piu_start
    BY <2>1, <2>3 DEF Battery, batt_tick, Put, be300_regs_battery_begin, batt_sample_end,
       SaveMask, MaskTwo, ClearConverted, Enable, ConversionEnds, ClearAgain, RestoreMask,
       Masked, Acked, Units
  <2> QED
    BY <2>2, <2>3
<1>2. IInv /\ [Next]_vars => [Battery => unit.pending \ {"converted"} \subseteq unit'.pending]_vars
  BY <1>1
<1> QED
  BY <1>2, AlwaysInv, PTL DEF Spec, ConversionKeepsEvents
=============================================================================
