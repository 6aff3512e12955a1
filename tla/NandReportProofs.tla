-------------------------- MODULE NandReportProofs --------------------------
(***************************************************************************)
(* What the driver of NandController reports, for every geometry: a read   *)
(* that succeeds returned the bytes of its area, a program or an erase     *)
(* that succeeds changed what was asked for and nothing else, and the page *)
(* number and tag captured for the ECC hook are those of the page read.    *)
(*                                                                         *)
(* The invariant of NandControllerProofs says where the stream stands;     *)
(* here it is carried on to the data: the row is the caller's page once    *)
(* both bytes are sent (RowInv), the driver skips and pads by the caller's *)
(* column (ColumnInv), what was read so far is what the array holds        *)
(* (GotInv, TagInv), what was written so far is in the page register       *)
(* (RegInv), and the array changes only when a command is executed         *)
(* (BeforeInv, ResultInv).                                                 *)
(*                                                                         *)
(* The last section shows from it that the driver implements NandArray:    *)
(* every step is a step of the array as the caller sees it, or none.       *)
(***************************************************************************)
EXTENDS NandControllerProofs

Sending   == {"column", "low", "high", "close"}
Fetching  == {"read", "reading"}
Storing   == {"write", "writing"}

RowInv ==
  /\ client.pc \in {"column", "low"} => chip.row = 0
  /\ client.pc = "high" =>
       /\ chip.row = client.page % ByteBase
       /\ client.kind = "read" => drv.readPage = client.page % ByteBase
  /\ client.pc \in {"close", "execute"} \cup Fetching \cup Storing => chip.row = client.page
  /\ client.pc \in {"close", "done"} \cup Fetching /\ client.kind = "read" =>
       drv.readPage = client.page

ColumnInv ==
  /\ client.pc = "command" /\ client.kind = "program" => drv.areaBase = client.column
  /\ client.pc \in Sending \cup Storing /\ client.kind = "program" =>
       drv.column = client.column
  /\ client.pc \in Sending \cup Fetching /\ client.kind = "read" =>
       drv.skip = client.column
  /\ client.pc \in Sending /\ client.kind = "read" => ~drv.skipDone
  /\ client.pc \in Fetching => (drv.skipDone <=> drv.streamOn)

\* The calls of an operation move the page from the column to its end; none
\* follows an empty one.
CallInv ==
  /\ client.pc = "area" => client.kind = "program"
  /\ client.now = 0 => client.later = 0
  /\ client.pc \in {"area", "command"} \cup Sending /\ client.kind # "erase" => client.now > 0
  /\ client.pc \in {"area", "command"} \cup Sending /\ client.kind = "read" =>
       client.column + client.now + client.later = RawBytes
  /\ client.pc = "read" /\ ~drv.streamOn => client.now > 0
  /\ client.pc = "write" /\ ~drv.progOn => client.now > 0

\* The bytes a read took so far.
Taken ==
  /\ Len(loop.got) <= RawBytes - client.column
  /\ \A i \in 1 .. Len(loop.got) : loop.got[i] = cells[client.page][client.column + i - 1]

GotInv ==
  /\ client.pc \in {"command"} \cup Sending /\ client.kind = "read" => loop.got = <<>>
  /\ client.pc \in Fetching => Taken
  /\ client.pc \in Fetching =>
       client.column + Len(loop.got) + loop.want + client.now + client.later = RawBytes
  /\ client.pc = "read" => loop.skip = 0 /\ loop.want = 0
  /\ client.pc \in Fetching /\ loop.skip > 0 => loop.got = <<>>
  /\ client.pc \in Fetching /\ ~drv.streamOn => loop.got = <<>>
  /\ client.pc \in Fetching /\ drv.streamOn =>
       drv.readPos + loop.skip = client.column + Len(loop.got)
  /\ client.pc = "done" /\ client.kind = "read" =>
       Taken /\ client.column + Len(loop.got) = RawBytes

\* The spare bytes of the first half, as far as the stream passed them.
Captured(n) ==
  \A i \in 0 .. TagBytes - 1 : DataBytes + i < n =>
    drv.tag[i] = cells[client.page][DataBytes + i]

TagInv ==
  /\ client.pc \in Fetching /\ drv.streamOn => Captured(drv.readPos)
  /\ client.pc = "done" /\ client.kind = "read" => Captured(RawBytes)

\* The page register once the stream stands at n.
Loaded(n) ==
  chip.reg = [i \in Offset |-> IF i >= client.column /\ i < n THEN client.image[i] ELSE 1]

RegInv ==
  /\ client.pc \in Sending /\ client.kind = "program" => Loaded(0)
  /\ client.pc \in Storing => IF drv.progOn THEN Loaded(drv.progPos) ELSE Loaded(0)
  /\ client.pc \in Storing /\ (~drv.progOn \/ drv.progPos < client.column) => loop.skip = 0
  /\ client.pc \in Storing /\ drv.progOn /\ drv.progPos >= client.column =>
       drv.progPos = client.column + loop.skip
  /\ client.pc = "write" /\ drv.progOn => drv.progPos >= client.column
  /\ client.pc = "execute" /\ client.kind = "program" => Loaded(RawBytes)

\* The array as a program or an erase that worked leaves it.
Asked ==
  /\ client.kind = "program" =>
       cells = [loop.before EXCEPT ![client.page] = Programmed(@, Sent)]
  /\ client.kind = "erase" =>
       cells = [p \in PageNo |-> IF SameBlock(p, client.page) THEN Blank ELSE loop.before[p]]

BeforeInv ==
  client.pc \in {"area", "command", "execute"} \cup Sending \cup Storing => loop.before = cells

ResultInv ==
  /\ client.pc \in {"status", "result"} => client.kind # "read" /\ (StatusGood => Asked)
  /\ client.ok => client.pc = "done" /\ ~drv.failed /\ Asked

RInv == RowInv /\ ColumnInv /\ CallInv /\ GotInv /\ TagInv /\ RegInv /\ BeforeInv /\ ResultInv

----------------------------------------------------------------------------
\* What the driver's helpers do to the fields the data depends on.

\* What a wait or the end of an address phase keeps, besides SameCommand.
SameCapture(d, e) ==
  /\ e.readPage = d.readPage /\ e.tag = d.tag
  /\ e.areaBase = d.areaBase /\ e.skipDone = d.skipDone
  /\ d.failed => e.failed

LEMMA WaitedCapture ==
  ASSUME NEW d \in DrvType, NEW late \in BOOLEAN
  PROVE  SameCapture(d, Waited(d, late))
  BY DEF Waited, DrvType, SameCapture

LEMMA FinishAddrCapture ==
  ASSUME NEW d \in DrvType, NEW late \in BOOLEAN
  PROVE  SameCapture(d, FinishAddr(d, late))
  <1> DEFINE w == Waited(d, late)
  <1>1. w \in DrvType /\ SameCapture(d, w)
    BY WaitedType, WaitedCapture
  <1>2. FinishAddr(d, late) = IF d.phase = "addr" THEN [w EXCEPT !.phase = "none"] ELSE d
    BY DEF FinishAddr
  <1> HIDE DEF w
  <1> QED BY <1>1, <1>2 DEF DrvType, SameCapture

LEMMA SendCommandCapture ==
  ASSUME NEW d \in DrvType, NEW cmd \in Commands, NEW late \in BOOLEAN
  PROVE  LET e == SendCommand(d, cmd, late) IN
         /\ e.readPage = d.readPage /\ e.tag = d.tag
         /\ d.failed \/ Refused(d, cmd) => e.failed
         /\ ~Refused(d, cmd) =>
              /\ ~e.skipDone
              /\ e.areaBase = IF cmd \in AreaCmds THEN AreaBase(cmd) ELSE d.areaBase
              /\ e.skip = IF cmd \in AreaCmds THEN AreaBase(cmd) ELSE d.skip
              /\ e.column = IF cmd = "SEQIN" THEN d.areaBase ELSE d.column
  <1> DEFINE f == IF StartsMutation(cmd) THEN [d EXCEPT !.mutation = 0] ELSE d
             g == FinishAddr(f, late)
             h == Waited(g, late)
  <1>1. f \in DrvType /\ SameCapture(d, f) /\ f.skip = d.skip /\ f.column = d.column
    BY DEF DrvType, SameCapture
  <1>2. Refused(f, cmd) = Refused(d, cmd)
    BY DEF DrvType, Refused, StartsMutation
  <1>3. SendCommand(d, cmd, late) =
          IF Refused(f, cmd) THEN [f EXCEPT !.failed = TRUE]
          ELSE [h EXCEPT
            !.cmd = cmd,
            !.streamOn = FALSE,
            !.skipDone = FALSE,
            !.areaBase = IF cmd \in AreaCmds THEN AreaBase(cmd) ELSE @,
            !.skip = IF cmd \in AreaCmds THEN AreaBase(cmd) ELSE @,
            !.column = ColumnAfter(f, cmd),
            !.progPos = IF cmd = "SEQIN" THEN 0 ELSE @,
            !.progOn = IF cmd \in {"SEQIN", "PAGEPROG"} THEN FALSE ELSE @]
    BY DEF SendCommand
  <1> HIDE DEF f
  <1>4. g \in DrvType /\ SameCapture(f, g) /\ SameCommand(f, g)
    BY <1>1, FinishAddrType, FinishAddrCapture
  <1> HIDE DEF g
  <1>5. h \in DrvType /\ SameCapture(g, h) /\ SameCommand(g, h)
    BY <1>4, WaitedType, WaitedCapture
  <1> HIDE DEF h
  <1>6. /\ h.readPage = d.readPage /\ h.tag = d.tag /\ h.areaBase = d.areaBase
        /\ h.skip = d.skip /\ (d.failed => h.failed)
    BY <1>1, <1>4, <1>5 DEF SameCapture, SameCommand
  <1>7. CASE Refused(f, cmd)
    BY <1>1, <1>2, <1>3, <1>7 DEF DrvType, SameCapture
  <1>8. CASE ~Refused(f, cmd)
    <2> DEFINE c == ColumnAfter(f, cmd)
    <2>1. c = IF cmd = "SEQIN" THEN d.areaBase ELSE d.column
      BY <1>1 DEF ColumnAfter, SameCapture
    <2> HIDE DEF c
    <2>2. LET e == SendCommand(d, cmd, late) IN
          /\ e.readPage = h.readPage /\ e.tag = h.tag /\ e.failed = h.failed
          /\ ~e.skipDone /\ e.column = c
          /\ e.areaBase = IF cmd \in AreaCmds THEN AreaBase(cmd) ELSE h.areaBase
          /\ e.skip = IF cmd \in AreaCmds THEN AreaBase(cmd) ELSE h.skip
      BY <1>3, <1>5, <1>8 DEF DrvType, c
    <2> QED BY <1>2, <1>6, <1>8, <2>1, <2>2
  <1> QED BY <1>7, <1>8

LEMMA SendAddrCapture ==
  ASSUME NEW d \in DrvType, NEW b \in Nat
  PROVE  LET e == SendAddr(d, b)
             at == IF d.phase = "addr" THEN d.addrPos ELSE 0
         IN
         /\ e.tag = d.tag /\ e.areaBase = d.areaBase /\ e.skip = d.skip
         /\ e.skipDone = d.skipDone /\ e.failed = d.failed
         /\ e.column = IF d.cmd = "SEQIN" /\ at = 0 THEN d.column + b ELSE d.column
         /\ e.readPage = CASE d.cmd \in AreaCmds /\ at = 1 -> b
                           [] d.cmd \in AreaCmds /\ at = 2 -> d.readPage + PageByte(b, 1)
                           [] OTHER -> d.readPage
  <1> DEFINE e == BeginAddr(d)
             at == IF d.phase = "addr" THEN d.addrPos ELSE 0
             co == IF e.cmd = "SEQIN" /\ e.addrPos = 0 THEN e.column + b ELSE e.column
             mu == CASE e.cmd = "SEQIN" /\ e.addrPos > 0 ->
                           e.mutation + PageByte(b, e.addrPos - 1)
                     [] e.cmd = "ERASE1" -> e.mutation + PageByte(b, e.addrPos)
                     [] OTHER -> e.mutation
             rp == ReadPage(e, b)
             ap == e.addrPos + 1
  <1>1. /\ e \in DrvType /\ e.cmd = d.cmd /\ e.addrPos = at /\ e.readPage = d.readPage
        /\ e.column = d.column /\ e.tag = d.tag /\ e.areaBase = d.areaBase
        /\ e.skip = d.skip /\ e.skipDone = d.skipDone /\ e.failed = d.failed
    BY DEF BeginAddr, DrvType
  <1>2. SendAddr(d, b) = [e EXCEPT !.column = co, !.mutation = mu, !.readPage = rp,
                                   !.addrPos = ap]
    BY DEF SendAddr
  <1> HIDE DEF e, at
  <1>3. co = IF d.cmd = "SEQIN" /\ at = 0 THEN d.column + b ELSE d.column
    BY <1>1
  <1>4. rp = CASE d.cmd \in AreaCmds /\ at = 1 -> b
               [] d.cmd \in AreaCmds /\ at = 2 -> d.readPage + PageByte(b, 1)
               [] OTHER -> d.readPage
    BY <1>1 DEF ReadPage
  <1> HIDE DEF co, mu, rp, ap
  <1>5. LET s == SendAddr(d, b) IN
        /\ s.column = co /\ s.readPage = rp /\ s.tag = e.tag /\ s.areaBase = e.areaBase
        /\ s.skip = e.skip /\ s.skipDone = e.skipDone /\ s.failed = e.failed
    BY <1>1, <1>2 DEF DrvType
  <1> QED BY <1>1, <1>3, <1>4, <1>5 DEF at

LEMMA LatchCmdReg ==
  ASSUME NEW c \in ChipType, NEW cmd \in Commands
  PROVE  LET e == LatchCmd(c, cmd) IN
         /\ e.ok = c.ok
         /\ e.reg = IF cmd = "SEQIN" THEN Blank ELSE c.reg
         /\ cmd \notin AreaCmds \cup {"SEQIN", "ERASE1"} => e.row = c.row
  BY DEF LatchCmd, ChipType, Blank

LEMMA LatchByteReg ==
  ASSUME NEW c \in ChipType, NEW b \in Nat
  PROVE  LatchByte(c, b).reg = c.reg /\ LatchByte(c, b).ok = c.ok
  BY DEF LatchByte, ChipType

\* A byte from the stream is the byte of the array at the stream's position.
LEMMA StreamedIsCell ==
  ASSUME TypeOK, BurstAt(drv.readPos), drv.readPos < RawBytes, chip.row \in PageNo
  PROVE  StreamedByte = cells[chip.row][drv.readPos]
  <1>1. ReadMode.pos = drv.readPos
    BY DEF ReadMode, SetMode, BurstAt, TypeOK, ChipType, LeftAt
  <1>2. drv.readPos \in Offset
    BY Sizes DEF Offset, TypeOK, DrvType
  <1> QED BY <1>1, <1>2 DEF StreamedByte, CellAt

LEMMA ReadStreamedRow ==
  ASSUME TypeOK
  PROVE  ReadStreamed.row = chip.row
  <1>1. ReadMode.row = chip.row /\ DOMAIN ReadMode = DOMAIN chip
    BY DEF ReadMode, SetMode, TypeOK, ChipType
  <1>2. DOMAIN chip = {"cmd", "cycle", "row", "reg", "left", "pos", "ok", "hung"}
    BY DEF TypeOK, ChipType
  <1> HIDE DEF ReadMode
  <1>3. Stream(ReadMode, 1).row = ReadMode.row
    BY <1>1, <1>2 DEF Stream
  <1> QED BY <1>1, <1>3 DEF ReadStreamed

\* What a byte of the read stream changes in the driver.
LEMMA StreamReadByteCapture ==
  ASSUME TypeOK, NEW late \in BOOLEAN
  PROVE  LET d == StreamReadByte(drv, late) IN
         /\ d.readPage = drv.readPage /\ d.skip = drv.skip /\ d.skipDone = drv.skipDone
         /\ d.readPos = IF drv.readPos >= RawBytes THEN drv.readPos ELSE drv.readPos + 1
         /\ d.tag = IF drv.readPos \in DataBytes .. Burst - 1
                    THEN [drv.tag EXCEPT ![drv.readPos - DataBytes] = StreamedByte]
                    ELSE drv.tag
         /\ drv.failed => d.failed
  <1> DEFINE w == Waited(drv, late /\ drv.readPos = Burst)
  <1>0. drv \in DrvType /\ drv.readPos \in 0 .. RawBytes
    BY DEF TypeOK, DrvType
  <1>1. (late /\ drv.readPos = Burst) \in BOOLEAN
    OBVIOUS
  <1>2. w \in DrvType /\ SameCommand(drv, w) /\ SameCapture(drv, w)
    BY <1>0, <1>1, WaitedType, WaitedCapture
  <1>3. CASE drv.readPos >= RawBytes
    BY <1>0, <1>3, Sizes DEF StreamReadByte
  <1>4. CASE ~(drv.readPos >= RawBytes)
    <2> DEFINE n == w.readPos + 1
               t == IF drv.readPos \in DataBytes .. Burst - 1
                    THEN [w.tag EXCEPT ![drv.readPos - DataBytes] = StreamedByte] ELSE w.tag
    <2>1. StreamReadByte(drv, late) = [w EXCEPT !.readPos = n, !.tag = t]
      BY <1>4 DEF StreamReadByte
    <2>2. /\ n = drv.readPos + 1
          /\ t = IF drv.readPos \in DataBytes .. Burst - 1
                 THEN [drv.tag EXCEPT ![drv.readPos - DataBytes] = StreamedByte] ELSE drv.tag
      BY <1>2 DEF SameCommand, SameCapture
    <2> HIDE DEF w, n, t
    <2>3. LET d == StreamReadByte(drv, late) IN
          /\ d.readPos = n /\ d.tag = t /\ d.readPage = w.readPage /\ d.skip = w.skip
          /\ d.skipDone = w.skipDone /\ d.failed = w.failed
      BY <1>2, <2>1 DEF DrvType
    <2> QED BY <1>2, <1>4, <2>2, <2>3 DEF SameCommand, SameCapture
  <1> QED BY <1>3, <1>4

\* What a byte of the program stream changes.
LEMMA StreamWriteByteCapture ==
  ASSUME TypeOK, NEW late \in BOOLEAN, BurstAt(drv.progPos), drv.progPos < RawBytes,
         NEW b \in {0, 1}
  PROVE  /\ StreamWriteByte(drv, late).progPos = drv.progPos + 1
         /\ StreamWriteByte(drv, late).column = drv.column
         /\ WriteStreamed(b).reg =
              [i \in Offset |-> IF i = drv.progPos THEN b ELSE chip.reg[i]]
  <1> DEFINE w == Waited(drv, late /\ drv.progPos = Burst)
  <1>0. drv \in DrvType /\ drv.progPos \in 0 .. RawBytes /\ chip \in ChipType
        /\ chip.pos = drv.progPos
    BY DEF TypeOK, DrvType, BurstAt, LeftAt
  <1>1. (late /\ drv.progPos = Burst) \in BOOLEAN
    OBVIOUS
  <1>2. w \in DrvType /\ SameCommand(drv, w)
    BY <1>0, <1>1, WaitedType
  <1>a. ~(drv.progPos >= RawBytes)
    BY <1>0, Sizes
  <1>3. StreamWriteByte(drv, late) = [w EXCEPT !.progPos = w.progPos + 1]
    BY <1>a DEF StreamWriteByte
  <1>4. /\ StreamWriteByte(drv, late).progPos = drv.progPos + 1
        /\ StreamWriteByte(drv, late).column = drv.column
    <2> HIDE DEF w
    <2> QED BY <1>2, <1>3 DEF DrvType, SameCommand
  <1> DEFINE m == ProgramMode
             r == [i \in Offset |-> IF i = m.pos THEN b ELSE m.reg[i]]
             k == [m EXCEPT !.reg = r]
  <1>5. /\ m.pos = drv.progPos /\ m.reg = chip.reg
        /\ DOMAIN m = {"cmd", "cycle", "row", "reg", "left", "pos", "ok", "hung"}
    BY <1>0 DEF ProgramMode, SetMode, ChipType
  <1>6. WriteStreamed(b) = Stream(k, 1)
    BY <1>a DEF WriteStreamed
  <1>7. r = [i \in Offset |-> IF i = drv.progPos THEN b ELSE chip.reg[i]]
    BY <1>5
  <1> HIDE DEF m, r
  <1>8. k.reg = r /\ DOMAIN k = {"cmd", "cycle", "row", "reg", "left", "pos", "ok", "hung"}
    BY <1>5
  <1> HIDE DEF k
  <1>9. Stream(k, 1).reg = k.reg
    BY <1>8 DEF Stream
  <1> QED BY <1>4, <1>6, <1>7, <1>8, <1>9

----------------------------------------------------------------------------
\* The initial state, and one lemma per action.

LEMMA InitRInv == Init => RInv
  <1> SUFFICES ASSUME Init PROVE RInv
    OBVIOUS
  <1>1. client.pc = "idle" /\ client.now = 0 /\ client.later = 0 /\ client.ok = FALSE
    BY DEF Init, NoCall, Call
  <1>2. RowInv /\ ColumnInv /\ CallInv
    BY <1>1 DEF RowInv, ColumnInv, CallInv, Sending, Fetching, Storing
  <1>3. GotInv /\ TagInv /\ RegInv
    BY <1>1 DEF GotInv, TagInv, RegInv, Sending, Fetching, Storing
  <1>4. BeforeInv /\ ResultInv
    BY <1>1 DEF BeforeInv, ResultInv, Sending, Storing
  <1> QED BY <1>2, <1>3, <1>4 DEF RInv

\* The column of a caller is the base of its area.
LEMMA AreaBaseOfColumn ==
  ASSUME NEW c \in Columns
  PROVE  AreaOf(c) \in AreaCmds /\ AreaBase(AreaOf(c)) = c
  BY Sizes DEF Columns, AreaOf, AreaBase, AreaCmds

LEMMA StartCall ==
  ASSUME Start
  PROVE  /\ client'.pc \in {"area", "command"} /\ client'.ok = FALSE
         /\ client'.kind = "program" <=> client'.pc = "area"
         /\ IF client'.kind = "erase" THEN client'.now = 0 /\ client'.later = 0
            ELSE /\ client'.now > 0
                 /\ client'.column + client'.now + client'.later = RawBytes
         /\ client'.now \in Nat
  <1>1. PICK p \in PageNo :
          \/ \E c \in Columns : \E n \in FirstCall(c) :
               LET m == RawBytes - c - n IN
               \/ client' = Call("command", "read", p, c, Blank, n, m)
               \/ \E im \in Patterns : client' = Call("area", "program", p, c, im, n, m)
          \/ client' = Call("command", "erase", p, 0, Blank, 0, 0)
    BY DEF Start
  <1>2. CASE client' = Call("command", "erase", p, 0, Blank, 0, 0)
    BY <1>2 DEF Call
  <1>3. CASE \E c \in Columns : \E n \in FirstCall(c) :
               LET m == RawBytes - c - n IN
               \/ client' = Call("command", "read", p, c, Blank, n, m)
               \/ \E im \in Patterns : client' = Call("area", "program", p, c, im, n, m)
    <2>1. PICK c \in Columns : \E n \in FirstCall(c) :
            \/ client' = Call("command", "read", p, c, Blank, n, RawBytes - c - n)
            \/ \E im \in Patterns :
                 client' = Call("area", "program", p, c, im, n, RawBytes - c - n)
      BY <1>3
    <2>2. PICK n \in FirstCall(c) :
            \/ client' = Call("command", "read", p, c, Blank, n, RawBytes - c - n)
            \/ \E im \in Patterns :
                 client' = Call("area", "program", p, c, im, n, RawBytes - c - n)
      BY <2>1
    <2>3. n \in Nat /\ n > 0 /\ c + n + (RawBytes - c - n) = RawBytes
      BY Sizes DEF Columns, FirstCall
    <2> DEFINE m == RawBytes - c - n
    <2> HIDE DEF m
    <2>4. c + n + m = RawBytes
      BY <2>3 DEF m
    <2>5. \/ client' = Call("command", "read", p, c, Blank, n, m)
          \/ \E im \in Patterns : client' = Call("area", "program", p, c, im, n, m)
      BY <2>2 DEF m
    <2> QED BY <2>3, <2>4, <2>5 DEF Call
  <1> QED BY <1>1, <1>2, <1>3

LEMMA StartReport == ASSUME IInv, RInv, Start PROVE RInv'
  <1>1. cells' = cells /\ loop' = NoLoop(cells)
    BY DEF Start
  <1>2. loop'.got = <<>> /\ loop'.before = cells
    BY <1>1 DEF NoLoop
  <1>3. RowInv' /\ ColumnInv' /\ TagInv' /\ RegInv'
    BY StartCall DEF RowInv, ColumnInv, TagInv, RegInv, Sending, Fetching, Storing
  <1>4. CallInv'
    BY StartCall DEF CallInv, Sending
  <1>5. GotInv'
    BY <1>2, StartCall DEF GotInv, Sending, Fetching
  <1>6. BeforeInv' /\ ResultInv'
    BY <1>1, <1>2, StartCall DEF BeforeInv, ResultInv
  <1> QED BY <1>3, <1>4, <1>5, <1>6 DEF RInv

LEMMA GotoOk ==
  ASSUME client \in ClientType, NEW q, Goto(q)
  PROVE  client'.ok = client.ok
  BY DEF Goto, ClientType

\* A command outside PAGEPROG and ERASE2 is never refused.
LEMMA IssueCapture ==
  ASSUME TypeOK, NEW cmd \in AreaCmds \cup {"SEQIN", "ERASE1", "STATUS"}, Issue(cmd)
  PROVE  /\ drv'.readPage = drv.readPage /\ drv'.tag = drv.tag /\ ~drv'.skipDone
         /\ drv.failed => drv'.failed
         /\ drv'.areaBase = IF cmd \in AreaCmds THEN AreaBase(cmd) ELSE drv.areaBase
         /\ drv'.skip = IF cmd \in AreaCmds THEN AreaBase(cmd) ELSE drv.skip
         /\ drv'.column = IF cmd = "SEQIN" THEN drv.areaBase ELSE drv.column
         /\ chip'.ok = chip.ok
         /\ chip'.reg = IF cmd = "SEQIN" THEN Blank ELSE chip.reg
         /\ cmd # "STATUS" => chip'.row = 0
  <1>1. drv \in DrvType /\ chip \in ChipType /\ cmd \in Commands
    BY DEF TypeOK, Commands
  <1>2. ~Refused(drv, cmd)
    BY DEF Refused, AreaCmds
  <1>3. PICK late \in BOOLEAN : drv' = SendCommand(drv, cmd, late)
    BY DEF Issue
  <1>4. chip' = LatchCmd(chip, cmd)
    BY DEF Issue
  <1>5. /\ drv'.readPage = drv.readPage /\ drv'.tag = drv.tag /\ ~drv'.skipDone
        /\ drv.failed => drv'.failed
        /\ drv'.areaBase = IF cmd \in AreaCmds THEN AreaBase(cmd) ELSE drv.areaBase
        /\ drv'.skip = IF cmd \in AreaCmds THEN AreaBase(cmd) ELSE drv.skip
        /\ drv'.column = IF cmd = "SEQIN" THEN drv.areaBase ELSE drv.column
    BY <1>1, <1>2, <1>3, SendCommandCapture
  <1>6. /\ chip'.ok = chip.ok /\ chip'.reg = IF cmd = "SEQIN" THEN Blank ELSE chip.reg
        /\ cmd \in AreaCmds \cup {"SEQIN", "ERASE1"} => chip'.row = 0
    BY <1>1, <1>4, LatchCmdReg, LatchCmdType
  <1> QED BY <1>5, <1>6

LEMMA SelectAreaReport == ASSUME IInv, RInv, SelectArea PROVE RInv'
  <1> DEFINE cmd == AreaOf(client.column)
  <1>1. client.pc = "area" /\ Issue(cmd) /\ Goto("command")
    BY DEF SelectArea, At
  <1>2. client' \in ClientType /\ client'.pc = "command" /\ KeepsCall /\ client'.ok = client.ok
    BY <1>1, Held, GotoType, GotoOk DEF PCs
  <1>3. cmd \in AreaCmds /\ AreaBase(cmd) = client.column
    BY Held, AreaBaseOfColumn
  <1> HIDE DEF cmd
  <1>4. cells' = cells /\ loop' = loop /\ drv'.areaBase = client.column
    BY <1>1, <1>3, Held, IssueType, IssueCapture
  <1>a. client.kind # "read"
    BY <1>1 DEF RInv, CallInv
  <1>5. RowInv' /\ ColumnInv' /\ TagInv' /\ RegInv'
    BY <1>2, <1>4
    DEF RowInv, ColumnInv, TagInv, RegInv, Sending, Fetching, Storing, KeepsCall
  <1>6. CallInv' /\ GotInv'
    BY <1>1, <1>2, <1>4, <1>a DEF RInv, CallInv, GotInv, Sending, Fetching, KeepsCall
  <1>7. BeforeInv' /\ ResultInv'
    BY <1>1, <1>2, <1>4 DEF RInv, BeforeInv, ResultInv, Sending, Storing
  <1> QED BY <1>5, <1>6, <1>7 DEF RInv


LEMMA SendMainReport == ASSUME IInv, RInv, SendMain PROVE RInv'
  <1> DEFINE cmd == MainCommand
  <1>1. /\ client.pc = "command" /\ Issue(cmd)
        /\ Goto(IF client.kind = "erase" THEN "low" ELSE "column")
    BY DEF SendMain, At
  <1>2. /\ client' \in ClientType /\ KeepsCall /\ client'.ok = client.ok
        /\ client'.pc = IF client.kind = "erase" THEN "low" ELSE "column"
    BY <1>1, Held, GotoType, GotoOk DEF PCs
  <1>3. /\ cmd \in AreaCmds \cup {"SEQIN", "ERASE1"}
        /\ client.kind = "program" => cmd = "SEQIN"
        /\ client.kind = "read" => cmd \in AreaCmds /\ AreaBase(cmd) = client.column
    BY Held, AreaBaseOfColumn DEF MainCommand, AreaCmds, Kinds
  <1> HIDE DEF cmd
  <1>4. /\ cells' = cells /\ loop' = loop /\ chip'.row = 0 /\ ~drv'.skipDone
        /\ client.kind = "read" => drv'.skip = client.column
        /\ client.kind = "program" => chip'.reg = Blank /\ drv'.column = drv.areaBase
    <2>1. cmd \in AreaCmds \cup {"SEQIN", "ERASE1", "STATUS"} /\ cmd # "STATUS"
      BY <1>3 DEF AreaCmds
    <2> QED BY <1>1, <1>3, <2>1, Held, IssueType, IssueCapture
  <1>5. RowInv'
    BY <1>2, <1>4 DEF RowInv, Fetching, Storing
  <1>6. ColumnInv'
    BY <1>1, <1>2, <1>4 DEF RInv, ColumnInv, Sending, Fetching, Storing, KeepsCall
  <1>7. CallInv' /\ GotInv'
    BY <1>1, <1>2, <1>4 DEF RInv, CallInv, GotInv, Sending, Fetching, KeepsCall
  <1>8. TagInv'
    BY <1>2 DEF TagInv, Fetching
  <1>9. RegInv'
    <2>1. client'.kind = "program" => Loaded(0)'
      BY <1>2, <1>4, Sizes DEF Loaded, Blank, KeepsCall, Offset, ClientType, Columns
    <2> QED BY <1>2, <2>1 DEF RegInv, Storing
  <1>10. BeforeInv' /\ ResultInv'
    BY <1>1, <1>2, <1>4 DEF RInv, BeforeInv, ResultInv, Sending, Storing
  <1> QED BY <1>5, <1>6, <1>7, <1>8, <1>9, <1>10 DEF RInv

\* What one address byte changes, by its position at.
LEMMA SendByteCapture ==
  ASSUME TypeOK, NEW b \in Nat, SendByte(b), drv.cmd = chip.cmd,
         NEW at \in Nat, at = IF drv.phase = "addr" THEN drv.addrPos ELSE 0,
         at = chip.cycle
  PROVE  /\ cells' = cells /\ loop' = loop /\ chip'.reg = chip.reg
         /\ drv'.areaBase = drv.areaBase /\ drv'.skip = drv.skip
         /\ drv'.skipDone = drv.skipDone
         /\ drv.cmd = "SEQIN" /\ at = 0 /\ b = 0 => drv'.column = drv.column
         /\ drv.cmd = "SEQIN" /\ at > 0 => drv'.column = drv.column
         /\ drv.cmd \in AreaCmds /\ at = 1 => drv'.readPage = b
         /\ drv.cmd \in AreaCmds /\ at = 2 => drv'.readPage = drv.readPage + PageByte(b, 1)
         /\ drv.cmd # "ERASE1" /\ at = 0 => chip'.row = chip.row
         /\ drv.cmd # "ERASE1" /\ at > 0 => chip'.row = chip.row + PageByte(b, at - 1)
         /\ drv.cmd = "ERASE1" => chip'.row = chip.row + PageByte(b, at)
  <1>1. drv \in DrvType /\ chip \in ChipType /\ drv.column \in Nat
    BY Sizes DEF TypeOK, DrvType
  <1>2. /\ drv' = SendAddr(drv, b) /\ chip' = LatchByte(chip, b)
        /\ cells' = cells /\ loop' = loop
    BY DEF SendByte
  <1>3. /\ drv'.areaBase = drv.areaBase /\ drv'.skip = drv.skip /\ drv'.skipDone = drv.skipDone
        /\ drv'.column = IF drv.cmd = "SEQIN" /\ at = 0 THEN drv.column + b ELSE drv.column
        /\ drv'.readPage = CASE drv.cmd \in AreaCmds /\ at = 1 -> b
                             [] drv.cmd \in AreaCmds /\ at = 2 -> drv.readPage + PageByte(b, 1)
                             [] OTHER -> drv.readPage
    BY <1>1, <1>2, SendAddrCapture
  <1> DEFINE i == IF chip.cmd = "ERASE1" THEN chip.cycle ELSE chip.cycle - 1
  <1>4. /\ chip'.reg = chip.reg
        /\ chip'.row = IF i >= 0 THEN chip.row + PageByte(b, i) ELSE chip.row
    BY <1>1, <1>2, LatchByteType, LatchByteReg
  <1>5. drv.column + 0 = drv.column
    BY <1>1
  <1> QED BY <1>2, <1>3, <1>4, <1>5

LEMMA SendColumnReport == ASSUME IInv, RInv, SendColumn PROVE RInv'
  <1>1. client.pc = "column" /\ SendByte(0) /\ Goto("low")
    BY DEF SendColumn, At
  <1>2. /\ drv.phase = "none" /\ chip.cycle = 0 /\ chip.cmd = drv.cmd
        /\ client.kind \in {"program", "read"}
        /\ client.kind = "program" => drv.cmd = "SEQIN"
        /\ client.kind = "read" => drv.cmd \in AreaCmds
    BY <1>1, Held DEF IInv, AddrInv, Kinds
  <1>3. client' \in ClientType /\ client'.pc = "low" /\ KeepsCall /\ client'.ok = client.ok
    BY <1>1, Held, GotoType, GotoOk DEF PCs
  <1>4. /\ cells' = cells /\ loop' = loop /\ chip'.reg = chip.reg /\ chip'.row = chip.row
        /\ drv'.skip = drv.skip /\ drv'.skipDone = drv.skipDone
        /\ client.kind = "program" => drv'.column = drv.column
    <2> DEFINE at == 0
               b == 0
    <2>1. /\ at \in Nat /\ at = IF drv.phase = "addr" THEN drv.addrPos ELSE 0
          /\ at = chip.cycle /\ b \in Nat /\ SendByte(b) /\ b = 0
          /\ drv.cmd # "ERASE1"
      BY <1>1, <1>2 DEF AreaCmds
    <2>2. at = 0
      OBVIOUS
    <2> HIDE DEF at, b
    <2> QED BY <1>2, <2>1, <2>2, Held, SendByteCapture
  <1>5. RowInv'
    BY <1>1, <1>3, <1>4 DEF RInv, RowInv, Fetching, Storing
  <1>6. ColumnInv'
    BY <1>1, <1>3, <1>4 DEF RInv, ColumnInv, Sending, Fetching, Storing, KeepsCall
  <1>7. CallInv' /\ GotInv'
    BY <1>1, <1>3, <1>4 DEF RInv, CallInv, GotInv, Sending, Fetching, KeepsCall
  <1>8. TagInv' /\ RegInv'
    BY <1>1, <1>3, <1>4 DEF RInv, TagInv, RegInv, Loaded, Sending, Fetching, Storing, KeepsCall
  <1>9. BeforeInv' /\ ResultInv'
    BY <1>1, <1>3, <1>4 DEF RInv, BeforeInv, ResultInv, Sending, Storing
  <1> QED BY <1>5, <1>6, <1>7, <1>8, <1>9 DEF RInv

LEMMA SendLowReport == ASSUME IInv, RInv, SendLow PROVE RInv'
  <1> DEFINE b == client.page % ByteBase
             at == IF client.kind = "erase" THEN 0 ELSE 1
  <1>1. client.pc = "low" /\ SendByte(b) /\ Goto("high")
    BY DEF SendLow, At
  <1>2. /\ chip.cmd = drv.cmd /\ client.kind \in Kinds
        /\ client.kind = "program" => drv.cmd = "SEQIN"
        /\ client.kind = "erase" => drv.cmd = "ERASE1"
        /\ client.kind = "read" => drv.cmd \in AreaCmds
        /\ at = IF drv.phase = "addr" THEN drv.addrPos ELSE 0
        /\ at = chip.cycle
    BY <1>1, Held DEF IInv, AddrInv
  <1>3. client' \in ClientType /\ client'.pc = "high" /\ KeepsCall /\ client'.ok = client.ok
    BY <1>1, Held, GotoType, GotoOk DEF PCs
  <1>4. b \in Nat /\ at \in Nat /\ chip.row = 0
    BY <1>1, Held, Bytes DEF RInv, RowInv
  <1>5. /\ cells' = cells /\ loop' = loop /\ chip'.reg = chip.reg
        /\ drv'.skip = drv.skip /\ drv'.skipDone = drv.skipDone
        /\ client.kind = "program" => drv'.column = drv.column
        /\ client.kind = "read" => drv'.readPage = b
        /\ chip'.row = b
    <2>1. PageByte(b, 0) = b /\ 0 + b = b
      BY <1>4 DEF PageByte
    <2>2. client.kind # "erase" => at = 1 /\ at > 0 /\ at - 1 = 0 /\ drv.cmd # "ERASE1"
      BY <1>2 DEF AreaCmds, Kinds
    <2>3. client.kind = "erase" => at = 0
      OBVIOUS
    <2> HIDE DEF b, at
    <2>4. /\ cells' = cells /\ loop' = loop /\ chip'.reg = chip.reg
          /\ drv'.skip = drv.skip /\ drv'.skipDone = drv.skipDone
          /\ drv.cmd = "SEQIN" /\ at > 0 => drv'.column = drv.column
          /\ drv.cmd \in AreaCmds /\ at = 1 => drv'.readPage = b
          /\ drv.cmd # "ERASE1" /\ at > 0 => chip'.row = chip.row + PageByte(b, at - 1)
          /\ drv.cmd = "ERASE1" => chip'.row = chip.row + PageByte(b, at)
      BY <1>1, <1>2, <1>4, Held, SendByteCapture
    <2> QED BY <1>2, <1>4, <2>1, <2>2, <2>3, <2>4
  <1>6. RowInv'
    BY <1>3, <1>5 DEF RowInv, Fetching, Storing, KeepsCall
  <1>7. ColumnInv'
    BY <1>1, <1>3, <1>5 DEF RInv, ColumnInv, Sending, Fetching, Storing, KeepsCall
  <1>8. CallInv' /\ GotInv'
    BY <1>1, <1>3, <1>5 DEF RInv, CallInv, GotInv, Sending, Fetching, KeepsCall
  <1>9. TagInv' /\ RegInv'
    BY <1>1, <1>3, <1>5 DEF RInv, TagInv, RegInv, Loaded, Sending, Fetching, Storing, KeepsCall
  <1>10. BeforeInv' /\ ResultInv'
    BY <1>1, <1>3, <1>5 DEF RInv, BeforeInv, ResultInv, Sending, Storing
  <1> QED BY <1>6, <1>7, <1>8, <1>9, <1>10 DEF RInv

\* The two address bytes add up to the page.
LEMMA TwoBytes ==
  ASSUME NEW p \in PageNo
  PROVE  (p % ByteBase) + PageByte(p \div ByteBase, 1) = p
  <1>1. p \in Nat /\ ByteBase \in Nat \ {0}
    BY GeometryAssumption DEF PageNo
  <1> DEFINE q == p \div ByteBase
             r == p % ByteBase
  <1>2. q \in Nat /\ r \in Nat /\ p = q * ByteBase + r
    BY <1>1
  <1> HIDE DEF q, r
  <1>3. q * ByteBase \in Nat
    BY <1>1, <1>2
  <1>4. r + PageByte(q, 1) = p
    BY <1>1, <1>2, <1>3 DEF PageByte
  <1> QED BY <1>4 DEF q, r

LEMMA SendHighReport == ASSUME IInv, RInv, SendHigh PROVE RInv'
  <1> DEFINE b == client.page \div ByteBase
             at == chip.cycle
  <1>1. client.pc = "high" /\ SendByte(b) /\ Goto("close")
    BY DEF SendHigh, At
  <1>2. /\ chip.cmd = drv.cmd /\ client.kind \in Kinds
        /\ client.kind = "program" => drv.cmd = "SEQIN"
        /\ client.kind = "erase" => drv.cmd = "ERASE1"
        /\ client.kind = "read" => drv.cmd \in AreaCmds
        /\ at = IF drv.phase = "addr" THEN drv.addrPos ELSE 0
        /\ at = IF client.kind = "erase" THEN 1 ELSE 2
    BY <1>1, Held DEF IInv, AddrInv
  <1>3. client' \in ClientType /\ client'.pc = "close" /\ KeepsCall /\ client'.ok = client.ok
    BY <1>1, Held, GotoType, GotoOk DEF PCs
  <1>4. /\ b \in Nat /\ at \in Nat /\ chip.row = client.page % ByteBase
        /\ client.kind = "read" => drv.readPage = client.page % ByteBase
    BY <1>1, Held, Bytes DEF RInv, RowInv, ChipType
  <1>5. /\ cells' = cells /\ loop' = loop /\ chip'.reg = chip.reg
        /\ drv'.skip = drv.skip /\ drv'.skipDone = drv.skipDone
        /\ client.kind = "program" => drv'.column = drv.column
        /\ client.kind = "read" => drv'.readPage = client.page
        /\ chip'.row = client.page
    <2>1. (client.page % ByteBase) + PageByte(b, 1) = client.page
      BY Held, TwoBytes
    <2>2. client.kind # "erase" => at = 2 /\ at > 0 /\ at - 1 = 1 /\ drv.cmd # "ERASE1"
      BY <1>2 DEF AreaCmds, Kinds
    <2>3. client.kind = "erase" => at = 1
      BY <1>2
    <2>a. at = chip.cycle
      OBVIOUS
    <2> HIDE DEF b, at
    <2>4. /\ cells' = cells /\ loop' = loop /\ chip'.reg = chip.reg
          /\ drv'.skip = drv.skip /\ drv'.skipDone = drv.skipDone
          /\ drv.cmd = "SEQIN" /\ at > 0 => drv'.column = drv.column
          /\ drv.cmd \in AreaCmds /\ at = 2 => drv'.readPage = drv.readPage + PageByte(b, 1)
          /\ drv.cmd # "ERASE1" /\ at > 0 => chip'.row = chip.row + PageByte(b, at - 1)
          /\ drv.cmd = "ERASE1" => chip'.row = chip.row + PageByte(b, at)
      BY <1>1, <1>2, <1>4, <2>a, Held, SendByteCapture
    <2> QED BY <1>2, <1>4, <2>1, <2>2, <2>3, <2>4
  <1>6. RowInv'
    BY <1>3, <1>5 DEF RowInv, Fetching, Storing, KeepsCall
  <1>7. ColumnInv'
    BY <1>1, <1>3, <1>5 DEF RInv, ColumnInv, Sending, Fetching, Storing, KeepsCall
  <1>8. CallInv' /\ GotInv'
    BY <1>1, <1>3, <1>5 DEF RInv, CallInv, GotInv, Sending, Fetching, KeepsCall
  <1>9. TagInv' /\ RegInv'
    BY <1>1, <1>3, <1>5 DEF RInv, TagInv, RegInv, Loaded, Sending, Fetching, Storing, KeepsCall
  <1>10. BeforeInv' /\ ResultInv'
    BY <1>1, <1>3, <1>5 DEF RInv, BeforeInv, ResultInv, Sending, Storing
  <1> QED BY <1>6, <1>7, <1>8, <1>9, <1>10 DEF RInv

LEMMA CloseAddrReport == ASSUME IInv, RInv, CloseAddr PROVE RInv'
  <1> DEFINE q == CASE client.kind = "read" -> "read"
                    [] client.kind = "program" -> "write"
                    [] client.kind = "erase" -> "execute"
  <1>1. /\ client.pc = "close" /\ Goto(q)
        /\ chip' = chip /\ cells' = cells /\ loop' = loop
    BY DEF CloseAddr, At
  <1>2. PICK late \in BOOLEAN : drv' = FinishAddr(drv, late)
    BY DEF CloseAddr
  <1>3. SameCommand(drv, drv') /\ SameCapture(drv, drv')
    BY <1>2, Held, FinishAddrType, FinishAddrCapture
  <1>4. q \in PCs /\ client.kind \in Kinds
        /\ q = IF client.kind = "read" THEN "read"
               ELSE IF client.kind = "program" THEN "write" ELSE "execute"
    BY Held DEF PCs, Kinds
  <1> HIDE DEF q
  <1>5. client' \in ClientType /\ client'.pc = q /\ KeepsCall /\ client'.ok = client.ok
    BY <1>1, <1>4, Held, GotoType, GotoOk
  <1>6. /\ client.kind = "read" => ~drv.streamOn
        /\ client.kind = "program" => ~drv.progOn
        /\ loop.skip = 0 /\ loop.want = 0
    BY <1>1 DEF IInv, ReadInv, WriteInv, SizeInv
  <1>7. RowInv'
    BY <1>1, <1>3, <1>4, <1>5 DEF RInv, RowInv, Fetching, Storing, KeepsCall, SameCapture, Kinds
  <1>8. ColumnInv'
    BY <1>1, <1>3, <1>4, <1>5, <1>6
    DEF RInv, ColumnInv, Sending, Fetching, Storing, KeepsCall, SameCapture, SameCommand
  <1>9. CallInv'
    BY <1>1, <1>3, <1>4, <1>5
    DEF RInv, CallInv, Sending, Fetching, KeepsCall, SameCommand
  <1>10. GotInv'
    <2>1. CASE client.kind = "read"
      <3>1. /\ loop'.got = <<>> /\ Len(loop'.got) = 0 /\ client'.column \in Nat
            /\ client'.now \in Nat /\ client'.later \in Nat
            /\ client'.column + client'.now + client'.later = RawBytes
        BY <1>1, <1>5, <2>1, Held, Sizes
        DEF RInv, CallInv, GotInv, Sending, KeepsCall, Columns
      <3>2. Taken' /\ client'.column + Len(loop'.got) + loop'.want + client'.now
                        + client'.later = RawBytes
        BY <1>1, <1>6, <3>1, Sizes DEF Taken
      <3> QED
        BY <1>1, <1>3, <1>4, <1>5, <1>6, <2>1, <3>1, <3>2
        DEF GotInv, Sending, Fetching, SameCommand
    <2>2. CASE client.kind # "read"
      BY <1>4, <1>5, <2>2 DEF GotInv, Sending, Fetching, KeepsCall
    <2> QED BY <2>1, <2>2
  <1>11. TagInv'
    BY <1>3, <1>4, <1>5, <1>6 DEF TagInv, Fetching, SameCommand
  <1>12. RegInv'
    BY <1>1, <1>3, <1>4, <1>5, <1>6
    DEF RInv, RegInv, Loaded, Sending, Storing, KeepsCall, SameCommand
  <1>13. BeforeInv' /\ ResultInv'
    BY <1>1, <1>4, <1>5 DEF RInv, BeforeInv, ResultInv, Sending, Storing
  <1> QED BY <1>7, <1>8, <1>9, <1>10, <1>11, <1>12, <1>13 DEF RInv

LEMMA StartReadCapture ==
  ASSUME TypeOK, NEW late \in BOOLEAN
  PROVE  LET d == [StartReadStream(drv, late) EXCEPT !.skipDone = TRUE] IN
         /\ d.skipDone /\ d.readPage = drv.readPage /\ d.skip = drv.skip /\ d.tag = drv.tag
         /\ drv.failed => d.failed
  <1> DEFINE f == FinishAddr(drv, late)
             w == Waited(f, late)
             g == [w EXCEPT !.streamOn = TRUE, !.readPos = 0]
  <1>1. f \in DrvType /\ SameCommand(drv, f) /\ SameCapture(drv, f)
    BY FinishAddrType, FinishAddrCapture DEF TypeOK
  <1> HIDE DEF f
  <1>2. w \in DrvType /\ SameCommand(f, w) /\ SameCapture(f, w)
    BY <1>1, WaitedType, WaitedCapture
  <1> HIDE DEF w
  <1>3. /\ g.readPage = w.readPage /\ g.skip = w.skip /\ g.tag = w.tag
        /\ g.failed = w.failed /\ DOMAIN g = DOMAIN w
    BY <1>2 DEF DrvType
  <1> HIDE DEF g
  <1>4. StartReadStream(drv, late) = IF drv.streamOn THEN f ELSE g
    BY DEF StartReadStream, f, w, g
  <1>5. "skipDone" \in DOMAIN f /\ "skipDone" \in DOMAIN g
    BY <1>1, <1>2, <1>3 DEF DrvType
  <1> QED BY <1>1, <1>2, <1>3, <1>4, <1>5 DEF SameCommand, SameCapture

LEMMA ReadBufReport == ASSUME IInv, RInv, ReadBuf PROVE RInv'
  <1>1. /\ client.pc = "read" /\ client.now > 0 /\ cells' = cells
        /\ chip' = IF drv.streamOn THEN chip ELSE SetMode(chip, Burst, 0)
        /\ loop' = [loop EXCEPT !.skip = IF drv.skipDone THEN 0 ELSE drv.skip,
                                !.want = client.now]
        /\ client' = [client EXCEPT !.pc = "reading", !.now = client.later, !.later = 0]
    BY DEF ReadBuf, At
  <1>2. PICK late \in BOOLEAN :
          drv' = [StartReadStream(drv, late) EXCEPT !.skipDone = TRUE]
    BY DEF ReadBuf
  <1>3. /\ drv'.streamOn /\ drv'.skipDone /\ drv'.readPage = drv.readPage
        /\ drv'.skip = drv.skip /\ drv'.tag = drv.tag
        /\ drv'.readPos = IF drv.streamOn THEN drv.readPos ELSE 0
    BY <1>2, Held, StartReadType, StartReadCapture
  <1>4. chip'.row = chip.row
    BY <1>1, Held, ModeType
  <1>5. /\ client'.pc = "reading" /\ client'.kind = client.kind /\ client'.page = client.page
        /\ client'.column = client.column /\ client'.now = client.later /\ client'.later = 0
        /\ client'.ok = client.ok
    BY <1>1, Held DEF ClientType
  <1>6. /\ loop'.got = loop.got /\ loop'.want = client.now
        /\ loop'.skip = IF drv.skipDone THEN 0 ELSE drv.skip
    BY <1>1, Held DEF LoopType
  <1>7. /\ client.kind = "read" /\ (drv.skipDone <=> drv.streamOn) /\ drv.skip = client.column
        /\ loop.skip = 0 /\ loop.want = 0 /\ Taken
        /\ client.column + Len(loop.got) + loop.want + client.now + client.later = RawBytes
        /\ ~drv.streamOn => loop.got = <<>>
        /\ drv.streamOn => drv.readPos + loop.skip = client.column + Len(loop.got)
    BY <1>1 DEF IInv, ReadInv, RInv, ColumnInv, GotInv, Fetching
  <1>8. RowInv'
    BY <1>1, <1>3, <1>4, <1>5 DEF RInv, RowInv, Fetching, Storing
  <1>9. ColumnInv'
    BY <1>3, <1>5, <1>7 DEF ColumnInv, Sending, Fetching, Storing
  <1>10. CallInv'
    BY <1>5 DEF CallInv, Sending
  <1>11. GotInv'
    <2>1. /\ client.column \in Nat /\ client.now \in Nat /\ client.later \in Nat
          /\ Len(loop.got) \in Nat /\ (loop.got = <<>> => Len(loop.got) = 0)
          /\ drv.readPos \in Nat
      BY Held, Sizes DEF Columns, LoopType, DrvType
    <2>2. Taken'
      BY <1>1, <1>5, <1>6, <1>7 DEF Taken
    <2>3. client'.column + Len(loop'.got) + loop'.want + client'.now + client'.later = RawBytes
      BY <1>5, <1>6, <1>7, <2>1
    <2>4. drv'.readPos + loop'.skip = client'.column + Len(loop'.got)
      BY <1>3, <1>5, <1>6, <1>7, <2>1
    <2>5. loop'.skip > 0 => loop'.got = <<>>
      BY <1>6, <1>7
    <2> QED BY <1>3, <1>5, <2>2, <2>3, <2>4, <2>5 DEF GotInv, Sending, Fetching
  <1>12. TagInv'
    <2>1. drv'.readPos = 0 => Captured(drv.readPos)'
      BY Sizes DEF Captured
    <2>2. drv.streamOn => Captured(drv.readPos)'
      BY <1>1, <1>3, <1>5 DEF RInv, TagInv, Fetching, Captured
    <2> QED BY <1>3, <1>5, <2>1, <2>2 DEF TagInv, Fetching
  <1>13. RegInv' /\ BeforeInv' /\ ResultInv'
    BY <1>1, <1>5 DEF RInv, RegInv, BeforeInv, ResultInv, Sending, Storing
  <1> QED BY <1>8, <1>9, <1>10, <1>11, <1>12, <1>13 DEF RInv

\* What an action that stays in read_buf must show.
LEMMA ReadingReport ==
  ASSUME IInv, RInv, client.pc = "reading", client' = client, cells' = cells,
         drv'.readPage = drv.readPage, drv'.skip = drv.skip, drv'.skipDone = drv.skipDone,
         drv'.streamOn = drv.streamOn, chip'.row = chip.row,
         Taken', Captured(drv.readPos)',
         client.column + Len(loop'.got) + loop'.want + client.now + client.later = RawBytes,
         drv'.readPos + loop'.skip = client.column + Len(loop'.got),
         loop'.skip > 0 => loop'.got = <<>>
  PROVE  RInv'
  <1>1. client.kind = "read" /\ drv.streamOn
    BY DEF IInv, ReadInv
  <1>2. RowInv' /\ ColumnInv' /\ CallInv'
    BY DEF RInv, RowInv, ColumnInv, CallInv, Sending, Fetching, Storing
  <1>3. GotInv' /\ TagInv'
    BY <1>1 DEF GotInv, TagInv, Sending, Fetching
  <1>4. RegInv' /\ BeforeInv' /\ ResultInv'
    BY DEF RInv, RegInv, BeforeInv, ResultInv, Sending, Storing
  <1> QED BY <1>2, <1>3, <1>4 DEF RInv

\* What a read has moved so far is a number of bytes.
LEMMA Counts ==
  ASSUME IInv
  PROVE  /\ client.column \in 0 .. DataBytes /\ client.now \in Nat /\ client.later \in Nat
         /\ loop.skip \in Nat /\ loop.want \in Nat /\ drv.readPos \in 0 .. RawBytes
         /\ loop.got \in Seq({0, 1}) /\ Len(loop.got) \in Nat
         /\ loop.got = <<>> => Len(loop.got) = 0
  <1>1. client.column \in 0 .. DataBytes
    BY Held, Sizes DEF Columns
  <1>2. client.now \in Nat /\ client.later \in Nat /\ loop.skip \in Nat /\ loop.want \in Nat
    BY Held, Sizes
  <1>3. drv.readPos \in 0 .. RawBytes
    BY Held DEF DrvType
  <1>4. loop.got \in Seq({0, 1})
    BY Held DEF LoopType
  <1>5. Len(loop.got) \in Nat /\ (loop.got = <<>> => Len(loop.got) = 0)
    BY <1>4
  <1> QED BY <1>1, <1>2, <1>3, <1>4, <1>5

\* Where the byte actions of read_buf stand.
LEMMA ReadingSums ==
  ASSUME IInv, RInv, client.pc = "reading"
  PROVE  /\ client.column + Len(loop.got) + loop.want + client.now + client.later = RawBytes
         /\ drv.readPos + loop.skip = client.column + Len(loop.got)
         /\ loop.skip > 0 => /\ loop.got = <<>> /\ Len(loop.got) = 0
                             /\ drv.readPos + loop.skip = client.column
                             /\ drv.readPos < RawBytes
         /\ loop.skip = 0 => drv.readPos = client.column + Len(loop.got)
         /\ loop.skip = 0 /\ loop.want > 0 => drv.readPos < RawBytes
  <1>1. drv.streamOn
    BY DEF IInv, ReadInv
  <1>2. /\ client.column + Len(loop.got) + loop.want + client.now + client.later = RawBytes
        /\ drv.readPos + loop.skip = client.column + Len(loop.got)
        /\ loop.skip > 0 => loop.got = <<>>
    BY <1>1 DEF RInv, GotInv, Fetching
  <1> DEFINE n == Len(loop.got)
  <1>3. n \in Nat /\ (loop.got = <<>> => n = 0)
    BY Counts
  <1> HIDE DEF n
  <1>4. /\ client.column + n + loop.want + client.now + client.later = RawBytes
        /\ drv.readPos + loop.skip = client.column + n
    BY <1>2 DEF n
  <1>5. /\ client.column \in 0 .. DataBytes /\ client.now \in Nat /\ client.later \in Nat
        /\ loop.skip \in Nat /\ loop.want \in Nat /\ drv.readPos \in 0 .. RawBytes
    BY Counts
  <1>6. n = 0 /\ loop.skip > 0 => drv.readPos + loop.skip = client.column
                                  /\ drv.readPos < RawBytes
    BY <1>4, <1>5, Sizes
  <1>7. /\ loop.skip = 0 => drv.readPos = client.column + n
        /\ loop.skip = 0 /\ loop.want > 0 => drv.readPos < RawBytes
    <2>1. drv.readPos \in Int /\ loop.skip \in Int /\ client.column \in Int /\ n \in Int
      BY <1>3, <1>5
    <2>2. loop.want \in Int /\ client.now >= 0 /\ client.later >= 0
          /\ client.now \in Int /\ client.later \in Int
      BY <1>5
    <2>3. loop.skip = 0 => drv.readPos = client.column + n
      BY <1>4, <2>1
    <2>4. loop.want > 0 => client.column + n < RawBytes
      BY <1>4, <2>1, <2>2
    <2> QED BY <2>3, <2>4
  <1> QED BY <1>2, <1>3, <1>6, <1>7 DEF n

LEMMA Reading ==
  ASSUME IInv, RInv, client.pc = "reading"
  PROVE  /\ client.kind = "read" /\ chip.row = client.page /\ BurstAt(drv.readPos)
         /\ Taken /\ Captured(drv.readPos)
  <1>1. client.kind = "read" /\ drv.streamOn /\ BurstAt(drv.readPos)
    BY DEF IInv, ReadInv
  <1> QED BY <1>1 DEF RInv, RowInv, GotInv, TagInv, Fetching

\* While the area is skipped the stream is still in the data bytes.
LEMMA NothingCaptured ==
  ASSUME client.column \in 0 .. DataBytes, drv'.readPos \in Nat, drv'.readPos <= client.column,
         client' = client
  PROVE  Captured(drv.readPos)'
  BY Sizes DEF Captured

LEMMA DiscardWordReport == ASSUME IInv, RInv, DiscardWord PROVE RInv'
  <1>1. /\ client.pc = "reading" /\ client' = client /\ cells' = cells
        /\ loop.skip >= Word /\ drv.readPos + Word <= Burst
        /\ chip' = Stream(chip, Word)
        /\ drv' = [drv EXCEPT !.readPos = drv.readPos + Word]
        /\ loop' = [loop EXCEPT !.skip = loop.skip - Word]
    BY DEF DiscardWord, DiscardsWord, At
  <1>2. /\ drv'.readPage = drv.readPage /\ drv'.skip = drv.skip
        /\ drv'.skipDone = drv.skipDone /\ drv'.streamOn = drv.streamOn
        /\ drv'.readPos = drv.readPos + Word
    BY <1>1, Held DEF DrvType
  <1>3. chip'.row = chip.row
    BY <1>1, Held DEF Stream, ChipType
  <1>4. loop'.got = loop.got /\ loop'.want = loop.want /\ loop'.skip = loop.skip - Word
    BY <1>1, Held DEF LoopType
  <1>5. loop.got = <<>> /\ Len(loop.got) = 0 /\ drv'.readPos <= client.column
        /\ drv'.readPos \in Nat
    <2>1. /\ loop.got = <<>> /\ Len(loop.got) = 0
          /\ drv.readPos + loop.skip = client.column
      <3>1. loop.skip > 0
        BY <1>1, Counts, Sizes
      <3> QED BY <1>1, <3>1, ReadingSums
    <2>2. drv.readPos \in Nat /\ loop.skip \in Nat /\ client.column \in Nat
      BY Counts, Sizes
    <2> QED BY <1>1, <1>2, <2>1, <2>2, Sizes
  <1>6. Taken'
    BY <1>1, <1>4, Reading DEF Taken
  <1>7. Captured(drv.readPos)'
    BY <1>1, <1>5, Counts, NothingCaptured
  <1>8. /\ client.column + Len(loop'.got) + loop'.want + client.now + client.later = RawBytes
        /\ drv'.readPos + loop'.skip = client.column + Len(loop'.got)
    BY <1>1, <1>2, <1>4, ReadingSums, Counts, Sizes
  <1> QED BY <1>1, <1>2, <1>3, <1>4, <1>5, <1>6, <1>7, <1>8, ReadingReport

\* What a byte of the stream changes, wherever it goes.
LEMMA StreamByte ==
  ASSUME IInv, RInv, client.pc = "reading", NEW late \in BOOLEAN, client' = client,
         drv' = StreamReadByte(drv, late), chip' = ReadStreamed, cells' = cells,
         drv.readPos < RawBytes
  PROVE  /\ drv'.readPage = drv.readPage /\ drv'.skip = drv.skip
         /\ drv'.skipDone = drv.skipDone /\ drv'.streamOn = drv.streamOn
         /\ chip'.row = chip.row /\ drv'.readPos = drv.readPos + 1
         /\ Captured(drv.readPos)'
         /\ StreamedByte = cells[client.page][drv.readPos]
  <1>1. /\ drv'.readPage = drv.readPage /\ drv'.skip = drv.skip
        /\ drv'.skipDone = drv.skipDone
        /\ drv'.readPos = IF drv.readPos >= RawBytes THEN drv.readPos ELSE drv.readPos + 1
        /\ drv'.tag = IF drv.readPos \in DataBytes .. Burst - 1
                      THEN [drv.tag EXCEPT ![drv.readPos - DataBytes] = StreamedByte]
                      ELSE drv.tag
    BY Held, StreamReadByteCapture
  <1>2. drv'.streamOn = drv.streamOn /\ chip'.row = chip.row
    BY Held, Reading, ReadByteStep, ReadStreamedRow
  <1>3. drv'.readPos = drv.readPos + 1 /\ drv.readPos \in Nat
    BY <1>1, Counts, Sizes
  <1>4. StreamedByte = cells[client.page][drv.readPos]
    BY Held, Reading, StreamedIsCell
  <1>5. drv.tag \in [0 .. TagBytes - 1 -> {0, 1}] /\ Captured(drv.readPos)
    BY Held, Reading DEF DrvType
  <1>6. Captured(drv.readPos)'
    <2> SUFFICES ASSUME NEW i \in 0 .. TagBytes - 1, DataBytes + i < drv.readPos + 1
                 PROVE  drv'.tag[i] = cells[client.page][DataBytes + i]
      BY <1>3 DEF Captured
    <2>1. CASE DataBytes + i = drv.readPos
      <3>1. drv.readPos \in DataBytes .. Burst - 1 /\ drv.readPos - DataBytes = i
        BY <2>1, Sizes
      <3> QED BY <1>1, <1>4, <1>5, <2>1, <3>1
    <2>2. CASE DataBytes + i < drv.readPos
      <3>1. drv.tag[i] = cells[client.page][DataBytes + i]
        BY <1>5, <2>2 DEF Captured
      <3>2. drv.readPos - DataBytes # i
        BY <1>3, <2>2, Sizes
      <3> QED BY <1>1, <1>5, <3>1, <3>2
    <2> QED BY <1>3, <2>1, <2>2, Sizes
  <1> QED BY <1>1, <1>2, <1>3, <1>4, <1>6

LEMMA DiscardByteReport == ASSUME IInv, RInv, DiscardByte PROVE RInv'
  <1>1. /\ client.pc = "reading" /\ client' = client /\ cells' = cells
        /\ loop.skip > 0 /\ chip' = ReadStreamed
        /\ loop' = [loop EXCEPT !.skip = loop.skip - 1]
    BY DEF DiscardByte, At
  <1>2. PICK late \in BOOLEAN : drv' = StreamReadByte(drv, late)
    BY DEF DiscardByte
  <1>3. loop'.got = loop.got /\ loop'.want = loop.want /\ loop'.skip = loop.skip - 1
    BY <1>1, Held DEF LoopType
  <1>4. drv.readPos < RawBytes /\ loop.got = <<>> /\ Len(loop.got) = 0
    BY <1>1, ReadingSums
  <1>5. /\ drv'.readPage = drv.readPage /\ drv'.skip = drv.skip
        /\ drv'.skipDone = drv.skipDone /\ drv'.streamOn = drv.streamOn
        /\ chip'.row = chip.row /\ drv'.readPos = drv.readPos + 1
        /\ Captured(drv.readPos)'
    BY <1>1, <1>2, <1>4, StreamByte
  <1>6. Taken'
    BY <1>1, <1>3, Reading DEF Taken
  <1>7. /\ client.column + Len(loop'.got) + loop'.want + client.now + client.later = RawBytes
        /\ drv'.readPos + loop'.skip = client.column + Len(loop'.got)
    <2>1. /\ client.column + Len(loop.got) + loop.want + client.now + client.later = RawBytes
          /\ drv.readPos + loop.skip = client.column + Len(loop.got)
      BY <1>1, ReadingSums
    <2>2. drv.readPos \in Nat /\ loop.skip \in Nat
      BY Counts
    <2>3. (drv.readPos + 1) + (loop.skip - 1) = drv.readPos + loop.skip
      BY <2>2
    <2> QED BY <1>3, <1>5, <2>1, <2>3
  <1> QED BY <1>1, <1>3, <1>4, <1>5, <1>6, <1>7, ReadingReport

LEMMA ReadByteReport == ASSUME IInv, RInv, ReadByte PROVE RInv'
  <1> DEFINE v == cells[client.page][drv.readPos]
  <1>1. /\ client.pc = "reading" /\ client' = client /\ cells' = cells
        /\ loop.skip = 0 /\ loop.want > 0 /\ chip' = ReadStreamed
        /\ loop' = [loop EXCEPT !.want = loop.want - 1,
                                !.got = Append(loop.got, IF drv.readPos >= RawBytes THEN 1
                                                         ELSE StreamedByte)]
    BY DEF ReadByte, At
  <1>2. PICK late \in BOOLEAN : drv' = StreamReadByte(drv, late)
    BY DEF ReadByte
  <1>3. drv.readPos < RawBytes /\ drv.readPos = client.column + Len(loop.got)
    BY <1>1, ReadingSums
  <1>4. /\ drv'.readPage = drv.readPage /\ drv'.skip = drv.skip
        /\ drv'.skipDone = drv.skipDone /\ drv'.streamOn = drv.streamOn
        /\ chip'.row = chip.row /\ drv'.readPos = drv.readPos + 1
        /\ Captured(drv.readPos)' /\ StreamedByte = v
    BY <1>1, <1>2, <1>3, StreamByte
  <1>5. /\ loop'.want = loop.want - 1 /\ loop'.skip = 0
        /\ loop'.got = Append(loop.got, v)
    <2>1. ~(drv.readPos >= RawBytes)
      BY <1>3, Counts, Sizes
    <2> HIDE DEF v
    <2> QED BY <1>1, <1>4, <2>1, Held DEF LoopType
  <1>6. v \in {0, 1}
    <2>1. drv.readPos \in Offset
      BY <1>3, Counts, Sizes DEF Offset
    <2> QED BY <2>1, Held
  <1>7. /\ Len(loop'.got) = Len(loop.got) + 1
        /\ \A i \in 1 .. Len(loop.got) : loop'.got[i] = loop.got[i]
        /\ loop'.got[Len(loop.got) + 1] = v
    <2> HIDE DEF v
    <2> QED BY <1>5, <1>6, Counts
  <1>8. Taken'
    <2>1. \A i \in 1 .. Len(loop.got) :
            loop.got[i] = cells[client.page][client.column + i - 1]
      BY <1>1, Reading DEF Taken
    <2>2. client.column + (Len(loop.got) + 1) - 1 = drv.readPos
      BY <1>3, Counts
    <2>3. \A i \in 1 .. Len(loop.got) + 1 :
            loop'.got[i] = cells[client.page][client.column + i - 1]
      <3> HIDE DEF v
      <3> SUFFICES ASSUME NEW i \in 1 .. Len(loop.got) + 1
                   PROVE  loop'.got[i] = cells[client.page][client.column + i - 1]
        OBVIOUS
      <3>1. CASE i = Len(loop.got) + 1
        BY <1>7, <2>2, <3>1 DEF v
      <3>2. CASE i # Len(loop.got) + 1
        <4>1. i \in 1 .. Len(loop.got)
          BY <3>2, Counts
        <4> QED BY <1>7, <2>1, <4>1
      <3> QED BY <3>1, <3>2
    <2>4. Len(loop.got) + 1 <= RawBytes - client.column
      BY <1>3, Counts, Sizes
    <2> QED BY <1>1, <1>7, <2>3, <2>4 DEF Taken
  <1>9. /\ client.column + Len(loop'.got) + loop'.want + client.now + client.later = RawBytes
        /\ drv'.readPos + loop'.skip = client.column + Len(loop'.got)
    <2> HIDE DEF v
    <2> DEFINE n == Len(loop.got)
    <2>1. client.column + n + loop.want + client.now + client.later = RawBytes
      BY <1>1, ReadingSums
    <2>2. /\ n \in Nat /\ client.column \in Nat /\ loop.want \in Nat
          /\ client.now \in Nat /\ client.later \in Nat
      BY Counts
    <2>3. drv.readPos = client.column + n /\ Len(loop'.got) = n + 1
      BY <1>3, <1>7
    <2> HIDE DEF n
    <2>4. /\ client.column + (n + 1) + (loop.want - 1) + client.now + client.later = RawBytes
          /\ drv.readPos + 1 + 0 = client.column + (n + 1)
      <3>1. client.column + (n + 1) + (loop.want - 1) = client.column + n + loop.want
        BY <2>2
      <3>2. (client.column + n) + 1 + 0 = client.column + (n + 1)
        BY <2>2
      <3> QED BY <2>1, <2>3, <3>1, <3>2
    <2> QED BY <1>4, <1>5, <2>3, <2>4
  <1> QED BY <1>1, <1>4, <1>5, <1>8, <1>9, ReadingReport

LEMMA ReadBufReturnsReport == ASSUME IInv, RInv, ReadBufReturns PROVE RInv'
  <1>1. /\ client.pc = "reading" /\ Goto("read") /\ drv' = drv /\ chip' = chip
        /\ cells' = cells /\ loop' = loop /\ loop.skip = 0 /\ loop.want = 0
    BY DEF ReadBufReturns, At
  <1>2. client' \in ClientType /\ client'.pc = "read" /\ KeepsCall /\ client'.ok = client.ok
    BY <1>1, Held, GotoType, GotoOk DEF PCs
  <1>3. client.kind = "read" /\ drv.streamOn
    BY <1>1 DEF IInv, ReadInv
  <1>4. RowInv' /\ ColumnInv' /\ CallInv'
    BY <1>1, <1>2, <1>3
    DEF RInv, RowInv, ColumnInv, CallInv, Sending, Fetching, Storing, KeepsCall
  <1>5. GotInv'
    BY <1>1, <1>2, <1>3 DEF RInv, GotInv, Taken, Sending, Fetching, KeepsCall
  <1>6. TagInv'
    BY <1>1, <1>2, <1>3 DEF RInv, TagInv, Captured, Fetching, KeepsCall
  <1>7. RegInv' /\ BeforeInv' /\ ResultInv'
    BY <1>1, <1>2, <1>3
    DEF RInv, RegInv, BeforeInv, ResultInv, Sending, Storing, KeepsCall
  <1> QED BY <1>4, <1>5, <1>6, <1>7 DEF RInv

\* Once nothing is left to ask for, a read has passed the whole page.
LEMMA ReadWhole ==
  ASSUME IInv, RInv, client.pc = "read", client.now = 0
  PROVE  /\ client.kind = "read" /\ client.later = 0 /\ drv.streamOn
         /\ loop.skip = 0 /\ loop.want = 0
         /\ Taken /\ client.column + Len(loop.got) = RawBytes /\ drv.readPos = RawBytes
  <1>3. client.kind = "read" /\ client.later = 0 /\ drv.streamOn /\ loop.skip = 0
        /\ loop.want = 0
    BY DEF IInv, ReadInv, RInv, CallInv, GotInv
  <1>4. /\ Taken /\ drv.readPos + loop.skip = client.column + Len(loop.got)
        /\ client.column + Len(loop.got) + loop.want + client.now + client.later = RawBytes
    BY <1>3 DEF RInv, GotInv, Fetching
  <1>5. client.column \in Nat /\ Len(loop.got) \in Nat /\ drv.readPos \in Nat
    BY Counts
  <1>6. client.column + Len(loop.got) = RawBytes /\ drv.readPos = RawBytes
    BY <1>3, <1>4, <1>5
  <1> QED BY <1>3, <1>4, <1>6

LEMMA ReadReturnsReport == ASSUME IInv, RInv, ReadReturns PROVE RInv'
  <1>1. /\ client.pc = "read" /\ client.now = 0
        /\ client' = [client EXCEPT !.pc = "done", !.ok = ~drv.failed]
        /\ drv' = drv /\ chip' = chip /\ cells' = cells /\ loop' = loop
    BY DEF ReadReturns, At
  <1>2. /\ client'.pc = "done" /\ client'.kind = client.kind /\ client'.page = client.page
        /\ client'.column = client.column /\ client'.now = client.now
        /\ client'.later = client.later /\ client'.ok = ~drv.failed
    BY <1>1, Held DEF ClientType
  <1>3. client.kind = "read" /\ client.later = 0 /\ drv.streamOn /\ loop.skip = 0
        /\ loop.want = 0
    BY <1>1, ReadWhole
  <1>4. Taken
    BY <1>1, ReadWhole
  <1>6. client.column + Len(loop.got) = RawBytes /\ drv.readPos = RawBytes
    BY <1>1, ReadWhole
  <1>7. Captured(RawBytes)
    BY <1>1, <1>3, <1>6 DEF RInv, TagInv, Fetching
  <1>8. RowInv' /\ ColumnInv' /\ CallInv'
    BY <1>1, <1>2, <1>3
    DEF RInv, RowInv, ColumnInv, CallInv, Sending, Fetching, Storing
  <1>9. GotInv'
    BY <1>1, <1>2, <1>4, <1>6 DEF GotInv, Taken, Sending, Fetching
  <1>10. TagInv'
    BY <1>1, <1>2, <1>7 DEF TagInv, Captured, Fetching
  <1>11. RegInv' /\ BeforeInv' /\ ResultInv'
    BY <1>1, <1>2, <1>3 DEF RegInv, BeforeInv, ResultInv, Asked, Sending, Storing
  <1> QED BY <1>8, <1>9, <1>10, <1>11 DEF RInv

----------------------------------------------------------------------------
\* Programming: what is in the page register.

LEMMA StartProgramCapture ==
  ASSUME TypeOK, NEW late \in BOOLEAN
  PROVE  /\ StartProgramStream(drv, late).column = drv.column
         /\ drv.failed => StartProgramStream(drv, late).failed
  <1> DEFINE f == FinishAddr(drv, late)
             w == Waited(f, late)
             g == [w EXCEPT !.progOn = TRUE, !.progPos = 0]
  <1>1. f \in DrvType /\ SameCommand(drv, f) /\ SameCapture(drv, f)
    BY FinishAddrType, FinishAddrCapture DEF TypeOK
  <1> HIDE DEF f
  <1>2. w \in DrvType /\ SameCommand(f, w) /\ SameCapture(f, w)
    BY <1>1, WaitedType, WaitedCapture
  <1> HIDE DEF w
  <1>3. g.column = w.column /\ g.failed = w.failed
    BY <1>2 DEF DrvType
  <1> HIDE DEF g
  <1>4. StartProgramStream(drv, late) = IF drv.progOn THEN drv ELSE g
    BY DEF StartProgramStream, f, w, g
  <1> QED BY <1>1, <1>2, <1>3, <1>4 DEF SameCommand, SameCapture

LEMMA WriteBufReport == ASSUME IInv, RInv, WriteBuf PROVE RInv'
  <1>1. /\ client.pc = "write" /\ client.now > 0 /\ cells' = cells
        /\ chip' = IF drv.progOn THEN chip ELSE SetMode(chip, Burst, 0)
        /\ loop' = [loop EXCEPT !.want = client.now]
        /\ client' = [client EXCEPT !.pc = "writing", !.now = client.later, !.later = 0]
    BY DEF WriteBuf, At
  <1>2. PICK late \in BOOLEAN : drv' = StartProgramStream(drv, late)
    BY DEF WriteBuf
  <1>3. /\ drv'.progOn /\ drv'.column = drv.column
        /\ drv'.progPos = IF drv.progOn THEN drv.progPos ELSE 0
    BY <1>2, Held, StartProgramType, StartProgramCapture
  <1>4. chip'.row = chip.row /\ chip'.reg = chip.reg
    BY <1>1, Held DEF SetMode, ChipType
  <1>5. /\ client'.pc = "writing" /\ client'.kind = client.kind /\ client'.page = client.page
        /\ client'.column = client.column /\ client'.image = client.image
        /\ client'.now = client.later /\ client'.later = 0 /\ client'.ok = client.ok
    BY <1>1, Held DEF ClientType
  <1>6. loop'.skip = loop.skip /\ loop'.before = loop.before
    BY <1>1, Held DEF LoopType
  <1>7. client.kind = "program" /\ client.column \in Nat
    BY <1>1, Held, Sizes DEF IInv, WriteInv, Columns
  <1>8. RowInv' /\ ColumnInv'
    BY <1>1, <1>3, <1>4, <1>5, <1>7 DEF RInv, RowInv, ColumnInv, Sending, Fetching, Storing
  <1>9. CallInv' /\ GotInv' /\ TagInv'
    BY <1>5, <1>7 DEF CallInv, GotInv, TagInv, Sending, Fetching
  <1>10. RegInv'
    <2>1. /\ IF drv.progOn THEN Loaded(drv.progPos) ELSE Loaded(0)
          /\ ~drv.progOn \/ drv.progPos < client.column => loop.skip = 0
          /\ drv.progOn /\ drv.progPos >= client.column =>
               drv.progPos = client.column + loop.skip
      BY <1>1 DEF RInv, RegInv, Storing
    <2>2. Loaded(drv.progPos)'
      BY <1>3, <1>4, <1>5, <2>1 DEF Loaded
    <2>3. drv'.progPos < client.column => loop'.skip = 0
      BY <1>3, <1>6, <2>1
    <2>4. drv'.progPos >= client.column => drv'.progPos = client.column + loop'.skip
      BY <1>3, <1>6, <1>7, <2>1
    <2> QED BY <1>3, <1>5, <2>2, <2>3, <2>4 DEF RegInv, Sending, Storing
  <1>11. BeforeInv' /\ ResultInv'
    BY <1>1, <1>5, <1>6 DEF RInv, BeforeInv, ResultInv, Sending, Storing
  <1> QED BY <1>8, <1>9, <1>10, <1>11 DEF RInv

\* What an action that stays in write_buf must show.
LEMMA WritingReport ==
  ASSUME IInv, RInv, client.pc = "writing", client' = client, cells' = cells,
         drv'.column = drv.column, drv'.progOn = drv.progOn, chip'.row = chip.row,
         loop'.before = loop.before, Loaded(drv.progPos)',
         drv'.progPos < client.column => loop'.skip = 0,
         drv'.progPos >= client.column => drv'.progPos = client.column + loop'.skip
  PROVE  RInv'
  <1>1. client.kind = "program" /\ drv.progOn
    BY DEF IInv, WriteInv
  <1>2. RowInv' /\ ColumnInv' /\ CallInv'
    BY <1>1 DEF RInv, RowInv, ColumnInv, CallInv, Sending, Fetching, Storing
  <1>3. GotInv' /\ TagInv'
    BY DEF GotInv, TagInv, Sending, Fetching
  <1>4. RegInv'
    BY <1>1 DEF RegInv, Sending, Storing
  <1>5. BeforeInv' /\ ResultInv'
    BY DEF RInv, BeforeInv, ResultInv, Sending, Storing
  <1> QED BY <1>2, <1>3, <1>4, <1>5 DEF RInv

\* Where the byte actions of write_buf stand.
LEMMA WritingSums ==
  ASSUME IInv, RInv, client.pc = "writing"
  PROVE  /\ Loaded(drv.progPos) /\ drv.column = client.column
         /\ client.column \in 0 .. DataBytes /\ drv.progPos \in Nat /\ drv.progOn
         /\ loop.skip \in Nat /\ loop.want \in Nat
         /\ drv.progPos < client.column => loop.skip = 0
         /\ drv.progPos >= client.column => drv.progPos = client.column + loop.skip
         /\ client.column + loop.skip + loop.want <= RawBytes
  <1>1. client.kind = "program" /\ drv.progOn
    BY DEF IInv, WriteInv
  <1>2. client.column \in 0 .. DataBytes /\ drv.progPos \in Nat
    BY Held, Sizes DEF Columns, DrvType
  <1>3. client.column + loop.skip + loop.want <= RawBytes
    BY Writing, Sizes
  <1> QED BY <1>1, <1>2, <1>3, Writing DEF RInv, ColumnInv, RegInv, Storing

LEMMA PadByteReport == ASSUME IInv, RInv, PadByte PROVE RInv'
  <1>1. /\ client.pc = "writing" /\ client' = client /\ cells' = cells /\ loop' = loop
        /\ drv.progPos < drv.column /\ chip' = WriteStreamed(1)
    BY DEF PadByte, At
  <1>2. PICK late \in BOOLEAN : drv' = StreamWriteByte(drv, late)
    BY DEF PadByte
  <1>3. /\ drv.progPos < client.column /\ loop.skip = 0 /\ drv.progPos < RawBytes
        /\ Loaded(drv.progPos) /\ drv.progPos \in Nat /\ client.column \in Nat
    BY <1>1, WritingSums, Sizes
  <1>4. /\ drv'.progPos = drv.progPos + 1 /\ drv'.column = drv.column
        /\ chip'.reg = [i \in Offset |-> IF i = drv.progPos THEN 1 ELSE chip.reg[i]]
        /\ drv'.progOn = drv.progOn /\ chip'.row = chip.row
    BY <1>1, <1>2, <1>3, Held, Writing, StreamWriteByteCapture, WriteByteStep
  <1>5. Loaded(drv.progPos)'
    <2>1. chip.reg = [i \in Offset |-> 1]
      BY <1>3 DEF Loaded, Offset
    <2>2. chip'.reg = [i \in Offset |-> 1]
      BY <1>4, <2>1
    <2>3. \A i \in Offset : ~(i >= client.column /\ i < drv.progPos + 1)
      BY <1>3 DEF Offset
    <2> QED BY <1>1, <1>4, <2>2, <2>3 DEF Loaded
  <1>6. /\ drv'.progPos < client.column => loop'.skip = 0
        /\ drv'.progPos >= client.column => drv'.progPos = client.column + loop'.skip
    BY <1>1, <1>3, <1>4
  <1> QED BY <1>1, <1>4, <1>5, <1>6, WritingReport

LEMMA WriteByteReport == ASSUME IInv, RInv, WriteByte PROVE RInv'
  <1> DEFINE n == client.column + loop.skip
             b == client.image[n]
  <1>1. /\ client.pc = "writing" /\ client' = client /\ cells' = cells
        /\ drv.progPos >= drv.column /\ loop.want > 0
        /\ chip' = WriteStreamed(b)
        /\ loop' = [loop EXCEPT !.want = loop.want - 1, !.skip = loop.skip + 1]
    BY DEF WriteByte, At
  <1>2. PICK late \in BOOLEAN : drv' = StreamWriteByte(drv, late)
    BY DEF WriteByte
  <1>3. /\ drv.progPos = n /\ n \in Offset /\ n < RawBytes /\ n >= client.column
        /\ Loaded(drv.progPos) /\ n \in Nat /\ client.column \in Nat
    BY <1>1, WritingSums, Sizes DEF Offset
  <1>a. b \in {0, 1}
    <2> HIDE DEF n
    <2> QED BY <1>3, Held
  <1>b. loop'.skip = loop.skip + 1 /\ loop'.before = loop.before
    <2> HIDE DEF n, b
    <2> QED BY <1>1, Held DEF LoopType
  <1>c. client.column + (loop.skip + 1) = n + 1
    <2>1. loop.skip \in Nat /\ client.column \in Nat
      BY <1>1, WritingSums
    <2> QED BY <2>1
  <1> HIDE DEF n, b
  <1>4. /\ drv'.progPos = drv.progPos + 1 /\ drv'.column = drv.column
        /\ chip'.reg = [i \in Offset |-> IF i = drv.progPos THEN b ELSE chip.reg[i]]
        /\ drv'.progOn = drv.progOn /\ chip'.row = chip.row
    BY <1>1, <1>2, <1>3, <1>a, Held, Writing, StreamWriteByteCapture, WriteByteStep
  <1>5. Loaded(drv.progPos)'
    <2>1. chip.reg = [i \in Offset |->
                        IF i >= client.column /\ i < n THEN client.image[i] ELSE 1]
      BY <1>3 DEF Loaded
    <2>2. ASSUME NEW i \in Offset
          PROVE  (IF i = n THEN b ELSE chip.reg[i])
                   = IF i >= client.column /\ i < n + 1 THEN client.image[i] ELSE 1
      <3>1. i \in Nat
        BY Sizes DEF Offset
      <3>2. CASE i = n
        BY <1>3, <3>2 DEF b
      <3>3. CASE i # n
        <4>1. i < n + 1 <=> i < n
          BY <1>3, <3>1, <3>3
        <4> QED BY <2>1, <3>3, <4>1
      <3> QED BY <3>2, <3>3
    <2>3. chip'.reg = [i \in Offset |->
                         IF i >= client.column /\ i < n + 1 THEN client.image[i] ELSE 1]
      BY <1>3, <1>4, <2>2
    <2> QED BY <1>1, <1>3, <1>4, <2>3 DEF Loaded
  <1>6. drv'.progPos >= client.column /\ drv'.progPos = client.column + loop'.skip
    BY <1>3, <1>4, <1>b, <1>c
  <1>7. ~(drv'.progPos < client.column)
    BY <1>3, <1>4
  <1> QED BY <1>1, <1>4, <1>5, <1>6, <1>7, <1>b, WritingReport

LEMMA WriteBufReturnsReport == ASSUME IInv, RInv, WriteBufReturns PROVE RInv'
  <1>1. /\ client.pc = "writing" /\ Goto("write") /\ drv' = drv /\ chip' = chip
        /\ cells' = cells /\ loop' = loop /\ drv.progPos >= drv.column
    BY DEF WriteBufReturns, At
  <1>2. client' \in ClientType /\ client'.pc = "write" /\ KeepsCall /\ client'.ok = client.ok
    BY <1>1, Held, GotoType, GotoOk DEF PCs
  <1>3. client.kind = "program" /\ drv.progOn
    BY <1>1 DEF IInv, WriteInv
  <1>4. RowInv' /\ ColumnInv' /\ CallInv'
    BY <1>1, <1>2, <1>3
    DEF RInv, RowInv, ColumnInv, CallInv, Sending, Fetching, Storing, KeepsCall
  <1>5. GotInv' /\ TagInv'
    BY <1>2 DEF GotInv, TagInv, Sending, Fetching
  <1>6. RegInv'
    <2>1. /\ Loaded(drv.progPos) /\ drv.progPos >= client.column
          /\ drv.progPos = client.column + loop.skip
          /\ ~(drv.progPos < client.column)
      BY <1>1, WritingSums
    <2>2. Loaded(drv.progPos)'
      BY <1>1, <1>2, <2>1 DEF Loaded, KeepsCall
    <2> QED BY <1>1, <1>2, <1>3, <2>1, <2>2 DEF RegInv, Sending, Storing, KeepsCall
  <1>7. BeforeInv' /\ ResultInv'
    BY <1>1, <1>2 DEF RInv, BeforeInv, ResultInv, Sending, Storing
  <1> QED BY <1>4, <1>5, <1>6, <1>7 DEF RInv

\* Once nothing is left to hand over the register holds the whole page.
LEMMA WrittenWhole ==
  ASSUME IInv, RInv, client.pc = "write", client.now = 0
  PROVE  Loaded(RawBytes)
  <1>1. client.kind = "program" /\ drv.progOn /\ client.later = 0
    BY DEF IInv, WriteInv, RInv, CallInv
  <1>2. /\ Loaded(drv.progPos) /\ drv.progPos >= client.column
        /\ drv.progPos = client.column + loop.skip
    BY <1>1 DEF RInv, RegInv, Storing
  <1>3. /\ loop.want = 0
        /\ client.column + loop.skip + loop.want + client.now + client.later = RawBytes
    BY <1>1 DEF IInv, SizeInv
  <1>4. client.column \in Nat /\ loop.skip \in Nat
    BY Held, Sizes DEF Columns
  <1>5. drv.progPos = RawBytes
    BY <1>1, <1>2, <1>3, <1>4
  <1> QED BY <1>2, <1>5

LEMMA WriteReturnsReport == ASSUME IInv, RInv, WriteReturns PROVE RInv'
  <1>1. /\ client.pc = "write" /\ client.now = 0 /\ (Goto("done") \/ Goto("execute"))
        /\ drv' = drv /\ chip' = chip /\ cells' = cells /\ loop' = loop
    BY DEF WriteReturns, At
  <1>2. /\ client' \in ClientType /\ client'.pc \in {"done", "execute"} /\ KeepsCall
        /\ client'.ok = client.ok
    BY <1>1, Held, GotoType, GotoOk DEF PCs
  <1>3. client.kind = "program"
    BY <1>1 DEF IInv, WriteInv
  <1>4. RowInv' /\ ColumnInv' /\ CallInv'
    BY <1>1, <1>2, <1>3
    DEF RInv, RowInv, ColumnInv, CallInv, Sending, Fetching, Storing, KeepsCall
  <1>5. GotInv' /\ TagInv'
    BY <1>2, <1>3 DEF GotInv, TagInv, Sending, Fetching, KeepsCall
  <1>6. RegInv'
    <2>1. Loaded(RawBytes)'
      BY <1>1, <1>2, WrittenWhole DEF Loaded, KeepsCall
    <2> QED BY <1>2, <2>1 DEF RegInv, Sending, Storing
  <1>7. BeforeInv' /\ ResultInv'
    BY <1>1, <1>2 DEF RInv, BeforeInv, ResultInv, Sending, Storing
  <1> QED BY <1>4, <1>5, <1>6, <1>7 DEF RInv

----------------------------------------------------------------------------
\* Executing: the array before and after.

\* A page register that holds the whole page is what was sent.
LEMMA LoadedIsSent == ASSUME TypeOK, Loaded(RawBytes) PROVE chip.reg = Sent
  <1>1. \A i \in Offset : i < RawBytes
    BY Sizes DEF Offset
  <1> QED BY <1>1 DEF Loaded, Sent

\* PAGEPROG on the row of the caller's page is the program asked for.
LEMMA ProgramAsked ==
  ASSUME IInv, RInv, client.pc = "execute", client.kind = "program"
  PROVE  Mutated("PAGEPROG", TRUE)
           = [loop.before EXCEPT ![client.page] = Programmed(@, Sent)]
  <1>1. /\ chip.cmd = "SEQIN" /\ chip.row = client.page /\ chip.reg = Sent
        /\ loop.before = cells
    BY Held, LoadedIsSent DEF IInv, AddrInv, RInv, RowInv, RegInv, BeforeInv
  <1>2. Mutated("PAGEPROG", TRUE)
          = [p \in PageNo |-> IF p = client.page THEN Programmed(cells[p], Sent)
                              ELSE cells[p]]
    BY <1>1 DEF Mutated
  <1>3. cells \in [PageNo -> [Offset -> {0, 1}]]
    BY Held
  <1> QED BY <1>1, <1>2, <1>3

LEMMA EraseAsked ==
  ASSUME IInv, RInv, client.pc = "execute", client.kind = "erase"
  PROVE  Mutated("ERASE2", TRUE)
           = [p \in PageNo |-> IF SameBlock(p, client.page) THEN Blank ELSE loop.before[p]]
  <1>1. chip.cmd = "ERASE1" /\ chip.row = client.page /\ loop.before = cells
    BY DEF IInv, AddrInv, RInv, RowInv, BeforeInv
  <1> QED BY <1>1 DEF Mutated, Blank

\* What the driver and the chip say after PAGEPROG or ERASE2.
LEMMA ExecuteTells ==
  ASSUME IInv, Execute,
         NEW cmd, cmd = IF client.kind = "program" THEN "PAGEPROG" ELSE "ERASE2"
  PROVE  StatusGood' => cells' = Mutated(cmd, TRUE)
  <1>1. cmd \in Commands
    BY DEF Commands
  <1>2. PICK late \in BOOLEAN : drv' = SendCommand(drv, cmd, late)
    BY DEF Execute
  <1>3. CASE Refused(drv, cmd)
    <2>1. drv'.failed
      BY <1>1, <1>2, <1>3, Held, SendCommandCapture
    <2> QED BY <2>1 DEF StatusGood
  <1>4. CASE ~Refused(drv, cmd)
    <2>1. PICK ok \in BOOLEAN : \E took \in BOOLEAN :
            /\ ~Physical => ok
            /\ ok => took
            /\ cells' = Mutated(cmd, took)
            /\ chip' = [LatchCmd(chip, cmd) EXCEPT !.ok = ok]
      BY <1>4 DEF Execute
    <2>2. PICK took \in BOOLEAN :
            /\ ~Physical => ok
            /\ ok => took
            /\ cells' = Mutated(cmd, took)
            /\ chip' = [LatchCmd(chip, cmd) EXCEPT !.ok = ok]
      BY <2>1
    <2>3. chip'.ok = ok
      <3>1. LatchCmd(chip, cmd) \in ChipType
        BY <1>1, Held, LatchCmdType
      <3> QED BY <2>2, <3>1 DEF ChipType
    <2>4. StatusGood' => ok
      BY <2>2, <2>3 DEF StatusGood
    <2>5. ok => took = TRUE
      BY <2>2
    <2> QED BY <2>2, <2>4, <2>5
  <1> QED BY <1>3, <1>4

LEMMA ExecuteReport == ASSUME IInv, RInv, Execute PROVE RInv'
  <1> DEFINE cmd == IF client.kind = "program" THEN "PAGEPROG" ELSE "ERASE2"
  <1>1. client.pc = "execute" /\ Goto("status") /\ loop' = loop
    BY DEF Execute, At
  <1>2. client' \in ClientType /\ client'.pc = "status" /\ KeepsCall /\ client'.ok = client.ok
    BY <1>1, Held, GotoType, GotoOk DEF PCs
  <1>3. client.kind \in {"program", "erase"}
    BY <1>1, Held DEF IInv, AddrInv, Kinds
  <1>4. StatusGood' => Asked'
    <2>1. StatusGood' => cells' = Mutated(cmd, TRUE)
      <3>1. cmd = IF client.kind = "program" THEN "PAGEPROG" ELSE "ERASE2"
        OBVIOUS
      <3> HIDE DEF cmd
      <3> QED BY <3>1, ExecuteTells
    <2>2. /\ client.kind = "program" =>
               Mutated(cmd, TRUE) = [loop.before EXCEPT ![client.page] = Programmed(@, Sent)]
          /\ client.kind = "erase" =>
               Mutated(cmd, TRUE)
                 = [p \in PageNo |-> IF SameBlock(p, client.page) THEN Blank
                                     ELSE loop.before[p]]
      BY <1>1, <1>3, ProgramAsked, EraseAsked
    <2>3. Sent' = Sent
      BY <1>2 DEF Sent, KeepsCall
    <2> HIDE DEF cmd
    <2> QED BY <1>1, <1>2, <2>1, <2>2, <2>3 DEF Asked, KeepsCall
  <1>5. RowInv' /\ ColumnInv' /\ CallInv'
    BY <1>1, <1>2 DEF RInv, RowInv, ColumnInv, CallInv, Sending, Fetching, Storing, KeepsCall
  <1>6. GotInv' /\ TagInv' /\ RegInv' /\ BeforeInv'
    BY <1>2 DEF GotInv, TagInv, RegInv, BeforeInv, Sending, Fetching, Storing
  <1>7. ResultInv'
    BY <1>1, <1>2, <1>3, <1>4 DEF RInv, ResultInv, KeepsCall
  <1> QED BY <1>5, <1>6, <1>7 DEF RInv

LEMMA SendStatusReport == ASSUME IInv, RInv, SendStatus PROVE RInv'
  <1>1. client.pc = "status" /\ Issue("STATUS") /\ Goto("result")
    BY DEF SendStatus, At
  <1>2. client' \in ClientType /\ client'.pc = "result" /\ KeepsCall /\ client'.ok = client.ok
    BY <1>1, Held, GotoType, GotoOk DEF PCs
  <1>3. /\ cells' = cells /\ loop' = loop /\ chip'.ok = chip.ok
        /\ drv.failed => drv'.failed
    BY <1>1, Held, IssueType, IssueCapture
  <1>4. RowInv' /\ ColumnInv' /\ CallInv'
    BY <1>1, <1>2 DEF RInv, RowInv, ColumnInv, CallInv, Sending, Fetching, Storing, KeepsCall
  <1>5. GotInv' /\ TagInv' /\ RegInv' /\ BeforeInv'
    BY <1>2 DEF GotInv, TagInv, RegInv, BeforeInv, Sending, Fetching, Storing
  <1>6. ResultInv'
    <2>1. StatusGood' => StatusGood
      BY <1>3 DEF StatusGood
    <2>2. Asked => Asked'
      BY <1>2, <1>3 DEF Asked, Sent, KeepsCall
    <2> QED BY <1>1, <1>2, <2>1, <2>2 DEF RInv, ResultInv, KeepsCall
  <1> QED BY <1>4, <1>5, <1>6 DEF RInv

LEMMA ReadStatusReport == ASSUME IInv, RInv, ReadStatus PROVE RInv'
  <1>1. /\ client.pc = "result"
        /\ client' = [client EXCEPT !.pc = "done", !.ok = StatusGood]
        /\ drv' = drv /\ chip' = chip /\ cells' = cells /\ loop' = loop
    BY DEF ReadStatus, At
  <1>2. client'.pc = "done" /\ KeepsCall /\ (client'.ok <=> StatusGood)
    BY <1>1, Held DEF ClientType, KeepsCall
  <1>3. client.kind # "read" /\ (StatusGood => ~drv.failed /\ Asked)
    BY <1>1 DEF RInv, ResultInv, StatusGood
  <1>4. RowInv' /\ ColumnInv' /\ CallInv'
    BY <1>1, <1>2, <1>3
    DEF RInv, RowInv, ColumnInv, CallInv, Sending, Fetching, Storing, KeepsCall
  <1>5. GotInv' /\ TagInv' /\ RegInv' /\ BeforeInv'
    BY <1>2, <1>3 DEF GotInv, TagInv, RegInv, BeforeInv, Sending, Fetching, Storing, KeepsCall
  <1>6. ResultInv'
    <2>1. Asked => Asked'
      BY <1>1, <1>2 DEF Asked, Sent, KeepsCall
    <2> QED BY <1>1, <1>2, <1>3, <2>1 DEF ResultInv
  <1> QED BY <1>4, <1>5, <1>6 DEF RInv

LEMMA ReturnReport == ASSUME Return PROVE RInv'
  <1>1. client'.pc = "idle" /\ client'.ok = FALSE /\ client'.now = 0 /\ client'.later = 0
    BY DEF Return, NoCall, Call
  <1>2. RowInv' /\ ColumnInv' /\ CallInv'
    BY <1>1 DEF RowInv, ColumnInv, CallInv, Sending, Fetching, Storing
  <1>3. GotInv' /\ TagInv' /\ RegInv' /\ BeforeInv' /\ ResultInv'
    BY <1>1 DEF GotInv, TagInv, RegInv, BeforeInv, ResultInv, Sending, Fetching, Storing
  <1> QED BY <1>2, <1>3 DEF RInv

----------------------------------------------------------------------------
\* The theorems.

LEMMA NextRInv == ASSUME IInv, RInv, [Next]_vars PROVE RInv'
  <1>1. CASE Start BY <1>1, StartReport
  <1>2. CASE SelectArea BY <1>2, SelectAreaReport
  <1>3. CASE SendMain BY <1>3, SendMainReport
  <1>4. CASE SendColumn BY <1>4, SendColumnReport
  <1>5. CASE SendLow BY <1>5, SendLowReport
  <1>6. CASE SendHigh BY <1>6, SendHighReport
  <1>7. CASE CloseAddr BY <1>7, CloseAddrReport
  <1>8. CASE ReadBuf BY <1>8, ReadBufReport
  <1>9. CASE DiscardWord BY <1>9, DiscardWordReport
  <1>10. CASE DiscardByte BY <1>10, DiscardByteReport
  <1>11. CASE ReadByte BY <1>11, ReadByteReport
  <1>12. CASE ReadBufReturns BY <1>12, ReadBufReturnsReport
  <1>13. CASE ReadReturns BY <1>13, ReadReturnsReport
  <1>14. CASE WriteBuf BY <1>14, WriteBufReport
  <1>15. CASE PadByte BY <1>15, PadByteReport
  <1>16. CASE WriteByte BY <1>16, WriteByteReport
  <1>17. CASE WriteBufReturns BY <1>17, WriteBufReturnsReport
  <1>18. CASE WriteReturns BY <1>18, WriteReturnsReport
  <1>19. CASE Execute BY <1>19, ExecuteReport
  <1>20. CASE SendStatus BY <1>20, SendStatusReport
  <1>21. CASE ReadStatus BY <1>21, ReadStatusReport
  <1>22. CASE Return BY <1>22, ReturnReport
  <1>23. CASE UNCHANGED vars
    BY <1>23
    DEF vars, RInv, RowInv, ColumnInv, CallInv, GotInv, Taken, TagInv, Captured,
        RegInv, Loaded, BeforeInv, ResultInv, StatusGood, Asked, Sent
  <1> QED
    BY <1>1, <1>2, <1>3, <1>4, <1>5, <1>6, <1>7, <1>8, <1>9, <1>10, <1>11, <1>12,
       <1>13, <1>14, <1>15, <1>16, <1>17, <1>18, <1>19, <1>20, <1>21, <1>22, <1>23
    DEF Next, Step

LEMMA ReportInductive == Spec => [](IInv /\ RInv)
  <1>1. Init => RInv
    BY InitRInv
  <1>2. IInv /\ RInv /\ [Next]_vars => RInv'
    BY NextRInv
  <1> QED BY <1>1, <1>2, Inductive, PTL DEF Spec

\* A read that took every byte from its column on returned that area.
LEMMA GotIsArea ==
  ASSUME IInv, Taken, client.column + Len(loop.got) = RawBytes
  PROVE  loop.got = [i \in 1 .. RawBytes - client.column |->
                       cells[client.page][client.column + i - 1]]
  <1> DEFINE area == [i \in 1 .. RawBytes - client.column |->
                        cells[client.page][client.column + i - 1]]
             n == Len(loop.got)
  <1>1. client.column \in Nat /\ n \in Nat /\ loop.got \in Seq({0, 1})
    BY Counts
  <1>2. DOMAIN loop.got = 1 .. n /\ loop.got = [i \in DOMAIN loop.got |-> loop.got[i]]
    BY <1>1
  <1>3. \A i \in 1 .. n : loop.got[i] = cells[client.page][client.column + i - 1]
    BY DEF Taken
  <1>4. n = RawBytes - client.column
    <2> HIDE DEF n
    <2>1. client.column + n = RawBytes
      BY DEF n
    <2> QED BY <1>1, <2>1, Sizes
  <1> HIDE DEF n
  <1> QED BY <1>2, <1>3, <1>4

\* Whatever order of commands, split transfers and engine failures came
\* before: a read reported good returned the bytes of its area, a program
\* reported good cleared the bits asked for and no others, an erase reported
\* good emptied its block and no other, and nothing is reported good after
\* the engine failed (nand_controller.h 66-76, 122-178, 208-350).
THEOREM ReportsTrue == Spec => []ReportsAreTrue
  <1>1. IInv /\ RInv => ReportsAreTrue
    <2> SUFFICES ASSUME IInv, RInv, client.pc = "done", client.ok
                 PROVE  /\ ~drv.failed
                        /\ client.kind = "read" =>
                             loop.got = [i \in 1 .. RawBytes - client.column |->
                                           cells[client.page][client.column + i - 1]]
                        /\ Asked
      BY DEF ReportsAreTrue, Asked
    <2>1. ~drv.failed /\ Asked
      BY DEF RInv, ResultInv
    <2>2. client.kind = "read" => Taken /\ client.column + Len(loop.got) = RawBytes
      BY DEF RInv, GotInv
    <2> QED BY <2>1, <2>2, GotIsArea
  <1> QED BY <1>1, ReportInductive, PTL

\* Once a read is done, whether it worked or not, the page number and the
\* spare bytes the driver captured on the way are those of the page that was
\* asked for: the ECC hook never judges a page by the record of another one
\* (nand_legacy_physical.c 83-84).
THEOREM CaptureCorrect == Spec => []CaptureAgrees
  <1>1. IInv /\ RInv => CaptureAgrees
    <2> SUFFICES ASSUME IInv, RInv, client.pc = "done", client.kind = "read"
                 PROVE  /\ drv.readPage = client.page
                        /\ drv.tag = [i \in 0 .. TagBytes - 1 |->
                                        cells[client.page][DataBytes + i]]
      BY DEF CaptureAgrees
    <2>1. drv.readPage = client.page /\ Captured(RawBytes)
      BY DEF RInv, RowInv, TagInv
    <2>2. \A i \in 0 .. TagBytes - 1 : DataBytes + i < RawBytes
      BY Sizes
    <2>3. drv.tag \in [0 .. TagBytes - 1 -> {0, 1}]
      BY Held DEF DrvType
    <2>4. \A i \in 0 .. TagBytes - 1 : drv.tag[i] = cells[client.page][DataBytes + i]
      BY <2>1, <2>2 DEF Captured
    <2> QED BY <2>1, <2>3, <2>4
  <1> QED BY <1>1, ReportInductive, PTL

----------------------------------------------------------------------------
\* The driver implements NandArray: its steps as the caller sees them.

\* A failure of the engine is never forgotten.
LEMMA FailureKept == ASSUME IInv, [Next]_vars PROVE drv.failed => drv'.failed
  <1> SUFFICES ASSUME drv.failed PROVE drv'.failed
    OBVIOUS
  <1>0. TypeOK /\ drv \in DrvType
    BY Held
  <1>1. CASE SelectArea \/ SendMain \/ SendStatus
    <2>1. PICK cmd \in AreaCmds \cup {"SEQIN", "ERASE1", "STATUS"} : Issue(cmd)
      <3>1. AreaOf(client.column) \in AreaCmds
        BY DEF AreaOf, AreaCmds
      <3>2. MainCommand \in AreaCmds \cup {"SEQIN", "ERASE1"}
        BY <3>1, Held DEF MainCommand, Kinds
      <3> QED BY <1>1, <3>1, <3>2 DEF SelectArea, SendMain, SendStatus
    <2> QED BY <1>0, <2>1, IssueCapture
  <1>2. CASE SendColumn \/ SendLow \/ SendHigh
    <2>1. PICK b \in Nat : SendByte(b)
      <3>1. client.page % ByteBase \in Nat /\ client.page \div ByteBase \in Nat
        BY Held, Bytes
      <3> QED BY <1>2, <3>1 DEF SendColumn, SendLow, SendHigh
    <2>2. drv' = SendAddr(drv, b)
      BY <2>1 DEF SendByte
    <2> QED BY <1>0, <2>2, SendAddrCapture
  <1>3. CASE CloseAddr
    <2>1. PICK late \in BOOLEAN : drv' = FinishAddr(drv, late)
      BY <1>3 DEF CloseAddr
    <2> QED BY <1>0, <2>1, FinishAddrCapture DEF SameCapture
  <1>4. CASE ReadBuf
    <2>1. PICK late \in BOOLEAN :
            drv' = [StartReadStream(drv, late) EXCEPT !.skipDone = TRUE]
      BY <1>4 DEF ReadBuf
    <2> QED BY <1>0, <2>1, StartReadCapture
  <1>5. CASE DiscardWord
    BY <1>0, <1>5 DEF DiscardWord, DrvType
  <1>6. CASE DiscardByte \/ ReadByte
    <2>1. PICK late \in BOOLEAN : drv' = StreamReadByte(drv, late)
      BY <1>6 DEF DiscardByte, ReadByte
    <2> QED BY <1>0, <2>1, StreamReadByteCapture
  <1>7. CASE WriteBuf
    <2>1. PICK late \in BOOLEAN : drv' = StartProgramStream(drv, late)
      BY <1>7 DEF WriteBuf
    <2> QED BY <1>0, <2>1, StartProgramCapture
  <1>8. CASE PadByte \/ WriteByte
    <2>1. PICK late \in BOOLEAN : drv' = StreamWriteByte(drv, late)
      BY <1>8 DEF PadByte, WriteByte
    <2>2. PICK wait \in BOOLEAN : wait = (late /\ drv.progPos = Burst)
      OBVIOUS
    <2>3. PICK w : w = Waited(drv, wait) /\ w \in DrvType /\ w.failed
      BY <1>0, WaitedType, WaitedCapture DEF SameCapture
    <2>4. drv' = drv \/ drv' = [w EXCEPT !.progPos = @ + 1]
      BY <2>1, <2>2, <2>3 DEF StreamWriteByte
    <2> QED BY <2>3, <2>4 DEF DrvType
  <1>9. CASE Execute
    <2>1. PICK cmd \in Commands, late \in BOOLEAN : drv' = SendCommand(drv, cmd, late)
      BY <1>9 DEF Execute, Commands
    <2> QED BY <1>0, <2>1, SendCommandCapture
  <1>10. CASE \/ Start \/ ReadBufReturns \/ ReadReturns \/ WriteBufReturns
              \/ WriteReturns \/ ReadStatus \/ Return \/ UNCHANGED vars
    BY <1>10 DEF Start, ReadBufReturns, ReadReturns, WriteBufReturns, WriteReturns,
         ReadStatus, Return, vars
  <1> QED
    BY <1>1, <1>2, <1>3, <1>4, <1>5, <1>6, <1>7, <1>8, <1>9, <1>10 DEF Next, Step

\* The page of a mutation that was not refused is in the arena.
LEMMA ExecutedInArena ==
  ASSUME IInv, RInv, client.pc = "execute",
         NEW cmd \in {"PAGEPROG", "ERASE2"}, ~Refused(drv, cmd)
  PROVE  client.page \in Arena
  <1>1. drv.mutation = chip.row /\ chip.row = client.page
    BY DEF IInv, AddrInv, RInv, RowInv
  <1>2. client.page \in PageNo /\ client.page \in Nat
    BY Held DEF PageNo
  <1>3. FsFirst \in Nat /\ FsEnd \in Nat
    BY GeometryAssumption DEF FsFirst, FsEnd
  <1> QED BY <1>1, <1>2, <1>3 DEF Refused, Arena

\* An operation whose status can still be good was not refused.
ArenaInv == client.pc \in {"status", "result"} /\ ~drv.failed => client.page \in Arena

\* What a step after the first and before the last keeps of the call.
SameCall ==
  /\ client'.kind = client.kind /\ client'.page = client.page
  /\ client'.column = client.column /\ client'.image = client.image
  /\ client'.ok = client.ok

Moves(from, to) == client.pc = from /\ client'.pc = to /\ SameCall

LEMMA GotoMoves ==
  ASSUME IInv, NEW from, client.pc = from, NEW to, Goto(to)
  PROVE  Moves(from, to)
  BY Held DEF Goto, Moves, SameCall, ClientType

\* ArenaInv is inductive together with the two invariants before it.
LEMMA NextArenaInv == ASSUME IInv, RInv, ArenaInv, [Next]_vars PROVE ArenaInv'
  <1> SUFFICES ASSUME client'.pc \in {"status", "result"}, ~drv'.failed
               PROVE  (client.page \in Arena)'
    BY DEF ArenaInv
  <1>1. CASE Execute
    <2>1. client.pc = "execute" /\ Moves("execute", "status")
      BY <1>1, GotoMoves DEF Execute, At
    <2>2. PICK cmd \in {"PAGEPROG", "ERASE2"} :
            \E late \in BOOLEAN : drv' = SendCommand(drv, cmd, late)
      BY <1>1 DEF Execute
    <2>3. ~Refused(drv, cmd)
      BY <2>2, Held, SendCommandCapture DEF Commands
    <2> QED BY <2>1, <2>3, ExecutedInArena DEF Moves, SameCall, Arena
  <1>2. CASE SendStatus
    <2>1. Moves("status", "result")
      BY <1>2, GotoMoves DEF SendStatus, At
    <2> QED BY <2>1, FailureKept DEF ArenaInv, Moves, SameCall, Arena
  <1>3. CASE UNCHANGED vars
    BY <1>3 DEF vars, ArenaInv, Arena
  <1>4. CASE Start
    BY <1>4, StartCall
  <1>5. ASSUME NEW pc \in PCs \ {"status", "result"}, Goto(pc) PROVE FALSE
    BY <1>5, GotoMoves, Held DEF Moves
  <1>6. CASE ReadBuf \/ WriteBuf \/ ReadReturns \/ ReadStatus \/ Return
    <2>1. client'.pc \in {"reading", "writing", "done", "idle"}
      <3>1. CASE ReadBuf \/ WriteBuf
        BY <3>1, Held DEF ReadBuf, WriteBuf, ClientType
      <3>2. CASE ReadReturns \/ ReadStatus
        BY <3>2, Held DEF ReadReturns, ReadStatus, ClientType
      <3>3. CASE Return
        BY <3>3 DEF Return, NoCall, Call
      <3> QED BY <1>6, <3>1, <3>2, <3>3
    <2> QED BY <2>1
  <1>7. CASE DiscardWord \/ DiscardByte \/ ReadByte \/ PadByte \/ WriteByte
    BY <1>7 DEF DiscardWord, DiscardByte, ReadByte, PadByte, WriteByte, At
  <1>8. CASE \/ SelectArea \/ SendMain \/ SendColumn \/ SendLow \/ SendHigh \/ CloseAddr
             \/ ReadBufReturns \/ WriteBufReturns \/ WriteReturns
    <2>1. PICK pc \in PCs \ {"status", "result"} : Goto(pc)
      BY <1>8, Held
      DEF SelectArea, SendMain, SendColumn, SendLow, SendHigh, CloseAddr, ReadBufReturns,
          WriteBufReturns, WriteReturns, PCs, Kinds
    <2> QED BY <1>5, <2>1
  <1> QED
    BY <1>1, <1>2, <1>3, <1>4, <1>6, <1>7, <1>8 DEF Next, Step

\* All the refinement rests on.
DeviceInv == IInv /\ RInv /\ ArenaInv

LEMMA DeviceInductive == Spec => []DeviceInv
  <1>1. Init => ArenaInv
    BY DEF Init, ArenaInv, NoCall, Call
  <1>2. IInv /\ RInv /\ ArenaInv /\ [Next]_vars => ArenaInv'
    BY NextArenaInv
  <1> QED BY <1>1, <1>2, ReportInductive, PTL DEF Spec, DeviceInv

\* The call under way, seen in a given state.
Seen(state, good, data) ==
  [state |-> state, kind |-> client.kind, page |-> client.page, column |-> client.column,
   image |-> client.image, good |-> good, data |-> data]

Open == client.pc \in PCs \ {"idle", "done"}

Progress == IF Executed THEN "taken" ELSE "asked"

\* Before the caller is answered the call is asked or taken, and not yet good.
LEMMA SeenOpen ==
  ASSUME IInv, RInv, Open
  PROVE  CallSeen = Seen(Progress, FALSE, <<>>)
  <1>1. client.ok = FALSE
    BY Held DEF RInv, ResultInv, Open, ClientType
  <1>2. client.pc # "idle" /\ client.pc # "done"
    BY DEF Open
  <1> QED BY <1>1, <1>2 DEF CallSeen, Seen, Progress

LEMMA SeenOpenNext ==
  ASSUME IInv', RInv', Open'
  PROVE  CallSeen' = Seen(Progress, FALSE, <<>>)'
  <1>1. client'.ok = FALSE
    <2>1. client'.ok \in BOOLEAN
      BY DEF IInv, TypeOK, ClientType
    <2> QED BY <2>1 DEF RInv, ResultInv, Open
  <1>2. client'.pc # "idle" /\ client'.pc # "done"
    BY DEF Open
  <1> QED BY <1>1, <1>2 DEF CallSeen, Seen, Progress

LEMMA SeenTaken ==
  ASSUME NEW good, NEW data
  PROVE  Seen("taken", good, data) = [Seen("asked", good, data) EXCEPT !.state = "taken"]
  BY DEF Seen

DeviceStep == [Device!Next]_<<cells, drv.failed, CallSeen>>

\* The engine may fail in any step; the caller sees no more of it.
LEMMA Unseen ==
  ASSUME IInv, IInv', drv.failed => drv'.failed, cells' = cells, CallSeen' = CallSeen
  PROVE  DeviceStep
  <1>1. drv.failed \in BOOLEAN /\ drv'.failed \in BOOLEAN
    BY DEF IInv, TypeOK, DrvType
  <1>2. CASE drv'.failed = drv.failed
    BY <1>2 DEF DeviceStep
  <1>3. CASE drv'.failed = TRUE
    BY <1>3 DEF DeviceStep, Device!Next, Device!Fail
  <1> QED BY <1>1, <1>2, <1>3

LEMMA Quiet ==
  ASSUME DeviceInv, DeviceInv', [Next]_vars, SameCall, cells' = cells, Open, Open',
         Executed' <=> Executed
  PROVE  DeviceStep
  <1>1. CallSeen = Seen(Progress, FALSE, <<>>)
    BY SeenOpen DEF DeviceInv
  <1>2. CallSeen' = Seen(Progress, FALSE, <<>>)'
    BY SeenOpenNext DEF DeviceInv
  <1>3. CallSeen' = CallSeen
    BY <1>1, <1>2 DEF Seen, SameCall, Progress
  <1> QED BY <1>3, Unseen, FailureKept DEF DeviceInv

\* No driver call before PAGEPROG or ERASE2 counts as the execution.
LEMMA QuietMove ==
  ASSUME DeviceInv, DeviceInv', [Next]_vars, SameCall, cells' = cells, Open, Open',
         client.pc \notin {"status", "result"}, client'.pc \notin {"status", "result"}
  PROVE  DeviceStep
  BY Quiet DEF Executed

\* Storing a byte, or fetching one, moves no call.
LEMMA QuietStep ==
  ASSUME DeviceInv, DeviceInv', [Next]_vars,
         \/ SelectArea \/ SendMain \/ SendColumn \/ SendLow \/ SendHigh \/ CloseAddr
         \/ ReadBuf \/ DiscardWord \/ DiscardByte \/ ReadByte \/ ReadBufReturns
         \/ WriteBuf \/ PadByte \/ WriteByte \/ WriteBufReturns
         \/ (WriteReturns /\ client'.pc # "done")
  PROVE  DeviceStep
  <1> DEFINE Inner == PCs \ {"idle", "done", "status", "result"}
  <1>0. IInv /\ client.pc \in PCs
    BY Held DEF DeviceInv
  <1>1. cells' = cells
    BY DEF SelectArea, SendMain, SendColumn, SendLow, SendHigh, CloseAddr, ReadBuf,
       DiscardWord, DiscardByte, ReadByte, ReadBufReturns, WriteBuf, PadByte, WriteByte,
       WriteBufReturns, WriteReturns, Issue, SendByte
  <1>2. client.pc \in Inner
    BY DEF SelectArea, SendMain, SendColumn, SendLow, SendHigh, CloseAddr, ReadBuf,
       DiscardWord, DiscardByte, ReadByte, ReadBufReturns, WriteBuf, PadByte, WriteByte,
       WriteBufReturns, WriteReturns, At, PCs
  <1>3. SameCall /\ client'.pc \in Inner
    <2>1. CASE DiscardWord \/ DiscardByte \/ ReadByte \/ PadByte \/ WriteByte
      BY <1>2, <2>1 DEF DiscardWord, DiscardByte, ReadByte, PadByte, WriteByte, SameCall
    <2>2. CASE ReadBuf \/ WriteBuf
      BY <1>0, <2>2, Held DEF ReadBuf, WriteBuf, SameCall, ClientType, PCs
    <2>3. ASSUME NEW pc \in Inner \cup {"done"}, Goto(pc) PROVE SameCall /\ client'.pc = pc
      BY <1>0, <2>3, GotoMoves DEF Moves
    <2>4. CASE WriteReturns /\ client'.pc # "done"
      BY <2>3, <2>4 DEF WriteReturns, PCs
    <2>5. CASE \/ SelectArea \/ SendMain \/ SendColumn \/ SendLow \/ SendHigh \/ CloseAddr
               \/ ReadBufReturns \/ WriteBufReturns
      <3>1. PICK pc \in Inner : Goto(pc)
        BY <1>0, <2>5, Held
        DEF SelectArea, SendMain, SendColumn, SendLow, SendHigh, CloseAddr,
            ReadBufReturns, WriteBufReturns, PCs, Kinds
      <3> QED BY <2>3, <3>1
    <2> QED BY <2>1, <2>2, <2>4, <2>5
  <1>4. Open /\ Open' /\ client.pc \notin {"status", "result"}
        /\ client'.pc \notin {"status", "result"}
    BY <1>2, <1>3 DEF Open
  <1> QED BY <1>1, <1>3, <1>4, QuietMove

LEMMA StatusStep == ASSUME DeviceInv, DeviceInv', [Next]_vars, SendStatus PROVE DeviceStep
  <1>1. Moves("status", "result")
    BY GotoMoves DEF SendStatus, At, DeviceInv
  <1>2. cells' = cells /\ loop' = loop
    BY DEF SendStatus, Issue
  <1>3. Open /\ Open' /\ SameCall
    BY <1>1 DEF Moves, Open, PCs
  <1>4. Executed' <=> Executed
    BY <1>1, <1>2 DEF Executed, Moves, SameCall, Sent, Arena
  <1> QED BY <1>2, <1>3, <1>4, Quiet

\* The steps the caller does see.
LEMMA AskStep == ASSUME DeviceInv, DeviceInv', Start PROVE DeviceStep
  <1>1. UNCHANGED <<cells, drv.failed>> /\ client.pc = "idle"
    BY DEF Start, At
  <1>2. CallSeen.state = "idle"
    BY <1>1 DEF CallSeen, Executed
  <1>3. Open' /\ client'.pc \in {"area", "command"}
    BY StartCall DEF Open, PCs
  <1>4. CallSeen' = Seen("asked", FALSE, <<>>)'
    BY <1>3, SeenOpenNext DEF DeviceInv, Progress, Executed, Seen
  <1>5. Columns \subseteq Device!Bytes /\ 0 \in Device!Bytes /\ Blank = Device!Erased
    BY Sizes DEF Columns, Device!Bytes, Device!Erased, Blank, Offset
  <1>6. PICK p \in PageNo :
          \/ \E c \in Columns : \E n \in FirstCall(c) :
               LET m == RawBytes - c - n IN
               \/ client' = Call("command", "read", p, c, Blank, n, m)
               \/ \E im \in Patterns : client' = Call("area", "program", p, c, im, n, m)
          \/ client' = Call("command", "erase", p, 0, Blank, 0, 0)
    BY DEF Start
  <1>7. \A pc, kind, c, im, n, m : client' = Call(pc, kind, p, c, im, n, m) =>
          CallSeen' = Device!Asking(kind, p, c, im)
    BY <1>4 DEF Seen, Call, Device!Asking
  <1>8. \/ \E c \in Columns :
             \/ CallSeen' = Device!Asking("read", p, c, Blank)
             \/ \E im \in Patterns : CallSeen' = Device!Asking("program", p, c, im)
        \/ CallSeen' = Device!Asking("erase", p, 0, Blank)
    BY <1>6, <1>7
  <1>9. Device!Ask
    BY <1>1, <1>2, <1>5, <1>8 DEF Device!Ask
  <1> QED BY <1>9 DEF DeviceStep, Device!Next

\* What was asked for, in the words of NandArray.
LEMMA AskedIsAfter ==
  ASSUME DeviceInv, client.pc = "execute", SameCall, Asked', loop'.before = cells
  PROVE  cells' = Device!After(cells)
  <1>1. client.kind \in {"program", "erase"}
    BY Held DEF DeviceInv, IInv, AddrInv, Kinds
  <1>2. /\ CallSeen.kind = client.kind /\ CallSeen.page = client.page
        /\ CallSeen.column = client.column /\ CallSeen.image = client.image
    BY DEF CallSeen
  <1>3. CASE client.kind = "erase"
    <2>1. cells' = [p \in PageNo |-> IF SameBlock(p, client.page) THEN Blank ELSE cells[p]]
      BY <1>3 DEF Asked, SameCall
    <2> QED BY <1>2, <1>3, <2>1
      DEF Device!After, Device!Erased, Device!Bytes, Blank, Offset, SameBlock
  <1>4. CASE client.kind = "program"
    <2>1. cells' = [cells EXCEPT ![client.page] = Programmed(@, Sent')]
      BY <1>4 DEF Asked, SameCall
    <2>2. Sent' = [i \in Offset |-> IF i >= client.column THEN client.image[i] ELSE 1]
      BY DEF Sent, SameCall
    <2>3. \A old : Programmed(old, Sent')
            = [i \in Offset |-> IF i >= client.column /\ client.image[i] = 0 THEN 0 ELSE old[i]]
      BY <2>2 DEF Programmed
    <2>4. Offset = Device!Bytes
      BY DEF Offset, Device!Bytes
    <2>5. Device!After(cells)
            = [cells EXCEPT ![client.page] =
                 [i \in Offset |-> IF i >= client.column /\ client.image[i] = 0 THEN 0 ELSE @[i]]]
      BY <1>2, <1>4, <2>4 DEF Device!After
    <2>6. Programmed(cells[client.page], Sent')
            = [i \in Offset |-> IF i >= client.column /\ client.image[i] = 0 THEN 0
                                ELSE cells[client.page][i]]
      BY <2>3
    <2> QED BY <2>1, <2>5, <2>6
  <1> QED BY <1>1, <1>3, <1>4

\* A command that is not refused and that the chip takes is the execution; one
\* that is refused, or not taken, changes nothing.
LEMMA ExecuteOutcome ==
  ASSUME DeviceInv, Execute
  PROVE  \/ client.page \in Arena /\ Asked'
         \/ cells' = cells
  <1> DEFINE cmd == IF client.kind = "program" THEN "PAGEPROG" ELSE "ERASE2"
  <1>1. client.pc = "execute" /\ Goto("status") /\ loop' = loop
    BY DEF Execute, At
  <1>2. KeepsCall /\ IInv /\ RInv /\ client.kind \in {"program", "erase"}
    BY <1>1, Held, GotoType DEF DeviceInv, IInv, AddrInv, Kinds, PCs
  <1>3. CASE Refused(drv, cmd)
    BY <1>3 DEF Execute
  <1>4. CASE ~Refused(drv, cmd)
    <2>1. client.page \in Arena
      BY <1>1, <1>2, <1>4, ExecutedInArena
    <2>2. PICK took \in BOOLEAN : cells' = Mutated(cmd, took)
      BY <1>4 DEF Execute
    <2>3. CASE took = FALSE
      <3>1. cells \in [PageNo -> [Offset -> {0, 1}]]
        BY <1>2, Held
      <3> QED BY <2>2, <2>3, <3>1 DEF Mutated
    <2>4. CASE took = TRUE
      <3>1. /\ client.kind = "program" =>
                 cells' = [loop.before EXCEPT ![client.page] = Programmed(@, Sent)]
            /\ client.kind = "erase" =>
                 cells' = [p \in PageNo |-> IF SameBlock(p, client.page) THEN Blank
                                             ELSE loop.before[p]]
        BY <1>1, <1>2, <2>2, <2>4, ProgramAsked, EraseAsked
      <3>2. Sent' = Sent
        BY <1>2 DEF Sent, KeepsCall
      <3>3. Asked'
        BY <1>1, <1>2, <3>1, <3>2 DEF Asked, KeepsCall
      <3> QED BY <2>1, <3>3
    <2> QED BY <2>3, <2>4
  <1> QED BY <1>3, <1>4

LEMMA TakeStep == ASSUME DeviceInv, DeviceInv', [Next]_vars, Execute PROVE DeviceStep
  <1>1. client.pc = "execute" /\ loop' = loop /\ Moves("execute", "status")
    BY GotoMoves DEF Execute, At, DeviceInv
  <1>2. Open /\ Open' /\ SameCall /\ client'.pc = "status"
    BY <1>1 DEF Moves, Open, PCs
  <1>3. ~Executed
    BY <1>1 DEF Executed
  <1>4. CASE ~Executed'
    <2>1. cells' = cells
      BY <1>2, <1>4, ExecuteOutcome DEF Executed, Asked, SameCall, Arena
    <2> QED BY <1>2, <1>3, <1>4, <2>1, Quiet
  <1>5. CASE Executed'
    <2>1. Asked' /\ client.page \in Arena
      BY <1>2, <1>5 DEF Executed, Asked, SameCall, Arena
    <2>2. loop'.before = cells
      BY <1>1 DEF DeviceInv, RInv, BeforeInv
    <2>3. cells' = Device!After(cells)
      BY <1>1, <1>2, <2>1, <2>2, AskedIsAfter
    <2>4. CallSeen = Seen("asked", FALSE, <<>>)
      BY <1>2, <1>3, SeenOpen DEF DeviceInv, Progress
    <2>5. CallSeen' = Seen("taken", FALSE, <<>>)'
      BY <1>2, <1>5, SeenOpenNext DEF DeviceInv, Progress, Seen
    <2>6. client.kind # "read"
      BY <1>1 DEF DeviceInv, IInv, AddrInv
    <2>7. drv'.failed \in {drv.failed, TRUE}
      BY FailureKept DEF DeviceInv, IInv, TypeOK, DrvType
    <2>8. CallSeen' = [CallSeen EXCEPT !.state = "taken"]
      <3>1. Seen("taken", FALSE, <<>>)' = [Seen("asked", FALSE, <<>>) EXCEPT !.state = "taken"]
        <4>1. Seen("taken", FALSE, <<>>)' = Seen("taken", FALSE, <<>>)
          BY <1>2 DEF Seen, SameCall
        <4>2. Seen("taken", FALSE, <<>>) = [Seen("asked", FALSE, <<>>) EXCEPT !.state = "taken"]
          BY SeenTaken, Zenon
        <4> QED BY <4>1, <4>2
      <3> QED BY <2>4, <2>5, <3>1
    <2>9. CallSeen.state = "asked" /\ CallSeen.kind = client.kind /\ CallSeen.page = client.page
      BY <2>4 DEF Seen
    <2>10. Device!Take
      BY <2>1, <2>3, <2>6, <2>7, <2>8, <2>9 DEF Device!Take
    <2> QED BY <2>10 DEF DeviceStep, Device!Next
  <1> QED BY <1>4, <1>5

\* A call seen once it is answered.
Answered(c, good, data) ==
  [c EXCEPT !.state = "answered", !.good = good, !.data = data]

LEMMA SeenAnswered ==
  ASSUME NEW s, NEW g, NEW d, NEW good, NEW data
  PROVE  Seen("answered", good, data) = Answered(Seen(s, g, d), good, data)
  <1> DEFINE a == Seen(s, g, d)
             b == Answered(a, good, data)
             e == Seen("answered", good, data)
             fields == {"state", "kind", "page", "column", "image", "good", "data"}
  <1>1. DOMAIN a = fields /\ DOMAIN e = fields
    BY DEF Seen
  <1>2. b = [x \in fields |-> b[x]] /\ e = [x \in fields |-> e[x]]
    BY <1>1 DEF Seen, Answered
  <1>3. /\ a.kind = e.kind /\ a.page = e.page /\ a.column = e.column /\ a.image = e.image
        /\ e.state = "answered" /\ e.good = good /\ e.data = data
    BY DEF Seen
  <1>4. \A x \in fields : b[x] = e[x]
    <2> HIDE DEF a, e
    <2> QED BY <1>1, <1>3 DEF Answered
  <1>5. b = e
    <2> HIDE DEF b, e, fields
    <2> QED BY <1>2, <1>4
  <1> QED BY <1>5

\* A call that is given up or comes to its end is answered.
LEMMA AnswerStep ==
  ASSUME DeviceInv, DeviceInv', Open, UNCHANGED <<drv, cells, loop>>,
         client'.pc = "done", client'.kind = client.kind, client'.page = client.page,
         client'.column = client.column, client'.image = client.image,
         client'.ok => /\ ~drv.failed /\ (client.kind = "read" \/ Executed)
                       /\ client.kind = "read" => Taken /\ client.column + Len(loop.got) = RawBytes
  PROVE  DeviceStep
  <1> DEFINE got == IF client'.ok /\ client.kind = "read" THEN loop.got ELSE <<>>
  <1>1. CallSeen = Seen(Progress, FALSE, <<>>) /\ Progress \in {"asked", "taken"}
    BY SeenOpen DEF DeviceInv, Progress
  <1>2. client'.ok \in BOOLEAN
    BY DEF DeviceInv, IInv, TypeOK, ClientType
  <1>3. CallSeen' = Seen("answered", client'.ok, got)
    BY DEF CallSeen, Executed, Seen
  <1>4. CallSeen' = [CallSeen EXCEPT !.state = "answered", !.good = client'.ok, !.data = got]
    <2> HIDE DEF got
    <2>1. CallSeen = Seen(CallSeen.state, CallSeen.good, CallSeen.data)
      BY DEF CallSeen, Seen
    <2>2. PICK s, g, d : CallSeen = Seen(s, g, d)
      BY <2>1
    <2>3. PICK good : good = client'.ok
      OBVIOUS
    <2>4. CallSeen' = Answered(CallSeen, good, got)
      BY <1>3, <2>2, <2>3, SeenAnswered
    <2> QED BY <2>3, <2>4 DEF Answered
  <1>5. /\ CallSeen.state \in {"asked", "taken"} /\ CallSeen.kind = client.kind
        /\ CallSeen.page = client.page /\ CallSeen.column = client.column
        /\ Executed => CallSeen.state = "taken"
    BY <1>1 DEF Seen, Progress
  <1>6. got = IF client'.ok /\ client.kind = "read"
              THEN Device!BytesFrom(client.page, client.column) ELSE <<>>
    <2>1. client'.ok /\ client.kind = "read" =>
            loop.got = Device!BytesFrom(client.page, client.column)
      BY GotIsArea DEF DeviceInv, Device!BytesFrom
    <2> QED BY <2>1
  <1> HIDE DEF got
  <1>7. Device!Answer
    BY <1>2, <1>4, <1>5, <1>6 DEF Device!Answer
  <1> QED BY <1>7 DEF DeviceStep, Device!Next

LEMMA ReadAnswers == ASSUME DeviceInv, DeviceInv', ReadReturns PROVE DeviceStep
  <1>1. /\ client.pc = "read" /\ client.now = 0
        /\ client' = [client EXCEPT !.pc = "done", !.ok = ~drv.failed]
        /\ UNCHANGED <<drv, cells, loop>>
    BY DEF ReadReturns, At
  <1>2. /\ client'.pc = "done" /\ client'.kind = client.kind /\ client'.page = client.page
        /\ client'.column = client.column /\ client'.image = client.image
        /\ client'.ok <=> ~drv.failed
    BY <1>1, Held DEF DeviceInv, ClientType
  <1>3. client.kind = "read" /\ Taken /\ client.column + Len(loop.got) = RawBytes
    BY <1>1, ReadWhole DEF DeviceInv
  <1>4. Open
    BY <1>1 DEF Open, PCs
  <1> QED BY <1>1, <1>2, <1>3, <1>4, AnswerStep

LEMMA StatusAnswers == ASSUME DeviceInv, DeviceInv', ReadStatus PROVE DeviceStep
  <1>1. /\ client.pc = "result"
        /\ client' = [client EXCEPT !.pc = "done", !.ok = StatusGood]
        /\ UNCHANGED <<drv, cells, loop>>
    BY DEF ReadStatus, At
  <1>2. /\ client'.pc = "done" /\ client'.kind = client.kind /\ client'.page = client.page
        /\ client'.column = client.column /\ client'.image = client.image
        /\ client'.ok <=> StatusGood
    BY <1>1, Held DEF DeviceInv, ClientType
  <1>3. client.kind # "read" /\ (StatusGood => ~drv.failed /\ Asked)
    BY <1>1 DEF DeviceInv, RInv, ResultInv, StatusGood
  <1>4. StatusGood => Executed
    BY <1>1, <1>3 DEF DeviceInv, ArenaInv, Executed, Asked
  <1>5. Open
    BY <1>1 DEF Open, PCs
  <1> QED BY <1>1, <1>2, <1>3, <1>4, <1>5, AnswerStep

LEMMA GivenUp ==
  ASSUME DeviceInv, DeviceInv', WriteReturns, client'.pc = "done"
  PROVE  DeviceStep
  <1>1. client.pc = "write" /\ Goto("done") /\ UNCHANGED <<drv, cells, loop>>
    BY Held DEF WriteReturns, At, Goto, DeviceInv, ClientType
  <1>2. SameCall
    BY <1>1, GotoMoves DEF Moves, DeviceInv
  <1>3. ~client'.ok
    BY <1>1, <1>2 DEF SameCall, DeviceInv, RInv, ResultInv
  <1>4. Open
    BY <1>1 DEF Open, PCs
  <1> QED BY <1>1, <1>2, <1>3, <1>4, AnswerStep DEF SameCall

LEMMA IdleIs ==
  Device!Idle = [state |-> "idle", kind |-> "read", page |-> 0, column |-> 0,
                 image |-> Device!Erased, good |-> FALSE, data |-> <<>>]
  <1>1. \A k, p, c, im, g, d :
          [[state |-> "asked", kind |-> k, page |-> p, column |-> c, image |-> im,
            good |-> g, data |-> d] EXCEPT !.state = "idle"]
            = [state |-> "idle", kind |-> k, page |-> p, column |-> c, image |-> im,
               good |-> g, data |-> d]
    OBVIOUS
  <1>2. Device!Idle = [[state |-> "asked", kind |-> "read", page |-> 0, column |-> 0,
                        image |-> Device!Erased, good |-> FALSE, data |-> <<>>]
                         EXCEPT !.state = "idle"]
    BY DEF Device!Idle, Device!Asking
  <1> QED BY <1>1, <1>2, Zenon

LEMMA IdleSeen ==
  ASSUME client = NoCall
  PROVE  CallSeen = Device!Idle
  <1>1. Blank = Device!Erased
    BY DEF Device!Bytes, Device!Erased, Blank, Offset
  <1>2. /\ client.pc = "idle" /\ client.kind = "read" /\ client.page = 0
        /\ client.column = 0 /\ client.image = Blank /\ client.ok = FALSE
    BY DEF NoCall, Call
  <1>3. CallSeen = Seen("idle", FALSE, <<>>)
    BY <1>2 DEF CallSeen, Executed, Seen
  <1>4. Seen("idle", FALSE, <<>>)
          = [state |-> "idle", kind |-> "read", page |-> 0, column |-> 0,
             image |-> Device!Erased, good |-> FALSE, data |-> <<>>]
    BY <1>1, <1>2 DEF Seen
  <1> QED BY <1>3, <1>4, IdleIs

LEMMA ReturnStepSeen == ASSUME Return PROVE DeviceStep
  <1>1. client.pc = "done" /\ client' = NoCall /\ UNCHANGED <<drv, cells>>
    BY DEF Return, At
  <1>2. CallSeen.state = "answered"
    BY <1>1 DEF CallSeen, Executed
  <1>3. CallSeen' = Device!Idle
    <2>1. Blank = Device!Erased
      BY DEF Device!Bytes, Device!Erased, Blank, Offset
    <2>2. /\ client'.pc = "idle" /\ client'.kind = "read" /\ client'.page = 0
          /\ client'.column = 0 /\ client'.image = Blank /\ client'.ok = FALSE
      BY <1>1 DEF NoCall, Call
    <2>3. CallSeen'
            = [state |-> "idle", kind |-> "read", page |-> 0, column |-> 0,
               image |-> Device!Erased, good |-> FALSE, data |-> <<>>]
      BY <2>1, <2>2 DEF CallSeen, Executed
    <2> QED BY <2>3, IdleIs
  <1>4. Device!Return
    BY <1>1, <1>2, <1>3 DEF Device!Return
  <1> QED BY <1>4 DEF DeviceStep, Device!Next

LEMMA NextDevice == ASSUME DeviceInv, DeviceInv', [Next]_vars PROVE DeviceStep
  <1>1. CASE Start BY <1>1, AskStep
  <1>2. CASE Execute BY <1>2, TakeStep
  <1>3. CASE SendStatus BY <1>3, StatusStep
  <1>4. CASE ReadReturns BY <1>4, ReadAnswers
  <1>5. CASE ReadStatus BY <1>5, StatusAnswers
  <1>6. CASE WriteReturns /\ client'.pc = "done" BY <1>6, GivenUp
  <1>7. CASE Return BY <1>7, ReturnStepSeen
  <1>8. CASE UNCHANGED vars
    BY <1>8 DEF vars, DeviceStep, CallSeen, Executed, Sent, Arena
  <1>9. CASE \/ SelectArea \/ SendMain \/ SendColumn \/ SendLow \/ SendHigh \/ CloseAddr
             \/ ReadBuf \/ DiscardWord \/ DiscardByte \/ ReadByte \/ ReadBufReturns
             \/ WriteBuf \/ PadByte \/ WriteByte \/ WriteBufReturns
             \/ (WriteReturns /\ client'.pc # "done")
    BY <1>9, QuietStep
  <1> QED
    BY <1>1, <1>2, <1>3, <1>4, <1>5, <1>6, <1>7, <1>8, <1>9 DEF Next, Step

\* Init maps to the initial state of the array.
LEMMA DeviceStart == Init => Device!Init
  <1> SUFFICES ASSUME Init PROVE Device!Init
    OBVIOUS
  <1>1. client = NoCall /\ drv.failed = FALSE
    BY DEF Init
  <1>2. Blank = Device!Erased
    BY DEF Device!Bytes, Device!Erased, Blank, Offset
  <1> QED BY <1>1, <1>2, IdleSeen DEF Init, Device!Init

\* The driver is an atomic page array to its callers, for every geometry: the
\* address phases, the split stream, the refusals and the waits that time out
\* leave the array changed at most once per call and by what was asked, inside
\* the arena, and no call is answered well that did not do its work or that
\* follows a failure of the engine (nand_controller.h 60-149, 205-350).
THEOREM DeviceIsArray == Spec => IsArray
  <1>1. DeviceInv /\ DeviceInv' /\ [Next]_vars
          => [Device!Next]_<<cells, drv.failed, CallSeen>>
    BY NextDevice DEF DeviceStep
  <1> QED BY <1>1, DeviceStart, DeviceInductive, PTL DEF Spec, IsArray, Device!Spec

=============================================================================
