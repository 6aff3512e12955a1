--------------------------- MODULE NandController ---------------------------
(***************************************************************************)
(* The XFER engine driver of board/casio-be300/nand_controller.h: the C    *)
(* state it keeps between calls, the small-page command protocol, the      *)
(* split page stream (a burst of data + first half of the spare bytes,     *)
(* then the last half) and the refusal of program and erase commands       *)
(* outside the filesystem arena.                                           *)
(*                                                                         *)
(* The chip and its transfer engine are hardware, modelled from how the    *)
(* driver and its comments use them.  The callers are the MTD core's       *)
(* command function (the driver's physical_command is a copy of it) and    *)
(* the board's physical_raw_read.  A byte is 0 or 1: 1 is the erased 0xff, *)
(* 0 is programmed.                                                        *)
(***************************************************************************)
EXTENDS Integers, Sequences

CONSTANTS
  PageCount,        \* pages of the chip
  BlockPages,       \* pages of an erase block (32)
  FsFirstBlock,     \* first block of the filesystem arena (320)
  FsEndBlock,       \* first block after the arena (1004)
  ByteBase,         \* values of one address cycle (256)
  DataBytes,        \* BE300_NAND_PAGE_DATA (512)
  HalfPage,         \* column base of READ1 (256)
  TagBytes,         \* half of BE300_NAND_PAGE_OOB (8)
  Word,             \* bytes of one readl() of the stream (4)
  Physical,         \* be300_nand_physical
  Patterns          \* page images the callers program

PageNo   == 0 .. PageCount - 1
RawBytes == DataBytes + 2 * TagBytes
Burst    == DataBytes + TagBytes
Offset   == 0 .. RawBytes - 1
FsFirst  == FsFirstBlock * BlockPages
FsEnd    == FsEndBlock * BlockPages

ASSUME GeometryAssumption ==
  /\ PageCount \in Nat \ {0}
  /\ BlockPages \in Nat \ {0}
  /\ FsFirstBlock \in Nat /\ FsEndBlock \in Nat
  /\ ByteBase \in Nat \ {0}
  /\ DataBytes \in Nat \ {0} /\ HalfPage \in 1 .. DataBytes
  /\ TagBytes \in Nat \ {0}
  /\ Word \in Nat \ {0}
  /\ Physical \in BOOLEAN
  /\ Patterns \subseteq [Offset -> {0, 1}] /\ Patterns # {}

VARIABLES
  drv,      \* the file-scope variables of nand_controller.h
  chip,     \* command and row latch, page register, engine burst
  cells,    \* the array: page -> spare and data bytes
  client,   \* the operation a caller runs, and how far it is
  loop      \* the locals of read_buf / write_buf

vars == <<drv, chip, cells, client, loop>>

AreaCmds == {"READ0", "READ1", "READOOB"}
Commands == AreaCmds \cup {"SEQIN", "PAGEPROG", "ERASE1", "ERASE2", "STATUS", "NONE"}

AreaBase(cmd) == CASE cmd = "READ1" -> HalfPage
                   [] cmd = "READOOB" -> DataBytes
                   [] OTHER -> 0

AreaOf(column) == CASE column >= DataBytes -> "READOOB"
                    [] column >= HalfPage /\ column < DataBytes -> "READ1"
                    [] OTHER -> "READ0"

\* One address byte at position i of a page number, least significant first.
PageByte(b, i) == IF i = 0 THEN b ELSE b * ByteBase

----------------------------------------------------------------------------
\* The chip and the engine.

\* A command reaches the chip: PAGEPROG and ERASE2 act on the latched row.
LatchCmd(c, cmd) ==
  [c EXCEPT !.cmd = cmd,
            !.cycle = IF cmd \in AreaCmds \cup {"SEQIN", "ERASE1"} THEN 0 ELSE @,
            !.row = IF cmd \in AreaCmds \cup {"SEQIN", "ERASE1"} THEN 0 ELSE @,
            !.reg = IF cmd = "SEQIN" THEN [i \in Offset |-> 1] ELSE @]

\* ERASE1 has no column cycle; the others send the column first.
LatchByte(c, b) ==
  LET i == IF c.cmd = "ERASE1" THEN c.cycle ELSE c.cycle - 1
  IN  [c EXCEPT !.cycle = @ + 1,
                !.row = IF i >= 0 THEN @ + PageByte(b, i) ELSE @]

SetMode(c, bytes, pos) == [c EXCEPT !.left = bytes, !.pos = pos]

\* The engine gives n bytes of the running burst; past its end the bus hangs.
Stream(c, n) == IF c.left >= n THEN [c EXCEPT !.left = @ - n, !.pos = @ + n]
                ELSE [c EXCEPT !.hung = TRUE]

CellAt(p, i) == IF p \in PageNo /\ i \in Offset THEN cells[p][i] ELSE 1

\* Programming can only clear bits.
Programmed(old, reg) == [i \in Offset |-> IF reg[i] = 0 THEN 0 ELSE old[i]]

SameBlock(p, q) == p \div BlockPages = q \div BlockPages

\* What PAGEPROG / ERASE2 do to the array; a worn block keeps some old bytes
\* and reports FAIL.
Mutated(cmd, ok) ==
  CASE cmd = "PAGEPROG" /\ chip.cmd = "SEQIN" ->
         [p \in PageNo |-> IF p = chip.row /\ ok THEN Programmed(cells[p], chip.reg)
                           ELSE cells[p]]
    [] cmd = "ERASE2" /\ chip.cmd = "ERASE1" ->
         [p \in PageNo |-> IF SameBlock(p, chip.row) /\ ok THEN [i \in Offset |-> 1]
                           ELSE cells[p]]
    [] OTHER -> cells

----------------------------------------------------------------------------
\* The driver's helpers, on the record of its variables.

\* Bug: the flag tells of the last wait only.
WaitedLast(d, late) == [d EXCEPT !.failed = late]

\* be300_nand_wait_xfer_ready: the ready bit may never be seen.
Waited(d, late) == [d EXCEPT !.failed = @ \/ late]

FinishAddr(d, late) ==
  IF d.phase = "addr" THEN [Waited(d, late) EXCEPT !.phase = "none"] ELSE d

BeginAddr(d) == IF d.phase = "addr" THEN d ELSE [d EXCEPT !.addrPos = 0, !.phase = "addr"]

\* Bug: the low byte does not replace the page of the previous read.
ReadPageKept(d, b) ==
  CASE d.cmd \in AreaCmds /\ d.addrPos = 1 -> d.readPage + b
    [] d.cmd \in AreaCmds /\ d.addrPos = 2 -> d.readPage + PageByte(b, 1)
    [] OTHER -> d.readPage

ReadPage(d, b) ==
  CASE d.cmd \in AreaCmds /\ d.addrPos = 1 -> b
    [] d.cmd \in AreaCmds /\ d.addrPos = 2 -> d.readPage + PageByte(b, 1)
    [] OTHER -> d.readPage

SendAddr(d, b) ==
  LET e == BeginAddr(d) IN
  [e EXCEPT
     !.column = IF e.cmd = "SEQIN" /\ e.addrPos = 0 THEN @ + b ELSE @,
     !.mutation = CASE e.cmd = "SEQIN" /\ e.addrPos > 0 -> @ + PageByte(b, e.addrPos - 1)
                    [] e.cmd = "ERASE1" -> @ + PageByte(b, e.addrPos)
                    [] OTHER -> @,
     !.readPage = ReadPage(e, b),
     !.addrPos = @ + 1]

\* Bug: ERASE1 keeps the page of the previous mutation.
StartsProgram(cmd) == cmd = "SEQIN"

StartsMutation(cmd) == cmd \in {"SEQIN", "ERASE1"}

\* Bug: the first page of the replacement pool passes.
RefusedOffByOne(d, cmd) ==
  /\ Physical
  /\ cmd \in {"PAGEPROG", "ERASE2"}
  /\ d.mutation < FsFirst \/ d.mutation > FsEnd

\* The arena check: physical program and erase never leave the filesystem.
Refused(d, cmd) ==
  /\ Physical
  /\ cmd \in {"PAGEPROG", "ERASE2"}
  /\ d.mutation < FsFirst \/ d.mutation >= FsEnd

\* SEQIN starts at the column of the area selected last.
ColumnAfter(d, cmd) == IF cmd = "SEQIN" THEN d.areaBase ELSE d.column

SendCommand(d, cmd, late) ==
  LET e == IF StartsMutation(cmd) THEN [d EXCEPT !.mutation = 0] ELSE d IN
  IF Refused(e, cmd) THEN [e EXCEPT !.failed = TRUE]
  ELSE [Waited(FinishAddr(e, late), late) EXCEPT
          !.cmd = cmd,
          !.streamOn = FALSE,
          !.skipDone = FALSE,
          !.areaBase = IF cmd \in AreaCmds THEN AreaBase(cmd) ELSE @,
          !.skip = IF cmd \in AreaCmds THEN AreaBase(cmd) ELSE @,
          !.column = ColumnAfter(e, cmd),
          !.progPos = IF cmd = "SEQIN" THEN 0 ELSE @,
          !.progOn = IF cmd \in {"SEQIN", "PAGEPROG"} THEN FALSE ELSE @]

----------------------------------------------------------------------------
\* The page stream.

\* be300_nand_start_read_stream
StartReadStream(d, late) ==
  IF d.streamOn THEN FinishAddr(d, late)
  ELSE [Waited(FinishAddr(d, late), late) EXCEPT !.streamOn = TRUE, !.readPos = 0]

\* Bug: the whole raw page taken from one burst.
ReadModeKept == chip

\* MODE 4 is selected before the byte that follows the first burst.
ReadMode == IF drv.readPos = Burst THEN SetMode(chip, TagBytes, Burst) ELSE chip

StreamedByte == CellAt(chip.row, ReadMode.pos)

\* be300_nand_stream_read_byte; past the raw page it is a constant 0xff.
StreamReadByte(d, late) ==
  IF d.readPos >= RawBytes THEN d
  ELSE [Waited(d, late /\ d.readPos = Burst) EXCEPT
          !.readPos = @ + 1,
          !.tag = IF d.readPos \in DataBytes .. Burst - 1
                  THEN [@ EXCEPT ![d.readPos - DataBytes] = StreamedByte] ELSE @]

ReadStreamed == IF drv.readPos >= RawBytes THEN chip ELSE Stream(ReadMode, 1)

\* be300_nand_start_program_stream
StartProgramStream(d, late) ==
  IF d.progOn THEN d
  ELSE [Waited(FinishAddr(d, late), late) EXCEPT !.progOn = TRUE, !.progPos = 0]

\* Bug: the program stream is not split.
ProgramModeKept == chip

ProgramMode == IF drv.progPos = Burst THEN SetMode(chip, TagBytes, Burst) ELSE chip

\* be300_nand_stream_write_byte
StreamWriteByte(d, late) ==
  IF d.progPos >= RawBytes THEN d
  ELSE [Waited(d, late /\ d.progPos = Burst) EXCEPT !.progPos = @ + 1]

WriteStreamed(b) ==
  IF drv.progPos >= RawBytes THEN chip
  ELSE LET c == ProgramMode IN
       Stream([c EXCEPT !.reg = [i \in Offset |-> IF i = c.pos THEN b ELSE c.reg[i]]], 1)

----------------------------------------------------------------------------
\* The callers: one operation is a fixed sequence of driver calls.

Kinds   == {"read", "program", "erase"}
Columns == {0, HalfPage, DataBytes}

\* Raw reads and the 4.2 page write move the page in one call; the 2.4/2.6
\* core moves data and spare bytes in two.  The length of the first call:
FirstCall(column) ==
  {RawBytes - column} \cup (IF column = 0 THEN {DataBytes} ELSE {})

Blank == [i \in Offset |-> 1]

\* The driver calls still to make are those that follow pc.
Call(pc, kind, p, c, im, now, later) ==
  [pc |-> pc, kind |-> kind, page |-> p, column |-> c, image |-> im,
   now |-> now, later |-> later, ok |-> FALSE]

NoCall == Call("idle", "read", 0, 0, Blank, 0, 0)

NoLoop(before) == [skip |-> 0, want |-> 0, got |-> <<>>, before |-> before]

At(pc) == client.pc = pc /\ ~chip.hung

Goto(pc) == client' = [client EXCEPT !.pc = pc]

MainCommand == CASE client.kind = "read" -> AreaOf(client.column)
                 [] client.kind = "program" -> "SEQIN"
                 [] client.kind = "erase" -> "ERASE1"

Issue(cmd) ==
  /\ \E late \in BOOLEAN : drv' = SendCommand(drv, cmd, late)
  /\ chip' = LatchCmd(chip, cmd)
  /\ UNCHANGED <<cells, loop>>

SendByte(b) ==
  /\ drv' = SendAddr(drv, b)
  /\ chip' = LatchByte(chip, b)
  /\ UNCHANGED <<cells, loop>>

Start ==
  /\ At("idle")
  /\ \E p \in PageNo :
       \/ \E c \in Columns : \E n \in FirstCall(c) :
            LET m == RawBytes - c - n IN
            \/ client' = Call("command", "read", p, c, Blank, n, m)
            \/ \E im \in Patterns : client' = Call("area", "program", p, c, im, n, m)
       \/ client' = Call("command", "erase", p, 0, Blank, 0, 0)
  /\ loop' = NoLoop(cells)
  /\ UNCHANGED <<drv, chip, cells>>

\* SEQIN is preceded by the pointer command of its area.
SelectArea == At("area") /\ Issue(AreaOf(client.column)) /\ Goto("command")

SendMain ==
  /\ At("command")
  /\ Issue(MainCommand)
  /\ Goto(IF client.kind = "erase" THEN "low" ELSE "column")

\* The column is relative to the area: 0 for every caller modelled.
SendColumn == At("column") /\ SendByte(0) /\ Goto("low")

SendLow == At("low") /\ SendByte(client.page % ByteBase) /\ Goto("high")

SendHigh == At("high") /\ SendByte(client.page \div ByteBase) /\ Goto("close")

CloseAddr ==
  /\ At("close")
  /\ \E late \in BOOLEAN : drv' = FinishAddr(drv, late)
  /\ Goto(CASE client.kind = "read" -> "read"
            [] client.kind = "program" -> "write"
            [] client.kind = "erase" -> "execute")
  /\ UNCHANGED <<chip, cells, loop>>

\* be300_nand_read_buf: the area skip is discarded once per command.
ReadBuf ==
  /\ At("read") /\ client.now > 0
  /\ \E late \in BOOLEAN :
       drv' = [StartReadStream(drv, late) EXCEPT !.skipDone = TRUE]
  /\ chip' = IF drv.streamOn THEN chip ELSE SetMode(chip, Burst, 0)
  /\ loop' = [loop EXCEPT !.skip = IF drv.skipDone THEN 0 ELSE drv.skip,
                          !.want = client.now]
  /\ client' = [client EXCEPT !.pc = "reading", !.now = client.later, !.later = 0]
  /\ UNCHANGED cells

DiscardsWord == loop.skip >= Word /\ drv.readPos + Word <= Burst

DiscardWord ==
  /\ At("reading") /\ DiscardsWord
  /\ chip' = Stream(chip, Word)
  /\ drv' = [drv EXCEPT !.readPos = @ + Word]
  /\ loop' = [loop EXCEPT !.skip = @ - Word]
  /\ UNCHANGED <<cells, client>>

DiscardByte ==
  /\ At("reading") /\ loop.skip > 0 /\ ~DiscardsWord
  /\ \E late \in BOOLEAN : drv' = StreamReadByte(drv, late)
  /\ chip' = ReadStreamed
  /\ loop' = [loop EXCEPT !.skip = @ - 1]
  /\ UNCHANGED <<cells, client>>

ReadByte ==
  /\ At("reading") /\ loop.skip = 0 /\ loop.want > 0
  /\ \E late \in BOOLEAN : drv' = StreamReadByte(drv, late)
  /\ chip' = ReadStreamed
  /\ loop' = [loop EXCEPT !.want = @ - 1,
                          !.got = Append(@, IF drv.readPos >= RawBytes THEN 1
                                            ELSE StreamedByte)]
  /\ UNCHANGED <<cells, client>>

ReadBufReturns ==
  /\ At("reading") /\ loop.skip = 0 /\ loop.want = 0
  /\ Goto("read")
  /\ UNCHANGED <<drv, chip, cells, loop>>

\* A read reports -EIO once the engine has failed.
ReadReturns ==
  /\ At("read") /\ client.now = 0
  /\ client' = [client EXCEPT !.pc = "done", !.ok = ~drv.failed]
  /\ UNCHANGED <<drv, chip, cells, loop>>

\* be300_nand_write_buf; skip counts what is already in the page register.
WriteBuf ==
  /\ At("write") /\ client.now > 0
  /\ \E late \in BOOLEAN : drv' = StartProgramStream(drv, late)
  /\ chip' = IF drv.progOn THEN chip ELSE SetMode(chip, Burst, 0)
  /\ loop' = [loop EXCEPT !.want = client.now]
  /\ client' = [client EXCEPT !.pc = "writing", !.now = client.later, !.later = 0]
  /\ UNCHANGED cells

PadByte ==
  /\ At("writing") /\ drv.progPos < drv.column
  /\ \E late \in BOOLEAN : drv' = StreamWriteByte(drv, late)
  /\ chip' = WriteStreamed(1)
  /\ UNCHANGED <<cells, client, loop>>

WriteByte ==
  /\ At("writing") /\ drv.progPos >= drv.column /\ loop.want > 0
  /\ \E late \in BOOLEAN : drv' = StreamWriteByte(drv, late)
  /\ chip' = WriteStreamed(client.image[client.column + loop.skip])
  /\ loop' = [loop EXCEPT !.want = @ - 1, !.skip = @ + 1]
  /\ UNCHANGED <<cells, client>>

WriteBufReturns ==
  /\ At("writing") /\ drv.progPos >= drv.column /\ loop.want = 0
  /\ Goto("write")
  /\ UNCHANGED <<drv, chip, cells, loop>>

\* physical_write_page gives up before PAGEPROG once the engine has failed;
\* the 2.4/2.6 core goes on to it.
WriteReturns ==
  /\ At("write") /\ client.now = 0
  /\ \/ drv.failed /\ Goto("done")
     \/ Goto("execute")
  /\ UNCHANGED <<drv, chip, cells, loop>>

\* PAGEPROG or ERASE2.  A refused command never reaches the chip; one that
\* does may fail there, and may have acted all the same.
Execute ==
  LET cmd == IF client.kind = "program" THEN "PAGEPROG" ELSE "ERASE2" IN
  /\ At("execute")
  /\ \E late \in BOOLEAN : drv' = SendCommand(drv, cmd, late)
  /\ IF Refused(drv, cmd) THEN UNCHANGED <<chip, cells>>
     ELSE \E ok, took \in BOOLEAN :
            /\ ~Physical => ok
            /\ ok => took
            /\ cells' = Mutated(cmd, took)
            /\ chip' = [LatchCmd(chip, cmd) EXCEPT !.ok = ok]
  /\ Goto("status")
  /\ UNCHANGED loop

SendStatus == At("status") /\ Issue("STATUS") /\ Goto("result")

\* Bug: the status forgets that the engine failed or the command was refused.
ChipStatus == ~Physical \/ chip.ok

\* The status byte: 0xc1 once failed, else the chip's own when physical.
StatusGood == ~drv.failed /\ (Physical => chip.ok)

ReadStatus ==
  /\ At("result")
  /\ client' = [client EXCEPT !.pc = "done", !.ok = StatusGood]
  /\ UNCHANGED <<drv, chip, cells, loop>>

Return ==
  /\ At("done")
  /\ client' = NoCall
  /\ loop' = NoLoop(cells)
  /\ UNCHANGED <<drv, chip, cells>>

----------------------------------------------------------------------------

Init ==
  /\ drv = [phase |-> "none", cmd |-> "NONE", mutation |-> 0, readPage |-> 0,
            tag |-> [i \in 0 .. TagBytes - 1 |-> 0], addrPos |-> 0,
            areaBase |-> 0, skip |-> 0, skipDone |-> FALSE, streamOn |-> FALSE,
            readPos |-> 0, column |-> 0, progPos |-> 0, progOn |-> FALSE,
            failed |-> FALSE]
  /\ chip = [cmd |-> "NONE", cycle |-> 0, row |-> 0, reg |-> Blank, left |-> 0,
             pos |-> 0, ok |-> TRUE, hung |-> FALSE]
  /\ cells = [p \in PageNo |-> Blank]
  /\ client = NoCall
  /\ loop = NoLoop(cells)

Step == \/ SelectArea \/ SendMain \/ SendColumn \/ SendLow \/ SendHigh \/ CloseAddr
        \/ ReadBuf \/ DiscardWord \/ DiscardByte \/ ReadByte \/ ReadBufReturns
        \/ ReadReturns \/ WriteBuf \/ PadByte \/ WriteByte \/ WriteBufReturns
        \/ WriteReturns \/ Execute \/ SendStatus \/ ReadStatus \/ Return

Next == Start \/ Step

Spec == Init /\ [][Next]_vars

\* Every driver call is straight-line code with bounded loops, so a caller
\* that started an operation goes on with it.
FairSpec == Spec /\ WF_vars(Step)

----------------------------------------------------------------------------

PCs == {"idle", "area", "command", "column", "low", "high", "close", "read",
        "reading", "write", "writing", "execute", "status", "result", "done"}

DrvType ==
  [phase : {"none", "addr"}, cmd : Commands, mutation : Nat, readPage : Nat,
   tag : [0 .. TagBytes - 1 -> {0, 1}], addrPos : Nat,
   areaBase : {0, HalfPage, DataBytes}, skip : {0, HalfPage, DataBytes},
   skipDone : BOOLEAN, streamOn : BOOLEAN, readPos : 0 .. RawBytes,
   column : 0 .. RawBytes, progPos : 0 .. RawBytes, progOn : BOOLEAN,
   failed : BOOLEAN]

ChipType ==
  [cmd : Commands, cycle : Nat, row : Nat, reg : [Offset -> {0, 1}],
   left : 0 .. Burst, pos : 0 .. RawBytes, ok : BOOLEAN, hung : BOOLEAN]

ClientType ==
  [pc : PCs, kind : Kinds, page : PageNo, column : Columns,
   image : [Offset -> {0, 1}], now : 0 .. RawBytes, later : 0 .. RawBytes,
   ok : BOOLEAN]

LoopType ==
  [skip : 0 .. RawBytes, want : 0 .. RawBytes, got : Seq({0, 1}),
   before : [PageNo -> [Offset -> {0, 1}]]]

TypeOK ==
  /\ drv \in DrvType
  /\ chip \in ChipType
  /\ cells \in [PageNo -> [Offset -> {0, 1}]]
  /\ client \in ClientType
  /\ loop \in LoopType

\* The MODE 5 burst ends after data and the first half of the spare bytes,
\* and "a further stream read hangs the bus for good" (nand_controller.h
\* 222-228): no sequence of partial reads, area skips and word discards may
\* ask the engine for a byte it has not been told to fetch.
BusNeverHangs == ~chip.hung

\* The arena check of be300_nand_send_command reads the driver's own copy of
\* the page address; it is only a check if the chip latched the same row.
LatchAgrees == client.pc = "execute" => drv.mutation = chip.row

\* Whatever the callers ask for, a physical chip never loses or gains a byte
\* of the boot blocks or of the replacement pool.
ArenaProtected ==
  [][Physical => \A p \in PageNo :
       p < FsFirst \/ p >= FsEnd => cells'[p] = cells[p]]_vars

Sent == [i \in Offset |-> IF i >= client.column THEN client.image[i] ELSE 1]

\* What an operation reports as good is what the array holds: a read returns
\* the bytes of its area, a program cleared the bits asked for and no others,
\* an erase emptied one block; and nothing is good once the engine failed.
ReportsAreTrue ==
  client.pc = "done" /\ client.ok =>
    /\ ~drv.failed
    /\ client.kind = "read" =>
         loop.got = [i \in 1 .. RawBytes - client.column |->
                       cells[client.page][client.column + i - 1]]
    /\ client.kind = "program" =>
         cells = [loop.before EXCEPT ![client.page] = Programmed(@, Sent)]
    /\ client.kind = "erase" =>
         cells = [p \in PageNo |-> IF SameBlock(p, client.page) THEN Blank
                                   ELSE loop.before[p]]

\* The 2.4/2.6 ECC hook judges the last page read by the page number and tag
\* the driver captured on the way (nand_legacy_physical.c 83-84).
CaptureAgrees ==
  client.pc = "done" /\ client.kind = "read" =>
    /\ drv.readPage = client.page
    /\ drv.tag = [i \in 0 .. TagBytes - 1 |-> cells[client.page][DataBytes + i]]

\* A program or an erase is done when the array is what was there before it and
\* what it asked for, on a page it may touch.
Arena == IF Physical THEN {p \in PageNo : p >= FsFirst /\ p < FsEnd} ELSE PageNo

Executed ==
  /\ client.pc \in {"status", "result"} /\ client.page \in Arena
  /\ client.kind = "program" =>
       cells = [loop.before EXCEPT ![client.page] = Programmed(@, Sent)]
  /\ client.kind = "erase" =>
       cells = [p \in PageNo |-> IF SameBlock(p, client.page) THEN Blank
                                 ELSE loop.before[p]]

\* The caller's view: its call is asked, executed or answered.
CallSeen ==
  [state  |-> CASE client.pc = "idle" -> "idle"
                [] client.pc = "done" -> "answered"
                [] Executed -> "taken"
                [] OTHER -> "asked",
   kind   |-> client.kind,
   page   |-> client.page,
   column |-> client.column,
   image  |-> client.image,
   good   |-> client.ok,
   data   |-> IF client.ok /\ client.kind = "read" THEN loop.got ELSE <<>>]

Device == INSTANCE NandArray
  WITH Page <- PageNo, Images <- Patterns, array <- cells, failed <- drv.failed,
       call <- CallSeen

\* Two dozen register accesses look like one atomic operation: whatever times
\* out, is refused or only claims to have failed, the array changes once, by what
\* was asked, and a failure of the engine is never forgotten (nand_controller.h
\* 60-149, 205-330).
IsArray == Device!Spec

\* Every operation comes back to its caller, whatever timed out on the way.
OperationsReturn == client.pc # "idle" ~> client.pc = "idle"

=============================================================================
