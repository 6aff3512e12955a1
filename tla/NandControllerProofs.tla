------------------------ MODULE NandControllerProofs ------------------------
(***************************************************************************)
(* Proofs about NandController for every geometry: the variables keep      *)
(* their types, the stream register is never read past its burst, and a    *)
(* physical chip keeps its bytes outside the filesystem arena.             *)
(*                                                                         *)
(* The inductive invariant ties the driver's record of a command to the    *)
(* chip's (AddrInv) and its position in the page stream to what is left of *)
(* the engine's burst (ReadInv, WriteInv).                                 *)
(***************************************************************************)
EXTENDS NandController, TLAPS

\* The page of a mutation as the driver and the chip accumulate it, by the
\* number of address bytes sent.
AddrInv ==
  /\ client.pc \in {"column", "low", "high", "close", "write", "writing", "execute"} =>
       /\ chip.cmd = drv.cmd
       /\ client.kind = "program" => drv.cmd = "SEQIN"
       /\ client.kind = "erase" => drv.cmd = "ERASE1"
       /\ client.kind = "read" => drv.cmd \in AreaCmds
       /\ client.kind # "read" => drv.mutation = chip.row
  /\ client.pc = "execute" => client.kind # "read"
  /\ client.pc = "column" =>
       drv.phase = "none" /\ chip.cycle = 0 /\ client.kind # "erase"
  /\ client.pc = "low" =>
       IF client.kind = "erase" THEN drv.phase = "none" /\ chip.cycle = 0
       ELSE drv.phase = "addr" /\ drv.addrPos = 1 /\ chip.cycle = 1
  /\ client.pc = "high" =>
       drv.phase = "addr" /\ drv.addrPos = chip.cycle
       /\ chip.cycle = IF client.kind = "erase" THEN 1 ELSE 2

\* What is left of the burst when the stream stands at n.
LeftAt(n) == IF n <= Burst THEN Burst - n ELSE RawBytes - n

BurstAt(n) == chip.pos = n /\ chip.left = LeftAt(n)

ReadInv ==
  /\ client.pc \in {"column", "low", "high", "close"} /\ client.kind = "read" => ~drv.streamOn
  /\ client.pc \in {"read", "reading"} => client.kind = "read"
  /\ client.pc = "reading" => drv.streamOn
  /\ client.pc \in {"read", "reading"} /\ drv.streamOn => BurstAt(drv.readPos)

WriteInv ==
  /\ client.pc \in {"column", "low", "high", "close"} /\ client.kind = "program" => ~drv.progOn
  /\ client.pc \in {"write", "writing"} => client.kind = "program"
  /\ client.pc = "writing" => drv.progOn
  /\ client.pc \in {"write", "writing"} /\ drv.progOn => BurstAt(drv.progPos)

\* A program call hands over exactly the bytes from its column to the end.
SizeInv ==
  /\ client.pc = "write" => loop.want = 0
  /\ client.pc \in {"area", "command", "column", "low", "high", "close"} =>
       loop.skip = 0 /\ loop.want = 0
  /\ /\ client.kind = "program"
     /\ client.pc \in {"area", "command", "column", "low", "high", "close", "write", "writing"}
     => client.column + loop.skip + loop.want + client.now + client.later = RawBytes

IInv == TypeOK /\ AddrInv /\ ReadInv /\ WriteInv /\ SizeInv /\ ~chip.hung

----------------------------------------------------------------------------

LEMMA PageByteNat == ASSUME NEW b \in Nat, NEW i \in Int PROVE PageByte(b, i) \in Nat
  BY GeometryAssumption DEF PageByte

LEMMA Sizes ==
  /\ RawBytes \in Nat /\ Burst \in Nat /\ DataBytes < Burst /\ Burst < RawBytes
  /\ RawBytes = Burst + TagBytes /\ Burst = DataBytes + TagBytes
  /\ HalfPage \in 1 .. DataBytes /\ DataBytes \in Nat /\ TagBytes \in Nat \ {0}
  /\ Word \in Nat \ {0} /\ 0 \in PageNo
  BY GeometryAssumption DEF RawBytes, Burst, PageNo

LEMMA InitIInv == Init => IInv
  <1> SUFFICES ASSUME Init PROVE IInv
    OBVIOUS
  <1> USE Sizes DEF Init, NoCall, Call, NoLoop, Blank, Offset
  <1>1. TypeOK
    BY DEF TypeOK, DrvType, ChipType, ClientType, LoopType, Commands, PCs, Kinds, Columns
  <1>2. AddrInv /\ ReadInv /\ WriteInv /\ SizeInv /\ ~chip.hung
    BY DEF AddrInv, ReadInv, WriteInv, SizeInv
  <1> QED BY <1>1, <1>2 DEF IInv

----------------------------------------------------------------------------
\* What the driver's helpers do to its record.

\* The fields a wait or the end of an address phase leaves alone.
SameCommand(d, e) ==
  /\ e.cmd = d.cmd /\ e.mutation = d.mutation /\ e.addrPos = d.addrPos
  /\ e.streamOn = d.streamOn /\ e.readPos = d.readPos /\ e.skip = d.skip
  /\ e.progOn = d.progOn /\ e.progPos = d.progPos /\ e.column = d.column

LEMMA WaitedType ==
  ASSUME NEW d \in DrvType, NEW late \in BOOLEAN
  PROVE  /\ Waited(d, late) \in DrvType
         /\ Waited(d, late).phase = d.phase
         /\ SameCommand(d, Waited(d, late))
  BY DEF Waited, DrvType, SameCommand

LEMMA FinishAddrType ==
  ASSUME NEW d \in DrvType, NEW late \in BOOLEAN
  PROVE  /\ FinishAddr(d, late) \in DrvType
         /\ FinishAddr(d, late).phase = "none"
         /\ SameCommand(d, FinishAddr(d, late))
  <1> DEFINE w == Waited(d, late)
  <1>1. w \in DrvType /\ SameCommand(d, w)
    BY WaitedType
  <1>2. FinishAddr(d, late) = IF d.phase = "addr" THEN [w EXCEPT !.phase = "none"] ELSE d
    BY DEF FinishAddr
  <1> HIDE DEF w
  <1> QED BY <1>1, <1>2 DEF DrvType, SameCommand

LEMMA SendCommandType ==
  ASSUME NEW d \in DrvType, NEW cmd \in Commands, NEW late \in BOOLEAN
  PROVE  LET e == SendCommand(d, cmd, late) IN
         /\ e \in DrvType
         /\ ~Refused(d, cmd) =>
              /\ e.phase = "none" /\ e.cmd = cmd /\ ~e.streamOn
              /\ cmd = "SEQIN" => ~e.progOn
         /\ e.mutation = IF StartsMutation(cmd) THEN 0 ELSE d.mutation
  <1> DEFINE f == IF StartsMutation(cmd) THEN [d EXCEPT !.mutation = 0] ELSE d
             g == FinishAddr(f, late)
             h == Waited(g, late)
  <1>1. f \in DrvType /\ f.mutation = IF StartsMutation(cmd) THEN 0 ELSE d.mutation
    BY DEF DrvType
  <1>2. Refused(f, cmd) = Refused(d, cmd)
    BY DEF DrvType, Refused, StartsMutation
  <1>3. g \in DrvType /\ g.phase = "none" /\ g.mutation = f.mutation
    <2> HIDE DEF f
    <2> QED BY <1>1, FinishAddrType DEF SameCommand
  <1>4. h \in DrvType /\ h.phase = "none" /\ h.mutation = f.mutation
    <2> HIDE DEF f, g
    <2> QED BY <1>3, WaitedType DEF SameCommand
  <1>5. ColumnAfter(f, cmd) \in 0 .. RawBytes
    <2> HIDE DEF f
    <2> QED BY <1>1, Sizes DEF ColumnAfter, DrvType
  <1>6. AreaBase(cmd) \in {0, HalfPage, DataBytes}
    BY DEF AreaBase
  <1>7. SendCommand(d, cmd, late) =
          IF Refused(f, cmd) THEN [f EXCEPT !.failed = TRUE]
          ELSE [h EXCEPT
            !.cmd = cmd,
            !.streamOn = FALSE,
            !.skipDone = FALSE,
            !.areaBase = IF cmd \in AreaCmds THEN AreaBase(cmd) ELSE @,
            !.skip = IF cmd \in AreaCmds THEN AreaBase(cmd) ELSE @,
            !.column = ColumnAfter(f, cmd),
            !.progPos = IF cmd = "SEQIN" THEN 0 ELSE @,
            !.progOn = IF cmd \in {"SEQIN", "PAGEPROG"} THEN FALSE ELSE @]
    BY DEF SendCommand
  <1> HIDE DEF f, g, h
  <1>8. CASE Refused(f, cmd)
    BY <1>1, <1>2, <1>7, <1>8 DEF DrvType
  <1>9. CASE ~Refused(f, cmd)
    <2> DEFINE c == ColumnAfter(f, cmd)
               ab == IF cmd \in AreaCmds THEN AreaBase(cmd) ELSE h.areaBase
               sk == IF cmd \in AreaCmds THEN AreaBase(cmd) ELSE h.skip
               pp == IF cmd = "SEQIN" THEN 0 ELSE h.progPos
               po == IF cmd \in {"SEQIN", "PAGEPROG"} THEN FALSE ELSE h.progOn
    <2>2. SendCommand(d, cmd, late) =
            [h EXCEPT !.cmd = cmd, !.streamOn = FALSE, !.skipDone = FALSE,
                      !.areaBase = ab, !.skip = sk, !.column = c,
                      !.progPos = pp, !.progOn = po]
      BY <1>4, <1>7, <1>9 DEF DrvType
    <2>3. /\ c \in 0 .. RawBytes /\ pp \in 0 .. RawBytes /\ po \in BOOLEAN
          /\ ab \in {0, HalfPage, DataBytes} /\ sk \in {0, HalfPage, DataBytes}
      <3>1. c \in 0 .. RawBytes BY <1>5
      <3>2. pp \in 0 .. RawBytes BY <1>4, Sizes DEF DrvType
      <3>3. h.progOn \in BOOLEAN BY <1>4 DEF DrvType
      <3>4. po \in BOOLEAN BY <3>3
      <3>5. ab \in {0, HalfPage, DataBytes} BY <1>4, <1>6 DEF DrvType
      <3>6. sk \in {0, HalfPage, DataBytes} BY <1>4, <1>6 DEF DrvType
      <3> QED BY <3>1, <3>2, <3>4, <3>5, <3>6
    <2>1. SendCommand(d, cmd, late) \in DrvType
      <3> HIDE DEF c, ab, sk, pp, po
      <3> QED BY <1>4, <2>2, <2>3, ZenonT(40) DEF DrvType
    <2> QED BY <2>1, <1>1, <1>4, <1>7, <1>9 DEF DrvType
  <1> QED BY <1>2, <1>8, <1>9

LEMMA BeginAddrType ==
  ASSUME NEW d \in DrvType
  PROVE  LET e == BeginAddr(d) IN
         /\ e \in DrvType /\ e.phase = "addr"
         /\ e.addrPos = IF d.phase = "addr" THEN d.addrPos ELSE 0
         /\ e.cmd = d.cmd /\ e.mutation = d.mutation /\ e.column = d.column
         /\ e.streamOn = d.streamOn /\ e.progOn = d.progOn
  BY DEF BeginAddr, DrvType

LEMMA ReadPageType ==
  ASSUME NEW d \in DrvType, NEW b \in Nat PROVE ReadPage(d, b) \in Nat
  <1>1. PageByte(b, 1) \in Nat
    BY PageByteNat
  <1> QED BY <1>1 DEF ReadPage, DrvType

\* The byte as the driver counts it into the page of a mutation.
LEMMA SendAddrType ==
  ASSUME NEW d \in DrvType, NEW b \in Nat,
         d.cmd = "SEQIN" /\ (d.phase # "addr" \/ d.addrPos = 0) => b = 0
  PROVE  LET e == SendAddr(d, b)
             at == IF d.phase = "addr" THEN d.addrPos ELSE 0
         IN
         /\ e \in DrvType /\ e.phase = "addr" /\ e.addrPos = at + 1 /\ e.cmd = d.cmd
         /\ e.streamOn = d.streamOn /\ e.progOn = d.progOn
         /\ e.mutation =
              CASE d.cmd = "SEQIN" /\ at > 0 -> d.mutation + PageByte(b, at - 1)
                [] d.cmd = "ERASE1" -> d.mutation + PageByte(b, at)
                [] OTHER -> d.mutation
  <1> DEFINE e == BeginAddr(d)
             at == IF d.phase = "addr" THEN d.addrPos ELSE 0
             co == IF e.cmd = "SEQIN" /\ e.addrPos = 0 THEN e.column + b ELSE e.column
             mu == CASE e.cmd = "SEQIN" /\ e.addrPos > 0 ->
                           e.mutation + PageByte(b, e.addrPos - 1)
                     [] e.cmd = "ERASE1" -> e.mutation + PageByte(b, e.addrPos)
                     [] OTHER -> e.mutation
             rp == ReadPage(e, b)
  <1>1. /\ e \in DrvType /\ e.phase = "addr" /\ e.addrPos = at /\ e.cmd = d.cmd
        /\ e.mutation = d.mutation /\ e.column = d.column
        /\ e.streamOn = d.streamOn /\ e.progOn = d.progOn
    BY BeginAddrType
  <1>2. SendAddr(d, b) = [e EXCEPT !.column = co, !.mutation = mu, !.readPage = rp,
                                   !.addrPos = e.addrPos + 1]
    BY DEF SendAddr
  <1>a. at \in Nat
    BY DEF DrvType
  <1> HIDE DEF e, at
  <1>3. co \in 0 .. RawBytes
    <2>1. e.cmd = "SEQIN" /\ e.addrPos = 0 => b = 0
      BY <1>1 DEF at
    <2> QED BY <2>1, <1>1 DEF DrvType
  <1>4. mu \in Nat
    <2>a. e.addrPos \in Int /\ e.addrPos - 1 \in Int
      BY <1>1, <1>a
    <2>1. PageByte(b, e.addrPos - 1) \in Nat /\ PageByte(b, e.addrPos) \in Nat
      BY <2>a, PageByteNat
    <2> QED BY <2>1, <1>1 DEF DrvType
  <1>5. rp \in Nat
    BY <1>1, ReadPageType
  <1>6. mu = CASE d.cmd = "SEQIN" /\ at > 0 -> d.mutation + PageByte(b, at - 1)
               [] d.cmd = "ERASE1" -> d.mutation + PageByte(b, at)
               [] OTHER -> d.mutation
    BY <1>1
  <1>b. e.addrPos + 1 \in Nat
    BY <1>1, <1>a
  <1>7. SendAddr(d, b) \in DrvType
    <2> DEFINE ap == e.addrPos + 1
    <2>1. SendAddr(d, b) = [e EXCEPT !.column = co, !.mutation = mu, !.readPage = rp,
                                     !.addrPos = ap]
      BY <1>2
    <2>2. ap \in Nat
      BY <1>b
    <2> HIDE DEF co, mu, rp, ap
    <2> QED BY <1>1, <2>1, <2>2, <1>3, <1>4, <1>5 DEF DrvType
  <1>8. /\ SendAddr(d, b).phase = "addr" /\ SendAddr(d, b).addrPos = at + 1
        /\ SendAddr(d, b).cmd = d.cmd
        /\ SendAddr(d, b).streamOn = d.streamOn /\ SendAddr(d, b).progOn = d.progOn
        /\ SendAddr(d, b).mutation = mu
    <2> HIDE DEF co, mu, rp
    <2> QED BY <1>1, <1>2 DEF DrvType
  <1> QED BY <1>6, <1>7, <1>8 DEF at

\* The chip's latch.
LEMMA LatchCmdType ==
  ASSUME NEW c \in ChipType, NEW cmd \in Commands
  PROVE  LET e == LatchCmd(c, cmd) IN
         /\ e \in ChipType /\ e.cmd = cmd /\ e.hung = c.hung
         /\ cmd \in AreaCmds \cup {"SEQIN", "ERASE1"} => e.cycle = 0 /\ e.row = 0
  BY DEF LatchCmd, ChipType

LEMMA LatchByteType ==
  ASSUME NEW c \in ChipType, NEW b \in Nat
  PROVE  LET e == LatchByte(c, b)
             i == IF c.cmd = "ERASE1" THEN c.cycle ELSE c.cycle - 1
         IN
         /\ e \in ChipType /\ e.cmd = c.cmd /\ e.hung = c.hung /\ e.cycle = c.cycle + 1
         /\ e.row = IF i >= 0 THEN c.row + PageByte(b, i) ELSE c.row
  <1> DEFINE i == IF c.cmd = "ERASE1" THEN c.cycle ELSE c.cycle - 1
  <1>1. i \in Int
    BY DEF ChipType
  <1>2. PageByte(b, i) \in Nat
    BY <1>1, PageByteNat
  <1> DEFINE cy == c.cycle + 1
             ro == IF i >= 0 THEN c.row + PageByte(b, i) ELSE c.row
  <1>3. LatchByte(c, b) = [c EXCEPT !.cycle = cy, !.row = ro]
    BY DEF LatchByte
  <1>6. cy \in Nat /\ ro \in Nat
    <2> HIDE DEF i
    <2> QED BY <1>1, <1>2 DEF ChipType
  <1> HIDE DEF i, cy, ro
  <1>4. LatchByte(c, b) \in ChipType
    BY <1>3, <1>6 DEF ChipType
  <1>5. /\ LatchByte(c, b).cmd = c.cmd /\ LatchByte(c, b).hung = c.hung
        /\ LatchByte(c, b).cycle = cy /\ LatchByte(c, b).row = ro
    BY <1>3, <1>6 DEF ChipType
  <1> QED BY <1>4, <1>5 DEF i, cy, ro

LEMMA StreamedByteType == ASSUME TypeOK PROVE StreamedByte \in {0, 1}
  <1>1. ASSUME NEW i PROVE CellAt(chip.row, i) \in {0, 1}
    BY DEF CellAt, TypeOK
  <1> QED BY <1>1 DEF StreamedByte

LEMMA LeftAtFacts ==
  ASSUME NEW n \in 0 .. RawBytes
  PROVE  /\ LeftAt(n) \in 0 .. Burst
         /\ n < RawBytes /\ n # Burst => LeftAt(n) >= 1 /\ LeftAt(n + 1) = LeftAt(n) - 1
         /\ n = Burst => LeftAt(n + 1) = TagBytes - 1 /\ TagBytes >= 1
  BY Sizes DEF LeftAt

\* The engine as the driver leaves it before the byte at its position.
NextMode(c) == IF c.pos = Burst THEN SetMode(c, TagBytes, Burst) ELSE c

InBurst(c) == c \in ChipType /\ ~c.hung /\ c.left = LeftAt(c.pos)

LEMMA NextModeType ==
  ASSUME NEW c, InBurst(c), c.pos < RawBytes
  PROVE  LET m == NextMode(c) IN
         /\ m \in ChipType /\ ~m.hung /\ m.left = LeftAt(c.pos + 1) + 1 /\ m.pos = c.pos
         /\ m.cmd = c.cmd /\ m.row = c.row /\ m.reg = c.reg
  <1> DEFINE x == LeftAt(c.pos + 1)
             n == c.pos
  <1>1. /\ c \in ChipType /\ ~c.hung /\ n \in 0 .. RawBytes /\ c.left = LeftAt(n)
        /\ n < RawBytes /\ n \in Int
    BY DEF InBurst, ChipType
  <1>2. /\ n # Burst => LeftAt(n) = x + 1
        /\ n = Burst => TagBytes = x + 1
    BY <1>1, Sizes DEF LeftAt
  <1>3. CASE n # Burst
    <2>1. NextMode(c) = c
      BY <1>3 DEF NextMode
    <2> QED BY <1>1, <1>2, <1>3, <2>1
  <1>4. CASE n = Burst
    <2>1. NextMode(c) = [c EXCEPT !.left = TagBytes, !.pos = Burst]
      BY <1>4 DEF NextMode, SetMode
    <2>2. TagBytes \in 0 .. Burst /\ TagBytes = x + 1 /\ Burst \in 0 .. RawBytes
      BY <1>4, <1>2, Sizes
    <2>3. LET m == NextMode(c) IN
          /\ m \in ChipType /\ ~m.hung /\ m.left = TagBytes /\ m.pos = Burst
          /\ m.cmd = c.cmd /\ m.row = c.row /\ m.reg = c.reg
      BY <1>1, <2>1, <2>2 DEF ChipType
    <2> QED BY <1>4, <2>2, <2>3
  <1> QED BY <1>3, <1>4

\* The engine's side of one byte, when it is not past the burst.
LEMMA StreamType ==
  ASSUME NEW c \in ChipType, NEW x \in Nat, ~c.hung, c.left = x + 1, c.pos < RawBytes
  PROVE  LET s == Stream(c, 1) IN
         /\ s \in ChipType /\ ~s.hung /\ s.cmd = c.cmd /\ s.row = c.row
         /\ s.pos = c.pos + 1 /\ s.left = x
  <1> DEFINE y == c.pos + 1
  <1>1. c.left - 1 = x /\ c.left >= 1 /\ x \in 0 .. Burst /\ y \in 0 .. RawBytes
    BY Sizes DEF ChipType
  <1>2. Stream(c, 1) = [c EXCEPT !.left = x, !.pos = y]
    BY <1>1 DEF Stream
  <1> HIDE DEF y
  <1>3. LET s == Stream(c, 1) IN
        /\ s \in ChipType /\ ~s.hung /\ s.cmd = c.cmd /\ s.row = c.row
        /\ s.pos = y /\ s.left = x
    BY <1>1, <1>2 DEF ChipType
  <1> QED BY <1>3 DEF y

LEMMA BurstRead ==
  ASSUME NEW c, InBurst(c), c.pos < RawBytes
  PROVE  LET s == Stream(NextMode(c), 1) IN
         InBurst(s) /\ s.pos = c.pos + 1 /\ s.cmd = c.cmd /\ s.row = c.row
  <1> DEFINE x == LeftAt(c.pos + 1)
             m == NextMode(c)
             s == Stream(m, 1)
  <1>1. x \in Nat
    BY Sizes DEF InBurst, ChipType, LeftAt
  <1>2. /\ m \in ChipType /\ ~m.hung /\ m.left = x + 1 /\ m.pos = c.pos
        /\ m.cmd = c.cmd /\ m.row = c.row
    BY NextModeType
  <1> HIDE DEF x, m
  <1>3. /\ s \in ChipType /\ ~s.hung /\ s.cmd = m.cmd /\ s.row = m.row
        /\ s.pos = m.pos + 1 /\ s.left = x
    BY <1>1, <1>2, StreamType
  <1> HIDE DEF s
  <1> QED BY <1>2, <1>3 DEF InBurst, x, m, s

LEMMA BurstWrite ==
  ASSUME NEW c, InBurst(c), c.pos < RawBytes, NEW r \in [Offset -> {0, 1}]
  PROVE  LET s == Stream([NextMode(c) EXCEPT !.reg = r], 1) IN
         InBurst(s) /\ s.pos = c.pos + 1 /\ s.cmd = c.cmd /\ s.row = c.row
  <1> DEFINE x == LeftAt(c.pos + 1)
             m == NextMode(c)
             k == [m EXCEPT !.reg = r]
             s == Stream(k, 1)
  <1>1. x \in Nat
    BY Sizes DEF InBurst, ChipType, LeftAt
  <1>2. /\ m \in ChipType /\ ~m.hung /\ m.left = x + 1 /\ m.pos = c.pos
        /\ m.cmd = c.cmd /\ m.row = c.row
    BY NextModeType
  <1> HIDE DEF x, m
  <1>4. /\ k \in ChipType /\ ~k.hung /\ k.left = x + 1 /\ k.pos = c.pos
        /\ k.cmd = c.cmd /\ k.row = c.row
    BY <1>2 DEF ChipType
  <1> HIDE DEF k
  <1>3. /\ s \in ChipType /\ ~s.hung /\ s.cmd = k.cmd /\ s.row = k.row
        /\ s.pos = k.pos + 1 /\ s.left = x
    BY <1>1, <1>2, <1>4, StreamType
  <1> HIDE DEF s
  <1> QED BY <1>3, <1>4 DEF InBurst, x, m, k, s

\* A byte taken from the stream keeps the driver's position and the engine's
\* burst in step.
LEMMA ReadByteStep ==
  ASSUME TypeOK, ~chip.hung, BurstAt(drv.readPos), NEW late \in BOOLEAN
  PROVE  LET d == StreamReadByte(drv, late)
             c == ReadStreamed
         IN
         /\ d \in DrvType /\ d.streamOn = drv.streamOn
         /\ c \in ChipType /\ ~c.hung /\ c.pos = d.readPos /\ c.left = LeftAt(d.readPos)
  <1>0. /\ drv \in DrvType /\ chip \in ChipType /\ drv.readPos \in 0 .. RawBytes
        /\ chip.pos = drv.readPos /\ chip.left = LeftAt(drv.readPos)
        /\ chip.reg \in [Offset -> {0, 1}]
    BY DEF TypeOK, BurstAt, LeftAt, DrvType, ChipType
  <1>1. CASE drv.readPos >= RawBytes
    BY <1>0, <1>1 DEF StreamReadByte, ReadStreamed
  <1>2. CASE ~(drv.readPos >= RawBytes)
    <2> DEFINE w == Waited(drv, late /\ drv.readPos = Burst)
               n == drv.readPos + 1
               t == IF drv.readPos \in DataBytes .. Burst - 1
                    THEN [w.tag EXCEPT ![drv.readPos - DataBytes] = StreamedByte] ELSE w.tag
    <2>1. (late /\ drv.readPos = Burst) \in BOOLEAN
      OBVIOUS
    <2>2. w \in DrvType /\ w.readPos = drv.readPos /\ w.streamOn = drv.streamOn
      BY <2>1, <1>0, WaitedType DEF SameCommand
    <2>3. StreamReadByte(drv, late) = [w EXCEPT !.readPos = n, !.tag = t]
      BY <1>2, <2>2 DEF StreamReadByte
    <2>4. n \in 0 .. RawBytes /\ drv.readPos < RawBytes
      BY <1>0, <1>2, Sizes
    <2>5. t \in [0 .. TagBytes - 1 -> {0, 1}]
      <3> HIDE DEF w
      <3> QED BY <2>2, StreamedByteType DEF DrvType
    <2>6. LET d == StreamReadByte(drv, late) IN
          d \in DrvType /\ d.readPos = n /\ d.streamOn = w.streamOn
      <3> HIDE DEF w, n, t
      <3> QED BY <2>2, <2>3, <2>4, <2>5 DEF DrvType
    <2>7. LET c == ReadStreamed IN
          c \in ChipType /\ ~c.hung /\ c.pos = n /\ c.left = LeftAt(n)
      <3>1. ReadStreamed = Stream(NextMode(chip), 1)
        BY <1>0, <1>2 DEF ReadStreamed, ReadMode, NextMode
      <3>2. InBurst(chip) /\ chip.pos < RawBytes
        BY <1>0, <2>4 DEF InBurst
      <3>3. LET s == Stream(NextMode(chip), 1) IN InBurst(s) /\ s.pos = chip.pos + 1
        BY <3>2, BurstRead
      <3> HIDE DEF w, t
      <3> QED BY <1>0, <3>1, <3>3 DEF InBurst
    <2> HIDE DEF w, n, t
    <2> QED BY <2>2, <2>6, <2>7
  <1> QED BY <1>1, <1>2

LEMMA WriteByteStep ==
  ASSUME TypeOK, ~chip.hung, BurstAt(drv.progPos), NEW late \in BOOLEAN, NEW b \in {0, 1}
  PROVE  LET d == StreamWriteByte(drv, late)
             c == WriteStreamed(b)
         IN
         /\ d \in DrvType /\ d.progOn = drv.progOn /\ d.cmd = drv.cmd
         /\ d.mutation = drv.mutation
         /\ c \in ChipType /\ ~c.hung /\ c.cmd = chip.cmd /\ c.row = chip.row
         /\ c.pos = d.progPos /\ c.left = LeftAt(d.progPos)
  <1>0. /\ drv \in DrvType /\ chip \in ChipType /\ drv.progPos \in 0 .. RawBytes
        /\ chip.pos = drv.progPos /\ chip.left = LeftAt(drv.progPos)
    BY DEF TypeOK, BurstAt, LeftAt, DrvType, ChipType
  <1>1. CASE drv.progPos >= RawBytes
    BY <1>0, <1>1 DEF StreamWriteByte, WriteStreamed
  <1>2. CASE ~(drv.progPos >= RawBytes)
    <2> DEFINE w == Waited(drv, late /\ drv.progPos = Burst)
               n == drv.progPos + 1
    <2>1. (late /\ drv.progPos = Burst) \in BOOLEAN
      OBVIOUS
    <2>2. w \in DrvType /\ SameCommand(drv, w)
      BY <2>1, <1>0, WaitedType
    <2>3. StreamWriteByte(drv, late) = [w EXCEPT !.progPos = n]
      BY <1>2, <2>2 DEF StreamWriteByte, SameCommand
    <2>4. n \in 0 .. RawBytes /\ drv.progPos < RawBytes
      BY <1>0, <1>2, Sizes
    <2>6. LET d == StreamWriteByte(drv, late) IN
          /\ d \in DrvType /\ d.progPos = n
          /\ d.progOn = drv.progOn /\ d.cmd = drv.cmd /\ d.mutation = drv.mutation
      <3> HIDE DEF w, n
      <3> QED BY <1>0, <2>2, <2>3, <2>4 DEF DrvType, SameCommand
    <2>7. InBurst(chip) /\ chip.pos < RawBytes
      BY <1>0, <2>4 DEF InBurst
    <2> DEFINE m == NextMode(chip)
               r == [i \in Offset |-> IF i = m.pos THEN b ELSE m.reg[i]]
    <2>8. r \in [Offset -> {0, 1}]
      <3>1. m.reg \in [Offset -> {0, 1}]
        BY <2>7, NextModeType DEF ChipType
      <3> HIDE DEF m
      <3> QED BY <3>1
    <2>9. WriteStreamed(b) = Stream([m EXCEPT !.reg = r], 1)
      BY <1>0, <1>2 DEF WriteStreamed, ProgramMode, NextMode
    <2> HIDE DEF r
    <2>10. LET c == WriteStreamed(b) IN
           /\ c \in ChipType /\ ~c.hung /\ c.cmd = chip.cmd /\ c.row = chip.row
           /\ c.pos = n /\ c.left = LeftAt(n)
      <3>1. LET s == Stream([m EXCEPT !.reg = r], 1) IN
            InBurst(s) /\ s.pos = chip.pos + 1 /\ s.cmd = chip.cmd /\ s.row = chip.row
        BY <2>7, <2>8, BurstWrite
      <3> HIDE DEF w, m
      <3> QED BY <1>0, <2>9, <3>1 DEF InBurst
    <2> HIDE DEF w, n
    <2> QED BY <2>6, <2>10
  <1> QED BY <1>1, <1>2

----------------------------------------------------------------------------
\* What the pieces shared by several actions do to the variables.

KeepsCall ==
  /\ client'.kind = client.kind /\ client'.page = client.page
  /\ client'.column = client.column /\ client'.image = client.image
  /\ client'.now = client.now /\ client'.later = client.later

LEMMA GotoType ==
  ASSUME client \in ClientType, NEW q \in PCs, Goto(q)
  PROVE  client' \in ClientType /\ client'.pc = q /\ KeepsCall
  BY DEF Goto, ClientType, KeepsCall

LEMMA IssueType ==
  ASSUME TypeOK, NEW cmd \in AreaCmds \cup {"SEQIN", "ERASE1", "STATUS"}, Issue(cmd)
  PROVE  /\ drv' \in DrvType /\ chip' \in ChipType /\ cells' = cells /\ loop' = loop
         /\ drv'.phase = "none" /\ drv'.cmd = cmd /\ chip'.cmd = cmd
         /\ ~drv'.streamOn /\ (cmd = "SEQIN" => ~drv'.progOn)
         /\ chip'.hung = chip.hung
         /\ cmd # "STATUS" => chip'.cycle = 0
         /\ cmd \in {"SEQIN", "ERASE1"} => drv'.mutation = chip'.row
  <1>1. drv \in DrvType /\ chip \in ChipType /\ cmd \in Commands
    BY DEF TypeOK, Commands
  <1>2. ~Refused(drv, cmd)
    BY DEF Refused, AreaCmds
  <1>3. PICK late \in BOOLEAN : drv' = SendCommand(drv, cmd, late)
    BY DEF Issue
  <1>4. chip' = LatchCmd(chip, cmd) /\ cells' = cells /\ loop' = loop
    BY DEF Issue
  <1>5. /\ drv' \in DrvType /\ drv'.phase = "none" /\ drv'.cmd = cmd /\ ~drv'.streamOn
        /\ cmd = "SEQIN" => ~drv'.progOn
        /\ drv'.mutation = IF StartsMutation(cmd) THEN 0 ELSE drv.mutation
    BY <1>1, <1>2, <1>3, SendCommandType
  <1>6. /\ chip' \in ChipType /\ chip'.cmd = cmd /\ chip'.hung = chip.hung
        /\ cmd \in AreaCmds \cup {"SEQIN", "ERASE1"} => chip'.cycle = 0 /\ chip'.row = 0
    BY <1>1, <1>4, LatchCmdType
  <1> QED BY <1>4, <1>5, <1>6 DEF StartsMutation

\* Both sides count the same byte into the page when they agree on its position.
LEMMA SendByteType ==
  ASSUME TypeOK, NEW b \in Nat, SendByte(b), drv.cmd = chip.cmd,
         NEW at \in Nat, at = IF drv.phase = "addr" THEN drv.addrPos ELSE 0,
         at = chip.cycle, drv.cmd = "SEQIN" /\ at = 0 => b = 0
  PROVE  /\ drv' \in DrvType /\ chip' \in ChipType /\ cells' = cells /\ loop' = loop
         /\ drv'.phase = "addr" /\ drv'.addrPos = at + 1 /\ chip'.cycle = at + 1
         /\ drv'.cmd = drv.cmd /\ chip'.cmd = chip.cmd /\ chip'.hung = chip.hung
         /\ drv'.streamOn = drv.streamOn /\ drv'.progOn = drv.progOn
         /\ drv.cmd \in {"SEQIN", "ERASE1"} /\ drv.mutation = chip.row
              => drv'.mutation = chip'.row
  <1>1. drv \in DrvType /\ chip \in ChipType
    BY DEF TypeOK
  <1>2. /\ drv' = SendAddr(drv, b) /\ chip' = LatchByte(chip, b)
        /\ cells' = cells /\ loop' = loop
    BY DEF SendByte
  <1>3. drv.cmd = "SEQIN" /\ (drv.phase # "addr" \/ drv.addrPos = 0) => b = 0
    OBVIOUS
  <1>4. /\ drv' \in DrvType /\ drv'.phase = "addr" /\ drv'.addrPos = at + 1
        /\ drv'.cmd = drv.cmd
        /\ drv'.streamOn = drv.streamOn /\ drv'.progOn = drv.progOn
        /\ drv'.mutation =
             CASE drv.cmd = "SEQIN" /\ at > 0 -> drv.mutation + PageByte(b, at - 1)
               [] drv.cmd = "ERASE1" -> drv.mutation + PageByte(b, at)
               [] OTHER -> drv.mutation
    BY <1>1, <1>2, <1>3, SendAddrType
  <1> DEFINE i == IF chip.cmd = "ERASE1" THEN chip.cycle ELSE chip.cycle - 1
  <1>5. /\ chip' \in ChipType /\ chip'.cmd = chip.cmd /\ chip'.hung = chip.hung
        /\ chip'.cycle = at + 1
        /\ chip'.row = IF i >= 0 THEN chip.row + PageByte(b, i) ELSE chip.row
    BY <1>1, <1>2, LatchByteType, ZenonT(40)
  <1>6. drv.cmd = "SEQIN" /\ drv.mutation = chip.row => drv'.mutation = chip'.row
    BY <1>4, <1>5
  <1>7. drv.cmd = "ERASE1" /\ drv.mutation = chip.row => drv'.mutation = chip'.row
    BY <1>4, <1>5
  <1> QED BY <1>2, <1>4, <1>5, <1>6, <1>7

LEMMA Bytes ==
  ASSUME NEW p \in PageNo
  PROVE  p % ByteBase \in Nat /\ p \div ByteBase \in Nat
  BY GeometryAssumption DEF PageNo

LEMMA Held ==
  ASSUME IInv
  PROVE  /\ TypeOK /\ drv \in DrvType /\ chip \in ChipType /\ client \in ClientType
         /\ loop \in LoopType /\ cells \in [PageNo -> [Offset -> {0, 1}]]
         /\ client.pc \in PCs /\ client.kind \in Kinds /\ client.column \in Columns
         /\ client.page \in PageNo /\ client.image \in [Offset -> {0, 1}]
         /\ client.now \in 0 .. RawBytes /\ client.later \in 0 .. RawBytes
         /\ loop.skip \in 0 .. RawBytes /\ loop.want \in 0 .. RawBytes /\ ~chip.hung
  BY DEF IInv, TypeOK, ClientType, LoopType

----------------------------------------------------------------------------
\* One lemma per action.

LEMMA CallType ==
  ASSUME NEW q \in PCs, NEW k \in Kinds, NEW p \in PageNo, NEW c \in Columns,
         NEW im \in [Offset -> {0, 1}], NEW n \in 0 .. RawBytes, NEW m \in 0 .. RawBytes
  PROVE  LET e == Call(q, k, p, c, im, n, m) IN
         /\ e \in ClientType /\ e.pc = q /\ e.kind = k /\ e.column = c
         /\ e.now = n /\ e.later = m
  BY DEF Call, ClientType

LEMMA NoLoopType ==
  ASSUME TypeOK
  PROVE  NoLoop(cells) \in LoopType /\ NoLoop(cells).skip = 0 /\ NoLoop(cells).want = 0
  BY Sizes DEF NoLoop, LoopType, TypeOK

LEMMA StartStep == ASSUME IInv, Start PROVE IInv'
  <1>1. /\ drv' = drv /\ chip' = chip /\ cells' = cells /\ loop' = NoLoop(cells)
    BY DEF Start
  <1>2. loop' \in LoopType /\ loop'.skip = 0 /\ loop'.want = 0
    BY <1>1, Held, NoLoopType
  <1>3. /\ client' \in ClientType /\ client'.pc \in {"area", "command"}
        /\ client'.kind = "program" => client'.column + client'.now + client'.later = RawBytes
    <2>1. PICK p \in PageNo :
            \/ \E c \in Columns : \E n \in FirstCall(c) :
                 LET m == RawBytes - c - n IN
                 \/ client' = Call("command", "read", p, c, Blank, n, m)
                 \/ \E im \in Patterns : client' = Call("area", "program", p, c, im, n, m)
            \/ client' = Call("command", "erase", p, 0, Blank, 0, 0)
      BY DEF Start
    <2>2. Blank \in [Offset -> {0, 1}] /\ 0 \in Columns /\ 0 \in 0 .. RawBytes
      BY Sizes DEF Blank, Columns
    <2>3. CASE client' = Call("command", "erase", p, 0, Blank, 0, 0)
      BY <2>2, <2>3, CallType DEF PCs, Kinds
    <2>4. CASE \E c \in Columns : \E n \in FirstCall(c) :
                 LET m == RawBytes - c - n IN
                 \/ client' = Call("command", "read", p, c, Blank, n, m)
                 \/ \E im \in Patterns : client' = Call("area", "program", p, c, im, n, m)
      <3>a. PICK c \in Columns : \E n \in FirstCall(c) :
              \/ client' = Call("command", "read", p, c, Blank, n, RawBytes - c - n)
              \/ \E im \in Patterns :
                   client' = Call("area", "program", p, c, im, n, RawBytes - c - n)
        BY <2>4
      <3>1. PICK n \in FirstCall(c) :
              \/ client' = Call("command", "read", p, c, Blank, n, RawBytes - c - n)
              \/ \E im \in Patterns :
                   client' = Call("area", "program", p, c, im, n, RawBytes - c - n)
        BY <3>a
      <3>2. /\ c \in 0 .. RawBytes /\ n \in 0 .. RawBytes
            /\ RawBytes - c - n \in 0 .. RawBytes /\ c + n + (RawBytes - c - n) = RawBytes
        BY Sizes DEF Columns, FirstCall
      <3>3. CASE client' = Call("command", "read", p, c, Blank, n, RawBytes - c - n)
        <4> DEFINE m == RawBytes - c - n
        <4> HIDE DEF m
        <4>1. client' = Call("command", "read", p, c, Blank, n, m) /\ m \in 0 .. RawBytes
          BY <3>2, <3>3 DEF m
        <4>2. "command" \in PCs /\ "read" \in Kinds
          BY DEF PCs, Kinds
        <4> QED BY <4>1, <4>2, <2>2, <3>2, CallType
      <3>4. CASE \E im \in Patterns :
                   client' = Call("area", "program", p, c, im, n, RawBytes - c - n)
        <4> DEFINE m == RawBytes - c - n
        <4>1. m \in 0 .. RawBytes /\ c + n + m = RawBytes
          BY <3>2
        <4> HIDE DEF m
        <4>2. PICK im \in Patterns : client' = Call("area", "program", p, c, im, n, m)
          BY <3>4 DEF m
        <4>3. im \in [Offset -> {0, 1}]
          BY GeometryAssumption
        <4>4. "area" \in PCs /\ "program" \in Kinds
          BY DEF PCs, Kinds
        <4> QED BY <4>1, <4>2, <4>3, <4>4, <3>2, CallType
      <3> QED BY <3>1, <3>3, <3>4
    <2> QED BY <2>1, <2>3, <2>4
  <1>4. TypeOK' /\ ~chip'.hung
    BY <1>1, <1>2, <1>3, Held DEF TypeOK
  <1>5. AddrInv' /\ ReadInv' /\ WriteInv'
    BY <1>3 DEF AddrInv, ReadInv, WriteInv
  <1>6. SizeInv'
    <2>1. client'.column \in Nat /\ client'.now \in Nat /\ client'.later \in Nat
      BY <1>3, Sizes DEF ClientType, Columns
    <2>2. client'.column + loop'.skip + loop'.want + client'.now + client'.later
          = client'.column + client'.now + client'.later
      BY <1>2, <2>1
    <2>3. client'.pc # "write"
      BY <1>3
    <2> QED BY <1>2, <1>3, <2>2, <2>3 DEF SizeInv
  <1> QED BY <1>4, <1>5, <1>6 DEF IInv

LEMMA SelectAreaStep == ASSUME IInv, SelectArea PROVE IInv'
  <1>1. client.pc = "area" /\ Issue(AreaOf(client.column)) /\ Goto("command")
    BY DEF SelectArea, At
  <1>2. AreaOf(client.column) \in AreaCmds
    BY DEF AreaOf, AreaCmds
  <1>3. client' \in ClientType /\ client'.pc = "command" /\ KeepsCall
    BY <1>1, Held, GotoType DEF PCs
  <1>4. drv' \in DrvType /\ chip' \in ChipType /\ ~chip'.hung /\ cells' = cells /\ loop' = loop
    BY <1>1, <1>2, Held, IssueType
  <1>5. TypeOK'
    BY <1>3, <1>4, Held DEF TypeOK
  <1>6. AddrInv' /\ ReadInv' /\ WriteInv'
    BY <1>3 DEF AddrInv, ReadInv, WriteInv
  <1>7. SizeInv'
    BY <1>1, <1>3, <1>4 DEF IInv, SizeInv, KeepsCall
  <1> QED BY <1>4, <1>5, <1>6, <1>7 DEF IInv

LEMMA SendMainStep == ASSUME IInv, SendMain PROVE IInv'
  <1>1. /\ client.pc = "command" /\ Issue(MainCommand)
        /\ Goto(IF client.kind = "erase" THEN "low" ELSE "column")
    BY DEF SendMain, At
  <1>2. /\ MainCommand \in AreaCmds \cup {"SEQIN", "ERASE1"}
        /\ client.kind = "program" => MainCommand = "SEQIN"
        /\ client.kind = "erase" => MainCommand = "ERASE1"
        /\ client.kind = "read" => MainCommand \in AreaCmds
    BY Held DEF MainCommand, AreaOf, AreaCmds, Kinds
  <1>3. /\ client' \in ClientType /\ KeepsCall
        /\ client'.pc = IF client.kind = "erase" THEN "low" ELSE "column"
    BY <1>1, Held, GotoType DEF PCs
  <1>4. /\ drv' \in DrvType /\ chip' \in ChipType /\ cells' = cells /\ loop' = loop
        /\ drv'.phase = "none" /\ drv'.cmd = MainCommand /\ chip'.cmd = MainCommand
        /\ ~drv'.streamOn /\ (MainCommand = "SEQIN" => ~drv'.progOn)
        /\ ~chip'.hung /\ chip'.cycle = 0
        /\ MainCommand \in {"SEQIN", "ERASE1"} => drv'.mutation = chip'.row
    <2> DEFINE mc == MainCommand
    <2>1. mc \in AreaCmds \cup {"SEQIN", "ERASE1", "STATUS"} /\ mc # "STATUS"
      BY <1>2 DEF AreaCmds
    <2>2. Issue(mc)
      BY <1>1
    <2> HIDE DEF mc
    <2>3. /\ drv' \in DrvType /\ chip' \in ChipType /\ cells' = cells /\ loop' = loop
          /\ drv'.phase = "none" /\ drv'.cmd = mc /\ chip'.cmd = mc
          /\ ~drv'.streamOn /\ (mc = "SEQIN" => ~drv'.progOn)
          /\ ~chip'.hung /\ chip'.cycle = 0
          /\ mc \in {"SEQIN", "ERASE1"} => drv'.mutation = chip'.row
      BY <2>1, <2>2, Held, IssueType
    <2> QED BY <2>3 DEF mc
  <1>5. TypeOK'
    BY <1>3, <1>4, Held DEF TypeOK
  <1>a. client'.kind \in Kinds
    BY <1>3 DEF ClientType
  <1>6. AddrInv'
    BY <1>2, <1>3, <1>4, <1>a DEF AddrInv, KeepsCall, Kinds
  <1>7. ReadInv' /\ WriteInv'
    BY <1>2, <1>3, <1>4 DEF ReadInv, WriteInv, KeepsCall
  <1>8. SizeInv'
    BY <1>1, <1>3, <1>4 DEF IInv, SizeInv, KeepsCall
  <1> QED BY <1>4, <1>5, <1>6, <1>7, <1>8 DEF IInv

LEMMA SendColumnStep == ASSUME IInv, SendColumn PROVE IInv'
  <1>1. client.pc = "column" /\ SendByte(0) /\ Goto("low")
    BY DEF SendColumn, At
  <1>2. /\ drv.phase = "none" /\ chip.cycle = 0 /\ chip.cmd = drv.cmd
        /\ client.kind \in {"program", "read"}
        /\ client.kind = "program" => drv.cmd = "SEQIN" /\ drv.mutation = chip.row
        /\ client.kind = "read" => drv.cmd \in AreaCmds
    BY <1>1, Held DEF IInv, AddrInv, Kinds
  <1>3. client' \in ClientType /\ client'.pc = "low" /\ KeepsCall
    BY <1>1, Held, GotoType DEF PCs
  <1>4. /\ drv' \in DrvType /\ chip' \in ChipType /\ cells' = cells /\ loop' = loop
        /\ drv'.phase = "addr" /\ drv'.addrPos = 1 /\ chip'.cycle = 1
        /\ drv'.cmd = drv.cmd /\ chip'.cmd = chip.cmd /\ ~chip'.hung
        /\ drv'.streamOn = drv.streamOn /\ drv'.progOn = drv.progOn
        /\ drv.cmd = "SEQIN" /\ drv.mutation = chip.row => drv'.mutation = chip'.row
    <2> DEFINE at == 0
    <2>1. at \in Nat /\ at = IF drv.phase = "addr" THEN drv.addrPos ELSE 0
      BY <1>2
    <2> HIDE DEF at
    <2>2. at = chip.cycle
      BY <1>2 DEF at
    <2>3. /\ drv' \in DrvType /\ chip' \in ChipType /\ cells' = cells /\ loop' = loop
          /\ drv'.phase = "addr" /\ drv'.addrPos = at + 1 /\ chip'.cycle = at + 1
          /\ drv'.cmd = drv.cmd /\ chip'.cmd = chip.cmd /\ ~chip'.hung
          /\ drv'.streamOn = drv.streamOn /\ drv'.progOn = drv.progOn
          /\ drv.cmd = "SEQIN" /\ drv.mutation = chip.row => drv'.mutation = chip'.row
      BY <1>1, <1>2, <2>1, <2>2, Held, SendByteType
    <2> QED BY <2>3 DEF at
  <1>5. TypeOK'
    BY <1>3, <1>4, Held DEF TypeOK
  <1>6. AddrInv'
    BY <1>2, <1>3, <1>4 DEF AddrInv, KeepsCall
  <1>7. ReadInv' /\ WriteInv'
    BY <1>1, <1>3, <1>4 DEF IInv, ReadInv, WriteInv, KeepsCall
  <1>8. SizeInv'
    BY <1>1, <1>3, <1>4 DEF IInv, SizeInv, KeepsCall
  <1> QED BY <1>4, <1>5, <1>6, <1>7, <1>8 DEF IInv

LEMMA SendLowStep == ASSUME IInv, SendLow PROVE IInv'
  <1> DEFINE b == client.page % ByteBase
             at == IF client.kind = "erase" THEN 0 ELSE 1
  <1>1. client.pc = "low" /\ SendByte(b) /\ Goto("high")
    BY DEF SendLow, At
  <1>2. /\ chip.cmd = drv.cmd
        /\ client.kind = "program" => drv.cmd = "SEQIN" /\ drv.mutation = chip.row
        /\ client.kind = "erase" => drv.cmd = "ERASE1" /\ drv.mutation = chip.row
        /\ client.kind = "read" => drv.cmd \in AreaCmds
        /\ at = IF drv.phase = "addr" THEN drv.addrPos ELSE 0
        /\ at = chip.cycle /\ (drv.cmd = "SEQIN" => at # 0)
    BY <1>1, Held DEF IInv, AddrInv, Kinds, AreaCmds
  <1>3. client' \in ClientType /\ client'.pc = "high" /\ KeepsCall
    BY <1>1, Held, GotoType DEF PCs
  <1>4. b \in Nat /\ at \in Nat
    BY Held, Bytes
  <1>5. /\ drv' \in DrvType /\ chip' \in ChipType /\ cells' = cells /\ loop' = loop
        /\ drv'.phase = "addr" /\ drv'.addrPos = at + 1 /\ chip'.cycle = at + 1
        /\ drv'.cmd = drv.cmd /\ chip'.cmd = chip.cmd /\ ~chip'.hung
        /\ drv'.streamOn = drv.streamOn /\ drv'.progOn = drv.progOn
        /\ drv.cmd \in {"SEQIN", "ERASE1"} /\ drv.mutation = chip.row
             => drv'.mutation = chip'.row
    <2> HIDE DEF b, at
    <2> QED BY <1>1, <1>2, <1>4, Held, SendByteType
  <1>6. TypeOK'
    BY <1>3, <1>5, Held DEF TypeOK
  <1>7. AddrInv'
    BY <1>2, <1>3, <1>5, Held DEF AddrInv, KeepsCall, Kinds
  <1>8. ReadInv' /\ WriteInv'
    BY <1>1, <1>3, <1>5 DEF IInv, ReadInv, WriteInv, KeepsCall
  <1>9. SizeInv'
    BY <1>1, <1>3, <1>5 DEF IInv, SizeInv, KeepsCall
  <1> QED BY <1>5, <1>6, <1>7, <1>8, <1>9 DEF IInv

LEMMA SendHighStep == ASSUME IInv, SendHigh PROVE IInv'
  <1> DEFINE b == client.page \div ByteBase
             at == chip.cycle
  <1>1. client.pc = "high" /\ SendByte(b) /\ Goto("close")
    BY DEF SendHigh, At
  <1>2. /\ chip.cmd = drv.cmd
        /\ client.kind = "program" => drv.cmd = "SEQIN" /\ drv.mutation = chip.row
        /\ client.kind = "erase" => drv.cmd = "ERASE1" /\ drv.mutation = chip.row
        /\ client.kind = "read" => drv.cmd \in AreaCmds
        /\ at = IF drv.phase = "addr" THEN drv.addrPos ELSE 0
        /\ at # 0
    BY <1>1, Held DEF IInv, AddrInv
  <1>3. client' \in ClientType /\ client'.pc = "close" /\ KeepsCall
    BY <1>1, Held, GotoType DEF PCs
  <1>4. b \in Nat /\ at \in Nat
    BY Held, Bytes DEF ChipType
  <1>5. /\ drv' \in DrvType /\ chip' \in ChipType /\ cells' = cells /\ loop' = loop
        /\ drv'.cmd = drv.cmd /\ chip'.cmd = chip.cmd /\ ~chip'.hung
        /\ drv'.streamOn = drv.streamOn /\ drv'.progOn = drv.progOn
        /\ drv.cmd \in {"SEQIN", "ERASE1"} /\ drv.mutation = chip.row
             => drv'.mutation = chip'.row
    <2>1. at = chip.cycle
      OBVIOUS
    <2> HIDE DEF b, at
    <2> QED BY <1>1, <1>2, <1>4, <2>1, Held, SendByteType
  <1>6. TypeOK'
    BY <1>3, <1>5, Held DEF TypeOK
  <1>7. AddrInv'
    BY <1>2, <1>3, <1>5, Held DEF AddrInv, KeepsCall, Kinds
  <1>8. ReadInv' /\ WriteInv'
    BY <1>1, <1>3, <1>5 DEF IInv, ReadInv, WriteInv, KeepsCall
  <1>9. SizeInv'
    BY <1>1, <1>3, <1>5 DEF IInv, SizeInv, KeepsCall
  <1> QED BY <1>5, <1>6, <1>7, <1>8, <1>9 DEF IInv

LEMMA CloseAddrStep == ASSUME IInv, CloseAddr PROVE IInv'
  <1> DEFINE q == CASE client.kind = "read" -> "read"
                    [] client.kind = "program" -> "write"
                    [] client.kind = "erase" -> "execute"
  <1>1. /\ client.pc = "close" /\ Goto(q)
        /\ chip' = chip /\ cells' = cells /\ loop' = loop
    BY DEF CloseAddr, At
  <1>2. PICK late \in BOOLEAN : drv' = FinishAddr(drv, late)
    BY DEF CloseAddr
  <1>3. drv' \in DrvType /\ SameCommand(drv, drv')
    BY <1>2, Held, FinishAddrType
  <1>4. q \in PCs /\ client.kind \in Kinds
        /\ q = IF client.kind = "read" THEN "read"
               ELSE IF client.kind = "program" THEN "write" ELSE "execute"
    BY Held DEF PCs, Kinds
  <1> HIDE DEF q
  <1>5. client' \in ClientType /\ client'.pc = q /\ KeepsCall
    BY <1>1, <1>4, Held, GotoType
  <1>6. TypeOK' /\ ~chip'.hung
    BY <1>1, <1>3, <1>5, Held DEF TypeOK
  <1>7. AddrInv'
    BY <1>1, <1>3, <1>4, <1>5 DEF IInv, AddrInv, KeepsCall, SameCommand, Kinds
  <1>8. ReadInv' /\ WriteInv'
    BY <1>1, <1>3, <1>4, <1>5 DEF IInv, ReadInv, WriteInv, KeepsCall, SameCommand, Kinds
  <1>9. SizeInv'
    BY <1>1, <1>3, <1>5 DEF IInv, SizeInv, KeepsCall
  <1> QED BY <1>6, <1>7, <1>8, <1>9 DEF IInv

\* A stream is started: the burst is at its head, the address phase closed.
LEMMA ModeType ==
  ASSUME TypeOK
  PROVE  LET c == SetMode(chip, Burst, 0) IN
         /\ c \in ChipType /\ c.pos = 0 /\ c.left = LeftAt(0)
         /\ c.hung = chip.hung /\ c.cmd = chip.cmd /\ c.row = chip.row
  <1>1. chip \in ChipType /\ Burst \in 0 .. Burst /\ 0 \in 0 .. RawBytes /\ LeftAt(0) = Burst
    BY Sizes DEF TypeOK, LeftAt
  <1> QED BY <1>1 DEF SetMode, ChipType

LEMMA StartReadType ==
  ASSUME TypeOK, NEW late \in BOOLEAN
  PROVE  LET d == [StartReadStream(drv, late) EXCEPT !.skipDone = TRUE] IN
         /\ d \in DrvType /\ d.streamOn
         /\ d.readPos = IF drv.streamOn THEN drv.readPos ELSE 0
  <1> DEFINE f == FinishAddr(drv, late)
             w == Waited(f, late)
             g == [w EXCEPT !.streamOn = TRUE, !.readPos = 0]
  <1>1. f \in DrvType /\ SameCommand(drv, f)
    BY FinishAddrType DEF TypeOK
  <1> HIDE DEF f
  <1>2. w \in DrvType
    BY <1>1, WaitedType
  <1> HIDE DEF w
  <1>0. 0 \in 0 .. RawBytes
    BY Sizes
  <1>3. g \in DrvType /\ g.streamOn /\ g.readPos = 0
    BY <1>0, <1>2 DEF DrvType
  <1> HIDE DEF g
  <1>4. StartReadStream(drv, late) = IF drv.streamOn THEN f ELSE g
    BY DEF StartReadStream, f, w, g
  <1> QED BY <1>1, <1>3, <1>4, ZenonT(40) DEF DrvType, SameCommand

LEMMA StartProgramType ==
  ASSUME TypeOK, NEW late \in BOOLEAN
  PROVE  LET d == StartProgramStream(drv, late) IN
         /\ d \in DrvType /\ d.progOn /\ d.cmd = drv.cmd /\ d.mutation = drv.mutation
         /\ d.progPos = IF drv.progOn THEN drv.progPos ELSE 0
  <1> DEFINE f == FinishAddr(drv, late)
             w == Waited(f, late)
             g == [w EXCEPT !.progOn = TRUE, !.progPos = 0]
  <1>1. f \in DrvType /\ SameCommand(drv, f)
    BY FinishAddrType DEF TypeOK
  <1> HIDE DEF f
  <1>2. w \in DrvType /\ SameCommand(f, w)
    BY <1>1, WaitedType
  <1> HIDE DEF w
  <1>3. /\ g \in DrvType /\ g.progOn /\ g.progPos = 0
        /\ g.cmd = w.cmd /\ g.mutation = w.mutation
    <2>1. 0 \in 0 .. RawBytes
      BY Sizes
    <2> QED BY <1>2, <2>1 DEF DrvType
  <1> HIDE DEF g
  <1>4. StartProgramStream(drv, late) = IF drv.progOn THEN drv ELSE g
    BY DEF StartProgramStream, f, w, g
  <1>5. drv \in DrvType
    BY DEF TypeOK
  <1> QED BY <1>1, <1>2, <1>3, <1>4, <1>5 DEF SameCommand

LEMMA ReadBufStep == ASSUME IInv, ReadBuf PROVE IInv'
  <1>1. /\ client.pc = "read" /\ cells' = cells
        /\ chip' = IF drv.streamOn THEN chip ELSE SetMode(chip, Burst, 0)
        /\ loop' = [loop EXCEPT !.skip = IF drv.skipDone THEN 0 ELSE drv.skip,
                                !.want = client.now]
        /\ client' = [client EXCEPT !.pc = "reading", !.now = client.later, !.later = 0]
    BY DEF ReadBuf, At
  <1>2. PICK late \in BOOLEAN :
          drv' = [StartReadStream(drv, late) EXCEPT !.skipDone = TRUE]
    BY DEF ReadBuf
  <1>3. /\ drv' \in DrvType /\ drv'.streamOn
        /\ drv'.readPos = IF drv.streamOn THEN drv.readPos ELSE 0
    BY <1>2, Held, StartReadType
  <1>4. client.kind = "read" /\ (drv.streamOn => BurstAt(drv.readPos))
    BY <1>1 DEF IInv, ReadInv
  <1>5. chip' \in ChipType /\ ~chip'.hung /\ BurstAt(drv.readPos)' 
    BY <1>1, <1>3, <1>4, Held, ModeType DEF BurstAt, LeftAt
  <1>6. 0 \in 0 .. RawBytes
    BY Sizes
  <1>7. client' \in ClientType /\ client'.pc = "reading" /\ client'.kind = "read"
    BY <1>1, <1>4, <1>6, Held DEF ClientType, PCs
  <1>8. loop' \in LoopType
    <2> DEFINE sk == IF drv.skipDone THEN 0 ELSE drv.skip
    <2>1. sk \in 0 .. RawBytes
      BY Held, Sizes DEF DrvType
    <2>2. loop' = [loop EXCEPT !.skip = sk, !.want = client.now]
      BY <1>1
    <2> HIDE DEF sk
    <2> QED BY <2>1, <2>2, Held DEF LoopType
  <1>9. TypeOK'
    BY <1>1, <1>3, <1>5, <1>7, <1>8, Held DEF TypeOK
  <1>10. AddrInv' /\ ReadInv' /\ WriteInv' /\ SizeInv'
    BY <1>3, <1>5, <1>7 DEF AddrInv, ReadInv, WriteInv, SizeInv
  <1> QED BY <1>5, <1>9, <1>10 DEF IInv

\* What an action that stays in read_buf must show.
LEMMA ReadingStep ==
  ASSUME IInv, client.pc = "reading", client' = client, cells' = cells,
         drv' \in DrvType, drv'.streamOn = drv.streamOn,
         chip' \in ChipType, ~chip'.hung, BurstAt(drv.readPos)', loop' \in LoopType
  PROVE  IInv'
  <1>1. TypeOK'
    BY Held DEF TypeOK
  <1>2. client.kind = "read" /\ drv.streamOn
    BY DEF IInv, ReadInv
  <1>3. AddrInv' /\ ReadInv' /\ WriteInv' /\ SizeInv'
    BY <1>2 DEF AddrInv, ReadInv, WriteInv, SizeInv
  <1> QED BY <1>1, <1>3 DEF IInv

LEMMA DiscardWordStep == ASSUME IInv, DiscardWord PROVE IInv'
  <1> DEFINE x == drv.readPos + Word
             y == chip.left - Word
             z == loop.skip - Word
  <1>1. /\ client.pc = "reading" /\ client' = client /\ cells' = cells
        /\ loop.skip >= Word /\ drv.readPos + Word <= Burst
        /\ chip' = Stream(chip, Word)
        /\ drv' = [drv EXCEPT !.readPos = x] /\ loop' = [loop EXCEPT !.skip = z]
    BY DEF DiscardWord, DiscardsWord, At
  <1>2. BurstAt(drv.readPos)
    BY <1>1 DEF IInv, ReadInv
  <1>3. drv.readPos \in 0 .. RawBytes
    BY Held DEF DrvType
  <1>4. /\ x \in 0 .. RawBytes /\ y \in 0 .. Burst /\ z \in 0 .. RawBytes
        /\ y = LeftAt(x) /\ chip.left >= Word /\ chip.pos + Word = x
    BY <1>1, <1>2, <1>3, Held, Sizes DEF BurstAt, LeftAt
  <1>5. chip' = [chip EXCEPT !.left = y, !.pos = x]
    BY <1>1, <1>4 DEF Stream
  <1> HIDE DEF x, y, z
  <1>6. /\ drv' \in DrvType /\ drv'.streamOn = drv.streamOn /\ drv'.readPos = x
        /\ loop' \in LoopType
    BY <1>1, <1>4, Held DEF DrvType, LoopType
  <1>7. chip' \in ChipType /\ ~chip'.hung /\ chip'.pos = x /\ chip'.left = y
    BY <1>4, <1>5, Held DEF ChipType
  <1>8. BurstAt(drv.readPos)'
    BY <1>4, <1>6, <1>7 DEF BurstAt, LeftAt
  <1> QED BY <1>1, <1>6, <1>7, <1>8, ReadingStep

LEMMA DiscardByteStep == ASSUME IInv, DiscardByte PROVE IInv'
  <1>1. /\ client.pc = "reading" /\ client' = client /\ cells' = cells
        /\ loop.skip > 0 /\ chip' = ReadStreamed /\ loop' = [loop EXCEPT !.skip = @ - 1]
    BY DEF DiscardByte, At
  <1>2. PICK late \in BOOLEAN : drv' = StreamReadByte(drv, late)
    BY DEF DiscardByte
  <1>3. BurstAt(drv.readPos)
    BY <1>1 DEF IInv, ReadInv
  <1>4. /\ drv' \in DrvType /\ drv'.streamOn = drv.streamOn
        /\ chip' \in ChipType /\ ~chip'.hung
        /\ chip'.pos = drv'.readPos /\ chip'.left = LeftAt(drv'.readPos)
    BY <1>1, <1>2, <1>3, Held, ReadByteStep
  <1>5. BurstAt(drv.readPos)'
    BY <1>4 DEF BurstAt, LeftAt
  <1>6. loop' \in LoopType
    <2>1. loop.skip - 1 \in 0 .. RawBytes
      BY <1>1, Held, Sizes
    <2> QED BY <1>1, <2>1, Held DEF LoopType
  <1> QED BY <1>1, <1>4, <1>5, <1>6, ReadingStep

LEMMA ReadByteActionStep == ASSUME IInv, ReadByte PROVE IInv'
  <1> DEFINE v == IF drv.readPos >= RawBytes THEN 1 ELSE StreamedByte
             wa == loop.want - 1
             go == Append(loop.got, v)
  <1>1. /\ client.pc = "reading" /\ client' = client /\ cells' = cells
        /\ loop.want > 0 /\ chip' = ReadStreamed
        /\ loop' = [loop EXCEPT !.want = wa, !.got = go]
    BY DEF ReadByte, At
  <1>2. PICK late \in BOOLEAN : drv' = StreamReadByte(drv, late)
    BY DEF ReadByte
  <1>3. BurstAt(drv.readPos)
    BY <1>1 DEF IInv, ReadInv
  <1>4. /\ drv' \in DrvType /\ drv'.streamOn = drv.streamOn
        /\ chip' \in ChipType /\ ~chip'.hung
        /\ chip'.pos = drv'.readPos /\ chip'.left = LeftAt(drv'.readPos)
    BY <1>1, <1>2, <1>3, Held, ReadByteStep
  <1>5. BurstAt(drv.readPos)'
    BY <1>4 DEF BurstAt, LeftAt
  <1>6. loop' \in LoopType
    <2>1. wa \in 0 .. RawBytes
      BY <1>1, Held, Sizes
    <2>2. v \in {0, 1}
      BY Held, StreamedByteType
    <2>3. go \in Seq({0, 1})
      <3> HIDE DEF v
      <3> QED BY <2>2, Held DEF LoopType
    <2> HIDE DEF v, wa, go
    <2> QED BY <1>1, <2>1, <2>3, Held DEF LoopType
  <1> QED BY <1>1, <1>4, <1>5, <1>6, ReadingStep

LEMMA ReadBufReturnsStep == ASSUME IInv, ReadBufReturns PROVE IInv'
  <1>1. /\ client.pc = "reading" /\ Goto("read") /\ drv' = drv /\ chip' = chip
        /\ cells' = cells /\ loop' = loop
    BY DEF ReadBufReturns, At
  <1>2. client' \in ClientType /\ client'.pc = "read" /\ KeepsCall
    BY <1>1, Held, GotoType DEF PCs
  <1>3. TypeOK' /\ ~chip'.hung
    BY <1>1, <1>2, Held DEF TypeOK
  <1>4. client.kind = "read" /\ BurstAt(drv.readPos)
    BY <1>1 DEF IInv, ReadInv
  <1>5. AddrInv' /\ ReadInv' /\ WriteInv' /\ SizeInv'
    BY <1>1, <1>2, <1>4 DEF AddrInv, ReadInv, WriteInv, SizeInv, KeepsCall, BurstAt, LeftAt
  <1> QED BY <1>3, <1>5 DEF IInv

LEMMA ReadReturnsStep == ASSUME IInv, ReadReturns PROVE IInv'
  <1>1. /\ client' = [client EXCEPT !.pc = "done", !.ok = ~drv.failed]
        /\ drv' = drv /\ chip' = chip /\ cells' = cells /\ loop' = loop
    BY DEF ReadReturns
  <1>2. client' \in ClientType /\ client'.pc = "done"
    BY <1>1, Held DEF ClientType, PCs
  <1>3. TypeOK' /\ ~chip'.hung
    BY <1>1, <1>2, Held DEF TypeOK
  <1>4. AddrInv' /\ ReadInv' /\ WriteInv' /\ SizeInv'
    BY <1>2 DEF AddrInv, ReadInv, WriteInv, SizeInv
  <1> QED BY <1>3, <1>4 DEF IInv

LEMMA WriteBufStep == ASSUME IInv, WriteBuf PROVE IInv'
  <1>1. /\ client.pc = "write" /\ cells' = cells
        /\ chip' = IF drv.progOn THEN chip ELSE SetMode(chip, Burst, 0)
        /\ loop' = [loop EXCEPT !.want = client.now]
        /\ client' = [client EXCEPT !.pc = "writing", !.now = client.later, !.later = 0]
    BY DEF WriteBuf, At
  <1>2. PICK late \in BOOLEAN : drv' = StartProgramStream(drv, late)
    BY DEF WriteBuf
  <1>3. /\ drv' \in DrvType /\ drv'.progOn /\ drv'.cmd = drv.cmd
        /\ drv'.mutation = drv.mutation
        /\ drv'.progPos = IF drv.progOn THEN drv.progPos ELSE 0
    BY <1>2, Held, StartProgramType
  <1>4. client.kind = "program" /\ (drv.progOn => BurstAt(drv.progPos))
    BY <1>1 DEF IInv, WriteInv
  <1>5. /\ chip' \in ChipType /\ ~chip'.hung /\ BurstAt(drv.progPos)'
        /\ chip'.cmd = chip.cmd /\ chip'.row = chip.row
    BY <1>1, <1>3, <1>4, Held, ModeType DEF BurstAt, LeftAt
  <1>6. 0 \in 0 .. RawBytes
    BY Sizes
  <1>7. /\ client' \in ClientType /\ client'.pc = "writing" /\ client'.kind = "program"
        /\ client'.column = client.column /\ client'.now = client.later /\ client'.later = 0
    BY <1>1, <1>4, <1>6, Held DEF ClientType, PCs
  <1>8. loop' \in LoopType /\ loop'.skip = loop.skip /\ loop'.want = client.now
    BY <1>1, Held DEF LoopType
  <1>9. TypeOK'
    BY <1>1, <1>3, <1>5, <1>7, <1>8, Held DEF TypeOK
  <1>10. chip.cmd = drv.cmd /\ drv.cmd = "SEQIN" /\ drv.mutation = chip.row
    BY <1>1, <1>4 DEF IInv, AddrInv
  <1>11. AddrInv' /\ ReadInv' /\ WriteInv'
    BY <1>3, <1>5, <1>7, <1>10 DEF AddrInv, ReadInv, WriteInv
  <1>12. SizeInv'
    <2>1. /\ loop.want = 0
          /\ client.column + loop.skip + loop.want + client.now + client.later = RawBytes
      BY <1>1, <1>4 DEF IInv, SizeInv
    <2>2. /\ client.column \in Nat /\ loop.skip \in Nat
          /\ client.now \in Nat /\ client.later \in Nat
      BY Held, Sizes DEF Columns
    <2>3. client.column + loop.skip + client.now + client.later + 0 = RawBytes
      BY <2>1, <2>2
    <2> QED BY <1>7, <1>8, <2>3 DEF SizeInv
  <1> QED BY <1>5, <1>9, <1>11, <1>12 DEF IInv

\* What an action that stays in write_buf must show.
LEMMA WritingStep ==
  ASSUME IInv, client.pc = "writing", client' = client, cells' = cells,
         drv' \in DrvType, drv'.progOn = drv.progOn, drv'.cmd = drv.cmd,
         drv'.mutation = drv.mutation,
         chip' \in ChipType, ~chip'.hung, chip'.cmd = chip.cmd, chip'.row = chip.row,
         BurstAt(drv.progPos)', loop' \in LoopType,
         client.column + loop'.skip + loop'.want + client.now + client.later = RawBytes
  PROVE  IInv'
  <1>1. TypeOK'
    BY Held DEF TypeOK
  <1>2. /\ client.kind = "program" /\ drv.progOn
        /\ chip.cmd = drv.cmd /\ drv.cmd = "SEQIN" /\ drv.mutation = chip.row
    BY DEF IInv, WriteInv, AddrInv
  <1>3. AddrInv' /\ ReadInv' /\ WriteInv'
    BY <1>2 DEF AddrInv, ReadInv, WriteInv
  <1>4. SizeInv'
    BY DEF SizeInv
  <1> QED BY <1>1, <1>3, <1>4 DEF IInv

\* The facts both byte actions start from.
LEMMA Writing ==
  ASSUME IInv, client.pc = "writing"
  PROVE  /\ BurstAt(drv.progPos)
         /\ client.column + loop.skip + loop.want + client.now + client.later = RawBytes
         /\ client.column \in Nat /\ loop.skip \in Nat /\ loop.want \in Nat
         /\ client.now \in Nat /\ client.later \in Nat
  <1>1. BurstAt(drv.progPos) /\ client.kind = "program"
    BY DEF IInv, WriteInv
  <1>2. client.column + loop.skip + loop.want + client.now + client.later = RawBytes
    BY <1>1 DEF IInv, SizeInv
  <1>3. /\ client.column \in Nat /\ loop.skip \in Nat /\ loop.want \in Nat
        /\ client.now \in Nat /\ client.later \in Nat
    BY Held, Sizes DEF Columns
  <1> QED BY <1>1, <1>2, <1>3

LEMMA PadByteStep == ASSUME IInv, PadByte PROVE IInv'
  <1>1. /\ client.pc = "writing" /\ client' = client /\ cells' = cells /\ loop' = loop
        /\ chip' = WriteStreamed(1)
    BY DEF PadByte, At
  <1>2. PICK late \in BOOLEAN : drv' = StreamWriteByte(drv, late)
    BY DEF PadByte
  <1>3. /\ drv' \in DrvType /\ drv'.progOn = drv.progOn /\ drv'.cmd = drv.cmd
        /\ drv'.mutation = drv.mutation
        /\ chip' \in ChipType /\ ~chip'.hung /\ chip'.cmd = chip.cmd /\ chip'.row = chip.row
        /\ chip'.pos = drv'.progPos /\ chip'.left = LeftAt(drv'.progPos)
    BY <1>1, <1>2, Held, Writing, WriteByteStep
  <1>4. BurstAt(drv.progPos)'
    BY <1>3 DEF BurstAt, LeftAt
  <1> QED BY <1>1, <1>3, <1>4, Held, Writing, WritingStep

LEMMA WriteByteActionStep == ASSUME IInv, WriteByte PROVE IInv'
  <1> DEFINE i == client.column + loop.skip
             b == client.image[i]
             wa == loop.want - 1
             sk == loop.skip + 1
  <1>1. /\ client.pc = "writing" /\ client' = client /\ cells' = cells /\ loop.want > 0
        /\ chip' = WriteStreamed(b) /\ loop' = [loop EXCEPT !.want = wa, !.skip = sk]
    BY DEF WriteByte, At
  <1>2. PICK late \in BOOLEAN : drv' = StreamWriteByte(drv, late)
    BY DEF WriteByte
  <1>3. /\ i \in Offset /\ wa \in 0 .. RawBytes /\ sk \in 0 .. RawBytes
        /\ client.column + sk + wa + client.now + client.later = RawBytes
    BY <1>1, Writing, Sizes DEF Offset
  <1>4. b \in {0, 1}
    <2> HIDE DEF i
    <2> QED BY <1>3, Held
  <1>5. /\ drv' \in DrvType /\ drv'.progOn = drv.progOn /\ drv'.cmd = drv.cmd
        /\ drv'.mutation = drv.mutation
        /\ chip' \in ChipType /\ ~chip'.hung /\ chip'.cmd = chip.cmd /\ chip'.row = chip.row
        /\ chip'.pos = drv'.progPos /\ chip'.left = LeftAt(drv'.progPos)
    <2> HIDE DEF b, i
    <2> QED BY <1>1, <1>2, <1>4, Held, Writing, WriteByteStep
  <1>6. BurstAt(drv.progPos)'
    BY <1>5 DEF BurstAt, LeftAt
  <1> HIDE DEF i, b, wa, sk
  <1>7. loop' \in LoopType /\ loop'.skip = sk /\ loop'.want = wa
    BY <1>1, <1>3, Held DEF LoopType
  <1> QED BY <1>1, <1>3, <1>5, <1>6, <1>7, WritingStep

LEMMA WriteBufReturnsStep == ASSUME IInv, WriteBufReturns PROVE IInv'
  <1>1. /\ client.pc = "writing" /\ Goto("write") /\ drv' = drv /\ chip' = chip
        /\ cells' = cells /\ loop' = loop /\ loop.want = 0
    BY DEF WriteBufReturns, At
  <1>2. client' \in ClientType /\ client'.pc = "write" /\ KeepsCall
    BY <1>1, Held, GotoType DEF PCs
  <1>3. TypeOK' /\ ~chip'.hung
    BY <1>1, <1>2, Held DEF TypeOK
  <1>4. /\ client.kind = "program" /\ BurstAt(drv.progPos)
        /\ chip.cmd = drv.cmd /\ drv.cmd = "SEQIN" /\ drv.mutation = chip.row
    BY <1>1 DEF IInv, WriteInv, AddrInv
  <1>5. AddrInv' /\ ReadInv' /\ WriteInv'
    BY <1>1, <1>2, <1>4 DEF AddrInv, ReadInv, WriteInv, KeepsCall, BurstAt, LeftAt
  <1>6. SizeInv'
    BY <1>1, <1>2, <1>4 DEF IInv, SizeInv, KeepsCall
  <1> QED BY <1>3, <1>5, <1>6 DEF IInv

LEMMA WriteReturnsStep == ASSUME IInv, WriteReturns PROVE IInv'
  <1>1. /\ client.pc = "write" /\ (Goto("done") \/ Goto("execute"))
        /\ drv' = drv /\ chip' = chip /\ cells' = cells /\ loop' = loop
    BY DEF WriteReturns, At
  <1>2. client' \in ClientType /\ client'.pc \in {"done", "execute"} /\ KeepsCall
    BY <1>1, Held, GotoType DEF PCs
  <1>3. TypeOK' /\ ~chip'.hung
    BY <1>1, <1>2, Held DEF TypeOK
  <1>4. /\ client.kind = "program"
        /\ chip.cmd = drv.cmd /\ drv.cmd = "SEQIN" /\ drv.mutation = chip.row
    BY <1>1 DEF IInv, WriteInv, AddrInv
  <1>5. AddrInv' /\ ReadInv' /\ WriteInv' /\ SizeInv'
    BY <1>1, <1>2, <1>4 DEF AddrInv, ReadInv, WriteInv, SizeInv, KeepsCall
  <1> QED BY <1>3, <1>5 DEF IInv

\* From the status command on nothing is held any more.
LEMMA AfterExecute ==
  ASSUME TypeOK', ~chip'.hung, client'.pc \in {"status", "result", "done", "idle"}
  PROVE  IInv'
  BY DEF IInv, AddrInv, ReadInv, WriteInv, SizeInv

LEMMA MutatedType ==
  ASSUME TypeOK, NEW cmd, NEW took \in BOOLEAN
  PROVE  Mutated(cmd, took) \in [PageNo -> [Offset -> {0, 1}]]
  <1>1. /\ cells \in [PageNo -> [Offset -> {0, 1}]] /\ chip.reg \in [Offset -> {0, 1}]
        /\ [i \in Offset |-> 1] \in [Offset -> {0, 1}]
    BY DEF TypeOK, ChipType
  <1>2. ASSUME NEW p \in PageNo PROVE Programmed(cells[p], chip.reg) \in [Offset -> {0, 1}]
    BY <1>1 DEF Programmed
  <1> QED BY <1>1, <1>2 DEF Mutated

LEMMA ExecuteStep == ASSUME IInv, Execute PROVE IInv'
  <1> DEFINE cmd == IF client.kind = "program" THEN "PAGEPROG" ELSE "ERASE2"
  <1>1. Goto("status") /\ loop' = loop
    BY DEF Execute
  <1>2. client' \in ClientType /\ client'.pc = "status"
    BY <1>1, Held, GotoType DEF PCs
  <1>a. cmd \in Commands
    BY DEF Commands
  <1>3. drv' \in DrvType
    <2>1. PICK late \in BOOLEAN : drv' = SendCommand(drv, cmd, late)
      BY DEF Execute
    <2> HIDE DEF cmd
    <2> QED BY <1>a, <2>1, Held, SendCommandType
  <1>4. /\ chip' \in ChipType /\ ~chip'.hung
        /\ cells' \in [PageNo -> [Offset -> {0, 1}]]
    <2>1. CASE Refused(drv, cmd)
      BY <2>1, Held DEF Execute
    <2>2. CASE ~Refused(drv, cmd)
      <3>1. PICK ok \in BOOLEAN : \E took \in BOOLEAN :
               /\ cells' = Mutated(cmd, took)
               /\ chip' = [LatchCmd(chip, cmd) EXCEPT !.ok = ok]
        BY <2>2 DEF Execute
      <3>2. PICK took \in BOOLEAN : cells' = Mutated(cmd, took)
        BY <3>1
      <3> DEFINE l == LatchCmd(chip, cmd)
      <3>3. l \in ChipType /\ ~l.hung
        <4> HIDE DEF cmd
        <4> QED BY <1>a, Held, LatchCmdType
      <3>4. chip' = [l EXCEPT !.ok = ok]
        BY <3>1
      <3> HIDE DEF l, cmd
      <3> QED BY <3>2, <3>3, <3>4, Held, MutatedType DEF ChipType
    <2> QED BY <2>1, <2>2
  <1>5. TypeOK'
    BY <1>1, <1>2, <1>3, <1>4, Held DEF TypeOK
  <1> QED BY <1>2, <1>4, <1>5, AfterExecute

LEMMA SendStatusStep == ASSUME IInv, SendStatus PROVE IInv'
  <1>1. Issue("STATUS") /\ Goto("result")
    BY DEF SendStatus
  <1>2. client' \in ClientType /\ client'.pc = "result"
    BY <1>1, Held, GotoType DEF PCs
  <1>3. drv' \in DrvType /\ chip' \in ChipType /\ ~chip'.hung /\ cells' = cells /\ loop' = loop
    BY <1>1, Held, IssueType
  <1>4. TypeOK'
    BY <1>2, <1>3, Held DEF TypeOK
  <1> QED BY <1>2, <1>3, <1>4, AfterExecute

LEMMA ReadStatusStep == ASSUME IInv, ReadStatus PROVE IInv'
  <1>1. /\ client' = [client EXCEPT !.pc = "done", !.ok = StatusGood]
        /\ drv' = drv /\ chip' = chip /\ cells' = cells /\ loop' = loop
    BY DEF ReadStatus
  <1>a. StatusGood \in BOOLEAN
    BY DEF StatusGood
  <1>2. client' \in ClientType /\ client'.pc = "done"
    BY <1>1, <1>a, Held DEF ClientType, PCs
  <1>3. TypeOK' /\ ~chip'.hung
    BY <1>1, <1>2, Held DEF TypeOK
  <1> QED BY <1>2, <1>3, AfterExecute

LEMMA ReturnStep == ASSUME IInv, Return PROVE IInv'
  <1>1. client' = NoCall /\ loop' = NoLoop(cells) /\ drv' = drv /\ chip' = chip /\ cells' = cells
    BY DEF Return
  <1>2. client' \in ClientType /\ client'.pc = "idle"
    <2>1. /\ "idle" \in PCs /\ "read" \in Kinds /\ 0 \in PageNo /\ 0 \in Columns
          /\ Blank \in [Offset -> {0, 1}] /\ 0 \in 0 .. RawBytes
      BY Sizes DEF PCs, Kinds, Columns, Blank
    <2> QED BY <1>1, <2>1, CallType DEF NoCall
  <1>3. TypeOK' /\ ~chip'.hung
    BY <1>1, <1>2, Held, NoLoopType DEF TypeOK
  <1> QED BY <1>2, <1>3, AfterExecute

----------------------------------------------------------------------------
\* The theorems.

LEMMA NextIInv == ASSUME IInv, [Next]_vars PROVE IInv'
  <1>1. CASE Start BY <1>1, StartStep
  <1>2. CASE SelectArea BY <1>2, SelectAreaStep
  <1>3. CASE SendMain BY <1>3, SendMainStep
  <1>4. CASE SendColumn BY <1>4, SendColumnStep
  <1>5. CASE SendLow BY <1>5, SendLowStep
  <1>6. CASE SendHigh BY <1>6, SendHighStep
  <1>7. CASE CloseAddr BY <1>7, CloseAddrStep
  <1>8. CASE ReadBuf BY <1>8, ReadBufStep
  <1>9. CASE DiscardWord BY <1>9, DiscardWordStep
  <1>10. CASE DiscardByte BY <1>10, DiscardByteStep
  <1>11. CASE ReadByte BY <1>11, ReadByteActionStep
  <1>12. CASE ReadBufReturns BY <1>12, ReadBufReturnsStep
  <1>13. CASE ReadReturns BY <1>13, ReadReturnsStep
  <1>14. CASE WriteBuf BY <1>14, WriteBufStep
  <1>15. CASE PadByte BY <1>15, PadByteStep
  <1>16. CASE WriteByte BY <1>16, WriteByteActionStep
  <1>17. CASE WriteBufReturns BY <1>17, WriteBufReturnsStep
  <1>18. CASE WriteReturns BY <1>18, WriteReturnsStep
  <1>19. CASE Execute BY <1>19, ExecuteStep
  <1>20. CASE SendStatus BY <1>20, SendStatusStep
  <1>21. CASE ReadStatus BY <1>21, ReadStatusStep
  <1>22. CASE Return BY <1>22, ReturnStep
  <1>23. CASE UNCHANGED vars
    BY <1>23 DEF vars, IInv, TypeOK, AddrInv, ReadInv, WriteInv, SizeInv, BurstAt, LeftAt
  <1> QED
    BY <1>1, <1>2, <1>3, <1>4, <1>5, <1>6, <1>7, <1>8, <1>9, <1>10, <1>11, <1>12,
       <1>13, <1>14, <1>15, <1>16, <1>17, <1>18, <1>19, <1>20, <1>21, <1>22, <1>23
    DEF Next, Step

LEMMA Inductive == Spec => []IInv
  BY InitIInv, NextIInv, PTL DEF Spec

\* The driver's variables, the chip's and the callers' keep their types: no
\* sequence of calls moves a stream position past the raw page or the column
\* of a program past its end.
THEOREM TypeCorrect == Spec => []TypeOK
  <1>1. IInv => TypeOK
    BY DEF IInv
  <1> QED BY <1>1, Inductive, PTL

\* The stream register is never read or written past the running burst: the
\* MODE 4 / MODE 6 split of nand_controller.h 222-245 and 320-333 comes in
\* time for every page size, area, split of a transfer into calls and width
\* of the discarded words.
THEOREM BusSafe == Spec => []BusNeverHangs
  <1>1. IInv => BusNeverHangs
    BY DEF IInv, BusNeverHangs
  <1> QED BY <1>1, Inductive, PTL

\* When a program or an erase is to be executed the driver's page is the row
\* the chip latched, after every order of commands and failed waits before it.
THEOREM LatchCorrect == Spec => []LatchAgrees
  <1>1. IInv => LatchAgrees
    BY Held DEF IInv, AddrInv, LatchAgrees
  <1> QED BY <1>1, Inductive, PTL

\* A block that shares a page with the arena lies in it.
LEMMA ArenaBlocks ==
  ASSUME NEW p \in Nat, NEW r \in Nat, SameBlock(p, r), FsFirst <= r, r < FsEnd
  PROVE  FsFirst <= p /\ p < FsEnd
  <1> DEFINE q == r \div BlockPages
  <1>0. BlockPages \in Nat \ {0} /\ FsFirstBlock \in Nat /\ FsEndBlock \in Nat
    BY GeometryAssumption
  <1>1. q \in Nat /\ p \div BlockPages = q
    BY <1>0 DEF SameBlock
  <1>2. q * BlockPages <= r /\ r < (q + 1) * BlockPages
    BY <1>0
  <1>3. q * BlockPages <= p /\ p < (q + 1) * BlockPages
    BY <1>0, <1>1
  <1> HIDE DEF q
  <1>4. FsFirstBlock <= q
    BY <1>0, <1>1, <1>2 DEF FsFirst
  <1>5. q + 1 <= FsEndBlock
    BY <1>0, <1>1, <1>2 DEF FsEnd
  <1>6. FsFirstBlock * BlockPages <= q * BlockPages
    BY <1>0, <1>1, <1>4
  <1>7. (q + 1) * BlockPages <= FsEndBlock * BlockPages
    BY <1>0, <1>1, <1>5
  <1>8. q * BlockPages \in Nat /\ (q + 1) * BlockPages \in Nat
        /\ FsFirst \in Nat /\ FsEnd \in Nat
    BY <1>0, <1>1 DEF FsFirst, FsEnd
  <1> QED BY <1>3, <1>6, <1>7, <1>8 DEF FsFirst, FsEnd

Untouched ==
  Physical => \A p \in PageNo : p < FsFirst \/ p >= FsEnd => cells'[p] = cells[p]

LEMMA NextUntouched == ASSUME IInv, [Next]_vars PROVE Untouched
  <1>1. CASE Execute
    <2> SUFFICES ASSUME Physical, NEW p \in PageNo, p < FsFirst \/ p >= FsEnd
                 PROVE  cells'[p] = cells[p]
      BY DEF Untouched
    <2> DEFINE cmd == IF client.kind = "program" THEN "PAGEPROG" ELSE "ERASE2"
    <2>1. CASE Refused(drv, cmd)
      BY <1>1, <2>1 DEF Execute
    <2>2. CASE ~Refused(drv, cmd)
      <3>1. PICK took \in BOOLEAN : cells' = Mutated(cmd, took)
        BY <1>1, <2>2 DEF Execute
      <3>2. client.pc = "execute"
        BY <1>1 DEF Execute, At
      <3>3. drv.mutation = chip.row
        BY <3>2, Held DEF IInv, AddrInv
      <3>4. FsFirst \in Nat /\ FsEnd \in Nat /\ p \in Nat /\ chip.row \in Nat
        BY GeometryAssumption, Held DEF FsFirst, FsEnd, PageNo, ChipType
      <3>5. FsFirst <= chip.row /\ chip.row < FsEnd
        BY <2>2, <3>3, <3>4 DEF Refused
      <3>6. p # chip.row
        BY <3>4, <3>5
      <3>7. ~SameBlock(p, chip.row)
        BY <3>4, <3>5, ArenaBlocks
      <3> HIDE DEF cmd
      <3> QED BY <3>1, <3>6, <3>7 DEF Mutated
    <2> QED BY <2>1, <2>2
  <1>2. CASE ~Execute
    <2>1. cells' = cells
      BY <1>2 DEF Next, Step, vars, Start, SelectArea, SendMain, SendColumn, SendLow,
         SendHigh, CloseAddr, ReadBuf, DiscardWord, DiscardByte, ReadByte, ReadBufReturns,
         ReadReturns, WriteBuf, PadByte, WriteByte, WriteBufReturns, WriteReturns,
         SendStatus, ReadStatus, Return, Issue, SendByte
    <2> QED BY <2>1 DEF Untouched
  <1> QED BY <1>1, <1>2

\* On a physical chip no step changes a byte outside the filesystem arena:
\* the boot blocks and the replacement pool survive every order of driver
\* calls and every engine failure, whatever page the callers ask for.
THEOREM ArenaSafe == Spec => ArenaProtected
  <1>1. IInv /\ [Next]_vars => [Untouched]_vars
    BY NextUntouched
  <1>2. ArenaProtected <=> [][Untouched]_vars
    BY PTL DEF ArenaProtected, Untouched
  <1> QED BY <1>1, <1>2, Inductive, PTL DEF Spec

=============================================================================
