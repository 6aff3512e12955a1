----------------------------- MODULE AudioProofs -----------------------------
(***************************************************************************)
(* For every ring, buffer, counter width and write size: the interrupt of  *)
(* the audio engine is enabled as often as it was disabled, no frame is    *)
(* cut in two, and the driver keeps the promise of AudioStream, samples    *)
(* heard in the order they were written, each once.                        *)
(***************************************************************************)
EXTENDS Audio, SequenceTheorems, FiniteSetTheorems, TLAPS

Shapes ==
  /\ irq \in [off : BOOLEAN, depth : Int]
  /\ DOMAIN ctl = {"running", "failure", "opened", "channels", "nonblock"}
  /\ DOMAIN op = {"pc", "kind", "len", "done", "n", "sum"}
  /\ ctl.running \in BOOLEAN

\* Only the calls that wait for silence run drain().
DrainKinds ==
  op.pc \in {"drain", "drain 0", "drain 1"} => op.kind \in {"format", "sync", "release"}

\* A stopped engine has its interrupt off, and so has one about to start.
StoppedIsOff ==
  /\ ~ctl.running => irq.off
  /\ op.pc = "dma" => ~ctl.running

IrqInv == Shapes /\ DrainKinds /\ StoppedIsOff /\ IrqBalanced

LEMMA IrqInit == Init => IrqInv
<1> SUFFICES ASSUME Init PROVE IrqInv
  OBVIOUS
<1>1. Shapes
  BY DEF Init, Shapes, Idle
<1>2. DrainKinds /\ StoppedIsOff /\ IrqBalanced
  BY DEF Init, DrainKinds, StoppedIsOff, IrqBalanced, Idle
<1> QED
  BY <1>1, <1>2 DEF IrqInv

\* What stopping the engine does, from the interrupt or from a call.
LEMMA StopBalances ==
  ASSUME IrqInv, StopLocked
  PROVE  /\ irq' \in [off : BOOLEAN, depth : Int]
         /\ irq'.off
         /\ irq'.depth = 1 + (IF op.pc = "enable" THEN 1 ELSE 0)
BY DEF IrqInv, Shapes, IrqBalanced, StopLocked

\* Where a call is after it goes on, and after it returns.
LEMMA GotoTo ==
  ASSUME IrqInv, NEW pc, Goto(pc)
  PROVE  DOMAIN op' = DOMAIN op /\ op'.pc = pc /\ op'.kind = op.kind
BY DEF IrqInv, Shapes, Goto

LEMMA ReturnTo ==
  ASSUME IrqInv, Return
  PROVE  DOMAIN op' = DOMAIN op /\ op'.pc = "idle"
BY DEF IrqInv, Shapes, Return, Idle

\* A step of a call that touches neither the engine nor the interrupt.
LEMMA QuietStep ==
  ASSUME IrqInv, UNCHANGED <<ctl, irq>>,
         DOMAIN op' = DOMAIN op,
         op.pc # "enable", op'.pc \notin {"enable", "dma"},
         DrainKinds'
  PROVE  IrqInv'
BY DEF IrqInv, Shapes, StoppedIsOff, IrqBalanced

LEMMA IrqService == IrqInv /\ Service => IrqInv'
<1> SUFFICES ASSUME IrqInv, Service PROVE IrqInv'
  OBVIOUS
<1>1. CASE ServiceBegin
  BY <1>1 DEF IrqInv, Shapes, DrainKinds, StoppedIsOff, IrqBalanced, ServiceBegin
<1>2. CASE ServiceRefill
  BY <1>2 DEF IrqInv, Shapes, DrainKinds, StoppedIsOff, IrqBalanced, ServiceRefill
<1>3. ASSUME StopLocked, UNCHANGED op, ctl'.running = FALSE, DOMAIN ctl' = DOMAIN ctl
      PROVE  IrqInv'
  BY <1>3, StopBalances DEF IrqInv, Shapes, DrainKinds, StoppedIsOff, IrqBalanced
<1>4. CASE ServiceCheck
  <2>1. CASE hw.bits = {}
    BY <1>4, <2>1
    DEF IrqInv, Shapes, DrainKinds, StoppedIsOff, IrqBalanced, ServiceCheck
  <2>2. CASE hw.bits # {}
    BY <1>3, <1>4, <2>2 DEF ServiceCheck, IrqInv, Shapes
  <2> QED
    BY <2>1, <2>2
<1>5. CASE ServiceTimeout
  BY <1>3, <1>5 DEF ServiceTimeout, IrqInv, Shapes
<1> QED
  BY <1>1, <1>2, <1>4, <1>5 DEF Service

LEMMA IrqCalls == IrqInv /\ Calls => IrqInv'
<1> SUFFICES ASSUME IrqInv, Calls PROVE IrqInv'
  OBVIOUS
<1>1. ASSUME NEW kind, NEW pc, NEW len, Call(kind, pc, len),
             pc \notin {"enable", "dma"},
             pc = "drain" => kind \in {"format", "sync", "release"},
             pc \notin {"drain 0", "drain 1"}
      PROVE  IrqInv'
  BY <1>1, QuietStep DEF Call, At, Idle, IrqInv, Shapes, DrainKinds
<1>2. CASE Open
  BY <1>2, QuietStep DEF Open, At, Idle, IrqInv, Shapes, DrainKinds
<1>3. CASE Write
  BY <1>1, <1>3 DEF Write
<1>4. CASE Sync \/ ResetCall \/ Post \/ SetFormat
  BY <1>1, <1>4 DEF Sync, ResetCall, Post, SetFormat
<1>5. CASE Release
  <2>1. CASE ctl.nonblock
    BY <1>1, <1>5, <2>1 DEF Release
  <2>2. CASE ~ctl.nonblock
    BY <1>1, <1>5, <2>2 DEF Release
  <2> QED
    BY <2>1, <2>2
<1>6. CASE NonBlock
  BY <1>6 DEF NonBlock, IrqInv, Shapes, DrainKinds, StoppedIsOff, IrqBalanced
<1> QED
  BY <1>2, <1>3, <1>4, <1>5, <1>6 DEF Calls

LEMMA IrqWrite ==
  IrqInv /\ (WriteCheck \/ WriteSpace \/ WriteWait \/ WriteAppend) => IrqInv'
<1> SUFFICES ASSUME IrqInv, WriteCheck \/ WriteSpace \/ WriteWait \/ WriteAppend
             PROVE  IrqInv'
  OBVIOUS
<1>1. UNCHANGED <<ctl, irq>> /\ op.pc \in {"check", "space", "wait", "append"}
  BY DEF WriteCheck, WriteSpace, WriteWait, WriteAppend, At
<1>2. /\ DOMAIN op' = DOMAIN op
      /\ op'.pc \in {"idle", "space", "wait", "append", "check", "start"}
  <2>1. CASE WriteCheck
    BY <2>1, GotoTo, ReturnTo DEF WriteCheck
  <2>2. CASE WriteSpace
    <3>1. PICK n : Return \/ Goto("wait") \/ op' = [op EXCEPT !.pc = "append", !.n = n]
      BY <2>2 DEF WriteSpace
    <3>2. op' = [op EXCEPT !.pc = "append", !.n = n]
          => DOMAIN op' = DOMAIN op /\ op'.pc = "append"
      BY DEF IrqInv, Shapes
    <3> QED
      BY <3>1, <3>2, GotoTo, ReturnTo
  <2>3. CASE WriteWait
    BY <2>3, GotoTo DEF WriteWait
  <2>4. CASE WriteAppend
    <3>1. PICK done : op' = [op EXCEPT !.pc = "start", !.done = done]
      BY <2>4 DEF WriteAppend
    <3> QED
      BY <3>1 DEF IrqInv, Shapes
  <2> QED
    BY <2>1, <2>2, <2>3, <2>4
<1>3. DrainKinds'
  BY <1>2 DEF DrainKinds
<1> QED
  BY <1>1, <1>2, <1>3, QuietStep

LEMMA IrqStart == IrqInv /\ (Start \/ StartDma \/ EnableIrq) => IrqInv'
<1> SUFFICES ASSUME IrqInv, Start \/ StartDma \/ EnableIrq PROVE IrqInv'
  OBVIOUS
<1>1. AfterStart => DOMAIN op' = DOMAIN op /\ op'.pc \in {"idle", "check"}
  BY GotoTo, ReturnTo DEF AfterStart
<1>2. CASE Start
  <2>1. CASE ctl.running
    BY <1>1, <1>2, <2>1
    DEF Start, At, IrqInv, Shapes, DrainKinds, StoppedIsOff, IrqBalanced
  <2>2. CASE ~ctl.running /\ Goto("dma") /\ UNCHANGED ctl
    <3>1. DOMAIN op' = DOMAIN op /\ op'.pc = "dma"
      BY <2>2, GotoTo
    <3>2. op.pc = "start" /\ UNCHANGED irq
      BY <1>2 DEF Start, At
    <3> QED
      BY <2>2, <3>1, <3>2 DEF IrqInv, Shapes, DrainKinds, StoppedIsOff, IrqBalanced
  <2>3. CASE ~ctl.running /\ Return /\ ctl' = [ctl EXCEPT !.failure = "codec"]
    <3>1. ctl'.running = ctl.running /\ DOMAIN ctl' = DOMAIN ctl
      BY <2>3 DEF IrqInv, Shapes
    <3> QED
      BY <1>2, <2>3, <3>1, ReturnTo
      DEF Start, At, IrqInv, Shapes, DrainKinds, StoppedIsOff, IrqBalanced
  <2> QED
    BY <1>2, <2>1, <2>2, <2>3 DEF Start
<1>3. CASE StartDma
  <2>1. irq.off /\ irq.depth = 1
    BY <1>3 DEF StartDma, At, IrqInv, Shapes, StoppedIsOff, IrqBalanced
  <2>2. /\ irq' = [off |-> FALSE, depth |-> 1]
    BY <1>3, <2>1 DEF StartDma, IrqInv, Shapes
  <2>3. ctl'.running = TRUE /\ DOMAIN ctl' = DOMAIN ctl
    BY <1>3 DEF StartDma, IrqInv, Shapes
  <2>4. op'.pc = "enable" /\ DOMAIN op' = DOMAIN op
    BY <1>3, GotoTo DEF StartDma
  <2> QED
    <3>1. Shapes'
      <4>1. irq' \in [off : BOOLEAN, depth : Int]
        BY <2>2
      <4>2. ctl'.running \in BOOLEAN
        BY <2>3
      <4> QED
        BY <2>3, <2>4, <4>1, <4>2 DEF IrqInv, Shapes
    <3>2. DrainKinds' /\ StoppedIsOff'
      BY <2>3, <2>4 DEF DrainKinds, StoppedIsOff
    <3>3. IrqBalanced'
      BY <2>2, <2>4 DEF IrqBalanced
    <3> QED
      BY <3>1, <3>2, <3>3 DEF IrqInv
<1>4. CASE EnableIrq
  <2>1. irq' \in [off : BOOLEAN, depth : Int] /\ irq'.off = irq.off
        /\ irq'.depth = irq.depth - 1 /\ op.pc = "enable" /\ UNCHANGED ctl
    BY <1>4 DEF EnableIrq, At, IrqInv, Shapes
  <2> QED
    <3>1. DOMAIN op' = DOMAIN op /\ op'.pc \in {"idle", "check"}
      BY <1>1, <1>4 DEF EnableIrq
    <3>2. Shapes'
      BY <2>1, <3>1 DEF IrqInv, Shapes
    <3>3. DrainKinds' /\ StoppedIsOff'
      BY <2>1, <3>1 DEF IrqInv, DrainKinds, StoppedIsOff
    <3>4. IrqBalanced'
      BY <2>1, <3>1 DEF IrqInv, IrqBalanced
    <3> QED
      BY <3>2, <3>3, <3>4 DEF IrqInv
<1> QED
  BY <1>2, <1>3, <1>4

LEMMA IrqDrain ==
  IrqInv /\ (Drain \/ Drain0 \/ Drain1 \/ Reset \/ Signal) => IrqInv'
<1> SUFFICES ASSUME IrqInv, Drain \/ Drain0 \/ Drain1 \/ Reset \/ Signal PROVE IrqInv'
  OBVIOUS
<1>1. CASE Drain \/ Drain0
  <2>1. \E pc \in {"drain 0", "drain 1"} : \E sum :
          op' = [op EXCEPT !.pc = pc, !.sum = sum]
    BY <1>1 DEF Drain, Drain0
  <2>2. DOMAIN op' = DOMAIN op /\ op'.pc \in {"drain 0", "drain 1"} /\ op'.kind = op.kind
    BY <2>1 DEF IrqInv, Shapes
  <2>3. op.pc \in {"drain", "drain 0"} /\ UNCHANGED <<ctl, irq>>
    BY <1>1 DEF Drain, Drain0, At
  <2>4. DrainKinds'
    BY <2>2, <2>3 DEF IrqInv, DrainKinds
  <2> QED
    BY <2>2, <2>3, <2>4, QuietStep
<1>2. ASSUME UNCHANGED <<ctl, irq>>,
             op.pc \in {"drain 1", "drain", "wait"},
             Return \/ Goto("reset") \/ (Goto("drain") /\ op.pc = "drain 1")
      PROVE  IrqInv'
  <2>1. /\ DOMAIN op' = DOMAIN op
        /\ \/ op'.pc \in {"idle", "reset"}
           \/ op'.pc = "drain" /\ op.pc = "drain 1" /\ op'.kind = op.kind
    <3>1. CASE Return
      BY <3>1, ReturnTo
    <3>2. CASE Goto("reset")
      BY <3>2, GotoTo
    <3>3. CASE Goto("drain") /\ op.pc = "drain 1"
      BY <3>3, GotoTo
    <3> QED
      BY <1>2, <3>1, <3>2, <3>3
  <2>2. DrainKinds'
    BY <2>1 DEF IrqInv, DrainKinds
  <2> QED
    BY <1>2, <2>1, <2>2, QuietStep
<1>3. CASE Drain1
  <2>1. op.kind \in {"format", "sync", "release"}
    BY <1>3 DEF Drain1, At, IrqInv, DrainKinds
  <2>2. Return \/ Goto("reset") \/ Goto("drain")
    BY <1>3, <2>1 DEF Drain1
  <2> QED
    BY <1>2, <1>3, <2>2 DEF Drain1, At
<1>4. CASE Reset
  <2>1. op.pc = "reset" /\ StopLocked
    BY <1>4 DEF Reset, At
  <2>2. irq' \in [off : BOOLEAN, depth : Int] /\ irq'.off /\ irq'.depth = 1
    BY <2>1, StopBalances
  <2>3. ctl'.running = FALSE /\ DOMAIN ctl' = DOMAIN ctl
    BY <1>4 DEF Reset, IrqInv, Shapes
  <2>4. DOMAIN op' = DOMAIN op /\ op'.pc = "idle"
    BY <1>4, ReturnTo DEF Reset
  <2>5. Shapes'
    <3>1. ctl'.running \in BOOLEAN
      BY <2>3
    <3> QED
      BY <2>2, <2>3, <2>4, <3>1 DEF IrqInv, Shapes
  <2>6. DrainKinds' /\ StoppedIsOff' /\ IrqBalanced'
    BY <2>2, <2>4 DEF DrainKinds, StoppedIsOff, IrqBalanced
  <2> QED
    BY <2>5, <2>6 DEF IrqInv
<1>5. CASE Signal
  BY <1>2, <1>5 DEF Signal, At
<1> QED
  BY <1>1, <1>3, <1>4, <1>5

LEMMA IrqNext == IrqInv /\ [Next]_vars => IrqInv'
<1> SUFFICES ASSUME IrqInv, [Next]_vars PROVE IrqInv'
  OBVIOUS
<1>1. CASE Complete \/ Stall
  <2>1. UNCHANGED <<ctl, irq, op>>
    BY <1>1 DEF Complete, Stall
  <2> QED
    BY <2>1 DEF IrqInv, Shapes, DrainKinds, StoppedIsOff, IrqBalanced
<1>2. CASE UNCHANGED vars
  BY <1>2 DEF vars, IrqInv, Shapes, DrainKinds, StoppedIsOff, IrqBalanced
<1>3. CASE Steps
  BY <1>3, IrqWrite, IrqStart, IrqDrain DEF Steps
<1> QED
  BY <1>1, <1>2, <1>3, IrqService, IrqCalls, IrqDrain DEF Next

\* The kernel's disable depth always equals the disables the driver still
\* owes an enable for, whatever interleaving of start() with a failing or
\* timed-out service() (audio.c 83-86, 167-169).
THEOREM IrqIsBalanced == Spec => []IrqBalanced
<1>1. IrqInv => IrqBalanced
  BY DEF IrqInv
<1> QED
  BY <1>1, IrqInit, IrqNext, PTL DEF Spec

----------------------------------------------------------------------------
\* What is left of an even number at an even wrap is even.

LEMMA TwiceEven == ASSUME NEW k \in Int PROVE (2 * k) % 2 = 0
BY SMT

LEMMA EvenSum ==
  ASSUME NEW a \in Int, NEW b \in Int, a % 2 = 0
  PROVE  (a + b) % 2 = b % 2
BY SMT

LEMMA EvenProduct ==
  ASSUME NEW a \in Int, NEW b \in Int, NEW p \in Int, p = a * b, a % 2 = 0
  PROVE  p % 2 = 0
<1>1. PICK k \in Int : a = 2 * k
  BY SMT
<1>2. PICK m \in Int : m = k * b
  OBVIOUS
<1>3. p = 2 * m
  BY <1>1, <1>2, SMT
<1> QED
  BY <1>3, TwiceEven

LEMMA EvenWrap ==
  ASSUME NEW x \in Int, NEW w \in Nat \ {0}, w % 2 = 0
  PROVE  (x % w) % 2 = x % 2
<1>1. PICK p \in Int, q \in Int, r \in Int : p = w * q /\ r = x % w /\ x = p + r
  <2> x \div w \in Int /\ x % w \in Int /\ x = w * (x \div w) + (x % w)
    BY SMT
  <2> QED
    OBVIOUS
<1>2. w \in Int
  OBVIOUS
<1>3. p % 2 = 0
  BY <1>1, <1>2, EvenProduct, Zenon
<1>4. x % 2 = r % 2
  BY <1>1, <1>3, EvenSum, Zenon
<1> QED
  BY <1>1, <1>4, Zenon

LEMMA EvenWidth == Width % 2 = 0 /\ Width \in Nat \ {0} /\ Ring % 2 = 0 /\ Dma % 2 = 0
<1>1. (Width % Ring) % 2 = Width % 2
  BY AudioAssumption, EvenWrap
<1>2. Width % Ring = 0 /\ Ring % 2 = 0 /\ Dma % 2 = 0
  BY AudioAssumption
<1>3. 0 % 2 = 0
  BY SMT
<1> QED
  BY <1>1, <1>2, <1>3, AudioAssumption

----------------------------------------------------------------------------

\* Ring and buffers b hold whole frames of c samples.
Framed(b, c) ==
  /\ DOMAIN b = {"head", "tail", "ring", "dma", "inflight", "next"}
  /\ b.head \in Int /\ b.tail \in Int /\ b.inflight \in [{0, 1} -> Int] /\ b.next \in {0, 1}
  /\ c = 2 => /\ b.head % 2 = 0 /\ b.tail % 2 = 0
              /\ \A i \in {0, 1} : b.inflight[i] % 2 = 0

\* A write in progress goes on in whole frames.
WriteFramed ==
  /\ DOMAIN op = {"pc", "kind", "len", "done", "n", "sum"}
  /\ op.len \in Int /\ op.done \in Int /\ op.n \in Int
  /\ op.pc \in {"check", "space", "wait", "append"} => op.kind = "write"
  /\ op.kind = "format" => op.len \in {1, 2}
  /\ op.kind = "write" /\ ctl.channels = 2 =>
       op.len % 2 = 0 /\ op.done % 2 = 0 /\ (op.pc = "append" => op.n % 2 = 0)

FrameInv ==
  /\ DOMAIN ctl = {"running", "failure", "opened", "channels", "nonblock"}
  /\ ctl.channels \in {1, 2}
  /\ Framed(buf, ctl.channels)
  /\ WriteFramed

LEMMA FillFramed ==
  ASSUME NEW b, NEW c, Framed(b, c)
  PROVE  Fill(b) \in Int /\ (c = 2 => Fill(b) % 2 = 0)
<1>1. PICK h \in Int, t \in Int : h = b.head /\ t = b.tail /\ (c = 2 => h % 2 = 0 /\ t % 2 = 0)
  BY DEF Framed
<1>2. PICK d \in Int : d = h - t
  OBVIOUS
<1>3. c = 2 => d % 2 = 0
  <2>1. h % 2 = 0 /\ t % 2 = 0 => d % 2 = 0
    BY <1>2, SMT
  <2> QED
    BY <1>1, <2>1
<1>4. d % Width \in Int /\ (d % Width) % 2 = d % 2
  BY EvenWidth, EvenWrap
<1>5. Fill(b) = d % Width
  BY <1>1, <1>2 DEF Fill
<1> QED
  BY <1>3, <1>4, <1>5

LEMMA RefillFramed ==
  ASSUME NEW b, NEW c, Framed(b, c), NEW i \in {0, 1}
  PROVE  Framed(Refill(b, i), c)
<1>1. PICK n \in Int : n = Lowest(Fill(b), Dma) /\ (c = 2 => n % 2 = 0)
  BY FillFramed, EvenWidth, AudioAssumption DEF Lowest
<1>2. PICK t \in Int : t = (b.tail + n) % Width /\ (c = 2 => t % 2 = 0)
  <2>1. PICK u \in Int : u = b.tail /\ (c = 2 => u % 2 = 0)
    BY DEF Framed
  <2>2. PICK v \in Int : v = u + n
    OBVIOUS
  <2>3. c = 2 => v % 2 = 0
    BY <1>1, <2>1, <2>2, EvenSum
  <2>4. v % Width \in Int /\ (v % Width) % 2 = v % 2
    BY EvenWidth, EvenWrap
  <2> QED
    BY <2>1, <2>2, <2>3, <2>4
<1>3. PICK d : Refill(b, i) = [b EXCEPT !.tail = t, !.dma[i] = d, !.inflight[i] = n]
  BY <1>1, <1>2 DEF Refill
<1>4. PICK r : r = [b EXCEPT !.tail = t, !.dma[i] = d, !.inflight[i] = n]
  OBVIOUS
<1>5. /\ DOMAIN r = {"head", "tail", "ring", "dma", "inflight", "next"}
      /\ r.head = b.head /\ r.tail = t /\ r.next = b.next
      /\ r.inflight = [b.inflight EXCEPT ![i] = n]
  BY <1>4 DEF Framed
<1>6. /\ r.inflight \in [{0, 1} -> Int]
      /\ c = 2 => \A j \in {0, 1} : r.inflight[j] % 2 = 0
  BY <1>1, <1>5 DEF Framed
<1>7. Framed(r, c)
  BY <1>2, <1>5, <1>6 DEF Framed
<1> QED
  BY <1>3, <1>4, <1>7

\* A step that leaves ring, buffers and format alone.
LEMMA FrameQuiet ==
  ASSUME FrameInv, UNCHANGED buf, ctl'.channels = ctl.channels, DOMAIN ctl' = DOMAIN ctl,
         WriteFramed'
  PROVE  FrameInv'
BY DEF FrameInv

LEMMA FrameGoto ==
  ASSUME FrameInv, NEW pc, Goto(pc), ctl'.channels = ctl.channels,
         pc \in {"check", "space", "wait"} => op.kind = "write", pc # "append"
  PROVE  WriteFramed'
<1>1. /\ DOMAIN op' = DOMAIN op /\ op'.pc = pc /\ op'.kind = op.kind
      /\ op'.len = op.len /\ op'.done = op.done /\ op'.n = op.n
  BY DEF FrameInv, WriteFramed, Goto
<1> QED
  BY <1>1 DEF FrameInv, WriteFramed

LEMMA FrameReturn ==
  ASSUME Return
  PROVE  WriteFramed'
BY DEF Return, Idle, WriteFramed

LEMMA FrameInit == Init => FrameInv
<1> SUFFICES ASSUME Init PROVE FrameInv
  OBVIOUS
<1>1. WriteFramed
  BY DEF Init, Idle, WriteFramed
<1>2. Framed(buf, 2)
  BY DEF Init, Empty, Framed
<1> QED
  BY <1>1, <1>2 DEF Init, FrameInv

LEMMA FrameService == FrameInv /\ (Complete \/ Stall \/ Service) => FrameInv'
<1> SUFFICES ASSUME FrameInv, Complete \/ Stall \/ Service PROVE FrameInv'
  OBVIOUS
<1>1. UNCHANGED op
  BY DEF Complete, Stall, Service, ServiceBegin, ServiceRefill, ServiceCheck, ServiceTimeout
<1>2. ctl'.channels = ctl.channels /\ DOMAIN ctl' = DOMAIN ctl
  <2>1. CASE UNCHANGED ctl
    BY <2>1
  <2>2. CASE \E why : ctl' = [ctl EXCEPT !.running = FALSE, !.failure = why]
    BY <2>2 DEF FrameInv
  <2> QED
    BY <2>1, <2>2
    DEF Complete, Stall, Service, ServiceBegin, ServiceRefill, ServiceCheck, ServiceTimeout
<1>3. WriteFramed'
  BY <1>1, <1>2 DEF FrameInv, WriteFramed
<1>4. CASE UNCHANGED buf
  BY <1>2, <1>3, <1>4, FrameQuiet
<1>5. CASE ServiceRefill
  <2> DEFINE i == buf.next
             once == Refill(buf, i)
             twice == Refill(once, 1 - i)
             turned == [once EXCEPT !.next = 1 - i]
  <2>1. i \in {0, 1} /\ 1 - i \in {0, 1}
    BY DEF FrameInv, Framed
  <2>2. Framed(once, ctl.channels)
    BY <2>1, RefillFramed DEF FrameInv
  <2>3. Framed(twice, ctl.channels)
    BY <2>1, <2>2, RefillFramed
  <2>4. buf' = turned \/ buf' = twice
    BY <1>5 DEF ServiceRefill
  <2> HIDE DEF once, i
  <2>5. Framed(turned, ctl.channels)
    BY <2>1, <2>2 DEF Framed
  <2> QED
    BY <1>2, <1>3, <2>3, <2>4, <2>5 DEF FrameInv
<1> QED
  BY <1>4, <1>5
  DEF Complete, Stall, Service, ServiceBegin, ServiceRefill, ServiceCheck, ServiceTimeout

LEMMA FrameCalls == FrameInv /\ Calls => FrameInv'
<1> SUFFICES ASSUME FrameInv, Calls PROVE FrameInv'
  OBVIOUS
<1>1. ASSUME NEW kind, NEW pc, NEW len \in Int, Call(kind, pc, len),
             pc = "check" <=> kind = "write", pc \notin {"space", "wait", "append"},
             kind = "format" => len \in {1, 2},
             kind = "write" /\ ctl.channels = 2 => len % 2 = 0
      PROVE  FrameInv'
  <2>1. UNCHANGED <<buf, ctl>> /\ op' = [Idle EXCEPT !.pc = pc, !.kind = kind, !.len = len]
    BY <1>1 DEF Call
  <2>2. /\ DOMAIN op' = {"pc", "kind", "len", "done", "n", "sum"}
        /\ op'.pc = pc /\ op'.kind = kind /\ op'.len = len /\ op'.done = 0 /\ op'.n = 0
    BY <2>1 DEF Idle
  <2>3. 0 % 2 = 0
    BY SMT
  <2>4. WriteFramed'
    BY <1>1, <2>1, <2>2, <2>3 DEF WriteFramed
  <2> QED
    BY <2>1, <2>4, FrameQuiet
<1>2. CASE Open
  <2>1. /\ DOMAIN op' = {"pc", "kind", "len", "done", "n", "sum"}
        /\ op'.pc = "reset" /\ op'.kind = "open" /\ op'.len = 0 /\ op'.done = 0 /\ op'.n = 0
    BY <1>2 DEF Open, Idle
  <2>2. WriteFramed'
    BY <2>1 DEF WriteFramed
  <2> QED
    BY <1>2, <2>2, FrameQuiet DEF Open
<1>3. CASE Write
  <2>1. PICK len \in WriteSizes : len % ctl.channels = 0 /\ Call("write", "check", len)
    BY <1>3 DEF Write
  <2>2. len \in Int /\ (ctl.channels = 2 => len % 2 = 0)
    BY <2>1, AudioAssumption
  <2> QED
    BY <1>1, <2>1, <2>2
<1>4. CASE Sync \/ ResetCall \/ Post \/ SetFormat
  BY <1>1, <1>4 DEF Sync, ResetCall, Post, SetFormat
<1>5. CASE Release
  <2>1. CASE ctl.nonblock
    BY <1>1, <1>5, <2>1 DEF Release
  <2>2. CASE ~ctl.nonblock
    BY <1>1, <1>5, <2>2 DEF Release
  <2> QED
    BY <2>1, <2>2
<1>6. CASE NonBlock
  <2>1. UNCHANGED <<buf, op>> /\ ctl'.channels = ctl.channels /\ DOMAIN ctl' = DOMAIN ctl
    BY <1>6 DEF NonBlock, FrameInv
  <2>2. WriteFramed'
    BY <2>1 DEF FrameInv, WriteFramed
  <2> QED
    BY <2>1, <2>2, FrameQuiet
<1> QED
  BY <1>2, <1>3, <1>4, <1>5, <1>6 DEF Calls

LEMMA FrameWrite ==
  FrameInv /\ (WriteCheck \/ WriteSpace \/ WriteWait \/ WriteAppend) => FrameInv'
<1> SUFFICES ASSUME FrameInv, WriteCheck \/ WriteSpace \/ WriteWait \/ WriteAppend
             PROVE  FrameInv'
  OBVIOUS
<1>1. UNCHANGED ctl /\ op.kind = "write"
  BY DEF WriteCheck, WriteSpace, WriteWait, WriteAppend, At, FrameInv, WriteFramed
<1>2. CASE UNCHANGED buf /\ (Return \/ Goto("space") \/ Goto("wait") \/ Goto("check"))
  BY <1>1, <1>2, FrameReturn, FrameGoto, FrameQuiet
<1>3. ASSUME UNCHANGED buf,
             op' = [op EXCEPT !.pc = "append",
                              !.n = Lowest(Lowest(op.len - op.done, Chunk), Ring - Fill(buf))]
      PROVE  FrameInv'
  <2>1. PICK left \in Int, space \in Int :
          /\ left = op.len - op.done /\ space = Ring - Fill(buf)
          /\ ctl.channels = 2 => left % 2 = 0 /\ space % 2 = 0
    <3>1. Fill(buf) \in Int /\ (ctl.channels = 2 => Fill(buf) % 2 = 0)
      BY FillFramed DEF FrameInv
    <3>2. \A a, b \in Int : a % 2 = 0 /\ b % 2 = 0 => (a - b) % 2 = 0
      BY SMT
    <3>3. /\ op.len \in Int /\ op.done \in Int
          /\ ctl.channels = 2 => op.len % 2 = 0 /\ op.done % 2 = 0
      BY <1>1 DEF FrameInv, WriteFramed
    <3>4. op.len - op.done \in Int /\ (ctl.channels = 2 => (op.len - op.done) % 2 = 0)
      BY <3>2, <3>3
    <3>5. Ring - Fill(buf) \in Int /\ (ctl.channels = 2 => (Ring - Fill(buf)) % 2 = 0)
      BY <3>1, <3>2, EvenWidth, AudioAssumption
    <3> QED
      BY <3>4, <3>5
  <2>2. PICK n \in Int : /\ n = Lowest(Lowest(left, Chunk), space)
                         /\ ctl.channels = 2 => n % 2 = 0
    BY <2>1, AudioAssumption DEF Lowest
  <2>3. op' = [op EXCEPT !.pc = "append", !.n = n]
    BY <1>3, <2>1, <2>2
  <2>4. /\ DOMAIN op' = DOMAIN op /\ op'.pc = "append" /\ op'.kind = op.kind
        /\ op'.len = op.len /\ op'.done = op.done /\ op'.n = n
    BY <2>3 DEF FrameInv, WriteFramed
  <2>5. WriteFramed'
    BY <1>1, <2>2, <2>4 DEF FrameInv, WriteFramed
  <2> QED
    BY <1>1, <1>3, <2>5, FrameQuiet
<1>4. CASE WriteAppend
  <2>1. PICK head \in Int, done \in Int :
          /\ head = (buf.head + op.n) % Width /\ done = op.done + op.n
          /\ ctl.channels = 2 => head % 2 = 0 /\ done % 2 = 0
    <3>1. PICK h \in Int, d \in Int, n \in Int :
            /\ h = buf.head /\ d = op.done /\ n = op.n
            /\ ctl.channels = 2 => h % 2 = 0 /\ d % 2 = 0 /\ n % 2 = 0
      BY <1>1, <1>4 DEF WriteAppend, At, FrameInv, Framed, WriteFramed
    <3>2. PICK u \in Int, v \in Int : u = h + n /\ v = d + n
      OBVIOUS
    <3>3. ctl.channels = 2 => u % 2 = 0 /\ v % 2 = 0
      BY <3>1, <3>2, EvenSum
    <3>4. u % Width \in Int /\ (u % Width) % 2 = u % 2
      BY EvenWidth, EvenWrap
    <3> QED
      BY <3>1, <3>2, <3>3, <3>4
  <2>2. PICK ring : buf' = [buf EXCEPT !.head = head, !.ring = ring]
    BY <1>4, <2>1 DEF WriteAppend
  <2>3. Framed(buf', ctl.channels)
    BY <2>1, <2>2 DEF FrameInv, Framed
  <2>4. op' = [op EXCEPT !.pc = "start", !.done = done]
    BY <1>4, <2>1 DEF WriteAppend
  <2>5. /\ DOMAIN op' = DOMAIN op /\ op'.pc = "start" /\ op'.kind = op.kind
        /\ op'.len = op.len /\ op'.done = done /\ op'.n = op.n
    BY <2>4 DEF FrameInv, WriteFramed
  <2>6. WriteFramed'
    BY <1>1, <2>1, <2>5 DEF FrameInv, WriteFramed
  <2> QED
    BY <1>1, <2>3, <2>6 DEF FrameInv
<1>5. CASE WriteCheck \/ WriteWait
  BY <1>2, <1>5 DEF WriteCheck, WriteWait
<1>6. CASE WriteSpace
  BY <1>2, <1>3, <1>6 DEF WriteSpace
<1> QED
  BY <1>4, <1>5, <1>6

LEMMA FrameStart == FrameInv /\ (Start \/ StartDma \/ EnableIrq) => FrameInv'
<1> SUFFICES ASSUME FrameInv, Start \/ StartDma \/ EnableIrq PROVE FrameInv'
  OBVIOUS
<1>1. ctl'.channels = ctl.channels /\ DOMAIN ctl' = DOMAIN ctl
  <2>1. \/ UNCHANGED ctl
        \/ ctl' = [ctl EXCEPT !.failure = "codec"]
        \/ ctl' = [ctl EXCEPT !.running = TRUE]
    BY DEF Start, StartDma, EnableIrq
  <2> QED
    BY <2>1 DEF FrameInv
<1>2. WriteFramed'
  <2>1. Return \/ (op.kind = "write" /\ Goto("check")) \/ Goto("dma") \/ Goto("enable")
    BY DEF Start, StartDma, EnableIrq, AfterStart
  <2> QED
    BY <1>1, <2>1, FrameReturn, FrameGoto
<1>3. CASE UNCHANGED buf
  BY <1>1, <1>2, <1>3, FrameQuiet
<1>4. CASE StartDma
  <2> DEFINE once == Refill(buf, 0)
             twice == Refill(once, 1)
  <2>1. Framed(twice, ctl.channels)
    BY RefillFramed DEF FrameInv
  <2>2. buf' = [twice EXCEPT !.next = 0]
    BY <1>4 DEF StartDma
  <2> HIDE DEF twice
  <2>3. Framed(buf', ctl.channels)
    BY <2>1, <2>2 DEF Framed
  <2> QED
    BY <1>1, <1>2, <2>3 DEF FrameInv
<1> QED
  BY <1>3, <1>4 DEF Start, EnableIrq

\* drain() needs to know who called it: its CASE has no other branch.
LEMMA FrameDrain ==
  FrameInv /\ DrainKinds /\ (Drain \/ Drain0 \/ Drain1 \/ Reset \/ Signal) => FrameInv'
<1> SUFFICES ASSUME FrameInv, DrainKinds, Drain \/ Drain0 \/ Drain1 \/ Reset \/ Signal
             PROVE  FrameInv'
  OBVIOUS
<1>1. CASE Drain \/ Drain0
  <2>1. \E pc \in {"drain 0", "drain 1"} : \E sum : op' = [op EXCEPT !.pc = pc, !.sum = sum]
    BY <1>1 DEF Drain, Drain0
  <2>2. /\ DOMAIN op' = DOMAIN op /\ op'.pc \in {"drain 0", "drain 1"}
        /\ op'.kind = op.kind /\ op'.len = op.len /\ op'.done = op.done /\ op'.n = op.n
    BY <2>1 DEF FrameInv, WriteFramed
  <2>3. UNCHANGED <<buf, ctl>>
    BY <1>1 DEF Drain, Drain0
  <2>4. WriteFramed'
    BY <2>2, <2>3 DEF FrameInv, WriteFramed
  <2> QED
    BY <2>3, <2>4, FrameQuiet
<1>2. ASSUME UNCHANGED <<buf, ctl>>, Return \/ Goto("reset") \/ Goto("drain")
      PROVE  FrameInv'
  BY <1>2, FrameReturn, FrameGoto, FrameQuiet
<1>3. CASE Drain1
  <2>1. op.kind \in {"format", "sync", "release"}
    BY <1>3 DEF Drain1, At, DrainKinds
  <2>2. Return \/ Goto("reset") \/ Goto("drain")
    BY <1>3, <2>1 DEF Drain1
  <2>3. UNCHANGED <<buf, ctl>>
    BY <1>3 DEF Drain1
  <2> QED
    BY <1>2, <2>2, <2>3
<1>4. CASE Reset
  <2>1. Return /\ buf' = [Empty EXCEPT !.next = buf.next]
    BY <1>4 DEF Reset
  <2>2. /\ DOMAIN ctl' = DOMAIN ctl
        /\ ctl'.channels = IF op.kind = "open" THEN 2
                           ELSE IF op.kind = "format" THEN op.len ELSE ctl.channels
    BY <1>4 DEF Reset, FrameInv
  <2>3. ctl'.channels \in {1, 2}
    BY <2>2 DEF FrameInv, WriteFramed
  <2>4. Framed(buf', ctl'.channels)
    BY <2>1 DEF Empty, Framed, FrameInv
  <2> QED
    BY <2>1, <2>2, <2>3, <2>4, FrameReturn DEF FrameInv
<1>5. CASE Signal
  BY <1>2, <1>5 DEF Signal
<1> QED
  BY <1>1, <1>3, <1>4, <1>5

LEMMA FrameNext == FrameInv /\ DrainKinds /\ [Next]_vars => FrameInv'
<1> SUFFICES ASSUME FrameInv, DrainKinds, [Next]_vars PROVE FrameInv'
  OBVIOUS
<1>1. CASE UNCHANGED vars
  <2>1. WriteFramed'
    BY <1>1 DEF vars, FrameInv, WriteFramed
  <2> QED
    BY <1>1, <2>1, FrameQuiet DEF vars
<1>2. CASE Steps
  BY <1>2, FrameWrite, FrameStart, FrameDrain DEF Steps
<1> QED
  BY <1>1, <1>2, FrameService, FrameCalls, FrameDrain DEF Next

\* Between ring, buffers and a stereo stream no frame is ever cut: not by a
\* full ring, a chunk, a fault, a signal or the wrap of head and tail
\* (audio.c 58-72, 221-265).
THEOREM FramesWhole == Spec => []WholeFrames
<1>1. FrameInv => WholeFrames
  <2> SUFFICES ASSUME FrameInv PROVE WholeFrames
    OBVIOUS
  <2>1. Fill(buf) \in Int /\ (ctl.channels = 2 => Fill(buf) % 2 = 0)
    BY FillFramed DEF FrameInv
  <2>2. /\ ctl.channels \in {1, 2} /\ \A i \in {0, 1} : buf.inflight[i] \in Int
        /\ ctl.channels = 2 => \A i \in {0, 1} : buf.inflight[i] % 2 = 0
    BY DEF FrameInv, Framed
  <2>3. \A x \in Int : x % 1 = 0
    BY SMT
  <2>4. CASE ctl.channels = 1
    BY <2>1, <2>2, <2>3, <2>4 DEF WholeFrames
  <2>5. CASE ctl.channels = 2
    BY <2>1, <2>2, <2>5 DEF WholeFrames
  <2> QED
    BY <2>2, <2>4, <2>5
<1>2. IrqInv => DrainKinds
  BY DEF IrqInv
<1> QED
  BY <1>1, <1>2, IrqInit, IrqNext, FrameInit, FrameNext, PTL DEF Spec

----------------------------------------------------------------------------
\* Division with a remainder.  Product and remainder have names of their
\* own, so that a linear step need not look into them.

Times(a, b) == a * b
Mod(a, b) == a % b

\* w is a multiple of n.
Whole(w, n) == Mod(w, n) = 0

\* A number is a multiple of n and a remainder.
LEMMA Divides ==
  ASSUME NEW x \in Int, NEW n \in Nat \ {0}
  PROVE  \E q \in Int, m \in Int, r \in 0 .. n - 1 :
           m = Times(n, q) /\ x = m + r /\ r = Mod(x, n)
<1>1. x \div n \in Int /\ x % n \in Int /\ x = n * (x \div n) + (x % n)
  BY SMT
<1>2. x % n \in 0 .. n - 1
  BY SMT
<1>3. n * (x \div n) \in Int
  BY <1>1, SMT
<1> QED
  BY <1>1, <1>2, <1>3 DEF Times, Mod

\* Multiples add up, and a multiple of a multiple is one.
LEMMA TimesSum ==
  ASSUME NEW n \in Int, NEW p \in Int, NEW q \in Int
  PROVE  /\ Times(n, p + q) = Times(n, p) + Times(n, q)
         /\ Times(n, p - q) = Times(n, p) - Times(n, q)
         /\ Times(n, p) \in Int
BY SMT DEF Times

LEMMA TimesProduct ==
  \A n, k, p \in Int : Times(Times(n, k), p) = Times(n, Times(k, p)) /\ Times(k, p) \in Int
BY SMT DEF Times

\* Below n and above -n there is one multiple of n.
LEMMA TimesSmall ==
  ASSUME NEW n \in Nat \ {0}, NEW k \in Int, -n < Times(n, k), Times(n, k) < n
  PROVE  k = 0 /\ Times(n, k) = 0
<1>1. k >= 1 => Times(n, k) >= n
  BY SMT DEF Times
<1>2. k <= -1 => Times(n, k) <= -n
  BY SMT DEF Times
<1>3. Times(n, k) \in Int
  BY SMT DEF Times
<1>4. k = 0
  BY <1>1, <1>2, <1>3
<1>5. Times(n, 0) = 0
  BY SMT DEF Times
<1> QED
  BY <1>4, <1>5

\* There is one remainder.
LEMMA Remainder ==
  \A n \in Nat \ {0}, q \in Int, x \in Int : \A r \in 0 .. n - 1 :
    x = Times(n, q) + r => Mod(x, n) = r
<1> SUFFICES ASSUME NEW n \in Nat \ {0}, NEW q \in Int, NEW x \in Int, NEW r \in 0 .. n - 1,
                    x = Times(n, q) + r
             PROVE  Mod(x, n) = r
  OBVIOUS
<1>1. PICK d \in Int, p \in Int, s \in 0 .. n - 1 : p = Times(n, d) /\ x = p + s /\ s = Mod(x, n)
  BY Divides
<1>2. Times(n, q - d) = Times(n, q) - p /\ Times(n, q) \in Int /\ q - d \in Int
  BY <1>1, TimesSum
<1>3. Times(n, q - d) = s - r
  BY <1>1, <1>2
<1>4. Times(n, q - d) = 0
  BY <1>2, <1>3, TimesSmall
<1>5. s \in Int /\ r \in Int
  OBVIOUS
<1>6. s = r
  BY <1>3, <1>4, <1>5
<1> QED
  BY <1>1, <1>6, Zenon

\* A summand may be reduced before the sum is.
LEMMA WrapSum ==
  ASSUME NEW a \in Int, NEW b \in Int, NEW n \in Nat \ {0}
  PROVE  Mod(Mod(a, n) + b, n) = Mod(a + b, n)
<1>1. PICK p \in Int, i \in Int, s \in 0 .. n - 1 : i = Times(n, p) /\ a = i + s /\ s = Mod(a, n)
  BY Divides
<1>2. s + b \in Int
  OBVIOUS
<1>3. PICK d \in Int, j \in Int, r \in 0 .. n - 1 :
        j = Times(n, d) /\ s + b = j + r /\ r = Mod(s + b, n)
  BY <1>2, Divides
<1>4. Times(n, p + d) = i + j
  BY <1>1, <1>3, TimesSum
<1>5. a + b = Times(n, p + d) + r
  BY <1>1, <1>3, <1>4
<1>6. p + d \in Int /\ a + b \in Int
  OBVIOUS
<1>7. Mod(a + b, n) = r
  BY <1>5, <1>6, Remainder
<1> QED
  BY <1>1, <1>3, <1>7

\* A counter may wrap at any multiple of what it is reduced by.
LEMMA WrapTwice ==
  ASSUME NEW n \in Nat \ {0}, NEW w \in Nat \ {0}, NEW x \in Int, Whole(w, n)
  PROVE  Mod(Mod(x, w), n) = Mod(x, n)
<1>0. w \in Int
  OBVIOUS
<1>b. n \in Int
  OBVIOUS
<1>1. PICK k \in Int, m \in Int, e \in 0 .. n - 1 :
        m = Times(n, k) /\ w = m + e /\ e = Mod(w, n)
  BY <1>0, Divides
<1>2. w = m
  <2>1. w = m + e
    BY <1>1, Zenon
  <2>2. e = 0
    BY <1>1, Zenon DEF Whole
  <2> QED
    BY <2>1, <2>2
<1>3. PICK p \in Int, i \in Int, s \in 0 .. w - 1 :
        i = Times(w, p) /\ x = i + s /\ s = Mod(x, w)
  BY Divides
<1>a. s \in Int
  BY <1>0
<1>4. PICK d \in Int, j \in Int, r \in 0 .. n - 1 :
        j = Times(n, d) /\ s = j + r /\ r = Mod(s, n)
  BY <1>a, Divides
<1>5. PICK q \in Int : i = Times(n, q)
  <2>1. Times(Times(n, k), p) = Times(n, Times(k, p)) /\ Times(k, p) \in Int
    BY <1>b, TimesProduct
  <2>2. i = Times(Times(n, k), p)
    BY <1>1, <1>2, <1>3, Zenon
  <2> QED
    BY <2>1, <2>2, Zenon
<1>6. Times(n, q + d) = i + j
  BY <1>4, <1>5, TimesSum
<1>7. x = Times(n, q + d) + r
  <2>1. x = i + s /\ s = j + r
    BY <1>3, <1>4, Zenon
  <2>2. x = (i + j) + r
    BY <1>a, <2>1
  <2> QED
    BY <1>6, <2>2, Zenon
<1>8. q + d \in Int
  OBVIOUS
<1>9. Mod(x, n) = r
  BY <1>7, <1>8, Remainder
<1> QED
  BY <1>3, <1>4, <1>9

\* The slot of a counter is the same before and after it wraps.
LEMMA WrapInRing ==
  ASSUME NEW x \in Int
  PROVE  Mod(Mod(x, Width), Ring) = Mod(x, Ring)
<1>1. Width \in Nat \ {0} /\ Ring \in Nat \ {0} /\ Whole(Width, Ring)
  BY AudioAssumption DEF Mod, Whole
<1> QED
  BY <1>1, WrapTwice

LEMMA SlotOfSum ==
  ASSUME NEW a \in Int, NEW b \in Int
  PROVE  Mod(Mod(a, Width) + b, Ring) = Mod(a + b, Ring)
<1>0. Width \in Nat \ {0} /\ Ring \in Nat \ {0}
  BY AudioAssumption
<1>1. PICK s \in Int : s = Mod(a, Width)
  BY <1>0, Divides
<1>2. Mod(s, Ring) = Mod(a, Ring)
  BY <1>1, WrapInRing
<1>3. /\ Mod(Mod(s, Ring) + b, Ring) = Mod(s + b, Ring)
      /\ Mod(Mod(a, Ring) + b, Ring) = Mod(a + b, Ring)
  BY <1>0, WrapSum
<1> QED
  BY <1>1, <1>2, <1>3

\* What is between tail and head after n samples were taken, and after n were added.
LEMMA FillTaken ==
  ASSUME NEW h \in Int, NEW t \in Int, NEW n \in 0 .. Mod(h - t, Width)
  PROVE  Mod(h - Mod(t + n, Width), Width) = Mod(h - t, Width) - n
<1>0. Width \in Nat \ {0} /\ h - t \in Int
  BY AudioAssumption
<1>1. PICK p \in Int, i \in Int, f \in 0 .. Width - 1 :
        i = Times(Width, p) /\ h - t = i + f /\ f = Mod(h - t, Width)
  BY <1>0, Divides
<1>2. n \in 0 .. f /\ n \in Int
  BY <1>1
<1>3. t + n \in Int
  BY <1>2
<1>4. PICK q \in Int, j \in Int, s \in 0 .. Width - 1 :
        j = Times(Width, q) /\ t + n = j + s /\ s = Mod(t + n, Width)
  BY <1>0, <1>3, Divides
<1>5. Times(Width, p + q) = i + j
  BY <1>0, <1>1, <1>4, TimesSum
<1>6. h - s = Times(Width, p + q) + (f - n)
  BY <1>1, <1>2, <1>4, <1>5
<1>7. f - n \in 0 .. Width - 1
  BY <1>0, <1>2
<1>b. h - s \in Int /\ p + q \in Int
  OBVIOUS
<1>8. Mod(h - s, Width) = f - n
  BY <1>0, <1>b, <1>6, <1>7, Remainder
<1> QED
  BY <1>1, <1>4, <1>8, Zenon

LEMMA FillAdded ==
  ASSUME NEW h \in Int, NEW t \in Int, NEW n \in Nat, Mod(h - t, Width) + n < Width
  PROVE  Mod(Mod(h + n, Width) - t, Width) = Mod(h - t, Width) + n
<1>0. Width \in Nat \ {0} /\ h - t \in Int /\ h + n \in Int
  BY AudioAssumption
<1>1. PICK p \in Int, i \in Int, f \in 0 .. Width - 1 :
        i = Times(Width, p) /\ h - t = i + f /\ f = Mod(h - t, Width)
  BY <1>0, Divides
<1>2. f + n < Width
  BY <1>1
<1>4. PICK q \in Int, j \in Int, s \in 0 .. Width - 1 :
        j = Times(Width, q) /\ h + n = j + s /\ s = Mod(h + n, Width)
  BY <1>0, Divides
<1>5. Times(Width, p - q) = i - j
  BY <1>0, <1>1, <1>4, TimesSum
<1>6. s - t = Times(Width, p - q) + (f + n)
  BY <1>1, <1>4, <1>5
<1>7. f + n \in 0 .. Width - 1
  BY <1>0, <1>2
<1>b. s - t \in Int /\ p - q \in Int
  OBVIOUS
<1>8. Mod(s - t, Width) = f + n
  BY <1>0, <1>b, <1>6, <1>7, Remainder
<1> QED
  BY <1>1, <1>4, <1>8, Zenon

----------------------------------------------------------------------------
\* Ring and buffers: what a refill takes and an append leaves.

\* What a slot can hold.
Sound == Samples \cup {Stale}

\* What buffer i will play.
Played(b, i) == SubSeq(b.dma[i], 1, b.inflight[i])

\* Ring, buffers and counters b hold what they can hold.
Buffered(b) ==
  /\ b \in [head : Samples, tail : Samples, ring : [0 .. Ring - 1 -> Sound],
            dma : [{0, 1} -> Seq(Sound)], inflight : [{0, 1} -> Nat], next : {0, 1}]
  /\ Fill(b) <= Ring
  /\ \A i \in {0, 1} : Len(b.dma[i]) <= Dma /\ b.inflight[i] \in {0, Len(b.dma[i])}

LEMMA Sizes ==
  /\ Ring \in Nat \ {0} /\ Width \in Nat \ {0} /\ Dma \in Nat \ {0} /\ Ring < Width
  /\ Ring \in Int /\ Width \in Int /\ Dma \in Int
BY AudioAssumption

LEMMA ModRange ==
  ASSUME NEW x \in Int, NEW n \in Nat \ {0}
  PROVE  Mod(x, n) \in 0 .. n - 1 /\ Mod(x, n) \in Nat
<1>1. PICK r \in 0 .. n - 1 : r = Mod(x, n)
  BY Divides
<1>2. r \in Nat
  OBVIOUS
<1> QED
  BY <1>1, <1>2

LEMMA FillIs ==
  ASSUME NEW b, Buffered(b)
  PROVE  /\ b.head \in Int /\ b.tail \in Int
         /\ Fill(b) = Mod(b.head - b.tail, Width)
         /\ Fill(b) \in Nat /\ Fill(b) <= Ring /\ Fill(b) < Width
<1>1. b.head \in Int /\ b.tail \in Int
  BY Sizes DEF Buffered, Samples
<1>2. Fill(b) = Mod(b.head - b.tail, Width)
  BY DEF Fill, Mod
<1>3. PICK d \in Int : d = b.head - b.tail
  BY <1>1
<1>4. Mod(d, Width) \in 0 .. Width - 1 /\ Mod(d, Width) \in Nat
  BY Sizes, ModRange
<1>5. Fill(b) \in 0 .. Width - 1 /\ Fill(b) \in Nat
  BY <1>2, <1>3, <1>4, Zenon
<1>6. Fill(b) <= Ring
  BY DEF Buffered
<1>7. Fill(b) < Width
  BY <1>5, Sizes
<1> QED
  BY <1>1, <1>2, <1>5, <1>6, <1>7

LEMMA WaitingIs ==
  ASSUME NEW b, Buffered(b), NEW n \in Nat
  PROVE  /\ Waiting(b, n) \in Seq(Sound) /\ Len(Waiting(b, n)) = n
         /\ \A k \in 1 .. n : Waiting(b, n)[k] = b.ring[Mod(b.tail + k - 1, Ring)]
<1>1. b.tail \in Int /\ b.ring \in [0 .. Ring - 1 -> Sound]
  BY FillIs DEF Buffered
<1>2. \A k \in 1 .. n : b.ring[Mod(b.tail + k - 1, Ring)] \in Sound
  <2> SUFFICES ASSUME NEW k \in 1 .. n PROVE b.ring[Mod(b.tail + k - 1, Ring)] \in Sound
    OBVIOUS
  <2>1. PICK x \in Int : x = b.tail + k - 1
    BY <1>1
  <2>2. Mod(x, Ring) \in 0 .. Ring - 1
    BY Sizes, ModRange
  <2> QED
    BY <1>1, <2>1, <2>2
<1>3. Waiting(b, n) = [k \in 1 .. n |-> b.ring[Mod(b.tail + k - 1, Ring)]]
  BY DEF Waiting, Mod
<1>4. Waiting(b, n) \in [1 .. n -> Sound]
  BY <1>2, <1>3
<1>5. Waiting(b, n) \in Seq(Sound) /\ Len(Waiting(b, n)) = n
  BY <1>4
<1> QED
  BY <1>3, <1>5

\* r is b with buffer i refilled, and b with n samples moved there.
Refilled(b, i, r) == r = Refill(b, i)

Moved(b, i, n) ==
  [b EXCEPT !.tail = Mod(b.tail + n, Width), !.dma[i] = Waiting(b, n), !.inflight[i] = n]

\* What Refill() moves: the first samples of the ring, as many as fit.
LEMMA RefillIs ==
  ASSUME NEW b, Buffered(b), NEW i \in {0, 1}, NEW r, Refilled(b, i, r)
  PROVE  \E n \in Nat : n <= Dma /\ n <= Fill(b) /\ r = Moved(b, i, n)
<1>1. Fill(b) \in Nat /\ Dma \in Nat
  BY FillIs, Sizes
<1>2. PICK n \in Nat : n = Lowest(Fill(b), Dma) /\ n <= Dma /\ n <= Fill(b)
  BY <1>1 DEF Lowest
<1> QED
  BY <1>2 DEF Refilled, Refill, Moved, Mod

\* A refill loses no sample: the buffer has the first, the ring keeps the rest.
Took(b, i, r) ==
  /\ Buffered(r) /\ r.next = b.next /\ r.inflight[1 - i] = b.inflight[1 - i]
  /\ Fill(r) <= Fill(b) /\ r.inflight[i] <= Fill(b)
  /\ Played(r, 1 - i) = Played(b, 1 - i)
  /\ Waiting(b, Fill(b)) = Played(r, i) \o Waiting(r, Fill(r))

LEMMA RefillTakes ==
  ASSUME NEW b, Buffered(b), NEW i \in {0, 1}, NEW r, Refilled(b, i, r)
  PROVE  Took(b, i, r)
<1>1. PICK n \in Nat : n <= Dma /\ n <= Fill(b) /\ r = Moved(b, i, n)
  BY RefillIs
<1>2. /\ b.head \in Int /\ b.tail \in Int /\ Fill(b) \in Nat /\ Fill(b) <= Ring
      /\ Fill(b) = Mod(b.head - b.tail, Width)
  BY FillIs
<1>3. PICK w : w = Waiting(b, n) /\ w \in Seq(Sound) /\ Len(w) = n
  BY WaitingIs
<1>4. PICK t \in Samples : t = Mod(b.tail + n, Width)
  <2>1. PICK x \in Int : x = b.tail + n
    BY <1>2
  <2> QED
    BY <2>1, Sizes, ModRange DEF Samples
<1>5. r = [b EXCEPT !.tail = t, !.dma[i] = w, !.inflight[i] = n]
  BY <1>1, <1>3, <1>4 DEF Moved
<1>6. r \in [head : Samples, tail : Samples, ring : [0 .. Ring - 1 -> Sound],
             dma : [{0, 1} -> Seq(Sound)], inflight : [{0, 1} -> Nat], next : {0, 1}]
  <2>1. b \in [head : Samples, tail : Samples, ring : [0 .. Ring - 1 -> Sound],
               dma : [{0, 1} -> Seq(Sound)], inflight : [{0, 1} -> Nat], next : {0, 1}]
    BY DEF Buffered
  <2>2. PICK m \in [{0, 1} -> Seq(Sound)] : m = [b.dma EXCEPT ![i] = w]
    BY <1>3, <2>1
  <2>3. PICK f \in [{0, 1} -> Nat] : f = [b.inflight EXCEPT ![i] = n]
    BY <2>1
  <2>4. r = [b EXCEPT !.tail = t, !.dma = m, !.inflight = f]
    BY <1>5, <2>1, <2>2, <2>3
  <2> QED
    BY <2>1, <2>4
<1>7. /\ r.head = b.head /\ r.tail = t /\ r.ring = b.ring /\ r.next = b.next
      /\ r.dma[i] = w /\ r.inflight[i] = n
      /\ r.dma[1 - i] = b.dma[1 - i] /\ r.inflight[1 - i] = b.inflight[1 - i]
  BY <1>5 DEF Buffered
<1>8. Fill(r) = Fill(b) - n
  <2>1. n \in 0 .. Mod(b.head - b.tail, Width)
    BY <1>1, <1>2
  <2>2. Mod(b.head - Mod(b.tail + n, Width), Width) = Mod(b.head - b.tail, Width) - n
    BY <1>2, <2>1, FillTaken
  <2>3. Fill(r) = Mod(b.head - t, Width)
    BY <1>7 DEF Fill, Mod
  <2> QED
    BY <1>2, <1>4, <2>2, <2>3, Zenon
<1>9. Fill(r) \in Nat /\ Fill(r) <= Ring /\ Fill(r) <= Fill(b)
  BY <1>1, <1>2, <1>8, Sizes
<1>10. \A j \in {0, 1} : Len(r.dma[j]) <= Dma /\ r.inflight[j] \in {0, Len(r.dma[j])}
  BY <1>1, <1>3, <1>7 DEF Buffered
<1>11. Buffered(r)
  BY <1>6, <1>9, <1>10 DEF Buffered
<1>12. Played(r, 1 - i) = Played(b, 1 - i)
  BY <1>7 DEF Played
<1>13. Played(r, i) = w
  BY <1>3, <1>7, SubSeqFull DEF Played
<1>14. Waiting(b, Fill(b)) = w \o Waiting(r, Fill(r))
  <2> DEFINE a == Waiting(b, Fill(b))
             c == Waiting(r, Fill(r))
  <2>1. /\ a \in Seq(Sound) /\ Len(a) = Fill(b)
        /\ \A k \in 1 .. Fill(b) : a[k] = b.ring[Mod(b.tail + k - 1, Ring)]
    BY <1>2, WaitingIs
  <2>2. /\ c \in Seq(Sound) /\ Len(c) = Fill(r)
        /\ \A k \in 1 .. Fill(r) : c[k] = b.ring[Mod(t + k - 1, Ring)]
    <3>1. PICK f \in Nat : f = Fill(r)
      BY <1>9
    <3>2. /\ Waiting(r, f) \in Seq(Sound) /\ Len(Waiting(r, f)) = f
          /\ \A k \in 1 .. f : Waiting(r, f)[k] = r.ring[Mod(r.tail + k - 1, Ring)]
      BY <1>11, WaitingIs
    <3> QED
      BY <1>7, <3>1, <3>2
  <2>3. \A k \in 1 .. n : w[k] = b.ring[Mod(b.tail + k - 1, Ring)]
    BY <1>3, WaitingIs
  <2> HIDE DEF a, c
  <2>4. /\ w \o c \in Seq(Sound) /\ Len(w \o c) = n + Fill(r)
        /\ \A k \in 1 .. n + Fill(r) : (w \o c)[k] = IF k <= n THEN w[k] ELSE c[k - n]
    <3>1. /\ w \o c \in Seq(Sound) /\ Len(w \o c) = Len(w) + Len(c)
          /\ \A k \in 1 .. Len(w) + Len(c) :
               (w \o c)[k] = IF k <= Len(w) THEN w[k] ELSE c[k - Len(w)]
      BY <1>3, <2>2, ConcatProperties, Zenon
    <3>2. Len(w) = n /\ Len(c) = Fill(r)
      BY <1>3, <2>2
    <3> QED
      BY <3>1, <3>2
  <2>5. Len(w \o c) = Len(a)
    BY <1>2, <1>8, <2>1, <2>4
  <2>6. ASSUME NEW k \in 1 .. Len(a) PROVE a[k] = (w \o c)[k]
    <3>1. k \in Int /\ k \in 1 .. Fill(b) /\ k \in 1 .. n + Fill(r)
      BY <1>2, <1>8, <2>1
    <3>2. CASE k <= n
      <4>1. k \in 1 .. n
        BY <3>1, <3>2
      <4> QED
        BY <2>1, <2>3, <2>4, <3>1, <3>2, <4>1
    <3>3. CASE ~(k <= n)
      <4>1. k - n \in 1 .. Fill(r)
        BY <1>9, <3>1, <3>3
      <4>2. c[k - n] = b.ring[Mod(t + (k - n) - 1, Ring)]
        BY <2>2, <4>1
      <4>3. PICK s \in Int, u \in Int : s = b.tail + n /\ u = (k - n) - 1
        BY <1>2, <3>1
      <4>4. Mod(Mod(s, Width) + u, Ring) = Mod(s + u, Ring)
        BY SlotOfSum
      <4>5. t + (k - n) - 1 = Mod(s, Width) + u
        <5>1. t \in Int
          BY Sizes DEF Samples
        <5>2. t + (k - n) - 1 = t + u
          BY <3>1, <4>3, <5>1
        <5>3. t = Mod(s, Width)
          BY <1>4, <4>3
        <5> QED
          BY <5>2, <5>3
      <4>6. s + u = b.tail + k - 1
        BY <1>2, <3>1, <4>3
      <4>7. c[k - n] = a[k]
        BY <2>1, <3>1, <4>2, <4>4, <4>5, <4>6
      <4>8. (w \o c)[k] = c[k - n]
        BY <2>4, <3>1, <3>3
      <4> QED
        BY <4>7, <4>8
    <3> QED
      BY <3>2, <3>3
  <2>7. a = w \o c
    BY <2>1, <2>4, <2>5, <2>6, SeqEqual
  <2> QED
    BY <2>7 DEF a, c
<1> QED
  BY <1>1, <1>7, <1>9, <1>11, <1>12, <1>13, <1>14 DEF Took

\* The slot of a waiting sample, counted from head, is beyond the room left.
LEMMA SlotTaken ==
  ASSUME NEW d \in Int, NEW f \in Nat, f = Mod(d, Width), f <= Ring, NEW k \in 1 .. f
  PROVE  Mod((k - 1) - d, Ring) = (Ring - f) + (k - 1)
<1>1. PICK p \in Int, i \in Int, g \in 0 .. Width - 1 :
        i = Times(Width, p) /\ d = i + g /\ g = Mod(d, Width)
  BY Sizes, Divides
<1>2. d = i + f
  <2>1. g = f
    BY <1>1, Zenon
  <2>2. d = i + g
    BY <1>1, Zenon
  <2> QED
    BY <2>1, <2>2
<1>3. PICK e \in Int : e = Times(Width, 0 - p) /\ e = 0 - i
  <2>1. \A w, q \in Int : Times(w, 0 - q) = 0 - Times(w, q)
    BY SMT DEF Times
  <2> QED
    BY <1>1, <2>1, Sizes
<1>4. Mod(e, Ring) = 0
  <2>1. Mod(e, Width) = 0
    <3>1. 0 - p \in Int /\ 0 \in 0 .. Width - 1
      BY Sizes
    <3>2. e = Times(Width, 0 - p) + 0
      BY <1>3
    <3> QED
      BY <3>1, <3>2, Remainder, Sizes
  <2>2. Mod(0, Ring) = 0
    <3>1. 0 = Times(Ring, 0) + 0
      BY Sizes, SMT DEF Times
    <3>2. 0 \in 0 .. Ring - 1
      BY Sizes
    <3> QED
      BY <3>1, <3>2, Remainder, Sizes
  <2>3. Mod(Mod(e, Width), Ring) = Mod(e, Ring)
    BY WrapInRing
  <2> QED
    BY <2>1, <2>2, <2>3, Zenon
<1>5. PICK y \in Int : y = (k - 1) - f /\ (k - 1) - d = e + y
  BY <1>2, <1>3
<1>6. Mod(y, Ring) = y + Ring
  <2>1. y + Ring \in 0 .. Ring - 1
    BY <1>5, Sizes
  <2>2. Times(Ring, 0 - 1) = 0 - Ring
    BY Sizes, SMT DEF Times
  <2>3. y = Times(Ring, 0 - 1) + (y + Ring)
    BY <2>2, Sizes
  <2> QED
    BY <2>1, <2>3, Remainder, Sizes
<1>7. Mod(Mod(e, Ring) + y, Ring) = Mod(e + y, Ring)
  BY WrapSum, Sizes
<1>8. Mod(0 + y, Ring) = Mod(y, Ring)
  OBVIOUS
<1>9. Mod((k - 1) - d, Ring) = y + Ring
  BY <1>4, <1>5, <1>6, <1>7, <1>8
<1>10. y + Ring = (Ring - f) + (k - 1)
  BY <1>5, Sizes
<1> QED
  BY <1>9, <1>10

\* What is outside the room taken by an append stays what it was.
LEMMA WaitingKept ==
  ASSUME NEW b, Buffered(b), NEW r, Buffered(r), NEW n \in Nat,
         Fill(b) + n <= Ring, Fill(r) = Fill(b) + n, r.tail = b.tail,
         \A j \in 0 .. Ring - 1 : ~(Mod(j - b.head, Ring) < n) => r.ring[j] = b.ring[j]
  PROVE  \A k \in 1 .. Fill(b) : Waiting(r, Fill(r))[k] = Waiting(b, Fill(b))[k]
<1> SUFFICES ASSUME NEW k \in 1 .. Fill(b)
             PROVE  Waiting(r, Fill(r))[k] = Waiting(b, Fill(b))[k]
  OBVIOUS
<1>1. /\ b.head \in Int /\ b.tail \in Int /\ Fill(b) \in Nat /\ Fill(b) <= Ring
      /\ Fill(b) = Mod(b.head - b.tail, Width)
  BY FillIs
<1>2. PICK x \in Int, d \in Int, c \in Int :
        x = b.tail + k - 1 /\ d = b.head - b.tail /\ c = 0 - b.head
  BY <1>1
<1>3. PICK j \in 0 .. Ring - 1 : j = Mod(x, Ring)
  BY Sizes, ModRange
<1>4. Waiting(b, Fill(b))[k] = b.ring[j]
  BY <1>1, <1>2, <1>3, WaitingIs
<1>5. Waiting(r, Fill(r))[k] = r.ring[j]
  <2>1. k \in 1 .. Fill(r)
    BY <1>1
  <2>2. Fill(r) \in Nat
    BY FillIs
  <2>3. Waiting(r, Fill(r))[k] = r.ring[Mod(r.tail + k - 1, Ring)]
    BY <2>1, <2>2, WaitingIs
  <2> QED
    BY <1>2, <1>3, <2>3
<1>6. Mod(j - b.head, Ring) = (Ring - Fill(b)) + (k - 1)
  <2>1. Mod(Mod(x, Ring) + c, Ring) = Mod(x + c, Ring)
    BY Sizes, WrapSum
  <2>2. j - b.head = j + c
    BY <1>1, <1>2, Sizes
  <2>3. x + c = (k - 1) - d
    BY <1>1, <1>2
  <2>4. Mod((k - 1) - d, Ring) = (Ring - Fill(b)) + (k - 1)
    BY <1>1, <1>2, SlotTaken
  <2> QED
    BY <1>3, <2>1, <2>2, <2>3, <2>4, Zenon
<1>7. ~(Mod(j - b.head, Ring) < n)
  BY <1>1, <1>6, Sizes
<1> QED
  BY <1>4, <1>5, <1>7

\* b with n more samples, as WriteAppend leaves it.
Appended(b, n) ==
  [b EXCEPT !.head = (@ + n) % Width,
            !.ring = [j \in 0 .. Ring - 1 |->
                        LET i == (j - b.head) % Ring IN
                        IF i < n THEN (b.head + i) % Width ELSE @[j]]]

\* An append adds n samples and changes none that waits.
LEMMA AppendKeeps ==
  ASSUME NEW b, Buffered(b), NEW n \in Nat, Fill(b) + n <= Ring, NEW r, r = Appended(b, n)
  PROVE  /\ Buffered(r) /\ r.next = b.next
         /\ r.dma = b.dma /\ r.inflight = b.inflight
         /\ Fill(r) = Fill(b) + n
         /\ \A k \in 1 .. Fill(b) : Waiting(r, Fill(r))[k] = Waiting(b, Fill(b))[k]
<1>1. /\ b.head \in Int /\ b.tail \in Int /\ Fill(b) \in Nat /\ Fill(b) <= Ring
      /\ Fill(b) = Mod(b.head - b.tail, Width)
  BY FillIs
<1>2. PICK h \in Samples : h = Mod(b.head + n, Width)
  <2>1. PICK x \in Int : x = b.head + n
    BY <1>1
  <2> QED
    BY <2>1, Sizes, ModRange DEF Samples
<1>3. PICK g : g = [j \in 0 .. Ring - 1 |->
                      IF Mod(j - b.head, Ring) < n
                      THEN Mod(b.head + Mod(j - b.head, Ring), Width) ELSE b.ring[j]]
  OBVIOUS
<1>4. r = [b EXCEPT !.head = h, !.ring = g]
  BY <1>2, <1>3 DEF Buffered, Mod, Appended
<1>5. g \in [0 .. Ring - 1 -> Sound]
  <2>1. ASSUME NEW j \in 0 .. Ring - 1
        PROVE  Mod(b.head + Mod(j - b.head, Ring), Width) \in Sound /\ b.ring[j] \in Sound
    <3>1. PICK x \in Int : x = j - b.head
      BY <1>1, Sizes
    <3>2. Mod(x, Ring) \in Nat
      BY Sizes, ModRange
    <3>3. PICK y \in Int : y = b.head + Mod(x, Ring)
      BY <1>1, <3>2
    <3>4. Mod(y, Width) \in 0 .. Width - 1
      BY Sizes, ModRange
    <3> QED
      BY <3>1, <3>3, <3>4 DEF Sound, Samples, Buffered
  <2> QED
    BY <1>3, <2>1
<1>6. /\ r \in [head : Samples, tail : Samples, ring : [0 .. Ring - 1 -> Sound],
                dma : [{0, 1} -> Seq(Sound)], inflight : [{0, 1} -> Nat], next : {0, 1}]
      /\ r.head = h /\ r.tail = b.tail /\ r.ring = g /\ r.next = b.next
      /\ r.dma = b.dma /\ r.inflight = b.inflight
  BY <1>4, <1>5 DEF Buffered
<1>7. Fill(r) = Fill(b) + n
  <2>1. Mod(b.head - b.tail, Width) + n < Width
    BY <1>1, Sizes
  <2>2. Mod(Mod(b.head + n, Width) - b.tail, Width) = Mod(b.head - b.tail, Width) + n
    BY <1>1, <2>1, FillAdded
  <2>3. Fill(r) = Mod(h - b.tail, Width)
    BY <1>6 DEF Fill, Mod
  <2> QED
    BY <1>1, <1>2, <2>2, <2>3, Zenon
<1>8. Fill(r) \in Nat /\ Fill(r) <= Ring
  BY <1>1, <1>7
<1>9. Buffered(r)
  BY <1>6, <1>8 DEF Buffered
<1>10. \A j \in 0 .. Ring - 1 : ~(Mod(j - b.head, Ring) < n) => r.ring[j] = b.ring[j]
  BY <1>3, <1>6
<1>11. \A k \in 1 .. Fill(b) : Waiting(r, Fill(r))[k] = Waiting(b, Fill(b))[k]
  BY <1>6, <1>7, <1>9, <1>10, WaitingKept
<1> QED
  BY <1>6, <1>7, <1>9, <1>11

----------------------------------------------------------------------------
\* The next buffer, one refill, and two.

\* Everything in the ring.
Ahead(b) == Waiting(b, Fill(b))

LEMMA AheadIs ==
  ASSUME NEW b, Buffered(b)
  PROVE  Ahead(b) \in Seq(Sound) /\ Len(Ahead(b)) = Fill(b) /\ Len(Ahead(b)) \in Nat
BY FillIs, WaitingIs DEF Ahead

LEMMA PlayedIs ==
  ASSUME NEW b, Buffered(b), NEW i \in {0, 1}
  PROVE  /\ Played(b, i) \in Seq(Sound) /\ Len(Played(b, i)) = b.inflight[i]
         /\ b.inflight[i] \in Nat /\ b.inflight[i] <= Dma
<1>1. b.dma[i] \in Seq(Sound) /\ Len(b.dma[i]) <= Dma /\ b.inflight[i] \in {0, Len(b.dma[i])}
  BY DEF Buffered
<1>2. PICK s : s \in Seq(Sound) /\ s = b.dma[i]
  BY <1>1
<1>3. Len(s) \in Nat
  BY <1>2, LenProperties
<1>4. CASE b.inflight[i] = 0
  <2>1. SubSeq(s, 1, 0) = <<>>
    BY SubSeqEmpty
  <2> QED
    BY <1>2, <1>4, <2>1, Sizes, EmptySeq DEF Played
<1>5. CASE b.inflight[i] = Len(s)
  BY <1>1, <1>2, <1>3, <1>5, SubSeqFull DEF Played
<1> QED
  BY <1>1, <1>2, <1>4, <1>5

\* Which buffer is the next one matters to nothing that is in them.
Turned(b, x) == [b EXCEPT !.next = x]

TurnedTo(b, x, r) == r = Turned(b, x)

LEMMA TurnKeeps ==
  ASSUME NEW b, Buffered(b), NEW x \in {0, 1}, NEW r, TurnedTo(b, x, r)
  PROVE  /\ Buffered(r) /\ r.next = x /\ Fill(r) = Fill(b) /\ r.inflight = b.inflight
         /\ Ahead(r) = Ahead(b) /\ \A i \in {0, 1} : Played(r, i) = Played(b, i)
<1>1. /\ r.head = b.head /\ r.tail = b.tail /\ r.ring = b.ring
      /\ r.dma = b.dma /\ r.inflight = b.inflight /\ r.next = x
      /\ r \in [head : Samples, tail : Samples, ring : [0 .. Ring - 1 -> Sound],
                dma : [{0, 1} -> Seq(Sound)], inflight : [{0, 1} -> Nat], next : {0, 1}]
  BY DEF Buffered, Turned, TurnedTo
<1>2. Fill(r) = Fill(b)
  BY <1>1 DEF Fill
<1>3. Ahead(r) = Ahead(b)
  BY <1>1, <1>2 DEF Ahead, Waiting
<1>4. \A i \in {0, 1} : Played(r, i) = Played(b, i)
  BY <1>1 DEF Played
<1>5. Buffered(r)
  BY <1>1, <1>2 DEF Buffered
<1> QED
  BY <1>1, <1>2, <1>3, <1>4, <1>5

\* The buffer that i is not.
Other(i, k) == k = 1 - i

LEMMA OtherIs ==
  ASSUME NEW i \in {0, 1}
  PROVE  \E k \in {0, 1} : Other(i, k) /\ Other(k, i) /\ k = 1 - i /\ i = 1 - k /\ {i, k} = {0, 1}
BY DEF Other

\* One refill of service(), and the turn to the other buffer.
TookTurn(b, i, k, r) ==
  /\ Buffered(r) /\ r.next = k /\ Fill(r) <= Fill(b)
  /\ \A j \in {0, 1} : r.inflight[j] = b.inflight[j] \/ r.inflight[j] <= Fill(b)
  /\ Played(r, k) = Played(b, k)
  /\ Ahead(b) = Played(r, i) \o Ahead(r)

LEMMA RefillOnce ==
  ASSUME NEW b, Buffered(b), NEW i \in {0, 1}, NEW k \in {0, 1}, Other(i, k),
         NEW q, Refilled(b, i, q), NEW r, TurnedTo(q, k, r)
  PROVE  TookTurn(b, i, k, r)
<1>0. k = 1 - i /\ i = 1 - k
  BY DEF Other
<1>1. Took(b, i, q)
  BY RefillTakes
<1>2. /\ Buffered(q) /\ q.inflight[k] = b.inflight[k]
      /\ Fill(q) <= Fill(b) /\ q.inflight[i] <= Fill(b)
      /\ Played(q, k) = Played(b, k)
      /\ Ahead(b) = Played(q, i) \o Ahead(q)
  BY <1>0, <1>1 DEF Took, Ahead
<1>4. /\ Buffered(r) /\ r.next = k /\ Fill(r) = Fill(q) /\ r.inflight = q.inflight
      /\ Ahead(r) = Ahead(q) /\ \A j \in {0, 1} : Played(r, j) = Played(q, j)
  BY <1>2, TurnKeeps, Zenon
<1>5. \A j \in {0, 1} : j = i \/ j = k
  BY <1>0
<1> QED
  BY <1>2, <1>4, <1>5 DEF TookTurn

\* Two buffers and what follows them.
Joined(s, t, u) == (s \o t) \o u

LEMMA JoinedIs ==
  ASSUME NEW s \in Seq(Sound), NEW t \in Seq(Sound), NEW u \in Seq(Sound)
  PROVE  s \o (t \o u) = Joined(s, t, u)
BY ConcatAssociative DEF Joined

\* Two refills, of service() or of start().
LEMMA RefillTwice ==
  ASSUME NEW b, Buffered(b), NEW i \in {0, 1}, NEW k \in {0, 1}, Other(i, k),
         NEW q, Refilled(b, i, q), NEW r, Refilled(q, k, r)
  PROVE  /\ Buffered(r) /\ r.next = b.next /\ Fill(r) <= Fill(b)
         /\ \A j \in {0, 1} : r.inflight[j] <= Fill(b)
         /\ Ahead(b) = Joined(Played(r, i), Played(r, k), Ahead(r))
<1>0. k = 1 - i /\ i = 1 - k
  BY DEF Other
<1>1. Took(b, i, q)
  BY RefillTakes
<1>2. /\ Buffered(q) /\ q.next = b.next
      /\ Fill(q) <= Fill(b) /\ q.inflight[i] <= Fill(b)
      /\ Ahead(b) = Played(q, i) \o Ahead(q)
  BY <1>1 DEF Took, Ahead
<1>3. 1 - k = i
  BY <1>0
<1>4. /\ Buffered(r) /\ r.next = q.next /\ r.inflight[i] = q.inflight[i]
      /\ Fill(r) <= Fill(q) /\ r.inflight[k] <= Fill(q)
      /\ Played(r, i) = Played(q, i)
      /\ Ahead(q) = Played(r, k) \o Ahead(r)
  <2>1. Took(q, k, r)
    BY <1>2, RefillTakes
  <2> QED
    BY <1>3, <2>1 DEF Took, Ahead
<1>5. Ahead(b) = Joined(Played(r, i), Played(r, k), Ahead(r))
  <2>1. Ahead(b) = Played(r, i) \o (Played(r, k) \o Ahead(r))
    BY <1>2, <1>4
  <2>2. Played(r, i) \in Seq(Sound) /\ Played(r, k) \in Seq(Sound) /\ Ahead(r) \in Seq(Sound)
    BY <1>4, PlayedIs, AheadIs
  <2> QED
    BY <2>1, <2>2, JoinedIs, Zenon
<1>6. Fill(r) <= Fill(b) /\ \A j \in {0, 1} : r.inflight[j] <= Fill(b)
  <2>1. Fill(b) \in Nat /\ Fill(q) \in Nat /\ Fill(r) \in Nat
    BY <1>2, <1>4, FillIs
  <2>2. r.inflight[k] \in Nat
    BY <1>4, PlayedIs
  <2>3. Fill(r) <= Fill(b) /\ r.inflight[k] <= Fill(b) /\ r.inflight[i] <= Fill(b)
    BY <1>2, <1>4, <2>1, <2>2
  <2>4. \A j \in {0, 1} : j = i \/ j = k
    BY <1>0
  <2> QED
    BY <2>3, <2>4
<1> QED
  BY <1>2, <1>4, <1>5, <1>6

----------------------------------------------------------------------------

\* What the engine finds in its queue: the buffer before the next one, or all.
QueueInv ==
  /\ DOMAIN hw = {"on", "queue", "bits", "stalled"} /\ DOMAIN svc = {"pc", "count"}
  /\ hw.bits \subseteq {0, 1}
  /\ svc.pc \in {"out", "ack", "check"} /\ svc.count \in 0 .. 2
  /\ hw.queue \in {<<>>, <<1 - buf.next>>, <<buf.next, 1 - buf.next>>}
  /\ hw.bits # {} => hw.queue # <<buf.next, 1 - buf.next>>
  /\ hw.bits = {0, 1} => hw.queue = <<>>
  /\ ~ctl.running => hw.queue = <<>>
  /\ svc.pc # "out" => ctl.running
  /\ svc.pc = "ack" => /\ svc.count \in {1, 2}
                       /\ hw.queue # <<buf.next, 1 - buf.next>>
                       /\ svc.count = 2 => hw.queue = <<>>

\* A write appends no more than it has left and the ring takes.
UserInv ==
  /\ op.len \in Nat /\ op.done \in 0 .. op.len /\ op.n \in 0 .. Chunk /\ op.sum \in Nat
  /\ op.pc = "append" => op.n <= op.len - op.done /\ op.n <= Ring - Fill(buf)
  /\ ctl.failure \in {"none", "EIO", "ETIMEDOUT", "codec"}

\* A sum of nothing was true of all the loads it is made of, and still is.
DrainInv ==
  /\ op.pc = "drain 0" /\ op.sum = 0 => Fill(buf) = 0
  /\ op.pc = "drain 1" /\ op.sum = 0 => Fill(buf) = 0 /\ buf.inflight[0] = 0
  /\ op.pc = "reset" /\ op.kind \in {"sync", "format"} =>
       Fill(buf) = 0 /\ buf.inflight[0] = 0 /\ buf.inflight[1] = 0

\* The invariant: what keeps the samples in order while everything moves.
StreamInv == IrqInv /\ FrameInv /\ Buffered(buf) /\ QueueInv /\ UserInv /\ DrainInv

\* The samples in the buffers of queue q.
Queued(b, q) ==
  IF q = <<>> THEN <<>>
  ELSE IF Len(q) = 1 THEN Played(b, q[1]) ELSE Played(b, q[1]) \o Played(b, q[2])

\* The samples not heard are those of the queued buffers, then those ahead.
LEMMA UnheardIs == Unheard = Queued(buf, hw.queue) \o Ahead(buf)
BY DEF Unheard, Queued, Played, Ahead

LEMMA UnheardIsNext == Unheard' = Queued(buf', hw'.queue) \o Ahead(buf')
BY DEF Unheard, Queued, Played, Ahead, Waiting, Fill

LEMMA AppendTwo ==
  ASSUME NEW i \in {0, 1}, NEW k \in {0, 1}
  PROVE  Append(<<k>>, i) = <<k, i>>
<1>a. <<k>> \in Seq({0, 1})
  OBVIOUS
<1>b. <<k, i>> \in Seq({0, 1})
  OBVIOUS
<1>1. PICK s \in Seq({0, 1}), t \in Seq({0, 1}) : s = <<k>> /\ t = <<k, i>>
  BY <1>a, <1>b
<1>2. Len(s) = 1 /\ s[1] = k /\ Len(t) = 2 /\ t[1] = k /\ t[2] = i
  BY <1>1
<1>3. /\ Append(s, i) \in Seq({0, 1}) /\ Len(Append(s, i)) = Len(s) + 1
      /\ \A j \in 1 .. Len(s) : Append(s, i)[j] = s[j]
      /\ Append(s, i)[Len(s) + 1] = i
  BY AppendProperties
<1>4. Len(Append(s, i)) = Len(t) /\ \A j \in 1 .. Len(Append(s, i)) : Append(s, i)[j] = t[j]
  BY <1>2, <1>3
<1>5. Append(s, i) = t
  BY <1>3, <1>4, SeqEqual
<1> QED
  BY <1>1, <1>5

LEMMA QueuedCases ==
  ASSUME NEW b, NEW i, NEW k
  PROVE  /\ Queued(b, <<>>) = <<>>
         /\ Queued(b, <<i>>) = Played(b, i)
         /\ Queued(b, <<i, k>>) = Played(b, i) \o Played(b, k)
<1>1. <<i>> # <<>> /\ Len(<<i>>) = 1 /\ <<i>>[1] = i
  OBVIOUS
<1>2. <<i, k>> # <<>> /\ Len(<<i, k>>) = 2 /\ <<i, k>>[1] = i /\ <<i, k>>[2] = k
  OBVIOUS
<1> QED
  BY <1>1, <1>2 DEF Queued

LEMMA QueuedTwo ==
  \A b, i, k : Queued(b, <<i, k>>) = Played(b, i) \o Played(b, k)
BY QueuedCases

\* A sequence cut in two.
LEMMA Cut ==
  ASSUME NEW s \in Seq(Sound), NEW m \in Nat, NEW n \in Nat, Len(s) = m + n
  PROVE  /\ SubSeq(s, 1, m) \in Seq(Sound) /\ Len(SubSeq(s, 1, m)) = m
         /\ \A i \in 1 .. m : SubSeq(s, 1, m)[i] = s[i]
         /\ SubSeq(s, m + 1, m + n) \in Seq(Sound) /\ Len(SubSeq(s, m + 1, m + n)) = n
         /\ \A i \in 1 .. n : SubSeq(s, m + 1, m + n)[i] = s[m + i]
<1>1. \A i \in 1 .. Len(s) : s[i] \in Sound
  BY ElementOfSeq
<1>2. ASSUME NEW u \in Int, NEW v \in Int, u >= 1, v <= m + n
      PROVE  /\ SubSeq(s, u, v) \in Seq(Sound)
             /\ Len(SubSeq(s, u, v)) = IF u <= v THEN v - u + 1 ELSE 0
             /\ \A i \in 1 .. v - u + 1 : SubSeq(s, u, v)[i] = s[u + i - 1]
  <2>1. \A i \in u .. v : s[i] \in Sound
    BY <1>1, <1>2
  <2>2. PICK t : t = s
    OBVIOUS
  <2>3. \A i \in u .. v : t[i] \in Sound
    BY <2>1, <2>2
  <2>4. SubSeq(t, u, v) \in Seq(Sound)
    BY <2>3, SubSeqProperties
  <2>5. Len(SubSeq(t, u, v)) = IF u <= v THEN v - u + 1 ELSE 0
    BY <2>3, SubSeqProperties
  <2>6. \A i \in 1 .. v - u + 1 : SubSeq(t, u, v)[i] = t[u + i - 1]
    BY <2>3, SubSeqProperties
  <2> QED
    BY <2>2, <2>4, <2>5, <2>6
<1>3. /\ SubSeq(s, 1, m) \in Seq(Sound)
      /\ Len(SubSeq(s, 1, m)) = IF 1 <= m THEN m - 1 + 1 ELSE 0
      /\ \A i \in 1 .. m - 1 + 1 : SubSeq(s, 1, m)[i] = s[1 + i - 1]
  <2>1. 1 \in Int /\ m \in Int /\ 1 >= 1 /\ m <= m + n
    OBVIOUS
  <2> QED
    BY <1>2, <2>1, Zenon
<1>4. m - 1 + 1 = m /\ (1 <= m \/ m = 0) /\ \A i \in 1 .. m : 1 + i - 1 = i
  OBVIOUS
<1>5. PICK u \in Int, v \in Int : u = m + 1 /\ v = m + n
  OBVIOUS
<1>6. /\ SubSeq(s, u, v) \in Seq(Sound)
      /\ Len(SubSeq(s, u, v)) = IF u <= v THEN v - u + 1 ELSE 0
      /\ \A i \in 1 .. v - u + 1 : SubSeq(s, u, v)[i] = s[u + i - 1]
  <2>1. u >= 1 /\ v <= m + n
    BY <1>5
  <2> QED
    BY <1>2, <2>1, Zenon
<1>7. v - u + 1 = n /\ (u <= v \/ n = 0) /\ (n = 0 => ~(u <= v))
      /\ \A i \in 1 .. n : u + i - 1 = m + i
  BY <1>5
<1>8. /\ SubSeq(s, 1, m) \in Seq(Sound) /\ Len(SubSeq(s, 1, m)) = m
      /\ \A i \in 1 .. m : SubSeq(s, 1, m)[i] = s[i]
  BY <1>3, <1>4
<1>9. /\ SubSeq(s, u, v) \in Seq(Sound) /\ Len(SubSeq(s, u, v)) = n
      /\ \A i \in 1 .. n : SubSeq(s, u, v)[i] = s[m + i]
  BY <1>6, <1>7
<1> QED
  BY <1>5, <1>8, <1>9

\* The first of two parts, and the rest.
LEMMA Parts ==
  ASSUME NEW a \in Seq(Sound), NEW c \in Seq(Sound), NEW s, s = a \o c
  PROVE  /\ s \in Seq(Sound) /\ Len(s) \in Nat
         /\ Len(a) \in 0 .. Len(s) /\ Len(s) = Len(a) + Len(c)
         /\ SubSeq(s, 1, Len(a)) = a
         /\ SubSeq(s, Len(a) + 1, Len(s)) = c
<1>1. PICK m \in Nat, n \in Nat : m = Len(a) /\ n = Len(c)
  BY LenProperties
<1>2. /\ s \in Seq(Sound) /\ Len(s) = m + n
      /\ \A i \in 1 .. m + n : s[i] = IF i <= m THEN a[i] ELSE c[i - m]
  BY <1>1, ConcatProperties
<1>3. /\ SubSeq(s, 1, m) \in Seq(Sound) /\ Len(SubSeq(s, 1, m)) = m
      /\ \A i \in 1 .. m : SubSeq(s, 1, m)[i] = s[i]
      /\ SubSeq(s, m + 1, m + n) \in Seq(Sound) /\ Len(SubSeq(s, m + 1, m + n)) = n
      /\ \A i \in 1 .. n : SubSeq(s, m + 1, m + n)[i] = s[m + i]
  BY <1>2, Cut
<1>4. SubSeq(s, 1, m) = a
  <2>1. \A i \in 1 .. m : SubSeq(s, 1, m)[i] = a[i]
    BY <1>2, <1>3
  <2> QED
    BY <1>1, <1>3, <2>1, SeqEqual
<1>5. SubSeq(s, m + 1, m + n) = c
  <2>1. ASSUME NEW i \in 1 .. n PROVE SubSeq(s, m + 1, m + n)[i] = c[i]
    <3>1. m + i \in 1 .. m + n /\ ~(m + i <= m) /\ (m + i) - m = i
      OBVIOUS
    <3> QED
      BY <1>2, <1>3, <3>1
  <2> QED
    BY <1>1, <1>3, <2>1, SeqEqual
<1>6. Len(s) \in Nat /\ m \in 0 .. Len(s)
  BY <1>2
<1> QED
  BY <1>1, <1>2, <1>4, <1>5, <1>6

LEMMA NothingAhead ==
  ASSUME NEW b, Buffered(b), Fill(b) = 0
  PROVE  Ahead(b) = <<>>
BY AheadIs, EmptySeq

LEMMA NothingPlayed ==
  ASSUME NEW b, NEW i \in {0, 1}, b.inflight[i] = 0
  PROVE  Played(b, i) = <<>>
BY SubSeqEmpty DEF Played

\* Ring and buffers after reset().
LEMMA EmptyIs ==
  ASSUME NEW x \in {0, 1}, NEW b, TurnedTo(Empty, x, b)
  PROVE  /\ Buffered(b) /\ Fill(b) = 0 /\ b.next = x /\ Ahead(b) = <<>>
         /\ b.inflight[0] = 0 /\ b.inflight[1] = 0
<1>1. PICK e : e = Empty
  OBVIOUS
<1>2. /\ e.head = 0 /\ e.tail = 0 /\ e.inflight[0] = 0 /\ e.inflight[1] = 0
      /\ e.dma[0] = <<>> /\ e.dma[1] = <<>>
  BY <1>1 DEF Empty
<1>3. Fill(e) = 0
  <2>1. 0 = Times(Width, 0) + 0 /\ 0 \in 0 .. Width - 1
    BY Sizes, SMT DEF Times
  <2>2. Mod(0, Width) = 0
    BY <2>1, Remainder, Sizes
  <2>3. Fill(e) = Mod(0 - 0, Width) /\ 0 - 0 = 0
    BY <1>2 DEF Fill, Mod
  <2> QED
    BY <2>2, <2>3
<1>4. e \in [head : Samples, tail : Samples, ring : [0 .. Ring - 1 -> Sound],
             dma : [{0, 1} -> Seq(Sound)], inflight : [{0, 1} -> Nat], next : {0, 1}]
  <2>1. 0 \in Samples /\ Stale \in Sound /\ <<>> \in Seq(Sound)
    BY Sizes, EmptySeq DEF Samples, Sound
  <2> QED
    BY <1>1, <2>1 DEF Empty
<1>5. Buffered(e)
  <2>1. Len(<<>>) = 0
    OBVIOUS
  <2>2. \A i \in {0, 1} : Len(e.dma[i]) <= Dma /\ e.inflight[i] \in {0, Len(e.dma[i])}
    BY <1>2, <2>1, Sizes
  <2> QED
    BY <1>3, <1>4, <2>2, Sizes DEF Buffered
<1>6. TurnedTo(e, x, b)
  BY <1>1
<1>7. /\ Buffered(b) /\ b.next = x /\ Fill(b) = Fill(e) /\ b.inflight = e.inflight
  BY <1>5, <1>6, TurnKeeps, Zenon
<1>8. Fill(b) = 0 /\ b.inflight[0] = 0 /\ b.inflight[1] = 0
  BY <1>2, <1>3, <1>7
<1> QED
  BY <1>7, <1>8, NothingAhead

\* The engine holds two buffers at most.
LEMMA QueuedIs ==
  ASSUME StreamInv
  PROVE  /\ Queued(buf, hw.queue) \in Seq(Sound)
         /\ Len(Queued(buf, hw.queue)) \in Nat /\ Len(Queued(buf, hw.queue)) <= 2 * Dma
<1>1. PICK i \in {0, 1}, k \in {0, 1} :
        /\ k = 1 - i /\ Buffered(buf)
        /\ hw.queue \in {<<>>, <<k>>, <<i, k>>}
  BY DEF StreamInv, QueueInv, Buffered
<1>2. \A j \in {0, 1} : Played(buf, j) \in Seq(Sound) /\ Len(Played(buf, j)) \in Nat
                        /\ Len(Played(buf, j)) <= Dma
  BY <1>1, PlayedIs
<1>3. CASE hw.queue = <<>>
  <2>1. Queued(buf, hw.queue) = <<>>
    BY <1>3 DEF Queued
  <2>2. <<>> \in Seq(Sound) /\ Len(<<>>) = 0
    BY EmptySeq
  <2> QED
    BY <2>1, <2>2, Sizes
<1>4. CASE hw.queue = <<k>>
  <2>1. Queued(buf, hw.queue) = Played(buf, k)
    BY <1>4, QueuedCases, Zenon
  <2> QED
    BY <1>2, <2>1, Sizes
<1>5. CASE hw.queue = <<i, k>>
  <2>1. Queued(buf, hw.queue) = Played(buf, i) \o Played(buf, k)
    BY <1>5, QueuedTwo, Zenon
  <2>2. PICK s \in Seq(Sound), t \in Seq(Sound) : s = Played(buf, i) /\ t = Played(buf, k)
    BY <1>2
  <2>3. s \o t \in Seq(Sound) /\ Len(s \o t) = Len(s) + Len(t)
    BY ConcatProperties
  <2>4. Len(s) \in Nat /\ Len(t) \in Nat /\ Len(s) <= Dma /\ Len(t) <= Dma
    BY <1>2, <2>2
  <2> QED
    BY <2>1, <2>2, <2>3, <2>4, Sizes
<1> QED
  BY <1>1, <1>3, <1>4, <1>5

\* Nothing in ring and buffers is nothing to be heard.
LEMMA NothingUnheard ==
  ASSUME StreamInv, Fill(buf) = 0, buf.inflight[0] = 0, buf.inflight[1] = 0
  PROVE  Unheard = <<>>
<1>1. PICK i \in {0, 1}, k \in {0, 1} :
        Buffered(buf) /\ hw.queue \in {<<>>, <<k>>, <<i, k>>}
  BY DEF StreamInv, QueueInv, Buffered
<1>2. Played(buf, 0) = <<>> /\ Played(buf, 1) = <<>> /\ Ahead(buf) = <<>>
  BY <1>1, NothingPlayed, NothingAhead
<1>3. <<>> \o <<>> = <<>>
  BY EmptySeq, ConcatEmptySeq
<1>4. Queued(buf, hw.queue) = <<>>
  <2>1. Queued(buf, <<>>) = <<>>
    BY DEF Queued
  <2>2. Queued(buf, <<k>>) = Played(buf, k)
    BY QueuedCases, Zenon
  <2>3. Queued(buf, <<i, k>>) = Played(buf, i) \o Played(buf, k)
    BY QueuedTwo, Zenon
  <2>4. Played(buf, i) = <<>> /\ Played(buf, k) = <<>>
    BY <1>2
  <2> QED
    BY <1>1, <1>3, <2>1, <2>2, <2>3, <2>4
<1> QED
  BY <1>2, <1>3, <1>4, UnheardIs

----------------------------------------------------------------------------
\* What each action does to the samples that were not heard.

LEMMA StreamInit == Init => StreamInv
<1> SUFFICES ASSUME Init PROVE StreamInv
  OBVIOUS
<1>1. Buffered(buf) /\ Fill(buf) = 0 /\ buf.next = 0 /\ buf.inflight[0] = 0
  <2>1. buf = Turned(Empty, 0)
    <3>1. \A ring, dma, inflight :
            LET e == [head |-> 0, tail |-> 0, ring |-> ring, dma |-> dma,
                      inflight |-> inflight, next |-> 0]
            IN  [e EXCEPT !.next = 0] = e
      OBVIOUS
    <3> QED
      BY <3>1, Zenon DEF Init, Turned, Empty
  <2> QED
    BY <2>1, EmptyIs DEF TurnedTo
<1>2. QueueInv
  <2>1. DOMAIN hw = {"on", "queue", "bits", "stalled"} /\ hw.queue = <<>> /\ hw.bits = {}
    BY DEF Init, Stopped
  <2>2. DOMAIN svc = {"pc", "count"} /\ svc.pc = "out" /\ svc.count = 0
    BY DEF Init
  <2>3. <<>> # <<buf.next, 1 - buf.next>>
    OBVIOUS
  <2> QED
    BY <2>1, <2>2, <2>3 DEF QueueInv
<1>3. /\ op.len = 0 /\ op.done = 0 /\ op.n = 0 /\ op.sum = 0 /\ op.pc = "idle"
      /\ ctl.failure = "none"
  BY DEF Init, Idle
<1>4. UserInv /\ DrainInv
  BY <1>3, AudioAssumption DEF UserInv, DrainInv
<1> QED
  BY <1>1, <1>2, <1>4, IrqInit, FrameInit DEF StreamInv

\* What service() does to the samples: it moves some, and they stay in order.
LEMMA RefillMoves ==
  ASSUME StreamInv, ServiceRefill
  PROVE  /\ Buffered(buf') /\ Fill(buf') <= Fill(buf)
         /\ \A j \in {0, 1} : buf'.inflight[j] = buf.inflight[j] \/ buf'.inflight[j] <= Fill(buf)
         /\ Unheard' = Unheard
         /\ \/ /\ svc.count = 1 /\ buf'.next = 1 - buf.next
               /\ hw.queue \in {<<>>, <<1 - buf.next>>}
               /\ hw'.queue = Append(hw.queue, buf.next)
            \/ svc.count = 2 /\ hw.queue = <<>> /\ buf'.next = buf.next
               /\ hw'.queue = <<buf.next, 1 - buf.next>>
<1>1. PICK i \in {0, 1}, k \in {0, 1} : i = buf.next /\ k = 1 - buf.next /\ Other(i, k)
  BY OtherIs DEF StreamInv, Buffered, Other
<1>a. Other(i, k)
  BY <1>1
<1>2. Buffered(buf)
  BY DEF StreamInv
<1>3. /\ svc.count \in {1, 2} /\ hw.queue \in {<<>>, <<k>>}
      /\ svc.count = 2 => hw.queue = <<>>
  BY <1>1 DEF StreamInv, QueueInv, ServiceRefill
<1>4. DOMAIN hw = {"on", "queue", "bits", "stalled"}
  BY DEF StreamInv, QueueInv
<1>5. CASE svc.count = 1
  <2>1. buf' = Turned(Refill(buf, i), k)
    BY <1>1, <1>5 DEF ServiceRefill, Turned
  <2>2. hw'.queue = Append(hw.queue, i)
    BY <1>1, <1>4, <1>5 DEF ServiceRefill
  <2>3. PICK q, r : r = buf' /\ Refilled(buf, i, q) /\ TurnedTo(q, k, r)
    BY <2>1 DEF Refilled, TurnedTo
  <2>4. /\ Buffered(r) /\ r.next = k /\ Fill(r) <= Fill(buf)
        /\ \A j \in {0, 1} : r.inflight[j] = buf.inflight[j] \/ r.inflight[j] <= Fill(buf)
        /\ Played(r, k) = Played(buf, k)
        /\ Ahead(buf) = Played(r, i) \o Ahead(r)
    <3>1. TookTurn(buf, i, k, r)
      BY <1>a, <1>2, <2>3, RefillOnce
    <3> QED
      BY <3>1 DEF TookTurn
  <2>5. Unheard' = Unheard
    <3>1. /\ Played(r, i) \in Seq(Sound) /\ Played(r, k) \in Seq(Sound)
          /\ Ahead(r) \in Seq(Sound) /\ Ahead(buf) \in Seq(Sound)
      BY <1>2, <2>4, PlayedIs, AheadIs
    <3>2. CASE hw.queue = <<>>
      <4>1. hw'.queue = <<i>>
        BY <2>2, <3>2
      <4>2. Unheard' = Played(r, i) \o Ahead(r)
        BY <2>3, <4>1, QueuedCases, UnheardIsNext
      <4>3. Unheard = <<>> \o Ahead(buf)
        BY <3>2, UnheardIs DEF Queued
      <4> QED
        BY <2>4, <3>1, <4>2, <4>3, ConcatEmptySeq
    <3>3. CASE hw.queue = <<k>>
      <4>1. hw'.queue = <<k, i>>
        BY <2>2, <3>3, AppendTwo
      <4>2. Unheard' = (Played(r, k) \o Played(r, i)) \o Ahead(r)
        <5>1. Queued(r, <<k, i>>) = Played(r, k) \o Played(r, i)
          BY QueuedCases
        <5> QED
          BY <2>3, <4>1, <5>1, UnheardIsNext, Zenon
      <4>3. Unheard = Played(buf, k) \o Ahead(buf)
        BY <3>3, QueuedCases, UnheardIs
      <4>4. Unheard = Played(r, k) \o (Played(r, i) \o Ahead(r))
        BY <2>4, <4>3
      <4>5. Unheard = Joined(Played(r, k), Played(r, i), Ahead(r))
        BY <3>1, <4>4, JoinedIs, Zenon
      <4> QED
        BY <4>2, <4>5 DEF Joined
    <3> QED
      BY <1>3, <3>2, <3>3
  <2> QED
    BY <1>1, <1>3, <1>5, <2>2, <2>3, <2>4, <2>5
<1>6. CASE svc.count = 2
  <2>1. buf' = Refill(Refill(buf, i), k)
    BY <1>1, <1>6 DEF ServiceRefill
  <2>2. hw'.queue = <<i, k>>
    <3>1. hw'.queue = hw.queue \o <<i, k>>
      <4>1. hw' = [hw EXCEPT !.bits = {}, !.queue = @ \o <<buf.next, 1 - buf.next>>]
        BY <1>6 DEF ServiceRefill
      <4>2. hw'.queue = hw.queue \o <<buf.next, 1 - buf.next>>
        BY <1>4, <4>1
      <4>3. <<buf.next, 1 - buf.next>> = <<i, k>>
        BY <1>1
      <4> QED
        BY <4>2, <4>3, Zenon
    <3>2. <<i, k>> \in Seq({0, 1})
      OBVIOUS
    <3> QED
      BY <1>3, <1>6, <3>1, <3>2, ConcatEmptySeq
  <2>3. PICK q, r : r = buf' /\ Refilled(buf, i, q) /\ Refilled(q, k, r)
    BY <2>1 DEF Refilled
  <2>4. /\ Buffered(r) /\ r.next = buf.next /\ Fill(r) <= Fill(buf)
        /\ \A j \in {0, 1} : r.inflight[j] <= Fill(buf)
        /\ Ahead(buf) = (Played(r, i) \o Played(r, k)) \o Ahead(r)
    <3>3. Buffered(r) /\ r.next = buf.next /\ Fill(r) <= Fill(buf)
      BY <1>a, <1>2, <2>3, RefillTwice
    <3>4. \A j \in {0, 1} : r.inflight[j] <= Fill(buf)
      BY <1>a, <1>2, <2>3, RefillTwice
    <3>5. Ahead(buf) = Joined(Played(r, i), Played(r, k), Ahead(r))
      BY <1>a, <1>2, <2>3, RefillTwice
    <3> QED
      BY <3>3, <3>4, <3>5 DEF Joined
  <2>5. Unheard' = Unheard
    <3>1. Unheard' = (Played(r, i) \o Played(r, k)) \o Ahead(r)
      <4>1. Queued(r, <<i, k>>) = Played(r, i) \o Played(r, k)
        BY QueuedCases
      <4> QED
        BY <2>2, <2>3, <4>1, UnheardIsNext, Zenon
    <3>2. Unheard = <<>> \o Ahead(buf)
      BY <1>3, <1>6, UnheardIs DEF Queued
    <3>3. Ahead(buf) \in Seq(Sound)
      BY <1>2, AheadIs
    <3> QED
      BY <2>4, <3>1, <3>2, <3>3, ConcatEmptySeq
  <2> QED
    BY <1>1, <1>3, <1>6, <2>2, <2>3, <2>4, <2>5
<1> QED
  BY <1>3, <1>5, <1>6

\* start() fills both buffers and keeps the order.
LEMMA StartMoves ==
  ASSUME StreamInv, StartDma
  PROVE  /\ Buffered(buf') /\ buf'.next = 0 /\ Fill(buf') <= Ring
         /\ Unheard' = Unheard
<1>1. PICK q : Refilled(buf, 0, q)
  BY DEF Refilled
<1>2. PICK r : Refilled(q, 1, r)
  BY DEF Refilled
<1>3. Buffered(buf) /\ Other(0, 1)
  BY DEF StreamInv, Other
<1>4. Buffered(r) /\ Ahead(buf) = Joined(Played(r, 0), Played(r, 1), Ahead(r))
  BY <1>1, <1>2, <1>3, RefillTwice
<1>5. buf' = Turned(r, 0)
  BY <1>1, <1>2 DEF StartDma, Turned, Refilled
<1>6. PICK t : t = buf' /\ TurnedTo(r, 0, t)
  BY <1>5 DEF TurnedTo
<1>7. /\ Buffered(t) /\ t.next = 0 /\ Ahead(t) = Ahead(r)
      /\ \A j \in {0, 1} : Played(t, j) = Played(r, j)
  BY <1>4, <1>6, TurnKeeps
<1>8. hw'.queue = <<0, 1>>
  BY DEF StartDma
<1>9. hw.queue = <<>>
  BY DEF StreamInv, IrqInv, StoppedIsOff, QueueInv, StartDma, At
<1>10. Unheard' = Joined(Played(r, 0), Played(r, 1), Ahead(r))
  <2>1. Queued(t, <<0, 1>>) = Played(t, 0) \o Played(t, 1)
    BY QueuedCases
  <2>2. Unheard' = (Played(t, 0) \o Played(t, 1)) \o Ahead(t)
    BY <1>6, <1>8, <2>1, UnheardIsNext, Zenon
  <2> QED
    BY <1>7, <2>2 DEF Joined
<1>11. Unheard = Ahead(buf)
  <2>1. Unheard = <<>> \o Ahead(buf)
    BY <1>9, UnheardIs DEF Queued
  <2>2. Ahead(buf) \in Seq(Sound)
    BY <1>3, AheadIs
  <2> QED
    BY <2>1, <2>2, ConcatEmptySeq
<1>12. Fill(buf') <= Ring
  BY <1>6, <1>7 DEF Buffered
<1> QED
  BY <1>4, <1>6, <1>7, <1>10, <1>11, <1>12

\* What a finished buffer played is the first of what was not heard.
LEMMA CompleteMoves ==
  ASSUME StreamInv, Complete
  PROVE  /\ heard' \in Seq(Sound) /\ Unheard' \in Seq(Sound) /\ Unheard = heard' \o Unheard'
         /\ \/ hw.queue = <<1 - buf.next>> /\ hw'.queue = <<>>
            \/ hw.queue = <<buf.next, 1 - buf.next>> /\ hw'.queue = <<1 - buf.next>>
<1>1. PICK i \in {0, 1}, k \in {0, 1} : i = buf.next /\ k = 1 - buf.next
  BY DEF StreamInv, Buffered
<1>2. Buffered(buf)
  BY DEF StreamInv
<1>3. /\ hw.queue \in {<<k>>, <<i, k>>} /\ DOMAIN hw = {"on", "queue", "bits", "stalled"}
  BY <1>1 DEF StreamInv, QueueInv, Complete
<1>4. hw'.queue = Tail(hw.queue) /\ UNCHANGED buf
  BY <1>3 DEF Complete
<1>5. heard' = Played(buf, Head(hw.queue))
  BY DEF Complete, Played
<1>6. PICK s \in Seq(Sound), t \in Seq(Sound), u \in Seq(Sound) :
        s = Played(buf, i) /\ t = Played(buf, k) /\ u = Ahead(buf)
  BY <1>2, PlayedIs, AheadIs
<1>7. Queued(buf, <<>>) = <<>> /\ <<>> \o u = u
  BY ConcatEmptySeq DEF Queued
<1>8. Queued(buf, <<k>>) = t /\ Queued(buf, <<i, k>>) = s \o t
  BY <1>6, QueuedCases
<1>9. CASE hw.queue = <<k>>
  <2>1. Head(hw.queue) = k /\ Tail(hw.queue) = <<>>
    BY <1>9
  <2>2. heard' = t /\ hw'.queue = <<>>
    BY <1>4, <1>5, <1>6, <2>1
  <2>3. Unheard = t \o u
    BY <1>6, <1>8, <1>9, UnheardIs, Zenon
  <2>4. Unheard' = u
    BY <1>4, <1>6, <1>7, <2>2, UnheardIsNext
  <2> QED
    BY <1>1, <1>9, <2>2, <2>3, <2>4
<1>10. CASE hw.queue = <<i, k>>
  <2>1. Head(hw.queue) = i /\ Tail(hw.queue) = <<k>>
    BY <1>10
  <2>2. heard' = s /\ hw'.queue = <<k>>
    BY <1>4, <1>5, <1>6, <2>1
  <2>3. Unheard = (s \o t) \o u
    BY <1>6, <1>8, <1>10, UnheardIs, Zenon
  <2>4. Unheard' = t \o u
    <3>1. Unheard' = Queued(buf, <<k>>) \o Ahead(buf)
      BY <1>4, <2>2, UnheardIsNext
    <3> QED
      BY <1>6, <1>8, <3>1, Zenon
  <2>5. (s \o t) \o u = s \o (t \o u) /\ t \o u \in Seq(Sound)
    BY ConcatAssociative, ConcatProperties
  <2> QED
    BY <1>1, <1>10, <2>2, <2>3, <2>4, <2>5
<1> QED
  BY <1>3, <1>9, <1>10

\* Stopping the engine loses what it had been given, and nothing else.
LEMMA StopMoves ==
  ASSUME StreamInv, hw' = Stopped, UNCHANGED buf
  PROVE  \E s \in Seq(Sound) : /\ Unheard = s \o Unheard' /\ Unheard' \in Seq(Sound)
                               /\ Len(s) \in Nat /\ Len(s) <= 2 * Dma
                               /\ hw.queue = <<>> => s = <<>>
<1>1. PICK s \in Seq(Sound) : s = Queued(buf, hw.queue) /\ Len(s) \in Nat /\ Len(s) <= 2 * Dma
  BY QueuedIs
<1>2. PICK u \in Seq(Sound) : u = Ahead(buf)
  BY AheadIs DEF StreamInv
<1>3. Unheard = s \o u
  BY <1>1, <1>2, UnheardIs, Zenon
<1>4. Unheard' = u
  <2>1. hw'.queue = <<>>
    BY DEF Stopped
  <2>2. Queued(buf, <<>>) = <<>> /\ <<>> \o u = u
    BY ConcatEmptySeq DEF Queued
  <2> QED
    BY <1>2, <2>1, <2>2, UnheardIsNext
<1>5. hw.queue = <<>> => s = <<>>
  BY <1>1 DEF Queued
<1> QED
  BY <1>1, <1>3, <1>4, <1>5

\* reset() drops all there is.
LEMMA ResetMoves ==
  ASSUME StreamInv, Reset
  PROVE  /\ Buffered(buf') /\ Fill(buf') = 0 /\ buf'.next = buf.next
         /\ hw' = Stopped /\ Unheard' = <<>>
<1>1. hw' = Stopped /\ buf' = Turned(Empty, buf.next)
  BY DEF Reset, StopLocked, Turned
<1>2. PICK x \in {0, 1} : x = buf.next
  BY DEF StreamInv, Buffered
<1>3. PICK r : r = buf' /\ r = Turned(Empty, x)
  BY <1>1, <1>2
<1>4. Buffered(r) /\ Fill(r) = 0 /\ r.next = x /\ Ahead(r) = <<>>
  BY <1>3, EmptyIs DEF TurnedTo
<1>5. Unheard' = <<>>
  <2>1. hw'.queue = <<>>
    BY <1>1 DEF Stopped
  <2>2. Queued(r, <<>>) = <<>> /\ <<>> \o <<>> = <<>>
    BY EmptySeq, ConcatEmptySeq DEF Queued
  <2> QED
    BY <1>3, <1>4, <2>1, <2>2, UnheardIsNext
<1> QED
  BY <1>1, <1>2, <1>3, <1>4, <1>5

\* A write adds samples behind those that wait.
LEMMA AppendMoves ==
  ASSUME StreamInv, WriteAppend
  PROVE  /\ Buffered(buf') /\ buf'.next = buf.next
         /\ Unheard \in Seq(Sound) /\ Unheard' \in Seq(Sound)
         /\ Len(Unheard) <= Len(Unheard') /\ Len(Unheard') <= Ring + (2 * Dma)
         /\ \A j \in 1 .. Len(Unheard) : Unheard'[j] = Unheard[j]
<1>1. Buffered(buf) /\ op.n \in Nat /\ Fill(buf) + op.n <= Ring
  <2>1. op.n \in 0 .. Chunk /\ op.n <= Ring - Fill(buf) /\ Buffered(buf)
    BY DEF StreamInv, UserInv, WriteAppend, At
  <2>2. Fill(buf) \in Nat
    BY <2>1, FillIs
  <2> QED
    BY <2>1, <2>2, AudioAssumption
<1>2. buf' = Appended(buf, op.n)
  BY DEF WriteAppend, Appended
<1>3. PICK r : r = buf' /\ r = Appended(buf, op.n)
  BY <1>2
<1>4. /\ Buffered(r) /\ r.next = buf.next /\ r.dma = buf.dma /\ r.inflight = buf.inflight
      /\ Fill(r) = Fill(buf) + op.n
      /\ \A j \in 1 .. Fill(buf) : Waiting(r, Fill(r))[j] = Waiting(buf, Fill(buf))[j]
  BY <1>1, <1>3, AppendKeeps
<1>5. PICK q \in Seq(Sound), a \in Seq(Sound), c \in Seq(Sound), m \in Nat, f \in Nat, g \in Nat :
        /\ q = Queued(buf, hw.queue) /\ a = Ahead(buf) /\ c = Ahead(r)
        /\ m = Len(q) /\ f = Len(a) /\ g = Len(c)
        /\ m <= 2 * Dma /\ f <= g /\ g <= Ring
        /\ \A j \in 1 .. f : c[j] = a[j]
  <2>1. /\ Ahead(buf) \in Seq(Sound) /\ Len(Ahead(buf)) = Fill(buf)
        /\ Ahead(r) \in Seq(Sound) /\ Len(Ahead(r)) = Fill(r)
    BY <1>1, <1>4, AheadIs
  <2>2. Fill(buf) \in Nat /\ Fill(r) \in Nat /\ Fill(buf) <= Fill(r) /\ Fill(r) <= Ring
    <3>1. Fill(buf) \in Nat
      BY <1>1, FillIs
    <3>2. Fill(r) = Fill(buf) + op.n
      BY <1>4
    <3> QED
      BY <1>1, <3>1, <3>2
  <2>3. \A j \in 1 .. Fill(buf) : Ahead(r)[j] = Ahead(buf)[j]
    BY <1>4 DEF Ahead
  <2>4. /\ Queued(buf, hw.queue) \in Seq(Sound)
        /\ Len(Queued(buf, hw.queue)) \in Nat /\ Len(Queued(buf, hw.queue)) <= 2 * Dma
    BY QueuedIs
  <2> QED
    BY <2>1, <2>2, <2>3, <2>4
<1>6. Unheard = q \o a
  BY <1>5, UnheardIs, Zenon
<1>7. Unheard' = q \o c
  <2>1. hw'.queue = hw.queue
    BY DEF WriteAppend
  <2>2. Queued(r, hw.queue) = Queued(buf, hw.queue)
    BY <1>4 DEF Queued, Played
  <2> QED
    BY <1>3, <1>5, <2>1, <2>2, UnheardIsNext
<1>8. /\ q \o a \in Seq(Sound) /\ Len(q \o a) = m + f
      /\ \A j \in 1 .. m + f : (q \o a)[j] = IF j <= m THEN q[j] ELSE a[j - m]
  BY <1>5, ConcatProperties
<1>9. /\ q \o c \in Seq(Sound) /\ Len(q \o c) = m + g
      /\ \A j \in 1 .. m + g : (q \o c)[j] = IF j <= m THEN q[j] ELSE c[j - m]
  BY <1>5, ConcatProperties
<1>10. m + f <= m + g /\ m + g <= Ring + (2 * Dma)
  BY <1>5, Sizes
<1>11. ASSUME NEW j \in 1 .. m + f PROVE (q \o c)[j] = (q \o a)[j]
  <2>1. j \in 1 .. m + g
    BY <1>10
  <2>2. CASE j <= m
    BY <1>8, <1>9, <2>1, <2>2
  <2>3. CASE ~(j <= m)
    <3>1. j - m \in 1 .. f
      BY <2>3
    <3>2. c[j - m] = a[j - m]
      BY <1>5, <3>1
    <3> QED
      BY <1>8, <1>9, <2>1, <2>3, <3>2
  <2> QED
    BY <2>2, <2>3
<1> QED
  BY <1>3, <1>4, <1>6, <1>7, <1>8, <1>9, <1>10, <1>11

----------------------------------------------------------------------------
\* The invariant is preserved.

LEMMA BufferedNext == StreamInv /\ [Next]_vars => Buffered(buf')
<1> SUFFICES ASSUME StreamInv, [Next]_vars PROVE Buffered(buf')
  OBVIOUS
<1>1. UNCHANGED buf \/ ServiceRefill \/ StartDma \/ WriteAppend \/ Reset
  BY DEF Next, vars, Complete, Stall, Service, ServiceBegin, ServiceCheck, ServiceTimeout,
     Calls, Open, Call, Write, Sync, ResetCall, Post, SetFormat, Release, NonBlock,
     Steps, WriteCheck, WriteSpace, WriteWait, Start, EnableIrq, Drain, Drain0, Drain1, Signal
<1>2. CASE UNCHANGED buf
  BY <1>2 DEF StreamInv
<1> QED
  BY <1>1, <1>2, RefillMoves, StartMoves, AppendMoves, ResetMoves

----------------------------------------------------------------------------

LEMMA QueueQuiet ==
  ASSUME StreamInv, UNCHANGED <<hw, svc>>, buf'.next = buf.next, ctl'.running = ctl.running
  PROVE  QueueInv'
BY DEF StreamInv, QueueInv

LEMMA QueueStopped ==
  ASSUME StreamInv, hw' = Stopped,
         DOMAIN svc' = {"pc", "count"}, svc'.pc = "out", svc'.count \in 0 .. 2
  PROVE  QueueInv'
<1>1. DOMAIN hw' = {"on", "queue", "bits", "stalled"} /\ hw'.queue = <<>> /\ hw'.bits = {}
  BY DEF Stopped
<1> QED
  BY <1>1 DEF QueueInv

\* The shape of the queue depends on the next buffer alone.
LEMMA Tuples ==
  ASSUME NEW i \in {0, 1}, NEW k \in {0, 1}
  PROVE  <<>> # <<i, k>> /\ <<>> # <<k>> /\ <<k>> # <<i, k>>
<1>1. Len(<<>>) = 0 /\ Len(<<k>>) = 1 /\ Len(<<i, k>>) = 2
  OBVIOUS
<1> QED
  BY <1>1

LEMMA QueueComplete == StreamInv /\ Complete => QueueInv'
<1> SUFFICES ASSUME StreamInv, Complete PROVE QueueInv'
  OBVIOUS
<1>1. PICK i \in {0, 1}, k \in {0, 1} : i = buf.next /\ k = 1 - buf.next /\ i # k
  BY DEF StreamInv, Buffered
<1>2. \/ hw.queue = <<k>> /\ hw'.queue = <<>>
      \/ hw.queue = <<i, k>> /\ hw'.queue = <<k>>
  BY <1>1, CompleteMoves
<1>3. PICK bit \in {0, 1} : hw' = [hw EXCEPT !.queue = Tail(@), !.bits = @ \cup {bit}]
  BY DEF Complete
<1>4. UNCHANGED <<buf, ctl, svc>>
  BY DEF Complete
<1>5. DOMAIN hw' = {"on", "queue", "bits", "stalled"} /\ hw'.bits = hw.bits \cup {bit}
  BY <1>3 DEF StreamInv, QueueInv
<1>6. <<>> # <<i, k>> /\ <<>> # <<k>> /\ <<k>> # <<i, k>>
  BY Tuples
<1>7. /\ hw.bits \subseteq {0, 1}
      /\ svc.pc \in {"out", "ack", "check"} /\ svc.count \in 0 .. 2 /\ DOMAIN svc = {"pc", "count"}
      /\ hw.bits # {} => hw.queue # <<i, k>>
      /\ ~ctl.running => hw.queue = <<>>
      /\ svc.pc # "out" => ctl.running
      /\ svc.pc = "ack" => /\ svc.count \in {1, 2} /\ hw.queue # <<i, k>>
                           /\ svc.count = 2 => hw.queue = <<>>
  BY <1>1 DEF StreamInv, QueueInv
<1>8. CASE hw.queue = <<k>> /\ hw'.queue = <<>>
  <2>1. hw'.bits \subseteq {0, 1}
    BY <1>5, <1>7
  <2> QED
    BY <1>1, <1>4, <1>5, <1>6, <1>7, <1>8, <2>1 DEF QueueInv
<1>9. CASE hw.queue = <<i, k>> /\ hw'.queue = <<k>>
  <2>1. hw.bits = {} /\ svc.pc # "ack" /\ ctl.running
    BY <1>6, <1>7, <1>9
  <2>2. hw'.bits \subseteq {0, 1} /\ hw'.bits # {0, 1}
    BY <1>5, <2>1
  <2> QED
    BY <1>1, <1>4, <1>5, <1>6, <1>7, <1>9, <2>1, <2>2 DEF QueueInv
<1> QED
  BY <1>2, <1>8, <1>9

\* service() saw one or two completions: the bits that were set.
LEMMA QueueBegin == StreamInv /\ ServiceBegin => QueueInv'
<1> SUFFICES ASSUME StreamInv, ServiceBegin PROVE QueueInv'
  OBVIOUS
<1>1. /\ svc' = [pc |-> "ack", count |-> Cardinality(hw.bits)]
      /\ UNCHANGED <<buf, hw, ctl>> /\ ctl.running /\ hw.bits # {}
  BY DEF ServiceBegin
<1>2. hw.bits = {0} \/ hw.bits = {1} \/ hw.bits = {0, 1}
  BY <1>1 DEF StreamInv, QueueInv
<1>3. Cardinality({0}) = 1 /\ Cardinality({1}) = 1
  BY FS_Singleton
<1>4. Cardinality({0, 1}) = 2
  <2>1. {0, 1} = {0} \cup {1} /\ 1 \notin {0} /\ IsFiniteSet({0})
    BY FS_Singleton
  <2> QED
    BY <1>3, <2>1, FS_AddElement
<1>5. svc'.count \in {1, 2} /\ (svc'.count = 2 => hw.bits = {0, 1})
  BY <1>1, <1>2, <1>3, <1>4
<1>6. DOMAIN svc' = {"pc", "count"} /\ svc'.pc = "ack"
  BY <1>1
<1> QED
  BY <1>1, <1>5, <1>6 DEF StreamInv, QueueInv

LEMMA QueueRefill == StreamInv /\ ServiceRefill => QueueInv'
<1> SUFFICES ASSUME StreamInv, ServiceRefill PROVE QueueInv'
  OBVIOUS
<1>1. PICK i \in {0, 1}, k \in {0, 1} : i = buf.next /\ k = 1 - buf.next /\ i = 1 - k
  BY DEF StreamInv, Buffered
<1>2. DOMAIN hw' = {"on", "queue", "bits", "stalled"} /\ hw'.bits = {}
  <2>1. PICK q : hw' = [hw EXCEPT !.bits = {}, !.queue = q]
    BY DEF ServiceRefill
  <2> QED
    BY <2>1 DEF StreamInv, QueueInv
<1>3. /\ DOMAIN svc' = {"pc", "count"} /\ svc'.pc = "check" /\ svc'.count \in 0 .. 2
      /\ UNCHANGED ctl /\ ctl.running
  BY DEF ServiceRefill, StreamInv, QueueInv
<1>4. hw'.queue \in {<<1 - buf'.next>>, <<buf'.next, 1 - buf'.next>>}
  <2>1. CASE /\ buf'.next = k /\ hw.queue \in {<<>>, <<k>>} /\ hw'.queue = Append(hw.queue, i)
    <3>1. Append(<<>>, i) = <<i>> /\ Append(<<k>>, i) = <<k, i>>
      BY AppendTwo
    <3> QED
      BY <1>1, <2>1, <3>1
  <2>2. CASE buf'.next = i /\ hw'.queue = <<i, k>>
    BY <1>1, <2>2
  <2> QED
    BY <1>1, <2>1, <2>2, RefillMoves
<1> QED
  BY <1>2, <1>3, <1>4 DEF QueueInv

LEMMA QueueStart == StreamInv /\ (Start \/ StartDma) => QueueInv'
<1> SUFFICES ASSUME StreamInv, Start \/ StartDma PROVE QueueInv'
  OBVIOUS
<1>1. svc.pc = "out" /\ UNCHANGED svc /\ DOMAIN svc = {"pc", "count"} /\ svc.count \in 0 .. 2
  BY DEF Start, StartDma, At, User, StreamInv, QueueInv
<1>2. CASE StartDma
  <2>1. buf'.next = 0
    BY <1>2, StartMoves
  <2>2. /\ DOMAIN hw' = {"on", "queue", "bits", "stalled"}
        /\ hw'.queue = <<0, 1>> /\ hw'.bits = {}
    BY <1>2 DEF StartDma
  <2>3. ctl'.running = TRUE
    BY <1>2 DEF StartDma, StreamInv, IrqInv, Shapes
  <2> QED
    BY <1>1, <2>1, <2>2, <2>3 DEF QueueInv
<1>3. CASE Start
  <2>1. CASE UNCHANGED <<ctl, hw>>
    BY <1>3, <2>1, QueueQuiet DEF Start
  <2>2. CASE ~ctl.running /\ UNCHANGED ctl /\ hw' = [hw EXCEPT !.bits = {}]
    <3>1. /\ DOMAIN hw' = {"on", "queue", "bits", "stalled"}
          /\ hw'.queue = hw.queue /\ hw'.bits = {}
      BY <2>2 DEF StreamInv, QueueInv
    <3>2. hw.queue = <<>>
      BY <2>2 DEF StreamInv, QueueInv
    <3> QED
      BY <1>1, <2>2, <3>1, <3>2 DEF QueueInv
  <2>3. CASE hw' = Stopped
    BY <1>1, <2>3, QueueStopped
  <2> QED
    BY <1>3, <2>1, <2>2, <2>3 DEF Start
<1> QED
  BY <1>2, <1>3

LEMMA QueueNext == StreamInv /\ [Next]_vars => QueueInv'
<1> SUFFICES ASSUME StreamInv, [Next]_vars PROVE QueueInv'
  OBVIOUS
<1>1. CASE Stall
  <2>1. UNCHANGED <<buf, ctl, svc>> /\ hw' = [hw EXCEPT !.stalled = TRUE]
    BY <1>1 DEF Stall
  <2>2. DOMAIN hw' = DOMAIN hw /\ hw'.queue = hw.queue /\ hw'.bits = hw.bits
    BY <2>1 DEF StreamInv, QueueInv
  <2> QED
    BY <2>1, <2>2 DEF StreamInv, QueueInv
<1>2. CASE ServiceCheck
  <2>1. svc' = [pc |-> "out", count |-> 0] /\ UNCHANGED buf
    BY <1>2 DEF ServiceCheck
  <2>2. DOMAIN svc' = {"pc", "count"} /\ svc'.pc = "out" /\ svc'.count \in 0 .. 2
    BY <2>1
  <2>3. CASE UNCHANGED <<hw, ctl>>
    BY <2>1, <2>2, <2>3 DEF StreamInv, QueueInv
  <2>4. CASE hw' = Stopped
    BY <2>2, <2>4, QueueStopped
  <2> QED
    BY <1>2, <2>3, <2>4 DEF ServiceCheck, StopLocked
<1>3. CASE ServiceTimeout \/ Reset
  <2>1. /\ hw' = Stopped /\ UNCHANGED svc /\ svc.pc = "out"
        /\ DOMAIN svc = {"pc", "count"} /\ svc.count \in 0 .. 2
    BY <1>3 DEF ServiceTimeout, Reset, StopLocked, At, User, StreamInv, QueueInv
  <2> QED
    BY <2>1, QueueStopped
<1>4. CASE UNCHANGED <<hw, svc, buf, ctl>>
  BY <1>4, QueueQuiet
<1>5. CASE WriteAppend
  BY <1>5, AppendMoves, QueueQuiet DEF WriteAppend
<1>6. CASE NonBlock
  BY <1>6, QueueQuiet DEF NonBlock, StreamInv, IrqInv, Shapes
<1>7. CASE UNCHANGED vars
  BY <1>4, <1>7 DEF vars
<1>8. CASE WriteCheck \/ WriteSpace \/ WriteWait \/ EnableIrq \/ Drain \/ Drain0 \/ Drain1 \/ Signal
  BY <1>4, <1>8 DEF WriteCheck, WriteSpace, WriteWait, EnableIrq, Drain, Drain0, Drain1, Signal
<1>9. CASE Calls
  BY <1>4, <1>6, <1>9
  DEF Calls, Open, Call, Write, Sync, ResetCall, Post, SetFormat, Release
<1> QED
  BY <1>1, <1>2, <1>3, <1>5, <1>7, <1>8, <1>9,
     QueueComplete, QueueBegin, QueueRefill, QueueStart
  DEF Next, Service, Steps

Failures == {"none", "EIO", "ETIMEDOUT", "codec"}

LEMMA FailureNext ==
  ASSUME StreamInv, [Next]_vars
  PROVE  ctl'.failure \in Failures
<1>0. ctl.failure \in Failures /\ DOMAIN ctl = {"running", "failure", "opened", "channels", "nonblock"}
  BY DEF StreamInv, UserInv, IrqInv, Shapes, Failures
<1>1. CASE UNCHANGED ctl
  BY <1>0, <1>1
<1>2. CASE ServiceCheck \/ ServiceTimeout \/ Start \/ StartDma
  <2>1. \/ UNCHANGED ctl
        \/ ctl' = [ctl EXCEPT !.running = FALSE, !.failure = "EIO"]
        \/ ctl' = [ctl EXCEPT !.running = FALSE, !.failure = "ETIMEDOUT"]
        \/ ctl' = [ctl EXCEPT !.failure = "codec"]
        \/ ctl' = [ctl EXCEPT !.running = TRUE]
    BY <1>2 DEF ServiceCheck, ServiceTimeout, Start, StartDma
  <2> QED
    BY <1>0, <2>1 DEF Failures
<1>3. CASE NonBlock
  BY <1>0, <1>3 DEF NonBlock
<1>4. CASE Reset
  <2>1. PICK o, c, n : ctl' = [ctl EXCEPT !.running = FALSE, !.failure = "none", !.opened = o,
                                          !.channels = c, !.nonblock = n]
    BY <1>4 DEF Reset
  <2> QED
    BY <1>0, <2>1 DEF Failures
<1> QED
  BY <1>1, <1>2, <1>3, <1>4
  DEF Next, vars, Complete, Stall, Service, ServiceBegin, ServiceRefill,
      Calls, Open, Call, Write, Sync, ResetCall, Post, SetFormat, Release,
      Steps, WriteCheck, WriteSpace, WriteWait, WriteAppend, EnableIrq,
      Drain, Drain0, Drain1, Signal

----------------------------------------------------------------------------

\* The numbers of a call in progress.
Counts(o) == o.len \in Nat /\ o.done \in 0 .. o.len /\ o.n \in 0 .. Chunk /\ o.sum \in Nat

LEMMA CountsNow == StreamInv => Counts(op) /\ Counts(Idle)
BY AudioAssumption DEF StreamInv, UserInv, Counts, Idle

\* A call keeps UserInv when its numbers and its append are right.
LEMMA UserFrom ==
  ASSUME StreamInv, [Next]_vars, Counts(op'),
         op'.pc = "append" => op'.n <= op'.len - op'.done /\ op'.n <= Ring - Fill(buf')
  PROVE  UserInv'
BY FailureNext DEF UserInv, Counts, Failures, Fill

LEMMA GotoKeeps ==
  ASSUME StreamInv, NEW pc, Goto(pc)
  PROVE  Counts(op') /\ op'.pc = pc /\ op'.kind = op.kind /\ op'.sum = op.sum
<1>1. /\ op'.pc = pc /\ op'.kind = op.kind /\ op'.len = op.len /\ op'.done = op.done
      /\ op'.n = op.n /\ op'.sum = op.sum
  BY DEF StreamInv, IrqInv, Shapes, Goto
<1> QED
  BY <1>1, CountsNow DEF Counts

LEMMA ReturnKeeps ==
  ASSUME StreamInv, Return
  PROVE  Counts(op') /\ op'.pc = "idle"
BY CountsNow DEF Return, Idle

LEMMA UserService == StreamInv /\ (Complete \/ Stall \/ Service) => UserInv'
<1> SUFFICES ASSUME StreamInv, Complete \/ Stall \/ Service PROVE UserInv'
  OBVIOUS
<1>1. UNCHANGED op /\ [Next]_vars
  BY DEF Complete, Stall, Service, ServiceBegin, ServiceRefill, ServiceCheck, ServiceTimeout, Next
<1>2. Fill(buf') <= Fill(buf) /\ Fill(buf') \in Nat /\ Fill(buf) \in Nat
  <2>1. CASE ServiceRefill
    BY <2>1, RefillMoves, FillIs DEF StreamInv
  <2>2. CASE UNCHANGED buf
    BY <2>2, FillIs DEF StreamInv
  <2> QED
    BY <2>1, <2>2 DEF Complete, Stall, Service, ServiceBegin, ServiceCheck, ServiceTimeout
<1>3. Counts(op) /\ (op.pc = "append" => op.n <= op.len - op.done /\ op.n <= Ring - Fill(buf))
  BY CountsNow DEF StreamInv, UserInv
<1>4. op.pc = "append" => op.n <= Ring - Fill(buf')
  <2>1. op.n \in Int /\ Ring \in Int
    BY <1>3, Sizes, AudioAssumption DEF Counts
  <2> QED
    BY <1>2, <1>3, <2>1
<1> QED
  BY <1>1, <1>3, <1>4, UserFrom

LEMMA UserCalls == StreamInv /\ Calls => UserInv'
<1> SUFFICES ASSUME StreamInv, Calls PROVE UserInv'
  OBVIOUS
<1>1. [Next]_vars
  BY DEF Next
<1>2. ASSUME NEW kind, NEW pc, NEW len \in Nat, pc # "append",
             op' = [Idle EXCEPT !.pc = pc, !.kind = kind, !.len = len]
      PROVE  UserInv'
  <2>1. /\ op'.pc = pc /\ op'.len = len /\ op'.done = 0 /\ op'.n = 0 /\ op'.sum = 0
    BY <1>2 DEF Idle
  <2>2. Counts(op')
    BY <2>1, AudioAssumption DEF Counts
  <2> QED
    BY <1>1, <1>2, <2>1, <2>2, UserFrom
<1>3. CASE Open
  <2>1. /\ op'.pc = "reset" /\ op'.len = 0 /\ op'.done = 0 /\ op'.n = 0 /\ op'.sum = 0
    BY <1>3 DEF Open, Idle
  <2>2. Counts(op')
    BY <2>1, AudioAssumption DEF Counts
  <2> QED
    BY <1>1, <2>1, <2>2, UserFrom
<1>4. CASE Write
  <2>1. PICK len \in WriteSizes : Call("write", "check", len)
    BY <1>4 DEF Write
  <2>2. len \in Nat
    BY AudioAssumption
  <2> QED
    BY <1>2, <2>1, <2>2 DEF Call
<1>5. CASE Sync \/ ResetCall \/ Post \/ SetFormat
  <2>1. ASSUME NEW kind, NEW pc, NEW len \in Nat, pc # "append", Call(kind, pc, len)
        PROVE  UserInv'
    <3>1. op' = [Idle EXCEPT !.pc = pc, !.kind = kind, !.len = len]
      BY <2>1 DEF Call
    <3> QED
      BY <1>2, <2>1, <3>1
  <2>2. CASE Sync
    <3>1. Call("sync", "drain", 0)
      BY <2>2 DEF Sync
    <3> QED
      BY <2>1, <3>1
  <2>3. CASE ResetCall
    <3>1. Call("reset", "reset", 0)
      BY <2>3 DEF ResetCall
    <3> QED
      BY <2>1, <3>1
  <2>4. CASE Post
    <3>1. Call("post", "start", 0)
      BY <2>4 DEF Post
    <3> QED
      BY <2>1, <3>1
  <2>5. CASE SetFormat
    <3>1. PICK channels \in {1, 2} : Call("format", "drain", channels)
      BY <2>5 DEF SetFormat
    <3>2. channels \in Nat
      OBVIOUS
    <3> QED
      BY <2>1, <3>1, <3>2
  <2> QED
    BY <1>5, <2>2, <2>3, <2>4, <2>5
<1>6. CASE Release
  <2>1. CASE ctl.nonblock
    BY <1>2, <1>6, <2>1 DEF Release, Call
  <2>2. CASE ~ctl.nonblock
    BY <1>2, <1>6, <2>2 DEF Release, Call
  <2> QED
    BY <2>1, <2>2
<1>7. CASE NonBlock
  <2>1. UNCHANGED <<op, buf>>
    BY <1>7 DEF NonBlock
  <2>2. Counts(op) /\ (op.pc = "append" => op.n <= op.len - op.done /\ op.n <= Ring - Fill(buf))
    BY CountsNow DEF StreamInv, UserInv
  <2> QED
    BY <1>1, <2>1, <2>2, UserFrom
<1> QED
  BY <1>3, <1>4, <1>5, <1>6, <1>7 DEF Calls

LEMMA UserSteps == StreamInv /\ (Steps \/ Signal) => UserInv'
<1> SUFFICES ASSUME StreamInv, Steps \/ Signal PROVE UserInv'
  OBVIOUS
<1>1. [Next]_vars
  BY DEF Next
<1>2. CASE Return \/ \E pc : Goto(pc) /\ pc # "append"
  <2>1. Counts(op') /\ op'.pc # "append"
    BY <1>2, GotoKeeps, ReturnKeeps
  <2> QED
    BY <1>1, <2>1, UserFrom
<1>3. CASE WriteSpace
  <2>1. CASE Return \/ Goto("wait")
    BY <1>2, <2>1
  <2>2. CASE op' = [op EXCEPT !.pc = "append",
                              !.n = Lowest(Lowest(op.len - op.done, Chunk), Ring - Fill(buf))]
             /\ Ring - Fill(buf) # 0
    <3>1. PICK n : n = Lowest(Lowest(op.len - op.done, Chunk), Ring - Fill(buf))
      OBVIOUS
    <3>2. op' = [op EXCEPT !.pc = "append", !.n = n]
      BY <2>2, <3>1
    <3>3. /\ op'.len = op.len /\ op'.done = op.done /\ op'.n = n /\ op'.sum = op.sum
      BY <3>2 DEF StreamInv, IrqInv, Shapes
    <3>4. PICK room \in Nat, left \in Nat :
            room = Ring - Fill(buf) /\ left = op.len - op.done
      <4>1. Fill(buf) \in Nat /\ Fill(buf) <= Ring
        BY FillIs DEF StreamInv
      <4>2. op.len \in Nat /\ op.done \in 0 .. op.len
        BY CountsNow DEF Counts
      <4> QED
        BY <4>1, <4>2, Sizes
    <3>5. n \in 0 .. Chunk /\ n <= room /\ n <= left
      <4>1. n = Lowest(Lowest(left, Chunk), room) /\ Chunk \in Nat
        BY <3>1, <3>4, AudioAssumption
      <4> QED
        BY <4>1 DEF Lowest
    <3>6. Counts(op')
      BY <3>3, <3>5, CountsNow DEF Counts
    <3>7. op'.n <= op'.len - op'.done /\ op'.n <= Ring - Fill(buf')
      <4>1. UNCHANGED buf
        BY <1>3 DEF WriteSpace
      <4> QED
        BY <3>3, <3>4, <3>5, <4>1
    <3> QED
      BY <1>1, <3>6, <3>7, UserFrom
  <2> QED
    BY <1>3, <2>1, <2>2 DEF WriteSpace
<1>4. CASE WriteAppend
  <2>1. op' = [op EXCEPT !.pc = "start", !.done = op.done + op.n] /\ op.pc = "append"
    BY <1>4 DEF WriteAppend, At
  <2>2. /\ op'.pc = "start" /\ op'.len = op.len /\ op'.done = op.done + op.n
        /\ op'.n = op.n /\ op'.sum = op.sum
    BY <2>1 DEF StreamInv, IrqInv, Shapes
  <2>3. op.n <= op.len - op.done /\ Counts(op)
    BY <2>1, CountsNow DEF StreamInv, UserInv
  <2>4. Counts(op')
    <3>1. op.len \in Nat /\ op.done \in 0 .. op.len /\ op.n \in 0 .. Chunk /\ Chunk \in Nat
      BY <2>3, AudioAssumption DEF Counts
    <3>2. op.done + op.n \in 0 .. op.len
      BY <2>3, <3>1
    <3> QED
      BY <2>2, <2>3, <3>2 DEF Counts
  <2> QED
    BY <1>1, <2>2, <2>4, UserFrom
<1>5. CASE Drain \/ Drain0
  <2>1. PICK pc \in {"drain 0", "drain 1"}, sum \in Nat : op' = [op EXCEPT !.pc = pc, !.sum = sum]
    <3>1. Fill(buf) \in Nat /\ op.sum + buf.inflight[0] \in Nat
      <4>1. buf.inflight[0] \in Nat /\ op.sum \in Nat
        BY CountsNow DEF StreamInv, Buffered, Counts
      <4> QED
        BY <4>1, FillIs DEF StreamInv
    <3>2. CASE Drain
      BY <3>1, <3>2 DEF Drain
    <3>3. CASE Drain0
      BY <3>1, <3>3 DEF Drain0
    <3> QED
      BY <1>5, <3>2, <3>3
  <2>2. /\ op'.pc = pc /\ op'.len = op.len /\ op'.done = op.done
        /\ op'.n = op.n /\ op'.sum = sum
    BY <2>1 DEF StreamInv, IrqInv, Shapes
  <2>3. Counts(op')
    BY <2>2, CountsNow DEF Counts
  <2> QED
    BY <1>1, <2>1, <2>2, <2>3, UserFrom
<1>6. CASE Drain1
  <2>1. op.kind \in {"format", "sync", "release"}
    BY <1>6 DEF Drain1, At, StreamInv, IrqInv, DrainKinds
  <2>2. Return \/ Goto("reset") \/ Goto("drain")
    BY <1>6, <2>1 DEF Drain1
  <2> QED
    BY <1>2, <2>2
<1>7. CASE WriteCheck \/ WriteWait \/ Start \/ StartDma \/ EnableIrq \/ Reset \/ Signal
  BY <1>2, <1>7
  DEF WriteCheck, WriteWait, Start, StartDma, EnableIrq, AfterStart, Reset, Signal
<1> QED
  BY <1>3, <1>4, <1>5, <1>6, <1>7 DEF Steps

LEMMA UserNext == StreamInv /\ [Next]_vars => UserInv'
<1> SUFFICES ASSUME StreamInv, [Next]_vars PROVE UserInv'
  OBVIOUS
<1>1. CASE UNCHANGED vars
  BY <1>1 DEF vars, StreamInv, UserInv, Fill
<1> QED
  BY <1>1, UserService, UserCalls, UserSteps DEF Next

----------------------------------------------------------------------------

LEMMA DrainElsewhere ==
  ASSUME op'.pc \notin {"drain 0", "drain 1", "reset"}
  PROVE  DrainInv'
BY DEF DrainInv

LEMMA DrainKept ==
  ASSUME StreamInv, UNCHANGED <<op, buf>>
  PROVE  DrainInv'
BY DEF StreamInv, DrainInv, Fill

LEMMA DrainNext == StreamInv /\ [Next]_vars => DrainInv'
<1> SUFFICES ASSUME StreamInv, [Next]_vars PROVE DrainInv'
  OBVIOUS
<1>0. /\ Fill(buf) \in Nat /\ buf.inflight[0] \in Nat /\ buf.inflight[1] \in Nat
      /\ op.sum \in Nat
  BY FillIs, CountsNow DEF StreamInv, Buffered, Counts
<1>1. CASE UNCHANGED <<op, buf>>
  BY <1>1, DrainKept
<1>2. CASE ServiceRefill
  <2>1. /\ Fill(buf') \in Nat /\ Fill(buf') <= Fill(buf) /\ UNCHANGED op
        /\ buf'.inflight[0] \in Nat /\ buf'.inflight[1] \in Nat
        /\ \A j \in {0, 1} : buf'.inflight[j] = buf.inflight[j] \/ buf'.inflight[j] <= Fill(buf)
    BY <1>2, RefillMoves, FillIs, PlayedIs DEF ServiceRefill
  <2>2. Fill(buf) = 0 => Fill(buf') = 0
    BY <2>1
  <2>3. \A j \in {0, 1} : Fill(buf) = 0 /\ buf.inflight[j] = 0 => buf'.inflight[j] = 0
    BY <2>1
  <2>4. Fill(buf)' = Fill(buf')
    BY DEF Fill
  <2> QED
    BY <2>1, <2>2, <2>3, <2>4 DEF StreamInv, DrainInv
<1>3. ASSUME Return \/ \E pc \in {"idle", "check", "space", "wait", "start", "dma", "enable",
                                    "drain"} : Goto(pc)
      PROVE  DrainInv'
  <2>1. op'.pc \notin {"drain 0", "drain 1", "reset"}
    BY <1>3, GotoKeeps, ReturnKeeps
  <2> QED
    BY <2>1, DrainElsewhere
<1>4. ASSUME op'.pc \in {"check", "drain", "start"}
             \/ (op'.pc = "reset" /\ op'.kind \in {"open", "reset", "release"})
      PROVE  DrainInv'
  BY <1>4 DEF DrainInv
<1>5. CASE Calls
  <2>1. CASE Open
    <3>1. op'.pc = "reset" /\ op'.kind = "open"
      BY <2>1 DEF Open, Idle
    <3> QED
      BY <1>4, <3>1
  <2>2. ASSUME NEW kind, NEW pc, NEW len, Call(kind, pc, len)
        PROVE  op'.pc = pc /\ op'.kind = kind
    BY <2>2 DEF Call, Idle
  <2>3. CASE Write \/ Sync \/ ResetCall \/ Post \/ SetFormat \/ Release
    <3>1. \/ \E kind, len : \E pc \in {"check", "drain", "start"} : Call(kind, pc, len)
          \/ \E len : \E kind \in {"open", "reset", "release"} : Call(kind, "reset", len)
      <4>1. CASE Release
        <5>1. CASE ctl.nonblock
          BY <4>1, <5>1 DEF Release
        <5>2. CASE ~ctl.nonblock
          BY <4>1, <5>2 DEF Release
        <5> QED
          BY <5>1, <5>2
      <4> QED
        BY <2>3, <4>1 DEF Write, Sync, ResetCall, Post, SetFormat
    <3> QED
      BY <1>4, <2>2, <3>1
  <2>4. CASE NonBlock
    BY <1>1, <2>4 DEF NonBlock
  <2> QED
    BY <1>5, <2>1, <2>2, <2>3, <2>4 DEF Calls
<1>6. CASE Drain
  <2>1. op'.pc = "drain 0" /\ op'.sum = Fill(buf) /\ UNCHANGED buf
    BY <1>6 DEF Drain, StreamInv, IrqInv, Shapes
  <2>2. Fill(buf)' = Fill(buf)
    BY <2>1 DEF Fill
  <2> QED
    BY <2>1, <2>2 DEF DrainInv
<1>7. CASE Drain0
  <2>1. /\ op.pc = "drain 0" /\ op'.pc = "drain 1" /\ op'.sum = op.sum + buf.inflight[0]
        /\ UNCHANGED buf
    BY <1>7 DEF Drain0, At, StreamInv, IrqInv, Shapes
  <2>2. Fill(buf)' = Fill(buf)
    BY <2>1 DEF Fill
  <2>3. op'.sum = 0 => op.sum = 0 /\ buf.inflight[0] = 0
    <3>1. PICK s \in Nat, f \in Nat : s = op.sum /\ f = buf.inflight[0]
      BY <1>0
    <3>2. op'.sum = s + f
      BY <2>1, <3>1
    <3>3. s + f = 0 => s = 0 /\ f = 0
      OBVIOUS
    <3> QED
      BY <3>1, <3>2, <3>3, Zenon
  <2> QED
    BY <2>1, <2>2, <2>3 DEF StreamInv, DrainInv
<1>8. CASE Drain1
  <2>1. /\ op.kind \in {"format", "sync", "release"} /\ op.pc = "drain 1" /\ UNCHANGED buf
    BY <1>8 DEF Drain1, At, StreamInv, IrqInv, DrainKinds
  <2>2. \/ Return \/ Goto("drain")
        \/ Goto("reset") /\ (op.kind = "release" \/ ~(op.sum + buf.inflight[1] > 0))
    BY <1>8, <2>1 DEF Drain1
  <2>3. CASE Goto("reset") /\ (op.kind = "release" \/ ~(op.sum + buf.inflight[1] > 0))
    <3>1. op'.pc = "reset" /\ op'.kind = op.kind
      BY <2>3, GotoKeeps
    <3>2. CASE op.kind = "release"
      BY <3>1, <3>2 DEF DrainInv
    <3>3. CASE ~(op.sum + buf.inflight[1] > 0)
      <4>1. op.sum = 0 /\ buf.inflight[1] = 0
        BY <1>0, <3>3
      <4>2. Fill(buf) = 0 /\ buf.inflight[0] = 0
        BY <2>1, <4>1 DEF StreamInv, DrainInv
      <4>3. Fill(buf)' = Fill(buf)
        BY <2>1 DEF Fill
      <4> QED
        BY <2>1, <3>1, <4>1, <4>2, <4>3 DEF DrainInv
    <3> QED
      BY <2>3, <3>2, <3>3
  <2> QED
    BY <1>3, <2>2, <2>3
<1>9. CASE Signal
  <2>1. CASE op.kind = "release" /\ Goto("reset")
    <3>1. op'.pc = "reset" /\ op'.kind = "release"
      BY <2>1, GotoKeeps
    <3> QED
      BY <3>1 DEF DrainInv
  <2> QED
    BY <1>3, <1>9, <2>1 DEF Signal
<1>10. CASE WriteSpace \/ WriteAppend
  <2>a. \/ Return \/ Goto("wait")
        \/ \E n : op' = [op EXCEPT !.pc = "append", !.n = n]
        \/ \E d : op' = [op EXCEPT !.pc = "start", !.done = d]
    BY <1>10 DEF WriteSpace, WriteAppend
  <2>1. CASE \E n : op' = [op EXCEPT !.pc = "append", !.n = n]
    <3>1. op'.pc = "append"
      BY <2>1 DEF StreamInv, IrqInv, Shapes
    <3> QED
      BY <3>1, DrainElsewhere
  <2>2. CASE \E d : op' = [op EXCEPT !.pc = "start", !.done = d]
    <3>1. op'.pc = "start"
      BY <2>2 DEF StreamInv, IrqInv, Shapes
    <3> QED
      BY <3>1, DrainElsewhere
  <2> QED
    BY <1>3, <2>a, <2>1, <2>2
<1>11. CASE WriteCheck \/ WriteWait \/ Start \/ StartDma \/ EnableIrq \/ Reset
  <2>1. Return \/ Goto("space") \/ Goto("check") \/ Goto("dma") \/ Goto("enable")
    BY <1>11 DEF WriteCheck, WriteWait, Start, StartDma, EnableIrq, AfterStart, Reset
  <2> QED
    BY <1>3, <2>1
<1>12. CASE UNCHANGED vars \/ Complete \/ Stall \/ ServiceBegin \/ ServiceCheck \/ ServiceTimeout
  BY <1>1, <1>12 DEF vars, Complete, Stall, ServiceBegin, ServiceCheck, ServiceTimeout
<1> QED
  BY <1>2, <1>5, <1>6, <1>7, <1>8, <1>9, <1>10, <1>11, <1>12 DEF Next, Service, Steps

----------------------------------------------------------------------------
\* The results.

LEMMA StreamNext == StreamInv /\ [Next]_vars => StreamInv'
<1> SUFFICES ASSUME StreamInv, [Next]_vars PROVE StreamInv'
  OBVIOUS
<1>1. IrqInv' /\ FrameInv'
  BY IrqNext, FrameNext DEF StreamInv, IrqInv
<1>2. Buffered(buf)'
  BY BufferedNext DEF Buffered, Fill
<1> QED
  BY <1>1, <1>2, QueueNext, UserNext, DrainNext DEF StreamInv

\* Counters, rings and queues hold what they can hold, for every ring and
\* buffer size: no counter runs past another (audio.c 19-52, 58-72, 200-265).
THEOREM TypesOfAudio == Spec => []TypeOK
<1>1. StreamInv => TypeOK
  <2> SUFFICES ASSUME StreamInv PROVE TypeOK
    OBVIOUS
  <2>1. /\ buf.head \in Samples /\ buf.tail \in Samples /\ Fill(buf) <= Ring
        /\ buf.ring \in [0 .. Ring - 1 -> Samples \cup {Stale}] /\ buf.next \in {0, 1}
        /\ \A i \in {0, 1} : Len(buf.dma[i]) <= Dma /\ buf.inflight[i] \in {0, Len(buf.dma[i])}
    BY DEF StreamInv, Buffered, Sound
  <2>2. hw.queue \in {<<>>, <<0>>, <<1>>, <<0, 1>>, <<1, 0>>}
    <3>1. PICK i \in {0, 1} : i = buf.next
      BY <2>1
    <3>2. hw.queue \in {<<>>, <<1 - i>>, <<i, 1 - i>>}
      BY <3>1 DEF StreamInv, QueueInv
    <3>3. CASE i = 0
      BY <3>2, <3>3
    <3>4. CASE i = 1
      BY <3>2, <3>4
    <3> QED
      BY <3>3, <3>4
  <2>3. hw.bits \subseteq {0, 1} /\ svc.pc \in {"out", "ack", "check"} /\ svc.count \in 0 .. 2
    BY DEF StreamInv, QueueInv
  <2>4. ctl.failure \in {"none", "EIO", "ETIMEDOUT", "codec"} /\ op.n \in 0 .. Chunk
    BY DEF StreamInv, UserInv
  <2>5. ctl.channels \in {1, 2}
    BY DEF StreamInv, FrameInv
  <2>6. irq.depth \in 0 .. 2
    BY DEF StreamInv, IrqInv, IrqBalanced
  <2> QED
    BY <2>1, <2>2, <2>3, <2>4, <2>5, <2>6 DEF TypeOK
<1> QED
  BY <1>1, StreamInit, StreamNext, PTL DEF Spec

\* SYNC and a format change reset the engine only when nothing is left to be
\* heard, although they look at ring and buffers one after the other and
\* without the lock (audio.c 54-57).
THEOREM DrainsAreComplete == Spec => []DrainedIsHeard
<1>1. StreamInv => DrainedIsHeard
  BY NothingUnheard DEF StreamInv, DrainInv, DrainedIsHeard
<1> QED
  BY <1>1, StreamInit, StreamNext, PTL DEF Spec

----------------------------------------------------------------------------

LEMMA UnheardKept ==
  ASSUME UNCHANGED buf, hw'.queue = hw.queue
  PROVE  Unheard' = Unheard
BY UnheardIs, UnheardIsNext

\* Queue and failure of the stream: the step plays, fails or does neither.
LEMMA PlayStep == StreamInv /\ Complete => Stream!Play
<1> SUFFICES ASSUME StreamInv, Complete PROVE Stream!Play
  OBVIOUS
<1>1. heard' \in Seq(Sound) /\ Unheard' \in Seq(Sound) /\ Unheard = heard' \o Unheard'
  BY CompleteMoves
<1>2. PICK n : n = Len(heard')
  OBVIOUS
<1>3. /\ n \in 0 .. Len(Unheard)
      /\ heard' = SubSeq(Unheard, 1, n)
      /\ Unheard' = SubSeq(Unheard, n + 1, Len(Unheard))
  BY <1>1, <1>2, Parts
<1>4. ctl' = ctl
  BY DEF Complete
<1> QED
  BY <1>3, <1>4 DEF Stream!Play, Stream!Leave

\* A failure that stops the engine is one of the stream.
LEMMA FailStep ==
  ASSUME StreamInv, hw' = Stopped, UNCHANGED <<buf, heard>>,
         ctl'.failure \in {"EIO", "ETIMEDOUT", "codec"}
  PROVE  Stream!Fail
<1>1. PICK s \in Seq(Sound) : /\ Unheard = s \o Unheard' /\ Unheard' \in Seq(Sound)
                              /\ Len(s) \in Nat /\ Len(s) <= 2 * Dma
  BY StopMoves
<1>2. PICK n : n = Len(s)
  OBVIOUS
<1>3. n \in 0 .. Len(Unheard) /\ Unheard' = SubSeq(Unheard, n + 1, Len(Unheard))
  BY <1>1, <1>2, Parts
<1>4. n <= 2 * Dma /\ heard' = heard
  BY <1>1, <1>2
<1>5. (ctl'.failure # "none") = TRUE
  OBVIOUS
<1> QED
  BY <1>3, <1>4, <1>5 DEF Stream!Fail, Stream!Leave

\* An append is accepted by the stream.
LEMMA AcceptStep == StreamInv /\ WriteAppend => Stream!Accept
<1> SUFFICES ASSUME StreamInv, WriteAppend PROVE Stream!Accept
  OBVIOUS
<1>1. PICK s \in Seq(Sound), t \in Seq(Sound), m \in Nat, n \in Nat :
        /\ s = Unheard /\ t = Unheard' /\ m = Len(s) /\ n = Len(t)
        /\ m <= n /\ n <= Ring + (2 * Dma)
        /\ \A j \in 1 .. m : t[j] = s[j]
  BY AppendMoves, LenProperties
<1>2. SubSeq(t, 1, m) = s
  <2>1. PICK d \in Nat : Len(t) = m + d
    <3>1. n - m \in Nat /\ n = m + (n - m)
      BY <1>1
    <3> QED
      BY <1>1, <3>1
  <2>2. /\ SubSeq(t, 1, m) \in Seq(Sound) /\ Len(SubSeq(t, 1, m)) = m
        /\ \A j \in 1 .. m : SubSeq(t, 1, m)[j] = t[j]
    BY <2>1, Cut
  <2>3. \A j \in 1 .. m : SubSeq(t, 1, m)[j] = s[j]
    BY <1>1, <2>2
  <2> QED
    BY <1>1, <2>2, <2>3, SeqEqual
<1>3. n \in m .. Ring + (2 * Dma)
  BY <1>1, Sizes
<1>4. ctl' = ctl /\ heard' = heard
  BY DEF WriteAppend
<1>5. Len(Unheard') \in Len(Unheard) .. Ring + (2 * Dma)
  BY <1>1, <1>3, Zenon
<1>6. SubSeq(Unheard', 1, Len(Unheard)) = Unheard
  BY <1>1, <1>2, Zenon
<1> QED
  BY <1>4, <1>5, <1>6 DEF Stream!Accept

LEMMA ResetStep == StreamInv /\ Reset => Stream!Reset
<1> SUFFICES ASSUME StreamInv, Reset PROVE Stream!Reset
  OBVIOUS
<1>1. Unheard' = <<>>
  BY ResetMoves
<1>2. ctl'.failure = "none"
  <2>1. PICK o, c, n : ctl' = [ctl EXCEPT !.running = FALSE, !.failure = "none", !.opened = o,
                                          !.channels = c, !.nonblock = n]
    BY DEF Reset
  <2> QED
    BY <2>1 DEF StreamInv, IrqInv, Shapes
<1>3. heard' = heard
  BY DEF Reset
<1> QED
  BY <1>1, <1>2, <1>3 DEF Stream!Reset

\* A step the stream does not see.
Stutters == UNCHANGED <<Unheard, heard, ctl.failure # "none">>

LEMMA StutterFrom ==
  ASSUME Unheard' = Unheard, heard' = heard, ctl'.failure = ctl.failure
  PROVE  Stutters
BY DEF Stutters

LEMMA StreamStep == StreamInv /\ [Next]_vars => Stream!Next \/ Stutters
<1> SUFFICES ASSUME StreamInv, [Next]_vars PROVE Stream!Next \/ Stutters
  OBVIOUS
<1>0. /\ DOMAIN ctl = {"running", "failure", "opened", "channels", "nonblock"}
      /\ DOMAIN hw = {"on", "queue", "bits", "stalled"}
  BY DEF StreamInv, IrqInv, Shapes, QueueInv
<1>1. CASE UNCHANGED <<buf, heard>> /\ hw'.queue = hw.queue /\ ctl'.failure = ctl.failure
  BY <1>1, UnheardKept, StutterFrom
<1>2. CASE Complete
  BY <1>2, PlayStep DEF Stream!Next
<1>3. CASE Stall
  BY <1>0, <1>1, <1>3 DEF Stall
<1>4. CASE ServiceRefill
  BY <1>4, RefillMoves, StutterFrom DEF ServiceRefill
<1>5. CASE ServiceCheck \/ ServiceTimeout
  <2>1. CASE UNCHANGED <<hw, ctl, buf, heard>>
    BY <1>1, <2>1
  <2>2. CASE /\ hw' = Stopped /\ UNCHANGED <<buf, heard>>
             /\ \E why \in {"EIO", "ETIMEDOUT"} :
                  ctl' = [ctl EXCEPT !.running = FALSE, !.failure = why]
    BY <1>0, <2>2, FailStep DEF Stream!Next
  <2> QED
    BY <1>5, <2>1, <2>2 DEF ServiceCheck, ServiceTimeout, StopLocked
<1>6. CASE Start
  <2>1. CASE UNCHANGED <<hw, ctl, buf, heard>>
    BY <1>1, <2>1
  <2>2. CASE hw' = [hw EXCEPT !.bits = {}] /\ UNCHANGED <<ctl, buf, heard>>
    BY <1>0, <1>1, <2>2
  <2>3. CASE hw' = Stopped /\ ctl' = [ctl EXCEPT !.failure = "codec"] /\ UNCHANGED <<buf, heard>>
    BY <1>0, <2>3, FailStep DEF Stream!Next
  <2> QED
    BY <1>6, <2>1, <2>2, <2>3 DEF Start
<1>7. CASE StartDma
  <2>1. ctl' = [ctl EXCEPT !.running = TRUE] /\ heard' = heard
    BY <1>7 DEF StartDma
  <2> QED
    BY <1>0, <1>7, <2>1, StartMoves, StutterFrom
<1>8. CASE WriteAppend
  BY <1>8, AcceptStep DEF Stream!Next
<1>9. CASE Reset
  BY <1>9, ResetStep DEF Stream!Next
<1>10. CASE NonBlock
  BY <1>0, <1>1, <1>10 DEF NonBlock
<1>11. CASE \/ UNCHANGED vars \/ ServiceBegin \/ WriteCheck \/ WriteSpace \/ WriteWait
            \/ EnableIrq \/ Drain \/ Drain0 \/ Drain1 \/ Signal
  BY <1>1, <1>11
  DEF vars, ServiceBegin, WriteCheck, WriteSpace, WriteWait, EnableIrq,
      Drain, Drain0, Drain1, Signal
<1>12. CASE Calls
  BY <1>1, <1>10, <1>12
  DEF Calls, Open, Call, Write, Sync, ResetCall, Post, SetFormat, Release
<1> QED
  BY <1>2, <1>3, <1>4, <1>5, <1>6, <1>7, <1>8, <1>9, <1>11, <1>12 DEF Next, Service, Steps

LEMMA StreamStart == Init => Stream!Init
<1> SUFFICES ASSUME Init PROVE Stream!Init
  OBVIOUS
<1>1. Unheard = <<>>
  <2>1. buf.inflight[0] = 0 /\ buf.inflight[1] = 0
    BY DEF Init, Empty
  <2>2. Fill(buf) = 0
    <3>1. buf = Turned(Empty, 0)
      <4>1. \A ring, dma, inflight :
              LET e == [head |-> 0, tail |-> 0, ring |-> ring, dma |-> dma,
                        inflight |-> inflight, next |-> 0]
              IN  [e EXCEPT !.next = 0] = e
        OBVIOUS
      <4> QED
        BY <4>1, Zenon DEF Init, Turned, Empty
    <3> QED
      BY <3>1, EmptyIs DEF TurnedTo
  <2> QED
    BY <2>1, <2>2, StreamInit, NothingUnheard
<1> QED
  BY <1>1 DEF Init, Stream!Init

\* The driver keeps the promise of the stream: through the ring, two buffers
\* and any order of interrupts, timer and calls, samples are heard in the
\* order they were written, each once, and a failure loses at most what two
\* buffers hold (audio.c 58-120, 144-186).
THEOREM OrderKept == Spec => KeepsOrder
<1>1. StreamInv /\ [Next]_vars => [Stream!Next]_<<Unheard, heard, ctl.failure # "none">>
  BY StreamStep DEF Stutters
<1> QED
  BY <1>1, StreamStart, StreamInit, StreamNext, PTL DEF Spec, KeepsOrder, Stream!Spec

=============================================================================
