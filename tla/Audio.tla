-------------------------------- MODULE Audio --------------------------------
(***************************************************************************)
(* The OSS playback driver (audio.c): writers fill a ring, the interrupt   *)
(* or the 10 ms timer moves it through two DMA buffers, ioctls drain,      *)
(* reset and change the format.  The processor is one; code under the spin *)
(* lock is interrupted by the hardware only, all other code by the         *)
(* interrupt too.  The semaphore lets one system call in at a time.        *)
(***************************************************************************)
EXTENDS Integers, Sequences, FiniteSets

CONSTANTS
  Ring,        \* RING_SIZE, in samples
  Dma,         \* DMA_SIZE, in samples
  Chunk,       \* samples copied from the user at a time
  Width,       \* head and tail count modulo Width (2^32)
  WriteSizes   \* lengths of writes, in samples

ASSUME AudioAssumption ==
  /\ Ring \in Nat \ {0} /\ Dma \in Nat \ {0} /\ Chunk \in Nat \ {0}
  /\ Ring % 2 = 0 /\ Dma % 2 = 0 /\ Chunk % 2 = 0
  /\ Width \in Nat \ {0} /\ Width % Ring = 0 /\ Width > Ring
  /\ WriteSizes \subseteq Nat

VARIABLES
  buf,     \* [head, tail, ring, dma, inflight, next]
  hw,      \* DMA engine: [on, queue (current and next), bits, stalled]
  ctl,     \* [running, failure, opened, channels, nonblock]
  irq,     \* [off, depth]: irq_off and the kernel's disable depth
  op,      \* the system call in progress: [pc, kind, len, done, n, sum]
  svc,     \* service(): [pc, count]
  heard    \* samples of the last buffer the engine finished

vars == <<buf, hw, ctl, irq, op, svc, heard>>

Stale == -1

Lowest(a, b) == IF a < b THEN a ELSE b

Fill(b) == (b.head - b.tail) % Width

\* A ring and buffers that hold only what nobody reads any more.
Empty == [head |-> 0, tail |-> 0, ring |-> [i \in 0 .. Ring - 1 |-> Stale],
          dma |-> [i \in {0, 1} |-> <<>>], inflight |-> [i \in {0, 1} |-> 0], next |-> 0]

\* The samples between tail and head.
Waiting(b, n) == [i \in 1 .. n |-> b.ring[(b.tail + i - 1) % Ring]]

\* Bug: tail stays behind the last sample that was taken.
RefillOneLess(b, i) ==
  LET n == Lowest(Fill(b), Dma) IN
  [b EXCEPT !.tail = (@ + n - (IF n = Dma THEN 1 ELSE 0)) % Width, !.dma[i] = Waiting(b, n),
            !.inflight[i] = n]

Refill(b, i) ==
  LET n == Lowest(Fill(b), Dma) IN
  [b EXCEPT !.tail = (@ + n) % Width, !.dma[i] = Waiting(b, n), !.inflight[i] = n]

----------------------------------------------------------------------------
\* The hardware.

\* The current buffer is done; which of the bits says so cannot be known.
Complete ==
  /\ hw.on /\ hw.queue # <<>> /\ ~hw.stalled
  /\ \E bit \in {0, 1} :
       hw' = [hw EXCEPT !.queue = Tail(@), !.bits = @ \cup {bit}]
  /\ heard' = SubSeq(buf.dma[Head(hw.queue)], 1, buf.inflight[Head(hw.queue)])
  /\ UNCHANGED <<buf, ctl, irq, op, svc>>

Stall ==
  /\ hw.on /\ ~hw.stalled
  /\ hw' = [hw EXCEPT !.stalled = TRUE]
  /\ UNCHANGED <<buf, ctl, irq, op, svc, heard>>

Stopped == [on |-> FALSE, queue |-> <<>>, bits |-> {}, stalled |-> FALSE]

----------------------------------------------------------------------------
\* service(), from the interrupt or the timer.

\* Bug: the flag is not looked at.
StopAlways ==
  /\ hw' = Stopped
  /\ irq' = [off |-> TRUE, depth |-> irq.depth + 1]

\* stop_locked: the irq is disabled once.
StopLocked ==
  /\ hw' = Stopped
  /\ irq' = IF irq.off THEN irq ELSE [off |-> TRUE, depth |-> irq.depth + 1]

ServiceBegin ==
  /\ svc.pc = "out" /\ ctl.running /\ hw.bits # {}
  /\ svc' = [pc |-> "ack", count |-> Cardinality(hw.bits)]
  /\ UNCHANGED <<buf, hw, ctl, irq, op, heard>>

ServiceRefill ==
  /\ svc.pc = "ack"
  /\ LET i == buf.next
         once == Refill(buf, i)
     IN IF svc.count = 1
        THEN /\ buf' = [once EXCEPT !.next = 1 - i]
             /\ hw' = [hw EXCEPT !.bits = {}, !.queue = Append(@, i)]
        ELSE /\ buf' = Refill(once, 1 - i)
             /\ hw' = [hw EXCEPT !.bits = {}, !.queue = @ \o <<i, 1 - i>>]
  /\ svc' = [svc EXCEPT !.pc = "check"]
  /\ UNCHANGED <<ctl, irq, op, heard>>

ServiceCheck ==
  /\ svc.pc = "check"
  /\ IF hw.bits = {} THEN UNCHANGED <<hw, ctl, irq>>
     ELSE StopLocked /\ ctl' = [ctl EXCEPT !.running = FALSE, !.failure = "EIO"]
  /\ svc' = [pc |-> "out", count |-> 0]
  /\ UNCHANGED <<buf, op, heard>>

\* No completion for two seconds.
ServiceTimeout ==
  /\ svc.pc = "out" /\ ctl.running /\ hw.bits = {}
  /\ hw.stalled
  /\ StopLocked
  /\ ctl' = [ctl EXCEPT !.running = FALSE, !.failure = "ETIMEDOUT"]
  /\ UNCHANGED <<buf, op, svc, heard>>

----------------------------------------------------------------------------
\* System calls.

User == svc.pc = "out"
At(pc) == User /\ op.pc = pc

Idle == [pc |-> "idle", kind |-> "none", len |-> 0, done |-> 0, n |-> 0, sum |-> 0]

Return == op' = Idle
Goto(pc) == op' = [op EXCEPT !.pc = pc]

\* open: a second stream is refused.
Open ==
  /\ At("idle") /\ ~ctl.opened
  /\ op' = [Idle EXCEPT !.pc = "reset", !.kind = "open"]
  /\ UNCHANGED <<buf, hw, ctl, irq, svc, heard>>

Call(kind, pc, len) ==
  /\ At("idle") /\ ctl.opened
  /\ op' = [Idle EXCEPT !.pc = pc, !.kind = kind, !.len = len]
  /\ UNCHANGED <<buf, hw, ctl, irq, svc, heard>>

Write == \E len \in WriteSizes : len % ctl.channels = 0 /\ Call("write", "check", len)

Sync == Call("sync", "drain", 0)
ResetCall == Call("reset", "reset", 0)
Post == Call("post", "start", 0)
SetFormat == \E channels \in {1, 2} : Call("format", "drain", channels)
Release == Call("release", IF ctl.nonblock THEN "reset" ELSE "drain", 0)

NonBlock ==
  /\ At("idle") /\ ctl.opened /\ ~ctl.nonblock
  /\ ctl' = [ctl EXCEPT !.nonblock = TRUE]
  /\ UNCHANGED <<buf, hw, irq, op, svc, heard>>

----------------------------------------------------------------------------
\* dsp_write

WriteCheck ==
  /\ At("check")
  /\ IF op.done = op.len \/ ctl.failure # "none" THEN Return ELSE Goto("space")
  /\ UNCHANGED <<buf, hw, ctl, irq, svc, heard>>

\* Bug: the room left is not looked at.
WriteNoSpace ==
  /\ At("space")
  /\ op' = [op EXCEPT !.pc = "append", !.n = Lowest(op.len - op.done, Chunk)]
  /\ UNCHANGED <<buf, hw, ctl, irq, svc, heard>>

WriteSpace ==
  /\ At("space")
  /\ LET space == Ring - Fill(buf) IN
     IF space = 0 THEN IF ctl.nonblock THEN Return ELSE Goto("wait")
     ELSE \/ op' = [op EXCEPT !.pc = "append",
                              !.n = Lowest(Lowest(op.len - op.done, Chunk), space)]
          \/ Return   \* the copy from the user faults
  /\ UNCHANGED <<buf, hw, ctl, irq, svc, heard>>

\* Bug: a writer sleeps on when the device has failed.
WaitForRoom ==
  /\ At("wait") /\ Fill(buf) < Ring
  /\ Goto("check")
  /\ UNCHANGED <<buf, hw, ctl, irq, svc, heard>>

\* Woken when there is room or a failure.
WriteWait ==
  /\ At("wait")
  /\ Fill(buf) < Ring \/ ctl.failure # "none"
  /\ Goto("check")
  /\ UNCHANGED <<buf, hw, ctl, irq, svc, heard>>

WriteAppend ==
  /\ At("append")
  /\ buf' = [buf EXCEPT
               !.head = (@ + op.n) % Width,
               !.ring = [j \in 0 .. Ring - 1 |->
                           LET i == (j - buf.head) % Ring IN
                           IF i < op.n THEN (buf.head + i) % Width ELSE @[j]]]
  /\ op' = [op EXCEPT !.pc = "start", !.done = @ + op.n]
  /\ UNCHANGED <<hw, ctl, irq, svc, heard>>

----------------------------------------------------------------------------
\* start(): nothing to do, or the codec is prepared first.

AfterStart == IF op.kind = "write" THEN Goto("check") ELSE Return

Start ==
  /\ At("start")
  /\ IF ctl.running THEN AfterStart /\ UNCHANGED <<ctl, hw>>
     ELSE \/ Goto("dma") /\ hw' = [hw EXCEPT !.bits = {}] /\ UNCHANGED ctl
          \/ Return /\ ctl' = [ctl EXCEPT !.failure = "codec"] /\ hw' = Stopped
  /\ UNCHANGED <<buf, irq, svc, heard>>

StartDma ==
  /\ At("dma")
  /\ buf' = [Refill(Refill(buf, 0), 1) EXCEPT !.next = 0]
  /\ hw' = [on |-> TRUE, queue |-> <<0, 1>>, bits |-> {}, stalled |-> FALSE]
  /\ ctl' = [ctl EXCEPT !.running = TRUE]
  /\ irq' = [irq EXCEPT !.off = FALSE]
  /\ Goto("enable")
  /\ UNCHANGED <<svc, heard>>

EnableIrq ==
  /\ At("enable")
  /\ irq' = [irq EXCEPT !.depth = @ - 1]
  /\ AfterStart
  /\ UNCHANGED <<buf, hw, ctl, svc, heard>>

----------------------------------------------------------------------------
\* drain() and the pending_bytes() of a format change: three loads with no
\* lock held, in the order of the source.

\* Bug: the buffers are looked at before the ring.
DrainBuffersFirst ==
  /\ At("drain")
  /\ op' = [op EXCEPT !.pc = "drain 0", !.sum = buf.inflight[0] + buf.inflight[1]]
  /\ UNCHANGED <<buf, hw, ctl, irq, svc, heard>>

Drain ==
  /\ At("drain")
  /\ op' = [op EXCEPT !.pc = "drain 0", !.sum = Fill(buf)]
  /\ UNCHANGED <<buf, hw, ctl, irq, svc, heard>>

Drain0 ==
  /\ At("drain 0")
  /\ op' = [op EXCEPT !.pc = "drain 1", !.sum = @ + buf.inflight[0]]
  /\ UNCHANGED <<buf, hw, ctl, irq, svc, heard>>

Drain1 ==
  /\ At("drain 1")
  /\ LET pending == op.sum + buf.inflight[1] > 0 IN
     CASE op.kind = "format" -> IF pending THEN Return ELSE Goto("reset")
       [] op.kind = "sync" ->
            IF ctl.failure # "none" THEN Return
            ELSE IF pending THEN Goto("drain") ELSE Goto("reset")
       [] op.kind = "release" ->
            IF pending /\ ctl.failure = "none" THEN Goto("drain") ELSE Goto("reset")
  /\ UNCHANGED <<buf, hw, ctl, irq, svc, heard>>

\* A signal ends the sleep of a writer or of drain().
Signal ==
  /\ \/ At("wait") /\ Return
     \/ At("drain") /\ op.kind = "sync" /\ Return
     \/ At("drain") /\ op.kind = "release" /\ Goto("reset")
  /\ UNCHANGED <<buf, hw, ctl, irq, svc, heard>>

\* reset(), and what the call sets after it.
Reset ==
  /\ At("reset")
  /\ StopLocked
  /\ buf' = [Empty EXCEPT !.next = buf.next]
  /\ ctl' = [ctl EXCEPT !.running = FALSE, !.failure = "none",
                        !.opened = IF op.kind = "open" THEN TRUE
                                   ELSE IF op.kind = "release" THEN FALSE ELSE @,
                        !.channels = IF op.kind = "open" THEN 2
                                     ELSE IF op.kind = "format" THEN op.len ELSE @,
                        !.nonblock = IF op.kind = "release" THEN FALSE ELSE @]
  /\ Return
  /\ UNCHANGED <<svc, heard>>

----------------------------------------------------------------------------

Init ==
  /\ buf = Empty
  /\ hw = Stopped
  /\ ctl = [running |-> FALSE, failure |-> "none", opened |-> FALSE, channels |-> 2,
            nonblock |-> FALSE]
  /\ irq = [off |-> TRUE, depth |-> 1]
  /\ op = Idle
  /\ svc = [pc |-> "out", count |-> 0]
  /\ heard = <<>>

Service == ServiceBegin \/ ServiceRefill \/ ServiceCheck \/ ServiceTimeout

Calls == Open \/ Write \/ Sync \/ ResetCall \/ Post \/ SetFormat \/ Release \/ NonBlock

Steps == \/ WriteCheck \/ WriteSpace \/ WriteWait \/ WriteAppend
         \/ Start \/ StartDma \/ EnableIrq
         \/ Drain \/ Drain0 \/ Drain1 \/ Reset

Next == Complete \/ Stall \/ Service \/ Calls \/ Steps \/ Signal

\* The timer runs service() again and again, the engine finishes its buffer
\* unless it stalls, and a call that can go on does so between interrupts,
\* which are a buffer's 23 ms or the timer's 10 ms apart.
Fairness == WF_vars(Service) /\ WF_vars(Complete) /\ SF_vars(Steps)

Spec == Init /\ [][Next]_vars /\ Fairness

----------------------------------------------------------------------------

Samples == 0 .. Width - 1

TypeOK ==
  /\ buf.head \in Samples /\ buf.tail \in Samples /\ Fill(buf) <= Ring
  /\ buf.ring \in [0 .. Ring - 1 -> Samples \cup {Stale}]
  /\ \A i \in {0, 1} : Len(buf.dma[i]) <= Dma /\ buf.inflight[i] \in {0, Len(buf.dma[i])}
  /\ buf.next \in {0, 1}
  /\ hw.queue \in {<<>>, <<0>>, <<1>>, <<0, 1>>, <<1, 0>>} /\ hw.bits \subseteq {0, 1}
  /\ ctl.failure \in {"none", "EIO", "ETIMEDOUT", "codec"} /\ ctl.channels \in {1, 2}
  /\ irq.depth \in 0 .. 2 /\ svc.pc \in {"out", "ack", "check"} /\ svc.count \in 0 .. 2
  /\ op.n \in 0 .. Chunk

\* Samples accepted and not yet heard: the buffers queued, then the ring.
Unheard ==
  LET inBuffer(i) == SubSeq(buf.dma[i], 1, buf.inflight[i])
      queued == IF hw.queue = <<>> THEN <<>>
                ELSE IF Len(hw.queue) = 1 THEN inBuffer(hw.queue[1])
                ELSE inBuffer(hw.queue[1]) \o inBuffer(hw.queue[2])
  IN  queued \o Waiting(buf, Fill(buf))

\* The driver keeps the promise of the stream (audio.c 58-120, 144-186).
Stream == INSTANCE AudioStream
  WITH Capacity <- Ring + (2 * Dma), Loss <- 2 * Dma,
       queue <- Unheard, failed <- ctl.failure # "none"

KeepsOrder == Stream!Spec

\* SYNC and a format change drop no sample that was not heard, although
\* they look without the lock at what the interrupt moves (audio.c 54-57).
DrainedIsHeard ==
  op.pc = "reset" /\ op.kind \in {"sync", "format"} => Unheard = <<>>

\* Every disable of the interrupt is matched by one enable, whichever of a
\* starting call and a failing service() comes first (audio.c 83-86, 167-169).
IrqBalanced ==
  irq.depth = (IF irq.off THEN 1 ELSE 0) + (IF op.pc = "enable" THEN 1 ELSE 0)

\* Left and right never change sides: ring and buffers hold whole frames.
WholeFrames ==
  /\ Fill(buf) % ctl.channels = 0
  /\ \A i \in {0, 1} : buf.inflight[i] % ctl.channels = 0

\* A blocking write, SYNC or close returns, whatever the engine does.
CallsReturn == op.pc # "idle" ~> op.pc = "idle"

=============================================================================
