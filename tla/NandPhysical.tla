---------------------------- MODULE NandPhysical ----------------------------
(***************************************************************************)
(* What the board's policy layer promises the MTD core about the pages of  *)
(* the physical NAND: nand_physical.h under Linux 4.2 and                  *)
(* nand_legacy_physical.c under 2.4/2.6, either of which may run at the    *)
(* next boot, over power failures, pages that lose bits, mutations that    *)
(* fail half done and an engine that times out.                            *)
(*                                                                         *)
(* A page's data and parity bytes are one value: erased (FF), a value with *)
(* matching parity (the all-ones page, told apart by its parity, may be    *)
(* one of them) or "torn", which ECC cannot correct.  A weak page differs  *)
(* in one or two bytes, which ECC corrects.  Of the first eight spare      *)
(* bytes the JFFS2 cleanmarker and the bad-block marker are kept.  The MTD *)
(* core holds its lock from the start to the end of an operation.          *)
(***************************************************************************)
EXTENDS Integers, FiniteSets

CONSTANTS
  Blocks,       \* blocks of the chip, 0 .. (1024)
  BlockPages,   \* pages of a block (32)
  FsFirst,      \* first block of the filesystem arena (320)
  FsEnd,        \* first block after it (1004)
  Manifest,     \* blocks the installed manifest quarantines
  Values,       \* contents of a programmed page
  Markers,      \* spare bytes written alone: of "clean" (JFFS2) and "bad"
  Kernels,      \* which of "linux42", "legacy" may be booted
  StatusLies    \* the chip may report a mutation good that was not

ASSUME PhysicalAssumption ==
  /\ Blocks \in Nat \ {0} /\ BlockPages \in Nat \ {0, 1}
  /\ FsFirst \in Nat \ {0} /\ FsEnd \in Nat /\ FsEnd <= Blocks
  /\ Manifest \subseteq 1 .. Blocks - 1
  /\ "FF" \notin Values /\ "torn" \notin Values
  /\ Markers \subseteq {"clean", "bad"}
  /\ Kernels \subseteq {"linux42", "legacy"}
  /\ StatusLies \in BOOLEAN
  /\ StatusLies => Kernels = {"linux42"}

VARIABLES
  flash,     \* page -> [data, weak, marks]
  sys,       \* the booted kernel ("off" if none), be300_nand_io_failed, chip->bbt
  op,        \* the operation under way, or the result of the last one
  promise,   \* page -> the contents a read may report (history)
  dirty      \* pages a mutation has left something in since they were
             \* last emptied (history)

vars == <<flash, sys, op, promise, dirty>>

PageNo      == 0 .. Blocks * BlockPages - 1
BlockNo     == 0 .. Blocks - 1
BlockOf(p)  == p \div BlockPages
PagesOf(b)  == {p \in PageNo : BlockOf(p) = b}
Arena       == FsFirst .. FsEnd - 1
Contents    == Values \cup {"FF"}

\* Bug: the parity is not looked at, so a cut-off program goes unnoticed.
RawErasedData(p) == flash[p].data \in {"FF", "torn"} /\ ~flash[p].weak

\* What a raw read of 528 bytes would find all FF in data and parity.
RawErased(p) == flash[p].data = "FF" /\ ~flash[p].weak

Done(kind, p, v, result) ==
  [pc |-> "done", kind |-> kind, page |-> p, value |-> v, result |-> result]

At(pc) == sys.kernel # "off" /\ op.pc = pc

\* Bug: the flag holds the last wait's outcome only.
MayFailForgets == \E late \in BOOLEAN : sys' = [sys EXCEPT !.failed = late]

\* A wait of the engine may time out on the way.
MayFail == \E late \in BOOLEAN : sys' = [sys EXCEPT !.failed = @ \/ late]

\* The caller of a mutation is told no more than its result.
Report(kind, result) == op' = Done(kind, 0, "FF", result)

Finish(result) == Report(op.kind, result)

Goto(pc) == op' = [op EXCEPT !.pc = pc]

Begin(pc, kind, p, v) == op' = [Done(kind, p, v, "none") EXCEPT !.pc = pc]

----------------------------------------------------------------------------

\* physical_read_page / physical_correct: a page with a byte programmed is
\* only as good as its parity.
Unreadable(p) == flash[p].data = "torn" \/ (flash[p].weak /\ flash[p].data = "FF")

Read(p) ==
  /\ At("done")
  /\ MayFail
  /\ op' = Done("read", p,
                IF sys'.failed \/ Unreadable(p) THEN "FF" ELSE flash[p].data,
                IF sys'.failed THEN "EIO" ELSE IF Unreadable(p) THEN "EBADMSG" ELSE "ok")
  /\ UNCHANGED <<flash, dirty, promise>>

\* Bug: the manifest's bit is not looked at.
ReadOnlyArena(b) == b \notin Arena

\* The guard of physical_program and physical_erase.
ReadOnly(b) == b \notin Arena \/ b \in Manifest

\* physical_program up to SEQIN.  The legacy driver has no such checks: only
\* its callers may know that a block is quarantined or a page written.
Program(p, v) ==
  /\ At("done")
  /\ \/ /\ sys.kernel = "linux42"
        /\ ReadOnly(BlockOf(p))
        /\ Report("program", "EROFS")
        /\ UNCHANGED sys
     \/ /\ sys.kernel = "linux42"
        /\ ~ReadOnly(BlockOf(p))
        /\ MayFail
        /\ IF sys'.failed \/ ~RawErased(p) THEN Report("program", "EIO")
           ELSE Begin("program", "program", p, v)
     \/ /\ sys.kernel = "legacy"
        /\ Begin("program", "program", p, v)
        /\ UNCHANGED sys
  /\ UNCHANGED <<flash, dirty, promise>>

\* Programming clears bits only: over other contents it leaves neither.
Over(old, v) == [old EXCEPT !.data = IF old.data \in {"FF", v} THEN v ELSE "torn"]

Torn(old) == [old EXCEPT !.data = "torn"]

\* be300_nand_send_command: the controller refuses a page outside the arena.
Refused(b) == b \notin Arena

\* physical_write_page gives up before PAGEPROG when a wait failed; the
\* legacy core does not.
GiveUp ==
  /\ At("program") /\ sys.kernel = "linux42"
  /\ sys' = [sys EXCEPT !.failed = TRUE]
  /\ Finish("EIO")
  /\ UNCHANGED <<flash, dirty, promise>>

\* PAGEPROG and waitfunc.
PageProgram ==
  /\ At("program")
  /\ IF Refused(BlockOf(op.page))
     THEN /\ sys' = [sys EXCEPT !.failed = TRUE]
          /\ Finish("EIO")
          /\ UNCHANGED <<flash, dirty, promise>>
     ELSE \E good \in BOOLEAN :
       /\ MayFail
       /\ \E new \in {Over(flash[op.page], op.value)} \cup
                     (IF good /\ ~StatusLies THEN {}
                      ELSE {flash[op.page], Torn(flash[op.page])}) :
            /\ flash' = [flash EXCEPT ![op.page] = new]
            /\ dirty' = IF new = flash[op.page] THEN dirty ELSE dirty \cup {op.page}
       /\ promise' = [promise EXCEPT ![op.page] = @ \cup {op.value}]
       /\ IF good /\ ~sys'.failed THEN Goto("verify") ELSE Finish("EIO")

\* Bug: ECC, not the bytes, decides whether the page was written.
VerifiedByEcc == flash[op.page].data # "torn"

\* The read-back compares every byte (the legacy core does so in physical_verify).
Verified == flash[op.page].data = op.value /\ ~flash[op.page].weak

Verify ==
  /\ At("verify")
  /\ MayFail
  /\ IF Verified /\ ~sys'.failed
     THEN Finish("ok") /\ promise' = [promise EXCEPT ![op.page] = {op.value}]
     ELSE Finish("EIO") /\ UNCHANGED promise
  /\ UNCHANGED <<flash, dirty>>

\* physical_erase up to ERASE1; the legacy driver has no such checks.
Erase(b) ==
  LET p == b * BlockPages IN
  /\ At("done")
  /\ \/ /\ sys.kernel = "linux42"
        /\ ReadOnly(b)
        /\ sys' = [sys EXCEPT !.failed = TRUE]
        /\ Report("erase", "FAIL")
     \/ /\ sys.kernel = "linux42" => ~ReadOnly(b)
        /\ Begin("erase", "erase", p, "FF")
        /\ UNCHANGED sys
  /\ UNCHANGED <<flash, dirty, promise>>

Blank == [data |-> "FF", weak |-> FALSE, marks |-> {}]

\* The pages of a block after an erase that emptied some and spoilt others.
Erased(b, empty, spoilt) ==
  [p \in PageNo |-> CASE p \in PagesOf(b) /\ p \in empty -> Blank
                      [] p \in PagesOf(b) /\ p \in spoilt \ empty -> Torn(flash[p])
                      [] OTHER -> flash[p]]

\* ERASE2 and waitfunc.
EraseBlock ==
  LET b == BlockOf(op.page) IN
  /\ At("erase")
  /\ IF Refused(b)
     THEN sys' = [sys EXCEPT !.failed = TRUE] /\ Finish("FAIL") /\ UNCHANGED <<flash, dirty, promise>>
     ELSE \E good, late \in BOOLEAN :
       /\ \E empty, spoilt \in SUBSET PagesOf(b) :
            /\ good /\ ~StatusLies => empty = PagesOf(b)
            /\ flash' = Erased(b, empty, spoilt)
            /\ dirty' = (dirty \ empty) \cup (spoilt \ empty)
       /\ IF good /\ ~sys.failed /\ ~late
          THEN /\ IF sys.kernel = "linux42" THEN Goto("inspect") ELSE Finish("ok")
               /\ promise' = [p \in PageNo |->
                                CASE p \notin PagesOf(b) -> promise[p]
                                  [] p \in PagesOf(b) /\ sys.kernel = "linux42" ->
                                       promise[p] \cup {"FF"}
                                  [] OTHER -> {"FF"}]
               /\ UNCHANGED sys
          ELSE /\ Finish("FAIL")
               /\ promise' = [p \in PageNo |-> IF p \in PagesOf(b) THEN promise[p] \cup {"FF"}
                                               ELSE promise[p]]
               /\ sys' = [sys EXCEPT !.failed = @ \/ late \/ sys.kernel = "linux42"]

BlockEmpty(b) == \A p \in PagesOf(b) : RawErased(p) /\ flash[p].marks = {}

\* The read-back of physical_erase; one byte left makes every later call fail.
Inspect ==
  LET b == BlockOf(op.page) IN
  /\ At("inspect")
  /\ \E late \in BOOLEAN :
       IF late \/ sys.failed \/ ~BlockEmpty(b)
       THEN sys' = [sys EXCEPT !.failed = TRUE] /\ Finish("FAIL") /\ UNCHANGED promise
       ELSE /\ UNCHANGED sys
            /\ Finish("ok")
            /\ promise' = [p \in PageNo |-> IF p \in PagesOf(b) THEN {"FF"} ELSE promise[p]]
  /\ UNCHANGED <<flash, dirty>>

\* The core programs a spare byte of a page: JFFS2's cleanmarker, or the
\* marker of a block it gave up, which also enters the table.  The driver
\* installs no write_oob: nothing between caller and chip asks the table or
\* the manifest, and the command reaches the chip even after a failure.
WriteSpare(p, m) ==
  LET b == BlockOf(p)
      Table == IF m = "bad" THEN sys.bbt \cup {b} ELSE sys.bbt IN
  /\ At("done")
  /\ p - b * BlockPages \in IF m = "bad" THEN {0, 1} ELSE {0}
  /\ \E late, took \in BOOLEAN :
       /\ Refused(b) => ~took
       /\ flash' = IF took THEN [flash EXCEPT ![p].marks = @ \cup {m}] ELSE flash
       /\ sys' = [sys EXCEPT !.failed = @ \/ late \/ Refused(b), !.bbt = Table]
       /\ Report("spare", IF took /\ ~sys'.failed THEN "ok" ELSE "EIO")
  /\ UNCHANGED <<dirty, promise>>

\* Bug: the marker is looked for on the first page only.
MarkedFirst == {b \in Arena : "bad" \in flash[b * BlockPages].marks}

\* physical_scan_bbt / physical_bbt: pages 0 and 1 of each filesystem block.
Marked == {b \in Arena : \E i \in {0, 1} : "bad" \in flash[b * BlockPages + i].marks}

\* physical_setup and the scan; a failure leaves no driver.
Boot(k) ==
  /\ sys.kernel = "off"
  /\ sys' = [kernel |-> k, failed |-> FALSE, bbt |-> Manifest \cup Marked]
  /\ UNCHANGED <<flash, dirty, op, promise>>

PowerOff ==
  /\ sys' = [kernel |-> "off", failed |-> FALSE, bbt |-> {}]
  /\ Report("none", "none")
  /\ UNCHANGED <<flash, dirty, promise>>

\* A page of the filesystem loses bits: first few, then too many for ECC.
Fade(p) ==
  /\ BlockOf(p) \in Arena \ Manifest
  /\ flash' = [flash EXCEPT ![p] = IF @.weak THEN Torn(@) ELSE [@ EXCEPT !.weak = TRUE]]
  /\ UNCHANGED <<sys, dirty, op, promise>>

\* The installed image: content outside the filesystem and in quarantine.
Init ==
  /\ \E v \in Values :
       flash = [p \in PageNo |->
                  [data |-> IF ReadOnly(BlockOf(p)) THEN v ELSE "FF", weak |-> FALSE,
                   marks |-> {}]]
  /\ sys = [kernel |-> "off", failed |-> FALSE, bbt |-> {}]
  /\ op = Done("none", 0, "FF", "none")
  /\ promise = [p \in PageNo |-> {flash[p].data}]
  /\ dirty = {p \in PageNo : ReadOnly(BlockOf(p))}

Driver == PageProgram \/ Verify \/ EraseBlock \/ Inspect \/ GiveUp

Next ==
  \/ \E p \in PageNo : Read(p) \/ Fade(p) \/ \E v \in Values : Program(p, v)
  \/ \E p \in PageNo, m \in Markers : WriteSpare(p, m)
  \/ \E b \in BlockNo : Erase(b)
  \/ Driver
  \/ \E k \in Kernels : Boot(k)
  \/ PowerOff

Spec == Init /\ [][Next]_vars

----------------------------------------------------------------------------

PageType == [data : Contents \cup {"torn"}, weak : BOOLEAN, marks : SUBSET {"clean", "bad"}]

OpType ==
  [pc : {"done", "program", "verify", "erase", "inspect"},
   kind : {"none", "read", "program", "erase", "spare"},
   page : PageNo, value : Contents,
   result : {"none", "ok", "EIO", "EBADMSG", "EROFS", "FAIL"}]

TypeOK ==
  /\ flash \in [PageNo -> PageType]
  /\ sys \in [kernel : Kernels \cup {"off"}, failed : BOOLEAN, bbt : SUBSET BlockNo]
  /\ op \in OpType
  /\ promise \in [PageNo -> SUBSET Contents]
  /\ dirty \subseteq PageNo

\* What a read reports as good is what the last good program or erase left
\* there, or what an unfinished one could have left, under either kernel and
\* across any number of boots.
ReadsAreTrue ==
  op.kind = "read" /\ op.result = "ok" => op.value \in promise[op.page]

\* "Never attempt a second data/parity program" (nand_physical.h 81-82): when
\* Linux 4.2 is about to program a page, nothing has been left in it since an
\* erase emptied it, neither by a good program nor by one, or by an erase,
\* that failed or was cut off, in whichever boot and under either kernel.
NeverTwice ==
  At("program") /\ sys.kernel = "linux42" => op.page \notin dirty

\* Mutations "cannot target boot content or the replacement pool"
\* (PHYSICAL_NAND.md 96-97), whatever is asked of either kernel; and Linux 4.2
\* neither programs nor erases a block the manifest quarantines.  Their spare
\* bytes, and all of them under 2.4/2.6, are left to the callers.
QuarantineKept ==
  [][\A p \in PageNo :
       /\ BlockOf(p) \notin Arena => flash'[p] = flash[p]
       /\ BlockOf(p) \in Manifest /\ sys.kernel = "linux42" =>
            flash'[p].data = flash[p].data /\ flash'[p].weak = flash[p].weak]_vars

\* A running kernel knows every marker that is on the flash, whoever put it
\* there and in which boot (PHYSICAL_NAND.md 90-91).
MarkersKnown ==
  sys.kernel # "off" =>
    \A p \in PageNo : "bad" \in flash[p].marks => BlockOf(p) \in sys.bbt

\* Once the engine failed or an erase left a byte, nothing is reported good
\* until the next boot.
FailureSticks ==
  [][sys.failed /\ sys'.kernel # "off" =>
       sys'.failed /\ (op' # op => op'.result # "ok")]_vars

=============================================================================
