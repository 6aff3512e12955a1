------------------------- MODULE NandPhysicalProofs -------------------------
(***************************************************************************)
(* Proofs about NandPhysical for every geometry, manifest and choice of    *)
(* kernels.  The invariant says where an unfinished mutation may stand     *)
(* (GuardInv), that a page which is not torn holds something promised      *)
(* (PromiseInv), that a page something was left in does not look erased    *)
(* (DirtyInv), and that markers are where the scan looks (MarkInv).        *)
(***************************************************************************)
EXTENDS NandPhysical, TLAPS

Mutating == op.pc \in {"program", "verify", "erase", "inspect"}

GuardInv ==
  /\ sys.kernel = "off" => ~sys.failed /\ op.pc = "done"
  /\ Mutating => op.kind \in {"program", "erase"}
  /\ Mutating /\ sys.kernel = "linux42" => BlockOf(op.page) \notin Manifest
  /\ op.pc \in {"program", "verify"} => op.value \in Values
  /\ At("program") /\ sys.kernel = "linux42" => op.page \notin dirty

DirtyInv == \A p \in dirty : flash[p].data # "FF"

PromiseInv ==
  /\ \A p \in PageNo : flash[p].data # "torn" => flash[p].data \in promise[p]
  /\ op.kind = "read" /\ op.result = "ok" => op.value \in promise[op.page]

MarkedWell(p) == BlockOf(p) \in Arena /\ p - BlockOf(p) * BlockPages \in {0, 1}

MarkInv ==
  \A p \in PageNo : "bad" \in flash[p].marks =>
    /\ MarkedWell(p)
    /\ sys.kernel # "off" => BlockOf(p) \in sys.bbt

IInv == TypeOK /\ GuardInv /\ PromiseInv /\ DirtyInv /\ MarkInv

----------------------------------------------------------------------------
\* Blocks and pages.

LEMMA Geometry ==
  /\ Blocks \in Nat \ {0} /\ BlockPages \in Nat \ {0, 1} /\ 0 \in PageNo
  /\ Manifest \subseteq BlockNo /\ Arena \subseteq BlockNo
  /\ "FF" \in Contents /\ "torn" \notin Contents /\ Values \subseteq Contents
  /\ "FF" \notin Values
  <1>1. Blocks * BlockPages \in Nat /\ Blocks * BlockPages > 0
    BY PhysicalAssumption
  <1>2. 0 \in PageNo
    BY <1>1 DEF PageNo
  <1>3. Manifest \subseteq BlockNo /\ Arena \subseteq BlockNo
    BY PhysicalAssumption DEF BlockNo, Arena
  <1> QED BY <1>2, <1>3, PhysicalAssumption DEF Contents

LEMMA BlockOfPage == ASSUME NEW p \in PageNo PROVE BlockOf(p) \in BlockNo
  <1>1. p \in Nat /\ p < Blocks * BlockPages /\ Blocks \in Nat /\ BlockPages \in Nat \ {0}
    BY Geometry DEF PageNo
  <1> DEFINE q == p \div BlockPages
  <1>2. q \in Nat /\ q * BlockPages <= p
    BY <1>1
  <1> HIDE DEF q
  <1>3. q < Blocks
    <2> SUFFICES ASSUME q >= Blocks PROVE FALSE
      BY <1>1, <1>2
    <2>1. q * BlockPages >= Blocks * BlockPages
      BY <1>1, <1>2
    <2> QED BY <1>1, <1>2, <2>1
  <1> QED BY <1>2, <1>3, <1>1 DEF BlockNo, BlockOf, q

LEMMA FirstPage ==
  ASSUME NEW b \in BlockNo
  PROVE  b * BlockPages \in PageNo /\ BlockOf(b * BlockPages) = b
  <1>1. b \in Nat /\ b + 1 <= Blocks /\ BlockPages \in Nat \ {0} /\ Blocks \in Nat
    BY Geometry DEF BlockNo
  <1>2. (b + 1) * BlockPages <= Blocks * BlockPages
    BY <1>1
  <1>3. b * BlockPages \in Nat /\ b * BlockPages + BlockPages = (b + 1) * BlockPages
    BY <1>1
  <1>4. b * BlockPages < Blocks * BlockPages /\ Blocks * BlockPages \in Nat
    BY <1>1, <1>2, <1>3
  <1>5. (b * BlockPages) \div BlockPages = b
    BY <1>1
  <1> QED BY <1>3, <1>4, <1>5 DEF PageNo, BlockOf

LEMMA MarkedBlock ==
  ASSUME NEW p \in PageNo, MarkedWell(p), "bad" \in flash[p].marks
  PROVE  BlockOf(p) \in Marked
  <1> DEFINE b == BlockOf(p)
  <1>1. b \in BlockNo /\ b \in Arena /\ p - b * BlockPages \in {0, 1}
    BY BlockOfPage DEF MarkedWell
  <1> HIDE DEF b
  <1>2. b \in Int /\ p \in Int /\ b * BlockPages \in Int
    BY <1>1, Geometry DEF BlockNo, PageNo
  <1>3. PICK i \in {0, 1} : p - b * BlockPages = i
    BY <1>1
  <1>4. p = b * BlockPages + i
    BY <1>2, <1>3
  <1>5. b \in Marked
    BY <1>1, <1>4 DEF Marked
  <1> QED BY <1>5 DEF b

----------------------------------------------------------------------------
\* The invariant holds at first.

LEMMA InitInv == Init => IInv
  <1> SUFFICES ASSUME Init PROVE IInv
    OBVIOUS
  <1>1. PICK v \in Values :
          flash = [p \in PageNo |->
                     [data |-> IF ReadOnly(BlockOf(p)) THEN v ELSE "FF", weak |-> FALSE,
                      marks |-> {}]]
    BY DEF Init
  <1>2. \A p \in PageNo : flash[p] \in PageType /\ flash[p].marks = {}
                         /\ flash[p].data \in Contents
    BY <1>1, Geometry DEF PageType
  <1>3. sys = [kernel |-> "off", failed |-> FALSE, bbt |-> {}]
        /\ op = Done("none", 0, "FF", "none")
        /\ promise = [p \in PageNo |-> {flash[p].data}]
        /\ dirty = {p \in PageNo : ReadOnly(BlockOf(p))}
    BY DEF Init
  <1>4. flash \in [PageNo -> PageType]
    BY <1>1, <1>2
  <1>5. promise \in [PageNo -> SUBSET Contents]
    BY <1>2, <1>3
  <1>6. op \in OpType /\ op.kind = "none" /\ op.pc = "done"
    BY <1>3, Geometry DEF Done, OpType
  <1>7. TypeOK
    BY <1>3, <1>4, <1>5, <1>6 DEF TypeOK
  <1>8. GuardInv
    BY <1>3, <1>6 DEF GuardInv, Mutating, At
  <1>9. PromiseInv
    BY <1>3, <1>6 DEF PromiseInv
  <1>10. MarkInv
    BY <1>2 DEF MarkInv
  <1>11. DirtyInv
    BY <1>1, <1>3, Geometry DEF DirtyInv
  <1> QED BY <1>7, <1>8, <1>9, <1>10, <1>11 DEF IInv

----------------------------------------------------------------------------
\* Steps that leave the flash alone.

LEMMA ReportType ==
  ASSUME NEW k \in {"none", "read", "program", "erase", "spare"}, NEW p \in PageNo,
         NEW v \in Contents,
         NEW r \in {"none", "ok", "EIO", "EBADMSG", "EROFS", "FAIL"}
  PROVE  /\ Done(k, p, v, r) \in OpType
         /\ Done(k, p, v, r).pc = "done" /\ Done(k, p, v, r).kind = k
         /\ Done(k, p, v, r).page = p /\ Done(k, p, v, r).value = v
         /\ Done(k, p, v, r).result = r
  BY DEF Done, OpType

LEMMA BeginType ==
  ASSUME NEW c \in {"program", "erase"}, NEW p \in PageNo, NEW v \in Contents
  PROVE  LET o == [Done(c, p, v, "none") EXCEPT !.pc = c] IN
         /\ o \in OpType /\ o.pc = c /\ o.kind = c /\ o.page = p /\ o.value = v
         /\ o.result = "none"
  BY DEF Done, OpType

SysType == [kernel : Kernels \cup {"off"}, failed : BOOLEAN, bbt : SUBSET BlockNo]

\* A step that touches the engine and the report only.
Quiet ==
  /\ UNCHANGED <<flash, dirty, promise>>
  /\ sys' \in SysType /\ sys'.kernel = sys.kernel /\ sys'.bbt = sys.bbt
  /\ sys.kernel # "off"
  /\ op' \in OpType

LEMMA QuietStep ==
  ASSUME IInv, Quiet, op'.pc = "done",
         op'.kind = "read" /\ op'.result = "ok" => op'.value \in promise[op'.page]
  PROVE  IInv'
  <1>1. TypeOK'
    BY DEF IInv, Quiet, TypeOK, SysType
  <1>2. GuardInv'
    BY DEF IInv, Quiet, GuardInv, Mutating, At
  <1>3. PromiseInv'
    BY DEF IInv, Quiet, PromiseInv
  <1>4. MarkInv' /\ DirtyInv'
    BY DEF IInv, Quiet, MarkInv, MarkedWell, DirtyInv
  <1> QED BY <1>1, <1>2, <1>3, <1>4 DEF IInv

LEMMA SysUpdate ==
  ASSUME sys \in SysType, NEW f \in BOOLEAN
  PROVE  LET s == [sys EXCEPT !.failed = f] IN
         s \in SysType /\ s.kernel = sys.kernel /\ s.bbt = sys.bbt /\ s.failed = f
  BY DEF SysType

LEMMA MayFailType ==
  ASSUME sys \in SysType, MayFail
  PROVE  /\ sys' \in SysType /\ sys'.kernel = sys.kernel /\ sys'.bbt = sys.bbt
         /\ sys.failed => sys'.failed
  <1>1. PICK late \in BOOLEAN : sys' = [sys EXCEPT !.failed = sys.failed \/ late]
    BY DEF MayFail
  <1>2. (sys.failed \/ late) \in BOOLEAN
    OBVIOUS
  <1> QED BY <1>1, <1>2, SysUpdate

LEMMA ReadStep == ASSUME IInv, NEW p \in PageNo, Read(p) PROVE IInv'
  <1> DEFINE v == IF sys'.failed \/ Unreadable(p) THEN "FF" ELSE flash[p].data
             r == IF sys'.failed THEN "EIO" ELSE IF Unreadable(p) THEN "EBADMSG" ELSE "ok"
  <1>1. op' = Done("read", p, v, r) /\ MayFail /\ At("done") /\ UNCHANGED <<flash, dirty, promise>>
    BY DEF Read
  <1>2. flash[p] \in PageType /\ sys \in SysType
    BY DEF IInv, TypeOK, SysType
  <1>3. v \in Contents /\ (r = "ok" => v \in promise[p])
    BY <1>2, Geometry DEF PageType, Unreadable, IInv, PromiseInv
  <1>4. r \in {"ok", "EIO", "EBADMSG"}
    OBVIOUS
  <1> HIDE DEF v, r
  <1>5. /\ op' \in OpType /\ op'.pc = "done" /\ op'.page = p /\ op'.value = v
        /\ op'.result = r
    BY <1>1, <1>3, <1>4, ReportType
  <1>6. Quiet
    BY <1>1, <1>2, <1>5, MayFailType DEF Quiet, At
  <1> QED BY <1>3, <1>5, <1>6, QuietStep

LEMMA InvTypes ==
  ASSUME IInv
  PROVE  /\ sys \in SysType /\ op \in OpType /\ dirty \subseteq PageNo
         /\ flash \in [PageNo -> PageType] /\ promise \in [PageNo -> SUBSET Contents]
         /\ op.page \in PageNo /\ op.value \in Contents
         /\ op.kind \in {"none", "read", "program", "erase", "spare"}
         /\ sys.bbt \subseteq BlockNo /\ sys.failed \in BOOLEAN
  BY DEF IInv, TypeOK, SysType, OpType

\* A step of that kind that ends with the result of a mutation.
LEMMA QuietReport ==
  ASSUME IInv, sys.kernel # "off", UNCHANGED <<flash, dirty, promise>>,
         sys' \in SysType, sys'.kernel = sys.kernel, sys'.bbt = sys.bbt,
         NEW k \in {"program", "erase"}, NEW r \in {"none", "ok", "EIO", "EROFS", "FAIL"},
         Report(k, r)
  PROVE  IInv'
  <1>1. op' \in OpType /\ op'.pc = "done" /\ op'.kind = k
    BY ReportType, Geometry DEF Report
  <1>2. Quiet
    BY <1>1 DEF Quiet
  <1> QED BY <1>1, <1>2, QuietStep

\* The start of a mutation: under Linux 4.2, of a block no manifest
\* quarantines and, for a program, of a page nothing was left in.
LEMMA QuietBegin ==
  ASSUME IInv, sys.kernel # "off", UNCHANGED <<flash, dirty, promise>>,
         sys' \in SysType, sys'.kernel = sys.kernel, sys'.bbt = sys.bbt,
         NEW k \in {"program", "erase"}, NEW p \in PageNo, NEW v \in Contents,
         Begin(k, k, p, v), k = "program" => v \in Values,
         sys.kernel = "linux42" => BlockOf(p) \notin Manifest,
         k = "program" /\ sys.kernel = "linux42" => p \notin dirty
  PROVE  IInv'
  <1>1. op' \in OpType /\ op'.pc = k /\ op'.kind = k /\ op'.page = p /\ op'.value = v
    BY BeginType DEF Begin
  <1>2. TypeOK'
    BY <1>1 DEF IInv, TypeOK, SysType
  <1>4. GuardInv'
    BY <1>1 DEF IInv, GuardInv, Mutating, At, BlockOf
  <1>5. PromiseInv'
    BY <1>1 DEF IInv, PromiseInv
  <1>6. MarkInv' /\ DirtyInv'
    BY DEF IInv, MarkInv, MarkedWell, DirtyInv
  <1> QED BY <1>2, <1>4, <1>5, <1>6 DEF IInv

LEMMA ProgramStep ==
  ASSUME IInv, NEW p \in PageNo, NEW v \in Values, Program(p, v) PROVE IInv'
  <1>1. At("done") /\ UNCHANGED <<flash, dirty, promise>> /\ v \in Contents
    BY Geometry DEF Program
  <1>2. sys.kernel # "off"
    BY <1>1 DEF At
  <1>3. CASE sys' = sys /\ Report("program", "EROFS")
    BY <1>1, <1>2, <1>3, InvTypes, QuietReport
  <1>4. CASE sys.kernel = "linux42" /\ ~ReadOnly(BlockOf(p)) /\ MayFail
             /\ IF sys'.failed \/ ~RawErased(p) THEN Report("program", "EIO")
                ELSE Begin("program", "program", p, v)
    <2>1. sys' \in SysType /\ sys'.kernel = sys.kernel /\ sys'.bbt = sys.bbt
      BY <1>4, InvTypes, MayFailType
    <2>2. CASE Report("program", "EIO")
      BY <1>1, <1>2, <2>1, <2>2, QuietReport
    <2>3. CASE RawErased(p) /\ Begin("program", "program", p, v)
      <3>1. p \notin dirty /\ BlockOf(p) \notin Manifest
        BY <1>4, <2>3 DEF RawErased, ReadOnly, IInv, DirtyInv
      <3> QED BY <1>1, <1>2, <2>1, <2>3, <3>1, QuietBegin
    <2> QED BY <1>4, <2>2, <2>3
  <1>5. CASE sys.kernel = "legacy"
             /\ Begin("program", "program", p, v) /\ sys' = sys
    BY <1>1, <1>2, <1>5, InvTypes, QuietBegin
  <1> QED BY <1>3, <1>4, <1>5 DEF Program

LEMMA GiveUpStep == ASSUME IInv, GiveUp PROVE IInv'
  <1>1. sys.kernel # "off" /\ UNCHANGED <<flash, dirty, promise>> /\ Report(op.kind, "EIO")
        /\ op.kind \in {"program", "erase"}
    BY DEF GiveUp, At, Finish, IInv, GuardInv, Mutating
  <1>2. sys' \in SysType /\ sys'.kernel = sys.kernel /\ sys'.bbt = sys.bbt
    BY InvTypes, SysUpdate DEF GiveUp
  <1> QED BY <1>1, <1>2, QuietReport

LEMMA EraseStep == ASSUME IInv, NEW b \in BlockNo, Erase(b) PROVE IInv'
  <1>1. sys.kernel # "off" /\ UNCHANGED <<flash, dirty, promise>>
    BY DEF Erase, At
  <1>2. b * BlockPages \in PageNo /\ BlockOf(b * BlockPages) = b
    BY FirstPage
  <1>3. CASE sys' = [sys EXCEPT !.failed = TRUE] /\ Report("erase", "FAIL")
    <2>1. sys' \in SysType /\ sys'.kernel = sys.kernel /\ sys'.bbt = sys.bbt
      BY <1>3, InvTypes, SysUpdate
    <2> QED BY <1>1, <1>3, <2>1, QuietReport
  <1>4. CASE /\ sys.kernel = "linux42" => ~ReadOnly(b)
             /\ Begin("erase", "erase", b * BlockPages, "FF") /\ sys' = sys
    <2>1. sys.kernel = "linux42" => b \notin Manifest
      BY <1>4 DEF ReadOnly
    <2> HIDE DEF IInv
    <2> QED BY <1>1, <1>2, <1>4, <2>1, InvTypes, QuietBegin, Geometry
  <1> QED BY <1>3, <1>4 DEF Erase

LEMMA VerifyStep == ASSUME IInv, Verify PROVE IInv'
  <1>1. sys.kernel # "off" /\ UNCHANGED <<flash, dirty>> /\ MayFail
    BY DEF Verify, At
  <1>2. sys' \in SysType /\ sys'.kernel = sys.kernel /\ sys'.bbt = sys.bbt
    BY <1>1, InvTypes, MayFailType
  <1>3. op.kind \in {"program", "erase"} /\ op.page \in PageNo
    BY InvTypes DEF Verify, At, IInv, GuardInv, Mutating
  <1>4. CASE Finish("EIO") /\ UNCHANGED promise
    BY <1>1, <1>2, <1>3, <1>4, QuietReport DEF Finish
  <1>5. CASE Verified /\ Finish("ok") /\ promise' = [promise EXCEPT ![op.page] = {op.value}]
    <2>1. op' \in OpType /\ op'.pc = "done" /\ op'.kind = op.kind
      BY <1>3, <1>5, ReportType, Geometry DEF Finish, Report
    <2>2. flash[op.page].data = op.value /\ op.value \in Contents
      BY <1>5, InvTypes DEF Verified
    <2>3. promise' \in [PageNo -> SUBSET Contents]
      BY <1>5, <2>2, InvTypes
    <2>4. TypeOK'
      BY <1>1, <1>2, <2>1, <2>3, InvTypes DEF TypeOK, SysType
    <2>5. GuardInv'
      BY <1>1, <1>2, <2>1 DEF IInv, GuardInv, Mutating, At
    <2>6. \A p \in PageNo : flash[p].data # "torn" => flash[p].data \in promise'[p]
      BY <1>3, <1>5, <2>2, InvTypes DEF IInv, PromiseInv
    <2>7. PromiseInv'
      BY <1>1, <1>3, <2>1, <2>6 DEF PromiseInv
    <2>8. MarkInv' /\ DirtyInv'
      BY <1>1, <1>2 DEF IInv, MarkInv, MarkedWell, DirtyInv
    <2> QED BY <2>4, <2>5, <2>7, <2>8 DEF IInv
  <1> QED BY <1>4, <1>5 DEF Verify

----------------------------------------------------------------------------
\* Steps that change the flash.

LEMMA PageProgramStep == ASSUME IInv, PageProgram PROVE IInv'
  <1> DEFINE p == op.page
             v == op.value
  <1>1. /\ sys.kernel # "off" /\ op.pc = "program" /\ p \in PageNo /\ v \in Values
        /\ op.kind \in {"program", "erase"}
        /\ sys.kernel = "linux42" => BlockOf(p) \notin Manifest
    BY InvTypes DEF PageProgram, At, IInv, GuardInv, Mutating
  <1>2. CASE Refused(BlockOf(p))
    <2>1. sys' = [sys EXCEPT !.failed = TRUE] /\ Finish("EIO") /\ UNCHANGED <<flash, dirty, promise>>
      BY <1>2 DEF PageProgram
    <2>2. sys' \in SysType /\ sys'.kernel = sys.kernel /\ sys'.bbt = sys.bbt
      BY <2>1, InvTypes, SysUpdate
    <2> QED BY <1>1, <2>1, <2>2, QuietReport DEF Finish
  <1>3. CASE ~Refused(BlockOf(p))
    <2>1. PICK good \in BOOLEAN :
            /\ MayFail
            /\ \E new \in {Over(flash[p], v)} \cup
                          (IF good /\ ~StatusLies THEN {} ELSE {flash[p], Torn(flash[p])}) :
                 /\ flash' = [flash EXCEPT ![p] = new]
                 /\ dirty' = IF new = flash[p] THEN dirty ELSE dirty \cup {p}
            /\ promise' = [promise EXCEPT ![p] = @ \cup {v}]
            /\ IF good /\ ~sys'.failed THEN Goto("verify") ELSE Finish("EIO")
      BY <1>3 DEF PageProgram
    <2>2. PICK new \in {Over(flash[p], v), flash[p], Torn(flash[p])} :
            /\ flash' = [flash EXCEPT ![p] = new]
            /\ dirty' = IF new = flash[p] THEN dirty ELSE dirty \cup {p}
      BY <2>1
    <2>3. sys' \in SysType /\ sys'.kernel = sys.kernel /\ sys'.bbt = sys.bbt
      BY <2>1, InvTypes, MayFailType
    <2>4. flash[p] \in PageType /\ v \in Contents
      BY <1>1, InvTypes
    <2>5. new \in PageType /\ new.marks = flash[p].marks
          /\ new.data \in {v, flash[p].data, "torn"}
      BY <2>2, <2>4 DEF Over, Torn, PageType
    <2>14. new # flash[p] => new.data # "FF"
      BY <1>1, <2>2, <2>4, Geometry DEF Over, Torn, PageType
    <2>6. op' \in OpType /\ op'.kind = op.kind /\ op'.pc \in {"done", "verify"}
          /\ (op'.pc = "verify" => op'.page = p /\ op'.value = v)
      <3>1. CASE Goto("verify")
        BY <3>1, InvTypes DEF Goto, OpType
      <3>2. CASE Finish("EIO")
        BY <3>2, <1>1, ReportType, Geometry DEF Finish, Report
      <3> QED BY <2>1, <3>1, <3>2
    <2> HIDE DEF p, v
    <2>7. flash' \in [PageNo -> PageType] /\ promise' \in [PageNo -> SUBSET Contents]
          /\ dirty' \subseteq PageNo
      BY <1>1, <2>1, <2>2, <2>4, <2>5, InvTypes
    <2>15. DirtyInv'
      <3> SUFFICES ASSUME NEW q \in dirty' PROVE flash'[q].data # "FF"
        BY DEF DirtyInv
      <3>1. CASE q = p
        BY <1>1, <2>2, <2>14, <3>1, InvTypes DEF IInv, DirtyInv
      <3>2. CASE q # p
        BY <1>1, <2>2, <3>2, InvTypes DEF IInv, DirtyInv
      <3> QED BY <3>1, <3>2
    <2>8. TypeOK'
      BY <2>3, <2>6, <2>7 DEF TypeOK, SysType
    <2>9. GuardInv'
      BY <1>1, <2>3, <2>6 DEF IInv, GuardInv, Mutating, At, BlockOf
    <2>10. \A q \in PageNo : flash'[q].data # "torn" => flash'[q].data \in promise'[q]
      <3> TAKE q \in PageNo
      <3>1. CASE q = p
        BY <1>1, <2>1, <2>2, <2>5, <3>1, InvTypes DEF IInv, PromiseInv
      <3>2. CASE q # p
        BY <1>1, <2>1, <2>2, <3>2, InvTypes DEF IInv, PromiseInv
      <3> QED BY <3>1, <3>2
    <2>11. PromiseInv'
      BY <1>1, <2>6, <2>10 DEF PromiseInv
    <2>12. \A q \in PageNo : flash'[q].marks = flash[q].marks
      BY <1>1, <2>2, <2>5, InvTypes
    <2>13. MarkInv'
      BY <2>3, <2>12 DEF IInv, MarkInv, MarkedWell
    <2> QED BY <2>8, <2>9, <2>11, <2>13, <2>15 DEF IInv
  <1> QED BY <1>2, <1>3

\* A page after an erase: blank, torn with its marks, or as it was.
LEMMA ErasedPage ==
  ASSUME IInv, NEW b, NEW empty, NEW spoilt, NEW p \in PageNo
  PROVE  LET new == Erased(b, empty, spoilt)[p] IN
         /\ new \in PageType
         /\ new.marks = {} \/ new.marks = flash[p].marks
         /\ p \in PagesOf(b) => new.data \in {"FF", "torn", flash[p].data}
         /\ p \in PagesOf(b) /\ p \in empty => new.data = "FF"
         /\ p \in PagesOf(b) /\ p \in spoilt \ empty => new.data = "torn"
         /\ p \notin PagesOf(b) \/ p \notin empty \cup spoilt => new = flash[p]
  <1> DEFINE new == Erased(b, empty, spoilt)[p]
  <1>1. new = CASE p \in PagesOf(b) /\ p \in empty -> Blank
                [] p \in PagesOf(b) /\ p \in spoilt \ empty -> Torn(flash[p])
                [] OTHER -> flash[p]
    BY DEF Erased
  <1>2. flash[p] \in PageType
    BY InvTypes
  <1> HIDE DEF new
  <1>3. CASE p \in PagesOf(b) /\ p \in empty
    <2>1. new = Blank
      BY <1>1, <1>3
    <2>2. Blank \in PageType /\ Blank.marks = {} /\ Blank.data = "FF"
      BY Geometry DEF Blank, PageType
    <2> QED BY <1>3, <2>1, <2>2 DEF new
  <1>4. CASE ~(p \in PagesOf(b) /\ p \in empty) /\ p \in PagesOf(b) /\ p \in spoilt \ empty
    <2>1. new = Torn(flash[p])
      BY <1>1, <1>4
    <2>2. Torn(flash[p]) \in PageType /\ Torn(flash[p]).marks = flash[p].marks
          /\ Torn(flash[p]).data = "torn"
      BY <1>2 DEF Torn, PageType
    <2> QED BY <1>4, <2>1, <2>2 DEF new
  <1>5. CASE ~(p \in PagesOf(b) /\ p \in empty)
             /\ ~(p \in PagesOf(b) /\ p \in spoilt \ empty)
    BY <1>1, <1>2, <1>5 DEF new
  <1> QED BY <1>3, <1>4, <1>5

LEMMA ErasePromise ==
  ASSUME IInv, EraseBlock, ~Refused(BlockOf(op.page))
  PROVE  /\ sys' \in SysType /\ sys'.kernel = sys.kernel /\ sys'.bbt = sys.bbt
         /\ Goto("inspect") \/ Finish("ok") \/ Finish("FAIL")
         /\ promise' \in [PageNo -> SUBSET Contents]
         /\ \E empty, spoilt \in SUBSET PagesOf(BlockOf(op.page)) :
              /\ flash' = Erased(BlockOf(op.page), empty, spoilt)
              /\ dirty' = (dirty \ empty) \cup (spoilt \ empty)
              /\ \A p \in PageNo :
                   IF p \in PagesOf(BlockOf(op.page))
                   THEN \/ promise'[p] = promise[p] \cup {"FF"}
                        \/ promise'[p] = {"FF"} /\ p \in empty
                   ELSE promise'[p] = promise[p]
  <1> DEFINE b == BlockOf(op.page)
  <1>1. sys.kernel # "off" /\ sys.kernel \in Kernels
    BY InvTypes DEF EraseBlock, At, SysType
  <1>2. PICK good \in BOOLEAN, late \in BOOLEAN :
       /\ \E empty, spoilt \in SUBSET PagesOf(b) :
            /\ good /\ ~StatusLies => empty = PagesOf(b)
            /\ flash' = Erased(b, empty, spoilt)
            /\ dirty' = (dirty \ empty) \cup (spoilt \ empty)
       /\ IF good /\ ~sys.failed /\ ~late
          THEN /\ IF sys.kernel = "linux42" THEN Goto("inspect") ELSE Finish("ok")
               /\ promise' = [p \in PageNo |->
                                CASE p \notin PagesOf(b) -> promise[p]
                                  [] p \in PagesOf(b) /\ sys.kernel = "linux42" ->
                                       promise[p] \cup {"FF"}
                                  [] OTHER -> {"FF"}]
               /\ UNCHANGED sys
          ELSE /\ Finish("FAIL")
               /\ promise' = [p \in PageNo |-> IF p \in PagesOf(b) THEN promise[p] \cup {"FF"}
                                               ELSE promise[p]]
               /\ sys' = [sys EXCEPT !.failed = @ \/ late \/ sys.kernel = "linux42"]
    BY DEF EraseBlock
  <1>3. PICK empty \in SUBSET PagesOf(b) : \E spoilt \in SUBSET PagesOf(b) :
            /\ good /\ ~StatusLies => empty = PagesOf(b)
            /\ flash' = Erased(b, empty, spoilt)
            /\ dirty' = (dirty \ empty) \cup (spoilt \ empty)
    BY <1>2
  <1>4. \A p \in PageNo : promise[p] \in SUBSET Contents
    BY InvTypes
  <1> HIDE DEF b
  <1>5. CASE good /\ ~sys.failed /\ ~late
    <2>1. sys' = sys /\ (Goto("inspect") \/ Finish("ok"))
      BY <1>2, <1>5
    <2>2. promise' = [p \in PageNo |->
                                CASE p \notin PagesOf(b) -> promise[p]
                                  [] p \in PagesOf(b) /\ sys.kernel = "linux42" ->
                                       promise[p] \cup {"FF"}
                                  [] OTHER -> {"FF"}]
      BY <1>2, <1>5
    <2>3. sys.kernel # "linux42" => empty = PagesOf(b)
      BY <1>1, <1>3, <1>5, PhysicalAssumption
    <2>4. \A p \in PageNo :
            IF p \in PagesOf(b)
            THEN promise'[p] = promise[p] \cup {"FF"} \/ (promise'[p] = {"FF"} /\ p \in empty)
            ELSE promise'[p] = promise[p]
      BY <2>2, <2>3
    <2>5. promise' \in [PageNo -> SUBSET Contents]
      BY <2>2, <1>4, Geometry
    <2> QED BY <1>3, <2>1, <2>4, <2>5, InvTypes DEF b
  <1>6. CASE ~(good /\ ~sys.failed /\ ~late)
    <2>1. /\ Finish("FAIL")
          /\ promise' = [p \in PageNo |-> IF p \in PagesOf(b) THEN promise[p] \cup {"FF"}
                                               ELSE promise[p]]
          /\ sys' = [sys EXCEPT !.failed = @ \/ late \/ sys.kernel = "linux42"]
      BY <1>2, <1>6
    <2>2. sys' \in SysType /\ sys'.kernel = sys.kernel /\ sys'.bbt = sys.bbt
      BY <2>1, InvTypes, SysUpdate
    <2>3. promise' \in [PageNo -> SUBSET Contents]
      BY <2>1, <1>4, Geometry
    <2> QED BY <1>3, <2>1, <2>2, <2>3 DEF b
  <1> QED BY <1>5, <1>6

LEMMA EraseBlockStep == ASSUME IInv, EraseBlock PROVE IInv'
  <1> DEFINE b == BlockOf(op.page)
  <1>1. /\ sys.kernel # "off" /\ op.pc = "erase" /\ op.page \in PageNo
        /\ op.kind \in {"program", "erase"}
        /\ sys.kernel = "linux42" => b \notin Manifest
    BY InvTypes DEF EraseBlock, At, IInv, GuardInv, Mutating
  <1>2. CASE Refused(b)
    <2>1. sys' = [sys EXCEPT !.failed = TRUE] /\ Finish("FAIL") /\ UNCHANGED <<flash, dirty, promise>>
      BY <1>2 DEF EraseBlock
    <2>2. sys' \in SysType /\ sys'.kernel = sys.kernel /\ sys'.bbt = sys.bbt
      BY <2>1, InvTypes, SysUpdate
    <2> QED BY <1>1, <2>1, <2>2, QuietReport DEF Finish
  <1>3. CASE ~Refused(b)
    <2>1. /\ sys' \in SysType /\ sys'.kernel = sys.kernel /\ sys'.bbt = sys.bbt
          /\ Goto("inspect") \/ Finish("ok") \/ Finish("FAIL")
          /\ promise' \in [PageNo -> SUBSET Contents]
      BY <1>3, ErasePromise
    <2>2. PICK empty \in SUBSET PagesOf(b), spoilt \in SUBSET PagesOf(b) :
              /\ flash' = Erased(b, empty, spoilt)
              /\ dirty' = (dirty \ empty) \cup (spoilt \ empty)
              /\ \A p \in PageNo :
                   IF p \in PagesOf(b)
                   THEN \/ promise'[p] = promise[p] \cup {"FF"}
                        \/ promise'[p] = {"FF"} /\ p \in empty
                   ELSE promise'[p] = promise[p]
      BY <1>3, ErasePromise
    <2>3. op' \in OpType /\ op'.kind = op.kind /\ op'.pc \in {"done", "inspect"}
          /\ (op'.pc = "inspect" => op'.page = op.page)
      <3>1. CASE Goto("inspect")
        BY <3>1, InvTypes DEF Goto, OpType
      <3>2. CASE Finish("ok") \/ Finish("FAIL")
        BY <3>2, <1>1, ReportType, Geometry DEF Finish, Report
      <3> QED BY <2>1, <3>1, <3>2
    <2>4. \A p \in PageNo :
             /\ flash'[p] \in PageType
             /\ flash'[p].marks = {} \/ flash'[p].marks = flash[p].marks
             /\ p \in PagesOf(b) => flash'[p].data \in {"FF", "torn", flash[p].data}
             /\ p \in PagesOf(b) /\ p \in empty => flash'[p].data = "FF"
             /\ p \in PagesOf(b) /\ p \in spoilt \ empty => flash'[p].data = "torn"
             /\ p \notin PagesOf(b) \/ p \notin empty \cup spoilt => flash'[p] = flash[p]
      BY <2>2, ErasedPage
    <2>5. flash' \in [PageNo -> PageType] /\ dirty' \subseteq PageNo
      BY <2>2, <2>4, InvTypes DEF Erased, PagesOf
    <2>11. DirtyInv'
      <3> SUFFICES ASSUME NEW q \in dirty' PROVE flash'[q].data # "FF"
        BY DEF DirtyInv
      <3>1. q \in PageNo
        BY <2>5
      <3>2. CASE q \in spoilt \ empty
        BY <2>4, <3>1, <3>2 DEF PagesOf
      <3>3. CASE q \in dirty /\ q \notin empty \cup spoilt
        BY <2>4, <3>1, <3>3 DEF IInv, DirtyInv
      <3> QED BY <2>2, <3>2, <3>3
    <2> HIDE DEF b
    <2>6. TypeOK'
      BY <2>1, <2>3, <2>5 DEF TypeOK, SysType
    <2>7. GuardInv'
      BY <1>1, <2>1, <2>3 DEF IInv, GuardInv, Mutating, At, BlockOf, b
    <2>8. \A q \in PageNo : flash'[q].data # "torn" => flash'[q].data \in promise'[q]
      BY <2>2, <2>4 DEF IInv, PromiseInv
    <2>9. PromiseInv'
      BY <1>1, <2>3, <2>8 DEF PromiseInv
    <2>10. MarkInv'
      BY <2>1, <2>4 DEF IInv, MarkInv, MarkedWell
    <2> QED BY <2>6, <2>7, <2>9, <2>10, <2>11 DEF IInv
  <1> QED BY <1>2, <1>3

LEMMA InspectStep == ASSUME IInv, Inspect PROVE IInv'
  <1> DEFINE b == BlockOf(op.page)
  <1>1. sys.kernel # "off" /\ UNCHANGED <<flash, dirty>> /\ op.kind \in {"program", "erase"}
    BY DEF Inspect, At, IInv, GuardInv, Mutating
  <1>2. CASE sys' = [sys EXCEPT !.failed = TRUE] /\ Finish("FAIL") /\ UNCHANGED promise
    <2>1. sys' \in SysType /\ sys'.kernel = sys.kernel /\ sys'.bbt = sys.bbt
      BY <1>2, InvTypes, SysUpdate
    <2> QED BY <1>1, <1>2, <2>1, QuietReport DEF Finish
  <1>3. CASE /\ BlockEmpty(b) /\ sys' = sys /\ Finish("ok")
             /\ promise' = [p \in PageNo |-> IF p \in PagesOf(b) THEN {"FF"} ELSE promise[p]]
    <2>1. op' \in OpType /\ op'.pc = "done" /\ op'.kind = op.kind
      BY <1>1, <1>3, ReportType, Geometry DEF Finish, Report
    <2>2. \A p \in PagesOf(b) : flash[p].data = "FF"
      BY <1>3 DEF BlockEmpty, RawErased
    <2> HIDE DEF b
    <2>3. promise' \in [PageNo -> SUBSET Contents]
      BY <1>3, InvTypes, Geometry
    <2>4. TypeOK'
      BY <1>1, <1>3, <2>1, <2>3, InvTypes DEF TypeOK, SysType
    <2>5. GuardInv'
      BY <1>1, <1>3, <2>1 DEF IInv, GuardInv, Mutating, At
    <2>6. PromiseInv'
      BY <1>1, <1>3, <2>1, <2>2 DEF IInv, PromiseInv
    <2>7. MarkInv' /\ DirtyInv'
      BY <1>1, <1>3 DEF IInv, MarkInv, MarkedWell, DirtyInv
    <2> QED BY <2>4, <2>5, <2>6, <2>7 DEF IInv
  <1> QED BY <1>2, <1>3 DEF Inspect

LEMMA WriteSpareStep ==
  ASSUME IInv, NEW p \in PageNo, NEW m \in Markers, WriteSpare(p, m)
  PROVE  IInv'
  <1> DEFINE b == BlockOf(p)
             table == IF m = "bad" THEN sys.bbt \cup {b} ELSE sys.bbt
  <1>1. /\ sys.kernel # "off" /\ op.pc = "done" /\ promise' = promise /\ dirty' = dirty
        /\ m \in {"clean", "bad"} /\ b \in BlockNo
        /\ m = "bad" => p - b * BlockPages \in {0, 1}
    BY PhysicalAssumption, BlockOfPage DEF WriteSpare, At
  <1>2. PICK late \in BOOLEAN, took \in BOOLEAN :
       /\ Refused(b) => ~took
       /\ flash' = IF took THEN [flash EXCEPT ![p].marks = @ \cup {m}] ELSE flash
       /\ sys' = [sys EXCEPT !.failed = @ \/ late \/ Refused(b), !.bbt = table]
       /\ Report("spare", IF took /\ ~sys'.failed THEN "ok" ELSE "EIO")
    BY DEF WriteSpare
  <1>3. table \in SUBSET BlockNo /\ sys.bbt \subseteq table /\ (m = "bad" => b \in table)
    BY <1>1, InvTypes
  <1> HIDE DEF b, table
  <1>4. sys' \in SysType /\ sys'.kernel = sys.kernel /\ sys'.bbt = table
    BY <1>2, <1>3, InvTypes DEF SysType, Refused
  <1>5. op' \in OpType /\ op'.pc = "done" /\ op'.kind = "spare"
    BY <1>2, ReportType, Geometry DEF Report
  <1>6. /\ flash' \in [PageNo -> PageType]
        /\ \A q \in PageNo : /\ flash'[q].data = flash[q].data
                             /\ \/ flash'[q].marks = flash[q].marks
                                \/ /\ q = p /\ ~Refused(b)
                                   /\ flash'[q].marks = flash[q].marks \cup {m}
    <2>1. CASE ~took
      BY <1>2, <2>1, InvTypes
    <2>2. CASE took
      <3> DEFINE new == [flash[p] EXCEPT !.marks = @ \cup {m}]
      <3>1. flash' = [flash EXCEPT ![p] = new] /\ ~Refused(b)
        BY <1>2, <2>2
      <3>2. new \in PageType /\ new.data = flash[p].data /\ new.marks = flash[p].marks \cup {m}
        BY <1>1, InvTypes DEF PageType
      <3> HIDE DEF new
      <3> QED BY <3>1, <3>2, InvTypes
    <2> QED BY <2>1, <2>2
  <1>7. TypeOK'
    BY <1>1, <1>4, <1>5, <1>6, InvTypes DEF TypeOK, SysType
  <1>8. GuardInv'
    BY <1>1, <1>4, <1>5 DEF IInv, GuardInv, Mutating, At
  <1>9. PromiseInv' /\ DirtyInv'
    BY <1>1, <1>5, <1>6, InvTypes DEF IInv, PromiseInv, DirtyInv
  <1>10. MarkInv'
    <2> SUFFICES ASSUME NEW q \in PageNo, "bad" \in flash'[q].marks
                 PROVE  MarkedWell(q) /\ (sys'.kernel # "off" => BlockOf(q) \in sys'.bbt)
      BY DEF MarkInv, MarkedWell
    <2>1. CASE "bad" \in flash[q].marks
      BY <1>1, <1>3, <1>4, <2>1 DEF IInv, MarkInv
    <2>2. CASE "bad" \notin flash[q].marks
      <3>1. q = p /\ m = "bad" /\ ~Refused(b)
        BY <1>6, <2>2
      <3> QED BY <1>1, <1>3, <1>4, <3>1 DEF MarkedWell, Refused, b
    <2> QED BY <2>1, <2>2
  <1> QED BY <1>7, <1>8, <1>9, <1>10 DEF IInv

LEMMA BootStep == ASSUME IInv, NEW k \in Kernels, Boot(k) PROVE IInv'
  <1>1. /\ sys.kernel = "off" /\ UNCHANGED <<flash, dirty, op, promise>>
        /\ sys' = [kernel |-> k, failed |-> FALSE, bbt |-> Manifest \cup Marked]
        /\ k # "off" /\ op.pc = "done"
    BY PhysicalAssumption DEF Boot, IInv, GuardInv
  <1>2. Marked \subseteq BlockNo
    BY Geometry DEF Marked
  <1>3. TypeOK'
    BY <1>1, <1>2, Geometry, InvTypes DEF TypeOK
  <1>4. GuardInv'
    BY <1>1 DEF GuardInv, Mutating, At
  <1>5. PromiseInv'
    BY <1>1 DEF IInv, PromiseInv
  <1>6. \A p \in PageNo : "bad" \in flash[p].marks => MarkedWell(p) /\ BlockOf(p) \in Marked
    BY MarkedBlock DEF IInv, MarkInv
  <1>7. MarkInv' /\ DirtyInv'
    BY <1>1, <1>6 DEF MarkInv, MarkedWell, IInv, DirtyInv
  <1> QED BY <1>3, <1>4, <1>5, <1>7 DEF IInv

LEMMA PowerOffStep == ASSUME IInv, PowerOff PROVE IInv'
  <1>1. /\ UNCHANGED <<flash, dirty, promise>>
        /\ sys' = [kernel |-> "off", failed |-> FALSE, bbt |-> {}]
    BY DEF PowerOff
  <1>2. op' \in OpType /\ op'.pc = "done" /\ op'.kind = "none"
    BY ReportType, Geometry DEF PowerOff, Report
  <1>3. TypeOK'
    BY <1>1, <1>2, InvTypes DEF TypeOK
  <1>4. GuardInv'
    BY <1>1, <1>2 DEF GuardInv, Mutating, At
  <1>5. PromiseInv' /\ MarkInv' /\ DirtyInv'
    BY <1>1, <1>2 DEF IInv, PromiseInv, MarkInv, MarkedWell, DirtyInv
  <1> QED BY <1>3, <1>4, <1>5 DEF IInv

LEMMA FadeStep == ASSUME IInv, NEW p \in PageNo, Fade(p) PROVE IInv'
  <1> DEFINE new == IF flash[p].weak THEN Torn(flash[p]) ELSE [flash[p] EXCEPT !.weak = TRUE]
  <1>1. flash' = [flash EXCEPT ![p] = new] /\ UNCHANGED <<sys, dirty, op, promise>>
    BY DEF Fade
  <1>2. /\ new \in PageType /\ new.marks = flash[p].marks
        /\ new.data \in {"torn", flash[p].data}
    BY InvTypes, ZenonT(40) DEF PageType, Torn
  <1> HIDE DEF new
  <1>3. /\ flash' \in [PageNo -> PageType]
        /\ \A q \in PageNo : /\ flash'[q].marks = flash[q].marks
                             /\ flash'[q].data \in {"torn", flash[q].data}
    BY <1>1, <1>2, InvTypes
  <1>4. TypeOK'
    BY <1>1, <1>3 DEF IInv, TypeOK
  <1>5. GuardInv'
    BY <1>1, <1>3, InvTypes DEF IInv, GuardInv, Mutating, At
  <1>6. PromiseInv'
    BY <1>1, <1>3 DEF IInv, PromiseInv
  <1>7. MarkInv' /\ DirtyInv'
    BY <1>1, <1>3, InvTypes DEF IInv, MarkInv, MarkedWell, DirtyInv
  <1> QED BY <1>4, <1>5, <1>6, <1>7 DEF IInv

LEMMA StutterStep == ASSUME IInv, UNCHANGED vars PROVE IInv'
  BY DEF vars, IInv, TypeOK, GuardInv, Mutating, At, PromiseInv, MarkInv, MarkedWell, DirtyInv

LEMMA StepInv == IInv /\ [Next]_vars => IInv'
  <1> SUFFICES ASSUME IInv, [Next]_vars PROVE IInv'
    OBVIOUS
  <1>1. CASE UNCHANGED vars
    BY <1>1, StutterStep
  <1>2. CASE \E p \in PageNo : Read(p) \/ Fade(p) \/ \E v \in Values : Program(p, v)
    BY <1>2, ReadStep, FadeStep, ProgramStep
  <1>3. CASE \E p \in PageNo, m \in Markers : WriteSpare(p, m)
    BY <1>3, WriteSpareStep
  <1>4. CASE \E b \in BlockNo : Erase(b)
    BY <1>4, EraseStep
  <1>5. CASE Driver
    BY <1>5, PageProgramStep, VerifyStep, EraseBlockStep, InspectStep, GiveUpStep DEF Driver
  <1>6. CASE \E k \in Kernels : Boot(k)
    BY <1>6, BootStep
  <1>7. CASE PowerOff
    BY <1>7, PowerOffStep
  <1> QED BY <1>1, <1>2, <1>3, <1>4, <1>5, <1>6, <1>7 DEF Next

LEMMA AlwaysInv == Spec => []IInv
  BY InitInv, StepInv, PTL DEF Spec

----------------------------------------------------------------------------
\* What a step may never do.

PageKept(p) ==
  /\ BlockOf(p) \notin Arena => flash'[p] = flash[p]
  /\ BlockOf(p) \in Manifest /\ sys.kernel = "linux42" =>
       flash'[p].data = flash[p].data /\ flash'[p].weak = flash[p].weak

Kept == \A p \in PageNo : PageKept(p)

LEMMA StepKeeps == IInv /\ [Next]_vars => Kept
  <1> SUFFICES ASSUME IInv, [Next]_vars, NEW p \in PageNo PROVE PageKept(p)
    BY DEF Kept
  <1>1. CASE flash' = flash
    BY <1>1 DEF PageKept
  <1>2. CASE PageProgram
    <2>1. op.page \in PageNo
          /\ (sys.kernel = "linux42" => BlockOf(op.page) \notin Manifest)
      BY <1>2, InvTypes DEF PageProgram, At, IInv, GuardInv, Mutating
    <2>2. CASE Refused(BlockOf(op.page))
      BY <1>2, <2>2 DEF PageProgram, PageKept
    <2>3. CASE ~Refused(BlockOf(op.page))
      <3>1. \E new : flash' = [flash EXCEPT ![op.page] = new]
        BY <1>2, <2>3 DEF PageProgram
      <3>2. p # op.page => flash'[p] = flash[p]
        BY <3>1, InvTypes
      <3> QED BY <2>1, <2>3, <3>2 DEF Refused, PageKept
    <2> QED BY <2>2, <2>3
  <1>3. CASE EraseBlock
    <2>1. op.page \in PageNo
          /\ (sys.kernel = "linux42" => BlockOf(op.page) \notin Manifest)
      BY <1>3, InvTypes DEF EraseBlock, At, IInv, GuardInv, Mutating
    <2>2. CASE Refused(BlockOf(op.page))
      BY <1>3, <2>2 DEF EraseBlock, PageKept
    <2>3. CASE ~Refused(BlockOf(op.page))
      <3>1. PICK empty, spoilt : flash' = Erased(BlockOf(op.page), empty, spoilt)
        BY <1>3, <2>3, ErasePromise
      <3>2. p \notin PagesOf(BlockOf(op.page)) => flash'[p] = flash[p]
        BY <3>1, ErasedPage
      <3> QED BY <2>1, <2>3, <3>2 DEF Refused, PagesOf, PageKept
    <2> QED BY <2>2, <2>3
  <1>4. ASSUME NEW q \in PageNo, NEW m \in Markers, WriteSpare(q, m) PROVE PageKept(p)
    <2>1. flash' = flash \/
          (~Refused(BlockOf(q)) /\ flash' = [flash EXCEPT ![q].marks = @ \cup {m}])
      BY <1>4 DEF WriteSpare
    <2>2. CASE flash' = flash
      BY <2>2 DEF PageKept
    <2>3. CASE ~Refused(BlockOf(q)) /\ flash' = [flash EXCEPT ![q].marks = @ \cup {m}]
      <3>1. CASE q = p
        <4>1. flash'[p] = [flash[p] EXCEPT !.marks = @ \cup {m}] /\ flash[p] \in PageType
          BY <2>3, <3>1, InvTypes
        <4>2. flash'[p].data = flash[p].data /\ flash'[p].weak = flash[p].weak
          BY <4>1 DEF PageType
        <4> QED BY <2>3, <3>1, <4>2 DEF Refused, PageKept
      <3>2. CASE q # p
        <4>1. flash'[p] = flash[p]
          BY <2>3, <3>2, InvTypes
        <4> QED BY <4>1 DEF PageKept
      <3> QED BY <3>1, <3>2
    <2> QED BY <2>1, <2>2, <2>3
  <1>5. ASSUME NEW q \in PageNo, Fade(q) PROVE PageKept(p)
    <2>1. BlockOf(q) \in Arena \ Manifest /\ \E new : flash' = [flash EXCEPT ![q] = new]
      BY <1>5 DEF Fade
    <2>2. p # q => flash'[p] = flash[p]
      BY <2>1, InvTypes
    <2> QED BY <2>1, <2>2 DEF PageKept
  <1> QED BY <1>1, <1>2, <1>3, <1>4, <1>5
          DEF Next, Driver, Read, Program, Erase, Verify, Inspect, GiveUp, Boot, PowerOff, vars

Sticks == sys.failed /\ sys'.kernel # "off" => sys'.failed /\ (op' # op => op'.result # "ok")

LEMMA ResultOf ==
  ASSUME NEW k, NEW p, NEW v, NEW r, NEW c
  PROVE  /\ Done(k, p, v, r).result = r
         /\ [Done(k, p, v, "none") EXCEPT !.pc = c].result = "none"
  BY DEF Done

LEMMA StepSticks == IInv /\ [Next]_vars => Sticks
  <1> SUFFICES ASSUME IInv, [Next]_vars, sys.failed, sys'.kernel # "off"
               PROVE  sys'.failed /\ (op' # op => op'.result # "ok")
    BY DEF Sticks
  <1>1. sys \in SysType /\ sys.kernel # "off"
    BY InvTypes DEF IInv, GuardInv
  <1>2. CASE UNCHANGED vars
    BY <1>2 DEF vars
  <1>3. ASSUME NEW p \in PageNo, Read(p) PROVE sys'.failed /\ op'.result # "ok"
    <2>1. sys'.failed
      BY <1>1, <1>3, MayFailType DEF Read
    <2> QED BY <1>3, <2>1, ResultOf DEF Read
  <1>4. ASSUME NEW p \in PageNo, NEW v \in Values, Program(p, v)
        PROVE sys'.failed /\ op'.result # "ok"
    <2>1. (MayFail \/ sys' = sys)
          /\ \/ Report("program", "EROFS") \/ Report("program", "EIO")
             \/ Begin("program", "program", p, v)
      BY <1>4 DEF Program
    <2>2. sys'.failed
      BY <1>1, <2>1, MayFailType
    <2>3. CASE Report("program", "EROFS") \/ Report("program", "EIO")
      BY <2>2, <2>3, ResultOf DEF Report
    <2>4. CASE Begin("program", "program", p, v)
      BY <2>2, <2>4, ResultOf DEF Begin
    <2> QED BY <2>1, <2>3, <2>4
  <1>5. ASSUME NEW b \in BlockNo, Erase(b) PROVE sys'.failed /\ op'.result # "ok"
    <2>1. CASE sys' = [sys EXCEPT !.failed = TRUE] /\ Report("erase", "FAIL")
      BY <1>1, <2>1, SysUpdate, ResultOf DEF Report
    <2>2. CASE sys' = sys /\ Begin("erase", "erase", b * BlockPages, "FF")
      BY <2>2, ResultOf DEF Begin
    <2> QED BY <1>5, <2>1, <2>2 DEF Erase
  <1>6. CASE GiveUp
    BY <1>1, <1>6, SysUpdate, ResultOf DEF GiveUp, Finish, Report
  <1>7. CASE PageProgram
    <2>1. CASE sys' = [sys EXCEPT !.failed = TRUE] /\ Finish("EIO")
      BY <1>1, <2>1, SysUpdate, ResultOf DEF Finish, Report
    <2>2. CASE ~Refused(BlockOf(op.page))
      <3>1. sys'.failed
        BY <1>1, <1>7, <2>2, MayFailType DEF PageProgram
      <3>2. Finish("EIO")
        BY <1>7, <2>2, <3>1 DEF PageProgram
      <3> QED BY <3>1, <3>2, ResultOf DEF Finish, Report
    <2> QED BY <1>7, <2>1, <2>2 DEF PageProgram
  <1>8. CASE Verify
    <2>1. sys'.failed
      BY <1>1, <1>8, MayFailType DEF Verify
    <2> QED BY <1>8, <2>1, ResultOf DEF Verify, Finish, Report
  <1>9. CASE EraseBlock
    <2>1. sys' = [sys EXCEPT !.failed = TRUE] \/
          \E late \in BOOLEAN :
            sys' = [sys EXCEPT !.failed = sys.failed \/ late \/ sys.kernel = "linux42"]
      BY <1>9 DEF EraseBlock
    <2>2. sys'.failed
      BY <1>1, <2>1 DEF SysType
    <2>3. Finish("FAIL")
      BY <1>9 DEF EraseBlock
    <2> QED BY <2>2, <2>3, ResultOf DEF Finish, Report
  <1>10. CASE Inspect
    <2>1. sys' = [sys EXCEPT !.failed = TRUE] /\ Finish("FAIL")
      BY <1>10 DEF Inspect
    <2> QED BY <1>1, <2>1, SysUpdate, ResultOf DEF Finish, Report
  <1>11. ASSUME NEW p \in PageNo, NEW m \in Markers, WriteSpare(p, m)
         PROVE  sys'.failed /\ op'.result # "ok"
    <2>1. sys'.failed
      BY <1>1, <1>11 DEF WriteSpare, SysType
    <2> QED BY <1>11, <2>1, ResultOf DEF WriteSpare, Report
  <1>12. ASSUME NEW p \in PageNo, Fade(p) PROVE sys'.failed /\ op' = op
    BY <1>12 DEF Fade
  <1>13. CASE PowerOff
    BY <1>13 DEF PowerOff
  <1>14. ASSUME NEW k \in Kernels, Boot(k) PROVE FALSE
    BY <1>1, <1>14 DEF Boot
  <1> QED BY <1>2, <1>3, <1>4, <1>5, <1>6, <1>7, <1>8, <1>9, <1>10, <1>11, <1>12, <1>13, <1>14
          DEF Next, Driver

----------------------------------------------------------------------------
\* What the driver promises.

\* Every reachable state has the declared types: physical_read_page,
\* physical_program and physical_erase report nothing else.
THEOREM TypeCorrect == Spec => []TypeOK
  <1>1. IInv => TypeOK
    BY DEF IInv
  <1> QED BY <1>1, AlwaysInv, PTL

\* A read that physical_read_page reports good gives contents some good or
\* unfinished mutation of that page left there.
THEOREM ReadsTrue == Spec => []ReadsAreTrue
  <1>1. IInv => ReadsAreTrue
    BY DEF IInv, PromiseInv, ReadsAreTrue
  <1> QED BY <1>1, AlwaysInv, PTL

\* physical_program never programs a page something was left in since an
\* erase emptied it, in whichever boot and by whichever kernel.
THEOREM ProgramsOnce == Spec => []NeverTwice
  <1>1. IInv => NeverTwice
    BY DEF IInv, GuardInv, NeverTwice
  <1> QED BY <1>1, AlwaysInv, PTL

\* physical_scan_bbt and physical_bbt see every marker either kernel set.
THEOREM MarkersFound == Spec => []MarkersKnown
  <1>1. IInv => MarkersKnown
    BY DEF IInv, MarkInv, MarkersKnown
  <1> QED BY <1>1, AlwaysInv, PTL

\* No step of either kernel changes a page outside the filesystem, spare
\* writes included, and none of Linux 4.2 the data of a quarantined block.
THEOREM QuarantineSafe == Spec => QuarantineKept
  <1>1. IInv /\ [Next]_vars =>
          [\A p \in PageNo :
             /\ BlockOf(p) \notin Arena => flash'[p] = flash[p]
             /\ BlockOf(p) \in Manifest /\ sys.kernel = "linux42" =>
                  flash'[p].data = flash[p].data /\ flash'[p].weak = flash[p].weak]_vars
    BY StepKeeps DEF Kept, PageKept
  <1> QED BY <1>1, AlwaysInv, PTL DEF Spec, QuarantineKept

\* After be300_nand_io_failed is set, no operation is reported good until
\* the next boot.
THEOREM FailureIsSticky == Spec => FailureSticks
  <1>1. IInv /\ [Next]_vars =>
          [sys.failed /\ sys'.kernel # "off" =>
             sys'.failed /\ (op' # op => op'.result # "ok")]_vars
    BY StepSticks DEF Sticks
  <1> QED BY <1>1, AlwaysInv, PTL DEF Spec, FailureSticks

=============================================================================
