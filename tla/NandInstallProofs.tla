-------------------------- MODULE NandInstallProofs --------------------------
(***************************************************************************)
(* Proofs about NandInstall for every geometry, number of images and of    *)
(* failing pages.  The invariant says what a CE chip and its backup look   *)
(* like (CeInv), what an installed chip keeps of the candidate however     *)
(* many pages failed since (KeptInv, ImageInv, ManifestInv), that the map  *)
(* of a running SPL leads to the installed image only (BootInv) and what   *)
(* the driver has learnt (DriverInv).  PackedInv adds what holds as long   *)
(* as no page failed: the image boots.                                     *)
(***************************************************************************)
EXTENDS NandInstall, FiniteSetTheorems, TLAPS

CePage(page) ==
  Parity(page) /\ page.tag # Marker /\ page.data[1] = CE /\ page.manifest = {}

CeInv ==
  /\ host.step \in {"ce", "packing", "refused"} => \A p \in PageNo : CePage(chip[p])
  /\ host.step \in {"packing", "linux"} =>
       /\ \A p \in PageNo : CePage(host.backup[p])
       /\ \A b \in host.bad : Untrusted(host.backup, b, FALSE)

KeptInv ==
  host.step = "linux" =>
    /\ 0 \notin host.bad
    /\ \A p \in PageNo : BlockOf(p) \in host.bad =>
         /\ chip[p].tag = host.backup[p].tag /\ chip[p].data = host.backup[p].data
         /\ chip[p].ecc = "good" => host.backup[p].ecc = "good"

\* A block outside the quarantine with one boot tag has it on every page.
ImageInv ==
  host.step \in {"linux", "dataonly"} =>
    \A p \in PageNo : BlockOf(p) \notin host.bad /\ chip[p].tag \in BootIds =>
      /\ \A q \in PagesOf(BlockOf(p)) : chip[q].tag = chip[p].tag
      /\ chip[p].data = <<host.image, chip[p].tag * BlockPages + (p % BlockPages)>>

ManifestInv ==
  /\ host.step = "linux" =>
       /\ Parity(chip[1]) /\ chip[1].manifest = {host.bad}
       /\ \A p \in PageNo : chip[p].manifest # {} => p = 1
       /\ \A p \in PageNo : BlockOf(p) \in GoodFs => chip[p].tag \notin BootIds
  /\ host.step # "linux" => \A p \in PageNo : chip[p].manifest = {}
  /\ host.step = "dataonly" => host.bad = {} /\ host.image = 1

\* Every block of the map carries the tag it stands for and is trusted.
MapRight(map) ==
  \A id \in BootIds : map.block[id] # NoBlock =>
    /\ map.block[id] \in BlockNo \ host.bad
    /\ \A q \in PagesOf(map.block[id]) : chip[q].tag = id

BootInv ==
  /\ spl.pc \in {"manifest", "load"} =>
       /\ MapRight(spl.map) \/ (spl.pc = "manifest" /\ chip[1].ecc = "bad")
       /\ spl.next \in FirstKernelPage .. BootBlocks * BlockPages - 1
  /\ spl.pc \in {"spl", "manifest", "load"} => driver.mode = "off"
  /\ spl.pc \in {"manifest", "load", "jumped"} => host.step \in {"linux", "dataonly"}
  /\ spl.pc \notin {"off", "failed"} =>
       spl.image = IF host.step \in {"linux", "dataonly"} THEN host.image ELSE CE
  /\ \A l \in spl.loaded : l[2] = <<host.image, l[1]>>
  /\ spl.pc = "off" => spl.loaded = {}
  /\ host.step \notin {"linux", "dataonly"} => spl.loaded = {}

DriverInv ==
  /\ driver.mode = "data" => host.step = "dataonly"
  /\ driver.mode = "physical" => host.step = "linux" /\ driver.bad = host.bad

SplType == [pc : {"off", "spl", "manifest", "load", "jumped", "failed"},
            image : FsData .. Images, map : MapType, next : Nat,
            loaded : SUBSET (BootPage \X Data)]

HostType == [step : {"ce", "dataonly", "packing", "linux", "refused"}, backup : ChipType,
             bad : SUBSET BlockNo, reference : ChipType, image : 0 .. Images,
             worn : 0 .. MaxWorn, faults : 0 .. MaxFaults, uses : 0 .. MaxUses]

DriverType == [mode : {"off", "none", "data", "physical"}, bad : SUBSET BlockNo]

TypeInv == chip \in ChipType /\ host \in HostType /\ spl \in SplType /\ driver \in DriverType

IInv == TypeInv /\ CeInv /\ KeptInv /\ ImageInv /\ ManifestInv /\ BootInv /\ DriverInv

----------------------------------------------------------------------------
\* Blocks and pages.

LEMMA Sizes ==
  /\ Blocks \in Nat \ {0} /\ BlockPages \in Nat \ {0, 1} /\ BootBlocks \in Nat \ {0}
  /\ FsEnd \in Nat /\ SplBlocks \in Nat \ {0} /\ SplBlocks + 1 < BootBlocks
  /\ BootBlocks < FsEnd /\ FsEnd < Blocks
  /\ Voters \in 1 .. BlockPages /\ Quorum \in Nat \ {0}
  /\ BootIds \subseteq BlockNo /\ Arena \subseteq BlockNo /\ 1 \in BootIds /\ 0 \in BootIds
  /\ 0 \in BlockNo /\ NoBlock \notin BlockNo
  BY BootAssumption DEF BootIds, BlockNo, Arena, NoBlock

LEMMA PageAt ==
  ASSUME NEW b \in BlockNo, NEW i \in 0 .. BlockPages - 1
  PROVE  /\ b * BlockPages + i \in PageNo /\ BlockOf(b * BlockPages + i) = b
         /\ (b * BlockPages + i) % BlockPages = i
  <1>1. b \in Nat /\ b + 1 <= Blocks /\ BlockPages \in Nat \ {0} /\ Blocks \in Nat
        /\ i \in Nat /\ i < BlockPages
    BY Sizes DEF BlockNo
  <1>2. (b + 1) * BlockPages <= Blocks * BlockPages
    BY <1>1
  <1>3. b * BlockPages \in Nat /\ b * BlockPages + BlockPages = (b + 1) * BlockPages
    BY <1>1
  <1>4. b * BlockPages + i < Blocks * BlockPages /\ Blocks * BlockPages \in Nat
    BY <1>1, <1>2, <1>3
  <1>5. (b * BlockPages + i) \div BlockPages = b /\ (b * BlockPages + i) % BlockPages = i
    BY <1>1
  <1> QED BY <1>1, <1>3, <1>4, <1>5 DEF PageNo, BlockOf

LEMMA PageSplit ==
  ASSUME NEW p \in PageNo
  PROVE  /\ BlockOf(p) \in BlockNo /\ p % BlockPages \in 0 .. BlockPages - 1
         /\ p = BlockOf(p) * BlockPages + (p % BlockPages) /\ p \in PagesOf(BlockOf(p))
  <1>1. p \in Nat /\ p < Blocks * BlockPages /\ Blocks \in Nat /\ BlockPages \in Nat \ {0}
    BY Sizes DEF PageNo
  <1> DEFINE q == p \div BlockPages
             r == p % BlockPages
  <1>2. q \in Nat /\ r \in 0 .. BlockPages - 1 /\ p = q * BlockPages + r
    BY <1>1
  <1> HIDE DEF q, r
  <1>3. q < Blocks
    <2> SUFFICES ASSUME q >= Blocks PROVE FALSE
      BY <1>1, <1>2
    <2>1. q * BlockPages >= Blocks * BlockPages
      BY <1>1, <1>2
    <2>2. q * BlockPages \in Int /\ Blocks * BlockPages \in Int
      BY <1>1, <1>2
    <2> QED BY <1>1, <1>2, <2>1, <2>2
  <1>4. p \in PagesOf(q)
    BY <1>2 DEF PagesOf
  <1> QED BY <1>2, <1>3, <1>1, <1>4 DEF BlockNo, BlockOf, q, r

LEMMA PageOfBlock ==
  ASSUME NEW b \in BlockNo, NEW p \in PagesOf(b)
  PROVE  p \in PageNo /\ BlockOf(p) = b
  <1>1. PICK i \in 0 .. BlockPages - 1 : p = b * BlockPages + i
    BY DEF PagesOf
  <1> QED BY <1>1, PageAt

LEMMA SampleOfBlock ==
  ASSUME NEW b \in BlockNo
  PROVE  Sample(b) \subseteq PagesOf(b) /\ IsFiniteSet(Sample(b))
  <1>1. Voters \in Nat /\ BlockPages \in Nat /\ Voters <= BlockPages
    BY Sizes
  <1>2. 0 .. Voters - 1 \subseteq 0 .. BlockPages - 1
    BY <1>1
  <1>3. Sample(b) \subseteq PagesOf(b)
    BY <1>2 DEF Sample, PagesOf
  <1>4. \A p \in Sample(b) : p \in PageNo
    BY <1>3, PageOfBlock
  <1> DEFINE last == Blocks * BlockPages
  <1>5. last \in Nat /\ PageNo = 0 .. last - 1
    BY Sizes DEF PageNo
  <1> HIDE DEF last
  <1>6. Sample(b) \in SUBSET Nat /\ \A p \in Sample(b) : p <= last
    BY <1>4, <1>5
  <1>7. IsFiniteSet(Sample(b))
    BY <1>5, <1>6, FS_BoundedSetOfNaturals
  <1> QED BY <1>3, <1>7

LEMMA FirstPages ==
  /\ 1 \in PageNo /\ BlockOf(1) = 0
  /\ \A b \in BlockNo : b * BlockPages \in PagesOf(b) /\ b * BlockPages \in PageNo
  <1>1. 0 \in 0 .. BlockPages - 1 /\ 1 \in 0 .. BlockPages - 1 /\ 0 \in BlockNo
    BY Sizes
  <1>2. 0 * BlockPages + 1 = 1
    BY Sizes
  <1>3. 1 \in PageNo /\ BlockOf(1) = 0
    BY <1>1, <1>2, PageAt
  <1>4. ASSUME NEW b \in BlockNo PROVE b * BlockPages \in PagesOf(b)
    <2>1. b * BlockPages + 0 = b * BlockPages
      BY Sizes DEF BlockNo
    <2> QED BY <1>1, <2>1 DEF PagesOf
  <1> QED BY <1>3, <1>4, PageOfBlock

\* Logical pages have a boot block and an offset.
LEMMA BootPageSplit ==
  ASSUME NEW page \in BootPage
  PROVE  /\ page \div BlockPages \in BootIds /\ page % BlockPages \in 0 .. BlockPages - 1
         /\ page = (page \div BlockPages) * BlockPages + (page % BlockPages)
  <1>1. page \in Nat /\ page < BootBlocks * BlockPages /\ BootBlocks \in Nat
        /\ BlockPages \in Nat \ {0}
    BY Sizes DEF BootPage
  <1> DEFINE q == page \div BlockPages
             r == page % BlockPages
  <1>2. q \in Nat /\ r \in 0 .. BlockPages - 1 /\ page = q * BlockPages + r
    BY <1>1
  <1> HIDE DEF q, r
  <1>3. q < BootBlocks
    <2> SUFFICES ASSUME q >= BootBlocks PROVE FALSE
      BY <1>1, <1>2
    <2>1. q * BlockPages >= BootBlocks * BlockPages
      BY <1>1, <1>2
    <2>2. q * BlockPages \in Int /\ BootBlocks * BlockPages \in Int
      BY <1>1, <1>2
    <2> QED BY <1>1, <1>2, <2>1, <2>2
  <1> QED BY <1>2, <1>3, <1>1 DEF BootIds, q, r

LEMMA KernelPages ==
  /\ FirstKernelPage \in FirstKernelPage .. BootBlocks * BlockPages - 1
  /\ FirstKernelPage .. BootBlocks * BlockPages - 1 \subseteq BootPage
  /\ BootPage \subseteq PageNo
  /\ \A page \in FirstKernelPage .. BootBlocks * BlockPages - 1 : page + 1 \in BootPage =>
       page + 1 \in FirstKernelPage .. BootBlocks * BlockPages - 1
  <1>1. BlockPages \in Nat \ {0} /\ SplBlocks \in Nat /\ BootBlocks \in Nat /\ Blocks \in Nat
        /\ SplBlocks + 2 <= BootBlocks /\ BootBlocks <= Blocks
    BY Sizes
  <1>2. (SplBlocks + 2) * BlockPages <= BootBlocks * BlockPages
    BY <1>1
  <1>3. BootBlocks * BlockPages <= Blocks * BlockPages
    BY <1>1
  <1>4. (SplBlocks + 2) * BlockPages = (SplBlocks + 1) * BlockPages + BlockPages
    BY <1>1
  <1> DEFINE first == (SplBlocks + 1) * BlockPages
             last == BootBlocks * BlockPages
             size == Blocks * BlockPages
  <1>5. first \in Nat /\ last \in Nat /\ size \in Nat /\ first < last /\ last <= size
    BY <1>1, <1>2, <1>3, <1>4
  <1> HIDE DEF first, last, size
  <1>6. /\ first \in first .. last - 1 /\ first .. last - 1 \subseteq 0 .. last - 1
        /\ 0 .. last - 1 \subseteq 0 .. size - 1
        /\ \A page \in first .. last - 1 : page + 1 \in 0 .. last - 1 =>
             page + 1 \in first .. last - 1
    BY <1>5
  <1> QED BY <1>6 DEF first, last, size, FirstKernelPage, BootPage, PageNo

----------------------------------------------------------------------------
\* Votes.

LEMMA VotesFinite ==
  ASSUME NEW b \in BlockNo, NEW c, NEW tag, NEW lenient
  PROVE  /\ IsFiniteSet(Votes(c, b, tag, lenient))
         /\ Votes(c, b, tag, lenient) \subseteq PagesOf(b)
         /\ Cardinality(Votes(c, b, tag, lenient)) \in Nat
  <1>1. Votes(c, b, tag, lenient) \in SUBSET Sample(b)
    BY DEF Votes
  <1>2. IsFiniteSet(Votes(c, b, tag, lenient))
    BY <1>1, SampleOfBlock, FS_Subset
  <1> QED BY <1>1, <1>2, SampleOfBlock, FS_CardinalityType

\* A block that is elected has a page with the tag.
LEMMA ElectedTag ==
  ASSUME NEW b \in BlockNo, NEW c, NEW tag, NEW lenient, Elects(c, b, tag, lenient)
  PROVE  \E p \in PagesOf(b) : c[p].tag = tag
  <1> DEFINE votes == Votes(c, b, tag, lenient)
  <1>1. Cardinality(votes) >= Quorum /\ Quorum \in Nat \ {0}
    BY Sizes DEF Elects
  <1>2. votes # {}
    <2> SUFFICES ASSUME votes = {} PROVE FALSE
      OBVIOUS
    <2>1. Cardinality(votes) = 0
      BY FS_EmptySet
    <2> QED BY <1>1, <2>1
  <1>3. PICK p \in votes : TRUE
    BY <1>2
  <1>4. p \in PagesOf(b)
    BY VotesFinite
  <1>5. c[p].tag = tag
    BY DEF Votes
  <1> QED BY <1>4, <1>5

\* A block left out of the vote of the backup is elected by the ROM at most
\* with a page that cannot be read.
LEMMA QuarantineNotIntact ==
  ASSUME NEW c, NEW backup, NEW b \in BlockNo, NEW id \in BlockNo,
         Untrusted(backup, b, FALSE), Elects(c, b, id, FALSE),
         \A p \in PagesOf(b) : /\ c[p].tag = backup[p].tag
                               /\ c[p].ecc = "good" => backup[p].ecc = "good"
  PROVE  \E p \in PagesOf(b) : c[p].ecc # "good"
  <1> SUFFICES ASSUME \A p \in PagesOf(b) : c[p].ecc = "good" PROVE FALSE
    OBVIOUS
  <1> DEFINE mine == Votes(c, b, id, FALSE)
             theirs == Votes(backup, b, id, FALSE)
             protected == {p \in theirs : Parity(backup[p])}
  <1>1. \A p \in Sample(b) : Readable(backup[p], FALSE) /\ Parity(backup[p])
    BY SampleOfBlock DEF Readable, Parity
  <1>2. \A p \in mine : p \in Sample(b) /\ backup[p].tag = id
    BY SampleOfBlock DEF Votes
  <1>3. \A p \in mine : p \in protected
    BY <1>1, <1>2 DEF Votes
  <1>4. mine \in SUBSET protected /\ protected \in SUBSET theirs /\ IsFiniteSet(theirs)
    BY <1>3, VotesFinite
  <1>5. IsFiniteSet(protected)
    BY <1>4, FS_Subset
  <1>6. Cardinality(mine) <= Cardinality(protected) /\ Cardinality(protected) \in Nat
    BY <1>4, <1>5, FS_Subset, FS_CardinalityType
  <1>7. Cardinality(mine) >= Quorum /\ Cardinality(mine) \in Nat /\ Quorum \in Nat
    BY VotesFinite, Sizes DEF Elects
  <1> HIDE DEF mine, theirs, protected
  <1>8. Cardinality(protected) >= Quorum
    BY <1>6, <1>7
  <1>9. ElectsProtected(backup, b, id, FALSE)
    BY <1>8 DEF ElectsProtected, theirs, protected
  <1> QED BY <1>1, <1>9 DEF Untrusted

\* The map of a scan has its parts, and what it maps was elected by a block
\* the manifest does not exclude.
LEMMA ScanResult ==
  ASSUME NEW c, NEW lenient, Excluded(c, lenient) \subseteq BlockNo
  PROVE  /\ Scan(c, lenient) \in MapType
         /\ \A id \in BootIds : Scan(c, lenient).block[id] # NoBlock =>
              /\ Scan(c, lenient).block[id] \in BlockNo \ Excluded(c, lenient)
              /\ Elects(c, Scan(c, lenient).block[id], id, lenient)
         /\ \A b \in Scan(c, lenient).quarantine :
              b \in Excluded(c, lenient) \/ (b \in BlockNo /\ Untrusted(c, b, lenient))
         /\ Parity(c[1]) => Scan(c, lenient).protected
  <1> DEFINE out == Excluded(c, lenient)
             voting == BlockNo \ out
             protected == \E p \in {1} \cup UNION {Sample(b) : b \in voting} : Parity(c[p])
             elected == [id \in BootIds |-> {b \in voting : Elects(c, b, id, lenient)}]
             kept == [id \in BootIds |->
                        {b \in elected[id] : protected => ElectsProtected(c, b, id, lenient)}]
             block == [id \in BootIds |->
                         IF kept[id] = {} THEN NoBlock ELSE CHOOSE b \in kept[id] : TRUE]
             quarantine == out \cup {b \in voting : Untrusted(c, b, lenient)}
             agree == \A id \in BootIds : \A b, d \in elected[id] : b = d
  <1>1. Scan(c, lenient) = [ok |-> agree, protected |-> protected, block |-> block,
                            quarantine |-> quarantine]
    BY DEF Scan
  <1>2. \A id \in BootIds : kept[id] \subseteq elected[id] /\ elected[id] \subseteq voting
    OBVIOUS
  <1>3. \A id \in BootIds : \A b \in kept[id] : b \in voting /\ Elects(c, b, id, lenient)
    OBVIOUS
  <1>4. \A id \in BootIds : block[id] # NoBlock => block[id] \in kept[id]
    OBVIOUS
  <1>5. \A id \in BootIds : block[id] # NoBlock =>
           block[id] \in BlockNo \ out /\ Elects(c, block[id], id, lenient)
    BY <1>3, <1>4
  <1>6. Parity(c[1]) => protected
    OBVIOUS
  <1>7. agree \in BOOLEAN /\ protected \in BOOLEAN /\ quarantine \in SUBSET BlockNo
    OBVIOUS
  <1>8. block \in [BootIds -> BlockNo \cup {NoBlock}]
    BY <1>5
  <1>9. \A b \in quarantine : b \in out \/ (b \in BlockNo /\ Untrusted(c, b, lenient))
    OBVIOUS
  <1> HIDE DEF out, voting, protected, elected, kept, block, quarantine, agree
  <1>10. Scan(c, lenient) \in MapType
    BY <1>1, <1>7, <1>8 DEF MapType
  <1>11. /\ Scan(c, lenient).block = block /\ Scan(c, lenient).protected = protected
         /\ Scan(c, lenient).quarantine = quarantine
    BY <1>1
  <1> QED BY <1>5, <1>6, <1>9, <1>10, <1>11 DEF out

----------------------------------------------------------------------------
\* Types.

PageType == [ecc : {"good", "bad", "none"}, tag : Tag, data : Data,
             manifest : SUBSET SUBSET BlockNo]

LEMMA NewPage ==
  ASSUME NEW e \in {"good", "bad", "none"}, NEW t \in Tag, NEW m \in FsData .. Images,
         NEW at \in PageNo
  PROVE  LET page == Page(e, t, m, at) IN
         /\ page \in PageType /\ page.ecc = e /\ page.tag = t /\ page.manifest = {}
         /\ page.data = <<m, at>> /\ page.data[1] = m
  BY DEF Page, PageType, Data

LEMMA Numbers ==
  /\ CE \in FsData .. Images /\ FsData \in FsData .. Images /\ 1 \in FsData .. Images
  /\ 0 .. Images \subseteq FsData .. Images /\ 1 \in 0 .. Images /\ CE \in 0 .. Images
  /\ 0 \in PageNo /\ 0 \in 0 .. MaxWorn /\ 0 \in 0 .. MaxFaults /\ 0 \in 0 .. MaxUses
  /\ Images \in Nat /\ MaxWorn \in Nat /\ MaxFaults \in Nat /\ MaxUses \in Nat
  <1>1. 0 * BlockPages = 0 /\ 0 \in BlockNo
    BY Sizes
  <1>2. 0 \in PageNo
    BY <1>1, FirstPages
  <1> QED BY <1>2, InstallAssumption DEF CE, FsData

LEMMA Tags ==
  /\ BlockNo \subseteq Tag /\ {Journal, Erased, Blank, Marker} \subseteq Tag
  /\ Journal \notin BlockNo /\ Erased \notin BlockNo /\ Blank \notin BlockNo
  /\ Marker \notin BlockNo /\ Marker # Journal /\ Marker # Erased /\ Marker # Blank
  BY Sizes DEF Tag, BlockNo, Journal, Erased, Blank, Marker

LEMMA ChipPages ==
  /\ ChipType = [PageNo -> PageType]
  /\ \A c \in ChipType : \A p \in PageNo : c[p] \in PageType
  BY DEF ChipType, PageType

LEMMA MarkedPage ==
  ASSUME NEW page \in PageType
  PROVE  LET marked == [page EXCEPT !.tag = Marker] IN
         /\ marked \in PageType /\ marked.ecc = page.ecc /\ marked.tag = Marker
         /\ marked.data = page.data /\ marked.manifest = page.manifest
  BY Tags DEF PageType

LEMMA FailedPage ==
  ASSUME NEW page \in PageType
  PROVE  LET failed == [page EXCEPT !.ecc = "bad"] IN
         /\ failed \in PageType /\ failed.ecc = "bad" /\ failed.tag = page.tag
         /\ failed.data = page.data /\ failed.manifest = page.manifest
  BY DEF PageType

LEMMA LinuxPage ==
  ASSUME NEW page \in {FsPage, BlankPage, TornPage}
  PROVE  page \in PageType /\ page.tag = Blank /\ page.manifest = {}
  BY NewPage, Numbers, FirstPages, Tags DEF FsPage, BlankPage, TornPage

LEMMA OffType == Off \in SplType /\ Off.pc = "off" /\ Off.image = CE /\ Off.loaded = {}
  <1>1. NoMap \in MapType
    BY DEF NoMap, MapType
  <1> QED BY <1>1, Numbers DEF Off, SplType

----------------------------------------------------------------------------
\* The invariant holds at first.

LEMMA CePages ==
  ASSUME CeChip
  PROVE  /\ chip \in ChipType
         /\ \A p \in PageNo : CePage(chip[p]) /\ chip[p].manifest = {}
  <1>1. PICK gone \in {NoBlock} \cup 1 .. FsEnd - 1, last \in {Erased, Journal} :
          chip = [p \in PageNo |->
              LET b == BlockOf(p) IN
              IF b = gone THEN Page("bad", b, CE, p)
              ELSE IF b = FsEnd /\ gone # NoBlock
                   THEN Page("good", gone, CE, (gone * BlockPages) + (p % BlockPages))
              ELSE IF b = Blocks - 1 THEN Page("good", last, CE, 0)
              ELSE IF b >= FsEnd THEN Page("good", Erased, CE, 0)
              ELSE Page("good", b, CE, p)]
    BY DEF CeChip
  <1>2. ASSUME NEW p \in PageNo
        PROVE  \E e \in {"good", "bad"}, t \in Tag \ {Marker}, at \in PageNo :
                 chip[p] = Page(e, t, CE, at)
    <2> DEFINE b == BlockOf(p)
    <2>1. b \in BlockNo /\ p % BlockPages \in 0 .. BlockPages - 1
      BY PageSplit
    <2>2. b \in Tag \ {Marker} /\ last \in Tag \ {Marker} /\ Erased \in Tag \ {Marker}
      BY <2>1, Tags
    <2>3. gone # NoBlock => gone \in BlockNo
      BY Sizes DEF BlockNo
    <2>4. gone # NoBlock => gone \in Tag \ {Marker}
                            /\ (gone * BlockPages) + (p % BlockPages) \in PageNo
      BY <2>1, <2>3, Tags, PageAt
    <2>5. chip[p] =
            IF b = gone THEN Page("bad", b, CE, p)
            ELSE IF b = FsEnd /\ gone # NoBlock
                 THEN Page("good", gone, CE, (gone * BlockPages) + (p % BlockPages))
            ELSE IF b = Blocks - 1 THEN Page("good", last, CE, 0)
            ELSE IF b >= FsEnd THEN Page("good", Erased, CE, 0)
            ELSE Page("good", b, CE, p)
      BY <1>1
    <2> HIDE DEF b
    <2>6. CASE b = gone
      <3>1. chip[p] = Page("bad", b, CE, p)
        BY <2>5, <2>6
      <3> QED BY <2>2, <3>1
    <2>7. CASE b # gone /\ b = FsEnd /\ gone # NoBlock
      <3>1. chip[p] = Page("good", gone, CE, (gone * BlockPages) + (p % BlockPages))
        BY <2>5, <2>7
      <3> QED BY <2>4, <2>7, <3>1
    <2>8. CASE b # gone /\ ~(b = FsEnd /\ gone # NoBlock)
      <3>1. \/ chip[p] = Page("good", last, CE, 0) \/ chip[p] = Page("good", Erased, CE, 0)
            \/ chip[p] = Page("good", b, CE, p)
        BY <2>5, <2>8
      <3> QED BY <2>2, <3>1, Numbers
    <2> QED BY <2>6, <2>7, <2>8
  <1>3. ASSUME NEW p \in PageNo
        PROVE  chip[p] \in PageType /\ CePage(chip[p]) /\ chip[p].manifest = {}
    <2>1. PICK e \in {"good", "bad"}, t \in Tag \ {Marker}, at \in PageNo :
            chip[p] = Page(e, t, CE, at)
      BY <1>2
    <2>2. chip[p] \in PageType /\ chip[p].ecc = e /\ chip[p].tag = t
          /\ chip[p].manifest = {} /\ chip[p].data[1] = CE
      BY <2>1, NewPage, Numbers
    <2> QED BY <2>2 DEF CePage, Parity
  <1>4. DOMAIN chip = PageNo /\ chip = [p \in DOMAIN chip |-> chip[p]]
    BY <1>1
  <1>5. chip \in [PageNo -> PageType]
    BY <1>3, <1>4
  <1> QED BY <1>3, <1>5, ChipPages

LEMMA DataOnlyPages ==
  ASSUME DataOnlyChip
  PROVE  /\ chip \in ChipType
         /\ \A p \in PageNo : /\ chip[p].tag = BlockOf(p) /\ chip[p].data = <<1, p>>
                              /\ chip[p].manifest = {}
  <1>1. \A p \in PageNo : chip[p] = Page("none", BlockOf(p), 1, p)
    BY DEF DataOnlyChip
  <1>2. ASSUME NEW p \in PageNo
        PROVE  /\ chip[p] \in PageType /\ chip[p].tag = BlockOf(p) /\ chip[p].data = <<1, p>>
               /\ chip[p].manifest = {}
    <2>1. BlockOf(p) \in Tag
      BY PageSplit, Tags
    <2> QED BY <1>1, <2>1, NewPage, Numbers
  <1>3. chip \in [PageNo -> PageType]
    BY <1>2 DEF DataOnlyChip
  <1> QED BY <1>2, <1>3, ChipPages

LEMMA InitInv == Init => IInv
  <1> SUFFICES ASSUME Init PROVE IInv
    OBVIOUS
  <1>1. PICK step \in {"ce", "dataonly"} :
          /\ IF step = "ce" THEN CeChip ELSE DataOnlyChip
          /\ host = [step |-> step, backup |-> chip, bad |-> {}, reference |-> chip,
                     image |-> IF step = "ce" THEN CE ELSE 1,
                     worn |-> 0, faults |-> 0, uses |-> 0]
    BY DEF Init
  <1>2. spl = Off /\ driver = [mode |-> "off", bad |-> {}]
    BY DEF Init
  <1>3. host.step = step /\ host.bad = {} /\ host.backup = chip
        /\ host.image = (IF step = "ce" THEN CE ELSE 1)
    BY <1>1
  <1>4. chip \in ChipType /\ \A p \in PageNo : chip[p].manifest = {}
    BY <1>1, CePages, DataOnlyPages
  <1>5. host \in HostType
    BY <1>1, <1>4, Numbers DEF HostType
  <1>6. driver \in DriverType /\ driver.mode = "off"
    BY <1>2 DEF DriverType
  <1>7. TypeInv
    BY <1>2, <1>4, <1>5, <1>6, OffType DEF TypeInv
  <1>8. CeInv
    BY <1>1, <1>3, CePages DEF CeInv
  <1>9. KeptInv
    BY <1>1, <1>3 DEF KeptInv
  <1>10. ImageInv
    <2> SUFFICES ASSUME step = "dataonly", NEW p \in PageNo
                 PROVE  /\ \A q \in PagesOf(BlockOf(p)) : chip[q].tag = chip[p].tag
                        /\ chip[p].data =
                             <<host.image, chip[p].tag * BlockPages + (p % BlockPages)>>
      BY <1>1, <1>3 DEF ImageInv
    <2>1. /\ chip[p].tag = BlockOf(p) /\ chip[p].data = <<1, p>> /\ BlockOf(p) \in BlockNo
          /\ p = BlockOf(p) * BlockPages + (p % BlockPages)
      BY <1>1, DataOnlyPages, PageSplit
    <2>2. \A q \in PagesOf(BlockOf(p)) : chip[q].tag = BlockOf(p)
      BY <1>1, <2>1, DataOnlyPages, PageOfBlock
    <2> QED BY <1>3, <2>1, <2>2
  <1>11. ManifestInv
    BY <1>1, <1>3, <1>4 DEF ManifestInv
  <1>12. BootInv
    BY <1>2, OffType DEF BootInv
  <1>13. DriverInv
    BY <1>6 DEF DriverInv
  <1> QED BY <1>7, <1>8, <1>9, <1>10, <1>11, <1>12, <1>13 DEF IInv

----------------------------------------------------------------------------
\* The boot and the set-up of the driver leave chip and host alone.

LEMMA SameChip ==
  ASSUME IInv, UNCHANGED <<chip, host>>
  PROVE  CeInv' /\ KeptInv' /\ ImageInv' /\ ManifestInv'
  <1>1. CeInv' <=> CeInv
    BY DEF CeInv
  <1>2. KeptInv' <=> KeptInv
    BY DEF KeptInv
  <1>3. ImageInv' <=> ImageInv
    BY DEF ImageInv
  <1>4. ManifestInv' <=> ManifestInv
    BY DEF ManifestInv, GoodFs, Good
  <1> QED BY <1>1, <1>2, <1>3, <1>4 DEF IInv

\* A boot step: the new state of the SPL is typed and keeps BootInv.
LEMMA SameDriver ==
  ASSUME IInv, UNCHANGED <<chip, host, driver>>, spl' \in SplType, BootInv'
  PROVE  IInv'
  <1>1. TypeInv'
    BY DEF IInv, TypeInv
  <1>2. DriverInv'
    BY DEF IInv, DriverInv
  <1> QED BY <1>1, <1>2, SameChip DEF IInv

LEMMA ExcludedBlocks ==
  ASSUME TypeInv, NEW lenient
  PROVE  Excluded(chip, lenient) \subseteq BlockNo
  <1>1. chip[1] \in PageType
    BY ChipPages, FirstPages DEF TypeInv
  <1>2. chip[1].manifest \in SUBSET SUBSET BlockNo
    BY <1>1 DEF PageType
  <1> QED BY <1>2 DEF Excluded

\* Any scan of an installed chip whose manifest can be read leads to the
\* installed image only.
LEMMA ScanRight ==
  ASSUME IInv, host.step \in {"linux", "dataonly"}, NEW lenient,
         host.step = "linux" => chip[1].ecc = "good"
  PROVE  MapRight(Scan(chip, lenient))
  <1> DEFINE map == Scan(chip, lenient)
  <1>1. Excluded(chip, lenient) = host.bad
    <2>1. CASE host.step = "linux"
      BY <2>1 DEF IInv, ManifestInv, Excluded, Readable
    <2>2. CASE host.step = "dataonly"
      <3>1. chip[1].manifest = {} /\ host.bad = {}
        BY <2>2, FirstPages DEF IInv, ManifestInv
      <3> QED BY <3>1 DEF Excluded
    <2> QED BY <2>1, <2>2
  <1>2. ASSUME NEW id \in BootIds, map.block[id] # NoBlock
        PROVE  /\ map.block[id] \in BlockNo \ host.bad
               /\ \A q \in PagesOf(map.block[id]) : chip[q].tag = id
    <2> DEFINE b == map.block[id]
    <2>1. b \in BlockNo \ host.bad /\ Elects(chip, b, id, lenient)
      BY <1>1, <1>2, ScanResult, ExcludedBlocks DEF IInv
    <2> HIDE DEF b
    <2>2. PICK p \in PagesOf(b) : chip[p].tag = id
      BY <2>1, ElectedTag
    <2>3. p \in PageNo /\ BlockOf(p) = b
      BY <2>1, PageOfBlock
    <2>4. \A q \in PagesOf(b) : chip[q].tag = id
      BY <2>1, <2>2, <2>3 DEF IInv, ImageInv
    <2> QED BY <2>1, <2>4 DEF b
  <1> QED BY <1>2 DEF MapRight

\* The SPL the ROM starts on an installed chip is the installed one.
LEMMA RomRight ==
  ASSUME IInv, NEW b \in RomPlaces(chip, 1), \A p \in PagesOf(b) : chip[p].ecc = "good"
  PROVE  /\ b \in BlockNo /\ b * BlockPages \in PageNo
         /\ host.step = "linux" => chip[b * BlockPages].data[1] = host.image
  <1>1. b \in BlockNo /\ Elects(chip, b, 1, FALSE)
    BY DEF RomPlaces
  <1>2. b * BlockPages \in PagesOf(b) /\ b * BlockPages \in PageNo
    BY <1>1, FirstPages
  <1>3. ASSUME host.step = "linux" PROVE chip[b * BlockPages].data[1] = host.image
    <2>1. b \notin host.bad
      <3> SUFFICES ASSUME b \in host.bad PROVE FALSE
        OBVIOUS
      <3>1. Untrusted(host.backup, b, FALSE)
        BY <1>3 DEF IInv, CeInv
      <3>2. \A p \in PagesOf(b) : /\ chip[p].tag = host.backup[p].tag
                                  /\ chip[p].ecc = "good" => host.backup[p].ecc = "good"
        BY <1>1, <1>3, PageOfBlock DEF IInv, KeptInv
      <3>3. 1 \in BlockNo
        BY Sizes
      <3>4. \E p \in PagesOf(b) : chip[p].ecc # "good"
        BY <1>1, <3>1, <3>2, <3>3, QuarantineNotIntact
      <3> QED BY <3>4
    <2>2. PICK p \in PagesOf(b) : chip[p].tag = 1
      <3>1. \A lenient : Elects(chip, b, 1, lenient) => \E q \in PagesOf(b) : chip[q].tag = 1
        BY <1>1, ElectedTag
      <3> QED BY <1>1, <3>1, Zenon
    <2>3. p \in PageNo /\ BlockOf(p) = b /\ 1 \in BootIds
      BY <1>1, PageOfBlock, Sizes
    <2>4. chip[b * BlockPages].tag = 1
      BY <1>2, <1>3, <2>1, <2>2, <2>3 DEF IInv, ImageInv
    <2>5. BlockOf(b * BlockPages) = b
      BY <1>1, <1>2, PageOfBlock
    <2> DEFINE first == b * BlockPages
    <2>6. first \in PageNo /\ BlockOf(first) \notin host.bad /\ chip[first].tag \in BootIds
      BY <1>2, <2>1, <2>3, <2>4, <2>5
    <2> HIDE DEF first
    <2>7. chip[first].data =
            <<host.image, chip[first].tag * BlockPages + (first % BlockPages)>>
      BY <1>3, <2>6 DEF IInv, ImageInv
    <2>8. chip[first].data[1] = host.image
      BY <2>7
    <2> QED BY <2>8 DEF first
  <1> QED BY <1>1, <1>2, <1>3

LEMMA SplFailed ==
  ASSUME IInv, UNCHANGED <<chip, host, driver>>, spl' = [spl EXCEPT !.pc = "failed"]
  PROVE  IInv'
  <1>1. spl \in SplType /\ BootInv
    BY DEF IInv, TypeInv
  <1>2. spl' \in SplType /\ spl'.pc = "failed" /\ spl'.loaded = spl.loaded
    BY <1>1 DEF SplType
  <1>3. BootInv'
    BY <1>1, <1>2 DEF BootInv
  <1> QED BY <1>2, <1>3, SameDriver

LEMMA RomInv == IInv /\ Rom => IInv'
  <1> SUFFICES ASSUME IInv, Rom PROVE IInv'
    OBVIOUS
  <1>1. spl.pc = "off" /\ driver.mode = "off" /\ UNCHANGED <<chip, host, driver>>
    BY DEF Rom
  <1>2. spl \in SplType /\ spl.loaded = {} /\ host \in HostType
    BY <1>1 DEF IInv, TypeInv, BootInv
  <1>3. ASSUME NEW m \in FsData .. Images, spl' = [spl EXCEPT !.pc = "spl", !.image = m],
               m = IF host.step \in {"linux", "dataonly"} THEN host.image ELSE CE
        PROVE  IInv'
    <2>1. spl' \in SplType /\ spl'.pc = "spl" /\ spl'.image = m /\ spl'.loaded = spl.loaded
      BY <1>2, <1>3 DEF SplType
    <2>2. BootInv'
      BY <1>1, <1>2, <1>3, <2>1 DEF BootInv
    <2> QED BY <1>1, <2>1, <2>2, SameDriver
  <1>4. CASE host.step = "dataonly" /\ spl' = [spl EXCEPT !.pc = "spl", !.image = 1]
    <2>1. host.image = 1
      BY <1>4 DEF IInv, ManifestInv
    <2> QED BY <1>3, <1>4, <2>1, Numbers
  <1>5. CASE Fail
    BY <1>1, <1>5, SplFailed DEF Fail
  <1>6. ASSUME host.step # "dataonly", NEW b \in RomPlaces(chip, 1),
               \A p \in PagesOf(b) : chip[p].ecc = "good",
               spl' = [spl EXCEPT !.pc = "spl", !.image = chip[b * BlockPages].data[1]]
        PROVE  IInv'
    <2> DEFINE m == chip[b * BlockPages].data[1]
    <2>1. b * BlockPages \in PageNo /\ (host.step = "linux" => m = host.image)
      BY <1>6, RomRight
    <2>2. host.step # "linux" => m = CE
      BY <1>2, <1>6, <2>1 DEF IInv, CeInv, CePage, HostType
    <2>3. m \in FsData .. Images
      BY <1>2, <2>1, <2>2, Numbers DEF HostType
    <2>4. spl' = [spl EXCEPT !.pc = "spl", !.image = m]
      BY <1>6
    <2> HIDE DEF m
    <2> QED BY <1>3, <1>6, <2>1, <2>2, <2>3, <2>4
  <1> QED BY <1>4, <1>5, <1>6 DEF Rom

LEMMA MappedPage ==
  ASSUME NEW map \in MapType, NEW page \in BootPage,
         map.block[page \div BlockPages] # NoBlock
  PROVE  LET p == PhysicalPage(map, page) IN
         /\ p \in PageNo /\ p % BlockPages = page % BlockPages
         /\ BlockOf(p) = map.block[page \div BlockPages] /\ p \in PagesOf(BlockOf(p))
  <1> DEFINE b == map.block[page \div BlockPages]
             i == page % BlockPages
  <1>1. page \div BlockPages \in BootIds /\ i \in 0 .. BlockPages - 1
    BY BootPageSplit
  <1>2. b \in BlockNo
    BY <1>1 DEF MapType
  <1>3. PhysicalPage(map, page) = b * BlockPages + i
    BY DEF PhysicalPage
  <1> HIDE DEF b, i
  <1>4. /\ b * BlockPages + i \in PageNo /\ BlockOf(b * BlockPages + i) = b
        /\ (b * BlockPages + i) % BlockPages = i
    BY <1>1, <1>2, PageAt
  <1> QED BY <1>3, <1>4, PageSplit DEF b, i

LEMMA SplScanInv == IInv /\ SplScan => IInv'
  <1> SUFFICES ASSUME IInv, SplScan PROVE IInv'
    OBVIOUS
  <1> DEFINE s == Scan(chip, TRUE)
  <1>1. /\ spl.pc = "spl" /\ spl.image # CE /\ UNCHANGED <<chip, host, driver>>
        /\ \/ spl' = [spl EXCEPT !.pc = IF s.protected THEN "manifest" ELSE "load",
                                 !.map = s, !.next = FirstKernelPage]
           \/ Fail
    BY DEF SplScan
  <1>2. spl \in SplType /\ TypeInv
    BY DEF IInv, TypeInv
  <1>3. host.step \in {"linux", "dataonly"} /\ spl.image = host.image
        /\ driver.mode = "off"
    BY <1>1 DEF IInv, BootInv
  <1>4. \A lenient : /\ Scan(chip, lenient) \in MapType
                     /\ Parity(chip[1]) => Scan(chip, lenient).protected
    BY <1>2, ScanResult, ExcludedBlocks
  <1>5. s \in MapType /\ (Parity(chip[1]) => s.protected)
    BY <1>4, Zenon
  <1>6. \A lenient : (host.step = "linux" => chip[1].ecc = "good") =>
          MapRight(Scan(chip, lenient))
    BY <1>3, ScanRight
  <1>7. (host.step = "linux" => chip[1].ecc = "good") => MapRight(s)
    BY <1>6, Zenon
  <1>8. chip[1] \in PageType
    BY <1>2, FirstPages, ChipPages DEF TypeInv
  <1>9. chip[1].ecc \in {"good", "bad"} \/ host.step # "linux"
    BY <1>8 DEF IInv, ManifestInv, Parity, PageType
  <1>10. MapRight(s) \/ (s.protected /\ chip[1].ecc = "bad")
    BY <1>5, <1>7, <1>9 DEF Parity
  <1> HIDE DEF s
  <1>11. CASE Fail
    BY <1>1, <1>11, SplFailed DEF Fail
  <1>12. CASE spl' = [spl EXCEPT !.pc = IF s.protected THEN "manifest" ELSE "load",
                                 !.map = s, !.next = FirstKernelPage]
    <2> DEFINE pc == IF s.protected THEN "manifest" ELSE "load"
               first == FirstKernelPage
    <2>1. pc \in {"manifest", "load"} /\ (s.protected => pc = "manifest")
      OBVIOUS
    <2>2. first \in Nat /\ first \in first .. BootBlocks * BlockPages - 1
      BY KernelPages, Sizes DEF FirstKernelPage
    <2>3. spl' = [spl EXCEPT !.pc = pc, !.map = s, !.next = first]
      BY <1>12
    <2> HIDE DEF pc, first
    <2>4. /\ spl' \in SplType /\ spl'.pc = pc /\ spl'.map = s /\ spl'.next = first
          /\ spl'.image = spl.image /\ spl'.loaded = spl.loaded
      BY <1>2, <1>5, <2>1, <2>2, <2>3 DEF SplType
    <2>5. MapRight(spl'.map) \/ (spl'.pc = "manifest" /\ chip[1].ecc = "bad")
      BY <1>10, <2>1, <2>4
    <2>6. MapRight(spl.map)' \/ (spl.pc = "manifest" /\ chip[1].ecc = "bad")'
      BY <1>1, <2>5 DEF MapRight
    <2>7. BootInv'
      BY <1>1, <1>3, <2>1, <2>2, <2>4, <2>6 DEF IInv, BootInv, first
    <2> QED BY <1>1, <2>4, <2>7, SameDriver
  <1> QED BY <1>1, <1>11, <1>12

LEMMA SplManifestInv == IInv /\ SplManifest => IInv'
  <1> SUFFICES ASSUME IInv, SplManifest PROVE IInv'
    OBVIOUS
  <1>1. /\ spl.pc = "manifest" /\ UNCHANGED <<chip, host, driver>>
        /\ \/ ManifestRead /\ spl' = [spl EXCEPT !.pc = "load"]
           \/ Fail
    BY DEF SplManifest
  <1>2. spl \in SplType /\ spl.map \in MapType
    BY DEF IInv, TypeInv, SplType
  <1>3. CASE Fail
    BY <1>1, <1>3, SplFailed DEF Fail
  <1>4. CASE ManifestRead /\ spl' = [spl EXCEPT !.pc = "load"]
    <2> DEFINE p == PhysicalPage(spl.map, 1)
    <2>1. /\ spl.map.block[1 \div BlockPages] # NoBlock
          /\ chip[p].ecc = "good" /\ chip[p].manifest # {}
      BY <1>4 DEF ManifestRead, ReadOk, Readable
    <2>2. 1 \in BootPage
      <3>1. BootBlocks * BlockPages \in Nat /\ BootBlocks * BlockPages >= 2 * BootBlocks
        BY Sizes
      <3>2. BootBlocks * BlockPages - 1 >= 1
        BY <3>1, Sizes
      <3> QED BY <3>1, <3>2 DEF BootPage
    <2>3. p \in PageNo
      BY <1>2, <2>1, <2>2, MappedPage
    <2> HIDE DEF p
    <2>4. chip[1].ecc # "bad"
      BY <2>1, <2>3 DEF IInv, ManifestInv
    <2>5. MapRight(spl.map)
      BY <1>1, <2>4 DEF IInv, BootInv
    <2>6. /\ spl' \in SplType /\ spl'.pc = "load" /\ spl'.map = spl.map /\ spl'.next = spl.next
          /\ spl'.image = spl.image /\ spl'.loaded = spl.loaded
      BY <1>2, <1>4 DEF SplType
    <2>7. MapRight(spl.map)'
      BY <1>1, <2>5, <2>6 DEF MapRight
    <2>8. BootInv'
      BY <1>1, <2>6, <2>7 DEF IInv, BootInv
    <2> QED BY <1>1, <2>6, <2>8, SameDriver
  <1> QED BY <1>1, <1>3, <1>4

LEMMA SplLoadInv == IInv /\ SplLoad => IInv'
  <1> SUFFICES ASSUME IInv, SplLoad PROVE IInv'
    OBVIOUS
  <1> DEFINE page == spl.next
             p == PhysicalPage(spl.map, page)
             data == chip[p].data
             pc == IF page + 1 \in BootPage THEN "load" ELSE "jumped"
  <1>1. /\ spl.pc = "load" /\ UNCHANGED <<chip, host, driver>>
        /\ \/ /\ spl.map.block[page \div BlockPages] # NoBlock
              /\ spl' = [spl EXCEPT !.loaded = @ \cup {<<page, data>>}, !.next = @ + 1, !.pc = pc]
           \/ Fail
    BY DEF SplLoad, ReadOk
  <1>2. /\ spl \in SplType /\ spl.map \in MapType /\ chip \in ChipType /\ MapRight(spl.map)
        /\ page \in FirstKernelPage .. BootBlocks * BlockPages - 1
        /\ host.step \in {"linux", "dataonly"} /\ driver.mode = "off"
    BY <1>1 DEF IInv, TypeInv, SplType, BootInv
  <1>3. CASE Fail
    BY <1>1, <1>3, SplFailed DEF Fail
  <1>4. CASE /\ spl.map.block[page \div BlockPages] # NoBlock
             /\ spl' = [spl EXCEPT !.loaded = @ \cup {<<page, data>>}, !.next = @ + 1, !.pc = pc]
    <2> DEFINE id == page \div BlockPages
    <2>1. page \in BootPage /\ page \in Nat
      BY <1>2, KernelPages DEF BootPage
    <2>2. id \in BootIds /\ page = id * BlockPages + (page % BlockPages)
      BY <2>1, BootPageSplit
    <2>3. /\ p \in PageNo /\ p % BlockPages = page % BlockPages
          /\ BlockOf(p) = spl.map.block[id] /\ p \in PagesOf(BlockOf(p))
      BY <1>2, <1>4, <2>1, MappedPage
    <2>4. pc \in {"load", "jumped"} /\ (pc = "load" =>
            page + 1 \in FirstKernelPage .. BootBlocks * BlockPages - 1)
      BY <1>2, KernelPages
    <2>5. data \in Data
      BY <1>2, <2>3, ChipPages DEF PageType
    <2> HIDE DEF id, p, page
    <2>6. BlockOf(p) \notin host.bad /\ chip[p].tag = id
      BY <1>2, <1>4, <2>2, <2>3 DEF MapRight, id
    <2>7. chip[p].data = <<host.image, id * BlockPages + (p % BlockPages)>>
      BY <1>2, <2>2, <2>3, <2>6 DEF IInv, ImageInv
    <2>8. data = <<host.image, page>>
      BY <2>2, <2>3, <2>7
    <2>9. <<page, data>> \in BootPage \X Data
      BY <2>1, <2>5
    <2> HIDE DEF data, pc
    <2>10. /\ spl' \in SplType /\ spl'.pc = pc /\ spl'.map = spl.map /\ spl'.image = spl.image
           /\ spl'.next = page + 1 /\ spl'.loaded = spl.loaded \cup {<<page, data>>}
      <3> DEFINE more == spl.loaded \cup {<<page, data>>}
      <3>1. spl.loaded \in SUBSET (BootPage \X Data) /\ spl.next \in Nat
        BY <1>2 DEF SplType
      <3>2. more \in SUBSET (BootPage \X Data) /\ page + 1 \in Nat
        BY <2>1, <2>9, <3>1
      <3>3. spl' = [spl EXCEPT !.loaded = more, !.next = page + 1, !.pc = pc]
        BY <1>4 DEF page
      <3>4. pc \in {"load", "jumped"}
        BY <2>4
      <3> HIDE DEF more
      <3>5. /\ spl' \in SplType /\ spl'.pc = pc /\ spl'.map = spl.map
            /\ spl'.image = spl.image /\ spl'.next = page + 1 /\ spl'.loaded = more
        BY <1>2, <3>2, <3>3, <3>4 DEF SplType
      <3> QED BY <3>5 DEF more
    <2>11. MapRight(spl.map)'
      BY <1>1, <1>2, <2>10 DEF MapRight
    <2>12. \A l \in spl'.loaded : l[2] = <<host.image, l[1]>>
      BY <2>8, <2>10 DEF IInv, BootInv
    <2>13. BootInv'
      BY <1>1, <1>2, <2>4, <2>10, <2>11, <2>12 DEF IInv, BootInv
    <2> QED BY <1>1, <2>10, <2>13, SameDriver
  <1> QED BY <1>1, <1>3, <1>4

LEMMA SameBoot ==
  ASSUME IInv, UNCHANGED <<chip, host, spl>>, spl.pc \in {"off", "jumped"},
         driver' \in DriverType, DriverInv'
  PROVE  IInv'
  <1>1. TypeInv'
    BY DEF IInv, TypeInv
  <1>2. BootInv'
    BY DEF IInv, BootInv, MapRight
  <1> QED BY <1>1, <1>2, SameChip DEF IInv

LEMMA FirstManifest ==
  ASSUME IInv, NEW p \in PageNo, chip[p].manifest # {}
  PROVE  p = 1 /\ host.step = "linux" /\ UNION chip[p].manifest = host.bad
  BY DEF IInv, ManifestInv

LEMMA Setup42Inv == IInv /\ Setup42 => IInv'
  <1> SUFFICES ASSUME IInv, Setup42 PROVE IInv'
    OBVIOUS
  <1> DEFINE s == Scan(chip, FALSE)
             p == PhysicalPage(s, 1)
             bad == IF Mode42 = "physical" THEN UNION chip[p].manifest ELSE {}
  <1>1. /\ driver.mode = "off" /\ spl.pc \in {"off", "jumped"} /\ UNCHANGED <<chip, host, spl>>
        /\ driver' = [mode |-> Mode42, bad |-> bad]
    BY DEF Setup42
  <1>2. host \in HostType
    BY DEF IInv, TypeInv
  <1>3. ASSUME Mode42 = "data" PROVE host.step = "dataonly"
    <2>1. ~Parity(chip[1])
      BY <1>3 DEF Mode42
    <2> QED BY <1>2, <2>1, FirstPages DEF IInv, CeInv, CePage, ManifestInv, HostType
  <1>4. \A lenient : Scan(chip, lenient) \in MapType
    BY ScanResult, ExcludedBlocks DEF IInv
  <1>5. s \in MapType
    BY <1>4, Zenon
  <1>6. ASSUME Mode42 = "physical" PROVE host.step = "linux" /\ bad = host.bad
    <2>1. s.block[1 \div BlockPages] # NoBlock /\ chip[p].manifest # {}
      BY <1>6 DEF Mode42, ReadOk
    <2>2. 1 \in BootPage
      <3>1. BootBlocks * BlockPages \in Nat /\ BootBlocks * BlockPages >= 2 * BootBlocks
        BY Sizes
      <3>2. BootBlocks * BlockPages - 1 >= 1
        BY <3>1, Sizes
      <3> QED BY <3>1, <3>2 DEF BootPage
    <2>3. p \in PageNo
      BY <1>5, <2>1, <2>2, MappedPage
    <2> HIDE DEF p
    <2>4. host.step = "linux" /\ UNION chip[p].manifest = host.bad
      BY <2>1, <2>3, FirstManifest
    <2> QED BY <1>6, <2>4
  <1>7. Mode42 \in {"none", "data", "physical"}
    BY DEF Mode42
  <1>8. bad \in SUBSET BlockNo
    BY <1>2, <1>6 DEF HostType
  <1> HIDE DEF bad
  <1>9. driver' \in DriverType /\ driver'.mode = Mode42 /\ driver'.bad = bad
    BY <1>1, <1>7, <1>8 DEF DriverType
  <1>10. DriverInv'
    BY <1>1, <1>3, <1>6, <1>9 DEF DriverInv
  <1> QED BY <1>1, <1>9, <1>10, SameBoot

LEMMA SetupLegacyInv == IInv /\ SetupLegacy => IInv'
  <1> SUFFICES ASSUME IInv, SetupLegacy PROVE IInv'
    OBVIOUS
  <1>1. /\ driver.mode = "off" /\ spl.pc \in {"off", "jumped"} /\ UNCHANGED <<chip, host, spl>>
        /\ \/ /\ chip[1].manifest # {}
              /\ driver' = [mode |-> "physical", bad |-> UNION chip[1].manifest]
           \/ driver' = [mode |-> "none", bad |-> {}]
    BY DEF SetupLegacy
  <1>2. host \in HostType
    BY DEF IInv, TypeInv
  <1>3. CASE /\ chip[1].manifest # {}
             /\ driver' = [mode |-> "physical", bad |-> UNION chip[1].manifest]
    <2>1. host.step = "linux" /\ UNION chip[1].manifest = host.bad
      BY <1>3, FirstManifest, FirstPages
    <2>2. driver' = [mode |-> "physical", bad |-> host.bad] /\ host.bad \in SUBSET BlockNo
      BY <1>2, <1>3, <2>1 DEF HostType
    <2>3. driver' \in DriverType /\ driver'.mode = "physical" /\ driver'.bad = host.bad
      BY <2>2 DEF DriverType
    <2>4. DriverInv'
      BY <1>1, <2>1, <2>3 DEF DriverInv
    <2> QED BY <1>1, <2>3, <2>4, SameBoot
  <1>4. CASE driver' = [mode |-> "none", bad |-> {}]
    <2>1. driver' \in DriverType /\ driver'.mode = "none"
      BY <1>4 DEF DriverType
    <2>2. DriverInv'
      BY <2>1 DEF DriverInv
    <2> QED BY <1>1, <2>1, <2>2, SameBoot
  <1> QED BY <1>1, <1>3, <1>4

LEMMA PowerOffInv == IInv /\ PowerOff => IInv'
  <1> SUFFICES ASSUME IInv, PowerOff PROVE IInv'
    OBVIOUS
  <1>1. spl' = Off /\ driver' = [mode |-> "off", bad |-> {}] /\ UNCHANGED <<chip, host>>
    BY DEF PowerOff
  <1>2. /\ spl' \in SplType /\ spl'.pc = "off" /\ spl'.loaded = {}
    BY <1>1, OffType
  <1>3. driver' \in DriverType /\ driver'.mode = "off"
    BY <1>1 DEF DriverType
  <1>4. TypeInv' /\ BootInv' /\ DriverInv'
    BY <1>1, <1>2, <1>3 DEF IInv, TypeInv, BootInv, DriverInv
  <1> QED BY <1>4, <1>1, SameChip DEF IInv

----------------------------------------------------------------------------
\* Steps of the chip.

LEMMA CountedFault ==
  ASSUME host \in HostType,
         \/ host.worn < MaxWorn /\ host' = [host EXCEPT !.worn = @ + 1]
         \/ host.faults < MaxFaults /\ host' = [host EXCEPT !.faults = @ + 1]
         \/ host.uses < MaxUses /\ host' = [host EXCEPT !.uses = @ + 1]
  PROVE  /\ host' \in HostType /\ host'.step = host.step /\ host'.bad = host.bad
         /\ host'.backup = host.backup /\ host'.image = host.image
  <1>1. host.worn < MaxWorn => host.worn + 1 \in 0 .. MaxWorn
    BY Numbers DEF HostType
  <1>2. host.faults < MaxFaults => host.faults + 1 \in 0 .. MaxFaults
    BY Numbers DEF HostType
  <1>3. host.uses < MaxUses => host.uses + 1 \in 0 .. MaxUses
    BY Numbers DEF HostType
  <1>4. CASE host.worn < MaxWorn /\ host' = [host EXCEPT !.worn = @ + 1]
    BY <1>1, <1>4 DEF HostType
  <1>5. CASE host.faults < MaxFaults /\ host' = [host EXCEPT !.faults = @ + 1]
    BY <1>2, <1>5 DEF HostType
  <1>6. CASE host.uses < MaxUses /\ host' = [host EXCEPT !.uses = @ + 1]
    BY <1>3, <1>6 DEF HostType
  <1> QED BY <1>4, <1>5, <1>6

LEMMA WearInv == ASSUME IInv, NEW p \in PageNo, Wear(p) PROVE IInv'
  <1>1. /\ chip[p].ecc # "bad" /\ chip' = [chip EXCEPT ![p].ecc = "bad"]
        /\ UNCHANGED <<spl, driver>>
        /\ \/ host.worn < MaxWorn /\ host' = [host EXCEPT !.worn = @ + 1]
           \/ host.faults < MaxFaults /\ host' = [host EXCEPT !.faults = @ + 1]
    BY DEF Wear
  <1>2. chip \in ChipType /\ host \in HostType /\ spl \in SplType /\ driver \in DriverType
    BY DEF IInv, TypeInv
  <1>3. /\ host' \in HostType /\ host'.step = host.step /\ host'.bad = host.bad
        /\ host'.backup = host.backup /\ host'.image = host.image
    BY <1>1, <1>2, CountedFault
  <1>4. /\ chip' = [chip EXCEPT ![p] = [chip[p] EXCEPT !.ecc = "bad"]] /\ DOMAIN chip = PageNo
        /\ chip[p] \in PageType
    BY <1>1, <1>2, ChipPages
  <1> DEFINE failed == [chip[p] EXCEPT !.ecc = "bad"]
  <1>5. /\ failed \in PageType /\ failed.ecc = "bad" /\ failed.tag = chip[p].tag
        /\ failed.data = chip[p].data /\ failed.manifest = chip[p].manifest
    BY <1>4, FailedPage
  <1>6. chip' = [chip EXCEPT ![p] = failed]
    BY <1>4
  <1> HIDE DEF failed
  <1>7. chip' \in ChipType
    BY <1>2, <1>5, <1>6, ChipPages
  <1>8. \A q \in PageNo : /\ chip'[q].tag = chip[q].tag /\ chip'[q].data = chip[q].data
                          /\ chip'[q].manifest = chip[q].manifest
                          /\ chip'[q].ecc = chip[q].ecc \/ chip'[q].ecc = "bad"
    BY <1>4, <1>5, <1>6
  <1>9. TypeInv'
    BY <1>1, <1>2, <1>3, <1>7 DEF TypeInv
  <1>10. CeInv'
    <2>1. \A q \in PageNo : CePage(chip[q]) => CePage(chip'[q])
      BY <1>8 DEF CePage, Parity
    <2> QED BY <1>3, <2>1 DEF IInv, CeInv
  <1>11. KeptInv'
    BY <1>3, <1>8 DEF IInv, KeptInv
  <1>12. ImageInv'
    <2> SUFFICES ASSUME host.step \in {"linux", "dataonly"}, NEW q \in PageNo,
                        BlockOf(q) \notin host.bad, chip'[q].tag \in BootIds
                 PROVE  /\ \A r \in PagesOf(BlockOf(q)) : chip'[r].tag = chip'[q].tag
                        /\ chip'[q].data = <<host.image, chip'[q].tag * BlockPages + (q % BlockPages)>>
      BY <1>3 DEF ImageInv
    <2>1. \A r \in PagesOf(BlockOf(q)) : r \in PageNo
      BY PageSplit, PageOfBlock
    <2>2. /\ \A r \in PagesOf(BlockOf(q)) : chip[r].tag = chip[q].tag
          /\ chip[q].data = <<host.image, chip[q].tag * BlockPages + (q % BlockPages)>>
      BY <1>8 DEF IInv, ImageInv
    <2> QED BY <1>8, <2>1, <2>2
  <1>13. ManifestInv'
    <2>1. Parity(chip[1]) => Parity(chip'[1])
      BY <1>8, FirstPages DEF Parity
    <2>2. GoodFs' = GoodFs
      BY <1>3 DEF GoodFs, Good
    <2> QED BY <1>3, <1>8, <2>1, <2>2, FirstPages DEF IInv, ManifestInv
  <1>14. BootInv'
    <2>1. spl.pc \in {"manifest", "load"} /\ MapRight(spl.map) => MapRight(spl.map)'
      <3> SUFFICES ASSUME MapRight(spl.map), NEW id \in BootIds, spl.map.block[id] # NoBlock
                   PROVE  /\ spl.map.block[id] \in BlockNo \ host.bad
                          /\ \A q \in PagesOf(spl.map.block[id]) : chip'[q].tag = id
        BY <1>1, <1>3 DEF MapRight
      <3>1. /\ spl.map.block[id] \in BlockNo \ host.bad
            /\ \A q \in PagesOf(spl.map.block[id]) : chip[q].tag = id
        BY DEF MapRight
      <3> QED BY <1>8, <3>1, PageOfBlock
    <2>2. chip[1].ecc = "bad" => chip'[1].ecc = "bad"
      BY <1>8, FirstPages
    <2> QED BY <1>1, <1>3, <2>1, <2>2 DEF IInv, BootInv
  <1>15. DriverInv'
    BY <1>1, <1>3 DEF IInv, DriverInv
  <1> QED BY <1>9, <1>10, <1>11, <1>12, <1>13, <1>14, <1>15 DEF IInv

\* What Linux does to a page of its filesystem.
LEMMA LinuxStep ==
  ASSUME IInv, NEW p \in PageNo, Writable(BlockOf(p)), NEW page \in PageType,
         chip' = [chip EXCEPT ![p] = page], page.tag \notin BootIds,
         page.manifest = {} \/ page.manifest = chip[p].manifest,
         host' = [host EXCEPT !.uses = @ + 1], UNCHANGED <<spl, driver>>
  PROVE  IInv'
  <1>1. /\ driver.mode = "physical" /\ host.uses < MaxUses /\ BlockOf(p) \in Arena
        /\ BlockOf(p) \notin driver.bad
    BY DEF Writable
  <1>2. chip \in ChipType /\ host \in HostType /\ spl \in SplType /\ driver \in DriverType
    BY DEF IInv, TypeInv
  <1>3. /\ host' \in HostType /\ host'.step = host.step /\ host'.bad = host.bad
        /\ host'.backup = host.backup /\ host'.image = host.image
    BY <1>1, <1>2, CountedFault
  <1>4. host.step = "linux" /\ driver.bad = host.bad
    BY <1>1 DEF IInv, DriverInv
  <1>5. BlockOf(p) \in GoodFs /\ BlockOf(p) \notin host.bad
    BY <1>1, <1>4 DEF GoodFs, Good
  <1>6. p # 1
    BY <1>1, FirstPages, Sizes DEF Arena
  <1>7. chip[p].manifest = {} /\ page.manifest = {}
    BY <1>4, <1>6 DEF IInv, ManifestInv
  <1>8. DOMAIN chip = PageNo /\ chip' \in ChipType
    BY <1>2, ChipPages
  <1>9. chip'[p] = page /\ \A q \in PageNo : q # p => chip'[q] = chip[q]
    BY <1>8
  <1>10. TypeInv'
    BY <1>2, <1>3, <1>8 DEF TypeInv
  <1>11. CeInv'
    BY <1>3, <1>4 DEF IInv, CeInv
  <1>12. KeptInv'
    BY <1>3, <1>5, <1>9 DEF IInv, KeptInv
  <1>13. ImageInv'
    <2> SUFFICES ASSUME NEW q \in PageNo, BlockOf(q) \notin host.bad, chip'[q].tag \in BootIds
                 PROVE  /\ \A r \in PagesOf(BlockOf(q)) : chip'[r].tag = chip'[q].tag
                        /\ chip'[q].data = <<host.image, chip'[q].tag * BlockPages + (q % BlockPages)>>
      BY <1>3 DEF ImageInv
    <2>1. chip'[q] = chip[q]
      BY <1>9
    <2>2. BlockOf(q) \notin GoodFs
      BY <1>4, <2>1 DEF IInv, ManifestInv
    <2>3. \A r \in PagesOf(BlockOf(q)) : r \in PageNo /\ BlockOf(r) = BlockOf(q)
      BY PageSplit, PageOfBlock
    <2>4. \A r \in PagesOf(BlockOf(q)) : chip'[r] = chip[r]
      BY <1>5, <1>9, <2>2, <2>3
    <2>5. /\ \A r \in PagesOf(BlockOf(q)) : chip[r].tag = chip[q].tag
          /\ chip[q].data = <<host.image, chip[q].tag * BlockPages + (q % BlockPages)>>
      BY <1>4, <2>1 DEF IInv, ImageInv
    <2> QED BY <2>1, <2>4, <2>5
  <1>14. ManifestInv'
    <2>1. GoodFs' = GoodFs
      BY <1>3 DEF GoodFs, Good
    <2>2. chip'[1] = chip[1]
      BY <1>6, <1>9, FirstPages
    <2>3. \A q \in PageNo : chip'[q].manifest # {} => q = 1
      BY <1>4, <1>7, <1>9 DEF IInv, ManifestInv
    <2>4. \A q \in PageNo : BlockOf(q) \in GoodFs => chip'[q].tag \notin BootIds
      BY <1>4, <1>9 DEF IInv, ManifestInv
    <2> QED BY <1>3, <1>4, <2>1, <2>2, <2>3, <2>4 DEF IInv, ManifestInv
  <1>15. BootInv'
    BY <1>1, <1>3 DEF IInv, BootInv
  <1>16. DriverInv'
    BY <1>3 DEF IInv, DriverInv
  <1> QED BY <1>10, <1>11, <1>12, <1>13, <1>14, <1>15, <1>16 DEF IInv

LEMMA UseInv == ASSUME IInv, NEW p \in PageNo, Use(p) PROVE IInv'
  <1>1. PICK page \in {FsPage, BlankPage, TornPage} : chip' = [chip EXCEPT ![p] = page]
    BY DEF Use
  <1>2. page \in PageType /\ page.tag \notin BootIds /\ page.manifest = {}
    BY LinuxPage, Tags, Sizes
  <1>3. Writable(BlockOf(p)) /\ host' = [host EXCEPT !.uses = @ + 1] /\ UNCHANGED <<spl, driver>>
    BY DEF Use
  <1> QED BY <1>1, <1>2, <1>3, LinuxStep

LEMMA MarkBadInv ==
  ASSUME IInv, NEW b \in Arena, NEW i \in {0, 1}, MarkBad(b, i)
  PROVE  IInv'
  <1> DEFINE p == b * BlockPages + i
             page == [chip[p] EXCEPT !.tag = Marker]
  <1>1. /\ Writable(b) /\ chip' = [chip EXCEPT ![p].tag = Marker]
        /\ host' = [host EXCEPT !.uses = @ + 1] /\ UNCHANGED <<spl, driver>>
    BY DEF MarkBad
  <1>2. b \in BlockNo /\ i \in 0 .. BlockPages - 1
    BY Sizes
  <1>3. p \in PageNo /\ BlockOf(p) = b
    BY <1>2, PageAt
  <1> HIDE DEF p
  <1>4. chip[p] \in PageType /\ DOMAIN chip = PageNo
    BY <1>3, ChipPages DEF IInv, TypeInv
  <1>5. /\ page \in PageType /\ page.tag = Marker /\ page.manifest = chip[p].manifest
    BY <1>4, MarkedPage
  <1>6. chip' = [chip EXCEPT ![p] = page]
    BY <1>1, <1>3, <1>4
  <1>7. page.tag \notin BootIds
    BY <1>5, Tags, Sizes
  <1>8. Writable(BlockOf(p))
    BY <1>1, <1>3
  <1> HIDE DEF page
  <1> QED BY <1>1, <1>3, <1>5, <1>6, <1>7, <1>8, LinuxStep

----------------------------------------------------------------------------
\* The installation.

LEMMA InventoryInv == IInv /\ Inventory => IInv'
  <1> SUFFICES ASSUME IInv, Inventory PROVE IInv'
    OBVIOUS
  <1> DEFINE s == Scan(chip, FALSE)
  <1>1. /\ host.step = "ce" /\ spl.pc = "off" /\ UNCHANGED <<chip, spl, driver>>
        /\ \/ host' = [host EXCEPT !.step = "packing", !.backup = chip, !.bad = s.quarantine]
           \/ host' = [host EXCEPT !.step = "refused"]
    BY DEF Inventory
  <1>2. chip \in ChipType /\ host \in HostType /\ spl \in SplType /\ driver \in DriverType
    BY DEF IInv, TypeInv
  <1>3. chip[1].manifest = {}
    BY <1>1, FirstPages DEF IInv, CeInv, CePage
  <1>4. \A lenient : /\ Scan(chip, lenient) \in MapType
                     /\ \A b \in Scan(chip, lenient).quarantine : Untrusted(chip, b, lenient)
    <2> SUFFICES ASSUME NEW lenient
                 PROVE  /\ Scan(chip, lenient) \in MapType
                        /\ \A b \in Scan(chip, lenient).quarantine : Untrusted(chip, b, lenient)
      OBVIOUS
    <2>1. Excluded(chip, lenient) = {}
      BY <1>3 DEF Excluded
    <2> QED BY <2>1, ScanResult
  <1>5. s \in MapType /\ \A b \in s.quarantine : Untrusted(chip, b, FALSE)
    BY <1>4, Zenon
  <1>6. s.quarantine \in SUBSET BlockNo
    BY <1>5 DEF MapType
  <1> HIDE DEF s
  <1>7. /\ host' \in HostType /\ host'.step \in {"packing", "refused"}
        /\ host'.step = "packing" => host'.backup = chip /\ host'.bad = s.quarantine
    <2>1. CASE host' = [host EXCEPT !.step = "packing", !.backup = chip, !.bad = s.quarantine]
      BY <1>2, <1>6, <2>1 DEF HostType
    <2>2. CASE host' = [host EXCEPT !.step = "refused"]
      BY <1>2, <2>2 DEF HostType
    <2> QED BY <1>1, <2>1, <2>2
  <1>8. TypeInv'
    BY <1>1, <1>2, <1>7 DEF TypeInv
  <1>9. CeInv'
    BY <1>1, <1>5, <1>7 DEF IInv, CeInv
  <1>10. KeptInv' /\ ImageInv'
    BY <1>7 DEF KeptInv, ImageInv
  <1>11. ManifestInv'
    BY <1>1, <1>7 DEF IInv, ManifestInv
  <1>12. BootInv'
    BY <1>1, <1>7 DEF IInv, BootInv
  <1>13. DriverInv'
    BY <1>1, <1>7 DEF IInv, DriverInv
  <1> QED BY <1>8, <1>9, <1>10, <1>11, <1>12, <1>13 DEF IInv

\* Every boot block is packed to a trusted block outside the arena, and
\* only block 0 to block 0.
LEMMA Homes ==
  ASSUME host \in HostType, Good(0), NEW place \in [Moved -> Pool], NEW id \in BootIds
  PROVE  /\ Home(place, id) \in BlockNo \ host.bad /\ Home(place, id) \notin Arena
         /\ (Home(place, id) = 0) <=> (id = 0)
  <1>1. CASE Good(id)
    <2>1. Home(place, id) = id
      BY <1>1 DEF Home
    <2> QED BY <1>1, <2>1, Sizes DEF Good, Arena, BootIds
  <1>2. CASE ~Good(id)
    <2>1. Home(place, id) = place[id] /\ id \in Moved
      BY <1>2 DEF Home, Moved
    <2>2. place[id] \in Pool
      BY <2>1
    <2>3. place[id] \in BlockNo \ host.bad /\ place[id] \notin Arena /\ place[id] # 0
      BY <2>2, Sizes DEF Pool, Good, Arena, BlockNo
    <2> QED BY <1>2, <2>1, <2>3
  <1> QED BY <1>1, <1>2

\* The page at offset q of the block that holds boot block id.
Packed(page, image, id, q) ==
  /\ page.ecc = "good" /\ page.tag = id
  /\ page.data = <<image, id * BlockPages + (q % BlockPages)>>
  /\ page.manifest = IF q = 1 THEN {host.bad} ELSE {}

\* A page of the boot image, at its place.
LEMMA ImagePages ==
  ASSUME host \in HostType, Good(0), NEW place \in [Moved -> Pool], NEW image \in 1 .. Images,
         NEW b \in BlockNo, Here(place, b) # {}
  PROVE  \E id \in BootIds :
           \A p \in PagesOf(b) :
             /\ ImagePage(image, place, p) \in PageType
             /\ Packed(ImagePage(image, place, p), image, id, p)
  <1> DEFINE id == CHOOSE i \in Here(place, b) : TRUE
  <1>1. id \in BootIds /\ Home(place, id) = b
    BY DEF Here
  <1>2. (id = 0) <=> (b = 0)
    BY <1>1, Homes
  <1>3. ASSUME NEW p \in PagesOf(b)
        PROVE  /\ ImagePage(image, place, p) \in PageType
               /\ Packed(ImagePage(image, place, p), image, id, p)
    <2> DEFINE at == (id * BlockPages) + (p % BlockPages)
    <2>1. p \in PageNo /\ BlockOf(p) = b /\ p % BlockPages \in 0 .. BlockPages - 1
          /\ p = b * BlockPages + (p % BlockPages)
      BY PageOfBlock, PageSplit
    <2>2. ImagePage(image, place, p) = BootImagePage(image, at)
      BY <2>1 DEF ImagePage
    <2>3. id \in BlockNo
      BY <1>1, Sizes
    <2>4. BlockOf(at) = id /\ at \in PageNo /\ at % BlockPages = p % BlockPages
      <3> HIDE DEF id
      <3> QED BY <2>1, <2>3, PageAt
    <2>5. (at = 1) <=> (p = 1)
      <3> HIDE DEF id, at
      <3>1. /\ at = BlockOf(at) * BlockPages + (at % BlockPages)
            /\ p = BlockOf(p) * BlockPages + (p % BlockPages)
        BY <2>1, <2>4, PageSplit
      <3>2. at = 1 => BlockOf(at) = 0
        BY FirstPages
      <3>3. p = 1 => BlockOf(p) = 0
        BY FirstPages
      <3>4. CASE id = 0 /\ b = 0
        BY <2>1, <2>4, <3>1, <3>4
      <3>5. CASE id # 0 /\ b # 0
        BY <2>1, <2>4, <3>2, <3>3, <3>5
      <3> QED BY <1>2, <3>4, <3>5
    <2>6. at \div BlockPages = id /\ id \in Tag /\ image \in FsData .. Images
      <3>1. image \in FsData .. Images
        BY Numbers, InstallAssumption DEF FsData
      <3> HIDE DEF id, at
      <3> QED BY <2>3, <2>4, <3>1, Tags DEF BlockOf
    <2> HIDE DEF id, at
    <2> DEFINE plain == Page("good", id, image, at)
               man == IF at = 1 THEN {host.bad} ELSE {}
    <2>7. /\ plain \in PageType /\ plain.ecc = "good" /\ plain.tag = id
          /\ plain.data = <<image, at>>
      BY <2>4, <2>6, NewPage
    <2>8. BootImagePage(image, at) = [plain EXCEPT !.manifest = man]
      BY <2>6 DEF BootImagePage
    <2>9. man \in SUBSET SUBSET BlockNo
      BY DEF HostType
    <2> HIDE DEF plain, man
    <2>10. LET page == [plain EXCEPT !.manifest = man] IN
           /\ page \in PageType /\ page.ecc = "good" /\ page.tag = id
           /\ page.data = <<image, at>> /\ page.manifest = man
      BY <2>7, <2>9 DEF PageType
    <2> QED BY <2>2, <2>5, <2>8, <2>10 DEF man, at, Packed
  <1> QED BY <1>1, <1>3

\* What the packed chip holds: the backup in the quarantine, nothing but
\* fresh pages in the filesystem, one logical block in any other.
LEMMA CandidatePages ==
  ASSUME IInv, Good(0), NEW place \in [Moved -> Pool], NEW image \in 1 .. Images
  PROVE  LET c == Candidate(image, place) IN
         /\ c \in ChipType
         /\ \A p \in PageNo :
              /\ BlockOf(p) \in host.bad => c[p] = host.backup[p]
              /\ BlockOf(p) \in GoodFs => c[p].tag = Blank
              /\ BlockOf(p) \notin host.bad =>
                   \/ c[p].tag = Blank /\ c[p].manifest = {}
                   \/ \E id \in BootIds :
                        \A q \in PagesOf(BlockOf(p)) : Packed(c[q], image, id, q)
         /\ c[1].ecc = "good" /\ c[1].manifest = {host.bad}
  <1> DEFINE c == Candidate(image, place)
  <1>1. host \in HostType /\ host.backup \in ChipType /\ host.bad \in SUBSET BlockNo
    BY DEF IInv, TypeInv, HostType
  <1>2. \A p \in PageNo :
          c[p] = IF Here(place, BlockOf(p)) # {} THEN ImagePage(image, place, p)
                 ELSE IF ~Good(BlockOf(p)) THEN host.backup[p]
                 ELSE IF BlockOf(p) \in GoodFs /\ p % BlockPages = 0 THEN FsPage
                 ELSE BlankPage
    BY DEF Candidate
  <1>3. DOMAIN c = PageNo /\ c = [p \in DOMAIN c |-> c[p]]
    BY DEF Candidate
  <1> HIDE DEF c
  <1>4. \A b \in host.bad \cup Arena : Here(place, b) = {}
    BY <1>1, Homes DEF Here
  <1>5. ASSUME NEW p \in PageNo, BlockOf(p) \in host.bad PROVE c[p] = host.backup[p]
    BY <1>2, <1>4, <1>5 DEF Good
  <1>6. ASSUME NEW p \in PageNo, BlockOf(p) \notin host.bad, Here(place, BlockOf(p)) = {}
        PROVE  c[p] \in {FsPage, BlankPage}
    BY <1>2, <1>6 DEF Good
  <1>7. ASSUME NEW b \in BlockNo, Here(place, b) # {}
        PROVE  \E id \in BootIds :
                 \A q \in PagesOf(b) : c[q] \in PageType /\ Packed(c[q], image, id, q)
    <2>1. \A q \in PagesOf(b) : c[q] = ImagePage(image, place, q)
      BY <1>2, <1>7, PageOfBlock
    <2>2. PICK id \in BootIds :
            \A q \in PagesOf(b) :
              /\ ImagePage(image, place, q) \in PageType
              /\ Packed(ImagePage(image, place, q), image, id, q)
      BY <1>1, <1>7, ImagePages
    <2> QED BY <2>1, <2>2
  <1>8. ASSUME NEW p \in PageNo PROVE c[p] \in PageType
    <2>1. p \in PagesOf(BlockOf(p)) /\ BlockOf(p) \in BlockNo
      BY PageSplit
    <2>2. CASE BlockOf(p) \in host.bad
      BY <1>1, <1>5, <2>2, ChipPages
    <2>3. CASE BlockOf(p) \notin host.bad /\ Here(place, BlockOf(p)) = {}
      BY <1>6, <2>3, LinuxPage
    <2>4. CASE Here(place, BlockOf(p)) # {}
      BY <1>7, <2>1, <2>4
    <2> QED BY <2>2, <2>3, <2>4
  <1>9. c \in ChipType
    BY <1>3, <1>8, ChipPages
  <1>10. ASSUME NEW p \in PageNo, BlockOf(p) \in GoodFs PROVE c[p].tag = Blank
    <2>1. BlockOf(p) \in Arena /\ BlockOf(p) \notin host.bad
      BY <1>10 DEF GoodFs, Good
    <2> QED BY <1>4, <1>6, <2>1, LinuxPage
  <1>11. ASSUME NEW p \in PageNo, BlockOf(p) \notin host.bad
         PROVE  \/ c[p].tag = Blank /\ c[p].manifest = {}
                \/ \E id \in BootIds :
                     \A q \in PagesOf(BlockOf(p)) : Packed(c[q], image, id, q)
    <2>1. CASE Here(place, BlockOf(p)) = {}
      BY <1>6, <1>11, <2>1, LinuxPage
    <2>2. CASE Here(place, BlockOf(p)) # {}
      BY <1>7, <2>2, PageSplit
    <2> QED BY <2>1, <2>2
  <1>12. c[1].ecc = "good" /\ c[1].manifest = {host.bad}
    <2>1. 0 \in Here(place, 0)
      BY Sizes DEF Here, Home
    <2>2. 1 \in PagesOf(0) /\ 0 \in BlockNo
      BY FirstPages, PageSplit, Sizes
    <2>3. PICK id \in BootIds : Packed(c[1], image, id, 1)
      BY <1>7, <2>1, <2>2
    <2> QED BY <2>3 DEF Packed
  <1> QED BY <1>5, <1>9, <1>10, <1>11, <1>12 DEF c

LEMMA InstallInv == ASSUME IInv, NEW image \in 1 .. Images, Install(image) PROVE IInv'
  <1>1. /\ host.step \in {"packing", "linux"} /\ spl.pc = "off" /\ driver.mode = "off"
        /\ Good(0) /\ UNCHANGED <<spl, driver>>
        /\ host' = [host EXCEPT !.step = "linux", !.reference = chip', !.image = image,
                                !.faults = 0, !.uses = 0]
    BY DEF Install, Packable
  <1>2. PICK place \in [Moved -> Pool] : chip' = Candidate(image, place)
    BY DEF Install, Placements
  <1>3. host \in HostType /\ spl \in SplType /\ driver \in DriverType
    BY DEF IInv, TypeInv
  <1>4. /\ chip' \in ChipType
        /\ \A p \in PageNo :
              /\ BlockOf(p) \in host.bad => chip'[p] = host.backup[p]
              /\ BlockOf(p) \in GoodFs => chip'[p].tag = Blank
              /\ BlockOf(p) \notin host.bad =>
                   \/ chip'[p].tag = Blank /\ chip'[p].manifest = {}
                   \/ \E id \in BootIds :
                        \A q \in PagesOf(BlockOf(p)) : Packed(chip'[q], image, id, q)
        /\ chip'[1].ecc = "good" /\ chip'[1].manifest = {host.bad}
    BY <1>1, <1>2, CandidatePages
  <1>5. image \in 0 .. Images /\ Images \in Nat
    BY InstallAssumption
  <1>6. /\ host' \in HostType /\ host'.step = "linux" /\ host'.bad = host.bad
        /\ host'.backup = host.backup /\ host'.image = image
    BY <1>1, <1>3, <1>4, <1>5, Numbers DEF HostType
  <1>7. TypeInv'
    BY <1>1, <1>3, <1>4, <1>6 DEF TypeInv
  <1>8. CeInv'
    BY <1>1, <1>6 DEF IInv, CeInv
  <1>9. KeptInv'
    BY <1>1, <1>4, <1>6 DEF KeptInv, Good
  <1>10. ImageInv'
    <2> SUFFICES ASSUME NEW p \in PageNo, BlockOf(p) \notin host.bad, chip'[p].tag \in BootIds
                 PROVE  /\ \A q \in PagesOf(BlockOf(p)) : chip'[q].tag = chip'[p].tag
                        /\ chip'[p].data = <<image, chip'[p].tag * BlockPages + (p % BlockPages)>>
      BY <1>6 DEF ImageInv
    <2>1. chip'[p].tag # Blank
      BY Tags, Sizes
    <2>2. PICK id \in BootIds : \A q \in PagesOf(BlockOf(p)) : Packed(chip'[q], image, id, q)
      BY <1>4, <2>1
    <2>3. \A q \in PagesOf(BlockOf(p)) :
            /\ chip'[q].tag = id
            /\ chip'[q].data = <<image, id * BlockPages + (q % BlockPages)>>
      BY <2>2 DEF Packed
    <2> QED BY <2>3, PageSplit
  <1>11. ManifestInv'
    <2>1. GoodFs' = GoodFs
      BY <1>6 DEF GoodFs, Good
    <2>2. Parity(chip'[1])
      BY <1>4 DEF Parity
    <2>3. ASSUME NEW p \in PageNo, chip'[p].manifest # {} PROVE p = 1
      <3>1. CASE BlockOf(p) \in host.bad
        <4>1. host.backup[p].manifest = {}
          BY <1>1 DEF IInv, CeInv, CePage
        <4> QED BY <1>4, <2>3, <3>1, <4>1
      <3>2. CASE BlockOf(p) \notin host.bad
        BY <1>4, <2>3, <3>2, PageSplit DEF Packed
      <3> QED BY <3>1, <3>2
    <2>4. \A p \in PageNo : BlockOf(p) \in GoodFs => chip'[p].tag \notin BootIds
      BY <1>4, Tags, Sizes
    <2> QED BY <1>4, <1>6, <2>1, <2>2, <2>3, <2>4 DEF ManifestInv
  <1>12. BootInv'
    BY <1>1, <1>6 DEF IInv, BootInv
  <1>13. DriverInv'
    BY <1>1 DEF DriverInv
  <1> QED BY <1>7, <1>8, <1>9, <1>10, <1>11, <1>12, <1>13 DEF IInv

----------------------------------------------------------------------------
\* Every step.

LEMMA StutterInv == IInv /\ UNCHANGED vars => IInv'
  <1> SUFFICES ASSUME IInv, UNCHANGED vars PROVE IInv'
    OBVIOUS
  <1>1. UNCHANGED <<chip, host, driver>> /\ spl' = spl
    BY DEF vars
  <1>2. spl' \in SplType
    BY <1>1 DEF IInv, TypeInv
  <1>3. BootInv'
    BY <1>1 DEF IInv, BootInv, MapRight
  <1> QED BY <1>1, <1>2, <1>3, SameDriver

LEMMA StepInv == IInv /\ [Next]_vars => IInv'
  <1> SUFFICES ASSUME IInv, [Next]_vars PROVE IInv'
    OBVIOUS
  <1>1. CASE Inventory
    BY <1>1, InventoryInv
  <1>2. ASSUME NEW image \in 1 .. Images, Install(image) PROVE IInv'
    BY <1>2, InstallInv
  <1>3. CASE Rom
    BY <1>3, RomInv
  <1>4. CASE SplScan
    BY <1>4, SplScanInv
  <1>5. CASE SplManifest
    BY <1>5, SplManifestInv
  <1>6. CASE SplLoad
    BY <1>6, SplLoadInv
  <1>7. CASE Setup42
    BY <1>7, Setup42Inv
  <1>8. CASE SetupLegacy
    BY <1>8, SetupLegacyInv
  <1>9. CASE PowerOff
    BY <1>9, PowerOffInv
  <1>10. ASSUME NEW p \in PageNo, Use(p) PROVE IInv'
    BY <1>10, UseInv
  <1>11. ASSUME NEW p \in PageNo, Wear(p) PROVE IInv'
    BY <1>11, WearInv
  <1>12. ASSUME NEW b \in Arena, NEW i \in {0, 1}, MarkBad(b, i) PROVE IInv'
    BY <1>12, MarkBadInv
  <1>13. CASE UNCHANGED vars
    BY <1>13, StutterInv
  <1> QED
    BY <1>1, <1>2, <1>3, <1>4, <1>5, <1>6, <1>7, <1>8, <1>9, <1>10, <1>11, <1>12, <1>13
       DEF Next

LEMMA Invariant == Spec => []IInv
  <1>1. Init => IInv
    BY InitInv
  <1>2. IInv /\ [Next]_vars => IInv'
    BY StepInv
  <1> QED BY <1>1, <1>2, PTL DEF Spec

----------------------------------------------------------------------------

\* Every variable keeps its type, and the SPL never loads a page beyond the
\* boot image.
THEOREM TypeCorrect == Spec => []TypeOK
  <1>1. IInv => TypeOK
    BY DEF IInv, TypeInv, TypeOK, HostType, DriverType, SplType, BootInv
  <1> QED BY <1>1, Invariant, PTL

\* Whatever pages fail and whenever, an installed device boots the image
\* installed last or fails to boot: neither the ROM nor the SPL is led to a
\* preserved CE block or to another page.
THEOREM NeverStale == Spec => []BootNeverStale
  <1>1. IInv => BootNeverStale
    BY DEF IInv, BootInv, BootNeverStale
  <1> QED BY <1>1, Invariant, PTL

\* The driver takes a real chip for a data-only image never, and otherwise
\* works with the quarantine the chip was packed with.
THEOREM DriverKnows == Spec => []DriverKnowsChip
  <1>1. IInv => DriverKnowsChip
    BY DEF IInv, DriverInv, DriverKnowsChip
  <1> QED BY <1>1, Invariant, PTL

\* Whatever is installed, used and worn, the quarantined blocks keep the
\* bytes of the CE backup.
THEOREM QuarantineSafe == Spec => []QuarantineKept
  <1>1. IInv => QuarantineKept
    BY DEF IInv, KeptInv, QuarantineKept
  <1> QED BY <1>1, Invariant, PTL

MarksKept == \A b \in GoodFs : Marked(chip, b) => Marked(chip, b)'

\* Only a page of a block that is not marked is ever overwritten.
LEMMA MarksElsewhere ==
  ASSUME IInv, NEW p \in PageNo, ~Marked(chip, BlockOf(p)),
         \A q \in PageNo : q # p => chip'[q].tag = chip[q].tag
  PROVE  MarksKept
  <1> SUFFICES ASSUME NEW b \in GoodFs, Marked(chip, b) PROVE Marked(chip, b)'
    BY DEF MarksKept
  <1>1. PICK i \in {0, 1} : chip[b * BlockPages + i].tag = Marker
    BY DEF Marked
  <1>2. b \in BlockNo /\ i \in 0 .. BlockPages - 1
    BY Sizes DEF GoodFs
  <1> DEFINE q == b * BlockPages + i
  <1>3. q \in PageNo /\ BlockOf(q) = b
    BY <1>2, PageAt
  <1>4. chip'[q].tag = Marker
    <2> HIDE DEF q
    <2>1. q # p
      BY <1>3
    <2> QED BY <1>1, <1>3, <2>1 DEF q
  <1> QED BY <1>4 DEF Marked

LEMMA MarksStep == IInv /\ [Next]_vars => [MarksKept]_vars
  <1> SUFFICES ASSUME IInv, Next PROVE MarksKept
    OBVIOUS
  <1>1. CASE UNCHANGED chip
    BY <1>1 DEF MarksKept, Marked
  <1>2. ASSUME NEW image \in 1 .. Images, Install(image) PROVE MarksKept
    <2>1. host.step \in {"packing", "linux"}
      BY <1>2 DEF Install
    <2>2. CASE host.step = "linux"
      <3>1. \A b \in GoodFs : ~Marked(chip, b)
        BY <1>2, <2>2 DEF Install, SnapshotBound
      <3> QED BY <3>1 DEF MarksKept
    <2>3. CASE host.step = "packing"
      <3>1. ASSUME NEW b \in GoodFs, NEW i \in {0, 1}
            PROVE  chip[b * BlockPages + i].tag # Marker
        <4>1. b \in BlockNo /\ i \in 0 .. BlockPages - 1
          BY Sizes DEF GoodFs
        <4>2. b * BlockPages + i \in PageNo
          BY <4>1, PageAt
        <4> QED BY <2>3, <4>2 DEF IInv, CeInv, CePage
      <3> QED BY <3>1 DEF MarksKept, Marked
    <2> QED BY <2>1, <2>2, <2>3
  <1>3. ASSUME NEW p \in PageNo, Use(p) PROVE MarksKept
    <2>1. ~Marked(chip, BlockOf(p))
      BY <1>3 DEF Use, Writable
    <2>2. \A q \in PageNo : q # p => chip'[q].tag = chip[q].tag
      BY <1>3, ChipPages DEF Use, IInv, TypeInv
    <2> QED BY <2>1, <2>2, MarksElsewhere
  <1>4. ASSUME NEW p \in PageNo, Wear(p) PROVE MarksKept
    <2>1. /\ chip' = [chip EXCEPT ![p] = [chip[p] EXCEPT !.ecc = "bad"]] /\ DOMAIN chip = PageNo
          /\ chip[p] \in PageType
      BY <1>4, ChipPages DEF Wear, IInv, TypeInv
    <2>2. [chip[p] EXCEPT !.ecc = "bad"].tag = chip[p].tag
      BY <2>1, FailedPage
    <2>3. \A q \in PageNo : chip'[q].tag = chip[q].tag
      BY <2>1, <2>2
    <2>4. ASSUME NEW b \in GoodFs, NEW i \in {0, 1} PROVE b * BlockPages + i \in PageNo
      <3>1. b \in BlockNo /\ i \in 0 .. BlockPages - 1
        BY Sizes DEF GoodFs
      <3> QED BY <3>1, PageAt
    <2> QED BY <2>3, <2>4 DEF MarksKept, Marked
  <1>5. ASSUME NEW b \in Arena, NEW i \in {0, 1}, MarkBad(b, i) PROVE MarksKept
    <2> DEFINE p == b * BlockPages + i
    <2>1. b \in BlockNo /\ i \in 0 .. BlockPages - 1
      BY Sizes
    <2>2. p \in PageNo /\ BlockOf(p) = b
      BY <2>1, PageAt
    <2>3. chip' = [chip EXCEPT ![p].tag = Marker] /\ ~Marked(chip, b)
      BY <1>5 DEF MarkBad, Writable
    <2> HIDE DEF p
    <2>4. \A q \in PageNo : q # p => chip'[q].tag = chip[q].tag
      BY <2>3, ChipPages DEF IInv, TypeInv
    <2> QED BY <2>2, <2>3, <2>4, MarksElsewhere
  <1>6. ASSUME Inventory \/ Rom \/ SplScan \/ SplManifest \/ SplLoad
               \/ Setup42 \/ SetupLegacy \/ PowerOff
        PROVE  UNCHANGED chip
    BY <1>6 DEF Inventory, Rom, SplScan, SplManifest, SplLoad, Setup42, SetupLegacy, PowerOff
  <1> QED BY <1>1, <1>2, <1>3, <1>4, <1>5, <1>6 DEF Next

\* A block that Linux gave up keeps its marker through every use, boot,
\* failure and reinstallation.
THEOREM MarkersKept == Spec => MarkersSurvive
  <1>1. IInv /\ [Next]_vars =>
          [\A b \in GoodFs : Marked(chip, b) => Marked(chip, b)']_vars
    BY MarksStep DEF MarksKept
  <1> QED BY <1>1, Invariant, PTL DEF Spec, MarkersSurvive

----------------------------------------------------------------------------
\* A packed image boots.  As long as no page failed since the installation
\* the chip keeps more than IInv says: the manifest can be read, every boot
\* block has one home outside the quarantine whose pages are all good, and
\* the ROM finds one SPL.

OneHome(id) ==
  \E b \in BlockNo \ host.bad :
    \A p \in PageNo : BlockOf(p) \notin host.bad => (chip[p].tag = id <=> BlockOf(p) = b)

Intact(b) == \A p \in PagesOf(b) : chip[p].ecc = "good"

Sound ==
  /\ chip[1].ecc = "good" /\ chip[1].tag = 0
  /\ \A p \in PageNo : BlockOf(p) \notin host.bad /\ chip[p].tag \in BootIds =>
       chip[p].ecc = "good"
  /\ \A id \in BootIds : OneHome(id)
  /\ \E b \in BlockNo : RomPlaces(chip, 1) = {b} /\ Intact(b)

ChipPacked ==
  /\ host.step = "linux" /\ host.faults = 0 => Sound
  /\ host.step = "dataonly" /\ host.faults = 0 => DataOnlyChip

\* A map that leads to every boot block.
Complete(map) == \A id \in BootIds : map.block[id] # NoBlock

SplPacked ==
  host.step \in {"linux", "dataonly"} /\ host.faults = 0 =>
    /\ spl.pc # "failed"
    /\ spl.pc \in {"manifest", "load"} =>
         (spl.map.protected <=> host.step = "linux") /\ Complete(spl.map)
    /\ spl.pc = "manifest" => host.step = "linux"

DriverPacked == host.step = "linux" /\ host.faults = 0 => driver.mode # "none"

PackedInv == ChipPacked /\ SplPacked /\ DriverPacked

\* A block has as many voters as the vote allows.
LEMMA SampleSize ==
  ASSUME NEW b \in BlockNo
  PROVE  Cardinality(Sample(b)) = Voters
  <1> DEFINE f == [i \in 0 .. Voters - 1 |-> b * BlockPages + i]
  <1>1. b * BlockPages \in Nat /\ Voters \in Nat
    BY Sizes DEF BlockNo
  <1>2. \A i \in 0 .. Voters - 1 : f[i] = b * BlockPages + i
    OBVIOUS
  <1>3. f \in [0 .. Voters - 1 -> Sample(b)]
    BY DEF Sample
  <1>4. \A i, j \in 0 .. Voters - 1 : f[i] = f[j] => i = j
    <2> DEFINE start == b * BlockPages
    <2>1. start \in Nat
      BY <1>1
    <2>2. \A i \in 0 .. Voters - 1 : f[i] = start + i
      BY <1>2
    <2> HIDE DEF f, start
    <2> QED BY <1>1, <2>1, <2>2
  <1>5. \A p \in Sample(b) : \E i \in 0 .. Voters - 1 : f[i] = p
    BY <1>2 DEF Sample
  <1> HIDE DEF f
  <1>6. ExistsBijection(0 .. Voters - 1, Sample(b))
    <2>1. DOMAIN f = 0 .. Voters - 1
      BY <1>3
    <2>2. f \in Injection(0 .. Voters - 1, Sample(b))
      BY <1>3, <1>4, <2>1 DEF Injection, IsInjective
    <2>3. f \in Surjection(0 .. Voters - 1, Sample(b))
      BY <1>3, <1>5 DEF Surjection
    <2> QED BY <2>2, <2>3 DEF ExistsBijection, Bijection
  <1>7. IsFiniteSet(0 .. Voters - 1) /\ Cardinality(0 .. Voters - 1) = Voters
    <2>1. Voters \in Nat \ {0}
      BY Sizes
    <2>2. IsFiniteSet(0 .. Voters - 1) /\ Cardinality(0 .. Voters - 1) =
            IF 0 > Voters - 1 THEN 0 ELSE (Voters - 1) - 0 + 1
      BY <2>1, FS_Interval
    <2> QED BY <2>1, <2>2
  <1> QED BY <1>6, <1>7, FS_Bijection

\* A block all of whose pages carry a tag and can be read is elected for it.
LEMMA WholeBlockElected ==
  ASSUME NEW b \in BlockNo, NEW c, NEW id, NEW lenient,
         \A p \in PagesOf(b) : c[p].tag = id /\ Readable(c[p], lenient)
  PROVE  /\ Elects(c, b, id, lenient)
         /\ (\A p \in PagesOf(b) : Parity(c[p])) => ElectsProtected(c, b, id, lenient)
  <1>1. Voters \in Nat /\ Quorum \in Nat /\ Voters >= Quorum
    BY Sizes, BootAssumption
  <1>2. Votes(c, b, id, lenient) = Sample(b)
    BY SampleOfBlock DEF Votes
  <1>3. Elects(c, b, id, lenient)
    BY <1>1, <1>2, SampleSize DEF Elects
  <1>4. ASSUME \A p \in PagesOf(b) : Parity(c[p]) PROVE ElectsProtected(c, b, id, lenient)
    <2>1. {p \in Votes(c, b, id, lenient) : Parity(c[p])} = Sample(b)
      BY <1>2, <1>4, SampleOfBlock
    <2> QED BY <1>1, <2>1, SampleSize DEF ElectsProtected
  <1> QED BY <1>3, <1>4

\* What decides a scan.
LEMMA ScanDecides ==
  ASSUME NEW c, NEW lenient, NEW voting, voting = BlockNo \ Excluded(c, lenient)
  PROVE  /\ Scan(c, lenient).ok <=>
              \A id \in BootIds : \A b, d \in voting :
                Elects(c, b, id, lenient) /\ Elects(c, d, id, lenient) => b = d
         /\ Scan(c, lenient).protected =>
              \E p \in {1} \cup UNION {Sample(b) : b \in voting} : Parity(c[p])
         /\ \A id \in BootIds : \A b \in voting :
              /\ Elects(c, b, id, lenient)
              /\ Scan(c, lenient).protected => ElectsProtected(c, b, id, lenient)
              => Scan(c, lenient).block[id] # NoBlock
  <1> DEFINE protected == \E p \in {1} \cup UNION {Sample(b) : b \in voting} : Parity(c[p])
             elected == [id \in BootIds |-> {b \in voting : Elects(c, b, id, lenient)}]
             kept == [id \in BootIds |->
                        {b \in elected[id] : protected => ElectsProtected(c, b, id, lenient)}]
             block == [id \in BootIds |->
                         IF kept[id] = {} THEN NoBlock ELSE CHOOSE b \in kept[id] : TRUE]
             quarantine == Excluded(c, lenient) \cup {b \in voting : Untrusted(c, b, lenient)}
             agree == \A id \in BootIds : \A b, d \in elected[id] : b = d
  <1>1. Scan(c, lenient) = [ok |-> agree, protected |-> protected, block |-> block,
                            quarantine |-> quarantine]
    BY DEF Scan
  <1>2. agree <=> \A id \in BootIds : \A b, d \in voting :
                    Elects(c, b, id, lenient) /\ Elects(c, d, id, lenient) => b = d
    OBVIOUS
  <1>3. ASSUME NEW id \in BootIds, NEW b \in voting, Elects(c, b, id, lenient),
               protected => ElectsProtected(c, b, id, lenient)
        PROVE  block[id] # NoBlock
    <2>1. b \in kept[id]
      BY <1>3
    <2>2. kept[id] \subseteq BlockNo
      OBVIOUS
    <2>3. block[id] \in kept[id]
      BY <2>1
    <2> HIDE DEF block, kept
    <2> QED BY <2>2, <2>3, Sizes
  <1> HIDE DEF block, protected, agree, quarantine
  <1>4. /\ Scan(c, lenient).ok <=> agree
        /\ Scan(c, lenient).protected <=> protected
        /\ Scan(c, lenient).block = block
    BY <1>1
  <1> QED BY <1>2, <1>3, <1>4 DEF protected

\* On an installed chip none of whose pages failed, any scan finds a home
\* for every boot block, and one only.
LEMMA ScanPacked ==
  ASSUME IInv, host.step = "linux", Sound, NEW lenient
  PROVE  /\ Scan(chip, lenient).ok /\ Scan(chip, lenient).protected
         /\ Complete(Scan(chip, lenient))
  <1> DEFINE voting == BlockNo \ host.bad
  <1>1. Excluded(chip, lenient) = host.bad
    BY DEF IInv, ManifestInv, Sound, Excluded, Readable
  <1>2. \A p \in PageNo : BlockOf(p) \notin host.bad /\ chip[p].tag \in BootIds =>
          Readable(chip[p], lenient) /\ Parity(chip[p])
    BY DEF Sound, Readable, Parity
  <1>3. ASSUME NEW id \in BootIds
        PROVE  \E b \in voting :
                 /\ Elects(chip, b, id, lenient) /\ ElectsProtected(chip, b, id, lenient)
                 /\ \A d \in voting : Elects(chip, d, id, lenient) => d = b
    <2>1. PICK b \in voting :
            \A p \in PageNo : BlockOf(p) \notin host.bad => (chip[p].tag = id <=> BlockOf(p) = b)
      BY DEF Sound, OneHome
    <2>2. \A p \in PagesOf(b) : p \in PageNo /\ BlockOf(p) = b
      BY PageOfBlock
    <2>3. \A p \in PagesOf(b) : chip[p].tag = id
      BY <2>1, <2>2
    <2>4. \A p \in PagesOf(b) : Readable(chip[p], lenient) /\ Parity(chip[p])
      BY <1>2, <2>2, <2>3
    <2>5. Elects(chip, b, id, lenient) /\ ElectsProtected(chip, b, id, lenient)
      BY <2>3, <2>4, WholeBlockElected
    <2>6. ASSUME NEW d \in voting, Elects(chip, d, id, lenient) PROVE d = b
      <3>1. PICK p \in PagesOf(d) : chip[p].tag = id
        BY <2>6, ElectedTag
      <3>2. p \in PageNo /\ BlockOf(p) = d
        BY PageOfBlock
      <3> QED BY <2>1, <3>1, <3>2
    <2> QED BY <2>5, <2>6
  <1>4. Parity(chip[1])
    BY DEF Sound, Parity
  <1>5. Excluded(chip, lenient) \subseteq BlockNo
    BY ExcludedBlocks DEF IInv
  <1>6. Scan(chip, lenient).protected
    BY <1>4, <1>5, ScanResult
  <1>7. voting = BlockNo \ Excluded(chip, lenient)
    BY <1>1
  <1> HIDE DEF voting
  <1>8. Scan(chip, lenient).ok
    BY <1>3, <1>7, ScanDecides
  <1>9. \A id \in BootIds : Scan(chip, lenient).block[id] # NoBlock
    BY <1>3, <1>7, ScanDecides
  <1> QED BY <1>6, <1>8, <1>9 DEF Complete

\* A data-only image is scanned without a parity byte in sight.
LEMMA ScanDataOnly ==
  ASSUME IInv, DataOnlyChip
  PROVE  /\ Scan(chip, TRUE).ok /\ ~Scan(chip, TRUE).protected
         /\ Complete(Scan(chip, TRUE))
  <1> DEFINE lenient == TRUE
  <1>1. ASSUME NEW p \in PageNo
        PROVE  /\ chip[p].tag = BlockOf(p) /\ ~Parity(chip[p]) /\ Readable(chip[p], lenient)
               /\ chip[p].manifest = {}
    <2>1. chip[p] = Page("none", BlockOf(p), 1, p)
      BY DEF DataOnlyChip
    <2>2. BlockOf(p) \in Tag
      BY PageSplit, Tags
    <2>3. chip[p].ecc = "none" /\ chip[p].tag = BlockOf(p) /\ chip[p].manifest = {}
      BY <2>1, <2>2, NewPage, Numbers
    <2> QED BY <2>3 DEF Parity, Readable
  <1>2. lenient
    OBVIOUS
  <1> HIDE DEF lenient
  <1>3. Excluded(chip, lenient) = {}
    BY <1>1, FirstPages DEF Excluded
  <1> DEFINE voting == BlockNo \ Excluded(chip, lenient)
  <1>4. voting = BlockNo
    BY <1>3
  <1>5. ~Scan(chip, lenient).protected
    <2>1. \A b \in voting : \A p \in Sample(b) : ~Parity(chip[p])
      BY <1>1, <1>4, SampleOfBlock, PageOfBlock
    <2>2. ~Parity(chip[1])
      BY <1>1, FirstPages
    <2> HIDE DEF voting
    <2>3. voting = BlockNo \ Excluded(chip, lenient)
      BY DEF voting
    <2>4. ~ \E p \in {1} \cup UNION {Sample(b) : b \in voting} : Parity(chip[p])
      BY <2>1, <2>2
    <2>5. Scan(chip, lenient).protected =>
            \E p \in {1} \cup UNION {Sample(b) : b \in voting} : Parity(chip[p])
      BY <2>3, ScanDecides
    <2> QED BY <2>4, <2>5
  <1>6. ASSUME NEW id \in BootIds
        PROVE  /\ Elects(chip, id, id, lenient)
               /\ \A d \in voting : Elects(chip, d, id, lenient) => d = id
    <2>1. id \in BlockNo
      BY Sizes
    <2>2. \A p \in PagesOf(id) : chip[p].tag = id /\ Readable(chip[p], lenient)
      BY <1>1, <2>1, PageOfBlock
    <2>3. Elects(chip, id, id, lenient)
      BY <2>1, <2>2, WholeBlockElected
    <2>4. ASSUME NEW d \in voting, Elects(chip, d, id, lenient) PROVE d = id
      <3>1. PICK p \in PagesOf(d) : chip[p].tag = id
        BY <1>4, <2>4, ElectedTag
      <3> QED BY <1>1, <1>4, <3>1, PageOfBlock
    <2> QED BY <2>3, <2>4
  <1>7. \A id \in BootIds : id \in voting
    BY <1>4, Sizes
  <1> HIDE DEF voting
  <1>8. voting = BlockNo \ Excluded(chip, lenient)
    BY DEF voting
  <1>9. Scan(chip, lenient).ok
    BY <1>6, <1>8, ScanDecides
  <1>10. \A id \in BootIds : Scan(chip, lenient).block[id] # NoBlock
    BY <1>5, <1>6, <1>7, <1>8, ScanDecides
  <1> QED BY <1>5, <1>9, <1>10 DEF Complete, lenient

LEMMA BothPages == 1 \in BootPage /\ 1 \div BlockPages = 0 /\ 1 % BlockPages = 1
  <1>1. BlockPages \in Nat /\ BlockPages >= 2 /\ BootBlocks \in Nat /\ BootBlocks >= 1
    BY Sizes
  <1>2. BootBlocks * BlockPages \in Nat /\ BootBlocks * BlockPages >= BlockPages
    BY <1>1
  <1>3. 1 \in BootPage
    BY <1>1, <1>2 DEF BootPage
  <1>4. 1 \div BlockPages = 0 /\ 1 % BlockPages = 1
    BY <1>1
  <1> QED BY <1>3, <1>4

\* Such a map leads every page to a good one, and the second to the manifest.
LEMMA PackedReads ==
  ASSUME IInv, host.step = "linux", Sound, NEW map \in MapType, MapRight(map), Complete(map),
         map.protected, NEW page \in BootPage, NEW lenient
  PROVE  ReadOk(map, chip, page, lenient)
  <1> DEFINE id == page \div BlockPages
             p == PhysicalPage(map, page)
  <1>1. id \in BootIds /\ map.block[id] # NoBlock
    BY BootPageSplit DEF Complete
  <1>2. p \in PageNo /\ BlockOf(p) = map.block[id] /\ p \in PagesOf(BlockOf(p))
    BY <1>1, MappedPage
  <1>3. chip[p].tag = id /\ BlockOf(p) \notin host.bad
    BY <1>1, <1>2 DEF MapRight
  <1>4. chip[p].ecc = "good"
    BY <1>1, <1>2, <1>3 DEF Sound
  <1> QED BY <1>1, <1>4 DEF ReadOk, Readable

LEMMA ManifestAtHome ==
  ASSUME IInv, host.step = "linux", Sound, NEW map \in MapType, MapRight(map), Complete(map)
  PROVE  PhysicalPage(map, 1) = 1
  <1> DEFINE b == map.block[0]
  <1>1. 0 \in BootIds /\ b # NoBlock
    BY Sizes DEF Complete
  <1>2. b \in BlockNo \ host.bad /\ \A q \in PagesOf(b) : chip[q].tag = 0
    BY <1>1 DEF MapRight
  <1> HIDE DEF b
  <1>3. PICK home \in BlockNo \ host.bad :
          \A p \in PageNo : BlockOf(p) \notin host.bad => (chip[p].tag = 0 <=> BlockOf(p) = home)
    BY <1>1 DEF Sound, OneHome
  <1>4. home = 0
    <2>1. 0 \notin host.bad
      BY DEF IInv, KeptInv
    <2> QED BY <1>3, <2>1, FirstPages DEF Sound
  <1>5. b = home
    <2>1. b * BlockPages \in PagesOf(b) /\ b * BlockPages \in PageNo
      BY <1>2, FirstPages
    <2>2. BlockOf(b * BlockPages) = b
      BY <1>2, <2>1, PageOfBlock
    <2>3. chip[b * BlockPages].tag = 0
      BY <1>2, <2>1
    <2> QED BY <1>2, <1>3, <2>1, <2>2, <2>3
  <1>6. PhysicalPage(map, 1) = b * BlockPages + 1
    BY BothPages DEF PhysicalPage, b
  <1>7. 0 * BlockPages + 1 = 1
    BY Sizes
  <1> QED BY <1>4, <1>5, <1>6, <1>7

LEMMA DataOnlyReads ==
  ASSUME IInv, DataOnlyChip, NEW map \in MapType, Complete(map), ~map.protected,
         NEW page \in BootPage
  PROVE  ReadOk(map, chip, page, TRUE)
  <1> DEFINE p == PhysicalPage(map, page)
  <1>1. page \div BlockPages \in BootIds /\ map.block[page \div BlockPages] # NoBlock
    BY BootPageSplit DEF Complete
  <1>2. p \in PageNo
    BY <1>1, MappedPage
  <1>3. BlockOf(p) \in Tag
    BY <1>2, PageSplit, Tags
  <1>4. chip[p] = Page("none", BlockOf(p), 1, p)
    BY <1>2 DEF DataOnlyChip
  <1>5. chip[p].ecc = "none"
    BY <1>2, <1>3, <1>4, NewPage, Numbers
  <1> HIDE DEF p
  <1>6. Readable(chip[p], TRUE /\ ~map.protected) /\ ~Parity(chip[p])
    BY <1>5 DEF Readable, Parity
  <1> QED BY <1>1, <1>6 DEF ReadOk, p

\* The first page of a boot block is a logical page of it.
LEMMA HomePages ==
  ASSUME NEW id \in BootIds
  PROVE  id \in BlockNo /\ id * BlockPages \in BootPage /\ (id * BlockPages) \div BlockPages = id
  <1>1. id \in Nat /\ id + 1 <= BootBlocks /\ BootBlocks \in Nat /\ BlockPages \in Nat \ {0}
    BY Sizes DEF BootIds
  <1>2. (id + 1) * BlockPages <= BootBlocks * BlockPages
    BY <1>1
  <1>3. id * BlockPages \in Nat /\ id * BlockPages + BlockPages = (id + 1) * BlockPages
    BY <1>1
  <1>4. id * BlockPages < BootBlocks * BlockPages /\ BootBlocks * BlockPages \in Nat
    BY <1>1, <1>2, <1>3
  <1>5. (id * BlockPages) \div BlockPages = id
    BY <1>1
  <1> QED BY <1>3, <1>4, <1>5, Sizes DEF BootPage

----------------------------------------------------------------------------
\* What an accepted installation leaves behind.

\* The first block of the boot image is packed to the first block.
LEMMA FirstPagePacked ==
  ASSUME host \in HostType, Good(0), NEW place \in [Moved -> Pool], NEW image \in 1 .. Images
  PROVE  Candidate(image, place)[1].tag = 0
  <1>1. 0 \in Here(place, 0)
    BY Sizes DEF Here, Home
  <1>2. ASSUME NEW id \in Here(place, 0) PROVE id = 0
    BY Homes DEF Here
  <1>3. (CHOOSE id \in Here(place, 0) : TRUE) = 0
    BY <1>1, <1>2
  <1>4. 1 \in PageNo /\ BlockOf(1) = 0 /\ 1 % BlockPages = 1 /\ 1 \div BlockPages = 0
    BY FirstPages, BothPages
  <1>5. Candidate(image, place)[1] = ImagePage(image, place, 1)
    BY <1>1, <1>4 DEF Candidate
  <1>6. (0 * BlockPages) + (1 % BlockPages) = 1
    BY <1>4, Sizes
  <1>7. ImagePage(image, place, 1) = BootImagePage(image, 1)
    BY <1>3, <1>4, <1>6 DEF ImagePage
  <1>8. BootImagePage(image, 1) = [Page("good", 0, image, 1) EXCEPT !.manifest = {host.bad}]
    BY <1>4 DEF BootImagePage
  <1>9. image \in FsData .. Images /\ 0 \in Tag
    BY Numbers, Sizes, Tags, InstallAssumption DEF FsData
  <1>10. Page("good", 0, image, 1) \in PageType /\ Page("good", 0, image, 1).tag = 0
    BY <1>4, <1>9, NewPage
  <1> DEFINE plain == Page("good", 0, image, 1)
  <1> HIDE DEF plain
  <1>11. [plain EXCEPT !.manifest = {host.bad}].tag = plain.tag
    BY <1>10 DEF plain, PageType
  <1> QED BY <1>5, <1>7, <1>8, <1>10, <1>11 DEF plain

LEMMA InstallSound ==
  ASSUME IInv, IInv', NEW image \in 1 .. Images, Install(image)
  PROVE  Sound'
  <1>1. Good(0) /\ host'.bad = host.bad /\ host'.step = "linux"
    BY DEF Install, Packable, IInv, TypeInv, HostType
  <1>2. PICK place \in [Moved -> Pool] :
          chip' = Candidate(image, place) /\ CheckBoot(chip')
    BY DEF Install, Placements
  <1>3. host \in HostType
    BY DEF IInv, TypeInv
  <1>4. /\ \A p \in PageNo : BlockOf(p) \notin host.bad =>
             \/ chip'[p].tag = Blank /\ chip'[p].manifest = {}
             \/ \E id \in BootIds :
                  \A q \in PagesOf(BlockOf(p)) : Packed(chip'[q], image, id, q)
        /\ chip'[1].ecc = "good" /\ chip'[1].manifest = {host.bad}
    BY <1>1, <1>2, CandidatePages
  <1>5. chip'[1].tag = 0
    BY <1>1, <1>2, <1>3, FirstPagePacked
  <1>6. ASSUME NEW p \in PageNo, BlockOf(p) \notin host.bad, chip'[p].tag \in BootIds
        PROVE  chip'[p].ecc = "good"
    <2>1. chip'[p].tag # Blank
      BY <1>6, Tags, Sizes
    <2> QED BY <1>4, <1>6, <2>1, PageSplit DEF Packed
  <1>7. ASSUME NEW p \in PageNo, BlockOf(p) \notin host.bad, chip'[p].tag \in BootIds
        PROVE  \A q \in PagesOf(BlockOf(p)) : chip'[q].tag = chip'[p].tag
    BY <1>1, <1>7 DEF IInv, ImageInv
  <1>8. \E b \in BlockNo : RomPlaces(chip', 1) = {b} /\ \A p \in PagesOf(b) : chip'[p].ecc = "good"
    <2>1. 1 \in SplIds
      BY Sizes DEF SplIds
    <2> QED BY <1>2, <2>1 DEF CheckBoot, RomSpl
  <1> DEFINE s == Scan(chip', FALSE)
             voting == BlockNo \ host.bad
  <1>9. Excluded(chip', FALSE) = host.bad /\ host.bad \subseteq BlockNo
    BY <1>3, <1>4 DEF Excluded, Readable, HostType
  <1>10. voting = BlockNo \ Excluded(chip', FALSE) /\ Excluded(chip', FALSE) \subseteq BlockNo
    BY <1>9
  <1>11. s.ok /\ \A page \in BootPage : s.block[page \div BlockPages] # NoBlock
    BY <1>2 DEF CheckBoot, ReadOk
  <1>12. \A id \in BootIds : s.block[id] # NoBlock =>
           s.block[id] \in voting /\ Elects(chip', s.block[id], id, FALSE)
    <2>1. \A lenient : Excluded(chip', lenient) \subseteq BlockNo =>
            \A id \in BootIds : Scan(chip', lenient).block[id] # NoBlock =>
              /\ Scan(chip', lenient).block[id] \in BlockNo \ Excluded(chip', lenient)
              /\ Elects(chip', Scan(chip', lenient).block[id], id, lenient)
      BY ScanResult
    <2>2. \A id \in BootIds : s.block[id] # NoBlock =>
            /\ s.block[id] \in BlockNo \ Excluded(chip', FALSE)
            /\ Elects(chip', s.block[id], id, FALSE)
      BY <1>10, <2>1, Zenon
    <2> HIDE DEF s
    <2> QED BY <1>10, <2>2
  <1>13. \A id \in BootIds : \A b, d \in voting :
           Elects(chip', b, id, FALSE) /\ Elects(chip', d, id, FALSE) => b = d
    <2>1. \A lenient, set : set = BlockNo \ Excluded(chip', lenient) /\ Scan(chip', lenient).ok =>
            \A id \in BootIds : \A b, d \in set :
              Elects(chip', b, id, lenient) /\ Elects(chip', d, id, lenient) => b = d
      BY ScanDecides
    <2> HIDE DEF voting
    <2> QED BY <1>10, <1>11, <2>1, Zenon
  <1> HIDE DEF s
  <1>14. ASSUME NEW id \in BootIds
         PROVE  \E b \in voting : \A p \in PageNo : BlockOf(p) \notin host.bad =>
                  (chip'[p].tag = id <=> BlockOf(p) = b)
    <2> DEFINE b == s.block[id]
    <2>1. b # NoBlock
      <3>1. id \in BlockNo /\ id * BlockPages \in BootPage /\ (id * BlockPages) \div BlockPages = id
        BY HomePages
      <3> QED BY <1>11, <3>1
    <2>2. b \in voting /\ Elects(chip', b, id, FALSE)
      BY <1>12, <2>1
    <2> HIDE DEF b
    <2>3. ASSUME NEW p \in PageNo, BlockOf(p) \notin host.bad, chip'[p].tag = id
          PROVE  BlockOf(p) = b
      <3> DEFINE d == BlockOf(p)
      <3>1. d \in voting
        BY <2>3, PageSplit
      <3>2. \A q \in PagesOf(d) : chip'[q].tag = id
        BY <1>7, <2>3
      <3>3. \A q \in PagesOf(d) : q \in PageNo /\ BlockOf(q) = d
        BY <3>1, PageOfBlock
      <3> HIDE DEF d
      <3>4. \A q \in PagesOf(d) : Readable(chip'[q], FALSE)
        BY <1>6, <3>1, <3>2, <3>3 DEF Readable
      <3>5. Elects(chip', d, id, FALSE)
        <4>1. \A lenient : (\A q \in PagesOf(d) : chip'[q].tag = id /\ Readable(chip'[q], lenient))
                 => Elects(chip', d, id, lenient)
          BY <3>1, WholeBlockElected
        <4> QED BY <3>2, <3>4, <4>1, Zenon
      <3> QED BY <1>13, <2>2, <3>1, <3>5 DEF d
    <2>4. ASSUME NEW p \in PageNo, BlockOf(p) = b PROVE chip'[p].tag = id
      <3>1. \A lenient : Elects(chip', b, id, lenient) => \E q \in PagesOf(b) : chip'[q].tag = id
        BY <2>2, ElectedTag
      <3>2. PICK q \in PagesOf(b) : chip'[q].tag = id
        BY <2>2, <3>1, Zenon
      <3>3. q \in PageNo /\ BlockOf(q) = b /\ p \in PagesOf(b)
        BY <2>2, <2>4, PageOfBlock, PageSplit
      <3> QED BY <1>7, <2>2, <3>2, <3>3
    <2> QED BY <2>2, <2>3, <2>4
  <1>15. \A id \in BootIds : OneHome(id)'
    BY <1>1, <1>14 DEF OneHome
  <1>16. \E b \in BlockNo : RomPlaces(chip, 1)' = {b} /\ Intact(b)'
    BY <1>8 DEF Intact, RomPlaces
  <1> QED BY <1>1, <1>4, <1>5, <1>6, <1>15, <1>16 DEF Sound

----------------------------------------------------------------------------
\* Every step keeps it.

LEMMA SameSound ==
  ASSUME UNCHANGED chip, host'.bad = host.bad
  PROVE  (Sound' <=> Sound) /\ (DataOnlyChip' <=> DataOnlyChip)
  <1>1. \A id : OneHome(id)' <=> OneHome(id)
    BY DEF OneHome
  <1>2. \A b : Intact(b)' <=> Intact(b)
    BY DEF Intact
  <1>3. DataOnlyChip' <=> DataOnlyChip
    BY DEF DataOnlyChip
  <1> QED BY <1>1, <1>2, <1>3 DEF Sound

LEMMA SameChipPacked ==
  ASSUME PackedInv, UNCHANGED <<chip, host>> PROVE ChipPacked'
  BY SameSound DEF PackedInv, ChipPacked

\* What the packed chip grants to one who starts from it.
LEMMA PackedStep ==
  ASSUME IInv, PackedInv, host.step \in {"linux", "dataonly"}, host.faults = 0
  PROVE  /\ spl.pc # "failed"
         /\ host.step = "linux" => Sound /\ driver.mode # "none"
         /\ host.step = "dataonly" => DataOnlyChip
         /\ spl.pc \in {"manifest", "load"} =>
              /\ (spl.map.protected <=> host.step = "linux") /\ Complete(spl.map)
              /\ host.step = "linux" => MapRight(spl.map)
         /\ spl.pc = "manifest" => host.step = "linux"
  <1>1. /\ spl.pc # "failed"
        /\ host.step = "linux" => Sound /\ driver.mode # "none"
        /\ host.step = "dataonly" => DataOnlyChip
        /\ spl.pc \in {"manifest", "load"} =>
             (spl.map.protected <=> host.step = "linux") /\ Complete(spl.map)
        /\ spl.pc = "manifest" => host.step = "linux"
    BY DEF PackedInv, ChipPacked, SplPacked, DriverPacked
  <1>2. ASSUME spl.pc \in {"manifest", "load"}, host.step = "linux" PROVE MapRight(spl.map)
    <2>1. chip[1].ecc # "bad"
      BY <1>1, <1>2 DEF Sound
    <2> QED BY <1>2, <2>1 DEF IInv, BootInv
  <1> QED BY <1>1, <1>2

\* A boot step keeps it when it does not fail and its map, if it has one,
\* is complete.
LEMMA BootKeeps ==
  ASSUME IInv, PackedInv, UNCHANGED <<chip, host, driver>>,
         host.step \in {"linux", "dataonly"} /\ host.faults = 0 =>
           /\ spl'.pc # "failed"
           /\ spl'.pc \in {"manifest", "load"} =>
                (spl'.map.protected <=> host.step = "linux") /\ Complete(spl'.map)
           /\ spl'.pc = "manifest" => host.step = "linux"
  PROVE  PackedInv'
  <1>1. ChipPacked' /\ DriverPacked'
    BY SameChipPacked DEF PackedInv, DriverPacked
  <1>2. Complete(spl.map)' <=> Complete(spl'.map)
    BY DEF Complete
  <1>3. SplPacked'
    BY <1>2 DEF SplPacked
  <1> QED BY <1>1, <1>3 DEF PackedInv

LEMMA RomKeeps == ASSUME IInv, PackedInv, Rom PROVE PackedInv'
  <1>1. UNCHANGED <<chip, host, driver>> /\ spl \in SplType
    BY DEF Rom, IInv, TypeInv
  <1>2. ASSUME host.step \in {"linux", "dataonly"}, host.faults = 0 PROVE spl'.pc = "spl"
    <2>1. CASE host.step = "dataonly"
      BY <1>1, <2>1 DEF Rom, SplType
    <2>2. CASE host.step = "linux"
      <3>1. PICK b \in BlockNo : RomPlaces(chip, 1) = {b} /\ Intact(b)
        BY <1>2, <2>2, PackedStep DEF Sound
      <3>2. \A d \in RomPlaces(chip, 1) : \A p \in PagesOf(d) : chip[p].ecc = "good"
        BY <3>1 DEF Intact
      <3> QED BY <1>1, <2>2, <3>1, <3>2 DEF Rom, SplType
    <2> QED BY <1>2, <2>1, <2>2
  <1> QED BY <1>1, <1>2, BootKeeps

LEMMA SplScanKeeps == ASSUME IInv, PackedInv, SplScan PROVE PackedInv'
  <1> DEFINE s == Scan(chip, TRUE)
  <1>1. /\ UNCHANGED <<chip, host, driver>> /\ spl \in SplType
        /\ s.ok => spl' = [spl EXCEPT !.pc = IF s.protected THEN "manifest" ELSE "load",
                                      !.map = s, !.next = FirstKernelPage]
    BY DEF SplScan, IInv, TypeInv
  <1>2. ASSUME host.step \in {"linux", "dataonly"}, host.faults = 0
        PROVE  s.ok /\ (s.protected <=> host.step = "linux") /\ Complete(s)
    <2>1. CASE host.step = "dataonly"
      BY <1>2, <2>1, PackedStep, ScanDataOnly
    <2>2. CASE host.step = "linux"
      <3>1. \A lenient : /\ Scan(chip, lenient).ok /\ Scan(chip, lenient).protected
                         /\ Complete(Scan(chip, lenient))
        BY <1>2, <2>2, PackedStep, ScanPacked
      <3>2. s.ok /\ s.protected /\ Complete(s)
        BY <3>1, Zenon
      <3> QED BY <2>2, <3>2
    <2> QED BY <1>2, <2>1, <2>2
  <1> HIDE DEF s
  <1>3. ASSUME s.ok
        PROVE  /\ spl'.map = s /\ spl'.pc \in {"manifest", "load"}
               /\ spl'.pc = "manifest" => s.protected
    BY <1>1, <1>3 DEF SplType
  <1> QED BY <1>1, <1>2, <1>3, BootKeeps

LEMMA SplManifestKeeps == ASSUME IInv, PackedInv, SplManifest PROVE PackedInv'
  <1>1. /\ UNCHANGED <<chip, host, driver>> /\ spl \in SplType /\ spl.pc = "manifest"
        /\ ManifestRead => spl' = [spl EXCEPT !.pc = "load"]
        /\ spl.map \in MapType
    BY DEF SplManifest, IInv, TypeInv, SplType
  <1>2. ASSUME host.step \in {"linux", "dataonly"}, host.faults = 0
        PROVE  /\ ManifestRead /\ host.step = "linux"
               /\ spl.map.protected /\ Complete(spl.map)
    <2>1. /\ host.step = "linux" /\ Sound /\ spl.map.protected /\ Complete(spl.map)
          /\ MapRight(spl.map)
      BY <1>1, <1>2, PackedStep
    <2>2. \A lenient : ReadOk(spl.map, chip, 1, lenient)
      BY <1>1, <2>1, BothPages, PackedReads
    <2>3. ReadOk(spl.map, chip, 1, FALSE)
      BY <2>2, Zenon
    <2>4. PhysicalPage(spl.map, 1) = 1
      BY <1>1, <2>1, ManifestAtHome
    <2>5. chip[1].manifest # {}
      BY <2>1 DEF IInv, ManifestInv
    <2> QED BY <2>1, <2>3, <2>4, <2>5 DEF ManifestRead
  <1>3. ASSUME ManifestRead PROVE spl'.pc = "load" /\ spl'.map = spl.map
    BY <1>1, <1>3 DEF SplType
  <1> QED BY <1>1, <1>2, <1>3, BootKeeps

LEMMA SplLoadKeeps == ASSUME IInv, PackedInv, SplLoad PROVE PackedInv'
  <1> DEFINE page == spl.next
             read == ReadOk(spl.map, chip, page, TRUE)
             more == spl.loaded \cup {<<page, chip[PhysicalPage(spl.map, page)].data>>}
             pc == IF page + 1 \in BootPage THEN "load" ELSE "jumped"
  <1>1. /\ UNCHANGED <<chip, host, driver>> /\ spl \in SplType /\ spl.pc = "load"
        /\ spl.map \in MapType
        /\ read => spl' = [spl EXCEPT !.loaded = more, !.next = page + 1, !.pc = pc]
    BY DEF SplLoad, IInv, TypeInv, SplType
  <1>2. page \in BootPage
    BY <1>1, KernelPages DEF IInv, BootInv
  <1>3. ASSUME host.step \in {"linux", "dataonly"}, host.faults = 0
        PROVE  read /\ (spl.map.protected <=> host.step = "linux") /\ Complete(spl.map)
    <2>1. /\ spl.map.protected <=> host.step = "linux"
          /\ Complete(spl.map)
          /\ host.step = "linux" => Sound /\ MapRight(spl.map)
          /\ host.step = "dataonly" => DataOnlyChip
      BY <1>1, <1>3, PackedStep
    <2> HIDE DEF page, read
    <2>2. CASE host.step = "dataonly"
      <3>1. ReadOk(spl.map, chip, page, TRUE)
        BY <1>1, <1>2, <2>1, <2>2, DataOnlyReads
      <3> QED BY <2>1, <3>1 DEF read
    <2>3. CASE host.step = "linux"
      <3>1. \A lenient : ReadOk(spl.map, chip, page, lenient)
        BY <1>1, <1>2, <2>1, <2>3, PackedReads
      <3>2. read
        BY <3>1, Zenon DEF read
      <3> QED BY <2>1, <3>2
    <2> QED BY <1>3, <2>2, <2>3
  <1> HIDE DEF more, read
  <1>4. ASSUME read PROVE spl'.pc \in {"load", "jumped"} /\ spl'.map = spl.map
    BY <1>1, <1>4 DEF SplType
  <1> QED BY <1>1, <1>3, <1>4, BootKeeps

\* The set-up of a driver.
LEMMA SetupKeeps ==
  ASSUME IInv, PackedInv, UNCHANGED <<chip, host, spl>>,
         host.step = "linux" /\ host.faults = 0 => driver'.mode # "none"
  PROVE  PackedInv'
  <1>1. ChipPacked' /\ DriverPacked'
    BY SameChipPacked DEF DriverPacked
  <1>2. SplPacked'
    BY DEF PackedInv, SplPacked, Complete
  <1> QED BY <1>1, <1>2 DEF PackedInv

LEMMA Setup42Keeps == ASSUME IInv, PackedInv, Setup42 PROVE PackedInv'
  <1>1. UNCHANGED <<chip, host, spl>> /\ driver'.mode = Mode42
    BY DEF Setup42
  <1>2. ASSUME host.step = "linux", host.faults = 0 PROVE Mode42 = "physical"
    <2> DEFINE s == Scan(chip, FALSE)
    <2>1. Sound
      BY <1>2, PackedStep
    <2>2. \A lenient : /\ Scan(chip, lenient).ok /\ Scan(chip, lenient).protected
                       /\ Complete(Scan(chip, lenient)) /\ Scan(chip, lenient) \in MapType
                       /\ MapRight(Scan(chip, lenient))
      <3>1. TypeInv /\ chip[1].ecc = "good"
        BY <2>1 DEF IInv, Sound
      <3> QED BY <1>2, <2>1, <3>1, ScanPacked, ScanRight, ScanResult, ExcludedBlocks
    <2>3. /\ s.ok /\ s.protected /\ Complete(s) /\ s \in MapType /\ MapRight(s)
      BY <2>2, Zenon
    <2>4. \A lenient : ReadOk(s, chip, 1, lenient)
      BY <1>2, <2>1, <2>3, BothPages, PackedReads
    <2>5. ReadOk(s, chip, 1, FALSE)
      BY <2>4, Zenon
    <2>6. PhysicalPage(s, 1) = 1
      BY <1>2, <2>1, <2>3, ManifestAtHome
    <2>7. chip[1].manifest # {} /\ chip[1].ecc = "good"
      BY <1>2, <2>1 DEF IInv, ManifestInv, Sound
    <2> HIDE DEF s
    <2>8. chip[PhysicalPage(s, 1)].manifest # {}
      BY <2>6, <2>7
    <2> QED BY <2>3, <2>5, <2>7, <2>8 DEF Mode42, s
  <1> QED BY <1>1, <1>2, SetupKeeps

LEMMA SetupLegacyKeeps == ASSUME IInv, PackedInv, SetupLegacy PROVE PackedInv'
  <1>1. UNCHANGED <<chip, host, spl>>
    BY DEF SetupLegacy
  <1>2. ASSUME host.step = "linux", host.faults = 0 PROVE driver'.mode = "physical"
    <2>1. chip[1].ecc = "good" /\ chip[1].manifest # {}
      BY <1>2, PackedStep DEF IInv, ManifestInv, Sound
    <2> QED BY <2>1 DEF SetupLegacy
  <1> QED BY <1>1, <1>2, SetupKeeps

LEMMA PowerOffKeeps == ASSUME IInv, PackedInv, PowerOff PROVE PackedInv'
  <1>1. UNCHANGED <<chip, host>> /\ spl'.pc = "off" /\ driver'.mode = "off"
    BY OffType DEF PowerOff
  <1>2. ChipPacked'
    BY <1>1, SameChipPacked
  <1> QED BY <1>1, <1>2 DEF PackedInv, SplPacked, DriverPacked

LEMMA InstallKeeps ==
  ASSUME IInv, IInv', PackedInv, NEW image \in 1 .. Images, Install(image)
  PROVE  PackedInv'
  <1>1. spl'.pc = "off" /\ driver'.mode = "off" /\ host'.step = "linux"
    BY DEF Install, IInv, TypeInv, HostType
  <1>2. Sound'
    BY InstallSound
  <1> QED BY <1>1, <1>2 DEF PackedInv, ChipPacked, SplPacked, DriverPacked

\* What Linux does in its filesystem concerns neither the ROM nor a scan.
LEMMA LinuxKeeps ==
  ASSUME IInv, PackedInv, NEW p \in PageNo, Writable(BlockOf(p)), NEW page,
         chip' = [chip EXCEPT ![p] = page], page.tag \notin BootIds,
         host' = [host EXCEPT !.uses = @ + 1], UNCHANGED <<spl, driver>>
  PROVE  PackedInv'
  <1>1. host.step = "linux" /\ BlockOf(p) \in Arena /\ BlockOf(p) \notin host.bad
    BY DEF Writable, IInv, DriverInv
  <1>2. host'.step = host.step /\ host'.bad = host.bad /\ host'.faults = host.faults
    BY DEF IInv, TypeInv, HostType
  <1>3. BlockOf(p) \in GoodFs /\ BlockOf(p) \in BlockNo
    BY <1>1, PageSplit DEF GoodFs, Good
  <1>4. p # 1
    BY <1>1, FirstPages, Sizes DEF Arena
  <1>5. chip'[p] = page /\ \A q \in PageNo : q # p => chip'[q] = chip[q]
    BY ChipPages DEF IInv, TypeInv
  <1>6. \A q \in PageNo : BlockOf(q) = BlockOf(p) =>
          chip[q].tag \notin BootIds /\ chip'[q].tag \notin BootIds
    BY <1>1, <1>3, <1>5 DEF IInv, ManifestInv
  <1>7. ASSUME Sound PROVE Sound'
    <2>1. chip'[1].ecc = "good" /\ chip'[1].tag = 0
      BY <1>4, <1>5, <1>7, FirstPages DEF Sound
    <2>2. \A q \in PageNo : BlockOf(q) \notin host.bad /\ chip'[q].tag \in BootIds =>
            chip'[q].ecc = "good"
      BY <1>5, <1>7 DEF Sound
    <2>3. ASSUME NEW id \in BootIds PROVE OneHome(id)'
      <3>1. PICK b \in BlockNo \ host.bad :
              \A q \in PageNo : BlockOf(q) \notin host.bad => (chip[q].tag = id <=> BlockOf(q) = b)
        BY <1>7 DEF Sound, OneHome
      <3>2. \A q \in PageNo : chip'[q].tag = id <=> chip[q].tag = id
        BY <1>5, <1>6
      <3>3. \A q \in PageNo : BlockOf(q) \notin host.bad => (chip'[q].tag = id <=> BlockOf(q) = b)
        BY <3>1, <3>2
      <3> QED BY <1>2, <3>3 DEF OneHome
    <2>4. PICK b \in BlockNo : RomPlaces(chip, 1) = {b} /\ Intact(b)
      BY <1>7 DEF Sound
    <2>5. ASSUME NEW d \in BlockNo PROVE Votes(chip', d, 1, FALSE) = Votes(chip, d, 1, FALSE)
      <3>1. \A q \in Sample(d) : q \in PageNo
        BY SampleOfBlock, PageOfBlock
      <3>2. \A q \in Sample(d) : chip'[q].tag = 1 <=> chip[q].tag = 1
        BY <1>5, <1>6, <3>1, Sizes
      <3>3. \A q \in Sample(d) : chip[q].tag = 1 => chip'[q] = chip[q]
        BY <1>5, <1>6, <3>1, Sizes
      <3>4. \A q \in Sample(d) : (chip'[q].tag = 1 /\ Readable(chip'[q], FALSE))
                                   <=> (chip[q].tag = 1 /\ Readable(chip[q], FALSE))
        BY <3>2, <3>3
      <3> QED BY <3>4 DEF Votes
    <2>6. RomPlaces(chip', 1) = {b}
      BY <2>4, <2>5 DEF RomPlaces, Elects
    <2>7. Intact(b)'
      <3>1. Elects(chip, b, 1, FALSE)
        BY <2>4 DEF RomPlaces
      <3>2. \A lenient : Elects(chip, b, 1, lenient) => \E q \in PagesOf(b) : chip[q].tag = 1
        BY <2>4, ElectedTag
      <3>3. PICK q \in PagesOf(b) : chip[q].tag = 1
        BY <3>1, <3>2, Zenon
      <3>4. \A r \in PagesOf(b) : r \in PageNo /\ BlockOf(r) = b
        BY PageOfBlock
      <3>5. b # BlockOf(p)
        BY <1>6, <3>3, <3>4, Sizes
      <3>6. \A r \in PagesOf(b) : chip'[r] = chip[r]
        BY <1>5, <3>4, <3>5
      <3> QED BY <2>4, <3>6 DEF Intact
    <2>8. \E d \in BlockNo : RomPlaces(chip, 1)' = {d} /\ Intact(d)'
      BY <2>6, <2>7
    <2> QED BY <1>2, <2>1, <2>2, <2>3, <2>8 DEF Sound
  <1>8. ChipPacked'
    BY <1>1, <1>2, <1>7 DEF PackedInv, ChipPacked
  <1>9. SplPacked' /\ DriverPacked'
    BY <1>2 DEF PackedInv, SplPacked, DriverPacked, Complete
  <1> QED BY <1>8, <1>9 DEF PackedInv

LEMMA UseKeeps == ASSUME IInv, PackedInv, NEW p \in PageNo, Use(p) PROVE PackedInv'
  <1>1. PICK page \in {FsPage, BlankPage, TornPage} : chip' = [chip EXCEPT ![p] = page]
    BY DEF Use
  <1>2. page.tag \notin BootIds
    BY LinuxPage, Tags, Sizes
  <1>3. Writable(BlockOf(p)) /\ host' = [host EXCEPT !.uses = @ + 1] /\ UNCHANGED <<spl, driver>>
    BY DEF Use
  <1> QED BY <1>1, <1>2, <1>3, LinuxKeeps

LEMMA MarkBadKeeps ==
  ASSUME IInv, PackedInv, NEW b \in Arena, NEW i \in {0, 1}, MarkBad(b, i)
  PROVE  PackedInv'
  <1> DEFINE p == b * BlockPages + i
             page == [chip[p] EXCEPT !.tag = Marker]
  <1>1. /\ Writable(b) /\ chip' = [chip EXCEPT ![p].tag = Marker]
        /\ host' = [host EXCEPT !.uses = @ + 1] /\ UNCHANGED <<spl, driver>>
    BY DEF MarkBad
  <1>2. b \in BlockNo /\ i \in 0 .. BlockPages - 1
    BY Sizes
  <1>3. p \in PageNo /\ BlockOf(p) = b
    BY <1>2, PageAt
  <1> HIDE DEF p
  <1>4. chip[p] \in PageType /\ DOMAIN chip = PageNo
    BY <1>3, ChipPages DEF IInv, TypeInv
  <1>5. page.tag \notin BootIds
    BY <1>4, MarkedPage, Tags, Sizes
  <1>6. chip' = [chip EXCEPT ![p] = page] /\ Writable(BlockOf(p))
    BY <1>1, <1>3, <1>4
  <1> HIDE DEF page
  <1> QED BY <1>1, <1>3, <1>5, <1>6, LinuxKeeps

LEMMA WearKeeps == ASSUME IInv, PackedInv, NEW p \in PageNo, Wear(p) PROVE PackedInv'
  <1>1. host \in HostType
    BY DEF IInv, TypeInv
  <1>2. host'.step = "ce" \/ host'.faults # 0
    <2>1. CASE host.step = "ce" /\ host' = [host EXCEPT !.worn = @ + 1]
      BY <1>1, <2>1 DEF HostType
    <2>2. CASE host' = [host EXCEPT !.faults = @ + 1]
      <3>1. host'.faults = host.faults + 1 /\ host.faults \in Nat
        BY <1>1, <2>2, Numbers DEF HostType
      <3> QED BY <3>1
    <2> QED BY <2>1, <2>2 DEF Wear
  <1> QED BY <1>2 DEF PackedInv, ChipPacked, SplPacked, DriverPacked

LEMMA PackedNext == IInv /\ PackedInv /\ [Next]_vars => PackedInv'
  <1> SUFFICES ASSUME IInv, PackedInv, [Next]_vars PROVE PackedInv'
    OBVIOUS
  <1>1. CASE Inventory
    <2>1. host'.step \in {"packing", "refused"}
      BY <1>1 DEF Inventory, IInv, TypeInv, HostType
    <2> QED BY <2>1 DEF PackedInv, ChipPacked, SplPacked, DriverPacked
  <1>2. ASSUME NEW image \in 1 .. Images, Install(image) PROVE PackedInv'
    BY <1>2, InstallInv, InstallKeeps
  <1>3. CASE Rom
    BY <1>3, RomKeeps
  <1>4. CASE SplScan
    BY <1>4, SplScanKeeps
  <1>5. CASE SplManifest
    BY <1>5, SplManifestKeeps
  <1>6. CASE SplLoad
    BY <1>6, SplLoadKeeps
  <1>7. CASE Setup42
    BY <1>7, Setup42Keeps
  <1>8. CASE SetupLegacy
    BY <1>8, SetupLegacyKeeps
  <1>9. CASE PowerOff
    BY <1>9, PowerOffKeeps
  <1>10. ASSUME NEW p \in PageNo, Use(p) PROVE PackedInv'
    BY <1>10, UseKeeps
  <1>11. ASSUME NEW p \in PageNo, Wear(p) PROVE PackedInv'
    BY <1>11, WearKeeps
  <1>12. ASSUME NEW b \in Arena, NEW i \in {0, 1}, MarkBad(b, i) PROVE PackedInv'
    BY <1>12, MarkBadKeeps
  <1>13. CASE UNCHANGED vars
    <2>1. UNCHANGED <<chip, host, driver>> /\ spl' = spl
      BY <1>13 DEF vars
    <2>2. ChipPacked'
      BY <2>1, SameChipPacked
    <2> QED BY <2>1, <2>2 DEF PackedInv, SplPacked, DriverPacked, Complete
  <1> QED
    BY <1>1, <1>2, <1>3, <1>4, <1>5, <1>6, <1>7, <1>8, <1>9, <1>10, <1>11, <1>12, <1>13
       DEF Next

\* An image that passed --check-boot starts, loads and sets up a driver on
\* every boot until a page fails, whatever Linux does in its filesystem
\* meanwhile, and a data-only image always starts (nand_inventory.c 22-81,
\* nand_boot.c 47-130, spl.c 250-266).
THEOREM PackedDevicesBoot == Spec => []PackedBoots
  <1>1. Init => PackedInv
    <2> SUFFICES ASSUME Init PROVE PackedInv
      OBVIOUS
    <2>1. /\ host.step = "dataonly" => DataOnlyChip
          /\ host.step # "linux" /\ spl = Off
      BY DEF Init
    <2> QED BY <2>1, OffType DEF PackedInv, ChipPacked, SplPacked, DriverPacked
  <1>2. IInv /\ PackedInv /\ [Next]_vars => PackedInv'
    BY PackedNext
  <1>3. IInv /\ PackedInv => PackedBoots
    BY DEF PackedInv, SplPacked, DriverPacked, PackedBoots
  <1> QED BY <1>1, <1>2, <1>3, Invariant, PTL DEF Spec

=============================================================================
