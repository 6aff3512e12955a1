---------------------------- MODULE NandInstall -----------------------------
(***************************************************************************)
(* A device on its way from CE to Linux and its boots: inventory and pack  *)
(* (physical_linux_nand.py with its native helper), reinstalls over a used *)
(* filesystem (prepare_linux_nand_transaction.py), the masked ROM, the SPL *)
(* (spl.c) and the set-up of the Linux drivers.  Pages fail error          *)
(* correction at any moment, between two reads of a boot too.              *)
(***************************************************************************)
EXTENDS NandBoot

CONSTANTS
  Images,      \* Linux images that may be installed, numbered 1 .. Images
  MaxWorn,     \* bound: pages of the CE device that fail ECC
  MaxFaults,   \* bound: pages that fail ECC after the installation
  MaxUses      \* bound: pages Linux changes between two installations

ASSUME InstallAssumption ==
  Images \in Nat \ {0} /\ MaxWorn \in Nat /\ MaxFaults \in Nat /\ MaxUses \in Nat

VARIABLES
  chip,     \* physical page -> [ecc, tag, data, manifest]
  host,     \* the host's files: [step, backup, bad, reference, image], and
            \* the pages that failed or were used so far: worn, faults, uses
  spl,      \* the boot under way: [pc, image, map, next, loaded]
  driver    \* the Linux driver: [mode, bad]

vars == <<chip, host, spl, driver>>

CE == 0
FsData == -1
Arena == BootBlocks .. FsEnd - 1

Page(ecc, tag, image, at) ==
  [ecc |-> ecc, tag |-> tag, data |-> <<image, at>>, manifest |-> {}]

BlankPage == Page("none", Blank, FsData, 0)
FsPage    == Page("good", Blank, FsData, 1)
TornPage  == Page("bad", Blank, FsData, 0)

----------------------------------------------------------------------------
\* inventory and pack

Good(b) == b \notin host.bad
GoodFs == {b \in Arena : Good(b)}
Pool == {b \in FsEnd .. Blocks - 1 : Good(b)}

Moved == {b \in BootIds : ~Good(b)}

\* next(pool): the boot blocks in quarantine get the blocks of the pool in
\* their order, none left out; there is no such placement if they run out.
Placements ==
  {place \in [Moved -> Pool] :
     /\ \A a, b \in Moved : a < b => place[a] < place[b]
     /\ \A a \in Moved, c \in Pool : c < place[a] => \E b \in Moved : place[b] = c}

Home(place, b) == IF Good(b) THEN b ELSE place[b]

\* A page of the boot image, the manifest at logical page 1.
BootImagePage(image, page) ==
  [Page("good", page \div BlockPages, image, page) EXCEPT
     !.manifest = IF page = 1 THEN {host.bad} ELSE {}]

\* The boot blocks that a physical block gets.
Here(place, b) == {id \in BootIds : Home(place, id) = b}

ImagePage(image, place, p) ==
  LET id == CHOOSE i \in Here(place, BlockOf(p)) : TRUE IN
  BootImagePage(image, (id * BlockPages) + (p % BlockPages))

\* Bug: the quarantined blocks are erased with the others.
CandidateErased(image, place) ==
  [p \in PageNo |->
     IF Here(place, BlockOf(p)) # {} THEN ImagePage(image, place, p) ELSE BlankPage]

\* Quarantined blocks keep the bytes of the backup.
Candidate(image, place) ==
  [p \in PageNo |->
     IF Here(place, BlockOf(p)) # {} THEN ImagePage(image, place, p)
     ELSE IF ~Good(BlockOf(p)) THEN host.backup[p]
     ELSE IF BlockOf(p) \in GoodFs /\ p % BlockPages = 0 THEN FsPage
     ELSE BlankPage]

Packable == Good(0) /\ GoodFs # {}

Marked(c, b) == \E i \in {0, 1} : c[b * BlockPages + i].tag = Marker

\* snapshot_binding: what may have changed since the reference was installed.
Immutable == \A p \in PageNo : BlockOf(p) \notin GoodFs => chip[p] = host.reference[p]

\* Bug: only the first page of a block is searched for the marker.
SnapshotBoundFirst ==
  Immutable /\ \A b \in GoodFs : chip[b * BlockPages].tag # Marker

SnapshotBound == Immutable /\ \A b \in GoodFs : ~Marked(chip, b)

Inventory ==
  /\ host.step = "ce" /\ spl.pc = "off"
  /\ LET s == Scan(chip, FALSE) IN
       host' = IF s.ok
               THEN [host EXCEPT !.step = "packing", !.backup = chip, !.bad = s.quarantine]
               ELSE [host EXCEPT !.step = "refused"]
  /\ UNCHANGED <<chip, spl, driver>>

\* pack, check-boot, the binding of a used chip, and the external writer.
Install(image) ==
  /\ host.step \in {"packing", "linux"} /\ spl.pc = "off" /\ driver.mode = "off"
  /\ image > host.image
  /\ Packable
  /\ host.step = "linux" => SnapshotBound
  /\ \E place \in Placements :
       /\ CheckBoot(Candidate(image, place))
       /\ chip' = Candidate(image, place)
  /\ host' = [host EXCEPT !.step = "linux", !.reference = chip', !.image = image,
                          !.faults = 0, !.uses = 0]
  /\ UNCHANGED <<spl, driver>>

----------------------------------------------------------------------------
\* A boot

NoMap == [ok |-> FALSE, protected |-> FALSE, block |-> [id \in BootIds |-> NoBlock],
          quarantine |-> {}]

Off == [pc |-> "off", image |-> CE, map |-> NoMap, next |-> 0, loaded |-> {}]

Fail == spl' = [spl EXCEPT !.pc = "failed"]

\* The ROM reads the SPL, here its first block, from a block that has a
\* quorum for it; which of several, nobody knows.
Rom ==
  /\ spl.pc = "off" /\ driver.mode = "off"
  /\ \/ host.step = "dataonly" /\ spl' = [spl EXCEPT !.pc = "spl", !.image = 1]
     \/ host.step # "dataonly" /\ RomPlaces(chip, 1) = {} /\ Fail
     \/ /\ host.step # "dataonly"
        /\ \E b \in RomPlaces(chip, 1) :
             IF \A p \in PagesOf(b) : chip[p].ecc = "good"
             THEN spl' = [spl EXCEPT !.pc = "spl", !.image = chip[b * BlockPages].data[1]]
             ELSE Fail
  /\ UNCHANGED <<chip, host, driver>>

FirstKernelPage == (SplBlocks + 1) * BlockPages

SplScan ==
  /\ spl.pc = "spl" /\ spl.image # CE
  /\ LET s == Scan(chip, TRUE) IN
       IF s.ok THEN spl' = [spl EXCEPT !.pc = IF s.protected THEN "manifest" ELSE "load",
                                       !.map = s, !.next = FirstKernelPage]
       ELSE Fail
  /\ UNCHANGED <<chip, host, driver>>

\* Bug: a chip without a readable manifest is scanned all the same.
ManifestOptional == TRUE

ManifestRead ==
  ReadOk(spl.map, chip, 1, FALSE) /\ chip[PhysicalPage(spl.map, 1)].manifest # {}

SplManifest ==
  /\ spl.pc = "manifest"
  /\ IF ManifestRead THEN spl' = [spl EXCEPT !.pc = "load"] ELSE Fail
  /\ UNCHANGED <<chip, host, driver>>

SplLoad ==
  /\ spl.pc = "load"
  /\ IF ReadOk(spl.map, chip, spl.next, TRUE)
     THEN spl' = [spl EXCEPT !.loaded =
                               @ \cup {<<spl.next, chip[PhysicalPage(spl.map, spl.next)].data>>},
                             !.next = @ + 1,
                             !.pc = IF spl.next + 1 \in BootPage THEN "load" ELSE "jumped"]
     ELSE Fail
  /\ UNCHANGED <<chip, host, driver>>

\* Bug: a page that cannot be corrected is no manifest, so the image is data-only.
Mode42Lax == IF chip[1].ecc = "bad" \/ chip[1].manifest = {} THEN "data" ELSE "physical"

\* physical_setup of Linux 4.2; the kernel may also come from a card.
Mode42 ==
  LET s == Scan(chip, FALSE) IN
  IF chip[1].ecc = "bad" THEN "none"
  ELSE IF chip[1].manifest = {} THEN IF Parity(chip[1]) THEN "none" ELSE "data"
  ELSE IF s.ok /\ ReadOk(s, chip, 1, FALSE) /\ chip[PhysicalPage(s, 1)].manifest # {}
       THEN "physical" ELSE "none"

Setup42 ==
  /\ driver.mode = "off" /\ spl.pc \in {"off", "jumped"}
  /\ LET map == Scan(chip, FALSE) IN
     driver' = [mode |-> Mode42,
                bad |-> IF Mode42 = "physical"
                        THEN UNION chip[PhysicalPage(map, 1)].manifest ELSE {}]
  /\ UNCHANGED <<chip, host, spl>>

\* be300_physical_init of 2.4 and 2.6.
SetupLegacy ==
  /\ driver.mode = "off" /\ spl.pc \in {"off", "jumped"}
  /\ driver' = IF chip[1].ecc = "good" /\ chip[1].manifest # {}
               THEN [mode |-> "physical", bad |-> UNION chip[1].manifest]
               ELSE [mode |-> "none", bad |-> {}]
  /\ UNCHANGED <<chip, host, spl>>

PowerOff ==
  /\ spl.pc # "off" \/ driver.mode # "off"
  /\ spl' = Off
  /\ driver' = [mode |-> "off", bad |-> {}]
  /\ UNCHANGED <<chip, host>>

----------------------------------------------------------------------------
\* The chip

Writable(b) ==
  /\ driver.mode = "physical" /\ host.uses < MaxUses
  /\ b \in Arena /\ b \notin driver.bad /\ ~Marked(chip, b)

\* Linux programs, erases or tears a page of the filesystem.
Use(p) ==
  /\ Writable(BlockOf(p))
  /\ \E page \in {FsPage, BlankPage, TornPage} : chip' = [chip EXCEPT ![p] = page]
  /\ host' = [host EXCEPT !.uses = @ + 1]
  /\ UNCHANGED <<spl, driver>>

\* Linux gives a block up.
MarkBad(b, i) ==
  /\ Writable(b)
  /\ chip' = [chip EXCEPT ![b * BlockPages + i].tag = Marker]
  /\ host' = [host EXCEPT !.uses = @ + 1]
  /\ UNCHANGED <<spl, driver>>

\* A page outside Linux's filesystem can no longer be corrected, or a
\* stray parity byte shows up in a data-only image.
Wear(p) ==
  /\ chip[p].ecc = IF host.step = "dataonly" THEN "none" ELSE "good"
  /\ \/ /\ host.step = "ce" /\ host.worn < MaxWorn
        /\ host' = [host EXCEPT !.worn = @ + 1]
     \/ /\ host.step \in {"linux", "dataonly"} /\ host.faults < MaxFaults
        /\ BlockOf(p) \notin GoodFs
        /\ host' = [host EXCEPT !.faults = @ + 1]
  /\ chip' = [chip EXCEPT ![p].ecc = "bad"]
  /\ UNCHANGED <<spl, driver>>

\* CE's device: every block under its own number, one of them relocated,
\* the rest of the pool erased, perhaps with an OTA journal at its end.
CeChip ==
  \E gone \in {NoBlock} \cup 1 .. FsEnd - 1, last \in {Erased, Journal} :
    chip = [p \in PageNo |->
              LET b == BlockOf(p) IN
              IF b = gone THEN Page("bad", b, CE, p)
              ELSE IF b = FsEnd /\ gone # NoBlock
                   THEN Page("good", gone, CE, (gone * BlockPages) + (p % BlockPages))
              ELSE IF b = Blocks - 1 THEN Page("good", last, CE, 0)
              ELSE IF b >= FsEnd THEN Page("good", Erased, CE, 0)
              ELSE Page("good", b, CE, p)]

\* An emulator's data-only image: tags, but no parity.
DataOnlyChip == chip = [p \in PageNo |-> Page("none", BlockOf(p), 1, p)]

Init ==
  /\ \E step \in {"ce", "dataonly"} :
       /\ IF step = "ce" THEN CeChip ELSE DataOnlyChip
       /\ host = [step |-> step, backup |-> chip, bad |-> {}, reference |-> chip,
                  image |-> IF step = "ce" THEN CE ELSE 1,
                  worn |-> 0, faults |-> 0, uses |-> 0]
  /\ spl = Off
  /\ driver = [mode |-> "off", bad |-> {}]

Next ==
  \/ Inventory
  \/ \E image \in 1 .. Images : Install(image)
  \/ Rom \/ SplScan \/ SplManifest \/ SplLoad
  \/ Setup42 \/ SetupLegacy \/ PowerOff
  \/ \E p \in PageNo : Use(p) \/ Wear(p)
  \/ \E b \in Arena, i \in {0, 1} : MarkBad(b, i)

Spec == Init /\ [][Next]_vars

----------------------------------------------------------------------------

Data == (FsData .. Images) \X PageNo

ChipType ==
  [PageNo -> [ecc : {"good", "bad", "none"}, tag : Tag, data : Data,
              manifest : SUBSET SUBSET BlockNo]]

TypeOK ==
  /\ chip \in ChipType
  /\ host \in [step : {"ce", "dataonly", "packing", "linux", "refused"}, backup : ChipType,
               bad : SUBSET BlockNo, reference : ChipType, image : 0 .. Images,
               worn : 0 .. MaxWorn, faults : 0 .. MaxFaults, uses : 0 .. MaxUses]
  /\ spl.pc \in {"off", "spl", "manifest", "load", "jumped", "failed"}
  /\ spl.map \in MapType /\ spl.image \in FsData .. Images
  /\ spl.loaded \subseteq BootPage \X Data
  /\ spl.pc = "load" => spl.next \in FirstKernelPage .. BootBlocks * BlockPages - 1
  /\ driver \in [mode : {"off", "none", "data", "physical"}, bad : SUBSET BlockNo]

\* The ROM starts the installed SPL and every kernel page that SPL accepts
\* is that page of the image installed last, whichever pages failed before
\* and during the boot: preserved CE blocks never take the place of a lost
\* one (nand_boot.c 60-62, PHYSICAL_NAND.md 87-90).
BootNeverStale ==
  /\ \A l \in spl.loaded : l[2] = <<host.image, l[1]>>
  /\ host.step = "linux" /\ spl.pc \notin {"off", "failed"} => spl.image = host.image

\* An image that --check-boot passed, and a data-only image in the emulator,
\* boots as long as no page fails.
PackedBoots ==
  host.step \in {"linux", "dataonly"} /\ host.faults = 0 =>
    /\ spl.pc # "failed"
    /\ driver.mode = "none" => host.step = "dataonly"

\* Linux writes as to a data-only image on no real chip, and a physical
\* driver, of either kernel, knows the installed quarantine.
DriverKnowsChip ==
  /\ driver.mode = "data" => host.step = "dataonly"
  /\ driver.mode = "physical" => driver.bad = host.bad

\* A block Linux gave up stays marked: a reinstall is refused instead of
\* erasing the marker (prepare_linux_nand_transaction.py 42-44).
MarkersSurvive == [][\A b \in GoodFs : Marked(chip, b) => Marked(chip, b)']_vars

\* Quarantined blocks keep the bytes of the CE backup.
QuarantineKept ==
  host.step = "linux" => \A p \in PageNo : BlockOf(p) \in host.bad =>
    chip[p].tag = host.backup[p].tag /\ chip[p].data = host.backup[p].data

=============================================================================
