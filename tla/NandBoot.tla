------------------------------ MODULE NandBoot ------------------------------
(***************************************************************************)
(* How boot code finds a logical block on the physical chip (nand_boot.c): *)
(* the first pages of every block vote with their spare tags, a manifest   *)
(* in physical page 1 excludes blocks from the vote, and a map that is     *)
(* missing, ambiguous or no longer readable fails the boot.  Also the      *)
(* quorum of the masked ROM as nand_inventory.c's rom_spl checks it.       *)
(*                                                                         *)
(* A page's error correction is "good", "bad" (uncorrectable) or "none"    *)
(* (no parity byte programmed).  Its tag is the number of a logical block  *)
(* or one of the negative codes.  "data" says which image it is from and   *)
(* which logical page of it; "manifest" is {Q} on a manifest that          *)
(* quarantines the set Q, and {} on any other page.                        *)
(***************************************************************************)
EXTENDS Integers, FiniteSets

CONSTANTS
  Blocks,       \* physical blocks (1024)
  BlockPages,   \* pages of a block (32)
  BootBlocks,   \* logical boot blocks (320)
  FsEnd,        \* end of the filesystem arena, first block of the pool (1004)
  SplBlocks,    \* blocks 1 .. SplBlocks hold the SPL
  Voters,       \* pages of a block that vote (5)
  Quorum        \* votes that elect (3)

ASSUME BootAssumption ==
  /\ Blocks \in Nat /\ BlockPages \in Nat \ {0, 1} /\ BootBlocks \in Nat /\ FsEnd \in Nat
  /\ SplBlocks \in Nat \ {0} /\ SplBlocks + 1 < BootBlocks
  /\ BootBlocks < FsEnd /\ FsEnd < Blocks
  /\ Voters \in 1 .. BlockPages /\ Quorum \in 1 .. Voters /\ 2 * Quorum > Voters

BlockNo   == 0 .. Blocks - 1
PageNo    == 0 .. Blocks * BlockPages - 1
BootPage  == 0 .. BootBlocks * BlockPages - 1   \* logical
BootIds   == 0 .. BootBlocks - 1
SplIds    == 1 .. SplBlocks

BlockOf(p) == p \div BlockPages
PagesOf(b) == {b * BlockPages + i : i \in 0 .. BlockPages - 1}
Sample(b)  == {b * BlockPages + i : i \in 0 .. Voters - 1}

\* Spare tags that carry no logical block number.
Journal == -1
Erased  == -2
Blank   == -3
Marker  == -4
Tag     == BlockNo \cup {Journal, Erased, Blank, Marker}

NoBlock == -1

MapType == [ok : BOOLEAN, protected : BOOLEAN, block : [BootIds -> BlockNo \cup {NoBlock}],
            quarantine : SUBSET BlockNo]

Parity(page) == page.ecc # "none"

\* checked(): a page without parity passes only in the lenient mode.
Readable(page, lenient) == page.ecc = "good" \/ (lenient /\ page.ecc = "none")

----------------------------------------------------------------------------
\* nand_boot_scan

\* The blocks the manifest in physical page 1 keeps out of the vote.
Excluded(chip, lenient) ==
  IF Readable(chip[1], lenient) THEN UNION chip[1].manifest ELSE {}

Votes(chip, b, tag, lenient) ==
  {p \in Sample(b) : chip[p].tag = tag /\ Readable(chip[p], lenient)}

Elects(chip, b, tag, lenient) == Cardinality(Votes(chip, b, tag, lenient)) >= Quorum

ElectsProtected(chip, b, tag, lenient) ==
  Cardinality({p \in Votes(chip, b, tag, lenient) : Parity(chip[p])}) >= Quorum

\* A block whose quorum is not intact is left to nobody but its old bytes,
\* unless it is an OTA journal without a logical tag.
Untrusted(chip, b, lenient) ==
  LET failed == \E p \in Sample(b) : ~Readable(chip[p], lenient)
      tagged == \E p \in Sample(b) : chip[p].tag >= 0 /\ Readable(chip[p], lenient)
      erased == {p \in Votes(chip, b, Erased, lenient) : Parity(chip[p])}
  IN  /\ ~(~tagged /\ Elects(chip, b, Journal, lenient))
      /\ failed \/ ~(\/ \E id \in BlockNo : ElectsProtected(chip, b, id, lenient)
                     \/ Cardinality(erased) >= Quorum)

Scan(chip, lenient) ==
  LET out == Excluded(chip, lenient)
      voting == BlockNo \ out
      protected == \E p \in {1} \cup UNION {Sample(b) : b \in voting} : Parity(chip[p])
      elected == [id \in BootIds |-> {b \in voting : Elects(chip, b, id, lenient)}]
      kept == [id \in BootIds |->
                 {b \in elected[id] : protected => ElectsProtected(chip, b, id, lenient)}]
  IN  [ok |-> \A id \in BootIds : \A b, c \in elected[id] : b = c,
       protected |-> protected,
       block |-> [id \in BootIds |->
                    IF kept[id] = {} THEN NoBlock ELSE CHOOSE b \in kept[id] : TRUE],
       quarantine |-> out \cup {b \in voting : Untrusted(chip, b, lenient)}]

\* nand_boot_read: the page of a map that holds a logical page, and whether
\* it is handed out; a map is lenient only while no parity was ever seen.
PhysicalPage(map, page) == (map.block[page \div BlockPages] * BlockPages) + (page % BlockPages)

ReadOk(map, chip, page, lenient) ==
  /\ map.block[page \div BlockPages] # NoBlock
  /\ Readable(chip[PhysicalPage(map, page)], lenient /\ ~map.protected)
  /\ Parity(chip[PhysicalPage(map, page)]) => map.protected

----------------------------------------------------------------------------
\* rom_spl

\* The ROM knows no manifest: every block votes, strictly.
RomPlaces(chip, id) == {b \in BlockNo : Elects(chip, b, id, FALSE)}

RomSpl(chip) ==
  /\ chip[0].ecc = "good"
  /\ \A id \in SplIds :
       \E b \in BlockNo : /\ RomPlaces(chip, id) = {b}
                          /\ \A p \in PagesOf(b) : chip[p].ecc = "good"

\* Bug: the tags the ROM will see are not looked at.
CheckBootNoRom(chip) ==
  LET map == Scan(chip, FALSE) IN
  map.ok /\ \A page \in BootPage : ReadOk(map, chip, page, FALSE)

\* nand_inventory --check-boot
CheckBoot(chip) ==
  LET map == Scan(chip, FALSE) IN
  /\ RomSpl(chip)
  /\ map.ok
  /\ \A page \in BootPage : ReadOk(map, chip, page, FALSE)

=============================================================================
