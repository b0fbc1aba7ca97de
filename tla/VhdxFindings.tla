----------------------------- MODULE VhdxFindings -----------------------------
(***************************************************************************)
(* What the integrity analyser says of the layout of an image, of its      *)
(* metadata, of the size of its table and of bytes that no block holds     *)
(* (forensic/src/integrity.rs), beside what the reader makes of the same   *)
(* bytes.                                                                  *)
(*                                                                         *)
(* An image is one region table that both take, the items of its metadata  *)
(* table, the entries of its block allocation table, and the cells of the  *)
(* container that are not all zeros.  Lengths are counted in cells, of     *)
(* which Mib make 1 MiB, and a cell of the table holds WordsPerCell        *)
(* entries.  Items have offsets of their own, in units of four bytes.      *)
(*                                                                         *)
(* The findings about one entry that repair acts on are also in            *)
(* EntryIssues of VhdxContainer, in the order in which repair meets them.  *)
(***************************************************************************)
EXTENDS VhdxBat, FiniteSets, FiniteSetsExt, SequencesExt

CONSTANTS
    Image,
    WordsPerCell,
    ReservedEnd,      \* LOG_RESERVED_ZONE_END, in cells
    BlockSizes,       \* the powers of two from 1 MiB to 256 MiB
    SectorSizes,      \* 512 and 4096
    DefaultSector,    \* 512
    MaxDisk,          \* 64 TiB
    AnalyserItems,    \* metadata items the analyser takes values from; 256 in the code
    ComparedItems     \* metadata items whose places it checks; 2048 in the code

Missing == -1

\* The places in a region table of the entry of a name that is taken: the last.
LastPlaces(regions, name) ==
    {k \in DOMAIN regions :
        /\ regions[k].name = name
        /\ \A l \in k + 1 .. Len(regions) : regions[l].name # name}

\* What lies in a container, at any place and of any value.  The entries of the table fit
\* in its region, and the metadata region, where it ends in the container, in the room
\* from its start to the container's end.
IsImage(i) ==
    /\ i.regions \in Seq([name : STRING, at : Nat, len : Nat, required : BOOLEAN])
    /\ i.log \in [at : Nat, len : Nat]
    /\ i.items \in Seq([name : STRING, off : Nat, len : Nat])
    /\ i.metaLen \in Nat /\ i.metaRoom \in Nat /\ i.data \in [0 .. i.metaRoom - 1 -> Nat]
    /\ i.bat \in Seq(Entry)
    /\ i.size \in Nat /\ i.full \subseteq 0 .. i.size - 1 /\ i.parent \in BOOLEAN
    /\ \A k \in LastPlaces(i.regions, "bat") : Len(i.bat) <= WordsPerCell * i.regions[k].len
    /\ \A k \in LastPlaces(i.regions, "meta") :
          i.regions[k].at + i.regions[k].len <= i.size => i.metaLen <= i.metaRoom

\* Blocks, sectors and the bytes of a bitmap are powers of two in the ranges of validate:
\* a bitmap block describes whole blocks.
ASSUME FindingsAssumption ==
    /\ \A i \in Image : IsImage(i)
    /\ WordsPerCell \in Nat \ {0} /\ MaxDisk \in Nat
    /\ AnalyserItems \in Nat /\ ComparedItems \in Nat /\ AnalyserItems <= ComparedItems
    /\ BlockSizes \subseteq Nat \ {0} /\ SectorSizes \subseteq Nat \ {0}
    /\ DefaultSector \in SectorSizes
    /\ \A b \in BlockSizes, s \in SectorSizes : (SectorsPerBitmap * s) % b = 0

VARIABLES
    img,
    pc,       \* the layer of analyse that is next, "done" or "panicked"
    found     \* findings so far: kind, and what it names
vars == <<img, pc, found>>

Init == img \in Image /\ pc = "layout" /\ found = {}

-----------------------------------------------------------------------------
(* The region table.  Both parsers take the last entry of a name.          *)

KnownRegions == {i \in DOMAIN img.regions : img.regions[i].name # "other"}

RegionEnd(r) == r.at + r.len

Meets(a, b) == Max({a.at, b.at}) < Min({RegionEnd(a), RegionEnd(b)})

RegionPairs == {p \in KnownRegions \X KnownRegions : p[1] < p[2]}

\* An empty table is reported and nothing else is looked at.
LayoutFindings ==
    LET r == img.regions IN
    IF r = <<>> THEN {<<"empty", 0, 0>>} ELSE
    {<<"misaligned", i, 0>> : i \in {k \in KnownRegions : r[k].at % Mib # 0}}
    \cup {<<"beyond", i, 0>> : i \in {k \in KnownRegions : RegionEnd(r[k]) > img.size}}
    \cup {<<"unknown", i, 0>> : i \in {k \in DOMAIN r \ KnownRegions : r[k].required}}
    \cup {<<"regions", p[1], p[2]>> : p \in {q \in RegionPairs : Meets(r[q[1]], r[q[2]])}}
    \cup IF img.log.len > 0 /\ img.log.at < ReservedEnd THEN {<<"log", 0, 0>>} ELSE {}

Named(name) == {i \in DOMAIN img.regions : img.regions[i].name = name}
RegionOf(name) == img.regions[Max(Named(name))]
HasRegions == Named("bat") # {} /\ Named("meta") # {}

\* parse_region_table
TableAccepted ==
    HasRegions /\ \A i \in DOMAIN img.regions : RegionEnd(img.regions[i]) <= img.size

-----------------------------------------------------------------------------
(* The metadata table                                                      *)

\* The length of the value that is taken from an item of a name, 0 of most names.
Need(name) ==
    CASE name \in {"block", "disk", "qemu"} -> 2
      [] name = "sector" -> 1
      [] OTHER -> 0

\* The value of the last item of one of the names that is taken.
LastOf(names, taken) ==
    LET S == {i \in taken : img.items[i].name \in names} IN
    IF S = {} THEN Missing ELSE img.data[img.items[Max(S)].off]

ReaderTakes ==
    {i \in DOMAIN img.items :
        /\ img.items[i].off + img.items[i].len <= img.metaLen
        /\ img.items[i].len >= Need(img.items[i].name)}

\* The analyser looks at no item of a region that leaves the container.
MetadataInside == RegionEnd(RegionOf("meta")) <= img.size

\* Mutant of AnalyserTakes: it stops one item early.
AnalyserTakesFewer ==
    {i \in DOMAIN img.items :
        /\ i < AnalyserItems /\ MetadataInside
        /\ img.items[i].off + Need(img.items[i].name) <= img.metaRoom}

\* The analyser asks neither that an item be in its region nor that it be as long
\* as its value: it asks that the value be in the container.
AnalyserTakes ==
    {i \in DOMAIN img.items :
        /\ i <= AnalyserItems /\ MetadataInside
        /\ img.items[i].off + Need(img.items[i].name) <= img.metaRoom}

Geometry(block, disk, sector) ==
    [blockSize |-> block, vds |-> disk, sectorSize |-> sector, bat |-> img.bat]

SectorOr(n) == IF n = Missing THEN DefaultSector ELSE n

\* The reader knows a second name of the size of the disk, "qemu".
ReaderGeometry ==
    Geometry(LastOf({"block"}, ReaderTakes), LastOf({"disk", "qemu"}, ReaderTakes),
             SectorOr(LastOf({"sector"}, ReaderTakes)))

AnalyserGeometry ==
    Geometry(LastOf({"block"}, AnalyserTakes), LastOf({"disk"}, AnalyserTakes),
             SectorOr(LastOf({"sector"}, AnalyserTakes)))

\* VhdxMetadata::validate
Accepted(g) ==
    /\ g.blockSize \in BlockSizes /\ g.sectorSize \in SectorSizes
    /\ g.vds \in 1 .. MaxDisk /\ g.vds % g.sectorSize = 0

\* Mutant of DiskWrong: whole sectors are not asked for.
DiskOutOfRange(g) == g.vds \notin 1 .. MaxDisk

DiskWrong(g) ==
    \/ g.vds \notin 1 .. MaxDisk
    \/ g.vds > 0 /\ g.sectorSize > 0 /\ g.vds % g.sectorSize # 0

FieldFindings ==
    LET g == AnalyserGeometry
        when(p, kind) == IF p THEN {<<kind, 0, 0>>} ELSE {}
    IN  when(g.blockSize \notin BlockSizes, "block")
        \cup when(g.sectorSize \notin SectorSizes, "sector")
        \cup when(DiskWrong(g), "disk")

ItemEnd(i) == img.items[i].off + img.items[i].len

\* Mutant of ByOffset: no sort.
InTableOrder(items) == {[i \in 1 .. Cardinality(items) |-> i]}

\* sort_unstable_by_key: items of equal offset come in any order.
ByOffset(items) ==
    {s \in SetToSeqs(items) :
        \A k \in 1 .. Len(s) - 1 : img.items[s[k]].off <= img.items[s[k + 1]].off}

ItemsMeet(i, j) == img.items[j].off < ItemEnd(i) /\ ItemEnd(j) > img.items[i].off

Compared == {i \in DOMAIN img.items : i <= ComparedItems}

\* order: the items that are looked at, sorted.
ItemFindings(order) ==
    IF ~MetadataInside THEN {} ELSE
    {<<"item", i, 0>> : i \in {k \in Compared : ItemEnd(k) > img.metaLen}}
    \cup {<<"items", order[k], order[k + 1]>> :
            k \in {n \in 1 .. Len(order) - 1 : ItemsMeet(order[n], order[n + 1])}}

-----------------------------------------------------------------------------
(* The block allocation table                                              *)

CeilDiv(a, b) == (a + b - 1) \div b

RatioKnown(g) == g.blockSize > 0 /\ g.sectorSize > 0

IsBitmapSlot(g, i) == RatioKnown(g) /\ i % (ChunkRatio(g) + 1) = ChunkRatio(g)

Present(g) ==
    {i \in 0 .. Len(img.bat) - 1 :
        /\ EntryAt(img, i).state = FullyPresent /\ ~IsBitmapSlot(g, i)
        /\ EntryAt(img, i).mib * Mib < img.size}

\* What bat_scan_entries says of an entry that is a bitmap's, and of one that is a
\* block's; parent is the HasParent flag.
BitmapFinding(i) ==
    IF EntryAt(img, i).state \in {NotPresent, BitmapPresent} THEN {} ELSE {<<"bitmap", i, 0>>}

BitmapOf(g, i) == (i \div (ChunkRatio(g) + 1)) * (ChunkRatio(g) + 1) + ChunkRatio(g)

BlockFinding(g, i) ==
    LET s == EntryAt(img, i).state
        is(p, kind) == IF p THEN {<<kind, i, 0>>} ELSE {}
    IN  is(s = PartiallyPresent, "partial") \cup is(s = Undefined, "undefined")
        \cup is(s = Unmapped /\ ~img.parent, "unmapped")
        \cup is(s = FullyPresent /\ i \notin Present(g), "past")
        \cup is(/\ i \in Present(g) /\ RatioKnown(g) /\ HasEntry(img, BitmapOf(g, i))
                /\ EntryAt(img, BitmapOf(g, i)).state = NotPresent, "nobitmap")

StateFindings(g) ==
    UNION {IF IsBitmapSlot(g, i) THEN BitmapFinding(i) ELSE BlockFinding(g, i) :
            i \in 0 .. Len(img.bat) - 1}

\* Mutant of ByPlace: no sort.
InIndexOrder(entries) == {SetToSortSeq(entries, <)}

ByPlace(entries) ==
    {s \in SetToSeqs(entries) :
        \A k \in 1 .. Len(s) - 1 : EntryAt(img, s[k]).mib <= EntryAt(img, s[k + 1]).mib}

ExpectedEntries(g) ==
    LET blocks == CeilDiv(g.vds, g.blockSize) IN blocks + CeilDiv(blocks, ChunkRatio(g))

\* The table is a whole number of MiB.
ExpectedLen(g) == CeilDiv(ExpectedEntries(g), WordsPerCell * Mib) * Mib

\* Mutant of Coverage: bitmap entries are counted as blocks.
CoverageOfAll(g) == Len(img.bat) * g.blockSize

Coverage(g) ==
    ((Len(img.bat) * ChunkRatio(g)) \div (ChunkRatio(g) + 1)) * g.blockSize

SizesKnown(g) == g.blockSize > 0 /\ g.vds # Missing

TableFindings(order) ==
    LET g == AnalyserGeometry
        places == {EntryAt(img, i).mib : i \in Present(g)}
        when(p, kind) == IF p THEN {<<kind, 0, 0>>} ELSE {}
    IN  StateFindings(g) \cup
        {<<"entries", order[k], order[k + 1]>> :
            k \in {n \in 1 .. Len(order) - 1 :
                      EntryAt(img, order[n]).mib = EntryAt(img, order[n + 1]).mib}}
        \cup when(SizesKnown(g) /\ RatioKnown(g) /\ ExpectedLen(g) # RegionOf("bat").len,
                  "size")
        \cup when(SizesKnown(g) /\ places # {} /\ (Max(places) + 1) * Mib > g.vds, "under")
        \cup when(SizesKnown(g) /\ RatioKnown(g) /\ g.vds > Coverage(g), "over")

\* div_ceil by a chunk ratio of 0
DividesByZero ==
    LET g == AnalyserGeometry IN SizesKnown(g) /\ RatioKnown(g) /\ ChunkRatio(g) = 0

TableScanned == RegionEnd(RegionOf("bat")) <= img.size /\ img.bat # <<>>

-----------------------------------------------------------------------------
(* Bytes that no block holds                                               *)

\* Entries that lie in the container.
Held == {i \in 0 .. Len(img.bat) - 1 : RegionOf("bat").at + i \div WordsPerCell < img.size}

PlaceOf(i) == EntryAt(img, i).mib * Mib

BlockEnds(g) == {PlaceOf(i) + g.blockSize : i \in {k \in Held : EntryAt(img, k).state = FullyPresent}}

TableEnd == CeilDiv(RegionEnd(RegionOf("bat")), Mib) * Mib

\* Mutant of LastEnd: blocks that leave the container count.
LastEndAnywhere(g) == Max(BlockEnds(g) \cup {TableEnd})

\* A bitmap entry counts as a block here.
LastEnd(g) ==
    LET ends == {n \in BlockEnds(g) : n <= img.size} IN
    IF ends = {} THEN TableEnd ELSE Max(ends)

TrailingFindings ==
    LET g == AnalyserGeometry IN
    IF g.blockSize > 0 /\ \E c \in img.full : c >= LastEnd(g)
    THEN {<<"trailing", LastEnd(g), 0>>} ELSE {}

\* Every state but FULLY_PRESENT counts as absent.
GhostFindings ==
    LET g == AnalyserGeometry IN
    {<<"ghost", i, 0>> : i \in {k \in Held :
        /\ g.blockSize > 0
        /\ EntryAt(img, k).state # FullyPresent /\ ~IsBitmapSlot(g, k)
        /\ EntryAt(img, k).mib # 0
        /\ \E c \in img.full : c \in PlaceOf(k) .. PlaceOf(k) + g.blockSize - 1}}

-----------------------------------------------------------------------------
(* analyse, and check_bat_ghost_data, which repair calls after it          *)

CheckLayout ==
    /\ pc = "layout"
    /\ found' = found \cup LayoutFindings
    /\ pc' = IF HasRegions THEN "metadata" ELSE "done"
    /\ UNCHANGED img

CheckMetadata ==
    /\ pc = "metadata"
    /\ \E order \in ByOffset(Compared) :
          found' = found \cup FieldFindings \cup ItemFindings(order)
    /\ pc' = IF TableScanned THEN "table" ELSE "trailing"
    /\ UNCHANGED img

CheckTable ==
    /\ pc = "table"
    /\ ~DividesByZero
    /\ \E order \in ByPlace(Present(AnalyserGeometry)) :
          found' = found \cup TableFindings(order)
    /\ pc' = "trailing"
    /\ UNCHANGED img

TablePanics ==
    /\ pc = "table"
    /\ DividesByZero
    /\ pc' = "panicked"
    /\ UNCHANGED <<img, found>>

CheckTrailing ==
    /\ pc = "trailing"
    /\ found' = found \cup TrailingFindings
    /\ pc' = "ghost"
    /\ UNCHANGED img

CheckGhosts ==
    /\ pc = "ghost"
    /\ found' = found \cup GhostFindings
    /\ pc' = "done"
    /\ UNCHANGED img

Next ==
    CheckLayout \/ CheckMetadata \/ CheckTable \/ TablePanics \/ CheckTrailing \/ CheckGhosts

Spec == Init /\ [][Next]_vars

-----------------------------------------------------------------------------
Found(kind) == \E f \in found : f[1] = kind

\* What the analyser takes for granted of the metadata: items as long as the values that
\* are taken from them, no more items than it looks at, and the size of the disk under
\* the name of the specification.
PlainItems ==
    /\ Len(img.items) <= AnalyserItems
    /\ \A i \in DOMAIN img.items :
          img.items[i].len >= Need(img.items[i].name) /\ img.items[i].name # "qemu"

\* The reader and the analyser parse the metadata table each with a loop of its own,
\* with different tests on an item (parse_metadata; try_parse_regions).  Where items
\* are plain and none is reported to leave the region, both come to one geometry.
GeometryAgrees ==
    /\ pc \in {"table", "trailing", "ghost", "done"}
    /\ HasRegions /\ MetadataInside /\ PlainItems /\ ~Found("item")
    => ReaderGeometry = AnalyserGeometry

Blocks(g) == CeilDiv(g.vds, g.blockSize)

\* Entries counted one by one, without the analyser's bitmap entries.
PayloadBefore(g, i) == Cardinality({j \in 0 .. i - 1 : ~IsBitmapSlot(g, j)})

\* The reader's two indexes and the analyser's test describe one table: a block's
\* entry is the payload entry with its number, and its bitmap is the first bitmap
\* entry behind it (bat.rs:75, 103-104, integrity.rs:1925).
SlotsAgree ==
    LET g == AnalyserGeometry IN
    HasRegions /\ Accepted(g) =>
        \A b \in 0 .. Blocks(g) - 1 :
            LET i == BatIndex(g, b)
                j == BitmapIndex(g, b)
            IN  /\ ~IsBitmapSlot(g, i) /\ PayloadBefore(g, i) = b
                /\ i < j /\ IsBitmapSlot(g, j)
                /\ \A k \in i .. j - 1 : ~IsBitmapSlot(g, k)

\* What no finding says: regions the reader refuses for leaving the container although
\* it does not use them, and a table too short for one entry.
Unreported ==
    \/ ~HasRegions \/ img.bat = <<>>
    \/ \E i \in DOMAIN img.regions \ KnownRegions : RegionEnd(img.regions[i]) > img.size

\* An image in which the analyser (analyse) finds nothing, but for blocks without a
\* bitmap, is one that the reader opens (parse_region_table, validate), and whose blocks
\* it can read: each has an entry, of a state that the reader takes, which points into
\* the container.  Of states 4 and 5, which the reader refuses, no finding tells.
QuietMeansReadable ==
    pc = "done" /\ (\A f \in found : f[1] \in {"nobitmap", "ghost"}) /\ PlainItems /\ ~Unreported =>
        LET g == ReaderGeometry IN
        /\ TableAccepted /\ Accepted(g)
        /\ \A b \in 0 .. Blocks(g) - 1 :
              LET i == BatIndex(g, b) IN
              /\ HasEntry(img, i)
              /\ EntryAt(img, i).state \notin {4, 5} =>
                    /\ ReadTarget(g, b * g.blockSize) # "error"
                    /\ ReadTarget(g, b * g.blockSize) = "file" => PlaceOf(i) < img.size

\* VirtualDiskSizeOverreported against what the reader can address: a disk with a block
\* that has no entry is always reported, and a table with an entry to spare for one
\* more block never is.  (Between the two, when the table is exactly full,
\* bat_check_coverage may report it: it rounds the payload entries down.)
CoverageBrackets ==
    LET g == AnalyserGeometry IN
    pc = "done" /\ HasRegions /\ TableScanned /\ Accepted(g) =>
        /\ ~HasEntry(img, BatIndex(g, Blocks(g) - 1)) => Found("over")
        /\ Found("over") => ~HasEntry(img, BatIndex(g, Blocks(g)))

\* bat_scan_entries compares neighbours of a sorted list, so of several entries that
\* share a place not every pair is named; but each of those entries is, whatever the
\* sort does with equal keys.
SharedPlaceReported ==
    pc = "done" /\ HasRegions /\ TableScanned =>
        \A i, j \in Present(AnalyserGeometry) :
            i # j /\ EntryAt(img, i).mib = EntryAt(img, j).mib =>
                \E f \in found : f[1] = "entries" /\ i \in {f[2], f[3]}

\* check_metadata_inner also compares neighbours only, and only so many items.  Where
\* none of those is empty, those that share a byte do not all go unreported, however far
\* apart they lie in the table.
ItemOverlapReported ==
    /\ pc \in {"table", "trailing", "ghost", "done"} /\ HasRegions /\ MetadataInside
    /\ \A i \in Compared : img.items[i].len > 0
    /\ \E i, j \in Compared :
          i # j /\ (img.items[i].off .. ItemEnd(i) - 1) \cap (img.items[j].off .. ItemEnd(j) - 1) # {}
    => Found("items")

\* Cells in which the reader, or either parser, looks for something: the head, the
\* regions, the log, and the blocks of the disk that have a place in the container.
Taken(c) ==
    LET g == AnalyserGeometry
        within(r) == c \in r.at .. RegionEnd(r) - 1
    IN  \/ c < Mib
        \/ \E i \in KnownRegions : within(img.regions[i])
        \/ within(img.log)
        \/ \E b \in 0 .. Blocks(g) - 1 :
              LET i == BatIndex(g, b) IN
              /\ i \in Held /\ EntryAt(img, i).state \in {FullyPresent, PartiallyPresent}
              /\ c \in PlaceOf(i) .. PlaceOf(i) + g.blockSize - 1

\* Space in which trailing data go unseen: all before the end of a bitmap, taken for as
\* long as a block, or of an entry for which the disk has no block; and the rest of the
\* MiB in which the table ends.
Shadowed(c) ==
    LET g == AnalyserGeometry IN
    \/ c \in RegionEnd(RegionOf("bat")) .. TableEnd - 1
    \/ \E i \in Held :
          /\ EntryAt(img, i).state = FullyPresent
          /\ IsBitmapSlot(g, i) \/ i > BatIndex(g, Blocks(g) - 1)
          /\ c < PlaceOf(i) + g.blockSize

\* Bytes that are not zero, that no read returns and no parser looks at, do not escape
\* both searches when they lie behind everything that is in use or where the entry of
\* an absent block still points (check_trailing_data, check_bat_ghost_data).
RemnantsReported ==
    LET g == AnalyserGeometry IN
    pc = "done" /\ HasRegions /\ TableScanned /\ Accepted(g) =>
        \A c \in img.full :
            ~Taken(c) =>
                /\ (\A d \in c .. img.size - 1 : ~Taken(d)) /\ ~Shadowed(c) =>
                      \E f \in found : f[1] = "trailing" /\ f[2] <= c
                /\ \A b \in 0 .. Blocks(g) - 1 :
                      LET i == BatIndex(g, b) IN
                      /\ i \in Held /\ EntryAt(img, i).state = NotPresent
                      /\ PlaceOf(i) > 0 /\ c \in PlaceOf(i) .. PlaceOf(i) + g.blockSize - 1
                      => <<"ghost", i, 0>> \in found
=============================================================================
