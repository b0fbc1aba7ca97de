---------------------------- MODULE VhdxContainer ----------------------------
(***************************************************************************)
(* The fixed structures of a container, as its two parsers see them: the   *)
(* reader (core/src/header.rs, region.rs, VhdxReader::assemble) and the     *)
(* integrity analyser (forensic/src/integrity.rs), which parses the same   *)
(* bytes on its own.                                                       *)
(*                                                                         *)
(* The container is counted in units of 1 MiB, and a unit is Words words   *)
(* of 8 bytes.  A word is what it says as an entry of a block allocation   *)
(* table and what it is part of, so that a table, wherever a region table  *)
(* says it is, can lie on anything: on a payload block, on the metadata,   *)
(* or on the headers and region tables in unit 0.  Of a structure one word *)
(* stands for the whole, and a word that is edited is no part of it any    *)
(* more.                                                                   *)
(***************************************************************************)
EXTENDS Integers, Sequences, SequencesExt

CONSTANTS
    Units,       \* length of the container
    Words,       \* words in a unit
    Blocks,      \* payload blocks of the virtual disk; a block is one unit
    ChunkRatio   \* payload entries between two bitmap entries

ASSUME ContainerAssumption ==
    /\ Units \in Nat \ {0}
    /\ Words \in Nat /\ Words > 4   \* unit 0 has five structures
    /\ Blocks \in Nat \ {0} /\ ChunkRatio \in Nat \ {0}

Region == [at : Nat, len : Nat]

\* ok: the copy has its signature and its checksum.
HeaderCopy == [ok : BOOLEAN, seq : Nat, guid : Nat, log : Region]

NoGuid == 0
Dirty(header) == header.log.len > 0 /\ header.guid # NoGuid

\* names are those of the regions the table lists, in its order; regions maps them to
\* their place, and the others anywhere.
RegionName == {"bat", "meta", "other"}
TableCopy == [ok : BOOLEAN, names : Seq(RegionName), regions : [RegionName -> Region]]

\* A "meta" is a metadata table with every item, with the HasParent flag; what a log
\* holds is the matter of VhdxOpen.
Part ==
    [kind : {"none", "magic", "log"}]
    \cup [kind : {"header"}, copy : HeaderCopy] \cup [kind : {"table"}, copy : TableCopy]
    \cup [kind : {"meta"}, parent : BOOLEAN]

NoPart == [kind |-> "none"]

\* reserved: some of the bits 3..19, which no state or offset uses, are set.
Word == [state : 0 .. 7, reserved : BOOLEAN, mib : Nat, part : Part]

\* Mutant of ZeroWord: the state is not NOT_PRESENT.
UndefinedWord == [state |-> 1, reserved |-> FALSE, mib |-> 0, part |-> NoPart]

ZeroWord == [state |-> 0, reserved |-> FALSE, mib |-> 0, part |-> NoPart]

\* short: the file is not as long as a container must be.
IsImage(img) ==
    img \in [short : BOOLEAN, unit : [0 .. Units - 1 -> [0 .. Words - 1 -> Word]]]

\* What a parser makes of a word where it expects a copy.
NoHeader == [ok |-> FALSE, seq |-> 0, guid |-> NoGuid, log |-> [at |-> 0, len |-> 0]]
NoTable ==
    [ok |-> FALSE, names |-> <<>>, regions |-> [r \in RegionName |-> [at |-> 0, len |-> 0]]]
HeaderIn(w) == IF w.part.kind = "header" THEN w.part.copy ELSE NoHeader
TableIn(w) == IF w.part.kind = "table" THEN w.part.copy ELSE NoTable

\* Unit 0 holds the file identifier, the two headers and the two region tables.
FileKind(img) ==
    IF img.unit[0][0].part.kind # "magic" THEN "foreign" ELSE IF img.short THEN "short" ELSE "vhdx"
Headers(img) == [c \in 1 .. 2 |-> HeaderIn(img.unit[0][c])]
Tables(img) == [c \in 1 .. 2 |-> TableIn(img.unit[0][c + 2])]

\* The unit begins with metadata.
HasMeta(img, at) == img.unit[at][0].part.kind = "meta"
HasParent(img, at) == HasMeta(img, at) /\ img.unit[at][0].part.parent

WordAt(img, at, i) == img.unit[at + i \div Words][i % Words]

Fits(region) == region.at + region.len <= Units
Inside(region, mib) == mib \in region.at .. region.at + region.len - 1

-----------------------------------------------------------------------------
(* Both parsers                                                            *)

\* parse_active_header and active_header_block: the valid copy with the highest
\* sequence number, the first if they are equal; 0 if there is none.
ActiveCopy(img) ==
    LET valid == {c \in 1 .. 2 : Headers(img)[c].ok} IN
    IF valid = {} THEN 0
    ELSE CHOOSE c \in valid : \A d \in valid :
            \/ Headers(img)[c].seq > Headers(img)[d].seq
            \/ Headers(img)[c].seq = Headers(img)[d].seq /\ c <= d

Complete(table) == table.ok /\ {"bat", "meta"} \subseteq Range(table.names)

\* The first of the two copies that is in usable; 0 if there is none.
First(usable) == IF 1 \in usable THEN 1 ELSE IF 2 \in usable THEN 2 ELSE 0

\* Mutant of IsBitmapSlot: a bitmap entry in the place of a chunk's last block.
IsLastOfChunk(i) == i % ChunkRatio = ChunkRatio - 1

\* A chunk's payload entries are followed by the entry of its bitmap.
IsBitmapSlot(i) == i % (ChunkRatio + 1) = ChunkRatio

-----------------------------------------------------------------------------
(* The reader                                                              *)

\* parse_region_table refuses a table with any region past the end, and assemble
\* then tries the second.
ReaderTable(img) ==
    First({c \in 1 .. 2 :
        /\ Complete(Tables(img)[c])
        /\ \A r \in Range(Tables(img)[c].names) : Fits(Tables(img)[c].regions[r])})

ReaderRegions(img) == Tables(img)[ReaderTable(img)].regions

Opens(img) ==
    /\ FileKind(img) = "vhdx"
    /\ ActiveCopy(img) # 0
    /\ LET h == Headers(img)[ActiveCopy(img)] IN Dirty(h) => Fits(h.log)
    /\ ReaderTable(img) # 0
    /\ ReaderRegions(img).meta.len > 0 /\ HasMeta(img, ReaderRegions(img).meta.at)

HasEntry(img, b) == b + b \div ChunkRatio < ReaderRegions(img).bat.len * Words
EntryOf(img, b) == WordAt(img, ReaderRegions(img).bat.at, b + b \div ChunkRatio)

\* What a client that reads block b of an image that opens is given: "absent" is
\* the parent's block, or zeros if there is no parent.  Which sectors of a partial
\* block are its own is the matter of VhdxReader.
View(img, b) ==
    LET w == EntryOf(img, b) IN
    CASE ~Opens(img) -> <<"closed">>
      [] Opens(img) /\ ~HasEntry(img, b) -> <<"error">>
      [] OTHER ->
            CASE w.state = 0 -> <<"absent">>
              [] w.state \in {1, 2, 3} -> <<"zeros">>
              [] w.state \in {4, 5} -> <<"error">>
              [] w.state \in {6, 7} /\ w.mib >= Units -> <<"error">>
              [] w.state \in {6, 7} /\ w.mib < Units -> <<"data", img.unit[w.mib]>>

-----------------------------------------------------------------------------
(* The analyser                                                            *)

\* try_parse_regions checks no bounds.
AnalyserTable(img) == First({c \in 1 .. 2 : Complete(Tables(img)[c])})
AnalyserRegions(img) == Tables(img)[AnalyserTable(img)].regions

\* The block size, and with it the chunk ratio, is known.
GeometryKnown(img) ==
    LET m == AnalyserRegions(img).meta IN m.len > 0 /\ Fits(m) /\ HasMeta(img, m.at)

Structural(img, mib) ==
    \/ mib = 0
    \/ Inside(AnalyserRegions(img).meta, mib)
    \/ ActiveCopy(img) # 0 /\ Inside(Headers(img)[ActiveCopy(img)].log, mib)

\* The repairable findings of bat_scan_entries about entry i, in its order.
EntryIssues(img, i) ==
    LET w == WordAt(img, AnalyserRegions(img).bat.at, i)
        issue(kind) == [kind |-> kind, of |-> i]
        when(p, kind) == IF p THEN <<issue(kind)>> ELSE <<>>
    IN  IF GeometryKnown(img) /\ IsBitmapSlot(i) THEN <<>>
        ELSE IF w.state # 6 THEN when(w.state = 1, "undefined")
        ELSE when(w.reserved, "unaligned")
             \o when(Structural(img, w.mib), "structural")
             \o when(w.mib >= Units, "beyond")

ScanIssues(img) ==
    LET bat == AnalyserRegions(img).bat IN
    IF AnalyserTable(img) = 0 \/ ~Fits(bat) \/ bat.len = 0 THEN <<>>
    ELSE FlattenSeq([i \in 1 .. bat.len * Words |-> EntryIssues(img, i - 1)])

\* Mutant of CopyIssues: the good copy is taken for the bad one.
CopyIssuesSwapped(copies, kind) ==
    IF copies[1].ok = copies[2].ok THEN <<>>
    ELSE <<[kind |-> kind, of |-> IF copies[1].ok THEN 1 ELSE 2]>>

\* One of two copies is bad; of two bad ones there is nothing to copy from.
CopyIssues(copies, kind) ==
    IF copies[1].ok = copies[2].ok THEN <<>>
    ELSE <<[kind |-> kind, of |-> IF copies[1].ok THEN 2 ELSE 1]>>

\* check_header_pair, of two good copies; the GUID of the log is not compared.
HeaderMismatches(img) ==
    LET h == Headers(img)
        when(p, kind) == IF p THEN {kind} ELSE {}
    IN  IF ~h[1].ok \/ ~h[2].ok THEN {} ELSE
        when(h[1].seq = 0 /\ h[2].seq = 0, "zero")
        \cup when(h[1].seq = h[2].seq /\ h[1].seq # 0, "identical")
        \cup when(h[1].seq - h[2].seq \notin -1 .. 1, "gap")
        \cup when(h[1].log.len # h[2].log.len, "LogLength")
        \cup when(h[1].log.at # h[2].log.at, "LogOffset")

\* Mutant of Paired: one entry too few.
PairedButLast(a, b) ==
    {i \in DOMAIN a.names \cap DOMAIN b.names :
        i < Len(a.names) /\ a.names[i] = b.names[i] /\ a.names[i] # "other"}

\* Entries are compared with those at the same place in the other copy.
Paired(a, b) ==
    {i \in DOMAIN a.names \cap DOMAIN b.names :
        a.names[i] = b.names[i] /\ a.names[i] # "other"}

\* check_region_table_pair, of two good copies
TableMismatches(img) ==
    LET a == Tables(img)[1]
        b == Tables(img)[2]
    IN  IF ~a.ok \/ ~b.ok THEN {} ELSE
        {a.names[i] : i \in {k \in Paired(a, b) : a.regions[a.names[k]] # b.regions[b.names[k]]}}

\* analyse, without the findings that repair leaves alone.  A file that is no
\* container is not looked at further.
Issues(img) ==
    IF FileKind(img) # "vhdx" THEN <<>> ELSE
    CopyIssues(Headers(img), "header") \o CopyIssues(Tables(img), "table")
    \o IF Tables(img)[1].ok \/ Tables(img)[2].ok THEN ScanIssues(img) ELSE <<>>
=============================================================================
