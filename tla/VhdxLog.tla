------------------------------- MODULE VhdxLog -------------------------------
(***************************************************************************)
(* The log of a VHDX container (core/src/log.rs): what an entry is, what   *)
(* the header says of the log, and, stated independently of the loops that *)
(* replay it, the contents of the container once the log is committed.     *)
(*                                                                         *)
(* Offsets are counted in cells.  A data sector (4096 bytes in the code)   *)
(* is SectorLen cells, and so is a slot of the log: an entry takes         *)
(* e.len slots, the first one for its header and descriptors, the others   *)
(* for its data sectors.  A length of 0 stands for a declared length that  *)
(* is smaller than the 64-byte entry header.                               *)
(***************************************************************************)
EXTENDS Integers, Sequences, FiniteSets

CONSTANTS
    ContainerLen,   \* data.len() or backing.len(), in cells
    OffsetEnd,      \* no offset is as large: 2^64 bytes
    MaxAlloc,       \* the longest run that can be allocated
    SectorLen,      \* cells in a data sector
    LogLen,         \* slots in the log region
    Byte,           \* contents of a cell
    ZeroByte,
    Guid,           \* log GUIDs that can be met
    NoGuid,         \* the all-zero GUID
    Disk,           \* container bytes before the replay
    Header,         \* the active headers of this instance
    Entry,          \* the log entries of this instance
    NoEntry         \* contents of a slot without the "loge" signature

Cell == 0 .. ContainerLen - 1
Sector == [1 .. SectorLen -> Byte]

\* A descriptor is a data descriptor, a zero descriptor, or has a signature
\* that both replay functions ignore; len is the zero descriptor's ZeroLength.
Descriptor == [kind : {"desc", "zero", "other"}, off : Nat, len : Nat]

\* overrun: the declared descriptor count runs past the end of the entry.
EntryType == [len : Nat, crc : BOOLEAN, guid : Guid, seq : Nat,
              descs : Seq(Descriptor), sectors : Seq(Sector), overrun : BOOLEAN]

HeaderType == [valid : BOOLEAN,                  \* one of the two copies parses
               guid : Guid \cup {NoGuid},
               empty : BOOLEAN,                  \* LogLength is zero
               fits : BOOLEAN]                   \* the region lies in the container

Log == [0 .. LogLen - 1 -> Entry \cup {NoEntry}]

ASSUME LogAssumption ==
    /\ OffsetEnd \in Nat /\ MaxAlloc \in Nat
    /\ ContainerLen \in Nat /\ ContainerLen < OffsetEnd /\ SectorLen \in Nat \ {0} /\ LogLen \in Nat
    /\ ZeroByte \in Byte /\ NoGuid \notin Guid
    /\ Disk \in [Cell -> Byte]
    /\ Header \subseteq HeaderType
    /\ Entry \subseteq EntryType /\ NoEntry \notin Entry
    /\ \A e \in Entry : /\ e.len > 0 => Len(e.sectors) < e.len
                        /\ e.overrun => e.sectors = <<>>

-----------------------------------------------------------------------------
(* The walk over the log region.                                           *)

\* Mutant of Framed: a walk that trusts a length past the end of the region.
FramedUnbounded(log, p) == p < LogLen /\ log[p] # NoEntry /\ log[p].len > 0

\* Mutant of Framed: a walk that accepts a length of 0.
FramedZeroLength(log, p) ==
    p < LogLen /\ log[p] # NoEntry /\ p + log[p].len <= LogLen

\* A framed entry starts at slot p: signature, and a length that is neither
\* shorter than an entry header nor longer than the rest of the region.
Framed(log, p) ==
    /\ p < LogLen
    /\ log[p] # NoEntry
    /\ log[p].len > 0
    /\ p + log[p].len <= LogLen

Replayable(header, e) == e.crc /\ e.guid = header.guid

Dirty(header) == ~header.empty /\ header.guid # NoGuid

\* The sector a data descriptor uses is the one with its rank among the data
\* descriptors of the entry.
SectorIndex(e, d) == Cardinality({i \in 1 .. d : e.descs[i].kind = "desc"})

HasSector(e, d) == SectorIndex(e, d) <= Len(e.sectors)

-----------------------------------------------------------------------------
(* Reference: the committed contents, from the log alone.                  *)

\* The slots the walk stops at are the least set that contains slot 0 and the
\* end of each framed entry in it.
Visited(log) ==
    {p \in 0 .. LogLen :
        \A S \in SUBSET (0 .. LogLen) :
            (0 \in S /\ \A q \in S : Framed(log, q) => q + log[q].len \in S)
                => p \in S}

Committed(header, log) ==
    {p \in Visited(log) : Framed(log, p) /\ Replayable(header, log[p])}

\* Cells the d-th descriptor of e rewrites.  A data sector is written whole
\* inside the container or not at all.
Writes(e, d) ==
    LET x == e.descs[d] IN
    CASE x.kind = "desc" /\ HasSector(e, d) /\ x.off + SectorLen <= ContainerLen
                            -> x.off .. x.off + SectorLen - 1
      [] x.kind = "zero"    -> (x.off .. x.off + x.len - 1) \cap Cell
      [] OTHER              -> {}

\* The order in which writes take effect: by sequence number, then by place
\* in the log, then by place in the entry.
Later(log, p, d, q, c) ==
    \/ log[p].seq > log[q].seq
    \/ log[p].seq = log[q].seq /\ (p > q \/ (p = q /\ d > c))

\* The writes to a cell, by slot and descriptor, and the one that takes effect last.
Covering(header, log, o) ==
    LET written(p) == {<<p, d>> : d \in DOMAIN log[p].descs}
    IN  {w \in UNION {written(p) : p \in Committed(header, log)} :
            o \in Writes(log[w[1]], w[2])}

LastOf(log, writes) ==
    CHOOSE w \in writes : \A v \in writes : v = w \/ Later(log, w[1], w[2], v[1], v[2])

\* What the d-th descriptor of e writes to a cell.
ByteOf(e, d, o) ==
    IF e.descs[d].kind = "zero" THEN ZeroByte
    ELSE e.sectors[SectorIndex(e, d)][o - e.descs[d].off + 1]

CommittedByte(header, log, o) ==
    LET covering == Covering(header, log, o)
        last == LastOf(log, covering)
    IN  IF ~Dirty(header) \/ covering = {} THEN Disk[o]
        ELSE ByteOf(log[last[1]], last[2], o)

\* A data sector is never cut by the end of the container.
WellPlaced(e) ==
    \A i \in DOMAIN e.descs :
        e.descs[i].kind = "desc" =>
            \/ e.descs[i].off + SectorLen <= ContainerLen
            \/ e.descs[i].off >= ContainerLen

LogWellPlaced(log) == \A p \in 0 .. LogLen - 1 : log[p] # NoEntry => WellPlaced(log[p])

\* A run of zeros that is longer than what can be allocated.
Unbounded(x) == x.kind = "zero" /\ x.len > MaxAlloc

Opens(header, log) ==
    /\ header.valid
    /\ Dirty(header) =>
          /\ header.fits
          /\ \A p \in Committed(header, log) :
                ~log[p].overrun /\ \A d \in DOMAIN log[p].descs : ~Unbounded(log[p].descs[d])
=============================================================================
