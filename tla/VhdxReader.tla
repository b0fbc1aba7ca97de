----------------------------- MODULE VhdxReader -----------------------------
(***************************************************************************)
(* VhdxReader's Read and Seek over a chain of images (core/src/reader.rs). *)
(*                                                                         *)
(* One action is one iteration of the loop of Read::read, at the level of  *)
(* the chain that is being read: the client reads the child, the child     *)
(* seeks its parent and calls read_exact on it for the bytes it does not   *)
(* describe, and so on.  Everything runs on the client's thread.           *)
(*                                                                         *)
(* The container bytes are the committed ones: a positioned read followed  *)
(* by LogOverlay::patch returns them (module LogReplay).                   *)
(***************************************************************************)
EXTENDS VhdxBat, FiniteSets

CONSTANTS
    Chain,      \* the chains of this instance, each with its child first
    ReadLen,    \* lengths of the buffers the client passes
    Offset,     \* offsets the client passes to seek
    I64Max,     \* largest i64; positions are u64 and seek computes with i64
    Unreliable, \* the chains whose containers may fail to be read
    MaxFaults   \* bound on the reads of a container that fail

VARIABLES
    chain,
    posn,       \* pos of each reader of the chain
    level,      \* the reader whose read is running, 0 when none is
    frame,      \* progress of each reader's running read
    buf,        \* the client's buffer, by virtual address
    reply,      \* what the client's last call returned
    faults      \* container reads that have failed

call == <<level, frame, buf>>
vars == <<chain, posn, level, frame, buf, reply, faults>>

\* want and written are read's to_read and written; need and have are the length
\* of the buffer the child passed to read_exact, and what is in it.
Idle == [want |-> 0, written |-> 0, need |-> 0, have |-> 0]

Ok(n, bytes) == [ok |-> TRUE, n |-> n, bytes |-> bytes]
Failed == [ok |-> FALSE, n |-> 0, bytes |-> <<>>]

AtMost(m, n) == IF m < n THEN m ELSE n

ASSUME ReaderAssumption ==
    /\ I64Max \in Nat /\ MaxFaults \in Nat /\ Unreliable \subseteq Chain
    /\ ReadLen \subseteq Nat /\ Offset \subseteq Int

\* An image that is open: its metadata is valid, and its size, at most 64 TiB, an i64.
IsDisk(img) ==
    /\ ValidGeometry(img) /\ img.vds <= I64Max
    /\ img.bat \in Seq(Entry) /\ img.container \in Seq(Nat)

ASSUME ChainAssumption ==
    \A c \in Chain :
        /\ Len(c) \in Nat \ {0} /\ DOMAIN c = 1 .. Len(c)
        /\ \A l \in DOMAIN c : IsDisk(c[l])

Init ==
    /\ chain \in Chain
    /\ posn = [l \in DOMAIN chain |-> 0]
    /\ level = 0
    /\ frame = [l \in DOMAIN chain |-> Idle]
    /\ buf = <<>>
    /\ reply = Ok(0, <<>>)
    /\ faults = 0

-----------------------------------------------------------------------------
(* Seek::seek                                                              *)

\* `as i64', and the wrapping sum of an optimised build.
AsI64(n) == ((n + I64Max + 1) % (2 * (I64Max + 1))) - (I64Max + 1)
IsI64(n) == n \in -(I64Max + 1) .. I64Max
IsU64(n) == n \in 0 .. 2 * I64Max + 1

SeekTo(p) ==
    /\ level = 0
    /\ IF p < 0 THEN reply' = Failed /\ UNCHANGED posn
       ELSE reply' = Ok(p, <<>>) /\ posn' = [posn EXCEPT ![1] = p]
    /\ UNCHANGED <<chain, call, faults>>

SeekStart(n) == IsU64(n) /\ SeekTo(AsI64(n))
SeekCurrent(d) == IsI64(d) /\ SeekTo(AsI64(AsI64(posn[1]) + d))
SeekEnd(d) == IsI64(d) /\ SeekTo(AsI64(AsI64(chain[1].vds) + d))

-----------------------------------------------------------------------------
(* Read::read                                                              *)

\* Mutant of ToRead: a read that goes past the end of the disk.
ToReadUnclipped(img, p, n) == IF p >= img.vds THEN 0 ELSE n

\* to_read of a read at position p into a buffer of n bytes.
ToRead(img, p, n) == IF p >= img.vds THEN 0 ELSE AtMost(n, img.vds - p)

StartRead(n) ==
    /\ level = 0
    /\ level' = 1
    /\ LET m == ToRead(chain[1], posn[1], n) IN
       /\ frame' = [frame EXCEPT ![1] = [Idle EXCEPT !.want = m]]
       /\ buf' = [v \in posn[1] .. posn[1] + m - 1 |-> 0]
    /\ UNCHANGED <<chain, posn, reply, faults>>

Img == chain[level]
Top == frame[level]

V == posn[level] + Top.written      \* virtual_byte

Running == level > 0 /\ Top.written < Top.want

\* The bitmap byte of a partial block and the run of sectors, within that byte,
\* with the owner of the sector at v.
BitmapByte(img, v) == ContainerByte(img, BitmapByteOffset(img, v))
Owned(img, v) == BitSet(BitmapByte(img, v), BitmapBit(img, v))

\* Mutant of RunSectors: a run to the end of the bitmap byte, whatever its bits.
RunToByteEnd(img, v) == BitsPerByte - BitmapBit(img, v)

RunSectors(img, v) ==
    LET bit == BitmapBit(img, v)
        other == {b \in bit + 1 .. BitsPerByte - 1 :
                    BitSet(BitmapByte(img, v), b) # Owned(img, v)}
    IN  (CHOOSE b \in other \cup {BitsPerByte} :
            \A c \in other \cup {BitsPerByte} : b <= c) - bit

Source(img, v) ==
    IF ReadTarget(img, v) # "partial" THEN ReadTarget(img, v)
    ELSE IF ~InContainer(img, BitmapByteOffset(img, v), 1) THEN "error"
    ELSE IF Owned(img, v) THEN "file" ELSE "parent"

\* Mutant of BlockEnd: a block that ends where it starts.
BlockEndRoundedUp(img, v) ==
    ((v + img.blockSize - 1) \div img.blockSize) * img.blockSize

\* Mutant of RunEnd: a run that starts in the middle of a sector keeps its length.
RunEndUnaligned(img, v) == v + RunSectors(img, v) * img.sectorSize

BlockEnd(img, v) == (BlockOf(img, v) + 1) * img.blockSize
RunEnd(img, v) == ((v \div img.sectorSize) + RunSectors(img, v)) * img.sectorSize

\* this_chunk
Chunk ==
    LET n == AtMost(Top.want - Top.written, BlockEnd(Img, V) - V)
    IN  IF ReadTarget(Img, V) = "partial" THEN AtMost(n, RunEnd(Img, V) - V) ELSE n

Addresses == V .. V + Chunk - 1

Fill(bytes) ==
    /\ buf' = [v \in DOMAIN buf |-> IF v \in Addresses THEN bytes[v] ELSE buf[v]]
    /\ frame' = [frame EXCEPT ![level].written = @ + Chunk]
    /\ UNCHANGED <<chain, posn, level, reply, faults>>

ReadFileChunk ==
    /\ Running
    /\ Source(Img, V) = "file"
    /\ InContainer(Img, FileOffset(Img, V), Chunk)
    /\ Fill([v \in Addresses |-> ContainerByte(Img, FileOffset(Img, V) + (v - V))])

\* A block with no contents, or one that the last image of the chain leaves to
\* a parent there is none of.
FillZeros ==
    /\ Running
    /\ \/ Source(Img, V) = "zero"
       \/ Source(Img, V) = "parent" /\ level = Len(chain)
    /\ Fill([v \in Addresses |-> 0])

\* parent.seek(Start(v)) and the first read of parent.read_exact.
AskParent ==
    /\ Running
    /\ Source(Img, V) = "parent"
    /\ level < Len(chain)
    /\ level' = level + 1
    /\ posn' = [posn EXCEPT ![level + 1] = V]
    /\ frame' = [frame EXCEPT ![level + 1] =
                    [want |-> ToRead(chain[level + 1], V, Chunk), written |-> 0,
                     need |-> Chunk, have |-> 0]]
    /\ UNCHANGED <<chain, buf, reply, faults>>

\* Every error is passed up to the client by `?', with no position touched.
Fail ==
    /\ reply' = Failed
    /\ level' = 0
    /\ frame' = [l \in DOMAIN chain |-> Idle]
    /\ buf' = <<>>
    /\ UNCHANGED <<chain, posn>>

FailChunk ==
    /\ Running
    /\ \/ Source(Img, V) = "error"
       \/ Source(Img, V) = "file" /\ ~InContainer(Img, FileOffset(Img, V), Chunk)
    /\ Fail
    /\ UNCHANGED faults

CanFail == chain \in Unreliable /\ faults < MaxFaults

\* The container read fails.
MediumFault ==
    /\ Running
    /\ CanFail
    /\ ReadTarget(Img, V) \in {"file", "partial"}
    /\ faults' = faults + 1
    /\ Fail

\* Mutant of Interrupted: the position moves past what had been read.
InterruptedAdvances ==
    /\ Running
    /\ level > 1
    /\ CanFail
    /\ ReadTarget(Img, V) \in {"file", "partial"}
    /\ faults' = faults + 1
    /\ frame' = [frame EXCEPT ![level].written = 0]
    /\ posn' = [posn EXCEPT ![level] = V]
    /\ UNCHANGED <<chain, level, buf, reply>>

\* The container read of a parent is interrupted: its read returns the error,
\* and read_exact calls it again for what is missing.
Interrupted ==
    /\ Running
    /\ level > 1
    /\ CanFail
    /\ ReadTarget(Img, V) \in {"file", "partial"}
    /\ faults' = faults + 1
    /\ frame' = [frame EXCEPT ![level].written = 0]
    /\ UNCHANGED <<chain, posn, level, buf, reply>>

\* A parent's read returns to read_exact, which is done, reads on, or finds the
\* parent at its end.
Done == level > 1 /\ Top.written = Top.want

ReturnToChild ==
    /\ Done
    /\ Top.want > 0 /\ Top.have + Top.want = Top.need
    /\ posn' = [posn EXCEPT ![level] = @ + Top.want]
    /\ level' = level - 1
    /\ frame' = [frame EXCEPT ![level] = Idle,
                              ![level - 1].written = @ + Top.need]
    /\ UNCHANGED <<chain, buf, reply, faults>>

ReadOn ==
    /\ Done
    /\ Top.want > 0 /\ Top.have + Top.want < Top.need
    /\ posn' = [posn EXCEPT ![level] = @ + Top.want]
    /\ LET have == Top.have + Top.want IN
       frame' = [frame EXCEPT ![level] =
                    [want |-> ToRead(Img, posn[level] + Top.want, Top.need - have),
                     written |-> 0, need |-> Top.need, have |-> have]]
    /\ UNCHANGED <<chain, level, buf, reply, faults>>

ParentTooShort ==
    /\ Done
    /\ Top.want = 0
    /\ Fail
    /\ UNCHANGED faults

ReturnToClient ==
    /\ level = 1
    /\ Top.written = Top.want
    /\ reply' = Ok(Top.want, [k \in 1 .. Top.want |-> buf[posn[1] + k - 1]])
    /\ posn' = [posn EXCEPT ![1] = @ + Top.want]
    /\ level' = 0
    /\ frame' = [frame EXCEPT ![1] = Idle]
    /\ buf' = <<>>
    /\ UNCHANGED <<chain, faults>>

ReadNext ==
    \/ ReadFileChunk \/ FillZeros \/ AskParent \/ FailChunk
    \/ MediumFault \/ Interrupted
    \/ ReturnToChild \/ ReadOn \/ ParentTooShort \/ ReturnToClient

Next ==
    \/ \E n \in ReadLen : StartRead(n)
    \/ \E d \in Offset : SeekStart(d) \/ SeekCurrent(d) \/ SeekEnd(d)
    \/ ReadNext

Spec == Init /\ [][Next]_vars

\* A call runs to its end on the client's thread.
FairSpec == Spec /\ WF_vars(ReadNext)

-----------------------------------------------------------------------------
(* Properties                                                              *)

TypeOK ==
    /\ chain \in Chain
    /\ posn \in [DOMAIN chain -> 0 .. I64Max]
    /\ level \in 0 .. Len(chain)
    /\ frame \in [DOMAIN chain -> [want : Nat, written : Nat, need : Nat, have : Nat]]
    /\ \A l \in DOMAIN chain : frame[l].written <= frame[l].want
    /\ \A v \in DOMAIN buf : v < chain[1].vds
    /\ reply.ok \in BOOLEAN /\ reply.n \in Nat
    /\ faults \in 0 .. MaxFaults

\* While a parent is read, it is read at the address its child is at, and never
\* past what the child asked for, however often its read was interrupted or cut
\* (reader.rs:324-334).
CallsNest ==
    \A l \in 2 .. level :
        /\ posn[l] - frame[l].have = posn[l - 1] + frame[l - 1].written
        /\ frame[l].have + frame[l].want <= frame[l].need
        /\ frame[l].need <= frame[l - 1].want - frame[l - 1].written

\* A parent is asked only for sectors its child does not describe: blocks not
\* present, and sectors of a partial block with a clear bit.  Reading it anywhere
\* else "would resurrect data the child replaced" (bat.rs:82-84).
ParentOnlyForAbsent ==
    \A l \in 2 .. level :
        \A v \in posn[l] - frame[l].have .. posn[l] - frame[l].have + frame[l].need - 1 :
            /\ HasEntry(chain[l - 1], BatIndex(chain[l - 1], BlockOf(chain[l - 1], v)))
            /\ LET e == EntryAt(chain[l - 1],
                                BatIndex(chain[l - 1], BlockOf(chain[l - 1], v)))
               IN  \/ e.state = NotPresent
                   \/ e.state = PartiallyPresent /\ ~Owned(chain[l - 1], v)

\* The bit that is tested is the sector's own: bits are numbered as the sectors of the
\* disk are, from one bitmap to the next, and the other sectors of the bit's byte are
\* in the same block, so that a run within the byte never leaves it (bat.rs:121-133,
\* reader.rs:271-276).
BitIsTheSectors ==
    LET bitmap(v) == BitmapIndex(Img, BlockOf(Img, v))
        byte(v) == BitmapByteOffset(Img, v) - EntryAt(Img, bitmap(v)).mib * Mib
        others == {s * Img.sectorSize : s \in 0 .. (Img.vds \div Img.sectorSize) - 1}
    IN  Running /\ HasEntry(Img, bitmap(V)) =>
            /\ byte(V) * BitsPerByte + BitmapBit(Img, V)
                  = (V \div Img.sectorSize) % SectorsPerBitmap
            /\ \A u \in others :
                  bitmap(u) = bitmap(V) /\ byte(u) = byte(V) => BlockOf(Img, u) = BlockOf(Img, V)

\* Every call returns: each iteration of the loop makes a non-empty chunk.
CallsReturn == []<>(level = 0)

\* The reader is the disk it presents: the bytes of a read are those of the
\* nearest image that describes them, a failed read leaves the position, and a
\* seek goes where it was told.
Disk == INSTANCE VirtualDisk WITH pos <- posn[1]
ReaderIsDisk == Disk!Spec
=============================================================================
