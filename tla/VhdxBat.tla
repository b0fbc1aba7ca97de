------------------------------- MODULE VhdxBat -------------------------------
(***************************************************************************)
(* Where the bytes of a virtual disk live: the block allocation table and  *)
(* the sector bitmaps (core/src/bat.rs, VhdxMetadata in core/src/           *)
(* metadata.rs).                                                           *)
(*                                                                         *)
(* An image is a record: its geometry, its table (a function from entry    *)
(* index to entry), and the committed bytes of its container.  The sizes   *)
(* the format fixes are constants, so that a small instance keeps the      *)
(* proportions: in the code Mib is 2^20, BitsPerByte is 8 and              *)
(* SectorsPerBitmap is 2^23, the sectors one bitmap block describes.       *)
(***************************************************************************)
EXTENDS Integers, Sequences

CONSTANTS Mib, BitsPerByte, SectorsPerBitmap

ASSUME BatAssumption ==
    Mib \in Nat \ {0} /\ BitsPerByte \in Nat \ {0} /\ SectorsPerBitmap \in Nat \ {0}

NotPresent == 0
Undefined == 1
Zero == 2
Unmapped == 3
FullyPresent == 6
PartiallyPresent == 7
BitmapPresent == 6

Entry == [state : 0 .. 7, mib : Nat]

ChunkRatio(img) == (SectorsPerBitmap * img.sectorSize) \div img.blockSize

\* VhdxMetadata::validate; a block is whole sectors, and a bitmap block whole
\* blocks, because all three sizes are powers of two in the ranges it allows.
ValidGeometry(img) ==
    /\ img.sectorSize \in Nat \ {0} /\ img.blockSize \in Nat \ {0}
    /\ img.blockSize % Mib = 0
    /\ img.blockSize % (img.sectorSize * BitsPerByte) = 0
    /\ (SectorsPerBitmap * img.sectorSize) % img.blockSize = 0
    /\ img.vds \in Nat \ {0} /\ img.vds % img.sectorSize = 0

\* Bat::parse keeps the 8-byte entries that fit in the region; a read beyond
\* them finds none.
HasEntry(img, i) == i < Len(img.bat)
EntryAt(img, i) == img.bat[i + 1]

BlockOf(img, v) == v \div img.blockSize

\* Mutant of BatIndex: a bitmap entry before the last block of its chunk.
BatIndexEarly(img, b) == b + ((b + 1) \div ChunkRatio(img))

BatIndex(img, b) == b + (b \div ChunkRatio(img))
BitmapIndex(img, b) ==
    (b \div ChunkRatio(img)) * (ChunkRatio(img) + 1) + ChunkRatio(img)

FileOffset(img, v) ==
    EntryAt(img, BatIndex(img, BlockOf(img, v))).mib * Mib + (v % img.blockSize)

\* Mutant of SectorInChunk: counts the blocks of the disk, not of the chunk.
SectorInDisk(img, v) ==
    BlockOf(img, v) * (img.blockSize \div img.sectorSize)
        + ((v % img.blockSize) \div img.sectorSize)

SectorInChunk(img, v) ==
    (BlockOf(img, v) % ChunkRatio(img)) * (img.blockSize \div img.sectorSize)
        + ((v % img.blockSize) \div img.sectorSize)

BitmapByteOffset(img, v) ==
    EntryAt(img, BitmapIndex(img, BlockOf(img, v))).mib * Mib
        + (SectorInChunk(img, v) \div BitsPerByte)

BitmapBit(img, v) == SectorInChunk(img, v) % BitsPerByte

\* Bat::read_target_for_byte, for v below the virtual disk size.
ReadTarget(img, v) ==
    LET b == BlockOf(img, v)
        state == EntryAt(img, BatIndex(img, b)).state
        bitmap == BitmapIndex(img, b)
    IN  CASE v >= img.vds -> "error"
          [] v < img.vds /\ ~HasEntry(img, BatIndex(img, b)) -> "error"
          [] OTHER ->
               CASE state = NotPresent -> "parent"
                 [] state \in {Undefined, Zero, Unmapped} -> "zero"
                 [] state = FullyPresent -> "file"
                 [] state = PartiallyPresent ->
                      IF HasEntry(img, bitmap) /\ EntryAt(img, bitmap).state = BitmapPresent
                      THEN "partial" ELSE "error"
                 [] OTHER -> "error"

-----------------------------------------------------------------------------
(* The container: positioned reads (Backing::read_at) give the committed   *)
(* bytes of a range, cut at the end.                                       *)

InContainer(img, off, n) == off + n <= Len(img.container)
ContainerByte(img, off) == img.container[off + 1]

BitSet(byte, bit) == (byte \div (2 ^ bit)) % 2 = 1
=============================================================================
