-------------------------- MODULE VhdxReaderProofs --------------------------
(***************************************************************************)
(* Proofs about VhdxReader, for every chain of valid images, every buffer  *)
(* and offset, and any number of interrupted and failed container reads.   *)
(***************************************************************************)
EXTENDS VhdxReader, DataLemmas

-----------------------------------------------------------------------------
(* Where a byte lies                                                       *)

LEMMA ProductPositive ==
    ASSUME NEW a \in Nat \ {0}, NEW b \in Nat \ {0}
    PROVE  a * b \in Nat \ {0}
OBVIOUS

LEMMA CancelFactor ==
    ASSUME NEW s \in Nat \ {0}, NEW a \in Int, NEW b \in Int, s * a = s * b
    PROVE  a = b
OBVIOUS

LEMMA FactorOfPositive ==
    ASSUME NEW a \in Nat \ {0}, NEW q \in Nat, a * q > 0
    PROVE  q # 0
OBVIOUS

LEMMA Divides ==
    ASSUME NEW a \in Nat, NEW n \in Nat \ {0}, a % n = 0
    PROVE  a \div n \in Nat /\ a = n * (a \div n)
BY DivMod

\* The bytes of bitmap, and the sectors, of a block.
BitmapBytes(img) == img.blockSize \div (img.sectorSize * BitsPerByte)
BlockSectors(img) == BitsPerByte * BitmapBytes(img)

\* A block is whole bytes of bitmap, and a bitmap whole blocks.
LEMMA Proportions ==
    ASSUME NEW img, ValidGeometry(img)
    PROVE  /\ BitmapBytes(img) \in Nat \ {0} /\ BlockSectors(img) \in Nat \ {0}
           /\ img.blockSize = img.sectorSize * BlockSectors(img)
           /\ img.blockSize \div img.sectorSize = BlockSectors(img)
           /\ ChunkRatio(img) \in Nat \ {0}
           /\ SectorsPerBitmap = BlockSectors(img) * ChunkRatio(img)
<1> DEFINE ss == img.sectorSize
           bs == img.blockSize
           p == ss * BitsPerByte
           t == SectorsPerBitmap * ss
           m == bs \div p
           k == BitsPerByte * m
           cr == t \div bs
<1>1. ss \in Nat \ {0} /\ bs \in Nat \ {0} /\ bs % p = 0 /\ t % bs = 0
  BY DEF ValidGeometry
<1>2. BitsPerByte \in Nat \ {0} /\ SectorsPerBitmap \in Nat \ {0}
  BY BatAssumption
<1> HIDE DEF ss, bs
<1>3. p \in Nat \ {0} /\ t \in Nat \ {0}
  BY <1>1, <1>2, ProductPositive
<1> HIDE DEF p, t
<1>4. m \in Nat /\ bs = p * m
  BY <1>1, <1>3, Divides
<1>5. cr \in Nat /\ t = bs * cr
  BY <1>1, <1>3, Divides
<1> HIDE DEF m, cr
<1>6. m \in Nat \ {0} /\ cr \in Nat \ {0}
  BY <1>1, <1>3, <1>4, <1>5, FactorOfPositive
<1>7. k \in Nat \ {0}
  BY <1>2, <1>6, ProductPositive
<1>8. bs = ss * k
  BY <1>1, <1>2, <1>4, <1>6 DEF p
<1> HIDE DEF k
<1>9. bs \div ss = k
  <2>1. (ss * k + 0) \div ss = k
    BY <1>1, <1>7, DivUnique
  <2> QED BY <1>1, <1>7, <1>8, <2>1
<1>10. SectorsPerBitmap = k * cr
  <2> DEFINE c == k * cr
  <2>1. c \in Nat
    BY <1>6, <1>7
  <2>2. ss * SectorsPerBitmap = ss * c
    BY <1>1, <1>2, <1>5, <1>6, <1>7, <1>8 DEF t
  <2> HIDE DEF c
  <2>3. SectorsPerBitmap = c
    BY <1>1, <1>2, <2>1, <2>2, CancelFactor
  <2> QED BY <2>3 DEF c
<1> QED BY <1>6, <1>7, <1>8, <1>9, <1>10
          DEF ss, bs, k, m, p, cr, t, ChunkRatio, BitmapBytes, BlockSectors

\* The sectors of a bitmap are numbered as those of the disk are: v's is number q of its
\* block's, which is number c of its chunk's.
LEMMA SectorsInChunk ==
    ASSUME NEW img, ValidGeometry(img), NEW v \in Nat
    PROVE  \E q \in Nat, c \in Nat :
              LET k == BlockSectors(img)
                  b == BlockOf(img, v)
                  cr == ChunkRatio(img)
              IN  /\ q < k /\ c < cr /\ b = cr * (b \div cr) + c
                  /\ v \div img.sectorSize = k * b + q
                  /\ SectorInChunk(img, v) = k * c + q
<1> DEFINE ss == img.sectorSize
           bs == img.blockSize
           k == BlockSectors(img)
           b == v \div bs
           cr == ChunkRatio(img)
           r == v % bs
           q == r \div ss
           c == b % cr
<1>2. k \in Nat \ {0} /\ cr \in Nat \ {0}
  BY Proportions
<1> HIDE DEF k, cr
<1>3. ss \in Nat \ {0} /\ bs \in Nat \ {0} /\ bs = ss * k /\ bs \div ss = k
  BY Proportions DEF ValidGeometry, k
<1> HIDE DEF ss, bs
<1>4. b \in Nat /\ r \in 0 .. bs - 1 /\ v = bs * b + r
  BY <1>3, DivMod
<1> HIDE DEF b, r
<1>5. c \in 0 .. cr - 1 /\ b \div cr \in Nat /\ b = cr * (b \div cr) + c
  BY <1>2, <1>4, DivMod
<1>6. q \in Nat /\ q < k /\ r % ss \in 0 .. ss - 1 /\ r = ss * q + (r % ss)
  <2>1. r \in Nat /\ r < k * ss
    BY <1>2, <1>3, <1>4
  <2> QED BY <1>2, <1>3, <2>1, DivMod, DivBelow
<1>7. v \div ss = k * b + q
  <2> DEFINE s == r % ss
  <2>1. s \in 0 .. ss - 1 /\ v = (ss * k) * b + (ss * q + s)
    BY <1>3, <1>4, <1>6
  <2> DEFINE w == k * b + q
  <2> HIDE DEF s, q
  <2>2. w \in Nat
    BY <1>2, <1>4, <1>6
  <2>3. v = ss * w + s
    BY <1>2, <1>3, <1>4, <1>6, <2>1
  <2> HIDE DEF w
  <2>4. v \div ss = w
    <3>1. ss \in Nat \ {0} /\ s \in 0 .. ss - 1
      BY <1>3, <2>1
    <3> QED BY <2>2, <2>3, <3>1
  <2> QED BY <2>4 DEF w
<1>8. SectorInChunk(img, v) = k * c + q
  <2>1. SectorInChunk(img, v) = c * k + q
    BY <1>3 DEF SectorInChunk, BlockOf, b, cr, ss, bs, r
  <2> QED BY <1>2, <1>5, <2>1
<1> HIDE DEF q, c
<1>9. /\ q \in Nat /\ c \in Nat /\ q < k /\ c < cr /\ b = cr * (b \div cr) + c
      /\ v \div ss = k * b + q /\ SectorInChunk(img, v) = k * c + q
  BY <1>2, <1>5, <1>6, <1>7, <1>8
<1> QED BY <1>9 DEF b, bs, ss, cr, k, BlockOf

LEMMA BlockIs ==
    ASSUME NEW img, ValidGeometry(img), NEW v \in Nat
    PROVE  BlockOf(img, v) \in Nat /\ BlockOf(img, v) \div ChunkRatio(img) \in Nat
<1>1. img.blockSize \in Nat \ {0} /\ ChunkRatio(img) \in Nat \ {0}
  BY Proportions DEF ValidGeometry
<1> HIDE DEF ChunkRatio
<1>2. BlockOf(img, v) \in Nat
  BY <1>1, DivMod DEF BlockOf
<1> HIDE DEF BlockOf
<1> QED BY <1>1, <1>2, DivMod

\* The number of a sector in its bitmap.
LEMMA SectorNumber ==
    ASSUME NEW img, ValidGeometry(img), NEW v \in Nat
    PROVE  /\ SectorInChunk(img, v) \in Nat
           /\ SectorInChunk(img, v) = (v \div img.sectorSize) % SectorsPerBitmap
<1> DEFINE k == BlockSectors(img)
           cr == ChunkRatio(img)
           b == BlockOf(img, v)
           d == b \div cr
           s == SectorInChunk(img, v)
           w == v \div img.sectorSize
<1>1. k \in Nat \ {0} /\ cr \in Nat \ {0} /\ SectorsPerBitmap = k * cr
  BY Proportions
<1>2. b \in Nat /\ d \in Nat
  BY BlockIs
<1>3. PICK q \in Nat, c \in Nat :
        q < k /\ c < cr /\ b = cr * d + c /\ w = k * b + q /\ s = k * c + q
  BY SectorsInChunk
<1> HIDE DEF k, cr, b, d, s, w
<1>4. s \in Nat
  BY <1>1, <1>3
<1>5. s < k * cr
  <2>1. c + 1 <= cr
    BY <1>1, <1>3
  <2>2. k * (c + 1) <= k * cr
    BY <1>1, <1>3, <2>1
  <2> QED BY <1>1, <1>3, <2>2
<1>6. w = SectorsPerBitmap * d + s
  BY <1>1, <1>2, <1>3
<1>7. w % SectorsPerBitmap = s
  <2>1. SectorsPerBitmap \in Nat \ {0} /\ s \in 0 .. SectorsPerBitmap - 1
    BY <1>1, <1>4, <1>5, BatAssumption
  <2> QED BY <1>2, <1>6, <2>1
<1> QED BY <1>4, <1>7 DEF s, w

\* Sectors with a bit in the same byte of the same bitmap are in the same block.
LEMMA ByteInBlock ==
    ASSUME NEW img, ValidGeometry(img), NEW u \in Nat, NEW v \in Nat,
           BitmapIndex(img, BlockOf(img, u)) = BitmapIndex(img, BlockOf(img, v)),
           SectorInChunk(img, u) \div BitsPerByte = SectorInChunk(img, v) \div BitsPerByte
    PROVE  BlockOf(img, u) = BlockOf(img, v)
<1> DEFINE m == BitmapBytes(img)
           cr == ChunkRatio(img)
           D(x) == BlockOf(img, x) \div cr
<1>1. m \in Nat \ {0} /\ cr \in Nat \ {0} /\ BitsPerByte \in Nat \ {0}
  BY Proportions, BatAssumption
<1>2. D(u) \in Nat /\ D(v) \in Nat
  BY BlockIs
<1>3. D(u) * (cr + 1) + cr = D(v) * (cr + 1) + cr
  BY DEF BitmapIndex
<1> HIDE DEF m, cr, D
<1>4. D(u) = D(v)
  <2> DEFINE n == cr + 1
             x == D(u)
             y == D(v)
  <2>1. n \in Nat \ {0} /\ x \in Nat /\ y \in Nat /\ x * n + cr = y * n + cr
    BY <1>1, <1>2, <1>3
  <2> HIDE DEF n, x, y
  <2>2. x * n \in Nat /\ y * n \in Nat
    BY <2>1
  <2>3. x * n = y * n
    <3> DEFINE a == x * n
               c == y * n
    <3>1. a \in Nat /\ c \in Nat /\ a + cr = c + cr
      BY <2>1, <2>2
    <3> HIDE DEF a, c
    <3>2. a = c
      BY <1>1, <3>1
    <3> QED BY <3>2 DEF a, c
  <2>4. n * x = n * y
    BY <2>1, <2>3
  <2>5. x = y
    BY <2>1, <2>4, CancelFactor
  <2> QED BY <2>5 DEF x, y
<1>5. ASSUME NEW x \in Nat
      PROVE  \E c \in Nat, r \in Nat :
                /\ BlockOf(img, x) = cr * D(x) + c /\ r < m
                /\ SectorInChunk(img, x) \div BitsPerByte = m * c + r
  <2> DEFINE s == SectorInChunk(img, x)
             k == BlockSectors(img)
  <2>1. PICK q \in Nat, c \in Nat :
          q < k /\ BlockOf(img, x) = cr * D(x) + c /\ s = k * c + q
    BY SectorsInChunk DEF cr, D
  <2>2. k = BitsPerByte * m
    BY DEF m, BlockSectors
  <2> HIDE DEF s, k
  <2> DEFINE r == q \div BitsPerByte
             t == q % BitsPerByte
             w == m * c + r
  <2>3. q < m * BitsPerByte
    BY <1>1, <2>1, <2>2
  <2>4. r \in Nat /\ t \in 0 .. BitsPerByte - 1 /\ q = BitsPerByte * r + t /\ r < m
    BY <1>1, <2>3, DivMod, DivBelow
  <2> HIDE DEF r, t
  <2>5. w \in Nat
    BY <1>1, <2>4
  <2>6. s = BitsPerByte * w + t
    BY <1>1, <2>1, <2>2, <2>4
  <2> HIDE DEF w
  <2>7. t \in 0 .. BitsPerByte - 1
    BY <2>4
  <2>8. s \div BitsPerByte = w
    BY <1>1, <2>5, <2>6, <2>7
  <2> QED BY <2>1, <2>4, <2>8 DEF w, s
<1>6. PICK c \in Nat, r \in Nat : BlockOf(img, u) = cr * D(u) + c /\ r < m
         /\ SectorInChunk(img, u) \div BitsPerByte = m * c + r
  BY <1>5
<1>7. PICK e \in Nat, p \in Nat : BlockOf(img, v) = cr * D(v) + e /\ p < m
         /\ SectorInChunk(img, v) \div BitsPerByte = m * e + p
  BY <1>5
<1>8. c = e
  <2> DEFINE w == m * c + r
  <2>1. w \div m = c
    BY <1>1, <1>6
  <2>2. w = m * e + p
    BY <1>6, <1>7
  <2> HIDE DEF w
  <2>3. w \div m = e
    BY <1>1, <1>7, <2>2
  <2> QED BY <2>1, <2>3
<1> QED BY <1>4, <1>6, <1>7, <1>8

\* The addresses of a block.
LEMMA InBlock ==
    ASSUME NEW img, ValidGeometry(img), NEW v \in Nat,
           NEW u \in Nat, v <= u, u < BlockEnd(img, v)
    PROVE  BlockOf(img, u) = BlockOf(img, v)
<1> DEFINE bs == img.blockSize
           b == v \div bs
           r == v % bs
           t == u - bs * b
<1>1. bs \in Nat \ {0}
  BY DEF ValidGeometry
<1>2. b \in Nat /\ r \in 0 .. bs - 1 /\ v = bs * b + r
  <2> HIDE DEF bs
  <2> QED BY <1>1, DivMod
<1>3. u < (b + 1) * bs
  BY DEF BlockEnd, BlockOf
<1> HIDE DEF bs, b, r
<1>4. t \in 0 .. bs - 1 /\ u = bs * b + t
  <2> DEFINE p == bs * b
  <2>1. p \in Nat /\ v = p + r /\ u < p + bs
    BY <1>1, <1>2, <1>3
  <2> HIDE DEF p
  <2>2. u - p \in 0 .. bs - 1 /\ u = p + (u - p)
    BY <1>1, <1>2, <2>1
  <2> QED BY <2>2 DEF p
<1> HIDE DEF t
<1>5. u \div bs = b
  BY <1>1, <1>2, <1>4
<1> QED BY <1>5 DEF BlockOf, b, bs

LEMMA BlockEndIs ==
    ASSUME NEW img, ValidGeometry(img), NEW v \in Nat
    PROVE  BlockEnd(img, v) \in Nat /\ v < BlockEnd(img, v)
<1> DEFINE bs == img.blockSize
           b == v \div bs
           r == v % bs
<1>1. bs \in Nat \ {0}
  BY DEF ValidGeometry
<1> HIDE DEF bs
<1>2. b \in Nat /\ r \in 0 .. bs - 1 /\ v = bs * b + r
  BY <1>1, DivMod
<1> HIDE DEF b, r
<1>3. (b + 1) * bs = bs * b + bs /\ bs * b \in Nat
  BY <1>1, <1>2
<1> QED BY <1>1, <1>2, <1>3 DEF BlockEnd, BlockOf, b, bs

\* A run is at least the sector it starts with, stays in its byte of the bitmap, and has
\* one owner.
LEMMA RunIs ==
    ASSUME NEW img, ValidGeometry(img), NEW v \in Nat
    PROVE  LET bit == BitmapBit(img, v)
               run == RunSectors(img, v)
           IN  /\ bit \in 0 .. BitsPerByte - 1 /\ run \in Nat \ {0} /\ bit + run <= BitsPerByte
               /\ \A j \in bit .. bit + run - 1 : BitSet(BitmapByte(img, v), j) = Owned(img, v)
<1> DEFINE bit == BitmapBit(img, v)
           other == {b \in bit + 1 .. BitsPerByte - 1 :
                        BitSet(BitmapByte(img, v), b) # Owned(img, v)}
           stops == other \cup {BitsPerByte}
           end == CHOOSE b \in stops : \A c \in stops : b <= c
<1>1. bit \in 0 .. BitsPerByte - 1
  <2> DEFINE s == SectorInChunk(img, v)
  <2>1. s \in Nat
    BY SectorNumber
  <2> HIDE DEF s
  <2>2. s % BitsPerByte \in 0 .. BitsPerByte - 1
    BY <2>1, BatAssumption, DivMod
  <2> QED BY <2>2 DEF BitmapBit, s
<1>2. RunSectors(img, v) = end - bit
  BY DEF RunSectors
<1>3. BitSet(BitmapByte(img, v), bit) = Owned(img, v)
  BY DEF Owned
<1> HIDE DEF bit
<1>4. stops \subseteq Nat /\ stops # {} /\ \A b \in stops : b > bit /\ b <= BitsPerByte
  BY <1>1, BatAssumption
<1>5. end \in stops /\ \A c \in stops : end <= c
  <2> HIDE DEF stops
  <2>1. \E b \in stops : \A c \in stops : b <= c
    BY <1>4, LeastNatural
  <2> QED BY <2>1
<1> HIDE DEF end
<1>6. end \in Nat /\ end > bit /\ end <= BitsPerByte
  BY <1>4, <1>5
<1>7. ASSUME NEW j \in bit .. end - 1
      PROVE  BitSet(BitmapByte(img, v), j) = Owned(img, v)
  <2>1. CASE j = bit
    BY <1>3, <2>1
  <2>2. CASE j # bit
    <3>1. j \in bit + 1 .. BitsPerByte - 1
      BY <1>1, <1>6, <2>2, BatAssumption
    <3>2. j \notin stops
      BY <1>1, <1>5, <1>6
    <3> QED BY <3>1, <3>2
  <2> QED BY <2>1, <2>2
<1> HIDE DEF other
<1>8. bit + (end - bit) - 1 = end - 1
  BY <1>1, <1>6
<1> QED BY <1>1, <1>2, <1>6, <1>7, <1>8 DEF bit

LEMMA RunEndIs ==
    ASSUME NEW img, ValidGeometry(img), NEW v \in Nat
    PROVE  RunEnd(img, v) \in Nat /\ v < RunEnd(img, v)
<1> DEFINE n == img.sectorSize
           w == v \div n
           r == v % n
           run == RunSectors(img, v)
<1>1. n \in Nat \ {0}
  BY DEF ValidGeometry
<1>2. run \in Nat \ {0}
  BY RunIs
<1> HIDE DEF n, run
<1>3. w \in Nat /\ r \in 0 .. n - 1 /\ v = n * w + r
  BY <1>1, DivMod
<1> HIDE DEF w, r
<1>4. (w + run) * n \in Nat /\ (w + run) * n = n * w + n * run /\ n * w \in Nat
  BY <1>1, <1>2, <1>3
<1>5. n * run >= n /\ n * run \in Nat
  BY <1>1, <1>2
<1>6. v < (w + run) * n
  <2> DEFINE a == n * w
             b == n * run
  <2>1. (w + run) * n = a + b /\ v = a + r /\ a \in Nat /\ b \in Nat /\ b >= n
    BY <1>3, <1>4, <1>5
  <2> HIDE DEF a, b
  <2> QED BY <1>1, <1>3, <2>1
<1> QED BY <1>4, <1>6 DEF RunEnd, w, n, run

\* A run within a block has one owner.
LEMMA InRun ==
    ASSUME NEW img, ValidGeometry(img), NEW v \in Nat,
           NEW u \in Nat, v <= u, u < BlockEnd(img, v), u < RunEnd(img, v)
    PROVE  /\ Owned(img, u) = Owned(img, v)
           /\ BitmapByteOffset(img, u) = BitmapByteOffset(img, v)
<1> DEFINE n == img.sectorSize
           k == BlockSectors(img)
           cr == ChunkRatio(img)
           b == BlockOf(img, v)
           run == RunSectors(img, v)
           x == SectorInChunk(img, v)
           y == SectorInChunk(img, u)
           bit == BitmapBit(img, v)
           j == (u \div n) - (v \div n)
<1>1. BlockOf(img, u) = b
  BY InBlock
<1>2. PICK q \in Nat, c \in Nat :
        q < k /\ c < cr /\ b = cr * (b \div cr) + c /\ v \div n = k * b + q /\ x = k * c + q
  BY SectorsInChunk
<1>3. PICK p \in Nat, e \in Nat :
        p < k /\ e < cr /\ b = cr * (b \div cr) + e /\ u \div n = k * b + p /\ y = k * e + p
  BY <1>1, SectorsInChunk
<1>4. n \in Nat \ {0} /\ k \in Nat \ {0} /\ cr \in Nat \ {0} /\ b \in Nat /\ b \div cr \in Nat
  BY Proportions, BlockIs DEF ValidGeometry
<1>5. /\ bit \in 0 .. BitsPerByte - 1 /\ run \in Nat \ {0} /\ bit + run <= BitsPerByte
      /\ \A i \in bit .. bit + run - 1 : BitSet(BitmapByte(img, v), i) = Owned(img, v)
  BY RunIs
<1>6. v \div n \in Nat /\ u \div n \in Nat /\ v \div n <= u \div n
      /\ u \div n < (v \div n) + run
  <2> DEFINE w == (v \div n) + run
  <2>1. u < w * n
    BY DEF RunEnd
  <2> HIDE DEF n, run
  <2>2. v \div n \in Nat /\ u \div n \in Nat
    BY <1>4, DivMod
  <2>3. v \div n <= u \div n
    BY <1>4
  <2>4. w \in Nat
    BY <1>5, <2>2
  <2> HIDE DEF w
  <2>5. u \div n < w
    BY <1>4, <2>1, <2>4, DivBelow
  <2> QED BY <2>2, <2>3, <2>5 DEF w
<1> HIDE DEF n, k, cr, b, run, x, y, bit
<1>7. c = e
  <2> DEFINE d == cr * (b \div cr)
  <2>1. d \in Nat /\ b = d + c /\ b = d + e
    BY <1>2, <1>3, <1>4
  <2> HIDE DEF d
  <2> QED BY <2>1
<1>8. j \in 0 .. run - 1 /\ y = x + j
  <2> DEFINE f == k * b
             g == k * c
  <2>1. /\ f \in Nat /\ g \in Nat /\ v \div n = f + q /\ x = g + q
        /\ u \div n = f + p /\ y = g + p
    BY <1>2, <1>3, <1>4, <1>7
  <2>2. j \in 0 .. run - 1
    BY <1>5, <1>6
  <2> HIDE DEF f, g
  <2> QED BY <2>1, <2>2
<1> HIDE DEF j
<1>9. /\ x \in Nat /\ bit = x % BitsPerByte
  <2>1. SectorInChunk(img, v) \in Nat
    BY SectorNumber
  <2> QED BY <2>1 DEF x, bit, BitmapBit
<1>10. y \div BitsPerByte = x \div BitsPerByte /\ y % BitsPerByte = bit + j
  <2> DEFINE h == x \div BitsPerByte
             z == bit + j
  <2>1. BitsPerByte \in Nat \ {0}
    BY BatAssumption
  <2>2. h \in Nat /\ x = BitsPerByte * h + bit
    BY <1>9, <2>1, DivMod
  <2>3. z \in 0 .. BitsPerByte - 1
    BY <1>5, <1>8, <2>1
  <2> HIDE DEF h
  <2>4. y = BitsPerByte * h + z
    <3> DEFINE f == BitsPerByte * h
    <3>1. f \in Nat /\ x = f + bit
      BY <2>1, <2>2
    <3> HIDE DEF f
    <3>2. y = f + z
      BY <1>5, <1>8, <3>1
    <3> QED BY <3>2 DEF f
  <2> HIDE DEF z
  <2>5. y \div BitsPerByte = h /\ y % BitsPerByte = z
    BY <2>1, <2>2, <2>3, <2>4
  <2> QED BY <2>5 DEF h, z
<1>11. BitmapByteOffset(img, u) = BitmapByteOffset(img, v)
  BY <1>1, <1>10 DEF BitmapByteOffset, b, x, y
<1>12. BitmapBit(img, u) = bit + j
  BY <1>10 DEF BitmapBit, y
<1>13. bit + j \in bit .. bit + run - 1
  BY <1>5, <1>8
<1>14. BitSet(BitmapByte(img, v), bit + j) = Owned(img, v)
  BY <1>5, <1>13
<1> QED BY <1>11, <1>12, <1>14 DEF Owned, BitmapByte

-----------------------------------------------------------------------------
(* The running calls                                                       *)

Frame == [want : Nat, written : Nat, need : Nat, have : Nat]

\* The properties, and that no read wants more than its disk has.
WithinDisk ==
    \A l \in 1 .. level : frame[l].want > 0 => posn[l] + frame[l].want <= chain[l].vds

ReaderInv == TypeOK /\ CallsNest /\ ParentOnlyForAbsent /\ WithinDisk

LEMMA ChainIs ==
    ASSUME TypeOK
    PROVE  /\ Len(chain) \in Nat \ {0} /\ DOMAIN chain = 1 .. Len(chain)
           /\ I64Max \in Nat /\ level \in 0 .. Len(chain)
           /\ posn \in [1 .. Len(chain) -> 0 .. I64Max]
           /\ frame \in [1 .. Len(chain) -> Frame]
           /\ \A l \in 1 .. Len(chain) :
                 /\ ValidGeometry(chain[l]) /\ chain[l].vds \in Nat /\ chain[l].vds <= I64Max
                 /\ chain[l].bat \in Seq(Entry)
<1>1. chain \in Chain
  BY DEF TypeOK
<1>2. Len(chain) \in Nat \ {0} /\ DOMAIN chain = 1 .. Len(chain)
      /\ \A l \in DOMAIN chain : IsDisk(chain[l])
  BY <1>1, ChainAssumption
<1>3. I64Max \in Nat
  BY ReaderAssumption
<1>4. \A l \in 1 .. Len(chain) :
         /\ ValidGeometry(chain[l]) /\ chain[l].vds \in Nat /\ chain[l].vds <= I64Max
         /\ chain[l].bat \in Seq(Entry)
  BY <1>2 DEF IsDisk, ValidGeometry
<1> QED BY <1>2, <1>3, <1>4 DEF TypeOK, Frame

LEMMA ToReadIs ==
    ASSUME NEW img, img.vds \in Nat, NEW p \in Nat, NEW n \in Nat
    PROVE  /\ ToRead(img, p, n) \in Nat /\ ToRead(img, p, n) <= n
           /\ ToRead(img, p, n) > 0 => p + ToRead(img, p, n) <= img.vds
BY DEF ToRead, AtMost

\* An iteration of the loop.
LEMMA AtChunk ==
    ASSUME ReaderInv, Running
    PROVE  /\ level \in 1 .. Len(chain) /\ ValidGeometry(Img) /\ Top \in Frame
           /\ V \in Nat /\ V < Img.vds /\ V = posn[level] + Top.written
           /\ Chunk \in Nat \ {0} /\ Top.written + Chunk <= Top.want
           /\ V + Chunk <= BlockEnd(Img, V)
           /\ ReadTarget(Img, V) = "partial" => V + Chunk <= RunEnd(Img, V)
<1>1. level \in 1 .. Len(chain)
  BY ChainIs DEF ReaderInv, Running
<1>2. ValidGeometry(Img) /\ Top \in Frame /\ posn[level] \in Nat /\ Img.vds \in Nat
  BY <1>1, ChainIs DEF ReaderInv, Img, Top
<1>3. Top.written < Top.want /\ posn[level] + Top.want <= Img.vds
  <2>1. Top.written \in Nat /\ Top.want \in Nat /\ Top.written < Top.want
    BY <1>2 DEF Frame, Running
  <2> QED BY <1>1, <2>1 DEF ReaderInv, WithinDisk, Top, Img
<1>4. V \in Nat /\ V < Img.vds /\ Top.want - Top.written \in Nat \ {0}
  BY <1>2, <1>3 DEF V, Frame
<1>5. BlockEnd(Img, V) \in Nat /\ V < BlockEnd(Img, V)
  BY <1>2, <1>4, BlockEndIs
<1>6. RunEnd(Img, V) \in Nat /\ V < RunEnd(Img, V)
  BY <1>2, <1>4, RunEndIs
<1>7. /\ Chunk \in Nat \ {0} /\ Chunk <= Top.want - Top.written
      /\ V + Chunk <= BlockEnd(Img, V)
      /\ ReadTarget(Img, V) = "partial" => V + Chunk <= RunEnd(Img, V)
  <2> DEFINE w == Top.want - Top.written
             e == BlockEnd(Img, V)
             r == RunEnd(Img, V)
             v == V
  <2>1. w \in Nat \ {0} /\ e \in Nat /\ v \in Nat /\ r \in Nat /\ v < e /\ v < r
    BY <1>4, <1>5, <1>6
  <2>2. Chunk = IF ReadTarget(Img, V) = "partial" THEN AtMost(AtMost(w, e - v), r - v)
                ELSE AtMost(w, e - v)
    BY DEF Chunk
  <2> HIDE DEF w, e, r, v
  <2>3. /\ Chunk \in Nat \ {0} /\ Chunk <= w /\ v + Chunk <= e
        /\ ReadTarget(Img, V) = "partial" => v + Chunk <= r
    BY <2>1, <2>2 DEF AtMost
  <2> QED BY <2>3 DEF w, e, r, v
<1>8. Top.written + Chunk <= Top.want
  BY <1>2, <1>7 DEF Frame
<1> QED BY <1>1, <1>2, <1>4, <1>7, <1>8 DEF V

LEMMA ReaderInvInit == Init => ReaderInv
<1> SUFFICES ASSUME Init PROVE ReaderInv
  OBVIOUS
<1>1. chain \in Chain /\ level = 0 /\ buf = <<>> /\ faults = 0
  BY DEF Init
<1>2. Len(chain) \in Nat /\ I64Max \in Nat /\ MaxFaults \in Nat
  BY <1>1, ChainAssumption, ReaderAssumption
<1>3. TypeOK
  <2>1. posn \in [DOMAIN chain -> 0 .. I64Max]
    BY <1>2 DEF Init
  <2>2. Idle \in [want : Nat, written : Nat, need : Nat, have : Nat]
        /\ Idle.written <= Idle.want
    BY DEF Idle
  <2>3. /\ frame \in [DOMAIN chain -> [want : Nat, written : Nat, need : Nat, have : Nat]]
        /\ \A l \in DOMAIN chain : frame[l].written <= frame[l].want
    BY <2>2 DEF Init
  <2>4. \A v \in DOMAIN buf : v < chain[1].vds
    BY <1>1
  <2>5. reply.ok \in BOOLEAN /\ reply.n \in Nat
    BY DEF Init, Ok
  <2> QED BY <1>1, <1>2, <2>1, <2>3, <2>4, <2>5 DEF TypeOK
<1> QED BY <1>1, <1>3 DEF ReaderInv, CallsNest, ParentOnlyForAbsent, WithinDisk

\* Nothing runs after a seek, or an error.
LEMMA NoneRuns ==
    ASSUME TypeOK', level' = 0
    PROVE  ReaderInv'
BY DEF ReaderInv, CallsNest, ParentOnlyForAbsent, WithinDisk

LEMMA AsI64Is == ASSUME NEW n \in Int PROVE AsI64(n) \in Int /\ AsI64(n) <= I64Max
<1> DEFINE m == 2 * (I64Max + 1)
           w == n + I64Max + 1
<1>1. m \in Nat \ {0} /\ w \in Int /\ I64Max \in Nat
  BY ReaderAssumption
<1>2. AsI64(n) = (w % m) - (I64Max + 1) /\ m = 2 * (I64Max + 1)
  BY DEF AsI64
<1> HIDE DEF m, w
<1>3. w % m \in 0 .. m - 1
  BY <1>1
<1> QED BY <1>1, <1>2, <1>3

LEMMA SeekStep ==
    ASSUME ReaderInv, NEW p \in Int, p <= I64Max, SeekTo(p)
    PROVE  ReaderInv'
<1>1. /\ Len(chain) \in Nat \ {0} /\ DOMAIN chain = 1 .. Len(chain) /\ I64Max \in Nat
      /\ posn \in [1 .. Len(chain) -> 0 .. I64Max]
  BY ChainIs DEF ReaderInv
<1>2. UNCHANGED <<chain, level, frame, buf, faults>> /\ level = 0
  BY DEF SeekTo, call
<1>3. posn' \in [DOMAIN chain -> 0 .. I64Max] /\ reply'.ok \in BOOLEAN /\ reply'.n \in Nat
  <2>1. CASE p < 0
    <3>1. posn' = posn /\ reply' = Failed
      BY <2>1 DEF SeekTo
    <3> QED BY <1>1, <3>1 DEF Failed
  <2>2. CASE p >= 0
    <3>1. posn' = [posn EXCEPT ![1] = p] /\ reply' = Ok(p, <<>>)
      BY <2>2 DEF SeekTo
    <3>2. p \in 0 .. I64Max /\ 1 \in 1 .. Len(chain)
      BY <1>1, <2>2
    <3> QED BY <1>1, <3>1, <3>2 DEF Ok
  <2> QED BY <2>1, <2>2
<1>4. TypeOK'
  BY <1>2, <1>3 DEF ReaderInv, TypeOK
<1> QED BY <1>2, <1>4, NoneRuns

LEMMA FailStep ==
    ASSUME ReaderInv, Fail, faults' \in 0 .. MaxFaults
    PROVE  ReaderInv'
<1>1. UNCHANGED <<chain, posn>> /\ level' = 0 /\ buf' = <<>>
      /\ frame' = [l \in DOMAIN chain |-> Idle] /\ reply' = Failed
  BY DEF Fail
<1>2. TypeOK'
  <2>1. Idle \in [want : Nat, written : Nat, need : Nat, have : Nat]
        /\ Idle.written <= Idle.want
    BY DEF Idle
  <2>2. reply'.ok \in BOOLEAN /\ reply'.n \in Nat
    BY <1>1 DEF Failed
  <2>3. level' \in 0 .. Len(chain)
    BY <1>1, ChainIs DEF ReaderInv
  <2> QED BY <1>1, <2>1, <2>2, <2>3 DEF ReaderInv, TypeOK
<1> QED BY <1>1, <1>2, NoneRuns

\* The invariants, level by level.
Nests(p, f, l) ==
    /\ p[l] - f[l].have = p[l - 1] + f[l - 1].written
    /\ f[l].have + f[l].want <= f[l].need
    /\ f[l].need <= f[l - 1].want - f[l - 1].written

Deferred(img, v) ==
    /\ HasEntry(img, BatIndex(img, BlockOf(img, v)))
    /\ LET e == EntryAt(img, BatIndex(img, BlockOf(img, v)))
       IN  \/ e.state = NotPresent
           \/ e.state = PartiallyPresent /\ ~Owned(img, v)

LeftToParent(p, f, l) ==
    \A v \in p[l] - f[l].have .. p[l] - f[l].have + f[l].need - 1 : Deferred(chain[l - 1], v)

Within(p, f, l) == f[l].want > 0 => p[l] + f[l].want <= chain[l].vds

LEMMA OfLevel ==
    ASSUME ReaderInv, NEW l \in 1 .. level
    PROVE  /\ l > 1 => Nests(posn, frame, l) /\ LeftToParent(posn, frame, l)
           /\ Within(posn, frame, l)
<1>1. Within(posn, frame, l)
  BY DEF ReaderInv, WithinDisk, Within
<1>2. ASSUME l > 1 PROVE Nests(posn, frame, l) /\ LeftToParent(posn, frame, l)
  <2>1. l \in 2 .. level
    BY <1>2
  <2>2. Nests(posn, frame, l)
    BY <2>1 DEF ReaderInv, CallsNest, Nests
  <2>3. LeftToParent(posn, frame, l)
    BY <2>1 DEF ReaderInv, ParentOnlyForAbsent, LeftToParent, Deferred
  <2> QED BY <2>2, <2>3
<1> QED BY <1>1, <1>2

LEMMA ByLevel ==
    ASSUME TypeOK', level' \in Nat, chain' = chain,
           \A l \in 1 .. level' :
               /\ l > 1 => Nests(posn', frame', l) /\ LeftToParent(posn', frame', l)
               /\ Within(posn', frame', l)
    PROVE  ReaderInv'
<1>1. \A l \in 2 .. level' : l \in 1 .. level' /\ l > 1
  OBVIOUS
<1>2. CallsNest'
  BY <1>1 DEF CallsNest, Nests
<1>3. ParentOnlyForAbsent'
  BY <1>1 DEF ParentOnlyForAbsent, LeftToParent, Deferred
<1>4. WithinDisk'
  BY DEF WithinDisk, Within
<1> QED BY <1>2, <1>3, <1>4 DEF ReaderInv

\* The calls that a step leaves running as they were.
LEMMA CallsBelow ==
    ASSUME ReaderInv, NEW k \in 0 .. level,
           NEW p, NEW f,
           \A l \in 1 .. k :
               /\ p[l] = posn[l] /\ f[l].want = frame[l].want
               /\ f[l].need = frame[l].need /\ f[l].have = frame[l].have
               /\ l # k => f[l].written = frame[l].written
    PROVE  \A l \in 1 .. k :
               /\ l > 1 => Nests(p, f, l) /\ LeftToParent(p, f, l)
               /\ Within(p, f, l)
<1> SUFFICES ASSUME NEW l \in 1 .. k
             PROVE  /\ l > 1 => Nests(p, f, l) /\ LeftToParent(p, f, l)
                    /\ Within(p, f, l)
  OBVIOUS
<1>1. level \in Nat /\ l \in 1 .. level
  BY ChainIs DEF ReaderInv
<1>2. /\ l > 1 => Nests(posn, frame, l) /\ LeftToParent(posn, frame, l)
      /\ Within(posn, frame, l)
  BY <1>1, OfLevel
<1>3. Within(p, f, l)
  BY <1>2 DEF Within
<1>4. ASSUME l > 1 PROVE Nests(p, f, l) /\ LeftToParent(p, f, l)
  <2>1. l - 1 \in 1 .. k /\ l - 1 # k
    BY <1>1, <1>4
  <2>2. p[l - 1] = posn[l - 1] /\ f[l - 1].want = frame[l - 1].want
        /\ f[l - 1].written = frame[l - 1].written
    BY <2>1
  <2>3. Nests(p, f, l)
    BY <1>2, <1>4, <2>2 DEF Nests
  <2>4. LeftToParent(p, f, l)
    BY <1>2, <1>4 DEF LeftToParent
  <2> QED BY <2>3, <2>4
<1> QED BY <1>3, <1>4

\* The running read writes more, or starts over.
LEMMA WrittenStep ==
    ASSUME ReaderInv, Running, NEW n \in Nat, n <= Top.want,
           frame' = [frame EXCEPT ![level].written = n],
           UNCHANGED <<chain, posn, level, reply>>, DOMAIN buf' = DOMAIN buf,
           faults' \in 0 .. MaxFaults
    PROVE  ReaderInv'
<1>1. level \in 1 .. Len(chain) /\ Top \in Frame
  BY AtChunk
<1>2. /\ DOMAIN chain = 1 .. Len(chain) /\ frame \in [1 .. Len(chain) -> Frame]
  BY ChainIs DEF ReaderInv
<1> DEFINE f == [Top EXCEPT !.written = n]
<1>3. frame' = [frame EXCEPT ![level] = f]
  BY DEF Top
<1>4. f \in Frame /\ f.want = Top.want /\ f.need = Top.need /\ f.have = Top.have
      /\ f.written = n
  <2> DEFINE t == Top
  <2>1. t \in Frame
    BY <1>1
  <2> HIDE DEF t
  <2> SUFFICES LET g == [t EXCEPT !.written = n]
               IN  /\ g \in Frame /\ g.want = t.want /\ g.need = t.need /\ g.have = t.have
                   /\ g.written = n
    BY DEF t
  <2> QED BY <2>1 DEF Frame
<1> HIDE DEF f
<1>5. /\ frame' \in [1 .. Len(chain) -> Frame]
      /\ frame'[level] = f
      /\ \A l \in 1 .. Len(chain) : l # level => frame'[l] = frame[l]
  BY <1>1, <1>2, <1>3, <1>4
<1>6. \A l \in 1 .. Len(chain) :
         /\ frame'[l].want = frame[l].want /\ frame'[l].need = frame[l].need
         /\ frame'[l].have = frame[l].have /\ frame'[l].written <= frame'[l].want
         /\ l # level => frame'[l].written = frame[l].written
  <2>1. \A l \in 1 .. Len(chain) : frame[l].written <= frame[l].want
    BY <1>2 DEF ReaderInv, TypeOK
  <2> QED BY <1>4, <1>5, <2>1 DEF Top
<1>7. TypeOK'
  BY <1>2, <1>5, <1>6 DEF ReaderInv, TypeOK, Frame
<1>8. \A l \in 1 .. level :
         /\ l > 1 => Nests(posn', frame', l) /\ LeftToParent(posn', frame', l)
         /\ Within(posn', frame', l)
  <2>1. \A l \in 1 .. level :
           /\ posn'[l] = posn[l] /\ frame'[l].want = frame[l].want
           /\ frame'[l].need = frame[l].need /\ frame'[l].have = frame[l].have
           /\ l # level => frame'[l].written = frame[l].written
    BY <1>1, <1>6
  <2>2. level \in 0 .. level
    BY <1>1
  <2> DEFINE p == posn'
             fs == frame'
  <2> HIDE DEF p, fs
  <2>3. \A l \in 1 .. level :
           /\ p[l] = posn[l] /\ fs[l].want = frame[l].want
           /\ fs[l].need = frame[l].need /\ fs[l].have = frame[l].have
           /\ l # level => fs[l].written = frame[l].written
    BY <2>1 DEF p, fs
  <2>4. \A l \in 1 .. level :
           /\ l > 1 => Nests(p, fs, l) /\ LeftToParent(p, fs, l)
           /\ Within(p, fs, l)
    BY <2>2, <2>3, CallsBelow
  <2> QED BY <2>4 DEF p, fs
<1>9. level' = level /\ level' \in Nat /\ chain' = chain
  BY <1>1
<1>10. \A l \in 1 .. level' :
          /\ l > 1 => Nests(posn', frame', l) /\ LeftToParent(posn', frame', l)
          /\ Within(posn', frame', l)
  BY <1>8, <1>9
<1> QED BY <1>7, <1>9, <1>10, ByLevel

LEMMA ReadTargetIs ==
    ASSUME NEW img, NEW v, v < img.vds,
           ReadTarget(img, v) \in {"parent", "partial"}
    PROVE  LET i == BatIndex(img, BlockOf(img, v)) IN
           /\ HasEntry(img, i)
           /\ ReadTarget(img, v) = "parent" => EntryAt(img, i).state = NotPresent
           /\ ReadTarget(img, v) = "partial" => EntryAt(img, i).state = PartiallyPresent
<1> DEFINE i == BatIndex(img, BlockOf(img, v))
           state == EntryAt(img, i).state
           bitmap == BitmapIndex(img, BlockOf(img, v))
           present == HasEntry(img, bitmap) /\ EntryAt(img, bitmap).state = BitmapPresent
<1>1. HasEntry(img, i)
  BY DEF ReadTarget
<1>2. ReadTarget(img, v) =
        CASE state = NotPresent -> "parent"
          [] state \in {Undefined, Zero, Unmapped} -> "zero"
          [] state = FullyPresent -> "file"
          [] state = PartiallyPresent -> IF present THEN "partial" ELSE "error"
          [] OTHER -> "error"
  BY <1>1 DEF ReadTarget
<1> HIDE DEF state, present
<1>3. /\ ReadTarget(img, v) = "parent" => state = NotPresent
      /\ ReadTarget(img, v) = "partial" => state = PartiallyPresent
  BY <1>2 DEF NotPresent, Undefined, Zero, Unmapped, FullyPresent, PartiallyPresent
<1> QED BY <1>1, <1>3 DEF state

\* What a chunk that is left to the parent covers.
LEMMA ChunkDeferred ==
    ASSUME ReaderInv, Running, Source(Img, V) = "parent"
    PROVE  \A u \in V .. V + Chunk - 1 : Deferred(Img, u)
<1> DEFINE img == Img
           v == V
           n == Chunk
<1>1. /\ ValidGeometry(img) /\ v \in Nat /\ v < img.vds /\ n \in Nat
      /\ v + n <= BlockEnd(img, v)
      /\ ReadTarget(img, v) = "partial" => v + n <= RunEnd(img, v)
  BY AtChunk
<1>2. \/ ReadTarget(img, v) = "parent"
      \/ ReadTarget(img, v) = "partial" /\ ~Owned(img, v)
  BY DEF Source
<1> HIDE DEF img, v, n
<1> SUFFICES ASSUME NEW u \in v .. v + n - 1
             PROVE  Deferred(img, u)
  BY DEF img, v, n
<1>3. BlockEnd(img, v) \in Nat /\ RunEnd(img, v) \in Nat
  BY <1>1, BlockEndIs, RunEndIs
<1>4. u \in Nat /\ v <= u /\ u < BlockEnd(img, v)
      /\ (ReadTarget(img, v) = "partial" => u < RunEnd(img, v))
  BY <1>1, <1>3
<1>5. BlockOf(img, u) = BlockOf(img, v)
  BY <1>1, <1>4, InBlock
<1>6. CASE ReadTarget(img, v) = "parent"
  BY <1>1, <1>5, <1>6, ReadTargetIs DEF Deferred
<1>7. CASE ReadTarget(img, v) = "partial" /\ ~Owned(img, v)
  <2>1. Owned(img, u) = Owned(img, v)
    BY <1>1, <1>4, <1>7, InRun
  <2> QED BY <1>1, <1>5, <1>7, <2>1, ReadTargetIs DEF Deferred
<1> QED BY <1>2, <1>6, <1>7

LEMMA FillStep ==
    ASSUME ReaderInv, Running, NEW bytes, Fill(bytes)
    PROVE  ReaderInv'
<1> DEFINE n == Top.written + Chunk
<1>1. n \in Nat /\ n <= Top.want
  BY AtChunk DEF Frame
<1>2. /\ frame' = [frame EXCEPT ![level].written = n]
      /\ UNCHANGED <<chain, posn, level, reply, faults>> /\ DOMAIN buf' = DOMAIN buf
  BY DEF Fill, Top
<1>3. faults' \in 0 .. MaxFaults
  BY <1>2 DEF ReaderInv, TypeOK
<1> HIDE DEF n
<1> QED BY <1>1, <1>2, <1>3, WrittenStep

LEMMA FaultIs ==
    ASSUME TypeOK, CanFail, faults' = faults + 1
    PROVE  faults' \in 0 .. MaxFaults
BY ReaderAssumption DEF TypeOK, CanFail

LEMMA InterruptedStep == ReaderInv /\ Interrupted => ReaderInv'
<1> SUFFICES ASSUME ReaderInv, Interrupted PROVE ReaderInv'
  OBVIOUS
<1>1. /\ Running /\ frame' = [frame EXCEPT ![level].written = 0]
      /\ UNCHANGED <<chain, posn, level, reply>> /\ buf' = buf
      /\ CanFail /\ faults' = faults + 1
  BY DEF Interrupted
<1>2. faults' \in 0 .. MaxFaults
  BY <1>1, FaultIs DEF ReaderInv
<1>3. 0 <= Top.want
  BY <1>1, AtChunk DEF Frame
<1> QED BY <1>1, <1>2, <1>3, WrittenStep

LEMMA MediumFaultStep == ReaderInv /\ MediumFault => ReaderInv'
BY FaultIs, FailStep DEF MediumFault, ReaderInv

LEMMA ErrorStep == ReaderInv /\ (FailChunk \/ ParentTooShort) => ReaderInv'
<1> SUFFICES ASSUME ReaderInv, Fail, UNCHANGED faults PROVE ReaderInv'
  BY DEF FailChunk, ParentTooShort
<1>1. faults' \in 0 .. MaxFaults
  BY DEF ReaderInv, TypeOK
<1> QED BY <1>1, FailStep

LEMMA StartReadStep ==
    ASSUME ReaderInv, NEW n \in Nat, StartRead(n)
    PROVE  ReaderInv'
<1> DEFINE m == ToRead(chain[1], posn[1], n)
           f == [Idle EXCEPT !.want = m]
<1>1. /\ level' = 1 /\ frame' = [frame EXCEPT ![1] = f]
      /\ buf' = [v \in posn[1] .. posn[1] + m - 1 |-> 0]
      /\ UNCHANGED <<chain, posn, reply, faults>>
  BY DEF StartRead
<1>2. /\ Len(chain) \in Nat \ {0} /\ DOMAIN chain = 1 .. Len(chain)
      /\ posn \in [1 .. Len(chain) -> 0 .. I64Max] /\ frame \in [1 .. Len(chain) -> Frame]
      /\ chain[1].vds \in Nat
  BY ChainIs DEF ReaderInv
<1>3. posn[1] \in Nat
  BY <1>2
<1>4. m \in Nat /\ m > 0 => posn[1] + m <= chain[1].vds
  BY <1>2, <1>3, ToReadIs
<1>5. m \in Nat
  BY <1>2, <1>3, ToReadIs
<1> HIDE DEF m
<1>6. f \in Frame /\ f.want = m /\ f.written <= f.want
  BY <1>5 DEF Frame, Idle
<1> HIDE DEF f
<1>7. /\ frame' \in [1 .. Len(chain) -> Frame] /\ frame'[1] = f
      /\ \A l \in 1 .. Len(chain) : frame'[l].written <= frame'[l].want
  <2>1. \A l \in 1 .. Len(chain) : frame[l].written <= frame[l].want
    BY <1>2 DEF ReaderInv, TypeOK
  <2> QED BY <1>1, <1>2, <1>6, <2>1
<1>8. \A v \in DOMAIN buf' : v < chain[1].vds
  BY <1>1, <1>2, <1>3, <1>4, <1>5
<1>9. TypeOK'
  BY <1>1, <1>2, <1>7, <1>8 DEF ReaderInv, TypeOK, Frame
<1>10. Within(posn', frame', 1)
  BY <1>1, <1>4, <1>5, <1>6, <1>7 DEF Within
<1>11. level' \in Nat /\ chain' = chain /\ \A l \in 1 .. level' : l = 1
  BY <1>1
<1> QED BY <1>9, <1>10, <1>11, ByLevel

LEMMA AskParentStep == ReaderInv /\ AskParent => ReaderInv'
<1> SUFFICES ASSUME ReaderInv, AskParent PROVE ReaderInv'
  OBVIOUS
<1> DEFINE k == level + 1
           v == V
           n == Chunk
           m == ToRead(chain[k], v, n)
           f == [want |-> m, written |-> 0, need |-> n, have |-> 0]
<1>1. /\ Running /\ Source(Img, V) = "parent" /\ level < Len(chain)
      /\ level' = k /\ posn' = [posn EXCEPT ![k] = v] /\ frame' = [frame EXCEPT ![k] = f]
      /\ UNCHANGED <<chain, buf, reply, faults>>
  BY DEF AskParent
<1>2. /\ level \in 1 .. Len(chain) /\ v \in Nat /\ v < chain[level].vds
      /\ v = posn[level] + frame[level].written
      /\ n \in Nat \ {0} /\ frame[level] \in Frame
      /\ frame[level].written + n <= frame[level].want
  BY <1>1, AtChunk DEF Img, Top
<1>3. \A u \in v .. v + n - 1 : Deferred(chain[level], u)
  BY <1>1, ChunkDeferred DEF Img
<1> HIDE DEF v, n
<1>4. /\ Len(chain) \in Nat \ {0} /\ DOMAIN chain = 1 .. Len(chain) /\ I64Max \in Nat
      /\ posn \in [1 .. Len(chain) -> 0 .. I64Max] /\ frame \in [1 .. Len(chain) -> Frame]
      /\ \A l \in 1 .. Len(chain) : chain[l].vds \in Nat /\ chain[l].vds <= I64Max
  BY ChainIs DEF ReaderInv
<1>5. k \in 1 .. Len(chain) /\ k > 1 /\ k - 1 = level
  BY <1>1, <1>2
<1>6. m \in Nat /\ m <= n /\ (m > 0 => v + m <= chain[k].vds)
  BY <1>2, <1>4, <1>5, ToReadIs
<1> HIDE DEF m
<1>7. f \in Frame /\ f.want = m /\ f.written = 0 /\ f.need = n /\ f.have = 0
  BY <1>2, <1>6 DEF Frame
<1>8. v \in 0 .. I64Max
  BY <1>2, <1>4
<1> HIDE DEF f, k
<1>9. /\ frame' \in [1 .. Len(chain) -> Frame] /\ frame'[k] = f
      /\ posn' \in [1 .. Len(chain) -> 0 .. I64Max] /\ posn'[k] = v
      /\ \A l \in 1 .. Len(chain) : l # k => frame'[l] = frame[l] /\ posn'[l] = posn[l]
  BY <1>1, <1>4, <1>5, <1>7, <1>8
<1>10. \A l \in 1 .. Len(chain) : frame'[l].written <= frame'[l].want
  <2>1. \A l \in 1 .. Len(chain) : frame[l].written <= frame[l].want
    BY <1>4 DEF ReaderInv, TypeOK
  <2>2. f.written <= f.want
    BY <1>6, <1>7
  <2> QED BY <1>9, <2>1, <2>2
<1>11. TypeOK'
  <2>1. level' \in 0 .. Len(chain)
    BY <1>1, <1>5
  <2> QED BY <1>1, <1>4, <1>9, <1>10, <2>1 DEF ReaderInv, TypeOK, Frame
<1> DEFINE p == posn'
           g == frame'
<1>12. /\ \A l \in 1 .. level : p[l] = posn[l] /\ g[l] = frame[l]
       /\ p[k] = v /\ g[k] = f /\ p[k - 1] = posn[level] /\ g[k - 1] = frame[level]
  <2>1. \A l \in 1 .. level : l \in 1 .. Len(chain) /\ l # k
    BY <1>2, <1>5
  <2>2. level \in 1 .. level
    BY <1>2
  <2> QED BY <1>5, <1>9, <2>1, <2>2
<1> HIDE DEF p, g
<1>13. \A l \in 1 .. level :
          /\ l > 1 => Nests(p, g, l) /\ LeftToParent(p, g, l)
          /\ Within(p, g, l)
  <2>1. level \in 0 .. level
    BY <1>2
  <2> QED BY <1>12, <2>1, CallsBelow
<1>14. Nests(p, g, k)
  BY <1>2, <1>5, <1>6, <1>7, <1>12 DEF Nests, Frame
<1>15. LeftToParent(p, g, k)
  <2>1. p[k] - g[k].have = v /\ g[k].need = n
    BY <1>2, <1>7, <1>12
  <2> QED BY <1>3, <1>5, <2>1 DEF LeftToParent
<1>16. Within(p, g, k)
  BY <1>6, <1>7, <1>12 DEF Within
<1>17. \A l \in 1 .. level' :
          /\ l > 1 => Nests(p, g, l) /\ LeftToParent(p, g, l)
          /\ Within(p, g, l)
  <2> SUFFICES ASSUME NEW l \in 1 .. k
               PROVE  /\ l > 1 => Nests(p, g, l) /\ LeftToParent(p, g, l)
                      /\ Within(p, g, l)
    BY <1>1
  <2>1. l = k \/ l \in 1 .. level
    BY <1>2, <1>5
  <2> QED BY <1>13, <1>14, <1>15, <1>16, <2>1
<1>18. level' \in Nat /\ chain' = chain
  BY <1>1, <1>5
<1> QED BY <1>11, <1>17, <1>18, ByLevel DEF p, g

LEMMA ReturnToChildStep == ReaderInv /\ ReturnToChild => ReaderInv'
<1> SUFFICES ASSUME ReaderInv, ReturnToChild PROVE ReaderInv'
  OBVIOUS
<1> DEFINE k == level - 1
           t == frame[level]
           q == posn[level] + t.want
           c == [frame[k] EXCEPT !.written = frame[k].written + t.need]
<1>1. /\ level > 1 /\ t.want > 0 /\ level' = k
      /\ posn' = [posn EXCEPT ![level] = q]
      /\ frame' = [frame EXCEPT ![level] = Idle, ![k].written = @ + t.need]
      /\ UNCHANGED <<chain, buf, reply, faults>>
  BY DEF ReturnToChild, Done, Top
<1>2. /\ Len(chain) \in Nat \ {0} /\ DOMAIN chain = 1 .. Len(chain) /\ I64Max \in Nat
      /\ level \in 0 .. Len(chain)
      /\ posn \in [1 .. Len(chain) -> 0 .. I64Max] /\ frame \in [1 .. Len(chain) -> Frame]
      /\ \A l \in 1 .. Len(chain) : chain[l].vds \in Nat /\ chain[l].vds <= I64Max
  BY ChainIs DEF ReaderInv
<1>3. k \in 1 .. Len(chain) /\ level \in 1 .. Len(chain) /\ k # level /\ level \in 1 .. level
  BY <1>1, <1>2
<1> HIDE DEF c, k
<1>4. t \in Frame /\ frame[k] \in Frame /\ posn[level] \in 0 .. I64Max
  BY <1>2, <1>3
<1>5. Nests(posn, frame, level) /\ Within(posn, frame, level)
  BY <1>1, <1>3, OfLevel
<1>6. q \in 0 .. I64Max
  <2>1. q <= chain[level].vds
    BY <1>1, <1>5 DEF Within
  <2>2. chain[level].vds \in Nat /\ chain[level].vds <= I64Max
    BY <1>2, <1>3
  <2>3. t.want \in Nat
    BY <1>4 DEF Frame
  <2> QED BY <1>2, <1>4, <2>1, <2>2, <2>3
<1>7. frame[k].written + t.need <= frame[k].want
  <2>1. t.need <= frame[k].want - frame[k].written
    BY <1>5 DEF Nests, k
  <2> QED BY <1>4, <2>1 DEF Frame
<1> HIDE DEF t, q
<1>8. c \in Frame /\ c.written <= c.want /\ c.want = frame[k].want
      /\ c.need = frame[k].need /\ c.have = frame[k].have
  <2> DEFINE x == frame[k]
             w == x.written + t.need
  <2>1. x \in Frame /\ w \in Nat /\ w <= x.want
    BY <1>4, <1>7 DEF Frame
  <2> HIDE DEF x, w
  <2> SUFFICES LET y == [x EXCEPT !.written = w]
               IN  y \in Frame /\ y.written <= y.want /\ y.want = x.want
                   /\ y.need = x.need /\ y.have = x.have
    BY DEF x, w, c
  <2> QED BY <2>1 DEF Frame
<1>9. Idle \in Frame /\ Idle.written <= Idle.want
  BY DEF Idle, Frame
<1>10. frame' = [[frame EXCEPT ![level] = Idle] EXCEPT ![k] = c]
  <2> DEFINE mid == [frame EXCEPT ![level] = Idle]
  <2>1. mid[k] = frame[k]
    BY <1>2, <1>3
  <2>2. frame' = [mid EXCEPT ![k] = [mid[k] EXCEPT !.written = frame[k].written + t.need]]
    BY <1>1
  <2> QED BY <2>1, <2>2 DEF c
<1>11. /\ frame' \in [1 .. Len(chain) -> Frame] /\ frame'[k] = c /\ frame'[level] = Idle
       /\ \A l \in 1 .. Len(chain) : l # k /\ l # level => frame'[l] = frame[l]
  BY <1>2, <1>3, <1>8, <1>9, <1>10
<1>12. /\ posn' \in [1 .. Len(chain) -> 0 .. I64Max]
       /\ \A l \in 1 .. Len(chain) : l # level => posn'[l] = posn[l]
  BY <1>1, <1>2, <1>3, <1>6
<1>13. \A l \in 1 .. Len(chain) : frame'[l].written <= frame'[l].want
  <2>1. \A l \in 1 .. Len(chain) : frame[l].written <= frame[l].want
    BY <1>2 DEF ReaderInv, TypeOK
  <2> QED BY <1>8, <1>9, <1>11, <2>1
<1>14. TypeOK'
  <2>1. level' \in 0 .. Len(chain)
    BY <1>1, <1>3
  <2> QED BY <1>1, <1>2, <1>11, <1>12, <1>13, <2>1 DEF ReaderInv, TypeOK, Frame
<1> DEFINE p == posn'
           g == frame'
<1>15. \A l \in 1 .. k :
          /\ p[l] = posn[l] /\ g[l].want = frame[l].want
          /\ g[l].need = frame[l].need /\ g[l].have = frame[l].have
          /\ l # k => g[l].written = frame[l].written
  <2>1. \A l \in 1 .. k : l \in 1 .. Len(chain) /\ l # level
    BY <1>3 DEF k
  <2> QED BY <1>8, <1>11, <1>12, <2>1
<1>16. k \in 0 .. level
  BY <1>2, <1>3 DEF k
<1> HIDE DEF p, g
<1>17. \A l \in 1 .. k :
          /\ l > 1 => Nests(p, g, l) /\ LeftToParent(p, g, l)
          /\ Within(p, g, l)
  BY <1>15, <1>16, CallsBelow
<1>18. level' = k /\ level' \in Nat /\ chain' = chain
  BY <1>1, <1>3
<1> QED BY <1>14, <1>17, <1>18, ByLevel DEF p, g

LEMMA ReadOnStep == ReaderInv /\ ReadOn => ReaderInv'
<1> SUFFICES ASSUME ReaderInv, ReadOn PROVE ReaderInv'
  OBVIOUS
<1> DEFINE t == frame[level]
           q == posn[level] + t.want
           h == t.have + t.want
           m == ToRead(chain[level], q, t.need - h)
           f == [want |-> m, written |-> 0, need |-> t.need, have |-> h]
<1>1. /\ level > 1 /\ t.want > 0 /\ h < t.need
      /\ posn' = [posn EXCEPT ![level] = q]
      /\ frame' = [frame EXCEPT ![level] = f]
      /\ UNCHANGED <<chain, level, buf, reply, faults>>
  BY DEF ReadOn, Done, Top, Img
<1>2. /\ Len(chain) \in Nat \ {0} /\ DOMAIN chain = 1 .. Len(chain) /\ I64Max \in Nat
      /\ level \in 0 .. Len(chain)
      /\ posn \in [1 .. Len(chain) -> 0 .. I64Max] /\ frame \in [1 .. Len(chain) -> Frame]
      /\ \A l \in 1 .. Len(chain) : chain[l].vds \in Nat /\ chain[l].vds <= I64Max
  BY ChainIs DEF ReaderInv
<1>3. level \in 1 .. Len(chain) /\ level \in 1 .. level /\ level - 1 \in 1 .. Len(chain)
      /\ level - 1 # level /\ level - 1 \in 0 .. level
  BY <1>1, <1>2
<1>4. t \in Frame /\ posn[level] \in 0 .. I64Max
  BY <1>2, <1>3
<1>5. Nests(posn, frame, level) /\ LeftToParent(posn, frame, level) /\ Within(posn, frame, level)
  BY <1>1, <1>3, OfLevel
<1>6. q \in 0 .. I64Max
  <2>1. q <= chain[level].vds
    BY <1>1, <1>5 DEF Within
  <2>2. chain[level].vds \in Nat /\ chain[level].vds <= I64Max
    BY <1>2, <1>3
  <2>3. t.want \in Nat
    BY <1>4 DEF Frame
  <2> QED BY <1>2, <1>4, <2>1, <2>2, <2>3
<1>7. h \in Nat /\ t.need \in Nat /\ t.need - h \in Nat
      /\ q - h = posn[level] - t.have
  BY <1>1, <1>4 DEF Frame
<1>8. t.need <= frame[level - 1].want - frame[level - 1].written
  BY <1>5 DEF Nests
<1> HIDE DEF t, q, h
<1>9. m \in Nat /\ m <= t.need - h /\ (m > 0 => q + m <= chain[level].vds)
  <2> DEFINE r == t.need - h
             img == chain[level]
  <2>1. q \in Nat /\ r \in Nat /\ img.vds \in Nat
    BY <1>2, <1>3, <1>6, <1>7
  <2> HIDE DEF r, img
  <2>2. /\ ToRead(img, q, r) \in Nat /\ ToRead(img, q, r) <= r
        /\ ToRead(img, q, r) > 0 => q + ToRead(img, q, r) <= img.vds
    BY <2>1, ToReadIs
  <2> QED BY <2>2 DEF r, img
<1> HIDE DEF m
<1>10. f \in Frame /\ f.want = m /\ f.written = 0 /\ f.need = t.need /\ f.have = h
  BY <1>7, <1>9 DEF Frame
<1> HIDE DEF f
<1>11. /\ frame' \in [1 .. Len(chain) -> Frame] /\ frame'[level] = f
       /\ posn' \in [1 .. Len(chain) -> 0 .. I64Max] /\ posn'[level] = q
       /\ \A l \in 1 .. Len(chain) : l # level => frame'[l] = frame[l] /\ posn'[l] = posn[l]
  BY <1>1, <1>2, <1>3, <1>6, <1>10
<1>12. \A l \in 1 .. Len(chain) : frame'[l].written <= frame'[l].want
  <2>1. \A l \in 1 .. Len(chain) : frame[l].written <= frame[l].want
    BY <1>2 DEF ReaderInv, TypeOK
  <2>2. f.written <= f.want
    BY <1>9, <1>10
  <2> QED BY <1>11, <2>1, <2>2
<1>13. TypeOK'
  BY <1>1, <1>2, <1>11, <1>12 DEF ReaderInv, TypeOK, Frame
<1> DEFINE p == posn'
           g == frame'
           k == level - 1
<1>14. /\ \A l \in 1 .. k : p[l] = posn[l] /\ g[l] = frame[l]
       /\ p[level] = q /\ g[level] = f /\ p[k] = posn[k] /\ g[k] = frame[k]
  <2>1. \A l \in 1 .. k : l \in 1 .. Len(chain) /\ l # level
    BY <1>2, <1>3
  <2> QED BY <1>3, <1>11, <2>1
<1> HIDE DEF p, g
<1>15. \A l \in 1 .. k :
          /\ l > 1 => Nests(p, g, l) /\ LeftToParent(p, g, l)
          /\ Within(p, g, l)
  <2> HIDE DEF k
  <2>1. k \in 0 .. level
    BY <1>3 DEF k
  <2> QED BY <1>14, <2>1, CallsBelow
<1>16. Nests(p, g, level)
  <2>1. posn[level] - t.have = posn[k] + frame[k].written
    BY <1>5 DEF Nests, t
  <2>2. h + m <= t.need
    BY <1>7, <1>9
  <2> QED BY <1>7, <1>8, <1>10, <1>14, <2>1, <2>2 DEF Nests
<1>17. LeftToParent(p, g, level)
  <2>1. p[level] - g[level].have = posn[level] - t.have /\ g[level].need = t.need
    BY <1>7, <1>10, <1>14
  <2> QED BY <1>5, <2>1 DEF LeftToParent, t
<1>18. Within(p, g, level)
  BY <1>9, <1>10, <1>14 DEF Within
<1>19. \A l \in 1 .. level' :
          /\ l > 1 => Nests(p, g, l) /\ LeftToParent(p, g, l)
          /\ Within(p, g, l)
  <2> SUFFICES ASSUME NEW l \in 1 .. level
               PROVE  /\ l > 1 => Nests(p, g, l) /\ LeftToParent(p, g, l)
                      /\ Within(p, g, l)
    BY <1>1
  <2>1. l = level \/ l \in 1 .. k
    BY <1>2, <1>3
  <2> QED BY <1>15, <1>16, <1>17, <1>18, <2>1
<1>20. level' \in Nat /\ chain' = chain
  BY <1>1, <1>2
<1> QED BY <1>13, <1>19, <1>20, ByLevel DEF p, g

LEMMA ReturnToClientStep == ReaderInv /\ ReturnToClient => ReaderInv'
<1> SUFFICES ASSUME ReaderInv, ReturnToClient PROVE ReaderInv'
  OBVIOUS
<1> DEFINE t == frame[1]
           q == posn[1] + t.want
           bytes == [k \in 1 .. t.want |-> buf[posn[1] + k - 1]]
<1>1. /\ level = 1 /\ level' = 0 /\ buf' = <<>>
      /\ reply' = Ok(t.want, bytes)
      /\ posn' = [posn EXCEPT ![1] = q] /\ frame' = [frame EXCEPT ![1] = Idle]
      /\ UNCHANGED <<chain, faults>>
  BY DEF ReturnToClient, Top
<1> HIDE DEF bytes
<1>2. /\ Len(chain) \in Nat \ {0} /\ DOMAIN chain = 1 .. Len(chain) /\ I64Max \in Nat
      /\ posn \in [1 .. Len(chain) -> 0 .. I64Max] /\ frame \in [1 .. Len(chain) -> Frame]
      /\ \A l \in 1 .. Len(chain) : chain[l].vds \in Nat /\ chain[l].vds <= I64Max
  BY ChainIs DEF ReaderInv
<1>3. t \in Frame /\ posn[1] \in 0 .. I64Max
      /\ chain[1].vds \in Nat /\ chain[1].vds <= I64Max
  BY <1>2
<1>4. Within(posn, frame, 1)
  BY <1>1, OfLevel
<1>5. q \in 0 .. I64Max
  <2>1. t.want \in Nat
    BY <1>3 DEF Frame
  <2>2. CASE t.want = 0
    BY <1>3, <2>2
  <2>3. CASE t.want > 0
    BY <1>2, <1>3, <1>4, <2>1, <2>3 DEF Within
  <2> QED BY <2>1, <2>2, <2>3
<1>6. t.want \in Nat
  BY <1>3 DEF Frame
<1> HIDE DEF t, q
<1>7. posn' \in [1 .. Len(chain) -> 0 .. I64Max]
  BY <1>1, <1>2, <1>5
<1>8. /\ frame' \in [1 .. Len(chain) -> Frame]
      /\ \A l \in 1 .. Len(chain) : frame'[l].written <= frame'[l].want
  <2>1. Idle \in Frame /\ Idle.written <= Idle.want
    BY DEF Idle, Frame
  <2>2. \A l \in 1 .. Len(chain) : frame[l].written <= frame[l].want
    BY <1>2 DEF ReaderInv, TypeOK
  <2> QED BY <1>1, <1>2, <2>1, <2>2
<1>9. reply'.ok \in BOOLEAN /\ reply'.n \in Nat
  BY <1>1, <1>6 DEF Ok
<1>10. TypeOK'
  <2>1. level' \in 0 .. Len(chain)
    BY <1>1, <1>2
  <2> QED BY <1>1, <1>2, <1>7, <1>8, <1>9, <2>1 DEF ReaderInv, TypeOK, Frame
<1> QED BY <1>1, <1>10, NoneRuns

LEMMA ReaderInvStep == ReaderInv /\ [Next]_vars => ReaderInv'
<1> SUFFICES ASSUME ReaderInv, [Next]_vars PROVE ReaderInv'
  OBVIOUS
<1>1. ASSUME NEW n \in ReadLen, StartRead(n) PROVE ReaderInv'
  BY <1>1, StartReadStep, ReaderAssumption
<1>2. ASSUME NEW d \in Offset, SeekStart(d) \/ SeekCurrent(d) \/ SeekEnd(d)
      PROVE  ReaderInv'
  <2>1. d \in Int /\ posn[1] \in Int /\ chain[1].vds \in Int
    <3>1. 1 \in 1 .. Len(chain)
      BY ChainIs DEF ReaderInv
    <3> QED BY <3>1, ChainIs, ReaderAssumption DEF ReaderInv
  <2>2. PICK w \in Int : SeekTo(AsI64(w))
    <3>1. AsI64(posn[1]) + d \in Int /\ AsI64(chain[1].vds) + d \in Int
      BY <2>1, AsI64Is
    <3> QED BY <1>2, <2>1, <3>1 DEF SeekStart, SeekCurrent, SeekEnd
  <2>3. AsI64(w) \in Int /\ AsI64(w) <= I64Max
    BY AsI64Is
  <2> QED BY <2>2, <2>3, SeekStep
<1>3. ASSUME ReadNext PROVE ReaderInv'
  <2>1. CASE ReadFileChunk
    BY <2>1, FillStep DEF ReadFileChunk
  <2>2. CASE FillZeros
    BY <2>2, FillStep DEF FillZeros
  <2>3. CASE AskParent
    BY <2>3, AskParentStep
  <2>4. CASE FailChunk \/ ParentTooShort
    BY <2>4, ErrorStep
  <2>5. CASE MediumFault
    BY <2>5, MediumFaultStep
  <2>6. CASE Interrupted
    BY <2>6, InterruptedStep
  <2>7. CASE ReturnToChild
    BY <2>7, ReturnToChildStep
  <2>8. CASE ReadOn
    BY <2>8, ReadOnStep
  <2>9. CASE ReturnToClient
    BY <2>9, ReturnToClientStep
  <2> QED
    BY <1>3, <2>1, <2>2, <2>3, <2>4, <2>5, <2>6, <2>7, <2>8, <2>9 DEF ReadNext
<1>4. CASE UNCHANGED vars
  BY <1>4 DEF vars, call, ReaderInv, TypeOK, CallsNest, ParentOnlyForAbsent, WithinDisk,
              HasEntry, EntryAt, Owned, BitmapByte, ContainerByte
<1> QED BY <1>1, <1>2, <1>3, <1>4 DEF Next

LEMMA ReaderInvAlways == Spec => []ReaderInv
BY ReaderInvInit, ReaderInvStep, PTL DEF Spec

\* The reader's state is as declared: positions are those an i64 holds, and no read
\* has written more than it wants or fills bytes past the end of the disk
\* (reader.rs:244-246, 336-351).
THEOREM ReaderTypes == Spec => []TypeOK
BY ReaderInvAlways, PTL DEF ReaderInv

\* A parent is read at its child's address and never past what the child asked for,
\* for every chain of images and however often its reads are cut or interrupted
\* (reader.rs:324-334).
THEOREM ReadsNest == Spec => []CallsNest
BY ReaderInvAlways, PTL DEF ReaderInv

\* A parent is asked for no byte that its child describes, whatever the tables and
\* the bitmaps of the chain say (bat.rs:82-84, reader.rs:266-280).
THEOREM ParentsFillAbsentSectors == Spec => []ParentOnlyForAbsent
BY ReaderInvAlways, PTL DEF ReaderInv

LEMMA BitIsOwn == ReaderInv => BitIsTheSectors
<1> DEFINE bitmap(v) == BitmapIndex(Img, BlockOf(Img, v))
           byte(v) == BitmapByteOffset(Img, v) - EntryAt(Img, bitmap(v)).mib * Mib
           others == {s * Img.sectorSize : s \in 0 .. (Img.vds \div Img.sectorSize) - 1}
<1> SUFFICES ASSUME ReaderInv, Running, HasEntry(Img, bitmap(V))
             PROVE  /\ byte(V) * BitsPerByte + BitmapBit(Img, V)
                          = (V \div Img.sectorSize) % SectorsPerBitmap
                    /\ \A u \in others :
                          bitmap(u) = bitmap(V) /\ byte(u) = byte(V)
                             => BlockOf(Img, u) = BlockOf(Img, V)
  BY DEF BitIsTheSectors
<1> DEFINE img == Img
           v == V
           place == EntryAt(img, bitmap(v)).mib * Mib
<1>1. ValidGeometry(img) /\ v \in Nat
  BY AtChunk
<1>2. place \in Int
  <2> DEFINE i == bitmap(v)
             bat == img.bat
  <2>1. i \in Nat
    <3>1. BlockOf(img, v) \div ChunkRatio(img) \in Nat /\ ChunkRatio(img) \in Nat
      BY <1>1, BlockIs, Proportions
    <3> QED BY <3>1 DEF BitmapIndex
  <2>2. bat \in Seq(Entry)
    <3>1. level \in 1 .. Len(chain)
      BY AtChunk
    <3> QED BY <3>1, ChainIs DEF ReaderInv, Img
  <2>3. i < Len(bat) /\ EntryAt(img, i) = bat[i + 1]
    BY DEF HasEntry, EntryAt
  <2> HIDE DEF i, bat
  <2>4. EntryAt(img, i) \in Entry
    BY <2>1, <2>2, <2>3
  <2>5. EntryAt(img, i).mib \in Nat
    BY <2>4 DEF Entry
  <2> QED BY <2>5, BatAssumption DEF i
<1> DEFINE At(u) == SectorInChunk(img, u) \div BitsPerByte
<1>3. ASSUME NEW u \in Nat, bitmap(u) = bitmap(v)
      PROVE  byte(u) = At(u) /\ SectorInChunk(img, u) \in Nat /\ At(u) \in Nat
  <2> DEFINE x == SectorInChunk(img, u)
             n == x \div BitsPerByte
  <2>1. x \in Nat
    BY <1>1, SectorNumber
  <2> HIDE DEF x
  <2>2. n \in Nat
    BY <2>1, BatAssumption, DivMod
  <2>3. BitmapByteOffset(img, u) = place + n
    BY <1>3 DEF BitmapByteOffset, x
  <2> HIDE DEF n, place
  <2>4. BitmapByteOffset(img, u) - place = n
    BY <1>2, <2>2, <2>3
  <2> QED BY <1>3, <2>1, <2>2, <2>4 DEF place, n, x
<1>4. byte(v) * BitsPerByte + BitmapBit(img, v) = (v \div img.sectorSize) % SectorsPerBitmap
  <2> DEFINE x == SectorInChunk(img, v)
  <2>1. byte(v) = x \div BitsPerByte /\ x \in Nat
    BY <1>1, <1>3
  <2>2. x = (v \div img.sectorSize) % SectorsPerBitmap
    BY <1>1, SectorNumber
  <2>3. BitmapBit(img, v) = x % BitsPerByte
    BY DEF BitmapBit
  <2> HIDE DEF x, byte
  <2> DEFINE h == x \div BitsPerByte
             l == x % BitsPerByte
  <2>4. h \in Nat /\ l \in Nat /\ x = BitsPerByte * h + l
    BY <2>1, BatAssumption, DivMod
  <2> HIDE DEF h, l
  <2>5. x = h * BitsPerByte + l
    BY <2>4, BatAssumption
  <2> QED BY <2>1, <2>2, <2>3, <2>5 DEF h, l
<1>5. ASSUME NEW u \in others, bitmap(u) = bitmap(v), byte(u) = byte(v)
      PROVE  BlockOf(img, u) = BlockOf(img, v)
  <2>1. u \in Nat
    <3>1. img.sectorSize \in Nat
      BY <1>1 DEF ValidGeometry
    <3>2. PICK s \in Nat : u = s * img.sectorSize
      OBVIOUS
    <3> QED BY <3>1, <3>2
  <2>2. byte(u) = At(u) /\ byte(v) = At(v)
    BY <1>1, <1>3, <1>5, <2>1
  <2>3. At(u) = At(v)
    BY <1>5, <2>2
  <2> QED BY <1>1, <1>5, <2>1, <2>3, ByteInBlock
<1> QED BY <1>4, <1>5

\* The bit that is tested is the sector's own, and a run of a bitmap byte stays in its
\* block, for all sizes of block and sector that a valid image may have
\* (bat.rs:121-133, reader.rs:271-276).
THEOREM BitsAreOwn == Spec => []BitIsTheSectors
BY ReaderInvAlways, BitIsOwn, PTL

-----------------------------------------------------------------------------
(* The reader and the disk it presents (module VirtualDisk).               *)

\* The reader finds a byte with the table and the bitmaps that VirtualDisk
\* states the contents of the disk with.
LEMMA DiskIs ==
    ASSUME NEW img, NEW v
    PROVE  /\ Disk!ReadTarget(img, v) = ReadTarget(img, v)
           /\ Disk!FileOffset(img, v) = FileOffset(img, v)
           /\ Disk!BitmapByteOffset(img, v) = BitmapByteOffset(img, v)
           /\ Disk!BitmapBit(img, v) = BitmapBit(img, v)
<1>1. Disk!FileOffset(img, v) = FileOffset(img, v)
  BY DEF FileOffset, EntryAt, BatIndex, BlockOf, ChunkRatio,
         Disk!FileOffset, Disk!EntryAt, Disk!BatIndex, Disk!BlockOf, Disk!ChunkRatio
<1>2. /\ Disk!BitmapByteOffset(img, v) = BitmapByteOffset(img, v)
      /\ Disk!BitmapBit(img, v) = BitmapBit(img, v)
  BY DEF BitmapByteOffset, BitmapBit, SectorInChunk, EntryAt, BitmapIndex, BlockOf, ChunkRatio,
         Disk!BitmapByteOffset, Disk!BitmapBit, Disk!SectorInChunk, Disk!EntryAt,
         Disk!BitmapIndex, Disk!BlockOf, Disk!ChunkRatio
<1>3. Disk!ReadTarget(img, v) = ReadTarget(img, v)
  BY DEF ReadTarget, HasEntry, EntryAt, BatIndex, BitmapIndex, BlockOf, ChunkRatio,
         NotPresent, Undefined, Zero, Unmapped, FullyPresent, PartiallyPresent, BitmapPresent,
         Disk!ReadTarget, Disk!HasEntry, Disk!EntryAt, Disk!BatIndex, Disk!BitmapIndex,
         Disk!BlockOf, Disk!ChunkRatio, Disk!NotPresent, Disk!Undefined, Disk!Zero,
         Disk!Unmapped, Disk!FullyPresent, Disk!PartiallyPresent, Disk!BitmapPresent
<1> QED BY <1>1, <1>2, <1>3

LEMMA Targets ==
    ASSUME NEW img, NEW v
    PROVE  ReadTarget(img, v) \in {"error", "parent", "zero", "file", "partial"}
BY DEF ReadTarget

\* Where the reader takes a byte from, and what the disk says of the image.
LEMMA SourceIs ==
    ASSUME NEW img, NEW v
    PROVE  /\ Source(img, v) \in {"error", "parent", "zero", "file"}
           /\ Source(img, v) = "parent" <=> Disk!Defers(img, v)
           /\ Source(img, v) = "error" <=> ~Disk!Described(img, v)
           /\ Source(img, v) = "zero" <=> ReadTarget(img, v) = "zero"
<1>1. Disk!InContainer(img, BitmapByteOffset(img, v), 1)
         = InContainer(img, BitmapByteOffset(img, v), 1)
  BY DEF InContainer, Disk!InContainer
<1>2. Disk!BitSet(Disk!ContainerByte(img, BitmapByteOffset(img, v)), BitmapBit(img, v))
         = Owned(img, v)
  BY DEF Owned, BitmapByte, BitSet, ContainerByte, Disk!BitSet, Disk!ContainerByte
<1>3. Disk!Described(img, v) <=>
         /\ ReadTarget(img, v) # "error"
         /\ ReadTarget(img, v) = "partial" => InContainer(img, BitmapByteOffset(img, v), 1)
  BY <1>1, DiskIs DEF Disk!Described
<1>4. Disk!Defers(img, v) <=>
         /\ Disk!Described(img, v)
         /\ \/ ReadTarget(img, v) = "parent"
            \/ ReadTarget(img, v) = "partial" /\ ~Owned(img, v)
  BY <1>2, DiskIs DEF Disk!Defers
<1> QED BY <1>3, <1>4, Targets DEF Source

\* The owner of a byte is the first image of the chain that does not defer.
LEMMA OwnerIs ==
    ASSUME NEW c, Len(c) \in Nat, DOMAIN c = 1 .. Len(c), NEW v, NEW n \in 1 .. Len(c),
           \A k \in 1 .. n - 1 : Disk!Defers(c[k], v)
    PROVE  /\ ~Disk!Defers(c[n], v) => Disk!Owner(c, v) = n
           /\ n = Len(c) /\ Disk!Defers(c[n], v) => Disk!Owner(c, v) = Len(c) + 1
<1> DEFINE keeps == {i \in DOMAIN c : ~Disk!Defers(c[i], v)}
<1>1. ASSUME ~Disk!Defers(c[n], v) PROVE Disk!Owner(c, v) = n
  <2>1. n \in keeps
    BY <1>1
  <2>2. \A j \in keeps : n <= j /\ j \in Nat
    <3> SUFFICES ASSUME NEW j \in keeps PROVE n <= j /\ j \in Nat
      OBVIOUS
    <3>1. j \in 1 .. Len(c) /\ ~Disk!Defers(c[j], v)
      OBVIOUS
    <3>2. j \notin 1 .. n - 1
      BY <3>1
    <3> QED BY <3>1, <3>2
  <2>3. \A i \in keeps : (\A j \in keeps : i <= j) => i = n
    BY <2>1, <2>2
  <2>4. keeps # {}
    BY <2>1
  <2>5. Disk!Owner(c, v) = CHOOSE i \in keeps : \A j \in keeps : i <= j
    BY <2>4 DEF Disk!Owner
  <2> HIDE DEF keeps
  <2>6. (CHOOSE i \in keeps : \A j \in keeps : i <= j) = n
    BY <2>1, <2>2, <2>3
  <2> QED BY <2>5, <2>6
<1>2. ASSUME n = Len(c), Disk!Defers(c[n], v) PROVE Disk!Owner(c, v) = Len(c) + 1
  <2>0. n = Len(c)
    BY <1>2
  <2>1. \A i \in DOMAIN c : Disk!Defers(c[i], v)
    <3> SUFFICES ASSUME NEW i \in 1 .. Len(c) PROVE Disk!Defers(c[i], v)
      OBVIOUS
    <3>1. i \in Nat /\ 1 <= i /\ i <= n /\ n \in Nat
      BY <2>0
    <3>2. i = n \/ i \in 1 .. n - 1
      BY <3>1
    <3> QED BY <1>2, <3>2
  <2>2. keeps = {}
    BY <2>1
  <2> QED BY <2>2 DEF Disk!Owner
<1> QED BY <1>1, <1>2

\* The byte of the disk, when the images before the n-th leave it to their parents.
LEMMA BytesAre ==
    ASSUME NEW c, Len(c) \in Nat, DOMAIN c = 1 .. Len(c), NEW v, NEW n \in 1 .. Len(c),
           \A k \in 1 .. n - 1 : Source(c[k], v) = "parent"
    PROVE  /\ Source(c[n], v) = "error" => ~Disk!Readable(c, v)
           /\ Source(c[n], v) = "zero" \/ (Source(c[n], v) = "parent" /\ n = Len(c))
                 => Disk!Readable(c, v) /\ Disk!ByteAt(c, v) = 0
           /\ Source(c[n], v) = "file" =>
                 /\ Disk!Readable(c, v) <=> InContainer(c[n], FileOffset(c[n], v), 1)
                 /\ Disk!ByteAt(c, v) = ContainerByte(c[n], FileOffset(c[n], v))
<1>1. \A k \in 1 .. n - 1 : Disk!Defers(c[k], v)
  BY SourceIs
<1>2. ASSUME Source(c[n], v) = "parent", n = Len(c)
      PROVE  Disk!Readable(c, v) /\ Disk!ByteAt(c, v) = 0
  <2>1. Disk!Defers(c[n], v)
    BY <1>2, SourceIs
  <2>2. Disk!Owner(c, v) = Len(c) + 1
    BY <1>1, <1>2, <2>1, OwnerIs
  <2>3. Disk!Owner(c, v) > Len(c) /\ ~(Disk!Owner(c, v) <= Len(c))
    BY <2>2
  <2> QED BY <2>3 DEF Disk!Readable, Disk!ByteAt
<1>3. ASSUME Source(c[n], v) # "parent"
      PROVE  /\ Disk!Readable(c, v) <=>
                   /\ Source(c[n], v) # "error"
                   /\ Source(c[n], v) # "zero" =>
                          InContainer(c[n], FileOffset(c[n], v), 1)
             /\ Disk!ByteAt(c, v) = IF Source(c[n], v) = "zero" THEN 0
                                    ELSE ContainerByte(c[n], FileOffset(c[n], v))
  <2>1. Disk!Owner(c, v) = n
    BY <1>1, <1>3, SourceIs, OwnerIs
  <2>2. n <= Len(c) /\ ~(n > Len(c))
    OBVIOUS
  <2>3. Disk!InContainer(c[n], FileOffset(c[n], v), 1)
           = InContainer(c[n], FileOffset(c[n], v), 1)
    BY DEF InContainer, Disk!InContainer
  <2>4. Disk!ContainerByte(c[n], FileOffset(c[n], v))
           = ContainerByte(c[n], FileOffset(c[n], v))
    BY DEF ContainerByte, Disk!ContainerByte
  <2>5. Disk!Readable(c, v) <=>
           /\ Disk!Described(c[n], v)
           /\ ReadTarget(c[n], v) # "zero" => InContainer(c[n], FileOffset(c[n], v), 1)
    BY <2>1, <2>2, <2>3, DiskIs DEF Disk!Readable
  <2>6. Disk!ByteAt(c, v) = IF ReadTarget(c[n], v) = "zero" THEN 0
                            ELSE ContainerByte(c[n], FileOffset(c[n], v))
    BY <2>1, <2>2, <2>4, DiskIs DEF Disk!ByteAt
  <2> QED BY <2>5, <2>6, SourceIs
<1> QED BY <1>2, <1>3

\* All the bytes of a chunk come from one place, in the order of their addresses.
LEMMA ChunkUniform ==
    ASSUME ReaderInv, Running, NEW u \in Addresses
    PROVE  /\ u \in Nat
           /\ Source(Img, u) = Source(Img, V)
           /\ Source(Img, V) = "file" =>
                 /\ FileOffset(Img, V) \in Nat
                 /\ FileOffset(Img, u) = FileOffset(Img, V) + (u - V)
<1> DEFINE img == Img
           v == V
           bs == img.blockSize
           b == BlockOf(img, v)
<1>1. /\ ValidGeometry(img) /\ v \in Nat /\ v < img.vds /\ u \in Nat /\ v <= u
      /\ u < v + Chunk /\ v + Chunk <= BlockEnd(img, v) /\ Chunk \in Nat
      /\ ReadTarget(img, v) = "partial" => v + Chunk <= RunEnd(img, v)
  BY AtChunk DEF Addresses
<1>2. u < img.vds /\ img.bat \in Seq(Entry) /\ img.vds \in Nat
  <2>1. level \in 1 .. Len(chain) /\ Top.written + Chunk <= Top.want /\ v = posn[level] + Top.written
        /\ Top \in Frame
    BY AtChunk
  <2>2. img.vds \in Nat /\ img.bat \in Seq(Entry) /\ posn[level] \in Nat
    BY <2>1, ChainIs DEF ReaderInv, Img
  <2>3. Top.want > 0
    BY <1>1, <2>1 DEF Running, Frame
  <2>4. posn[level] + Top.want <= img.vds
    BY <2>1, <2>3 DEF ReaderInv, WithinDisk, Top, Img
  <2>5. Top.written \in Nat /\ Top.want \in Nat
    BY <2>1 DEF Frame
  <2> HIDE DEF img, v
  <2>6. u < posn[level] + Top.want
    BY <1>1, <2>1, <2>2, <2>5
  <2> QED BY <1>1, <2>2, <2>4, <2>5, <2>6
<1>3. BlockEnd(img, v) \in Nat
  BY <1>1, BlockEndIs
<1> HIDE DEF img, v
<1>4. u < BlockEnd(img, v)
  BY <1>1, <1>3
<1>5. BlockOf(img, u) = b
  BY <1>1, <1>4, InBlock
<1>6. ReadTarget(img, u) = ReadTarget(img, v)
  BY <1>1, <1>2, <1>5 DEF ReadTarget
<1>7. ASSUME Source(img, v) = "file"
      PROVE  FileOffset(img, v) \in Nat /\ FileOffset(img, u) = FileOffset(img, v) + (u - v)
  <2>1. bs \in Nat \ {0}
    BY <1>1 DEF ValidGeometry
  <2>2. u = bs * b + (u % bs) /\ v = bs * b + (v % bs) /\ u % bs \in Nat /\ v % bs \in Nat
    <3> HIDE DEF bs
    <3>1. u = bs * (u \div bs) + (u % bs) /\ u % bs \in 0 .. bs - 1
      BY <1>1, <2>1, DivMod
    <3>2. v = bs * (v \div bs) + (v % bs) /\ v % bs \in 0 .. bs - 1
      BY <1>1, <2>1, DivMod
    <3>3. u \div bs = b /\ v \div bs = b
      BY <1>5 DEF BlockOf, bs
    <3> QED BY <3>1, <3>2, <3>3
  <2>3. u % bs = (v % bs) + (u - v)
    <3>1. b \in Nat
      BY <1>1, BlockIs
    <3> HIDE DEF bs, b
    <3>2. bs * b \in Nat
      BY <2>1, <3>1
    <3> QED BY <1>1, <2>2, <3>2
  <2> DEFINE m == EntryAt(img, BatIndex(img, b)).mib * Mib
  <2>4. FileOffset(img, u) = m + (u % bs) /\ FileOffset(img, v) = m + (v % bs)
    BY <1>5 DEF FileOffset
  <2>5. m \in Nat
    <3>1. BatIndex(img, b) \in Nat
      BY <1>1, BlockIs, DivMod DEF BatIndex
    <3>2. HasEntry(img, BatIndex(img, b))
      BY <1>1, <1>2, <1>7, Targets DEF ReadTarget, Source
    <3> DEFINE i == BatIndex(img, b) + 1
    <3>3. i \in 1 .. Len(img.bat)
      BY <1>2, <3>1, <3>2 DEF HasEntry
    <3>4. img.bat[i] \in Entry
      <4> HIDE DEF i
      <4> QED BY <1>2, <3>3
    <3>5. EntryAt(img, BatIndex(img, b)).mib \in Nat
      BY <3>4 DEF EntryAt, Entry
    <3> HIDE DEF b, i
    <3> QED BY <3>5, BatAssumption
  <2> HIDE DEF m, bs
  <2> QED BY <1>1, <2>2, <2>3, <2>4, <2>5
<1>8. Source(img, u) = Source(img, v)
  <2>1. CASE ReadTarget(img, v) # "partial"
    BY <1>6, <2>1 DEF Source
  <2>2. CASE ReadTarget(img, v) = "partial"
    <3>1. RunEnd(img, v) \in Nat
      BY <1>1, RunEndIs
    <3>2. u < RunEnd(img, v)
      BY <1>1, <2>2, <3>1
    <3>3. Owned(img, u) = Owned(img, v) /\ BitmapByteOffset(img, u) = BitmapByteOffset(img, v)
      BY <1>1, <1>4, <3>2, InRun
    <3> QED BY <1>6, <3>3 DEF Source
  <2> QED BY <2>1, <2>2
<1>9. Source(img, v) = "file" =>
         FileOffset(img, v) \in Nat /\ FileOffset(img, u) = FileOffset(img, v) + (u - v)
  BY <1>7
<1> QED BY <1>1, <1>8, <1>9 DEF img, v

\* The addresses the child of level l asked for.
Asked(p, f, l) == p[l] - f[l].have .. p[l] - f[l].have + f[l].need - 1

Asks(p, f, l) ==
    /\ f[l].have < f[l].need
    /\ f[l].want = ToRead(chain[l], p[l], f[l].need - f[l].have)
    /\ p[1] <= p[l] - f[l].have
    /\ p[l] - f[l].have + f[l].need <= p[1] + f[1].want
    /\ \A k \in 1 .. l - 1 : \A v \in Asked(p, f, l) : Source(chain[k], v) = "parent"

Right(b, v) == Disk!Readable(chain, v) /\ b[v] = Disk!ByteAt(chain, v)

\* The client's buffer covers what its read is to deliver, and up to where the
\* reads of the chain have come it holds the bytes of the disk.
BufferIsDisk ==
    level > 0 =>
        /\ \E n \in ReadLen : frame[1].want = ToRead(chain[1], posn[1], n)
        /\ DOMAIN buf = posn[1] .. posn[1] + frame[1].want - 1
        /\ \A v \in Nat : posn[1] <= v /\ v < posn[level] + frame[level].written
                          => Right(buf, v)

\* Every parent is asked for bytes that all the images before it defer, of those the
\* client asked for, and wants the rest of them, cut at its own end.
ParentsAsked == \A l \in 2 .. level : Asks(posn, frame, l)

DiskInv == ReaderInv /\ BufferIsDisk /\ ParentsAsked

\* What is known while a read runs.
LEMMA AtLevel ==
    ASSUME ReaderInv, level > 0
    PROVE  /\ level \in 1 .. Len(chain) /\ Len(chain) \in Nat /\ DOMAIN chain = 1 .. Len(chain)
           /\ \A l \in 1 .. Len(chain) :
                /\ posn[l] \in Nat /\ frame[l] \in Frame
                /\ frame[l].want \in Nat /\ frame[l].written \in Nat
                /\ frame[l].need \in Nat /\ frame[l].have \in Nat
                /\ frame[l].written <= frame[l].want
                /\ ValidGeometry(chain[l]) /\ chain[l].vds \in Nat
           /\ posn \in [1 .. Len(chain) -> Nat] /\ frame \in [1 .. Len(chain) -> Frame]
           /\ level > 1 => Nests(posn, frame, level)
<1>1. /\ level \in 1 .. Len(chain) /\ Len(chain) \in Nat /\ DOMAIN chain = 1 .. Len(chain)
      /\ posn \in [1 .. Len(chain) -> Nat] /\ frame \in [1 .. Len(chain) -> Frame]
  BY ChainIs DEF ReaderInv
<1>2. \A l \in 1 .. Len(chain) : ValidGeometry(chain[l]) /\ chain[l].vds \in Nat
  BY ChainIs DEF ReaderInv
<1>3. \A l \in 1 .. Len(chain) : frame[l].written <= frame[l].want
  BY <1>1 DEF ReaderInv, TypeOK
<1>4. \A l \in 1 .. Len(chain) :
        /\ frame[l].want \in Nat /\ frame[l].written \in Nat
        /\ frame[l].need \in Nat /\ frame[l].have \in Nat
  BY <1>1 DEF Frame
<1>5. level > 1 => Nests(posn, frame, level)
  BY <1>1, OfLevel
<1> QED BY <1>1, <1>2, <1>3, <1>4, <1>5

\* The bytes a read still has to deliver are left to it by every image before it,
\* and are bytes the client asked for.
LEMMA Reached ==
    ASSUME DiskInv, level > 0, NEW w \in Nat, posn[level] <= w,
           level = 1 => w < posn[1] + frame[1].want,
           level > 1 => w < posn[level] - frame[level].have + frame[level].need
    PROVE  /\ \A k \in 1 .. level - 1 : Source(chain[k], w) = "parent"
           /\ w \in posn[1] .. posn[1] + frame[1].want - 1
<1>1. level \in 1 .. Len(chain) /\ Len(chain) \in Nat
      /\ posn[1] \in Nat /\ frame[1].want \in Nat /\ posn[level] \in Nat
      /\ frame[level].have \in Nat /\ frame[level].need \in Nat
  BY AtLevel DEF DiskInv
<1>2. CASE level = 1
  BY <1>1, <1>2
<1>3. CASE level # 1
  <2>1. level > 1 /\ level \in 2 .. level
    BY <1>1, <1>3
  <2>2. Asks(posn, frame, level)
    BY <2>1 DEF DiskInv, ParentsAsked
  <2>3. w \in Asked(posn, frame, level)
    BY <1>1, <2>1 DEF Asked
  <2>4. \A k \in 1 .. level - 1 : Source(chain[k], w) = "parent"
    BY <2>2, <2>3 DEF Asks
  <2>5. posn[1] <= posn[level] - frame[level].have
        /\ posn[level] - frame[level].have + frame[level].need <= posn[1] + frame[1].want
    BY <2>2 DEF Asks
  <2>6. w \in posn[1] .. posn[1] + frame[1].want - 1
    <3> DEFINE a == posn[1]
               m == frame[1].want
               p == posn[level]
               h == frame[level].have
               n == frame[level].need
    <3>1. /\ a \in Nat /\ m \in Nat /\ p \in Nat /\ h \in Nat /\ n \in Nat
          /\ a <= p - h /\ p - h + n <= a + m /\ p <= w /\ w < p - h + n
      BY <1>1, <2>1, <2>5
    <3> SUFFICES w \in a .. a + m - 1
      OBVIOUS
    <3> HIDE DEF a, m, p, h, n
    <3> QED BY <3>1
  <2> QED BY <2>4, <2>6
<1> QED BY <1>2, <1>3

LEMMA ChunkReached ==
    ASSUME DiskInv, Running, NEW u \in Addresses
    PROVE  /\ u \in Nat /\ V \in Nat /\ V <= u
           /\ \A k \in 1 .. level - 1 : Source(chain[k], u) = "parent"
           /\ u \in posn[1] .. posn[1] + frame[1].want - 1
<1>1. ReaderInv /\ level > 0
  BY DEF DiskInv, Running
<1>2. /\ V \in Nat /\ V = posn[level] + frame[level].written /\ Chunk \in Nat
      /\ frame[level].written + Chunk <= frame[level].want
  BY <1>1, AtChunk DEF Top
<1>3. /\ level \in 1 .. Len(chain) /\ posn[level] \in Nat
      /\ frame[level].written \in Nat /\ frame[level].want \in Nat
      /\ frame[level].have \in Nat /\ frame[level].need \in Nat
  BY <1>1, AtLevel
<1>4. V <= u /\ u < V + Chunk /\ u \in Nat
  BY <1>2 DEF Addresses
<1>5. posn[level] <= u /\ u < posn[level] + frame[level].want
  <2> DEFINE v == V
             n == Chunk
             p == posn[level]
             t == frame[level].written
             m == frame[level].want
  <2>1. /\ v \in Nat /\ n \in Nat /\ p \in Nat /\ t \in Nat /\ m \in Nat
        /\ v = p + t /\ t + n <= m /\ v <= u /\ u < v + n
    BY <1>2, <1>3, <1>4
  <2> SUFFICES p <= u /\ u < p + m
    OBVIOUS
  <2> HIDE DEF v, n, p, t, m
  <2> QED BY <2>1, <1>4
<1>6. ASSUME level > 1 PROVE u < posn[level] - frame[level].have + frame[level].need
  <2>1. frame[level].have + frame[level].want <= frame[level].need
    BY <1>1, <1>6, AtLevel DEF Nests
  <2> QED BY <1>3, <1>4, <1>5, <2>1
<1> QED BY <1>1, <1>2, <1>4, <1>5, <1>6, Reached

\* What the levels below the top are asked for stays as it was.
LEMMA AskedStill ==
    ASSUME DiskInv, level > 0, level' \in 1 .. level, chain' = chain,
           \A l \in 1 .. level' :
              /\ posn'[l] = posn[l] /\ frame'[l].want = frame[l].want
              /\ frame'[l].need = frame[l].need /\ frame'[l].have = frame[l].have
    PROVE  ParentsAsked'
<1>1. level \in Nat /\ level' \in Nat
  <2>1. level \in 1 .. Len(chain) /\ Len(chain) \in Nat
    BY AtLevel DEF DiskInv
  <2> QED BY <2>1
<1> SUFFICES ASSUME NEW l \in 2 .. level' PROVE Asks(posn, frame, l)'
  BY DEF ParentsAsked
<1>2. l \in 2 .. level /\ l \in 1 .. level' /\ 1 \in 1 .. level'
  BY <1>1
<1>3. Asks(posn, frame, l)
  BY <1>2 DEF DiskInv, ParentsAsked
<1>4. /\ posn'[l] = posn[l] /\ frame'[l].want = frame[l].want
      /\ frame'[l].need = frame[l].need /\ frame'[l].have = frame[l].have
      /\ posn'[1] = posn[1] /\ frame'[1].want = frame[1].want
  BY <1>2
<1>5. Asked(posn', frame', l) = Asked(posn, frame, l)
  BY <1>4 DEF Asked
<1> QED BY <1>3, <1>4, <1>5 DEF Asks

LEMMA FillIsRight ==
    ASSUME DiskInv, Running, NEW bytes, Fill(bytes),
           \A u \in Addresses : Disk!Readable(chain, u) /\ bytes[u] = Disk!ByteAt(chain, u)
    PROVE  BufferIsDisk' /\ ParentsAsked'
<1>1. ReaderInv /\ level > 0
  BY DEF DiskInv, Running
<1>2. /\ frame' = [frame EXCEPT ![level].written = frame[level].written + Chunk]
      /\ UNCHANGED <<chain, posn, level>>
      /\ buf' = [v \in DOMAIN buf |-> IF v \in Addresses THEN bytes[v] ELSE buf[v]]
  BY DEF Fill
<1>3. /\ level \in 1 .. Len(chain) /\ Len(chain) \in Nat
      /\ frame \in [1 .. Len(chain) -> Frame]
      /\ posn[level] \in Nat /\ frame[level].written \in Nat /\ posn[1] \in Nat
      /\ frame[1].want \in Nat
  BY <1>1, AtLevel
<1>4. /\ V \in Nat /\ V = posn[level] + frame[level].written /\ Chunk \in Nat \ {0}
  BY <1>1, AtChunk DEF Top
<1>5. /\ frame'[level].written = frame[level].written + Chunk
      /\ \A l \in 1 .. Len(chain) :
           /\ frame'[l].want = frame[l].want
           /\ frame'[l].need = frame[l].need /\ frame'[l].have = frame[l].have
  <2> HIDE DEF Chunk
  <2> QED BY <1>2, <1>3 DEF Frame
<1>6. ParentsAsked'
  <2>1. level' \in 1 .. level /\ \A l \in 1 .. level' : l \in 1 .. Len(chain)
    BY <1>2, <1>3
  <2> QED BY <1>1, <1>2, <1>5, <2>1, AskedStill
<1>7. BufferIsDisk'
  <2>1. PICK n \in ReadLen : frame[1].want = ToRead(chain[1], posn[1], n)
    BY <1>1 DEF DiskInv, BufferIsDisk
  <2>2. frame'[1].want = frame[1].want
    BY <1>3, <1>5
  <2>3. DOMAIN buf = posn[1] .. posn[1] + frame[1].want - 1 /\ DOMAIN buf' = DOMAIN buf
    BY <1>1, <1>2 DEF DiskInv, BufferIsDisk
  <2>4. posn'[level'] + frame'[level'].written = V + Chunk
    <3> HIDE DEF V, Chunk
    <3> QED BY <1>2, <1>3, <1>4, <1>5
  <2>5. ASSUME NEW v \in Nat, posn[1] <= v, v < V + Chunk PROVE Right(buf', v)
    <3>1. v \in Nat
      OBVIOUS
    <3>2. CASE v \in Addresses
      <4>1. v \in DOMAIN buf
        BY <2>3, <3>2, ChunkReached
      <4> QED BY <1>2, <3>2, <4>1 DEF Right
    <3>3. CASE v \notin Addresses
      <4>1. v < V
        <5> HIDE DEF V, Chunk
        <5> QED BY <1>4, <2>5, <3>1, <3>3 DEF Addresses
      <4>2. v < posn[level] + frame[level].written
        BY <1>4, <4>1
      <4>3. Right(buf, v)
        BY <1>1, <2>5, <4>2 DEF DiskInv, BufferIsDisk
      <4>4. v \in DOMAIN buf
        <5>1. V \in Addresses
          <6> HIDE DEF V, Chunk
          <6> QED BY <1>4 DEF Addresses
        <5>2. V \in posn[1] .. posn[1] + frame[1].want - 1
          BY <5>1, ChunkReached
        <5> DEFINE w == V
        <5>3. w \in posn[1] .. posn[1] + frame[1].want - 1 /\ v < w /\ posn[1] <= v
          BY <2>5, <5>2, <4>1, <1>3, <1>4
        <5> HIDE DEF w
        <5> QED BY <1>3, <2>3, <3>1, <5>3
      <4> QED BY <1>2, <3>3, <4>3, <4>4 DEF Right
    <3> QED BY <3>2, <3>3
  <2>6. \A v \in Nat : posn'[1] <= v /\ v < posn'[level'] + frame'[level'].written
                       => Right(buf', v)
    BY <1>2, <2>4, <2>5
  <2> QED BY <1>2, <2>1, <2>2, <2>3, <2>6 DEF BufferIsDisk, Right
<1> QED BY <1>6, <1>7

LEMMA ReadFileIsRight ==
    ASSUME DiskInv, ReadFileChunk
    PROVE  BufferIsDisk' /\ ParentsAsked'
<1> DEFINE bytes == [v \in Addresses |-> ContainerByte(Img, FileOffset(Img, V) + (v - V))]
<1>1. /\ Running /\ Source(Img, V) = "file" /\ InContainer(Img, FileOffset(Img, V), Chunk)
      /\ Fill(bytes) /\ ReaderInv /\ level > 0
  BY DEF ReadFileChunk, DiskInv, Running
<1>2. ASSUME NEW u \in Addresses
      PROVE  Disk!Readable(chain, u) /\ bytes[u] = Disk!ByteAt(chain, u)
  <2>1. /\ u \in Nat /\ Source(Img, u) = "file" /\ FileOffset(Img, V) \in Nat
        /\ FileOffset(Img, u) = FileOffset(Img, V) + (u - V)
    BY <1>1, ChunkUniform
  <2>2. V \in Nat /\ Chunk \in Nat /\ u < V + Chunk /\ V <= u
    <3>1. V \in Nat /\ Chunk \in Nat
      BY <1>1, AtChunk
    <3> HIDE DEF V, Chunk
    <3> QED BY <3>1 DEF Addresses
  <2>3. level \in 1 .. Len(chain) /\ Len(chain) \in Nat /\ DOMAIN chain = 1 .. Len(chain)
    BY <1>1, AtLevel
  <2>4. \A k \in 1 .. level - 1 : Source(chain[k], u) = "parent"
    BY <1>1, ChunkReached
  <2>5. InContainer(Img, FileOffset(Img, u), 1)
    <3> DEFINE a == FileOffset(Img, V)
               b == FileOffset(Img, u)
               n == Chunk
               v == V
               len == Len(Img.container)
    <3>1. /\ a \in Nat /\ n \in Nat /\ v \in Nat /\ b = a + (u - v) /\ a + n <= len
          /\ u < v + n /\ v <= u
      BY <1>1, <2>1, <2>2 DEF InContainer
    <3>2. len \in Nat
      BY <2>3, ChainAssumption DEF DiskInv, ReaderInv, TypeOK, IsDisk, Img
    <3> SUFFICES b + 1 <= len
      BY DEF InContainer
    <3> HIDE DEF a, b, n, v, len
    <3> QED BY <2>1, <3>1, <3>2
  <2>6. Img = chain[level]
    BY DEF Img
  <2>7. Disk!Readable(chain, u)
        /\ Disk!ByteAt(chain, u) = ContainerByte(Img, FileOffset(Img, u))
    BY <2>1, <2>3, <2>4, <2>5, <2>6, BytesAre
  <2>8. bytes[u] = ContainerByte(Img, FileOffset(Img, u))
    BY <2>1
  <2> QED BY <2>7, <2>8
<1> HIDE DEF bytes
<1> QED BY <1>1, <1>2, FillIsRight

LEMMA FillZerosIsRight ==
    ASSUME DiskInv, FillZeros
    PROVE  BufferIsDisk' /\ ParentsAsked'
<1> DEFINE bytes == [v \in Addresses |-> 0]
<1>1. /\ Running /\ Fill(bytes) /\ ReaderInv /\ level > 0
      /\ \/ Source(Img, V) = "zero"
         \/ Source(Img, V) = "parent" /\ level = Len(chain)
  BY DEF FillZeros, DiskInv, Running
<1>2. ASSUME NEW u \in Addresses
      PROVE  Disk!Readable(chain, u) /\ bytes[u] = Disk!ByteAt(chain, u)
  <2>1. Source(Img, u) = Source(Img, V)
    BY <1>1, ChunkUniform
  <2>2. level \in 1 .. Len(chain) /\ Len(chain) \in Nat /\ DOMAIN chain = 1 .. Len(chain)
    BY <1>1, AtLevel
  <2>3. \A k \in 1 .. level - 1 : Source(chain[k], u) = "parent"
    BY <1>1, ChunkReached
  <2>4. Disk!Readable(chain, u) /\ Disk!ByteAt(chain, u) = 0
    BY <1>1, <2>1, <2>2, <2>3, BytesAre DEF Img
  <2> QED BY <2>4
<1> HIDE DEF bytes
<1> QED BY <1>1, <1>2, FillIsRight

LEMMA StartIsRight ==
    ASSUME DiskInv, NEW n \in ReadLen, StartRead(n)
    PROVE  BufferIsDisk' /\ ParentsAsked'
<1> DEFINE m == ToRead(chain[1], posn[1], n)
           f == [Idle EXCEPT !.want = m]
<1>1. /\ level' = 1 /\ frame' = [frame EXCEPT ![1] = f]
      /\ buf' = [v \in posn[1] .. posn[1] + m - 1 |-> 0]
      /\ UNCHANGED <<chain, posn, reply, faults>>
  BY DEF StartRead
<1>2. /\ Len(chain) \in Nat \ {0} /\ frame \in [1 .. Len(chain) -> Frame]
      /\ posn[1] \in Nat
  <2>1. Len(chain) \in Nat \ {0} /\ frame \in [1 .. Len(chain) -> Frame]
        /\ posn \in [1 .. Len(chain) -> 0 .. I64Max]
    BY ChainIs DEF DiskInv, ReaderInv
  <2> QED BY <2>1
<1> HIDE DEF m
<1>3. frame'[1] = f /\ f.want = m /\ f.written = 0
  BY <1>1, <1>2 DEF Idle
<1>4. ParentsAsked'
  BY <1>1 DEF ParentsAsked
<1>5. \A v \in Nat : ~(posn[1] <= v /\ v < posn[1] + 0)
  BY <1>2
<1> HIDE DEF f
<1>6. \E k \in ReadLen : frame'[1].want = ToRead(chain[1], posn[1], k)
  BY <1>3 DEF m
<1>7. DOMAIN buf' = posn[1] .. posn[1] + frame'[1].want - 1
  BY <1>1, <1>3
<1> QED BY <1>1, <1>3, <1>4, <1>5, <1>6, <1>7 DEF BufferIsDisk, Right

LEMMA InterruptedIsRight ==
    ASSUME DiskInv, Interrupted
    PROVE  BufferIsDisk' /\ ParentsAsked'
<1>1. /\ level > 1 /\ level > 0 /\ ReaderInv /\ frame' = [frame EXCEPT ![level].written = 0]
      /\ UNCHANGED <<chain, posn, level, buf, reply>>
  <2>1. level > 1 /\ level > 0
    BY DEF Interrupted, Running
  <2> QED BY <2>1 DEF Interrupted, DiskInv
<1>2. /\ level \in 1 .. Len(chain) /\ Len(chain) \in Nat
      /\ frame \in [1 .. Len(chain) -> Frame]
      /\ posn[level] \in Nat /\ frame[level].written \in Nat
  BY <1>1, AtLevel
<1>3. /\ frame'[level].written = 0
      /\ \A l \in 1 .. Len(chain) :
           /\ frame'[l].want = frame[l].want
           /\ frame'[l].need = frame[l].need /\ frame'[l].have = frame[l].have
  BY <1>1, <1>2 DEF Frame
<1>4. ParentsAsked'
  <2>1. level' \in 1 .. level /\ \A l \in 1 .. level' : l \in 1 .. Len(chain)
    BY <1>1, <1>2
  <2> QED BY <1>1, <1>3, <2>1, AskedStill
<1>5. BufferIsDisk'
  <2>1. \A v \in Nat : posn[1] <= v /\ v < posn[level] + 0 => Right(buf, v)
    <3> SUFFICES ASSUME NEW v \in Nat, posn[1] <= v, v < posn[level] + 0
                 PROVE  Right(buf, v)
      OBVIOUS
    <3>1. v < posn[level] + frame[level].written
      BY <1>2
    <3> QED BY <1>1, <3>1 DEF DiskInv, BufferIsDisk
  <2>2. /\ \E n \in ReadLen : frame[1].want = ToRead(chain[1], posn[1], n)
        /\ DOMAIN buf = posn[1] .. posn[1] + frame[1].want - 1
    BY <1>1 DEF DiskInv, BufferIsDisk
  <2>3. frame'[1].want = frame[1].want
    BY <1>2, <1>3
  <2> QED BY <1>1, <1>3, <2>1, <2>2, <2>3 DEF BufferIsDisk, Right
<1> QED BY <1>4, <1>5

LEMMA AskIsRight ==
    ASSUME DiskInv, AskParent
    PROVE  BufferIsDisk' /\ ParentsAsked' /\ posn'[1] = posn[1]
<1> DEFINE k == level + 1
           v == V
           n == Chunk
           m == ToRead(chain[k], v, n)
           f == [want |-> m, written |-> 0, need |-> n, have |-> 0]
<1>1. /\ Running /\ Source(Img, V) = "parent" /\ level < Len(chain)
      /\ level' = k /\ posn' = [posn EXCEPT ![k] = v] /\ frame' = [frame EXCEPT ![k] = f]
      /\ UNCHANGED <<chain, buf, reply, faults>> /\ level > 0 /\ ReaderInv
  BY DEF AskParent, DiskInv, Running
<1>2. /\ level \in 1 .. Len(chain) /\ Len(chain) \in Nat
      /\ frame \in [1 .. Len(chain) -> Frame] /\ posn \in [1 .. Len(chain) -> Nat]
      /\ posn[1] \in Nat /\ frame[1].want \in Nat
  BY <1>1, AtLevel
<1>3. /\ v \in Nat /\ v = posn[level] + frame[level].written /\ n \in Nat \ {0}
  BY <1>1, AtChunk DEF Top
<1>4. \A u \in v .. v + n - 1 :
         /\ \A j \in 1 .. level - 1 : Source(chain[j], u) = "parent"
         /\ Source(chain[level], u) = "parent"
         /\ u \in posn[1] .. posn[1] + frame[1].want - 1
  BY <1>1, ChunkReached, ChunkUniform DEF Addresses, Img
<1> HIDE DEF v, n
<1>5. k \in 2 .. Len(chain) /\ level \in Nat
  BY <1>1, <1>2
<1>6. /\ posn'[k] = v /\ frame'[k] = f
      /\ \A l \in 1 .. level : posn'[l] = posn[l] /\ frame'[l] = frame[l]
  <2>1. \A l \in 1 .. level : l # k /\ l \in 1 .. Len(chain)
    BY <1>2
  <2> HIDE DEF f
  <2> QED BY <1>1, <1>2, <1>5, <2>1
<1>7. f.want = m /\ f.written = 0 /\ f.need = n /\ f.have = 0
  BY DEF m
<1>8. v + n <= posn[1] + frame[1].want /\ posn[1] <= v
  <2>1. v \in v .. v + n - 1 /\ v + (n - 1) \in v .. v + n - 1
    BY <1>3
  <2>2. v \in posn[1] .. posn[1] + frame[1].want - 1
        /\ v + (n - 1) \in posn[1] .. posn[1] + frame[1].want - 1
    BY <1>4, <2>1
  <2> QED BY <1>2, <1>3, <2>2
<1>9. 1 \in 1 .. level
  BY <1>2
<1> HIDE DEF f, m
<1>10. ASSUME NEW l \in 2 .. level' PROVE Asks(posn, frame, l)'
  <2>1. CASE l = k
    <3>1. Asked(posn', frame', k) = v .. v + n - 1
      BY <1>3, <1>6, <1>7 DEF Asked
    <3>2. \A j \in 1 .. k - 1 : j = level \/ j \in 1 .. level - 1
      BY <1>5
    <3>3. \A j \in 1 .. k - 1 : \A u \in Asked(posn', frame', k) : Source(chain[j], u) = "parent"
      BY <1>4, <3>1, <3>2
    <3>4. frame'[k].have < frame'[k].need
          /\ frame'[k].want = ToRead(chain[k], posn'[k], frame'[k].need - frame'[k].have)
      <4>1. n - 0 = n /\ 0 < n
        BY <1>3
      <4> QED BY <1>6, <1>7, <4>1 DEF m
    <3>5. posn'[1] <= posn'[k] - frame'[k].have
          /\ posn'[k] - frame'[k].have + frame'[k].need <= posn'[1] + frame'[1].want
      BY <1>3, <1>6, <1>7, <1>8, <1>9
    <3> HIDE DEF k
    <3> QED BY <1>1, <2>1, <3>3, <3>4, <3>5 DEF Asks
  <2>2. CASE l # k
    <3>1. l \in 2 .. level /\ l \in 1 .. level
      BY <1>1, <1>5, <2>2
    <3>2. Asks(posn, frame, l)
      BY <3>1 DEF DiskInv, ParentsAsked
    <3>3. posn'[l] = posn[l] /\ frame'[l] = frame[l] /\ posn'[1] = posn[1]
          /\ frame'[1] = frame[1] /\ chain' = chain
      BY <1>1, <1>6, <1>9, <3>1
    <3>4. Asked(posn', frame', l) = Asked(posn, frame, l)
      BY <3>3 DEF Asked
    <3> QED BY <3>2, <3>3, <3>4 DEF Asks
  <2> QED BY <2>1, <2>2
<1>11. BufferIsDisk'
  <2>1. /\ \E i \in ReadLen : frame[1].want = ToRead(chain[1], posn[1], i)
        /\ DOMAIN buf = posn[1] .. posn[1] + frame[1].want - 1
        /\ \A u \in Nat : posn[1] <= u /\ u < v => Right(buf, u)
    BY <1>1, <1>3 DEF DiskInv, BufferIsDisk
  <2>2. posn'[level'] + frame'[level'].written = v
    BY <1>1, <1>3, <1>6, <1>7
  <2>3. posn'[1] = posn[1] /\ frame'[1] = frame[1]
    BY <1>6, <1>9
  <2> HIDE DEF k
  <2> QED BY <1>1, <2>1, <2>2, <2>3 DEF BufferIsDisk, Right
<1> QED BY <1>6, <1>9, <1>10, <1>11 DEF ParentsAsked

LEMMA ReturnIsRight ==
    ASSUME DiskInv, ReturnToChild
    PROVE  BufferIsDisk' /\ ParentsAsked' /\ posn'[1] = posn[1]
<1> DEFINE k == level - 1
           t == frame[level]
           q == posn[level] + t.want
<1>1. /\ level > 1 /\ level > 0 /\ t.want > 0 /\ level' = k /\ ReaderInv
      /\ t.have + t.want = t.need /\ t.written = t.want
      /\ posn' = [posn EXCEPT ![level] = q]
      /\ frame' = [frame EXCEPT ![level] = Idle, ![k].written = @ + t.need]
      /\ UNCHANGED <<chain, buf, reply, faults>>
  <2>1. level > 1 /\ level \in Nat
    <3>1. level \in 0 .. Len(chain) /\ Len(chain) \in Nat
      BY ChainIs DEF DiskInv, ReaderInv
    <3> QED BY <3>1 DEF ReturnToChild, Done
  <2>2. level > 0
    BY <2>1
  <2> QED BY <2>1, <2>2 DEF ReturnToChild, Done, Top, DiskInv
<1>2. /\ level \in 1 .. Len(chain) /\ Len(chain) \in Nat
      /\ frame \in [1 .. Len(chain) -> Frame] /\ posn \in [1 .. Len(chain) -> Nat]
      /\ posn[level] \in Nat /\ t.want \in Nat /\ t.have \in Nat /\ t.need \in Nat
      /\ posn[level] - t.have = posn[k] + frame[k].written
  <2>1. Nests(posn, frame, level)
    BY <1>1, AtLevel
  <2> QED BY <1>1, <2>1, AtLevel DEF Nests
<1>3. k \in 1 .. Len(chain) /\ k \in 1 .. level /\ k # level /\ 1 \in 1 .. k
  BY <1>1, <1>2
<1>4. posn[k] \in Nat /\ frame[k].written \in Nat
  BY <1>1, <1>3, AtLevel
<1> HIDE DEF k, t, q
<1>5. /\ frame'[k].written = frame[k].written + t.need
      /\ \A l \in 1 .. k :
           /\ posn'[l] = posn[l] /\ frame'[l].want = frame[l].want
           /\ frame'[l].need = frame[l].need /\ frame'[l].have = frame[l].have
  <2>1. \A l \in 1 .. k : l \in 1 .. Len(chain) /\ l # level
    BY <1>1, <1>2, <1>3 DEF k
  <2>2. frame[k] \in Frame
    BY <1>2, <1>3
  <2>3. frame'[k] = [frame[k] EXCEPT !.written = @ + t.need]
    BY <1>1, <1>2, <1>3
  <2>4. frame'[k].written = frame[k].written + t.need
    BY <2>2, <2>3 DEF Frame
  <2>5. /\ frame'[k].want = frame[k].want
        /\ frame'[k].need = frame[k].need /\ frame'[k].have = frame[k].have
    BY <2>2, <2>3 DEF Frame
  <2>6. \A l \in 1 .. k : l # k => frame'[l] = frame[l]
    BY <1>1, <1>2, <1>3, <2>1
  <2>7. \A l \in 1 .. k : posn'[l] = posn[l]
    BY <1>1, <1>2, <2>1
  <2> QED BY <2>4, <2>5, <2>6, <2>7
<1>6. ParentsAsked'
  BY <1>1, <1>3, <1>5, AskedStill
<1>7. BufferIsDisk'
  <2>1. /\ \E i \in ReadLen : frame[1].want = ToRead(chain[1], posn[1], i)
        /\ DOMAIN buf = posn[1] .. posn[1] + frame[1].want - 1
        /\ \A u \in Nat : posn[1] <= u /\ u < q => Right(buf, u)
    BY <1>1 DEF DiskInv, BufferIsDisk, t, q
  <2>2. posn'[k] + frame'[k].written = q
    <3>1. posn'[k] = posn[k] /\ frame'[k].written = frame[k].written + t.need
      BY <1>3, <1>5
    <3>2. posn[k] + (frame[k].written + t.need) = posn[level] + t.want
      <4> DEFINE a == posn[k]
                 b == frame[k].written
                 c == posn[level]
                 h == t.have
                 w == t.want
                 n == t.need
      <4>1. /\ a \in Nat /\ b \in Nat /\ c \in Nat /\ h \in Nat /\ w \in Nat /\ n \in Nat
            /\ h + w = n /\ c - h = a + b
        BY <1>1, <1>2, <1>4
      <4> SUFFICES a + (b + n) = c + w
        OBVIOUS
      <4> HIDE DEF a, b, c, h, w, n
      <4> QED BY <4>1
    <3> QED BY <3>1, <3>2 DEF q
  <2>3. posn'[1] = posn[1] /\ frame'[1].want = frame[1].want
    BY <1>3, <1>5
  <2> QED BY <1>1, <2>1, <2>2, <2>3 DEF BufferIsDisk, Right
<1> QED BY <1>3, <1>5, <1>6, <1>7

LEMMA ReadOnIsRight ==
    ASSUME DiskInv, ReadOn
    PROVE  BufferIsDisk' /\ ParentsAsked' /\ posn'[1] = posn[1]
<1> DEFINE t == frame[level]
           q == posn[level] + t.want
           h == t.have + t.want
           m == ToRead(chain[level], q, t.need - h)
           f == [want |-> m, written |-> 0, need |-> t.need, have |-> h]
<1>1. /\ level > 1 /\ level > 0 /\ t.want > 0 /\ h < t.need /\ t.written = t.want
      /\ posn' = [posn EXCEPT ![level] = q] /\ ReaderInv
      /\ frame' = [frame EXCEPT ![level] = f]
      /\ UNCHANGED <<chain, level, buf, reply, faults>>
  <2>1. level > 1 /\ level \in Nat
    <3>1. level \in 0 .. Len(chain) /\ Len(chain) \in Nat
      BY ChainIs DEF DiskInv, ReaderInv
    <3> QED BY <3>1 DEF ReadOn, Done
  <2>2. level > 0
    BY <2>1
  <2> QED BY <2>1, <2>2 DEF ReadOn, Done, Top, Img, DiskInv
<1>2. /\ level \in 1 .. Len(chain) /\ Len(chain) \in Nat
      /\ frame \in [1 .. Len(chain) -> Frame] /\ posn \in [1 .. Len(chain) -> Nat]
      /\ posn[level] \in Nat /\ t.want \in Nat /\ t.have \in Nat /\ t.need \in Nat
  BY <1>1, AtLevel
<1>3. f.want = m /\ f.written = 0 /\ f.need = t.need /\ f.have = h
  BY DEF m
<1> HIDE DEF f, m
<1>4. /\ posn'[level] = q /\ frame'[level] = f
      /\ \A l \in 1 .. level - 1 : posn'[l] = posn[l] /\ frame'[l] = frame[l]
  <2>1. \A l \in 1 .. level - 1 : l # level /\ l \in 1 .. Len(chain)
    BY <1>2
  <2> HIDE DEF q
  <2> QED BY <1>1, <1>2, <2>1
<1>5. 1 \in 1 .. level - 1
  BY <1>1, <1>2
<1>6. q - h = posn[level] - t.have
  BY <1>2
<1>7. Asked(posn', frame', level) = Asked(posn, frame, level)
  BY <1>3, <1>4, <1>6 DEF Asked
<1> HIDE DEF q, h
<1>8. ASSUME NEW l \in 2 .. level PROVE Asks(posn, frame, l)'
  <2>1. Asks(posn, frame, l)
    BY DEF DiskInv, ParentsAsked
  <2>2. chain' = chain /\ posn'[1] = posn[1] /\ frame'[1] = frame[1]
    BY <1>1, <1>4, <1>5
  <2>3. CASE l = level
    <3>1. /\ f.have < f.need /\ f.want = ToRead(chain[level], q, f.need - f.have)
          /\ posn[1] <= q - f.have /\ q - f.have + f.need <= posn[1] + frame[1].want
      BY <1>1, <1>3, <1>6, <2>1, <2>3 DEF Asks, m, t
    <3>2. \A j \in 1 .. level - 1 : \A v \in Asked(posn, frame, level) :
             Source(chain[j], v) = "parent"
      BY <2>1, <2>3 DEF Asks
    <3> QED BY <1>4, <1>7, <2>2, <2>3, <3>1, <3>2 DEF Asks
  <2>4. CASE l # level
    <3>1. l \in 1 .. level - 1
      BY <1>2, <2>4
    <3>2. posn'[l] = posn[l] /\ frame'[l] = frame[l]
      BY <1>4, <3>1
    <3>3. Asked(posn', frame', l) = Asked(posn, frame, l)
      BY <3>2 DEF Asked
    <3> QED BY <2>1, <2>2, <3>2, <3>3 DEF Asks
  <2> QED BY <2>3, <2>4
<1>9. BufferIsDisk'
  <2>1. /\ \E i \in ReadLen : frame[1].want = ToRead(chain[1], posn[1], i)
        /\ DOMAIN buf = posn[1] .. posn[1] + frame[1].want - 1
        /\ \A u \in Nat : posn[1] <= u /\ u < q => Right(buf, u)
    BY <1>1 DEF DiskInv, BufferIsDisk, q
  <2>2. posn'[level] + frame'[level].written = q
    BY <1>2, <1>3, <1>4 DEF q
  <2>3. posn'[1] = posn[1] /\ frame'[1] = frame[1]
    BY <1>4, <1>5
  <2> QED BY <1>1, <2>1, <2>2, <2>3 DEF BufferIsDisk, Right
<1> QED BY <1>1, <1>4, <1>5, <1>8, <1>9 DEF ParentsAsked

\* An error the reader meets is the failed read of a byte that is not to be had.
LEMMA FailIsReads ==
    ASSUME DiskInv, level > 0, NEW w \in posn[1] .. posn[1] + frame[1].want - 1,
           ~Disk!Readable(chain, w), Fail, UNCHANGED faults
    PROVE  \E n \in ReadLen : Disk!FailRead(n)
<1>1. PICK n \in ReadLen : frame[1].want = ToRead(chain[1], posn[1], n)
  BY DEF DiskInv, BufferIsDisk
<1>2. Disk!Available(chain, posn[1], n) = frame[1].want
  BY <1>1 DEF ToRead, AtMost, Disk!Available, Disk!Child
<1>3. posn[1] \in Nat /\ frame[1].want \in Nat
  BY AtLevel DEF DiskInv
<1>4. w - posn[1] \in 0 .. frame[1].want - 1 /\ posn[1] + (w - posn[1]) = w
  BY <1>3
<1>5. \E k \in 0 .. frame[1].want - 1 : ~Disk!Readable(chain, posn[1] + k)
  BY <1>4
<1>6. reply' = Disk!Failed /\ chain' = chain /\ posn' = posn /\ faults' = faults
  BY DEF Fail, Failed, Disk!Failed
<1>7. Disk!FailRead(n)
  BY <1>2, <1>5, <1>6 DEF Disk!FailRead
<1> QED BY <1>7

LEMMA FailChunkIsRead ==
    ASSUME DiskInv, FailChunk
    PROVE  \E n \in ReadLen : Disk!FailRead(n)
<1>1. /\ Running /\ level > 0 /\ ReaderInv /\ Fail /\ UNCHANGED faults
      /\ \/ Source(Img, V) = "error"
         \/ Source(Img, V) = "file" /\ ~InContainer(Img, FileOffset(Img, V), Chunk)
  BY DEF FailChunk, DiskInv, Running
<1> DEFINE v == V
           n == Chunk
           w == v + (n - 1)
<1>2. v \in Nat /\ n \in Nat \ {0}
  BY <1>1, AtChunk
<1>3. v \in Addresses /\ w \in Addresses
  <2>1. Addresses = v .. v + n - 1
    BY DEF Addresses
  <2> HIDE DEF v, n
  <2> QED BY <1>2, <2>1
<1>4. level \in 1 .. Len(chain) /\ Len(chain) \in Nat /\ DOMAIN chain = 1 .. Len(chain)
      /\ Img = chain[level]
  BY <1>1, AtLevel DEF Img
<1>5. CASE Source(Img, V) = "error"
  <2>1. ~Disk!Readable(chain, v)
    BY <1>1, <1>3, <1>4, <1>5, ChunkReached, BytesAre
  <2>2. v \in posn[1] .. posn[1] + frame[1].want - 1
    BY <1>1, <1>3, ChunkReached
  <2> QED BY <1>1, <2>1, <2>2, FailIsReads
<1>6. CASE Source(Img, V) = "file" /\ ~InContainer(Img, FileOffset(Img, V), Chunk)
  <2>1. /\ Source(Img, w) = "file" /\ FileOffset(Img, V) \in Nat
        /\ FileOffset(Img, w) = FileOffset(Img, V) + (w - v)
    BY <1>1, <1>3, <1>6, ChunkUniform
  <2>2. ~InContainer(Img, FileOffset(Img, w), 1)
    <3> DEFINE a == FileOffset(Img, V)
               b == FileOffset(Img, w)
               len == Len(Img.container)
    <3>1. a \in Nat /\ b = a + (w - v) /\ w = v + (n - 1) /\ ~(a + n <= len)
      BY <1>6, <2>1 DEF InContainer
    <3>2. len \in Nat
      BY <1>4, ChainAssumption DEF DiskInv, ReaderInv, TypeOK, IsDisk
    <3> SUFFICES ~(b + 1 <= len)
      BY DEF InContainer
    <3> HIDE DEF a, b, n, v, w, len
    <3> QED BY <1>2, <3>1, <3>2
  <2>3. \A k \in 1 .. level - 1 : Source(chain[k], w) = "parent"
    BY <1>1, <1>3, ChunkReached
  <2>4. w \in posn[1] .. posn[1] + frame[1].want - 1
    BY <1>1, <1>3, ChunkReached
  <2> HIDE DEF w
  <2>5. ~Disk!Readable(chain, w)
    BY <1>4, <2>1, <2>2, <2>3, BytesAre
  <2> QED BY <1>1, <2>4, <2>5, FailIsReads
<1> QED BY <1>1, <1>5, <1>6

LEMMA ShortParentIsRead ==
    ASSUME DiskInv, ParentTooShort
    PROVE  \E n \in ReadLen : Disk!FailRead(n)
<1> DEFINE p == posn[level]
           n == frame[level].need - frame[level].have
           d == chain[level].vds
<1>1. /\ level > 1 /\ level > 0 /\ level \in 2 .. level /\ ReaderInv /\ Fail /\ UNCHANGED faults
      /\ frame[level].want = 0
  <2>1. level > 1 /\ level \in Nat
    <3>1. level \in 0 .. Len(chain) /\ Len(chain) \in Nat
      BY ChainIs DEF DiskInv, ReaderInv
    <3> QED BY <3>1 DEF ParentTooShort, Done
  <2>2. level > 0 /\ level \in 2 .. level
    BY <2>1
  <2> QED BY <2>1, <2>2 DEF ParentTooShort, Top, DiskInv
<1>2. /\ level \in 1 .. Len(chain) /\ Len(chain) \in Nat /\ DOMAIN chain = 1 .. Len(chain)
      /\ p \in Nat /\ frame[level].need \in Nat /\ frame[level].have \in Nat /\ d \in Nat
  BY <1>1, AtLevel
<1>3. frame[level].have < frame[level].need /\ 0 = ToRead(chain[level], p, n)
  BY <1>1 DEF DiskInv, ParentsAsked, Asks
<1>4. n \in Nat \ {0}
  BY <1>2, <1>3
<1>5. p >= d
  <2> HIDE DEF n, p
  <2> QED BY <1>2, <1>3, <1>4 DEF ToRead, AtMost
<1>6. Source(chain[level], p) = "error"
  <2>1. ReadTarget(chain[level], p) = "error"
    <3> HIDE DEF p
    <3> QED BY <1>2, <1>5 DEF ReadTarget
  <2> QED BY <2>1 DEF Source
<1>7. p < p - frame[level].have + frame[level].need
  BY <1>2, <1>3
<1>8. /\ \A k \in 1 .. level - 1 : Source(chain[k], p) = "parent"
      /\ p \in posn[1] .. posn[1] + frame[1].want - 1
  BY <1>1, <1>2, <1>7, Reached
<1>9. ~Disk!Readable(chain, p)
  BY <1>2, <1>6, <1>8, BytesAre
<1> QED BY <1>1, <1>8, <1>9, FailIsReads

\* A read that returns gives the bytes of the disk.
LEMMA ReturnIsRead ==
    ASSUME DiskInv, ReturnToClient
    PROVE  \E n \in ReadLen : Disk!Read(n)
<1> DEFINE m == frame[1].want
           p == posn[1]
           bytes == [k \in 1 .. m |-> buf[p + k - 1]]
<1>1. /\ level = 1 /\ level > 0 /\ frame[1].written = m /\ reply' = Ok(m, bytes) /\ ReaderInv
      /\ posn' = [posn EXCEPT ![1] = p + m] /\ UNCHANGED <<chain, faults>>
  BY DEF ReturnToClient, Top, DiskInv
<1>2. /\ p \in Nat /\ m \in Nat /\ Len(chain) \in Nat \ {0} /\ posn \in [1 .. Len(chain) -> Nat]
  BY <1>1, AtLevel
<1>3. PICK n \in ReadLen : m = ToRead(chain[1], p, n)
  BY <1>1 DEF DiskInv, BufferIsDisk
<1>4. Disk!Available(chain, p, n) = m
  BY <1>3 DEF ToRead, AtMost, Disk!Available, Disk!Child
<1>5. \A v \in Nat : p <= v /\ v < p + m => Right(buf, v)
  BY <1>1 DEF DiskInv, BufferIsDisk
<1> HIDE DEF m, p
<1>6. \A k \in 0 .. m - 1 : Disk!Readable(chain, p + k)
  <2> SUFFICES ASSUME NEW k \in 0 .. m - 1 PROVE Disk!Readable(chain, p + k)
    OBVIOUS
  <2>1. p + k \in Nat /\ p <= p + k /\ p + k < p + m
    BY <1>2
  <2> QED BY <1>5, <2>1 DEF Right
<1>7. bytes = [k \in 1 .. m |-> Disk!ByteAt(chain, p + k - 1)]
  <2> SUFFICES ASSUME NEW k \in 1 .. m PROVE buf[p + k - 1] = Disk!ByteAt(chain, p + k - 1)
    OBVIOUS
  <2>1. p + k - 1 \in Nat /\ p <= p + k - 1 /\ p + k - 1 < p + m
    BY <1>2
  <2> QED BY <1>5, <2>1 DEF Right
<1>8. posn'[1] = p + m
  BY <1>1, <1>2
<1>9. reply' = Disk!Ok(m, [k \in 1 .. m |-> Disk!ByteAt(chain, p + k - 1)])
  <2> HIDE DEF bytes
  <2> QED BY <1>1, <1>7 DEF Ok, Disk!Ok
<1>10. Disk!Read(n)
  BY <1>1, <1>4, <1>6, <1>8, <1>9 DEF Disk!Read, p
<1> QED BY <1>10

\* The conversion keeps the positions an i64 holds, and makes every other sum of a
\* position and an offset negative.
LEMMA WrapIs ==
    ASSUME NEW n \in -(I64Max + 1) .. 2 * I64Max + 1
    PROVE  /\ AsI64(n) \in Int
           /\ n \in 0 .. I64Max => AsI64(n) = n
           /\ n \notin 0 .. I64Max => AsI64(n) < 0
<1> DEFINE m == 2 * (I64Max + 1)
           w == n + I64Max + 1
<1>1. m \in Nat \ {0} /\ w \in Nat /\ I64Max \in Nat /\ n \in Int
  BY ReaderAssumption
<1>2. AsI64(n) = (w % m) - (I64Max + 1)
  BY DEF AsI64
<1>3. CASE n <= I64Max
  <2>1. w < m
    BY <1>1, <1>3
  <2>2. w % m = w
    <3> HIDE DEF w, m
    <3> QED BY <1>1, <2>1
  <2> QED BY <1>1, <1>2, <1>3, <2>2
<1>4. CASE n > I64Max
  <2>1. w - m \in 0 .. m - 1 /\ w - m <= I64Max
    BY <1>1, <1>4
  <2>2. w % m = w - m
    <3> HIDE DEF w, m
    <3> QED BY <1>1, <2>1
  <2> QED BY <1>1, <1>2, <1>4, <2>1, <2>2
<1> QED BY <1>1, <1>3, <1>4

LEMMA SeekIsRight ==
    ASSUME DiskInv, NEW n \in -(I64Max + 1) .. 2 * I64Max + 1, SeekTo(AsI64(n))
    PROVE  BufferIsDisk' /\ ParentsAsked' /\ Disk!SeekTo(n)
<1>1. /\ level = 0 /\ UNCHANGED <<chain, level, frame, buf, faults>>
      /\ IF AsI64(n) < 0 THEN reply' = Failed /\ posn' = posn
         ELSE reply' = Ok(AsI64(n), <<>>) /\ posn' = [posn EXCEPT ![1] = AsI64(n)]
  BY DEF SeekTo, call
<1>2. BufferIsDisk' /\ ParentsAsked'
  BY <1>1 DEF BufferIsDisk, ParentsAsked
<1>3. posn \in [1 .. Len(chain) -> 0 .. I64Max] /\ Len(chain) \in Nat \ {0}
  BY ChainIs DEF DiskInv, ReaderInv
<1>4. CASE n \in 0 .. I64Max
  <2>1. AsI64(n) = n /\ ~(n < 0)
    BY <1>4, WrapIs, ReaderAssumption
  <2>2. reply' = Ok(n, <<>>) /\ posn'[1] = n
    BY <1>1, <1>3, <2>1
  <2> QED BY <1>1, <1>2, <1>4, <2>2 DEF Disk!SeekTo, Disk!Ok, Ok
<1>5. CASE n \notin 0 .. I64Max
  <2>1. AsI64(n) < 0
    BY <1>5, WrapIs
  <2>2. reply' = Failed /\ posn' = posn
    BY <1>1, <2>1
  <2> QED BY <1>1, <1>2, <1>5, <2>2 DEF Disk!SeekTo, Disk!Failed, Failed
<1> QED BY <1>4, <1>5

LEMMA SeeksAreRight ==
    ASSUME DiskInv, NEW d \in Offset, SeekStart(d) \/ SeekCurrent(d) \/ SeekEnd(d)
    PROVE  BufferIsDisk' /\ ParentsAsked' /\ Disk!Next
<1> DEFINE p == posn[1]
           s == chain[1].vds
<1>1. p \in 0 .. I64Max /\ s \in 0 .. I64Max /\ I64Max \in Nat /\ d \in Int
  <2>1. 1 \in 1 .. Len(chain) /\ posn \in [1 .. Len(chain) -> 0 .. I64Max]
        /\ \A l \in 1 .. Len(chain) : chain[l].vds \in Nat /\ chain[l].vds <= I64Max
    BY ChainIs DEF DiskInv, ReaderInv
  <2> QED BY <2>1, ReaderAssumption
<1>2. Disk!Child(chain).vds = s
  BY DEF Disk!Child
<1>3. PICK base \in {0, p, s} :
         /\ SeekTo(AsI64(base + d)) /\ base + d \in -(I64Max + 1) .. 2 * I64Max + 1
  <2>1. ASSUME SeekStart(d)
        PROVE  SeekTo(AsI64(0 + d)) /\ 0 + d \in -(I64Max + 1) .. 2 * I64Max + 1
    <3>1. d \in 0 .. 2 * I64Max + 1 /\ SeekTo(AsI64(d))
      BY <2>1 DEF SeekStart, IsU64
    <3>2. 0 + d = d
      BY <1>1
    <3> QED BY <1>1, <3>1, <3>2
  <2>2. ASSUME NEW b \in 0 .. I64Max, IsI64(d)
        PROVE  AsI64(b) = b /\ b + d \in -(I64Max + 1) .. 2 * I64Max + 1
    <3>1. b \in -(I64Max + 1) .. 2 * I64Max + 1
      BY <1>1
    <3>2. b + d \in -(I64Max + 1) .. 2 * I64Max + 1
      BY <1>1, <2>2 DEF IsI64
    <3> QED BY <3>1, <3>2, WrapIs
  <2>3. ASSUME SeekCurrent(d)
        PROVE  SeekTo(AsI64(p + d)) /\ p + d \in -(I64Max + 1) .. 2 * I64Max + 1
    <3>1. IsI64(d) /\ SeekTo(AsI64(AsI64(p) + d))
      BY <2>3 DEF SeekCurrent
    <3> HIDE DEF p
    <3> QED BY <1>1, <2>2, <3>1
  <2>4. ASSUME SeekEnd(d)
        PROVE  SeekTo(AsI64(s + d)) /\ s + d \in -(I64Max + 1) .. 2 * I64Max + 1
    <3>1. IsI64(d) /\ SeekTo(AsI64(AsI64(s) + d))
      BY <2>4 DEF SeekEnd
    <3> HIDE DEF s
    <3> QED BY <1>1, <2>2, <3>1
  <2> HIDE DEF p, s
  <2> QED BY <2>1, <2>3, <2>4
<1>4. BufferIsDisk' /\ ParentsAsked' /\ Disk!SeekTo(base + d)
  BY <1>3, SeekIsRight
<1>5. \E b \in {0, posn[1], Disk!Child(chain).vds} : Disk!SeekTo(b + d)
  BY <1>2, <1>4
<1>6. Disk!Next
  BY <1>5 DEF Disk!Next
<1> QED BY <1>4, <1>6

LEMMA DiskStep ==
    ASSUME DiskInv, Next
    PROVE  DiskInv' /\ [Disk!Next]_<<chain, posn[1], reply, faults>>
<1>1. ReaderInv'
  BY ReaderInvStep DEF DiskInv
<1> SUFFICES BufferIsDisk' /\ ParentsAsked' /\ [Disk!Next]_<<chain, posn[1], reply, faults>>
  BY <1>1 DEF DiskInv
<1>2. ASSUME NEW n \in ReadLen, StartRead(n)
      PROVE  BufferIsDisk' /\ ParentsAsked' /\ UNCHANGED <<chain, posn[1], reply, faults>>
  BY <1>2, StartIsRight DEF StartRead
<1>3. ASSUME NEW d \in Offset, SeekStart(d) \/ SeekCurrent(d) \/ SeekEnd(d)
      PROVE  BufferIsDisk' /\ ParentsAsked' /\ Disk!Next
  BY <1>3, SeeksAreRight
<1>4. ASSUME ReadFileChunk
      PROVE  BufferIsDisk' /\ ParentsAsked' /\ UNCHANGED <<chain, posn[1], reply, faults>>
  <2>1. UNCHANGED <<chain, posn[1], reply, faults>>
    BY <1>4 DEF ReadFileChunk, Fill
  <2> QED BY <1>4, <2>1, ReadFileIsRight
<1>5. ASSUME FillZeros
      PROVE  BufferIsDisk' /\ ParentsAsked' /\ UNCHANGED <<chain, posn[1], reply, faults>>
  <2>1. UNCHANGED <<chain, posn[1], reply, faults>>
    BY <1>5 DEF FillZeros, Fill
  <2> QED BY <1>5, <2>1, FillZerosIsRight
<1>6. ASSUME AskParent
      PROVE  BufferIsDisk' /\ ParentsAsked' /\ UNCHANGED <<chain, posn[1], reply, faults>>
  <2>1. UNCHANGED <<chain, reply, faults>>
    BY <1>6 DEF AskParent
  <2> QED BY <1>6, <2>1, AskIsRight
<1>7. ASSUME ReturnToChild
      PROVE  BufferIsDisk' /\ ParentsAsked' /\ UNCHANGED <<chain, posn[1], reply, faults>>
  <2>1. UNCHANGED <<chain, reply, faults>>
    BY <1>7 DEF ReturnToChild
  <2> QED BY <1>7, <2>1, ReturnIsRight
<1>8. ASSUME ReadOn
      PROVE  BufferIsDisk' /\ ParentsAsked' /\ UNCHANGED <<chain, posn[1], reply, faults>>
  <2>1. UNCHANGED <<chain, reply, faults>>
    BY <1>8 DEF ReadOn
  <2> QED BY <1>8, <2>1, ReadOnIsRight
<1>9. ASSUME Interrupted PROVE BufferIsDisk' /\ ParentsAsked' /\ Disk!Next
  <2>1. Disk!Retry
    BY <1>9 DEF Interrupted, Disk!Retry
  <2>2. Disk!Next
    BY <2>1 DEF Disk!Next
  <2> QED BY <1>9, <2>2, InterruptedIsRight
<1>10. ASSUME level' = 0 PROVE BufferIsDisk' /\ ParentsAsked'
  BY <1>10 DEF BufferIsDisk, ParentsAsked
<1>11. ASSUME MediumFault PROVE BufferIsDisk' /\ ParentsAsked' /\ Disk!Next
  <2>1. level' = 0 /\ Disk!Fault
    BY <1>11 DEF MediumFault, Fail, Disk!Fault, Failed, Disk!Failed
  <2>2. Disk!Next
    BY <2>1 DEF Disk!Next
  <2> QED BY <1>10, <2>1, <2>2
<1>12. ASSUME FailChunk \/ ParentTooShort PROVE BufferIsDisk' /\ ParentsAsked' /\ Disk!Next
  <2>1. level' = 0 /\ \E n \in ReadLen : Disk!FailRead(n)
    BY <1>12, FailChunkIsRead, ShortParentIsRead DEF FailChunk, ParentTooShort, Fail
  <2>2. Disk!Next
    BY <2>1 DEF Disk!Next
  <2> QED BY <1>10, <2>1, <2>2
<1>13. ASSUME ReturnToClient PROVE BufferIsDisk' /\ ParentsAsked' /\ Disk!Next
  <2>1. level' = 0 /\ \E n \in ReadLen : Disk!Read(n)
    BY <1>13, ReturnIsRead DEF ReturnToClient
  <2>2. Disk!Next
    BY <2>1 DEF Disk!Next
  <2> QED BY <1>10, <2>1, <2>2
<1> HIDE DEF BufferIsDisk, ParentsAsked
<1> QED BY <1>2, <1>3, <1>4, <1>5, <1>6, <1>7, <1>8, <1>9, <1>11, <1>12, <1>13 DEF Next, ReadNext

LEMMA DiskInit == Init => DiskInv /\ Disk!Init
<1> SUFFICES ASSUME Init PROVE DiskInv /\ Disk!Init
  OBVIOUS
<1>1. ReaderInv /\ level = 0
  BY ReaderInvInit DEF Init
<1>2. DiskInv
  BY <1>1 DEF DiskInv, BufferIsDisk, ParentsAsked
<1>3. 1 \in DOMAIN chain
  BY <1>1, ChainIs DEF ReaderInv
<1>4. Disk!Init
  BY <1>3 DEF Init, Disk!Init, Ok, Disk!Ok
<1> QED BY <1>2, <1>4

\* The reader is the disk it presents, for every chain of images: a read returns as
\* many bytes as the disk has from the position on, each the byte of the nearest image
\* that describes it (bat.rs:82-84, reader.rs:229-335), and moves past them; a read
\* that fails, for a byte that is not to be had or a container that could not be
\* read, moves nothing; and a seek goes where it was told or fails (reader.rs:338-352).
THEOREM ReaderImplements == Spec => ReaderIsDisk
<1>1. Init => DiskInv /\ Disk!Init
  BY DiskInit
<1>2. DiskInv /\ [Next]_vars => DiskInv' /\ [Disk!Next]_(Disk!vars)
  <2>1. CASE Next
    BY <2>1, DiskStep DEF Disk!vars
  <2>2. CASE UNCHANGED vars
    <3>1. ASSUME DiskInv PROVE ReaderInv'
      BY <2>2, <3>1, ReaderInvStep DEF DiskInv
    <3>2. UNCHANGED <<chain, posn, level, frame, buf, reply, faults>>
      BY <2>2 DEF vars
    <3>3. ASSUME DiskInv PROVE BufferIsDisk'
      BY <3>2, <3>3 DEF DiskInv, BufferIsDisk, Right
    <3>4. ASSUME DiskInv PROVE ParentsAsked'
      BY <3>2, <3>4 DEF DiskInv, ParentsAsked, Asks, Asked
    <3>5. UNCHANGED Disk!vars
      BY <3>2 DEF Disk!vars
    <3> QED BY <3>1, <3>3, <3>4, <3>5 DEF DiskInv
  <2> QED BY <2>1, <2>2
<1> QED BY <1>1, <1>2, PTL DEF Spec, ReaderIsDisk, Disk!Spec

=============================================================================
