------------------------- MODULE VhdxFindingsProofs -------------------------
(***************************************************************************)
(* What the analyser says of an image, against what the reader makes of    *)
(* it, for every image, geometry and order of equal keys.                  *)
(***************************************************************************)
EXTENDS VhdxFindings, DataLemmas, FiniteSetTheorems

-----------------------------------------------------------------------------
(* Arithmetic of a table in which each chunk of r blocks has r entries and *)
(* then one for its bitmap                                                 *)

Slot(r, b) == b + (b \div r)

LEMMA SlotIs ==
    ASSUME NEW r \in Nat \ {0}, NEW b \in Nat
    PROVE  /\ Slot(r, b) \in Nat
           /\ Slot(r, b) = (r + 1) * (b \div r) + (b % r)
           /\ Slot(r, b) \div (r + 1) = b \div r
           /\ Slot(r, b) % (r + 1) = b % r
           /\ b % r \in 0 .. r - 1
<1> DEFINE q == b \div r
           m == b % r
<1>1. q \in Nat /\ m \in 0 .. r - 1 /\ b = r * q + m
  BY DivMod
<1>2. Slot(r, b) = b + q
  BY DEF Slot
<1> HIDE DEF q, m
<1>3. b + q = (r + 1) * q + m
  BY <1>1
<1>4. ((r + 1) * q + m) \div (r + 1) = q /\ ((r + 1) * q + m) % (r + 1) = m
  <2>1. r + 1 \in Nat \ {0} /\ q \in Int /\ m \in 0 .. (r + 1) - 1
    BY <1>1
  <2> QED BY <2>1, DivUnique
<1>5. Slot(r, b) \in Nat
  BY <1>1, <1>2
<1> QED BY <1>1, <1>2, <1>3, <1>4, <1>5 DEF q, m

\* The slot of the next block is the next, or behind the bitmap's.
LEMMA SlotNext ==
    ASSUME NEW r \in Nat \ {0}, NEW b \in Nat
    PROVE  \/ b % r # r - 1 /\ Slot(r, b + 1) = Slot(r, b) + 1
           \/ /\ b % r = r - 1 /\ Slot(r, b + 1) = Slot(r, b) + 2
              /\ (Slot(r, b) + 1) % (r + 1) = r
<1> DEFINE q == b \div r
           m == b % r
<1>1. q \in Nat /\ m \in 0 .. r - 1 /\ b = r * q + m
  BY DivMod
<1>2. Slot(r, b) = (r + 1) * q + m
  BY SlotIs
<1>3. Slot(r, b + 1) = b + 1 + ((b + 1) \div r)
  BY DEF Slot
<1>4. Slot(r, b) = b + q
  BY DEF Slot
<1>m. b % r = m
  OBVIOUS
<1> HIDE DEF q, m
<1>5. CASE m # r - 1
  <2>1. b + 1 = r * q + (m + 1) /\ m + 1 \in 0 .. r - 1
    BY <1>1, <1>5
  <2>2. (b + 1) \div r = q
    <3>1. (r * q + (m + 1)) \div r = q
      BY <1>1, <2>1, DivUnique
    <3> QED BY <2>1, <3>1
  <2>3. Slot(r, b + 1) = Slot(r, b) + 1
    BY <1>1, <1>3, <1>4, <2>2
  <2> QED BY <1>m, <1>5, <2>3
<1>6. CASE m = r - 1
  <2>1. b + 1 = r * (q + 1) + 0
    BY <1>1, <1>6
  <2>2. (b + 1) \div r = q + 1
    <3>1. (r * (q + 1) + 0) \div r = q + 1
      BY <1>1, DivUnique
    <3> QED BY <2>1, <3>1
  <2>3. Slot(r, b + 1) = Slot(r, b) + 2
    BY <1>1, <1>3, <1>4, <2>2
  <2>4. (Slot(r, b) + 1) % (r + 1) = r
    <3>1. Slot(r, b) + 1 = (r + 1) * q + r
      BY <1>1, <1>2, <1>6
    <3>2. r + 1 \in Nat \ {0} /\ r \in 0 .. (r + 1) - 1
      OBVIOUS
    <3>3. ((r + 1) * q + r) % (r + 1) = r
      BY <1>1, <3>2, DivUnique
    <3> QED BY <3>1, <3>3
  <2> QED BY <1>m, <1>6, <2>3, <2>4
<1> QED BY <1>5, <1>6

LEMMA DivMonotone ==
    ASSUME NEW r \in Nat \ {0}, NEW a \in Nat, NEW b \in Nat, a <= b
    PROVE  a \div r <= b \div r
<1> DEFINE p == a \div r
           q == b \div r
           m == b % r
<1>1. p \in Nat /\ r * p <= a /\ q \in Nat /\ m \in 0 .. r - 1 /\ b = r * q + m
  <2>1. a % r \in 0 .. r - 1 /\ a = r * (a \div r) + (a % r) /\ p \in Nat
    BY DivMod
  <2>2. q \in Nat /\ m \in 0 .. r - 1 /\ b = r * q + m
    BY DivMod
  <2> QED BY <2>1, <2>2
<1> HIDE DEF p, q, m
<1>2. SUFFICES ASSUME q + 1 <= p PROVE FALSE
  BY <1>1 DEF p, q
<1>3. r * (q + 1) <= r * p
  BY <1>1, <1>2
<1>4. r * (q + 1) = r * q + r
  BY <1>1
<1> QED BY <1>1, <1>3, <1>4

LEMMA SlotMonotone ==
    ASSUME NEW r \in Nat \ {0}, NEW a \in Nat, NEW b \in Nat, a < b
    PROVE  Slot(r, a) < Slot(r, b)
<1>1. a \div r <= b \div r /\ a \div r \in Nat /\ b \div r \in Nat
  BY DivMonotone, DivMod
<1> QED BY <1>1 DEF Slot

\* A slot that is not a bitmap's is that of a block.
LEMMA SlotOnto ==
    ASSUME NEW r \in Nat \ {0}, NEW i \in Nat, i % (r + 1) # r
    PROVE  \E b \in Nat : i = Slot(r, b)
<1> DEFINE q == i \div (r + 1)
           m == i % (r + 1)
           b == r * q + m
<1>1. q \in Nat /\ m \in 0 .. r - 1 /\ i = (r + 1) * q + m
  <2>1. r + 1 \in Nat \ {0}
    OBVIOUS
  <2>2. q \in Nat /\ m \in 0 .. (r + 1) - 1 /\ i = (r + 1) * q + m
    BY <2>1, DivMod
  <2> QED BY <2>2
<1> HIDE DEF q, m
<1>2. b \in Nat /\ b \div r = q
  <2>1. b \in Nat
    BY <1>1
  <2> QED BY <2>1, <1>1, DivUnique
<1>3. Slot(r, b) = b + q
  BY <1>2 DEF Slot
<1>4. b + q = i
  BY <1>1
<1> QED BY <1>2, <1>3, <1>4

\* The slots before that of block b that are not bitmaps'.
BlockSlots(r, b) == {j \in 0 .. Slot(r, b) - 1 : j % (r + 1) # r}

LEMMA SlotsCounted ==
    ASSUME NEW r \in Nat \ {0}, NEW b \in Nat
    PROVE  IsFiniteSet(BlockSlots(r, b)) /\ Cardinality(BlockSlots(r, b)) = b
<1> DEFINE P(n) == BlockSlots(r, n)
           S == {n \in Nat : IsFiniteSet(P(n)) /\ Cardinality(P(n)) = n}
<1>1. 0 \in S
  <2>1. Slot(r, 0) = 0
    <3>1. r * 0 + 0 = 0 /\ (r * 0 + 0) \div r = 0
      BY DivUnique
    <3> QED BY <3>1 DEF Slot
  <2>2. P(0) = {}
    BY <2>1 DEF BlockSlots
  <2> QED BY <2>2, FS_EmptySet
<1>2. ASSUME NEW n \in Nat, n \in S PROVE n + 1 \in S
  <2> DEFINE s == Slot(r, n)
             t == Slot(r, n + 1)
             OfBlock(j) == j % (r + 1) # r
  <2>1. s \in Nat /\ OfBlock(s)
    BY SlotIs
  <2>2. t = s + 1 \/ (t = s + 2 /\ ~OfBlock(s + 1))
    BY SlotNext
  <2>3. P(n + 1) = {j \in 0 .. t - 1 : OfBlock(j)} /\ P(n) = {j \in 0 .. s - 1 : OfBlock(j)}
    BY DEF BlockSlots
  <2> HIDE DEF s, t, OfBlock, P
  <2>5. \A j : j \in P(n + 1) <=> j \in P(n) \/ j = s
    <3> TAKE j
    <3>1. j \in 0 .. t - 1 <=> j \in 0 .. s - 1 \/ j = s \/ (j = s + 1 /\ t = s + 2)
      BY <2>1, <2>2
    <3>2. j = s + 1 /\ t = s + 2 => ~OfBlock(j)
      BY <2>1, <2>2
    <3> QED BY <2>1, <2>3, <3>1, <3>2
  <2>6. P(n + 1) = P(n) \cup {s} /\ s \notin P(n)
    BY <2>1, <2>3, <2>5
  <2>7. IsFiniteSet(P(n)) /\ Cardinality(P(n)) = n
    BY <1>2
  <2>8. IsFiniteSet(P(n + 1)) /\ Cardinality(P(n + 1)) = n + 1
    BY <2>6, <2>7, FS_AddElement
  <2> QED BY <2>8
<1>3. b \in S
  <2> HIDE DEF S
  <2> QED BY <1>1, <1>2, SetInduction
<1> QED BY <1>3

LEMMA CeilDivIs ==
    ASSUME NEW a \in Nat \ {0}, NEW b \in Nat \ {0}
    PROVE  CeilDiv(a, b) \in Nat \ {0} /\ (CeilDiv(a, b) - 1) * b < a /\ a <= CeilDiv(a, b) * b
<1> DEFINE c == a + b - 1
           q == c \div b
           m == c % b
<1>1. q \in Nat /\ m \in 0 .. b - 1 /\ c = b * q + m
  <2>1. c \in Nat
    OBVIOUS
  <2> HIDE DEF c
  <2> QED BY <2>1, DivMod
<1>2. CeilDiv(a, b) = q
  BY DEF CeilDiv
<1> HIDE DEF q, m
<1>3. b * q = a + b - 1 - m
  BY <1>1
<1>4. q # 0
  <2>1. b * 0 = 0
    OBVIOUS
  <2> QED BY <1>1, <1>3, <2>1
<1>5. q * b = b * q /\ (q - 1) * b = b * q - b /\ b * q \in Int
  BY <1>1
<1>6. (q - 1) * b < a /\ a <= q * b
  BY <1>1, <1>3, <1>5
<1> QED BY <1>1, <1>2, <1>4, <1>6

LEMMA ProductMonotone ==
    ASSUME NEW a \in Nat, NEW b \in Nat, NEW c \in Nat, a <= b
    PROVE  a * c <= b * c
<1>1. PICK d \in Nat : b = a + d
  <2>1. b - a \in Nat /\ b = a + (b - a)
    OBVIOUS
  <2> QED BY <2>1
<1>2. b * c = a * c + d * c /\ d * c \in Nat /\ a * c \in Nat
  BY <1>1
<1> QED BY <1>2

\* The payload entries of a table of t entries, rounded down, are those before slot t,
\* or one fewer.
LEMMA PayloadRounded ==
    ASSUME NEW r \in Nat \ {0}, NEW t \in Nat, NEW n \in Nat
    PROVE  LET p == (t * r) \div (r + 1) IN
           /\ p \in Nat
           /\ t <= Slot(r, n) => p <= n
           /\ t > Slot(r, n) => n <= p
<1> DEFINE p == (t * r) \div (r + 1)
           q == n \div r
           m == n % r
           u == r * (r + 1) * q
<1>1. q \in Nat /\ m \in 0 .. r - 1 /\ n = r * q + m /\ Slot(r, n) = (r + 1) * q + m
  BY DivMod, SlotIs
<1>2. t * r \in Nat /\ r + 1 \in Nat \ {0} /\ p \in Nat
  <2>1. t * r \in Nat /\ r + 1 \in Nat \ {0}
    OBVIOUS
  <2> QED BY <2>1, DivMod
<1> HIDE DEF q, m
<1>u. u \in Nat
  BY <1>1
<1>3. ((r + 1) * q + m) * r = u + m * r
  BY <1>1
<1>4. ((r + 1) * q + m + 1) * r = u + m * r + r
  BY <1>1
<1>5. n * (r + 1) = u + m * r + m
  BY <1>1
<1>6. (n + 1) * (r + 1) = u + m * r + m + r + 1
  BY <1>1
<1>7. m * r \in Nat
  BY <1>1
<1> HIDE DEF u
<1>8. ASSUME t <= Slot(r, n) PROVE p <= n
  <2>1. t * r <= ((r + 1) * q + m) * r
    <3>1. (r + 1) * q + m \in Nat /\ t <= (r + 1) * q + m
      BY <1>1, <1>8
    <3> QED BY <3>1, ProductMonotone
  <2>2. t * r < (n + 1) * (r + 1)
    BY <1>1, <1>2, <1>3, <1>6, <1>7, <1>u, <2>1
  <2>3. p < n + 1
    <3>1. n + 1 \in Nat
      OBVIOUS
    <3> HIDE DEF p
    <3> QED BY <1>2, <2>2, <3>1, DivBelow DEF p
  <2> QED BY <1>2, <2>3
<1>9. ASSUME t > Slot(r, n) PROVE n <= p
  <2>1. ((r + 1) * q + m + 1) * r <= t * r
    <3>1. (r + 1) * q + m + 1 \in Nat /\ (r + 1) * q + m + 1 <= t
      BY <1>1, <1>9
    <3> QED BY <3>1, ProductMonotone
  <2>2. n * (r + 1) <= t * r /\ n * (r + 1) \in Nat
    BY <1>1, <1>2, <1>4, <1>5, <1>7, <1>u, <2>1
  <2>3. (n * (r + 1)) \div (r + 1) <= p
    BY <1>2, <2>2, DivMonotone
  <2>4. (n * (r + 1)) \div (r + 1) = n
    <3>1. ((r + 1) * n + 0) \div (r + 1) = n
      BY <1>2, DivUnique
    <3>2. n * (r + 1) = (r + 1) * n + 0
      OBVIOUS
    <3> QED BY <3>1, <3>2
  <2> QED BY <2>3, <2>4
<1> QED BY <1>2, <1>8, <1>9

-----------------------------------------------------------------------------
(* Sorted lists                                                            *)

LEMMA NeighboursRise ==
    ASSUME NEW n \in Nat, NEW f \in [1 .. n -> Int],
           \A k \in 1 .. n - 1 : f[k] <= f[k + 1]
    PROVE  \A a, b \in 1 .. n : a <= b => f[a] <= f[b]
<1> DEFINE S == {d \in Nat : \A a \in 1 .. n : a + d <= n => f[a] <= f[a + d]}
<1>1. 0 \in S
  OBVIOUS
<1>2. ASSUME NEW d \in Nat, d \in S PROVE d + 1 \in S
  <2>1. ASSUME NEW a \in 1 .. n, a + (d + 1) <= n PROVE f[a] <= f[a + (d + 1)]
    <3>1. f[a] <= f[a + d] /\ a + d \in 1 .. n - 1 /\ a + (d + 1) = (a + d) + 1
      BY <1>2, <2>1
    <3>2. f[a + d] <= f[a + (d + 1)]
      BY <3>1
    <3>3. f[a] \in Int /\ f[a + d] \in Int /\ f[a + (d + 1)] \in Int
      BY <2>1, <3>1
    <3> QED BY <3>1, <3>2, <3>3
  <2> QED BY <2>1
<1>3. Nat \subseteq S
  <2> HIDE DEF S
  <2> QED BY <1>1, <1>2, SetInduction
<1>4. ASSUME NEW a \in 1 .. n, NEW b \in 1 .. n, a <= b PROVE f[a] <= f[b]
  <2>1. b - a \in Nat /\ a + (b - a) = b
    BY <1>4
  <2>2. b - a \in S
    BY <1>3, <2>1
  <2> QED BY <1>4, <2>1, <2>2
<1> QED BY <1>4

\* Each element of a set has a place in every list of the set.
LEMMA EachHasAPlace ==
    ASSUME NEW S, IsFiniteSet(S), NEW s \in SetToSeqs(S)
    PROVE  /\ Len(s) = Cardinality(S) /\ Len(s) \in Nat /\ s \in [1 .. Len(s) -> S]
           /\ \A x \in S : \E k \in 1 .. Len(s) : s[k] = x
<1> DEFINE n == Cardinality(S)
<1>1. n \in Nat
  BY FS_CardinalityType
<1>2. s \in [1 .. n -> S] /\ \A i, j \in 1 .. n : i # j => s[i] # s[j]
  BY DEF SetToSeqs
<1>3. Cardinality(1 .. n) = n
  BY <1>1, FS_Interval
<1>4. s \in Injection(1 .. n, S)
  BY <1>2 DEF Injection, IsInjective
<1>5. s \in Surjection(1 .. n, S)
  BY <1>3, <1>4, FS_Injection
<1>6. Len(s) = n
  BY <1>1, <1>2
<1> QED BY <1>1, <1>2, <1>5, <1>6 DEF Surjection

-----------------------------------------------------------------------------
(* Images                                                                  *)

LEMMA MaxIs ==
    ASSUME NEW S, S \subseteq Nat, S # {}, NEW n \in Nat, \A x \in S : x <= n
    PROVE  Max(S) \in S /\ \A x \in S : x <= Max(S)
<1> DEFINE T == {n - x : x \in S}
<1>0. \A x \in S : x \in Nat /\ x <= n
  <2> HIDE DEF T
  <2> QED OBVIOUS
<1>1. T \subseteq Nat /\ T # {}
  <2>1. \A x \in S : n - x \in Nat
    <3> HIDE DEF T
    <3> QED BY <1>0
  <2>2. \A y \in T : y \in Nat
    BY <2>1
  <2>3. PICK x : x \in S
    OBVIOUS
  <2>4. n - x \in T
    BY <2>3
  <2> HIDE DEF T
  <2> QED BY <2>2, <2>4
<1>2. PICK t \in T : \A u \in T : t <= u
  <2> HIDE DEF T
  <2> QED BY <1>1, LeastNatural
<1>3. PICK x \in S : t = n - x
  BY <1>2
<1>4. \A y \in S : x >= y
  <2> TAKE y \in S
  <2>1. n - y \in T
    OBVIOUS
  <2>2. t <= n - y
    BY <1>2, <2>1
  <2> QED BY <1>3, <2>2
<1>5. Max(S) \in S /\ \A y \in S : Max(S) >= y
  BY <1>3, <1>4 DEF Max
<1> HIDE DEF T
<1> QED BY <1>0, <1>5

LEMMA ElementIn ==
    ASSUME NEW S, NEW s \in Seq(S)
    PROVE  Len(s) \in Nat /\ DOMAIN s = 1 .. Len(s) /\ \A i \in DOMAIN s : s[i] \in S
OBVIOUS

LEMMA ImageShape == img \in Image => IsImage(img)
BY FindingsAssumption

LEMMA RegionShape ==
    ASSUME img \in Image, NEW name, Named(name) # {}
    PROVE  \E k \in DOMAIN img.regions :
              /\ RegionOf(name) = img.regions[k] /\ img.regions[k].name = name
              /\ k \in LastPlaces(img.regions, name)
              /\ RegionOf(name).at \in Nat /\ RegionOf(name).len \in Nat
<1>1. img.regions \in Seq([name : STRING, at : Nat, len : Nat, required : BOOLEAN])
  BY ImageShape DEF IsImage
<1> DEFINE r == img.regions
           n == Len(r)
<1>2. n \in Nat /\ DOMAIN r = 1 .. n
  BY <1>1
<1>3. Named(name) \subseteq Nat /\ \A x \in Named(name) : x <= n
  BY <1>2 DEF Named
<1> DEFINE k == Max(Named(name))
<1>4. k \in Named(name) /\ \A x \in Named(name) : x <= k
  <2> HIDE DEF k, n
  <2> QED BY <1>2, <1>3, MaxIs DEF k
<1>5. k \in 1 .. n /\ r[k].name = name /\ RegionOf(name) = r[k]
  BY <1>2, <1>4 DEF Named, RegionOf
<1>6. \A l \in k + 1 .. n : r[l].name # name
  <2> HIDE DEF k
  <2> TAKE l \in k + 1 .. n
  <2>1. l \in 1 .. n /\ l > k
    BY <1>2, <1>5
  <2> QED BY <1>2, <1>4, <2>1 DEF Named
<1>7. k \in LastPlaces(r, name)
  BY <1>2, <1>5, <1>6 DEF LastPlaces
<1>8. r[k] \in [name : STRING, at : Nat, len : Nat, required : BOOLEAN]
  BY <1>1, <1>2, <1>5, ElementIn
<1> HIDE DEF k
<1> QED BY <1>2, <1>5, <1>7, <1>8

LEMMA EntryShape ==
    ASSUME img \in Image, NEW i \in 0 .. Len(img.bat) - 1
    PROVE  EntryAt(img, i).state \in 0 .. 7 /\ EntryAt(img, i).mib \in Nat
<1>1. img.bat \in Seq(Entry)
  BY ImageShape DEF IsImage
<1>2. img.bat[i + 1] \in Entry
  BY <1>1
<1> QED BY <1>2 DEF EntryAt, Entry

LEMMA ItemShape ==
    ASSUME img \in Image
    PROVE  /\ Len(img.items) \in Nat /\ DOMAIN img.items = 1 .. Len(img.items)
           /\ \A i \in DOMAIN img.items :
                 /\ img.items[i].off \in Nat /\ img.items[i].len \in Nat
                 /\ ItemEnd(i) = img.items[i].off + img.items[i].len
<1>1. img.items \in Seq([name : STRING, off : Nat, len : Nat])
  BY ImageShape DEF IsImage
<1>2. \A i \in DOMAIN img.items : img.items[i] \in [name : STRING, off : Nat, len : Nat]
  BY <1>1, ElementIn
<1> QED BY <1>1, <1>2 DEF ItemEnd

LEMMA NeedIs == \A name : Need(name) \in {0, 1, 2}
BY DEF Need

\* A geometry that validate accepts has whole chunks.
LEMMA AcceptedShape ==
    ASSUME NEW g, Accepted(g)
    PROVE  /\ g.blockSize \in Nat \ {0} /\ g.sectorSize \in Nat \ {0} /\ g.vds \in Nat \ {0}
           /\ ChunkRatio(g) \in Nat \ {0} /\ RatioKnown(g) /\ SizesKnown(g)
           /\ Blocks(g) \in Nat \ {0}
           /\ (Blocks(g) - 1) * g.blockSize < g.vds /\ g.vds <= Blocks(g) * g.blockSize
<1> DEFINE b == g.blockSize
           a == SectorsPerBitmap * g.sectorSize
<1>1. b \in Nat \ {0} /\ g.sectorSize \in Nat \ {0} /\ g.vds \in Nat \ {0}
  <2>1. b \in BlockSizes /\ g.sectorSize \in SectorSizes /\ g.vds \in 1 .. MaxDisk
    BY DEF Accepted
  <2>2. BlockSizes \subseteq Nat \ {0} /\ SectorSizes \subseteq Nat \ {0} /\ MaxDisk \in Nat
    BY FindingsAssumption
  <2>3. b \in Nat \ {0} /\ g.sectorSize \in Nat \ {0}
    BY <2>1, <2>2, Zenon
  <2>4. g.vds \in Nat \ {0}
    BY <2>1, <2>2
  <2> QED BY <2>3, <2>4
<1>2. a \in Nat \ {0}
  <2>1. SectorsPerBitmap \in Nat \ {0}
    BY BatAssumption
  <2> QED BY <1>1, <2>1
<1>3. a % b = 0
  BY FindingsAssumption DEF Accepted
<1>4. ChunkRatio(g) = a \div b
  BY DEF ChunkRatio
<1> HIDE DEF a, b
<1>5. a \div b \in Nat /\ a = b * (a \div b) + (a % b)
  BY <1>1, <1>2, DivMod
<1>6. a \div b # 0
  <2>1. b * 0 = 0
    BY <1>1
  <2> QED BY <1>2, <1>3, <1>5, <2>1
<1>7. Blocks(g) = CeilDiv(g.vds, b)
  BY DEF Blocks, b
<1>8. /\ Blocks(g) \in Nat \ {0}
      /\ (Blocks(g) - 1) * g.blockSize < g.vds /\ g.vds <= Blocks(g) * g.blockSize
  BY <1>1, <1>7, CeilDivIs DEF b
<1>9. RatioKnown(g) /\ SizesKnown(g)
  BY <1>1 DEF RatioKnown, SizesKnown, Missing, b
<1> QED BY <1>1, <1>4, <1>5, <1>6, <1>8, <1>9 DEF b

\* Under such a geometry the reader's index of a block is its slot.
LEMMA IndexIsSlot ==
    ASSUME NEW g, Accepted(g)
    PROVE  /\ \A b \in Nat : BatIndex(g, b) = Slot(ChunkRatio(g), b)
           /\ \A i \in Nat : IsBitmapSlot(g, i) <=> i % (ChunkRatio(g) + 1) = ChunkRatio(g)
BY AcceptedShape DEF BatIndex, Slot, IsBitmapSlot

-----------------------------------------------------------------------------
(* The layers, one after the other                                         *)

PastMetadata == pc \in {"table", "trailing", "ghost", "done", "panicked"}

OverSaid ==
    LET g == AnalyserGeometry IN SizesKnown(g) /\ RatioKnown(g) /\ g.vds > Coverage(g)

\* What each layer finds is there once the layer is past.
FindingsInv ==
    /\ img \in Image
    /\ pc \in {"layout", "metadata", "table", "trailing", "ghost", "done", "panicked"}
    /\ pc \notin {"layout", "done"} => HasRegions
    /\ pc # "layout" => LayoutFindings \subseteq found
    /\ HasRegions /\ PastMetadata =>
          /\ FieldFindings \subseteq found
          /\ \E order \in ByOffset(Compared) : ItemFindings(order) \subseteq found
    /\ pc = "table" => TableScanned
    /\ HasRegions /\ TableScanned /\ pc \in {"trailing", "ghost", "done"} =>
          \E order \in ByPlace(Present(AnalyserGeometry)) : TableFindings(order) \subseteq found
    /\ HasRegions /\ pc \in {"ghost", "done"} => TrailingFindings \subseteq found
    /\ HasRegions /\ pc = "done" => GhostFindings \subseteq found
    /\ Found("over") => OverSaid

\* The findings of a layer depend on the image only.
LEMMA Unmoved ==
    ASSUME img' = img
    PROVE  /\ HasRegions' = HasRegions /\ TableScanned' = TableScanned
           /\ LayoutFindings' = LayoutFindings /\ FieldFindings' = FieldFindings
           /\ ByOffset(Compared)' = ByOffset(Compared)
           /\ \A order : ItemFindings(order)' = ItemFindings(order)
           /\ ByPlace(Present(AnalyserGeometry))' = ByPlace(Present(AnalyserGeometry))
           /\ \A order : TableFindings(order)' = TableFindings(order)
           /\ TrailingFindings' = TrailingFindings /\ GhostFindings' = GhostFindings
           /\ OverSaid' = OverSaid
<1> DEFINE g == AnalyserGeometry
<1>1. HasRegions' = HasRegions
  BY DEF HasRegions, Named
<1>2. TableScanned' = TableScanned
  BY DEF TableScanned, RegionOf, RegionEnd, Named
<1>3. LayoutFindings' = LayoutFindings
  BY DEF LayoutFindings, KnownRegions, RegionPairs, Meets, RegionEnd
<1>4. g' = g
  BY DEF AnalyserGeometry, Geometry, LastOf, AnalyserTakes, MetadataInside, RegionEnd,
    RegionOf, Named, SectorOr
<1>5. FieldFindings' = FieldFindings
  BY <1>4 DEF FieldFindings, DiskWrong
<1>6. ByOffset(Compared)' = ByOffset(Compared) /\ Compared' = Compared
  BY DEF ByOffset, Compared
<1>7. \A order : ItemFindings(order)' = ItemFindings(order)
  BY <1>6 DEF ItemFindings, ItemsMeet, ItemEnd, MetadataInside, RegionEnd, RegionOf, Named
<1>8. Present(g)' = Present(g)
  BY <1>4 DEF Present, EntryAt, IsBitmapSlot, RatioKnown, ChunkRatio
<1>9. ByPlace(Present(g))' = ByPlace(Present(g))
  BY <1>8 DEF ByPlace, EntryAt
<1>10. StateFindings(g)' = StateFindings(g)
  BY <1>4, <1>8 DEF StateFindings, BitmapFinding, BlockFinding, EntryAt, HasEntry,
    IsBitmapSlot, RatioKnown, ChunkRatio, BitmapOf
<1>11. \A order : TableFindings(order)' = TableFindings(order)
  BY <1>4, <1>8, <1>10 DEF TableFindings, EntryAt, SizesKnown, RatioKnown, ChunkRatio,
    ExpectedLen, ExpectedEntries, RegionOf, Named, Coverage
<1>12. TrailingFindings' = TrailingFindings
  BY <1>4 DEF TrailingFindings, LastEnd, BlockEnds, Held, RegionOf, Named, PlaceOf, EntryAt,
    TableEnd, RegionEnd
<1>13. GhostFindings' = GhostFindings
  BY <1>4 DEF GhostFindings, Held, RegionOf, Named, PlaceOf, EntryAt, IsBitmapSlot,
    RatioKnown, ChunkRatio
<1>14. OverSaid' = OverSaid
  BY <1>4 DEF OverSaid, SizesKnown, RatioKnown, Coverage, ChunkRatio
<1> QED BY <1>1, <1>2, <1>3, <1>5, <1>6, <1>7, <1>9, <1>11, <1>12, <1>13, <1>14

\* Only one layer speaks of the size of the disk, and only where it is so.
LEMMA OverIsOwn ==
    /\ \A f \in LayoutFindings \cup FieldFindings \cup TrailingFindings \cup GhostFindings :
          f[1] # "over"
    /\ \A order : \A f \in ItemFindings(order) : f[1] # "over"
    /\ \A order : \A f \in TableFindings(order) : f[1] = "over" => OverSaid
<1>1. \A f \in LayoutFindings : f[1] # "over"
  BY DEF LayoutFindings
<1>2. \A f \in FieldFindings : f[1] # "over"
  BY DEF FieldFindings
<1>3. \A f \in TrailingFindings : f[1] # "over"
  BY DEF TrailingFindings
<1>4. \A f \in GhostFindings : f[1] # "over"
  BY DEF GhostFindings
<1>5. \A order : \A f \in ItemFindings(order) : f[1] # "over"
  BY DEF ItemFindings
<1>6. ASSUME NEW order, NEW f \in TableFindings(order), f[1] = "over" PROVE OverSaid
  <2> DEFINE g == AnalyserGeometry
  <2>1. \A e \in StateFindings(g) : e[1] # "over"
    <3>1. \A i : \A e \in BitmapFinding(i) : e[1] # "over"
      BY DEF BitmapFinding
    <3>2. \A i : \A e \in BlockFinding(g, i) : e[1] # "over"
      BY DEF BlockFinding
    <3> QED BY <3>1, <3>2 DEF StateFindings
  <2> QED BY <1>6, <2>1 DEF TableFindings, OverSaid
<1> QED BY <1>1, <1>2, <1>3, <1>4, <1>5, <1>6

LEMMA FindingsStep == FindingsInv /\ [Next]_vars => FindingsInv'
<1> SUFFICES ASSUME FindingsInv, [Next]_vars PROVE FindingsInv'
  OBVIOUS
<1> USE DEF FindingsInv
<1>0. img' = img
  BY DEF Next, vars, CheckLayout, CheckMetadata, CheckTable, TablePanics, CheckTrailing, CheckGhosts
<1>u. /\ HasRegions' = HasRegions /\ TableScanned' = TableScanned
      /\ LayoutFindings' = LayoutFindings /\ FieldFindings' = FieldFindings
      /\ ByOffset(Compared)' = ByOffset(Compared)
      /\ \A order : ItemFindings(order)' = ItemFindings(order)
      /\ ByPlace(Present(AnalyserGeometry))' = ByPlace(Present(AnalyserGeometry))
      /\ \A order : TableFindings(order)' = TableFindings(order)
      /\ TrailingFindings' = TrailingFindings /\ GhostFindings' = GhostFindings
      /\ OverSaid' = OverSaid
  BY <1>0, Unmoved
<1>1. CASE CheckLayout
  <2>1. Found("over")' => OverSaid
    BY <1>1, OverIsOwn DEF CheckLayout, Found
  <2> QED BY <1>0, <1>u, <1>1, <2>1 DEF CheckLayout, PastMetadata
<1>2. CASE CheckMetadata
  <2>1. PICK order \in ByOffset(Compared) :
           found' = found \cup FieldFindings \cup ItemFindings(order)
    BY <1>2 DEF CheckMetadata
  <2>2. Found("over")' => OverSaid
    BY <2>1, OverIsOwn DEF Found
  <2> QED BY <1>0, <1>u, <1>2, <2>1, <2>2 DEF CheckMetadata, PastMetadata
<1>3. CASE CheckTable
  <2>1. PICK order \in ByPlace(Present(AnalyserGeometry)) :
           found' = found \cup TableFindings(order)
    BY <1>3 DEF CheckTable
  <2>2. Found("over")' => OverSaid
    BY <2>1, OverIsOwn DEF Found
  <2> QED BY <1>0, <1>u, <1>3, <2>1, <2>2 DEF CheckTable, PastMetadata
<1>4. CASE TablePanics
  BY <1>0, <1>u, <1>4 DEF TablePanics, PastMetadata, Found
<1>5. CASE CheckTrailing
  <2>1. Found("over")' => OverSaid
    BY <1>5, OverIsOwn DEF CheckTrailing, Found
  <2> QED BY <1>0, <1>u, <1>5, <2>1 DEF CheckTrailing, PastMetadata
<1>6. CASE CheckGhosts
  <2>1. Found("over")' => OverSaid
    BY <1>6, OverIsOwn DEF CheckGhosts, Found
  <2> QED BY <1>0, <1>u, <1>6, <2>1 DEF CheckGhosts, PastMetadata
<1>7. CASE UNCHANGED vars
  BY <1>0, <1>u, <1>7 DEF vars, PastMetadata, Found
<1> QED BY <1>1, <1>2, <1>3, <1>4, <1>5, <1>6, <1>7 DEF Next

LEMMA FindingsAlways == Spec => []FindingsInv
<1>1. Init => FindingsInv
  BY DEF Init, FindingsInv, PastMetadata, Found
<1> QED BY <1>1, FindingsStep, PTL DEF Spec

-----------------------------------------------------------------------------
(* What follows                                                            *)

LEMMA SlotsAre == img \in Image => SlotsAgree
<1> DEFINE g == AnalyserGeometry
           r == ChunkRatio(g)
<1> SUFFICES ASSUME img \in Image, Accepted(g), NEW b \in 0 .. Blocks(g) - 1
             PROVE  LET i == BatIndex(g, b)
                        j == BitmapIndex(g, b)
                    IN  /\ ~IsBitmapSlot(g, i) /\ PayloadBefore(g, i) = b
                        /\ i < j /\ IsBitmapSlot(g, j)
                        /\ \A k \in i .. j - 1 : ~IsBitmapSlot(g, k)
  BY DEF SlotsAgree
<1>1. r \in Nat \ {0} /\ b \in Nat
  BY AcceptedShape
<1>2. BatIndex(g, b) = Slot(r, b) /\ \A i \in Nat : IsBitmapSlot(g, i) <=> i % (r + 1) = r
  BY <1>1, IndexIsSlot
<1>g. BitmapIndex(g, b) = (b \div r) * (r + 1) + r
  BY DEF BitmapIndex
<1> DEFINE i == BatIndex(g, b)
           j == BitmapIndex(g, b)
           q == b \div r
           m == b % r
<1>p. PayloadBefore(g, i) = Cardinality({k \in 0 .. i - 1 : ~IsBitmapSlot(g, k)})
  BY DEF PayloadBefore
<1> HIDE DEF g, r
<1>3. /\ i \in Nat /\ i = (r + 1) * q + m /\ i % (r + 1) = m /\ m \in 0 .. r - 1 /\ q \in Nat
  <2>1. /\ Slot(r, b) \in Nat /\ Slot(r, b) = (r + 1) * (b \div r) + (b % r)
        /\ Slot(r, b) % (r + 1) = b % r /\ b % r \in 0 .. r - 1
    BY <1>1, SlotIs
  <2>2. b \div r \in Nat
    BY <1>1, DivMod
  <2> QED BY <1>2, <2>1, <2>2, Zenon DEF i, q, m
<1>4. j = (r + 1) * q + r /\ j \in Nat
  BY <1>1, <1>3, <1>g
<1> HIDE DEF i, j, q, m
<1>5. \A k \in i .. j : k % (r + 1) = k - (r + 1) * q /\ k \in Nat
  <2> TAKE k \in i .. j
  <2> DEFINE d == k - (r + 1) * q
  <2>1. (r + 1) * q \in Nat
    BY <1>1, <1>3
  <2>2. d \in 0 .. (r + 1) - 1 /\ k = (r + 1) * q + d /\ k \in Nat
    BY <1>1, <1>3, <1>4, <2>1
  <2>3. r + 1 \in Nat \ {0} /\ q \in Int
    BY <1>1, <1>3
  <2> HIDE DEF d
  <2>4. ((r + 1) * q + d) % (r + 1) = d
    BY <2>2, <2>3, DivUnique
  <2> QED BY <2>2, <2>4 DEF d
<1>6. i < j
  <2>1. (r + 1) * q \in Nat
    BY <1>1, <1>3
  <2> QED BY <1>1, <1>3, <1>4, <2>1
<1>7. IsBitmapSlot(g, j)
  <2>1. j % (r + 1) = j - (r + 1) * q
    BY <1>3, <1>4, <1>5, <1>6
  <2>2. (r + 1) * q \in Nat
    BY <1>1, <1>3
  <2>3. j % (r + 1) = r
    BY <1>1, <1>4, <2>1, <2>2
  <2> QED BY <1>2, <1>4, <2>3
<1>8. \A k \in i .. j - 1 : ~IsBitmapSlot(g, k)
  <2> TAKE k \in i .. j - 1
  <2>1. k % (r + 1) = k - (r + 1) * q /\ k \in Nat
    BY <1>3, <1>4, <1>5
  <2>2. (r + 1) * q \in Nat
    BY <1>1, <1>3
  <2>3. k % (r + 1) # r
    BY <1>1, <1>3, <1>4, <2>1, <2>2
  <2> QED BY <1>2, <2>1, <2>3
<1>9. PayloadBefore(g, i) = b
  <2>1. {k \in 0 .. i - 1 : ~IsBitmapSlot(g, k)} = BlockSlots(r, b)
    BY <1>2, <1>3 DEF BlockSlots, i
  <2>2. Cardinality(BlockSlots(r, b)) = b
    BY <1>1, SlotsCounted
  <2> QED BY <1>p, <2>1, <2>2
<1> QED BY <1>6, <1>7, <1>8, <1>9, <1>3, <1>2 DEF i, j, g

\* The reader's two indexes of a block and the analyser's test for bitmap entries
\* describe one table, for every geometry that validate accepts (bat.rs:75, 103-104;
\* integrity.rs:1925).
THEOREM SlotsAlwaysAgree == Spec => []SlotsAgree
<1>1. FindingsInv => SlotsAgree
  BY SlotsAre DEF FindingsInv
<1> QED BY <1>1, FindingsAlways, PTL

LEMMA CoverageIs == FindingsInv => CoverageBrackets
<1> DEFINE g == AnalyserGeometry
           r == ChunkRatio(g)
           t == Len(img.bat)
           p == (t * r) \div (r + 1)
           n == Blocks(g)
           bs == g.blockSize
<1> SUFFICES ASSUME FindingsInv, pc = "done", HasRegions, TableScanned, Accepted(g)
             PROVE  /\ ~HasEntry(img, BatIndex(g, n - 1)) => Found("over")
                    /\ Found("over") => ~HasEntry(img, BatIndex(g, n))
  BY DEF CoverageBrackets
<1>1. r \in Nat \ {0} /\ n \in Nat \ {0} /\ bs \in Nat \ {0} /\ g.vds \in Nat
      /\ RatioKnown(g) /\ SizesKnown(g)
      /\ (n - 1) * bs < g.vds /\ g.vds <= n * bs
  BY AcceptedShape
<1>2. t \in Nat
  <2>1. img.bat \in Seq(Entry)
    BY ImageShape DEF IsImage, FindingsInv
  <2> QED BY <2>1, ElementIn
<1>3. BatIndex(g, n - 1) = Slot(r, n - 1) /\ BatIndex(g, n) = Slot(r, n)
  BY <1>1, IndexIsSlot
<1>4. OverSaid <=> g.vds > p * bs
  BY <1>1 DEF OverSaid, Coverage
<1>5. Found("over") <=> OverSaid
  <2>1. Found("over") => OverSaid
    BY DEF FindingsInv
  <2>2. PICK order : TableFindings(order) \subseteq found
    BY DEF FindingsInv
  <2>3. OverSaid => <<"over", 0, 0>> \in TableFindings(order)
    BY DEF OverSaid, TableFindings
  <2> QED BY <2>1, <2>2, <2>3 DEF Found
<1>6. \A i \in Int : HasEntry(img, i) <=> i < t
  BY DEF HasEntry
<1> HIDE DEF g, r, t, n, bs, p
<1>7. p \in Nat /\ (t <= Slot(r, n - 1) => p <= n - 1) /\ (t > Slot(r, n) => n <= p)
      /\ Slot(r, n - 1) \in Nat /\ Slot(r, n) \in Nat
  <2>1. n - 1 \in Nat /\ n \in Nat
    BY <1>1
  <2> QED BY <1>1, <1>2, <2>1, PayloadRounded, SlotIs DEF p
<1>8. p <= n - 1 => g.vds > p * bs
  <2>1. SUFFICES ASSUME p <= n - 1 PROVE p * bs < g.vds
    BY <1>1, <1>7
  <2>2. n - 1 \in Nat /\ bs \in Nat
    BY <1>1
  <2>3. p * bs <= (n - 1) * bs
    BY <1>7, <2>1, <2>2, ProductMonotone
  <2>4. p * bs \in Nat /\ (n - 1) * bs \in Nat
    BY <1>7, <2>2
  <2> QED BY <1>1, <2>3, <2>4
<1>9. n <= p => ~(g.vds > p * bs)
  <2>1. SUFFICES ASSUME n <= p PROVE g.vds <= p * bs
    BY <1>1, <1>7
  <2>2. n * bs <= p * bs
    BY <1>1, <1>7, <2>1, ProductMonotone
  <2>3. p * bs \in Nat /\ n * bs \in Nat
    BY <1>1, <1>7
  <2> QED BY <1>1, <2>2, <2>3
<1>10. ~HasEntry(img, BatIndex(g, n - 1)) => Found("over")
  BY <1>2, <1>3, <1>4, <1>5, <1>6, <1>7, <1>8
<1>11. Found("over") => ~HasEntry(img, BatIndex(g, n))
  BY <1>2, <1>3, <1>4, <1>5, <1>6, <1>7, <1>9
<1> QED BY <1>10, <1>11

\* A disk with a block that has no entry is reported as larger than its table, and one
\* whose table has an entry to spare never is, for every geometry and length of table
\* (bat_check_coverage, against bat.rs:75).
THEOREM CoverageAlwaysBrackets == Spec => []CoverageBrackets
BY CoverageIs, FindingsAlways, PTL

LEMMA GeometryIs == FindingsInv => GeometryAgrees
<1> SUFFICES ASSUME FindingsInv, pc \in {"table", "trailing", "ghost", "done"},
                    HasRegions, MetadataInside, PlainItems, ~Found("item")
             PROVE  ReaderGeometry = AnalyserGeometry
  BY DEF GeometryAgrees
<1> DEFINE items == DOMAIN img.items
<1>0. /\ Len(img.items) <= AnalyserItems /\ AnalyserItems \in Nat
      /\ ComparedItems \in Nat /\ AnalyserItems <= ComparedItems
  BY FindingsAssumption DEF PlainItems
<1>1. /\ Len(img.items) \in Nat /\ items = 1 .. Len(img.items)
      /\ \A i \in items : /\ img.items[i].off \in Nat /\ img.items[i].len \in Nat
                          /\ ItemEnd(i) = img.items[i].off + img.items[i].len
  BY ItemShape DEF FindingsInv
<1>2. img.metaLen \in Nat /\ img.metaRoom \in Nat /\ img.metaLen <= img.metaRoom
  <2>1. PICK k \in LastPlaces(img.regions, "meta") : RegionOf("meta") = img.regions[k]
    BY RegionShape DEF FindingsInv, HasRegions
  <2>2. img.regions[k].at + img.regions[k].len <= img.size
    BY <2>1 DEF MetadataInside, RegionEnd
  <2> QED BY <2>1, <2>2, ImageShape DEF IsImage, FindingsInv
<1>3. \A i \in items : ItemEnd(i) <= img.metaLen
  <2>1. PICK order : ItemFindings(order) \subseteq found
    BY DEF FindingsInv, PastMetadata
  <2>2. \A i \in Compared : ItemEnd(i) > img.metaLen => <<"item", i, 0>> \in ItemFindings(order)
    BY DEF ItemFindings
  <2>3. \A i \in Compared : ~(ItemEnd(i) > img.metaLen)
    BY <2>1, <2>2 DEF Found
  <2>4. \A i \in items : ItemEnd(i) \in Nat /\ i \in Compared
    BY <1>0, <1>1 DEF Compared
  <2> QED BY <1>2, <2>3, <2>4
<1>4. /\ \A i \in items : img.items[i].len >= Need(img.items[i].name)
      /\ \A i \in items : img.items[i].name # "qemu"
  BY DEF PlainItems
<1>5. ReaderTakes = items
  BY <1>1, <1>3, <1>4 DEF ReaderTakes
<1>6. AnalyserTakes = items
  <2>1. \A i \in items : img.items[i].off + Need(img.items[i].name) <= img.metaRoom
    <3> TAKE i \in items
    <3>1. Need(img.items[i].name) \in {0, 1, 2}
      BY NeedIs
    <3>2. img.items[i].len >= Need(img.items[i].name) /\ ItemEnd(i) <= img.metaLen
      BY <1>3, <1>4
    <3>3. img.items[i].off \in Nat /\ img.items[i].len \in Nat
          /\ ItemEnd(i) = img.items[i].off + img.items[i].len
      BY <1>1
    <3> QED BY <1>2, <3>1, <3>2, <3>3
  <2>2. \A i \in items : i <= AnalyserItems
    BY <1>0, <1>1
  <2> QED BY <2>1, <2>2 DEF AnalyserTakes
<1>7. LastOf({"disk", "qemu"}, items) = LastOf({"disk"}, items)
  <2>1. {i \in items : img.items[i].name \in {"disk", "qemu"}}
           = {i \in items : img.items[i].name \in {"disk"}}
    BY <1>4
  <2> HIDE DEF items
  <2> QED BY <2>1 DEF LastOf
<1> HIDE DEF items
<1> QED BY <1>5, <1>6, <1>7 DEF ReaderGeometry, AnalyserGeometry

\* Where the items of the metadata table are plain and none is reported to leave the
\* region, the reader's parser and the analyser's come to one geometry, for metadata
\* tables of any length and order (parse_metadata; try_parse_regions).
THEOREM GeometriesAlwaysAgree == Spec => []GeometryAgrees
BY GeometryIs, FindingsAlways, PTL

LEMMA PresentShape ==
    ASSUME img \in Image, NEW g
    PROVE  /\ IsFiniteSet(Present(g)) /\ Present(g) \subseteq 0 .. Len(img.bat) - 1
           /\ \A i \in Present(g) : EntryAt(img, i).mib \in Nat
<1>1. Len(img.bat) \in Nat
  <2>1. img.bat \in Seq(Entry)
    BY ImageShape DEF IsImage
  <2> QED BY <2>1, ElementIn
<1>2. Present(g) \subseteq 0 .. Len(img.bat) - 1
  BY DEF Present
<1>3. IsFiniteSet(0 .. Len(img.bat) - 1)
  <2>1. Len(img.bat) - 1 \in Int
    BY <1>1
  <2> QED BY <2>1, FS_Interval
<1> QED BY <1>2, <1>3, FS_Subset, EntryShape

LEMMA SharedIs == FindingsInv => SharedPlaceReported
<1> DEFINE g == AnalyserGeometry
           P == Present(g)
           at(i) == EntryAt(img, i).mib
<1> SUFFICES ASSUME FindingsInv, pc = "done", HasRegions, TableScanned,
                    NEW i \in P, NEW j \in P, i # j, at(i) = at(j)
             PROVE  \E f \in found : f[1] = "entries" /\ i \in {f[2], f[3]}
  BY DEF SharedPlaceReported
<1>1. PICK order \in ByPlace(P) : TableFindings(order) \subseteq found
  BY DEF FindingsInv
<1>2. IsFiniteSet(P) /\ \A k \in P : at(k) \in Nat
  BY PresentShape DEF FindingsInv
<1>3. order \in SetToSeqs(P) /\ \A k \in 1 .. Len(order) - 1 : at(order[k]) <= at(order[k + 1])
  BY DEF ByPlace
<1>4. \A k \in 1 .. Len(order) - 1 : at(order[k]) = at(order[k + 1]) =>
          <<"entries", order[k], order[k + 1]>> \in found
  <2>1. \A k \in 1 .. Len(order) - 1 : at(order[k]) = at(order[k + 1]) =>
          <<"entries", order[k], order[k + 1]>> \in TableFindings(order)
    BY DEF TableFindings
  <2> QED BY <1>1, <2>1
<1> HIDE DEF P, at
<1> DEFINE n == Len(order)
<1>5. /\ n \in Nat /\ order \in [1 .. n -> P]
      /\ \A x \in P : \E k \in 1 .. n : order[k] = x
  BY <1>2, <1>3, EachHasAPlace
<1>6. PICK a \in 1 .. n, b \in 1 .. n : order[a] = i /\ order[b] = j
  BY <1>5
<1> HIDE DEF n
<1> DEFINE f == [k \in 1 .. n |-> at(order[k])]
<1>7. \A c, d \in 1 .. n : c <= d => f[c] <= f[d]
  <2>1. \A k \in 1 .. n : order[k] \in P /\ at(order[k]) \in Int
    BY <1>2, <1>5
  <2>2. f \in [1 .. n -> Int]
    BY <2>1
  <2>3. \A k \in 1 .. n - 1 : f[k] <= f[k + 1]
    <3> TAKE k \in 1 .. n - 1
    <3>1. k \in 1 .. n /\ k + 1 \in 1 .. n /\ at(order[k]) <= at(order[k + 1])
      BY <1>3, <1>5 DEF n
    <3> QED BY <3>1
  <2> HIDE DEF f
  <2> QED BY <1>5, <2>2, <2>3, NeighboursRise
<1>8. \A k \in 1 .. n : f[k] = at(order[k]) /\ f[k] \in Nat
  BY <1>2, <1>5
<1> HIDE DEF f
<1>9. a # b /\ f[a] = f[b]
  BY <1>6, <1>8
<1>10. CASE a < b
  <2>1. a \in 1 .. n - 1 /\ a + 1 \in 1 .. n /\ a <= a + 1 /\ a + 1 <= b
    BY <1>5, <1>6, <1>10
  <2>2. f[a] <= f[a + 1] /\ f[a + 1] <= f[b]
    BY <1>7, <2>1
  <2>3. f[a] = f[a + 1]
    BY <1>6, <1>8, <1>9, <2>1, <2>2
  <2>4. at(order[a]) = at(order[a + 1])
    BY <1>8, <2>1, <2>3
  <2>5. <<"entries", order[a], order[a + 1]>> \in found
    BY <1>4, <2>1, <2>4 DEF n
  <2> QED BY <1>6, <2>5
<1>11. CASE b < a
  <2>1. a - 1 \in 1 .. n - 1 /\ a - 1 \in 1 .. n /\ b <= a - 1 /\ a - 1 <= a /\ (a - 1) + 1 = a
    BY <1>5, <1>6, <1>11
  <2>2. f[b] <= f[a - 1] /\ f[a - 1] <= f[a]
    BY <1>6, <1>7, <2>1
  <2>3. f[a - 1] = f[a]
    BY <1>6, <1>8, <1>9, <2>1, <2>2
  <2>4. at(order[a - 1]) = at(order[(a - 1) + 1])
    BY <1>6, <1>8, <2>1, <2>3
  <2>5. <<"entries", order[a - 1], order[(a - 1) + 1]>> \in found
    BY <1>4, <2>1, <2>4 DEF n
  <2> QED BY <1>6, <2>1, <2>5
<1> QED BY <1>6, <1>9, <1>10, <1>11

\* Of entries that share a place each is named by some finding, for tables of any length
\* and whatever the sort does with equal keys (bat_scan_entries).
THEOREM SharedPlacesReported == Spec => []SharedPlaceReported
BY SharedIs, FindingsAlways, PTL

LEMMA OverlapIs == FindingsInv => ItemOverlapReported
<1> DEFINE items == Compared
           off(i) == img.items[i].off
           len(i) == img.items[i].len
<1> SUFFICES ASSUME FindingsInv, pc \in {"table", "trailing", "ghost", "done"},
                    HasRegions, MetadataInside,
                    \A i \in items : len(i) > 0,
                    NEW x \in items, NEW y \in items, x # y, NEW c,
                    c \in off(x) .. ItemEnd(x) - 1, c \in off(y) .. ItemEnd(y) - 1
             PROVE  Found("items")
  BY DEF ItemOverlapReported
<1>1. PICK order \in ByOffset(items) : ItemFindings(order) \subseteq found
  BY DEF FindingsInv, PastMetadata
<1>2. \A i \in items : off(i) \in Nat /\ len(i) \in Nat /\ ItemEnd(i) = off(i) + len(i)
  BY ItemShape DEF FindingsInv, Compared
<1>3. IsFiniteSet(items)
  <2>1. IsFiniteSet(1 .. Len(img.items)) /\ DOMAIN img.items = 1 .. Len(img.items)
    BY ItemShape, FS_Interval DEF FindingsInv
  <2>2. items \subseteq DOMAIN img.items
    BY DEF Compared
  <2> HIDE DEF items
  <2> QED BY <2>1, <2>2, FS_Subset
<1>4. order \in SetToSeqs(items)
      /\ \A k \in 1 .. Len(order) - 1 : off(order[k]) <= off(order[k + 1])
  BY DEF ByOffset
<1>5. \A k \in 1 .. Len(order) - 1 :
          off(order[k + 1]) < ItemEnd(order[k]) /\ ItemEnd(order[k + 1]) > off(order[k]) =>
             Found("items")
  <2>1. \A k \in 1 .. Len(order) - 1 :
          off(order[k + 1]) < ItemEnd(order[k]) /\ ItemEnd(order[k + 1]) > off(order[k]) =>
             <<"items", order[k], order[k + 1]>> \in ItemFindings(order)
    BY DEF ItemFindings, ItemsMeet
  <2> QED BY <1>1, <2>1 DEF Found
<1> HIDE DEF items, off, len
<1> DEFINE n == Len(order)
<1>6. /\ n \in Nat /\ order \in [1 .. n -> items]
      /\ \A i \in items : \E k \in 1 .. n : order[k] = i
  BY <1>3, <1>4, EachHasAPlace
<1> HIDE DEF n
<1> DEFINE f == [k \in 1 .. n |-> off(order[k])]
<1>7. \A a, d \in 1 .. n : a <= d => f[a] <= f[d]
  <2>1. \A k \in 1 .. n : order[k] \in items /\ off(order[k]) \in Int
    <3> TAKE k \in 1 .. n
    <3>1. order[k] \in items
      BY <1>6
    <3>2. off(order[k]) \in Nat
      BY <1>2, <3>1, Zenon
    <3> QED BY <3>1, <3>2
  <2>2. f \in [1 .. n -> Int]
    BY <2>1
  <2>3. \A k \in 1 .. n - 1 : f[k] <= f[k + 1]
    <3> TAKE k \in 1 .. n - 1
    <3>1. k \in 1 .. n /\ k + 1 \in 1 .. n /\ off(order[k]) <= off(order[k + 1])
      BY <1>4, <1>6 DEF n
    <3> QED BY <3>1
  <2> HIDE DEF f
  <2> QED BY <1>6, <2>2, <2>3, NeighboursRise
<1>8. \A k \in 1 .. n : f[k] = off(order[k]) /\ order[k] \in items
  BY <1>6
<1> HIDE DEF f
\* The one that comes first in the list meets its neighbour.
<1>9. ASSUME NEW u \in items, NEW v \in items, NEW a \in 1 .. n, NEW b \in 1 .. n, a < b,
             order[a] = u, order[b] = v, off(v) < ItemEnd(u)
      PROVE  Found("items")
  <2> DEFINE w == order[a + 1]
  <2>1. a \in 1 .. n - 1 /\ a + 1 \in 1 .. n /\ a <= a + 1 /\ a + 1 <= b
    BY <1>6, <1>9
  <2>2. f[a] <= f[a + 1] /\ f[a + 1] <= f[b]
    BY <1>7, <1>9, <2>1
  <2>3. off(u) <= off(w) /\ off(w) <= off(v) /\ w \in items
    BY <1>8, <1>9, <2>1, <2>2
  <2> HIDE DEF w
  <2>4. ItemEnd(w) = off(w) + len(w) /\ len(w) > 0 /\ off(w) \in Nat /\ len(w) \in Nat
    BY <1>2, <2>3
  <2>5. off(u) \in Nat /\ off(v) \in Nat /\ ItemEnd(u) \in Nat
    <3>1. off(u) \in Nat /\ off(v) \in Nat /\ len(u) \in Nat /\ ItemEnd(u) = off(u) + len(u)
      BY <1>2, <1>9, Zenon
    <3> QED BY <3>1
  <2>6. off(w) < ItemEnd(u) /\ ItemEnd(w) > off(u)
    BY <1>9, <2>3, <2>4, <2>5
  <2> QED BY <1>5, <1>9, <2>1, <2>6 DEF n, w
<1>10. PICK a \in 1 .. n, b \in 1 .. n : order[a] = x /\ order[b] = y
  BY <1>6
<1>11. a # b
  BY <1>10
<1>12. off(y) < ItemEnd(x) /\ off(x) < ItemEnd(y)
  <2>1. /\ off(x) \in Nat /\ off(y) \in Nat /\ ItemEnd(x) \in Nat /\ ItemEnd(y) \in Nat
    BY <1>2
  <2> QED BY <2>1
<1>13. a < b \/ b < a
  BY <1>6, <1>10, <1>11
<1> QED BY <1>9, <1>10, <1>12, <1>13

\* Metadata items that share a byte do not all go unreported, however many lie between
\* them in the table and whatever the sort does with equal offsets
\* (check_metadata_inner).
THEOREM ItemOverlapsReported == Spec => []ItemOverlapReported
BY OverlapIs, FindingsAlways, PTL

\* What the findings about one entry come to.
LEMMA EntrySaid ==
    ASSUME FindingsInv, HasRegions, TableScanned, pc = "done", NEW i \in 0 .. Len(img.bat) - 1,
           ~IsBitmapSlot(AnalyserGeometry, i)
    PROVE  LET s == EntryAt(img, i).state IN
           /\ s = PartiallyPresent => Found("partial")
           /\ s = Undefined => Found("undefined")
           /\ s = FullyPresent => i \in Present(AnalyserGeometry) \/ Found("past")
<1> DEFINE g == AnalyserGeometry
           s == EntryAt(img, i).state
<1>1. PICK order : TableFindings(order) \subseteq found
  BY DEF FindingsInv
<1>2. StateFindings(g) \subseteq TableFindings(order)
  BY DEF TableFindings
<1>3. BlockFinding(g, i) \subseteq StateFindings(g)
  BY DEF StateFindings
<1>4. BlockFinding(g, i) \subseteq found
  BY <1>1, <1>2, <1>3
<1>5. s = PartiallyPresent => <<"partial", i, 0>> \in BlockFinding(g, i)
  BY DEF BlockFinding
<1>6. s = Undefined => <<"undefined", i, 0>> \in BlockFinding(g, i)
  BY DEF BlockFinding
<1>7. s = FullyPresent /\ i \notin Present(g) => <<"past", i, 0>> \in BlockFinding(g, i)
  BY DEF BlockFinding
<1> HIDE DEF g, s
<1>8. /\ s = PartiallyPresent => Found("partial")
      /\ s = Undefined => Found("undefined")
      /\ s = FullyPresent => i \in Present(g) \/ Found("past")
  BY <1>4, <1>5, <1>6, <1>7 DEF Found
<1> QED BY <1>8 DEF g, s

LEMMA QuietIs == FindingsInv => QuietMeansReadable
<1> DEFINE g == ReaderGeometry
           r == ChunkRatio(g)
           n == Blocks(g)
           bs == g.blockSize
<1> SUFFICES ASSUME FindingsInv, pc = "done", PlainItems, ~Unreported,
                    \A f \in found : f[1] \in {"nobitmap", "ghost"}
             PROVE  /\ TableAccepted /\ Accepted(g)
                    /\ \A b \in 0 .. n - 1 :
                          LET i == BatIndex(g, b) IN
                          /\ HasEntry(img, i)
                          /\ EntryAt(img, i).state \notin {4, 5} =>
                                /\ ReadTarget(g, b * bs) # "error"
                                /\ ReadTarget(g, b * bs) = "file" => PlaceOf(i) < img.size
  BY DEF QuietMeansReadable
<1>1. \A kind : Found(kind) => kind \in {"nobitmap", "ghost"}
  BY DEF Found
<1>2. HasRegions /\ img.bat # <<>> /\ img.size \in Nat
  BY ImageShape DEF Unreported, FindingsInv, IsImage
<1>3. \A i \in DOMAIN img.regions : RegionEnd(img.regions[i]) <= img.size
  <2>0. img.regions \in Seq([name : STRING, at : Nat, len : Nat, required : BOOLEAN])
    BY ImageShape DEF IsImage, FindingsInv
  <2>1. \A i \in DOMAIN img.regions : RegionEnd(img.regions[i]) \in Nat
    <3> TAKE i \in DOMAIN img.regions
    <3>1. img.regions[i] \in [name : STRING, at : Nat, len : Nat, required : BOOLEAN]
      BY <2>0, ElementIn
    <3>2. img.regions[i].at \in Nat /\ img.regions[i].len \in Nat
      BY <3>1
    <3> QED BY <3>2 DEF RegionEnd
  <2>2. img.regions # <<>>
    BY <1>2 DEF HasRegions, Named
  <2>3. \A i \in KnownRegions :
           RegionEnd(img.regions[i]) > img.size => <<"beyond", i, 0>> \in LayoutFindings
    BY <2>2 DEF LayoutFindings
  <2>4. \A i \in KnownRegions : ~(RegionEnd(img.regions[i]) > img.size)
    BY <1>1, <2>3 DEF FindingsInv, Found
  <2>5. \A i \in DOMAIN img.regions : ~(RegionEnd(img.regions[i]) > img.size)
    BY <2>4 DEF Unreported
  <2> QED BY <1>2, <2>1, <2>5
<1>4. MetadataInside /\ TableScanned
  <2>1. \A name : Named(name) # {} => RegionEnd(RegionOf(name)) <= img.size
    BY <1>3, RegionShape DEF FindingsInv
  <2> QED BY <1>2, <2>1 DEF HasRegions, MetadataInside, TableScanned
<1>5. g = AnalyserGeometry
  BY <1>1, <1>2, <1>4, GeometryIs DEF GeometryAgrees
<1>6. Accepted(g)
  <2>1. FieldFindings \subseteq found
    BY <1>2 DEF FindingsInv, PastMetadata
  <2>2. /\ ~(g.blockSize \in BlockSizes) => <<"block", 0, 0>> \in FieldFindings
        /\ ~(g.sectorSize \in SectorSizes) => <<"sector", 0, 0>> \in FieldFindings
        /\ DiskWrong(g) => <<"disk", 0, 0>> \in FieldFindings
    BY <1>5 DEF FieldFindings
  <2>3. g.blockSize \in BlockSizes /\ g.sectorSize \in SectorSizes /\ ~DiskWrong(g)
    BY <1>1, <2>1, <2>2 DEF Found
  <2>4. g.sectorSize \in Nat \ {0} /\ MaxDisk \in Nat
    BY <2>3, FindingsAssumption
  <2>5. g.vds \in 1 .. MaxDisk /\ g.vds % g.sectorSize = 0
    BY <2>3, <2>4 DEF DiskWrong
  <2> QED BY <2>3, <2>5 DEF Accepted
<1>7. TableAccepted
  BY <1>2, <1>3 DEF TableAccepted
<1>8. /\ r \in Nat \ {0} /\ n \in Nat \ {0} /\ bs \in Nat \ {0} /\ g.vds \in Nat
      /\ (n - 1) * bs < g.vds /\ g.bat = img.bat
  BY <1>6, AcceptedShape DEF ReaderGeometry, Geometry
<1>9. Len(img.bat) \in Nat
  <2>1. img.bat \in Seq(Entry)
    BY ImageShape DEF IsImage, FindingsInv
  <2> QED BY <2>1, ElementIn
<1>10. HasEntry(img, BatIndex(g, n - 1))
  BY <1>1, <1>2, <1>4, <1>5, <1>6, CoverageIs DEF CoverageBrackets
<1>x. \A b \in Nat : BatIndex(g, b) = Slot(r, b) /\ Slot(r, b) \in Nat
  <2>1. \A b \in Nat : BatIndex(g, b) = Slot(r, b)
    BY <1>6, IndexIsSlot
  <2> HIDE DEF r
  <2> QED BY <1>8, <2>1, SlotIs
<1>11. ASSUME NEW b \in 0 .. n - 1
       PROVE  LET i == BatIndex(g, b) IN
              /\ HasEntry(img, i)
              /\ EntryAt(img, i).state \notin {4, 5} =>
                    /\ ReadTarget(g, b * bs) # "error"
                    /\ ReadTarget(g, b * bs) = "file" => PlaceOf(i) < img.size
  <2> DEFINE i == BatIndex(g, b)
             s == EntryAt(img, i).state
  <2>1. b \in Nat /\ i = Slot(r, b) /\ i \in Nat
    <3>1. b \in Nat
      OBVIOUS
    <3> HIDE DEF r, n
    <3> QED BY <1>x, <3>1
  <2>2. i < Len(img.bat)
    <3>1. BatIndex(g, n - 1) = Slot(r, n - 1) /\ Slot(r, n - 1) \in Nat
      <4> HIDE DEF r, n
      <4>1. n - 1 \in Nat
        BY <1>8
      <4> QED BY <1>x, <4>1
    <3>2. Slot(r, n - 1) < Len(img.bat)
      BY <1>10, <3>1 DEF HasEntry
    <3>3. b = n - 1 \/ Slot(r, b) < Slot(r, n - 1)
      BY <1>8, <2>1, SlotMonotone
    <3> HIDE DEF i, r, n
    <3> QED BY <1>9, <2>1, <3>1, <3>2, <3>3
  <2>3. ~IsBitmapSlot(g, i)
    <3>1. SlotsAgree
      BY SlotsAre DEF FindingsInv
    <3> QED BY <1>2, <1>5, <1>6, <3>1 DEF SlotsAgree
  <2>4. i \in 0 .. Len(img.bat) - 1
    BY <1>9, <2>1, <2>2
  <2>5. s \in 0 .. 7
    BY <2>4, EntryShape DEF FindingsInv
  <2>6. /\ s # PartiallyPresent /\ s # Undefined
        /\ s = FullyPresent => i \in Present(g)
    <3>1. ~Found("partial") /\ ~Found("undefined") /\ ~Found("past")
      BY <1>1
    <3> HIDE DEF g, i, s
    <3> QED BY <1>2, <1>4, <1>5, <2>3, <2>4, <3>1, EntrySaid DEF s
  <2>7. BlockOf(g, b * bs) = b
    <3>1. (bs * b + 0) \div bs = b
      <4> HIDE DEF bs
      <4>1. b \in Int /\ 0 \in 0 .. bs - 1
        BY <1>8, <2>1
      <4> QED BY <1>8, <4>1, DivUnique
    <3>2. b * bs = bs * b + 0
      BY <1>8, <2>1
    <3> QED BY <3>1, <3>2 DEF BlockOf
  <2>8. b * bs < g.vds
    <3>1. b * bs <= (n - 1) * bs
      <4>1. n - 1 \in Nat /\ b <= n - 1
        BY <1>8, <2>1
      <4> QED BY <1>8, <2>1, <4>1, ProductMonotone
    <3>2. b * bs \in Nat /\ (n - 1) * bs \in Nat
      BY <1>8, <2>1
    <3> QED BY <1>8, <3>1, <3>2
  <2>9. HasEntry(g, i) /\ HasEntry(img, i) /\ EntryAt(g, i).state = s
    BY <1>8, <2>2 DEF HasEntry, EntryAt
  <2>10. ASSUME s \notin {4, 5}
         PROVE  /\ ReadTarget(g, b * bs) # "error"
                /\ ReadTarget(g, b * bs) = "file" => s = FullyPresent
    <3>1. s \in {0, 2, 3, 6}
      BY <2>5, <2>6, <2>10 DEF PartiallyPresent, Undefined
    <3>2. ~(b * bs >= g.vds) /\ b * bs \in Nat
      <4>1. b * bs \in Nat
        BY <1>8, <2>1
      <4> QED BY <1>8, <2>8, <4>1
    <3>3. ReadTarget(g, b * bs) =
            CASE s = NotPresent -> "parent"
              [] s \in {Undefined, Zero, Unmapped} -> "zero"
              [] s = FullyPresent -> "file"
              [] s = PartiallyPresent ->
                   IF HasEntry(g, BitmapIndex(g, b))
                      /\ EntryAt(g, BitmapIndex(g, b)).state = BitmapPresent
                   THEN "partial" ELSE "error"
              [] OTHER -> "error"
      <4> HIDE DEF g, bs, i, s
      <4> QED BY <2>7, <2>8, <2>9, <3>2 DEF ReadTarget, i
    <3> HIDE DEF g, bs, i, s
    <3> QED BY <3>1, <3>3 DEF NotPresent, Undefined, Zero, Unmapped, FullyPresent,
              PartiallyPresent
  <2>11. s = FullyPresent => PlaceOf(i) < img.size
    <3>1. i \in Present(g) => EntryAt(img, i).mib * Mib < img.size
      BY DEF Present
    <3> QED BY <2>6, <3>1 DEF PlaceOf
  <2> HIDE DEF g, bs
  <2> QED BY <2>9, <2>10, <2>11
<1> QED BY <1>6, <1>7, <1>11

\* An image of which the analyser says nothing that matters to a reader is one that the
\* reader opens, with an entry for each block that it can read, in the container where
\* it has a place, for every image (analyse, against parse_region_table, validate and
\* read_target_for_byte).
THEOREM QuietImagesReadable == Spec => []QuietMeansReadable
BY QuietIs, FindingsAlways, PTL

\* An entry that is not a bitmap's and not behind the last block's is that of a block.
LEMMA OfTheDisk ==
    ASSUME NEW g, Accepted(g), NEW i \in Nat, ~IsBitmapSlot(g, i),
           ~(i > BatIndex(g, Blocks(g) - 1))
    PROVE  \E b \in 0 .. Blocks(g) - 1 : i = BatIndex(g, b)
<1> DEFINE r == ChunkRatio(g)
           n == Blocks(g)
<1>1. r \in Nat \ {0} /\ n \in Nat \ {0}
  BY AcceptedShape
<1>2. /\ \A b \in Nat : BatIndex(g, b) = Slot(r, b)
      /\ i % (r + 1) # r
  BY IndexIsSlot
<1> HIDE DEF r, n
<1>3. PICK b \in Nat : i = Slot(r, b)
  BY <1>1, <1>2, SlotOnto
<1>4. n - 1 \in Nat /\ BatIndex(g, n - 1) = Slot(r, n - 1) /\ Slot(r, n - 1) \in Nat
  <2>1. n - 1 \in Nat
    BY <1>1
  <2> QED BY <1>1, <1>2, <2>1, SlotIs
<1>5. b <= n - 1
  <2>1. SUFFICES ASSUME n - 1 < b PROVE FALSE
    BY <1>4
  <2>2. Slot(r, n - 1) < Slot(r, b)
    BY <1>1, <1>4, <2>1, SlotMonotone
  <2>3. ~(i > Slot(r, n - 1))
    BY <1>4 DEF n
  <2> QED BY <1>3, <1>4, <2>2, <2>3
<1>6. b \in 0 .. n - 1
  BY <1>4, <1>5
<1> QED BY <1>2, <1>3, <1>6 DEF n

LEMMA TableShape ==
    ASSUME img \in Image, HasRegions, TableScanned
    PROVE  LET t == RegionOf("bat") IN
           /\ t.at \in Nat /\ t.len \in Nat /\ t.len > 0
           /\ RegionEnd(t) = t.at + t.len /\ RegionEnd(t) <= img.size
           /\ \E k \in KnownRegions : t = img.regions[k]
           /\ TableEnd \in Nat
<1> DEFINE t == RegionOf("bat")
<1>1. PICK k \in DOMAIN img.regions :
         /\ t = img.regions[k] /\ img.regions[k].name = "bat"
         /\ k \in LastPlaces(img.regions, "bat") /\ t.at \in Nat /\ t.len \in Nat
  BY RegionShape DEF HasRegions
<1>2. RegionEnd(t) = t.at + t.len /\ RegionEnd(t) <= img.size
  BY DEF RegionEnd, TableScanned
<1>3. k \in KnownRegions
  BY <1>1 DEF KnownRegions
<1>4. t.len > 0
  <2>1. img.bat \in Seq(Entry) /\ Len(img.bat) <= WordsPerCell * img.regions[k].len
    BY <1>1, ImageShape DEF IsImage
  <2>2. Len(img.bat) \in Nat /\ Len(img.bat) # 0
    BY <2>1, EmptySeq DEF TableScanned
  <2>3. SUFFICES ASSUME t.len = 0 PROVE FALSE
    BY <1>1
  <2>4. WordsPerCell \in Nat
    BY FindingsAssumption
  <2>5. WordsPerCell * 0 = 0
    BY <2>4
  <2> QED BY <1>1, <2>1, <2>2, <2>3, <2>5
<1>5. TableEnd \in Nat
  <2> DEFINE e == RegionEnd(t)
  <2>1. e \in Nat \ {0} /\ Mib \in Nat \ {0}
    BY <1>1, <1>2, <1>4, BatAssumption
  <2> HIDE DEF e
  <2>2. CeilDiv(e, Mib) \in Nat
    BY <2>1, CeilDivIs
  <2>3. CeilDiv(e, Mib) * Mib \in Nat
    BY <2>1, <2>2
  <2> QED BY <2>3 DEF TableEnd, e
<1> QED BY <1>1, <1>2, <1>3, <1>4, <1>5

LEMMA HeldShape ==
    ASSUME img \in Image, NEW i \in Held
    PROVE  i \in Nat /\ i \in 0 .. Len(img.bat) - 1 /\ PlaceOf(i) \in Nat
<1>1. i \in 0 .. Len(img.bat) - 1
  BY DEF Held
<1>2. EntryAt(img, i).mib \in Nat
  BY <1>1, EntryShape
<1>3. Mib \in Nat
  BY BatAssumption
<1>4. PlaceOf(i) \in Nat
  BY <1>2, <1>3 DEF PlaceOf
<1> QED BY <1>1, <1>4

\* Behind a cell that is in use by none, and in whose shadow none is, no block ends.
LEMMA NothingEndsBehind ==
    ASSUME img \in Image, HasRegions, TableScanned, Accepted(AnalyserGeometry),
           NEW c \in 0 .. img.size - 1, \A d \in c .. img.size - 1 : ~Taken(d), ~Shadowed(c)
    PROVE  LastEnd(AnalyserGeometry) \in Nat /\ LastEnd(AnalyserGeometry) <= c
<1> DEFINE g == AnalyserGeometry
           bs == g.blockSize
           t == RegionOf("bat")
           ends == {n \in BlockEnds(g) : n <= img.size}
<1>1. img.size \in Nat /\ c \in Nat /\ c < img.size
  <2>1. img.size \in Nat
    BY ImageShape DEF IsImage
  <2> QED BY <2>1
<1>2. bs \in Nat \ {0}
  BY AcceptedShape
<1>3. ASSUME NEW i \in Held, EntryAt(img, i).state = FullyPresent, PlaceOf(i) + bs <= img.size
      PROVE  PlaceOf(i) + bs <= c
  <2>1. i \in Nat /\ PlaceOf(i) \in Nat
    BY <1>3, HeldShape
  <2>2. SUFFICES ASSUME c < PlaceOf(i) + bs PROVE FALSE
    BY <1>1, <1>2, <2>1
  <2>3. ~IsBitmapSlot(g, i) /\ ~(i > BatIndex(g, Blocks(g) - 1))
    BY <1>3, <2>2 DEF Shadowed
  <2>4. PICK b \in 0 .. Blocks(g) - 1 : i = BatIndex(g, b)
    BY <2>1, <2>3, OfTheDisk
  <2> DEFINE d == PlaceOf(i) + bs - 1
  <2>5. d \in c .. img.size - 1 /\ d \in PlaceOf(i) .. PlaceOf(i) + bs - 1
    BY <1>1, <1>2, <1>3, <2>1, <2>2
  <2> HIDE DEF d
  <2>6. Taken(d)
    BY <1>3, <2>4, <2>5 DEF Taken
  <2> QED BY <2>5, <2>6
<1>4. \A n \in ends : n \in Nat /\ n <= c
  <2>1. SUFFICES ASSUME NEW n \in ends PROVE n \in Nat /\ n <= c
    OBVIOUS
  <2>2. PICK i \in Held : EntryAt(img, i).state = FullyPresent /\ n = PlaceOf(i) + bs
    BY <2>1 DEF BlockEnds
  <2>3. n <= img.size
    BY <2>1
  <2>4. PlaceOf(i) \in Nat
    BY HeldShape
  <2> HIDE DEF ends, bs
  <2> QED BY <1>2, <1>3, <2>2, <2>3, <2>4
<1>5. CASE ends = {}
  <2>1. LastEnd(g) = TableEnd
    BY <1>5 DEF LastEnd
  <2>2. /\ t.at \in Nat /\ t.len \in Nat /\ t.len > 0
        /\ RegionEnd(t) = t.at + t.len /\ RegionEnd(t) <= img.size
        /\ \E k \in KnownRegions : t = img.regions[k]
        /\ TableEnd \in Nat
    BY TableShape
  <2>3. ~(c \in RegionEnd(t) .. TableEnd - 1)
    BY DEF Shadowed
  <2>4. RegionEnd(t) <= c
    <3>1. SUFFICES ASSUME c < RegionEnd(t) PROVE FALSE
      BY <1>1, <2>2
    <3> DEFINE d == RegionEnd(t) - 1
    <3>2. d \in c .. img.size - 1 /\ d \in t.at .. RegionEnd(t) - 1
      BY <1>1, <2>2, <3>1
    <3> HIDE DEF d
    <3>3. Taken(d)
      BY <2>2, <3>2 DEF Taken
    <3> QED BY <3>2, <3>3
  <2>5. TableEnd <= c
    BY <1>1, <2>2, <2>3, <2>4
  <2> QED BY <2>1, <2>2, <2>5
<1>6. CASE ends # {}
  <2>1. LastEnd(g) = Max(ends)
    BY <1>6 DEF LastEnd
  <2>2. ends \subseteq Nat /\ \A n \in ends : n <= c
    BY <1>4
  <2> HIDE DEF ends
  <2>3. Max(ends) \in ends
    BY <1>1, <1>6, <2>2, MaxIs
  <2> QED BY <1>4, <2>1, <2>3
<1> QED BY <1>5, <1>6

LEMMA RemnantsAre == FindingsInv => RemnantsReported
<1> DEFINE g == AnalyserGeometry
<1> SUFFICES ASSUME FindingsInv, pc = "done", HasRegions, TableScanned, Accepted(g),
                    NEW c \in img.full, ~Taken(c)
             PROVE  /\ (\A d \in c .. img.size - 1 : ~Taken(d)) /\ ~Shadowed(c) =>
                          \E f \in found : f[1] = "trailing" /\ f[2] <= c
                    /\ \A b \in 0 .. Blocks(g) - 1 :
                          LET i == BatIndex(g, b) IN
                          /\ i \in Held /\ EntryAt(img, i).state = NotPresent
                          /\ PlaceOf(i) > 0 /\ c \in PlaceOf(i) .. PlaceOf(i) + g.blockSize - 1
                          => <<"ghost", i, 0>> \in found
  BY DEF RemnantsReported
<1>1. g.blockSize \in Nat \ {0}
  BY AcceptedShape
<1>2. c \in 0 .. img.size - 1
  BY ImageShape DEF IsImage, FindingsInv
<1>3. ASSUME \A d \in c .. img.size - 1 : ~Taken(d), ~Shadowed(c)
      PROVE  \E f \in found : f[1] = "trailing" /\ f[2] <= c
  <2>1. LastEnd(g) \in Nat /\ LastEnd(g) <= c
    BY <1>2, <1>3, NothingEndsBehind DEF FindingsInv
  <2>2. c >= LastEnd(g) /\ g.blockSize > 0
    BY <1>1, <1>2, <2>1
  <2>3. <<"trailing", LastEnd(g), 0>> \in TrailingFindings
    BY <2>2 DEF TrailingFindings
  <2>4. TrailingFindings \subseteq found
    BY DEF FindingsInv
  <2> DEFINE f == <<"trailing", LastEnd(g), 0>>
  <2>5. f \in found /\ f[1] = "trailing" /\ f[2] = LastEnd(g)
    BY <2>3, <2>4
  <2> QED BY <2>1, <2>5
<1>4. ASSUME NEW b \in 0 .. Blocks(g) - 1, BatIndex(g, b) \in Held,
             EntryAt(img, BatIndex(g, b)).state = NotPresent, PlaceOf(BatIndex(g, b)) > 0,
             c \in PlaceOf(BatIndex(g, b)) .. PlaceOf(BatIndex(g, b)) + g.blockSize - 1
      PROVE  <<"ghost", BatIndex(g, b), 0>> \in found
  <2> DEFINE i == BatIndex(g, b)
  <2>1. ~IsBitmapSlot(g, i)
    <3>1. SlotsAgree
      BY SlotsAre DEF FindingsInv
    <3> QED BY <3>1 DEF SlotsAgree
  <2>2. EntryAt(img, i).state # FullyPresent
    BY <1>4 DEF NotPresent, FullyPresent
  <2>3. EntryAt(img, i).mib # 0
    <3>1. SUFFICES ASSUME EntryAt(img, i).mib = 0 PROVE FALSE
      OBVIOUS
    <3>2. 0 * Mib = 0
      BY BatAssumption
    <3> QED BY <1>4, <3>1, <3>2 DEF PlaceOf
  <2>4. g.blockSize > 0
    BY <1>1
  <2>5. GhostFindings \subseteq found
    BY DEF FindingsInv
  <2>6. <<"ghost", i, 0>> \in GhostFindings
    BY <1>4, <2>1, <2>2, <2>3, <2>4 DEF GhostFindings
  <2> QED BY <2>5, <2>6
<1> QED BY <1>3, <1>4

\* Bytes that no read returns and no parser looks at do not escape both searches, behind
\* everything that is in use or where the entry of an absent block points, for every
\* image (check_trailing_data, check_bat_ghost_data).
THEOREM RemnantsAlwaysReported == Spec => []RemnantsReported
BY RemnantsAre, FindingsAlways, PTL
=============================================================================
