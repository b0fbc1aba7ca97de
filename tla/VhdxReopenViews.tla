--------------------------- MODULE VhdxReopenViews ---------------------------
(***************************************************************************)
(* What a reader that commits the log sees of a container under repair:    *)
(* proofs of the properties of VhdxReopen that compare the blocks.         *)
(***************************************************************************)
EXTENDS VhdxReopenProofs

\* The place of a block's entry is in the container, and in the table.
LEMMA EntryPlace ==
    ASSUME NEW img, IsImage(img), ReaderTable(img) # 0,
           NEW b \in 0 .. Blocks - 1, HasEntry(img, b)
    PROVE  LET i == b + b \div ChunkRatio
               bat == ReaderRegions(img).bat
           IN  /\ i \in Nat /\ i < bat.len * Words /\ Fits(bat)
               /\ bat.at + i \div Words \in 0 .. Units - 1 /\ i % Words \in 0 .. Words - 1
               /\ Inside(bat, bat.at + i \div Words)
               /\ i % (ChunkRatio + 1) # ChunkRatio
<1> DEFINE q == b \div ChunkRatio
           r == b % ChunkRatio
           i == b + q
           bat == ReaderRegions(img).bat
<1>1. bat.at \in Nat /\ bat.len \in Nat /\ bat.at + bat.len <= Units
  BY ReaderTableIs DEF Region, Fits
<1>2. b \in Nat /\ ChunkRatio \in Nat \ {0} /\ Words \in Nat \ {0} /\ Units \in Nat
  BY ContainerAssumption
<1>3. q \in Nat /\ r \in 0 .. ChunkRatio - 1 /\ b = ChunkRatio * q + r
  BY <1>2, DivMod
<1>4. i < bat.len * Words
  BY DEF HasEntry
<1> HIDE DEF q, r, bat
<1>5. i \in Nat
  BY <1>2, <1>3
<1>6. i % (ChunkRatio + 1) # ChunkRatio
  <2>1. i = (ChunkRatio + 1) * q + r
    BY <1>2, <1>3
  <2>2. ChunkRatio + 1 \in Nat \ {0} /\ r \in 0 .. (ChunkRatio + 1) - 1 /\ r # ChunkRatio
    BY <1>2, <1>3
  <2>3. ((ChunkRatio + 1) * q + r) % (ChunkRatio + 1) = r
    <3> DEFINE n == ChunkRatio + 1
    <3> HIDE DEF n
    <3>1. n \in Nat \ {0} /\ r \in 0 .. n - 1 /\ q \in Int
      BY <1>3, <2>2 DEF n
    <3>2. (n * q + r) % n = r
      BY <3>1, DivUnique
    <3> QED BY <3>2 DEF n
  <2> QED BY <2>1, <2>2, <2>3
<1> HIDE DEF i
<1>7. i \div Words \in Nat /\ i % Words \in 0 .. Words - 1 /\ i \div Words < bat.len
  BY <1>1, <1>2, <1>4, <1>5, DivMod, DivBelow
<1>8. bat.at + i \div Words \in 0 .. Units - 1 /\ Inside(bat, bat.at + i \div Words)
  BY <1>1, <1>2, <1>7 DEF Inside
<1> QED BY <1>1, <1>4, <1>5, <1>6, <1>7, <1>8 DEF i, q, bat, Fits

\* Blocks look alike whose entries, up to the reserved bits, and contents do.
LEMMA ViewOf ==
    ASSUME NEW a, Opens(a), NEW c, Opens(c), NEW b, HasEntry(a, b), HasEntry(c, b),
           EntryOf(a, b).state = EntryOf(c, b).state, EntryOf(a, b).mib = EntryOf(c, b).mib,
           EntryOf(c, b).state \in {6, 7} /\ EntryOf(c, b).mib < Units =>
               a.unit[EntryOf(c, b).mib] = c.unit[EntryOf(c, b).mib]
    PROVE  View(a, b) = View(c, b)
<1> DEFINE v == EntryOf(a, b)
           w == EntryOf(c, b)
<1>1. /\ v.state = w.state /\ v.mib = w.mib
      /\ w.state \in {6, 7} /\ w.mib < Units => a.unit[w.mib] = c.unit[w.mib]
  OBVIOUS
<1>2. View(a, b) =
        CASE v.state = 0 -> <<"absent">>
          [] v.state \in {1, 2, 3} -> <<"zeros">>
          [] v.state \in {4, 5} -> <<"error">>
          [] v.state \in {6, 7} /\ v.mib >= Units -> <<"error">>
          [] v.state \in {6, 7} /\ v.mib < Units -> <<"data", a.unit[v.mib]>>
  BY DEF View
<1>3. View(c, b) =
        CASE w.state = 0 -> <<"absent">>
          [] w.state \in {1, 2, 3} -> <<"zeros">>
          [] w.state \in {4, 5} -> <<"error">>
          [] w.state \in {6, 7} /\ w.mib >= Units -> <<"error">>
          [] w.state \in {6, 7} /\ w.mib < Units -> <<"data", c.unit[w.mib]>>
  BY DEF View
<1> HIDE DEF v, w
<1> QED BY <1>1, <1>2, <1>3

\* Images with the same units, but for unit 0, show the same blocks, but for one in unit 0.
LEMMA ViewAlike ==
    ASSUME NEW a, IsImage(a), NEW c, IsImage(c), Opens(a), Opens(c),
           ReaderRegions(a).bat = ReaderRegions(c).bat, ~Inside(ReaderRegions(a).bat, 0),
           \A u \in 1 .. Units - 1 : a.unit[u] = c.unit[u],
           NEW b \in 0 .. Blocks - 1, ~ShowsHead(a, b)
    PROVE  View(a, b) = View(c, b)
<1>1. HasEntry(a, b) <=> HasEntry(c, b)
  BY DEF HasEntry
<1>2. CASE ~HasEntry(a, b)
  BY <1>1, <1>2 DEF View
<1>3. CASE HasEntry(a, b)
  <2> DEFINE u == ReaderRegions(a).bat.at + (b + b \div ChunkRatio) \div Words
             k == (b + b \div ChunkRatio) % Words
             w == EntryOf(a, b)
  <2>1. u \in 0 .. Units - 1 /\ k \in 0 .. Words - 1 /\ Inside(ReaderRegions(a).bat, u)
    BY <1>3, EntryPlace DEF Opens
  <2>2. EntryOf(a, b) = a.unit[u][k] /\ EntryOf(c, b) = c.unit[u][k]
    BY DEF EntryOf, WordAt
  <2> HIDE DEF u, k
  <2>3. u \in 1 .. Units - 1
    <3>1. u # 0
      BY <2>1
    <3> QED BY <2>1, <3>1, ContainerAssumption
  <2>4. EntryOf(c, b) = w /\ w \in Word
    <3>1. a.unit[u] \in [0 .. Words - 1 -> Word]
      BY <2>1 DEF IsImage
    <3>2. w = a.unit[u][k] /\ EntryOf(c, b) = a.unit[u][k]
      BY <2>2, <2>3
    <3> QED BY <2>1, <3>1, <3>2
  <2>5. ASSUME w.state \in {6, 7}, w.mib < Units PROVE a.unit[w.mib] = c.unit[w.mib]
    <3>1. w.mib # 0
      BY <1>3, <2>5 DEF ShowsHead
    <3> HIDE DEF w
    <3>2. w.mib \in 1 .. Units - 1
      BY <2>4, <2>5, <3>1, ContainerAssumption DEF Word
    <3> QED BY <3>2
  <2> QED BY <1>1, <1>3, <2>4, <2>5, ViewOf
<1> QED BY <1>2, <1>3

-----------------------------------------------------------------------------
(* A container with its log committed                                      *)

\* A word that the log writes is the log's, in whatever image, and the others are as
\* they were.
LEMMA CommittedWords ==
    ASSUME O!IsLog(log), NEW a, IsImage(a), NEW c, IsImage(c), Writes(a) = Writes(c),
           NEW u \in 0 .. Units - 1, NEW k \in 0 .. Words - 1
    PROVE  /\ Wrote(Writes(a), u, k) =>
                 O!Committed(a).unit[u][k] = O!Committed(c).unit[u][k]
           /\ ~Wrote(Writes(a), u, k) => O!Committed(a).unit[u][k] = a.unit[u][k]
<1> DEFINE ws == Writes(a)
<1>1. IsWrites(ws)
  BY WritesAre DEF Writes
<1>2. O!Committed(a) = O!PutAll(a, ws) /\ O!Committed(c) = O!PutAll(c, ws)
  BY DEF O!Committed, Writes
<1> HIDE DEF ws
<1> QED BY <1>1, <1>2, PutAllWords DEF ws

LEMMA CommittedIsImage ==
    ASSUME O!IsLog(log), NEW img, IsImage(img)
    PROVE  IsImage(O!Committed(img))
BY WritesAre, PutAllIs DEF O!Committed

\* Units that are equal stay so.
LEMMA CommittedUnits ==
    ASSUME O!IsLog(log), NEW a, IsImage(a), NEW c, IsImage(c), Writes(a) = Writes(c),
           NEW u \in 0 .. Units - 1, a.unit[u] = c.unit[u]
    PROVE  O!Committed(a).unit[u] = O!Committed(c).unit[u]
<1> DEFINE f == O!Committed(a).unit[u]
           g == O!Committed(c).unit[u]
           A == 0 .. Words - 1
<1>1. f \in [A -> Word] /\ g \in [A -> Word]
  BY CommittedIsImage DEF IsImage
<1>2. ASSUME NEW k \in A PROVE f[k] = g[k]
  <2>1. Wrote(Writes(a), u, k) => f[k] = g[k]
    BY CommittedWords
  <2>2. ~Wrote(Writes(a), u, k) => f[k] = a.unit[u][k]
    BY CommittedWords
  <2>3. ~Wrote(Writes(a), u, k) => g[k] = c.unit[u][k]
    BY CommittedWords
  <2> QED BY <2>1, <2>2, <2>3
<1> HIDE DEF f, g, A
<1>3. f = g
  BY <1>1, <1>2
<1> QED BY <1>3 DEF f, g

\* Both parsers find their way in a container as they do in another with the same
\* headers and tables, if it has metadata in the same place.
LEMMA SameWay ==
    ASSUME NEW a, NEW c,
           FileKind(a) = FileKind(c), Headers(a) = Headers(c), Tables(a) = Tables(c),
           ReaderTable(a) # 0 /\ ReaderRegions(a).meta.len > 0 =>
               (HasMeta(a, ReaderRegions(a).meta.at) <=> HasMeta(c, ReaderRegions(a).meta.at))
    PROVE  /\ ActiveCopy(a) = ActiveCopy(c)
           /\ ReaderTable(a) = ReaderTable(c) /\ ReaderRegions(a) = ReaderRegions(c)
           /\ AnalyserTable(a) = AnalyserTable(c) /\ AnalyserRegions(a) = AnalyserRegions(c)
           /\ Opens(a) <=> Opens(c)
           /\ \A b : HasEntry(a, b) <=> HasEntry(c, b)
           /\ \A mib : Structural(a, mib) <=> Structural(c, mib)
<1>1. /\ ActiveCopy(a) = ActiveCopy(c) /\ ReaderTable(a) = ReaderTable(c)
      /\ AnalyserTable(a) = AnalyserTable(c)
  BY DEF ActiveCopy, ReaderTable, AnalyserTable
<1>2. ReaderRegions(a) = ReaderRegions(c) /\ AnalyserRegions(a) = AnalyserRegions(c)
  BY <1>1 DEF ReaderRegions, AnalyserRegions
<1>3. Opens(a) <=> Opens(c)
  BY <1>1, <1>2 DEF Opens
<1>4. \A b : HasEntry(a, b) <=> HasEntry(c, b)
  BY <1>2 DEF HasEntry
<1>5. \A mib : Structural(a, mib) <=> Structural(c, mib)
  BY <1>1, <1>2 DEF Structural
<1> QED BY <1>1, <1>2, <1>3, <1>4, <1>5

\* The metadata that the reader takes is in the container.
LEMMA MetaPlace ==
    ASSUME NEW img, IsImage(img), ReaderTable(img) # 0, ReaderRegions(img).meta.len > 0
    PROVE  ReaderRegions(img).meta.at \in 0 .. Units - 1
<1>1. ReaderRegions(img).meta \in Region /\ Fits(ReaderRegions(img).meta)
  BY ReaderTableIs
<1> QED BY <1>1, ContainerAssumption DEF Region, Fits

\* A log that writes no structure changes nothing by which a parser finds its way.
LEMMA CommittedWay ==
    ASSUME O!IsLog(log), NEW img, IsImage(img), SettledIn(img)
    PROVE  LET to == O!Committed(img) IN
           /\ ReaderTable(to) = ReaderTable(img) /\ ReaderRegions(to) = ReaderRegions(img)
           /\ Opens(to) <=> Opens(img)
           /\ \A b : HasEntry(to, b) <=> HasEntry(img, b)
           /\ \A mib : Structural(to, mib) <=> Structural(img, mib)
<1> DEFINE ws == Writes(img)
           to == O!Committed(img)
           at == ReaderRegions(img).meta.at
<1>1. IsWrites(ws) /\ DOMAIN ws = 1 .. Len(ws)
  BY WritesAre DEF Writes
<1>2. to = O!PutAll(img, ws)
  BY DEF O!Committed, Writes
<1>3. /\ \A i \in 1 .. Len(ws) : ws[i].unit # 0
      /\ ReaderTable(img) # 0 => \A i \in 1 .. Len(ws) : ws[i].unit # at
  BY <1>1 DEF SettledIn
<1> HIDE DEF ws, at
<1>4. FileKind(to) = FileKind(img) /\ Headers(to) = Headers(img) /\ Tables(to) = Tables(img)
  <2>1. \A i \in 1 .. Len(ws) : ws[i].unit = 0 => ws[i].word > 2
    BY <1>3
  <2> HIDE DEF to
  <2> QED BY <1>1, <1>2, <1>3, <2>1, PutAllIs
<1>5. ASSUME ReaderTable(img) # 0, ReaderRegions(img).meta.len > 0
      PROVE  to.unit[at][0] = img.unit[at][0]
  <2>1. at \in 0 .. Units - 1 /\ 0 \in 0 .. Words - 1
    BY <1>5, MetaPlace, ContainerAssumption DEF at
  <2>2. ~Wrote(ws, at, 0)
    BY <1>3, <1>5 DEF Wrote
  <2> QED BY <1>1, <1>2, <2>1, <2>2, PutAllWords
<1>6. ReaderTable(img) # 0 /\ ReaderRegions(img).meta.len > 0 =>
          (HasMeta(img, ReaderRegions(img).meta.at) <=> HasMeta(to, ReaderRegions(img).meta.at))
  BY <1>5 DEF HasMeta, at
<1> HIDE DEF to
<1>7. /\ ReaderTable(img) = ReaderTable(to) /\ ReaderRegions(img) = ReaderRegions(to)
      /\ Opens(img) <=> Opens(to)
      /\ \A b : HasEntry(img, b) <=> HasEntry(to, b)
      /\ \A mib : Structural(img, mib) <=> Structural(to, mib)
  BY <1>4, <1>6, SameWay
<1> QED BY <1>7 DEF to

-----------------------------------------------------------------------------
(* One copy lost                                                           *)

\* A container with one of its copies torn: what is left of it elsewhere.
LEMMA TornIs ==
    ASSUME NEW img, IsImage(img), NEW k \in 1 .. 4, NEW left,
           left = WithWord(img, 0, k, ZeroWord)
    PROVE  /\ IsImage(left) /\ FileKind(left) = FileKind(img)
           /\ k \in 1 .. 2 => /\ Tables(left) = Tables(img)
                              /\ Headers(left)[k] = NoHeader
                              /\ Headers(left)[3 - k] = Headers(img)[3 - k]
           /\ k \in 3 .. 4 => /\ Headers(left) = Headers(img)
                              /\ Tables(left)[k - 2] = NoTable
                              /\ Tables(left)[5 - k] = Tables(img)[5 - k]
           /\ \A u \in 1 .. Units - 1 : left.unit[u] = img.unit[u]
           /\ \A u \in 0 .. Units - 1 : left.unit[u][0] = img.unit[u][0]
<1>1. 0 \in 0 .. Units - 1 /\ \A l \in 0 .. 4 : l \in 0 .. Words - 1
  BY ContainerAssumption
<1>2. /\ IsImage(left) /\ left.short = img.short /\ left.unit[0][k] = ZeroWord
      /\ \A u \in 0 .. Units - 1 : \A l \in 0 .. Words - 1 :
            u # 0 \/ l # k => left.unit[u][l] = img.unit[u][l]
  <2>1. k \in 0 .. Words - 1 /\ ZeroWord \in Word
    BY <1>1, ZeroIs
  <2>2. ASSUME NEW v \in 0 .. Units - 1, NEW l \in 0 .. Words - 1, NEW w \in Word
        PROVE  LET to == WithWord(img, v, l, w) IN
               /\ IsImage(to) /\ to.short = img.short /\ to.unit[v][l] = w
               /\ \A u \in 0 .. Units - 1 : \A m \in 0 .. Words - 1 :
                     u # v \/ m # l => to.unit[u][m] = img.unit[u][m]
    BY OneWord
  <2> QED BY <1>1, <2>1, <2>2
<1>3. \A l \in 0 .. 4 : l # k => left.unit[0][l] = img.unit[0][l]
  BY <1>1, <1>2
<1>4. \A u \in 0 .. Units - 1 : left.unit[u][0] = img.unit[u][0]
  BY <1>1, <1>2
<1>5. ASSUME NEW u \in 1 .. Units - 1 PROVE left.unit[u] = img.unit[u]
  <2> DEFINE f == left.unit[u]
             g == img.unit[u]
             A == 0 .. Words - 1
  <2>1. f \in [A -> Word] /\ g \in [A -> Word]
    BY <1>2, ContainerAssumption DEF IsImage
  <2>2. \A l \in A : f[l] = g[l]
    BY <1>2, ContainerAssumption
  <2> HIDE DEF f, g, A
  <2>3. f = g
    BY <2>1, <2>2
  <2> QED BY <2>3 DEF f, g
<1>6. ZeroWord.part.kind = "none"
  BY DEF ZeroWord, NoPart
<1>7. left.unit[0][0] = img.unit[0][0]
  BY <1>3
<1>8. FileKind(left) = FileKind(img)
  BY <1>2, <1>7, SameStructures
<1>9. ASSUME k \in 1 .. 2
       PROVE  /\ Tables(left) = Tables(img) /\ Headers(left)[k] = NoHeader
              /\ Headers(left)[3 - k] = Headers(img)[3 - k]
  <2>1. \A l \in 3 .. 4 : left.unit[0][l] = img.unit[0][l]
    BY <1>3, <1>9
  <2>2. Tables(left) = Tables(img)
    BY <1>2, <1>7, <2>1, SameStructures
  <2>3. 3 - k \in 1 .. 2 /\ 3 - k # k
    BY <1>9
  <2>4. left.unit[0][3 - k] = img.unit[0][3 - k]
    BY <1>3, <2>3
  <2>5. Headers(left)[3 - k] = Headers(img)[3 - k]
    BY <2>3, <2>4 DEF Headers
  <2>6. Headers(left)[k] = NoHeader
    BY <1>2, <1>6, <1>9 DEF Headers, HeaderIn
  <2> QED BY <2>2, <2>5, <2>6
<1>10. ASSUME k \in 3 .. 4
       PROVE  /\ Headers(left) = Headers(img) /\ Tables(left)[k - 2] = NoTable
              /\ Tables(left)[5 - k] = Tables(img)[5 - k]
  <2>1. \A l \in 1 .. 2 : left.unit[0][l] = img.unit[0][l]
    BY <1>3, <1>10
  <2>2. Headers(left) = Headers(img)
    BY <1>2, <1>7, <2>1, SameStructures
  <2>3. k - 2 \in 1 .. 2 /\ (k - 2) + 2 = k
    BY <1>10
  <2>4. 5 - k \in 1 .. 2 /\ (5 - k) + 2 \in 0 .. 4 /\ (5 - k) + 2 # k
    BY <1>10
  <2>5. left.unit[0][(5 - k) + 2] = img.unit[0][(5 - k) + 2]
    BY <1>3, <2>4
  <2>6. Tables(left)[5 - k] = Tables(img)[5 - k]
    BY <2>4, <2>5 DEF Tables
  <2>7. Tables(left)[k - 2] = NoTable
    BY <1>2, <1>6, <2>3 DEF Tables, TableIn
  <2> QED BY <2>2, <2>6, <2>7
<1> QED BY <1>2, <1>4, <1>5, <1>8, <1>9, <1>10

LEMMA SameActive ==
    ASSUME NEW a, NEW c, Headers(a) = Headers(c)
    PROVE  ActiveCopy(a) = ActiveCopy(c)
BY DEF ActiveCopy

\* The log that is replayed depends on the place and the GUID of the chosen header's.
LEMMA SameLog ==
    ASSUME O!IsLog(log), NEW a, NEW c,
           ActiveCopy(a) # 0, ActiveCopy(c) # 0,
           Headers(a)[ActiveCopy(a)].log = Headers(c)[ActiveCopy(c)].log,
           Headers(a)[ActiveCopy(a)].guid = Headers(c)[ActiveCopy(c)].guid,
           LET x == Headers(c)[ActiveCopy(c)] IN
           Dirty(x) /\ x.log.at \in 1 .. Units - 1 =>
               a.unit[x.log.at][0] = c.unit[x.log.at][0]
    PROVE  Writes(a) = Writes(c)
<1> DEFINE x == Headers(a)[ActiveCopy(a)]
           y == Headers(c)[ActiveCopy(c)]
<1>1. O!Writes(a) = O!WritesOf(a, x) /\ O!Writes(c) = O!WritesOf(c, y)
  BY SameOpening DEF O!Writes
<1>2. x.log = y.log /\ x.guid = y.guid
  OBVIOUS
<1>3. Dirty(y) /\ y.log.at \in 1 .. Units - 1 => a.unit[y.log.at][0] = c.unit[y.log.at][0]
  OBVIOUS
<1> HIDE DEF x, y
<1>4. (O!Dirty(x) <=> Dirty(y)) /\ (O!Dirty(y) <=> Dirty(y))
  BY <1>2, SameOpening DEF Dirty
<1>5. DOMAIN log \subseteq 1 .. Units - 1
  BY DEF O!IsLog
<1>6. O!WritesOf(a, x) = O!WritesOf(c, y)
  <2>1. CASE Dirty(y) /\ y.log.at \in DOMAIN log
    <3>1. a.unit[y.log.at][0] = c.unit[y.log.at][0]
      BY <1>3, <1>5, <2>1
    <3> QED BY <1>2, <1>4, <2>1, <3>1 DEF O!WritesOf
  <2>2. CASE ~(Dirty(y) /\ y.log.at \in DOMAIN log)
    BY <1>2, <1>4, <2>2 DEF O!WritesOf
  <2> QED BY <2>1, <2>2
<1> QED BY <1>1, <1>6 DEF Writes

\* A container whose copies agree, with one of its headers torn.
LEMMA TornHeader ==
    ASSUME O!IsLog(log), NEW img, IsImage(img), Opens(img), ~Uncompared(img),
           CopyIssues(Headers(img), "header") = <<>>,
           HeaderMismatches(img) \subseteq {"zero", "identical", "gap"},
           NEW c \in 1 .. 2, NEW left, left = WithWord(img, 0, c, ZeroWord)
    PROVE  /\ Opens(left) /\ Writes(left) = Writes(img)
           /\ ReaderRegions(left) = ReaderRegions(img)
<1> DEFINE h == Headers(img)
<1>1. /\ IsImage(left) /\ FileKind(left) = FileKind(img) /\ Tables(left) = Tables(img)
      /\ Headers(left)[c] = NoHeader /\ Headers(left)[3 - c] = h[3 - c]
      /\ \A u \in 0 .. Units - 1 : left.unit[u][0] = img.unit[u][0]
  BY TornIs
<1>2. h[1] \in HeaderCopy /\ h[2] \in HeaderCopy
  BY CopiesAre
<1>3. h[1].ok = h[2].ok
  BY DEF CopyIssues
<1>4. ActiveCopy(img) # 0
  BY DEF Opens
<1>5. h[1].ok /\ h[2].ok
  BY <1>2, <1>3, <1>4, ActiveCopyIs
<1>6. h[1].log = h[2].log /\ h[1].guid = h[2].guid
  <2>1. h[1].log.len = h[2].log.len /\ h[1].log.at = h[2].log.at
    BY <1>5 DEF HeaderMismatches
  <2>2. h[1].log \in Region /\ h[2].log \in Region
    BY <1>2 DEF HeaderCopy
  <2> QED BY <2>1, <2>2 DEF Region, Uncompared
<1> HIDE DEF h
<1>7. ActiveCopy(left) = 3 - c /\ Headers(left)[ActiveCopy(left)] = h[3 - c]
  <2>1. ~Headers(left)[c].ok /\ Headers(left)[3 - c] = h[3 - c]
    BY <1>1 DEF NoHeader
  <2>2. Headers(left)[3 - c].ok
    <3>1. c = 1 \/ c = 2
      OBVIOUS
    <3> QED BY <1>5, <2>1, <3>1
  <2>3. ActiveCopy(left) = 3 - c
    <3>1. ActiveCopy(left) =
            IF Headers(left)[1].ok
               /\ (Headers(left)[2].ok => Headers(left)[1].seq >= Headers(left)[2].seq)
            THEN 1 ELSE IF Headers(left)[2].ok THEN 2 ELSE 0
      BY <1>1, ActiveCopyIs
    <3>2. \/ c = 1 /\ 3 - c = 2 /\ ~Headers(left)[1].ok /\ Headers(left)[2].ok
          \/ c = 2 /\ 3 - c = 1 /\ ~Headers(left)[2].ok /\ Headers(left)[1].ok
      <4>1. c = 1 \/ c = 2
        OBVIOUS
      <4>2. c = 1 => 3 - c = 2
        OBVIOUS
      <4>3. c = 2 => 3 - c = 1
        OBVIOUS
      <4> QED BY <2>1, <2>2, <4>1, <4>2, <4>3
    <3> QED BY <3>1, <3>2
  <2> QED BY <2>1, <2>3
<1>8. ActiveCopy(img) \in 1 .. 2
  BY <1>4, ActiveCopyIs
<1>9. /\ Headers(left)[ActiveCopy(left)].log = Headers(img)[ActiveCopy(img)].log
      /\ Headers(left)[ActiveCopy(left)].guid = Headers(img)[ActiveCopy(img)].guid
  BY <1>6, <1>7, <1>8 DEF h
<1>10. ActiveCopy(left) # 0
  BY <1>7
<1>11. Writes(left) = Writes(img)
  <2>1. \A u \in 1 .. Units - 1 : left.unit[u][0] = img.unit[u][0]
    BY <1>1, ContainerAssumption
  <2> QED BY <1>4, <1>9, <1>10, <2>1, SameLog
<1>12. ReaderTable(left) = ReaderTable(img) /\ ReaderRegions(left) = ReaderRegions(img)
  BY <1>1 DEF ReaderTable, ReaderRegions
<1>13. HasMeta(left, ReaderRegions(img).meta.at)
  BY <1>1, MetaPlace DEF Opens, HasMeta
<1>14. Opens(left)
  BY <1>1, <1>9, <1>10, <1>12, <1>13 DEF Opens, Dirty
<1> QED BY <1>11, <1>12, <1>14

\* The same, with one of its region tables torn.
LEMMA TornTable ==
    ASSUME O!IsLog(log), NEW img, IsImage(img), Opens(img), ~Uncompared(img),
           CopyIssues(Tables(img), "table") = <<>>, TableMismatches(img) = {},
           NEW c \in 1 .. 2, NEW left, left = WithWord(img, 0, c + 2, ZeroWord)
    PROVE  /\ Opens(left) /\ Writes(left) = Writes(img)
           /\ ReaderRegions(left).bat = ReaderRegions(img).bat
           /\ ReaderRegions(left).meta = ReaderRegions(img).meta
<1> DEFINE t == Tables(img)
<1>1. /\ FileKind(left) = FileKind(img) /\ Headers(left) = Headers(img)
      /\ Tables(left)[c] = NoTable /\ Tables(left)[3 - c] = t[3 - c]
      /\ \A u \in 0 .. Units - 1 : left.unit[u][0] = img.unit[u][0]
  <2> DEFINE k == c + 2
  <2>1. k \in 1 .. 4 /\ k \in 3 .. 4 /\ k - 2 = c /\ 5 - k = 3 - c
    OBVIOUS
  <2>2. left = WithWord(img, 0, k, ZeroWord)
    OBVIOUS
  <2> HIDE DEF k
  <2>3. /\ FileKind(left) = FileKind(img) /\ Headers(left) = Headers(img)
        /\ Tables(left)[k - 2] = NoTable /\ Tables(left)[5 - k] = t[5 - k]
        /\ \A u \in 0 .. Units - 1 : left.unit[u][0] = img.unit[u][0]
    BY <2>1, <2>2, TornIs
  <2> QED BY <2>1, <2>3
<1>2. t[1] \in TableCopy /\ t[2] \in TableCopy
  BY CopiesAre
<1>3. t[1].ok = t[2].ok
  BY DEF CopyIssues
<1>4. ReaderTable(img) # 0
  BY DEF Opens
<1>5. t[1].ok /\ t[2].ok
  BY <1>2, <1>3, <1>4 DEF ReaderTable, First, Complete, TableCopy
<1>6. t[1].names = t[2].names
  BY DEF Uncompared
<1>7. \A r \in Range(t[1].names) : t[1].regions[r] = t[2].regions[r]
  <2> SUFFICES ASSUME NEW r \in Range(t[1].names) PROVE t[1].regions[r] = t[2].regions[r]
    OBVIOUS
  <2>1. PICK i \in DOMAIN t[1].names : t[1].names[i] = r
    BY DEF Range
  <2>2. CASE r = "other"
    BY <2>2 DEF Uncompared
  <2>3. CASE r # "other"
    <3>1. i \in Paired(t[1], t[2])
      BY <1>6, <2>1, <2>3 DEF Paired
    <3>2. {t[1].names[j] : j \in {k \in Paired(t[1], t[2]) :
             t[1].regions[t[1].names[k]] # t[2].regions[t[2].names[k]]}} = {}
      BY <1>5 DEF TableMismatches
    <3> QED BY <1>6, <2>1, <3>1, <3>2
  <2> QED BY <2>2, <2>3
<1> HIDE DEF t
<1>8. /\ Complete(t[1]) /\ \A r \in Range(t[1].names) : Fits(t[1].regions[r])
      /\ Complete(t[2]) /\ \A r \in Range(t[2].names) : Fits(t[2].regions[r])
  BY <1>4, <1>5, <1>6, <1>7 DEF ReaderTable, First, Complete, t
<1>9. ReaderTable(img) = 1
  BY <1>8 DEF ReaderTable, First, t
<1>10. ReaderTable(left) = 3 - c
  <2>1. ~Complete(Tables(left)[c])
    BY <1>1 DEF NoTable, Complete
  <2>2. /\ Complete(Tables(left)[3 - c])
        /\ \A r \in Range(Tables(left)[3 - c].names) : Fits(Tables(left)[3 - c].regions[r])
    <3>1. c = 1 \/ c = 2
      OBVIOUS
    <3> QED BY <1>1, <1>8, <3>1
  <2> QED BY <2>1, <2>2 DEF ReaderTable, First
<1>11. /\ ReaderTable(left) # 0
       /\ ReaderRegions(left).bat = ReaderRegions(img).bat
       /\ ReaderRegions(left).meta = ReaderRegions(img).meta
  <2>1. {"bat", "meta"} \subseteq Range(t[1].names)
    BY <1>8 DEF Complete
  <2>2. ReaderRegions(left) = t[3 - c].regions /\ ReaderRegions(img) = t[1].regions
    BY <1>1, <1>9, <1>10 DEF ReaderRegions, t
  <2>3. 3 - c = 1 \/ 3 - c = 2
    OBVIOUS
  <2> QED BY <1>7, <1>10, <2>1, <2>2, <2>3
<1>12. ActiveCopy(left) = ActiveCopy(img)
  BY <1>1, SameActive
<1>13. HasMeta(left, ReaderRegions(img).meta.at)
  BY <1>1, MetaPlace DEF Opens, HasMeta
<1>14. Opens(left)
  BY <1>1, <1>11, <1>12, <1>13 DEF Opens
<1>15. Writes(left) = Writes(img)
  <2>1. ActiveCopy(img) # 0
    BY DEF Opens
  <2>2. \A u \in 1 .. Units - 1 : left.unit[u][0] = img.unit[u][0]
    BY <1>1, ContainerAssumption
  <2> QED BY <1>1, <1>12, <2>1, <2>2, SameLog
<1> QED BY <1>11, <1>14, <1>15

\* Images with the same units, but for unit 0, show the same blocks once the log is
\* committed, but for one in unit 0.
LEMMA CommittedAlike ==
    ASSUME O!IsLog(log), NEW a, IsImage(a), Opens(a), NEW c, IsImage(c), Opens(c),
           SettledIn(a), Writes(a) = Writes(c),
           \A u \in 1 .. Units - 1 : a.unit[u] = c.unit[u],
           ReaderRegions(a).bat = ReaderRegions(c).bat,
           ReaderRegions(a).meta = ReaderRegions(c).meta,
           ~Inside(ReaderRegions(a).bat, 0),
           NEW b \in 0 .. Blocks - 1, ~ShowsHead(O!Committed(a), b)
    PROVE  View(O!Committed(a), b) = View(O!Committed(c), b)
<1> DEFINE p == O!Committed(a)
           q == O!Committed(c)
<1>1. SettledIn(c)
  BY DEF SettledIn, Opens
<1>2. \A u \in 1 .. Units - 1 : p.unit[u] = q.unit[u]
  <2>1. \A u \in 1 .. Units - 1 : u \in 0 .. Units - 1
    BY ContainerAssumption
  <2> QED BY <2>1, CommittedUnits
<1>3. IsImage(p) /\ Opens(p) /\ ReaderRegions(p) = ReaderRegions(a)
  BY CommittedIsImage, CommittedWay
<1>4. IsImage(q) /\ Opens(q) /\ ReaderRegions(q) = ReaderRegions(c)
  BY <1>1, CommittedIsImage, CommittedWay
<1>5. ~ShowsHead(p, b)
  OBVIOUS
<1> HIDE DEF p, q
<1>6. View(p, b) = View(q, b)
  BY <1>2, <1>3, <1>4, <1>5, ViewAlike
<1> QED BY <1>6 DEF p, q

\* Where the analyser reports neither a bad copy nor a mismatch, any one copy can be lost
\* and a reader that commits the log shows the same blocks, but for one in the unit of the
\* copies (check_header_pair, check_region_table_pair).
THEOREM QuietCopiesAreSpares == ReopenSpec => []QuietCopiesInterchange
<1>1. OpenInv => QuietCopiesInterchange
  <2> SUFFICES ASSUME OpenInv,
                      CopyIssues(Headers(image), "header") = <<>>,
                      CopyIssues(Tables(image), "table") = <<>>,
                      HeaderMismatches(image) \subseteq {"zero", "identical", "gap"},
                      TableMismatches(image) = {},
                      Opens(image), SettledIn(image), ~Uncompared(image),
                      ~Inside(ReaderRegions(image).bat, 0),
                      NEW left \in Torn(image), NEW b \in 0 .. Blocks - 1,
                      ~ShowsHead(O!Committed(image), b)
               PROVE  View(O!Committed(left), b) = View(O!Committed(image), b)
    BY DEF QuietCopiesInterchange
  <2>1. O!IsLog(log) /\ IsImage(image)
    BY DEF OpenInv, AttemptInv, TypeInv
  <2>2. PICK k \in 1 .. 4 : left = WithWord(image, 0, k, ZeroWord)
    BY DEF Torn, WithWord
  <2>3. /\ Opens(left) /\ Writes(left) = Writes(image)
        /\ ReaderRegions(left).bat = ReaderRegions(image).bat
        /\ ReaderRegions(left).meta = ReaderRegions(image).meta
    <3>1. CASE k \in 1 .. 2
      BY <2>1, <2>2, <3>1, TornHeader
    <3>2. CASE k \in 3 .. 4
      <4> DEFINE c == k - 2
      <4>1. c \in 1 .. 2 /\ k = c + 2
        BY <3>2
      <4> HIDE DEF c
      <4>2. left = WithWord(image, 0, c + 2, ZeroWord)
        BY <2>2, <4>1
      <4> QED BY <2>1, <4>1, <4>2, TornTable
    <3> QED BY <3>1, <3>2
  <2>4. IsImage(left) /\ \A u \in 1 .. Units - 1 : left.unit[u] = image.unit[u]
    BY <2>1, <2>2, TornIs
  <2> QED BY <2>1, <2>3, <2>4, CommittedAlike
<1> QED BY <1>1, OpenInvInit, OpenInvStep, PTL DEF ReopenSpec

-----------------------------------------------------------------------------
(* Under repair                                                            *)

\* Repair leaves the log that is replayed, and what opens, as they were.
LEMMA WayKept ==
    ASSUME O!IsLog(log), NEW now, NEW was, LayoutKept(now, was)
    PROVE  /\ Writes(now) = Writes(was)
           /\ Opens(now) <=> Opens(was)
           /\ ReaderTable(now) = 0 <=> ReaderTable(was) = 0
           /\ ReaderTable(was) # 0 => ReaderRegions(now) = ReaderRegions(was)
           /\ AnalyserTable(was) # 0 =>
                 \A mib : Structural(now, mib) <=> Structural(was, mib)
<1>1. /\ ActiveCopy(now) = 0 <=> ActiveCopy(was) = 0
      /\ ActiveCopy(was) # 0 =>
            Headers(now)[ActiveCopy(now)] = Headers(was)[ActiveCopy(was)]
  BY HeaderKept DEF LayoutKept
<1>2. /\ ReaderTable(now) = 0 <=> ReaderTable(was) = 0
      /\ ReaderTable(was) # 0 => ReaderRegions(now) = ReaderRegions(was)
      /\ AnalyserTable(was) # 0 => AnalyserRegions(now) = AnalyserRegions(was)
  BY RegionsKept DEF LayoutKept
<1>3. Writes(now) = Writes(was)
  <2>1. CASE ActiveCopy(was) = 0
    BY <1>1, <2>1, SameOpening DEF Writes, O!Writes
  <2>2. CASE ActiveCopy(was) # 0
    <3> DEFINE x == Headers(was)[ActiveCopy(was)]
    <3>1. ASSUME Dirty(x), x.log.at \in 1 .. Units - 1
          PROVE  now.unit[x.log.at][0] = was.unit[x.log.at][0]
      <4>1. x.log.len > 0
        BY <3>1 DEF Dirty
      <4>2. Landmark(was, x.log.at)
        BY <2>2, <4>1 DEF Landmark
      <4>3. x.log.at \in 0 .. Units - 1
        BY <3>1, ContainerAssumption
      <4> HIDE DEF x
      <4> QED BY <4>2, <4>3 DEF LayoutKept
    <3> QED BY <1>1, <2>2, <3>1, SameLog
  <2> QED BY <2>1, <2>2
<1>4. FileKind(now) = FileKind(was) /\ IsImage(was)
  BY DEF LayoutKept
<1>5. ASSUME ReaderTable(was) # 0, ReaderRegions(was).meta.len > 0
      PROVE  HasMeta(now, ReaderRegions(was).meta.at) <=> HasMeta(was, ReaderRegions(was).meta.at)
  <2> DEFINE u == ReaderRegions(was).meta.at
  <2>1. u \in 0 .. Units - 1 /\ Landmark(was, u)
    BY <1>4, <1>5, MetaPlace DEF Landmark
  <2> HIDE DEF u
  <2>2. HasMeta(now, u) <=> HasMeta(was, u)
    BY <2>1 DEF LayoutKept, HasMeta
  <2> QED BY <2>2 DEF u
<1>6. Opens(now) <=> Opens(was)
  BY <1>1, <1>2, <1>4, <1>5 DEF Opens
<1>7. AnalyserTable(was) # 0 => \A mib : Structural(now, mib) <=> Structural(was, mib)
  BY <1>1, <1>2 DEF Structural
<1> QED BY <1>2, <1>3, <1>6, <1>7

\* The log writes no structure of the image under repair either.
LEMMA SettledKept ==
    ASSUME O!IsLog(log), NEW now, NEW was, LayoutKept(now, was), SettledIn(was)
    PROVE  SettledIn(now)
BY WayKept DEF SettledIn

\* What an entry tells of a misplaced block.
Misplaced(img, w) == w.state = 1 \/ (w.state = 6 /\ (w.mib >= Units \/ Structural(img, w.mib)))

LEMMA MisplacedIsFault ==
    ASSUME NEW img, NEW w
    PROVE  Misplaced(img, w) <=> \E k \in Zeroing : k \in Faults(img, w)
BY DEF Misplaced, Faults, Zeroing, EntryKind

\* A block's entry is among those that the analyser looks at.
LEMMA BlockScanned ==
    ASSUME NEW img, IsImage(img), Opens(img), ReaderRegions(img) = AnalyserRegions(img),
           NEW b \in 0 .. Blocks - 1, HasEntry(img, b)
    PROVE  b + b \div ChunkRatio \in Scanned(img)
<1> DEFINE i == b + b \div ChunkRatio
<1>1. ReaderTable(img) # 0
  BY DEF Opens
<1>2. /\ i \in Nat /\ i < Bat(img).len * Words /\ Fits(Bat(img))
      /\ i % (ChunkRatio + 1) # ChunkRatio
  BY <1>1, EntryPlace DEF Bat
<1>3. AnalyserTable(img) # 0
  BY <1>1 DEF ReaderTable, AnalyserTable, First
<1> HIDE DEF i
<1>4. i \in Scanned(img)
  BY <1>2, <1>3 DEF Scanned, IsBitmapSlot, Bat
<1> QED BY <1>4 DEF i

\* What the log writes of the entry of a block is in the word of that entry.
LEMMA LoggedIs ==
    ASSUME O!IsLog(log), NEW b
    PROVE  LET k == b + b \div ChunkRatio IN
           Logged(b) <=> Wrote(Writes(original),
                               ReaderRegions(original).bat.at + k \div Words, k % Words)
<1>1. DOMAIN Writes(original) = 1 .. Len(Writes(original))
  BY WritesAre DEF Writes
<1> QED BY <1>1 DEF Logged, Wrote

\* After a repair a block is misplaced only by the log (repair.rs:93-96).
THEOREM RepairLeavesTheLogs == ReopenSpec => []DamageIsTheLogs
<1>1. OpenInv => DamageIsTheLogs
  <2> DEFINE to == O!Committed(image)
  <2> SUFFICES ASSUME OpenInv, pc = "idle", attempts > 0, Apart(original), Sound(original),
                      Settled, NEW b \in 0 .. Blocks - 1, Damaged(to, b), ~Logged(b)
               PROVE  FALSE
    BY DEF DamageIsTheLogs
  <2> DEFINE i == b + b \div ChunkRatio
             bat == ReaderRegions(original).bat
             u == bat.at + i \div Words
             l == i % Words
             w == WordAt(image, bat.at, i)
  <2>1. /\ O!IsLog(log) /\ IsImage(image) /\ IsImage(original)
        /\ RepairInv /\ LayoutKept(image, original)
    BY DEF OpenInv, AttemptInv, TypeInv, RepairInv
  <2>2. Writes(image) = Writes(original) /\ SettledIn(image)
    BY <2>1, WayKept, SettledKept DEF Settled
  <2>3. Opens(to) /\ HasEntry(to, b) /\ Misplaced(to, EntryOf(to, b))
    BY DEF Damaged, Misplaced
  <2>4. Opens(image) /\ HasEntry(image, b) /\ ReaderRegions(to) = ReaderRegions(image)
        /\ \A mib : Structural(to, mib) <=> Structural(image, mib)
    BY <2>1, <2>2, <2>3, CommittedWay
  <2>5. Opens(original) /\ ReaderTable(original) # 0
    BY <2>1, <2>4, WayKept DEF Opens
  <2>6. ReaderRegions(image) = ReaderRegions(original)
    BY <2>1, <2>5, WayKept
  <2>7. HasEntry(original, b) /\ ReaderRegions(original) = AnalyserRegions(original)
    BY <2>4, <2>5, <2>6 DEF HasEntry, Sound
  <2>8. i \in Scanned(original)
    BY <2>1, <2>5, <2>7, BlockScanned
  <2>9. u \in 0 .. Units - 1 /\ l \in 0 .. Words - 1
    BY <2>1, <2>5, <2>7, EntryPlace
  <2>10. to.unit[u][l] = image.unit[u][l]
    <3>1. ~Wrote(Writes(image), u, l)
      BY <2>1, <2>2, LoggedIs
    <3> HIDE DEF u, l
    <3> QED BY <2>1, <2>9, <3>1, CommittedWords
  <2>11. EntryOf(to, b) = w
    BY <2>4, <2>6, <2>10 DEF EntryOf, WordAt
  <2>12. AnalyserTable(original) # 0
    BY <2>1, <2>8, ScannedPlaces
  <2>13. Misplaced(original, w)
    <3> HIDE DEF w, to
    <3> QED BY <2>1, <2>3, <2>4, <2>11, <2>12, WayKept DEF Misplaced
  <2>14. PICK k \in Zeroing : k \in Faults(original, w)
    BY <2>13, MisplacedIsFault
  <2> DEFINE x == [kind |-> k, of |-> i]
  <2>15. x \in Finding
    BY <2>1, <2>8, ScannedPlaces DEF Finding, Zeroing, EntryKind
  <2>16. Reported(image, original, x)
    <3>1. FileKind(original) = "vhdx"
      BY <2>5 DEF Opens
    <3>2. x.of \in Scanned(original) /\ x.kind \in Faults(original, WordAt(image, Bat(original).at, x.of))
      BY <2>7, <2>8, <2>14 DEF Bat
    <3> QED BY <3>1, <3>2 DEF Reported
  <2>17. x \in Range(issues) /\ issues = <<>>
    <3> HIDE DEF x
    <3> QED BY <2>1, <2>15, <2>16 DEF RepairInv, Listed
  <2> QED BY <2>17, NoElements
<1> QED BY <1>1, OpenInvInit, OpenInvStep, PTL DEF ReopenSpec

\* A unit that the table does not lie in is as it was.
LEMMA OffTheTable ==
    ASSUME NEW now, NEW was, LayoutKept(now, was), WordsKept(now, was),
           AnalyserTable(was) # 0, NEW u \in 1 .. Units - 1, ~Inside(Bat(was), u)
    PROVE  now.unit[u] = was.unit[u]
<1>1. /\ now.unit[u] \in [0 .. Words - 1 -> Word]
      /\ was.unit[u] \in [0 .. Words - 1 -> Word]
  BY ContainerAssumption DEF LayoutKept, IsImage
<1>2. ASSUME NEW i \in Scanned(was) PROVE u # Bat(was).at + i \div Words
  <2>1. IsImage(was)
    BY DEF LayoutKept
  <2>2. Bat(was).at \in Nat /\ Bat(was).len \in Nat
    BY <2>1, AnalyserTableIs DEF Bat
  <2>3. i \in Nat /\ i < Bat(was).len * Words
    BY DEF Scanned, Bat
  <2>4. i \div Words \in Nat /\ i \div Words < Bat(was).len
    BY <2>2, <2>3, DivMod, DivBelow, ContainerAssumption
  <2>5. u < Bat(was).at \/ u >= Bat(was).at + Bat(was).len
    BY <2>2 DEF Inside
  <2> QED BY <2>2, <2>4, <2>5
<1>3. ASSUME NEW k \in 0 .. Words - 1 PROVE now.unit[u][k] = was.unit[u][k]
  BY <1>2 DEF WordsKept, WordKept
<1> DEFINE f == now.unit[u]
           g == was.unit[u]
           A == 0 .. Words - 1
<1>4. f \in [A -> Word] /\ g \in [A -> Word] /\ \A k \in A : f[k] = g[k]
  BY <1>1, <1>3
<1> HIDE DEF f, g, A
<1>5. f = g
  BY <1>4
<1> QED BY <1>5 DEF f, g

\* What repair makes of an entry.
LEMMA MendedIs ==
    ASSUME NEW was, NEW word \in Word, NEW to, Mended(was, word, to)
    PROVE  \/ to.state = 0 /\ Misplaced(was, word)
           \/ to.state = word.state /\ to.mib = word.mib
<1>1. CASE to = ZeroWord /\ \E k \in Zeroing : k \in Faults(was, word)
  BY <1>1, MisplacedIsFault DEF ZeroWord
<1>2. CASE to = Cleared(word)
  BY <1>2, ClearedIs
<1> QED BY <1>1, <1>2 DEF Mended

\* Of a sound container whose table lies apart from its structures, and that is sound with
\* its log committed, a reader that commits the log sees what it saw before, at any point of
\* any repair, but for misplaced blocks, and those are absent (README.md:129).
THEOREM RepairChangesDamageOnly == ReopenSpec => []OnlyDamageChanges
<1>1. OpenInv => OnlyDamageChanges
  <2> DEFINE to == O!Committed(image)
             old == O!Committed(original)
  <2> SUFFICES ASSUME OpenInv, Apart(original), Sound(original), Sound(old), Settled,
                      NEW b \in 0 .. Blocks - 1, ~ShowsHead(old, b)
               PROVE  \/ View(to, b) = View(old, b)
                      \/ Damaged(original, b) /\ ~Logged(b) /\ View(to, b) = <<"absent">>
    BY DEF OnlyDamageChanges
  <2>1. /\ O!IsLog(log) /\ IsImage(image) /\ IsImage(original)
        /\ LayoutKept(image, original) /\ WordsKept(image, original)
    BY DEF OpenInv, AttemptInv, TypeInv, RepairInv
  <2>2. Writes(image) = Writes(original) /\ SettledIn(image) /\ SettledIn(original)
    BY <2>1, WayKept, SettledKept DEF Settled
  <2>3. /\ IsImage(to) /\ ReaderRegions(to) = ReaderRegions(image)
        /\ Opens(to) <=> Opens(image)
        /\ \A u \in 0 .. Units - 1 : \A k \in 0 .. Words - 1 :
              ~Wrote(Writes(original), u, k) => to.unit[u][k] = image.unit[u][k]
    BY <2>1, <2>2, CommittedIsImage, CommittedWay, CommittedWords
  <2>4. /\ IsImage(old) /\ ReaderRegions(old) = ReaderRegions(original)
        /\ Opens(old) <=> Opens(original)
        /\ \A u \in 0 .. Units - 1 : \A k \in 0 .. Words - 1 :
              ~Wrote(Writes(original), u, k) => old.unit[u][k] = original.unit[u][k]
    BY <2>1, <2>2, CommittedIsImage, CommittedWay, CommittedWords
  <2>5. \A u \in 0 .. Units - 1 : \A k \in 0 .. Words - 1 :
            Wrote(Writes(original), u, k) => to.unit[u][k] = old.unit[u][k]
    BY <2>1, <2>2, CommittedWords
  <2>6. \A u \in 0 .. Units - 1 : image.unit[u] = original.unit[u] => to.unit[u] = old.unit[u]
    BY <2>1, <2>2, CommittedUnits
  <2> HIDE DEF to, old
  <2>7. /\ Opens(to) <=> Opens(original)
        /\ Opens(old) <=> Opens(original)
    BY <2>1, <2>3, <2>4, WayKept
  <2>8. CASE ~Opens(original)
    BY <2>7, <2>8 DEF View
  <2>9. CASE Opens(original)
    <3> DEFINE bat == ReaderRegions(original).bat
               i == b + b \div ChunkRatio
               u == bat.at + i \div Words
               k == i % Words
    <3>1. ReaderRegions(to) = ReaderRegions(original) /\ ReaderRegions(old) = ReaderRegions(original)
      <4>1. ReaderTable(original) # 0
        BY <2>9 DEF Opens
      <4> QED BY <2>1, <2>3, <2>4, <4>1, WayKept
    <3>2. /\ HasEntry(to, b) <=> HasEntry(original, b)
          /\ HasEntry(old, b) <=> HasEntry(original, b)
      BY <3>1 DEF HasEntry
    <3>3. CASE ~HasEntry(original, b)
      BY <2>7, <2>9, <3>2, <3>3 DEF View
    <3>4. CASE HasEntry(original, b)
      <4>1. bat = Bat(original) /\ ReaderRegions(original) = AnalyserRegions(original)
        BY <2>9 DEF Sound, Bat
      <4>2. i \in Scanned(original) /\ AnalyserTable(original) # 0
        BY <2>1, <2>9, <3>4, <4>1, BlockScanned, ScannedPlaces
      <4>3. u \in 1 .. Units - 1 /\ k \in 0 .. Words - 1
        BY <2>1, <2>9, <3>4, <4>1, <4>2, EntryPlace, ScannedApart DEF Opens
      <4>4. u \in 0 .. Units - 1
        BY <4>3, ContainerAssumption
      <4>5. /\ EntryOf(to, b) = to.unit[u][k] /\ EntryOf(old, b) = old.unit[u][k]
            /\ EntryOf(original, b) = original.unit[u][k]
        BY <3>1 DEF EntryOf, WordAt
      <4>6. Logged(b) <=> Wrote(Writes(original), u, k)
        BY <2>1, LoggedIs
      <4> DEFINE v == EntryOf(to, b)
                 w == EntryOf(old, b)
      <4> HIDE DEF u, k, i
      <4>7. w \in Word
        <5>1. old.unit[u] \in [0 .. Words - 1 -> Word]
          BY <2>4, <4>4 DEF IsImage
        <5> QED BY <4>3, <4>5, <5>1
      <4>8. CASE v.state = w.state /\ v.mib = w.mib
        <5>1. ASSUME w.state \in {6, 7}, w.mib < Units
              PROVE  to.unit[w.mib] = old.unit[w.mib]
          <6>1. w.mib # 0
            BY <2>7, <2>9, <3>2, <3>4, <5>1 DEF ShowsHead
          <6>2. ~Inside(Bat(original), w.mib)
            BY <2>7, <2>9, <3>1, <3>2, <3>4, <4>1, <5>1 DEF Sound
          <6> HIDE DEF w
          <6>3. w.mib \in 1 .. Units - 1 /\ w.mib \in 0 .. Units - 1
            BY <4>7, <5>1, <6>1, ContainerAssumption DEF Word
          <6>4. image.unit[w.mib] = original.unit[w.mib]
            BY <2>1, <4>2, <6>2, <6>3, OffTheTable
          <6> QED BY <2>6, <6>3, <6>4
        <5>2. View(to, b) = View(old, b)
          BY <2>7, <2>9, <3>2, <3>4, <4>8, <5>1, ViewOf
        <5> QED BY <5>2
      <4>9. CASE Logged(b)
        <5>1. v = w
          BY <2>5, <4>3, <4>4, <4>5, <4>6, <4>9
        <5> HIDE DEF v, w
        <5> QED BY <4>8, <5>1
      <4>10. CASE ~Logged(b)
        <5>1. v = image.unit[u][k] /\ w = original.unit[u][k]
          BY <2>3, <2>4, <4>3, <4>4, <4>5, <4>6, <4>10
        <5>2. WordKept(image, original, u, k)
          BY <2>1, <4>3 DEF WordsKept
        <5>3. CASE v = w
          <6> HIDE DEF v, w
          <6> QED BY <4>8, <5>3
        <5>4. CASE Mended(original, w, v)
          <6>1. CASE v.state = 0 /\ Misplaced(original, w)
            <7>1. View(to, b) = <<"absent">>
              BY <2>7, <2>9, <3>2, <3>4, <6>1 DEF View
            <7>2. EntryOf(original, b) = w
              BY <4>5, <5>1
            <7>3. Damaged(original, b)
              <8> HIDE DEF w
              <8> QED BY <2>9, <3>4, <6>1, <7>2 DEF Damaged, Misplaced
            <7> QED BY <4>10, <7>1, <7>3
          <6>2. CASE v.state = w.state /\ v.mib = w.mib
            BY <4>8, <6>2
          <6> QED BY <4>7, <5>4, <6>1, <6>2, MendedIs
        <5> HIDE DEF v, w
        <5> QED BY <5>1, <5>2, <5>3, <5>4 DEF WordKept
      <4> QED BY <4>9, <4>10
    <3> QED BY <3>3, <3>4
  <2> QED BY <2>8, <2>9
<1> QED BY <1>1, OpenInvInit, OpenInvStep, PTL DEF ReopenSpec
=============================================================================
