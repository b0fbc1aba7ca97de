--------------------------- MODULE VhdxReopenProofs ---------------------------
(***************************************************************************)
(* Proofs about repair, and about opening what it leaves.                  *)
(*                                                                         *)
(* Everything that repair decides by, the header and the regions in use,   *)
(* is what it was in the original bytes: a copy is only ever replaced by a *)
(* good one, and only if it is bad.  So an image in the middle of a repair *)
(* is described by how its copies and its words differ from the            *)
(* original's.                                                             *)
(***************************************************************************)
EXTENDS VhdxReopen, DataLemmas

-----------------------------------------------------------------------------
(* Words of structures                                                     *)

\* A word holds a copy, or is taken for one that is not good.
LEMMA CopiesAre ==
    ASSUME NEW img, IsImage(img)
    PROVE  /\ Headers(img) \in [1 .. 2 -> HeaderCopy] /\ Tables(img) \in [1 .. 2 -> TableCopy]
           /\ \A c \in 1 .. 2 : /\ Headers(img)[c] = HeaderIn(img.unit[0][c])
                               /\ Tables(img)[c] = TableIn(img.unit[0][c + 2])
<1>1. \A k \in 1 .. 4 : img.unit[0][k] \in Word
  <2>1. 0 \in 0 .. Units - 1 /\ 1 .. 4 \subseteq 0 .. Words - 1
    BY ContainerAssumption
  <2> QED BY <2>1 DEF IsImage
<1>2. NoHeader \in HeaderCopy
  BY DEF NoHeader, NoGuid, HeaderCopy, Region
<1>3. NoTable \in TableCopy
  <2>1. <<>> \in Seq(RegionName)
    OBVIOUS
  <2> QED BY <2>1 DEF NoTable, TableCopy, Region
<1>4. ASSUME NEW w \in Word PROVE HeaderIn(w) \in HeaderCopy /\ TableIn(w) \in TableCopy
  <2>1. w.part \in Part
    BY DEF Word
  <2>2. w.part.kind = "header" => w.part.copy \in HeaderCopy
    BY <2>1 DEF Part
  <2>3. w.part.kind = "table" => w.part.copy \in TableCopy
    BY <2>1 DEF Part
  <2> QED BY <1>2, <1>3, <2>2, <2>3 DEF HeaderIn, TableIn
<1>5. \A c \in 1 .. 2 : c \in 1 .. 4 /\ c + 2 \in 1 .. 4
  OBVIOUS
<1> QED BY <1>1, <1>4, <1>5 DEF Headers, Tables

\* A word of an image is replaced.
WithWord(img, u, k, w) == [img EXCEPT !.unit[u][k] = w]

LEMMA OneWord ==
    ASSUME NEW img, IsImage(img), NEW u \in 0 .. Units - 1, NEW k \in 0 .. Words - 1,
           NEW w \in Word
    PROVE  LET to == WithWord(img, u, k, w) IN
           /\ IsImage(to) /\ to.short = img.short /\ to.unit[u][k] = w
           /\ \A v \in 0 .. Units - 1 : \A l \in 0 .. Words - 1 :
                 v # u \/ l # k => to.unit[v][l] = img.unit[v][l]
<1> DEFINE A == 0 .. Units - 1
           B == 0 .. Words - 1
           f == img.unit
           g == [f EXCEPT ![u][k] = w]
           to == WithWord(img, u, k, w)
<1>1. to = [img EXCEPT !.unit = g]
  BY DEF WithWord
<1>2. /\ img \in [short : BOOLEAN, unit : [A -> [B -> Word]]]
      /\ f \in [A -> [B -> Word]]
  BY DEF IsImage
<1>3. u \in A /\ k \in B
  OBVIOUS
<1> HIDE DEF A, B, f
<1>4. /\ g \in [A -> [B -> Word]] /\ g[u][k] = w
      /\ \A v \in A : \A l \in B : v # u \/ l # k => g[v][l] = f[v][l]
  BY <1>2, <1>3, ReplaceOne
<1> HIDE DEF g, to
<1>5. to \in [short : BOOLEAN, unit : [A -> [B -> Word]]] /\ to.short = img.short /\ to.unit = g
  BY <1>1, <1>2, <1>4
<1>6. IsImage(to) /\ to.short = img.short /\ to.unit[u][k] = w
  BY <1>4, <1>5 DEF A, B, IsImage
<1>7. \A v \in 0 .. Units - 1 : \A l \in 0 .. Words - 1 :
         v # u \/ l # k => to.unit[v][l] = img.unit[v][l]
  BY <1>4, <1>5 DEF A, B, f
<1> QED BY <1>6, <1>7 DEF to

\* So is one that is not there.
LEMMA AnyWord ==
    ASSUME NEW img, IsImage(img), NEW u, NEW k, NEW w,
           u \in 0 .. Units - 1 /\ k \in 0 .. Words - 1 => w \in Word
    PROVE  IsImage(WithWord(img, u, k, w))
<1>1. CASE u \in 0 .. Units - 1 /\ k \in 0 .. Words - 1
  BY <1>1, OneWord
<1>2. CASE ~(u \in 0 .. Units - 1 /\ k \in 0 .. Words - 1)
  <2> DEFINE A == 0 .. Units - 1
             B == 0 .. Words - 1
             f == img.unit
             g == [f EXCEPT ![u][k] = w]
  <2>1. WithWord(img, u, k, w) = [img EXCEPT !.unit = g]
    BY DEF WithWord
  <2>2. /\ img \in [short : BOOLEAN, unit : [A -> [B -> Word]]]
        /\ f \in [A -> [B -> Word]] /\ (u \notin A \/ k \notin B)
    BY <1>2 DEF IsImage
  <2> HIDE DEF A, B, f
  <2>3. g \in [A -> [B -> Word]]
    <3>1. CASE u \notin A
      BY <2>2, <3>1
    <3>2. CASE u \in A /\ k \notin B
      <4> DEFINE h == [f[u] EXCEPT ![k] = w]
      <4>1. h \in [B -> Word]
        BY <2>2, <3>2
      <4>2. g = [f EXCEPT ![u] = h]
        OBVIOUS
      <4> HIDE DEF g, h
      <4> QED BY <2>2, <4>1, <4>2
    <3> QED BY <2>2, <3>1, <3>2
  <2> HIDE DEF g
  <2> QED BY <2>1, <2>2, <2>3 DEF A, B, IsImage
<1> QED BY <1>1, <1>2

\* What the words of unit 0 are.
LEMMA SameStructures ==
    ASSUME NEW a, NEW c, a.short = c.short, a.unit[0][0] = c.unit[0][0]
    PROVE  /\ FileKind(a) = FileKind(c)
           /\ (\A k \in 1 .. 2 : a.unit[0][k] = c.unit[0][k]) => Headers(a) = Headers(c)
           /\ (\A k \in 3 .. 4 : a.unit[0][k] = c.unit[0][k]) => Tables(a) = Tables(c)
BY DEF FileKind, Headers, Tables

-----------------------------------------------------------------------------
(* Copies of a structure                                                   *)

\* Each copy is as it was, or was bad and is now its good peer.
CopiesKept(now, was) ==
    \A c \in 1 .. 2 :
        now[c] = was[c] \/ (~was[c].ok /\ was[3 - c].ok /\ now[c] = was[3 - c])

\* What ActiveCopy chooses, without the choice.
LEMMA ActiveCopyIs ==
    ASSUME NEW img, IsImage(img)
    PROVE  ActiveCopy(img) =
             IF Headers(img)[1].ok /\ (Headers(img)[2].ok => Headers(img)[1].seq >= Headers(img)[2].seq)
             THEN 1 ELSE IF Headers(img)[2].ok THEN 2 ELSE 0
<1> DEFINE valid == {c \in 1 .. 2 : Headers(img)[c].ok}
           Best(c) == \A d \in valid :
                         \/ Headers(img)[c].seq > Headers(img)[d].seq
                         \/ Headers(img)[c].seq = Headers(img)[d].seq /\ c <= d
<1>1. /\ Headers(img)[1].seq \in Nat /\ Headers(img)[2].seq \in Nat
      /\ Headers(img)[1].ok \in BOOLEAN /\ Headers(img)[2].ok \in BOOLEAN
  BY CopiesAre DEF HeaderCopy
<1>2. 1 .. 2 = {1, 2}
  OBVIOUS
<1>3. CASE ~Headers(img)[1].ok /\ ~Headers(img)[2].ok
  BY <1>2, <1>3 DEF ActiveCopy
<1>4. CASE Headers(img)[1].ok /\ (Headers(img)[2].ok => Headers(img)[1].seq >= Headers(img)[2].seq)
  <2>1. 1 \in valid /\ Best(1)
    BY <1>1, <1>2, <1>4
  <2>2. ASSUME NEW c \in valid, Best(c) PROVE c = 1
    BY <1>1, <1>2, <2>1, <2>2
  <2>3. (CHOOSE c \in valid : Best(c)) = 1
    <3> HIDE DEF valid, Best
    <3> QED BY <2>1, <2>2
  <2> QED BY <1>4, <2>1, <2>3 DEF ActiveCopy
<1>5. CASE /\ Headers(img)[2].ok
           /\ ~(Headers(img)[1].ok /\ Headers(img)[1].seq >= Headers(img)[2].seq)
  <2>1. 2 \in valid /\ Best(2)
    BY <1>1, <1>2, <1>5
  <2>2. ASSUME NEW c \in valid, Best(c) PROVE c = 2
    BY <1>1, <1>2, <1>5, <2>1, <2>2
  <2>3. (CHOOSE c \in valid : Best(c)) = 2
    <3> HIDE DEF valid, Best
    <3> QED BY <2>1, <2>2
  <2> QED BY <1>5, <2>1, <2>3 DEF ActiveCopy
<1> QED BY <1>3, <1>4, <1>5

\* The header that is chosen, and its being there, depend on the good copies only.
LEMMA HeaderKept ==
    ASSUME NEW now, NEW was, IsImage(now), IsImage(was), CopiesKept(Headers(now), Headers(was))
    PROVE  /\ ActiveCopy(now) = 0 <=> ActiveCopy(was) = 0
           /\ ActiveCopy(was) # 0 =>
                 Headers(now)[ActiveCopy(now)] = Headers(was)[ActiveCopy(was)]
<1>1. ASSUME NEW img, IsImage(img)
      PROVE  /\ Headers(img)[1].seq \in Nat /\ Headers(img)[2].seq \in Nat
             /\ Headers(img)[1].ok \in BOOLEAN /\ Headers(img)[2].ok \in BOOLEAN
  BY <1>1, CopiesAre DEF HeaderCopy
<1>2. /\ \/ Headers(now)[1] = Headers(was)[1]
         \/ ~Headers(was)[1].ok /\ Headers(was)[2].ok /\ Headers(now)[1] = Headers(was)[2]
      /\ \/ Headers(now)[2] = Headers(was)[2]
         \/ ~Headers(was)[2].ok /\ Headers(was)[1].ok /\ Headers(now)[2] = Headers(was)[1]
  BY DEF CopiesKept
<1>3. /\ ActiveCopy(now) =
           IF Headers(now)[1].ok /\ (Headers(now)[2].ok => Headers(now)[1].seq >= Headers(now)[2].seq)
           THEN 1 ELSE IF Headers(now)[2].ok THEN 2 ELSE 0
      /\ ActiveCopy(was) =
           IF Headers(was)[1].ok /\ (Headers(was)[2].ok => Headers(was)[1].seq >= Headers(was)[2].seq)
           THEN 1 ELSE IF Headers(was)[2].ok THEN 2 ELSE 0
  BY ActiveCopyIs
<1> QED BY <1>1, <1>2, <1>3

\* So do the regions that either parser takes.
LEMMA RegionsKept ==
    ASSUME NEW now, NEW was, CopiesKept(Tables(now), Tables(was))
    PROVE  /\ ReaderTable(now) = 0 <=> ReaderTable(was) = 0
           /\ ReaderTable(was) # 0 => ReaderRegions(now) = ReaderRegions(was)
           /\ AnalyserTable(now) = 0 <=> AnalyserTable(was) = 0
           /\ AnalyserTable(was) # 0 => AnalyserRegions(now) = AnalyserRegions(was)
<1> DEFINE Usable(t) == Complete(t) /\ \A r \in Range(t.names) : Fits(t.regions[r])
<1>1. \A t : Complete(t) => t.ok
  BY DEF Complete
<1>2. /\ \/ Tables(now)[1] = Tables(was)[1]
         \/ ~Tables(was)[1].ok /\ Tables(was)[2].ok /\ Tables(now)[1] = Tables(was)[2]
      /\ \/ Tables(now)[2] = Tables(was)[2]
         \/ ~Tables(was)[2].ok /\ Tables(was)[1].ok /\ Tables(now)[2] = Tables(was)[1]
  BY DEF CopiesKept
<1>3. ASSUME NEW img
      PROVE  /\ ReaderTable(img) = IF Usable(Tables(img)[1]) THEN 1
                                   ELSE IF Usable(Tables(img)[2]) THEN 2 ELSE 0
             /\ AnalyserTable(img) = IF Complete(Tables(img)[1]) THEN 1
                                     ELSE IF Complete(Tables(img)[2]) THEN 2 ELSE 0
  BY DEF ReaderTable, AnalyserTable, First
<1>4. /\ ReaderTable(now) = 0 <=> ReaderTable(was) = 0
      /\ ReaderTable(was) # 0 => Tables(now)[ReaderTable(now)] = Tables(was)[ReaderTable(was)]
  <2>1. Usable(Tables(was)[1]) => Tables(was)[1].ok
    BY <1>1
  <2>2. Usable(Tables(was)[2]) => Tables(was)[2].ok
    BY <1>1
  <2> HIDE DEF Usable
  <2> QED BY <1>2, <1>3, <2>1, <2>2
<1>5. /\ AnalyserTable(now) = 0 <=> AnalyserTable(was) = 0
      /\ AnalyserTable(was) # 0 => Tables(now)[AnalyserTable(now)] = Tables(was)[AnalyserTable(was)]
  BY <1>1, <1>2, <1>3
<1> QED BY <1>4, <1>5 DEF ReaderRegions, AnalyserRegions

-----------------------------------------------------------------------------
(* What the analyser reports                                               *)

EntryKind == {"beyond", "structural", "undefined", "unaligned"}
Finding == [kind : EntryKind, of : Nat] \cup [kind : {"header", "table"}, of : 1 .. 2]

\* What is wrong with word w as a payload entry of img.
Faults(img, w) ==
    {k \in EntryKind :
        \/ k = "undefined" /\ w.state = 1
        \/ k = "unaligned" /\ w.state = 6 /\ w.reserved
        \/ k = "structural" /\ w.state = 6 /\ Structural(img, w.mib)
        \/ k = "beyond" /\ w.state = 6 /\ w.mib >= Units}

\* The entries that are scanned.
Scanned(img) ==
    LET bat == AnalyserRegions(img).bat IN
    {i \in Nat : /\ AnalyserTable(img) # 0 /\ Fits(bat) /\ i < bat.len * Words
                 /\ ~(GeometryKnown(img) /\ IsBitmapSlot(i))}

EntryWord(img, i) == WordAt(img, AnalyserRegions(img).bat.at, i)

\* The table that the analyser takes has its two regions.
LEMMA AnalyserTableIs ==
    ASSUME NEW img, IsImage(img), AnalyserTable(img) # 0
    PROVE  /\ AnalyserTable(img) \in 1 .. 2 /\ Tables(img)[AnalyserTable(img)].ok
           /\ AnalyserRegions(img).bat \in Region /\ AnalyserRegions(img).meta \in Region
           /\ AnalyserRegions(img).bat.at \in Nat /\ AnalyserRegions(img).bat.len \in Nat
           /\ AnalyserRegions(img).meta.at \in Nat /\ AnalyserRegions(img).meta.len \in Nat
<1>1. AnalyserTable(img) \in 1 .. 2 /\ Complete(Tables(img)[AnalyserTable(img)])
  BY DEF AnalyserTable, First
<1>2. Tables(img)[AnalyserTable(img)] \in TableCopy
  BY <1>1, CopiesAre
<1> QED BY <1>1, <1>2 DEF Complete, TableCopy, RegionName, AnalyserRegions, Region

\* So does the one that the reader takes.
LEMMA ReaderTableIs ==
    ASSUME NEW img, IsImage(img), ReaderTable(img) # 0
    PROVE  /\ ReaderTable(img) \in 1 .. 2 /\ Tables(img)[ReaderTable(img)] \in TableCopy
           /\ ReaderRegions(img).bat \in Region /\ ReaderRegions(img).meta \in Region
           /\ Fits(ReaderRegions(img).bat) /\ Fits(ReaderRegions(img).meta)
<1>1. /\ ReaderTable(img) \in 1 .. 2 /\ Complete(Tables(img)[ReaderTable(img)])
      /\ \A r \in Range(Tables(img)[ReaderTable(img)].names) : Fits(ReaderRegions(img)[r])
  BY DEF ReaderTable, First, ReaderRegions
<1>2. Tables(img)[ReaderTable(img)] \in TableCopy
  BY <1>1, CopiesAre
<1> QED BY <1>1, <1>2 DEF Complete, TableCopy, RegionName, ReaderRegions

\* The findings of one entry, whatever their order.
LEMMA EntryIssuesAre ==
    ASSUME NEW img, NEW i \in Nat
    PROVE  /\ EntryIssues(img, i) \in Seq([kind : EntryKind, of : Nat])
           /\ \A x : x \in Range(EntryIssues(img, i)) <=>
                 /\ ~(GeometryKnown(img) /\ IsBitmapSlot(i))
                 /\ \E k \in Faults(img, EntryWord(img, i)) : x = [kind |-> k, of |-> i]
<1> DEFINE w == EntryWord(img, i)
           issue(kind) == [kind |-> kind, of |-> i]
           when(p, kind) == IF p THEN <<issue(kind)>> ELSE <<>>
           all == when(w.reserved, "unaligned")
                  \o when(Structural(img, w.mib), "structural") \o when(w.mib >= Units, "beyond")
           S == [kind : EntryKind, of : Nat]
<1>1. ASSUME NEW p, NEW kind \in EntryKind
      PROVE  /\ when(p, kind) \in Seq(S)
             /\ \A x : x \in Range(when(p, kind)) <=> p /\ x = issue(kind)
  <2>1. issue(kind) \in S
    OBVIOUS
  <2>2. <<issue(kind)>> \in Seq(S) /\ <<>> \in Seq(S)
    BY <2>1
  <2>3. Range(<<issue(kind)>>) = {issue(kind)} /\ Range(<<>>) = {}
    BY DEF Range
  <2> HIDE DEF issue, S
  <2> QED BY <2>2, <2>3
<1>2. EntryIssues(img, i) =
        IF GeometryKnown(img) /\ IsBitmapSlot(i) THEN <<>>
        ELSE IF w.state # 6 THEN when(w.state = 1, "undefined") ELSE all
  BY DEF EntryIssues, EntryWord
<1>3. \A k : k \in Faults(img, w) <=>
         \/ k = "undefined" /\ w.state = 1
         \/ k = "unaligned" /\ w.state = 6 /\ w.reserved
         \/ k = "structural" /\ w.state = 6 /\ Structural(img, w.mib)
         \/ k = "beyond" /\ w.state = 6 /\ w.mib >= Units
  BY DEF Faults, EntryKind
<1>4. <<>> \in Seq(S) /\ Range(<<>>) = {}
  BY DEF Range
<1>5. /\ all \in Seq(S)
      /\ \A x : x \in Range(all) <=>
            \/ w.reserved /\ x = issue("unaligned")
            \/ Structural(img, w.mib) /\ x = issue("structural")
            \/ w.mib >= Units /\ x = issue("beyond")
  <2> HIDE DEF issue, S, w
  <2> DEFINE a == when(w.reserved, "unaligned")
             b == when(Structural(img, w.mib), "structural")
             c == when(w.mib >= Units, "beyond")
  <2>0. {"beyond", "structural", "unaligned"} \subseteq EntryKind
    BY DEF EntryKind
  <2>1. /\ a \in Seq(S)
        /\ \A x : x \in Range(a) <=> w.reserved /\ x = issue("unaligned")
    <3> HIDE DEF when
    <3> QED BY <1>1, <2>0
  <2>2. /\ b \in Seq(S)
        /\ \A x : x \in Range(b) <=> Structural(img, w.mib) /\ x = issue("structural")
    <3> HIDE DEF when
    <3> QED BY <1>1, <2>0
  <2>3. /\ c \in Seq(S)
        /\ \A x : x \in Range(c) <=> w.mib >= Units /\ x = issue("beyond")
    <3> HIDE DEF when
    <3> QED BY <1>1, <2>0
  <2> HIDE DEF a, b, c
  <2> DEFINE ab == a \o b
  <2>4. /\ ab \in Seq(S)
        /\ \A x : x \in Range(ab) <=> x \in Range(a) \/ x \in Range(b)
    BY <2>1, <2>2, ConcatElements
  <2> HIDE DEF ab
  <2>5. /\ ab \o c \in Seq(S)
        /\ \A x : x \in Range(ab \o c) <=> x \in Range(ab) \/ x \in Range(c)
    BY <2>3, <2>4, ConcatElements
  <2>6. all = ab \o c
    BY DEF a, b, c, ab
  <2> HIDE DEF all
  <2> QED BY <2>1, <2>2, <2>3, <2>4, <2>5, <2>6
<1>6. CASE GeometryKnown(img) /\ IsBitmapSlot(i)
  BY <1>2, <1>4, <1>6
<1>7. CASE ~(GeometryKnown(img) /\ IsBitmapSlot(i)) /\ w.state # 6
  <2>1. /\ EntryIssues(img, i) \in Seq(S)
        /\ \A x : x \in Range(EntryIssues(img, i)) <=> w.state = 1 /\ x = issue("undefined")
    <3>1. "undefined" \in EntryKind
      BY DEF EntryKind
    <3>2. EntryIssues(img, i) = when(w.state = 1, "undefined")
      BY <1>2, <1>7
    <3> HIDE DEF when, issue, S, w
    <3> QED BY <1>1, <3>1, <3>2
  <2> HIDE DEF w
  <2> QED BY <1>3, <1>7, <2>1 DEF w
<1>8. CASE ~(GeometryKnown(img) /\ IsBitmapSlot(i)) /\ w.state = 6
  <2>1. EntryIssues(img, i) = all
    BY <1>2, <1>8
  <2> HIDE DEF all, w
  <2> QED BY <1>3, <1>5, <1>8, <2>1 DEF w
<1> QED BY <1>6, <1>7, <1>8

LEMMA ScanIssuesAre ==
    ASSUME NEW img, IsImage(img)
    PROVE  /\ ScanIssues(img) \in Seq([kind : EntryKind, of : Nat])
           /\ \A x : x \in Range(ScanIssues(img)) <=>
                 \E i \in Scanned(img) : \E k \in Faults(img, EntryWord(img, i)) :
                    x = [kind |-> k, of |-> i]
<1> DEFINE bat == AnalyserRegions(img).bat
           S == [kind : EntryKind, of : Nat]
           n == bat.len * Words
           parts == [i \in 1 .. n |-> EntryIssues(img, i - 1)]
           Of(x, i) == \E k \in Faults(img, EntryWord(img, i)) : x = [kind |-> k, of |-> i]
<1>1. CASE AnalyserTable(img) = 0 \/ ~Fits(bat)
  <2>1. ScanIssues(img) = <<>> /\ Scanned(img) = {}
    BY <1>1 DEF ScanIssues, Scanned
  <2>2. <<>> \in Seq(S) /\ Range(<<>>) = {}
    BY DEF Range
  <2> QED BY <2>1, <2>2
<1>2. CASE AnalyserTable(img) # 0 /\ Fits(bat) /\ bat.len = 0
  <2>1. ScanIssues(img) = <<>>
    BY <1>2 DEF ScanIssues
  <2>2. n = 0
    BY <1>2, ContainerAssumption
  <2>3. \A i \in Nat : ~(i < n)
    BY <2>2
  <2>4. Scanned(img) = {}
    BY <2>3 DEF Scanned
  <2>5. <<>> \in Seq(S) /\ Range(<<>>) = {}
    BY DEF Range
  <2> QED BY <2>1, <2>4, <2>5
<1>3. CASE AnalyserTable(img) # 0 /\ Fits(bat) /\ bat.len # 0
  <2>1. n \in Nat
    <3>1. bat.len \in Nat
      BY <1>3, AnalyserTableIs
    <3> QED BY <3>1, ContainerAssumption
  <2>2. ScanIssues(img) = FlattenSeq(parts)
    BY <1>3 DEF ScanIssues
  <2>3. \A i \in Scanned(img) : i \in Nat /\ i < n
    BY DEF Scanned
  <2>4. ASSUME NEW i \in 1 .. n
        PROVE  i - 1 \in Scanned(img) <=> ~(GeometryKnown(img) /\ IsBitmapSlot(i - 1))
    <3>1. i - 1 \in Nat /\ i - 1 < n
      BY <2>1
    <3> QED BY <1>3, <3>1 DEF Scanned
  <2> HIDE DEF n
  <2>5. ASSUME NEW i \in 1 .. n
        PROVE  /\ parts[i] \in Seq(S)
               /\ \A x : x \in Range(parts[i]) <=> i - 1 \in Scanned(img) /\ Of(x, i - 1)
    <3>1. i - 1 \in Nat
      BY <2>1
    <3>2. parts[i] = EntryIssues(img, i - 1)
      OBVIOUS
    <3> HIDE DEF parts
    <3> QED BY <2>4, <3>1, <3>2, EntryIssuesAre
  <2> HIDE DEF Of
  <2>6. parts \in Seq(Seq(S)) /\ Len(parts) = n
    <3>1. DOMAIN parts = 1 .. n /\ parts = [i \in 1 .. n |-> parts[i]]
      OBVIOUS
    <3> HIDE DEF parts, S
    <3> QED BY <2>1, <2>5, <3>1
  <2>7. /\ FlattenSeq(parts) \in Seq(S)
        /\ \A x : x \in Range(FlattenSeq(parts)) <=> \E i \in 1 .. n : x \in Range(parts[i])
    <3> HIDE DEF parts, S
    <3> QED BY <2>6, FlattenProperties
  <2> HIDE DEF parts
  <2>8. ASSUME NEW x
        PROVE  (\E i \in 1 .. n : x \in Range(parts[i]))
                    <=> \E i \in Scanned(img) : Of(x, i)
    <3>1. ASSUME NEW i \in 1 .. n, x \in Range(parts[i])
          PROVE  \E j \in Scanned(img) : Of(x, j)
      BY <2>5, <3>1
    <3>2. ASSUME NEW j \in Scanned(img), Of(x, j)
          PROVE  \E i \in 1 .. n : x \in Range(parts[i])
      <4> DEFINE i == j + 1
      <4>1. i \in 1 .. n /\ i - 1 = j
        BY <2>1, <2>3
      <4> HIDE DEF i, parts
      <4>2. x \in Range(parts[i]) <=> i - 1 \in Scanned(img) /\ Of(x, i - 1)
        BY <2>5, <4>1
      <4> QED BY <3>2, <4>1, <4>2
    <3> QED BY <3>1, <3>2
  <2> QED BY <2>2, <2>7, <2>8 DEF Of
<1> QED BY <1>1, <1>2, <1>3

\* A finding about a copy: it is bad, and its peer is good.
CopyFault(copies, x) == x.of \in 1 .. 2 /\ ~copies[x.of].ok /\ copies[3 - x.of].ok

LEMMA CopyIssuesAre ==
    ASSUME NEW copies, copies[1].ok \in BOOLEAN, copies[2].ok \in BOOLEAN,
           NEW kind \in {"header", "table"}
    PROVE  /\ CopyIssues(copies, kind) \in Seq(Finding)
           /\ \A x : x \in Range(CopyIssues(copies, kind)) <=>
                 \E c \in 1 .. 2 : x = [kind |-> kind, of |-> c] /\ CopyFault(copies, x)
<1> DEFINE c == IF copies[1].ok THEN 2 ELSE 1
           f == [kind |-> kind, of |-> c]
<1>1. CASE copies[1].ok = copies[2].ok
  <2>1. CopyIssues(copies, kind) = <<>>
    BY <1>1 DEF CopyIssues
  <2>2. <<>> \in Seq(Finding) /\ Range(<<>>) = {}
    BY DEF Range
  <2>3. \A d \in 1 .. 2 : ~copies[d].ok => ~copies[3 - d].ok
    BY <1>1
  <2> QED BY <2>1, <2>2, <2>3 DEF CopyFault
<1>2. CASE copies[1].ok # copies[2].ok
  <2>1. CopyIssues(copies, kind) = <<f>>
    BY <1>2 DEF CopyIssues
  <2>2. f \in Finding
    BY DEF Finding
  <2>3. <<f>> \in Seq(Finding) /\ Range(<<f>>) = {f}
    BY <2>2 DEF Range
  <2>4. \A d \in 1 .. 2 : ~copies[d].ok /\ copies[3 - d].ok <=> d = c
    BY <1>2
  <2>5. c \in 1 .. 2
    OBVIOUS
  <2> HIDE DEF c
  <2> QED BY <2>1, <2>3, <2>4, <2>5 DEF CopyFault
<1> QED BY <1>1, <1>2

\* All that is reported.
LEMMA IssuesAre ==
    ASSUME NEW img, IsImage(img)
    PROVE  /\ Issues(img) \in Seq(Finding)
           /\ \A x : x \in Range(Issues(img)) <=>
                 /\ FileKind(img) = "vhdx"
                 /\ \/ \E c \in 1 .. 2 : /\ x = [kind |-> "header", of |-> c]
                                         /\ CopyFault(Headers(img), x)
                    \/ \E c \in 1 .. 2 : /\ x = [kind |-> "table", of |-> c]
                                         /\ CopyFault(Tables(img), x)
                    \/ \E i \in Scanned(img) : \E k \in Faults(img, EntryWord(img, i)) :
                          x = [kind |-> k, of |-> i]
<1> DEFINE S == [kind : EntryKind, of : Nat]
           a == CopyIssues(Headers(img), "header")
           b == CopyIssues(Tables(img), "table")
           c == IF Tables(img)[1].ok \/ Tables(img)[2].ok THEN ScanIssues(img) ELSE <<>>
           InC(x) == \E i \in Scanned(img) : \E k \in Faults(img, EntryWord(img, i)) :
                        x = [kind |-> k, of |-> i]
           InA(x) == \E n \in 1 .. 2 : /\ x = [kind |-> "header", of |-> n]
                                       /\ CopyFault(Headers(img), x)
           InB(x) == \E n \in 1 .. 2 : /\ x = [kind |-> "table", of |-> n]
                                       /\ CopyFault(Tables(img), x)
<1>1. /\ Headers(img)[1].ok \in BOOLEAN /\ Headers(img)[2].ok \in BOOLEAN
      /\ Tables(img)[1].ok \in BOOLEAN /\ Tables(img)[2].ok \in BOOLEAN
  BY CopiesAre DEF HeaderCopy, TableCopy
<1>2. a \in Seq(Finding) /\ \A x : x \in Range(a) <=> InA(x)
  BY <1>1, CopyIssuesAre
<1>3. b \in Seq(Finding) /\ \A x : x \in Range(b) <=> InB(x)
  BY <1>1, CopyIssuesAre
<1>4. c \in Seq(Finding) /\ \A x : x \in Range(c) <=> InC(x)
  <2>1. CASE Tables(img)[1].ok \/ Tables(img)[2].ok
    <3>1. Seq(S) \subseteq Seq(Finding)
      <4>1. S \subseteq Finding
        BY DEF Finding
      <4> HIDE DEF S
      <4> QED BY <4>1
    <3>2. c = ScanIssues(img)
      BY <2>1
    <3>3. c \in Seq(S) /\ \A x : x \in Range(c) <=> InC(x)
      <4> HIDE DEF c
      <4> QED BY <3>2, ScanIssuesAre
    <3> HIDE DEF c, InC, S
    <3> QED BY <3>1, <3>3
  <2>2. CASE ~(Tables(img)[1].ok \/ Tables(img)[2].ok)
    <3>1. AnalyserTable(img) = 0
      BY <2>2 DEF AnalyserTable, First, Complete
    <3>2. Scanned(img) = {}
      BY <3>1 DEF Scanned
    <3>3. c = <<>> /\ <<>> \in Seq(Finding)
      BY <2>2
    <3>4. c \in Seq(Finding) /\ Range(c) = {}
      <4>1. Range(<<>>) = {}
        BY DEF Range
      <4> QED BY <3>3, <4>1
    <3> HIDE DEF c
    <3> QED BY <3>2, <3>4
  <2> QED BY <2>1, <2>2
<1> HIDE DEF a, b, c, InA, InB, InC
<1>5. CASE FileKind(img) = "vhdx"
  <2> DEFINE ab == a \o b
  <2>1. ab \in Seq(Finding) /\ \A x : x \in Range(ab) <=> InA(x) \/ InB(x)
    BY <1>2, <1>3, ConcatElements
  <2> HIDE DEF ab
  <2>2. ab \o c \in Seq(Finding) /\ \A x : x \in Range(ab \o c) <=> InA(x) \/ InB(x) \/ InC(x)
    BY <1>4, <2>1, ConcatElements
  <2>3. Issues(img) = ab \o c
    BY <1>5 DEF Issues, a, b, c, ab
  <2>4. \A x : x \in Range(Issues(img)) <=> InA(x) \/ InB(x) \/ InC(x)
    BY <2>2, <2>3
  <2> QED BY <1>5, <2>2, <2>3, <2>4 DEF InA, InB, InC
<1>6. CASE FileKind(img) # "vhdx"
  <2>1. Issues(img) = <<>>
    BY <1>6 DEF Issues
  <2>2. <<>> \in Seq(Finding) /\ Range(<<>>) = {}
    BY DEF Range
  <2> QED BY <1>6, <2>1, <2>2
<1> QED BY <1>5, <1>6

-----------------------------------------------------------------------------
(* Images of one layout                                                    *)

\* A parser finds its way by what unit u begins with.
Landmark(img, u) ==
    \/ u = 0
    \/ AnalyserTable(img) # 0 /\ AnalyserRegions(img).meta.len > 0 /\ u = AnalyserRegions(img).meta.at
    \/ ReaderTable(img) # 0 /\ ReaderRegions(img).meta.len > 0 /\ u = ReaderRegions(img).meta.at
    \/ /\ ActiveCopy(img) # 0 /\ Headers(img)[ActiveCopy(img)].log.len > 0
       /\ u = Headers(img)[ActiveCopy(img)].log.at

\* now is what repair may have made of the structures of was.
LayoutKept(now, was) ==
    /\ IsImage(now) /\ IsImage(was)
    /\ FileKind(now) = FileKind(was)
    /\ CopiesKept(Headers(now), Headers(was)) /\ CopiesKept(Tables(now), Tables(was))
    /\ \A u \in 0 .. Units - 1 : Landmark(was, u) => now.unit[u][0] = was.unit[u][0]

Bat(img) == AnalyserRegions(img).bat

LEMMA ScanKept ==
    ASSUME NEW now, NEW was, LayoutKept(now, was)
    PROVE  /\ Scanned(now) = Scanned(was)
           /\ AnalyserTable(was) # 0 =>
                 /\ AnalyserTable(now) # 0 /\ Bat(now) = Bat(was)
                 /\ \A w : Faults(now, w) = Faults(was, w)
<1>1. /\ AnalyserTable(now) = 0 <=> AnalyserTable(was) = 0
      /\ AnalyserTable(was) # 0 => AnalyserRegions(now) = AnalyserRegions(was)
      /\ ActiveCopy(now) = 0 <=> ActiveCopy(was) = 0
      /\ ActiveCopy(was) # 0 => Headers(now)[ActiveCopy(now)] = Headers(was)[ActiveCopy(was)]
  BY HeaderKept, RegionsKept DEF LayoutKept
<1>2. CASE AnalyserTable(was) = 0
  BY <1>1, <1>2 DEF Scanned
<1>3. CASE AnalyserTable(was) # 0
  <2>1. GeometryKnown(now) <=> GeometryKnown(was)
    <3> DEFINE m == AnalyserRegions(was).meta
    <3>1. m = AnalyserRegions(now).meta /\ m.at \in Nat /\ m.len \in Nat
      BY <1>1, <1>3, AnalyserTableIs DEF LayoutKept
    <3>2. ASSUME m.len > 0, Fits(m) PROVE HasMeta(now, m.at) <=> HasMeta(was, m.at)
      <4>1. m.at \in 0 .. Units - 1
        BY <3>1, <3>2, ContainerAssumption DEF Fits
      <4>2. Landmark(was, m.at)
        BY <1>3, <3>2 DEF Landmark
      <4> HIDE DEF m
      <4> QED BY <4>1, <4>2 DEF LayoutKept, HasMeta
    <3> QED BY <3>1, <3>2 DEF GeometryKnown
  <2>2. \A m : Structural(now, m) <=> Structural(was, m)
    BY <1>1, <1>3 DEF Structural
  <2>3. Scanned(now) = Scanned(was)
    BY <1>1, <1>3, <2>1 DEF Scanned
  <2>4. \A w : Faults(now, w) = Faults(was, w)
    BY <2>2 DEF Faults
  <2> QED BY <1>1, <1>3, <2>3, <2>4 DEF Bat
<1> QED BY <1>2, <1>3

\* The place of entry i of a scanned table is in the container, and its own.
LEMMA ScannedPlaces ==
    ASSUME NEW img, IsImage(img), NEW i \in Scanned(img)
    PROVE  /\ AnalyserTable(img) # 0 /\ i \in Nat
           /\ Bat(img).at + i \div Words \in 0 .. Units - 1 /\ i % Words \in 0 .. Words - 1
           /\ \A j \in Scanned(img) :
                 /\ Bat(img).at + j \div Words = Bat(img).at + i \div Words
                 /\ j % Words = i % Words
                 => j = i
<1> DEFINE at == Bat(img).at
           len == Bat(img).len
<1>1. AnalyserTable(img) # 0 /\ i \in Nat /\ i < len * Words /\ at + len <= Units
  BY DEF Scanned, Fits, Bat
<1>2. at \in Nat /\ len \in Nat /\ Words \in Nat \ {0} /\ Units \in Nat
  BY <1>1, AnalyserTableIs, ContainerAssumption DEF Bat
<1> HIDE DEF at, len
<1>3. i \div Words \in Nat /\ i % Words \in 0 .. Words - 1 /\ i \div Words < len
  BY <1>1, <1>2, DivMod, DivBelow
<1>4. ASSUME NEW j \in Scanned(img), at + j \div Words = at + i \div Words,
             j % Words = i % Words
      PROVE  j = i
  <2>1. j \in Nat
    BY DEF Scanned
  <2>2. j \div Words \in Nat /\ j = Words * (j \div Words) + (j % Words)
    BY <1>2, <2>1, DivMod
  <2>3. i = Words * (i \div Words) + (i % Words)
    BY <1>1, <1>2, DivMod
  <2>4. j \div Words = i \div Words
    <3> DEFINE a == j \div Words
               b == i \div Words
    <3>1. a \in Nat /\ b \in Nat /\ at + a = at + b
      BY <1>3, <1>4, <2>2
    <3> HIDE DEF a, b
    <3>2. a = b
      BY <1>2, <3>1
    <3> QED BY <3>2 DEF a, b
  <2> QED BY <1>4, <2>2, <2>3, <2>4
<1>5. at + i \div Words \in 0 .. Units - 1
  BY <1>1, <1>2, <1>3
<1> QED BY <1>1, <1>3, <1>4, <1>5 DEF at

\* A table that is apart has no entry in the first unit, or where a parser finds its way.
LEMMA ScannedApart ==
    ASSUME NEW img, IsImage(img), Apart(img), NEW i \in Scanned(img)
    PROVE  /\ Bat(img).at + i \div Words \in 1 .. Units - 1
           /\ ~Landmark(img, Bat(img).at + i \div Words)
<1> DEFINE u == Bat(img).at + i \div Words
<1>1. AnalyserTable(img) # 0 /\ i \in Nat /\ u \in 0 .. Units - 1
  BY ScannedPlaces
<1>2. i < Bat(img).len * Words /\ Fits(Bat(img))
  BY DEF Scanned, Bat
<1>3. Bat(img).at \in Nat /\ Bat(img).len \in Nat
  BY <1>1, AnalyserTableIs DEF Bat
<1>4. i \div Words \in Nat /\ i \div Words < Bat(img).len
  BY <1>1, <1>2, <1>3, DivMod, DivBelow, ContainerAssumption
<1>5. Inside(Bat(img), u)
  BY <1>3, <1>4 DEF Inside
<1> HIDE DEF u
<1>6. ~Structural(img, u) /\ (ReaderTable(img) # 0 => ~Inside(ReaderRegions(img).meta, u))
  BY <1>1, <1>2, <1>5 DEF Apart, Bat
<1>7. ASSUME NEW r \in Region, r.len > 0, u = r.at PROVE Inside(r, u)
  <2>1. r.at \in Nat /\ r.len \in Nat
    BY DEF Region
  <2> QED BY <1>7, <2>1 DEF Inside
<1>8. u # 0
  BY <1>6 DEF Structural
<1>9. AnalyserRegions(img).meta \in Region
  BY <1>1, AnalyserTableIs
<1>10. ReaderTable(img) # 0 => ReaderRegions(img).meta \in Region
  BY ReaderTableIs
<1>11. ActiveCopy(img) # 0 => Headers(img)[ActiveCopy(img)].log \in Region
  BY ActiveCopyIs, CopiesAre DEF HeaderCopy
<1>12. ~Landmark(img, u)
  BY <1>6, <1>7, <1>8, <1>9, <1>10, <1>11 DEF Landmark, Structural
<1> QED BY <1>1, <1>8, <1>12 DEF u

\* What is reported of an image whose layout is another's, in terms of that other.
Reported(now, was, x) ==
    /\ FileKind(was) = "vhdx"
    /\ \/ x.kind = "header" /\ x.of \in 1 .. 2 /\ CopyFault(Headers(now), x)
       \/ x.kind = "table" /\ x.of \in 1 .. 2 /\ CopyFault(Tables(now), x)
       \/ /\ x.of \in Scanned(was)
          /\ x.kind \in Faults(was, WordAt(now, Bat(was).at, x.of))

LEMMA ReportedIs ==
    ASSUME NEW now, NEW was, LayoutKept(now, was)
    PROVE  /\ Issues(now) \in Seq(Finding)
           /\ \A x \in Finding : x \in Range(Issues(now)) <=> Reported(now, was, x)
<1>1. IsImage(now) /\ FileKind(now) = FileKind(was)
  BY DEF LayoutKept
<1>2. ASSUME NEW x \in Finding, x \in Range(Issues(now)) PROVE Reported(now, was, x)
  <2>1. /\ FileKind(now) = "vhdx"
        /\ \/ \E c \in 1 .. 2 : /\ x = [kind |-> "header", of |-> c]
                                /\ CopyFault(Headers(now), x)
           \/ \E c \in 1 .. 2 : /\ x = [kind |-> "table", of |-> c]
                                /\ CopyFault(Tables(now), x)
           \/ \E i \in Scanned(now) : \E k \in Faults(now, EntryWord(now, i)) :
                 x = [kind |-> k, of |-> i]
    BY <1>1, <1>2, IssuesAre
  <2>2. ASSUME NEW i \in Scanned(now), NEW k \in Faults(now, EntryWord(now, i)),
               x = [kind |-> k, of |-> i]
        PROVE  x.of \in Scanned(was) /\ x.kind \in Faults(was, WordAt(now, Bat(was).at, x.of))
    <3>1. i \in Scanned(was) /\ AnalyserTable(was) # 0
      BY ScanKept DEF Scanned
    <3>2. k \in Faults(was, EntryWord(now, i)) /\ Bat(now) = Bat(was)
      BY <3>1, ScanKept
    <3> QED BY <2>2, <3>1, <3>2 DEF EntryWord, Bat
  <2> QED BY <1>1, <2>1, <2>2 DEF Reported
<1>3. ASSUME NEW x \in Finding, Reported(now, was, x) PROVE x \in Range(Issues(now))
  <2>1. x = [kind |-> x.kind, of |-> x.of]
    BY DEF Finding
  <2>2. ASSUME x.of \in Scanned(was), x.kind \in Faults(was, WordAt(now, Bat(was).at, x.of))
        PROVE  \E i \in Scanned(now) : \E k \in Faults(now, EntryWord(now, i)) :
                  x = [kind |-> k, of |-> i]
    <3>1. x.of \in Scanned(now) /\ AnalyserTable(was) # 0
      BY <2>2, ScanKept DEF Scanned
    <3>2. x.kind \in Faults(now, EntryWord(now, x.of))
      BY <2>2, <3>1, ScanKept DEF EntryWord, Bat
    <3> QED BY <2>1, <3>1, <3>2
  <2> QED BY <1>1, <1>3, <2>1, <2>2, IssuesAre DEF Reported
<1> QED BY <1>1, <1>2, <1>3, IssuesAre

-----------------------------------------------------------------------------
(* The invariant of a repair                                               *)

Zeroing == {"beyond", "structural", "undefined"}

LEMMA WordsEqual ==
    ASSUME NEW v \in Word, NEW w \in Word,
           v.state = w.state, v.reserved = w.reserved, v.mib = w.mib, v.part = w.part
    PROVE  v = w
BY DEF Word

LEMMA ClearedIs ==
    ASSUME NEW w \in Word
    PROVE  /\ Cleared(w) \in Word /\ Cleared(Cleared(w)) = Cleared(w)
           /\ Cleared(w).state = w.state /\ Cleared(w).mib = w.mib
           /\ Cleared(w).reserved = FALSE /\ Cleared(w).part = NoPart
<1>1. NoPart \in Part
  BY DEF NoPart, Part
<1>2. ASSUME NEW x \in Word
      PROVE  /\ Cleared(x) \in Word /\ Cleared(x).state = x.state /\ Cleared(x).mib = x.mib
             /\ Cleared(x).reserved = FALSE /\ Cleared(x).part = NoPart
  <2> DEFINE m == [x EXCEPT !.reserved = FALSE]
  <2>1. m \in Word /\ m.state = x.state /\ m.mib = x.mib /\ m.reserved = FALSE
    BY DEF Word
  <2>2. Cleared(x) = [m EXCEPT !.part = NoPart]
    BY DEF Cleared
  <2> HIDE DEF m
  <2> QED BY <1>1, <2>1, <2>2 DEF Word
<1>3. Cleared(Cleared(w)) = Cleared(w)
  <2> DEFINE c == Cleared(w)
  <2>1. c \in Word /\ c.reserved = FALSE /\ c.part = NoPart
    BY <1>2
  <2> HIDE DEF c
  <2>2. /\ Cleared(c) \in Word /\ Cleared(c).state = c.state /\ Cleared(c).mib = c.mib
        /\ Cleared(c).reserved = FALSE /\ Cleared(c).part = NoPart
    BY <1>2, <2>1
  <2>3. Cleared(c) = c
    BY <2>1, <2>2, WordsEqual
  <2> QED BY <2>3 DEF c
<1> QED BY <1>2, <1>3

LEMMA ZeroIs == ZeroWord \in Word /\ Cleared(ZeroWord) = ZeroWord
<1>1. NoPart \in Part
  BY DEF NoPart, Part
<1>2. ZeroWord \in Word
  BY <1>1 DEF ZeroWord, Word
<1>3. ZeroWord.reserved = FALSE /\ ZeroWord.part = NoPart
  BY DEF ZeroWord
<1> QED BY <1>2, <1>3, ClearedIs, WordsEqual

\* What repair may make of a word of the table of was.
Mended(was, word, to) ==
    \/ to = ZeroWord /\ \E k \in Zeroing : k \in Faults(was, word)
    \/ to = Cleared(word) /\ "unaligned" \in Faults(was, word)

WordKept(now, was, u, k) ==
    \/ now.unit[u][k] = was.unit[u][k]
    \/ \E i \in Scanned(was) :
          /\ u = Bat(was).at + i \div Words /\ k = i % Words
          /\ Mended(was, was.unit[u][k], now.unit[u][k])

WordsKept(now, was) ==
    \A u \in 1 .. Units - 1 : \A k \in 0 .. Words - 1 : WordKept(now, was, u, k)

\* A finding on the list is one of the original.
Grounded ==
    \A x \in Range(issues) :
        /\ Reported(original, original, x)
        /\ x.kind \in EntryKind => batAt = Bat(original).at

\* Nothing is wrong with the image that is not still on the list: at the first attempt
\* because the list is the original's, and at a later one because nothing is left.
Listed ==
    attempts > 0 => \A x \in Finding : Reported(image, original, x) => x \in Range(issues)

\* Of an original whose table lies apart from the structures.
RepairInv ==
    /\ LayoutKept(image, original) /\ WordsKept(image, original)
    /\ pc \in {"idle", "repair"} /\ attempts \in Nat /\ issues \in Seq(Finding)
    /\ attempts = 0 => image = original /\ pc = "idle"
    /\ pc = "idle" => issues = <<>>
    /\ Grounded /\ Listed

\* Of any original.
TypeInv ==
    /\ IsImage(image) /\ IsImage(original)
    /\ pc \in {"idle", "repair"} /\ attempts \in Nat /\ issues \in Seq(Finding)
    /\ attempts = 0 => image = original /\ pc = "idle"
    /\ pc = "idle" => issues = <<>>

AttemptInv == TypeInv /\ (Apart(original) => RepairInv)

LEMMA KindsApart ==
    /\ {"header", "table"} \cap EntryKind = {}
    /\ \A img, w : Faults(img, w) \subseteq EntryKind
BY DEF EntryKind, Faults

LEMMA AttemptInit == ReopenInit => AttemptInv
<1> SUFFICES ASSUME ReopenInit PROVE AttemptInv
  OBVIOUS
<1>1. IsImage(image) /\ original = image
  BY CaseAssumption DEF ReopenInit, Init
<1>2. LayoutKept(image, original)
  BY <1>1 DEF LayoutKept, CopiesKept
<1>3. pc = "idle" /\ issues = <<>> /\ attempts = 0
  BY DEF ReopenInit, Init
<1>4. issues \in Seq(Finding) /\ Range(issues) = {}
  <2>1. <<>> \in Seq(Finding)
    OBVIOUS
  <2> QED BY <1>3, <2>1, NoElements
<1>5. WordsKept(image, original)
  BY <1>1 DEF WordsKept, WordKept
<1> QED BY <1>1, <1>2, <1>3, <1>4, <1>5 DEF AttemptInv, TypeInv, RepairInv, Grounded, Listed

LEMMA AnalyseStep == RepairInv /\ Analyse => RepairInv'
<1> SUFFICES ASSUME RepairInv, Analyse PROVE RepairInv'
  OBVIOUS
<1>1. /\ pc = "idle" /\ issues = <<>> /\ attempts' = attempts + 1 /\ attempts \in Nat
      /\ issues' = Issues(image) /\ image' = image /\ original' = original /\ pc' = "repair"
      /\ batAt' = IF AnalyserTable(image) = 0 THEN 0 ELSE Bat(image).at
  BY DEF RepairInv, Analyse, Bat
<1>2. LayoutKept(image, original)
  BY DEF RepairInv
<1>3. /\ issues' \in Seq(Finding)
      /\ \A x \in Finding : x \in Range(issues') <=> Reported(image, original, x)
  BY <1>1, <1>2, ReportedIs
<1>4. ASSUME NEW x \in Range(issues')
      PROVE  /\ Reported(original, original, x)
             /\ x.kind \in EntryKind => batAt' = Bat(original).at
  <2>1. x \in Finding
    BY <1>3, RangeOfSeq
  <2>2. Reported(image, original, x)
    BY <1>3, <2>1
  <2>3. attempts = 0
    <3>1. \A y \in Finding : Reported(image, original, y) => attempts = 0
      BY <1>1, NoElements DEF RepairInv, Listed
    <3> QED BY <2>1, <2>2, <3>1
  <2>4. image = original
    BY <2>3 DEF RepairInv
  <2>5. x.kind \in EntryKind => AnalyserTable(original) # 0
    BY <2>2, KindsApart DEF Reported, Scanned
  <2> QED BY <1>1, <2>2, <2>4, <2>5
<1>5. LayoutKept(image', original') /\ WordsKept(image', original')
  BY <1>1 DEF RepairInv
<1>6. Grounded'
  BY <1>1, <1>4 DEF Grounded
<1>7. Listed'
  BY <1>1, <1>3 DEF Listed
<1> QED BY <1>1, <1>3, <1>5, <1>6, <1>7 DEF RepairInv

\* What handling a finding has to do for the invariant: settle it, and nothing else.
LEMMA HandleStep ==
    ASSUME RepairInv, NEW kinds, Handle(kinds),
           LayoutKept(image', original), WordsKept(image', original),
           \A x \in Finding :
               Reported(image', original, x) => Reported(image, original, x) /\ x # Issue
    PROVE  RepairInv'
<1>1. /\ pc = "repair" /\ pc' = pc /\ issues # <<>> /\ issues' = Tail(issues)
      /\ original' = original /\ batAt' = batAt /\ attempts' = attempts
  BY DEF Handle
<1>2. /\ issues \in Seq(Finding) /\ attempts \in Nat /\ attempts # 0
      /\ Grounded /\ Listed
  BY <1>1 DEF RepairInv
<1>3. /\ issues' \in Seq(Finding)
      /\ \A x : x \in Range(issues) <=> x = Issue \/ x \in Range(issues')
  BY <1>1, <1>2, HeadAndTail DEF Issue
<1>4. Grounded'
  BY <1>1, <1>2, <1>3 DEF Grounded
<1>5. Listed'
  BY <1>1, <1>2, <1>3 DEF Listed
<1> QED BY <1>1, <1>2, <1>3, <1>4, <1>5 DEF RepairInv

LEMMA IssueIs ==
    ASSUME RepairInv, NEW kinds, Handle(kinds)
    PROVE  /\ Issue \in Finding /\ Issue.kind \in kinds
           /\ Reported(original, original, Issue)
           /\ Issue.kind \in EntryKind => batAt = Bat(original).at
<1>1. issues \in Seq(Finding) /\ issues # <<>> /\ Grounded /\ Issue.kind \in kinds
  BY DEF RepairInv, Handle
<1>2. Issue \in Finding /\ Issue \in Range(issues)
  BY <1>1, HeadAndTail DEF Issue
<1> QED BY <1>1, <1>2 DEF Grounded

LEMMA CopyHeaderStep == Apart(original) /\ RepairInv /\ CopyHeader => RepairInv'
<1> SUFFICES ASSUME Apart(original), RepairInv, CopyHeader PROVE RepairInv'
  OBVIOUS
<1> DEFINE c == Issue.of
<1>1. /\ Handle({"header"})
      /\ image' = [image EXCEPT !.unit[0][c] = image.unit[0][3 - c]]
  BY DEF CopyHeader, CopyWord, Peer
<1>2. Issue \in Finding /\ Issue.kind = "header" /\ Reported(original, original, Issue)
  BY <1>1, IssueIs
<1>3. c \in 1 .. 2 /\ ~Headers(original)[c].ok /\ Headers(original)[3 - c].ok
  BY <1>2, KindsApart DEF Reported, CopyFault
<1> HIDE DEF c
<1>4. 3 - c \in 1 .. 2 /\ 3 - (3 - c) = c /\ \A d \in 1 .. 2 : d = c \/ d = 3 - c
  BY <1>3
<1>5. /\ LayoutKept(image, original) /\ WordsKept(image, original)
      /\ IsImage(image) /\ IsImage(original) /\ CopiesKept(Headers(image), Headers(original))
  BY DEF RepairInv, LayoutKept
<1>6. Headers(image)[3 - c] = Headers(original)[3 - c]
  BY <1>3, <1>4, <1>5 DEF CopiesKept
<1>7. /\ IsImage(image') /\ image'.short = image.short
      /\ image'.unit[0][c] = image.unit[0][3 - c]
      /\ \A u \in 0 .. Units - 1 : \A k \in 0 .. Words - 1 :
            u # 0 \/ k # c => image'.unit[u][k] = image.unit[u][k]
  <2>1. 0 \in 0 .. Units - 1 /\ c \in 0 .. Words - 1 /\ 3 - c \in 0 .. Words - 1
    BY <1>3, <1>4, ContainerAssumption
  <2>2. image.unit[0][3 - c] \in Word
    BY <1>5, <2>1 DEF IsImage
  <2> DEFINE k == c
             w == image.unit[0][3 - c]
  <2>3. /\ 0 \in 0 .. Units - 1 /\ k \in 0 .. Words - 1 /\ w \in Word /\ IsImage(image)
        /\ image' = WithWord(image, 0, k, w)
    BY <1>1, <1>5, <2>1, <2>2 DEF WithWord
  <2> HIDE DEF k, w
  <2>4. /\ IsImage(image') /\ image'.short = image.short /\ image'.unit[0][k] = w
        /\ \A u \in 0 .. Units - 1 : \A l \in 0 .. Words - 1 :
              u # 0 \/ l # k => image'.unit[u][l] = image.unit[u][l]
    BY <2>3, OneWord
  <2> QED BY <2>4 DEF k, w
<1>8. /\ FileKind(image') = FileKind(image) /\ Tables(image') = Tables(image)
      /\ Headers(image')[c] = Headers(original)[3 - c]
      /\ Headers(image')[3 - c] = Headers(original)[3 - c]
      /\ \A u \in 0 .. Units - 1 : image'.unit[u][0] = image.unit[u][0]
  <2>1. 0 \in 0 .. Units - 1 /\ \A k \in 0 .. 4 : k \in 0 .. Words - 1
    BY ContainerAssumption
  <2>2. \A k \in 0 .. 4 : k # c => image'.unit[0][k] = image.unit[0][k]
    BY <1>7, <2>1
  <2>3. image'.unit[0][0] = image.unit[0][0]
    BY <1>3, <2>2
  <2>4. \A k \in 3 .. 4 : image'.unit[0][k] = image.unit[0][k]
    BY <1>3, <2>2
  <2>5. image'.unit[0][3 - c] = image.unit[0][3 - c]
    BY <1>3, <1>4, <2>2
  <2>6. FileKind(image') = FileKind(image) /\ Tables(image') = Tables(image)
    BY <1>7, <2>3, <2>4, SameStructures
  <2>7. Headers(image')[c] = Headers(image)[3 - c] /\ Headers(image')[3 - c] = Headers(image)[3 - c]
    BY <1>3, <1>4, <1>5, <1>7, <2>5, CopiesAre
  <2>8. \A u \in 0 .. Units - 1 : image'.unit[u][0] = image.unit[u][0]
    BY <1>3, <1>7, <2>1
  <2> QED BY <1>6, <2>6, <2>7, <2>8
<1>9. LayoutKept(image', original)
  <2>1. CopiesKept(Headers(image'), Headers(original))
    BY <1>3, <1>4, <1>8 DEF CopiesKept
  <2> QED BY <1>5, <1>7, <1>8, <2>1 DEF LayoutKept
<1>10. WordsKept(image', original)
  <2>1. \A u \in 1 .. Units - 1 : \A k \in 0 .. Words - 1 : image'.unit[u][k] = image.unit[u][k]
    BY <1>7
  <2> QED BY <1>5, <2>1 DEF WordsKept, WordKept
<1>11. ASSUME NEW x \in Finding, Reported(image', original, x)
       PROVE  Reported(image, original, x) /\ x # Issue
  <2>1. ~CopyFault(Headers(image'), x)
    BY <1>3, <1>4, <1>8 DEF CopyFault
  <2>2. \/ x.kind = "table"
        \/ x.kind \in EntryKind
    BY <1>11, <2>1, KindsApart DEF Reported
  <2>3. x # Issue
    BY <1>2, <2>2, KindsApart
  <2>4. \A i \in Scanned(original) :
            WordAt(image', Bat(original).at, i) = WordAt(image, Bat(original).at, i)
    <3> SUFFICES ASSUME NEW i \in Scanned(original)
                 PROVE  WordAt(image', Bat(original).at, i) = WordAt(image, Bat(original).at, i)
      OBVIOUS
    <3>1. Bat(original).at + i \div Words \in 1 .. Units - 1 /\ i % Words \in 0 .. Words - 1
      BY <1>5, ScannedApart, ScannedPlaces
    <3> QED BY <1>7, <3>1 DEF WordAt
  <2> QED BY <1>8, <1>11, <2>1, <2>3, <2>4 DEF Reported
<1> QED BY <1>1, <1>9, <1>10, <1>11, HandleStep

LEMMA CopyTableStep == Apart(original) /\ RepairInv /\ CopyTable => RepairInv'
<1> SUFFICES ASSUME Apart(original), RepairInv, CopyTable PROVE RepairInv'
  OBVIOUS
<1> DEFINE c == Issue.of
<1>1. /\ Handle({"table"})
      /\ image' = [image EXCEPT !.unit[0][c + 2] = image.unit[0][(3 - c) + 2]]
  BY DEF CopyTable, CopyWord, Peer
<1>2. Issue \in Finding /\ Issue.kind = "table" /\ Reported(original, original, Issue)
  BY <1>1, IssueIs
<1>3. c \in 1 .. 2 /\ ~Tables(original)[c].ok /\ Tables(original)[3 - c].ok
  BY <1>2, KindsApart DEF Reported, CopyFault
<1> HIDE DEF c
<1>4. 3 - c \in 1 .. 2 /\ 3 - (3 - c) = c /\ \A d \in 1 .. 2 : d = c \/ d = 3 - c
  BY <1>3
<1>5. /\ LayoutKept(image, original) /\ WordsKept(image, original)
      /\ IsImage(image) /\ IsImage(original) /\ CopiesKept(Tables(image), Tables(original))
  BY DEF RepairInv, LayoutKept
<1>6. Tables(image)[3 - c] = Tables(original)[3 - c]
  BY <1>3, <1>4, <1>5 DEF CopiesKept
<1>7. /\ IsImage(image') /\ image'.short = image.short
      /\ image'.unit[0][c + 2] = image.unit[0][(3 - c) + 2]
      /\ \A u \in 0 .. Units - 1 : \A k \in 0 .. Words - 1 :
            u # 0 \/ k # c + 2 => image'.unit[u][k] = image.unit[u][k]
  <2>1. 0 \in 0 .. Units - 1 /\ c + 2 \in 0 .. Words - 1 /\ (3 - c) + 2 \in 0 .. Words - 1
    BY <1>3, <1>4, ContainerAssumption
  <2>2. image.unit[0][(3 - c) + 2] \in Word
    BY <1>5, <2>1 DEF IsImage
  <2> DEFINE k == c + 2
             w == image.unit[0][(3 - c) + 2]
  <2>3. /\ 0 \in 0 .. Units - 1 /\ k \in 0 .. Words - 1 /\ w \in Word /\ IsImage(image)
        /\ image' = WithWord(image, 0, k, w)
    BY <1>1, <1>5, <2>1, <2>2 DEF WithWord
  <2> HIDE DEF k, w
  <2>4. /\ IsImage(image') /\ image'.short = image.short /\ image'.unit[0][k] = w
        /\ \A u \in 0 .. Units - 1 : \A l \in 0 .. Words - 1 :
              u # 0 \/ l # k => image'.unit[u][l] = image.unit[u][l]
    BY <2>3, OneWord
  <2> QED BY <2>4 DEF k, w
<1>8. /\ FileKind(image') = FileKind(image) /\ Headers(image') = Headers(image)
      /\ Tables(image')[c] = Tables(original)[3 - c]
      /\ Tables(image')[3 - c] = Tables(original)[3 - c]
      /\ \A u \in 0 .. Units - 1 : image'.unit[u][0] = image.unit[u][0]
  <2>1. 0 \in 0 .. Units - 1 /\ \A k \in 0 .. 4 : k \in 0 .. Words - 1
    BY ContainerAssumption
  <2>2. \A k \in 0 .. 4 : k # c + 2 => image'.unit[0][k] = image.unit[0][k]
    BY <1>7, <2>1
  <2>3. image'.unit[0][0] = image.unit[0][0]
    BY <1>3, <2>2
  <2>4. \A k \in 1 .. 2 : image'.unit[0][k] = image.unit[0][k]
    BY <1>3, <2>2
  <2>5. image'.unit[0][(3 - c) + 2] = image.unit[0][(3 - c) + 2]
    BY <1>3, <1>4, <2>2
  <2>6. FileKind(image') = FileKind(image) /\ Headers(image') = Headers(image)
    BY <1>7, <2>3, <2>4, SameStructures
  <2>7. Tables(image')[c] = Tables(image)[3 - c] /\ Tables(image')[3 - c] = Tables(image)[3 - c]
    BY <1>3, <1>4, <1>5, <1>7, <2>5, CopiesAre
  <2>8. \A u \in 0 .. Units - 1 : image'.unit[u][0] = image.unit[u][0]
    BY <1>3, <1>7, <2>1
  <2> QED BY <1>6, <2>6, <2>7, <2>8
<1>9. LayoutKept(image', original)
  <2>1. CopiesKept(Tables(image'), Tables(original))
    BY <1>3, <1>4, <1>8 DEF CopiesKept
  <2> QED BY <1>5, <1>7, <1>8, <2>1 DEF LayoutKept
<1>10. WordsKept(image', original)
  <2>1. \A u \in 1 .. Units - 1 : \A k \in 0 .. Words - 1 : image'.unit[u][k] = image.unit[u][k]
    BY <1>7
  <2> QED BY <1>5, <2>1 DEF WordsKept, WordKept
<1>11. ASSUME NEW x \in Finding, Reported(image', original, x)
       PROVE  Reported(image, original, x) /\ x # Issue
  <2>1. ~CopyFault(Tables(image'), x)
    BY <1>3, <1>4, <1>8 DEF CopyFault
  <2>2. \/ x.kind = "header"
        \/ x.kind \in EntryKind
    BY <1>11, <2>1, KindsApart DEF Reported
  <2>3. x # Issue
    BY <1>2, <2>2, KindsApart
  <2>4. \A i \in Scanned(original) :
            WordAt(image', Bat(original).at, i) = WordAt(image, Bat(original).at, i)
    <3> SUFFICES ASSUME NEW i \in Scanned(original)
                 PROVE  WordAt(image', Bat(original).at, i) = WordAt(image, Bat(original).at, i)
      OBVIOUS
    <3>1. Bat(original).at + i \div Words \in 1 .. Units - 1 /\ i % Words \in 0 .. Words - 1
      BY <1>5, ScannedApart, ScannedPlaces
    <3> QED BY <1>7, <3>1 DEF WordAt
  <2> QED BY <1>8, <1>11, <2>1, <2>3, <2>4 DEF Reported
<1> QED BY <1>1, <1>9, <1>10, <1>11, HandleStep

\* The word of entry i, found where the original's table is.
Entry(img, i) == WordAt(img, Bat(original).at, i)

LEMMA EditStep ==
    ASSUME Apart(original), RepairInv, NEW kinds, kinds \subseteq EntryKind, Handle(kinds),
           NEW word \in Word, Edit(Issue.of, word),
           Mended(original, Entry(original, Issue.of), word),
           \A k \in Faults(original, word) :
               k \in Faults(original, Entry(image, Issue.of)) /\ k # Issue.kind
    PROVE  RepairInv'
<1> DEFINE i == Issue.of
           u == Bat(original).at + i \div Words
           k == i % Words
<1>1. /\ Issue \in Finding /\ Issue.kind \in EntryKind /\ batAt = Bat(original).at
      /\ Reported(original, original, Issue)
  BY IssueIs
<1>2. i \in Scanned(original)
  BY <1>1, KindsApart DEF Reported
<1>3. LayoutKept(image, original) /\ WordsKept(image, original)
  BY DEF RepairInv
<1>4. IsImage(image) /\ IsImage(original)
  BY <1>3 DEF LayoutKept
<1>5. /\ u \in 1 .. Units - 1 /\ k \in 0 .. Words - 1 /\ ~Landmark(original, u)
      /\ \A j \in Scanned(original) :
            Bat(original).at + j \div Words = u /\ j % Words = k => j = i
  BY <1>2, <1>4, ScannedPlaces, ScannedApart
<1>6. image' = [image EXCEPT !.unit[u][k] = word]
  BY <1>1 DEF Edit
<1>7. Mended(original, original.unit[u][k], word)
  BY DEF Entry, WordAt
<1> HIDE DEF u, k, i
<1>8. /\ IsImage(image') /\ image'.short = image.short /\ image'.unit[u][k] = word
      /\ \A v \in 0 .. Units - 1 : \A l \in 0 .. Words - 1 :
            v # u \/ l # k => image'.unit[v][l] = image.unit[v][l]
  <2>1. u \in 0 .. Units - 1 /\ k \in 0 .. Words - 1 /\ IsImage(image)
    BY <1>4, <1>5
  <2>2. image' = WithWord(image, u, k, word)
    BY <1>6 DEF WithWord
  <2> QED BY <2>1, <2>2, OneWord
<1>9. /\ FileKind(image') = FileKind(image)
      /\ Headers(image') = Headers(image) /\ Tables(image') = Tables(image)
  <2>1. 0 \in 0 .. Units - 1 /\ u # 0 /\ \A l \in 0 .. 4 : l \in 0 .. Words - 1
    BY <1>5, ContainerAssumption
  <2>2. \A l \in 0 .. 4 : image'.unit[0][l] = image.unit[0][l]
    BY <1>8, <2>1
  <2> QED BY <1>8, <2>2, SameStructures
<1>10. LayoutKept(image', original)
  <2>1. ASSUME NEW v \in 0 .. Units - 1, Landmark(original, v)
        PROVE  image'.unit[v][0] = image.unit[v][0]
    <3>1. v # u /\ 0 \in 0 .. Words - 1
      BY <1>5, <2>1, ContainerAssumption
    <3> QED BY <1>8, <3>1
  <2> QED BY <1>3, <1>8, <1>9, <2>1 DEF LayoutKept
<1>11. WordsKept(image', original)
  <2>1. ASSUME NEW v \in 1 .. Units - 1, NEW l \in 0 .. Words - 1
        PROVE  WordKept(image', original, v, l)
    <3>1. CASE v = u /\ l = k
      BY <1>2, <1>7, <1>8, <3>1 DEF WordKept, u, k
    <3>2. CASE v # u \/ l # k
      <4>1. image'.unit[v][l] = image.unit[v][l] /\ WordKept(image, original, v, l)
        BY <1>3, <1>8, <3>2 DEF WordsKept
      <4> QED BY <4>1 DEF WordKept
    <3> QED BY <3>1, <3>2
  <2> QED BY <2>1 DEF WordsKept
<1>12. ASSUME NEW j \in Scanned(original)
       PROVE  Entry(image', j) = IF j = i THEN word ELSE Entry(image, j)
  <2>1. CASE j = i
    BY <1>8, <2>1 DEF Entry, WordAt, u, k
  <2>2. CASE j # i
    <3>1. /\ Bat(original).at + j \div Words \in 0 .. Units - 1 /\ j % Words \in 0 .. Words - 1
      BY <1>4, ScannedPlaces
    <3>2. Bat(original).at + j \div Words # u \/ j % Words # k
      BY <1>5, <2>2
    <3> QED BY <1>8, <2>2, <3>1, <3>2 DEF Entry, WordAt
  <2> QED BY <2>1, <2>2
<1>13. ASSUME NEW x \in Finding, Reported(image', original, x)
       PROVE  Reported(image, original, x) /\ x # Issue
  <2>1. CASE x.kind \notin EntryKind
    BY <1>1, <1>9, <1>13, <2>1, KindsApart DEF Reported
  <2>2. CASE x.kind \in EntryKind
    <3>1. x.of \in Scanned(original) /\ x.kind \in Faults(original, Entry(image', x.of))
      BY <1>13, <2>2, KindsApart DEF Reported, Entry
    <3>2. CASE x.of = i
      <4>1. x.kind \in Faults(original, word)
        BY <1>12, <3>1, <3>2
      <4>2. x.kind \in Faults(original, Entry(image, i)) /\ x.kind # Issue.kind
        BY <4>1 DEF i
      <4> QED BY <1>13, <3>1, <3>2, <4>2 DEF Reported, Entry
    <3>3. CASE x.of # i
      <4>1. x.kind \in Faults(original, Entry(image, x.of))
        BY <1>12, <3>1, <3>3
      <4> QED BY <1>13, <3>1, <3>3, <4>1 DEF Reported, Entry, i
    <3> QED BY <3>2, <3>3
  <2> QED BY <2>1, <2>2
<1> QED BY <1>10, <1>11, <1>13, HandleStep

LEMMA ZeroEntryStep == Apart(original) /\ RepairInv /\ ZeroEntry => RepairInv'
<1> SUFFICES ASSUME Apart(original), RepairInv, ZeroEntry PROVE RepairInv'
  OBVIOUS
<1>1. /\ Handle({"beyond", "structural", "undefined"}) /\ Edit(Issue.of, ZeroWord)
      /\ {"beyond", "structural", "undefined"} \subseteq EntryKind
  BY DEF ZeroEntry, EntryKind
<1>2. ZeroWord \in Word /\ Faults(original, ZeroWord) = {}
  BY ZeroIs DEF ZeroWord, Faults
<1>3. Mended(original, Entry(original, Issue.of), ZeroWord)
  <2>1. Issue.kind \in Zeroing /\ Reported(original, original, Issue)
    BY <1>1, IssueIs DEF Zeroing
  <2>2. Issue.kind \in Faults(original, Entry(original, Issue.of))
    BY <2>1, KindsApart DEF Zeroing, Reported, Entry
  <2> QED BY <2>1, <2>2 DEF Mended
<1> QED BY <1>1, <1>2, <1>3, EditStep

LEMMA ClearReservedStep == Apart(original) /\ RepairInv /\ ClearReserved => RepairInv'
<1> SUFFICES ASSUME Apart(original), RepairInv, ClearReserved PROVE RepairInv'
  OBVIOUS
<1> DEFINE i == Issue.of
           word == Cleared(Entry(image, i))
           u == Bat(original).at + i \div Words
           k == i % Words
<1>1. Handle({"unaligned"}) /\ {"unaligned"} \subseteq EntryKind
  BY DEF ClearReserved, EntryKind
<1>2. /\ Issue.kind = "unaligned" /\ Reported(original, original, Issue)
      /\ batAt = Bat(original).at
  BY <1>1, IssueIs
<1>3. Edit(Issue.of, word)
  BY <1>2 DEF ClearReserved, Entry
<1>4. i \in Scanned(original) /\ "unaligned" \in Faults(original, Entry(original, i))
  BY <1>2, KindsApart DEF Reported, Entry
<1>5. /\ LayoutKept(image, original) /\ WordsKept(image, original)
      /\ IsImage(image) /\ IsImage(original)
  BY DEF RepairInv, LayoutKept
<1>6. u \in 1 .. Units - 1 /\ u \in 0 .. Units - 1 /\ k \in 0 .. Words - 1
  BY <1>4, <1>5, ScannedPlaces, ScannedApart
<1>7. /\ Entry(image, i) = image.unit[u][k] /\ Entry(original, i) = original.unit[u][k]
      /\ Entry(image, i) \in Word /\ Entry(original, i) \in Word
  <2>1. Entry(image, i) = image.unit[u][k] /\ Entry(original, i) = original.unit[u][k]
    BY DEF Entry, WordAt
  <2>2. image.unit[u][k] \in Word /\ original.unit[u][k] \in Word
    <3>1. /\ image.unit \in [0 .. Units - 1 -> [0 .. Words - 1 -> Word]]
          /\ original.unit \in [0 .. Units - 1 -> [0 .. Words - 1 -> Word]]
      BY <1>5 DEF IsImage
    <3> HIDE DEF u, k
    <3> QED BY <1>6, <3>1
  <2> QED BY <2>1, <2>2
<1>8. WordKept(image, original, u, k)
  BY <1>5, <1>6 DEF WordsKept
<1> HIDE DEF i, u, k
<1>9. word \in Word
  BY <1>7, ClearedIs
<1>10. Mended(original, Entry(original, i), word)
  <2>1. CASE Entry(image, i) = Entry(original, i)
    BY <1>4, <2>1 DEF Mended
  <2>2. CASE Mended(original, Entry(original, i), Entry(image, i))
    <3>1. \A w \in Word : Cleared(Cleared(w)) = Cleared(w)
      BY ClearedIs
    <3> QED BY <1>4, <1>7, <2>2, <3>1, ZeroIs DEF Mended
  <2> QED BY <1>7, <1>8, <2>1, <2>2 DEF WordKept
<1>11. \A f \in Faults(original, word) :
          f \in Faults(original, Entry(image, i)) /\ f # Issue.kind
  <2>1. word.state = Entry(image, i).state /\ word.mib = Entry(image, i).mib /\ ~word.reserved
    BY <1>7, ClearedIs
  <2> HIDE DEF word
  <2> QED BY <1>2, <2>1 DEF Faults
<1> HIDE DEF word
<1> QED BY <1>1, <1>3, <1>9, <1>10, <1>11, EditStep DEF i

\* Opening is only reading.
LEMMA OpenReads == Open => UNCHANGED <<vars, log, given>>
<1> SUFFICES ASSUME Open PROVE UNCHANGED <<vars, log, given>>
  OBVIOUS
<1>1. ASSUME NEW p, NEW step, O!At(p, step) PROVE UNCHANGED <<image, log, given>>
  BY <1>1 DEF O!At
<1>2. PICK p \in O!Path :
         O!CheckFront(p) \/ O!ReplayLog(p) \/ O!ChooseTable(p) \/ O!ReadMetadata(p) \/ O!ReadBat(p)
  BY DEF Open, O!OpenNext
<1>3. UNCHANGED <<image, log, given>>
  BY <1>1, <1>2 DEF O!CheckFront, O!ReplayLog, O!ChooseTable, O!ReadMetadata, O!ReadBat
<1> QED BY <1>3 DEF Open, vars

\* Whatever lies where a table is said to be, what repair leaves is an image.
LEMMA TypeStep == TypeInv /\ [ReopenNext]_<<vars, opening>> => TypeInv'
<1> SUFFICES ASSUME TypeInv, [ReopenNext]_<<vars, opening>> PROVE TypeInv'
  OBVIOUS
<1>1. ASSUME NEW kinds, Handle(kinds), IsImage(image') PROVE TypeInv'
  <2>1. /\ pc = "repair" /\ issues # <<>> /\ issues' = Tail(issues)
        /\ UNCHANGED <<original, pc, attempts>>
    BY <1>1 DEF Handle
  <2>2. issues' \in Seq(Finding)
    BY <2>1, HeadAndTail DEF TypeInv
  <2> QED BY <1>1, <2>1, <2>2 DEF TypeInv
<1>2. ASSUME NEW kinds, Handle(kinds) PROVE Issue \in Finding /\ Issue.kind \in kinds
  <2>1. issues \in Seq(Finding) /\ issues # <<>> /\ Issue.kind \in kinds
    BY <1>2 DEF TypeInv, Handle
  <2> QED BY <2>1, HeadAndTail DEF Issue
<1>3. CASE Analyse
  <2>1. /\ issues' = Issues(image) /\ pc' = "repair" /\ attempts' = attempts + 1
        /\ UNCHANGED <<image, original>>
    BY <1>3 DEF Analyse
  <2>2. issues' \in Seq(Finding)
    BY <2>1, IssuesAre DEF TypeInv
  <2> QED BY <2>1, <2>2 DEF TypeInv
<1>4. ASSUME NEW to \in 1 .. 4, NEW from \in 1 .. 4, CopyWord(to, from) PROVE IsImage(image')
  <2>1. 0 \in 0 .. Units - 1 /\ from \in 0 .. Words - 1 /\ IsImage(image)
    BY ContainerAssumption DEF TypeInv
  <2>2. image.unit \in [0 .. Units - 1 -> [0 .. Words - 1 -> Word]]
    BY <2>1 DEF IsImage
  <2>3. image.unit[0][from] \in Word
    BY <2>1, <2>2
  <2>4. image' = WithWord(image, 0, to, image.unit[0][from])
    BY <1>4 DEF CopyWord, WithWord
  <2> QED BY <2>1, <2>3, <2>4, AnyWord
<1>5. CASE CopyHeader
  <2>1. Handle({"header"}) /\ CopyWord(Issue.of, Peer(Issue.of))
    BY <1>5 DEF CopyHeader
  <2>2. Issue.of \in 1 .. 2
    BY <1>2, <2>1 DEF Finding, EntryKind
  <2>3. Issue.of \in 1 .. 4 /\ Peer(Issue.of) \in 1 .. 4
    BY <2>2 DEF Peer
  <2> QED BY <1>1, <1>4, <2>1, <2>3
<1>6. CASE CopyTable
  <2>1. Handle({"table"}) /\ CopyWord(Issue.of + 2, Peer(Issue.of) + 2)
    BY <1>6 DEF CopyTable
  <2>2. Issue.of \in 1 .. 2
    BY <1>2, <2>1 DEF Finding, EntryKind
  <2>3. Issue.of + 2 \in 1 .. 4 /\ Peer(Issue.of) + 2 \in 1 .. 4
    BY <2>2 DEF Peer
  <2> QED BY <1>1, <1>4, <2>1, <2>3
<1>7. CASE ZeroEntry
  <2>1. /\ Handle({"beyond", "structural", "undefined"})
        /\ image' = WithWord(image, batAt + Issue.of \div Words, Issue.of % Words, ZeroWord)
    BY <1>7 DEF ZeroEntry, Edit, WithWord
  <2>2. IsImage(image')
    BY <2>1, ZeroIs, AnyWord DEF TypeInv
  <2> QED BY <1>1, <2>1, <2>2
<1>8. CASE ClearReserved
  <2> DEFINE u == batAt + Issue.of \div Words
             k == Issue.of % Words
             word == Cleared(WordAt(image, batAt, Issue.of))
  <2>1. Handle({"unaligned"}) /\ image' = WithWord(image, u, k, word)
    BY <1>8 DEF ClearReserved, Edit, WithWord
  <2>2. word = Cleared(image.unit[u][k])
    BY DEF WordAt
  <2> HIDE DEF u, k, word
  <2>3. u \in 0 .. Units - 1 /\ k \in 0 .. Words - 1 => word \in Word
    BY <2>2, ClearedIs DEF TypeInv, IsImage
  <2>4. IsImage(image')
    BY <2>1, <2>3, AnyWord DEF TypeInv
  <2> QED BY <1>1, <2>1, <2>4
<1>9. CASE Report
  BY <1>9 DEF Report, TypeInv
<1>10. CASE UNCHANGED vars
  BY <1>10 DEF TypeInv, vars
<1>11. CASE Open
  BY <1>10, <1>11, OpenReads
<1> QED BY <1>3, <1>5, <1>6, <1>7, <1>8, <1>9, <1>10, <1>11
        DEF ReopenNext, Repair, Next

LEMMA AttemptStep == AttemptInv /\ [ReopenNext]_<<vars, opening>> => AttemptInv'
<1> SUFFICES ASSUME AttemptInv, [ReopenNext]_<<vars, opening>> PROVE AttemptInv'
  OBVIOUS
<1>1. original' = original
  BY OpenReads DEF ReopenNext, Repair, Next, Analyse, CopyHeader, CopyTable, ZeroEntry,
                   ClearReserved, Handle, Report, vars
<1>2. TypeInv'
  BY TypeStep DEF AttemptInv
<1> SUFFICES ASSUME Apart(original) PROVE RepairInv'
  BY <1>1, <1>2 DEF AttemptInv
<1>3. RepairInv
  BY DEF AttemptInv
<1>4. CASE Analyse
  BY <1>3, <1>4, AnalyseStep
<1>5. CASE CopyHeader
  BY <1>3, <1>5, CopyHeaderStep
<1>6. CASE CopyTable
  BY <1>3, <1>6, CopyTableStep
<1>7. CASE ZeroEntry
  BY <1>3, <1>7, ZeroEntryStep
<1>8. CASE ClearReserved
  BY <1>3, <1>8, ClearReservedStep
<1>9. CASE Report
  <2>1. /\ UNCHANGED <<image, original, issues, batAt, attempts>>
        /\ issues = <<>> /\ pc = "repair" /\ pc' = "idle"
    BY <1>9 DEF Report
  <2> QED BY <1>3, <2>1 DEF RepairInv, Grounded, Listed
<1>10. CASE UNCHANGED vars
  BY <1>3, <1>10 DEF RepairInv, Grounded, Listed, vars
<1>11. CASE Open
  BY <1>10, <1>11, OpenReads
<1> QED BY <1>4, <1>5, <1>6, <1>7, <1>8, <1>9, <1>10, <1>11
        DEF ReopenNext, Repair, Next

\* No edit changes the header and the regions that a reader chooses, whichever findings
\* are still to come, of an image whose table lies apart from its structures
\* (repair.rs:93-96).
THEOREM RepairKeepsChoice == ReopenSpec => []ChoiceKept
<1>1. AttemptInv => ChoiceKept
  BY HeaderKept, RegionsKept DEF AttemptInv, RepairInv, LayoutKept, ChoiceKept
<1> QED BY <1>1, AttemptInit, AttemptStep, PTL DEF ReopenSpec

\* An attempt that is under way starts from what the last one left.
StableInv == AttemptInv /\ RepairIsStable

\* The list of an attempt is empty if another came before: nothing that repair does to
\* an image whose table lies apart makes a finding, and none is left when it returns
\* (repair.rs:85-218).
THEOREM SecondRepairFindsNothing == ReopenSpec => []RepairIsStable
<1>1. ReopenInit => StableInv
  BY AttemptInit DEF StableInv, RepairIsStable, ReopenInit, Init
<1>2. StableInv /\ [ReopenNext]_<<vars, opening>> => StableInv'
  <2> SUFFICES ASSUME StableInv, [ReopenNext]_<<vars, opening>>, Apart(original)'
               PROVE  attempts' > 1 => issues' = <<>>
    BY AttemptStep DEF StableInv, RepairIsStable
  <2>1. original' = original
    BY OpenReads DEF ReopenNext, Repair, Next, Analyse, CopyHeader, CopyTable, ZeroEntry,
                     ClearReserved, Handle, Report, vars
  <2>2. RepairInv /\ (attempts > 1 => issues = <<>>) /\ attempts \in Nat
    BY <2>1 DEF StableInv, AttemptInv, RepairIsStable, RepairInv
  <2>3. CASE Analyse
    <3>1. /\ issues = <<>> /\ issues' = Issues(image) /\ attempts' = attempts + 1
          /\ Listed /\ LayoutKept(image, original)
      BY <2>2, <2>3 DEF Analyse, RepairInv
    <3>2. CASE attempts = 0
      BY <3>1, <3>2
    <3>3. CASE attempts > 0
      <4>1. /\ Issues(image) \in Seq(Finding)
            /\ \A x \in Finding : x \notin Range(Issues(image))
        BY <3>1, <3>3, ReportedIs, NoElements DEF Listed
      <4>2. Issues(image) = <<>>
        BY <4>1, HeadAndTail
      <4> QED BY <3>1, <4>2
    <3> QED BY <2>2, <3>2, <3>3
  <2>4. ASSUME NEW kinds, Handle(kinds) PROVE attempts' > 1 => issues' = <<>>
    BY <2>2, <2>4 DEF Handle
  <2>5. CASE UNCHANGED <<issues, attempts>>
    BY <2>2, <2>5
  <2> QED BY <2>3, <2>4, <2>5, OpenReads
          DEF ReopenNext, Repair, Next, CopyHeader, CopyTable, ZeroEntry, ClearReserved, Report,
              vars
<1>3. StableInv => RepairIsStable
  BY DEF StableInv
<1> QED BY <1>1, <1>2, <1>3, PTL DEF ReopenSpec

-----------------------------------------------------------------------------
(* Committing a log                                                        *)

\* VhdxOpen has its own instance of VhdxContainer, which is this one.
LEMMA SameTypes ==
    /\ O!Word = Word /\ O!Write = [unit : 0 .. Units - 1, word : 0 .. Words - 1, value : Word]
    /\ \A f : O!Range(f) = Range(f)
<1>1. O!Region = Region /\ O!RegionName = RegionName
  BY DEF O!Region, Region, O!RegionName, RegionName
<1>2. O!HeaderCopy = HeaderCopy
  BY <1>1 DEF O!HeaderCopy, HeaderCopy
<1>3. O!TableCopy = TableCopy
  BY <1>1 DEF O!TableCopy, TableCopy
<1>4. O!Part = Part
  BY <1>2, <1>3 DEF O!Part, Part
<1>5. O!Word = Word
  BY <1>4 DEF O!Word, Word
<1>6. \A f : O!Range(f) = Range(f)
  BY DEF O!Range, Range
<1> QED BY <1>5, <1>6 DEF O!Write

LEMMA SameOpening ==
    /\ \A h : O!Dirty(h) <=> Dirty(h)
    /\ \A r : O!Fits(r) <=> Fits(r)
    /\ \A img : /\ O!FileKind(img) = FileKind(img)
                /\ O!Headers(img) = Headers(img) /\ O!Tables(img) = Tables(img)
                /\ O!ActiveCopy(img) = ActiveCopy(img) /\ O!ReaderTable(img) = ReaderTable(img)
                /\ O!ReaderRegions(img) = ReaderRegions(img) /\ O!Opens(img) = Opens(img)
                /\ \A b : O!View(img, b) = View(img, b)
    /\ \A img, at : /\ O!HasMeta(img, at) <=> HasMeta(img, at)
                    /\ O!HasParent(img, at) = HasParent(img, at)
<1>1. \A h : O!Dirty(h) <=> Dirty(h)
  BY DEF O!Dirty, Dirty, O!NoGuid, NoGuid
<1>2. \A r : O!Fits(r) <=> Fits(r)
  BY DEF O!Fits, Fits
<1>3. \A img, at : /\ O!HasMeta(img, at) <=> HasMeta(img, at)
                  /\ O!HasParent(img, at) = HasParent(img, at)
  BY DEF O!HasMeta, HasMeta, O!HasParent, HasParent
<1>4. O!NoHeader = NoHeader /\ O!NoTable = NoTable
  BY DEF O!NoHeader, NoHeader, O!NoTable, NoTable, O!NoGuid, NoGuid, O!RegionName, RegionName
<1>5. \A w : O!HeaderIn(w) = HeaderIn(w) /\ O!TableIn(w) = TableIn(w)
  BY <1>4 DEF O!HeaderIn, HeaderIn, O!TableIn, TableIn
<1>6. ASSUME NEW img
      PROVE  /\ O!FileKind(img) = FileKind(img)
             /\ O!Headers(img) = Headers(img) /\ O!Tables(img) = Tables(img)
             /\ O!ActiveCopy(img) = ActiveCopy(img) /\ O!ReaderTable(img) = ReaderTable(img)
             /\ O!ReaderRegions(img) = ReaderRegions(img) /\ O!Opens(img) = Opens(img)
             /\ \A b : O!View(img, b) = View(img, b)
  <2>1. /\ O!FileKind(img) = FileKind(img)
        /\ O!Headers(img) = Headers(img) /\ O!Tables(img) = Tables(img)
    BY <1>5 DEF O!FileKind, FileKind, O!Headers, Headers, O!Tables, Tables
  <2>2. O!ActiveCopy(img) = ActiveCopy(img)
    BY <2>1 DEF O!ActiveCopy, ActiveCopy
  <2>3. \A t : O!Complete(t) <=> Complete(t)
    BY SameTypes DEF O!Complete, Complete
  <2>4. O!ReaderTable(img) = ReaderTable(img)
    BY <1>2, <2>1, <2>3, SameTypes DEF O!ReaderTable, ReaderTable, O!First, First
  <2>5. O!ReaderRegions(img) = ReaderRegions(img)
    BY <2>1, <2>4 DEF O!ReaderRegions, ReaderRegions
  <2>6. O!Opens(img) = Opens(img)
    BY <1>1, <1>2, <1>3, <2>1, <2>2, <2>4, <2>5 DEF O!Opens, Opens
  <2>7. ASSUME NEW b
        PROVE  /\ O!EntryOf(img, b) = EntryOf(img, b)
               /\ O!HasEntry(img, b) <=> HasEntry(img, b)
    BY <2>5 DEF O!EntryOf, EntryOf, O!HasEntry, HasEntry, O!WordAt, WordAt
  <2>8. ASSUME NEW b PROVE O!View(img, b) = View(img, b)
    BY <2>6, <2>7 DEF O!View, View
  <2> QED BY <2>1, <2>2, <2>4, <2>5, <2>6, <2>8
<1> QED BY <1>1, <1>2, <1>3, <1>6

LEMMA PutExists ==
    ASSUME NEW img, NEW ws, NEW n \in Nat
    PROVE  \E f : f = [i \in 0 .. n |-> IF i = 0 THEN img ELSE O!Put(f[i - 1], ws[i])]
<1> DEFINE Def(f, m) == [i \in 0 .. m |-> IF i = 0 THEN img ELSE O!Put(f[i - 1], ws[i])]
           S == {m \in Nat : \E f : f = Def(f, m)}
<1>1. 0 \in S
  <2> DEFINE f == [i \in 0 .. 0 |-> img]
  <2>1. ASSUME NEW i \in 0 .. 0
        PROVE  f[i] = IF i = 0 THEN img ELSE O!Put(f[i - 1], ws[i])
    OBVIOUS
  <2>2. f = [i \in 0 .. 0 |-> f[i]]
    OBVIOUS
  <2> HIDE DEF f
  <2>3. f = Def(f, 0)
    BY <2>1, <2>2
  <2> HIDE DEF Def
  <2> QED BY <2>3
<1>2. ASSUME NEW m \in Nat, m \in S PROVE m + 1 \in S
  <2>1. PICK f : f = Def(f, m)
    BY <1>2
  <2> DEFINE g == [i \in 0 .. m + 1 |-> IF i = 0 THEN img ELSE O!Put(f[i - 1], ws[i])]
  <2>2. ASSUME NEW i \in 0 .. m PROVE g[i] = f[i]
    <3>1. f[i] = IF i = 0 THEN img ELSE O!Put(f[i - 1], ws[i])
      BY <2>1
    <3>2. g[i] = IF i = 0 THEN img ELSE O!Put(f[i - 1], ws[i])
      <4>1. i \in 0 .. m + 1
        OBVIOUS
      <4> QED BY <4>1
    <3> HIDE DEF g
    <3> QED BY <3>1, <3>2
  <2>3. ASSUME NEW i \in 0 .. m + 1
        PROVE  g[i] = IF i = 0 THEN img ELSE O!Put(g[i - 1], ws[i])
    <3>1. CASE i = 0
      BY <3>1
    <3>2. CASE i # 0
      <4>1. i - 1 \in 0 .. m
        BY <3>2
      <4>2. g[i - 1] = f[i - 1]
        BY <2>2, <4>1
      <4> QED BY <3>2, <4>2
    <3> QED BY <3>1, <3>2
  <2>4. g = [i \in 0 .. m + 1 |-> g[i]]
    OBVIOUS
  <2> HIDE DEF g
  <2>5. g = Def(g, m + 1)
    BY <2>3, <2>4
  <2> HIDE DEF Def
  <2> QED BY <2>5
<1>3. n \in S
  <2> HIDE DEF S
  <2> QED BY <1>1, <1>2, SetInduction
<1> HIDE DEF Def
<1>4. \E f : f = Def(f, n)
  BY <1>3
<1> QED BY <1>4 DEF Def

\* The images on the way from img to PutAll(img, ws).
LEMMA PutSteps ==
    ASSUME NEW img, NEW ws, Len(ws) \in Nat
    PROVE  \E put : /\ put[0] = img /\ put[Len(ws)] = O!PutAll(img, ws)
                    /\ \A i \in 1 .. Len(ws) : put[i] = O!Put(put[i - 1], ws[i])
<1> DEFINE n == Len(ws)
           put == CHOOSE f :
              f = [i \in 0 .. n |-> IF i = 0 THEN img ELSE O!Put(f[i - 1], ws[i])]
<1>1. O!PutAll(img, ws) = put[n]
  BY DEF O!PutAll
<1>2. put = [i \in 0 .. n |-> IF i = 0 THEN img ELSE O!Put(put[i - 1], ws[i])]
  BY PutExists
<1> HIDE DEF put
<1>3. \A i \in 0 .. n : put[i] = IF i = 0 THEN img ELSE O!Put(put[i - 1], ws[i])
  BY <1>2
<1>4. put[0] = img
  BY <1>3
<1>5. \A i \in 1 .. n : put[i] = O!Put(put[i - 1], ws[i])
  BY <1>3
<1> QED BY <1>1, <1>4, <1>5

LEMMA PutNothing ==
    ASSUME NEW img
    PROVE  O!PutAll(img, <<>>) = img
BY PutSteps

IsWrites(ws) == ws \in Seq(O!Write)

\* The log writes word k of unit u.
Wrote(ws, u, k) == \E i \in 1 .. Len(ws) : ws[i].unit = u /\ ws[i].word = k

\* Two images under a log: they differ where they did, but for the words that it writes.
LEMMA PutAllWords ==
    ASSUME NEW a, IsImage(a), NEW b, IsImage(b), NEW ws, IsWrites(ws),
           NEW u \in 0 .. Units - 1, NEW k \in 0 .. Words - 1
    PROVE  LET to == O!PutAll(a, ws) IN
           /\ IsImage(to) /\ to.short = a.short
           /\ Wrote(ws, u, k) => to.unit[u][k] = O!PutAll(b, ws).unit[u][k]
           /\ ~Wrote(ws, u, k) => to.unit[u][k] = a.unit[u][k]
<1>a. Len(ws) \in Nat
  BY DEF IsWrites
<1>b. \A img : \E put : /\ put[0] = img /\ put[Len(ws)] = O!PutAll(img, ws)
                       /\ \A i \in 1 .. Len(ws) : put[i] = O!Put(put[i - 1], ws[i])
  BY <1>a, PutSteps
<1>c. PICK f : /\ f[0] = a /\ f[Len(ws)] = O!PutAll(a, ws)
               /\ \A i \in 1 .. Len(ws) : f[i] = O!Put(f[i - 1], ws[i])
  BY <1>b
<1>d. PICK g : /\ g[0] = b /\ g[Len(ws)] = O!PutAll(b, ws)
               /\ \A i \in 1 .. Len(ws) : g[i] = O!Put(g[i - 1], ws[i])
  BY <1>b
<1> DEFINE n == Len(ws)
           Until(m) == \E i \in 1 .. m : ws[i].unit = u /\ ws[i].word = k
<1>0. n \in Nat /\ \A i \in 1 .. n : ws[i] \in O!Write
  BY DEF IsWrites
<1>1. f[0] = a /\ f[n] = O!PutAll(a, ws) /\ \A i \in 1 .. n : f[i] = O!Put(f[i - 1], ws[i])
  BY <1>c
<1>2. g[0] = b /\ g[n] = O!PutAll(b, ws) /\ \A i \in 1 .. n : g[i] = O!Put(g[i - 1], ws[i])
  BY <1>d
<1> HIDE DEF n
<1> DEFINE Good(m) == /\ IsImage(f[m]) /\ IsImage(g[m]) /\ f[m].short = a.short
                      /\ IF Until(m) THEN f[m].unit[u][k] = g[m].unit[u][k]
                                     ELSE f[m].unit[u][k] = a.unit[u][k]
           S == {m \in Nat : m <= n => Good(m)}
<1>3. 0 \in S
  <2>1. ~Until(0)
    OBVIOUS
  <2> HIDE DEF Until
  <2> QED BY <1>1, <1>2, <2>1
<1>4. ASSUME NEW m \in Nat, m \in S PROVE m + 1 \in S
  <2> SUFFICES ASSUME m + 1 <= n PROVE Good(m + 1)
    BY <1>0
  <2> DEFINE w == ws[m + 1]
  <2>1. m + 1 \in 1 .. n /\ m + 1 - 1 = m /\ m <= n
    BY <1>0
  <2>2. Good(m) /\ w \in O!Write
    BY <1>0, <1>4, <2>1
  <2>3. f[m + 1] = O!Put(f[m], w) /\ g[m + 1] = O!Put(g[m], w)
    BY <1>1, <1>2, <2>1
  <2>4. Until(m + 1) <=> Until(m) \/ (w.unit = u /\ w.word = k)
    BY <2>1
  <2> HIDE DEF Until, w
  <2>5. w.unit \in 0 .. Units - 1 /\ w.word \in 0 .. Words - 1 /\ w.value \in Word
    BY <2>2, SameTypes
  <2>6. \A img : O!Put(img, w) = WithWord(img, w.unit, w.word, w.value)
    BY DEF O!Put, WithWord
  <2>7. ASSUME NEW img, IsImage(img)
        PROVE  LET to == O!Put(img, w) IN
               /\ IsImage(to) /\ to.short = img.short /\ to.unit[w.unit][w.word] = w.value
               /\ w.unit # u \/ w.word # k => to.unit[u][k] = img.unit[u][k]
    BY <2>5, <2>6, <2>7, OneWord
  <2>8. /\ IsImage(f[m + 1]) /\ f[m + 1].short = f[m].short
        /\ f[m + 1].unit[w.unit][w.word] = w.value
        /\ w.unit # u \/ w.word # k => f[m + 1].unit[u][k] = f[m].unit[u][k]
    BY <2>2, <2>3, <2>7
  <2>9. /\ IsImage(g[m + 1]) /\ g[m + 1].unit[w.unit][w.word] = w.value
        /\ w.unit # u \/ w.word # k => g[m + 1].unit[u][k] = g[m].unit[u][k]
    BY <2>2, <2>3, <2>7
  <2> QED BY <2>2, <2>4, <2>8, <2>9
<1>5. n \in S
  <2> HIDE DEF S
  <2> QED BY <1>0, <1>3, <1>4, SetInduction
<1>6. Good(n)
  BY <1>0, <1>5
<1>7. Until(n) <=> Wrote(ws, u, k)
  BY DEF Wrote, n
<1> HIDE DEF Until
<1> QED BY <1>1, <1>2, <1>6, <1>7

\* What a log leaves as it was.
LEMMA PutAllIs ==
    ASSUME NEW img, IsImage(img), NEW ws, IsWrites(ws)
    PROVE  LET to == O!PutAll(img, ws) IN
           /\ IsImage(to)
           /\ (\A i \in 1 .. Len(ws) : ws[i].unit = 0 => ws[i].word > 2) =>
                 FileKind(to) = FileKind(img) /\ Headers(to) = Headers(img)
           /\ (\A i \in 1 .. Len(ws) : ws[i].unit # 0) => Tables(to) = Tables(img)
<1> DEFINE to == O!PutAll(img, ws)
<1>1. 0 \in 0 .. Units - 1 /\ \A k \in 0 .. 4 : k \in 0 .. Words - 1
  BY ContainerAssumption
<1>2. IsImage(to) /\ to.short = img.short
  BY <1>1, PutAllWords
<1>3. \A k \in 0 .. 4 : ~Wrote(ws, 0, k) => to.unit[0][k] = img.unit[0][k]
  BY <1>1, PutAllWords
<1> HIDE DEF to
<1>4. ASSUME \A i \in 1 .. Len(ws) : ws[i].unit = 0 => ws[i].word > 2
      PROVE  FileKind(to) = FileKind(img) /\ Headers(to) = Headers(img)
  <2>1. \A k \in 0 .. 2 : ~Wrote(ws, 0, k)
    BY <1>4 DEF Wrote
  <2>2. \A k \in 0 .. 2 : to.unit[0][k] = img.unit[0][k]
    BY <1>3, <2>1
  <2> QED BY <1>2, <2>2, SameStructures
<1>5. ASSUME \A i \in 1 .. Len(ws) : ws[i].unit # 0
      PROVE  Tables(to) = Tables(img)
  <2>1. \A k \in 0 .. 4 : ~Wrote(ws, 0, k)
    BY <1>5 DEF Wrote
  <2>2. \A k \in 0 .. 4 : to.unit[0][k] = img.unit[0][k]
    BY <1>3, <2>1
  <2> QED BY <1>2, <2>2, SameStructures
<1> QED BY <1>2, <1>4, <1>5 DEF to

-----------------------------------------------------------------------------
(* Opening: what the two paths have found out, in terms of the committed    *)
(* container                                                               *)

LEMMA WritesAre ==
    ASSUME O!IsLog(log), NEW img
    PROVE  IsWrites(O!Writes(img)) /\ DOMAIN O!Writes(img) = 1 .. Len(O!Writes(img))
<1>1. IsWrites(O!Writes(img))
  <2>1. <<>> \in Seq(O!Write)
    OBVIOUS
  <2>2. \A at \in DOMAIN log : log[at].writes \in Seq(O!Write)
    BY DEF O!IsLog
  <2> QED BY <2>1, <2>2 DEF O!Writes, O!WritesOf, IsWrites
<1>2. ASSUME NEW ws \in Seq(O!Write) PROVE DOMAIN ws = 1 .. Len(ws)
  OBVIOUS
<1> QED BY <1>1, <1>2 DEF IsWrites

HeaderFine(img) ==
    /\ FileKind(img) = "vhdx" /\ ActiveCopy(img) # 0
    /\ LET h == Headers(img)[ActiveCopy(img)] IN Dirty(h) => Fits(h.log)

MetaFine(to, passed) ==
    /\ ReaderRegions(to).meta.len # 0 /\ HasMeta(to, ReaderRegions(to).meta.at)
    /\ HasParent(to, ReaderRegions(to).meta.at) => passed

\* How an open of img, whose committed contents are to, has to end.
Verdict(img, to, passed) ==
    IF FileKind(img) # "vhdx"
    THEN IF FileKind(img) = "foreign" THEN "BadMagic" ELSE "ContainerTooSmall"
    ELSE IF ActiveCopy(img) = 0 THEN "NoValidHeader"
    ELSE IF ~HeaderFine(img) THEN "OffsetOutOfBounds"
    ELSE IF ReaderTable(to) = 0 THEN O!TableError(Tables(to)[2])
    ELSE IF MetaFine(to, passed) THEN "none"
    ELSE IF ReaderRegions(to).meta.len # 0 /\ HasMeta(to, ReaderRegions(to).meta.at)
    THEN "DifferencingNotSupported" ELSE "InvalidMetadata"

Refused(err) == [O!Fresh EXCEPT !.step = "refused", !.err = err]

\* o is what an open of img may know.
Opening(o, img, to, passed) ==
    \/ o = O!Fresh
    \/ o = [O!Fresh EXCEPT !.step = "log", !.held = img] /\ FileKind(img) = "vhdx"
    \/ /\ o.step \in {"table", "meta", "bat", "open"} /\ o.err = "none"
       /\ DOMAIN o = {"step", "held", "runs", "err"}
       /\ O!PutAll(o.held, o.runs) = to
       /\ HeaderFine(img)
       /\ o.step # "table" => ReaderTable(to) # 0
       /\ o.step \in {"bat", "open"} => MetaFine(to, passed)
    \/ o = Refused(Verdict(img, to, passed)) /\ Verdict(img, to, passed) # "none"

LEMMA OpeningSteps ==
    ASSUME NEW o, NEW img, NEW to, NEW passed, Opening(o, img, to, passed),
           o.step \in {"table", "meta", "bat", "open"}
    PROVE  /\ o.err = "none" /\ DOMAIN o = {"step", "held", "runs", "err"}
           /\ O!PutAll(o.held, o.runs) = to
           /\ HeaderFine(img)
           /\ o.step # "table" => ReaderTable(to) # 0
           /\ o.step \in {"bat", "open"} => MetaFine(to, passed)
<1>1. o # O!Fresh
  BY DEF O!Fresh
<1>2. o # [O!Fresh EXCEPT !.step = "log", !.held = img]
  BY DEF O!Fresh
<1>3. o # Refused(Verdict(img, to, passed))
  BY DEF O!Fresh, Refused
<1> QED BY <1>1, <1>2, <1>3 DEF Opening

LEMMA OpeningLog ==
    ASSUME NEW o, NEW img, NEW to, NEW passed, Opening(o, img, to, passed), o.step = "log"
    PROVE  /\ o = [O!Fresh EXCEPT !.step = "log", !.held = img] /\ FileKind(img) = "vhdx"
<1>1. o # O!Fresh
  BY DEF O!Fresh
<1>2. o # Refused(Verdict(img, to, passed))
  BY DEF O!Fresh, Refused
<1> QED BY <1>1, <1>2 DEF Opening

OpenInv ==
    /\ O!IsLog(log) /\ AttemptInv
    /\ DOMAIN opener = O!Path
    /\ \A p \in O!Path : Opening(opener[p], image, O!Committed(image), given)

LEMMA OpenInvInit == ReopenInit => OpenInv
<1> SUFFICES ASSUME ReopenInit PROVE OpenInv
  OBVIOUS
<1>1. O!IsLog(log)
  BY CaseAssumption DEF ReopenInit
<1>2. opener = [p \in O!Path |-> O!Fresh]
  BY DEF ReopenInit, O!OpenInit
<1> QED BY <1>1, <1>2, AttemptInit DEF OpenInv, Opening

\* One open reads on; the image and the log stay.
LEMMA OpenedStep ==
    ASSUME OpenInv, NEW p \in O!Path, NEW o,
           UNCHANGED <<image, log, given>>, AttemptInv',
           opener' = [opener EXCEPT ![p] = o],
           Opening(o, image, O!Committed(image), given)
    PROVE  OpenInv'
<1>1. O!IsLog(log)'
  BY DEF OpenInv, O!IsLog
<1>2. O!Committed(image)' = O!Committed(image)
  BY DEF O!Committed, O!Writes, O!WritesOf
<1>3. /\ DOMAIN opener' = O!Path
      /\ \A q \in O!Path : opener'[q] = IF q = p THEN o ELSE opener[q]
  BY DEF OpenInv
<1>4. ASSUME NEW q \in O!Path
      PROVE  Opening(opener'[q], image, O!Committed(image), given)
  BY <1>3 DEF OpenInv
<1> QED BY <1>1, <1>2, <1>3, <1>4 DEF OpenInv

LEMMA CheckFrontStep ==
    ASSUME OpenInv, NEW p \in O!Path, O!CheckFront(p), AttemptInv'
    PROVE  OpenInv'
<1> DEFINE to == O!Committed(image)
<1>1. /\ DOMAIN opener = O!Path /\ IsImage(image)
      /\ Opening(opener[p], image, to, given) /\ opener[p].step = "front"
      /\ UNCHANGED <<image, log, given>>
  BY DEF OpenInv, AttemptInv, TypeInv, O!CheckFront, O!At
<1> HIDE DEF to
<1>2. opener[p] = O!Fresh
  BY <1>1 DEF Opening, Refused, O!Fresh
<1>3. CASE FileKind(image) # "vhdx"
  <2>1. FileKind(image) = "foreign" \/ FileKind(image) = "short"
    BY <1>3 DEF FileKind
  <2>2. /\ opener' = [opener EXCEPT ![p] = Refused(Verdict(image, to, given))]
        /\ Verdict(image, to, given) # "none"
    BY <1>3, <2>1, SameOpening DEF O!CheckFront, O!Refuse, O!Know, Refused, Verdict
  <2>3. Opening(Refused(Verdict(image, to, given)), image, to, given)
    BY <2>2 DEF Opening
  <2> QED BY <1>1, <2>2, <2>3, OpenedStep DEF to
<1>4. CASE FileKind(image) = "vhdx"
  <2> DEFINE o == [O!Fresh EXCEPT !.step = "log", !.held = image]
  <2>2. opener' = [opener EXCEPT ![p] = o]
    BY <1>4, SameOpening DEF O!CheckFront, O!Know
  <2>3. Opening(o, image, to, given)
    BY <1>4 DEF Opening
  <2> HIDE DEF o
  <2> QED BY <1>1, <2>2, <2>3, OpenedStep DEF to
<1> QED BY <1>3, <1>4

LEMMA ReplayLogStep ==
    ASSUME OpenInv, NEW p \in O!Path, O!ReplayLog(p), AttemptInv'
    PROVE  OpenInv'
<1> DEFINE to == O!Committed(image)
           c == ActiveCopy(image)
           h == Headers(image)[c]
           ws == O!WritesOf(image, h)
           v == Verdict(image, to, given)
<1>1. /\ DOMAIN opener = O!Path /\ IsImage(image)
      /\ Opening(opener[p], image, to, given) /\ opener[p].step = "log"
      /\ UNCHANGED <<image, log, given>>
  BY DEF OpenInv, AttemptInv, TypeInv, O!ReplayLog, O!At
<1>2. /\ opener[p] = [O!Fresh EXCEPT !.step = "log", !.held = image]
      /\ FileKind(image) = "vhdx"
  <2> HIDE DEF to
  <2> QED BY <1>1, OpeningLog
<1>3. opener[p].held = image
  BY <1>2 DEF O!Fresh
<1>4. O!HeaderInUse(opener[p].held) = c /\ (O!Dirty(h) <=> Dirty(h)) /\ (O!Fits(h.log) <=> Fits(h.log))
  BY <1>3, SameOpening DEF O!HeaderInUse
<1> HIDE DEF c, h
<1>5. CASE c = 0 \/ (Dirty(h) /\ ~Fits(h.log))
  <2>1. v = IF c = 0 THEN "NoValidHeader" ELSE "OffsetOutOfBounds"
    BY <1>2, <1>5 DEF Verdict, HeaderFine, c, h
  <2>2. opener' = [opener EXCEPT ![p] = Refused(v)]
    BY <1>4, <1>5, <2>1, SameOpening DEF O!ReplayLog, O!Refuse, O!Know, Refused, c, h
  <2>3. Opening(Refused(v), image, to, given)
    BY <2>1 DEF Opening
  <2> HIDE DEF to, v
  <2> QED BY <1>1, <2>2, <2>3, OpenedStep DEF to
<1>6. CASE c # 0 /\ (Dirty(h) => Fits(h.log))
  <2>1. HeaderFine(image)
    BY <1>2, <1>6 DEF HeaderFine, c, h
  <2>2. to = O!PutAll(image, ws)
    BY <1>6, SameOpening DEF O!Committed, O!Writes, c, h
  <2> DEFINE o == IF p = "ram"
                  THEN [O!Fresh EXCEPT !.step = "table", !.held = O!PutAll(image, ws)]
                  ELSE [O!Fresh EXCEPT !.step = "table", !.held = image, !.runs = ws]
  <2>3. opener' = IF p = "ram"
                  THEN [opener EXCEPT
                           ![p] = [opener[p] EXCEPT !.step = "table",
                                                    !.held = O!PutAll(opener[p].held, ws)]]
                  ELSE [opener EXCEPT ![p] = [opener[p] EXCEPT !.step = "table", !.runs = ws]]
    BY <1>4, <1>6, SameOpening DEF O!ReplayLog, O!Know, c, h
  <2> HIDE DEF ws, to
  <2>4. opener' = [opener EXCEPT ![p] = o]
    <3>1. opener[p] = [step |-> "log", held |-> image, runs |-> <<>>, err |-> "none"]
      BY <1>2 DEF O!Fresh
    <3>2. CASE p = "ram"
      <4> DEFINE y == O!PutAll(opener[p].held, ws)
                 new == [opener[p] EXCEPT !.step = "table", !.held = y]
                 Moved(r) == [r EXCEPT !.step = "table", !.held = y]
      <4>1. opener' = [opener EXCEPT ![p] = new]
        BY <2>3, <3>2
      <4>2. y = O!PutAll(image, ws)
        BY <1>3
      <4> HIDE DEF y
      <4>3. new = [step |-> "table", held |-> y, runs |-> <<>>, err |-> "none"]
        <5> DEFINE r == [step |-> "log", held |-> image, runs |-> <<>>, err |-> "none"]
        <5>1. Moved(r) = [step |-> "table", held |-> y, runs |-> <<>>, err |-> "none"]
          <6> DEFINE m == [r EXCEPT !.step = "table"]
          <6>1. m = [step |-> "table", held |-> image, runs |-> <<>>, err |-> "none"]
            OBVIOUS
          <6>2. Moved(r) = [m EXCEPT !.held = y]
            OBVIOUS
          <6> HIDE DEF m, r, Moved
          <6>3. [m EXCEPT !.held = y]
                   = [step |-> "table", held |-> y, runs |-> <<>>, err |-> "none"]
            BY <6>1
          <6> QED BY <6>2, <6>3
        <5>2. new = Moved(r)
          BY <3>1
        <5> HIDE DEF Moved, new
        <5> QED BY <5>1, <5>2
      <4>4. o = [step |-> "table", held |-> y, runs |-> <<>>, err |-> "none"]
        BY <3>2, <4>2 DEF O!Fresh
      <4> HIDE DEF new, o
      <4> QED BY <4>1, <4>3, <4>4
    <3>3. CASE p # "ram"
      BY <1>1, <1>2, <1>3, <2>3, <3>1, <3>3 DEF O!Fresh
    <3> QED BY <3>2, <3>3
  <2>5. Opening(o, image, to, given)
    <3>1. /\ o.step = "table" /\ o.err = "none" /\ DOMAIN o = {"step", "held", "runs", "err"}
          /\ IF p = "ram" THEN o.held = O!PutAll(image, ws) /\ o.runs = <<>>
                          ELSE o.held = image /\ o.runs = ws
      BY DEF O!Fresh
    <3> HIDE DEF o
    <3>2. O!PutAll(o.held, o.runs) = to
      BY <2>2, <3>1, PutNothing
    <3> QED BY <2>1, <3>1, <3>2 DEF Opening
  <2> HIDE DEF o
  <2> QED BY <1>1, <2>4, <2>5, OpenedStep DEF to
<1> QED BY <1>5, <1>6

\* The steps after the log change nothing but how far the open is.
LEMMA ReadOn ==
    ASSUME OpenInv, NEW p \in O!Path, UNCHANGED <<image, log, given>>, AttemptInv',
           NEW step \in {"meta", "bat", "open"}, O!Go(p, step),
           opener[p].step \in {"table", "meta", "bat"},
           ReaderTable(O!Committed(image)) # 0,
           step \in {"bat", "open"} => MetaFine(O!Committed(image), given)
    PROVE  OpenInv'
<1> DEFINE to == O!Committed(image)
           o == [opener[p] EXCEPT !.step = step]
<1>1. Opening(opener[p], image, to, given)
  BY DEF OpenInv
<1>2. opener' = [opener EXCEPT ![p] = o]
  BY DEF O!Go, O!Know
<1>3. /\ opener[p].err = "none" /\ DOMAIN opener[p] = {"step", "held", "runs", "err"}
      /\ O!PutAll(opener[p].held, opener[p].runs) = to /\ HeaderFine(image)
  <2> HIDE DEF to
  <2> QED BY <1>1, OpeningSteps
<1>4. /\ o.step = step /\ o.err = "none" /\ DOMAIN o = {"step", "held", "runs", "err"}
      /\ o.held = opener[p].held /\ o.runs = opener[p].runs
  BY <1>3
<1> HIDE DEF o
<1>5. Opening(o, image, to, given)
  BY <1>3, <1>4 DEF Opening
<1> QED BY <1>2, <1>5, OpenedStep

\* At these steps an open sees the committed container.
LEMMA SeesCommitted ==
    ASSUME OpenInv, NEW p \in O!Path, opener[p].step \in {"table", "meta", "bat", "open"}
    PROVE  /\ O!Patched(p) = O!Committed(image) /\ HeaderFine(image) /\ opener[p].err = "none"
           /\ opener[p].step # "table" => ReaderTable(O!Committed(image)) # 0
           /\ opener[p].step \in {"bat", "open"} => MetaFine(O!Committed(image), given)
<1>1. Opening(opener[p], image, O!Committed(image), given)
  BY DEF OpenInv
<1> QED BY <1>1, OpeningSteps DEF O!Patched

LEMMA ChooseTableStep ==
    ASSUME OpenInv, NEW p \in O!Path, O!ChooseTable(p), AttemptInv'
    PROVE  OpenInv'
<1> DEFINE to == O!Committed(image)
           v == Verdict(image, to, given)
<1>1. /\ opener[p].step = "table" /\ UNCHANGED <<image, log, given>>
      /\ O!Prefix(p) = to /\ HeaderFine(image)
  BY SeesCommitted DEF O!ChooseTable, O!At, O!Prefix
<1>2. /\ ReaderTable(to) = 0 => O!Refuse(p, O!TableError(Tables(to)[2]))
      /\ ReaderTable(to) # 0 => O!Go(p, "meta")
  BY <1>1, SameOpening DEF O!ChooseTable
<1> HIDE DEF to
<1>3. CASE ReaderTable(to) = 0
  <2>1. v = O!TableError(Tables(to)[2]) /\ v # "none"
    BY <1>1, <1>3 DEF Verdict, HeaderFine, O!TableError
  <2>2. opener' = [opener EXCEPT ![p] = Refused(v)]
    BY <1>2, <1>3, <2>1 DEF O!Refuse, O!Know, Refused
  <2>3. Opening(Refused(v), image, to, given)
    BY <2>1 DEF Opening
  <2> HIDE DEF v
  <2> QED BY <1>1, <2>2, <2>3, OpenedStep DEF to
<1>4. CASE ReaderTable(to) # 0
  BY <1>1, <1>2, <1>4, ReadOn DEF to
<1> QED BY <1>3, <1>4

LEMMA ReadMetadataStep ==
    ASSUME OpenInv, NEW p \in O!Path, O!ReadMetadata(p), AttemptInv'
    PROVE  OpenInv'
<1> DEFINE to == O!Committed(image)
           m == ReaderRegions(to).meta
           v == Verdict(image, to, given)
<1>1. /\ opener[p].step = "meta" /\ UNCHANGED <<image, log, given>>
      /\ O!Prefix(p) = to /\ O!Patched(p) = to /\ HeaderFine(image) /\ ReaderTable(to) # 0
  BY SeesCommitted DEF O!ReadMetadata, O!At, O!Prefix
<1>2. IF m.len = 0 \/ ~HasMeta(to, m.at) THEN O!Refuse(p, "InvalidMetadata")
      ELSE IF HasParent(to, m.at) /\ ~given THEN O!Refuse(p, "DifferencingNotSupported")
      ELSE O!Go(p, "bat")
  BY <1>1, SameOpening DEF O!ReadMetadata
<1> HIDE DEF to
<1>3. CASE ~MetaFine(to, given)
  <2>1. /\ v = IF m.len = 0 \/ ~HasMeta(to, m.at) THEN "InvalidMetadata"
               ELSE "DifferencingNotSupported"
        /\ v # "none"
    BY <1>1, <1>3 DEF Verdict, HeaderFine, MetaFine
  <2>2. opener' = [opener EXCEPT ![p] = Refused(v)]
    BY <1>2, <1>3, <2>1 DEF O!Refuse, O!Know, Refused, MetaFine
  <2>3. Opening(Refused(v), image, to, given)
    BY <2>1 DEF Opening
  <2> HIDE DEF v
  <2> QED BY <1>1, <2>2, <2>3, OpenedStep DEF to
<1>4. CASE MetaFine(to, given)
  <2>1. O!Go(p, "bat")
    BY <1>2, <1>4 DEF MetaFine
  <2> QED BY <1>1, <1>4, <2>1, ReadOn DEF to
<1> QED BY <1>3, <1>4

LEMMA OpenInvStep == OpenInv /\ [ReopenNext]_<<vars, opening>> => OpenInv'
<1> SUFFICES ASSUME OpenInv, [ReopenNext]_<<vars, opening>> PROVE OpenInv'
  OBVIOUS
<1>1. AttemptInv'
  BY AttemptStep DEF OpenInv
<1>2. ASSUME UNCHANGED <<log, given>> PROVE O!IsLog(log)'
  BY <1>2 DEF OpenInv, O!IsLog
<1>3. CASE Repair
  <2>1. /\ opener' = [p \in O!Path |-> O!Fresh] /\ UNCHANGED <<log, given>>
    BY <1>3 DEF Repair, opening
  <2>2. \A p \in O!Path : opener'[p] = O!Fresh
    BY <2>1
  <2>3. \A p \in O!Path : Opening(opener'[p], image', O!Committed(image)', given')
    BY <2>2 DEF Opening
  <2> QED BY <1>1, <1>2, <2>1, <2>3 DEF OpenInv
<1>4. CASE UNCHANGED <<vars, opening>>
  <2>1. UNCHANGED <<image, log, given, opener>>
    BY <1>4 DEF vars, opening
  <2>2. O!Committed(image)' = O!Committed(image)
    BY <2>1 DEF O!Committed, O!Writes, O!WritesOf
  <2> QED BY <1>1, <1>2, <2>1, <2>2 DEF OpenInv
<1>5. CASE Open
  <2>1. UNCHANGED <<image, log, given>>
    BY <1>5, OpenReads DEF vars
  <2>2. PICK p \in O!Path :
           \/ O!CheckFront(p) \/ O!ReplayLog(p) \/ O!ChooseTable(p)
           \/ O!ReadMetadata(p) \/ O!ReadBat(p)
    BY <1>5 DEF Open, O!OpenNext
  <2>3. CASE O!ReadBat(p)
    <3>1. opener[p].step = "bat" /\ O!Go(p, "open")
      BY <2>3 DEF O!ReadBat, O!At
    <3>2. ReaderTable(O!Committed(image)) # 0 /\ MetaFine(O!Committed(image), given)
      BY <3>1, SeesCommitted
    <3> QED BY <1>1, <2>1, <3>1, <3>2, ReadOn
  <2> QED BY <1>1, <2>2, <2>3, CheckFrontStep, ReplayLogStep, ChooseTableStep,
             ReadMetadataStep
<1> QED BY <1>3, <1>4, <1>5 DEF ReopenNext

\* How an open ends is determined by the bytes, the log and the parent alone.
LEMMA EndsAsItMust ==
    ASSUME OpenInv, NEW p \in O!Path, O!Ended(p)
    PROVE  /\ opener[p].err = Verdict(image, O!Committed(image), given)
           /\ opener[p].err = "none" => O!Patched(p) = O!Committed(image)
<1> DEFINE to == O!Committed(image)
           v == Verdict(image, to, given)
<1>1. Opening(opener[p], image, to, given)
  BY DEF OpenInv
<1>2. CASE opener[p].step = "open"
  <2>1. /\ opener[p].err = "none" /\ O!Patched(p) = to /\ HeaderFine(image)
        /\ ReaderTable(to) # 0 /\ MetaFine(to, given)
    BY <1>2, SeesCommitted
  <2>2. v = "none"
    BY <2>1 DEF Verdict, HeaderFine
  <2> QED BY <2>1, <2>2
<1>3. CASE opener[p].step = "refused"
  <2> HIDE DEF to, v
  <2>1. opener[p] # O!Fresh
    BY <1>3 DEF O!Fresh
  <2>2. opener[p] # [O!Fresh EXCEPT !.step = "log", !.held = image]
    BY <1>3 DEF O!Fresh
  <2>3. opener[p] = Refused(v) /\ v # "none"
    BY <1>1, <1>3, <2>1, <2>2 DEF Opening, v
  <2>4. opener[p].err = v
    BY <2>3 DEF Refused, O!Fresh
  <2> QED BY <2>3, <2>4 DEF to, v
<1> QED BY <1>2, <1>3 DEF O!Ended

\* The two ways to open a container agree, on the error and on every block, whatever the
\* log rewrites: headers, region tables, metadata or the table (log.rs:15-18;
\* reader.rs:110-122, 126-193).
THEOREM BothPathsAgree == ReopenSpec => []PathsOpenAlike
<1>1. OpenInv => PathsOpenAlike
  <2> SUFFICES ASSUME OpenInv, O!Ended("ram"), O!Ended("bounded")
               PROVE  /\ opener["ram"].err = opener["bounded"].err
                      /\ opener["ram"].err = "none" => O!Patched("ram") = O!Patched("bounded")
    BY DEF PathsOpenAlike, O!PathsOpenAlike
  <2>1. "ram" \in O!Path /\ "bounded" \in O!Path
    BY DEF O!Path
  <2> QED BY <2>1, EndsAsItMust
<1> QED BY <1>1, OpenInvInit, OpenInvStep, PTL DEF ReopenSpec

\* A log that leaves the headers alone is committed by opening: what opens, and what it
\* then shows, is the container with the log's writes in it (log.rs:9-13).
THEOREM OpeningCommits == ReopenSpec => []OpensCommitted
<1>1. OpenInv => OpensCommitted
  <2> DEFINE to == O!Committed(image)
  <2> SUFFICES ASSUME OpenInv, NEW p \in O!Path, O!Ended(p), O!KeepsHeaders
               PROVE  /\ opener[p].err = "none" <=> Opens(to) /\ (HasParent(to, ReaderRegions(to).meta.at) => given)
                      /\ opener[p].err = "none" => O!Patched(p) = to
    BY SameOpening DEF OpensCommitted, O!OpensCommitted
  <2>1. IsImage(image) /\ O!IsLog(log)
    BY DEF OpenInv, AttemptInv, TypeInv
  <2> DEFINE ws == O!Writes(image)
  <2>2. IsWrites(ws) /\ to = O!PutAll(image, ws)
    BY <2>1, WritesAre DEF O!Committed
  <2>3. \A i \in 1 .. Len(ws) : ws[i].unit = 0 => ws[i].word > 2
    BY <2>1, WritesAre DEF O!KeepsHeaders
  <2> HIDE DEF ws
  <2>4. IsImage(to) /\ FileKind(to) = FileKind(image) /\ Headers(to) = Headers(image)
    BY <2>1, <2>2, <2>3, PutAllIs
  <2> HIDE DEF to
  <2>5. ActiveCopy(to) = ActiveCopy(image)
    BY <2>4 DEF ActiveCopy
  <2>6. ReaderTable(to) # 0 => ReaderRegions(to).meta.len \in Nat
    BY <2>4, ReaderTableIs DEF Region
  <2>7. Opens(to) /\ (HasParent(to, ReaderRegions(to).meta.at) => given)
           <=> HeaderFine(image) /\ ReaderTable(to) # 0 /\ MetaFine(to, given)
    BY <2>4, <2>5, <2>6 DEF Opens, HeaderFine, MetaFine
  <2>8. Verdict(image, to, given) = "none"
           <=> HeaderFine(image) /\ ReaderTable(to) # 0 /\ MetaFine(to, given)
    BY DEF Verdict, HeaderFine, O!TableError
  <2>9. /\ opener[p].err = Verdict(image, to, given)
        /\ opener[p].err = "none" => O!Patched(p) = to
    BY EndsAsItMust DEF to
  <2> QED BY <2>7, <2>8, <2>9
<1> QED BY <1>1, OpenInvInit, OpenInvStep, PTL DEF ReopenSpec
=============================================================================
