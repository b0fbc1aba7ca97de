-------------------------- MODULE LogReplayProofs --------------------------
(***************************************************************************)
(* For containers, logs and reads of any size: the two open paths agree,   *)
(* the replay commits what CommittedByte says, the bounded path implements *)
(* CommittedImage, and the analyser's walk over the log names what the     *)
(* replay leaves out.                                                      *)
(***************************************************************************)
EXTENDS LogAudit, DataLemmas, SequenceTheorems, FiniteSetTheorems, TLAPS

\* A function over 1 .. n is a list of n elements.
LEMMA FunctionIsSeq ==
    ASSUME NEW S, NEW n \in Nat, NEW f \in [1 .. n -> S]
    PROVE  f \in Seq(S) /\ Len(f) = n
BY SeqDef

PutAfter(s, k, x) == SubSeq(s, 1, k) \o <<x>> \o SubSeq(s, k + 1, Len(s))

\* t is s with x after its first k elements.
Grown(t, s, k, x, S) ==
    /\ t \in Seq(S) /\ Len(t) = Len(s) + 1
    /\ \A i \in 1 .. k : t[i] = s[i]
    /\ t[k + 1] = x
    /\ \A i \in k + 1 .. Len(s) : t[i + 1] = s[i]

LEMMA PutAfterIs ==
    ASSUME NEW S, NEW s \in Seq(S), NEW x \in S, NEW k \in 0 .. Len(s)
    PROVE  Grown(PutAfter(s, k, x), s, k, x, S)
<1> SUFFICES ASSUME NEW t, t = PutAfter(s, k, x)
             PROVE  Grown(t, s, k, x, S)
  OBVIOUS
<1> DEFINE l == SubSeq(s, 1, k)
           r == SubSeq(s, k + 1, Len(s))
<1>1. l \in Seq(S) /\ Len(l) = k /\ \A i \in 1 .. k : l[i] = s[i]
  <2>1. 1 .. k \subseteq 1 .. Len(s)
    OBVIOUS
  <2> QED BY <2>1, SubSeqProperties
<1>2. r \in Seq(S) /\ Len(r) = Len(s) - k /\ \A i \in 1 .. Len(s) - k : r[i] = s[k + i]
  BY SubSeqProperties
<1> HIDE DEF l, r
<1>3. /\ t \in Seq(S) /\ Len(t) = Len(s) + 1
      /\ \A i \in 1 .. Len(t) : t[i] = IF i <= k THEN l[i]
                                       ELSE IF i = k + 1 THEN x ELSE r[i - k - 1]
  <2>1. t = l \o <<x>> \o r
    BY DEF PutAfter, l, r
  <2> QED BY <1>1, <1>2, <2>1
<1>4. \A i \in 1 .. k : t[i] = s[i]
  BY <1>1, <1>3
<1>5. t[k + 1] = x
  BY <1>3
<1>6. ASSUME NEW i \in k + 1 .. Len(s)
      PROVE  t[i + 1] = s[i]
  <2> DEFINE j == i - k
  <2>1. j \in 1 .. Len(s) - k /\ k + j = i /\ (i + 1) - k - 1 = j
        /\ i + 1 \in 1 .. Len(t) /\ i + 1 > k + 1
    BY <1>3
  <2> HIDE DEF j
  <2>2. t[i + 1] = r[j]
    BY <1>3, <2>1
  <2> QED BY <1>2, <2>1, <2>2
<1> QED BY <1>3, <1>4, <1>5, <1>6 DEF Grown

\* A list with an entry put in its place is a list over the same set, and every element
\* of it is the entry or was there.
LEMMA InsertType ==
    ASSUME NEW s \in Seq(Entry), NEW e \in Entry
    PROVE  /\ InsertBySeq(s, e) \in Seq(Entry)
           /\ \A i \in DOMAIN InsertBySeq(s, e) :
                InsertBySeq(s, e)[i] = e \/ \E j \in DOMAIN s : InsertBySeq(s, e)[i] = s[j]
<1> DEFINE K == {i \in DOMAIN s : s[i].seq <= e.seq}
           k == Cardinality(K)
           t == PutAfter(s, k, e)
<1>1. k \in 0 .. Len(s)
  <2>1. IsFiniteSet(1 .. Len(s)) /\ Cardinality(1 .. Len(s)) = Len(s)
    <3>1. Len(s) \in Nat
      OBVIOUS
    <3> QED BY <3>1, FS_Interval, 1 \in Int
  <2>2. K \subseteq 1 .. Len(s)
    OBVIOUS
  <2>3. k \in Nat /\ k <= Len(s)
    BY <2>1, <2>2, FS_Subset, FS_CardinalityType
  <2> QED BY <2>3
<1>2. InsertBySeq(s, e) = t
  BY DEF InsertBySeq, PutAfter
<1> HIDE DEF K, k
<1>3. Grown(t, s, k, e, Entry)
  BY <1>1, PutAfterIs
<1> HIDE DEF t
<1>4. t \in Seq(Entry) /\ Len(t) = Len(s) + 1
  BY <1>3 DEF Grown
<1>5. ASSUME NEW i \in 1 .. Len(t)
      PROVE  t[i] = e \/ \E j \in 1 .. Len(s) : t[i] = s[j]
  <2>1. CASE i <= k
    BY <2>1, <1>1, <1>3 DEF Grown
  <2>2. CASE i = k + 1
    BY <2>2, <1>3 DEF Grown
  <2>3. CASE i > k + 1
    <3> DEFINE j == i - 1
    <3>1. j \in k + 1 .. Len(s) /\ i = j + 1 /\ j \in 1 .. Len(s)
      BY <1>1, <1>4, <2>3
    <3> HIDE DEF j
    <3> QED BY <1>3, <3>1 DEF Grown
  <2> QED BY <1>1, <2>1, <2>2, <2>3
<1> QED BY <1>2, <1>4, <1>5

\* At most one byte is shown at an offset: the last covering run is unique.
LEMMA ShowsUnique ==
    ASSUME NEW s, NEW n \in Nat, NEW o, NEW b, NEW c, Shows(s, n, b, o), Shows(s, n, c, o)
    PROVE  b = c
<1>1. ASSUME NEW i \in 1 .. n, Covers(s[i], o),
             NEW j \in 1 .. n, Covers(s[j], o),
             \A m \in i + 1 .. n : ~Covers(s[m], o),
             \A m \in j + 1 .. n : ~Covers(s[m], o)
      PROVE  i = j
  <2>1. ~(i < j) /\ ~(j < i)
    BY <1>1
  <2> QED BY <2>1
<1> QED BY <1>1 DEF Shows

\* One more run shows its own byte where it covers, and leaves the rest alone.
LEMMA ShowsNext ==
    ASSUME NEW s, NEW n \in Nat, NEW o, NEW b, Shows(s, n, b, o)
    PROVE  Shows(s, n + 1,
                 IF Covers(s[n + 1], o) THEN RunByte(s[n + 1], o) ELSE b, o)
<1>1. CASE Covers(s[n + 1], o)
  BY <1>1 DEF Shows
<1>2. CASE ~Covers(s[n + 1], o)
  <2>1. \A i \in 1 .. n + 1 : i \in 1 .. n \/ i = n + 1
    OBVIOUS
  <2>2. CASE \E i \in 1 .. n : /\ Covers(s[i], o)
                               /\ b = RunByte(s[i], o)
                               /\ \A j \in i + 1 .. n : ~Covers(s[j], o)
    <3>1. PICK i \in 1 .. n : /\ Covers(s[i], o)
                              /\ b = RunByte(s[i], o)
                              /\ \A j \in i + 1 .. n : ~Covers(s[j], o)
      BY <2>2
    <3>2. \A j \in i + 1 .. n + 1 : ~Covers(s[j], o)
      BY <3>1, <1>2
    <3> QED BY <3>1, <3>2, <1>2 DEF Shows
  <2>3. CASE b = Disk[o] /\ \A i \in 1 .. n : ~Covers(s[i], o)
    BY <2>1, <2>3, <1>2 DEF Shows
  <2> QED BY <2>2, <2>3 DEF Shows
<1> QED BY <1>1, <1>2

\* What the first n runs show depends on those runs only.
LEMMA ShowsAppend ==
    ASSUME NEW s \in Seq(Run), NEW r, NEW n \in 0 .. Len(s), NEW o, NEW b,
           Shows(s, n, b, o)
    PROVE  Shows(Append(s, r), n, b, o)
<1>1. \A i \in 1 .. n : Append(s, r)[i] = s[i]
  OBVIOUS
<1> QED BY <1>1 DEF Shows

-----------------------------------------------------------------------------
(* Type correctness                                                        *)

\* The state has its type: the replay writes only inside the container, and no
\* read returns a byte past its end.
THEOREM TypeCorrect == Spec => []TypeOK
<1> USE LogAssumption
<1>1. Init => TypeOK
  BY DEF Init, TypeOK, Run, Path
<1>2. TypeOK /\ [Next]_vars => TypeOK'
  <2> SUFFICES ASSUME TypeOK, [Next]_vars PROVE TypeOK'
    OBVIOUS
  <2> USE DEF TypeOK, image, walk, replay, reading, answer
  <2>1. ASSUME RefuseImage \/ OpenClean \/ StartWalk \/ EndWalk \/ FinishReplay
        PROVE  TypeOK'
    BY <2>1 DEF RefuseImage, OpenClean, StartWalk, EndWalk, FinishReplay
  <2>2. CASE CollectEntry
    <3>0. log[pos] \in Entry
      BY <2>2 DEF CollectEntry, Framed, Log
    <3>1. log[pos] \in Entry /\ log[pos].len \in Nat /\ pos + log[pos].len <= LogLen
      BY <2>2, <3>0 DEF CollectEntry, Framed, EntryType
    <3>2. InsertBySeq(entries, log[pos]) \in Seq(Entry)
      BY <3>1, InsertType
    <3>3. entries' \in Seq(Entry) /\ pos' \in 0 .. LogLen
      BY <2>2, <3>1, <3>2 DEF CollectEntry
    <3> QED BY <2>2, <3>3 DEF CollectEntry
  <2>3. CASE SkipEntry
    <3>1. log[pos] \in Entry
      BY <2>3 DEF SkipEntry, Framed, Log
    <3>2. log[pos].len \in Nat /\ pos + log[pos].len <= LogLen
      BY <2>3, <3>1 DEF SkipEntry, Framed, EntryType
    <3>3. pos' \in 0 .. LogLen
      BY <2>3, <3>2 DEF SkipEntry
    <3> QED BY <2>3, <3>3 DEF SkipEntry
  <2>0. ASSUME NEW paths, GoOn(paths)
        PROVE  /\ live' \subseteq Path
               /\ pc' \in {"header", "walk", "replay", "ready", "patch", "refused", "panicked"}
    BY <2>0 DEF GoOn
  <2>4. ASSUME AtDescriptor("desc") \/ AtDescriptor("zero")
        PROVE  /\ Current \in EntryType
               /\ D \in Descriptor
    <3>1. Current \in Entry
      BY <2>4 DEF AtDescriptor, Current
    <3>2. desc + 1 \in 1 .. Len(Current.descs) /\ Current.descs \in Seq(Descriptor)
      BY <2>4, <3>1 DEF AtDescriptor, EntryType
    <3> QED BY <3>1, <3>2 DEF D
  <2>5. CASE DataDescriptor
    <3> DEFINE bytes == Current.sectors[sector + 1]
    <3>1. Current \in EntryType /\ D \in Descriptor
      BY <2>4, <2>5 DEF DataDescriptor
    <3>2. ASSUME sector < Len(Current.sectors)
          PROVE  bytes \in Sector /\ bytes \in Seq(Byte)
      <4>1. Current.sectors \in Seq(Sector)
        BY <3>1 DEF EntryType
      <4>2. bytes \in Sector
        BY <3>2, <4>1
      <4>3. bytes \in [1 .. SectorLen -> Byte] /\ SectorLen \in Nat
        BY <4>2 DEF Sector
      <4> HIDE DEF bytes
      <4> QED BY <4>2, <4>3, FunctionIsSeq
    <3>3. runs' \in Seq(Run)
      <4>1. CASE sector < Len(Current.sectors)
        <5>1. [start |-> D.off, bytes |-> bytes] \in Run
          BY <4>1, <3>1, <3>2 DEF Run, Descriptor
        <5> QED BY <5>1, <4>1, <2>5 DEF DataDescriptor
      <4>2. CASE ~(sector < Len(Current.sectors))
        BY <4>2, <2>5 DEF DataDescriptor
      <4> QED BY <4>1, <4>2
    <3>4. data' \in [Cell -> Byte]
      <4>1. CASE sector < Len(Current.sectors)
        <5>1. \A o \in Cell : o \in D.off .. D.off + SectorLen - 1
                                => bytes[o - D.off + 1] \in Byte
          <6>1. bytes \in [1 .. SectorLen -> Byte]
            BY <4>1, <3>2 DEF Sector
          <6>2. D.off \in Nat /\ SectorLen \in Nat
            BY <3>1 DEF Descriptor
          <6> HIDE DEF bytes
          <6> QED BY <6>1, <6>2 DEF Cell
        <5> QED BY <5>1, <4>1, <2>5 DEF DataDescriptor
      <4>2. CASE ~(sector < Len(Current.sectors))
        BY <4>2, <2>5 DEF DataDescriptor
      <4> QED BY <4>1, <4>2
    <3> QED BY <2>0, <2>5, <3>3, <3>4 DEF DataDescriptor
  <2>6. CASE ZeroDescriptor
    <3>1. D \in Descriptor
      BY <2>4, <2>6 DEF ZeroDescriptor
    <3>2. [start |-> D.off, bytes |-> [i \in 1 .. D.len |-> ZeroByte]] \in Run
      <4>1. D.off \in Nat /\ D.len \in Nat
        BY <3>1 DEF Descriptor
      <4>2. [i \in 1 .. D.len |-> ZeroByte] \in [1 .. D.len -> Byte]
        OBVIOUS
      <4>3. [i \in 1 .. D.len |-> ZeroByte] \in Seq(Byte)
        BY <4>1, <4>2, FunctionIsSeq
      <4> QED BY <4>1, <4>3 DEF Run
    <3>3. runs' \in Seq(Run)
      BY <3>2, <2>6 DEF ZeroDescriptor
    <3>4. data' \in [Cell -> Byte]
      BY <2>6 DEF ZeroDescriptor
    <3> QED BY <2>0, <2>6, <3>3, <3>4 DEF ZeroDescriptor
  <2>7. CASE OtherDescriptor
    BY <2>7 DEF OtherDescriptor
  <2>8. CASE FinishEntry
    BY <2>8 DEF FinishEntry
  <2>9. CASE OverrunEntry
    BY <2>0, <2>9 DEF OverrunEntry
  <2>10. ASSUME NEW off \in 0 .. ContainerLen, NEW n \in 1 .. MaxRead, StartRead(off, n)
         PROVE  TypeOK'
    <3>1. \A k \in DOMAIN buf' : k \in Nat /\ off + k \in Cell
      BY <2>10 DEF StartRead, Cell
    <3> QED BY <2>10, <3>1 DEF StartRead
  <2>11. CASE PatchRun
    BY <2>11 DEF PatchRun
  <2>12. CASE FinishRead
    BY <2>12 DEF FinishRead
  <2>13. CASE UNCHANGED vars
    BY <2>13 DEF vars
  <2> QED
    BY <2>1, <2>2, <2>3, <2>5, <2>6, <2>7, <2>8, <2>9, <2>10, <2>11, <2>12, <2>13
    DEF Next, OpenNext
<1> QED BY <1>1, <1>2, PTL DEF Spec

-----------------------------------------------------------------------------
(* Agreement of the two paths                                              *)

\* The walk hands on only entries of the log.
EntriesPlaced ==
    LogWellPlaced(log) => \A i \in DOMAIN entries : WellPlaced(entries[i])

\* patch has put the first `patched' runs over the bytes of the disk.
ReadInProgress ==
    pc = "patch" =>
        /\ patched <= Len(runs)
        /\ \A k \in DOMAIN buf : Shows(runs, patched, buf[k], at + k)

\* No read is answered before the replay is over, and the last answer is what
\* all the runs show.
AnswerShown ==
    /\ pc \notin {"ready", "patch"} => DOMAIN reply = {}
    /\ \A k \in DOMAIN reply : Shows(runs, Len(runs), reply[k], replyAt + k)

\* The buffer and the runs, for a path that has panicked as well: what it would hold.
SameBytes == LogWellPlaced(log) => \A o \in Cell : Shows(runs, Len(runs), data[o], o)

AgreementInv == EntriesPlaced /\ SameBytes /\ ReadInProgress /\ AnswerShown

LEMMA AgreementInit == Init => AgreementInv
<1> SUFFICES ASSUME Init PROVE AgreementInv
  OBVIOUS
<1>1. \A o \in Cell : Shows(runs, Len(runs), data[o], o)
  BY DEF Init, Shows
<1> QED
  BY <1>1 DEF Init, AgreementInv, EntriesPlaced, SameBytes, ReadInProgress, AnswerShown

\* The replay of a descriptor changes the buffer and the overlay in the same way.
LEMMA DescriptorAgrees ==
    ASSUME TypeOK, AgreementInv, LogWellPlaced(log),
           DataDescriptor \/ ZeroDescriptor, NEW o \in Cell
    PROVE  Shows(runs', Len(runs'), data'[o], o)
<1> USE LogAssumption
<1>1. /\ Current \in Entry /\ Current \in EntryType /\ WellPlaced(Current)
      /\ desc + 1 \in DOMAIN Current.descs
      /\ D \in Descriptor
  <2>1. cur \in DOMAIN entries
    BY DEF TypeOK, DataDescriptor, ZeroDescriptor, AtDescriptor
  <2>2. Current \in Entry /\ WellPlaced(Current)
    BY <2>1 DEF TypeOK, Current, AgreementInv, EntriesPlaced
  <2>3. Current.descs \in Seq(Descriptor)
    BY <2>2 DEF EntryType
  <2>4. desc + 1 \in DOMAIN Current.descs
    BY <2>3 DEF TypeOK, DataDescriptor, ZeroDescriptor, AtDescriptor
  <2> QED BY <2>2, <2>3, <2>4 DEF D
<1>2. D.off \in Nat /\ D.len \in Nat /\ o \in Int /\ SectorLen \in Nat \ {0}
  BY <1>1 DEF Descriptor, Cell
<1>3. Shows(runs, Len(runs), data[o], o) /\ runs \in Seq(Run) /\ Len(runs) \in Nat
  BY DEF AgreementInv, SameBytes, TypeOK
<1>4. ASSUME NEW r, runs' = Append(runs, r),
             data'[o] = IF Covers(r, o) THEN RunByte(r, o) ELSE data[o]
      PROVE  Shows(runs', Len(runs'), data'[o], o)
  <2>0. Len(runs) \in 0 .. Len(runs)
    BY <1>3
  <2>1. Shows(Append(runs, r), Len(runs), data[o], o)
    BY <1>3, <2>0, ShowsAppend, Zenon
  <2>2. Append(runs, r)[Len(runs) + 1] = r /\ Len(Append(runs, r)) = Len(runs) + 1
    BY <1>3
  <2> DEFINE s == Append(runs, r)
             n == Len(runs)
  <2> HIDE DEF s, n
  <2>3. Shows(s, n + 1, IF Covers(s[n + 1], o) THEN RunByte(s[n + 1], o)
                                               ELSE data[o], o)
    BY <2>1, <1>3, ShowsNext DEF s, n
  <2>4. s[n + 1] = r /\ Len(s) = n + 1 /\ runs' = s
    BY <2>2, <1>4 DEF s, n
  <2> QED BY <2>3, <2>4, <1>4
<1>5. CASE DataDescriptor
  <2> DEFINE bytes == Current.sectors[sector + 1]
             r == [start |-> D.off, bytes |-> bytes]
  <2>1. CASE sector < Len(Current.sectors)
    <3>1. Len(bytes) = SectorLen
      <4>1. bytes \in Sector
        BY <1>1, <2>1 DEF EntryType, TypeOK
      <4>2. bytes \in [1 .. SectorLen -> Byte]
        BY <4>1 DEF Sector
      <4> QED BY <4>2, <1>2, FunctionIsSeq
    <3>2. /\ Covers(r, o) <=> o \in D.off .. D.off + SectorLen - 1
          /\ RunByte(r, o) = bytes[o - D.off + 1]
      BY <3>1 DEF Covers, RunByte
    <3>3. runs' = Append(runs, r)
      BY <1>5, <2>1 DEF DataDescriptor
    <3>4. CASE D.off + SectorLen <= ContainerLen
      <4>1. data'[o] = IF Covers(r, o) THEN RunByte(r, o) ELSE data[o]
        BY <1>5, <2>1, <3>2, <3>4 DEF DataDescriptor, FitsWhole
      <4> HIDE DEF r
      <4> QED BY <1>4, <3>3, <4>1
    <3>5. CASE ~(D.off + SectorLen <= ContainerLen)
      <4>1. D.kind = "desc"
        BY <1>5 DEF DataDescriptor, AtDescriptor
      <4>2. D.off >= ContainerLen
        BY <1>1, <3>5, <4>1 DEF WellPlaced, D
      <4>3. ~Covers(r, o)
        BY <3>2, <4>2, <1>2 DEF Cell
      <4>4. data'[o] = data[o]
        BY <1>5, <3>5 DEF DataDescriptor, FitsWhole
      <4> HIDE DEF r
      <4> QED BY <1>4, <3>3, <4>3, <4>4
    <3> QED BY <3>4, <3>5
  <2>2. CASE ~(sector < Len(Current.sectors))
    BY <1>3, <1>5, <2>2 DEF DataDescriptor
  <2> QED BY <2>1, <2>2
<1>6. CASE ZeroDescriptor
  <2> DEFINE zeros == [i \in 1 .. D.len |-> ZeroByte]
             r == [start |-> D.off, bytes |-> zeros]
  <2>1. data'[o] = IF o \in D.off .. D.off + D.len - 1 THEN ZeroByte ELSE data[o]
    BY <1>6 DEF ZeroDescriptor
  <2>2. CASE D.len > 0
    <3>1. Len(zeros) = D.len
      <4>1. zeros \in [1 .. D.len -> Byte]
        OBVIOUS
      <4> HIDE DEF zeros
      <4> QED BY <1>2, <4>1, FunctionIsSeq
    <3>2. /\ Covers(r, o) <=> o \in D.off .. D.off + D.len - 1
          /\ Covers(r, o) => RunByte(r, o) = ZeroByte
      BY <1>2, <3>1 DEF Covers, RunByte
    <3>3. runs' = Append(runs, r)
      BY <1>6, <2>2 DEF ZeroDescriptor
    <3> HIDE DEF r
    <3> QED BY <1>4, <2>1, <3>2, <3>3
  <2>3. CASE ~(D.len > 0)
    BY <1>2, <1>3, <1>6, <2>1, <2>3 DEF ZeroDescriptor
  <2> QED BY <2>2, <2>3
<1> QED BY <1>5, <1>6

LEMMA AgreementStep == TypeOK /\ AgreementInv /\ [Next]_vars => AgreementInv'
<1> SUFFICES ASSUME TypeOK, AgreementInv, [Next]_vars PROVE AgreementInv'
  OBVIOUS
<1> USE LogAssumption DEF image, walk, replay, reading, answer
<1> USE DEF AgreementInv, SameBytes, ReadInProgress, AnswerShown
<1>1. ASSUME UNCHANGED <<log, entries>> PROVE EntriesPlaced'
  BY <1>1 DEF EntriesPlaced
<1>2. ASSUME \/ RefuseImage \/ OpenClean \/ StartWalk \/ SkipEntry \/ EndWalk
             \/ OtherDescriptor \/ FinishEntry \/ OverrunEntry \/ FinishReplay
             \/ UNCHANGED vars
      PROVE  AgreementInv'
  <2>1. /\ UNCHANGED <<log, entries, data, runs, at, buf, patched, replyAt, reply>>
        /\ pc' = "patch" => pc = "patch"
        /\ pc \in {"ready", "patch"} => pc' \in {"ready", "patch"}
    BY <1>2 DEF RefuseImage, OpenClean, StartWalk, SkipEntry, EndWalk, OtherDescriptor,
      AtDescriptor, FinishEntry, OverrunEntry, FinishReplay, GoOn, vars
  <2> QED BY <1>1, <2>1
<1>3. CASE CollectEntry
  <2>1. log[pos] \in Entry /\ pos \in 0 .. LogLen - 1
    BY <1>3 DEF CollectEntry, Framed, TypeOK, Log
  <2>2. EntriesPlaced'
    <3>1. SUFFICES ASSUME LogWellPlaced(log), NEW i \in DOMAIN entries'
                   PROVE  WellPlaced(entries'[i])
      BY <1>3 DEF EntriesPlaced, CollectEntry
    <3>2. entries' = InsertBySeq(entries, log[pos]) /\ entries \in Seq(Entry)
      BY <1>3 DEF CollectEntry, TypeOK
    <3>3. entries'[i] = log[pos] \/ \E j \in DOMAIN entries : entries'[i] = entries[j]
      BY <2>1, <3>2, InsertType
    <3>4. WellPlaced(log[pos])
      BY <2>1, <3>1 DEF LogWellPlaced
    <3> QED BY <3>1, <3>3, <3>4 DEF EntriesPlaced
  <2> QED BY <1>3, <2>2 DEF CollectEntry
<1>4. CASE DataDescriptor \/ ZeroDescriptor
  <2>1. /\ pc = "replay" /\ pc' \in {"replay", "panicked"}
        /\ UNCHANGED <<log, entries, reply, replyAt>>
    BY <1>4 DEF DataDescriptor, ZeroDescriptor, AtDescriptor, GoOn
  <2>2. SameBytes'
    BY <1>4, <2>1, DescriptorAgrees
  <2> QED BY <1>1, <2>1, <2>2
<1>5. ASSUME NEW off \in 0 .. ContainerLen, NEW n \in 1 .. MaxRead, StartRead(off, n)
      PROVE  AgreementInv'
  <2>1. \A k \in DOMAIN buf' : Shows(runs, 0, buf'[k], off + k)
    BY <1>5 DEF StartRead, Shows
  <2>2. Len(runs) \in Nat
    BY DEF TypeOK
  <2> QED BY <1>1, <1>5, <2>1, <2>2 DEF StartRead
<1>6. CASE PatchRun
  <2>1. patched \in Nat /\ Len(runs) \in Nat
    BY DEF TypeOK
  <2>2. \A k \in DOMAIN buf' : Shows(runs, patched + 1, buf'[k], at + k)
    <3> SUFFICES ASSUME NEW k \in DOMAIN buf
                 PROVE  Shows(runs, patched + 1, buf'[k], at + k)
      BY <1>6 DEF PatchRun
    <3>1. Shows(runs, patched, buf[k], at + k)
      BY <1>6 DEF PatchRun
    <3>2. buf'[k] = IF Covers(runs[patched + 1], at + k)
                    THEN RunByte(runs[patched + 1], at + k) ELSE buf[k]
      BY <1>6 DEF PatchRun
    <3> QED BY <2>1, <3>1, <3>2, ShowsNext
  <2> QED BY <1>1, <1>6, <2>1, <2>2 DEF PatchRun
<1>7. CASE FinishRead
  BY <1>1, <1>7 DEF FinishRead
<1> QED
  BY <1>2, <1>3, <1>4, <1>5, <1>6, <1>7 DEF Next, OpenNext

\* For every container and every log whose data sectors lie inside it, the buffer
\* of the in-RAM path and the overlay of the bounded path describe the same bytes
\* after each descriptor.
THEOREM PathsAlwaysAgree == Spec => []PathsAgree
<1>1. TypeOK /\ AgreementInv => PathsAgree
  BY DEF AgreementInv, SameBytes, PathsAgree
<1> QED
  BY <1>1, TypeCorrect, AgreementInit, AgreementStep, PTL DEF Spec

\* A read of any length at any offset returns the bytes the in-RAM path holds.
THEOREM ReadsAlwaysAgree == Spec => []ReadsAgree
<1>1. TypeOK /\ AgreementInv => ReadsAgree
  <2> SUFFICES ASSUME TypeOK, AgreementInv, LogWellPlaced(log), NEW k \in DOMAIN reply
               PROVE  reply[k] = data[replyAt + k]
    BY DEF ReadsAgree
  <2>1. Shows(runs, Len(runs), reply[k], replyAt + k)
    BY DEF AgreementInv, AnswerShown
  <2>2. Shows(runs, Len(runs), data[replyAt + k], replyAt + k)
    BY DEF AgreementInv, SameBytes, TypeOK
  <2>3. Len(runs) \in Nat
    BY DEF TypeOK
  <2> QED BY <2>1, <2>2, <2>3, ShowsUnique
<1> QED
  BY <1>1, TypeCorrect, AgreementInit, AgreementStep, PTL DEF Spec

-----------------------------------------------------------------------------
(* The walk visits the slots that the reference names                      *)

Closed(S) == 0 \in S /\ \A q \in S : Framed(log, q) => q + log[q].len \in S

LEMMA VisitedIs ==
    ASSUME TypeOK
    PROVE  /\ Visited(log) \subseteq 0 .. LogLen /\ 0 \in Visited(log)
           /\ \A q \in Visited(log) : Framed(log, q) =>
                 /\ log[q] \in Entry /\ log[q].len \in Nat \ {0}
                 /\ q + log[q].len \in Visited(log)
           /\ \A S : S \subseteq 0 .. LogLen /\ Closed(S) => Visited(log) \subseteq S
<1>1. LogLen \in Nat
  BY LogAssumption
<1>2. Visited(log) \subseteq 0 .. LogLen /\ 0 \in Visited(log)
  BY <1>1 DEF Visited
<1>3. ASSUME NEW q \in Visited(log), Framed(log, q)
      PROVE  /\ log[q] \in Entry /\ log[q].len \in Nat \ {0}
             /\ q + log[q].len \in Visited(log)
  <2>1. q \in 0 .. LogLen - 1
    BY <1>1, <1>2, <1>3 DEF Framed
  <2>2. log[q] \in Entry
    BY <1>3, <2>1 DEF TypeOK, Log, Framed
  <2>3. log[q].len \in Nat \ {0}
    BY <1>3, <2>2, LogAssumption DEF EntryType, Framed
  <2>4. q + log[q].len \in 0 .. LogLen
    BY <1>1, <1>3, <2>1, <2>3 DEF Framed
  <2> QED BY <1>3, <2>2, <2>3, <2>4 DEF Visited
<1>4. ASSUME NEW S, S \subseteq 0 .. LogLen, Closed(S)
      PROVE  Visited(log) \subseteq S
  BY <1>4 DEF Visited, Closed
<1> QED BY <1>2, <1>3, <1>4

\* Behind a walk the visited slots start framed entries that end where it is, or before.
Passed(p) ==
    /\ p \in Visited(log)
    /\ \A q \in Visited(log) : q < p => Framed(log, q) /\ q + log[q].len <= p

LEMMA PassedNext ==
    ASSUME TypeOK, NEW p, Passed(p), Framed(log, p)
    PROVE  /\ Passed(p + log[p].len)
           /\ \A q \in Visited(log) : q < p + log[p].len <=> q < p \/ q = p
<1> DEFINE n == p + log[p].len
           S == {q \in Visited(log) : q <= p \/ q >= n}
<1>1. /\ Visited(log) \subseteq 0 .. LogLen /\ p \in 0 .. LogLen /\ LogLen \in Nat
      /\ n \in Visited(log) /\ log[p].len \in Nat \ {0}
  BY VisitedIs, LogAssumption DEF Passed
<1>2. n > p
  BY <1>1
<1> HIDE DEF n
<1>3. Closed(S)
  <2>1. 0 \in S
    BY <1>1, VisitedIs
  <2>2. ASSUME NEW q \in S, Framed(log, q)
        PROVE  q + log[q].len \in S
    <3>1. q + log[q].len \in Visited(log) /\ log[q].len \in Nat /\ q \in Nat
      BY <1>1, <2>2, VisitedIs
    <3>2. CASE q < p
      BY <3>1, <3>2 DEF Passed
    <3>3. CASE q = p
      BY <1>1, <1>2, <3>1, <3>3 DEF n
    <3>4. CASE q >= n
      <4>1. q + log[q].len >= n
        BY <1>1, <3>1, <3>4
      <4> QED BY <3>1, <4>1
    <3> QED BY <1>1, <2>2, <3>1, <3>2, <3>3, <3>4
  <2> QED BY <2>1, <2>2 DEF Closed
<1>4. Visited(log) \subseteq S
  <2>1. S \subseteq 0 .. LogLen
    BY <1>1
  <2> HIDE DEF S
  <2> QED BY <1>3, <2>1, VisitedIs
<1>5. \A q \in Visited(log) : q < n <=> q < p \/ q = p
  BY <1>1, <1>2, <1>4
<1>6. \A q \in Visited(log) : q < n => Framed(log, q) /\ q + log[q].len <= n
  <2> SUFFICES ASSUME NEW q \in Visited(log), q < n
               PROVE  Framed(log, q) /\ q + log[q].len <= n
    OBVIOUS
  <2>1. CASE q = p
    BY <1>1, <2>1 DEF n
  <2>2. CASE q < p
    <3>1. Framed(log, q) /\ q + log[q].len <= p
      BY <2>2 DEF Passed
    <3>2. q \in Nat /\ log[q].len \in Nat /\ n \in Nat
      BY <1>1, <3>1, VisitedIs
    <3> QED BY <1>1, <1>2, <3>1, <3>2
  <2> QED BY <1>5, <2>1, <2>2
<1>7. Passed(n)
  BY <1>1, <1>6 DEF Passed
<1> QED BY <1>5, <1>7 DEF n

\* Where no entry is framed, nothing is visited further on.
LEMMA PassedAll ==
    ASSUME TypeOK, NEW p, Passed(p), ~Framed(log, p)
    PROVE  \A q \in Visited(log) : q <= p
<1> DEFINE S == {q \in Visited(log) : q <= p}
<1>1. Visited(log) \subseteq 0 .. LogLen /\ 0 \in Visited(log) /\ LogLen \in Nat
      /\ p \in 0 .. LogLen
  BY VisitedIs, LogAssumption DEF Passed
<1>2. Closed(S)
  <2>1. 0 \in S
    BY <1>1
  <2>2. ASSUME NEW q \in S, Framed(log, q)
        PROVE  q + log[q].len \in S
    <3>1. q < p
      BY <1>1, <2>2
    <3> QED BY <2>2, <3>1, VisitedIs DEF Passed
  <2> QED BY <2>1, <2>2 DEF Closed
<1>3. S \subseteq 0 .. LogLen
  BY <1>1
<1> HIDE DEF S
<1>4. Visited(log) \subseteq S
  BY <1>2, <1>3, VisitedIs
<1> QED BY <1>4 DEF S

LEMMA WalkOn ==
    ASSUME TypeOK, Passed(pos), Framed(log, pos), UNCHANGED log, pos' = pos + log[pos].len
    PROVE  /\ Passed(pos)'
           /\ \A q \in Visited(log) : q < pos' <=> q < pos \/ q = pos
<1>1. PICK n : n = pos'
  OBVIOUS
<1>2. Passed(n) /\ \A q \in Visited(log) : q < n <=> q < pos \/ q = pos
  BY <1>1, PassedNext
<1> QED BY <1>1, <1>2 DEF Passed

-----------------------------------------------------------------------------
(* The entries are the committed ones, in the order of their writes        *)

\* The numbers up to x come first in a list sorted by sequence number.
LEMMA NumbersBelow ==
    ASSUME NEW s \in Seq(Entry), NEW x \in Nat,
           \A i \in 1 .. Len(s) : s[i].seq \in Nat,
           \A i, j \in 1 .. Len(s) : i < j => s[i].seq <= s[j].seq
    PROVE  LET k == Cardinality({i \in DOMAIN s : s[i].seq <= x})
           IN  k \in 0 .. Len(s) /\ \A i \in 1 .. Len(s) : s[i].seq <= x <=> i <= k
<1> DEFINE n == Len(s)
           K == {i \in DOMAIN s : s[i].seq <= x}
           T == {i \in 1 .. n + 1 : i = n + 1 \/ s[i].seq > x}
<1>1. n \in Nat /\ DOMAIN s = 1 .. n
  OBVIOUS
<1>2. T \subseteq Nat /\ T # {}
  BY <1>1
<1>3. PICK m \in T : \A i \in T : m <= i
  <2> HIDE DEF T
  <2> QED BY <1>2, LeastNatural
<1>4. \A i \in 1 .. n : s[i].seq <= x <=> i <= m - 1
  <2> SUFFICES ASSUME NEW i \in 1 .. n PROVE s[i].seq <= x <=> i <= m - 1
    OBVIOUS
  <2>1. m \in Nat
    BY <1>2
  <2>2. ASSUME i <= m - 1 PROVE s[i].seq <= x
    <3>1. i \notin T
      BY <1>1, <1>3, <2>1, <2>2
    <3> QED BY <1>1, <3>1
  <2>3. ASSUME m <= i PROVE ~(s[i].seq <= x)
    <3>1. m \in 1 .. n /\ s[m].seq > x
      BY <1>1, <2>1, <2>3
    <3>2. s[m].seq <= s[i].seq
      BY <1>1, <2>1, <2>3, <3>1
    <3> QED BY <1>1, <3>1, <3>2
  <2> QED BY <1>1, <2>1, <2>2, <2>3
<1>5. m - 1 \in 0 .. n
  BY <1>1, <1>3
<1>6. K = 1 .. m - 1
  BY <1>1, <1>4, <1>5
<1>7. Cardinality(K) = m - 1
  <2> DEFINE c == m - 1
  <2>1. c \in Nat /\ K = 1 .. c
    BY <1>1, <1>5, <1>6
  <2> HIDE DEF c, K
  <2>2. Cardinality(1 .. c) = c
    BY <2>1, FS_Interval, 1 \in Int
  <2> QED BY <2>1, <2>2 DEF c
<1> QED BY <1>4, <1>5, <1>7

\* p's writes take effect before q's.
Before(p, q) == log[p].seq < log[q].seq \/ (log[p].seq = log[q].seq /\ p < q)

\* w has the slots of the entries collected so far, in the order of their writes.
Places(w) ==
    /\ w \in Seq(0 .. LogLen - 1) /\ Len(w) = Len(entries)
    /\ \A i \in 1 .. Len(w) : entries[i] = log[w[i]]
    /\ \A i, j \in 1 .. Len(w) : i < j => Before(w[i], w[j])
    /\ \A p : (\E i \in 1 .. Len(w) : p = w[i]) <=> p \in Committed(header, log) /\ p < pos

LEMMA PlacesAre ==
    ASSUME TypeOK, NEW w, Places(w)
    PROVE  /\ Len(w) \in Nat
           /\ \A i \in 1 .. Len(w) : /\ w[i] \in 0 .. LogLen - 1 /\ w[i] < pos
                                     /\ log[w[i]] \in Entry /\ log[w[i]].seq \in Nat
<1>1. Len(w) \in Nat
  BY DEF Places
<1>2. ASSUME NEW i \in 1 .. Len(w)
      PROVE  /\ w[i] \in 0 .. LogLen - 1 /\ w[i] < pos
             /\ log[w[i]] \in Entry /\ log[w[i]].seq \in Nat
  <2>1. w[i] \in 0 .. LogLen - 1
    <3> DEFINE S == 0 .. LogLen - 1
    <3>1. w \in Seq(S)
      BY DEF Places
    <3> HIDE DEF S
    <3>2. w[i] \in S
      BY <3>1
    <3> QED BY <3>2 DEF S
  <2>2. w[i] \in Committed(header, log) /\ w[i] < pos
    BY DEF Places
  <2>3. Framed(log, w[i])
    BY <2>2 DEF Committed
  <2>4. log[w[i]] \in Entry
    BY <2>1, <2>3 DEF TypeOK, Log, Framed
  <2>5. log[w[i]].seq \in Nat
    BY <2>4, LogAssumption DEF EntryType
  <2> QED BY <2>1, <2>2, <2>4, <2>5
<1> QED BY <1>1, <1>2

LEMMA CollectPlaces ==
    ASSUME TypeOK, Passed(pos), CollectEntry, NEW w, Places(w)
    PROVE  \E z : Places(z)'
<1> DEFINE e == log[pos]
           n == Len(w)
           k == Cardinality({i \in DOMAIN entries : entries[i].seq <= e.seq})
<1>1. /\ entries' = PutAfter(entries, k, e) /\ pos' = pos + e.len
      /\ UNCHANGED <<header, log>> /\ Framed(log, pos) /\ Replayable(header, e)
  BY DEF CollectEntry, InsertBySeq, PutAfter, image
<1>2. /\ n \in Nat /\ n = Len(entries) /\ w \in Seq(0 .. LogLen - 1) /\ entries \in Seq(Entry)
      /\ \A i \in 1 .. n : /\ entries[i] = log[w[i]] /\ w[i] \in 0 .. LogLen - 1 /\ w[i] < pos
                           /\ entries[i].seq \in Nat
  <2>1. /\ n \in Nat /\ n = Len(entries) /\ w \in Seq(0 .. LogLen - 1) /\ entries \in Seq(Entry)
        /\ \A i \in 1 .. n : entries[i] = log[w[i]]
    BY DEF Places, TypeOK
  <2> QED BY <2>1, PlacesAre
<1>3. pos \in 0 .. LogLen - 1 /\ e \in Entry /\ e.seq \in Nat /\ LogLen \in Nat
  <2>1. pos \in 0 .. LogLen - 1 /\ LogLen \in Nat
    BY <1>1, LogAssumption DEF TypeOK, Framed
  <2>2. e \in Entry
    BY <1>1, <2>1 DEF TypeOK, Framed, Log
  <2> QED BY <2>1, <2>2, LogAssumption DEF EntryType
<1>4. k \in 0 .. n /\ \A i \in 1 .. n : entries[i].seq <= e.seq <=> i <= k
  <2> DEFINE x == e.seq
             s == entries
  <2>1. \A i, j \in 1 .. Len(s) : i < j => s[i].seq <= s[j].seq
    <3> SUFFICES ASSUME NEW i \in 1 .. n, NEW j \in 1 .. n, i < j
                 PROVE  entries[i].seq <= entries[j].seq
      BY <1>2
    <3>1. Before(w[i], w[j])
      BY DEF Places
    <3> QED BY <1>2, <3>1 DEF Before
  <2>2. /\ s \in Seq(Entry) /\ x \in Nat
        /\ \A i \in 1 .. Len(s) : s[i].seq \in Nat
    BY <1>2, <1>3
  <2> HIDE DEF x, s
  <2>3. LET c == Cardinality({i \in DOMAIN s : s[i].seq <= x})
        IN  c \in 0 .. Len(s) /\ \A i \in 1 .. Len(s) : s[i].seq <= x <=> i <= c
    BY <2>1, <2>2, NumbersBelow
  <2> QED BY <1>2, <2>3 DEF x, s
<1> HIDE DEF k, n
<1>5. /\ entries' \in Seq(Entry) /\ Len(entries') = n + 1
      /\ \A i \in 1 .. k : entries'[i] = entries[i]
      /\ entries'[k + 1] = e
      /\ \A i \in k + 1 .. n : entries'[i + 1] = entries[i]
  <2> DEFINE x == e
             s == entries
             t == entries'
  <2>1. s \in Seq(Entry) /\ x \in Entry /\ k \in 0 .. Len(s)
    BY <1>2, <1>3, <1>4
  <2>2. t = PutAfter(s, k, x)
    BY <1>1 DEF x, s, t
  <2> HIDE DEF x, s, t
  <2>3. Grown(t, s, k, x, Entry)
    BY <2>1, <2>2, PutAfterIs
  <2> QED BY <1>2, <2>3 DEF x, s, t, Grown
<1> PICK z : z = PutAfter(w, k, pos)
  OBVIOUS
<1>6. /\ z \in Seq(0 .. LogLen - 1) /\ Len(z) = n + 1
      /\ \A i \in 1 .. k : z[i] = w[i]
      /\ z[k + 1] = pos
      /\ \A i \in k + 1 .. n : z[i + 1] = w[i]
  <2> DEFINE S == 0 .. LogLen - 1
  <2>1. w \in Seq(S) /\ pos \in S /\ k \in 0 .. Len(w)
    BY <1>2, <1>3, <1>4 DEF n
  <2> HIDE DEF S
  <2>2. Grown(z, w, k, pos, S)
    BY <2>1, PutAfterIs
  <2> QED BY <2>2 DEF S, n, Grown
\* Each place of the longer list is the new entry's or one of the shorter list.
<1>7. \A i \in 1 .. n + 1 :
         \/ i \in 1 .. k /\ i \in 1 .. n /\ z[i] = w[i]
         \/ i = k + 1 /\ z[i] = pos
         \/ i > k + 1 /\ i - 1 \in 1 .. n /\ z[i] = w[i - 1]
  <2> SUFFICES ASSUME NEW i \in 1 .. n + 1
               PROVE  \/ i \in 1 .. k /\ i \in 1 .. n /\ z[i] = w[i]
                      \/ i = k + 1 /\ z[i] = pos
                      \/ i > k + 1 /\ i - 1 \in 1 .. n /\ z[i] = w[i - 1]
    OBVIOUS
  <2>1. CASE i <= k
    BY <1>2, <1>4, <1>6, <2>1
  <2>2. CASE i = k + 1
    BY <1>6, <2>2
  <2>3. CASE i > k + 1
    <3> DEFINE j == i - 1
    <3>1. j \in k + 1 .. n /\ j \in 1 .. n /\ i = j + 1
      BY <1>2, <1>4, <2>3
    <3> HIDE DEF j
    <3>2. z[i] = w[j]
      BY <1>6, <3>1
    <3> QED BY <2>3, <3>1, <3>2 DEF j
  <2> QED BY <1>2, <1>4, <2>1, <2>2, <2>3
<1>8. \A i \in 1 .. n + 1 : entries'[i] = log[z[i]]
  <2> SUFFICES ASSUME NEW i \in 1 .. n + 1 PROVE entries'[i] = log[z[i]]
    OBVIOUS
  <2>1. CASE i \in 1 .. k /\ i \in 1 .. n /\ z[i] = w[i]
    BY <1>2, <1>5, <2>1
  <2>2. CASE i = k + 1 /\ z[i] = pos
    BY <1>5, <2>2
  <2>3. CASE i > k + 1 /\ i - 1 \in 1 .. n /\ z[i] = w[i - 1]
    <3> DEFINE j == i - 1
    <3>1. j \in k + 1 .. n /\ j \in 1 .. n /\ i = j + 1 /\ z[i] = w[j]
      BY <1>2, <1>4, <2>3
    <3> HIDE DEF j
    <3> QED BY <1>2, <1>5, <3>1
  <2> QED BY <1>7, <2>1, <2>2, <2>3
<1>9. \A i, j \in 1 .. n + 1 : i < j => Before(z[i], z[j])
  <2> SUFFICES ASSUME NEW i \in 1 .. n + 1, NEW j \in 1 .. n + 1, i < j
               PROVE  Before(z[i], z[j])
    OBVIOUS
  <2>1. \A a, b \in 1 .. n : a < b => Before(w[a], w[b])
    BY DEF Places, n
  <2>2. \A a \in 1 .. k : a \in 1 .. n => Before(w[a], pos)
    <3> SUFFICES ASSUME NEW a \in 1 .. n, a <= k PROVE Before(w[a], pos)
      BY <1>4
    <3>1. entries[a].seq <= e.seq /\ entries[a] = log[w[a]] /\ w[a] < pos /\ entries[a].seq \in Nat
      BY <1>2, <1>4
    <3> HIDE DEF e
    <3> QED BY <1>3, <3>1 DEF Before, e
  <2>3. \A b \in 1 .. n : b > k => Before(pos, w[b])
    <3> SUFFICES ASSUME NEW b \in 1 .. n, b > k PROVE Before(pos, w[b])
      OBVIOUS
    <3>1. ~(entries[b].seq <= e.seq) /\ entries[b] = log[w[b]] /\ entries[b].seq \in Nat
      BY <1>2, <1>4
    <3> QED BY <1>3, <3>1 DEF Before
  <2>4. CASE j \in 1 .. k /\ j \in 1 .. n /\ z[j] = w[j]
    <3>1. i \in 1 .. k /\ i \in 1 .. n /\ z[i] = w[i]
      BY <1>2, <1>4, <1>6, <2>4
    <3> QED BY <2>1, <2>4, <3>1
  <2>5. CASE j = k + 1 /\ z[j] = pos
    <3>1. i \in 1 .. k /\ i \in 1 .. n /\ z[i] = w[i]
      BY <1>2, <1>4, <1>6, <2>5
    <3> QED BY <2>2, <2>5, <3>1
  <2>6. CASE j > k + 1 /\ j - 1 \in 1 .. n /\ z[j] = w[j - 1]
    <3>1. CASE i \in 1 .. k /\ i \in 1 .. n /\ z[i] = w[i]
      <4>1. i < j - 1
        BY <1>4, <2>6, <3>1
      <4> QED BY <2>1, <2>6, <3>1, <4>1
    <3>2. CASE i = k + 1 /\ z[i] = pos
      <4>1. j - 1 > k
        BY <1>4, <2>6
      <4> QED BY <2>3, <2>6, <3>2, <4>1
    <3>3. CASE i > k + 1 /\ i - 1 \in 1 .. n /\ z[i] = w[i - 1]
      <4>1. i - 1 < j - 1
        BY <2>6, <3>3
      <4> QED BY <2>1, <2>6, <3>3, <4>1
    <3> QED BY <1>7, <3>1, <3>2, <3>3
  <2> QED BY <1>7, <2>4, <2>5, <2>6
<1>10. \A p : (\E i \in 1 .. n + 1 : p = z[i]) <=> p = pos \/ \E i \in 1 .. n : p = w[i]
  <2>1. \A i \in 1 .. n + 1 : z[i] = pos \/ \E j \in 1 .. n : z[i] = w[j]
    BY <1>7
  <2>2. k + 1 \in 1 .. n + 1 /\ z[k + 1] = pos
    BY <1>2, <1>4, <1>6
  <2>3. ASSUME NEW j \in 1 .. n PROVE \E i \in 1 .. n + 1 : w[j] = z[i]
    <3>1. CASE j <= k
      <4>1. j \in 1 .. k /\ j \in 1 .. n + 1
        BY <1>2, <1>4, <3>1
      <4> QED BY <1>6, <4>1
    <3>2. CASE j > k
      <4>1. j \in k + 1 .. n /\ j + 1 \in 1 .. n + 1
        BY <1>2, <1>4, <3>2
      <4> QED BY <1>6, <4>1
    <3> QED BY <1>4, <3>1, <3>2
  <2> QED BY <2>1, <2>2, <2>3
<1>11. \A p : p = pos \/ (\E i \in 1 .. n : p = w[i])
          <=> p \in Committed(header, log) /\ p < pos'
  <2>1. \A p : (\E i \in 1 .. n : p = w[i]) <=> p \in Committed(header, log) /\ p < pos
    BY DEF Places, n
  <2>2. pos \in Committed(header, log)
    BY <1>1 DEF Passed, Committed
  <2>3. \A p \in Committed(header, log) : p < pos' <=> p < pos \/ p = pos
    BY <1>1, WalkOn DEF Committed
  <2> QED BY <2>1, <2>2, <2>3
<1>12. Places(z)'
  <2>1. \A i, j \in 1 .. Len(z) : i < j => Before(z[i], z[j])'
    BY <1>1, <1>6, <1>9 DEF Before
  <2>2. \A p : (\E i \in 1 .. Len(z) : p = z[i]) <=> p \in Committed(header', log') /\ p < pos'
    <3> DEFINE m == Len(z)
    <3>1. m = n + 1
      BY <1>6
    <3> HIDE DEF m
    <3>2. \A p : (\E i \in 1 .. m : p = z[i]) <=> p \in Committed(header, log) /\ p < pos'
      BY <1>10, <1>11, <3>1
    <3> QED BY <1>1, <3>2 DEF m
  <2>3. /\ z \in Seq(0 .. LogLen - 1) /\ Len(z) = Len(entries')
        /\ \A i \in 1 .. Len(z) : entries'[i] = log'[z[i]]
    BY <1>1, <1>5, <1>6, <1>8
  <2> QED BY <2>1, <2>2, <2>3 DEF Places
<1> QED BY <1>12

LEMMA SkipPlaces ==
    ASSUME TypeOK, Passed(pos), SkipEntry, NEW w, Places(w)
    PROVE  Places(w)'
<1>1. /\ UNCHANGED <<header, log, entries>> /\ pos' = pos + log[pos].len
      /\ Framed(log, pos) /\ ~Replayable(header, log[pos])
  BY DEF SkipEntry, image
<1>2. \A p \in Committed(header, log) : p < pos' <=> p < pos
  <2>1. pos \notin Committed(header, log)
    BY <1>1 DEF Committed
  <2>2. \A p \in Committed(header, log) : p < pos' <=> p < pos \/ p = pos
    BY <1>1, WalkOn DEF Committed
  <2> QED BY <2>1, <2>2
<1> QED BY <1>1, <1>2 DEF Places, Before

-----------------------------------------------------------------------------
(* The buffer holds the last write                                         *)

LEMMA SectorIndexIs ==
    ASSUME NEW e, NEW d \in Nat
    PROVE  /\ SectorIndex(e, 0) = 0 /\ SectorIndex(e, d) \in Nat
           /\ SectorIndex(e, d + 1)
                = SectorIndex(e, d) + (IF e.descs[d + 1].kind = "desc" THEN 1 ELSE 0)
<1> DEFINE K(n) == {i \in 1 .. n : e.descs[i].kind = "desc"}
<1>1. \A n \in Nat : IsFiniteSet(K(n))
  <2> SUFFICES ASSUME NEW n \in Nat PROVE IsFiniteSet(K(n))
    OBVIOUS
  <2>1. IsFiniteSet(1 .. n)
    BY FS_Interval, 1 \in Int
  <2> QED BY <2>1, FS_Subset
<1>2. Cardinality(K(0)) = 0
  <2>1. K(0) = {}
    OBVIOUS
  <2> QED BY <2>1, FS_EmptySet
<1>3. Cardinality(K(d)) \in Nat
  BY <1>1, FS_CardinalityType
<1>4. CASE e.descs[d + 1].kind = "desc"
  <2>1. K(d + 1) = K(d) \cup {d + 1} /\ d + 1 \notin K(d)
    BY <1>4
  <2>2. IsFiniteSet(K(d))
    BY <1>1
  <2> HIDE DEF K
  <2>3. Cardinality(K(d + 1)) = Cardinality(K(d)) + 1
    BY <2>1, <2>2, FS_AddElement
  <2> QED BY <1>2, <1>3, <1>4, <2>3 DEF SectorIndex, K
<1>5. CASE e.descs[d + 1].kind # "desc"
  <2>1. K(d + 1) = K(d)
    BY <1>5
  <2> HIDE DEF K
  <2>2. Cardinality(K(d + 1)) = Cardinality(K(d))
    BY <2>1
  <2> QED BY <1>2, <1>3, <1>5, <2>2 DEF SectorIndex, K
<1> QED BY <1>4, <1>5

\* A write is named by its entry's place among the entries and by its descriptor's in
\* the entry.
DoneWrites ==
    {x \in Nat \X Nat :
        /\ x[1] \in 1 .. Len(entries) /\ x[2] \in DOMAIN entries[x[1]].descs
        /\ x[1] < cur \/ (x[1] = cur /\ x[2] <= desc)}

Puts(x, o) == o \in Writes(entries[x[1]], x[2])
Precedes(x, y) == x[1] < y[1] \/ (x[1] = y[1] /\ x[2] < y[2])

\* The buffer has the byte of the last of these writes.
Held(o) ==
    \/ data[o] = Disk[o] /\ \A x \in DoneWrites : ~Puts(x, o)
    \/ \E x \in DoneWrites :
          /\ Puts(x, o) /\ data[o] = ByteOf(entries[x[1]], x[2], o)
          /\ \A y \in DoneWrites : Puts(y, o) => y = x \/ Precedes(y, x)

Replayed ==
    /\ cur \in 1 .. Len(entries) + 1
    /\ cur = Len(entries) + 1 => desc = 0
    /\ cur <= Len(entries) => desc <= Len(Current.descs) /\ sector = SectorIndex(Current, desc)
    /\ \A i \in 1 .. cur - 1 : ~entries[i].overrun
    /\ \A o \in Cell : Held(o)

LEMMA HeldNext ==
    ASSUME TypeOK, Replayed, cur <= Len(entries), desc < Len(Current.descs),
           entries' = entries, cur' = cur, desc' = desc + 1, NEW o \in Cell,
           data'[o] = IF o \in Writes(Current, desc + 1) THEN ByteOf(Current, desc + 1, o)
                      ELSE data[o]
    PROVE  Held(o)'
<1> PICK a : a = <<cur, desc + 1>>
  OBVIOUS
<1>1. /\ cur \in Nat /\ desc \in Nat /\ Len(entries) \in Nat /\ cur \in 1 .. Len(entries)
      /\ Current \in Entry /\ Current.descs \in Seq(Descriptor)
  <2>1. cur \in Nat /\ desc \in Nat /\ entries \in Seq(Entry) /\ cur >= 1
    BY DEF TypeOK
  <2>2. cur \in 1 .. Len(entries)
    BY <2>1
  <2>3. Current \in Entry
    BY <2>1, <2>2 DEF Current
  <2>4. Current.descs \in Seq(Descriptor)
    BY <2>3, LogAssumption DEF EntryType
  <2> QED BY <2>1, <2>2, <2>3, <2>4
<1>2. \A x : x \in DoneWrites' <=> x \in DoneWrites \/ x = a
  <2>1. desc + 1 \in DOMAIN entries[cur].descs
    BY <1>1 DEF Current
  <2>2. \A x \in Nat \X Nat :
          x[1] < cur \/ (x[1] = cur /\ x[2] <= desc + 1)
             <=> x[1] < cur \/ (x[1] = cur /\ x[2] <= desc) \/ x = a
    BY <1>1
  <2> QED BY <1>1, <2>1, <2>2 DEF DoneWrites
<1>3. \A x \in DoneWrites : Precedes(x, a)
  BY <1>1 DEF DoneWrites, Precedes
<1>4. \A x : Puts(x, o)' <=> Puts(x, o)
  BY DEF Puts
<1>5. Puts(a, o) <=> o \in Writes(Current, desc + 1)
  BY DEF Puts, Current
<1>6. Held(o)
  BY DEF Replayed
<1>7. CASE Puts(a, o)
  <2>1. data'[o] = ByteOf(entries'[a[1]], a[2], o)
    BY <1>5, <1>7 DEF Current
  <2>2. \A y \in DoneWrites' : Puts(y, o)' => y = a \/ Precedes(y, a)
    BY <1>2, <1>3
  <2>3. a \in DoneWrites' /\ Puts(a, o)'
    BY <1>2, <1>4, <1>7
  <2>4. \E x \in DoneWrites' :
          /\ Puts(x, o)' /\ data'[o] = ByteOf(entries'[x[1]], x[2], o)
          /\ \A y \in DoneWrites' : Puts(y, o)' => y = x \/ Precedes(y, x)
    BY <2>1, <2>2, <2>3
  <2> QED BY <2>4 DEF Held, Precedes, ByteOf
<1>8. CASE ~Puts(a, o)
  <2>1. data'[o] = data[o]
    BY <1>5, <1>8
  <2>2. \A x : x \in DoneWrites' /\ Puts(x, o)' <=> x \in DoneWrites /\ Puts(x, o)
    BY <1>2, <1>4, <1>8
  <2>3. CASE data[o] = Disk[o] /\ \A x \in DoneWrites : ~Puts(x, o)
    BY <2>1, <2>2, <2>3 DEF Held
  <2>4. CASE \E x \in DoneWrites :
                /\ Puts(x, o) /\ data[o] = ByteOf(entries[x[1]], x[2], o)
                /\ \A y \in DoneWrites : Puts(y, o) => y = x \/ Precedes(y, x)
    <3>1. PICK x \in DoneWrites :
                /\ Puts(x, o) /\ data[o] = ByteOf(entries[x[1]], x[2], o)
                /\ \A y \in DoneWrites : Puts(y, o) => y = x \/ Precedes(y, x)
      BY <2>4
    <3>2. /\ x \in DoneWrites' /\ Puts(x, o)' /\ data'[o] = ByteOf(entries'[x[1]], x[2], o)
          /\ \A y \in DoneWrites' : Puts(y, o)' => y = x \/ Precedes(y, x)
      BY <2>1, <2>2, <3>1
    <3> QED BY <3>2 DEF Held, Precedes, ByteOf
  <2> QED BY <1>6, <2>3, <2>4 DEF Held
<1> QED BY <1>7, <1>8

\* A descriptor writes the cells that the reference says.
LEMMA DescriptorWrites ==
    ASSUME TypeOK, Replayed, DataDescriptor \/ ZeroDescriptor \/ OtherDescriptor
    PROVE  /\ cur <= Len(entries) /\ desc < Len(Current.descs)
           /\ sector' = SectorIndex(Current, desc + 1)
           /\ \A o \in Cell :
                data'[o] = IF o \in Writes(Current, desc + 1)
                           THEN ByteOf(Current, desc + 1, o) ELSE data[o]
<1>1. cur <= Len(entries) /\ desc < Len(Current.descs) /\ pc = "replay"
  BY DEF DataDescriptor, ZeroDescriptor, OtherDescriptor, AtDescriptor
<1>2. /\ desc \in Nat /\ Current \in EntryType /\ D \in Descriptor
      /\ data \in [Cell -> Byte] /\ SectorLen \in Nat \ {0} /\ ContainerLen \in Nat
  <2>1. cur \in 1 .. Len(entries) /\ desc \in Nat /\ entries \in Seq(Entry)
    BY <1>1 DEF TypeOK
  <2>2. Current \in EntryType
    BY <2>1, LogAssumption DEF Current
  <2>3. Current.descs \in Seq(Descriptor)
    BY <2>2 DEF EntryType
  <2>4. D \in Descriptor
    BY <1>1, <2>1, <2>3 DEF D
  <2> QED BY <2>1, <2>2, <2>4, LogAssumption DEF TypeOK
<1>3. sector = SectorIndex(Current, desc) /\ sector \in Nat
  BY <1>1, <1>2, SectorIndexIs DEF Replayed
<1>4. SectorIndex(Current, desc + 1) = sector + (IF D.kind = "desc" THEN 1 ELSE 0)
  BY <1>2, <1>3, SectorIndexIs DEF D
<1>5. CASE DataDescriptor
  <2>1. D.kind = "desc" /\ sector' = sector + 1
    BY <1>5 DEF DataDescriptor, AtDescriptor
  <2>2. SectorIndex(Current, desc + 1) = sector + 1
    BY <1>4, <2>1
  <2>3. Current.sectors \in Seq(Sector)
    BY <1>2 DEF EntryType
  <2>4. HasSector(Current, desc + 1) <=> sector < Len(Current.sectors)
    BY <1>3, <2>2, <2>3 DEF HasSector
  <2>5. Writes(Current, desc + 1) =
          IF sector < Len(Current.sectors) /\ FitsWhole(D.off)
          THEN D.off .. D.off + SectorLen - 1 ELSE {}
    BY <2>1, <2>4 DEF Writes, D, FitsWhole
  <2>6. \A o \in Cell :
          ByteOf(Current, desc + 1, o) = Current.sectors[sector + 1][o - D.off + 1]
    BY <2>1, <2>2 DEF ByteOf, D
  <2> DEFINE bytes == Current.sectors[sector + 1]
             inside == sector < Len(Current.sectors) /\ FitsWhole(D.off)
  <2>7. data' = IF inside
                THEN [o \in Cell |-> IF o \in D.off .. D.off + SectorLen - 1
                                     THEN bytes[o - D.off + 1] ELSE data[o]]
                ELSE data
    BY <1>5 DEF DataDescriptor
  <2> HIDE DEF bytes, inside
  <2>8. \A o \in Cell : data'[o] = IF inside /\ o \in D.off .. D.off + SectorLen - 1
                                   THEN bytes[o - D.off + 1] ELSE data[o]
    BY <2>7
  <2> QED BY <1>1, <2>1, <2>2, <2>5, <2>6, <2>8 DEF bytes, inside
<1>6. CASE ZeroDescriptor
  <2>1. D.kind = "zero" /\ sector' = sector
    BY <1>6 DEF ZeroDescriptor, AtDescriptor
  <2>2. Writes(Current, desc + 1) = (D.off .. D.off + D.len - 1) \cap Cell
    BY <2>1 DEF Writes, D
  <2>3. \A o \in Cell : ByteOf(Current, desc + 1, o) = ZeroByte
    BY <2>1 DEF ByteOf, D
  <2>4. \A o \in Cell : data'[o] = IF o \in D.off .. D.off + D.len - 1 THEN ZeroByte ELSE data[o]
    BY <1>6 DEF ZeroDescriptor
  <2> QED BY <1>1, <1>3, <1>4, <2>1, <2>2, <2>3, <2>4
<1>7. CASE OtherDescriptor
  <2>1. D.kind = "other" /\ sector' = sector /\ data' = data
    BY <1>7 DEF OtherDescriptor, AtDescriptor
  <2>2. Writes(Current, desc + 1) = {}
    BY <2>1 DEF Writes, D
  <2> QED BY <1>1, <1>3, <1>4, <2>1, <2>2
<1> QED BY <1>5, <1>6, <1>7

LEMMA DescriptorReplayed ==
    ASSUME TypeOK, Replayed, DataDescriptor \/ ZeroDescriptor \/ OtherDescriptor
    PROVE  Replayed'
<1>1. UNCHANGED <<entries, cur>> /\ desc' = desc + 1
  BY DEF DataDescriptor, ZeroDescriptor, OtherDescriptor, walk
<1>2. /\ cur <= Len(entries) /\ desc < Len(Current.descs)
      /\ sector' = SectorIndex(Current, desc + 1)
      /\ \A o \in Cell :
           data'[o] = IF o \in Writes(Current, desc + 1)
                      THEN ByteOf(Current, desc + 1, o) ELSE data[o]
  BY DescriptorWrites
<1>3. \A o \in Cell : Held(o)'
  <2> SUFFICES ASSUME NEW o \in Cell PROVE Held(o)'
    OBVIOUS
  <2> QED BY <1>1, <1>2, HeldNext
<1>4. desc' \in Nat /\ desc' <= Len(Current.descs) /\ Current' = Current
      /\ Len(entries) \in Nat /\ cur \in Nat
  <2>1. cur \in 1 .. Len(entries) /\ desc \in Nat /\ entries \in Seq(Entry)
    BY <1>2 DEF TypeOK
  <2>2. Current.descs \in Seq(Descriptor)
    BY <2>1, LogAssumption DEF Current, EntryType
  <2> QED BY <1>1, <1>2, <2>1, <2>2 DEF Current
<1>5. sector' = SectorIndex(Current', desc')
  BY <1>1, <1>2, <1>4
<1>6. cur' # Len(entries') + 1
  BY <1>1, <1>2, <1>4
<1>7. cur' \in 1 .. Len(entries') + 1 /\ \A i \in 1 .. cur' - 1 : ~entries'[i].overrun
  BY <1>1 DEF Replayed
<1> QED BY <1>3, <1>4, <1>5, <1>6, <1>7 DEF Replayed

LEMMA EntryReplayed ==
    ASSUME TypeOK, Replayed, FinishEntry
    PROVE  Replayed'
<1>1. /\ UNCHANGED <<entries, data>> /\ cur' = cur + 1 /\ desc' = 0 /\ sector' = 0
      /\ cur <= Len(entries) /\ desc = Len(Current.descs) /\ ~Current.overrun
  BY DEF FinishEntry, walk
<1>2. Len(entries) \in Nat /\ cur \in 1 .. Len(entries) /\ entries \in Seq(Entry)
  BY <1>1 DEF TypeOK
<1>3. ASSUME NEW i \in 1 .. Len(entries) PROVE entries[i].descs \in Seq(Descriptor)
  <2>1. entries[i] \in EntryType
    BY <1>2, LogAssumption
  <2> QED BY <2>1 DEF EntryType
<1>4. DoneWrites' = DoneWrites
  <2>1. \A x \in Nat \X Nat : x[2] \in DOMAIN entries[x[1]].descs /\ x[1] \in 1 .. Len(entries) =>
          (x[1] < cur + 1 \/ (x[1] = cur + 1 /\ x[2] <= 0)
             <=> x[1] < cur \/ (x[1] = cur /\ x[2] <= desc))
    <3> SUFFICES ASSUME NEW i \in 1 .. Len(entries), NEW d \in DOMAIN entries[i].descs
                 PROVE  i < cur + 1 \/ (i = cur + 1 /\ d <= 0)
                          <=> i < cur \/ (i = cur /\ d <= desc)
      OBVIOUS
    <3>1. d \in 1 .. Len(entries[i].descs)
      BY <1>3
    <3>2. i = cur => d <= desc
      BY <1>1, <3>1 DEF Current
    <3> QED BY <1>2, <3>1, <3>2
  <2> QED BY <1>1, <2>1 DEF DoneWrites
<1>5. \A o \in Cell : Held(o)'
  BY <1>1, <1>4 DEF Replayed, Held, Puts, Precedes, ByteOf
<1>6. \A i \in 1 .. cur' - 1 : ~entries'[i].overrun
  <2>1. \A i \in 1 .. cur' - 1 : i \in 1 .. cur - 1 \/ i = cur
    BY <1>1, <1>2
  <2> QED BY <1>1, <2>1 DEF Replayed, Current
<1>7. cur' \in 1 .. Len(entries') + 1
  BY <1>1, <1>2
<1>8. cur' <= Len(entries') => desc' <= Len(Current'.descs) /\ sector' = SectorIndex(Current', desc')
  <2>1. SectorIndex(Current', 0) = 0
    BY SectorIndexIs, 0 \in Nat
  <2>2. cur' <= Len(entries') => 0 <= Len(Current'.descs)
    <3>1. Current' = entries[cur + 1]
      BY <1>1 DEF Current
    <3> QED BY <1>1, <1>2, <1>3, <3>1
  <2> QED BY <1>1, <2>1, <2>2
<1> QED BY <1>1, <1>5, <1>6, <1>7, <1>8 DEF Replayed

\* Before the replay there is no write.
LEMMA NoneReplayed ==
    ASSUME TypeOK, cur = 1, desc = 0, sector = 0
    PROVE  /\ DoneWrites = {}
           /\ Replayed <=> data = Disk
<1>1. DoneWrites = {}
  <2>1. \A x \in Nat \X Nat : ~(/\ x[1] \in 1 .. Len(entries)
                                /\ x[2] \in DOMAIN entries[x[1]].descs
                                /\ x[1] < cur \/ (x[1] = cur /\ x[2] <= desc))
    <3> SUFFICES ASSUME NEW i \in 1 .. Len(entries), NEW d \in DOMAIN entries[i].descs
                 PROVE  ~(i < cur \/ (i = cur /\ d <= desc))
      OBVIOUS
    <3>1. entries[i] \in EntryType
      BY LogAssumption DEF TypeOK
    <3>2. d \in Nat /\ d >= 1
      BY <3>1 DEF EntryType
    <3>3. i \in Nat /\ i >= 1
      BY DEF TypeOK
    <3> QED BY <3>2, <3>3
  <2> QED BY <2>1 DEF DoneWrites
<1>2. \A o \in Cell : Held(o) <=> data[o] = Disk[o]
  BY <1>1 DEF Held
<1>3. cur \in 1 .. Len(entries) + 1 /\ \A i \in 1 .. cur - 1 : ~entries[i].overrun
  BY DEF TypeOK
<1>4. cur <= Len(entries) => desc <= Len(Current.descs) /\ sector = SectorIndex(Current, desc)
  <2>1. SectorIndex(Current, 0) = 0
    BY SectorIndexIs, 0 \in Nat
  <2>2. cur <= Len(entries) => 0 <= Len(Current.descs)
    <3> SUFFICES ASSUME cur <= Len(entries) PROVE 0 <= Len(Current.descs)
      OBVIOUS
    <3>1. Current \in EntryType
      BY LogAssumption DEF TypeOK, Current
    <3> QED BY <3>1 DEF EntryType
  <2> QED BY <2>1, <2>2
<1>5. data = Disk <=> \A o \in Cell : data[o] = Disk[o]
  BY LogAssumption DEF TypeOK
<1> QED BY <1>1, <1>2, <1>3, <1>4, <1>5 DEF Replayed

-----------------------------------------------------------------------------
(* What the open has come to                                               *)

Control ==
    /\ pc = "header" => entries = <<>>
    /\ pc \in {"header", "walk"} => cur = 1 /\ desc = 0 /\ sector = 0
    /\ pc \in {"walk", "replay"} => header.valid /\ Dirty(header) /\ header.fits
    /\ pc \in {"ready", "patch"} =>
          header.valid /\ (Dirty(header) => header.fits) /\ cur = Len(entries) + 1
    /\ pc \in {"replay", "ready", "patch"} /\ Dirty(header) => ~Framed(log, pos)
    /\ ~Dirty(header) => entries = <<>>

CommitInv == Passed(pos) /\ (\E w : Places(w)) /\ Control /\ Replayed

LEMMA CommitInit == Init => CommitInv
<1> SUFFICES ASSUME Init PROVE CommitInv
  OBVIOUS
<1>1. /\ pc = "header" /\ pos = 0 /\ entries = <<>> /\ cur = 1 /\ desc = 0 /\ sector = 0
      /\ data = Disk
  BY DEF Init
<1>2. TypeOK
  BY LogAssumption DEF Init, TypeOK, Run, Path
<1>3. Passed(pos)
  BY <1>1, <1>2, VisitedIs DEF Passed
<1>4. Places(<<>>)
  <2>1. \A p \in Committed(header, log) : ~(p < pos)
    BY <1>1, <1>2, VisitedIs DEF Committed
  <2> QED BY <1>1, <2>1 DEF Places
<1>5. Replayed
  BY <1>1, <1>2, NoneReplayed
<1>6. Control
  BY <1>1 DEF Control
<1> QED BY <1>3, <1>4, <1>5, <1>6 DEF CommitInv

LEMMA CommitStep == TypeOK /\ TypeOK' /\ CommitInv /\ [Next]_vars => CommitInv'
<1> SUFFICES ASSUME TypeOK, TypeOK', CommitInv, [Next]_vars PROVE CommitInv'
  OBVIOUS
<1> USE DEF image, walk, replay, reading, answer
<1>1. ASSUME UNCHANGED <<header, log, pos, entries>>
      PROVE  Passed(pos)' /\ \E w : Places(w)'
  <2>1. Passed(pos)'
    BY <1>1 DEF CommitInv, Passed
  <2>2. PICK w : Places(w)
    BY DEF CommitInv
  <2>3. Places(w)'
    BY <1>1, <2>2 DEF Places, Before
  <2> QED BY <2>1, <2>3
<1>2. ASSUME UNCHANGED <<entries, cur, desc, sector, data>>
      PROVE  Replayed'
  <2>1. DoneWrites' = DoneWrites
    BY <1>2 DEF DoneWrites
  <2>2. \A o \in Cell : Held(o)'
    BY <1>2, <2>1 DEF CommitInv, Replayed, Held, Puts, Precedes, ByteOf
  <2>3. Current' = Current
    BY <1>2 DEF Current
  <2> QED BY <1>2, <2>2, <2>3 DEF CommitInv, Replayed
<1>3. ASSUME RefuseImage \/ OpenClean \/ StartWalk \/ EndWalk \/ OverrunEntry
             \/ FinishReplay \/ PatchRun \/ FinishRead \/ UNCHANGED vars
             \/ \E off \in 0 .. ContainerLen, n \in 1 .. MaxRead : StartRead(off, n)
      PROVE  CommitInv'
  <2>1. UNCHANGED <<header, log, pos, entries, cur, desc, sector, data>>
    BY <1>3 DEF RefuseImage, OpenClean, StartWalk, EndWalk, OverrunEntry, FinishReplay,
      PatchRun, FinishRead, vars, StartRead
  <2>2. Passed(pos)' /\ (\E w : Places(w)') /\ Replayed'
    BY <1>1, <1>2, <2>1
  <2>3. Control'
    <3>1. CASE pc' = "refused" \/ pc' = "panicked"
      BY <2>1, <3>1 DEF CommitInv, Control
    <3>2. CASE pc = "header" /\ pc' = "ready" /\ header.valid /\ ~Dirty(header)
      BY <2>1, <3>2 DEF CommitInv, Control
    <3>3. CASE pc = "header" /\ pc' = "walk" /\ header.valid /\ Dirty(header) /\ header.fits
      BY <2>1, <3>3 DEF CommitInv, Control
    <3>4. CASE pc = "walk" /\ pc' = "replay" /\ ~Framed(log, pos)
      BY <2>1, <3>4 DEF CommitInv, Control
    <3>5. CASE pc = "replay" /\ pc' = "ready" /\ cur > Len(entries)
      <4>1. cur' = Len(entries') + 1
        BY <2>1, <3>5 DEF CommitInv, Replayed, TypeOK
      <4> QED BY <2>1, <3>5, <4>1 DEF CommitInv, Control
    <3>6. CASE pc \in {"ready", "patch"} /\ pc' \in {"ready", "patch"}
      BY <2>1, <3>6 DEF CommitInv, Control
    <3>7. CASE pc' = pc
      BY <2>1, <3>7 DEF CommitInv, Control
    <3> QED BY <1>3, <3>1, <3>2, <3>3, <3>4, <3>5, <3>6, <3>7
          DEF RefuseImage, OpenClean, StartWalk, EndWalk, OverrunEntry, FinishReplay,
              PatchRun, FinishRead, vars, StartRead, GoOn
  <2> QED BY <2>2, <2>3 DEF CommitInv
<1>4. ASSUME CollectEntry \/ SkipEntry
      PROVE  CommitInv'
  <2>1. /\ UNCHANGED <<header, log, pc, cur, desc, sector, data>> /\ pc = "walk"
        /\ Framed(log, pos) /\ pos' = pos + log[pos].len
    BY <1>4 DEF CollectEntry, SkipEntry
  <2>2. Passed(pos)'
    BY <2>1, WalkOn DEF CommitInv
  <2>3. \E w : Places(w)'
    BY <1>4, CollectPlaces, SkipPlaces DEF CommitInv
  <2>4. cur = 1 /\ desc = 0 /\ sector = 0 /\ Dirty(header)
    BY <2>1 DEF CommitInv, Control
  <2>5. data = Disk
    BY <2>4, NoneReplayed DEF CommitInv
  <2>6. Replayed'
    <3>1. TypeOK' /\ cur' = 1 /\ desc' = 0 /\ sector' = 0 /\ data' = Disk
      BY <2>1, <2>4, <2>5
    <3>2. (TypeOK /\ cur = 1 /\ desc = 0 /\ sector = 0 /\ data = Disk => Replayed)'
      BY NoneReplayed, PTL
    <3> QED BY <3>1, <3>2
  <2>7. Control'
    BY <2>1 DEF CommitInv, Control
  <2> QED BY <2>2, <2>3, <2>6, <2>7 DEF CommitInv
<1>5. ASSUME DataDescriptor \/ ZeroDescriptor \/ OtherDescriptor \/ FinishEntry
      PROVE  CommitInv'
  <2>1. /\ UNCHANGED <<header, log, pos, entries>> /\ pc = "replay"
        /\ pc' \in {"replay", "panicked"}
    BY <1>5 DEF DataDescriptor, ZeroDescriptor, OtherDescriptor, FinishEntry, AtDescriptor, GoOn
  <2>2. Replayed'
    BY <1>5, DescriptorReplayed, EntryReplayed DEF CommitInv
  <2>3. Control'
    BY <2>1 DEF CommitInv, Control
  <2> QED BY <1>1, <2>1, <2>2, <2>3 DEF CommitInv
<1> QED BY <1>3, <1>4, <1>5 DEF Next, OpenNext

\* After the walk the slots of the entries are those of the committed entries.
LEMMA CollectedAll ==
    ASSUME TypeOK, CommitInv, ~Framed(log, pos), NEW w, Places(w)
    PROVE  \A p : p \in Committed(header, log) <=> \E i \in 1 .. Len(w) : p = w[i]
<1>1. \A p \in Visited(log) : p <= pos
  BY PassedAll DEF CommitInv
<1>2. \A p \in Committed(header, log) : p <= pos /\ p # pos /\ p \in Int
  BY <1>1, VisitedIs DEF Committed
<1>3. pos \in Int
  BY DEF TypeOK
<1>4. \A p \in Committed(header, log) : p < pos
  BY <1>2, <1>3
<1> QED BY <1>4 DEF Places

LEMMA BufferCommitted ==
    ASSUME TypeOK, CommitInv, pc \in {"ready", "patch"}, NEW o \in Cell
    PROVE  data[o] = CommittedByte(header, log, o)
<1> DEFINE covering == Covering(header, log, o)
           last == LastOf(log, covering)
<1>1. Held(o) /\ cur = Len(entries) + 1 /\ Len(entries) \in Nat
  BY DEF CommitInv, Replayed, Control, TypeOK
<1>2. CASE ~Dirty(header)
  <2>1. DoneWrites = {}
    BY <1>2 DEF CommitInv, Control, DoneWrites
  <2> QED BY <1>1, <1>2, <2>1 DEF Held, CommittedByte
<1>3. CASE Dirty(header)
  <2>1. PICK w : Places(w)
    BY DEF CommitInv
  <2>2. \A p : p \in Committed(header, log) <=> \E i \in 1 .. Len(w) : p = w[i]
    BY <1>3, <2>1, CollectedAll DEF CommitInv, Control
  <2>3. /\ Len(w) \in Nat /\ Len(w) = Len(entries)
        /\ \A i \in 1 .. Len(w) : /\ entries[i] = log[w[i]] /\ w[i] \in 0 .. LogLen - 1
                                  /\ log[w[i]] \in Entry /\ log[w[i]].seq \in Nat
        /\ \A i, j \in 1 .. Len(w) : i < j => Before(w[i], w[j])
    BY <2>1, PlacesAre DEF Places
  <2>4. \A i \in 1 .. Len(w) : DOMAIN log[w[i]].descs \subseteq Nat
    <3> SUFFICES ASSUME NEW i \in 1 .. Len(w) PROVE DOMAIN log[w[i]].descs \subseteq Nat
      OBVIOUS
    <3>1. log[w[i]] \in EntryType
      BY <2>3, LogAssumption
    <3>2. log[w[i]].descs \in Seq(Descriptor)
      BY <3>1 DEF EntryType
    <3> QED BY <3>2
  <2> DEFINE At(x) == <<w[x[1]], x[2]>>
  <2>5. \A x \in DoneWrites : /\ x[1] \in 1 .. Len(w) /\ x[2] \in DOMAIN log[w[x[1]]].descs
                              /\ x[2] \in Nat /\ x = <<x[1], x[2]>>
    BY <2>3, <2>4 DEF DoneWrites
  <2>6. \A x \in DoneWrites : Puts(x, o) => At(x) \in covering
    <3> SUFFICES ASSUME NEW x \in DoneWrites, Puts(x, o) PROVE At(x) \in covering
      OBVIOUS
    <3>1. w[x[1]] \in Committed(header, log)
      BY <2>2, <2>5
    <3>2. o \in Writes(log[w[x[1]]], x[2])
      BY <2>3, <2>5 DEF Puts
    <3> QED BY <2>5, <3>1, <3>2 DEF Covering
  <2>7. \A v \in covering : \E x \in DoneWrites : Puts(x, o) /\ v = At(x)
    <3> SUFFICES ASSUME NEW v \in covering PROVE \E x \in DoneWrites : Puts(x, o) /\ v = At(x)
      OBVIOUS
    <3>0. PICK p \in Committed(header, log) : v \in {<<p, d>> : d \in DOMAIN log[p].descs}
      BY DEF Covering
    <3>1. PICK d \in DOMAIN log[p].descs : v = <<p, d>>
      BY <3>0
    <3>2. PICK i \in 1 .. Len(w) : p = w[i]
      BY <2>2
    <3>3. d \in Nat /\ d \in DOMAIN entries[i].descs
      BY <2>3, <2>4, <3>1, <3>2
    <3>4. <<i, d>> \in DoneWrites
      BY <1>1, <2>3, <3>3 DEF DoneWrites
    <3>5. o \in Writes(log[p], d)
      BY <3>1 DEF Covering
    <3>6. Puts(<<i, d>>, o)
      BY <2>3, <3>2, <3>5 DEF Puts
    <3> QED BY <3>1, <3>2, <3>4, <3>6
  <2>8. \A x, y \in DoneWrites : Precedes(y, x) =>
           Later(log, At(x)[1], At(x)[2], At(y)[1], At(y)[2])
    <3> SUFFICES ASSUME NEW x \in DoneWrites, NEW y \in DoneWrites, Precedes(y, x)
                 PROVE  Later(log, w[x[1]], x[2], w[y[1]], y[2])
      OBVIOUS
    <3>1. CASE y[1] < x[1]
      <4>1. Before(w[y[1]], w[x[1]])
        BY <2>3, <2>5, <3>1
      <4>2. \A i \in {x[1], y[1]} : log[w[i]].seq \in Nat /\ w[i] \in Nat
        BY <2>3, <2>5
      <4> QED BY <4>1, <4>2 DEF Before, Later
    <3>2. CASE x[1] = y[1] /\ y[2] < x[2]
      BY <2>5, <3>2 DEF Later
    <3> QED BY <3>1, <3>2 DEF Precedes
  <2>9. \A v, u \in covering :
           Later(log, v[1], v[2], u[1], u[2]) => ~Later(log, u[1], u[2], v[1], v[2])
    <3> SUFFICES ASSUME NEW x \in DoneWrites, NEW y \in DoneWrites,
                        Later(log, w[x[1]], x[2], w[y[1]], y[2])
                 PROVE  ~Later(log, w[y[1]], y[2], w[x[1]], x[2])
      BY <2>7
    <3>1. \A z \in {x, y} : log[w[z[1]]].seq \in Nat /\ w[z[1]] \in Nat /\ z[2] \in Nat
      BY <2>3, <2>5
    <3> QED BY <3>1 DEF Later
  <2>10. CommittedByte(header, log, o) =
           IF covering = {} THEN Disk[o] ELSE ByteOf(log[last[1]], last[2], o)
    BY <1>3 DEF CommittedByte
  <2>11. CASE data[o] = Disk[o] /\ \A x \in DoneWrites : ~Puts(x, o)
    <3>1. covering = {}
      BY <2>7, <2>11
    <3> QED BY <2>10, <2>11, <3>1
  <2>12. ASSUME NEW x \in DoneWrites, Puts(x, o),
                data[o] = ByteOf(entries[x[1]], x[2], o),
                \A y \in DoneWrites : Puts(y, o) => y = x \/ Precedes(y, x)
         PROVE  data[o] = CommittedByte(header, log, o)
    <3> DEFINE v == At(x)
    <3>1. v \in covering
      BY <2>6, <2>12
    <3>2. \A u \in covering : v = u \/ Later(log, v[1], v[2], u[1], u[2])
      BY <2>7, <2>8, <2>12
    <3> HIDE DEF covering
    <3>3. /\ last \in covering
          /\ \A u \in covering : last = u \/ Later(log, last[1], last[2], u[1], u[2])
      BY <3>1, <3>2 DEF LastOf
    <3>4. last = v
      <4> HIDE DEF v, last
      <4>1. last = v \/ Later(log, last[1], last[2], v[1], v[2])
        BY <3>1, <3>3
      <4>2. v = last \/ Later(log, v[1], v[2], last[1], last[2])
        BY <3>2, <3>3
      <4> QED BY <2>9, <3>1, <3>3, <4>1, <4>2
    <3> HIDE DEF last
    <3>5. last[1] = w[x[1]] /\ last[2] = x[2]
      BY <3>4
    <3>6. CommittedByte(header, log, o) = ByteOf(log[w[x[1]]], x[2], o)
      BY <2>10, <3>1, <3>5
    <3> QED BY <2>3, <2>5, <2>12, <3>6
  <2> QED BY <1>1, <2>11, <2>12 DEF Held
<1> QED BY <1>2, <1>3

\* Whatever the log holds, an open image shows in its buffer the committed contents: the
\* last write by sequence number, place in the log and place in the entry, of the valid
\* entries that the walk can reach, and the disk elsewhere (log.rs:9-13, 122-158).
THEOREM BufferAlwaysCommitted == Spec => []BufferIsCommitted
<1>1. TypeOK /\ CommitInv => BufferIsCommitted
  BY BufferCommitted DEF BufferIsCommitted
<1> QED
  BY <1>1, TypeCorrect, CommitInit, CommitStep, PTL DEF Spec

-----------------------------------------------------------------------------
(* The bounded path implements CommittedImage                              *)

\* The instance's constants are the module's own, and so are its operators.
LEMMA SamePromise ==
    ASSUME NEW h, NEW l
    PROVE  /\ Promise!Opens(h, l) <=> Opens(h, l)
           /\ \A o : Promise!CommittedByte(h, l, o) = CommittedByte(h, l, o)
<1>1. Promise!Visited(l) = Visited(l)
  BY DEF Promise!Visited, Visited, Promise!Framed, Framed
<1>2. Promise!Committed(h, l) = Committed(h, l)
  BY <1>1 DEF Promise!Committed, Committed, Promise!Framed, Framed,
              Promise!Replayable, Replayable
<1>3. Promise!Dirty(h) <=> Dirty(h)
  BY DEF Promise!Dirty, Dirty
<1>10. \A e, d : Promise!SectorIndex(e, d) = SectorIndex(e, d)
  <2>1. \A S : Promise!Cardinality(S) = Cardinality(S)
    BY DEF Promise!Cardinality, Cardinality
  <2> QED BY <2>1 DEF Promise!SectorIndex, SectorIndex
<1>4. \A e, d : Promise!Writes(e, d) = Writes(e, d)
  BY <1>10 DEF Promise!Writes, Writes, Promise!HasSector, HasSector, Promise!Cell, Cell
<1>5. \A e, d, o : Promise!ByteOf(e, d, o) = ByteOf(e, d, o)
  BY <1>10 DEF Promise!ByteOf, ByteOf
<1>6. \A o : Promise!Covering(h, l, o) = Covering(h, l, o)
  BY <1>2, <1>4 DEF Promise!Covering, Covering
<1>7. \A writes : Promise!LastOf(l, writes) = LastOf(l, writes)
  BY DEF Promise!LastOf, LastOf, Promise!Later, Later
<1>8. \A o : Promise!CommittedByte(h, l, o) = CommittedByte(h, l, o)
  BY <1>3, <1>5, <1>6, <1>7 DEF Promise!CommittedByte, CommittedByte
<1>9. Promise!Opens(h, l) <=> Opens(h, l)
  BY <1>2, <1>3 DEF Promise!Opens, Opens, Promise!Unbounded, Unbounded
<1> QED BY <1>8, <1>9

Asked(n) == {j \in 0 .. n - 1 : at + j < ContainerLen}

\* The read in progress is of a range that a client may ask for.
ReadShape ==
    pc = "patch" =>
        /\ at \in 0 .. ContainerLen
        /\ \E n \in 1 .. MaxRead : buf = [k \in Asked(n) |-> buf[k]]

LEMMA ShapeStep == TypeOK /\ ReadShape /\ [Next]_vars => ReadShape'
<1> SUFFICES ASSUME TypeOK, ReadShape, [Next]_vars, pc' = "patch" PROVE ReadShape'
  BY DEF ReadShape
<1> USE DEF image, walk, replay, reading, answer
<1>1. ASSUME NEW off \in 0 .. ContainerLen, NEW n \in 1 .. MaxRead, StartRead(off, n)
      PROVE  ReadShape'
  <2>1. at' = off /\ buf' = [k \in {j \in 0 .. n - 1 : off + j < ContainerLen} |-> Disk[off + k]]
    BY <1>1 DEF StartRead
  <2>2. buf' = [k \in {j \in 0 .. n - 1 : at' + j < ContainerLen} |-> buf'[k]]
    BY <2>1
  <2> QED BY <2>1, <2>2 DEF ReadShape, Asked
<1>2. CASE PatchRun
  <2>1. pc = "patch" /\ at' = at /\ buf' = [k \in DOMAIN buf |-> buf'[k]]
    BY <1>2 DEF PatchRun
  <2>2. PICK n \in 1 .. MaxRead : buf = [k \in Asked(n) |-> buf[k]]
    BY <2>1 DEF ReadShape
  <2>3. buf' = [k \in Asked(n) |-> buf'[k]]
    <3>1. DOMAIN buf = Asked(n)
      BY <2>2
    <3> QED BY <2>1, <3>1
  <2>4. Asked(n)' = Asked(n)
    BY <2>1 DEF Asked
  <2> QED BY <2>1, <2>3, <2>4 DEF ReadShape
<1>3. CASE UNCHANGED vars
  BY <1>3 DEF ReadShape, Asked, vars
<1>4. CASE OpenNext \/ FinishRead
  BY <1>4 DEF OpenNext, RefuseImage, OpenClean, StartWalk, CollectEntry, SkipEntry, EndWalk,
    DataDescriptor, ZeroDescriptor, OtherDescriptor, AtDescriptor, FinishEntry, OverrunEntry,
    FinishReplay, FinishRead, GoOn
<1> QED BY <1>1, <1>2, <1>3, <1>4 DEF Next

\* The status a client sees.
Shown ==
    CASE pc = "refused" \/ "bounded" \notin live -> "refused"
      [] pc \in {"ready", "patch"} /\ "bounded" \in live -> "open"
      [] OTHER -> "closed"

\* The descriptors the replay is done with.
Handled(i, d) == i < cur \/ (i = cur /\ d <= desc)

\* A path that goes on has met nothing that stops it, and the bounded path does not go
\* on where the image does not open.
LiveInv ==
    /\ pc = "panicked" => live = {}
    /\ pc \in {"header", "walk", "refused"} => live = Path
    /\ pc = "patch" => "bounded" \in live
    /\ "bounded" \in live =>
          \A i \in DOMAIN entries : \A d \in DOMAIN entries[i].descs :
              Handled(i, d) => ~Unbounded(entries[i].descs[d])
    /\ "bounded" \notin live => ~Opens(header, log)

\* Whether the replay panics is decided by the log.
LEMMA OpenedAs ==
    ASSUME TypeOK, CommitInv, LiveInv
    PROVE  /\ RefuseImage => ~Opens(header, log)
           /\ OpenClean => Opens(header, log)
           /\ FinishReplay => (Opens(header, log) <=> "bounded" \in live)
           /\ OverrunEntry => ~Opens(header, log)
           /\ ZeroDescriptor /\ Unbounded(D) => ~Opens(header, log)
<1>1. RefuseImage => ~Opens(header, log)
  BY DEF RefuseImage, Opens
<1>2. OpenClean => Opens(header, log)
  BY DEF OpenClean, Opens
<1>3. PICK w : Places(w)
  BY DEF CommitInv
<1>4. ASSUME pc = "replay"
      PROVE  /\ header.valid /\ Dirty(header) /\ header.fits
             /\ \A p : p \in Committed(header, log) <=> \E i \in 1 .. Len(w) : p = w[i]
  <2>1. header.valid /\ Dirty(header) /\ header.fits /\ ~Framed(log, pos)
    BY <1>4 DEF CommitInv, Control
  <2> QED BY <1>3, <2>1, CollectedAll
<1>5. Len(w) = Len(entries) /\ \A i \in 1 .. Len(w) : entries[i] = log[w[i]]
  BY <1>3 DEF Places
<1>6. FinishReplay => (Opens(header, log) <=> "bounded" \in live)
  <2> SUFFICES ASSUME FinishReplay, "bounded" \in live PROVE Opens(header, log)
    BY DEF LiveInv
  <2>1. pc = "replay" /\ cur > Len(entries)
    BY DEF FinishReplay
  <2>2. \A i \in 1 .. Len(w) : i \in 1 .. cur - 1 /\ i < cur /\ i \in DOMAIN entries
    BY <1>5, <2>1 DEF TypeOK
  <2>3. \A i \in 1 .. Len(w) : ~log[w[i]].overrun
    BY <1>5, <2>2 DEF CommitInv, Replayed
  <2>4. \A i \in 1 .. Len(w) : \A d \in DOMAIN log[w[i]].descs : ~Unbounded(log[w[i]].descs[d])
    BY <1>5, <2>2 DEF LiveInv, Handled
  <2> QED BY <1>4, <2>1, <2>3, <2>4 DEF Opens
<1>7. OverrunEntry => ~Opens(header, log)
  <2> SUFFICES ASSUME OverrunEntry PROVE ~Opens(header, log)
    OBVIOUS
  <2>1. pc = "replay" /\ cur <= Len(entries) /\ entries[cur].overrun
    BY DEF OverrunEntry, Current
  <2>2. cur \in 1 .. Len(w)
    BY <1>5, <2>1 DEF TypeOK
  <2>3. w[cur] \in Committed(header, log) /\ log[w[cur]].overrun
    BY <1>4, <1>5, <2>1, <2>2
  <2> QED BY <1>4, <2>1, <2>3 DEF Opens
<1>8. ZeroDescriptor /\ Unbounded(D) => ~Opens(header, log)
  <2> SUFFICES ASSUME ZeroDescriptor, Unbounded(D) PROVE ~Opens(header, log)
    OBVIOUS
  <2>1. pc = "replay" /\ cur <= Len(entries) /\ desc < Len(entries[cur].descs)
        /\ D = entries[cur].descs[desc + 1]
    BY DEF ZeroDescriptor, AtDescriptor, Current, D
  <2>2. cur \in 1 .. Len(w) /\ entries[cur] \in Entry
    BY <1>5, <2>1 DEF TypeOK
  <2>3. desc + 1 \in DOMAIN entries[cur].descs
    <3>1. entries[cur].descs \in Seq(Descriptor)
      BY <2>2, LogAssumption DEF EntryType
    <3> QED BY <2>1, <3>1 DEF TypeOK
  <2>4. w[cur] \in Committed(header, log) /\ log[w[cur]] = entries[cur]
    BY <1>4, <1>5, <2>1, <2>2
  <2> QED BY <1>4, <2>1, <2>3, <2>4 DEF Opens
<1> QED BY <1>1, <1>2, <1>6, <1>7, <1>8

LEMMA LiveStep == TypeOK /\ CommitInv /\ LiveInv /\ [Next]_vars => LiveInv'
<1> SUFFICES ASSUME TypeOK, CommitInv, LiveInv, [Next]_vars PROVE LiveInv'
  OBVIOUS
<1> USE DEF image, walk, replay, reading, answer
<1>1. ASSUME UNCHANGED <<header, log>>, live' = live \/ "bounded" \in live'
      PROVE  "bounded" \notin live' => ~Opens(header, log)'
  <2>1. Opens(header, log)' = Opens(header, log)
    BY <1>1
  <2> QED BY <1>1, <2>1 DEF LiveInv
<1>2. CASE \/ RefuseImage \/ OpenClean \/ StartWalk \/ EndWalk \/ FinishReplay \/ PatchRun
           \/ FinishRead \/ UNCHANGED vars
           \/ \E off \in 0 .. ContainerLen, n \in 1 .. MaxRead : StartRead(off, n)
  <2>1. /\ UNCHANGED <<header, log, live, entries, cur, desc>>
        /\ \/ pc' = pc
           \/ pc = "header" /\ pc' \in {"refused", "ready", "walk"}
           \/ pc' \in {"replay", "ready"}
           \/ pc' = "patch" /\ "bounded" \in live
    BY <1>2 DEF RefuseImage, OpenClean, StartWalk, EndWalk, FinishReplay, PatchRun,
      FinishRead, vars, StartRead
  <2>2. \A i, d : Handled(i, d)' <=> Handled(i, d)
    BY <2>1 DEF Handled
  <2> QED BY <1>1, <2>1, <2>2 DEF LiveInv
<1>3. CASE CollectEntry \/ SkipEntry
  <2>1. UNCHANGED <<header, log, pc, live, cur, desc>> /\ pc = "walk"
    BY <1>3 DEF CollectEntry, SkipEntry
  <2>2. cur' = 1 /\ desc' = 0
    BY <2>1 DEF CommitInv, Control
  <2>3. \A i \in DOMAIN entries' : \A d \in DOMAIN entries'[i].descs : ~Handled(i, d)'
    <3>1. entries' \in Seq(Entry)
      <4>1. CASE CollectEntry
        <5>1. pos \in 0 .. LogLen - 1 /\ log[pos] # NoEntry
          BY <4>1, LogAssumption DEF CollectEntry, Framed, TypeOK
        <5>2. log[pos] \in Entry
          BY <5>1 DEF TypeOK, Log
        <5> QED BY <4>1, <5>2, InsertType DEF CollectEntry, TypeOK
      <4>2. CASE SkipEntry
        BY <4>2 DEF SkipEntry, TypeOK
      <4> QED BY <1>3, <4>1, <4>2
    <3>2. ASSUME NEW i \in DOMAIN entries', NEW d \in DOMAIN entries'[i].descs
          PROVE  i \in Nat \ {0} /\ d \in Nat \ {0}
      <4>1. i \in 1 .. Len(entries') /\ entries'[i] \in Entry
        BY <3>1
      <4>2. entries'[i].descs \in Seq(Descriptor)
        BY <4>1, LogAssumption DEF EntryType
      <4> QED BY <4>1, <4>2
    <3> QED BY <2>2, <3>2 DEF Handled
  <2> QED BY <1>1, <2>1, <2>3 DEF LiveInv
<1>4. CASE DataDescriptor \/ ZeroDescriptor \/ OtherDescriptor
  <2>1. /\ UNCHANGED <<header, log, entries, cur>> /\ pc = "replay" /\ desc' = desc + 1
        /\ cur \in Nat /\ desc \in Nat
    BY <1>4 DEF DataDescriptor, ZeroDescriptor, OtherDescriptor, AtDescriptor, TypeOK
  <2>2. /\ live' \subseteq live
        /\ pc' = "replay" \/ (pc' = "panicked" /\ live' = {})
        /\ "bounded" \in live /\ "bounded" \notin live' => ZeroDescriptor /\ Unbounded(D)
        /\ "bounded" \in live' => ~Unbounded(D)
    <3>1. CASE DataDescriptor
      <4>1. D.kind = "desc"
        BY <3>1 DEF DataDescriptor, AtDescriptor
      <4> QED BY <2>1, <3>1, <4>1 DEF DataDescriptor, GoOn, Path, Unbounded
    <3>2. CASE ZeroDescriptor
      BY <2>1, <3>2 DEF ZeroDescriptor, GoOn, Path
    <3>3. CASE OtherDescriptor
      BY <2>1, <3>3 DEF OtherDescriptor, AtDescriptor, Unbounded
    <3> QED BY <1>4, <3>1, <3>2, <3>3
  <2>3. ASSUME "bounded" \in live', NEW i \in DOMAIN entries, NEW d \in DOMAIN entries[i].descs,
               Handled(i, d)'
        PROVE  ~Unbounded(entries[i].descs[d])
    <3>1. entries[i] \in Entry /\ i \in Nat
      BY DEF TypeOK
    <3>2. entries[i].descs \in Seq(Descriptor)
      BY <3>1, LogAssumption DEF EntryType
    <3>3. d \in Nat
      BY <3>2
    <3>4. Handled(i, d) \/ (i = cur /\ d = desc + 1)
      BY <2>1, <2>3, <3>1, <3>3 DEF Handled
    <3>5. CASE Handled(i, d)
      BY <2>2, <2>3, <3>5 DEF LiveInv
    <3>6. CASE i = cur /\ d = desc + 1
      BY <2>2, <2>3, <3>6 DEF D, Current
    <3> QED BY <3>4, <3>5, <3>6
  <2>4. "bounded" \notin live' => ~Opens(header, log)'
    <3>1. Opens(header, log)' = Opens(header, log)
      BY <2>1
    <3> QED BY <2>2, <3>1, OpenedAs DEF LiveInv
  <2> QED BY <2>1, <2>2, <2>3, <2>4 DEF LiveInv
<1>5. CASE FinishEntry
  <2>1. /\ UNCHANGED <<header, log, entries, pc, live>> /\ pc = "replay"
        /\ desc = Len(entries[cur].descs) /\ cur' = cur + 1 /\ desc' = 0
        /\ cur \in Nat /\ desc \in Nat
    BY <1>5 DEF FinishEntry, Current, TypeOK
  <2>2. ASSUME NEW i \in DOMAIN entries, NEW d \in DOMAIN entries[i].descs, Handled(i, d)'
        PROVE  Handled(i, d)
    <3>1. entries[i] \in Entry /\ i \in Nat
      BY DEF TypeOK
    <3>2. entries[i].descs \in Seq(Descriptor)
      BY <3>1, LogAssumption DEF EntryType
    <3>3. d \in 1 .. Len(entries[i].descs) /\ Len(entries[i].descs) \in Nat
      BY <3>2
    <3> QED BY <2>1, <2>2, <3>1, <3>3 DEF Handled
  <2> QED BY <1>1, <2>1, <2>2 DEF LiveInv
<1>6. CASE OverrunEntry
  <2>1. live' = {} /\ pc' = "panicked" /\ UNCHANGED <<header, log>>
    BY <1>6 DEF OverrunEntry, GoOn
  <2>2. ~Opens(header, log)'
    BY <1>6, <2>1, OpenedAs
  <2> QED BY <2>1, <2>2 DEF LiveInv
<1> QED BY <1>2, <1>3, <1>4, <1>5, <1>6 DEF Next, OpenNext

\* What a read has when all the runs are over it.
LEMMA ReadCommitted ==
    ASSUME TypeOK, AgreementInv, CommitInv, LiveInv, ReadShape, LogWellPlaced(log), FinishRead
    PROVE  \E off \in 0 .. ContainerLen, n \in 1 .. MaxRead : Promise!ReadAt(off, n)
<1>1. /\ pc = "patch" /\ patched = Len(runs) /\ replyAt' = at /\ reply' = buf /\ pc' = "ready"
      /\ UNCHANGED <<header, log>> /\ "bounded" \in live
  BY DEF FinishRead, image, LiveInv
<1>0. LogWellPlaced(log)
  OBVIOUS
<1>2. at \in 0 .. ContainerLen
  BY <1>1 DEF ReadShape
<1>3. PICK n \in 1 .. MaxRead : buf = [k \in Asked(n) |-> buf[k]]
  BY <1>1 DEF ReadShape
<1>4. \A k \in Asked(n) : buf[k] = Promise!CommittedByte(header, log, at + k)
  <2> SUFFICES ASSUME NEW k \in Asked(n)
               PROVE  buf[k] = Promise!CommittedByte(header, log, at + k)
    OBVIOUS
  <2>1. k \in DOMAIN buf
    BY <1>3
  <2>2. at + k \in Cell
    BY <2>1 DEF TypeOK
  <2>3. Shows(runs, Len(runs), buf[k], at + k)
    BY <1>1, <2>1 DEF AgreementInv, ReadInProgress
  <2>4. Shows(runs, Len(runs), data[at + k], at + k)
    BY <1>0, <2>2 DEF AgreementInv, SameBytes
  <2>5. Len(runs) \in Nat
    BY DEF TypeOK
  <2>6. buf[k] = data[at + k]
    BY <2>3, <2>4, <2>5, ShowsUnique
  <2>7. data[at + k] = CommittedByte(header, log, at + k)
    BY <1>1, <2>2, BufferCommitted
  <2> QED BY <2>6, <2>7, SamePromise
<1>5. reply' = [k \in Asked(n) |-> Promise!CommittedByte(header, log, at + k)]
  BY <1>1, <1>3, <1>4
<1>6. Promise!ReadAt(at, n)
  <2>1. pc' = "ready" /\ live' = live
    BY DEF FinishRead, replay
  <2> QED BY <1>1, <1>5, <2>1 DEF Promise!ReadAt, Asked
<1> QED BY <1>2, <1>6

LEMMA ImplementsInit == Init => Promise!Init
BY DEF Init, Promise!Init, Promise!Log, Log, TypeOK, Path

\* The last step of an open is the step of CommittedImage, and so is the end of a
\* read; no other step is seen by a client.
LEMMA ImplementsStep ==
    ASSUME \A e \in Entry : WellPlaced(e),
           TypeOK, AgreementInv, CommitInv, LiveInv, LiveInv', ReadShape, [Next]_vars
    PROVE  [Promise!Next]_(Promise!vars)
<1> SUFFICES Promise!Next \/ UNCHANGED <<header, log, Shown, replyAt, reply>>
  BY DEF Promise!vars, Shown
<1> USE DEF image, walk, replay, reading, answer
<1>1. LogWellPlaced(log)
  BY DEF TypeOK, Log, LogWellPlaced
<1>0. ASSUME UNCHANGED <<header, log, replyAt, reply>>, Shown = "closed",
             Shown' = IF Opens(header, log) THEN "open" ELSE "refused"
      PROVE  Promise!Next
  <2>1. Promise!Opens(header, log) <=> Opens(header, log)
    BY SamePromise
  <2>2. Promise!Open
    BY <1>0, <2>1 DEF Promise!Open, Shown
  <2> QED BY <2>2 DEF Promise!Next
<1>2. CASE RefuseImage
  <2>1. UNCHANGED <<header, log, replyAt, reply>> /\ Shown = "closed" /\ Shown' = "refused"
    BY <1>2 DEF RefuseImage, Shown, LiveInv, Path
  <2> QED BY <1>0, <1>2, <2>1, OpenedAs
<1>3. CASE OpenClean
  <2>1. UNCHANGED <<header, log, replyAt, reply>> /\ Shown = "closed" /\ Shown' = "open"
    BY <1>3 DEF OpenClean, Shown, LiveInv, Path
  <2> QED BY <1>0, <1>3, <2>1, OpenedAs
<1>4. CASE FinishReplay
  <2>1. UNCHANGED <<header, log, live, replyAt, reply>> /\ pc = "replay" /\ pc' = "ready"
    BY <1>4 DEF FinishReplay
  <2>2. CASE "bounded" \in live
    <3>1. Shown = "closed" /\ Shown' = "open"
      BY <2>1, <2>2 DEF Shown
    <3> QED BY <1>0, <1>4, <2>1, <2>2, <3>1, OpenedAs
  <2>3. CASE "bounded" \notin live
    BY <2>1, <2>3 DEF Shown
  <2> QED BY <2>2, <2>3
<1>5. CASE \/ OverrunEntry \/ (ZeroDescriptor /\ Unbounded(D))
  <2>1. /\ UNCHANGED <<header, log, replyAt, reply>> /\ pc = "replay"
        /\ "bounded" \notin live'
    BY <1>5 DEF OverrunEntry, ZeroDescriptor, AtDescriptor, GoOn
  <2>2. Shown' = "refused"
    BY <2>1 DEF Shown
  <2>3. CASE "bounded" \in live
    <3>1. Shown = "closed"
      BY <2>1, <2>3 DEF Shown
    <3> QED BY <1>0, <1>5, <2>1, <2>2, <3>1, OpenedAs
  <2>4. CASE "bounded" \notin live
    <3>1. Shown = "refused"
      BY <2>4 DEF Shown
    <3> QED BY <2>1, <2>2, <3>1
  <2> QED BY <2>3, <2>4
<1>6. CASE FinishRead
  BY <1>1, <1>6, ReadCommitted DEF Promise!Next
<1>7. CASE DataDescriptor \/ (ZeroDescriptor /\ ~Unbounded(D))
  <2>1. /\ UNCHANGED <<header, log, replyAt, reply>> /\ pc = "replay"
        /\ pc' \in {"replay", "panicked"}
        /\ "bounded" \in live' <=> "bounded" \in live
    BY <1>7 DEF DataDescriptor, ZeroDescriptor, AtDescriptor, GoOn, Path
  <2>2. "bounded" \in live => pc' = "replay"
    BY <2>1 DEF LiveInv
  <2> QED BY <2>1, <2>2 DEF Shown
<1>8. CASE \/ StartWalk \/ CollectEntry \/ SkipEntry \/ EndWalk
           \/ OtherDescriptor \/ FinishEntry
           \/ PatchRun \/ (\E off \in 0 .. ContainerLen, n \in 1 .. MaxRead : StartRead(off, n))
           \/ UNCHANGED vars
  <2>1. /\ UNCHANGED <<header, log, live, replyAt, reply>>
        /\ \/ pc' = pc
           \/ pc \in {"header", "walk"} /\ pc' \in {"walk", "replay"}
           \/ pc = "ready" /\ pc' = "patch"
    BY <1>8 DEF StartWalk, CollectEntry, SkipEntry, EndWalk,
      OtherDescriptor, AtDescriptor, FinishEntry, PatchRun, StartRead, vars
  <2> QED BY <2>1 DEF Shown
<1> QED BY <1>2, <1>3, <1>4, <1>5, <1>6, <1>7, <1>8 DEF Next, OpenNext

\* Where no data sector is cut by the end of the container, the bounded path is an
\* implementation of CommittedImage: an image is refused or opened as its log says, and
\* each of its reads returns the committed bytes of the range asked for, whatever the
\* size of the log and of the read (log.rs:7-18, 65-67).
THEOREM BoundedPathImplements ==
    ASSUME \A e \in Entry : WellPlaced(e)
    PROVE  Spec => PromiseKept
<1>1. Init => ReadShape /\ LiveInv
  BY DEF Init, ReadShape, LiveInv, Path
<1>2. TypeOK /\ AgreementInv /\ CommitInv /\ LiveInv /\ LiveInv' /\ ReadShape /\ [Next]_vars
      => [Promise!Next]_(Promise!vars)
  BY ImplementsStep
<1> QED BY <1>1, <1>2, LiveStep, TypeCorrect, AgreementInit, AgreementStep, CommitInit, CommitStep,
           ShapeStep, ImplementsInit, PTL
        DEF Spec, PromiseKept, Promise!Spec

-----------------------------------------------------------------------------
(* The analyser's walk and the replay's                                    *)

LEMMA CommitInvAlways == Spec => []CommitInv
BY TypeCorrect, CommitInit, CommitStep, PTL DEF Spec

LEMMA AuditRefines == AuditSpec => Spec
<1>1. AuditInit => Init
  BY DEF AuditInit
<1>2. [AuditNext]_<<vars, audits>> => [Next]_vars
  BY DEF AuditNext, AuditStep, CheckHeaders, EndCheckLog, CheckBadEntry, CheckGoodEntry, vars,
         image, walk, replay, reading, answer
<1> QED BY <1>1, <1>2, PTL DEF AuditSpec, Spec

\* One more finding.
LEMMA FoundNext ==
    ASSUME NEW kind, NEW k, NEW p, found' = found \cup {<<k, p>>}
    PROVE  Found(kind)' = IF kind = k THEN Found(kind) \cup {p} ELSE Found(kind)
<1>1. \A x : x \in Found(kind) <=> \E f \in found : f[1] = kind /\ x = f[2]
  BY DEF Found
<1>2. \A x : x \in Found(kind)' <=> \E f \in found' : f[1] = kind /\ x = f[2]
  BY DEF Found
<1>3. <<k, p>>[1] = k /\ <<k, p>>[2] = p
  OBVIOUS
<1>4. \A f : f \in found' <=> f \in found \/ f = <<k, p>>
  OBVIOUS
<1>5. \A x : x \in Found(kind)' <=> x \in Found(kind) \/ (kind = k /\ x = p)
  <2> TAKE x
  <2>1. x \in Found(kind)' => x \in Found(kind) \/ (kind = k /\ x = p)
    BY <1>1, <1>2, <1>3, <1>4
  <2>2. x \in Found(kind) => x \in Found(kind)'
    <3>1. found \subseteq found'
      BY <1>4
    <3> QED BY <3>1 DEF Found
  <2>3. kind = k /\ x = p => x \in Found(kind)'
    <3>1. <<k, p>> \in found'
      BY <1>4
    <3> QED BY <1>2, <1>3, <3>1
  <2> QED BY <2>1, <2>2, <2>3
<1> QED BY <1>5

\* Behind p the entries with a finding are those that the replay skips.
Named(p) ==
    Found("crc") \cup Found("guid") = {q \in Walked : q < p /\ ~Replayable(header, log[q])}

\* Behind p, where nothing is found amiss, numbers rise from slot to slot up to prev.
Rising(p) ==
    Found("crc") \cup Found("gap") = {} /\ ~WrapsAround =>
        /\ prev = NoSeq => \A q \in Walked : ~(q < p)
        /\ prev # NoSeq => /\ \E q \in Walked : q < p /\ log[q].seq = prev
                           /\ \A q \in Walked : q < p => log[q].seq <= prev
        /\ \A q, r \in Walked : q < r /\ r < p => log[q].seq < log[r].seq

\* The analyser's findings at each point of its walk.
AuditInv ==
    /\ audit \in {"header", "log", "done"}
    /\ blank => \A p \in 0 .. LogLen - 1 : log[p] = NoEntry
    /\ audit = "header" => place = 0 /\ prev = NoSeq /\ found = {}
    /\ audit = "log" => tables /\ Scanned /\ Passed(place) /\ Named(place) /\ Rising(place)
    /\ audit = "done" => /\ Scanned /\ tables => Named(LogLen) /\ Rising(LogLen)
                         /\ ~tables => Found("tables") # {}
                         /\ ~header.valid => Found("both") # {}
                         /\ header.valid /\ ~header.empty /\ ~header.fits
                               => Found("beyond") # {}

\* Why an open stopped.
StoppedFor ==
    /\ pc = "refused" => ~header.valid \/ (Dirty(header) /\ ~header.fits)
    /\ pc = "panicked" => Scanned /\ ~Framed(log, pos)

LEMMA StoppedForStep == CommitInv /\ StoppedFor /\ [Next]_vars => StoppedFor'
<1> SUFFICES ASSUME CommitInv, StoppedFor, [Next]_vars PROVE StoppedFor'
  OBVIOUS
<1> USE DEF image, walk, replay, reading, answer
<1>1. CASE RefuseImage
  BY <1>1 DEF RefuseImage, StoppedFor
<1>2. CASE DataDescriptor \/ ZeroDescriptor \/ OverrunEntry
  <2>1. /\ UNCHANGED <<header, log, pos>> /\ pc = "replay"
        /\ pc' \in {"replay", "panicked"}
    BY <1>2 DEF DataDescriptor, ZeroDescriptor, OverrunEntry, AtDescriptor, GoOn
  <2> QED BY <2>1 DEF StoppedFor, CommitInv, Control, Scanned
<1>3. CASE CollectEntry \/ SkipEntry
  BY <1>3 DEF CollectEntry, SkipEntry, StoppedFor
<1>4. CASE UNCHANGED vars
  BY <1>4 DEF vars, StoppedFor, Scanned
<1>5. CASE \/ OpenClean \/ StartWalk \/ EndWalk
           \/ OtherDescriptor \/ FinishEntry \/ FinishReplay \/ PatchRun \/ FinishRead
           \/ \E off \in 0 .. ContainerLen, n \in 1 .. MaxRead : StartRead(off, n)
  <2>1. pc' \notin {"refused", "panicked"}
    BY <1>5 DEF OpenClean, StartWalk, EndWalk,
      OtherDescriptor, AtDescriptor, FinishEntry, FinishReplay, PatchRun, FinishRead, StartRead
  <2> QED BY <2>1 DEF StoppedFor
<1> QED BY <1>1, <1>2, <1>3, <1>4, <1>5 DEF Next, OpenNext

LEMMA WalkedIs ==
    ASSUME TypeOK
    PROVE  /\ Walked \subseteq Visited(log)
           /\ \A q \in Walked : /\ q \in 0 .. LogLen - 1 /\ log[q] \in Entry
                                /\ log[q].seq \in 0 .. MaxSeq
<1>1. LogLen \in Nat /\ MaxSeq \in Nat
  BY LogAssumption, AuditAssumption
<1>2. ASSUME NEW q \in Walked
      PROVE  q \in 0 .. LogLen - 1 /\ log[q] \in Entry /\ log[q].seq \in 0 .. MaxSeq
  <2>1. q \in Visited(log) /\ Framed(log, q)
    BY DEF Walked
  <2>2. q \in 0 .. LogLen - 1 /\ log[q] \in Entry
    BY <1>1, <2>1, VisitedIs DEF Framed
  <2>3. log[q].seq \in Nat
    BY <2>2, LogAssumption DEF EntryType
  <2> QED BY <2>2, <2>3, AuditAssumption
<1> QED BY <1>2 DEF Walked

\* At the end of the walk every entry is behind it.
LEMMA WalkEnds ==
    ASSUME TypeOK, Passed(place), ~Framed(log, place)
    PROVE  \A q \in Walked : q < place <=> q < LogLen
<1>1. \A q \in Visited(log) : q <= place
  BY PassedAll
<1>2. LogLen \in Nat /\ place \in 0 .. LogLen
  BY VisitedIs, LogAssumption DEF Passed
<1> QED BY <1>1, <1>2, WalkedIs DEF Walked

LEMMA AuditStart == AuditInit => AuditInv /\ StoppedFor
BY DEF AuditInit, Init, AuditInv, StoppedFor

\* The steps of an open change nothing the analyser's findings are about.
LEMMA AuditKept ==
    ASSUME AuditInv, UNCHANGED <<header, log, audits>>
    PROVE  AuditInv'
<1>1. UNCHANGED <<header, log, blank, tables, audit, place, prev, found>>
  BY DEF audits
<1>2. Named(place)' = Named(place) /\ Named(LogLen)' = Named(LogLen)
  BY <1>1 DEF Named, Found, Walked
<1>3. Rising(place)' = Rising(place) /\ Rising(LogLen)' = Rising(LogLen)
  BY <1>1 DEF Rising, Found, Walked, WrapsAround
<1> QED BY <1>1, <1>2, <1>3 DEF AuditInv, Scanned, Passed, Found

LEMMA CheckHeadersStep == ASSUME TypeOK, AuditInv, CheckHeaders PROVE AuditInv'
<1>1. /\ UNCHANGED <<header, log, blank, tables, place, prev>>
      /\ audit' = IF tables /\ Scanned /\ ~blank THEN "log" ELSE "done"
      /\ place = 0 /\ prev = NoSeq /\ found = {}
      /\ found' = HeaderFindings \cup IF ~tables THEN {<<"tables", 0>>}
                                      ELSE IF Scanned /\ blank THEN {<<"zeroed", 0>>} ELSE {}
  BY DEF CheckHeaders, AuditInv, vars, image
<1>2. \A f \in found' : f[1] \in {"both", "guidWithNoLog", "noGuid", "beyond", "dirty", "zeroed",
                              "tables"}
  BY <1>1 DEF HeaderFindings
<1>3. Found("crc")' = {} /\ Found("guid")' = {} /\ Found("gap")' = {}
  BY <1>2 DEF Found
<1>4. ~header.valid => Found("both")' # {}
  <2> SUFFICES ASSUME ~header.valid PROVE Found("both")' # {}
    OBVIOUS
  <2>1. <<"both", 0>> \in found'
    BY <1>1 DEF HeaderFindings
  <2> QED BY <2>1 DEF Found
<1>5. header.valid /\ ~header.empty /\ ~header.fits => Found("beyond")' # {}
  <2> SUFFICES ASSUME header.valid, ~header.empty, ~header.fits PROVE Found("beyond")' # {}
    OBVIOUS
  <2>1. <<"beyond", 0>> \in found'
    BY <1>1 DEF HeaderFindings
  <2> QED BY <2>1 DEF Found
<1>6. \A q \in Walked : q \in 0 .. LogLen - 1 /\ ~(q < 0)
  BY WalkedIs, LogAssumption
<1>7. Passed(0) /\ Named(0)' /\ Rising(0)'
  <2>1. Passed(0)
    BY <1>1, VisitedIs DEF Passed
  <2>2. Named(0)'
    BY <1>1, <1>3, <1>6 DEF Named, Walked
  <2>3. \A q \in Walked' : ~(q < 0)
    BY <1>1, <1>6 DEF Walked
  <2>4. Rising(0)'
    BY <1>1, <2>3 DEF Rising
  <2> QED BY <2>1, <2>2, <2>4
<1>8. Scanned' = Scanned
  BY <1>1 DEF Scanned
<1>9. ASSUME blank PROVE Named(LogLen)' /\ Rising(LogLen)'
  <2>1. Walked = {}
    BY <1>6, <1>9 DEF AuditInv, Walked, Framed
  <2>2. Walked' = {}
    BY <1>1, <2>1 DEF Walked
  <2> QED BY <1>1, <1>3, <2>2 DEF Named, Rising
<1>10. Passed(place)' /\ Named(place)' /\ Rising(place)'
  <2>1. Passed(place)'
    BY <1>1, <1>7 DEF Passed
  <2>2. Named(place)' /\ Rising(place)'
    BY <1>1, <1>7 DEF Named, Rising
  <2> QED BY <2>1, <2>2
<1>11. ~tables => Found("tables")' # {}
  <2> SUFFICES ASSUME ~tables PROVE Found("tables")' # {}
    OBVIOUS
  <2>1. <<"tables", 0>> \in found'
    BY <1>1
  <2> QED BY <2>1 DEF Found
<1> QED BY <1>1, <1>4, <1>5, <1>8, <1>9, <1>10, <1>11 DEF AuditInv

LEMMA EndCheckLogStep == ASSUME TypeOK, AuditInv, EndCheckLog PROVE AuditInv'
<1>1. /\ UNCHANGED <<header, log, blank, tables, place, prev>>
      /\ audit' = "done" /\ ~Framed(log, place)
      /\ tables /\ Scanned /\ Passed(place) /\ Named(place) /\ Rising(place)
      /\ \/ found' = found
         \/ found' = found \cup {<<"signature", place>>}
  BY DEF EndCheckLog, AuditInv, vars, image
<1>2. \A kind \in {"crc", "guid", "gap"} : Found(kind)' = Found(kind)
  <2> SUFFICES ASSUME NEW kind \in {"crc", "guid", "gap"} PROVE Found(kind)' = Found(kind)
    OBVIOUS
  <2>1. CASE found' = found
    BY <2>1 DEF Found
  <2>2. CASE found' = found \cup {<<"signature", place>>}
    BY <2>2, FoundNext
  <2> QED BY <1>1, <2>1, <2>2
<1>3. \A q \in Walked : q < place <=> q < LogLen
  BY <1>1, WalkEnds
<1>4. Walked' = Walked /\ WrapsAround' = WrapsAround
  BY <1>1 DEF Walked, WrapsAround
<1>5. Named(LogLen)'
  BY <1>1, <1>2, <1>3, <1>4 DEF Named
<1>6. Rising(LogLen)'
  BY <1>1, <1>2, <1>3, <1>4 DEF Rising
<1> QED BY <1>1, <1>5, <1>6 DEF AuditInv, Scanned

\* A step of the analyser's walk passes one entry.
LEMMA AuditPasses ==
    ASSUME TypeOK, AuditInv, audit = "log", Framed(log, place),
           UNCHANGED <<header, log>>, place' = place + log[place].len
    PROVE  /\ Passed(place)' /\ place \in Walked
           /\ Walked' = Walked /\ WrapsAround' = WrapsAround
           /\ \A q \in Walked : q < place' <=> q < place \/ q = place
<1>1. Passed(place)
  BY DEF AuditInv
<1>2. PICK n : n = place'
  OBVIOUS
<1>3. Passed(n) /\ \A q \in Visited(log) : q < n <=> q < place \/ q = place
  BY <1>1, <1>2, PassedNext
<1>4. Passed(place)'
  BY <1>2, <1>3 DEF Passed
<1>5. place \in Walked
  BY <1>1 DEF Passed, Walked
<1> QED BY <1>2, <1>3, <1>4, <1>5 DEF Walked, WrapsAround

LEMMA CheckBadEntryStep == ASSUME TypeOK, AuditInv, CheckBadEntry PROVE AuditInv'
<1>1. /\ UNCHANGED <<header, log, blank, tables, audit, prev>> /\ audit = "log"
      /\ Framed(log, place) /\ ~log[place].crc
      /\ tables /\ Scanned /\ Named(place)
      /\ found' = found \cup {<<"crc", place>>} /\ place' = place + log[place].len
  BY DEF CheckBadEntry, AuditInv, vars, image
<1>2. /\ Passed(place)' /\ place \in Walked /\ Walked' = Walked
      /\ \A q \in Walked : q < place' <=> q < place \/ q = place
  BY <1>1, AuditPasses
<1>3. Found("crc")' = Found("crc") \cup {place} /\ Found("guid")' = Found("guid")
  BY <1>1, FoundNext
<1>4. Named(place)'
  <2>1. ~Replayable(header, log[place])
    BY <1>1 DEF Replayable
  <2> QED BY <1>1, <1>2, <1>3, <2>1 DEF Named
<1>5. Rising(place)'
  BY <1>3 DEF Rising
<1> QED BY <1>1, <1>2, <1>4, <1>5 DEF AuditInv, Scanned

LEMMA CheckGoodEntryStep == ASSUME TypeOK, AuditInv, CheckGoodEntry PROVE AuditInv'
<1> DEFINE e == log[place]
           alien == e.guid # header.guid
           gap == prev # NoSeq /\ ~Follows(e.seq)
<1>1. /\ UNCHANGED <<header, log, blank, tables, audit>> /\ audit = "log"
      /\ Framed(log, place) /\ log[place].crc
      /\ tables /\ Scanned /\ Named(place) /\ Rising(place)
      /\ place' = place + log[place].len /\ prev' = e.seq
  BY DEF CheckGoodEntry, AuditInv, vars, image
<1>2. /\ Passed(place)' /\ place \in Walked
      /\ Walked' = Walked /\ WrapsAround' = WrapsAround
      /\ \A q \in Walked : q < place' <=> q < place \/ q = place
  BY <1>1, AuditPasses
<1>3. /\ Found("crc")' = Found("crc")
      /\ Found("guid")' = IF alien THEN Found("guid") \cup {place} ELSE Found("guid")
      /\ Found("gap")' = IF gap THEN Found("gap") \cup {place} ELSE Found("gap")
  <2>1. found' = found \cup (IF alien THEN {<<"guid", place>>} ELSE {})
                       \cup (IF gap THEN {<<"gap", place>>} ELSE {})
    BY DEF CheckGoodEntry
  <2> HIDE DEF alien, gap
  <2>2. \A f : f \in found' <=> \/ f \in found
                                \/ alien /\ f = <<"guid", place>>
                                \/ gap /\ f = <<"gap", place>>
    BY <2>1
  <2>3. ASSUME NEW kind, NEW x
        PROVE  x \in Found(kind)' <=> \/ x \in Found(kind)
                                      \/ alien /\ kind = "guid" /\ x = place
                                      \/ gap /\ kind = "gap" /\ x = place
    <3>1. \A y : y \in Found(kind) <=> \E f \in found : f[1] = kind /\ y = f[2]
      BY DEF Found
    <3>2. \A y : y \in Found(kind)' <=> \E f \in found' : f[1] = kind /\ y = f[2]
      BY DEF Found
    <3>3. x \in Found(kind)' => \/ x \in Found(kind)
                                \/ alien /\ kind = "guid" /\ x = place
                                \/ gap /\ kind = "gap" /\ x = place
      BY <2>2, <3>1, <3>2
    <3>4. x \in Found(kind) => x \in Found(kind)'
      BY <2>2, <3>1, <3>2
    <3>5. alien /\ kind = "guid" /\ x = place => x \in Found(kind)'
      <4>1. alien => <<"guid", place>> \in found'
        BY <2>2
      <4> QED BY <3>2, <4>1
    <3>6. gap /\ kind = "gap" /\ x = place => x \in Found(kind)'
      <4>1. gap => <<"gap", place>> \in found'
        BY <2>2
      <4> QED BY <3>2, <4>1
    <3> QED BY <3>3, <3>4, <3>5, <3>6
  <2>4. \A x : x \in Found("crc")' <=> x \in Found("crc")
    BY <2>3
  <2>5. \A x : x \in Found("guid")' <=> x \in Found("guid") \/ (alien /\ x = place)
    BY <2>3
  <2>6. \A x : x \in Found("gap")' <=> x \in Found("gap") \/ (gap /\ x = place)
    BY <2>3
  <2> QED BY <2>4, <2>5, <2>6
<1>4. Named(place)'
  <2>1. alien <=> ~Replayable(header, log[place])
    BY <1>1 DEF Replayable
  <2> HIDE DEF alien, gap
  <2> QED BY <1>1, <1>2, <1>3, <2>1 DEF Named
<1>5. Rising(place)'
  <2> SUFFICES ASSUME Found("crc")' \cup Found("gap")' = {}, ~WrapsAround
               PROVE  /\ prev' # NoSeq
                      /\ \A q \in Walked : q < place' => log[q].seq <= prev'
                      /\ \A q, r \in Walked : q < r /\ r < place' => log[q].seq < log[r].seq
    BY <1>1, <1>2 DEF Rising
  <2>1. ~gap /\ Found("crc") \cup Found("gap") = {}
    <3> HIDE DEF gap
    <3> QED BY <1>3
  <2>2. /\ prev = NoSeq => \A q \in Walked : ~(q < place)
        /\ prev # NoSeq => /\ \E q \in Walked : q < place /\ log[q].seq = prev
                           /\ \A q \in Walked : q < place => log[q].seq <= prev
        /\ \A q, r \in Walked : q < r /\ r < place => log[q].seq < log[r].seq
    BY <1>1, <2>1 DEF Rising
  <2>3. /\ \A q \in Walked : q \in Nat /\ log[q].seq \in 0 .. MaxSeq
        /\ e.seq \in 0 .. MaxSeq /\ MaxSeq \in Nat /\ place \in Nat
    BY <1>2, WalkedIs, AuditAssumption
  <2>4. \A q \in Walked : q < place => log[q].seq < e.seq
    <3>1. CASE prev = NoSeq
      BY <2>2, <3>1
    <3>2. CASE prev # NoSeq
      <4>1. e.seq = (prev + 1) % (MaxSeq + 1)
        BY <2>1, <3>2 DEF Follows
      <4>2. PICK p \in Walked : p < place /\ log[p].seq = prev
        BY <2>2, <3>2
      <4>3. prev \in 0 .. MaxSeq
        BY <2>3, <4>2
      <4>4. prev # MaxSeq
        <5> SUFFICES ASSUME prev = MaxSeq PROVE FALSE
          OBVIOUS
        <5>1. e.seq = 0
          <6> DEFINE m == MaxSeq + 1
          <6>1. m \in Nat \ {0} /\ e.seq = m % m
            BY <2>3, <4>1
          <6> HIDE DEF m
          <6>2. m = m * 1 + 0
            BY <6>1
          <6>3. m % m = 0
            BY <6>1
          <6> QED BY <6>1, <6>3
        <5> QED BY <1>2, <4>2, <5>1 DEF WrapsAround
      <4>5. e.seq = prev + 1
        BY <2>3, <4>1, <4>3, <4>4
      <4> QED BY <2>2, <2>3, <3>2, <4>3, <4>5
    <3> QED BY <3>1, <3>2
  <2>5. \A q \in Walked : q < place' => log[q].seq <= e.seq
    BY <1>2, <2>3, <2>4
  <2>6. \A q, r \in Walked : q < r /\ r < place' => log[q].seq < log[r].seq
    BY <1>2, <2>2, <2>3, <2>4
  <2>7. e.seq # NoSeq
    BY <2>3 DEF NoSeq
  <2> QED BY <1>1, <2>5, <2>6, <2>7
<1> QED BY <1>1, <1>2, <1>4, <1>5 DEF AuditInv, Scanned

LEMMA AuditInvStep == TypeOK /\ AuditInv /\ [AuditNext]_<<vars, audits>> => AuditInv'
<1> SUFFICES ASSUME TypeOK, AuditInv, [AuditNext]_<<vars, audits>> PROVE AuditInv'
  OBVIOUS
<1>1. CASE AuditStep
  BY <1>1, CheckHeadersStep, EndCheckLogStep, CheckBadEntryStep, CheckGoodEntryStep
     DEF AuditStep
<1>2. CASE (Next /\ UNCHANGED audits) \/ UNCHANGED <<vars, audits>>
  <2>1. UNCHANGED <<header, log, audits>>
    BY <1>2 DEF Next, OpenNext, RefuseImage, OpenClean, StartWalk, CollectEntry, SkipEntry,
      EndWalk, DataDescriptor, ZeroDescriptor, OtherDescriptor, FinishEntry, OverrunEntry,
      FinishReplay, StartRead, PatchRun, FinishRead, vars, image
  <2> QED BY <2>1, AuditKept
<1> QED BY <1>1, <1>2 DEF AuditNext

LEMMA AuditAlways == AuditSpec => [](TypeOK /\ CommitInv /\ StoppedFor /\ AuditInv)
<1>1. [AuditNext]_<<vars, audits>> => [Next]_vars
  BY DEF AuditNext, AuditStep, CheckHeaders, EndCheckLog, CheckBadEntry, CheckGoodEntry, vars,
         image, walk, replay, reading, answer
<1> QED BY <1>1, AuditRefines, TypeCorrect, CommitInvAlways, AuditStart, StoppedForStep,
           AuditInvStep, PTL DEF AuditSpec

\* A list without repetitions is as long as the set of its elements.
LEMMA CountPlaces ==
    ASSUME NEW S, NEW w \in Seq(S), NEW T,
           \A i, j \in 1 .. Len(w) : w[i] = w[j] => i = j,
           \A p : p \in T <=> \E i \in 1 .. Len(w) : p = w[i]
    PROVE  Cardinality(T) = Len(w)
<1>1. Len(w) \in Nat /\ w \in [1 .. Len(w) -> T]
  <2>1. Len(w) \in Nat /\ w = [i \in 1 .. Len(w) |-> w[i]]
    OBVIOUS
  <2> QED BY <2>1
<1>2. w \in Bijection(1 .. Len(w), T)
  BY <1>1 DEF Bijection, Injection, Surjection, IsInjective
<1>3. ExistsBijection(1 .. Len(w), T)
  BY <1>2 DEF ExistsBijection
<1> QED BY <1>1, <1>3, FS_CountingElements

\* When the entries are collected, they are those of all the committed slots.
LEMMA CollectedAre ==
    ASSUME TypeOK, CommitInv, StoppedFor, Collected, Dirty(header)
    PROVE  /\ Scanned
           /\ \E w : /\ Places(w) /\ w \in Seq(0 .. LogLen - 1)
                     /\ \A i, j \in 1 .. Len(w) : w[i] = w[j] => i = j
                     /\ \A p : p \in Committed(header, log) <=> \E i \in 1 .. Len(w) : p = w[i]
<1>1. pc \in {"replay", "ready", "patch", "panicked"}
  BY DEF TypeOK, Collected
<1>2. Scanned /\ ~Framed(log, pos)
  BY <1>1 DEF CommitInv, Control, StoppedFor, Scanned
<1>3. PICK w : Places(w)
  BY DEF CommitInv
<1>4. \A p : p \in Committed(header, log) <=> \E i \in 1 .. Len(w) : p = w[i]
  BY <1>2, <1>3, CollectedAll
<1>5. w \in Seq(0 .. LogLen - 1)
  BY <1>3 DEF Places
<1>6. ASSUME NEW i \in 1 .. Len(w), NEW j \in 1 .. Len(w), w[i] = w[j] PROVE i = j
  <2>1. /\ i < j => Before(w[i], w[j])
        /\ j < i => Before(w[j], w[i])
    BY <1>3 DEF Places
  <2>2. w[i] \in Int /\ log[w[i]].seq \in Nat /\ Len(w) \in Nat
    BY <1>3, PlacesAre
  <2>3. ~Before(w[i], w[j]) /\ ~Before(w[j], w[i])
    BY <1>6, <2>2 DEF Before
  <2> QED BY <2>1, <2>2, <2>3
<1> QED BY <1>2, <1>3, <1>4, <1>5, <1>6

\* What opening leaves out of a dirty log is what the analyser has named, for every log and
\* header: of the entries its own walk comes to, the replay skips those reported for their
\* checksum or GUID, and no other (integrity.rs:1293-1344, log.rs:122-158).
THEOREM SkipsAreReported == AuditSpec => []SkipsReported
<1>1. TypeOK /\ CommitInv /\ StoppedFor /\ AuditInv => SkipsReported
  <2> SUFFICES ASSUME TypeOK, CommitInv, StoppedFor, AuditInv, audit = "done"
               PROVE  /\ pc = "refused" => Found("both") \cup Found("beyond") # {}
                      /\ Collected /\ Dirty(header) /\ Found("tables") = {} =>
                            LET skipped == Found("crc") \cup Found("guid") IN
                            /\ skipped = Walked \ Committed(header, log)
                            /\ Len(entries) = Cardinality(Walked) - Cardinality(skipped)
    BY DEF SkipsReported
  <2>1. pc = "refused" => Found("both") \cup Found("beyond") # {}
    <3> SUFFICES ASSUME pc = "refused" PROVE Found("both") # {} \/ Found("beyond") # {}
      OBVIOUS
    <3>1. ~header.valid \/ (header.valid /\ ~header.empty /\ ~header.fits)
      BY DEF StoppedFor, Dirty
    <3> QED BY <3>1 DEF AuditInv
  <2>2. ASSUME Collected, Dirty(header), Found("tables") = {}
        PROVE  LET skipped == Found("crc") \cup Found("guid") IN
               /\ skipped = Walked \ Committed(header, log)
               /\ Len(entries) = Cardinality(Walked) - Cardinality(skipped)
    <3> DEFINE skipped == Found("crc") \cup Found("guid")
               committed == Committed(header, log)
    <3>1. Scanned /\ Named(LogLen)
      BY <2>2, CollectedAre DEF AuditInv
    <3>2. \A q \in Walked : q \in 0 .. LogLen - 1 /\ q < LogLen
      BY WalkedIs, LogAssumption
    <3>3. committed = {q \in Walked : Replayable(header, log[q])}
      BY DEF Committed, Walked
    <3>4. skipped = Walked \ committed
      BY <3>1, <3>2, <3>3 DEF Named
    <3>5. PICK w : /\ Places(w) /\ w \in Seq(0 .. LogLen - 1)
                   /\ \A i, j \in 1 .. Len(w) : w[i] = w[j] => i = j
                   /\ \A p : p \in committed <=> \E i \in 1 .. Len(w) : p = w[i]
      BY <2>2, CollectedAre
    <3>6. Len(entries) = Len(w)
      BY <3>5 DEF Places
    <3> HIDE DEF committed, skipped
    <3>7. Cardinality(committed) = Len(w)
      BY <3>5, CountPlaces
    <3>8. IsFiniteSet(Walked)
      <4>1. IsFiniteSet(0 .. LogLen - 1)
        BY FS_Interval, LogAssumption
      <4> QED BY <3>2, <4>1, FS_Subset
    <3>9. committed \subseteq Walked
      BY <3>3
    <3>10. Walked \cap committed = committed
      BY <3>9
    <3>11. Cardinality(skipped) = Cardinality(Walked) - Cardinality(committed)
      BY <3>4, <3>8, <3>10, FS_Difference
    <3>12. Cardinality(Walked) \in Nat /\ Len(w) \in Nat
      BY <3>5, <3>8, FS_CardinalityType
    <3>13. Len(entries) = Cardinality(Walked) - Cardinality(skipped)
      BY <3>6, <3>7, <3>11, <3>12
    <3> QED BY <3>4, <3>13 DEF committed, skipped
  <2> QED BY <2>1, <2>2
<1> QED BY <1>1, AuditAlways, PTL

\* A log the analyser has nothing to say of is replayed entry by entry as it lies, for every
\* log whose numbers do not wrap (integrity.rs:1332-1341, log.rs:157).
THEOREM QuietLogsInOrder == AuditSpec => []QuietLogInOrder
<1>1. TypeOK /\ CommitInv /\ StoppedFor /\ AuditInv => QuietLogInOrder
  <2> SUFFICES ASSUME TypeOK, CommitInv, StoppedFor, AuditInv, audit = "done",
                      Collected, Dirty(header), ~WrapsAround,
                      Found("tables") \cup Found("crc") \cup Found("guid") \cup Found("gap") = {}
               PROVE  \E places \in [1 .. Cardinality(Walked) -> Walked] :
                         /\ \A i, j \in DOMAIN places : i < j => places[i] < places[j]
                         /\ entries = [i \in DOMAIN places |-> log[places[i]]]
    BY DEF QuietLogInOrder
  <2>1. Scanned /\ Named(LogLen) /\ Rising(LogLen)
    BY CollectedAre DEF AuditInv
  <2>2. /\ LogLen \in Nat
        /\ \A q \in Walked : q \in 0 .. LogLen - 1 /\ log[q].seq \in Nat
    BY WalkedIs, LogAssumption, AuditAssumption
  <2>3. Committed(header, log) = Walked
    <3>1. \A q \in Walked : Replayable(header, log[q])
      BY <2>1, <2>2 DEF Named
    <3> QED BY <3>1 DEF Committed, Walked
  <2>4. \A q, r \in Walked : q < r => log[q].seq < log[r].seq
    BY <2>1, <2>2 DEF Rising
  <2>5. PICK w : /\ Places(w) /\ w \in Seq(0 .. LogLen - 1)
                 /\ \A i, j \in 1 .. Len(w) : w[i] = w[j] => i = j
                 /\ \A p : p \in Walked <=> \E i \in 1 .. Len(w) : p = w[i]
    BY <2>3, CollectedAre
  <2>6. Cardinality(Walked) = Len(w) /\ Len(w) \in Nat
    BY <2>5, CountPlaces
  <2>7. ASSUME NEW i \in 1 .. Len(w), NEW j \in 1 .. Len(w), i < j PROVE w[i] < w[j]
    <3>1. Before(w[i], w[j]) /\ w[i] \in Walked /\ w[j] \in Walked
      BY <2>5, <2>7 DEF Places
    <3>2. w[i] \in Int /\ w[j] \in Int /\ log[w[i]].seq \in Nat /\ log[w[j]].seq \in Nat
      BY <2>2, <3>1
    <3>3. ~(w[j] < w[i])
      BY <2>4, <3>1, <3>2 DEF Before
    <3>4. w[i] # w[j]
      BY <3>1, <3>2 DEF Before
    <3> QED BY <3>2, <3>3, <3>4
  <2>8. w \in [1 .. Len(w) -> Walked]
    <3>1. w = [i \in 1 .. Len(w) |-> w[i]]
      BY <2>5
    <3> QED BY <2>5, <3>1
  <2>9. entries = [i \in 1 .. Len(w) |-> log[w[i]]]
    <3>1. /\ Len(entries) = Len(w) /\ \A i \in 1 .. Len(w) : entries[i] = log[w[i]]
          /\ entries \in Seq(Entry)
      BY <2>5 DEF Places, TypeOK
    <3>2. entries = [i \in 1 .. Len(entries) |-> entries[i]]
      BY <3>1
    <3> QED BY <3>1, <3>2
  <2>10. DOMAIN w = 1 .. Len(w)
    BY <2>8
  <2> QED BY <2>6, <2>7, <2>8, <2>9, <2>10
<1> QED BY <1>1, AuditAlways, PTL

=============================================================================
