-------------------------- MODULE VhdxBackingProofs --------------------------
(***************************************************************************)
(* Proofs about VhdxBacking, for every window, every set of lengths and of *)
(* requests, and any number of short reads, faults and changes of length.  *)
(*                                                                         *)
(* The properties follow from an invariant that adds to them what a read   *)
(* knows on its way: that it never has more than it wants, that the cursor *)
(* of a boxed reader is where the buffer ends, and that a read which is    *)
(* about to return early has seen the end of the container.                *)
(***************************************************************************)
EXTENDS VhdxBacking, SequenceTheorems, TLAPS

Short == Start + asked.off + Len(buf) >= ShortestEnd

BackingInv ==
    /\ TypeOK
    /\ OwnBytesOnly
    /\ status = "pending" <=> pc # "idle"
    /\ pc # "idle" => Len(buf) <= Want(asked)
    /\ kind = "reader" /\ pc = "read" /\ asked.off < len => cursor = asked.off + Len(buf)
    /\ pc = "return" \/ status = "ok" => Len(buf) = asked.len \/ Short
    /\ RegionIsWhole

-----------------------------------------------------------------------------
(* Lemmas                                                                  *)

\* A read is clamped to the window of a Sub and to the length of a Mem or a Reader.
LEMMA WantBounds ==
    ASSUME TypeOK, NEW r \in [off : Nat, len : Nat]
    PROVE  /\ Want(r) \in 0 .. r.len
           /\ kind # "file" /\ Want(r) > 0 => r.off < len /\ r.off + Want(r) <= len
           /\ Want(r) < r.len => kind # "file" /\ r.off + Want(r) >= len
BY DEF TypeOK, Want, AtMost

LEMMA StartIsNat == TypeOK => Start \in Nat
BY BackingAssumption DEF TypeOK, Start

LEMMA ConcatAt ==
    ASSUME NEW s \in Seq(Nat), NEW more \in Seq(Nat),
           NEW k \in 1 .. Len(s) + Len(more), k > Len(s)
    PROVE  (s \o more)[k] = more[k - Len(s)]
<1>1. Len(s) \in Nat /\ Len(more) \in Nat
  OBVIOUS
<1>2. k - Len(s) \in 1 .. Len(more)
  BY <1>1
<1> QED BY <1>1, <1>2

\* Appending n addresses from a on.
LEMMA AppendAddresses ==
    ASSUME NEW s \in Seq(Nat), NEW a \in Nat, NEW n \in Nat,
           NEW u, u = s \o [i \in 1 .. n |-> a + i - 1]
    PROVE  /\ u \in Seq(Nat) /\ Len(u) = Len(s) + n
           /\ \A k \in 1 .. Len(s) : u[k] = s[k]
           /\ \A k \in Len(s) + 1 .. Len(s) + n : u[k] = a + (k - Len(s)) - 1
<1> DEFINE more == [i \in 1 .. n |-> a + i - 1]
<1>1. more \in Seq(Nat) /\ Len(more) = n
  OBVIOUS
<1>2. ASSUME NEW i \in 1 .. n PROVE more[i] = a + i - 1
  OBVIOUS
<1>3. u = s \o more /\ Len(s) \in Nat
  OBVIOUS
<1> HIDE DEF more
<1>4. u \in Seq(Nat) /\ Len(u) = Len(s) + n
  BY <1>1, <1>3, ConcatProperties
<1>5. ASSUME NEW k \in 1 .. Len(s) PROVE u[k] = s[k]
  BY <1>1, <1>3
<1>6. ASSUME NEW k \in Len(s) + 1 .. Len(s) + n PROVE u[k] = a + (k - Len(s)) - 1
  <2>1. k - Len(s) \in 1 .. n /\ k \in 1 .. Len(s) + n /\ k > Len(s)
    BY <1>3
  <2>2. u[k] = more[k - Len(s)]
    BY <1>1, <1>3, <2>1, ConcatAt
  <2> QED BY <1>2, <2>1, <2>2
<1> QED BY <1>4, <1>5, <1>6

\* Where the container ends can only come nearer, and is never behind a window.
LEMMA EndsInOrder ==
    ASSUME TypeOK
    PROVE  /\ ShortestEnd \in Int
           /\ kind # "file" => ShortestEnd <= Start + len
           /\ kind # "mem" => ShortestEnd <= least
BY StartIsNat DEF TypeOK, ShortestEnd, AtMost, Start

\* The next byte is read where the buffer ends, with either kind of position.
LEMMA AtIsNext ==
    ASSUME BackingInv, pc = "read", kind # "file" => asked.off < len
    PROVE  At = Start + asked.off + Len(buf)
<1>1. asked.off \in Nat /\ Len(buf) \in Nat
  BY DEF BackingInv, TypeOK
<1>2. CASE kind = "reader"
  <2>1. cursor = asked.off + Len(buf)
    BY <1>2 DEF BackingInv
  <2> QED BY <1>1, <1>2, <2>1 DEF At, Start
<1>3. CASE kind # "reader"
  BY <1>3 DEF At
<1> QED BY <1>2, <1>3

-----------------------------------------------------------------------------
(* The invariant holds at the start, and each step keeps it                *)

LEMMA InitHolds == Init => BackingInv
<1> SUFFICES ASSUME Init PROVE BackingInv
  OBVIOUS
<1>1. TypeOK
  <2>1. kind \in {"file", "sub", "mem", "reader"} /\ size \in Nat /\ len \in Nat
    BY BackingAssumption DEF Init
  <2>2. <<>> \in Seq(Nat) /\ Len(<<>>) = 0 /\ [off |-> 0, len |-> 0] \in [off : Nat, len : Nat]
    OBVIOUS
  <2>3. cursor \in Nat /\ least \in Nat /\ least <= size
    BY <2>1 DEF Init
  <2>4. faults \in 0 .. MaxFaults /\ resizes \in 0 .. MaxResizes
    BY BackingAssumption DEF Init
  <2>5. asked \in [off : Nat, len : Nat] /\ Len(buf) <= asked.len /\ buf \in Seq(Nat)
    BY <2>2 DEF Init
  <2> QED BY <2>1, <2>3, <2>4, <2>5 DEF Init, TypeOK
<1>2. OwnBytesOnly
  BY DEF Init, OwnBytesOnly
<1> QED BY <1>1, <1>2 DEF Init, BackingInv, RegionIsWhole

\* A call begins: its buffer is empty.
LEMMA CallHolds ==
    ASSUME BackingInv, NEW r \in Request, NEW forRegion \in BOOLEAN, Begin(r, forRegion)
    PROVE  BackingInv'
<1>1. TypeOK /\ r \in [off : Nat, len : Nat]
  BY BackingAssumption DEF BackingInv
<1>2. /\ asked' = r /\ region' = forRegion /\ buf' = <<>> /\ Len(<<>>) = 0
      /\ status' = "pending" /\ pc' = "read" /\ least' = size
      /\ UNCHANGED <<kind, len, size, faults, resizes>>
      /\ cursor' = IF kind = "reader" /\ r.off < len THEN r.off ELSE cursor
  BY DEF Begin, medium, limits
<1>3. TypeOK'
  <2>1. <<>> \in Seq(Nat)
    OBVIOUS
  <2> QED BY <1>1, <1>2, <2>1 DEF TypeOK
<1>4. OwnBytesOnly'
  BY <1>2 DEF OwnBytesOnly
<1>5. Want(asked)' = Want(r)
  BY <1>2 DEF Want
<1>6. Want(r) \in 0 .. r.len
  BY <1>1, WantBounds
<1>7. (kind = "reader" /\ pc = "read" /\ asked.off < len => cursor = asked.off + Len(buf))'
  BY <1>1, <1>2 DEF TypeOK
<1> QED BY <1>2, <1>3, <1>4, <1>5, <1>6, <1>7 DEF BackingInv, RegionIsWhole

\* A call is refused or fails: its buffer is empty, and nothing is claimed of it.
LEMMA RefuseHolds ==
    ASSUME BackingInv, status' = "failed", pc' = "idle", buf' = <<>>,
           asked' \in [off : Nat, len : Nat], region' \in BOOLEAN,
           UNCHANGED <<kind, len, size, least, cursor, resizes>>,
           faults' \in 0 .. MaxFaults
    PROVE  BackingInv'
<1>1. TypeOK' /\ Len(buf') = 0
  <2>1. <<>> \in Seq(Nat) /\ Len(<<>>) = 0
    OBVIOUS
  <2> QED BY <2>1 DEF BackingInv, TypeOK
<1>2. OwnBytesOnly'
  BY DEF OwnBytesOnly
<1> QED BY <1>1, <1>2 DEF BackingInv, RegionIsWhole

\* Bytes arrive: the next ones of the read's own range.
LEMMA FillHolds ==
    ASSUME BackingInv, \/ \E n \in 1 .. asked.len : ReadSome(n)
                       \/ CopyMem
    PROVE  BackingInv'
<1>1. TypeOK /\ OwnBytesOnly /\ asked \in [off : Nat, len : Nat] /\ buf \in Seq(Nat)
  BY DEF BackingInv, TypeOK
<1>2. Start \in Nat /\ Len(buf) \in Nat
  BY <1>1, StartIsNat
<1>3. /\ pc = "read" /\ Len(buf) < Want(asked) /\ status = "pending"
      /\ UNCHANGED <<kind, len, size, least, pc, asked, region, status, faults, resizes>>
  BY DEF ReadSome, CopyMem, Reading, BackingInv, medium, limits
<1>4. /\ Want(asked) \in 0 .. asked.len
      /\ kind # "file" => asked.off < len /\ asked.off + Want(asked) <= len
  BY <1>1, <1>2, <1>3, WantBounds
<1>5. Want(asked)' = Want(asked) /\ Start' = Start
  BY <1>3 DEF Want, Start
<1>6. \* What the new buffer has to be.
      ASSUME buf' \in Seq(Nat), Len(buf') <= Want(asked), cursor' \in Nat,
             \A k \in 1 .. Len(buf') : buf'[k] = Start + asked.off + k - 1,
             kind = "reader" => cursor' = asked.off + Len(buf')
      PROVE  BackingInv'
  <2>1. TypeOK'
    BY <1>1, <1>3, <1>4, <1>6 DEF TypeOK
  <2>2. DOMAIN buf' = 1 .. Len(buf') /\ Len(buf') \in Nat
    BY <1>6
  <2>3. OwnBytesOnly'
    <3> SUFFICES ASSUME NEW k \in 1 .. Len(buf')
                 PROVE  /\ buf'[k] = Start + asked.off + k - 1
                        /\ kind # "file" => buf'[k] < Start + len
      BY <2>2, <1>3, <1>5 DEF OwnBytesOnly
    <3>1. buf'[k] = Start + asked.off + k - 1
      BY <1>6
    <3>2. k <= Want(asked) /\ k \in Nat
      BY <1>6, <2>2, <1>4
    <3> QED BY <3>1, <3>2, <1>1, <1>2, <1>4 DEF TypeOK
  <2> QED BY <1>3, <1>5, <1>6, <2>1, <2>3 DEF BackingInv, RegionIsWhole
<1>7. ASSUME NEW n \in 1 .. asked.len, ReadSome(n) PROVE BackingInv'
  <2>1. At = Start + asked.off + Len(buf)
    BY <1>1, <1>3, <1>4, AtIsNext
  <2>2. n \in Nat /\ n <= Want(asked) - Len(buf) /\ At \in Nat
    BY <1>1, <1>2, <1>7, <2>1 DEF ReadSome
  <2>3. buf' = buf \o [i \in 1 .. n |-> At + i - 1]
    BY <1>7 DEF ReadSome
  <2>4. /\ buf' \in Seq(Nat) /\ Len(buf') = Len(buf) + n
        /\ \A k \in 1 .. Len(buf) : buf'[k] = buf[k]
        /\ \A k \in Len(buf) + 1 .. Len(buf) + n : buf'[k] = At + (k - Len(buf)) - 1
    BY <1>1, <2>2, <2>3, AppendAddresses
  <2>5. ASSUME NEW k \in 1 .. Len(buf') PROVE buf'[k] = Start + asked.off + k - 1
    <3>1. CASE k \in 1 .. Len(buf)
      <4>1. buf[k] = Start + asked.off + k - 1
        BY <1>1, <3>1 DEF OwnBytesOnly
      <4> QED BY <4>1, <3>1, <2>4
    <3>2. CASE k \in Len(buf) + 1 .. Len(buf) + n
      <4>1. buf'[k] = At + (k - Len(buf)) - 1
        BY <2>4, <3>2
      <4> QED BY <4>1, <2>1, <1>1, <1>2, <3>2
    <3> QED BY <3>1, <3>2, <2>2, <2>4, <1>2
  <2>6. cursor' \in Nat /\ (kind = "reader" => cursor' = asked.off + Len(buf'))
    <3>1. cursor' = IF kind = "reader" THEN cursor + n ELSE cursor
      BY <1>7 DEF ReadSome
    <3>2. kind = "reader" => cursor = asked.off + Len(buf)
      BY <1>3, <1>4 DEF BackingInv
    <3>3. cursor \in Nat /\ n \in Nat /\ asked.off \in Nat /\ Len(buf) \in Nat
      BY <1>1, <1>2, <2>2 DEF TypeOK
    <3>4. Len(buf') = Len(buf) + n
      BY <2>4
    <3>5. CASE kind = "reader"
      BY <3>1, <3>2, <3>3, <3>4, <3>5
    <3>6. CASE kind # "reader"
      BY <3>1, <3>3, <3>6
    <3> QED BY <3>5, <3>6
  <2>7. Len(buf') <= Want(asked)
    BY <2>2, <2>4, <1>2, <1>4
  <2> QED BY <1>6, <2>4, <2>5, <2>6, <2>7
<1>8. ASSUME CopyMem PROVE BackingInv'
  <2>1. /\ kind = "mem" /\ cursor' = cursor
        /\ buf' = [i \in 1 .. Want(asked) |-> asked.off + i - 1]
    BY <1>8 DEF CopyMem
  <2>2. Want(asked) \in Nat /\ asked.off \in Nat /\ Start = 0
    BY <1>1, <1>4, <2>1 DEF Start
  <2>3. buf' \in Seq(Nat) /\ Len(buf') = Want(asked)
    BY <2>1, <2>2
  <2>4. ASSUME NEW k \in 1 .. Len(buf') PROVE buf'[k] = Start + asked.off + k - 1
    BY <2>1, <2>2, <2>3
  <2> QED BY <1>1, <1>6, <2>1, <2>2, <2>3, <2>4 DEF TypeOK
<1> QED BY <1>7, <1>8

\* A read stops, because it has what it wants or because the medium ended.
LEMMA StopHolds ==
    ASSUME BackingInv, ReadEnd \/ ReadFull
    PROVE  BackingInv'
<1>1. TypeOK /\ asked \in [off : Nat, len : Nat] /\ buf \in Seq(Nat)
  BY DEF BackingInv, TypeOK
<1>2. Start \in Nat /\ Len(buf) \in Nat /\ ShortestEnd \in Int
  BY <1>1, StartIsNat, EndsInOrder
<1>3. /\ pc = "read" /\ status = "pending" /\ Len(buf) <= Want(asked) /\ pc' = "return"
      /\ UNCHANGED <<kind, len, size, least, cursor, asked, region, buf, status, faults, resizes>>
  BY DEF ReadEnd, ReadFull, Reading, BackingInv, medium, limits
<1>4. Len(buf) = asked.len \/ Short
  <2>1. CASE ReadFull
    <3>1. Len(buf) = Want(asked)
      BY <2>1 DEF ReadFull
    <3>2. /\ Want(asked) \in 0 .. asked.len
          /\ Want(asked) < asked.len => kind # "file" /\ asked.off + Want(asked) >= len
      BY <1>1, WantBounds
    <3>3. kind # "file" => ShortestEnd <= Start + len
      BY <1>1, EndsInOrder
    <3> QED BY <3>1, <3>2, <3>3, <1>1, <1>2 DEF Short, TypeOK
  <2>2. CASE ReadEnd
    <3>1. Len(buf) < Want(asked) /\ At >= size /\ kind # "mem"
      BY <2>2 DEF ReadEnd, Reading
    <3>2. kind # "file" => asked.off < len
      BY <1>1, <1>2, <3>1, WantBounds
    <3>3. At = Start + asked.off + Len(buf)
      BY <1>1, <1>3, <3>2, AtIsNext
    <3>4. ShortestEnd <= least /\ least <= size /\ least \in Nat /\ size \in Nat
      BY <1>1, <3>1, EndsInOrder DEF TypeOK
    <3> QED BY <3>1, <3>3, <3>4, <1>1, <1>2 DEF Short
  <2> QED BY <2>1, <2>2
<1>5. TypeOK' /\ OwnBytesOnly'
  BY <1>3 DEF BackingInv, TypeOK, OwnBytesOnly, Start
<1>6. Short' <=> Short
  BY <1>3 DEF Short, ShortestEnd, Start
<1>7. Want(asked)' = Want(asked)
  BY <1>3 DEF Want
<1> QED BY <1>3, <1>4, <1>5, <1>6, <1>7 DEF BackingInv, RegionIsWhole

\* A call returns: read_region has looked at what it got.
LEMMA ReturnHolds ==
    ASSUME BackingInv, Return
    PROVE  BackingInv'
<1>1. /\ pc = "return" /\ pc' = "idle"
      /\ status' = IF region /\ Len(buf) < asked.len THEN "failed" ELSE "ok"
      /\ UNCHANGED <<kind, len, size, least, cursor, asked, region, buf, faults, resizes>>
  BY DEF Return, medium, limits
<1>2. Len(buf) \in Nat /\ asked.len \in Nat /\ Len(buf) <= asked.len
  BY DEF BackingInv, TypeOK
<1>3. TypeOK' /\ OwnBytesOnly'
  BY <1>1 DEF BackingInv, TypeOK, OwnBytesOnly, Start
<1>4. Short' <=> Short
  BY <1>1 DEF Short, ShortestEnd, Start
<1>5. RegionIsWhole'
  BY <1>1, <1>2 DEF RegionIsWhole
<1>6. Len(buf) = asked.len \/ Short
  BY <1>1 DEF BackingInv
<1> QED BY <1>1, <1>3, <1>4, <1>5, <1>6 DEF BackingInv

\* The medium changes: its shortest end is no further than it was.
LEMMA ResizeHolds ==
    ASSUME BackingInv, NEW n \in Size, Resize(n)
    PROVE  BackingInv'
<1>1. TypeOK /\ n \in Nat
  BY BackingAssumption DEF BackingInv
<1>2. /\ kind # "mem" /\ size' = n /\ least' = AtMost(least, n)
      /\ resizes < MaxResizes /\ resizes' = resizes + 1
      /\ UNCHANGED <<kind, len, cursor, pc, asked, region, buf, status, faults>>
  BY DEF Resize, medium
<1>3. least' \in Nat /\ least' <= least /\ least' <= size'
  BY <1>1, <1>2 DEF AtMost, TypeOK
<1>4. TypeOK'
  BY <1>1, <1>2, <1>3, BackingAssumption DEF TypeOK
<1>5. OwnBytesOnly'
  BY <1>2 DEF BackingInv, OwnBytesOnly, Start
<1>6. Short => Short'
  <2>1. Start \in Nat /\ Start' = Start /\ Len(buf) \in Nat /\ asked.off \in Nat
    BY <1>1, <1>2, StartIsNat DEF TypeOK, Start
  <2>2. ShortestEnd' <= ShortestEnd /\ ShortestEnd' \in Int /\ ShortestEnd \in Int
    BY <1>1, <1>2, <1>3, <2>1 DEF ShortestEnd, AtMost, TypeOK
  <2> QED BY <1>2, <2>1, <2>2 DEF Short
<1>7. Want(asked)' = Want(asked)
  BY <1>2 DEF Want
<1> QED BY <1>2, <1>4, <1>5, <1>6, <1>7 DEF BackingInv, RegionIsWhole

LEMMA StutterHolds == BackingInv /\ UNCHANGED vars => BackingInv'
BY DEF BackingInv, vars, medium, limits, TypeOK, OwnBytesOnly, RegionIsWhole, Short,
       ShortestEnd, Start, Want

LEMMA StepHolds == BackingInv /\ [Next]_vars => BackingInv'
<1> SUFFICES ASSUME BackingInv, [Next]_vars PROVE BackingInv'
  OBVIOUS
<1>1. CASE \E r \in Request : Call(r) \/ CallRegion(r)
  <2>1. PICK r \in Request : Begin(r, FALSE) \/ Begin(r, TRUE)
    BY <1>1 DEF Call, CallRegion
  <2> QED BY <2>1, CallHolds
<1>2. CASE \E r \in Request : RefuseRegion(r)
  <2>1. PICK r \in Request : RefuseRegion(r)
    BY <1>2
  <2>2. /\ status' = "failed" /\ pc' = "idle" /\ buf' = <<>>
        /\ asked' = r /\ region' = TRUE
        /\ UNCHANGED <<kind, len, size, least, cursor, faults, resizes>>
    BY <2>1 DEF RefuseRegion, medium, limits
  <2>3. r \in [off : Nat, len : Nat] /\ faults \in 0 .. MaxFaults
    BY BackingAssumption DEF BackingInv, TypeOK
  <2> QED BY <2>2, <2>3, RefuseHolds
<1>3. CASE Step
  BY <1>3, FillHolds, StopHolds, ReturnHolds DEF Step
<1>4. CASE Interrupted \/ Broken
  <2>1. CASE Fail /\ Faulty
    <3>1. /\ status' = "failed" /\ pc' = "idle" /\ buf' = <<>>
          /\ faults < MaxFaults /\ faults' = faults + 1
          /\ UNCHANGED <<kind, len, size, least, cursor, asked, region, resizes>>
      BY <2>1 DEF Fail, Faulty, medium
    <3>2. /\ asked \in [off : Nat, len : Nat] /\ region \in BOOLEAN
          /\ faults \in 0 .. MaxFaults /\ MaxFaults \in Nat
      BY BackingAssumption DEF BackingInv, TypeOK
    <3>3. faults' \in 0 .. MaxFaults
      BY <3>1, <3>2
    <3> QED BY <3>1, <3>2, <3>3, RefuseHolds
  <2>2. CASE /\ Faulty
             /\ UNCHANGED <<medium, size, least, cursor, pc, asked, region, buf, status, resizes>>
    <3>1. /\ faults < MaxFaults /\ faults' = faults + 1
          /\ UNCHANGED <<kind, len, size, least, cursor, pc, asked, region, buf, status, resizes>>
      BY <2>2 DEF Faulty, medium
    <3>2. TypeOK'
      BY <3>1, BackingAssumption DEF BackingInv, TypeOK
    <3> QED BY <3>1, <3>2 DEF BackingInv, OwnBytesOnly, RegionIsWhole, Short, ShortestEnd, Start, Want
  <2> QED BY <1>4, <2>1, <2>2 DEF Interrupted, Broken
<1>5. CASE \E n \in Size : Resize(n)
  BY <1>5, ResizeHolds
<1>6. CASE UNCHANGED vars
  BY <1>6, StutterHolds
<1> QED BY <1>1, <1>2, <1>3, <1>4, <1>5, <1>6 DEF Next

-----------------------------------------------------------------------------
(* Theorems                                                                *)

\* The types of VhdxBacking, and that no read has more than it was asked for.
THEOREM TypeCorrect == Spec => []TypeOK
<1>1. BackingInv => TypeOK
  BY DEF BackingInv
<1> QED BY <1>1, InitHolds, StepHolds, PTL DEF Spec

\* Backing::read_at fills its buffer with the bytes at its own offset, in order, and never
\* from beyond the window of a Sub or the length of a Mem or a Reader.
THEOREM BytesAreOwn == Spec => []OwnBytesOnly
<1>1. BackingInv => OwnBytesOnly
  BY DEF BackingInv
<1> QED BY <1>1, InitHolds, StepHolds, PTL DEF Spec

\* Backing::read_at is short only where the container ended during the call.
THEOREM ShortAtEndOnly == Spec => []ShortOnlyAtEnd
<1>1. BackingInv => ShortOnlyAtEnd
  <2> SUFFICES ASSUME BackingInv, status = "ok", Len(buf) < asked.len PROVE Short
    BY DEF ShortOnlyAtEnd, Short
  <2>1. Len(buf) \in Nat /\ asked.len \in Nat
    BY DEF BackingInv, TypeOK
  <2> QED BY <2>1 DEF BackingInv
<1> QED BY <1>1, InitHolds, StepHolds, PTL DEF Spec

\* What read_region returns has the length that was asked for.
THEOREM RegionAlwaysWhole == Spec => []RegionIsWhole
<1>1. BackingInv => RegionIsWhole
  BY DEF BackingInv
<1> QED BY <1>1, InitHolds, StepHolds, PTL DEF Spec
=============================================================================
