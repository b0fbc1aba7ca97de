-------------------------- MODULE VhdxSourceProofs --------------------------
(***************************************************************************)
(* A shared reader returns each call the bytes of its own range, for any   *)
(* number of threads, any disk and block size, and any calls, whatever     *)
(* fails or panics.                                                        *)
(***************************************************************************)
EXTENDS VhdxSource, SequenceTheorems, TLAPS

\* What a thread knows at each point of its call.
ThreadInv(t) ==
    /\ Inside(t) => lock = t
    /\ inner = t <=> pc[t] = "fill"
    /\ status[t] = "pending" <=> pc[t] # "idle"
    /\ status[t] = "ok" => Len(bytes[t]) = Want(t)
    /\ \A k \in 1 .. Len(bytes[t]) : bytes[t][k] = asked[t].off + k - 1
    /\ pc[t] = "empty" => Avail(asked[t]) = 0
    /\ pc[t] \in {"empty", "lock", "seek"} => total[t] = 0 /\ bytes[t] = <<>>
    /\ pc[t] \in {"loop", "read", "fill"} => pos = asked[t].off + total[t]
    /\ pc[t] = "loop" => total[t] <= Want(t) /\ Len(bytes[t]) = total[t]
    /\ pc[t] \in {"read", "fill"} => /\ total[t] + toRead[t] <= Want(t)
                                     /\ written[t] <= toRead[t]
    /\ pc[t] = "read" => Len(bytes[t]) = total[t] + written[t]
    /\ pc[t] = "fill" => /\ written[t] < toRead[t] /\ filled[t] <= Chunk(t)
                         /\ cursor = V(t) + filled[t]
                         /\ Len(bytes[t]) = total[t] + written[t] + filled[t]

SourceInv == TypeOK /\ \A t \in Thread : ThreadInv(t)

-----------------------------------------------------------------------------
(* Arithmetic of chunks                                                    *)

LEMMA BlockEndIsBeyond ==
    ASSUME NEW v \in Nat, NEW b \in Nat \ {0}
    PROVE  v \div b \in Nat /\ ((v \div b) + 1) * b > v
OBVIOUS

\* A chunk is not empty and does not go past what the read is for.
LEMMA ChunkBounds ==
    ASSUME SourceInv, NEW t \in Thread, written[t] < toRead[t]
    PROVE  Chunk(t) \in 1 .. toRead[t] - written[t]
<1> DEFINE end == ((V(t) \div BlockSize) + 1) * BlockSize
<1>1. V(t) \in Nat /\ toRead[t] \in Nat /\ written[t] \in Nat /\ BlockSize \in Nat \ {0}
  <2>1. TypeOK
    BY DEF SourceInv
  <2>2. pos \in Nat /\ toRead[t] \in Nat /\ written[t] \in Nat
    BY <2>1 DEF TypeOK
  <2> QED BY <2>2, SourceAssumption DEF V
<1>2. end \in Int /\ end > V(t)
  BY <1>1, BlockEndIsBeyond
<1>3. Chunk(t) = AtMost(toRead[t] - written[t], end - V(t))
  BY DEF Chunk
<1> HIDE DEF end
<1> QED BY <1>1, <1>2, <1>3 DEF AtMost

\* A call never asks for more than the disk has from its offset on.
LEMMA WantBounds ==
    ASSUME SourceInv, NEW t \in Thread
    PROVE  /\ Want(t) \in Nat
           /\ Want(t) > 0 => asked[t].off + Want(t) <= DiskLen
<1>1. asked[t].off \in Nat /\ asked[t].len \in Nat /\ DiskLen \in Nat
  BY SourceAssumption DEF SourceInv, TypeOK
<1> QED BY <1>1 DEF Want, Avail, AtMost

LEMMA Update ==
    ASSUME NEW S, NEW f \in [Thread -> S], NEW t \in Thread, NEW e \in S
    PROVE  /\ [f EXCEPT ![t] = e] \in [Thread -> S]
           /\ [f EXCEPT ![t] = e][t] = e
OBVIOUS

\* Appending the next n addresses keeps the buffer a run of addresses.
LEMMA AppendRun ==
    ASSUME NEW s \in Seq(Nat), NEW o \in Nat, NEW n \in Nat,
           \A k \in 1 .. Len(s) : s[k] = o + k - 1,
           NEW more \in Seq(Nat), Len(more) = n,
           \A k \in 1 .. n : more[k] = o + Len(s) + k - 1,
           NEW u, u = s \o more
    PROVE  /\ u \in Seq(Nat) /\ Len(u) = Len(s) + n
           /\ \A k \in 1 .. Len(u) : u[k] = o + k - 1
<1>1. Len(s) \in Nat
  OBVIOUS
<1>2. u \in Seq(Nat) /\ Len(u) = Len(s) + n
  BY ConcatProperties
<1>3. ASSUME NEW k \in 1 .. Len(s) + n PROVE u[k] = o + k - 1
  <2>1. CASE k <= Len(s)
    <3>1. u[k] = s[k]
      BY <1>1, <2>1
    <3> QED BY <1>1, <2>1, <3>1
  <2>2. CASE k > Len(s)
    <3>1. k - Len(s) \in 1 .. n
      BY <1>1, <2>2
    <3>2. u[k] = more[k - Len(s)]
      BY <1>1, <2>2
    <3> QED BY <1>1, <3>1, <3>2
  <2> QED BY <1>1, <2>1, <2>2
<1> QED BY <1>2, <1>3

-----------------------------------------------------------------------------
(* Steps                                                                   *)

\* A step of t leaves every other thread's knowledge alone when it changes no
\* other thread's variables, and either t has the lock or the lock is free and
\* only the lock changes.
Private(t) ==
    \A u \in Thread \ {t} :
        UNCHANGED <<pc[u], asked[u], status[u], bytes[u], total[u], toRead[u],
                    written[u], filled[u]>>

LEMMA OthersKeep ==
    ASSUME SourceInv, NEW t \in Thread, Private(t),
           \/ UNCHANGED <<lock, pos, inner, cursor>>
           \/ lock = NoOwner /\ UNCHANGED <<pos, inner, cursor>>
           \/ lock = t /\ inner \in {t, NoOwner} /\ inner' \in {t, NoOwner},
           NEW u \in Thread \ {t}
    PROVE  ThreadInv(u)'
<1>1. ThreadInv(u) /\ ThreadInv(t)
  BY DEF SourceInv
<1>2. UNCHANGED <<pc[u], asked[u], status[u], bytes[u], total[u], toRead[u],
                  written[u], filled[u]>>
  BY DEF Private
<1>3. UNCHANGED Want(u) /\ (Inside(u)' <=> Inside(u))
  BY <1>2 DEF Want, Inside
<1>4. CASE UNCHANGED <<lock, pos, inner, cursor>>
  <2>1. UNCHANGED <<Chunk(u), V(u)>>
    BY <1>2, <1>4 DEF Chunk, V
  <2> QED BY <1>1, <1>2, <1>3, <1>4, <2>1 DEF ThreadInv
<1>5. CASE \/ lock = NoOwner /\ UNCHANGED <<pos, inner, cursor>>
           \/ lock = t /\ inner \in {t, NoOwner} /\ inner' \in {t, NoOwner}
  <2>1. lock # u
    BY <1>5, SourceAssumption
  <2>2. ~Inside(u)
    BY <1>1, <2>1 DEF ThreadInv
  <2>3. inner' # u
    BY <1>1, <1>5, <2>2, SourceAssumption DEF ThreadInv, Inside
  <2> QED BY <1>1, <1>2, <1>3, <2>2, <2>3 DEF ThreadInv, Inside
<1> QED BY <1>4, <1>5

LEMMA InitHolds == Init => SourceInv
<1> SUFFICES ASSUME Init PROVE SourceInv
  OBVIOUS
<1>1. TypeOK
  <2>1. NoRequest \in [off : Nat, len : Nat] /\ <<>> \in Seq(Nat)
    BY DEF NoRequest
  <2>2. backing \in {"positioned", "cursor"}
    BY SourceAssumption DEF Init
  <2> QED BY <2>1, <2>2 DEF Init, TypeOK
<1>2. ASSUME NEW t \in Thread PROVE ThreadInv(t)
  BY SourceAssumption DEF Init, ThreadInv, Inside
<1> QED BY <1>1, <1>2 DEF SourceInv

\* The steps before and after the reader is used.
LEMMA CallSteps ==
    ASSUME SourceInv, NEW t \in Thread,
           \/ \E r \in Request : Call(t, r)
           \/ ReturnEmpty(t) \/ Lock(t) \/ SeekReader(t) \/ Return(t)
    PROVE  SourceInv'
<1>1. TypeOK /\ ThreadInv(t)
  BY DEF SourceInv
<1> USE DEF shared, client, local, count
<1>2. CASE \E r \in Request : Call(t, r)
  <2>1. PICK r \in Request : Call(t, r)
    BY <1>2
  <2>2. TypeOK'
    <3>1. r \in [off : Nat, len : Nat] /\ <<>> \in Seq(Nat)
      BY SourceAssumption
    <3>2. asked' \in [Thread -> [off : Nat, len : Nat]] /\ bytes' \in [Thread -> Seq(Nat)]
      BY <1>1, <2>1, <3>1 DEF TypeOK, Call
    <3>3. /\ pc' \in [Thread -> {"idle", "empty", "lock", "seek", "loop", "read", "fill"}]
          /\ status' \in [Thread -> {"none", "pending", "ok", "failed"}]
          /\ met' \in [Thread -> BOOLEAN]
      BY <1>1, <2>1 DEF TypeOK, Call
    <3>4. total' \in [Thread -> Nat] /\ calls' \in [Thread -> Nat]
      <4>0. total \in [Thread -> Nat] /\ calls \in [Thread -> Nat]
        BY <1>1 DEF TypeOK
      <4>1. calls[t] + 1 \in Nat
        <5>1. calls[t] \in Nat
          BY <4>0
        <5> QED BY <5>1
      <4>2. /\ total' = [total EXCEPT ![t] = 0]
            /\ calls' = [calls EXCEPT ![t] = calls[t] + 1]
        BY <2>1 DEF Call
      <4> QED BY <4>0, <4>1, <4>2, Update
    <3> QED BY <1>1, <2>1, <3>2, <3>3, <3>4 DEF TypeOK, Call
  <2>3. ThreadInv(t)'
    BY <1>1, <2>1 DEF TypeOK, Call, ThreadInv, Inside
  <2>4. Private(t) /\ UNCHANGED <<lock, pos, inner, cursor>>
    BY <1>1, <2>1 DEF TypeOK, Call, Private
  <2> QED BY <2>2, <2>3, <2>4, OthersKeep DEF SourceInv
<1>3. CASE ReturnEmpty(t)
  <2>1. TypeOK'
    BY <1>1, <1>3 DEF TypeOK, ReturnEmpty
  <2>2. Want(t) = 0 /\ UNCHANGED Want(t)
    <3>1. asked[t].len \in Nat
      BY <1>1 DEF TypeOK
    <3> QED BY <1>1, <1>3, <3>1 DEF ReturnEmpty, ThreadInv, Want, AtMost
  <2>3. ThreadInv(t)'
    BY <1>1, <1>3, <2>2 DEF TypeOK, ReturnEmpty, ThreadInv, Inside
  <2>4. Private(t) /\ UNCHANGED <<lock, pos, inner, cursor>>
    BY <1>1, <1>3 DEF TypeOK, ReturnEmpty, Private
  <2> QED BY <2>1, <2>3, <2>4, OthersKeep DEF SourceInv
<1>4. CASE Lock(t)
  <2>1. TypeOK'
    BY <1>1, <1>4 DEF TypeOK, Lock
  <2>2. ThreadInv(t)'
    BY <1>1, <1>4 DEF TypeOK, Lock, ThreadInv, Inside, Want
  <2>3. Private(t) /\ lock = NoOwner /\ UNCHANGED <<pos, inner, cursor>>
    BY <1>1, <1>4 DEF TypeOK, Lock, Private
  <2> QED BY <2>1, <2>2, <2>3, OthersKeep DEF SourceInv
<1>5. CASE SeekReader(t)
  <2>1. TypeOK'
    BY <1>1, <1>5 DEF TypeOK, SeekReader
  <2>2. Want(t) \in Nat /\ UNCHANGED Want(t)
    BY <1>5, WantBounds DEF SeekReader, Want
  <2>3. ThreadInv(t)'
    BY <1>1, <1>5, <2>2 DEF TypeOK, SeekReader, ThreadInv, Inside
  <2>4. lock = t /\ inner # t
    BY <1>1, <1>5 DEF SeekReader, ThreadInv, Inside
  <2>5. inner = NoOwner /\ inner' = NoOwner
    BY <1>5, <2>4 DEF SeekReader, SourceInv, ThreadInv, Inside, TypeOK
  <2>6. Private(t)
    BY <1>1, <1>5 DEF TypeOK, SeekReader, Private
  <2> QED BY <2>1, <2>3, <2>4, <2>5, <2>6, OthersKeep DEF SourceInv
<1>6. CASE Return(t)
  <2>1. TypeOK'
    BY <1>1, <1>6 DEF TypeOK, Return
  <2>2. UNCHANGED Want(t)
    BY <1>6 DEF Return, Want
  <2>3. ThreadInv(t)'
    BY <1>1, <1>6, <2>2 DEF TypeOK, Return, ThreadInv, Inside
  <2>4. lock = t /\ inner # t
    BY <1>1, <1>6 DEF Return, ThreadInv, Inside
  <2>5. inner = NoOwner /\ inner' = NoOwner
    BY <1>6, <2>4 DEF Return, SourceInv, ThreadInv, Inside, TypeOK
  <2>6. Private(t)
    BY <1>1, <1>6 DEF TypeOK, Return, Private
  <2> QED BY <2>1, <2>3, <2>4, <2>5, <2>6, OthersKeep DEF SourceInv
<1> QED BY <1>2, <1>3, <1>4, <1>5, <1>6

\* The steps of the holder of the lock inside the reader.
LEMMA ReadSteps ==
    ASSUME SourceInv, NEW t \in Thread,
           StartRead(t) \/ ReadChunk(t) \/ ReadReturns(t)
    PROVE  SourceInv'
<1>1. TypeOK /\ ThreadInv(t)
  BY DEF SourceInv
<1> USE DEF shared, client, local, count
<1>2. pc[t] \in {"loop", "read"} /\ lock = t /\ UNCHANGED <<lock, inner, asked>>
  BY <1>1 DEF StartRead, ReadChunk, ReadReturns, ThreadInv, Inside
<1>3. inner = NoOwner /\ inner' = NoOwner
  BY <1>2 DEF SourceInv, ThreadInv, Inside, TypeOK
<1>4. Want(t) \in Nat /\ UNCHANGED Want(t) /\ (Want(t) > 0 => asked[t].off + Want(t) <= DiskLen)
  BY <1>2, WantBounds DEF Want
<1>5. /\ asked[t].off \in Nat /\ total[t] \in Nat /\ toRead[t] \in Nat
      /\ written[t] \in Nat /\ pos \in Nat /\ DiskLen \in Nat /\ bytes[t] \in Seq(Nat)
  BY <1>1, SourceAssumption DEF TypeOK
<1>6. CASE StartRead(t)
  <2>1. toRead'[t] \in Nat /\ total[t] + toRead'[t] <= Want(t)
    <3> DEFINE r == toRead'[t]
               a == total[t]
               w == Want(t)
    <3>1. pc[t] = "loop" /\ a < w /\ r = AtMost(w - a, DiskLen - pos)
      BY <1>1, <1>6 DEF TypeOK, StartRead
    <3>2. pos = asked[t].off + a /\ asked[t].off + w <= DiskLen
      BY <1>1, <1>4, <1>5, <3>1 DEF ThreadInv
    <3>3. a \in Nat /\ w \in Nat /\ pos \in Nat /\ DiskLen \in Nat /\ asked[t].off \in Nat
      BY <1>4, <1>5
    <3> HIDE DEF r, a, w
    <3>4. r \in Nat /\ a + r <= w
      BY <3>1, <3>2, <3>3 DEF AtMost
    <3> QED BY <3>4 DEF r, a, w
  <2>2. TypeOK'
    <3>1. toRead' \in [Thread -> Nat] /\ written' \in [Thread -> Nat]
      BY <1>1, <1>6, <2>1 DEF TypeOK, StartRead
    <3> QED BY <1>1, <1>6, <3>1 DEF TypeOK, StartRead
  <2>3. ThreadInv(t)'
    <3>1. /\ pc[t] = "loop" /\ pc'[t] = "read" /\ written'[t] = 0
          /\ UNCHANGED <<pos, total, status, bytes, asked>>
      BY <1>1, <1>6 DEF TypeOK, StartRead
    <3>2. /\ status[t] = "pending" /\ pos = asked[t].off + total[t]
          /\ Len(bytes[t]) = total[t] /\ total[t] <= Want(t)
          /\ \A k \in 1 .. Len(bytes[t]) : bytes[t][k] = asked[t].off + k - 1
      BY <1>1, <3>1 DEF ThreadInv
    <3>3. 0 <= toRead'[t] /\ Len(bytes[t]) = total[t] + 0
      BY <1>5, <2>1, <3>2
    <3> QED BY <1>2, <1>3, <1>4, <2>1, <3>1, <3>2, <3>3, SourceAssumption DEF ThreadInv, Inside
  <2>4. Private(t)
    BY <1>1, <1>6 DEF TypeOK, StartRead, Private
  <2> QED BY <1>2, <1>3, <2>2, <2>3, <2>4, OthersKeep DEF SourceInv
<1>7. CASE ReadChunk(t)
  <2> DEFINE n == Chunk(t)
  <2>1. n \in 1 .. toRead[t] - written[t]
    BY <1>7, ChunkBounds DEF ReadChunk
  <2>2. Len(bytes[t]) = total[t] + written[t]
        /\ V(t) = asked[t].off + Len(bytes[t])
    <3>1. pc[t] = "read"
      BY <1>7 DEF ReadChunk
    <3>2. Len(bytes[t]) = total[t] + written[t] /\ pos = asked[t].off + total[t]
      BY <1>1, <3>1 DEF ThreadInv
    <3> DEFINE l == Len(bytes[t])
               o == asked[t].off
               a == total[t]
               w == written[t]
    <3>3. V(t) = pos + w /\ l = a + w /\ pos = o + a
      BY <3>2 DEF V
    <3>4. o \in Nat /\ a \in Nat /\ w \in Nat
      BY <1>5
    <3> HIDE DEF l, o, a, w
    <3>5. V(t) = o + l
      BY <3>3, <3>4
    <3> QED BY <3>2, <3>5 DEF l, o
  <2>3. bytes'[t] = bytes[t] \o [k \in 1 .. n |-> asked[t].off + Len(bytes[t]) + k - 1]
    BY <1>1, <1>7, <2>2 DEF ReadChunk, Append_, TypeOK
  <2>4. written'[t] = written[t] + n
    BY <1>1, <1>7 DEF ReadChunk, TypeOK
  <2> HIDE DEF n
  <2>5. n \in Nat /\ \A k \in 1 .. Len(bytes[t]) : bytes[t][k] = asked[t].off + k - 1
    BY <1>1, <1>5, <2>1 DEF ThreadInv
  <2>6. /\ bytes'[t] \in Seq(Nat) /\ Len(bytes'[t]) = Len(bytes[t]) + n
        /\ \A k \in 1 .. Len(bytes'[t]) : bytes'[t][k] = asked[t].off + k - 1
    <3> DEFINE s == bytes[t]
               u == bytes'[t]
               o == asked[t].off
               more == [k \in 1 .. n |-> o + Len(s) + k - 1]
    <3>1. s \in Seq(Nat) /\ o \in Nat /\ n \in Nat
      BY <1>5, <2>5
    <3>2. \A k \in 1 .. Len(s) : s[k] = o + k - 1
      BY <2>5
    <3>3. u = s \o more
      BY <2>3
    <3>4. Len(s) \in Nat
      BY <3>1
    <3>5. more \in [1 .. n -> Nat]
      BY <3>1, <3>4
    <3>6. more \in Seq(Nat) /\ Len(more) = n
      BY <3>1, <3>5, SeqDef
    <3>7. \A k \in 1 .. n : more[k] = o + Len(s) + k - 1
      OBVIOUS
    <3> HIDE DEF s, u, o, more
    <3>8. /\ u \in Seq(Nat) /\ Len(u) = Len(s) + n
          /\ \A k \in 1 .. Len(u) : u[k] = o + k - 1
      BY <3>1, <3>2, <3>3, <3>6, <3>7, AppendRun
    <3> QED BY <3>8 DEF s, u, o
  <2>7. TypeOK'
    <3>1. bytes' \in [Thread -> Seq(Nat)]
      BY <1>1, <1>7, <2>6 DEF TypeOK, ReadChunk, Append_
    <3>2. written' \in [Thread -> Nat]
      <4>0. written \in [Thread -> Nat]
        BY <1>1 DEF TypeOK
      <4>1. written[t] + n \in Nat
        BY <1>5, <2>5
      <4>2. written' = [written EXCEPT ![t] = written[t] + n]
        BY <1>7 DEF ReadChunk, n
      <4> QED BY <4>0, <4>1, <4>2, Update
    <3> QED BY <1>1, <1>7, <3>1, <3>2 DEF TypeOK, ReadChunk
  <2>8. written'[t] <= toRead[t] /\ Len(bytes'[t]) = total[t] + written'[t]
    <3> DEFINE l == Len(bytes[t])
               m == Len(bytes'[t])
               w == written'[t]
               a == total[t]
               b == written[t]
               r == toRead[t]
    <3>1. m = l + n /\ w = b + n /\ l = a + b
      BY <2>2, <2>4, <2>6
    <3>2. n \in 1 .. r - b /\ a \in Nat /\ b \in Nat /\ r \in Nat
      BY <1>5, <2>1
    <3> HIDE DEF l, m, w, n, a, b, r
    <3>3. w <= r /\ m = a + w
      BY <3>1, <3>2
    <3> QED BY <3>3 DEF m, w, a, r
  <2>9. UNCHANGED <<pc, status, total, toRead, asked, pos>>
    BY <1>7 DEF ReadChunk
  <2>10. ThreadInv(t)'
    BY <1>1, <1>2, <1>3, <1>4, <1>7, <2>6, <2>8, <2>9 DEF ReadChunk, ThreadInv, Inside
  <2>11. Private(t)
    BY <1>1, <1>7 DEF TypeOK, ReadChunk, Append_, Private
  <2> QED BY <1>2, <1>3, <2>7, <2>10, <2>11, OthersKeep DEF SourceInv
<1>8. CASE ReadReturns(t)
  <2>1. pos' = pos + written[t] /\ total'[t] = total[t] + written[t]
    BY <1>1, <1>8 DEF TypeOK, ReadReturns
  <2>2. TypeOK'
    <3>1. total' \in [Thread -> Nat]
      <4>0. total \in [Thread -> Nat]
        BY <1>1 DEF TypeOK
      <4>1. total[t] + written[t] \in Nat
        BY <1>5
      <4>2. total' = [total EXCEPT ![t] = total[t] + written[t]]
        BY <1>8 DEF ReadReturns
      <4> QED BY <4>0, <4>1, <4>2, Update
    <3>2. pos' \in Nat
      BY <1>5, <2>1
    <3> QED BY <1>1, <1>8, <3>1, <3>2 DEF TypeOK, ReadReturns
  <2>3. ThreadInv(t)'
    BY <1>1, <1>3, <1>4, <1>5, <1>8, <2>1 DEF TypeOK, ReadReturns, ThreadInv, Inside
  <2>4. Private(t)
    BY <1>1, <1>8 DEF TypeOK, ReadReturns, Private
  <2> QED BY <1>2, <1>3, <2>2, <2>3, <2>4, OthersKeep DEF SourceInv
<1> QED BY <1>6, <1>7, <1>8

\* The steps inside a cursor backing.
LEMMA BackingSteps ==
    ASSUME SourceInv, NEW t \in Thread,
           LockBacking(t) \/ (\E n \in 1 .. DiskLen : FillSome(t, n)) \/ FillReturns(t)
    PROVE  SourceInv'
<1>1. TypeOK /\ ThreadInv(t)
  BY DEF SourceInv
<1> USE DEF shared, client, local, count
<1>2. /\ pc[t] \in {"read", "fill"} /\ lock = t
      /\ UNCHANGED <<lock, pos, asked, status, total, toRead>>
  BY <1>1 DEF LockBacking, FillSome, FillReturns, ThreadInv, Inside
<1>3. inner \in {t, NoOwner} /\ inner' \in {t, NoOwner}
  <2>1. inner \in {t, NoOwner}
    BY <1>2 DEF SourceInv, ThreadInv, Inside, TypeOK
  <2> QED BY <2>1 DEF LockBacking, FillSome, FillReturns
<1>4. Want(t) \in Nat /\ UNCHANGED Want(t)
  BY <1>2, WantBounds DEF Want
<1>5. /\ asked[t].off \in Nat /\ total[t] \in Nat /\ toRead[t] \in Nat
      /\ written[t] \in Nat /\ filled[t] \in Nat /\ pos \in Nat /\ cursor \in Nat
      /\ bytes[t] \in Seq(Nat)
  BY <1>1 DEF TypeOK
<1>6. written[t] < toRead[t]
  BY <1>1 DEF LockBacking, FillSome, FillReturns, ThreadInv
<1>7. Chunk(t) \in 1 .. toRead[t] - written[t]
  BY <1>6, ChunkBounds
<1>8. CASE LockBacking(t)
  <2>1. UNCHANGED <<Chunk(t), V(t)>>
    <3>1. UNCHANGED <<pos, written, toRead>>
      BY <1>8 DEF LockBacking
    <3> QED BY <3>1 DEF Chunk, V
  <2>2. V(t) \in Nat
    BY <1>5 DEF V
  <2>3. TypeOK'
    BY <1>1, <1>8, <2>2 DEF TypeOK, LockBacking
  <2>4. filled'[t] = 0 /\ pc'[t] = "fill" /\ cursor' = V(t)
    BY <1>1, <1>8 DEF TypeOK, LockBacking
  <2>5. inner' = t /\ pc[t] = "read" /\ UNCHANGED <<bytes, written>>
    BY <1>8 DEF LockBacking
  <2>6. /\ total[t] + toRead[t] <= Want(t) /\ pos = asked[t].off + total[t]
        /\ Len(bytes[t]) = total[t] + written[t] /\ status[t] = "pending"
        /\ \A k \in 1 .. Len(bytes[t]) : bytes[t][k] = asked[t].off + k - 1
    BY <1>1, <2>5 DEF ThreadInv
  <2>7. /\ filled'[t] <= Chunk(t) /\ cursor' = V(t) + filled'[t]
        /\ Len(bytes[t]) = total[t] + written[t] + filled'[t]
    <3>1. Chunk(t) >= 0
      BY <1>5, <1>7
    <3>2. total[t] + written[t] + 0 = total[t] + written[t] /\ V(t) + 0 = V(t)
      BY <1>5, <2>2
    <3> QED BY <2>4, <2>6, <3>1, <3>2
  <2>8. ThreadInv(t)'
    BY <1>2, <1>4, <1>5, <1>6, <2>1, <2>4, <2>5, <2>6, <2>7 DEF ThreadInv, Inside
  <2>9. Private(t)
    BY <1>1, <1>8 DEF TypeOK, LockBacking, Private
  <2> QED BY <1>2, <1>3, <2>3, <2>8, <2>9, OthersKeep DEF SourceInv
<1>9. ASSUME NEW n \in 1 .. DiskLen, FillSome(t, n) PROVE SourceInv'
  <2>1. n \in Nat /\ n <= Chunk(t) - filled[t]
    BY <1>9 DEF FillSome
  <2>2. /\ UNCHANGED <<Chunk(t), V(t), pc, written>>
        /\ filled'[t] = filled[t] + n /\ cursor' = cursor + n
    BY <1>1, <1>9 DEF TypeOK, FillSome, Chunk, V
  <2>3. Len(bytes[t]) = total[t] + written[t] + filled[t]
        /\ cursor = asked[t].off + Len(bytes[t])
    <3>1. pc[t] = "fill"
      BY <1>9 DEF FillSome
    <3>2. /\ Len(bytes[t]) = total[t] + written[t] + filled[t]
          /\ pos = asked[t].off + total[t] /\ cursor = V(t) + filled[t]
      BY <1>1, <3>1 DEF ThreadInv
    <3> DEFINE l == Len(bytes[t])
               o == asked[t].off
               a == total[t]
               w == written[t]
               f == filled[t]
    <3>3. cursor = pos + w + f /\ l = a + w + f /\ pos = o + a
      BY <3>2 DEF V
    <3>4. o \in Nat /\ a \in Nat /\ w \in Nat /\ f \in Nat
      BY <1>5
    <3> HIDE DEF l, o, a, w, f
    <3>5. cursor = o + l
      BY <3>3, <3>4
    <3> QED BY <3>2, <3>5 DEF l, o
  <2>4. bytes'[t] = bytes[t] \o [k \in 1 .. n |-> asked[t].off + Len(bytes[t]) + k - 1]
    BY <1>1, <1>9, <2>3 DEF FillSome, Append_, TypeOK
  <2>5. \A k \in 1 .. Len(bytes[t]) : bytes[t][k] = asked[t].off + k - 1
    BY <1>1 DEF ThreadInv
  <2>6. /\ bytes'[t] \in Seq(Nat) /\ Len(bytes'[t]) = Len(bytes[t]) + n
        /\ \A k \in 1 .. Len(bytes'[t]) : bytes'[t][k] = asked[t].off + k - 1
    <3> DEFINE s == bytes[t]
               m == n
               u == bytes'[t]
               o == asked[t].off
               more == [k \in 1 .. m |-> o + Len(s) + k - 1]
    <3>1. s \in Seq(Nat) /\ o \in Nat /\ m \in Nat
      BY <1>5, <2>1
    <3>2. \A k \in 1 .. Len(s) : s[k] = o + k - 1
      BY <2>5
    <3>3. u = s \o more
      BY <2>4
    <3>4. Len(s) \in Nat
      BY <3>1
    <3>5. more \in [1 .. n -> Nat]
      BY <3>1, <3>4
    <3>6. more \in Seq(Nat) /\ Len(more) = m
      BY <3>1, <3>5, SeqDef
    <3>7. \A k \in 1 .. m : more[k] = o + Len(s) + k - 1
      OBVIOUS
    <3> HIDE DEF s, u, o, m, more
    <3>8. /\ u \in Seq(Nat) /\ Len(u) = Len(s) + m
          /\ \A k \in 1 .. Len(u) : u[k] = o + k - 1
      BY <3>1, <3>2, <3>3, <3>6, <3>7, AppendRun
    <3> QED BY <3>8 DEF s, u, o, m
  <2>7. TypeOK'
    <3>1. bytes' \in [Thread -> Seq(Nat)]
      BY <1>1, <1>9, <2>6 DEF TypeOK, FillSome, Append_
    <3>2. filled' \in [Thread -> Nat] /\ cursor' \in Nat
      <4>0. filled \in [Thread -> Nat]
        BY <1>1 DEF TypeOK
      <4>1. filled[t] + n \in Nat
        BY <1>5, <2>1
      <4>2. filled' = [filled EXCEPT ![t] = filled[t] + n]
        BY <1>9 DEF FillSome
      <4> QED BY <1>5, <2>1, <2>2, <4>0, <4>1, <4>2, Update
    <3> QED BY <1>1, <1>9, <3>1, <3>2 DEF TypeOK, FillSome
  <2>8. /\ filled'[t] <= Chunk(t) /\ cursor' = V(t) + filled'[t]
        /\ Len(bytes'[t]) = total[t] + written[t] + filled'[t]
    <3>1. pc[t] = "fill" /\ V(t) \in Nat
      BY <1>5, <1>9 DEF FillSome, V
    <3>2. cursor = V(t) + filled[t]
      BY <1>1, <3>1 DEF ThreadInv
    <3>3. filled'[t] <= Chunk(t)
      BY <1>5, <1>7, <2>1, <2>2
    <3>4. cursor' = V(t) + filled'[t]
      BY <1>5, <2>1, <2>2, <3>1, <3>2
    <3>5. Len(bytes'[t]) = total[t] + written[t] + filled'[t]
      <4> DEFINE l == Len(bytes[t])
                 m == Len(bytes'[t])
                 f == filled'[t]
      <4>1. m = l + n /\ f = filled[t] + n /\ l = total[t] + written[t] + filled[t]
        BY <2>2, <2>3, <2>6
      <4> HIDE DEF l, m, f
      <4>2. m = total[t] + written[t] + f
        BY <1>5, <2>1, <4>1
      <4> QED BY <4>2 DEF m, f
    <3> QED BY <3>3, <3>4, <3>5
  <2>9. pc[t] = "fill" /\ UNCHANGED inner
    BY <1>9 DEF FillSome
  <2>10. ThreadInv(t)'
    BY <1>1, <1>2, <1>4, <2>2, <2>6, <2>8, <2>9 DEF ThreadInv, Inside
  <2>11. Private(t)
    BY <1>1, <1>9 DEF TypeOK, FillSome, Append_, Private
  <2> QED BY <1>2, <1>3, <2>7, <2>10, <2>11, OthersKeep DEF SourceInv
<1>10. CASE FillReturns(t)
  <2>1. written'[t] = written[t] + Chunk(t) /\ pc'[t] = "read" /\ UNCHANGED bytes
    BY <1>1, <1>10 DEF TypeOK, FillReturns
  <2>2. TypeOK'
    <3>1. written' \in [Thread -> Nat]
      <4>1. written \in [Thread -> Nat]
        BY <1>1 DEF TypeOK
      <4>2. written[t] + Chunk(t) \in Nat
        BY <1>5, <1>7
      <4>3. written' = [written EXCEPT ![t] = written[t] + Chunk(t)]
        BY <1>10 DEF FillReturns
      <4> QED BY <4>1, <4>2, <4>3, Update
    <3> QED BY <1>1, <1>10, <3>1 DEF TypeOK, FillReturns
  <2>3. written'[t] <= toRead[t] /\ Len(bytes[t]) = total[t] + written'[t]
    <3> DEFINE l == Len(bytes[t])
               c == Chunk(t)
               w == written'[t]
    <3>1. pc[t] = "fill" /\ filled[t] = c
      BY <1>10 DEF FillReturns
    <3>2. l = total[t] + written[t] + filled[t]
      BY <1>1, <3>1 DEF ThreadInv
    <3>3. w = written[t] + c /\ c \in 1 .. toRead[t] - written[t]
      BY <1>7, <2>1
    <3> HIDE DEF l, c, w
    <3>4. w <= toRead[t] /\ l = total[t] + w
      BY <1>5, <3>1, <3>2, <3>3
    <3> QED BY <3>4 DEF l, w
  <2>4. inner' # t
    BY <1>10, SourceAssumption DEF FillReturns
  <2>5. ThreadInv(t)'
    BY <1>1, <1>2, <1>4, <1>10, <2>1, <2>3, <2>4 DEF FillReturns, ThreadInv, Inside
  <2>6. Private(t)
    BY <1>1, <1>10 DEF TypeOK, FillReturns, Private
  <2> QED BY <1>2, <1>3, <2>2, <2>5, <2>6, OthersKeep DEF SourceInv
<1> QED BY <1>8, <1>9, <1>10

\* A call that ends without a result, by an error or by a panic.
LEMMA FailSteps ==
    ASSUME SourceInv, NEW t \in Thread,
           ContainerFails(t) \/ Panic(t) \/ BackingPoisoned(t)
    PROVE  SourceInv'
<1>1. TypeOK /\ ThreadInv(t)
  BY DEF SourceInv
<1> USE DEF shared, client, local, count
<1>2. pc[t] \in {"read", "fill"} /\ lock = t /\ Abandon(t)
  BY <1>1 DEF ContainerFails, Panic, BackingPoisoned, InContainer, ThreadInv, Inside
<1>3. inner \in {t, NoOwner} /\ inner' = NoOwner
  <2>1. inner \in {t, NoOwner}
    BY <1>2 DEF SourceInv, ThreadInv, Inside, TypeOK
  <2> QED BY <1>2, <2>1 DEF Abandon
<1>4. <<>> \in Seq(Nat)
  OBVIOUS
<1>5. /\ pc' \in [Thread -> {"idle", "empty", "lock", "seek", "loop", "read", "fill"}]
      /\ status' \in [Thread -> {"none", "pending", "ok", "failed"}]
      /\ bytes' \in [Thread -> Seq(Nat)]
      /\ lock' = NoOwner
      /\ pc'[t] = "idle" /\ status'[t] = "failed" /\ bytes'[t] = <<>>
  BY <1>1, <1>2, <1>4 DEF TypeOK, Abandon
<1>6. /\ UNCHANGED <<backing, pos, cursor, asked, total, toRead, written, filled, calls>>
      /\ poisoned' \in BOOLEAN /\ faults' \in Nat /\ panics' \in Nat
      /\ met' \in [Thread -> BOOLEAN]
  <2>1. UNCHANGED <<backing, pos, cursor, asked, total, toRead, written, filled, calls>>
    BY <1>2 DEF Abandon
  <2>2. CASE ContainerFails(t)
    BY <1>1, <2>1, <2>2 DEF TypeOK, ContainerFails
  <2>3. CASE Panic(t)
    BY <1>1, <2>1, <2>3 DEF TypeOK, Panic
  <2>4. CASE BackingPoisoned(t)
    BY <1>1, <2>1, <2>4 DEF TypeOK, BackingPoisoned
  <2> QED BY <2>2, <2>3, <2>4
<1>7. TypeOK'
  BY <1>1, <1>3, <1>5, <1>6 DEF TypeOK
<1>8. ThreadInv(t)'
  BY <1>3, <1>5, SourceAssumption DEF ThreadInv, Inside
<1>9. Private(t)
  BY <1>1, <1>2, <1>6 DEF TypeOK, Abandon, Private
<1> QED BY <1>2, <1>3, <1>7, <1>8, <1>9, OthersKeep DEF SourceInv

LEMMA StepHolds == SourceInv /\ [Next]_vars => SourceInv'
<1> SUFFICES ASSUME SourceInv, [Next]_vars PROVE SourceInv'
  OBVIOUS
<1>1. CASE Next
  <2>1. PICK t \in Thread : (\E r \in Request : Call(t, r)) \/ Step(t)
    BY <1>1 DEF Next
  <2> QED BY <2>1, CallSteps, ReadSteps, BackingSteps, FailSteps DEF Step
<1>2. CASE UNCHANGED vars
  <2>1. UNCHANGED <<backing, lock, pos, inner, poisoned, cursor, pc, asked, status,
                    bytes, total, toRead, written, filled, calls, faults, panics, met>>
    BY <1>2 DEF vars, shared, client, local, count
  <2>2. TypeOK'
    BY <2>1 DEF SourceInv, TypeOK
  <2>3. ASSUME NEW t \in Thread PROVE ThreadInv(t)'
    <3>1. ThreadInv(t)
      BY DEF SourceInv
    <3>2. UNCHANGED <<Want(t), Avail(asked[t]), Chunk(t), V(t)>>
      BY <2>1 DEF Want, Avail, Chunk, V
    <3> QED BY <2>1, <3>1, <3>2 DEF ThreadInv, Inside
  <2> QED BY <2>2, <2>3 DEF SourceInv
<1> QED BY <1>1, <1>2

-----------------------------------------------------------------------------
(* Theorems                                                                *)

\* The variables have their types, whatever fails or panics.
THEOREM TypeCorrect == Spec => []TypeOK
<1>1. SourceInv => TypeOK
  BY DEF SourceInv
<1> QED BY <1>1, InitHolds, StepHolds, PTL DEF Spec

\* A call that is past its seek holds the lock, and the position is where its own
\* reads left it.
THEOREM ReaderAlwaysOwned == Spec => []ReaderIsOwned
<1>1. SourceInv => ReaderIsOwned
  BY DEF SourceInv, ThreadInv, ReaderIsOwned, Inside
<1> QED BY <1>1, InitHolds, StepHolds, PTL DEF Spec

\* The backing's lock is held by the holder of the source's lock or by nobody.
THEOREM BackingNeverContended == Spec => []BackingUncontended
<1>1. SourceInv => BackingUncontended
  BY DEF SourceInv, TypeOK, ThreadInv, BackingUncontended, Inside
<1> QED BY <1>1, InitHolds, StepHolds, PTL DEF Spec

\* A call that succeeds returns the bytes of its own range.
THEOREM BytesAreOwn == Spec => []OwnBytes
<1>1. SourceInv => OwnBytes
  <2> SUFFICES ASSUME SourceInv, NEW t \in Thread, status[t] = "ok"
               PROVE  bytes[t] = [k \in 1 .. Want(t) |-> asked[t].off + k - 1]
    BY DEF OwnBytes
  <2>1. bytes[t] \in Seq(Nat) /\ Len(bytes[t]) = Want(t)
        /\ \A k \in 1 .. Len(bytes[t]) : bytes[t][k] = asked[t].off + k - 1
    BY DEF SourceInv, TypeOK, ThreadInv
  <2> QED BY <2>1
<1> QED BY <1>1, InitHolds, StepHolds, PTL DEF Spec

-----------------------------------------------------------------------------
(* Failures, and the positioned source                                     *)

LEMMA FailuresInit == Init => FailuresAreOwn
BY DEF Init, FailuresAreOwn

LEMMA FailuresStep == SourceInv /\ FailuresAreOwn /\ [Next]_vars => FailuresAreOwn'
<1> SUFFICES ASSUME SourceInv, FailuresAreOwn, [Next]_vars,
                    backing' = "positioned", NEW u \in Thread, status'[u] = "failed"
             PROVE  met'[u]
  BY DEF FailuresAreOwn
<1> USE DEF shared, client, local, count
<1>1. status \in [Thread -> {"none", "pending", "ok", "failed"}] /\ met \in [Thread -> BOOLEAN]
  BY DEF SourceInv, TypeOK
<1>2. CASE UNCHANGED vars
  BY <1>2 DEF vars, FailuresAreOwn
<1>3. ASSUME NEW t \in Thread, NEW r \in Request, Call(t, r) PROVE met'[u]
  BY <1>1, <1>3 DEF Call, FailuresAreOwn
<1>4. ASSUME NEW t \in Thread, ContainerFails(t) \/ Panic(t) PROVE met'[u]
  BY <1>1, <1>4 DEF ContainerFails, Panic, Abandon, FailuresAreOwn
<1>5. ASSUME NEW t \in Thread, BackingPoisoned(t) PROVE met'[u]
  BY <1>5 DEF BackingPoisoned, Abandon
<1>6. ASSUME NEW t \in Thread,
             \/ ReturnEmpty(t) \/ Lock(t) \/ SeekReader(t) \/ StartRead(t) \/ Return(t)
             \/ ReadChunk(t) \/ ReadReturns(t)
             \/ LockBacking(t) \/ (\E n \in 1 .. DiskLen : FillSome(t, n)) \/ FillReturns(t)
      PROVE  met'[u]
  <2>1. UNCHANGED <<backing, met>>
    BY <1>6 DEF ReturnEmpty, Lock, SeekReader, StartRead, Return, ReadChunk, ReadReturns,
                LockBacking, FillSome, FillReturns
  <2>2. status'[u] = status[u] \/ status'[u] = "ok"
    BY <1>1, <1>6 DEF ReturnEmpty, Lock, SeekReader, StartRead, Return, ReadChunk,
                      ReadReturns, LockBacking, FillSome, FillReturns
  <2> QED BY <2>1, <2>2 DEF FailuresAreOwn
<1> QED BY <1>2, <1>3, <1>4, <1>5, <1>6 DEF Next, Step

\* What a client sees: the state of ImageSource.
Shown == [t \in Thread |-> IF status[t] = "ok" THEN bytes[t] ELSE <<>>]

LEMMA WantIsWant == ASSUME NEW t \in Thread PROVE Source!Want(asked[t]) = Want(t)
BY DEF Source!Want, Want, Avail, AtMost

LEMMA ImplementsInit == Init => Source!Init
BY DEF Init, Source!Init, NoRequest, Source!NoRequest

\* Each step is a step of ImageSource, or is not seen by a client.
LEMMA ImplementsStep ==
    SourceInv /\ SourceInv' /\ [Next]_vars => [Source!Next]_(Source!vars)
<1> SUFFICES ASSUME SourceInv, SourceInv', [Next]_vars
             PROVE  Source!Next \/ UNCHANGED <<asked, status, Shown>>
  BY DEF Source!vars, Shown
<1> USE DEF shared, client, local, count
<1>1. TypeOK /\ TypeOK'
  BY DEF SourceInv
<1>2. CASE UNCHANGED vars
  BY <1>2 DEF vars, Shown
<1>3. ASSUME NEW t \in Thread, NEW r \in Request, Call(t, r) PROVE Source!Next
  <2>1. status[t] # "pending"
    BY <1>3 DEF Call, SourceInv, ThreadInv
  <2>2. /\ asked' = [asked EXCEPT ![t] = r]
        /\ status' = [status EXCEPT ![t] = "pending"]
        /\ bytes' = [bytes EXCEPT ![t] = <<>>]
    BY <1>3 DEF Call
  <2>3. Shown' = [Shown EXCEPT ![t] = <<>>]
    BY <1>1, <2>2 DEF Shown, TypeOK
  <2>4. Source!Call(t, r)
    BY <2>1, <2>2, <2>3 DEF Source!Call, Shown
  <2> QED BY <2>4 DEF Source!Next
<1>4. ASSUME NEW t \in Thread, ReturnEmpty(t) \/ Return(t) PROVE Source!Next
  <2>1. status[t] = "pending"
    BY <1>4 DEF ReturnEmpty, Return, SourceInv, ThreadInv
  <2>2. /\ status' = [status EXCEPT ![t] = "ok"]
        /\ UNCHANGED <<asked, bytes>>
    BY <1>4 DEF ReturnEmpty, Return
  <2>3. bytes[t] = Source!Slice(asked[t])
    <3>1. status'[t] = "ok"
      BY <1>1, <2>2 DEF TypeOK
    <3>2. UNCHANGED Want(t)
      BY <2>2 DEF Want
    <3>3. bytes[t] \in Seq(Nat) /\ Len(bytes[t]) = Want(t)
          /\ \A k \in 1 .. Len(bytes[t]) : bytes[t][k] = asked[t].off + k - 1
      <4>1. bytes[t] \in Seq(Nat)
        BY <1>1 DEF TypeOK
      <4>2. ThreadInv(t)'
        BY DEF SourceInv
      <4>3. /\ Len(bytes'[t]) = Want(t)'
            /\ \A k \in 1 .. Len(bytes'[t]) : bytes'[t][k] = asked'[t].off + k - 1
        BY <3>1, <4>2 DEF ThreadInv
      <4> QED BY <2>2, <3>2, <4>1, <4>3
    <3>4. bytes[t] = [k \in 1 .. Want(t) |-> asked[t].off + k - 1]
      <4> DEFINE s == bytes[t]
      <4>1. s \in Seq(Nat) /\ Len(s) = Want(t)
            /\ \A k \in 1 .. Len(s) : s[k] = asked[t].off + k - 1
        BY <3>3
      <4> HIDE DEF s
      <4>2. s = [k \in 1 .. Len(s) |-> s[k]]
        BY <4>1
      <4>3. s = [k \in 1 .. Want(t) |-> asked[t].off + k - 1]
        BY <4>1, <4>2
      <4> QED BY <4>3 DEF s
    <3>5. Source!Want(asked[t]) = Want(t)
      BY WantIsWant
    <3> QED BY <3>4, <3>5 DEF Source!Slice
  <2>4. Shown' = [Shown EXCEPT ![t] = Source!Slice(asked[t])]
    BY <1>1, <2>2, <2>3 DEF Shown, TypeOK
  <2>5. Source!Return(t)
    BY <2>1, <2>2, <2>4 DEF Source!Return, Shown
  <2> QED BY <2>5 DEF Source!Next
<1>5. ASSUME NEW t \in Thread, ContainerFails(t) \/ Panic(t) \/ BackingPoisoned(t)
      PROVE  Source!Next
  <2>1. status[t] = "pending"
    BY <1>5 DEF ContainerFails, Panic, BackingPoisoned, InContainer, SourceInv, ThreadInv
  <2>2. /\ status' = [status EXCEPT ![t] = "failed"]
        /\ bytes' = [bytes EXCEPT ![t] = <<>>]
        /\ UNCHANGED asked
    BY <1>5 DEF ContainerFails, Panic, BackingPoisoned, Abandon
  <2>3. UNCHANGED Shown
    BY <1>1, <2>1, <2>2 DEF Shown, TypeOK
  <2>4. Source!Fail(t)
    BY <2>1, <2>2, <2>3 DEF Source!Fail, Shown
  <2> QED BY <2>4 DEF Source!Next
<1>6. ASSUME NEW t \in Thread,
             \/ Lock(t) \/ SeekReader(t) \/ StartRead(t) \/ ReadReturns(t)
             \/ LockBacking(t) \/ FillReturns(t)
      PROVE  UNCHANGED <<asked, status, Shown>>
  <2>1. UNCHANGED <<asked, status, bytes>>
    BY <1>6 DEF Lock, SeekReader, StartRead, ReadReturns, LockBacking, FillReturns
  <2> QED BY <2>1 DEF Shown
<1>7. ASSUME NEW t \in Thread, ReadChunk(t) \/ \E n \in 1 .. DiskLen : FillSome(t, n)
      PROVE  UNCHANGED <<asked, status, Shown>>
  <2>1. pc[t] # "idle" /\ UNCHANGED <<asked, status>>
    BY <1>7 DEF ReadChunk, FillSome
  <2>2. status[t] = "pending"
    BY <2>1 DEF SourceInv, ThreadInv
  <2>3. \A u \in Thread \ {t} : bytes'[u] = bytes[u]
    BY <1>1, <1>7 DEF ReadChunk, FillSome, Append_, TypeOK
  <2> QED BY <2>1, <2>2, <2>3 DEF Shown
<1> QED BY <1>2, <1>3, <1>4, <1>5, <1>6, <1>7 DEF Next, Step

\* Over a positioned backing a call fails only for a fault or a panic of its own,
\* whatever happens to other threads.
THEOREM FailuresAlwaysOwn == Spec => []FailuresAreOwn
BY InitHolds, StepHolds, FailuresInit, FailuresStep, PTL DEF Spec

\* To its threads the source is one that serves each call in a single step: ImageSource.
THEOREM SourceImplements == Spec => SourceIsPositioned
<1>1. Init /\ [][Next]_vars => []SourceInv
  BY InitHolds, StepHolds, PTL
<1> QED BY <1>1, ImplementsInit, ImplementsStep, PTL
        DEF Spec, SourceIsPositioned, Source!Spec
=============================================================================
