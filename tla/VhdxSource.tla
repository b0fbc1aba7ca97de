----------------------------- MODULE VhdxSource -----------------------------
(***************************************************************************)
(* A VhdxReader shared by threads: VhdxSource::read_at (core/src/vfs.rs)   *)
(* over a reader whose container is a Backing (core/src/backing.rs).       *)
(*                                                                         *)
(* read_at takes the lock of the reader, seeks, and reads until the buffer *)
(* is full.  VhdxReader::read serves a block at a time and moves the       *)
(* position at its end.  A "positioned" backing (File, Sub, Mem) serves a  *)
(* chunk in one call with its own offset; a "cursor" backing (Reader)      *)
(* takes a second lock, seeks a cursor and reads in pieces.  A thread that *)
(* panics drops its guards: the source's lock is recovered from poison by  *)
(* the next caller, the backing's lock is not.                             *)
(*                                                                         *)
(* Which container offset an address maps to is the matter of VhdxReader;  *)
(* here addresses map to themselves and the byte at v is v.                *)
(***************************************************************************)
EXTENDS Integers, Sequences

CONSTANTS
    Thread, NoOwner,
    DiskLen, BlockSize,
    Request,    \* the calls of this instance: [off, len]
    Backing,    \* the kinds of backing: a subset of {"positioned", "cursor"}
    MaxCalls,   \* bound on the calls of a thread
    MaxFaults,  \* bound on failed container reads
    MaxPanics   \* bound on panics

ASSUME SourceAssumption ==
    /\ DiskLen \in Nat \ {0} /\ BlockSize \in Nat \ {0}
    /\ Request \subseteq [off : Nat, len : Nat]
    /\ Backing \subseteq {"positioned", "cursor"}
    /\ NoOwner \notin Thread
    /\ MaxCalls \in Nat /\ MaxFaults \in Nat /\ MaxPanics \in Nat

VARIABLES
    backing,
    lock,       \* VhdxSource.inner: the thread that holds it
    pos,        \* VhdxReader.pos
    inner,      \* Backing::Reader.inner: the thread that holds it
    poisoned,   \* a thread panicked while it held inner
    cursor,     \* position of the boxed reader
    pc, asked, status, bytes,
    total,      \* read_at: bytes in the buffer from reads that returned
    toRead,     \* VhdxReader::read: to_read and written
    written,
    filled,     \* Backing::read_at: bytes of the chunk read so far
    calls, faults, panics,
    met         \* the call met a failed container read or a panic of its own

shared == <<lock, pos, inner, poisoned, cursor>>
client == <<asked, status, bytes>>
local == <<total, toRead, written, filled>>
count == <<calls, faults, panics>>
vars == <<backing, shared, pc, client, local, count, met>>

NoRequest == [off |-> 0, len |-> 0]

AtMost(m, n) == IF m < n THEN m ELSE n

Avail(r) == IF r.off < DiskLen THEN DiskLen - r.off ELSE 0
Want(t) == AtMost(asked[t].len, Avail(asked[t]))

Init ==
    /\ backing \in Backing
    /\ lock = NoOwner /\ pos = 0
    /\ inner = NoOwner /\ poisoned = FALSE /\ cursor = 0
    /\ pc = [t \in Thread |-> "idle"]
    /\ asked = [t \in Thread |-> NoRequest]
    /\ status = [t \in Thread |-> "none"]
    /\ bytes = [t \in Thread |-> <<>>]
    /\ total = [t \in Thread |-> 0]
    /\ toRead = [t \in Thread |-> 0]
    /\ written = [t \in Thread |-> 0]
    /\ filled = [t \in Thread |-> 0]
    /\ calls = [t \in Thread |-> 0]
    /\ faults = 0 /\ panics = 0
    /\ met = [t \in Thread |-> FALSE]

\* Mutant of Abandon: the backing's guard is not dropped.
AbandonKeepsBacking(t) ==
    /\ pc' = [pc EXCEPT ![t] = "idle"]
    /\ status' = [status EXCEPT ![t] = "failed"]
    /\ bytes' = [bytes EXCEPT ![t] = <<>>]
    /\ lock' = NoOwner
    /\ UNCHANGED inner
    /\ UNCHANGED <<backing, pos, cursor, asked, local, calls>>

\* The call is over without a result; the guards it holds are dropped.  The
\* position stays where the last read that returned left it.
Abandon(t) ==
    /\ pc' = [pc EXCEPT ![t] = "idle"]
    /\ status' = [status EXCEPT ![t] = "failed"]
    /\ bytes' = [bytes EXCEPT ![t] = <<>>]
    /\ lock' = NoOwner
    /\ inner' = IF inner = t THEN NoOwner ELSE inner
    /\ UNCHANGED <<backing, pos, cursor, asked, local, calls>>

-----------------------------------------------------------------------------
(* VhdxSource::read_at                                                     *)

\* A call beyond the end returns 0 without taking the lock.
Call(t, r) ==
    /\ pc[t] = "idle"
    /\ calls[t] < MaxCalls
    /\ calls' = [calls EXCEPT ![t] = @ + 1]
    /\ asked' = [asked EXCEPT ![t] = r]
    /\ bytes' = [bytes EXCEPT ![t] = <<>>]
    /\ total' = [total EXCEPT ![t] = 0]
    /\ met' = [met EXCEPT ![t] = FALSE]
    /\ status' = [status EXCEPT ![t] = "pending"]
    /\ pc' = [pc EXCEPT ![t] = IF Avail(r) = 0 THEN "empty" ELSE "lock"]
    /\ UNCHANGED <<backing, shared, toRead, written, filled, faults, panics>>

ReturnEmpty(t) ==
    /\ pc[t] = "empty"
    /\ pc' = [pc EXCEPT ![t] = "idle"]
    /\ status' = [status EXCEPT ![t] = "ok"]
    /\ UNCHANGED <<backing, shared, asked, bytes, local, count, met>>

\* Mutant of Lock: two callers at a time.
LockWithoutWaiting(t) ==
    /\ pc[t] = "lock"
    /\ lock' = t
    /\ pc' = [pc EXCEPT ![t] = "seek"]
    /\ UNCHANGED <<backing, pos, inner, poisoned, cursor, client, local, count, met>>

\* Mutant of Lock: after a panic the lock is an error.
LockUnlessPoisoned(t) ==
    /\ pc[t] = "lock"
    /\ lock = NoOwner
    /\ IF panics > 0
       THEN Abandon(t) /\ UNCHANGED <<poisoned, faults, panics, met>>
       ELSE LockWithoutWaiting(t)

\* lock().unwrap_or_else(into_inner): poisoned or not.
Lock(t) ==
    /\ pc[t] = "lock"
    /\ lock = NoOwner
    /\ lock' = t
    /\ pc' = [pc EXCEPT ![t] = "seek"]
    /\ UNCHANGED <<backing, pos, inner, poisoned, cursor, client, local, count, met>>

SeekReader(t) ==
    /\ pc[t] = "seek"
    /\ pos' = asked[t].off
    /\ pc' = [pc EXCEPT ![t] = "loop"]
    /\ UNCHANGED <<backing, lock, inner, poisoned, cursor, client, local, count, met>>

\* guard.read of what is missing, clipped at the end of the disk.
StartRead(t) ==
    /\ pc[t] = "loop"
    /\ total[t] < Want(t)
    /\ toRead' = [toRead EXCEPT ![t] = AtMost(Want(t) - total[t], DiskLen - pos)]
    /\ written' = [written EXCEPT ![t] = 0]
    /\ pc' = [pc EXCEPT ![t] = "read"]
    /\ UNCHANGED <<backing, shared, client, total, filled, count, met>>

Return(t) ==
    /\ pc[t] = "loop"
    /\ total[t] = Want(t)
    /\ lock' = NoOwner
    /\ pc' = [pc EXCEPT ![t] = "idle"]
    /\ status' = [status EXCEPT ![t] = "ok"]
    /\ UNCHANGED <<backing, pos, inner, poisoned, cursor, asked, bytes, local,
                   count, met>>

-----------------------------------------------------------------------------
(* VhdxReader::read                                                        *)

\* Mutant of V: every chunk at the start of the read.
VAtStart(t) == pos

V(t) == pos + written[t]

\* Mutant of Chunk: up to the start of the block.
ChunkToBlockStart(t) ==
    AtMost(toRead[t] - written[t], (V(t) \div BlockSize) * BlockSize - V(t))

Chunk(t) ==
    AtMost(toRead[t] - written[t], ((V(t) \div BlockSize) + 1) * BlockSize - V(t))

\* Mutant of Append_: each chunk goes to the start of the buffer.
Overwrite_(t, v, n) ==
    bytes' = [bytes EXCEPT ![t] = [k \in 1 .. n |-> v + k - 1]]

\* The buffer gets the bytes at n addresses from v on.
Append_(t, v, n) ==
    bytes' = [bytes EXCEPT ![t] = @ \o [k \in 1 .. n |-> v + k - 1]]

ReadChunk(t) ==
    /\ pc[t] = "read"
    /\ written[t] < toRead[t]
    /\ backing = "positioned"
    /\ Append_(t, V(t), Chunk(t))
    /\ written' = [written EXCEPT ![t] = @ + Chunk(t)]
    /\ UNCHANGED <<backing, shared, pc, asked, status, total, toRead, filled, count,
                   met>>

ReadReturns(t) ==
    /\ pc[t] = "read"
    /\ written[t] = toRead[t]
    /\ pos' = pos + written[t]
    /\ total' = [total EXCEPT ![t] = @ + written[t]]
    /\ pc' = [pc EXCEPT ![t] = "loop"]
    /\ UNCHANGED <<backing, lock, inner, poisoned, cursor, client, toRead, written,
                   filled, count, met>>

-----------------------------------------------------------------------------
(* Backing::read_at of a cursor backing                                    *)

LockBacking(t) ==
    /\ pc[t] = "read"
    /\ written[t] < toRead[t]
    /\ backing = "cursor"
    /\ ~poisoned /\ inner = NoOwner
    /\ inner' = t
    /\ cursor' = V(t)
    /\ filled' = [filled EXCEPT ![t] = 0]
    /\ pc' = [pc EXCEPT ![t] = "fill"]
    /\ UNCHANGED <<backing, lock, pos, poisoned, client, total, toRead, written,
                   count, met>>

\* The boxed reader may return fewer bytes than asked, but some.
FillSome(t, n) ==
    /\ pc[t] = "fill"
    /\ n \in 1 .. Chunk(t) - filled[t]
    /\ Append_(t, cursor, n)
    /\ cursor' = cursor + n
    /\ filled' = [filled EXCEPT ![t] = @ + n]
    /\ UNCHANGED <<backing, lock, pos, inner, poisoned, pc, asked, status, total,
                   toRead, written, count, met>>

FillReturns(t) ==
    /\ pc[t] = "fill"
    /\ filled[t] = Chunk(t)
    /\ inner' = NoOwner
    /\ written' = [written EXCEPT ![t] = @ + Chunk(t)]
    /\ pc' = [pc EXCEPT ![t] = "read"]
    /\ UNCHANGED <<backing, lock, pos, poisoned, cursor, client, total, toRead,
                   filled, count, met>>

-----------------------------------------------------------------------------
(* Failures                                                                *)

InContainer(t) ==
    \/ pc[t] = "read" /\ written[t] < toRead[t] /\ backing = "positioned"
    \/ pc[t] = "fill"

\* An I/O error, or an end of the container before its length.
ContainerFails(t) ==
    /\ InContainer(t)
    /\ faults < MaxFaults
    /\ faults' = faults + 1
    /\ met' = [met EXCEPT ![t] = TRUE]
    /\ Abandon(t)
    /\ UNCHANGED <<poisoned, panics>>

Panic(t) ==
    /\ InContainer(t)
    /\ panics < MaxPanics
    /\ panics' = panics + 1
    /\ met' = [met EXCEPT ![t] = TRUE]
    /\ poisoned' = (poisoned \/ inner = t)
    /\ Abandon(t)
    /\ UNCHANGED faults

\* "backing reader mutex poisoned"
BackingPoisoned(t) ==
    /\ pc[t] = "read"
    /\ written[t] < toRead[t]
    /\ backing = "cursor"
    /\ poisoned
    /\ Abandon(t)
    /\ UNCHANGED <<poisoned, faults, panics, met>>

Step(t) ==
    \/ ReturnEmpty(t) \/ Lock(t) \/ SeekReader(t) \/ StartRead(t) \/ Return(t)
    \/ ReadChunk(t) \/ ReadReturns(t)
    \/ LockBacking(t) \/ (\E n \in 1 .. DiskLen : FillSome(t, n)) \/ FillReturns(t)
    \/ ContainerFails(t) \/ Panic(t) \/ BackingPoisoned(t)

Next == \E t \in Thread : (\E r \in Request : Call(t, r)) \/ Step(t)

Spec == Init /\ [][Next]_vars

\* The scheduler runs every thread that can run; a thread in a call takes its next
\* step.  A call is never started for the sake of fairness.
FairSpec == Spec /\ \A t \in Thread : WF_vars(Step(t))

-----------------------------------------------------------------------------
(* Properties                                                              *)

TypeOK ==
    /\ backing \in {"positioned", "cursor"}
    /\ lock \in Thread \cup {NoOwner} /\ inner \in Thread \cup {NoOwner}
    /\ pos \in Nat /\ cursor \in Nat /\ poisoned \in BOOLEAN
    /\ pc \in [Thread -> {"idle", "empty", "lock", "seek", "loop", "read", "fill"}]
    /\ asked \in [Thread -> [off : Nat, len : Nat]]
    /\ status \in [Thread -> {"none", "pending", "ok", "failed"}]
    /\ bytes \in [Thread -> Seq(Nat)]
    /\ total \in [Thread -> Nat] /\ toRead \in [Thread -> Nat]
    /\ written \in [Thread -> Nat] /\ filled \in [Thread -> Nat]
    /\ calls \in [Thread -> Nat] /\ faults \in Nat /\ panics \in Nat
    /\ met \in [Thread -> BOOLEAN]

Inside(t) == pc[t] \in {"seek", "loop", "read", "fill"}

\* Between its seek and its return a call owns the reader, so that no other
\* thread's seek or read moves the position under it (vfs.rs:19-25).
ReaderIsOwned ==
    \A t \in Thread : Inside(t) =>
        /\ lock = t
        /\ pc[t] # "seek" => pos = asked[t].off + total[t]

\* The backing's lock is only ever taken by the holder of the source's: a thread
\* never waits for it (backing.rs:104-106).
BackingUncontended == inner # NoOwner => inner = lock

\* A call that returns has the bytes of its own range, all of them, in order.
OwnBytes ==
    \A t \in Thread : status[t] = "ok" =>
        bytes[t] = [k \in 1 .. Want(t) |-> asked[t].off + k - 1]

\* Over a positioned backing a call fails only for a fault of its own: another
\* thread's panic does not reach it, because the next caller recovers the lock
\* (vfs.rs:23-25, 55).
FailuresAreOwn ==
    backing = "positioned" => \A t \in Thread : status[t] = "failed" => met[t]

\* Every call returns: no interleaving of the two locks blocks a thread.
CallsReturn == \A t \in Thread : (status[t] = "pending") ~> (status[t] # "pending")

\* Threads see the source as one positioned read at a time.
Source == INSTANCE ImageSource WITH
    bytes <- [t \in Thread |-> IF status[t] = "ok" THEN bytes[t] ELSE <<>>],
    MayFail <- TRUE
SourceIsPositioned == Source!Spec
=============================================================================
