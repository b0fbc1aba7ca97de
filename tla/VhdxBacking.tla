----------------------------- MODULE VhdxBacking -----------------------------
(***************************************************************************)
(* Positioned reads of a container (core/src/backing.rs): Backing::read_at *)
(* over its four variants, and VhdxReader's read_region, which asks for    *)
(* the length, reads, and asks whether it got all of it.                   *)
(*                                                                         *)
(* The bytes of a File, a Sub or a Reader are those of a medium that       *)
(* others may cut or extend at any point, also within a call.  A File is   *)
(* asked for its length each time; a Sub is told the window [Base, Base +  *)
(* length) and a Reader measures its length once; a Mem owns its bytes.    *)
(* The byte at x of the medium is x.  Reads take turns: what threads do to *)
(* each other is the matter of VhdxSource.                                 *)
(***************************************************************************)
EXTENDS Integers, Sequences

CONSTANTS
    Kind,        \* the variants of this instance
    Base,        \* where a Sub begins in its file
    Size,        \* lengths the medium can have
    Request,     \* the reads of this instance: [off, len]
    MaxFaults,   \* bound on interrupted or failed reads
    MaxResizes   \* bound on changes of the medium's length

ASSUME BackingAssumption ==
    /\ Kind \subseteq {"file", "sub", "mem", "reader"}
    /\ Base \in Nat /\ Size \subseteq Nat
    /\ Request \subseteq [off : Nat, len : Nat]
    /\ MaxFaults \in Nat /\ MaxResizes \in Nat

VARIABLES
    kind,
    len,        \* Sub: its window; Mem: its bytes; Reader: the length it measured
    size,       \* length of the medium
    least,      \* shortest the medium has been since the call began
    cursor,     \* position of a boxed reader
    pc, asked,
    region,     \* the call is read_region's
    buf,        \* the part of the buffer that is filled
    status,
    faults, resizes

medium == <<kind, len>>
limits == <<faults, resizes>>
vars == <<medium, size, least, cursor, pc, asked, region, buf, status, limits>>

AtMost(m, n) == IF m < n THEN m ELSE n

Start == IF kind = "sub" THEN Base ELSE 0

\* A Sub may be told a window that its file does not have.
Init ==
    /\ kind \in Kind
    /\ size \in Size
    /\ len \in IF kind = "sub" THEN Size ELSE {size}
    /\ least = size /\ cursor = 0
    /\ pc = "idle" /\ asked = [off |-> 0, len |-> 0] /\ region = FALSE
    /\ buf = <<>> /\ status = "none"
    /\ faults = 0 /\ resizes = 0

-----------------------------------------------------------------------------
(* Backing::len and Backing::read_at                                       *)

Length == IF kind = "file" THEN size ELSE len

\* Mutant of Want: a Sub that reads on into its neighbour.
WantUnclamped(r) == IF kind \in {"file", "sub"} \/ r.off < len THEN r.len ELSE 0

\* A File is not clamped: its read ends where the file does.
Want(r) ==
    IF kind = "file" THEN r.len
    ELSE IF r.off < len THEN AtMost(r.len, len - r.off) ELSE 0

Begin(r, forRegion) ==
    /\ asked' = r /\ region' = forRegion
    /\ buf' = <<>> /\ status' = "pending"
    /\ least' = size
    /\ cursor' = IF kind = "reader" /\ r.off < len THEN r.off ELSE cursor
    /\ pc' = "read"
    /\ UNCHANGED <<medium, size, limits>>

Call(r) == pc = "idle" /\ Begin(r, FALSE)

\* Where the next read starts: pread gives its own offset, a boxed reader has one.
At == IF kind = "reader" THEN cursor ELSE Start + asked.off + Len(buf)

Reading == pc = "read" /\ Len(buf) < Want(asked)

\* Mutant of ReadSome: each read is given the whole buffer.
ReadSomeOverfull(n) ==
    /\ Reading /\ kind # "mem"
    /\ n <= Want(asked) /\ At + n <= size
    /\ buf' = buf \o [i \in 1 .. n |-> At + i - 1]
    /\ cursor' = IF kind = "reader" THEN cursor + n ELSE cursor
    /\ UNCHANGED <<medium, size, least, pc, asked, region, status, limits>>

\* A read of the medium returns at least one byte, and may return fewer than asked.
ReadSome(n) ==
    /\ Reading /\ kind # "mem"
    /\ n <= Want(asked) - Len(buf) /\ At + n <= size
    /\ buf' = buf \o [i \in 1 .. n |-> At + i - 1]
    /\ cursor' = IF kind = "reader" THEN cursor + n ELSE cursor
    /\ UNCHANGED <<medium, size, least, pc, asked, region, status, limits>>

\* Mutant of ReadEnd: a read of no bytes is tried again.
ReadEndRetried ==
    /\ Reading /\ kind # "mem" /\ At >= size
    /\ UNCHANGED vars

\* Ok(0) => break
ReadEnd ==
    /\ Reading /\ kind # "mem" /\ At >= size
    /\ pc' = "return"
    /\ UNCHANGED <<medium, size, least, cursor, asked, region, buf, status, limits>>

CopyMem ==
    /\ Reading /\ kind = "mem"
    /\ buf' = [i \in 1 .. Want(asked) |-> asked.off + i - 1]
    /\ UNCHANGED <<medium, size, least, cursor, pc, asked, region, status, limits>>

ReadFull ==
    /\ pc = "read" /\ Len(buf) = Want(asked)
    /\ pc' = "return"
    /\ UNCHANGED <<medium, size, least, cursor, asked, region, buf, status, limits>>

Fail ==
    /\ pc' = "idle" /\ status' = "failed"
    /\ buf' = <<>>
    /\ UNCHANGED <<medium, size, least, cursor, asked, region, resizes>>

Faulty == Reading /\ kind # "mem" /\ faults < MaxFaults /\ faults' = faults + 1

\* Mutant of Interrupted: pread returns what it has.
InterruptedEnds ==
    /\ Faulty
    /\ pc' = "return"
    /\ UNCHANGED <<medium, size, least, cursor, asked, region, buf, status, resizes>>

\* pread tries again; the loop over a boxed reader passes the error on.
Interrupted ==
    /\ Faulty
    /\ IF kind = "reader" THEN Fail
       ELSE UNCHANGED <<medium, size, least, cursor, pc, asked, region, buf, status, resizes>>

Broken == Faulty /\ Fail

-----------------------------------------------------------------------------
(* read_region                                                             *)

\* The length of a File is 0 when the system does not tell it.
Known(measured) == measured = Length \/ (kind = "file" /\ measured = 0)

CallRegion(r) ==
    /\ pc = "idle"
    /\ \E measured \in {0, Length} :
          /\ Known(measured)
          /\ measured >= r.off + r.len
    /\ Begin(r, TRUE)

RefuseRegion(r) ==
    /\ pc = "idle"
    /\ \E measured \in {0, Length} :
          /\ Known(measured)
          /\ measured < r.off + r.len
    /\ asked' = r /\ region' = TRUE
    /\ buf' = <<>> /\ status' = "failed"
    /\ UNCHANGED <<medium, size, least, cursor, pc, limits>>

\* Mutant of Return: read_region takes what it is given.
ReturnAny ==
    /\ pc = "return"
    /\ pc' = "idle" /\ status' = "ok"
    /\ UNCHANGED <<medium, size, least, cursor, asked, region, buf, limits>>

Return ==
    /\ pc = "return"
    /\ pc' = "idle"
    /\ status' = IF region /\ Len(buf) < asked.len THEN "failed" ELSE "ok"
    /\ UNCHANGED <<medium, size, least, cursor, asked, region, buf, limits>>

-----------------------------------------------------------------------------
\* Someone else writes to the medium, or cuts it.
Resize(n) ==
    /\ kind # "mem" /\ resizes < MaxResizes
    /\ n # size
    /\ size' = n /\ least' = AtMost(least, n)
    /\ resizes' = resizes + 1
    /\ UNCHANGED <<medium, cursor, pc, asked, region, buf, status, faults>>

Step ==
    \/ \E n \in 1 .. asked.len : ReadSome(n)
    \/ ReadEnd \/ CopyMem \/ ReadFull \/ Return

Next ==
    \/ \E r \in Request : Call(r) \/ CallRegion(r) \/ RefuseRegion(r)
    \/ Step
    \/ Interrupted \/ Broken
    \/ \E n \in Size : Resize(n)

Spec == Init /\ [][Next]_vars

\* The caller's thread runs on; the system interrupts a read only so often.
FairSpec == Spec /\ WF_vars(Step)

-----------------------------------------------------------------------------
(* Properties                                                              *)

TypeOK ==
    /\ kind \in {"file", "sub", "mem", "reader"}
    /\ len \in Nat /\ size \in Nat /\ least \in Nat /\ cursor \in Nat
    /\ pc \in {"idle", "read", "return"}
    /\ asked \in [off : Nat, len : Nat] /\ region \in BOOLEAN
    /\ buf \in Seq(Nat) /\ Len(buf) <= asked.len
    /\ status \in {"none", "pending", "ok", "failed"}
    /\ faults \in 0 .. MaxFaults /\ resizes \in 0 .. MaxResizes
    /\ least <= size

\* What a read has put in the buffer are the bytes at its own offset, in order, over
\* short reads, interruptions and changes of the medium, and never a byte beyond the
\* window that a Sub was told or the length that a Reader measured
\* (backing.rs:150-153, "never reads past its end into a neighbouring entry").
OwnBytesOnly ==
    \A i \in DOMAIN buf :
        /\ buf[i] = Start + asked.off + i - 1
        /\ kind # "file" => buf[i] < Start + len

\* Where the container ended, at the shortest it was seen during the call.
ShortestEnd ==
    IF kind = "file" THEN least
    ELSE IF kind = "mem" THEN len ELSE AtMost(least, Start + len)

\* A read returns fewer bytes than asked only when the container ended there at some
\* point of the call (backing.rs:79-80, "short only at end of container").
ShortOnlyAtEnd ==
    status = "ok" /\ Len(buf) < asked.len => Start + asked.off + Len(buf) >= ShortestEnd

\* The parsers that index a region by its length get one of that length, also when the
\* medium shrinks between the question for its length and the read (reader.rs:214-221).
RegionIsWhole == status = "ok" /\ region => Len(buf) = asked.len

\* Every call returns, however short the reads and whatever happens to the medium.
CallsReturn == pc # "idle" ~> pc = "idle"
=============================================================================
