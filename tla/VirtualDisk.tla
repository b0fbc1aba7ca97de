---------------------------- MODULE VirtualDisk ----------------------------
(***************************************************************************)
(* What a reader promises its client (README: "Read + Seek over the        *)
(* virtual sector stream"): a fixed disk of bytes and a position.          *)
(*                                                                         *)
(* The contents are stated sector by sector over the whole chain, with no  *)
(* blocks, runs or loops: the nearest image that describes a sector owns   *)
(* it, and a sector nobody describes reads as zeros.                       *)
(***************************************************************************)
EXTENDS VhdxBat, FiniteSets

CONSTANTS
    Chain,       \* the images of the chain, the child first
    ReadLen,     \* lengths of the buffers a client passes
    Offset,      \* offsets a client passes to seek
    I64Max

VARIABLES
    chain, pos, reply,
    faults       \* reads of a container that have failed

vars == <<chain, pos, reply, faults>>

Ok(n, bytes) == [ok |-> TRUE, n |-> n, bytes |-> bytes]
Failed == [ok |-> FALSE, n |-> 0, bytes |-> <<>>]

Child(c) == c[1]

\* The owner of a sector is known when the sector is inside the image, its table
\* entry is legal and, for a partial block, its bitmap byte is in the container.
Described(img, v) ==
    /\ ReadTarget(img, v) # "error"
    /\ ReadTarget(img, v) = "partial" => InContainer(img, BitmapByteOffset(img, v), 1)

Defers(img, v) ==
    /\ Described(img, v)
    /\ \/ ReadTarget(img, v) = "parent"
       \/ /\ ReadTarget(img, v) = "partial"
          /\ ~BitSet(ContainerByte(img, BitmapByteOffset(img, v)), BitmapBit(img, v))

\* Number of the image that the byte comes from; one past the last if none.
Owner(c, v) ==
    LET keeps == {i \in DOMAIN c : ~Defers(c[i], v)}
    IN  IF keeps = {} THEN Len(c) + 1
        ELSE CHOOSE i \in keeps : \A j \in keeps : i <= j

Readable(c, v) ==
    LET i == Owner(c, v) IN
    i <= Len(c) =>
        /\ Described(c[i], v)
        /\ ReadTarget(c[i], v) # "zero" => InContainer(c[i], FileOffset(c[i], v), 1)

ByteAt(c, v) ==
    LET i == Owner(c, v) IN
    IF i > Len(c) \/ ReadTarget(c[i], v) = "zero" THEN 0
    ELSE ContainerByte(c[i], FileOffset(c[i], v))

-----------------------------------------------------------------------------

Init ==
    /\ chain \in Chain
    /\ pos = 0
    /\ reply = Ok(0, <<>>)
    /\ faults = 0

Available(c, p, n) ==
    IF p >= Child(c).vds THEN 0
    ELSE IF n < Child(c).vds - p THEN n ELSE Child(c).vds - p

\* A read returns as many bytes as the disk has, all of them right, and moves
\* past them.
Read(n) ==
    LET m == Available(chain, pos, n) IN
    /\ UNCHANGED <<chain, faults>>
    /\ pos' = pos + m
    /\ \A k \in 0 .. m - 1 : Readable(chain, pos + k)
    /\ reply' = Ok(m, [k \in 1 .. m |-> ByteAt(chain, pos + k - 1)])

\* Or it fails and moves nothing, for a byte it was asked for that is not to be
\* had, or for a container read that failed.
FailRead(n) ==
    /\ reply' = Failed
    /\ UNCHANGED <<chain, pos, faults>>
    /\ \E k \in 0 .. Available(chain, pos, n) - 1 : ~Readable(chain, pos + k)

Fault ==
    /\ faults' = faults + 1
    /\ reply' = Failed
    /\ UNCHANGED <<chain, pos>>

\* A failed container read may also be made again.
Retry ==
    /\ faults' = faults + 1
    /\ UNCHANGED <<chain, pos, reply>>

\* A seek goes exactly where it is told, also beyond the end, and fails if that
\* is before the start or is no legal position.
SeekTo(p) ==
    /\ IF p \in 0 .. I64Max THEN pos' = p /\ reply' = Ok(p, <<>>)
       ELSE pos' = pos /\ reply' = Failed
    /\ UNCHANGED <<chain, faults>>

Next ==
    \/ \E n \in ReadLen : Read(n) \/ FailRead(n)
    \/ Fault \/ Retry
    \/ \E d \in Offset : \E base \in {0, pos, Child(chain).vds} : SeekTo(base + d)

Spec == Init /\ [][Next]_vars
=============================================================================
