------------------------------ MODULE LogReplay ------------------------------
(***************************************************************************)
(* Opening a container whose log may be dirty, and reading its bytes       *)
(* (core/src/log.rs).  There are two paths.  The in-RAM path (apply) writes *)
(* the committed entries into a private copy of the container, `data'.     *)
(* The bounded path (build_overlay) keeps the same writes as `runs' and     *)
(* puts them over every positioned read (LogOverlay::patch).               *)
(*                                                                         *)
(* Both paths walk the same log with the same collect_entries and then the *)
(* same descriptors in the same order, and share no state: the model runs  *)
(* them in lockstep over one image, one action per loop iteration, so that *)
(* `data' and `runs' can be compared after every descriptor.  A path that  *)
(* panics or aborts takes no further part: `live' has those that go on,    *)
(* and nobody looks at what the other would hold.                          *)
(***************************************************************************)
EXTENDS VhdxLog

CONSTANT MaxRead   \* bound on the length of a read; one of length 0 patches nothing

VARIABLES
    header,     \* the active header, as parse_active_header returns it
    log,        \* the slots of the log region
    pc,
    pos,        \* collect_entries: slot the walk is at
    entries,    \* collect_entries: entries to replay, by sequence number
    cur,        \* replay: index in entries of the entry being replayed
    desc,       \* replay: descriptors of that entry already handled
    sector,     \* replay: sector_idx
    data,       \* in-RAM path: the buffer
    runs,       \* bounded path: LogOverlay.runs
    live,       \* paths that have not panicked
    at, buf,    \* positioned read in progress: read_off and the buffer
    patched,    \* patch: runs already put over buf
    replyAt, reply  \* the last positioned read that returned

image == <<header, log>>
walk == <<pos, entries>>
replay == <<cur, desc, sector, data, runs, live>>
reading == <<at, buf, patched>>
answer == <<replyAt, reply>>
vars == <<image, pc, walk, replay, reading, answer>>

Path == {"ram", "bounded"}

Run == [start : Nat, bytes : Seq(Byte)]

\* Mutant of Covers: an overlap that misses a run's first cell.
CoversButFirst(run, o) == o \in run.start + 1 .. run.start + Len(run.bytes) - 1

Covers(run, o) == o \in run.start .. run.start + Len(run.bytes) - 1
RunByte(run, o) == run.bytes[o - run.start + 1]

\* Mutants of InsertBySeq: no sort; a sort that reverses equal numbers.
InsertAtEnd(s, e) == Append(s, e)
InsertBeforeEqual(s, e) ==
    LET k == Cardinality({i \in DOMAIN s : s[i].seq < e.seq})
    IN  SubSeq(s, 1, k) \o <<e>> \o SubSeq(s, k + 1, Len(s))

\* sort_by_key is stable: an entry goes after those with an equal number.
\* Keeping the list sorted as entries arrive gives the list the final sort does.
InsertBySeq(s, e) ==
    LET k == Cardinality({i \in DOMAIN s : s[i].seq <= e.seq})
    IN  SubSeq(s, 1, k) \o <<e>> \o SubSeq(s, k + 1, Len(s))

Init ==
    /\ header \in Header
    /\ log \in Log
    /\ pc = "header"
    /\ pos = 0 /\ entries = <<>>
    /\ cur = 1 /\ desc = 0 /\ sector = 0
    /\ data = Disk /\ runs = <<>> /\ live = Path
    /\ at = 0 /\ buf = <<>> /\ patched = 0
    /\ replyAt = 0 /\ reply = <<>>

-----------------------------------------------------------------------------
(* apply and build_overlay, up to the walk                                 *)

\* Neither header copy parses, or the log of a dirty image runs past the end.
RefuseImage ==
    /\ pc = "header"
    /\ ~header.valid \/ (Dirty(header) /\ ~header.fits)
    /\ pc' = "refused"
    /\ UNCHANGED <<image, walk, replay, reading, answer>>

OpenClean ==
    /\ pc = "header"
    /\ header.valid /\ ~Dirty(header)
    /\ pc' = "ready"
    /\ UNCHANGED <<image, walk, replay, reading, answer>>

StartWalk ==
    /\ pc = "header"
    /\ header.valid /\ Dirty(header) /\ header.fits
    /\ pc' = "walk"
    /\ UNCHANGED <<image, walk, replay, reading, answer>>

-----------------------------------------------------------------------------
(* collect_entries                                                         *)

CollectEntry ==
    /\ pc = "walk"
    /\ Framed(log, pos)
    /\ Replayable(header, log[pos])
    /\ entries' = InsertBySeq(entries, log[pos])
    /\ pos' = pos + log[pos].len
    /\ UNCHANGED <<image, pc, replay, reading, answer>>

\* A bad checksum or another log's GUID skips the entry, not the walk.
SkipEntry ==
    /\ pc = "walk"
    /\ Framed(log, pos)
    /\ ~Replayable(header, log[pos])
    /\ pos' = pos + log[pos].len
    /\ UNCHANGED <<image, pc, entries, replay, reading, answer>>

EndWalk ==
    /\ pc = "walk"
    /\ ~Framed(log, pos)
    /\ pc' = "replay"
    /\ UNCHANGED <<image, walk, replay, reading, answer>>

-----------------------------------------------------------------------------
(* apply_entry and overlay_entry                                           *)

Current == entries[cur]
D == Current.descs[desc + 1]

AtDescriptor(kind) ==
    /\ pc = "replay"
    /\ cur <= Len(entries)
    /\ desc < Len(Current.descs)
    /\ D.kind = kind

\* When no path is left, nothing is opened.
GoOn(paths) ==
    /\ live' = live \cap paths
    /\ pc' = IF live' = {} THEN "panicked" ELSE pc

\* Mutant of FitsWhole: a strict bound.
FitsBelow(off) == off + SectorLen < ContainerLen

FitsWhole(off) == off + SectorLen <= ContainerLen

\* The in-RAM path asks that the sector be in the entry and in the container, and panics
\* where its end is no offset; the bounded path asks only that it be in the entry.
DataDescriptor ==
    /\ AtDescriptor("desc")
    /\ LET inEntry == sector < Len(Current.sectors)
           bytes == Current.sectors[sector + 1]
       IN  /\ GoOn(IF inEntry /\ D.off + SectorLen >= OffsetEnd THEN {"bounded"} ELSE Path)
           /\ data' = IF inEntry /\ FitsWhole(D.off)
                      THEN [o \in Cell |->
                              IF o \in D.off .. D.off + SectorLen - 1
                              THEN bytes[o - D.off + 1] ELSE data[o]]
                      ELSE data
           /\ runs' = IF inEntry
                      THEN Append(runs, [start |-> D.off, bytes |-> bytes])
                      ELSE runs
    /\ sector' = sector + 1
    /\ desc' = desc + 1
    /\ UNCHANGED <<image, walk, cur, reading, answer>>

\* The in-RAM path clamps the run to the container, the bounded path allocates it.
ZeroDescriptor ==
    /\ AtDescriptor("zero")
    /\ GoOn(IF Unbounded(D) THEN {"ram"} ELSE Path)
    /\ data' = [o \in Cell |-> IF o \in D.off .. D.off + D.len - 1
                               THEN ZeroByte ELSE data[o]]
    /\ runs' = IF D.len > 0
               THEN Append(runs, [start |-> D.off,
                                  bytes |-> [i \in 1 .. D.len |-> ZeroByte]])
               ELSE runs
    /\ desc' = desc + 1
    /\ UNCHANGED <<image, walk, cur, sector, reading, answer>>

OtherDescriptor ==
    /\ AtDescriptor("other")
    /\ desc' = desc + 1
    /\ UNCHANGED <<image, pc, walk, cur, sector, data, runs, live, reading, answer>>

FinishEntry ==
    /\ pc = "replay"
    /\ cur <= Len(entries)
    /\ desc = Len(Current.descs)
    /\ ~Current.overrun
    /\ cur' = cur + 1 /\ desc' = 0 /\ sector' = 0
    /\ UNCHANGED <<image, pc, walk, data, runs, live, reading, answer>>

\* The slice of a descriptor beyond the entry's last byte panics.
OverrunEntry ==
    /\ pc = "replay"
    /\ cur <= Len(entries)
    /\ desc = Len(Current.descs)
    /\ Current.overrun
    /\ GoOn({})
    /\ UNCHANGED <<image, walk, cur, desc, sector, data, runs, reading, answer>>

FinishReplay ==
    /\ pc = "replay"
    /\ cur > Len(entries)
    /\ pc' = "ready"
    /\ UNCHANGED <<image, walk, replay, reading, answer>>

-----------------------------------------------------------------------------
(* A positioned read on the bounded path: Backing::read_at, then patch     *)

StartRead(off, n) ==
    /\ pc = "ready" /\ "bounded" \in live
    /\ at' = off
    /\ buf' = [k \in {j \in 0 .. n - 1 : off + j < ContainerLen} |-> Disk[off + k]]
    /\ patched' = 0
    /\ pc' = "patch"
    /\ UNCHANGED <<image, walk, replay, answer>>

PatchRun ==
    /\ pc = "patch"
    /\ patched < Len(runs)
    /\ LET run == runs[patched + 1]
       IN  buf' = [k \in DOMAIN buf |->
                     IF Covers(run, at + k) THEN RunByte(run, at + k) ELSE buf[k]]
    /\ patched' = patched + 1
    /\ UNCHANGED <<image, pc, walk, replay, at, answer>>

FinishRead ==
    /\ pc = "patch"
    /\ patched = Len(runs)
    /\ replyAt' = at
    /\ reply' = buf
    /\ pc' = "ready"
    /\ UNCHANGED <<image, walk, replay, reading>>

OpenNext ==
    \/ RefuseImage \/ OpenClean \/ StartWalk
    \/ CollectEntry \/ SkipEntry \/ EndWalk
    \/ DataDescriptor \/ ZeroDescriptor \/ OtherDescriptor
    \/ FinishEntry \/ OverrunEntry \/ FinishReplay

Next ==
    \/ OpenNext
    \/ \E off \in 0 .. ContainerLen, n \in 1 .. MaxRead : StartRead(off, n)
    \/ PatchRun
    \/ FinishRead

Spec == Init /\ [][Next]_vars

\* The open runs to its end on the caller's thread: it stops at no step it can take.
FairSpec == Spec /\ WF_vars(OpenNext)

-----------------------------------------------------------------------------
(* Properties                                                              *)

TypeOK ==
    /\ header \in Header /\ log \in Log
    /\ pc \in {"header", "walk", "replay", "ready", "patch", "refused", "panicked"}
    /\ pos \in 0 .. LogLen /\ entries \in Seq(Entry)
    /\ cur \in Nat \ {0} /\ desc \in Nat /\ sector \in Nat
    /\ data \in [Cell -> Byte] /\ runs \in Seq(Run) /\ live \subseteq Path
    /\ at \in Nat /\ patched \in Nat /\ replyAt \in Nat
    /\ \A k \in DOMAIN buf : k \in Nat /\ at + k \in Cell
    /\ \A k \in DOMAIN reply : k \in Nat /\ replyAt + k \in Cell

\* b is the byte that the first n runs of s leave at container offset o.
Shows(s, n, b, o) ==
    \/ \E i \in 1 .. n : /\ Covers(s[i], o)
                         /\ b = RunByte(s[i], o)
                         /\ \A j \in i + 1 .. n : ~Covers(s[j], o)
    \/ b = Disk[o] /\ \A i \in 1 .. n : ~Covers(s[i], o)

\* The two open paths agree on every byte of the container, after every
\* descriptor of the replay (log.rs:16-18, 44-49), as long as both go on and no data
\* sector is cut by the end of the container.
PathsAgree ==
    LogWellPlaced(log) /\ live = Path => \A o \in Cell : Shows(runs, Len(runs), data[o], o)

\* A positioned read followed by patch returns the bytes the in-RAM path holds
\* (log.rs:65-67).
ReadsAgree ==
    LogWellPlaced(log) /\ live = Path => \A k \in DOMAIN reply : reply[k] = data[replyAt + k]

\* Once open, the in-RAM buffer is the committed container: of the entries with
\* a good checksum and the header's GUID that the walk can reach, the last write
\* by sequence number wins, and nothing else changes (log.rs:9-13).
BufferIsCommitted ==
    pc = "ready" /\ "ram" \in live => \A o \in Cell : data[o] = CommittedByte(header, log, o)

\* Opening ends for every log, also one whose lengths make no sense
\* (log.rs:122-155).
OpenTerminates == <>(pc \in {"ready", "refused", "panicked"})

\* The bounded path keeps the promise of CommittedImage: no read sees a
\* container that is partly replayed.
Promise == INSTANCE CommittedImage WITH
    status <- CASE pc = "refused" \/ "bounded" \notin live -> "refused"
                [] pc \in {"ready", "patch"} /\ "bounded" \in live -> "open"
                [] OTHER -> "closed"
PromiseKept == Promise!Spec

=============================================================================
