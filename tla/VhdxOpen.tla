------------------------------ MODULE VhdxOpen ------------------------------
(***************************************************************************)
(* Opening a container (core/src/reader.rs: parse_bytes, parse_backing and *)
(* assemble), in RAM and bounded, one action per structure that is read.   *)
(*                                                                         *)
(* The in-RAM path writes the log into its own copy of the container; the  *)
(* bounded path keeps the writes and puts them over what it reads, but for *)
(* the header, which it chooses before it has them.  What a log writes, in *)
(* which order, and that the two ways of keeping it agree byte for byte is *)
(* the matter of LogReplay; here a write replaces a word.                  *)
(***************************************************************************)
EXTENDS VhdxContainer

VARIABLES
    file,       \* the bytes that are opened
    log,        \* what a log at a unit holds: its GUID, and what its entries write
    given,      \* the caller passes a parent
    opener      \* the two opens of these bytes

Path == {"ram", "bounded"}

\* held and runs: the bytes of the backing, and LogOverlay.runs.
Fresh == [step |-> "front", held |-> <<>>, runs |-> <<>>, err |-> "none"]

OpenInit == opener = [p \in Path |-> Fresh]

Put(img, w) == [img EXCEPT !.unit[w.unit][w.word] = w.value]

PutAll(img, ws) ==
    LET put[i \in 0 .. Len(ws)] == IF i = 0 THEN img ELSE Put(put[i - 1], ws[i])
    IN  put[Len(ws)]

Write == [unit : 0 .. Units - 1, word : 0 .. Words - 1, value : Word]

IsLog(l) ==
    /\ DOMAIN l \subseteq 1 .. Units - 1
    /\ \A at \in DOMAIN l : l[at].guid \in Nat /\ l[at].writes \in Seq(Write)

\* Entries with another GUID are not replayed, nor is anything that is not an entry.
WritesOf(img, header) ==
    LET at == header.log.at IN
    IF Dirty(header) /\ at \in DOMAIN log /\ img.unit[at][0].part.kind = "log"
       /\ log[at].guid = header.guid
    THEN log[at].writes ELSE <<>>

Ended(p) == opener[p].step \in {"open", "refused"}

\* Neither open sees the other, so it makes no difference which is first.
At(p, step) ==
    /\ opener[p].step = step
    /\ p = "bounded" => Ended("ram")
    /\ UNCHANGED <<file, log, given>>

Know(p, o) == opener' = [opener EXCEPT ![p] = o]
Go(p, step) == Know(p, [opener[p] EXCEPT !.step = step])
Refuse(p, err) == Know(p, [Fresh EXCEPT !.step = "refused", !.err = err])

\* read_exact_at or read_region, then patch; the in-RAM path has no runs.
Patched(p) == PutAll(opener[p].held, opener[p].runs)

CheckFront(p) ==
    /\ At(p, "front")
    /\ CASE FileKind(file) = "foreign" -> Refuse(p, "BadMagic")
         [] FileKind(file) = "short"   -> Refuse(p, "ContainerTooSmall")
         [] FileKind(file) = "vhdx"    -> Know(p, [Fresh EXCEPT !.step = "log", !.held = file])

\* Mutant of HeaderInUse: the first copy that is good.
FirstHeader(img) == First({c \in 1 .. 2 : Headers(img)[c].ok})

HeaderInUse(img) == ActiveCopy(img)

ReplayLog(p) ==
    /\ At(p, "log")
    /\ LET o == opener[p]
           c == HeaderInUse(o.held)
           h == Headers(file)[c]
           ws == WritesOf(file, h)
       IN  IF c = 0 THEN Refuse(p, "NoValidHeader")
           ELSE IF Dirty(h) /\ ~Fits(h.log) THEN Refuse(p, "OffsetOutOfBounds")
           ELSE IF p = "ram"
           THEN Know(p, [o EXCEPT !.step = "table", !.held = PutAll(o.held, ws)])
           ELSE Know(p, [o EXCEPT !.step = "table", !.runs = ws])

\* The error is the second copy's.
TableError(t) ==
    IF ~t.ok THEN "InvalidRegionTable"
    ELSE IF \E r \in Range(t.names) : ~Fits(t.regions[r]) THEN "OffsetOutOfBounds"
    ELSE "RegionMissing"

\* Mutant of Prefix: the region table is read without the log.
PrefixUnpatched(p) == opener[p].held

Prefix(p) == Patched(p)

ChooseTable(p) ==
    /\ At(p, "table")
    /\ LET t == ReaderTable(Prefix(p)) IN
       IF t = 0 THEN Refuse(p, TableError(Tables(Prefix(p))[2])) ELSE Go(p, "meta")

ReadMetadata(p) ==
    /\ At(p, "meta")
    /\ LET m == ReaderRegions(Prefix(p)).meta
           img == Patched(p)
       IN  IF m.len = 0 \/ ~HasMeta(img, m.at) THEN Refuse(p, "InvalidMetadata")
           ELSE IF HasParent(img, m.at) /\ ~given THEN Refuse(p, "DifferencingNotSupported")
           ELSE Go(p, "bat")

\* The table is in the container, as the region table was checked: nothing can fail.
ReadBat(p) == At(p, "bat") /\ Go(p, "open")

OpenNext ==
    \E p \in Path :
        CheckFront(p) \/ ReplayLog(p) \/ ChooseTable(p) \/ ReadMetadata(p) \/ ReadBat(p)

-----------------------------------------------------------------------------
(* What opening is for                                                     *)

\* The container with its log committed, stated without the steps.
Writes(img) == IF ActiveCopy(img) = 0 THEN <<>> ELSE WritesOf(img, Headers(img)[ActiveCopy(img)])

Committed(img) == PutAll(img, Writes(img))

\* The log leaves what is read before it: the file identifier and the headers.
KeepsHeaders ==
    \A i \in DOMAIN Writes(file) : Writes(file)[i].unit = 0 => Writes(file)[i].word > 2

\* Both paths accept the same containers, refuse the others with the same error, and
\* show the same blocks of those they accept, also when the log rewrites the headers,
\* the region tables, the metadata or the table (log.rs:15-18; reader.rs:110-122,
\* 126-193).
PathsOpenAlike ==
    Ended("ram") /\ Ended("bounded") =>
        /\ opener["ram"].err = opener["bounded"].err
        /\ opener["ram"].err = "none" =>
              LET ram == Patched("ram")
                  bounded == Patched("bounded")
              IN  \A b \in 0 .. Blocks - 1 : View(ram, b) = View(bounded, b)

\* A container is accepted exactly when its committed contents make one, and then those
\* are what it shows (log.rs:9-13).
OpensCommitted ==
    \A p \in Path : Ended(p) /\ KeepsHeaders =>
        LET img == Committed(file)
            held == Patched(p)
        IN  /\ opener[p].err = "none" <=>
                  Opens(img) /\ (HasParent(img, ReaderRegions(img).meta.at) => given)
            /\ opener[p].err = "none" => \A b \in 0 .. Blocks - 1 : View(held, b) = View(img, b)
=============================================================================
