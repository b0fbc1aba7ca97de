------------------------------ MODULE VhdxRepair ------------------------------
(***************************************************************************)
(* VhdxRepair::attempt_repair (forensic/src/repair.rs).                    *)
(*                                                                         *)
(* The list of findings and the place of the table are taken once, from    *)
(* the bytes as they were; the loop then edits the bytes one finding at a  *)
(* time, without a look at what the edits before it did.  The caller may   *)
(* repair again, and open the bytes with a reader at any point.            *)
(***************************************************************************)
EXTENDS VhdxContainer

CONSTANT MaxAttempts   \* bound on the calls of attempt_repair

ASSUME RepairAssumption == MaxAttempts \in Nat

VARIABLES
    image,      \* VhdxRepair.data
    original,   \* the bytes that were given to VhdxRepair::new
    pc,
    issues,     \* findings of this attempt not handled yet
    batAt,      \* bat_offset of this attempt
    attempts

vars == <<image, original, pc, issues, batAt, attempts>>

\* Of any image.
Init ==
    /\ original = image
    /\ pc = "idle"
    /\ issues = <<>> /\ batAt = 0
    /\ attempts = 0

Analyse ==
    /\ pc = "idle"
    /\ attempts < MaxAttempts
    /\ attempts' = attempts + 1
    /\ issues' = Issues(image)
    /\ batAt' = IF AnalyserTable(image) = 0 THEN 0 ELSE AnalyserRegions(image).bat.at
    /\ pc' = "repair"
    /\ UNCHANGED <<image, original>>

Issue == Head(issues)
Peer(c) == 3 - c

Handle(kinds) ==
    /\ pc = "repair"
    /\ issues # <<>>
    /\ Issue.kind \in kinds
    /\ issues' = Tail(issues)
    /\ UNCHANGED <<original, pc, batAt, attempts>>

\* copy_block_with_crc leaves a copy with a good checksum and, if the peer has
\* it, a good signature; of a peer it is good (CopyIssues, and copies come first).
CopyWord(to, from) == image' = [image EXCEPT !.unit[0][to] = image.unit[0][from]]

CopyHeader ==
    /\ Handle({"header"})
    /\ CopyWord(Issue.of, Peer(Issue.of))

CopyTable ==
    /\ Handle({"table"})
    /\ CopyWord(Issue.of + 2, Peer(Issue.of) + 2)

\* Mutant of Edit: the number of an entry is taken for the number of a block.
EditByBlock(i, word) ==
    LET k == i + i \div ChunkRatio IN
    image' = [image EXCEPT !.unit[batAt + k \div Words][k % Words] = word]

\* Whatever lies there: what is edited is no part of a structure any more.
Edit(i, word) ==
    image' = [image EXCEPT !.unit[batAt + i \div Words][i % Words] = word]

ZeroEntry ==
    /\ Handle({"beyond", "structural", "undefined"})
    /\ Edit(Issue.of, ZeroWord)

Cleared(word) == [word EXCEPT !.reserved = FALSE, !.part = NoPart]

ClearReserved ==
    /\ Handle({"unaligned"})
    /\ Edit(Issue.of, Cleared(WordAt(image, batAt, Issue.of)))

Report ==
    /\ pc = "repair"
    /\ issues = <<>>
    /\ pc' = "idle"
    /\ UNCHANGED <<image, original, issues, batAt, attempts>>

Next == Analyse \/ CopyHeader \/ CopyTable \/ ZeroEntry \/ ClearReserved \/ Report

-----------------------------------------------------------------------------
(* Properties                                                              *)

\* A block of the original that an entry of the table misplaces.
Damaged(img, b) ==
    LET w == EntryOf(img, b) IN
    /\ Opens(img) /\ HasEntry(img, b)
    /\ w.state = 1 \/ (w.state = 6 /\ (w.mib >= Units \/ Structural(img, w.mib)))

\* The reader and the analyser take the same regions, and no block that is in
\* place lies on the table.
Sound(img) ==
    Opens(img) =>
        /\ ReaderRegions(img) = AnalyserRegions(img)
        /\ \A b \in 0 .. Blocks - 1 :
              HasEntry(img, b) /\ EntryOf(img, b).state \in {6, 7} =>
                  ~Inside(ReaderRegions(img).bat, EntryOf(img, b).mib)

\* The table that the analyser takes lies on nothing by which a parser finds its way: on
\* the headers and region tables, the metadata, or the log.  Both parsers accept one that
\* does (of these the analyser reports the metadata only), and repair edits whatever lies
\* there (repair.rs:274-279, 292-294).
Apart(img) ==
    LET bat == AnalyserRegions(img).bat IN
    AnalyserTable(img) # 0 /\ Fits(bat) =>
        \A mib \in 0 .. Units - 1 : Inside(bat, mib) =>
            /\ ~Structural(img, mib)
            /\ ReaderTable(img) # 0 => ~Inside(ReaderRegions(img).meta, mib)

\* No edit, whichever findings are still to come, changes the header and the
\* regions that a reader of the bytes chooses (repair.rs:93-96).
ChoiceKept ==
    Apart(original) =>
        /\ ActiveCopy(original) = 0 <=> ActiveCopy(image) = 0
        /\ ActiveCopy(original) # 0 =>
              Headers(image)[ActiveCopy(image)] = Headers(original)[ActiveCopy(original)]
        /\ ReaderTable(original) = 0 <=> ReaderTable(image) = 0
        /\ ReaderTable(original) # 0 => ReaderRegions(image) = ReaderRegions(original)

\* A second repair finds nothing to repair.
RepairIsStable == Apart(original) /\ attempts > 1 => issues = <<>>
=============================================================================
