------------------------------ MODULE VhdxReopen ------------------------------
(***************************************************************************)
(* Repair and then open: VhdxRepair, which edits the bytes as they lie and *)
(* knows nothing of the log, followed by VhdxOpen, which commits the log   *)
(* first.  The bytes may be opened unrepaired, or after any attempt.       *)
(***************************************************************************)
EXTENDS VhdxRepair

CONSTANT Case   \* [image, log, given]: an image, its log, and whether a parent is passed

VARIABLES log, given, opener

opening == <<log, given, opener>>

O == INSTANCE VhdxOpen WITH file <- image

ASSUME CaseAssumption ==
    \A c \in Case : IsImage(c.image) /\ O!IsLog(c.log) /\ c.given \in BOOLEAN

ReopenInit ==
    /\ \E c \in Case : image = c.image /\ log = c.log /\ given = c.given
    /\ Init
    /\ O!OpenInit

Repair ==
    /\ opener = [p \in O!Path |-> O!Fresh]
    /\ Next
    /\ UNCHANGED opening

Open ==
    /\ pc = "idle"
    /\ O!OpenNext
    /\ UNCHANGED <<original, pc, issues, batAt, attempts>>

ReopenNext == Repair \/ Open

ReopenSpec == ReopenInit /\ [][ReopenNext]_<<vars, opening>>

-----------------------------------------------------------------------------
(* Properties                                                              *)

\* The log, if it has writes, writes no structure that the reader parses: repair cannot
\* know of headers, regions or metadata that the log would bring.
Writes(img) == O!Writes(img)
SettledIn(img) ==
    \A i \in DOMAIN Writes(img) :
        /\ Writes(img)[i].unit # 0
        /\ ReaderTable(img) # 0 => Writes(img)[i].unit # ReaderRegions(img).meta.at
Settled == SettledIn(original)

\* The log writes the entry of block b.
Logged(b) ==
    LET k == b + b \div ChunkRatio IN
    \E i \in DOMAIN Writes(original) :
        /\ Writes(original)[i].unit = ReaderRegions(original).bat.at + k \div Words
        /\ Writes(original)[i].word = k % Words

\* Block b lies in unit 0, where a copy of a header may be restored or torn.
ShowsHead(img, b) ==
    Opens(img) /\ HasEntry(img, b) /\ EntryOf(img, b).state \in {6, 7} /\ EntryOf(img, b).mib = 0

\* For a reader that opens the bytes at any point of a repair, and commits the log,
\* only misplaced blocks have changed, and those are absent (README.md:129).  An entry
\* that the log rewrites is the log's, whatever repair made of it.  A table that the log
\* brings has to be sound as well: repair edits the table without regard to a block that
\* the log would put there.
OnlyDamageChanges ==
    LET was == O!Committed(original)
        now == O!Committed(image)
    IN  Apart(original) /\ Sound(original) /\ Sound(was) /\ Settled =>
            \A b \in 0 .. Blocks - 1 :
                \/ ShowsHead(was, b)
                \/ View(now, b) = View(was, b)
                \/ Damaged(original, b) /\ ~Logged(b) /\ View(now, b) = <<"absent">>

\* After a repair a block of an image that opens is misplaced only by the log.
DamageIsTheLogs ==
    LET now == O!Committed(image) IN
    pc = "idle" /\ attempts > 0 /\ Apart(original) /\ Sound(original) /\ Settled =>
        \A b \in 0 .. Blocks - 1 : Damaged(now, b) => Logged(b)

\* Differences between two good copies that the analyser does not look for.
Uncompared(img) ==
    \/ Headers(img)[1].guid # Headers(img)[2].guid
    \/ Tables(img)[1].names # Tables(img)[2].names
    \/ "other" \in Range(Tables(img)[1].names)
       /\ Tables(img)[1].regions["other"] # Tables(img)[2].regions["other"]

\* Every image that is left of img when one of its copies is torn.
Torn(img) == {[img EXCEPT !.unit[0][k] = ZeroWord] : k \in 1 .. 4}

\* Where the analyser reports neither a bad copy nor a mismatch of two, any one copy of
\* the header or the region table can be lost, before, during and after a repair, and a
\* reader shows the same blocks as before (check_header_pair, check_region_table_pair).
QuietCopiesInterchange ==
    /\ CopyIssues(Headers(image), "header") = <<>> /\ CopyIssues(Tables(image), "table") = <<>>
    /\ HeaderMismatches(image) \subseteq {"zero", "identical", "gap"}
    /\ TableMismatches(image) = {}
    /\ Opens(image) /\ SettledIn(image) /\ ~Uncompared(image)
    /\ ~Inside(ReaderRegions(image).bat, 0)
    => LET was == O!Committed(image) IN
       \A left \in Torn(image) :
          LET now == O!Committed(left) IN
          \A b \in 0 .. Blocks - 1 : ShowsHead(was, b) \/ View(now, b) = View(was, b)

PathsOpenAlike == O!PathsOpenAlike
OpensCommitted == O!OpensCommitted
=============================================================================
