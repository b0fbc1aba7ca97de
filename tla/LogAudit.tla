------------------------------- MODULE LogAudit -------------------------------
(***************************************************************************)
(* What the integrity analyser says of a log (check_headers,               *)
(* check_region_tables and check_log, forensic/src/integrity.rs), beside   *)
(* what opening the image does with it (module LogReplay).  The analyser   *)
(* walks the log with a loop of its own.                                   *)
(*                                                                         *)
(* Neither writes the image, so the order of the two makes no difference:  *)
(* here the analyser goes first.                                           *)
(***************************************************************************)
EXTENDS LogReplay

CONSTANT MaxSeq   \* largest sequence number, 2^64 - 1 in the code

ASSUME AuditAssumption ==
    MaxSeq \in Nat /\ \A e \in Entry : e.seq <= MaxSeq

VARIABLES
    blank,      \* the log region is all zeros
    tables,     \* one of the two region tables is good
    audit,      \* the check that is next, or "done"
    place,      \* check_log: slot the walk is at
    prev,       \* check_log: prev_seq
    found       \* findings: kind, and the slot it names

audits == <<blank, tables, audit, place, prev, found>>

NoSeq == -1

AuditInit ==
    /\ Init
    /\ blank \in {z \in BOOLEAN : z => \A p \in 0 .. LogLen - 1 : log[p] = NoEntry}
    /\ tables \in BOOLEAN
    /\ audit = "header" /\ place = 0 /\ prev = NoSeq /\ found = {}

\* The findings about the log that the active header gives rise to.
HeaderFindings ==
    LET when(p, kind) == IF p THEN {<<kind, 0>>} ELSE {} IN
    IF ~header.valid THEN {<<"both", 0>>} ELSE
    when(header.guid # NoGuid /\ header.empty, "guidWithNoLog")
    \cup when(header.guid = NoGuid /\ ~header.empty, "noGuid")
    \cup when(~header.empty /\ ~header.fits, "beyond")
    \cup when(~header.empty, "dirty")

Scanned == header.valid /\ Dirty(header) /\ header.fits

\* analyse, up to the walk: it ends with the region tables if both are bad, although the
\* log may hold a good one.
CheckHeaders ==
    /\ audit = "header"
    /\ found' = HeaderFindings \cup IF ~tables THEN {<<"tables", 0>>}
                                  ELSE IF Scanned /\ blank THEN {<<"zeroed", 0>>} ELSE {}
    /\ audit' = IF tables /\ Scanned /\ ~blank THEN "log" ELSE "done"
    /\ UNCHANGED <<vars, blank, tables, place, prev>>

\* A missing signature is reported, a length that makes no sense is not.
EndCheckLog ==
    /\ audit = "log"
    /\ ~Framed(log, place)
    /\ found' = IF place < LogLen /\ log[place] = NoEntry
                THEN found \cup {<<"signature", place>>} ELSE found
    /\ audit' = "done"
    /\ UNCHANGED <<vars, blank, tables, place, prev>>

\* Mutant of CheckBadEntry: the walk ends there.
CheckBadEntryLast ==
    /\ audit = "log"
    /\ Framed(log, place) /\ ~log[place].crc
    /\ found' = found \cup {<<"crc", place>>}
    /\ audit' = "done"
    /\ UNCHANGED <<vars, blank, tables, place, prev>>

CheckBadEntry ==
    /\ audit = "log"
    /\ Framed(log, place) /\ ~log[place].crc
    /\ found' = found \cup {<<"crc", place>>}
    /\ place' = place + log[place].len
    /\ UNCHANGED <<vars, blank, tables, audit, prev>>

\* Mutant of Follows: only a repeated number is a gap.
Differs(seq) == seq # prev

Follows(seq) == seq = (prev + 1) % (MaxSeq + 1)

\* The number of an entry of another log counts for the next one's gap all the same.
CheckGoodEntry ==
    /\ audit = "log"
    /\ Framed(log, place) /\ log[place].crc
    /\ LET e == log[place] IN
       /\ found' = found
            \cup (IF e.guid # header.guid THEN {<<"guid", place>>} ELSE {})
            \cup (IF prev # NoSeq /\ ~Follows(e.seq) THEN {<<"gap", place>>} ELSE {})
       /\ prev' = e.seq
       /\ place' = place + e.len
    /\ UNCHANGED <<vars, blank, tables, audit>>

AuditStep == CheckHeaders \/ EndCheckLog \/ CheckBadEntry \/ CheckGoodEntry

AuditNext == AuditStep \/ (audit = "done" /\ Next /\ UNCHANGED audits)

AuditSpec == AuditInit /\ [][AuditNext]_<<vars, audits>>

\* The analysis runs to its end on the caller's thread, and so does the open.
FairAuditSpec ==
    /\ AuditSpec
    /\ WF_<<vars, audits>>(AuditStep)
    /\ WF_<<vars, audits>>(audit = "done" /\ OpenNext /\ UNCHANGED audits)

-----------------------------------------------------------------------------
(* Properties                                                              *)

Found(kind) == {f[2] : f \in {g \in found : g[1] = kind}}

Walked == {p \in Visited(log) : Framed(log, p)}

Collected == pc \notin {"header", "walk", "refused"}

\* What opening leaves out is what the analyser names: of the entries that replay's
\* own walk comes to, it skips those reported for their checksum or GUID and no other
\* (integrity.rs:1293-1344, log.rs:122-158), unless the region tables have ended the
\* analysis; an open refused for its header or its log is reported in any case.
SkipsReported ==
    audit = "done" =>
        /\ pc = "refused" => Found("both") \cup Found("beyond") # {}
        /\ Collected /\ Dirty(header) /\ Found("tables") = {} =>
              /\ Found("crc") \cup Found("guid") = Walked \ Committed(header, log)
              /\ Len(entries) = Cardinality(Walked) - Cardinality(Found("crc") \cup Found("guid"))

\* Numbers that start again at 0, which the analyser takes for the next ones and the
\* sort of the replay for the first.
WrapsAround == \E p, q \in Walked : p < q /\ log[p].seq = MaxSeq /\ log[q].seq = 0

\* A log without a finding about its entries is replayed entry by entry as it lies, so
\* that what an examiner reads in place is what took effect (integrity.rs:1332-1341,
\* log.rs:157).
QuietLogInOrder ==
    /\ audit = "done" /\ Collected /\ Dirty(header) /\ ~WrapsAround
    /\ Found("tables") \cup Found("crc") \cup Found("guid") \cup Found("gap") = {}
    => \E places \in [1 .. Cardinality(Walked) -> Walked] :
          /\ \A i, j \in DOMAIN places : i < j => places[i] < places[j]
          /\ entries = [i \in DOMAIN places |-> log[places[i]]]
=============================================================================
