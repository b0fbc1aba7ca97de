---------------------------- MODULE MCVhdxRepair ----------------------------
(***************************************************************************)
(* Containers of six units of five words: 1 holds the log, 2 the metadata,  *)
(* 3 and 4 are tables or payload, 5 is payload.  A table has two payload   *)
(* entries, the bitmap entry of their chunk, and two payload entries of    *)
(* the next, of which the disk has one block.                              *)
(***************************************************************************)
EXTENDS VhdxReopen

w_(s, m) == [state |-> s, reserved |-> FALSE, mib |-> m, part |-> NoPart]

\* A word of a structure; as an entry it is of state 6 and names no unit of the container,
\* as "vhdxfile" does.
part_(part) == [state |-> 6, reserved |-> TRUE, mib |-> 6, part |-> part]
magic_ == part_([kind |-> "magic"])
loge_ == part_([kind |-> "log"])
metadata_(p) == part_([kind |-> "meta", parent |-> p])
head_(h) == part_([kind |-> "header", copy |-> h])
regi_(t) == part_([kind |-> "table", copy |-> t])

region_(at) == [at |-> at, len |-> 1]
header_(n, at) == [ok |-> TRUE, seq |-> n, guid |-> 1, log |-> region_(at)]
regions_(bat, meta, other) ==
    [r \in RegionName |->
        region_(CASE r = "bat" -> bat [] r = "meta" -> meta [] r = "other" -> other)]
table_(bat, meta) ==
    [ok |-> TRUE, names |-> <<"bat", "meta">>, regions |-> regions_(bat, meta, 0)]
other_(at) ==
    [ok |-> TRUE, names |-> <<"bat", "other", "meta">>, regions |-> regions_(3, 2, at)]
bad_(copy) == [copy EXCEPT !.ok = FALSE]

headers ==
    {<<header_(1, 1), header_(2, 1)>>, <<header_(2, 1), header_(2, 5)>>,
     <<bad_(header_(3, 5)), header_(2, 1)>>, <<header_(1, 1), bad_(header_(2, 5))>>,
     <<bad_(header_(1, 1)), bad_(header_(1, 1))>>, <<header_(1, 1), header_(2, 6)>>,
     <<header_(1, 1), [header_(2, 6) EXCEPT !.log.len = 0]>>,
     <<[header_(3, 6) EXCEPT !.guid = NoGuid], header_(1, 1)>>,
     <<header_(0, 1), [header_(0, 1) EXCEPT !.guid = 2]>>}

tables ==
    {<<table_(3, 2), table_(3, 2)>>, <<bad_(table_(4, 2)), table_(3, 2)>>,
     <<table_(3, 2), bad_(table_(4, 2))>>, <<bad_(table_(3, 2)), bad_(table_(3, 2))>>,
     <<[table_(4, 2) EXCEPT !.names = <<"bat">>], table_(3, 2)>>,
     <<table_(3, 2), table_(4, 2)>>, <<table_(3, 2), table_(3, 4)>>,
     <<table_(3, 2), [table_(4, 2) EXCEPT !.names = <<"meta", "bat">>]>>,
     <<other_(5), other_(6)>>, <<other_(6), other_(6)>>}

entries == {w_(0, 5), w_(1, 4), w_(6, 5), w_(6, 2), w_(6, 6), w_(7, 4),
            [w_(6, 4) EXCEPT !.reserved = TRUE], [w_(6, 1) EXCEPT !.reserved = TRUE]}

payload(n) == [k \in 0 .. 4 |-> w_(n, 0)]

\* Unit 5 holds a log that a header may name.
image_(h, t, a, b, c, p) ==
    [short |-> FALSE,
     unit |-> [u \in 0 .. 5 |->
                 CASE u = 0 -> (0 :> magic_ @@ 1 :> head_(h[1]) @@ 2 :> head_(h[2])
                                @@ 3 :> regi_(t[1]) @@ 4 :> regi_(t[2]))
                   [] u = 2 -> [payload(2) EXCEPT ![0] = metadata_(p)]
                   [] u = 3 -> (0 :> a @@ 1 :> b @@ 2 :> w_(6, 5) @@ 3 :> c @@ 4 :> w_(0, 0))
                   [] u \in {1, 5} -> [payload(u) EXCEPT ![0] = loge_]
                   [] u = 4 -> payload(4)]]

plain(h, t, p) == image_(h, t, w_(6, 5), w_(6, 4), w_(6, 4), p)

\* Pairs of headers and tables, with some entries; of these some, where one pair is damaged
\* or whole and the other any; tables of entries; children; files that are no container.
good == <<table_(3, 2), table_(3, 2)>>
torn == <<bad_(table_(4, 2)), table_(3, 2)>>
alike == <<header_(1, 1), header_(2, 1)>>
lost == <<bad_(header_(3, 5)), header_(2, 1)>>
Pairs == headers \X tables
SomePairs == (headers \X {good, torn}) \cup ({alike, lost} \X tables)
Layouts(pairs, a, b) == {image_(l[1], l[2], a, b, w_(2, 0), FALSE) : l \in pairs}
Entries(pairs, last) ==
    {image_(l[1], l[2], a, b, c, FALSE) : l \in pairs, a \in entries, b \in entries, c \in last}
\* An entry behind the disk's last block is damaged as well.
Behind ==
    {[img EXCEPT !.unit[3][4] = w_(1, 0)] :
        img \in Layouts({<<alike, good>>, <<lost, torn>>}, w_(6, 5), w_(6, 4))}
Children ==
    {plain(h, t, TRUE) :
        h \in {alike, lost, <<header_(2, 1), header_(2, 5)>>},
        t \in {good, <<table_(3, 2), bad_(table_(4, 2))>>, <<table_(3, 2), table_(3, 4)>>,
               <<table_(3, 6), table_(3, 2)>>}}
Foreign ==
    LET vhdx == {plain(h, torn, FALSE) : h \in headers} IN
    {[img EXCEPT !.short = TRUE] : img \in vhdx}
    \cup {[img EXCEPT !.unit[0][0] = w_(0, 0)] : img \in vhdx}

\* Tables that lie on the headers, the log or the metadata, or on a log that is not used.
Upon ==
    UNION {{image_(<<x, y>>, <<table_(n, 2), z>>, w_(6, 0), w_(7, 0), w_(2, 0), FALSE) :
                x \in {header_(1, 1), bad_(header_(3, 5))},
                y \in {header_(2, 1), bad_(header_(2, 1))},
                z \in {table_(n, 2), bad_(table_(n, 2)), table_(3, 2)}} : n \in {0, 1, 2, 5}}

\* What the logs hold: the table, a payload block, a region table or a header copy that
\* is good or torn, metadata that name a parent or are none.
put_(u, k, value) == <<[unit |-> u, word |-> k, value |-> value]>>
puts_(u, f) == [k \in 1 .. 5 |-> [unit |-> u, word |-> k - 1, value |-> f[k - 1]]]
zeroTable_ == puts_(3, payload(0))
newTable_ ==
    puts_(3, 0 :> w_(6, 6) @@ 1 :> w_(6, 4) @@ 2 :> w_(0, 0) @@ 3 :> w_(6, 5) @@ 4 :> w_(0, 0))
oneEntry_ == put_(3, 0, w_(6, 6))
newData_ == puts_(5, payload(4))
putTable_(c, t) == put_(0, c + 2, regi_(t))

log_(at, writes) == at :> [guid |-> 1, writes |-> writes]

childLogs == {log_(1, put_(2, 0, metadata_(TRUE)))}

logs ==
    {<<>>,
     log_(1, newTable_ \o newData_) @@ log_(5, zeroTable_),
     1 :> [guid |-> 2, writes |-> zeroTable_ \o newTable_ \o newData_],
     log_(1, oneEntry_) @@ log_(5, newData_),
     log_(5, newData_) @@ log_(1, putTable_(1, table_(4, 2))),
     log_(1, put_(0, 3, w_(0, 0)) \o putTable_(2, table_(4, 2))),
     log_(1, putTable_(1, table_(6, 2)) \o putTable_(2, table_(3, 6))),
     log_(1, put_(0, 1, head_(header_(4, 5))) \o zeroTable_) @@ log_(5, newTable_),
     log_(1, put_(2, 0, w_(0, 0))) @@ log_(5, put_(0, 0, w_(0, 0)))}
    \cup childLogs

\* A parent is passed or not where it can matter: a child, or a log that may make one.
MCCase ==
    [image : Layouts(Pairs, w_(6, 5), w_(6, 6)), log : {<<>>}, given : {FALSE}]
    \cup [image : Layouts(SomePairs, w_(6, 5), w_(6, 6)), log : logs, given : {FALSE}]
    \cup [image : Layouts(SomePairs, w_(1, 4), [w_(6, 1) EXCEPT !.reserved = TRUE]),
          log : childLogs \cup {<<>>, log_(1, oneEntry_)}, given : BOOLEAN]
    \cup [image : Behind, log : {<<>>, log_(1, oneEntry_)}, given : {FALSE}]
    \cup [image : Children, log : logs, given : BOOLEAN]
    \cup [image : Foreign, log : {<<>>}, given : {FALSE}]
    \cup [image : Entries({<<alike, good>>, <<lost, torn>>}, {w_(6, 3), w_(6, 4), w_(2, 0), w_(1, 0)}),
          log : {<<>>}, given : {FALSE}]
    \cup [image : Entries({<<alike, good>>}, {w_(6, 4), w_(1, 0)}),
          log : {log_(1, oneEntry_), log_(1, zeroTable_ \o newTable_ \o newData_)}, given : {FALSE}]
    \cup [image : Upon, given : {FALSE},
          log : {<<>>, log_(1, oneEntry_), log_(1, put_(0, 1, head_(header_(4, 5))) \o zeroTable_)}]

\* The copies of the region table are both valid, and differ.  The reader refuses
\* the first for a metadata region past the end.
MCDisagree ==
    {[image_(h, <<table_(4, 6), table_(3, 2)>>, a, b, w_(6, 4), FALSE)
        EXCEPT !.unit[4] = payload(s)] :
            h \in headers, a \in entries, b \in entries, s \in {1, 4}}

MCDisagreeCase == [image : MCDisagree, log : {<<>>}, given : {FALSE}]

-----------------------------------------------------------------------------
(* What the documents say                                                  *)

\* README.md:129: repair "never alters payload data".
PayloadNeverAltered ==
    \A b \in 0 .. Blocks - 1 :
        Opens(original) /\ HasEntry(original, b) =>
            LET w == EntryOf(original, b) IN
            w.state \in {6, 7} /\ w.mib \in 3 .. Units - 1
            /\ ~Inside(ReaderRegions(original).bat, w.mib)
                => image.unit[w.mib] = original.unit[w.mib]
=============================================================================
