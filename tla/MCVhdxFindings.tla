--------------------------- MODULE MCVhdxFindings ---------------------------
(***************************************************************************)
(* Containers of some twenty cells, 2 to the MiB, with a metadata region   *)
(* of 6 units of four bytes.  Blocks are 2 or 4 cells, sectors 2 or 4; the *)
(* format's width caps a block at 8.  A table cell holds one entry.        *)
(***************************************************************************)
EXTENDS VhdxFindings

region_(name, at, len) == [name |-> name, at |-> at, len |-> len, required |-> FALSE]
item_(name, off, len) == [name |-> name, off |-> off, len |-> len]
entry_(s, m) == [state |-> s, mib |-> m]
noLog == [at |-> 0, len |-> 0]

meta == region_("meta", 2, 2)
bat_(n) == region_("bat", 4, n)
plainItems == <<item_("block", 0, 2), item_("disk", 2, 2), item_("sector", 4, 1)>>
data_(block, disk, sector) ==
    [o \in 0 .. 7 |-> CASE o < 2 -> block [] o \in {2, 3} -> disk [] OTHER -> sector]

\* The head and the metadata are not zeros.
image_(regions, size, items, data, bat) ==
    [regions |-> regions, size |-> size, log |-> noLog, items |-> items, data |-> data,
     metaLen |-> 6, metaRoom |-> 8, bat |-> bat, parent |-> FALSE,
     full |-> {0} \cup {regions[i].at : i \in {k \in DOMAIN regions :
                           regions[k].name = "meta" /\ regions[k].at < size}}]

zeros(n) == [i \in 1 .. n |-> entry_(Zero, 0)]

\* Region tables: regions that leave the container, meet, lie between MiBs, come twice
\* or not at all, and regions of neither kind.
layouts ==
    {<<>>, <<meta>>, <<bat_(4)>>}
    \cup {<<meta, region_("bat", at, len)>> : at \in {2, 3, 4, 16, 18}, len \in {0, 4}}
    \cup {<<region_("bat", 4, 4), m, o>> :
            m \in {meta, region_("meta", 6, 2), region_("meta", 18, 4)},
            o \in {region_("other", at, 4) : at \in {2, 18}}
                  \cup {[region_("other", 8, 2) EXCEPT !.required = TRUE],
                        region_("bat", 8, 4), region_("bat", 3, 4), region_("meta", 6, 2)}}

batLen(regions) ==
    LET S == {i \in DOMAIN regions : regions[i].name = "bat"} IN
    IF S = {} THEN 0 ELSE regions[Max(S)].len

Layouts ==
    {[image_(r, 20, plainItems, data_(4, d, 2), zeros(batLen(r))) EXCEPT !.log = l] :
        r \in layouts, d \in {8, 9},
        l \in {noLog, [at |-> 0, len |-> 2], [at |-> 2, len |-> 2]}}

\* Metadata tables of three items, which may be short, empty, out of order, out of the
\* region, in each other's way, or of a name the analyser does not know.
Items ==
    {image_(<<meta, bat_(4)>>, 20, <<a, b, c>>, d, zeros(4)) :
        a \in {item_("block", o, n) : o \in {0, 2}, n \in {0, 2, 3}},
        b \in {item_(k, o, 2) : k \in {"disk", "qemu"}, o \in {0, 2, 3, 6}},
        c \in {item_(k, o, n) :
                 k \in {"sector", "disk", "block"}, o \in {1, 4, 5, 7}, n \in {1, 2}},
        d \in {data_(4, 8, 2), data_(4, 8, 4), data_(2, 6, 4)}}

\* Items of names from which no value is taken, in the way of others or not, and more
\* items than are looked at.
Kinds ==
    {image_(<<meta, bat_(4)>>, 20, <<plainItems[1], plainItems[2], x>> \o y,
            data_(4, 8, s), zeros(4)) :
        x \in {item_("physical", o, n) : o \in {1, 4, 5, 6}, n \in {0, 1}} \cup {plainItems[3]},
        y \in {<<>>, <<item_("physical", 5, 1)>>, <<item_("disk", 2, 2)>>,
               <<item_("physical", 5, 1), item_("id", 2, 4)>>,
               <<item_("physical", 5, 1), item_("sector", 7, 1)>>},
        s \in {2, 4}}

\* Sizes of disks, blocks, sectors and tables.
Geometries ==
    {image_(<<meta, bat_(n)>>, 20, items, data_(b, d, s), zeros(n)) :
        n \in 1 .. 10, items \in {plainItems, <<plainItems[1], plainItems[2]>>},
        b \in {0, 2, 3, 4, 8}, d \in {0, 2, 4, 5, 8, 12, 16, 20, 24, 30}, s \in {0, 1, 2, 4}}

\* Tables of five entries, the third and last for bitmaps, or of four, the last for one.
Tables ==
    {image_(<<meta, bat_(5)>>, 20, plainItems, data_(4, 16, s), <<a, b, c, d, e>>) :
        s \in {2, 4},
        a \in {entry_(6, 4), entry_(6, 6)}, b \in {entry_(6, 4), entry_(2, 0)},
        c \in {entry_(6, 4), entry_(0, 0)}, d \in {entry_(6, 4), entry_(6, 6), entry_(6, 12)},
        e \in {entry_(6, 4), entry_(6, 6), entry_(7, 6), entry_(2, 0)}}

\* Tables of six entries, the third and last for bitmaps, with blocks in place, gone,
\* partial or past the end, and data in the last of the container's cells.
Remnants ==
    {[image_(<<meta, bat_(6)>>, 20, plainItems, data_(4, n, 2), <<a, b, c, d, entry_(0, 0), c>>)
        EXCEPT !.full = @ \cup {4} \cup f] :
        n \in {8, 10, 16}, f \in SUBSET {10, 13, 16, 19},
        a \in {entry_(6, 5), entry_(6, 12), entry_(0, 5), entry_(7, 8)},
        b \in {entry_(6, 8), entry_(0, 8), entry_(2, 8), entry_(0, 0)},
        c \in {entry_(0, 0), entry_(6, 7)}, d \in {entry_(6, 6), entry_(7, 6), entry_(0, 9)}}

\* Entries of every state, with and without a parent.
States ==
    {[image_(<<meta, bat_(6)>>, 20, plainItems, data_(4, 16, 2),
             <<entry_(a, 5), entry_(b, 8), entry_(c, 4), entry_(d, m), entry_(2, 0), entry_(6, 4)>>)
        EXCEPT !.parent = p] :
        a \in 0 .. 7, b \in {0, 3, 6, 7}, c \in {0, 2, 6}, d \in {0, 4, 6}, m \in {6, 10},
        p \in BOOLEAN}

\* Children, whose partially present blocks hold data under a bitmap.
Partials ==
    {[image_(<<meta, bat_(6)>>, 20, plainItems, data_(4, n, 2),
             <<entry_(a, 5), entry_(2, 0), entry_(c, 7), entry_(7, 8), entry_(2, 0), entry_(c, 4)>>)
        EXCEPT !.parent = TRUE, !.full = @ \cup f] :
        n \in {8, 16}, a \in {0, 6, 7}, c \in {0, 6}, f \in {{10}, {17}, {10, 17}}}

\* Tables that end between two MiBs, with data in the rest of the MiB and behind it.
Edges ==
    {[image_(<<meta, bat_(5)>>, 20, plainItems, data_(4, 8, 2), <<a, b, entry_(0, 0), b, a>>)
        EXCEPT !.full = @ \cup f] :
        f \in SUBSET {8, 9, 10, 19}, a \in {entry_(0, 0), entry_(0, 4)},
        b \in {entry_(2, 0), entry_(6, 5)}}

MCImage ==
    Edges \cup Partials \cup States \cup Layouts \cup Items \cup Kinds \cup Geometries
    \cup Tables \cup Remnants

-----------------------------------------------------------------------------
\* README.md:135, "Panic-free on hostile input": analyse returns.
AnalyserNeverPanics == pc # "panicked"

\* The entry of a block of the child, some of whose sectors a read takes from there.
ServedInPart(i) ==
    LET g == AnalyserGeometry IN
    /\ img.parent /\ Accepted(g)
    /\ EntryAt(img, i).state = PartiallyPresent
    /\ \E b \in 0 .. Blocks(g) - 1 :
          /\ i = BatIndex(g, b) /\ HasEntry(img, BitmapIndex(g, b))
          /\ EntryAt(img, BitmapIndex(g, b)).state = BitmapPresent

=============================================================================
