---------------------------- MODULE MCLogReplay ----------------------------
(***************************************************************************)
(* A container of four cells, sectors of two, and a log of three slots.    *)
(***************************************************************************)
EXTENDS LogAudit

CONSTANTS g, h   \* the header's log GUID and another one

MCByte == 0 .. 19
MCDisk == [o \in 0 .. 3 |-> 10 + o]

data_(o) == [kind |-> "desc", off |-> o, len |-> 0]
zero_(o, n) == [kind |-> "zero", off |-> o, len |-> n]
other_ == [kind |-> "other", off |-> 0, len |-> 1]

entry_(n, s, ds, sec) ==
    [len |-> n, crc |-> TRUE, guid |-> g, seq |-> s, descs |-> ds,
     sectors |-> sec, overrun |-> FALSE]

first  == entry_(2, 1, <<data_(0)>>, <<<<1, 2>>>>)
equal  == entry_(2, 2, <<data_(1), data_(0)>>, <<<<3, 4>>>>)
later  == entry_(1, 2, <<zero_(1, 2)>>, <<>>)
oldest == entry_(1, 0, <<zero_(0, 4), zero_(2, 0)>>, <<>>)
many   == entry_(3, 1, <<data_(4), other_, data_(2)>>, <<<<5, 6>>, <<7, 8>>>>)
far    == entry_(2, 1, <<data_(8), data_(1)>>, <<<<5, 6>>>>)
vast   == entry_(1, 2, <<zero_(2, 6)>>, <<>>)

MCEntry ==
    {first, equal, later, oldest, many, far, vast,
     [later EXCEPT !.crc = FALSE], [first EXCEPT !.guid = h],
     [later EXCEPT !.len = 0, !.crc = FALSE], [first EXCEPT !.len = 4],
     [later EXCEPT !.overrun = TRUE]}

MCHeader ==
    {[valid |-> TRUE, guid |-> g, empty |-> FALSE, fits |-> TRUE],
     [valid |-> TRUE, guid |-> g, empty |-> TRUE, fits |-> TRUE],
     [valid |-> TRUE, guid |-> NoGuid, empty |-> FALSE, fits |-> TRUE],
     [valid |-> TRUE, guid |-> g, empty |-> FALSE, fits |-> FALSE],
     [valid |-> FALSE, guid |-> g, empty |-> FALSE, fits |-> TRUE]}

\* A sector that the end of the container cuts in two.
MCCut == {first, later, entry_(2, 1, <<data_(3)>>, <<<<3, 4>>>>)}

MCOverrun == {first, [later EXCEPT !.overrun = TRUE]}

-----------------------------------------------------------------------------
(* What the comments say, for logs of any content                          *)

\* log.rs:17-18: "the two paths are byte-identical for the same image".
PathsByteIdentical == \A k \in DOMAIN reply : reply[k] = data[replyAt + k]

\* README.md:135: "All length, offset, and count fields are bounds-checked
\* before any arithmetic"; ADR 5: crafted input yields findings, never a panic.
NeverPanics == live = Path
=============================================================================
