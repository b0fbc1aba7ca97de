---------------------------- MODULE MCVhdxSource ----------------------------
(***************************************************************************)
(* Two threads over a disk of five cells in blocks of two: ranges that     *)
(* cross a block, end at the end of the disk, or start beyond it.          *)
(***************************************************************************)
EXTENDS VhdxSource

MCRequest == {[off |-> 0, len |-> 3], [off |-> 3, len |-> 4],
              [off |-> 1, len |-> 0], [off |-> 5, len |-> 1]}

-----------------------------------------------------------------------------
(* What the comments say, for every backing                                *)

\* vfs.rs:23-25: "The lock is poison-recovering, so one panicking reader does not
\* wedge the source": a call fails only for a fault of its own.
NeverWedged == \A t \in Thread : status[t] = "failed" => met[t]
=============================================================================
