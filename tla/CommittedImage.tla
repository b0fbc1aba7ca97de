--------------------------- MODULE CommittedImage ---------------------------
(***************************************************************************)
(* What opening a container promises (core/src/log.rs:7-18): a dirty image *)
(* is shown in its committed state from the first read on, whichever way   *)
(* it was opened, and a read returns the committed bytes of its range, cut *)
(* at the end of the container.                                            *)
(***************************************************************************)
EXTENDS VhdxLog

VARIABLES header, log, status, replyAt, reply
vars == <<header, log, status, replyAt, reply>>

CONSTANT MaxRead   \* bound on the length of a read

Init ==
    /\ header \in Header
    /\ log \in Log
    /\ status = "closed"
    /\ replyAt = 0
    /\ reply = <<>>

Open ==
    /\ status = "closed"
    /\ status' = IF Opens(header, log) THEN "open" ELSE "refused"
    /\ UNCHANGED <<header, log, replyAt, reply>>

ReadAt(off, n) ==
    /\ status = "open"
    /\ replyAt' = off
    /\ reply' = [k \in {j \in 0 .. n - 1 : off + j < ContainerLen} |->
                    CommittedByte(header, log, off + k)]
    /\ UNCHANGED <<header, log, status>>

Next == Open \/ \E off \in 0 .. ContainerLen, n \in 1 .. MaxRead : ReadAt(off, n)

Spec == Init /\ [][Next]_vars
=============================================================================
