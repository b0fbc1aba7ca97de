----------------------------- MODULE ImageSource -----------------------------
(***************************************************************************)
(* The contract of a positioned source that threads share (the ImageSource *)
(* trait, as core/src/vfs.rs implements it): a call takes an offset and a  *)
(* length and returns exactly the bytes there, cut at the end of the disk, *)
(* whatever other threads do meanwhile.                                    *)
(*                                                                         *)
(* The byte at address v of the disk is v itself: a byte taken from any    *)
(* other place is a wrong byte.                                            *)
(***************************************************************************)
EXTENDS Integers, Sequences

CONSTANTS
    Thread,
    DiskLen,    \* virtual_disk_size
    Request,    \* the calls of this instance: offset and buffer length
    MayFail     \* the medium may fail, or a reader panic

VARIABLES
    asked,      \* the call each thread is in, or was last in
    status,     \* "none", "pending", "ok" or "failed"
    bytes       \* what a call that succeeded returned

vars == <<asked, status, bytes>>

NoRequest == [off |-> 0, len |-> 0]

\* Addresses that a request covers on the disk.
Want(r) ==
    LET avail == IF r.off < DiskLen THEN DiskLen - r.off ELSE 0
    IN  IF r.len < avail THEN r.len ELSE avail

Slice(r) == [k \in 1 .. Want(r) |-> r.off + k - 1]

Init ==
    /\ asked = [t \in Thread |-> NoRequest]
    /\ status = [t \in Thread |-> "none"]
    /\ bytes = [t \in Thread |-> <<>>]

Call(t, r) ==
    /\ status[t] # "pending"
    /\ asked' = [asked EXCEPT ![t] = r]
    /\ status' = [status EXCEPT ![t] = "pending"]
    /\ bytes' = [bytes EXCEPT ![t] = <<>>]

Return(t) ==
    /\ status[t] = "pending"
    /\ status' = [status EXCEPT ![t] = "ok"]
    /\ bytes' = [bytes EXCEPT ![t] = Slice(asked[t])]
    /\ UNCHANGED asked

Fail(t) ==
    /\ MayFail
    /\ status[t] = "pending"
    /\ status' = [status EXCEPT ![t] = "failed"]
    /\ UNCHANGED <<asked, bytes>>

Next == \E t \in Thread : (\E r \in Request : Call(t, r)) \/ Return(t) \/ Fail(t)

Spec == Init /\ [][Next]_vars
=============================================================================
