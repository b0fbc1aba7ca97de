---------------------------- MODULE MCVhdxBacking ----------------------------
(***************************************************************************)
(* Media of up to four bytes, a Sub at the second of them, and reads that  *)
(* end before, at and beyond every length.                                 *)
(***************************************************************************)
EXTENDS VhdxBacking

MCSize == {0, 2, 3, 4}
MCRequest == [off : {0, 1, 3}, len : 0 .. 3]
=============================================================================
