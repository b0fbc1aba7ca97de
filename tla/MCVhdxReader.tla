---------------------------- MODULE MCVhdxReader ----------------------------
(***************************************************************************)
(* Disks of 18 cells in blocks of 8 and sectors of 2, four sectors to a    *)
(* bitmap byte, over parents of other geometries and lengths.              *)
(***************************************************************************)
EXTENDS VhdxReader

e_(s, m) == [state |-> s, mib |-> m]

\* Four units of data, then bitmaps: 0110, 1001, 1100.
bytes_(n) == [i \in 1 .. n |-> IF i = 25 THEN 6 ELSE IF i = 26 THEN 9
                               ELSE IF i = 27 THEN 12 ELSE 100 + i]

child_(b0, b1, b2, bitmap, n) ==
    [blockSize |-> 8, sectorSize |-> 2, vds |-> 18,
     bat |-> IF b2 = <<>> THEN <<b0, b1, bitmap>>
             ELSE <<b0, b1, bitmap, b2, e_(0, 0), bitmap>>,
     container |-> bytes_(n)]

present_ == e_(BitmapPresent, 3)

children ==
    {child_(b0, b1, e_(6, 2), present_, 32) :
        b0 \in {e_(2, 1), e_(6, 1), e_(7, 1)}, b1 \in {e_(0, 0), e_(7, 2)}}
    \cup {child_(e_(s, 1), e_(7, 2), e_(7, 1), present_, 22) : s \in {0, 1, 3, 4, 5}}
    \cup {child_(e_(0, 0), e_(7, 2), e_(0, 0), e_(0, 3), 32),
          child_(e_(7, 1), e_(7, 2), e_(7, 1), present_, 25),
          child_(e_(6, 1), e_(6, 2), <<>>, present_, 32)}

\* A parent with blocks of 16 cells: partial, then absent.
wide == [blockSize |-> 16, sectorSize |-> 2, vds |-> 18,
         bat |-> <<e_(7, 1), e_(6, 3), e_(0, 0), e_(0, 0)>>,
         container |-> [i \in 1 .. 32 |-> bytes_(32)[i] + 100 * (i \div 32)]]

\* A parent that ends before the child does.
small == [blockSize |-> 8, sectorSize |-> 1, vds |-> 10,
          bat |-> <<e_(6, 1), e_(0, 0), e_(6, 2), e_(0, 0)>>,
          container |-> [i \in 1 .. 24 |-> 200 + i]]

\* The chains with faults: a child of three kinds of block over one or two parents.
MCUnreliable ==
    LET c == child_(e_(7, 1), e_(0, 0), e_(6, 2), present_, 32)
    IN  {<<c, wide>>, <<c, wide, small>>, <<c, small>>}

MCChain ==
    {<<c>> : c \in children} \cup {<<c, wide>> : c \in children}
    \cup {<<c, small>> : c \in children} \cup {<<c, wide, small>> : c \in children}
    \cup MCUnreliable

MCOffset == {-3, 0, 1, 7, 31, 40}
=============================================================================
