--------------------------- MODULE CircularBuffer ---------------------------
(***************************************************************************)
(* The buffer of a socket (shared/Network/CircularBuffer).  It keeps the   *)
(* oldest bytes in region A and, once there is more room before A than     *)
(* after it, puts new ones in region B at the start of the block.          *)
(*                                                                         *)
(* A buffer is a record: start, where A begins; a and b, the bytes of the  *)
(* regions; hasB, whether m_regionBPointer is set.                         *)
(***************************************************************************)
EXTENDS Naturals, Sequences

CONSTANTS
    Capacity,  \* size of the block
    Bytes      \* what a byte can be

Buffers == [start : Nat, a : Seq(Bytes), b : Seq(Bytes), hasB : BOOLEAN]

\* The regions lie in the block, B before A.
Valid(buf) ==
    /\ buf \in Buffers
    /\ buf.start + Len(buf.a) <= Capacity
    /\ Len(buf.b) <= buf.start
    /\ ~buf.hasB => buf.b = <<>>
    /\ buf.a = <<>> => buf.b = <<>> /\ buf.start = 0

Empty == [start |-> 0, a |-> <<>>, b |-> <<>>, hasB |-> FALSE]

Contents(buf) == buf.a \o buf.b

AFreeSpace(buf) == Capacity - (buf.start + Len(buf.a))
SpaceBeforeA(buf) == buf.start
BFreeSpace(buf) == IF buf.hasB THEN buf.start - Len(buf.b) ELSE 0

\* AllocateB, if that gives more room.
Prepared(buf) ==
    IF ~buf.hasB /\ AFreeSpace(buf) < SpaceBeforeA(buf)
    THEN [buf EXCEPT !.hasB = TRUE] ELSE buf

\* GetSpace, which leaves Prepared(buf).
Space(buf) ==
    LET after == Prepared(buf) IN
    IF after.hasB THEN BFreeSpace(after) ELSE AFreeSpace(after)

\* Write, when there is room.
Written_bug(buf, bytes) ==
    IF AFreeSpace(buf) < BFreeSpace(buf)
    THEN [buf EXCEPT !.b = @ \o bytes, !.hasB = TRUE]
    ELSE [buf EXCEPT !.a = @ \o bytes]
Written(buf, bytes) ==
    IF Prepared(buf).hasB
    THEN [buf EXCEPT !.b = @ \o bytes, !.hasB = TRUE]
    ELSE [buf EXCEPT !.a = @ \o bytes]

Contiguous(buf) == IF buf.a # <<>> THEN buf.a ELSE buf.b

\* Remove n of the contiguous bytes, which are A's.  "is buffer A empty?
\* move buffer B to buffer A".
Removed(buf, n) ==
    IF n < Len(buf.a)
    THEN [buf EXCEPT !.start = @ + n, !.a = SubSeq(@, n + 1, Len(@))]
    ELSE [start |-> 0, a |-> buf.b, b |-> <<>>, hasB |-> FALSE]
=============================================================================
