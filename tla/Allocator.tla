------------------------------ MODULE Allocator ------------------------------
(***************************************************************************)
(* What a memory allocator promises its caller: regions of at least the    *)
(* size asked for, aligned, that lie in the heap and overlap no other      *)
(* region in use.  An address stands for the header of a region, whose     *)
(* first byte comes 8 bytes later.                                         *)
(***************************************************************************)
EXTENDS Integers, FiniteSets

CONSTANTS Sizes, MaxHeap

VARIABLES
    live,       \* live[p]: the size of the region in use whose header is at p
    aborted     \* the process was ended because of a bad pointer

Addresses == {p \in 0 .. MaxHeap : p % 16 = 0}

Init == live = [p \in {} |-> 0] /\ aborted = FALSE

\* A region of this size at p would be in the heap and meet none of those in use.
Room(used, p, size) ==
    /\ p + 8 + size <= MaxHeap
    /\ \A q \in DOMAIN used : p + size <= q \/ q + used[q] <= p

Without(p)  == [q \in DOMAIN live \ {p} |-> live[q]]
With(used, p, size) ==
    [q \in DOMAIN used \cup {p} |-> IF q = p THEN size ELSE used[q]]

Malloc(size) ==
    \E p \in Addresses \ DOMAIN live : Room(live, p, size) /\ live' = With(live, p, size)

Free(p) == live' = Without(p)

\* The region may grow or shrink where it is, or move; it is never lost when there
\* is no room for more.
Realloc(p, size) ==
    \E q \in Addresses :
        /\ Room(IF q = p THEN Without(p) ELSE live, q, size)
        /\ live' = With(Without(p), q, size)

Next ==
    /\ ~aborted
    /\ \/ \E size \in Sizes : Malloc(size) /\ UNCHANGED aborted
       \/ \E p \in DOMAIN live : Free(p) /\ UNCHANGED aborted
       \/ \E p \in DOMAIN live, size \in Sizes : Realloc(p, size) /\ UNCHANGED aborted
       \/ aborted' = TRUE /\ UNCHANGED live

Spec == Init /\ [][Next]_<<live, aborted>>
=============================================================================
