-------------------------------- MODULE Sfmm --------------------------------
(***************************************************************************)
(* The allocator of dynamic_memory_allocator (src/sfmm.c): blocks with a   *)
(* header and a footer tile the heap, and four lists, by size, hold the    *)
(* free ones, doubly linked through the blocks themselves.                 *)
(*                                                                         *)
(* Addresses and sizes are in bytes from the start of the heap, and a      *)
(* block is named by its header: the caller's pointer is 8 more.  A word   *)
(* inside a block that is no longer a tag or a link is the payload's, and  *)
(* the model drops it.  The words of a block are distinct variables here,  *)
(* which is right as long as it has room for its four words: see HasLinks. *)
(***************************************************************************)
EXTENDS Integers, FiniteSets

CONSTANTS
    Sizes,      \* what callers ask for
    PageSize,
    MaxPages,   \* sf_sbrk grants no more
    ListMin,    \* LIST_1_MIN
    ListMax     \* ListMax[n]: LIST_<n+1>_MAX, for the lists 0, 1 and 2

Lists == 0 .. 3
NULL  == -1

ASSUME SfmmAssumption ==
    /\ Sizes \subseteq Nat /\ IsFiniteSet(Sizes)
    /\ PageSize \in Nat \ {0} /\ PageSize % 16 = 0 /\ MaxPages \in Nat
    /\ ListMin \in Nat /\ ListMax \in [0 .. 2 -> Nat]

VARIABLES
    heap,       \* the end of the heap, the tags of the blocks, the free lists
    sf_errno,
    aborted,    \* sf_free or sf_realloc met a bad pointer
    live        \* what callers hold: live[p] is the size they asked for

vars == <<heap, sf_errno, aborted, live>>

MaxHeap   == PageSize * MaxPages
Addresses == {p \in 0 .. MaxHeap : p % 16 = 0}
Without(f, S) == [x \in DOMAIN f \ S |-> f[x]]
With(f, x, v) == [y \in DOMAIN f \cup {x} |-> IF y = x THEN v ELSE f[y]]
Least(S) == CHOOSE n \in S : \A m \in S : n <= m
-----------------------------------------------------------------------------
(***************************************************************************)
(* Operations on a heap h: h.header[p], h.footer[e] with e the end of the  *)
(* block, h.link[p] of a free block, h.head[n] and h.end.                  *)
(***************************************************************************)
Size(h, p) == h.header[p].size

\* Mutant: the footer does not say that the block is padded.
WriteBlockFooter(h, p, size, requested, allocated, padded) ==
    [h EXCEPT
        !.header = With(Without(@, {a \in DOMAIN @ : p < a /\ a < p + size}), p,
                        [size |-> size, allocated |-> allocated, padded |-> padded]),
        !.footer = With(Without(@, {e \in DOMAIN @ : p < e /\ e < p + size}), p + size,
                        [size |-> size, allocated |-> allocated, padded |-> 0,
                         requested |-> requested])]

write_block(h, p, size, requested, allocated, padded) ==
    [h EXCEPT
        !.header = With(Without(@, {a \in DOMAIN @ : p < a /\ a < p + size}), p,
                        [size |-> size, allocated |-> allocated, padded |-> padded]),
        !.footer = With(Without(@, {e \in DOMAIN @ : p < e /\ e < p + size}), p + size,
                        [size |-> size, allocated |-> allocated, padded |-> padded,
                         requested |-> requested])]

ListOf(size) ==
    IF size < ListMin THEN 3
    ELSE Cardinality({n \in 0 .. 2 : ListMax[n] < size})

insert_seg_free_list(h, p) ==
    LET n     == ListOf(Size(h, p))
        first == h.head[n]
        old   == IF first = NULL THEN h.link ELSE [h.link EXCEPT ![first].prev = p]
    IN  [h EXCEPT !.head[n] = p, !.link = With(old, p, [next |-> first, prev |-> NULL])]

\* Mutant: only the predecessor is told.
RemoveOneWay(h, p) ==
    LET n == ListOf(Size(h, p))
        l == h.link[p]
        around == [a \in DOMAIN h.link \ {p} |->
                     [h.link[a] EXCEPT !.next = IF a = l.prev THEN l.next ELSE @]]
    IN  [h EXCEPT !.head[n] = IF l.prev = NULL THEN l.next ELSE @, !.link = around]

remove_seg_free_list(h, p) ==
    LET n == ListOf(Size(h, p))
        l == h.link[p]
        around == [a \in DOMAIN h.link \ {p} |->
                     [next |-> IF a = l.prev THEN l.next ELSE h.link[a].next,
                      prev |-> IF a = l.next THEN l.prev ELSE h.link[a].prev]]
    IN  [h EXCEPT !.head[n] = IF l.prev = NULL THEN l.next ELSE @, !.link = around]

\* The blocks of list n, one after the other, and NULL after the last one.
Chain(h, n) ==
    LET at[i \in 1 .. Cardinality(DOMAIN h.link)] ==
          IF i = 1 THEN h.head[n]
          ELSE IF at[i - 1] = NULL THEN NULL ELSE h.link[at[i - 1]].next
    IN  at

\* Where a free block of this size at least is in list n.
Fits(h, n, asize) ==
    LET c == Chain(h, n)
    IN  {i \in DOMAIN c : c[i] # NULL /\ h.header[c[i]].allocated = 0 /\ Size(h, c[i]) >= asize}

\* Mutant: only the list of the size is searched.
FindFitOneList(h, size) ==
    LET asize == size + 16
        from  == IF asize < ListMin THEN 0 ELSE ListOf(asize)
    IN  IF Fits(h, from, asize) = {} THEN NULL ELSE Chain(h, from)[Least(Fits(h, from, asize))]

\* First fit, from the list of the size upwards.  A size below LIST_1_MIN starts at
\* list -1, whose head, the zero before the array, is NULL.
find_fit(h, size) ==
    LET asize == size + 16
        from  == IF asize < ListMin THEN 0 ELSE ListOf(asize)
        found == {n \in from .. 3 : Fits(h, n, asize) # {}}
        n     == Least(found)
    IN  IF found = {} THEN NULL ELSE Chain(h, n)[Least(Fits(h, n, asize))]

\* A block for a request: whole rows of 16 bytes and the two tags.
Rows(size) == IF size % 16 = 0 THEN size + 16 ELSE (size \div 16) * 16 + 32

Padded(size) == IF size % 16 = 0 THEN 0 ELSE 1

\* Mutant: blocks are split only when 64 bytes are left.
PlaceWhole(h, p, size) ==
    LET old   == Size(h, p)
        block == Rows(size)
        rest  == write_block(write_block(remove_seg_free_list(h, p),
                                         p, block, size, 1, Padded(size)),
                             p + block, old - block, 0, 0, 0)
    IN  IF old < size + 64
        THEN remove_seg_free_list(write_block(h, p, old, size, 1, 1), p)
        ELSE insert_seg_free_list(rest, p + block)

\* A block too small for the request and 32 bytes more is given as it is.
place(h, p, size) ==
    LET old   == Size(h, p)
        block == Rows(size)
        taken == remove_seg_free_list(h, p)
        rest  == write_block(write_block(taken, p, block, size, 1, Padded(size)),
                             p + block, old - block, 0, 0, 0)
    IN  IF old < size + 32
        THEN remove_seg_free_list(write_block(h, p, old, size, 1, 1), p)
        ELSE insert_seg_free_list(rest, p + block)

\* Mutant: the joined block gets the size of the higher one.
CoalesceShort(h, p) ==
    LET next == p + Size(h, p)
    IN  IF next = h.end \/ h.header[next].allocated = 1 THEN h
        ELSE write_block(remove_seg_free_list(h, next), p, Size(h, next), 0, 0, 0)

coalescing_with_higher_address(h, p) ==
    LET next == p + Size(h, p)
    IN  IF next = h.end \/ h.header[next].allocated = 1 THEN h
        ELSE write_block(remove_seg_free_list(h, next),
                         p, Size(h, p) + Size(h, next), 0, 0, 0)

coalescing_with_lower_address(h, p) ==
    LET prev == p - h.footer[p].size
    IN  IF h.header[prev].allocated # 0 THEN h
        ELSE insert_seg_free_list(
               coalescing_with_higher_address(remove_seg_free_list(h, prev), prev), prev)

\* One page more; the first has no lower neighbour.
extend_heap(h) ==
    LET page == insert_seg_free_list(
                  write_block([h EXCEPT !.end = @ + PageSize], h.end, PageSize, 0, 0, 0), h.end)
    IN  IF h.end = 0 THEN page ELSE coalescing_with_lower_address(page, h.end)

\* The heap in which malloc finds its block, or gives up: extended as often as it takes.
Extended(h, size) ==
    LET left  == (MaxHeap - h.end) \div PageSize
        after[n \in 0 .. left] == IF n = 0 THEN h ELSE extend_heap(after[n - 1])
        enough == {n \in 0 .. left : find_fit(after[n], size) # NULL}
    IN  after[IF enough = {} THEN left ELSE Least(enough)]

Invalid(size) == size > 4 * PageSize \/ size = 0

\* What malloc(size) makes of heap h: the heap, the block or NULL, and sf_errno.
Malloc(h, size, errno) ==
    LET g == Extended(h, size)
        p == find_fit(g, size)
    IN  IF Invalid(size) THEN [heap |-> h, block |-> NULL, errno |-> "EINVAL"]
        ELSE IF p = NULL THEN [heap |-> g, block |-> NULL, errno |-> "ENOMEM"]
        ELSE [heap |-> place(g, p, size), block |-> p, errno |-> errno]

\* The checks of sf_free and sf_realloc on the pointer they are given.
Valid(h, p) ==
    /\ p <= h.end /\ h.header[p].allocated = 1
    /\ LET f == h.footer[p + Size(h, p)]
       IN  /\ f.padded = h.header[p].padded /\ f.allocated = h.header[p].allocated
           /\ f.requested + 16 # f.size => f.padded = 1

Free(h, p) ==
    insert_seg_free_list(
        coalescing_with_higher_address(write_block(h, p, Size(h, p), 0, 0, 0), p), p)

\* Mutant: a realloc that fails frees the block.
MoveFrees(m, p) == Free(m.heap, p)

\* A block that holds size with less than 32 bytes to spare keeps its rows.
Shrink(h, p, size) ==
    LET old   == Size(h, p)
        block == Rows(size)
    IN  IF old - 16 = size THEN write_block(h, p, old, size, 1, Padded(size))
        ELSE IF old - 16 - size < 32 THEN write_block(h, p, old, size, 1, 1)
        ELSE Free(write_block(write_block(h, p, block, size, 1, Padded(size)),
                              p + block, old - block, 1, 1, 1), p + block)

\* realloc to a larger block: the old one is freed once the new one is there.
Move(m, p) == IF m.block = NULL THEN m.heap ELSE Free(m.heap, p)
-----------------------------------------------------------------------------
Init ==
    /\ heap = [end |-> 0, header |-> [p \in {} |-> 0], footer |-> [p \in {} |-> 0],
               link |-> [p \in {} |-> 0], head |-> [n \in Lists |-> NULL]]
    /\ sf_errno = "none" /\ aborted = FALSE
    /\ live = [p \in {} |-> 0]

sf_malloc(size) ==
    /\ ~aborted
    /\ LET m == Malloc(heap, size, sf_errno)
       IN  /\ heap' = m.heap /\ sf_errno' = m.errno
           /\ live' = IF m.block = NULL THEN live ELSE With(live, m.block, size)
    /\ UNCHANGED aborted

\* The caller frees a block, or one that is free already.
sf_free(p) ==
    /\ ~aborted
    /\ IF Valid(heap, p)
       THEN heap' = Free(heap, p) /\ live' = Without(live, {p}) /\ UNCHANGED aborted
       ELSE aborted' = TRUE /\ UNCHANGED <<heap, live>>
    /\ UNCHANGED sf_errno

sf_realloc(p, size) ==
    /\ ~aborted
    /\ IF ~Valid(heap, p) THEN aborted' = TRUE /\ UNCHANGED <<heap, live, sf_errno>>
       ELSE IF size = 0
       THEN /\ heap' = Free(heap, p) /\ live' = Without(live, {p})
            /\ UNCHANGED <<sf_errno, aborted>>
       ELSE IF Size(heap, p) - 16 < size
       THEN LET m == Malloc(heap, size, sf_errno)
            IN  /\ heap' = Move(m, p)
                /\ live' = IF m.block = NULL THEN live
                           ELSE With(Without(live, {p}), m.block, size)
                /\ sf_errno' = m.errno
                /\ UNCHANGED aborted
       ELSE /\ heap' = Shrink(heap, p, size) /\ live' = [live EXCEPT ![p] = size]
            /\ UNCHANGED <<sf_errno, aborted>>

Next ==
    \/ \E size \in Sizes : sf_malloc(size)
    \/ \E p \in DOMAIN heap.header : sf_free(p)
    \/ \E p \in DOMAIN heap.header, size \in Sizes : sf_realloc(p, size)

Spec == Init /\ [][Next]_vars
-----------------------------------------------------------------------------
(***************************************************************************)
(* Properties.                                                             *)
(***************************************************************************)
Tag  == [size : Nat, allocated : {0, 1}, padded : {0, 1}]
Foot == [size : Nat, allocated : {0, 1}, padded : {0, 1}, requested : Nat]

\* The type invariant.
TypeOK ==
    /\ heap.end \in {n * PageSize : n \in 0 .. MaxPages}
    /\ DOMAIN heap.header \subseteq Addresses /\ DOMAIN heap.footer \subseteq Addresses
    /\ \A p \in DOMAIN heap.header : heap.header[p] \in Tag
    /\ \A e \in DOMAIN heap.footer : heap.footer[e] \in Foot
    /\ \A p \in DOMAIN heap.link :
          {heap.link[p].next, heap.link[p].prev} \subseteq Addresses \cup {NULL}
    /\ heap.head \in [Lists -> Addresses \cup {NULL}]
    /\ sf_errno \in {"none", "EINVAL", "ENOMEM"} /\ aborted \in BOOLEAN
    /\ DOMAIN live \subseteq Addresses /\ \A p \in DOMAIN live : live[p] \in Sizes

\* The blocks tile the heap: they follow each other from its start to its end, and
\* the two tags of a block agree, whatever was split, joined or extended.
Tiled ==
    /\ \A p \in DOMAIN heap.header :
          LET e == p + Size(heap, p)
          IN  /\ e > p
              /\ e = heap.end \/ e \in DOMAIN heap.header
              /\ e \in DOMAIN heap.footer
              /\ heap.footer[e].size = Size(heap, p)
              /\ heap.footer[e].allocated = heap.header[p].allocated
              /\ \A q \in DOMAIN heap.header : ~(p < q /\ q < e)
    /\ \A e \in DOMAIN heap.footer : e - heap.footer[e].size \in DOMAIN heap.header
    /\ heap.end > 0 => 0 \in DOMAIN heap.header

\* Every free block is in the list for its size, once, no other block is in a list,
\* and prev undoes next.
FreeListsExact ==
    /\ \A n \in Lists :
          LET c == Chain(heap, n)
              filled == {i \in DOMAIN c : c[i] # NULL}
          IN  /\ \A i, j \in filled : c[i] = c[j] => i = j
              /\ {c[i] : i \in filled} =
                    {p \in DOMAIN heap.header : /\ heap.header[p].allocated = 0
                                                /\ ListOf(Size(heap, p)) = n}
              /\ \A i \in filled :
                    heap.link[c[i]].prev = IF i = 1 THEN NULL ELSE c[i - 1]
    /\ DOMAIN heap.link = {p \in DOMAIN heap.header : heap.header[p].allocated = 0}

\* sf_free and sf_realloc accept the pointers that callers hold and no other block.
AcceptsWhatCallersHold ==
    \A p \in DOMAIN heap.header : Valid(heap, p) <=> p \in DOMAIN live

\* A caller's block records the size asked for, holds it, and wastes less than 32 bytes.
BlocksFitRequests ==
    \A p \in DOMAIN live :
        /\ p \in DOMAIN heap.header
        /\ heap.footer[p + Size(heap, p)].requested = live[p]
        /\ Size(heap, p) - 16 - live[p] \in 0 .. 31

\* ENOMEM means that the heap cannot grow and no free block holds the request.
FailsOnlyWhenFull ==
    [][(live' = live /\ sf_errno' = "ENOMEM") =>
          \A size \in Sizes : sf_malloc(size) /\ ~Invalid(size) =>
              /\ heap'.end = MaxHeap
              /\ \A p \in DOMAIN heap'.header :
                    heap'.header[p].allocated = 0 => Size(heap', p) < size + 16]_vars

\* Callers see an allocator: their regions lie in the heap and never overlap.
Abstract == INSTANCE Allocator
ImplementsAllocator == Abstract!Spec

\* Every block has room for a header, a footer and, when it is free, its two links.
HasLinks == \A p \in DOMAIN heap.header : Size(heap, p) >= ListMin
=============================================================================
