----------------------------- MODULE SfmmProofs ------------------------------
(***************************************************************************)
(* Theorems about the allocator, for every page size, number of pages,     *)
(* bounds of the lists and sizes that are asked for.  They are about the   *)
(* program as long as every block has room for its four words, which       *)
(* HasLinks of Sfmm says and the code does not ensure.                     *)
(***************************************************************************)
EXTENDS Sfmm, FiniteSetTheorems, WellFoundedInduction, TLAPS

(***************************************************************************)
(* Numbers and functions.                                                  *)
(***************************************************************************)
LEMMA LeastIs ==
    ASSUME NEW S, S \subseteq Nat, S # {}
    PROVE  Least(S) \in S /\ \A m \in S : Least(S) <= m
<1> DEFINE less == {ss \in Nat \X Nat : ss[1] < ss[2]}
<1>1. IsWellFoundedOn(less, Nat)
  BY NatLessThanWellFounded DEF OpToRel
<1>2. \E n \in S : \A m \in S : ~ (<<m, n>> \in less)
  <2> HIDE DEF less
  <2> QED BY <1>1, WFMin
<1>3. \A m, n \in S : ~ (<<m, n>> \in less) => n <= m
  OBVIOUS
<1>4. \E n \in S : \A m \in S : n <= m
  BY <1>2, <1>3
<1> QED BY <1>4 DEF Least

\* What With and Without of Sfmm, the writes into the heap's words, make of a function.
LEMMA WithIs ==
    ASSUME NEW f, NEW x, NEW v
    PROVE  /\ DOMAIN With(f, x, v) = DOMAIN f \cup {x} /\ With(f, x, v)[x] = v
           /\ \A y \in DOMAIN f : y # x => With(f, x, v)[y] = f[y]
BY DEF With

\* Without leaves the other values alone.
LEMMA WithoutIs ==
    ASSUME NEW f, NEW S
    PROVE  /\ DOMAIN Without(f, S) = DOMAIN f \ S
           /\ \A y \in DOMAIN f \ S : Without(f, S)[y] = f[y]
BY DEF Without

-----------------------------------------------------------------------------
(***************************************************************************)
(* The tiling of a heap h.                                                 *)
(***************************************************************************)
IsHeap(h) == h = [end |-> h.end, header |-> h.header, footer |-> h.footer,
                  link |-> h.link, head |-> h.head]

Blocks(h) == DOMAIN h.header
End(h, p) == p + h.header[p].size

\* The blocks follow each other, and the tags at their ends agree.
Tiles(h) ==
    /\ h.end \in Nat /\ h.end % 16 = 0
    /\ h.header \in [Blocks(h) -> Tag] /\ h.footer \in [DOMAIN h.footer -> Foot]
    /\ \A p \in Blocks(h) :
          /\ p \in Nat /\ p % 16 = 0
          /\ h.header[p].size > 0 /\ h.header[p].size % 16 = 0 /\ End(h, p) <= h.end
          /\ End(h, p) \in DOMAIN h.footer
          /\ h.footer[End(h, p)].size = h.header[p].size
          /\ h.footer[End(h, p)].allocated = h.header[p].allocated
          /\ End(h, p) = h.end \/ End(h, p) \in Blocks(h)
    /\ \A p, q \in Blocks(h) : p < q => End(h, p) <= q
    /\ \A e \in DOMAIN h.footer : \E p \in Blocks(h) : e = End(h, p)
    /\ \A q \in Blocks(h) : q = 0 \/ q \in DOMAIN h.footer
    /\ h.end > 0 => 0 \in Blocks(h) /\ h.end \in DOMAIN h.footer

FreeBlocks(h) == {p \in Blocks(h) : h.header[p].allocated = 0}

\* The blocks in use, with their tags.
Used(h) == [p \in {q \in Blocks(h) : h.header[q].allocated = 1} |->
              [header |-> h.header[p], footer |-> h.footer[End(h, p)]]]

\* What write_block of sfmm.c changes: one header, one footer, and the tags between them.
LEMMA Written ==
    ASSUME NEW h, IsHeap(h), NEW p, NEW size, NEW requested, NEW allocated, NEW padded,
           NEW g, g = write_block(h, p, size, requested, allocated, padded)
    PROVE  /\ IsHeap(g) /\ g.end = h.end /\ g.link = h.link /\ g.head = h.head
           /\ Blocks(g) = {a \in Blocks(h) : ~ (p < a /\ a < p + size)} \cup {p}
           /\ DOMAIN g.footer = {e \in DOMAIN h.footer : ~ (p < e /\ e < p + size)} \cup {p + size}
           /\ g.header[p] = [size |-> size, allocated |-> allocated, padded |-> padded]
           /\ g.footer[p + size] = [size |-> size, allocated |-> allocated, padded |-> padded,
                                    requested |-> requested]
           /\ \A a \in Blocks(g) : a # p => g.header[a] = h.header[a]
           /\ \A e \in DOMAIN g.footer : e # p + size => g.footer[e] = h.footer[e]
           /\ g.header = [a \in Blocks(g) |-> g.header[a]]
           /\ g.footer = [e \in DOMAIN g.footer |-> g.footer[e]]
<1> DEFINE hidden == {a \in Blocks(h) : p < a /\ a < p + size}
           inside == {e \in DOMAIN h.footer : p < e /\ e < p + size}
           tag    == [size |-> size, allocated |-> allocated, padded |-> padded]
           foot   == [size |-> size, allocated |-> allocated, padded |-> padded,
                      requested |-> requested]
<1>1. /\ g.header = With(Without(h.header, hidden), p, tag)
      /\ g.footer = With(Without(h.footer, inside), p + size, foot)
      /\ IsHeap(g) /\ g.end = h.end /\ g.link = h.link /\ g.head = h.head
  BY DEF IsHeap, write_block, Blocks
<1>2. /\ Blocks(g) = (Blocks(h) \ hidden) \cup {p} /\ g.header[p] = tag
      /\ \A a \in Blocks(g) : a # p => g.header[a] = h.header[a]
      /\ g.header = [a \in Blocks(g) |-> g.header[a]]
  <2> DEFINE f == h.header
             new == g.header
  <2>1. new = With(Without(f, hidden), p, tag)
    BY <1>1
  <2> HIDE DEF hidden, tag, f, new
  <2>2. /\ DOMAIN new = (DOMAIN f \ hidden) \cup {p} /\ new[p] = tag
        /\ \A y \in DOMAIN new : y # p => new[y] = f[y]
        /\ new = [y \in DOMAIN new |-> new[y]]
    BY <2>1 DEF With, Without
  <2> QED BY <2>2 DEF Blocks, f, new
<1>3. /\ DOMAIN g.footer = (DOMAIN h.footer \ inside) \cup {p + size}
      /\ g.footer[p + size] = foot
      /\ \A e \in DOMAIN g.footer : e # p + size => g.footer[e] = h.footer[e]
      /\ g.footer = [e \in DOMAIN g.footer |-> g.footer[e]]
  <2> DEFINE f == h.footer
             new == g.footer
             x == p + size
  <2>1. new = With(Without(f, inside), x, foot)
    BY <1>1
  <2> HIDE DEF inside, foot, f, new, x
  <2>2. /\ DOMAIN new = (DOMAIN f \ inside) \cup {x} /\ new[x] = foot
        /\ \A y \in DOMAIN new : y # x => new[y] = f[y]
        /\ new = [y \in DOMAIN new |-> new[y]]
    BY <2>1 DEF With, Without
  <2> QED BY <2>2 DEF f, new, x
<1>4. /\ Blocks(h) \ hidden = {a \in Blocks(h) : ~ (p < a /\ a < p + size)}
      /\ DOMAIN h.footer \ inside = {e \in DOMAIN h.footer : ~ (p < e /\ e < p + size)}
  OBVIOUS
<1> HIDE DEF hidden, inside
<1> QED BY <1>1, <1>2, <1>3, <1>4

\* A block lies in the heap, and ends after its start.
LEMMA BlockIs ==
    ASSUME NEW h, Tiles(h), NEW p \in Blocks(h)
    PROVE  /\ p \in Nat /\ p % 16 = 0 /\ End(h, p) \in Nat /\ p < End(h, p) /\ End(h, p) <= h.end
           /\ h.header[p] \in Tag /\ h.header[p].size \in Nat /\ h.header[p].size > 0
           /\ h.header[p].size % 16 = 0 /\ End(h, p) = p + h.header[p].size
           /\ h.header[p].allocated \in {0, 1} /\ h.header[p].padded \in {0, 1}
           /\ h.end \in Nat /\ p < h.end
<1>1. /\ p \in Nat /\ p % 16 = 0 /\ h.header[p] \in Tag /\ h.header[p].size > 0
      /\ h.header[p].size % 16 = 0 /\ End(h, p) <= h.end /\ h.end \in Nat
  BY DEF Tiles
<1>2. /\ h.header[p].size \in Nat /\ h.header[p].allocated \in {0, 1}
      /\ h.header[p].padded \in {0, 1}
  BY <1>1 DEF Tag
<1> DEFINE s == h.header[p].size
           e == h.end
<1>3. End(h, p) = p + s
  BY DEF End
<1>4. s \in Nat /\ p \in Nat /\ s > 0 /\ e \in Nat /\ p + s <= e
  BY <1>1, <1>2, <1>3
<1> HIDE DEF s, e
<1>5. p + s \in Nat /\ p < p + s /\ p < e
  BY <1>4
<1> QED BY <1>1, <1>2, <1>3, <1>5 DEF s, e

\* Blocks do not overlap, and end at different places.
LEMMA Apart ==
    ASSUME NEW h, Tiles(h), NEW p \in Blocks(h), NEW q \in Blocks(h), p # q
    PROVE  /\ End(h, p) # End(h, q) /\ (p < q => End(h, p) <= q) /\ (q < p => End(h, q) <= p)
           /\ ~ (p < q /\ q < End(h, p)) /\ ~ (p < End(h, q) /\ End(h, q) < End(h, p))
<1> DEFINE d == End(h, p)
           e == End(h, q)
<1>1. p \in Nat /\ q \in Nat /\ d \in Nat /\ e \in Nat /\ p < d /\ q < e
  BY BlockIs
<1>2. p < q => d <= q
  BY DEF Tiles
<1>3. q < p => e <= p
  BY DEF Tiles
<1> HIDE DEF d, e
<1>4. d # e /\ ~ (p < q /\ q < d) /\ ~ (p < e /\ e < d)
  BY <1>1, <1>2, <1>3
<1> QED BY <1>2, <1>3, <1>4 DEF d, e

\* g is h with a block written over all those from p to q.
Overwrites(h, p, q, size, requested, allocated, padded, g) ==
    /\ IsHeap(h) /\ Tiles(h) /\ p \in Blocks(h) /\ q \in Blocks(h) /\ p <= q
    /\ size = End(h, q) - p /\ requested \in Nat /\ allocated \in {0, 1} /\ padded \in {0, 1}
    /\ g = write_block(h, p, size, requested, allocated, padded)

\* What g has then: the new block, and outside of it what h has.
Overwritten(h, p, q, size, requested, allocated, padded, g) ==
    /\ Tiles(g)
    /\ Blocks(g) = {a \in Blocks(h) : a <= p \/ q < a}
    /\ \A a \in Blocks(g) : a # p => /\ g.header[a] = h.header[a]
                                     /\ End(g, a) = End(h, a)
                                     /\ g.footer[End(h, a)] = h.footer[End(h, a)]
    /\ End(g, p) = End(h, q)
    /\ IsHeap(g) /\ g.end = h.end /\ g.link = h.link /\ g.head = h.head
    /\ g.header[p] = [size |-> size, allocated |-> allocated, padded |-> padded]
    /\ g.footer[End(g, p)] = [size |-> size, allocated |-> allocated, padded |-> padded,
                              requested |-> requested]

\* A block written over neighbouring ones leaves the heap tiled.
LEMMA WrittenOver ==
    ASSUME NEW h, NEW p, NEW q, NEW size, NEW requested, NEW allocated, NEW padded, NEW g,
           Overwrites(h, p, q, size, requested, allocated, padded, g)
    PROVE  Overwritten(h, p, q, size, requested, allocated, padded, g)
<1>0. /\ IsHeap(h) /\ Tiles(h) /\ p \in Blocks(h) /\ q \in Blocks(h) /\ p <= q
      /\ size = End(h, q) - p /\ requested \in Nat /\ allocated \in {0, 1} /\ padded \in {0, 1}
      /\ g = write_block(h, p, size, requested, allocated, padded)
  BY DEF Overwrites
<1> USE <1>0
<1> DEFINE e == End(h, q)
<1>1. /\ p \in Nat /\ q \in Nat /\ e \in Nat /\ q < e /\ e <= h.end /\ p % 16 = 0
      /\ e = q + h.header[q].size /\ q % 16 = 0 /\ h.header[q].size % 16 = 0
      /\ h.header[q].size \in Nat
  BY BlockIs
<1>2. size \in Nat /\ size > 0 /\ p + size = e /\ size % 16 = 0
  <2> DEFINE s == h.header[q].size
  <2>1. s \in Nat /\ s % 16 = 0 /\ e = q + s /\ size = e - p
    BY <1>1
  <2> HIDE DEF s, e
  <2> QED BY <2>1, <1>1
<1>3. /\ g.end = h.end
      /\ Blocks(g) = {a \in Blocks(h) : ~ (p < a /\ a < e)} \cup {p}
      /\ DOMAIN g.footer = {x \in DOMAIN h.footer : ~ (p < x /\ x < e)} \cup {e}
      /\ g.header[p] = [size |-> size, allocated |-> allocated, padded |-> padded]
      /\ g.footer[e] = [size |-> size, allocated |-> allocated, padded |-> padded,
                        requested |-> requested]
      /\ \A a \in Blocks(g) : a # p => g.header[a] = h.header[a]
      /\ \A x \in DOMAIN g.footer : x # e => g.footer[x] = h.footer[x]
      /\ g.header = [a \in Blocks(g) |-> g.header[a]]
      /\ g.footer = [x \in DOMAIN g.footer |-> g.footer[x]]
  <2> HIDE DEF e
  <2> QED BY Written, <1>2
<1>4. End(g, p) = e
  <2>1. g.header[p] = [size |-> size, allocated |-> allocated, padded |-> padded]
    BY <1>3
  <2>2. g.header[p].size = size
    BY ONLY <2>1
  <2>3. p + size = e
    BY <1>2
  <2> HIDE DEF e
  <2> QED BY ONLY <2>2, <2>3 DEF End
<1>5. \A a \in Blocks(h) : /\ a < p => End(h, a) <= p
                           /\ q < a => e <= a
                           /\ a < q => End(h, a) <= q
                           /\ a \in Nat /\ a < End(h, a) /\ End(h, a) \in Nat
                           /\ End(h, a) <= h.end
  BY BlockIs DEF Tiles
<1>6. Blocks(g) = {a \in Blocks(h) : a <= p \/ q < a}
  <2>1. ASSUME NEW a \in Blocks(h)
        PROVE  (~ (p < a /\ a < e) \/ a = p) <=> (a <= p \/ q < a)
    <3>1. a \in Nat /\ (q < a => e <= a)
      BY <1>5
    <3> HIDE DEF e
    <3> QED BY <3>1, <1>1
  <2> HIDE DEF e
  <2> QED BY <2>1, <1>3
<1>7. ASSUME NEW a \in Blocks(g), a # p
      PROVE  /\ a \in Blocks(h) /\ g.header[a] = h.header[a] /\ End(g, a) = End(h, a)
             /\ End(h, a) <= p \/ e < End(h, a)
             /\ End(h, a) \in DOMAIN g.footer
             /\ g.footer[End(h, a)] = h.footer[End(h, a)]
  <2>1. a \in Blocks(h) /\ (a <= p \/ q < a) /\ g.header[a] = h.header[a]
    BY <1>3, <1>6, <1>7
  <2>2. End(g, a) = End(h, a)
    BY <2>1 DEF End
  <2>3. End(h, a) \in DOMAIN h.footer
    BY <2>1 DEF Tiles
  <2> DEFINE d == End(h, a)
  <2>4. /\ a < p => d <= p
        /\ q < a => e <= a
        /\ a \in Nat /\ a < d /\ d \in Nat
    BY <2>1, <1>5
  <2>5. (d <= p \/ e < d) /\ d # e
    <3> HIDE DEF d, e
    <3> QED BY <2>1, <2>4, <1>1, <1>7
  <2>6. d \in DOMAIN g.footer /\ g.footer[d] = h.footer[d]
    <3> HIDE DEF e
    <3>1. ~ (p < d /\ d < e)
      <4> HIDE DEF d
      <4> QED BY <2>4, <2>5, <1>1
    <3>2. d \in DOMAIN g.footer
      BY <3>1, <2>3, <1>3
    <3> QED BY <3>2, <2>5, <1>3
  <2> QED BY <2>1, <2>2, <2>5, <2>6
<1>8. g.header \in [Blocks(g) -> Tag] /\ g.footer \in [DOMAIN g.footer -> Foot]
  <2>1. \A a \in Blocks(g) : g.header[a] \in Tag
    <3> TAKE a \in Blocks(g)
    <3>1. CASE a = p
      BY <3>1, <1>2, <1>3 DEF Tag
    <3>2. CASE a # p
      BY <3>2, <1>7, BlockIs
    <3> QED BY <3>1, <3>2
  <2>2. \A x \in DOMAIN g.footer : g.footer[x] \in Foot
    <3> TAKE x \in DOMAIN g.footer
    <3>1. CASE x = e
      BY <3>1, <1>2, <1>3 DEF Foot
    <3>2. CASE x # e
      BY <3>2, <1>3 DEF Tiles
    <3> QED BY <3>1, <3>2
  <2> QED BY <2>1, <2>2, <1>3
<1>9. ASSUME NEW a \in Blocks(g)
      PROVE  /\ a \in Nat /\ a % 16 = 0
             /\ g.header[a].size > 0 /\ g.header[a].size % 16 = 0 /\ End(g, a) <= g.end
             /\ End(g, a) \in DOMAIN g.footer
             /\ g.footer[End(g, a)].size = g.header[a].size
             /\ g.footer[End(g, a)].allocated = g.header[a].allocated
             /\ End(g, a) = g.end \/ End(g, a) \in Blocks(g)
  <2>1. CASE a = p
    <3>1. e = h.end \/ e \in Blocks(h)
      BY DEF Tiles
    <3>2. e = h.end \/ e \in Blocks(g)
      BY <3>1, <1>1, <1>6
    <3>3. End(g, a) = e /\ g.header[a].size = size /\ g.header[a].allocated = allocated
      BY <2>1, <1>3, <1>4
    <3>4. e \in DOMAIN g.footer /\ g.footer[e].size = size /\ g.footer[e].allocated = allocated
      BY <1>3
    <3> HIDE DEF e
    <3> QED BY <2>1, <3>2, <3>3, <3>4, <1>1, <1>2, <1>3
  <2>2. CASE a # p
    <3> DEFINE d == End(h, a)
    <3>1. /\ a \in Blocks(h) /\ g.header[a] = h.header[a] /\ End(g, a) = d
          /\ d <= p \/ e < d
          /\ d \in DOMAIN g.footer /\ g.footer[d] = h.footer[d]
      BY <2>2, <1>7
    <3>2. /\ a \in Nat /\ a % 16 = 0
          /\ h.header[a].size > 0 /\ h.header[a].size % 16 = 0 /\ d <= h.end
          /\ h.footer[d].size = h.header[a].size
          /\ h.footer[d].allocated = h.header[a].allocated
          /\ d = h.end \/ d \in Blocks(h)
      BY <3>1 DEF Tiles
    <3>3. d = h.end \/ d \in Blocks(g)
      <4>1. d \in Nat
        BY <3>1, <1>5
      <4> HIDE DEF d, e
      <4> QED BY <4>1, <3>1, <3>2, <1>1, <1>6
    <3> QED BY <3>1, <3>2, <3>3, <1>3
  <2> QED BY <2>1, <2>2
<1>10. ASSUME NEW a \in Blocks(g), NEW b \in Blocks(g), a < b
       PROVE  End(g, a) <= b
  <2>1. CASE a = p
    <3>1. b \in Blocks(h) /\ q < b
      BY <2>1, <1>1, <1>5, <1>6, <1>10
    <3> QED BY <2>1, <3>1, <1>4, <1>5
  <2>2. CASE a # p
    <3>1. a \in Blocks(h) /\ b \in Blocks(h) /\ End(g, a) = End(h, a)
      BY <2>2, <1>6, <1>7
    <3> QED BY <3>1, <1>10 DEF Tiles
  <2> QED BY <2>1, <2>2
<1>11. ASSUME NEW x \in DOMAIN g.footer
       PROVE  \E a \in Blocks(g) : x = End(g, a)
  <2>1. CASE x = e
    BY <2>1, <1>4, <1>6, <1>1
  <2>2. CASE x # e
    <3>1. x \in DOMAIN h.footer /\ ~ (p < x /\ x < e)
      BY <2>2, <1>3
    <3>2. PICK a \in Blocks(h) : x = End(h, a)
      BY <3>1 DEF Tiles
    <3>3. a \in Blocks(g) /\ a # p
      <4>1. /\ a < p => x <= p
            /\ q < a => e <= a
            /\ a < q => x <= q
            /\ a \in Nat /\ a < x /\ x \in Nat /\ (a = q => x = e)
        BY <3>2, <1>5
      <4> HIDE DEF e
      <4>2. a # p /\ (a <= p \/ q < a)
        BY <4>1, <3>1, <2>2, <1>1
      <4> QED BY <4>2, <1>6
    <3> QED BY <3>2, <3>3, <1>7
  <2> QED BY <2>1, <2>2
<1>12. \A a \in Blocks(g) : a = 0 \/ a \in DOMAIN g.footer
  <2> TAKE a \in Blocks(g)
  <2>1. a \in Blocks(h) /\ a \in Nat /\ (a <= p \/ e <= a)
    BY <1>5, <1>6
  <2>2. a = 0 \/ a \in DOMAIN h.footer
    BY <2>1 DEF Tiles
  <2> HIDE DEF e
  <2> QED BY <2>1, <2>2, <1>1, <1>3
<1>13. g.end > 0 => 0 \in Blocks(g) /\ g.end \in DOMAIN g.footer
  <2> SUFFICES ASSUME g.end > 0
               PROVE  0 \in Blocks(g) /\ g.end \in DOMAIN g.footer
    OBVIOUS
  <2>1. 0 \in Blocks(h) /\ h.end \in DOMAIN h.footer
    BY <1>3 DEF Tiles
  <2>2. h.end \in Nat
    BY DEF Tiles
  <2> HIDE DEF e
  <2> QED BY <2>1, <2>2, <1>1, <1>3, <1>6
<1>14. g.end \in Nat /\ g.end % 16 = 0
  BY <1>3 DEF Tiles
<1>15. Tiles(g)
  BY <1>8, <1>9, <1>10, <1>11, <1>12, <1>13, <1>14 DEF Tiles
<1>16. IsHeap(g) /\ g.end = h.end /\ g.link = h.link /\ g.head = h.head
  BY DEF IsHeap, write_block
<1> QED BY <1>3, <1>4, <1>6, <1>7, <1>15, <1>16 DEF Overwritten

\* f is h with a block over the first rows of block p, g is f with one over the rest.
Splits(h, p, block, m, rest, requested, allocated, padded, requested2, allocated2, padded2, f, g) ==
    /\ IsHeap(h) /\ Tiles(h) /\ p \in Blocks(h)
    /\ block \in Nat /\ block > 0 /\ block % 16 = 0 /\ m = p + block /\ m < End(h, p)
    /\ rest = h.header[p].size - block
    /\ requested \in Nat /\ allocated \in {0, 1} /\ padded \in {0, 1}
    /\ requested2 \in Nat /\ allocated2 \in {0, 1} /\ padded2 \in {0, 1}
    /\ f = write_block(h, p, block, requested, allocated, padded)
    /\ g = write_block(f, m, rest, requested2, allocated2, padded2)

SplitInto(h, p, block, m, rest, requested, allocated, padded, requested2, allocated2, padded2, g) ==
    /\ Tiles(g) /\ IsHeap(g) /\ g.end = h.end /\ g.link = h.link /\ g.head = h.head
    /\ Blocks(g) = Blocks(h) \cup {m} /\ m \notin Blocks(h) /\ m # p
    /\ \A a \in Blocks(h) : a # p => /\ g.header[a] = h.header[a]
                                     /\ End(g, a) = End(h, a)
                                     /\ g.footer[End(h, a)] = h.footer[End(h, a)]
    /\ End(g, p) = m /\ End(g, m) = End(h, p)
    /\ g.header[p] = [size |-> block, allocated |-> allocated, padded |-> padded]
    /\ g.footer[m] = [size |-> block, allocated |-> allocated, padded |-> padded,
                      requested |-> requested]
    /\ g.header[m] = [size |-> rest, allocated |-> allocated2, padded |-> padded2]
    /\ g.footer[End(h, p)] = [size |-> rest, allocated |-> allocated2,
                              padded |-> padded2, requested |-> requested2]

\* A block that place or sf_realloc splits in two leaves the heap tiled.
LEMMA SplitIs ==
    ASSUME NEW h, NEW p, NEW block, NEW m, NEW rest, NEW requested, NEW allocated, NEW padded,
           NEW requested2, NEW allocated2, NEW padded2, NEW f, NEW g,
           Splits(h, p, block, m, rest, requested, allocated, padded,
                  requested2, allocated2, padded2, f, g)
    PROVE  SplitInto(h, p, block, m, rest, requested, allocated, padded,
                     requested2, allocated2, padded2, g)
<1>0. /\ IsHeap(h) /\ Tiles(h) /\ p \in Blocks(h)
      /\ block \in Nat /\ block > 0 /\ block % 16 = 0 /\ m = p + block /\ m < End(h, p)
      /\ rest = h.header[p].size - block
      /\ requested \in Nat /\ allocated \in {0, 1} /\ padded \in {0, 1}
      /\ requested2 \in Nat /\ allocated2 \in {0, 1} /\ padded2 \in {0, 1}
      /\ f = write_block(h, p, block, requested, allocated, padded)
      /\ g = write_block(f, m, rest, requested2, allocated2, padded2)
  BY DEF Splits
<1> USE <1>0
<1> DEFINE e == End(h, p)
<1>1. /\ p \in Nat /\ m \in Nat /\ e \in Nat /\ p < m /\ m < e /\ e <= h.end
      /\ p % 16 = 0 /\ m % 16 = 0
      /\ rest \in Nat /\ rest > 0 /\ rest % 16 = 0 /\ m + rest = e
  <2> DEFINE s == h.header[p].size
  <2>1. s \in Nat /\ s % 16 = 0 /\ e = p + s /\ rest = s - block
        /\ p \in Nat /\ p % 16 = 0 /\ e \in Nat /\ e <= h.end
    BY BlockIs
  <2> HIDE DEF s
  <2>2. m < e
    OBVIOUS
  <2> HIDE DEF e
  <2> QED BY <2>1, <2>2
<1>2. \A a \in Blocks(h) : /\ a < p => End(h, a) <= p
                           /\ p < a => e <= a
                           /\ a \in Nat /\ a < End(h, a) /\ End(h, a) \in Nat
                           /\ End(h, a) <= h.end
  BY BlockIs DEF Tiles
<1>3. m \notin Blocks(h) /\ m \notin DOMAIN h.footer /\ \A a \in Blocks(h) : ~ (p < a /\ a < e)
  <2>1. \A a \in Blocks(h) : a # m /\ End(h, a) # m /\ ~ (p < a /\ a < e)
    <3> TAKE a \in Blocks(h)
    <3> DEFINE d == End(h, a)
    <3>1. /\ a < p => d <= p
          /\ p < a => e <= a
          /\ a \in Nat /\ a < d /\ d \in Nat
          /\ a = p => d = e
      BY <1>2
    <3> HIDE DEF d, e
    <3>2. a # m /\ d # m /\ ~ (p < a /\ a < e)
      BY <3>1, <1>1
    <3> QED BY <3>2 DEF d
  <2> QED BY <2>1 DEF Tiles
<1>4. \A x \in DOMAIN h.footer : ~ (p < x /\ x < e) /\ x \in Nat
  <2> TAKE x \in DOMAIN h.footer
  <2>1. PICK a \in Blocks(h) : x = End(h, a)
    BY DEF Tiles
  <2>2. /\ a < p => x <= p
        /\ p < a => e <= a
        /\ a \in Nat /\ a < x /\ x \in Nat
        /\ a = p => x = e
    BY <1>2, <2>1
  <2> HIDE DEF e
  <2> QED BY <2>2, <1>1
<1>5. /\ IsHeap(f) /\ f.end = h.end /\ f.link = h.link /\ f.head = h.head
      /\ Blocks(f) = Blocks(h) /\ DOMAIN f.footer = DOMAIN h.footer \cup {m}
      /\ f.header[p] = [size |-> block, allocated |-> allocated, padded |-> padded]
      /\ f.footer[m] = [size |-> block, allocated |-> allocated, padded |-> padded,
                        requested |-> requested]
      /\ \A a \in Blocks(f) : a # p => f.header[a] = h.header[a]
      /\ \A x \in DOMAIN f.footer : x # m => f.footer[x] = h.footer[x]
  <2>1. /\ IsHeap(f) /\ f.end = h.end /\ f.link = h.link /\ f.head = h.head
        /\ Blocks(f) = {a \in Blocks(h) : ~ (p < a /\ a < m)} \cup {p}
        /\ DOMAIN f.footer = {x \in DOMAIN h.footer : ~ (p < x /\ x < m)} \cup {m}
        /\ f.header[p] = [size |-> block, allocated |-> allocated, padded |-> padded]
        /\ f.footer[m] = [size |-> block, allocated |-> allocated, padded |-> padded,
                          requested |-> requested]
        /\ \A a \in Blocks(f) : a # p => f.header[a] = h.header[a]
        /\ \A x \in DOMAIN f.footer : x # m => f.footer[x] = h.footer[x]
    <3>1. p + block = m
      OBVIOUS
    <3>2. /\ IsHeap(f) /\ f.end = h.end /\ f.link = h.link /\ f.head = h.head
          /\ Blocks(f) = {a \in Blocks(h) : ~ (p < a /\ a < p + block)} \cup {p}
          /\ DOMAIN f.footer = {x \in DOMAIN h.footer : ~ (p < x /\ x < p + block)}
                               \cup {p + block}
          /\ f.header[p] = [size |-> block, allocated |-> allocated, padded |-> padded]
          /\ f.footer[p + block] = [size |-> block, allocated |-> allocated,
                                    padded |-> padded, requested |-> requested]
          /\ \A a \in Blocks(f) : a # p => f.header[a] = h.header[a]
          /\ \A x \in DOMAIN f.footer : x # p + block => f.footer[x] = h.footer[x]
          /\ f.header = [a \in Blocks(f) |-> f.header[a]]
          /\ f.footer = [x \in DOMAIN f.footer |-> f.footer[x]]
      <4> HIDE DEF e
      <4>1. f = write_block(h, p, block, requested, allocated, padded) /\ IsHeap(h)
        OBVIOUS
      <4> QED BY ONLY <4>1, Written
    <3> QED BY <3>1, <3>2
  <2>2. \A a \in Blocks(h) : ~ (p < a /\ a < m)
    <3> TAKE a \in Blocks(h)
    <3>1. a \in Nat /\ ~ (p < a /\ a < e)
      BY <1>2, <1>3
    <3> HIDE DEF e
    <3> QED BY <3>1, <1>1
  <2>3. \A x \in DOMAIN h.footer : ~ (p < x /\ x < m)
    <3> HIDE DEF e
    <3> QED BY <1>4, <1>1
  <2> QED BY <2>1, <2>2, <2>3
<1>5a. /\ p \in Blocks(h) /\ p # m /\ m # e /\ p # e /\ m = p + block
       /\ p \in Nat /\ m \in Nat /\ e \in Nat /\ p < m /\ m < e
  BY <1>1
<1>5b. /\ block \in Nat /\ requested \in Nat /\ allocated \in {0, 1} /\ padded \in {0, 1}
       /\ rest \in Nat /\ requested2 \in Nat /\ allocated2 \in {0, 1}
       /\ padded2 \in {0, 1}
  BY <1>1
<1>5c. /\ p % 16 = 0 /\ m % 16 = 0 /\ block > 0 /\ block % 16 = 0
       /\ rest > 0 /\ rest % 16 = 0 /\ m + rest = e /\ e <= h.end /\ Tiles(h)
  BY <1>1
<1>6. /\ IsHeap(g) /\ g.end = h.end /\ g.link = h.link /\ g.head = h.head
      /\ Blocks(g) = Blocks(h) \cup {m} /\ DOMAIN g.footer = DOMAIN h.footer \cup {m, e}
      /\ g.header[m] = [size |-> rest, allocated |-> allocated2, padded |-> padded2]
      /\ g.footer[e] = [size |-> rest, allocated |-> allocated2, padded |-> padded2,
                        requested |-> requested2]
      /\ \A a \in Blocks(g) : a # m => g.header[a] = f.header[a]
      /\ \A x \in DOMAIN g.footer : x # e => g.footer[x] = f.footer[x]
      /\ g.header = [a \in Blocks(g) |-> g.header[a]]
      /\ g.footer = [x \in DOMAIN g.footer |-> g.footer[x]]
  <2>1. m + rest = e
    BY <1>1
  <2> HIDE DEF e
  <2>2. /\ IsHeap(g) /\ g.end = f.end /\ g.link = f.link /\ g.head = f.head
        /\ Blocks(g) = {a \in Blocks(f) : ~ (m < a /\ a < e)} \cup {m}
        /\ DOMAIN g.footer = {x \in DOMAIN f.footer : ~ (m < x /\ x < e)} \cup {e}
        /\ g.header[m] = [size |-> rest, allocated |-> allocated2, padded |-> padded2]
        /\ g.footer[e] = [size |-> rest, allocated |-> allocated2, padded |-> padded2,
                          requested |-> requested2]
        /\ \A a \in Blocks(g) : a # m => g.header[a] = f.header[a]
        /\ \A x \in DOMAIN g.footer : x # e => g.footer[x] = f.footer[x]
        /\ g.header = [a \in Blocks(g) |-> g.header[a]]
        /\ g.footer = [x \in DOMAIN g.footer |-> g.footer[x]]
    <3>1. /\ IsHeap(g) /\ g.end = f.end /\ g.link = f.link /\ g.head = f.head
          /\ Blocks(g) = {a \in Blocks(f) : ~ (m < a /\ a < m + rest)} \cup {m}
          /\ DOMAIN g.footer = {x \in DOMAIN f.footer : ~ (m < x /\ x < m + rest)}
                               \cup {m + rest}
          /\ g.header[m] = [size |-> rest, allocated |-> allocated2, padded |-> padded2]
          /\ g.footer[m + rest] = [size |-> rest, allocated |-> allocated2,
                                   padded |-> padded2, requested |-> requested2]
          /\ \A a \in Blocks(g) : a # m => g.header[a] = f.header[a]
          /\ \A x \in DOMAIN g.footer : x # m + rest => g.footer[x] = f.footer[x]
          /\ g.header = [a \in Blocks(g) |-> g.header[a]]
          /\ g.footer = [x \in DOMAIN g.footer |-> g.footer[x]]
      <4>1. g = write_block(f, m, rest, requested2, allocated2, padded2) /\ IsHeap(f)
        BY <1>5
      <4> QED BY ONLY <4>1, Written
    <3> QED BY ONLY <2>1, <3>1
  <2>3. \A a \in Blocks(h) : ~ (m < a /\ a < e)
    <3> TAKE a \in Blocks(h)
    <3>1. a \in Nat /\ ~ (p < a /\ a < e)
      BY <1>2, <1>3
    <3> QED BY ONLY <3>1, <1>5a
  <2>4. \A x \in DOMAIN f.footer : ~ (m < x /\ x < e)
    <3> TAKE x \in DOMAIN f.footer
    <3>1. x = m \/ (x \in Nat /\ ~ (p < x /\ x < e))
      <4>1. x \in DOMAIN h.footer \cup {m}
        <5>1. DOMAIN f.footer = DOMAIN h.footer \cup {m}
          BY <1>5
        <5> QED BY <5>1
      <4> QED BY ONLY <4>1, <1>4
    <3> QED BY ONLY <3>1, <1>5a
  <2> QED BY <2>2, <2>3, <2>4, <1>5
<1> HIDE <1>0
<1>7. End(g, p) = m /\ End(g, m) = e
      /\ g.header[p] = [size |-> block, allocated |-> allocated, padded |-> padded]
      /\ g.footer[m] = [size |-> block, allocated |-> allocated, padded |-> padded,
                        requested |-> requested]
  <2>1. g.header[p] = [size |-> block, allocated |-> allocated, padded |-> padded]
    <3>1. p \in Blocks(g) /\ p # m
      BY <1>6, <1>5a
    <3>2. g.header[p] = f.header[p]
      BY <3>1, <1>6
    <3> QED BY <3>2, <1>5
  <2>2. g.footer[m] = [size |-> block, allocated |-> allocated, padded |-> padded,
                       requested |-> requested]
    <3> HIDE DEF e
    <3>1. m \in DOMAIN g.footer /\ m # e
      BY <1>6, <1>5a
    <3>2. g.footer[m] = f.footer[m]
      BY <3>1, <1>6
    <3> QED BY <3>2, <1>5
  <2>3. End(g, p) = m
    <3>1. End(g, p) = p + block
      BY <2>1 DEF End
    <3> HIDE DEF e
    <3> QED BY <3>1, <1>5a
  <2>4. End(g, m) = e
    <3>1. End(g, m) = m + rest
      <4>1. g.header[m].size = rest
        <5>1. g.header[m] = [size |-> rest, allocated |-> allocated2, padded |-> padded2]
          BY <1>6
        <5> QED BY ONLY <5>1
      <4> QED BY <4>1 DEF End
    <3> HIDE DEF e
    <3> QED BY <3>1, <1>5c
  <2> QED BY <2>1, <2>2, <2>3, <2>4
<1>8. ASSUME NEW a \in Blocks(h), a # p
      PROVE  /\ g.header[a] = h.header[a] /\ End(g, a) = End(h, a)
             /\ End(h, a) <= p \/ e < End(h, a)
             /\ End(h, a) \in DOMAIN h.footer
             /\ g.footer[End(h, a)] = h.footer[End(h, a)]
  <2>1. g.header[a] = h.header[a]
    <3>1. a \in Blocks(g) /\ a \in Blocks(f) /\ a # m
      BY <1>3, <1>5, <1>6
    <3>2. g.header[a] = f.header[a]
      BY <3>1, <1>6
    <3>3. f.header[a] = h.header[a]
      BY <3>1, <1>5, <1>8
    <3> QED BY <3>2, <3>3
  <2>2. End(g, a) = End(h, a)
    BY <2>1 DEF End
  <2> DEFINE d == End(h, a)
  <2>3. d \in DOMAIN h.footer
    BY <1>5c DEF Tiles
  <2>4. /\ a < p => d <= p
        /\ p < a => e <= a
        /\ a \in Nat /\ a < d /\ d \in Nat
    BY <1>2
  <2>5. (d <= p \/ e < d) /\ d # e /\ d # m
    <3> HIDE DEF d, e
    <3> QED BY <2>4, <1>8, <1>5a
  <2>6. g.footer[d] = h.footer[d]
    <3> HIDE DEF d, e
    <3>1. d \in DOMAIN g.footer /\ d \in DOMAIN f.footer
      BY <2>3, <1>5, <1>6
    <3>2. g.footer[d] = f.footer[d]
      BY <3>1, <2>5, <1>6
    <3>3. f.footer[d] = h.footer[d]
      BY <3>1, <2>5, <1>5
    <3> QED BY <3>2, <3>3
  <2> QED BY <2>1, <2>2, <2>3, <2>5, <2>6
<1>9. g.header \in [Blocks(g) -> Tag] /\ g.footer \in [DOMAIN g.footer -> Foot]
  <2>1. \A a \in Blocks(g) : g.header[a] \in Tag
    <3> TAKE a \in Blocks(g)
    <3>1. CASE a = p
      <4>1. g.header[p] = [size |-> block, allocated |-> allocated, padded |-> padded]
        BY <1>7
      <4> QED BY ONLY <3>1, <4>1, <1>5b DEF Tag
    <3>2. CASE a = m
      <4>1. g.header[m] = [size |-> rest, allocated |-> allocated2, padded |-> padded2]
        BY <1>6
      <4> QED BY ONLY <3>2, <4>1, <1>5b DEF Tag
    <3>3. CASE a # p /\ a # m
      <4>1. a \in Blocks(h) /\ g.header[a] = h.header[a]
        BY <3>3, <1>6, <1>8
      <4> QED BY <4>1, <1>5c, BlockIs
    <3> QED BY <3>1, <3>2, <3>3
  <2>2. \A x \in DOMAIN g.footer : g.footer[x] \in Foot
    <3> TAKE x \in DOMAIN g.footer
    <3> HIDE DEF e
    <3>1. CASE x = m
      <4>1. g.footer[m] = [size |-> block, allocated |-> allocated, padded |-> padded,
                           requested |-> requested]
        BY <1>7
      <4> QED BY ONLY <3>1, <4>1, <1>5b DEF Foot
    <3>2. CASE x = e
      <4>1. g.footer[e] = [size |-> rest, allocated |-> allocated2, padded |-> padded2,
                           requested |-> requested2]
        BY <1>6
      <4> QED BY ONLY <3>2, <4>1, <1>5b DEF Foot
    <3>3. CASE x # m /\ x # e
      <4>1. x \in DOMAIN h.footer /\ g.footer[x] = h.footer[x]
        <5>1. x \in DOMAIN h.footer /\ x \in DOMAIN f.footer
          BY <3>3, <1>5, <1>6
        <5>2. g.footer[x] = f.footer[x]
          BY <3>3, <1>6
        <5>3. f.footer[x] = h.footer[x]
          BY <5>1, <3>3, <1>5
        <5> QED BY <5>1, <5>2, <5>3
      <4> QED BY <4>1, <1>5c DEF Tiles
    <3> QED BY <3>1, <3>2, <3>3
  <2> QED BY <2>1, <2>2, <1>6
<1>10. ASSUME NEW a \in Blocks(g)
       PROVE  /\ a \in Nat /\ a % 16 = 0
              /\ g.header[a].size > 0 /\ g.header[a].size % 16 = 0 /\ End(g, a) <= g.end
              /\ End(g, a) \in DOMAIN g.footer
              /\ g.footer[End(g, a)].size = g.header[a].size
              /\ g.footer[End(g, a)].allocated = g.header[a].allocated
              /\ End(g, a) = g.end \/ End(g, a) \in Blocks(g)
  <2>0. h.end \in Nat
    BY <1>5c DEF Tiles
  <2>1. CASE a = p
    <3>1. End(g, a) = m /\ g.header[a].size = block /\ g.header[a].allocated = allocated
          /\ g.footer[m].size = block /\ g.footer[m].allocated = allocated
      BY <2>1, <1>7
    <3> HIDE DEF e
    <3>2. m \in DOMAIN g.footer /\ m \in Blocks(g) /\ g.end = h.end
      BY <1>6
    <3>3. m <= h.end
      BY <2>0, <1>5a, <1>5c
    <3> QED BY <2>1, <3>1, <3>2, <3>3, <1>5a, <1>5c
  <2>2. CASE a = m
    <3>1. e = h.end \/ e \in Blocks(h)
      BY <1>5a, <1>5c DEF Tiles
    <3>2. End(g, a) = e
      BY <2>2, <1>7
    <3> HIDE DEF e
    <3>3. /\ g.header[m] = [size |-> rest, allocated |-> allocated2, padded |-> padded2]
          /\ g.footer[e] = [size |-> rest, allocated |-> allocated2, padded |-> padded2,
                            requested |-> requested2]
      BY <1>6
    <3>4. g.header[a].size = rest /\ g.header[a].allocated = allocated2
          /\ g.footer[e].size = rest /\ g.footer[e].allocated = allocated2
      BY ONLY <2>2, <3>3
    <3>5. e \in DOMAIN g.footer /\ g.end = h.end /\ Blocks(h) \subseteq Blocks(g)
      BY <1>6
    <3> QED BY <2>2, <3>1, <3>2, <3>4, <3>5, <1>5a, <1>5c
  <2>3. CASE a # p /\ a # m
    <3> DEFINE d == End(h, a)
    <3>1. a \in Blocks(h)
      BY <2>3, <1>6
    <3>2. /\ g.header[a] = h.header[a] /\ End(g, a) = d
          /\ d \in DOMAIN h.footer /\ g.footer[d] = h.footer[d]
      BY <2>3, <3>1, <1>8
    <3>3. /\ a \in Nat /\ a % 16 = 0
          /\ h.header[a].size > 0 /\ h.header[a].size % 16 = 0 /\ d <= h.end
          /\ h.footer[d].size = h.header[a].size
          /\ h.footer[d].allocated = h.header[a].allocated
          /\ d = h.end \/ d \in Blocks(h)
      BY <3>1, <1>5c DEF Tiles
    <3> HIDE DEF d, e
    <3>4. /\ DOMAIN h.footer \subseteq DOMAIN g.footer /\ g.end = h.end
          /\ Blocks(h) \subseteq Blocks(g)
      BY <1>6
    <3> QED BY <3>1, <3>2, <3>3, <3>4
  <2> QED BY <2>1, <2>2, <2>3
<1>11. ASSUME NEW a \in Blocks(g), NEW b \in Blocks(g), a < b
       PROVE  End(g, a) <= b
  <2>1. CASE a = p
    <3>1. CASE b = m
      BY <2>1, <3>1, <1>7, <1>5a
    <3>2. CASE b # m
      <4>1. b \in Blocks(h)
        BY <3>2, <1>6
      <4>2. b \in Nat /\ e <= b
        BY <2>1, <4>1, <1>2, <1>11
      <4> HIDE DEF e
      <4> QED BY <2>1, <4>2, <1>7, <1>5a
    <3> QED BY <3>1, <3>2
  <2>2. CASE a = m
    <3>1. b \in Blocks(h)
      BY <2>2, <1>6, <1>11, <1>5a
    <3>2. b \in Nat /\ (p < b => e <= b)
      BY <3>1, <1>2
    <3> HIDE DEF e
    <3> QED BY <2>2, <3>2, <1>7, <1>11, <1>5a
  <2>3. CASE a # p /\ a # m
    <3> DEFINE d == End(h, a)
    <3>0. a \in Blocks(h)
      BY <2>3, <1>6
    <3>1. /\ a \in Nat /\ End(g, a) = d /\ d \in Nat
          /\ (a < p => d <= p) /\ (p < a => e <= a)
      BY <2>3, <3>0, <1>2, <1>8
    <3>2. CASE b = m
      <4> HIDE DEF d, e
      <4> QED BY <2>3, <3>1, <3>2, <1>11, <1>5a
    <3>3. CASE b # m
      <4>1. b \in Blocks(h)
        BY <3>3, <1>6
      <4> QED BY <3>0, <3>1, <4>1, <1>11, <1>5c DEF Tiles
    <3> QED BY <3>2, <3>3
  <2> QED BY <2>1, <2>2, <2>3
<1>12. ASSUME NEW x \in DOMAIN g.footer
       PROVE  \E a \in Blocks(g) : x = End(g, a)
  <2>0. p \in Blocks(g) /\ m \in Blocks(g)
    BY <1>6, <1>5a
  <2>1. CASE x = e
    BY <2>0, <2>1, <1>7
  <2>2. CASE x = m
    BY <2>0, <2>2, <1>7
  <2>3. CASE x # e /\ x # m
    <3>1. x \in DOMAIN h.footer
      <4> HIDE DEF e
      <4> QED BY <2>3, <1>6
    <3>2. PICK a \in Blocks(h) : x = End(h, a)
      BY <3>1, <1>5c DEF Tiles
    <3> QED BY <2>3, <3>2, <1>6, <1>8, <1>5a
  <2> QED BY <2>1, <2>2, <2>3
<1>13. \A a \in Blocks(g) : a = 0 \/ a \in DOMAIN g.footer
  <2>1. \A a \in Blocks(h) : a = 0 \/ a \in DOMAIN h.footer
    BY <1>5c DEF Tiles
  <2> HIDE DEF e
  <2> QED BY <2>1, <1>6
<1>14. g.end > 0 => 0 \in Blocks(g) /\ g.end \in DOMAIN g.footer
  <2>1. h.end > 0 => 0 \in Blocks(h) /\ h.end \in DOMAIN h.footer
    BY <1>5c DEF Tiles
  <2> HIDE DEF e
  <2> QED BY <2>1, <1>6
<1>15. g.end \in Nat /\ g.end % 16 = 0
  BY <1>6, <1>5c DEF Tiles
<1>16. Tiles(g)
  BY <1>9, <1>10, <1>11, <1>12, <1>13, <1>14, <1>15 DEF Tiles
<1> QED BY <1>3, <1>6, <1>7, <1>8, <1>16, <1>5a DEF SplitInto

\* A page after the last block.
LEMMA GrowIs ==
    ASSUME NEW h, IsHeap(h), Tiles(h),
           NEW g, g = write_block([h EXCEPT !.end = @ + PageSize], h.end, PageSize, 0, 0, 0)
    PROVE  /\ Tiles(g) /\ IsHeap(g) /\ g.end = h.end + PageSize
           /\ g.link = h.link /\ g.head = h.head
           /\ Blocks(g) = Blocks(h) \cup {h.end} /\ h.end \notin Blocks(h)
           /\ \A a \in Blocks(h) : /\ g.header[a] = h.header[a]
                                   /\ End(g, a) = End(h, a)
                                   /\ g.footer[End(h, a)] = h.footer[End(h, a)]
           /\ End(g, h.end) = g.end
           /\ g.header[h.end] = [size |-> PageSize, allocated |-> 0, padded |-> 0]
<1> DEFINE old  == h.end
           wide == [h EXCEPT !.end = @ + PageSize]
<1>1. /\ IsHeap(wide) /\ wide.end = old + PageSize /\ wide.header = h.header
      /\ wide.footer = h.footer /\ wide.link = h.link /\ wide.head = h.head
  BY DEF IsHeap
<1>2. /\ old \in Nat /\ old % 16 = 0 /\ PageSize \in Nat /\ PageSize > 0 /\ PageSize % 16 = 0
      /\ old + PageSize \in Nat /\ (old + PageSize) % 16 = 0 /\ old < old + PageSize
  <2>1. old \in Nat /\ old % 16 = 0
    BY DEF Tiles
  <2> HIDE DEF old
  <2> QED BY <2>1, SfmmAssumption
<1>3. \A a \in Blocks(h) : /\ a \in Nat /\ a < End(h, a) /\ End(h, a) \in Nat
                           /\ End(h, a) <= old /\ a < old
  BY BlockIs
<1>4. \A x \in DOMAIN h.footer : x \in Nat /\ x <= old
  BY <1>3 DEF Tiles
<1>5. /\ IsHeap(g) /\ g.end = old + PageSize /\ g.link = h.link /\ g.head = h.head
      /\ Blocks(g) = Blocks(h) \cup {old}
      /\ DOMAIN g.footer = DOMAIN h.footer \cup {old + PageSize}
      /\ g.header[old] = [size |-> PageSize, allocated |-> 0, padded |-> 0]
      /\ g.footer[old + PageSize] = [size |-> PageSize, allocated |-> 0, padded |-> 0,
                                     requested |-> 0]
      /\ \A a \in Blocks(g) : a # old => g.header[a] = h.header[a]
      /\ \A x \in DOMAIN g.footer : x # old + PageSize => g.footer[x] = h.footer[x]
      /\ g.header = [a \in Blocks(g) |-> g.header[a]]
      /\ g.footer = [x \in DOMAIN g.footer |-> g.footer[x]]
  <2>1. g = write_block(wide, old, PageSize, 0, 0, 0)
    OBVIOUS
  <2>2. Blocks(wide) = Blocks(h)
    BY <1>1 DEF Blocks
  <2> HIDE DEF wide, old
  <2>3. /\ IsHeap(g) /\ g.end = wide.end /\ g.link = wide.link /\ g.head = wide.head
        /\ Blocks(g) = {a \in Blocks(wide) : ~ (old < a /\ a < old + PageSize)} \cup {old}
        /\ DOMAIN g.footer = {x \in DOMAIN wide.footer : ~ (old < x /\ x < old + PageSize)}
                             \cup {old + PageSize}
        /\ g.header[old] = [size |-> PageSize, allocated |-> 0, padded |-> 0]
        /\ g.footer[old + PageSize] = [size |-> PageSize, allocated |-> 0, padded |-> 0,
                                       requested |-> 0]
        /\ \A a \in Blocks(g) : a # old => g.header[a] = wide.header[a]
        /\ \A x \in DOMAIN g.footer : x # old + PageSize => g.footer[x] = wide.footer[x]
        /\ g.header = [a \in Blocks(g) |-> g.header[a]]
        /\ g.footer = [x \in DOMAIN g.footer |-> g.footer[x]]
    BY <1>1, <2>1, Written
  <2>4. \A a \in Blocks(h) : ~ (old < a)
    BY <1>2, <1>3
  <2>5. \A x \in DOMAIN h.footer : ~ (old < x)
    BY <1>2, <1>4
  <2> QED BY <2>2, <2>3, <2>4, <2>5, <1>1
<1>6. old \notin Blocks(h) /\ old + PageSize \notin DOMAIN h.footer
  BY <1>2, <1>3, <1>4
<1>7. End(g, old) = old + PageSize
  BY <1>5 DEF End
<1>8. ASSUME NEW a \in Blocks(h)
      PROVE  /\ g.header[a] = h.header[a] /\ End(g, a) = End(h, a)
             /\ End(h, a) \in DOMAIN h.footer
             /\ g.footer[End(h, a)] = h.footer[End(h, a)]
  <2>1. g.header[a] = h.header[a] /\ End(h, a) \in DOMAIN h.footer
    BY <1>5, <1>6 DEF Tiles
  <2> DEFINE d == End(h, a)
  <2>2. d \in DOMAIN h.footer
    BY <2>1
  <2> HIDE DEF d, old
  <2>3. g.footer[d] = h.footer[d]
    BY <2>2, <1>5, <1>6
  <2> QED BY <2>1, <2>3 DEF End, d
<1>9. g.header \in [Blocks(g) -> Tag] /\ g.footer \in [DOMAIN g.footer -> Foot]
  <2>1. \A a \in Blocks(g) : g.header[a] \in Tag
    <3> TAKE a \in Blocks(g)
    <3>1. CASE a = old
      BY <3>1, <1>2, <1>5 DEF Tag
    <3>2. CASE a # old
      <4>1. a \in Blocks(h) /\ g.header[a] = h.header[a]
        BY <3>2, <1>5
      <4> QED BY <4>1, BlockIs
    <3> QED BY <3>1, <3>2
  <2>2. \A x \in DOMAIN g.footer : g.footer[x] \in Foot
    <3> TAKE x \in DOMAIN g.footer
    <3>1. CASE x = old + PageSize
      BY <3>1, <1>2, <1>5 DEF Foot
    <3>2. CASE x # old + PageSize
      <4>1. x \in DOMAIN h.footer /\ g.footer[x] = h.footer[x]
        BY <3>2, <1>5
      <4> QED BY <4>1 DEF Tiles
    <3> QED BY <3>1, <3>2
  <2> QED BY <2>1, <2>2, <1>5
<1>10. ASSUME NEW a \in Blocks(g)
       PROVE  /\ a \in Nat /\ a % 16 = 0
              /\ g.header[a].size > 0 /\ g.header[a].size % 16 = 0 /\ End(g, a) <= g.end
              /\ End(g, a) \in DOMAIN g.footer
              /\ g.footer[End(g, a)].size = g.header[a].size
              /\ g.footer[End(g, a)].allocated = g.header[a].allocated
              /\ End(g, a) = g.end \/ End(g, a) \in Blocks(g)
  <2>1. CASE a = old
    BY <2>1, <1>2, <1>5, <1>7
  <2>2. CASE a # old
    <3> DEFINE d == End(h, a)
    <3>1. a \in Blocks(h)
      BY <2>2, <1>5
    <3>2. /\ g.header[a] = h.header[a] /\ End(g, a) = d
          /\ d \in DOMAIN h.footer /\ g.footer[d] = h.footer[d]
      BY <3>1, <1>8
    <3>3. /\ a \in Nat /\ a % 16 = 0
          /\ h.header[a].size > 0 /\ h.header[a].size % 16 = 0 /\ d <= old
          /\ h.footer[d].size = h.header[a].size
          /\ h.footer[d].allocated = h.header[a].allocated
          /\ d = old \/ d \in Blocks(h)
      BY <3>1, <1>3 DEF Tiles
    <3>4. d \in Nat
      BY <3>1, <1>3
    <3> HIDE DEF d, old
    <3> QED BY <3>2, <3>3, <3>4, <1>2, <1>5
  <2> QED BY <2>1, <2>2
<1>11. ASSUME NEW a \in Blocks(g), NEW b \in Blocks(g), a < b
       PROVE  End(g, a) <= b
  <2>1. a # old
    BY <1>2, <1>3, <1>5, <1>11
  <2>2. a \in Blocks(h) /\ End(g, a) = End(h, a)
    BY <2>1, <1>5, <1>8
  <2>3. CASE b = old
    BY <2>2, <2>3, <1>3
  <2>4. CASE b # old
    <3>1. b \in Blocks(h)
      BY <2>4, <1>5
    <3> QED BY <3>1, <2>2, <1>11 DEF Tiles
  <2> QED BY <2>3, <2>4
<1>12. ASSUME NEW x \in DOMAIN g.footer
       PROVE  \E a \in Blocks(g) : x = End(g, a)
  <2>1. CASE x = old + PageSize
    BY <2>1, <1>5, <1>7
  <2>2. CASE x # old + PageSize
    <3>1. x \in DOMAIN h.footer
      BY <2>2, <1>5
    <3>2. PICK a \in Blocks(h) : x = End(h, a)
      BY <3>1 DEF Tiles
    <3> QED BY <3>2, <1>5, <1>8
  <2> QED BY <2>1, <2>2
<1>13. \A a \in Blocks(g) : a = 0 \/ a \in DOMAIN g.footer
  <2>1. \A a \in Blocks(h) : a = 0 \/ a \in DOMAIN h.footer
    BY DEF Tiles
  <2>2. old = 0 \/ old \in DOMAIN h.footer
    BY <1>2 DEF Tiles
  <2> HIDE DEF old
  <2> QED BY <2>1, <2>2, <1>5
<1>14. g.end > 0 => 0 \in Blocks(g) /\ g.end \in DOMAIN g.footer
  <2>1. old > 0 => 0 \in Blocks(h)
    BY DEF Tiles
  <2>2. old > 0 \/ old = 0
    BY <1>2
  <2> HIDE DEF old
  <2>3. 0 \in Blocks(g)
    BY <2>1, <2>2, <1>5
  <2> QED BY <2>3, <1>5
<1>15. Tiles(g)
  <2>1. g.end \in Nat /\ g.end % 16 = 0
    BY <1>2, <1>5
  <2> QED BY <2>1, <1>9, <1>10, <1>11, <1>12, <1>13, <1>14 DEF Tiles
<1> QED BY <1>5, <1>6, <1>7, <1>8, <1>15
-----------------------------------------------------------------------------
(***************************************************************************)
(* The free lists of a heap h.                                             *)
(***************************************************************************)
Where(h, p) == ListOf(h.header[p].size)

\* The lists are linked both ways, and never lead out of the list or out of the heap.
Linked(h) ==
    LET D == DOMAIN h.link
    IN  /\ D \subseteq Blocks(h) \cap Nat
        /\ h.head \in [Lists -> D \cup {NULL}]
        /\ h.link \in [D -> [next : D \cup {NULL}, prev : D \cup {NULL}]]
        /\ \A n \in Lists : h.head[n] # NULL =>
              Where(h, h.head[n]) = n /\ h.link[h.head[n]].prev = NULL
        /\ \A a \in D :
              /\ h.link[a].prev = NULL => h.head[Where(h, a)] = a
              /\ h.link[a].next # NULL => /\ h.link[h.link[a].next].prev = a
                                          /\ Where(h, h.link[a].next) = Where(h, a)
              /\ h.link[a].prev # NULL => /\ h.link[h.link[a].prev].next = a
                                          /\ Where(h, h.link[a].prev) = Where(h, a)

\* No list comes back to a block of its own.
Ordered(h) ==
    \E rank \in [DOMAIN h.link -> Nat] : \A a \in DOMAIN h.link :
        h.link[a].next # NULL => rank[h.link[a].next] < rank[a]

\* insert_seg_free_list has a list for every size.
LEMMA ListsOfSizes == \A size : ListOf(size) \in Lists
<1> TAKE size
<1> DEFINE S == {n \in 0 .. 2 : ListMax[n] < size}
<1>1. IsFiniteSet(0 .. 2) /\ Cardinality(0 .. 2) = 3
  <2>1. \A a, b \in Int : /\ IsFiniteSet(a .. b)
                          /\ Cardinality(a .. b) = IF a > b THEN 0 ELSE b - a + 1
    BY FS_Interval
  <2>2. PICK z \in Int, w \in Int : z = 0 /\ w = 2
    OBVIOUS
  <2>3. IsFiniteSet(z .. w) /\ Cardinality(z .. w) = IF z > w THEN 0 ELSE w - z + 1
    BY <2>1
  <2> QED BY <2>2, <2>3
<1>2. Cardinality(S) \in Nat /\ Cardinality(S) <= Cardinality(0 .. 2)
  BY <1>1, FS_Subset, FS_CardinalityType
<1> DEFINE c == Cardinality(S)
<1>3. ListOf(size) = IF size < ListMin THEN 3 ELSE c
  BY DEF ListOf
<1>4. c \in 0 .. 3
  BY <1>1, <1>2
<1> HIDE DEF c, S
<1> QED BY <1>3, <1>4 DEF Lists

\* The lists do not see what becomes of blocks that are not in them.
LEMMA LinkedSame ==
    ASSUME NEW h, Linked(h), NEW g, g.link = h.link, g.head = h.head,
           DOMAIN h.link \subseteq Blocks(g),
           \A a \in DOMAIN h.link : g.header[a].size = h.header[a].size
    PROVE  Linked(g) /\ (Ordered(h) => Ordered(g))
<1>1. \A a \in DOMAIN h.link : Where(g, a) = Where(h, a)
  BY DEF Where
<1>2. Ordered(h) => Ordered(g)
  BY DEF Ordered
<1>3. \A n \in Lists : h.head[n] # NULL => h.head[n] \in DOMAIN h.link
  BY DEF Linked
<1>4. \A a \in DOMAIN h.link :
        /\ h.link[a].next # NULL => h.link[a].next \in DOMAIN h.link
        /\ h.link[a].prev # NULL => h.link[a].prev \in DOMAIN h.link
  BY DEF Linked
<1>5. \A n \in Lists : h.head[n] # NULL =>
        Where(g, h.head[n]) = n /\ h.link[h.head[n]].prev = NULL
  BY <1>1, <1>3 DEF Linked
<1>6. \A a \in DOMAIN h.link :
        /\ h.link[a].prev = NULL => h.head[Where(g, a)] = a
        /\ h.link[a].next # NULL => /\ h.link[h.link[a].next].prev = a
                                    /\ Where(g, h.link[a].next) = Where(g, a)
        /\ h.link[a].prev # NULL => /\ h.link[h.link[a].prev].next = a
                                    /\ Where(g, h.link[a].prev) = Where(g, a)
  BY <1>1, <1>4 DEF Linked
<1>7. /\ h.head \in [Lists -> DOMAIN h.link \cup {NULL}]
      /\ h.link \in [DOMAIN h.link -> [next : DOMAIN h.link \cup {NULL},
                                       prev : DOMAIN h.link \cup {NULL}]]
  BY DEF Linked
<1>8. Linked(g)
  <2>1. DOMAIN h.link \subseteq Nat
    BY DEF Linked
  <2> QED BY <2>1, <1>5, <1>6, <1>7 DEF Linked
<1> QED BY <1>2, <1>8

\* A block that is put in front of its list is in it, and nothing else changes.
LEMMA Inserted ==
    ASSUME NEW h, IsHeap(h), Linked(h), NEW p \in Blocks(h), p \in Nat, p \notin DOMAIN h.link,
           NEW g, g = insert_seg_free_list(h, p)
    PROVE  /\ IsHeap(g) /\ g.end = h.end /\ g.header = h.header /\ g.footer = h.footer
           /\ DOMAIN g.link = DOMAIN h.link \cup {p}
           /\ Linked(g) /\ (Ordered(h) => Ordered(g))
<1> DEFINE D     == DOMAIN h.link
           n     == Where(h, p)
           first == h.head[n]
           old   == IF first = NULL THEN h.link ELSE [h.link EXCEPT ![first].prev = p]
<1>1. n \in Lists /\ (first # NULL => first \in D)
  BY ListsOfSizes DEF Where, Linked
<1>2. g = [h EXCEPT !.head[n] = p, !.link = With(old, p, [next |-> first, prev |-> NULL])]
  BY DEF insert_seg_free_list, Where, Size
<1>3. /\ IsHeap(g) /\ g.end = h.end /\ g.header = h.header /\ g.footer = h.footer
      /\ g.head = [h.head EXCEPT ![n] = p]
      /\ g.link = With(old, p, [next |-> first, prev |-> NULL])
  <2> HIDE DEF n, old, first
  <2> QED BY <1>2 DEF IsHeap
<1>4. DOMAIN old = D /\ \A a \in D : old[a] = [next |-> h.link[a].next,
                                               prev |-> IF a = first THEN p ELSE h.link[a].prev]
  <2>1. h.link \in [D -> [next : D \cup {NULL}, prev : D \cup {NULL}]] /\ NULL \notin D
    BY DEF Linked, NULL
  <2> HIDE DEF n
  <2>2. CASE first = NULL
    BY <2>1, <2>2, <1>1
  <2>3. CASE first # NULL
    BY <2>1, <2>3, <1>1
  <2> QED BY <2>2, <2>3
<1>5. /\ DOMAIN g.link = D \cup {p} /\ g.link[p] = [next |-> first, prev |-> NULL]
      /\ \A a \in D : /\ g.link[a].next = h.link[a].next
                      /\ g.link[a].prev = IF a = first THEN p ELSE h.link[a].prev
                      /\ g.link[a] = [next |-> g.link[a].next, prev |-> g.link[a].prev]
      /\ g.link = [a \in D \cup {p} |-> g.link[a]]
  <2> DEFINE l == g.link
  <2>1. l = With(old, p, [next |-> first, prev |-> NULL])
    BY <1>3
  <2> HIDE DEF l, old, first
  <2>2. /\ DOMAIN l = D \cup {p} /\ l[p] = [next |-> first, prev |-> NULL]
        /\ \A a \in D : l[a] = old[a]
        /\ l = [a \in D \cup {p} |-> l[a]]
    BY <2>1, <1>4 DEF With
  <2>3. \A a \in D : /\ l[a].next = h.link[a].next
                     /\ l[a].prev = IF a = first THEN p ELSE h.link[a].prev
                     /\ l[a] = [next |-> l[a].next, prev |-> l[a].prev]
    <3> TAKE a \in D
    <3> DEFINE b == h.link[a].prev
               c == h.link[a].next
    <3>1. l[a] = [next |-> c, prev |-> IF a = first THEN p ELSE b]
      BY <2>2, <1>4
    <3> HIDE DEF b, c
    <3>2. l[a].next = c /\ l[a].prev = (IF a = first THEN p ELSE b)
          /\ l[a] = [next |-> l[a].next, prev |-> l[a].prev]
      BY <3>1
    <3> QED BY <3>2 DEF b, c
  <2>4. /\ DOMAIN l = D \cup {p} /\ l[p] = [next |-> first, prev |-> NULL]
        /\ l = [a \in D \cup {p} |-> l[a]]
    BY <2>2
  <2> HIDE DEF D
  <2> QED BY <2>3, <2>4 DEF l
<1>6. /\ g.head \in [Lists -> D \cup {p, NULL}] /\ g.head[n] = p
      /\ \A m \in Lists : m # n => g.head[m] = h.head[m]
  <2>1. h.head \in [Lists -> D \cup {NULL}]
    BY DEF Linked
  <2> HIDE DEF n, D
  <2> QED BY <2>1, <1>1, <1>3
<1>7. \A a : Where(g, a) = Where(h, a)
  BY <1>3 DEF Where
<1>8. \A a \in D : /\ a # p /\ a \in Nat /\ a \in Blocks(h) /\ a # NULL
                   /\ h.link[a].next \in D \cup {NULL} /\ h.link[a].prev \in D \cup {NULL}
                   /\ h.link[a].prev = NULL => h.head[Where(h, a)] = a
                   /\ h.link[a].next # NULL => /\ h.link[h.link[a].next].prev = a
                                               /\ Where(h, h.link[a].next) = Where(h, a)
                   /\ h.link[a].prev # NULL => /\ h.link[h.link[a].prev].next = a
                                               /\ Where(h, h.link[a].prev) = Where(h, a)
                   /\ Where(h, a) \in Lists
  BY ListsOfSizes DEF Linked, NULL, Where
<1>9. \A m \in Lists : h.head[m] # NULL =>
        h.head[m] \in D /\ Where(h, h.head[m]) = m /\ h.link[h.head[m]].prev = NULL
  BY DEF Linked
<1>10. p # NULL /\ Where(h, p) = n
  BY DEF NULL
<1>11. \A m \in Lists : g.head[m] # NULL =>
         Where(g, g.head[m]) = m /\ g.link[g.head[m]].prev = NULL
  <2> TAKE m \in Lists
  <2>1. CASE m = n
    BY <2>1, <1>5, <1>6, <1>7
  <2>2. CASE m # n
    <3> DEFINE b == h.head[m]
    <3> SUFFICES ASSUME b # NULL
                 PROVE  Where(h, b) = m /\ g.link[b].prev = NULL
      BY <2>2, <1>6, <1>7
    <3>1. b \in D /\ Where(h, b) = m /\ h.link[b].prev = NULL
      BY <1>9
    <3>2. b # first
      BY <2>2, <3>1, <1>1, <1>9
    <3> HIDE DEF b, first
    <3> QED BY <3>1, <3>2, <1>5
  <2> QED BY <2>1, <2>2
<1>12. ASSUME NEW a \in D
       PROVE  /\ g.link[a].prev = NULL => g.head[Where(h, a)] = a
              /\ g.link[a].next # NULL => /\ g.link[g.link[a].next].prev = a
                                          /\ Where(h, g.link[a].next) = Where(h, a)
              /\ g.link[a].prev # NULL => /\ g.link[g.link[a].prev].next = a
                                          /\ Where(h, g.link[a].prev) = Where(h, a)
  <2>1. g.link[a].next # NULL => /\ g.link[g.link[a].next].prev = a
                                 /\ Where(h, g.link[a].next) = Where(h, a)
    <3> DEFINE b == h.link[a].next
    <3> SUFFICES ASSUME b # NULL
                 PROVE  g.link[b].prev = a /\ Where(h, b) = Where(h, a)
      BY <1>5
    <3>1. b \in D /\ h.link[b].prev = a /\ Where(h, b) = Where(h, a) /\ a # NULL
      BY <1>8
    <3>2. b # first
      BY <3>1, <1>1, <1>9
    <3> HIDE DEF b, first
    <3> QED BY <3>1, <3>2, <1>5
  <2>2. CASE a = first
    <3>1. g.link[a].prev = p /\ g.link[p].next = a /\ Where(h, p) = Where(h, a)
      <4>1. g.link[a].prev = p /\ g.link[p].next = first
        <5>1. a \in D /\ a = first
          BY <2>2
        <5>2. g.link[p] = [next |-> first, prev |-> NULL]
          BY <1>5
        <5> HIDE DEF first
        <5>3. g.link[a].prev = p
          BY <5>1, <1>5
        <5> QED BY <5>2, <5>3
      <4>2. first # NULL
        BY <2>2, <1>8
      <4>3. Where(h, first) = n
        BY <4>2, <1>1, <1>9
      <4> QED BY <2>2, <4>1, <4>3, <1>10
    <3> QED BY <2>1, <3>1, <1>10
  <2>3. CASE a # first
    <3>1. g.link[a].prev = h.link[a].prev
      BY <2>3, <1>5
    <3>2. h.link[a].prev = NULL => g.head[Where(h, a)] = a
      <4> SUFFICES ASSUME h.link[a].prev = NULL
                   PROVE  g.head[Where(h, a)] = a
        OBVIOUS
      <4>1. h.head[Where(h, a)] = a /\ Where(h, a) \in Lists
        BY <1>8
      <4>2. Where(h, a) # n
        BY <2>3, <4>1
      <4> QED BY <4>1, <4>2, <1>6
    <3>3. h.link[a].prev # NULL => /\ g.link[h.link[a].prev].next = a
                                   /\ Where(h, h.link[a].prev) = Where(h, a)
      BY <1>5, <1>8
    <3> QED BY <2>1, <3>1, <3>2, <3>3
  <2> QED BY <2>2, <2>3
<1>13. /\ g.link[p].prev = NULL => g.head[Where(h, p)] = p
       /\ g.link[p].next # NULL => /\ g.link[g.link[p].next].prev = p
                                   /\ Where(h, g.link[p].next) = Where(h, p)
       /\ g.link[p].prev # NULL => /\ g.link[g.link[p].prev].next = p
                                   /\ Where(h, g.link[p].prev) = Where(h, p)
  <2>1. g.link[p].prev = NULL /\ g.link[p].next = first
    BY <1>5
  <2>2. first # NULL => g.link[first].prev = p /\ Where(h, first) = n
    BY <1>1, <1>5, <1>9
  <2> QED BY <2>1, <2>2, <1>6, <1>10
<1>14. g.link \in [D \cup {p} -> [next : D \cup {p} \cup {NULL}, prev : D \cup {p} \cup {NULL}]]
  <2>1. \A a \in D \cup {p} : /\ g.link[a] = [next |-> g.link[a].next, prev |-> g.link[a].prev]
                              /\ g.link[a].next \in D \cup {p} \cup {NULL}
                              /\ g.link[a].prev \in D \cup {p} \cup {NULL}
    <3> TAKE a \in D \cup {p}
    <3>1. CASE a = p
      <4> HIDE DEF first, D
      <4> QED BY <3>1, <1>1, <1>5
    <3>2. CASE a # p
      <4>1. a \in D
        BY <3>2
      <4> HIDE DEF first, D
      <4> QED BY <4>1, <1>5, <1>8
    <3> QED BY <3>1, <3>2
  <2>2. \A a \in D \cup {p} : g.link[a] \in [next : D \cup {p} \cup {NULL},
                                             prev : D \cup {p} \cup {NULL}]
    <3> TAKE a \in D \cup {p}
    <3> DEFINE x == g.link[a].next
               y == g.link[a].prev
    <3>1. g.link[a] = [next |-> x, prev |-> y]
      BY <2>1
    <3>2. x \in D \cup {p} \cup {NULL} /\ y \in D \cup {p} \cup {NULL}
      BY <2>1
    <3> HIDE DEF x, y, D
    <3> QED BY <3>1, <3>2
  <2> HIDE DEF D
  <2> QED BY <2>2, <1>5
<1>15. Linked(g)
  <2>1. D \cup {p} \subseteq Blocks(g) \cap Nat
    BY <1>3, <1>8 DEF Blocks
  <2>2. \A a \in D \cup {p} :
          /\ g.link[a].prev = NULL => g.head[Where(g, a)] = a
          /\ g.link[a].next # NULL => /\ g.link[g.link[a].next].prev = a
                                      /\ Where(g, g.link[a].next) = Where(g, a)
          /\ g.link[a].prev # NULL => /\ g.link[g.link[a].prev].next = a
                                      /\ Where(g, g.link[a].prev) = Where(g, a)
    <3> HIDE DEF n, D
    <3> QED BY <1>7, <1>12, <1>13
  <2>3. g.head \in [Lists -> D \cup {p} \cup {NULL}]
    BY <1>6
  <2> HIDE DEF n, D, first
  <2> QED BY <2>1, <2>2, <2>3, <1>5, <1>11, <1>14 DEF Linked
<1>16. ASSUME Ordered(h)
       PROVE  Ordered(g)
  <2>1. PICK rank \in [D -> Nat] : \A a \in D :
          h.link[a].next # NULL => rank[h.link[a].next] < rank[a]
    BY <1>16 DEF Ordered
  <2> DEFINE new == [a \in D \cup {p} |-> IF a = p THEN IF first = NULL THEN 0 ELSE rank[first] + 1
                                          ELSE rank[a]]
  <2>2. new \in [D \cup {p} -> Nat] /\ \A a \in D : new[a] = rank[a]
    <3> HIDE DEF first, D
    <3> QED BY <2>1, <1>1, <1>8
  <2>3. ASSUME NEW a \in D \cup {p}, g.link[a].next # NULL
        PROVE  new[g.link[a].next] < new[a]
    <3>1. CASE a = p
      <4>1. g.link[a].next = first /\ first \in D
        BY <2>3, <3>1, <1>1, <1>5
      <4> HIDE DEF first, D
      <4>2. new[a] = rank[first] + 1 /\ new[first] = rank[first] /\ rank[first] \in Nat
        BY <2>1, <2>2, <2>3, <3>1, <4>1
      <4> HIDE DEF new
      <4> QED BY <4>1, <4>2
    <3>2. CASE a # p
      <4>1. a \in D /\ g.link[a].next = h.link[a].next /\ h.link[a].next \in D
        BY <2>3, <3>2, <1>5, <1>8
      <4> HIDE DEF D, new
      <4> QED BY <4>1, <2>1, <2>2, <2>3
    <3> QED BY <3>1, <3>2
  <2> HIDE DEF new, D
  <2> QED BY <2>2, <2>3, <1>5 DEF Ordered
<1> QED BY <1>3, <1>5, <1>15, <1>16

\* A block that is taken out of its list leaves its neighbours linked to each other.
LEMMA Removed ==
    ASSUME NEW h, IsHeap(h), Linked(h), NEW p \in DOMAIN h.link,
           NEW g, g = remove_seg_free_list(h, p)
    PROVE  /\ IsHeap(g) /\ g.end = h.end /\ g.header = h.header /\ g.footer = h.footer
           /\ DOMAIN g.link = DOMAIN h.link \ {p}
           /\ Linked(g) /\ (Ordered(h) => Ordered(g))
<1> DEFINE D == DOMAIN h.link
           n == Where(h, p)
           x == h.link[p].prev
           y == h.link[p].next
<1>1. /\ IsHeap(g) /\ g.end = h.end /\ g.header = h.header /\ g.footer = h.footer
      /\ g.head = [h.head EXCEPT ![n] = IF x = NULL THEN y ELSE @]
      /\ g.link = [a \in D \ {p} |-> [next |-> IF a = x THEN y ELSE h.link[a].next,
                                      prev |-> IF a = y THEN x ELSE h.link[a].prev]]
  BY DEF remove_seg_free_list, IsHeap, Where, Size
<1>2. \A a \in D : /\ a \in Nat /\ a \in Blocks(h) /\ a # NULL
                   /\ h.link[a].next \in D \cup {NULL} /\ h.link[a].prev \in D \cup {NULL}
                   /\ h.link[a].prev = NULL => h.head[Where(h, a)] = a
                   /\ h.link[a].next # NULL => /\ h.link[h.link[a].next].prev = a
                                               /\ Where(h, h.link[a].next) = Where(h, a)
                   /\ h.link[a].prev # NULL => /\ h.link[h.link[a].prev].next = a
                                               /\ Where(h, h.link[a].prev) = Where(h, a)
                   /\ Where(h, a) \in Lists
  BY ListsOfSizes DEF Linked, NULL, Where
<1>3. \A m \in Lists : h.head[m] # NULL =>
        h.head[m] \in D /\ Where(h, h.head[m]) = m /\ h.link[h.head[m]].prev = NULL
  BY DEF Linked
<1>4. \A a : Where(g, a) = Where(h, a)
  BY <1>1 DEF Where
<1>5. \A a \in D \ {p} : /\ g.link[a].next = IF a = x THEN y ELSE h.link[a].next
                         /\ g.link[a].prev = IF a = y THEN x ELSE h.link[a].prev
                         /\ g.link[a] = [next |-> g.link[a].next, prev |-> g.link[a].prev]
  <2> HIDE DEF x, y, D
  <2> QED BY <1>1
\* The neighbours of p.
<1>6. /\ p # NULL /\ n \in Lists
      /\ x # NULL => x \in D /\ h.link[x].next = p /\ Where(h, x) = n
      /\ y # NULL => y \in D /\ h.link[y].prev = p /\ Where(h, y) = n
      /\ x = p <=> y = p
      /\ x = NULL => h.head[n] = p
  <2>1. /\ p # NULL /\ n \in Lists /\ x \in D \cup {NULL} /\ y \in D \cup {NULL}
        /\ x = NULL => h.head[n] = p
        /\ y # NULL => h.link[y].prev = p /\ Where(h, y) = n
        /\ x # NULL => h.link[x].next = p /\ Where(h, x) = n
    BY <1>2
  <2>2. x = p => y = p
    BY <2>1
  <2>3. y = p => x = p
    BY <2>1
  <2> HIDE DEF x, y, n
  <2> QED BY <2>1, <2>2, <2>3
<1>7. /\ g.head \in [Lists -> (D \ {p}) \cup {NULL}]
      /\ g.head[n] = (IF x = NULL THEN y ELSE h.head[n])
      /\ \A m \in Lists : m # n => g.head[m] = h.head[m]
  <2>1. /\ h.head \in [Lists -> D \cup {NULL}]
        /\ g.head[n] = (IF x = NULL THEN y ELSE h.head[n])
        /\ \A m \in Lists : m # n => g.head[m] = h.head[m]
        /\ DOMAIN g.head = Lists /\ g.head = [m \in Lists |-> g.head[m]]
    <3>1. h.head \in [Lists -> D \cup {NULL}]
      BY DEF Linked
    <3> HIDE DEF x, y, n, D
    <3> QED BY <3>1, <1>1, <1>6
  <2>2. \A m \in Lists : g.head[m] \in (D \ {p}) \cup {NULL}
    <3> TAKE m \in Lists
    <3>1. CASE m # n
      <4>1. h.head[m] # p
        BY <3>1, <1>3, <1>6
      <4> QED BY <3>1, <4>1, <2>1
    <3>2. CASE m = n /\ x = NULL
      <4>1. y # p
        BY <3>2, <1>6
      <4> QED BY <3>2, <4>1, <2>1, <1>6
    <3>3. CASE m = n /\ x # NULL
      <4>1. h.head[n] # p
        BY <3>3, <1>3, <1>6
      <4> QED BY <3>3, <4>1, <2>1
    <3> QED BY <3>1, <3>2, <3>3
  <2> HIDE DEF D, x, y, n
  <2> QED BY <2>1, <2>2
<1>8. \A m \in Lists : g.head[m] # NULL =>
        Where(h, g.head[m]) = m /\ g.link[g.head[m]].prev = NULL
  <2> TAKE m \in Lists
  <2> DEFINE b == g.head[m]
  <2> SUFFICES ASSUME b # NULL
               PROVE  Where(h, b) = m /\ g.link[b].prev = NULL
    OBVIOUS
  <2>1. b \in D \ {p}
    BY <1>7
  <2>2. CASE m = n /\ x = NULL
    <3>1. b = y
      BY <2>2, <1>7
    <3>2. g.link[b].prev = x
      BY <2>1, <3>1, <1>5
    <3> QED BY <2>2, <3>1, <3>2, <1>6
  <2>3. CASE m # n \/ x # NULL
    <3>1. b = h.head[m]
      BY <2>3, <1>7
    <3>2. Where(h, b) = m /\ h.link[b].prev = NULL
      BY <3>1, <1>3
    <3>3. b # y
      BY <3>2, <1>6
    <3> HIDE DEF b, x, y
    <3> QED BY <2>1, <3>2, <3>3, <1>5
  <2> QED BY <2>2, <2>3
<1>9. ASSUME NEW a \in D \ {p}
      PROVE  g.link[a].next \in (D \ {p}) \cup {NULL} /\ g.link[a].prev \in (D \ {p}) \cup {NULL}
  <2>1. CASE a = x
    <3>1. g.link[a].next = y /\ y # p
      BY <2>1, <1>5, <1>6, <1>9
    <3>2. g.link[a].next \in (D \ {p}) \cup {NULL}
      BY <3>1, <1>6
    <3>3. CASE a = y
      BY <3>3, <3>2, <1>5, <1>6, <1>9
    <3>4. CASE a # y
      <4>1. g.link[a].prev = h.link[a].prev /\ h.link[a].prev \in D \cup {NULL}
        BY <3>4, <1>2, <1>5
      <4>2. h.link[a].prev # p
        BY <3>4, <1>2, <1>6
      <4> QED BY <3>2, <4>1, <4>2
    <3> QED BY <3>3, <3>4
  <2>2. CASE a # x
    <3>1. g.link[a].next = h.link[a].next /\ h.link[a].next \in D \cup {NULL}
      BY <2>2, <1>2, <1>5
    <3>2. h.link[a].next # p
      BY <2>2, <1>2, <1>6
    <3>3. CASE a = y
      <4>1. g.link[a].prev = x /\ x # p
        BY <3>3, <1>5, <1>6, <1>9
      <4> QED BY <3>1, <3>2, <4>1, <1>6
    <3>4. CASE a # y
      <4>1. g.link[a].prev = h.link[a].prev /\ h.link[a].prev \in D \cup {NULL}
        BY <3>4, <1>2, <1>5
      <4>2. h.link[a].prev # p
        BY <3>4, <1>2, <1>6
      <4> QED BY <3>1, <3>2, <4>1, <4>2
    <3> QED BY <3>3, <3>4
  <2> QED BY <2>1, <2>2
<1>10. ASSUME NEW a \in D \ {p}, g.link[a].prev = NULL
       PROVE  g.head[Where(h, a)] = a
  <2>1. CASE a = y
    <3>1. x = NULL
      BY <2>1, <1>5, <1>10
    <3> QED BY <2>1, <3>1, <1>2, <1>6, <1>7
  <2>2. CASE a # y
    <3>1. h.link[a].prev = NULL
      BY <2>2, <1>5, <1>10
    <3>2. h.head[Where(h, a)] = a /\ Where(h, a) \in Lists
      BY <3>1, <1>2
    <3>3. Where(h, a) = n => x # NULL
      BY <3>2, <1>6
    <3> QED BY <3>2, <3>3, <1>7
  <2> QED BY <2>1, <2>2
<1>11. ASSUME NEW a \in D \ {p}, g.link[a].next # NULL
       PROVE  g.link[g.link[a].next].prev = a /\ Where(h, g.link[a].next) = Where(h, a)
  <2> DEFINE b == g.link[a].next
  <2>1. b \in D \ {p}
    BY <1>9, <1>11
  <2>2. CASE a = x
    <3>1. b = y
      BY <2>2, <1>5
    <3>2. g.link[b].prev = x
      BY <2>1, <3>1, <1>5
    <3>3. x # NULL /\ y # NULL
      BY <2>2, <3>1, <1>2, <1>11
    <3>4. Where(h, b) = Where(h, a)
      BY <2>2, <3>1, <3>3, <1>6
    <3> QED BY <2>2, <3>2, <3>4
  <2>3. CASE a # x
    <3>1. b = h.link[a].next
      BY <2>3, <1>5
    <3>2. h.link[b].prev = a /\ Where(h, b) = Where(h, a)
      BY <3>1, <1>2, <1>11
    <3>3. b # y
      BY <3>2, <2>1, <1>6, <1>11
    <3>4. g.link[b].prev = h.link[b].prev
      <4> HIDE DEF b, x, y
      <4> QED BY <2>1, <3>3, <1>5
    <3> QED BY <3>2, <3>4
  <2> QED BY <2>2, <2>3
<1>12. ASSUME NEW a \in D \ {p}, g.link[a].prev # NULL
       PROVE  g.link[g.link[a].prev].next = a /\ Where(h, g.link[a].prev) = Where(h, a)
  <2> DEFINE b == g.link[a].prev
  <2>1. b \in D \ {p}
    BY <1>9, <1>12
  <2>2. CASE a = y
    <3>1. b = x
      BY <2>2, <1>5
    <3>2. g.link[b].next = y
      BY <2>1, <3>1, <1>5
    <3>3. x # NULL /\ y # NULL
      BY <2>2, <3>1, <1>2, <1>12
    <3>4. Where(h, b) = Where(h, a)
      BY <2>2, <3>1, <3>3, <1>6
    <3> QED BY <2>2, <3>2, <3>4
  <2>3. CASE a # y
    <3>1. b = h.link[a].prev
      BY <2>3, <1>5
    <3>2. h.link[b].next = a /\ Where(h, b) = Where(h, a)
      BY <3>1, <1>2, <1>12
    <3>3. b # x
      BY <3>2, <2>1, <1>6, <1>12
    <3>4. g.link[b].next = h.link[b].next
      <4> HIDE DEF b, x, y
      <4> QED BY <2>1, <3>3, <1>5
    <3> QED BY <3>2, <3>4
  <2> QED BY <2>2, <2>3
<1>13. DOMAIN g.link = D \ {p}
       /\ g.link \in [D \ {p} -> [next : (D \ {p}) \cup {NULL}, prev : (D \ {p}) \cup {NULL}]]
  <2>1. \A a \in D \ {p} : g.link[a] \in [next : (D \ {p}) \cup {NULL}, prev : (D \ {p}) \cup {NULL}]
    <3> TAKE a \in D \ {p}
    <3> DEFINE b == g.link[a].next
               c == g.link[a].prev
    <3>1. g.link[a] = [next |-> b, prev |-> c]
          /\ b \in (D \ {p}) \cup {NULL} /\ c \in (D \ {p}) \cup {NULL}
      BY <1>5, <1>9
    <3> HIDE DEF b, c, D
    <3> QED BY <3>1
  <2>2. DOMAIN g.link = D \ {p} /\ g.link = [a \in D \ {p} |-> g.link[a]]
    <3> HIDE DEF x, y, D
    <3> QED BY <1>1
  <2> HIDE DEF D
  <2> QED BY <2>1, <2>2
<1>14. Linked(g)
  <2>1. D \ {p} \subseteq Blocks(g) \cap Nat
    BY <1>1, <1>2 DEF Blocks
  <2> HIDE DEF n, D, x, y
  <2> QED BY <2>1, <1>4, <1>7, <1>8, <1>10, <1>11, <1>12, <1>13 DEF Linked
<1>15. ASSUME Ordered(h)
       PROVE  Ordered(g)
  <2>1. PICK rank \in [D -> Nat] : \A a \in D :
          h.link[a].next # NULL => rank[h.link[a].next] < rank[a]
    BY <1>15 DEF Ordered
  <2> DEFINE new == [a \in D \ {p} |-> rank[a]]
  <2>2. ASSUME NEW a \in D \ {p}, g.link[a].next # NULL
        PROVE  new[g.link[a].next] < new[a]
    <3> DEFINE b == g.link[a].next
    <3>1. b \in D \ {p}
      BY <2>2, <1>9
    <3>2. rank[b] < rank[a]
      <4>1. CASE a = x
        <5>1. b = y /\ y # NULL /\ x # NULL
          BY <2>2, <4>1, <1>2, <1>5
        <5>2. rank[y] < rank[p] /\ rank[p] < rank[x]
          BY <5>1, <2>1, <1>6
        <5>3. rank[y] \in Nat /\ rank[p] \in Nat /\ rank[x] \in Nat
          BY <5>1, <2>1, <1>6
        <5> HIDE DEF x, y, b
        <5> QED BY <4>1, <5>1, <5>2, <5>3
      <4>2. CASE a # x
        BY <2>1, <2>2, <4>2, <1>5
      <4> QED BY <4>1, <4>2
    <3> HIDE DEF b, D
    <3> QED BY <3>1, <3>2 DEF b
  <2>3. new \in [D \ {p} -> Nat]
    BY <2>1
  <2> HIDE DEF new, D
  <2> QED BY <2>2, <2>3, <1>13 DEF Ordered
<1> QED BY <1>1, <1>13, <1>14, <1>15
-----------------------------------------------------------------------------
(***************************************************************************)
(* The search for a block.                                                 *)
(***************************************************************************)

IsChain(h, n, f, N) == f = [i \in 1 .. N |-> IF i = 1 THEN h.head[n]
                                             ELSE IF f[i - 1] = NULL THEN NULL
                                             ELSE h.link[f[i - 1]].next]

\* The definition of Chain by recursion defines a function.
LEMMA ChainExists == \A h, n : \A N \in Nat : \E f : IsChain(h, n, f, N)
<1> SUFFICES ASSUME NEW h, NEW n, NEW N \in Nat
             PROVE  \E f : IsChain(h, n, f, N)
  OBVIOUS
<1> DEFINE S == {k \in Nat : ~ \E f : IsChain(h, n, f, k)}
<1>1. S \subseteq Nat
  OBVIOUS
<1>2. ASSUME S # {} PROVE FALSE
  <2> DEFINE k == Least(S)
  <2>1. k \in S /\ \A m \in S : k <= m
    <3> HIDE DEF S
    <3> QED BY <1>1, <1>2, LeastIs
  <2>2. k \in Nat /\ ~ \E f : IsChain(h, n, f, k)
    BY <2>1
  <2> HIDE DEF k, S
  <2>3. k # 0
    <3> DEFINE f == [i \in {} |-> 0]
    <3>1. 1 .. 0 = {}
      OBVIOUS
    <3>2. IsChain(h, n, f, 0)
      BY <3>1 DEF IsChain
    <3> QED BY <3>2, <2>2
  <2>4. PICK f : IsChain(h, n, f, k - 1)
    <3>1. k - 1 \in Nat /\ k - 1 \notin S
      BY <2>1, <2>2, <2>3
    <3> QED BY <3>1 DEF S
  <2> DEFINE last == IF k = 1 THEN h.head[n]
                     ELSE IF f[k - 1] = NULL THEN NULL ELSE h.link[f[k - 1]].next
             g    == [i \in 1 .. k |-> IF i < k THEN f[i] ELSE last]
  <2>5. \A i \in 1 .. k : g[i] = IF i = 1 THEN h.head[n]
                                 ELSE IF g[i - 1] = NULL THEN NULL
                                 ELSE h.link[g[i - 1]].next
    <3> TAKE i \in 1 .. k
    <3>0. i \in Nat /\ i >= 1 /\ i <= k
      BY <2>2
    <3>1. CASE i < k
      <4>1. i \in 1 .. k - 1
        BY <2>2, <3>0, <3>1
      <4>2. f[i] = IF i = 1 THEN h.head[n]
                   ELSE IF f[i - 1] = NULL THEN NULL ELSE h.link[f[i - 1]].next
        BY <2>4, <4>1 DEF IsChain
      <4>3. g[i] = f[i]
        BY <3>1
      <4>4. i # 1 => g[i - 1] = f[i - 1]
        <5> SUFFICES ASSUME i # 1 PROVE g[i - 1] = f[i - 1]
          OBVIOUS
        <5>1. i - 1 \in 1 .. k /\ i - 1 < k
          BY <2>2, <3>0
        <5> QED BY <5>1
      <4> HIDE DEF g
      <4> QED BY <4>2, <4>3, <4>4
    <3>2. CASE i = k
      <4>1. g[i] = last
        BY <3>2, <2>2
      <4>2. i # 1 => g[i - 1] = f[i - 1]
        <5> SUFFICES ASSUME i # 1 PROVE g[i - 1] = f[i - 1]
          OBVIOUS
        <5>1. i - 1 \in 1 .. k /\ i - 1 < k
          BY <2>2, <3>0
        <5> QED BY <5>1
      <4> HIDE DEF g
      <4> QED BY <3>2, <4>1, <4>2
    <3>3. i < k \/ i = k
      BY <3>0, <2>2
    <3> HIDE DEF g
    <3> QED BY <3>1, <3>2, <3>3
  <2>6. IsChain(h, n, g, k)
    <3>1. g = [i \in 1 .. k |-> g[i]]
      OBVIOUS
    <3> HIDE DEF g
    <3> QED BY <3>1, <2>5 DEF IsChain
  <2> HIDE DEF g
  <2> QED BY <2>2, <2>6
<1>3. N \notin S
  BY <1>2
<1> QED BY <1>3

\* The walk of find_fit along a list starts at its head and follows next.
LEMMA ChainIs ==
    ASSUME NEW h, Linked(h), IsFiniteSet(DOMAIN h.link), NEW n \in Lists,
           NEW c, c = Chain(h, n), NEW N, N = Cardinality(DOMAIN h.link)
    PROVE  /\ N \in Nat /\ DOMAIN c = 1 .. N
           /\ \A i \in 1 .. N : c[i] = IF i = 1 THEN h.head[n]
                                      ELSE IF c[i - 1] = NULL THEN NULL
                                      ELSE h.link[c[i - 1]].next
<1>1. N \in Nat
  BY FS_CardinalityType
<1>2. \E f : IsChain(h, n, f, N)
  BY <1>1, ChainExists
<1>3. c = CHOOSE f : IsChain(h, n, f, N)
  BY DEF Chain, IsChain
<1>4. IsChain(h, n, c, N)
  BY <1>2, <1>3
<1> QED BY <1>1, <1>4 DEF IsChain

\* The chain of list n visits blocks of list n, and prev leads back along it.
LEMMA ChainBlocks ==
    ASSUME NEW h, Linked(h), IsFiniteSet(DOMAIN h.link), NEW n \in Lists,
           NEW c, c = Chain(h, n), NEW i \in DOMAIN c, c[i] # NULL
    PROVE  /\ c[i] \in DOMAIN h.link /\ Where(h, c[i]) = n
           /\ h.link[c[i]].prev = IF i = 1 THEN NULL ELSE c[i - 1]
           /\ i # 1 => i - 1 \in DOMAIN c /\ c[i - 1] # NULL /\ h.link[c[i - 1]].next = c[i]
<1> DEFINE D == DOMAIN h.link
           N == Cardinality(D)
<1>1. /\ N \in Nat /\ DOMAIN c = 1 .. N
      /\ \A j \in 1 .. N : c[j] = IF j = 1 THEN h.head[n]
                                 ELSE IF c[j - 1] = NULL THEN NULL
                                 ELSE h.link[c[j - 1]].next
  <2>1. ASSUME NEW K, K = Cardinality(DOMAIN h.link)
        PROVE  /\ K \in Nat /\ DOMAIN c = 1 .. K
               /\ \A j \in 1 .. K : c[j] = IF j = 1 THEN h.head[n]
                                          ELSE IF c[j - 1] = NULL THEN NULL
                                          ELSE h.link[c[j - 1]].next
    BY <2>1, ChainIs
  <2>2. N = Cardinality(DOMAIN h.link)
    OBVIOUS
  <2> HIDE DEF N, D
  <2> QED BY ONLY <2>1, <2>2
<1> HIDE DEF N
<1> DEFINE Bad == {j \in 1 .. N : c[j] # NULL /\ ~ (c[j] \in D /\ Where(h, c[j]) = n)}
<1>2. ASSUME Bad # {} PROVE FALSE
  <2> DEFINE j == Least(Bad)
  <2>1. j \in Bad /\ \A m \in Bad : j <= m
    <3>1. Bad \subseteq Nat
      BY <1>1
    <3> HIDE DEF Bad
    <3> QED BY <3>1, <1>2, LeastIs
  <2>2. j \in 1 .. N /\ c[j] # NULL /\ ~ (c[j] \in D /\ Where(h, c[j]) = n)
    BY <2>1
  <2>3. j # 1
    <3>1. h.head[n] # NULL => h.head[n] \in D /\ Where(h, h.head[n]) = n
      BY DEF Linked
    <3> HIDE DEF j, D
    <3> QED BY <3>1, <2>2, <1>1
  <2> HIDE DEF j
  <2>4. j - 1 \in 1 .. N /\ j - 1 < j
    BY <2>2, <2>3, <1>1
  <2>5. c[j - 1] # NULL /\ c[j] = h.link[c[j - 1]].next
    BY <1>1, <2>2, <2>3
  <2>6. j - 1 \notin Bad
    <3>1. \A m \in Bad : m \in Int /\ j <= m
      BY <2>1, <1>1
    <3> HIDE DEF Bad
    <3> QED BY <3>1, <2>4, <2>2
  <2>7. c[j - 1] \in D /\ Where(h, c[j - 1]) = n
    BY <2>4, <2>5, <2>6
  <2>8. c[j] \in D /\ Where(h, c[j]) = Where(h, c[j - 1])
    BY <2>2, <2>5, <2>7 DEF Linked
  <2> QED BY <2>2, <2>7, <2>8
<1>3. c[i] \in D /\ Where(h, c[i]) = n /\ i \in 1 .. N
  BY <1>1, <1>2
<1>4. CASE i = 1
  <2>1. c[i] = h.head[n]
    BY <1>1, <1>3, <1>4
  <2> QED BY <2>1, <1>3, <1>4 DEF Linked
<1>5. CASE i # 1
  <2>1. i - 1 \in 1 .. N
    BY <1>1, <1>3, <1>5
  <2>2. c[i - 1] # NULL /\ c[i] = h.link[c[i - 1]].next
    BY <1>1, <1>3, <1>5
  <2>3. c[i - 1] \in D
    BY <1>2, <2>1, <2>2
  <2>4. h.link[c[i]].prev = c[i - 1]
    BY <2>2, <2>3 DEF Linked
  <2> QED BY <1>1, <1>3, <1>5, <2>1, <2>2, <2>4
<1> QED BY <1>4, <1>5

\* No block comes twice: what a list must not return to is rank.
LEMMA ChainFalls ==
    ASSUME NEW h, Linked(h), IsFiniteSet(DOMAIN h.link), NEW n \in Lists,
           NEW c, c = Chain(h, n),
           NEW rank \in [DOMAIN h.link -> Nat],
           \A a \in DOMAIN h.link : h.link[a].next # NULL => rank[h.link[a].next] < rank[a],
           NEW i \in DOMAIN c, NEW j \in DOMAIN c, i < j, c[j] # NULL
    PROVE  c[i] # NULL /\ rank[c[j]] < rank[c[i]]
<1> DEFINE D == DOMAIN h.link
           N == Cardinality(D)
<1>1. N \in Nat /\ DOMAIN c = 1 .. N
  BY ChainIs
<1> HIDE DEF N
<1> DEFINE Bad == {k \in 1 .. N : i < k /\ c[k] # NULL /\ ~ (c[i] # NULL /\ rank[c[k]] < rank[c[i]])}
<1>2. ASSUME Bad # {} PROVE FALSE
  <2> DEFINE k == Least(Bad)
  <2>1. k \in Bad /\ \A m \in Bad : k <= m
    <3>1. Bad \subseteq Nat
      BY <1>1
    <3> HIDE DEF Bad
    <3> QED BY <3>1, <1>2, LeastIs
  <2>2. k \in 1 .. N /\ i < k /\ c[k] # NULL /\ ~ (c[i] # NULL /\ rank[c[k]] < rank[c[i]])
    BY <2>1
  <2> HIDE DEF k
  <2>3. i \in 1 .. N /\ k # 1 /\ k - 1 \in 1 .. N /\ k - 1 < k /\ i <= k - 1
    BY <1>1, <2>2
  <2>4. /\ c[k] \in D /\ c[k - 1] # NULL /\ h.link[c[k - 1]].next = c[k]
    <3>1. k \in DOMAIN c /\ k # 1 /\ c[k] # NULL
      BY <1>1, <2>2, <2>3
    <3> QED BY <3>1, ChainBlocks
  <2>5. c[k - 1] \in D
    BY <1>1, <2>3, <2>4, ChainBlocks
  <2>6. rank[c[k]] < rank[c[k - 1]]
    BY <2>2, <2>4, <2>5
  <2>7. rank[c[k]] \in Nat /\ rank[c[k - 1]] \in Nat
    BY <2>4, <2>5
  <2>8. CASE i = k - 1
    BY <2>2, <2>4, <2>6, <2>8
  <2>9. CASE i < k - 1
    <3>1. k - 1 \notin Bad
      <4>1. \A m \in Bad : m \in Int /\ k <= m
        BY <2>1, <1>1
      <4> HIDE DEF Bad
      <4> QED BY <4>1, <2>2, <2>3
    <3>2. c[i] # NULL /\ rank[c[k - 1]] < rank[c[i]]
      BY <3>1, <2>3, <2>4, <2>9
    <3>3. c[i] \in D
      BY <1>1, <2>3, <3>2, ChainBlocks
    <3>4. rank[c[i]] \in Nat
      BY <3>3
    <3>5. rank[c[k]] < rank[c[i]]
      BY <3>2, <3>4, <2>6, <2>7
    <3> QED BY <3>2, <3>5, <2>2
  <2> QED BY <2>3, <2>8, <2>9, <1>1, <2>2
<1> QED BY <1>1, <1>2

\* Every block of list n is on its chain.
LEMMA ChainAll ==
    ASSUME NEW h, Linked(h), Ordered(h), IsFiniteSet(DOMAIN h.link), NEW n \in Lists,
           NEW c, c = Chain(h, n), NEW p \in DOMAIN h.link, Where(h, p) = n
    PROVE  \E i \in DOMAIN c : c[i] = p
<1> DEFINE D == DOMAIN h.link
           N == Cardinality(D)
<1>1. /\ N \in Nat /\ DOMAIN c = 1 .. N
      /\ \A j \in 1 .. N : c[j] = IF j = 1 THEN h.head[n]
                                 ELSE IF c[j - 1] = NULL THEN NULL
                                 ELSE h.link[c[j - 1]].next
  BY ChainIs
<1>2. PICK rank \in [D -> Nat] : \A a \in D :
        h.link[a].next # NULL => rank[h.link[a].next] < rank[a]
  BY DEF Ordered
<1>3. N >= 1
  <2>1. N # 0
    BY FS_EmptySet
  <2> QED BY <2>1, <1>1
<1>4. IsFiniteSet(1 .. N) /\ Cardinality(1 .. N) = N
  <2>1. \A a, b \in Int : /\ IsFiniteSet(a .. b)
                          /\ Cardinality(a .. b) = IF a > b THEN 0 ELSE b - a + 1
    BY FS_Interval
  <2> HIDE DEF N
  <2>2. PICK z \in Int : z = 1
    OBVIOUS
  <2>3. IsFiniteSet(z .. N) /\ Cardinality(z .. N) = IF z > N THEN 0 ELSE N - z + 1
    <3>1. N \in Int
      BY <1>1
    <3> QED BY <2>1, <3>1
  <2> QED BY <2>2, <2>3, <1>1, <1>3
\* A chain that fills all its places holds every free block.
<1>5. ASSUME c[N] # NULL
      PROVE  \A a \in D : \E i \in 1 .. N : c[i] = a
  <2>1. N \in DOMAIN c
    BY <1>1, <1>3
  <2>2. \A i \in 1 .. N : c[i] # NULL
    <3> TAKE i \in 1 .. N
    <3>1. CASE i = N
      BY <3>1, <1>5
    <3>2. CASE i # N
      <4>1. i \in DOMAIN c /\ i < N
        BY <3>2, <1>1
      <4> HIDE DEF N
      <4> QED BY <4>1, <2>1, <1>2, <1>5, ChainFalls
    <3> QED BY <3>1, <3>2
  <2>3. \A i \in 1 .. N : c[i] \in D
    BY <1>1, <2>2, ChainBlocks
  <2>4. ASSUME NEW i \in 1 .. N, NEW j \in 1 .. N, c[i] = c[j]
        PROVE  i = j
    <3>1. \A k, m \in 1 .. N : k < m => c[k] # c[m]
      <4> SUFFICES ASSUME NEW k \in 1 .. N, NEW m \in 1 .. N, k < m
                   PROVE  c[k] # c[m]
        OBVIOUS
      <4>1. rank[c[m]] < rank[c[k]]
        BY <1>1, <1>2, <2>2, ChainFalls
      <4>2. rank[c[m]] \in Nat /\ rank[c[k]] \in Nat
        BY <1>2, <2>3
      <4> QED BY <4>1, <4>2
    <3> HIDE DEF N
    <3>2. i \in Int /\ j \in Int
      BY <1>1
    <3> QED BY <3>1, <3>2, <2>4
  <2>5. c \in [1 .. N -> D]
    <3>1. IsChain(h, n, c, N)
      <4>1. \E f : IsChain(h, n, f, N)
        BY <1>1, ChainExists
      <4>2. c = CHOOSE f : IsChain(h, n, f, N)
        BY DEF Chain, IsChain
      <4> QED BY <4>1, <4>2
    <3>2. c = [i \in 1 .. N |-> c[i]]
      BY <3>1 DEF IsChain
    <3> HIDE DEF N, D
    <3> QED BY <3>2, <2>3
  <2>6. c \in Injection(1 .. N, D)
    <3> HIDE DEF N, D
    <3> QED BY <2>4, <2>5, <1>1 DEF Injection, IsInjective
  <2>7. c \in Surjection(1 .. N, D)
    <3>1. Cardinality(1 .. N) = Cardinality(D)
      BY <1>4
    <3> HIDE DEF N
    <3> QED BY <2>6, <3>1, FS_Injection
  <2> QED BY <2>7 DEF Surjection
<1> HIDE DEF N
<1> DEFINE Off      == {a \in D : Where(h, a) = n /\ \A i \in 1 .. N : c[i] # a}
           above(a) == {b \in Off : rank[a] < rank[b]}
<1>6. ASSUME NEW a \in Off
      PROVE  /\ h.link[a].prev \in Off /\ rank[a] < rank[h.link[a].prev]
             /\ rank[a] \in Nat /\ rank[h.link[a].prev] \in Nat
  <2> DEFINE b == h.link[a].prev
  <2>1. a \in D /\ Where(h, a) = n /\ \A i \in 1 .. N : c[i] # a
    OBVIOUS
  <2>2. b # NULL
    <3>1. b = NULL => h.head[n] = a
      BY <2>1 DEF Linked
    <3>2. c[1] = h.head[n] /\ 1 \in 1 .. N
      BY <1>1, <1>3
    <3> QED BY <3>1, <3>2, <2>1
  <2>3. b \in D /\ h.link[b].next = a /\ Where(h, b) = n
    BY <2>1, <2>2 DEF Linked
  <2>4. a # NULL
    BY <2>1 DEF Linked, NULL
  <2>5. \A i \in 1 .. N : c[i] # b
    <3> SUFFICES ASSUME NEW i \in 1 .. N, c[i] = b PROVE FALSE
      OBVIOUS
    <3>1. CASE i = N
      BY <3>1, <1>5, <2>1, <2>2
    <3>2. CASE i # N
      <4>1. i + 1 \in 1 .. N /\ i + 1 # 1 /\ (i + 1) - 1 = i
        BY <3>2, <1>1
      <4>2. c[i + 1] = h.link[c[i]].next
        <5> HIDE DEF b, D
        <5> QED BY <4>1, <1>1, <2>2
      <4> QED BY <4>1, <4>2, <2>1, <2>3
    <3> QED BY <3>1, <3>2
  <2>6. rank[a] < rank[b] /\ rank[a] \in Nat /\ rank[b] \in Nat
    BY <1>2, <2>1, <2>3, <2>4
  <2> QED BY <2>1, <2>3, <2>5, <2>6
<1>7. \A a \in Off : IsFiniteSet(above(a)) /\ Cardinality(above(a)) \in Nat
  <2> TAKE a \in Off
  <2> DEFINE A == above(a)
  <2>1. A \subseteq D
    OBVIOUS
  <2> HIDE DEF A
  <2>2. IsFiniteSet(A)
    BY <2>1, FS_Subset
  <2> QED BY <2>2, FS_CardinalityType DEF A
<1>8. ASSUME Off # {} PROVE FALSE
  <2> DEFINE counts == {Cardinality(above(a)) : a \in Off}
             k      == Least(counts)
  <2>1. k \in counts /\ \A m \in counts : k <= m
    <3>1. counts \subseteq Nat /\ counts # {}
      BY <1>7, <1>8
    <3> HIDE DEF counts
    <3> QED BY <3>1, LeastIs
  <2>2. PICK a \in Off : k = Cardinality(above(a))
    BY <2>1
  <2> DEFINE b == h.link[a].prev
             A == above(a)
             B == above(b)
  <2>3. /\ b \in Off /\ rank[a] < rank[b] /\ rank[a] \in Nat /\ rank[b] \in Nat
    BY <1>6
  <2>4. k <= Cardinality(B)
    BY <2>1, <2>3
  <2>5. B \subseteq A
    <3>1. \A x \in Off : rank[x] \in Nat
      BY <1>6
    <3> HIDE DEF Off
    <3> QED BY <2>3, <3>1
  <2>6. b \in A /\ b \notin B
    <3> HIDE DEF Off
    <3> QED BY <2>3
  <2>7. IsFiniteSet(A) /\ Cardinality(A) \in Nat /\ Cardinality(B) \in Nat
    BY <1>7, <2>3
  <2>8. k = Cardinality(A)
    BY <2>2
  <2> HIDE DEF A, B, k
  <2>9. /\ Cardinality(B) <= Cardinality(A)
        /\ Cardinality(A) = Cardinality(B) => A = B
    BY <2>5, <2>7, FS_Subset
  <2> QED BY <2>4, <2>6, <2>7, <2>8, <2>9
<1> QED BY <1>1, <1>8
-----------------------------------------------------------------------------
(***************************************************************************)
(* The operations on a well-formed heap.  Loose is what it is while block  *)
(* p, which is free, is not yet in a list.                                 *)
(***************************************************************************)
Shape(h) == IsHeap(h) /\ Tiles(h) /\ Linked(h) /\ Ordered(h)
Good(h)  == Shape(h) /\ DOMAIN h.link = FreeBlocks(h)
Loose(h, p) == Shape(h) /\ p \in FreeBlocks(h) /\ DOMAIN h.link = FreeBlocks(h) \ {p}

\* remove_seg_free_list takes one block out of its list and leaves the others linked.
LEMMA TakenOut ==
    ASSUME NEW h, Good(h), NEW p \in FreeBlocks(h), NEW g, g = remove_seg_free_list(h, p)
    PROVE  /\ Loose(g, p) /\ Used(g) = Used(h) /\ g.end = h.end
           /\ g.header = h.header /\ g.footer = h.footer
<1>1. /\ IsHeap(h) /\ Tiles(h) /\ Linked(h) /\ Ordered(h) /\ DOMAIN h.link = FreeBlocks(h)
  BY DEF Good, Shape
<1>2. /\ IsHeap(g) /\ g.end = h.end /\ g.header = h.header /\ g.footer = h.footer
      /\ DOMAIN g.link = DOMAIN h.link \ {p}
      /\ Linked(g) /\ (Ordered(h) => Ordered(g))
  BY <1>1, Removed
<1>3. FreeBlocks(g) = FreeBlocks(h) /\ Used(g) = Used(h)
  BY <1>2 DEF FreeBlocks, Used, Blocks, End
<1>4. Tiles(g)
  BY <1>1, <1>2 DEF Tiles, Blocks, End
<1> QED BY <1>1, <1>2, <1>3, <1>4 DEF Loose, Shape

\* insert_seg_free_list puts one more block into its list, and leaves the others linked.
LEMMA PutIn ==
    ASSUME NEW h, NEW p, Loose(h, p), NEW g, g = insert_seg_free_list(h, p)
    PROVE  Good(g) /\ Used(g) = Used(h) /\ g.end = h.end /\ FreeBlocks(g) = FreeBlocks(h)
<1>1. /\ IsHeap(h) /\ Tiles(h) /\ Linked(h) /\ Ordered(h)
      /\ p \in FreeBlocks(h) /\ DOMAIN h.link = FreeBlocks(h) \ {p}
  BY DEF Loose, Shape
<1>2. p \in Blocks(h) /\ p \in Nat /\ p \notin DOMAIN h.link
  BY <1>1, BlockIs DEF FreeBlocks
<1>3. /\ IsHeap(g) /\ g.end = h.end /\ g.header = h.header /\ g.footer = h.footer
      /\ DOMAIN g.link = DOMAIN h.link \cup {p}
      /\ Linked(g) /\ (Ordered(h) => Ordered(g))
  BY <1>1, <1>2, Inserted
<1>4. FreeBlocks(g) = FreeBlocks(h) /\ Used(g) = Used(h)
  BY <1>3 DEF FreeBlocks, Used, Blocks, End
<1>5. Tiles(g)
  BY <1>1, <1>3 DEF Tiles, Blocks, End
<1> QED BY <1>1, <1>3, <1>4, <1>5 DEF Good, Shape

\* What is in use is seen block by block.
LEMMA UsedSame ==
    ASSUME NEW h, NEW g, DOMAIN Used(g) = DOMAIN Used(h),
           \A a \in DOMAIN Used(h) : Used(g)[a] = Used(h)[a]
    PROVE  Used(g) = Used(h)
BY DEF Used

\* A free block joined with the free block after it.
LEMMA JoinedHigher ==
    ASSUME NEW h, NEW p, Loose(h, p), NEW g, g = coalescing_with_higher_address(h, p)
    PROVE  Loose(g, p) /\ Used(g) = Used(h) /\ g.end = h.end
<1> DEFINE next == End(h, p)
<1>1. /\ IsHeap(h) /\ Tiles(h) /\ Linked(h) /\ Ordered(h)
      /\ p \in FreeBlocks(h) /\ DOMAIN h.link = FreeBlocks(h) \ {p}
  BY DEF Loose, Shape
<1>2. p \in Blocks(h) /\ h.header[p].allocated = 0
  BY <1>1 DEF FreeBlocks
<1>3. CASE next = h.end \/ h.header[next].allocated = 1
  <2>1. g = h
    BY <1>3 DEF coalescing_with_higher_address, End, Size
  <2> QED BY <2>1
<1>4. CASE ~ (next = h.end \/ h.header[next].allocated = 1)
  <2> DEFINE f    == remove_seg_free_list(h, next)
             both == h.header[p].size + h.header[next].size
  <2>1. g = write_block(f, p, both, 0, 0, 0)
    BY <1>4 DEF coalescing_with_higher_address, End, Size
  <2>2. next \in Blocks(h)
    BY <1>1, <1>2, <1>4 DEF Tiles
  <2>3. /\ p \in Nat /\ next \in Nat /\ p < next /\ p # next
        /\ h.header[next].allocated \in {0, 1}
        /\ End(h, next) = next + h.header[next].size /\ next = p + h.header[p].size
        /\ h.header[p].size \in Nat /\ h.header[next].size \in Nat
    BY <1>1, <1>2, <2>2, BlockIs
  <2>4. h.header[next].allocated = 0
    BY <1>4, <2>3
  <2> HIDE DEF next
  <2>5. next \in DOMAIN h.link
    BY <1>1, <2>2, <2>3, <2>4 DEF FreeBlocks
  <2>6. /\ IsHeap(f) /\ f.end = h.end /\ f.header = h.header /\ f.footer = h.footer
        /\ DOMAIN f.link = DOMAIN h.link \ {next}
        /\ Linked(f) /\ Ordered(f)
    BY <1>1, <2>5, Removed
  <2> HIDE DEF f
  <2>7. Tiles(f) /\ Blocks(f) = Blocks(h) /\ \A a : End(f, a) = End(h, a)
    BY <1>1, <2>6 DEF Tiles, Blocks, End
  <2>8. both = End(f, next) - p /\ p <= next
    <3> DEFINE s == h.header[p].size
               r == h.header[next].size
    <3>1. /\ End(f, next) = next + r /\ next = p + s /\ s \in Nat /\ r \in Nat /\ p \in Nat
          /\ both = s + r /\ p < next /\ next \in Nat
      BY <2>3, <2>7
    <3> HIDE DEF s, r, both
    <3> QED BY <3>1
  <2> HIDE DEF both
  <2>9. /\ Tiles(g) /\ IsHeap(g) /\ g.end = f.end /\ g.link = f.link /\ g.head = f.head
        /\ Blocks(g) = {a \in Blocks(f) : a <= p \/ next < a}
        /\ \A a \in Blocks(g) : a # p => /\ g.header[a] = f.header[a]
                                         /\ End(g, a) = End(f, a)
                                         /\ g.footer[End(f, a)] = f.footer[End(f, a)]
        /\ g.header[p] = [size |-> both, allocated |-> 0, padded |-> 0]
    <3>1. p \in Blocks(f) /\ next \in Blocks(f)
      BY <1>2, <2>2, <2>7
    <3>2. PICK z \in Nat : z = 0 /\ z \in {0, 1}
      OBVIOUS
    <3>3. g = write_block(f, p, both, z, z, z)
      BY <2>1, <3>2
    <3>4. Overwritten(f, p, next, both, z, z, z, g)
      <4>1. Overwrites(f, p, next, both, z, z, z, g)
        BY <2>6, <2>7, <2>8, <3>1, <3>2, <3>3 DEF Overwrites
      <4> QED BY <4>1, WrittenOver
    <3> QED BY <3>2, <3>4 DEF Overwritten
  <2>10. Blocks(g) = Blocks(h) \ {next}
    <3>1. ASSUME NEW a \in Blocks(h)
          PROVE  (a <= p \/ next < a) <=> a # next
      <4>1. a \in Nat /\ (p < a /\ a < next => FALSE)
        <5>1. CASE a = p
          BY <5>1, <2>3
        <5>2. CASE a # p
          BY <5>2, <1>1, <1>2, Apart, BlockIs DEF next
        <5> QED BY <5>1, <5>2
      <4> QED BY <4>1, <2>3
    <3> QED BY <3>1, <2>7, <2>9
  <2>11. FreeBlocks(g) = FreeBlocks(h) \ {next} /\ p \in FreeBlocks(g)
    <3>1. \A a \in Blocks(g) : g.header[a].allocated = h.header[a].allocated
      BY <1>2, <2>6, <2>9
    <3> QED BY <3>1, <1>1, <2>3, <2>10 DEF FreeBlocks
  <2>12. Linked(g) /\ Ordered(g)
    <3>1. DOMAIN f.link \subseteq Blocks(g)
      BY <1>1, <2>6, <2>10 DEF FreeBlocks
    <3>2. \A a \in DOMAIN f.link : g.header[a].size = f.header[a].size
      BY <3>1, <1>1, <2>6, <2>9
    <3> QED BY <3>1, <3>2, <2>6, <2>9, LinkedSame
  <2>13. Used(g) = Used(h)
    <3>1. DOMAIN Used(g) = DOMAIN Used(h)
      <4>1. \A a \in Blocks(g) : g.header[a].allocated = h.header[a].allocated
        BY <1>2, <2>6, <2>9
      <4> QED BY <4>1, <2>4, <2>10 DEF Used
    <3>2. \A a \in DOMAIN Used(h) : Used(g)[a] = Used(h)[a]
      <4> TAKE a \in DOMAIN Used(h)
      <4>1. a \in Blocks(g) /\ a # p /\ a \in DOMAIN Used(g)
        BY <3>1, <1>2, <2>4, <2>10 DEF Used
      <4>2. g.header[a] = h.header[a] /\ g.footer[End(g, a)] = h.footer[End(h, a)]
        BY <4>1, <2>6, <2>7, <2>9
      <4> QED BY <4>1, <4>2 DEF Used
    <3> QED BY <3>1, <3>2, UsedSame
  <2> QED BY <1>1, <2>6, <2>9, <2>11, <2>12, <2>13 DEF Loose, Shape
<1> QED BY <1>3, <1>4

\* A free block joined with the free block before it, if there is one.
LEMMA JoinedLower ==
    ASSUME NEW h, Good(h), NEW p \in FreeBlocks(h), p # 0,
           NEW g, g = coalescing_with_lower_address(h, p)
    PROVE  Good(g) /\ Used(g) = Used(h) /\ g.end = h.end
<1>1. Tiles(h) /\ p \in Blocks(h)
  BY DEF Good, Shape, FreeBlocks
<1>2. PICK q \in Blocks(h) : p = End(h, q) /\ h.footer[p].size = h.header[q].size
  <2>1. p \in DOMAIN h.footer
    BY <1>1 DEF Tiles
  <2>2. PICK q \in Blocks(h) : p = End(h, q)
    BY <1>1, <2>1 DEF Tiles
  <2> QED BY <1>1, <2>2 DEF Tiles
<1>3. q = p - h.footer[p].size /\ h.header[q].allocated \in {0, 1}
  <2> DEFINE s == h.header[q].size
  <2>1. /\ p = q + s /\ q \in Nat /\ s \in Nat /\ h.footer[p].size = s
        /\ h.header[q].allocated \in {0, 1}
    BY <1>1, <1>2, BlockIs
  <2> HIDE DEF s
  <2> QED BY <2>1
<1>4. CASE h.header[q].allocated # 0
  <2>1. g = h
    BY <1>3, <1>4 DEF coalescing_with_lower_address
  <2> QED BY <2>1
<1>5. CASE h.header[q].allocated = 0
  <2> DEFINE out    == remove_seg_free_list(h, q)
             joined == coalescing_with_higher_address(out, q)
  <2>1. g = insert_seg_free_list(joined, q)
    BY <1>3, <1>5 DEF coalescing_with_lower_address
  <2>2. q \in FreeBlocks(h)
    BY <1>5 DEF FreeBlocks
  <2>3. Loose(out, q) /\ Used(out) = Used(h) /\ out.end = h.end
    BY <2>2, TakenOut
  <2> HIDE DEF out
  <2>4. Loose(joined, q) /\ Used(joined) = Used(out) /\ joined.end = out.end
    BY <2>3, JoinedHigher
  <2> HIDE DEF joined
  <2>5. Good(g) /\ Used(g) = Used(joined) /\ g.end = joined.end
    BY <2>1, <2>4, PutIn
  <2> QED BY <2>3, <2>4, <2>5
<1> QED BY <1>4, <1>5

\* A heap that is extended keeps what is in use.
LEMMA Grown ==
    ASSUME NEW h, Good(h), NEW g, g = extend_heap(h)
    PROVE  Good(g) /\ Used(g) = Used(h) /\ g.end = h.end + PageSize
<1> DEFINE w    == write_block([h EXCEPT !.end = @ + PageSize], h.end, PageSize, 0, 0, 0)
           page == insert_seg_free_list(w, h.end)
<1>1. /\ IsHeap(h) /\ Tiles(h) /\ Linked(h) /\ Ordered(h) /\ DOMAIN h.link = FreeBlocks(h)
  BY DEF Good, Shape
<1>2. g = IF h.end = 0 THEN page ELSE coalescing_with_lower_address(page, h.end)
  BY DEF extend_heap
<1>3. /\ Tiles(w) /\ IsHeap(w) /\ w.end = h.end + PageSize
      /\ w.link = h.link /\ w.head = h.head
      /\ Blocks(w) = Blocks(h) \cup {h.end} /\ h.end \notin Blocks(h)
      /\ \A a \in Blocks(h) : /\ w.header[a] = h.header[a]
                              /\ End(w, a) = End(h, a)
                              /\ w.footer[End(h, a)] = h.footer[End(h, a)]
      /\ w.header[h.end] = [size |-> PageSize, allocated |-> 0, padded |-> 0]
  BY <1>1, GrowIs
<1> HIDE DEF w
<1>4. FreeBlocks(w) = FreeBlocks(h) \cup {h.end} /\ h.end \notin FreeBlocks(h)
  BY <1>3 DEF FreeBlocks
<1>5. Linked(w) /\ Ordered(w)
  <2>1. DOMAIN h.link \subseteq Blocks(w) /\ DOMAIN h.link \subseteq Blocks(h)
    BY <1>1, <1>3 DEF FreeBlocks
  <2>2. \A a \in DOMAIN h.link : w.header[a].size = h.header[a].size
    BY <2>1, <1>3
  <2> QED BY <1>1, <1>3, <2>1, <2>2, LinkedSame
<1>6. Loose(w, h.end)
  BY <1>1, <1>3, <1>4, <1>5 DEF Loose, Shape
<1>7. Used(w) = Used(h)
  <2>1. DOMAIN Used(w) = DOMAIN Used(h)
    BY <1>3 DEF Used
  <2>2. \A a \in DOMAIN Used(h) : Used(w)[a] = Used(h)[a]
    <3> TAKE a \in DOMAIN Used(h)
    <3>1. a \in Blocks(h) /\ a \in DOMAIN Used(w)
      BY <2>1 DEF Used
    <3>2. w.header[a] = h.header[a] /\ w.footer[End(w, a)] = h.footer[End(h, a)]
      BY <3>1, <1>3
    <3> QED BY <3>1, <3>2 DEF Used
  <2> QED BY <2>1, <2>2, UsedSame
<1>8. Good(page) /\ Used(page) = Used(w) /\ page.end = w.end /\ FreeBlocks(page) = FreeBlocks(w)
  BY <1>6, PutIn
<1> HIDE DEF page
<1>9. h.end # 0 => LET j == coalescing_with_lower_address(page, h.end)
                   IN  Good(j) /\ Used(j) = Used(page) /\ j.end = page.end
  BY <1>4, <1>8, JoinedLower
<1> QED BY <1>2, <1>3, <1>7, <1>8, <1>9

\* A block that is freed is no longer in use, and no other changes.
LEMMA Freed ==
    ASSUME NEW h, Good(h), NEW p \in DOMAIN Used(h), NEW g, g = Free(h, p)
    PROVE  /\ Good(g) /\ g.end = h.end /\ DOMAIN Used(g) = DOMAIN Used(h) \ {p}
           /\ \A a \in DOMAIN Used(g) : Used(g)[a] = Used(h)[a]
<1> DEFINE size   == h.header[p].size
           w      == write_block(h, p, size, 0, 0, 0)
           joined == coalescing_with_higher_address(w, p)
<1>1. /\ IsHeap(h) /\ Tiles(h) /\ Linked(h) /\ Ordered(h) /\ DOMAIN h.link = FreeBlocks(h)
  BY DEF Good, Shape
<1>2. p \in Blocks(h) /\ h.header[p].allocated = 1
  BY DEF Used
<1>3. g = insert_seg_free_list(joined, p)
  BY DEF Free, Size
<1>4. size = End(h, p) - p /\ p <= p
  <2>1. size \in Nat /\ p \in Nat /\ End(h, p) = p + size
    BY <1>1, <1>2, BlockIs
  <2> HIDE DEF size
  <2> QED BY <2>1
<1> HIDE DEF size
<1>5. /\ Tiles(w) /\ IsHeap(w) /\ w.end = h.end /\ w.link = h.link /\ w.head = h.head
      /\ Blocks(w) = {a \in Blocks(h) : a <= p \/ p < a}
      /\ \A a \in Blocks(w) : a # p => /\ w.header[a] = h.header[a]
                                       /\ End(w, a) = End(h, a)
                                       /\ w.footer[End(h, a)] = h.footer[End(h, a)]
      /\ w.header[p] = [size |-> size, allocated |-> 0, padded |-> 0]
  <2>1. PICK z \in Nat : z = 0 /\ z \in {0, 1}
    OBVIOUS
  <2>2. w = write_block(h, p, size, z, z, z)
    BY <2>1
  <2> HIDE DEF w
  <2>3. Overwritten(h, p, p, size, z, z, z, w)
    <3>1. Overwrites(h, p, p, size, z, z, z, w)
      BY <1>1, <1>2, <1>4, <2>1, <2>2 DEF Overwrites
    <3> QED BY <3>1, WrittenOver
  <2> QED BY <2>1, <2>3 DEF Overwritten
<1> HIDE DEF w
<1>6. Blocks(w) = Blocks(h)
  <2>1. \A a \in Blocks(h) : a \in Nat
    BY <1>1, BlockIs
  <2> QED BY <2>1, <1>2, <1>5
<1>7. FreeBlocks(w) = FreeBlocks(h) \cup {p} /\ p \notin FreeBlocks(h)
  BY <1>2, <1>5, <1>6 DEF FreeBlocks
<1>8. Linked(w) /\ Ordered(w)
  <2>1. DOMAIN h.link \subseteq Blocks(w) /\ p \notin DOMAIN h.link
    BY <1>1, <1>6, <1>7 DEF FreeBlocks
  <2>2. \A a \in DOMAIN h.link : w.header[a].size = h.header[a].size
    BY <2>1, <1>5
  <2> QED BY <1>1, <1>5, <2>1, <2>2, LinkedSame
<1>9. Loose(w, p)
  BY <1>1, <1>5, <1>7, <1>8 DEF Loose, Shape
<1>10. DOMAIN Used(w) = DOMAIN Used(h) \ {p} /\ \A a \in DOMAIN Used(w) : Used(w)[a] = Used(h)[a]
  <2>1. DOMAIN Used(w) = DOMAIN Used(h) \ {p}
    BY <1>5, <1>6 DEF Used
  <2>2. ASSUME NEW a \in DOMAIN Used(w) PROVE Used(w)[a] = Used(h)[a]
    <3>1. a \in Blocks(w) /\ a # p /\ a \in DOMAIN Used(h)
      BY <2>1 DEF Used
    <3>2. w.header[a] = h.header[a] /\ w.footer[End(w, a)] = h.footer[End(h, a)]
      BY <3>1, <1>5
    <3> QED BY <3>1, <3>2 DEF Used
  <2> QED BY <2>1, <2>2
<1>11. Loose(joined, p) /\ Used(joined) = Used(w) /\ joined.end = w.end
  BY <1>9, JoinedHigher
<1> HIDE DEF joined
<1>12. Good(g) /\ Used(g) = Used(joined) /\ g.end = joined.end
  BY <1>3, <1>11, PutIn
<1> QED BY <1>5, <1>10, <1>11, <1>12

\* The block of a request holds it, and has less than 16 bytes more.
LEMMA RowsIs ==
    ASSUME NEW size \in Nat
    PROVE  /\ Rows(size) \in Nat /\ Rows(size) > 0 /\ Rows(size) % 16 = 0
           /\ Rows(size) - 16 - size \in 0 .. 15
           /\ Rows(size) # size + 16 => Padded(size) = 1
           /\ Padded(size) \in {0, 1}
           /\ \A old \in Nat : old % 16 = 0 /\ old >= size + 32 => Rows(size) < old
<1>1. CASE size % 16 = 0
  <2>1. Rows(size) = size + 16 /\ Padded(size) = 0
    BY <1>1 DEF Rows, Padded
  <2> QED BY <1>1, <2>1
<1>2. CASE size % 16 # 0
  <2>1. Rows(size) = (size \div 16) * 16 + 32 /\ Padded(size) = 1
    BY <1>2 DEF Rows, Padded
  <2> DEFINE k == size \div 16
             r == size % 16
  <2>2. size = k * 16 + r /\ k \in Nat /\ r \in 1 .. 15
    BY <1>2
  <2>3. Rows(size) = k * 16 + 32
    BY <2>1
  <2> HIDE DEF k, r
  <2>4. /\ Rows(size) \in Nat /\ Rows(size) > 0 /\ Rows(size) % 16 = 0
        /\ Rows(size) - 16 - size \in 0 .. 15
    BY <2>2, <2>3
  <2>5. ASSUME NEW old \in Nat, old % 16 = 0, old >= size + 32
        PROVE  Rows(size) < old
    <3> DEFINE j == old \div 16
    <3>1. old = j * 16 /\ j \in Nat
      BY <2>5
    <3> HIDE DEF j
    <3> QED BY <2>2, <2>3, <2>5, <3>1
  <2> QED BY <2>1, <2>4, <2>5
<1> QED BY <1>1, <1>2

\* A block in use, as its tags u tell, holds a request: it was given for size bytes.
Holds(u, size) ==
    /\ u.header.size - 16 - size \in 0 .. 31
    /\ u.footer.requested = size /\ u.footer.size = u.header.size
    /\ u.footer.allocated = 1 /\ u.footer.padded = u.header.padded
    /\ u.footer.requested + 16 # u.footer.size => u.footer.padded = 1

\* What becomes of h when block p is given whole to a request, but stays in its list.
GivenWhole(h, p, size, g) ==
    /\ Blocks(g) = Blocks(h) /\ Holds(Used(g)[p], size) /\ p \in DOMAIN Used(g)
    /\ DOMAIN Used(g) = DOMAIN Used(h) \cup {p}
    /\ \A a \in DOMAIN Used(h) : a # p => Used(g)[a] = Used(h)[a]
    /\ Tiles(g) /\ IsHeap(g) /\ g.end = h.end /\ g.link = h.link /\ g.head = h.head
    /\ \A a \in Blocks(h) : g.header[a].size = h.header[a].size
    /\ FreeBlocks(g) = FreeBlocks(h) \ {p}

\* place gives a block that is too small to split as it is.
LEMMA WholeHolds ==
    ASSUME NEW h, Tiles(h), NEW p \in Blocks(h), NEW size \in Nat,
           h.header[p].size >= size + 16, NEW padded \in {0, 1}, NEW g,
           h.header[p].size # size + 16 => padded = 1, h.header[p].size <= size + 47,
           Overwrites(h, p, p, h.header[p].size, size, 1, padded, g)
    PROVE  GivenWhole(h, p, size, g)
<1> DEFINE old == h.header[p].size
<1>1. old \in Nat /\ size + 16 <= old /\ old <= size + 47 /\ (old # size + 16 => padded = 1)
  BY BlockIs
<1>2. Overwritten(h, p, p, old, size, 1, padded, g)
  BY WrittenOver
<1> HIDE DEF old
<1>3. /\ Tiles(g)
      /\ Blocks(g) = {a \in Blocks(h) : a <= p \/ p < a}
      /\ \A a \in Blocks(g) : a # p => /\ g.header[a] = h.header[a]
                                       /\ End(g, a) = End(h, a)
                                       /\ g.footer[End(h, a)] = h.footer[End(h, a)]
      /\ IsHeap(g) /\ g.end = h.end /\ g.link = h.link /\ g.head = h.head
      /\ g.header[p] = [size |-> old, allocated |-> 1, padded |-> padded]
      /\ g.footer[End(g, p)] = [size |-> old, allocated |-> 1, padded |-> padded,
                                requested |-> size]
  BY <1>2 DEF Overwritten
<1>4. Blocks(g) = Blocks(h)
  <2>1. \A a \in Blocks(h) : a \in Nat
    BY BlockIs
  <2> QED BY <2>1, <1>3
<1>5. p \in DOMAIN Used(g) /\ DOMAIN Used(g) = DOMAIN Used(h) \cup {p}
  BY <1>3, <1>4 DEF Used
<1>6. Used(g)[p] = [header |-> g.header[p], footer |-> g.footer[End(g, p)]]
  BY <1>5 DEF Used
<1>7. Holds(Used(g)[p], size)
  <2>1. old - 16 - size \in 0 .. 31
    BY <1>1
  <2> QED BY <2>1, <1>1, <1>3, <1>6 DEF Holds
<1>8. ASSUME NEW a \in DOMAIN Used(h), a # p
      PROVE  Used(g)[a] = Used(h)[a]
  <2>1. a \in Blocks(g) /\ a \in DOMAIN Used(g)
    BY <1>4, <1>5 DEF Used
  <2>2. g.header[a] = h.header[a] /\ g.footer[End(g, a)] = h.footer[End(h, a)]
    BY <2>1, <1>3, <1>8
  <2> QED BY <2>1, <2>2 DEF Used
<1>9. \A a \in Blocks(h) : g.header[a].size = h.header[a].size
  BY <1>3, <1>4 DEF old
<1>10. FreeBlocks(g) = FreeBlocks(h) \ {p}
  BY <1>3, <1>4 DEF FreeBlocks
<1> QED BY <1>3, <1>4, <1>5, <1>7, <1>8, <1>9, <1>10 DEF GivenWhole

\* What becomes of h when the first rows of block p are given to a request, and the
\* rest, at m, is a block too.
GivenRows(h, p, size, m, allocated, g) ==
    /\ Shape(g) /\ g.end = h.end /\ DOMAIN g.link = DOMAIN h.link
    /\ Blocks(g) = Blocks(h) \cup {m} /\ m \notin Blocks(h)
    /\ Holds(Used(g)[p], size) /\ p \in DOMAIN Used(g)
    /\ g.header[m].allocated = allocated /\ g.header[p].allocated = 1
    /\ \A a \in Blocks(h) \ {p} : g.header[a] = h.header[a]
    /\ \A a \in DOMAIN Used(h) : a # p => a \in DOMAIN Used(g) /\ Used(g)[a] = Used(h)[a]

\* place and sf_realloc give the first rows of a block, and the rest is a block again.
LEMMA FirstRowsHold ==
    ASSUME NEW h, Shape(h), NEW p \in Blocks(h), NEW size \in Nat,
           h.header[p].size >= size + 32, p \notin DOMAIN h.link,
           NEW m, m = p + Rows(size), NEW allocated \in {0, 1},
           NEW requested \in Nat, NEW padded \in {0, 1}, NEW g,
           g = write_block(write_block(h, p, Rows(size), size, 1, Padded(size)),
                           m, h.header[p].size - Rows(size), requested, allocated, padded)
    PROVE  GivenRows(h, p, size, m, allocated, g)
<1> DEFINE block == Rows(size)
           old   == h.header[p].size
           rest  == old - block
           f     == write_block(h, p, block, size, 1, Padded(size))
           e     == End(h, p)
<1>1. IsHeap(h) /\ Tiles(h) /\ Linked(h) /\ Ordered(h)
  BY DEF Shape
<1>2. /\ block \in Nat /\ block > 0 /\ block % 16 = 0
      /\ block - 16 - size \in 0 .. 15
      /\ block # size + 16 => Padded(size) = 1
      /\ Padded(size) \in {0, 1} /\ block < old
  <2>1. old \in Nat /\ old % 16 = 0 /\ old >= size + 32
    BY <1>1, BlockIs
  <2> HIDE DEF old
  <2> QED BY <2>1, RowsIs
<1>3. m < e
  <2>1. p \in Nat /\ old \in Nat /\ e = p + old
    BY <1>1, BlockIs
  <2>2. m = p + block
    OBVIOUS
  <2> HIDE DEF old, e, block
  <2> QED BY <2>1, <2>2, <1>2
<1>4. g = write_block(f, m, rest, requested, allocated, padded) /\ m = p + block
  OBVIOUS
<1> HIDE DEF block, f, rest
<1>5. Splits(h, p, block, m, rest, size, 1, Padded(size), requested, allocated, padded, f, g)
  BY <1>1, <1>2, <1>3, <1>4 DEF Splits, f, rest
<1>6. SplitInto(h, p, block, m, rest, size, 1, Padded(size), requested, allocated, padded, g)
  BY <1>5, SplitIs
<1>7. /\ Tiles(g) /\ IsHeap(g) /\ g.end = h.end /\ g.link = h.link /\ g.head = h.head
      /\ Blocks(g) = Blocks(h) \cup {m} /\ m \notin Blocks(h) /\ m # p
      /\ \A a \in Blocks(h) : a # p => /\ g.header[a] = h.header[a]
                                       /\ End(g, a) = End(h, a)
                                       /\ g.footer[End(h, a)] = h.footer[End(h, a)]
      /\ End(g, p) = m /\ End(g, m) = End(h, p)
      /\ g.header[p] = [size |-> block, allocated |-> 1, padded |-> Padded(size)]
      /\ g.footer[m] = [size |-> block, allocated |-> 1, padded |-> Padded(size),
                        requested |-> size]
      /\ g.header[m] = [size |-> rest, allocated |-> allocated, padded |-> padded]
  BY <1>6 DEF SplitInto
<1>8. Linked(g) /\ Ordered(g)
  <2>1. DOMAIN h.link \subseteq Blocks(h)
    BY <1>1 DEF Linked
  <2>2. \A a \in DOMAIN h.link : g.header[a].size = h.header[a].size
    BY <2>1, <1>7
  <2>3. DOMAIN h.link \subseteq Blocks(g)
    BY <2>1, <1>7
  <2>4. g.link = h.link /\ g.head = h.head
    BY <1>7
  <2> QED BY ONLY <1>1, <2>2, <2>3, <2>4, LinkedSame
<1>9. p \in DOMAIN Used(g)
  <2>1. p \in Blocks(g)
    BY <1>7
  <2>2. g.header[p] = [size |-> block, allocated |-> 1, padded |-> Padded(size)]
    BY <1>7
  <2>3. g.header[p].allocated = 1
    BY ONLY <2>2
  <2> QED BY ONLY <2>1, <2>3 DEF Used
<1>10. Holds(Used(g)[p], size)
  <2>1. Used(g)[p] = [header |-> g.header[p], footer |-> g.footer[m]]
    BY <1>7, <1>9 DEF Used
  <2>2. block - 16 - size \in 0 .. 31
    BY <1>2
  <2> DEFINE u == Used(g)[p]
  <2>3. /\ u.header.size = block /\ u.header.padded = Padded(size)
        /\ u.footer.requested = size /\ u.footer.size = block
        /\ u.footer.allocated = 1 /\ u.footer.padded = Padded(size)
    <3>1. /\ g.header[p] = [size |-> block, allocated |-> 1, padded |-> Padded(size)]
          /\ g.footer[m] = [size |-> block, allocated |-> 1, padded |-> Padded(size),
                            requested |-> size]
      BY <1>7
    <3> QED BY ONLY <2>1, <3>1
  <2> HIDE DEF u
  <2>4. Holds(u, size)
    BY <2>2, <2>3, <1>2 DEF Holds
  <2> QED BY <2>4 DEF u
<1>11. ASSUME NEW a \in DOMAIN Used(h), a # p
       PROVE  a \in DOMAIN Used(g) /\ Used(g)[a] = Used(h)[a]
  <2>1. a \in Blocks(h) /\ h.header[a].allocated = 1
    BY DEF Used
  <2>2. g.header[a] = h.header[a] /\ g.footer[End(g, a)] = h.footer[End(h, a)]
    BY <2>1, <1>7, <1>11
  <2>3. a \in DOMAIN Used(g)
    BY <2>1, <2>2, <1>7 DEF Used
  <2> QED BY <2>2, <2>3 DEF Used
<1>12. /\ DOMAIN g.link = DOMAIN h.link /\ g.header[p].allocated = 1
       /\ g.header[m].allocated = allocated
  <2>1. /\ g.link = h.link
        /\ g.header[p] = [size |-> block, allocated |-> 1, padded |-> Padded(size)]
        /\ g.header[m] = [size |-> rest, allocated |-> allocated, padded |-> padded]
    BY <1>7
  <2> QED BY ONLY <2>1
<1>13. Shape(g)
  BY <1>7, <1>8 DEF Shape
<1>14. \A a \in Blocks(h) \ {p} : g.header[a] = h.header[a]
  BY <1>7
<1>15. g.end = h.end /\ Blocks(g) = Blocks(h) \cup {m} /\ m \notin Blocks(h)
  BY <1>7
<1> QED BY ONLY <1>9, <1>10, <1>11, <1>12, <1>13, <1>14, <1>15 DEF GivenRows

\* What is in use in g is what is in use in h, and block p for a request.
Given(h, p, size, g) ==
    /\ p \notin DOMAIN Used(h) /\ DOMAIN Used(g) = DOMAIN Used(h) \cup {p}
    /\ Holds(Used(g)[p], size)
    /\ \A a \in DOMAIN Used(h) : Used(g)[a] = Used(h)[a]

\* malloc takes a free block that is large enough into use for the request.
LEMMA Placed ==
    ASSUME NEW h, Good(h), NEW p \in FreeBlocks(h), NEW size \in Nat,
           h.header[p].size >= size + 16, NEW g, g = place(h, p, size)
    PROVE  Good(g) /\ g.end = h.end /\ Given(h, p, size, g)
<1> DEFINE old   == h.header[p].size
           block == Rows(size)
           m     == p + block
           taken == remove_seg_free_list(h, p)
           w     == write_block(h, p, old, size, 1, 1)
           rest  == write_block(write_block(taken, p, block, size, 1, Padded(size)),
                                m, old - block, 0, 0, 0)
<1>1. /\ IsHeap(h) /\ Tiles(h) /\ Linked(h) /\ Ordered(h) /\ DOMAIN h.link = FreeBlocks(h)
  BY DEF Good, Shape
<1>2. p \in Blocks(h) /\ h.header[p].allocated = 0 /\ old \in Nat /\ old >= size + 16
  BY <1>1, BlockIs DEF FreeBlocks
<1>3. p \notin DOMAIN Used(h)
  BY <1>2 DEF Used
<1>4. g = IF old < size + 32 THEN remove_seg_free_list(w, p) ELSE insert_seg_free_list(rest, m)
  BY DEF place, Size
<1>5. CASE old < size + 32
  <2>1. Overwrites(h, p, p, old, size, 1, 1, w)
    <3>1. old = End(h, p) - p /\ p <= p
      <4>1. p \in Nat /\ End(h, p) = p + old
        BY <1>1, <1>2, BlockIs
      <4> HIDE DEF old
      <4> QED BY <4>1, <1>2
    <3>2. 1 \in {0, 1}
      OBVIOUS
    <3> QED BY <3>1, <3>2, <1>1, <1>2 DEF Overwrites
  <2> HIDE DEF w
  <2>2. /\ Blocks(w) = Blocks(h) /\ Holds(Used(w)[p], size) /\ p \in DOMAIN Used(w)
        /\ DOMAIN Used(w) = DOMAIN Used(h) \cup {p}
        /\ \A a \in DOMAIN Used(h) : a # p => Used(w)[a] = Used(h)[a]
        /\ Tiles(w) /\ IsHeap(w) /\ w.end = h.end /\ w.link = h.link /\ w.head = h.head
        /\ \A a \in Blocks(h) : w.header[a].size = h.header[a].size
        /\ FreeBlocks(w) = FreeBlocks(h) \ {p}
    <3>1. old <= size + 47
      <4> HIDE DEF old
      <4> QED BY <1>2, <1>5
    <3>2. PICK z \in {0, 1} : z = 1
      OBVIOUS
    <3>3. Overwrites(h, p, p, h.header[p].size, size, 1, z, w)
      BY <2>1, <3>2
    <3>4. h.header[p].size <= size + 47 /\ h.header[p].size >= size + 16
      BY <3>1, <1>2
    <3>5. GivenWhole(h, p, size, w)
      BY <3>2, <3>3, <3>4, <1>1, <1>2, WholeHolds
    <3> QED BY <3>5 DEF GivenWhole
  <2>3. Linked(w) /\ Ordered(w)
    <3>1. DOMAIN h.link \subseteq Blocks(w)
      BY <1>1, <2>2 DEF FreeBlocks
    <3>2. \A a \in DOMAIN h.link : w.header[a].size = h.header[a].size
      BY <3>1, <2>2
    <3> QED BY <3>1, <3>2, <1>1, <2>2, LinkedSame
  <2>4. g = remove_seg_free_list(w, p) /\ p \in DOMAIN w.link
    BY <1>1, <1>4, <1>5, <2>2
  <2>5. /\ IsHeap(g) /\ g.end = w.end /\ g.header = w.header /\ g.footer = w.footer
        /\ DOMAIN g.link = DOMAIN w.link \ {p}
        /\ Linked(g) /\ Ordered(g)
    BY <2>2, <2>3, <2>4, Removed
  <2>6. Tiles(g) /\ Used(g) = Used(w) /\ FreeBlocks(g) = FreeBlocks(w)
    <3>1. Tiles(w) /\ g.end = w.end /\ g.header = w.header /\ g.footer = w.footer
      BY <2>2, <2>5
    <3>2. Tiles(g)
      BY <3>1 DEF Tiles, Blocks, End
    <3> QED BY <3>1, <3>2 DEF Used, FreeBlocks, Blocks, End
  <2>7. Good(g)
    BY <1>1, <2>2, <2>5, <2>6 DEF Good, Shape
  <2> QED BY <1>3, <2>2, <2>5, <2>6, <2>7 DEF Given
<1>6. CASE ~ (old < size + 32)
  <2>1. Loose(taken, p) /\ Used(taken) = Used(h) /\ taken.end = h.end /\ taken.header = h.header
    BY TakenOut
  <2> HIDE DEF taken
  <2>2. /\ Shape(taken) /\ DOMAIN taken.link = FreeBlocks(taken) \ {p} /\ p \in Blocks(taken)
        /\ FreeBlocks(taken) = FreeBlocks(h) /\ Blocks(taken) = Blocks(h)
    BY <1>2, <2>1 DEF Loose, FreeBlocks, Blocks
  <2>3. /\ Shape(rest) /\ rest.end = taken.end /\ DOMAIN rest.link = DOMAIN taken.link
        /\ Blocks(rest) = Blocks(taken) \cup {m} /\ m \notin Blocks(taken)
        /\ Holds(Used(rest)[p], size) /\ p \in DOMAIN Used(rest)
        /\ rest.header[m].allocated = 0 /\ rest.header[p].allocated = 1
        /\ \A a \in Blocks(taken) \ {p} : rest.header[a] = taken.header[a]
        /\ \A a \in DOMAIN Used(taken) : a # p => a \in DOMAIN Used(rest)
                                                  /\ Used(rest)[a] = Used(taken)[a]
    <3>1. PICK z \in {0, 1} : z = 0 /\ z \in Nat
      OBVIOUS
    <3>2. taken.header[p].size >= size + 32 /\ p \notin DOMAIN taken.link
      <4>1. taken.header[p].size = old
        BY <2>1
      <4> HIDE DEF old
      <4> QED BY <4>1, <1>2, <1>6, <2>2
    <3>3. rest = write_block(write_block(taken, p, Rows(size), size, 1, Padded(size)),
                             m, taken.header[p].size - Rows(size), z, z, z)
      BY <2>1, <3>1
    <3>4. m = p + Rows(size)
      OBVIOUS
    <3> HIDE DEF rest, m
    <3>5. GivenRows(taken, p, size, m, z, rest)
      BY <2>2, <3>1, <3>2, <3>3, <3>4, FirstRowsHold
    <3> QED BY <3>1, <3>5 DEF GivenRows
  <2> HIDE DEF rest
  <2>4. FreeBlocks(rest) = (FreeBlocks(h) \ {p}) \cup {m} /\ m \notin FreeBlocks(h)
    <3> HIDE DEF m
    <3>1. \A a \in Blocks(h) : a # p => rest.header[a] = h.header[a]
      BY <2>1, <2>2, <2>3
    <3> QED BY <2>2, <2>3, <3>1, <1>2 DEF FreeBlocks
  <2>5. Loose(rest, m)
    <3> HIDE DEF m
    <3> QED BY <2>2, <2>3, <2>4 DEF Loose
  <2>6. DOMAIN Used(rest) = DOMAIN Used(h) \cup {p}
    <3> HIDE DEF m
    <3>1. \A a \in Blocks(h) : a # p => rest.header[a] = h.header[a]
      BY <2>1, <2>2, <2>3
    <3> QED BY <2>2, <2>3, <3>1, <1>2 DEF Used
  <2>7. \A a \in DOMAIN Used(h) : Used(rest)[a] = Used(h)[a]
    BY <1>3, <2>1, <2>3
  <2>8. g = insert_seg_free_list(rest, m)
    BY <1>4, <1>6
  <2> HIDE DEF m
  <2>9. Good(g) /\ Used(g) = Used(rest) /\ g.end = rest.end
    BY <2>5, <2>8, PutIn
  <2> QED BY <1>3, <2>1, <2>3, <2>6, <2>7, <2>9 DEF Given
<1> QED BY <1>5, <1>6

\* realloc to less keeps the block, and frees the rest if there is enough of it.
LEMMA Shrunk ==
    ASSUME NEW h, Good(h), NEW p \in DOMAIN Used(h), NEW size \in Nat,
           h.header[p].size >= size + 16, NEW g, g = Shrink(h, p, size)
    PROVE  /\ Good(g) /\ g.end = h.end /\ DOMAIN Used(g) = DOMAIN Used(h)
           /\ Holds(Used(g)[p], size)
           /\ \A a \in DOMAIN Used(h) : a # p => Used(g)[a] = Used(h)[a]
<1> DEFINE old   == h.header[p].size
           block == Rows(size)
           m     == p + block
           mid   == write_block(write_block(h, p, block, size, 1, Padded(size)),
                                m, old - block, 1, 1, 1)
<1>1. /\ IsHeap(h) /\ Tiles(h) /\ Linked(h) /\ Ordered(h) /\ DOMAIN h.link = FreeBlocks(h)
  BY DEF Good, Shape
<1>2. p \in Blocks(h) /\ h.header[p].allocated = 1 /\ old \in Nat /\ old >= size + 16
  BY <1>1, BlockIs DEF Used
<1>3. p \notin FreeBlocks(h)
  BY <1>2 DEF FreeBlocks
<1>4. g = IF old - 16 = size THEN write_block(h, p, old, size, 1, Padded(size))
          ELSE IF old - 16 - size < 32 THEN write_block(h, p, old, size, 1, 1)
          ELSE Free(mid, m)
  BY DEF Shrink, Size
<1>5. ASSUME NEW padded \in {0, 1}, g = write_block(h, p, old, size, 1, padded),
             old # size + 16 => padded = 1, old <= size + 47
      PROVE  /\ Good(g) /\ g.end = h.end /\ DOMAIN Used(g) = DOMAIN Used(h)
             /\ Holds(Used(g)[p], size)
             /\ \A a \in DOMAIN Used(h) : a # p => Used(g)[a] = Used(h)[a]
  <2>1. Overwrites(h, p, p, old, size, 1, padded, g)
    <3>1. old = End(h, p) - p /\ p <= p
      <4>1. p \in Nat /\ End(h, p) = p + old
        BY <1>1, <1>2, BlockIs
      <4> HIDE DEF old
      <4> QED BY <4>1, <1>2
    <3>2. 1 \in {0, 1}
      OBVIOUS
    <3> HIDE DEF old
    <3> QED BY <3>1, <3>2, <1>1, <1>2, <1>5 DEF Overwrites
  <2>2. GivenWhole(h, p, size, g)
    BY <2>1, <1>1, <1>2, <1>5, WholeHolds
  <2>3. /\ Blocks(g) = Blocks(h) /\ Holds(Used(g)[p], size)
        /\ DOMAIN Used(g) = DOMAIN Used(h) \cup {p}
        /\ \A a \in DOMAIN Used(h) : a # p => Used(g)[a] = Used(h)[a]
        /\ Tiles(g) /\ IsHeap(g) /\ g.end = h.end /\ g.link = h.link /\ g.head = h.head
        /\ \A a \in Blocks(h) : g.header[a].size = h.header[a].size
        /\ FreeBlocks(g) = FreeBlocks(h) \ {p}
    BY <2>2 DEF GivenWhole
  <2>4. Linked(g) /\ Ordered(g)
    <3>1. DOMAIN h.link \subseteq Blocks(g)
      BY <1>1, <2>3 DEF FreeBlocks
    <3>2. \A a \in DOMAIN h.link : g.header[a].size = h.header[a].size
      BY <3>1, <2>3
    <3> QED BY <3>1, <3>2, <1>1, <2>3, LinkedSame
  <2>5. Good(g)
    BY <1>1, <1>3, <2>3, <2>4 DEF Good, Shape
  <2> QED BY <2>3, <2>5
<1>6. CASE old - 16 = size
  <2>1. old = size + 16 /\ old <= size + 47
    <3> HIDE DEF old
    <3> QED BY <1>2, <1>6
  <2>2. Padded(size) \in {0, 1}
    BY DEF Padded
  <2>3. g = write_block(h, p, old, size, 1, Padded(size))
    BY <1>4, <1>6
  <2> HIDE DEF old
  <2> QED BY <1>5, <2>1, <2>2, <2>3
<1>7. CASE old - 16 # size /\ old - 16 - size < 32
  <2>1. old <= size + 47
    <3> HIDE DEF old
    <3> QED BY <1>2, <1>7
  <2>2. PICK z \in {0, 1} : z = 1
    OBVIOUS
  <2>3. g = write_block(h, p, old, size, 1, z)
    BY <1>4, <1>7, <2>2
  <2> HIDE DEF old
  <2> QED BY <1>5, <2>1, <2>2, <2>3
<1>8. CASE ~ (old - 16 - size < 32)
  <2>1. h.header[p].size >= size + 32 /\ old - 16 # size
    <3>1. old >= size + 32 /\ old - 16 # size
      <4> HIDE DEF old
      <4> QED BY <1>2, <1>8
    <3> QED BY <3>1
  <2>2. PICK z \in {0, 1} : z = 1 /\ z \in Nat
    OBVIOUS
  <2>3. mid = write_block(write_block(h, p, Rows(size), size, 1, Padded(size)),
                          m, h.header[p].size - Rows(size), z, z, z)
    BY <2>2
  <2>4. m = p + Rows(size) /\ g = Free(mid, m)
    BY <1>4, <1>8, <2>1
  <2> HIDE DEF mid, m
  <2>5. GivenRows(h, p, size, m, z, mid)
    BY <1>1, <1>2, <1>3, <2>1, <2>2, <2>3, <2>4, FirstRowsHold DEF Shape
  <2>6. /\ Shape(mid) /\ mid.end = h.end /\ DOMAIN mid.link = DOMAIN h.link
        /\ Blocks(mid) = Blocks(h) \cup {m} /\ m \notin Blocks(h)
        /\ Holds(Used(mid)[p], size) /\ p \in DOMAIN Used(mid)
        /\ mid.header[m].allocated = 1 /\ mid.header[p].allocated = 1
        /\ \A a \in Blocks(h) \ {p} : mid.header[a] = h.header[a]
        /\ \A a \in DOMAIN Used(h) : a # p => a \in DOMAIN Used(mid)
                                              /\ Used(mid)[a] = Used(h)[a]
    BY <2>2, <2>5 DEF GivenRows
  <2>7. FreeBlocks(mid) = FreeBlocks(h)
    BY <1>2, <2>6 DEF FreeBlocks
  <2>8. Good(mid)
    BY <1>1, <2>6, <2>7 DEF Good
  <2>9. DOMAIN Used(mid) = DOMAIN Used(h) \cup {m} /\ m \in DOMAIN Used(mid) /\ m # p
    BY <1>2, <2>6 DEF Used
  <2>10. /\ Good(g) /\ g.end = mid.end /\ DOMAIN Used(g) = DOMAIN Used(mid) \ {m}
         /\ \A a \in DOMAIN Used(g) : Used(g)[a] = Used(mid)[a]
    <3>1. g = Free(mid, m) /\ m \in DOMAIN Used(mid)
      BY <2>4, <2>9
    <3> QED BY <3>1, <2>8, Freed
  <2>11. m \notin DOMAIN Used(h)
    BY <2>6 DEF Used
  <2> QED BY <2>6, <2>9, <2>10, <2>11
<1> QED BY <1>6, <1>7, <1>8
-----------------------------------------------------------------------------
(***************************************************************************)
(* Finding a block, and extending the heap until there is one.             *)
(***************************************************************************)
LEMMA FreeIsFinite == ASSUME NEW h, Tiles(h) PROVE IsFiniteSet(FreeBlocks(h))
<1> DEFINE F == FreeBlocks(h)
<1>1. F \subseteq Nat /\ h.end \in Nat /\ \A p \in F : p <= h.end
  <2>1. h.end \in Nat
    BY DEF Tiles
  <2>2. \A p \in Blocks(h) : p \in Nat /\ p <= h.end
    BY BlockIs
  <2> QED BY <2>1, <2>2 DEF FreeBlocks
<1> HIDE DEF F
<1>2. IsFiniteSet(F)
  BY <1>1, FS_BoundedSetOfNaturals
<1> QED BY <1>2 DEF F

\* The lists of larger sizes come later.
LEMMA ListsInOrder ==
    ASSUME NEW a \in Nat, NEW b \in Nat, ListMin <= a, a <= b
    PROVE  ListOf(a) <= ListOf(b)
<1> DEFINE A == {n \in 0 .. 2 : ListMax[n] < a}
           B == {n \in 0 .. 2 : ListMax[n] < b}
<1>1. A \subseteq B /\ B \subseteq 0 .. 2
  BY SfmmAssumption
<1>2. ListOf(a) = Cardinality(A) /\ ListOf(b) = Cardinality(B)
  BY SfmmAssumption DEF ListOf
<1>3. IsFiniteSet(0 .. 2)
  <2>1. \A i, j \in Int : IsFiniteSet(i .. j)
    BY FS_Interval
  <2>2. PICK i \in Int, j \in Int : i = 0 /\ j = 2
    OBVIOUS
  <2> QED BY <2>1, <2>2
<1> HIDE DEF A, B
<1>4. IsFiniteSet(B)
  BY <1>1, <1>3, FS_Subset
<1>5. Cardinality(A) <= Cardinality(B)
  BY <1>1, <1>4, FS_Subset
<1> QED BY <1>2, <1>5

\* find_fit finds a free block that is large enough, or there is none.
LEMMA FoundIs ==
    ASSUME NEW h, Good(h), NEW size \in Nat, NEW p, p = find_fit(h, size)
    PROVE  /\ p # NULL => p \in FreeBlocks(h) /\ h.header[p].size >= size + 16
           /\ p = NULL => \A q \in FreeBlocks(h) : h.header[q].size < size + 16
<1> DEFINE asize == size + 16
           from  == IF asize < ListMin THEN 0 ELSE ListOf(asize)
           found == {n \in from .. 3 : Fits(h, n, asize) # {}}
           n     == Least(found)
<1>1. /\ IsHeap(h) /\ Tiles(h) /\ Linked(h) /\ Ordered(h) /\ DOMAIN h.link = FreeBlocks(h)
  BY DEF Good, Shape
<1>2. IsFiniteSet(DOMAIN h.link)
  BY <1>1, FreeIsFinite
<1>3. p = IF found = {} THEN NULL ELSE Chain(h, n)[Least(Fits(h, n, asize))]
  BY DEF find_fit
<1>4. asize \in Nat /\ from \in 0 .. 3
  BY ListsOfSizes DEF Lists
<1> HIDE DEF asize, from
<1>5. \A k \in Lists : Fits(h, k, asize) =
        {i \in DOMAIN Chain(h, k) : /\ Chain(h, k)[i] # NULL
                                    /\ h.header[Chain(h, k)[i]].allocated = 0
                                    /\ h.header[Chain(h, k)[i]].size >= asize}
  BY DEF Fits, Size
<1>6. CASE found # {}
  <2>1. n \in found
    <3>1. found \subseteq Nat
      BY <1>4
    <3> HIDE DEF found
    <3> QED BY <3>1, <1>6, LeastIs
  <2>2. n \in Lists /\ Fits(h, n, asize) # {}
    BY <2>1, <1>4 DEF Lists
  <2> HIDE DEF n, found
  <2> DEFINE c == Chain(h, n)
             F == Fits(h, n, asize)
             i == Least(F)
  <2>3. DOMAIN c \subseteq Nat
    <3>1. \E N \in Nat : DOMAIN c = 1 .. N
      BY <1>1, <1>2, <2>2, ChainIs
    <3> HIDE DEF c
    <3> QED BY <3>1
  <2>4. i \in F
    <3>1. F \subseteq Nat
      BY <1>5, <2>2, <2>3
    <3> HIDE DEF F
    <3> QED BY <2>2, <3>1, LeastIs DEF F
  <2>5. i \in DOMAIN c /\ c[i] # NULL /\ h.header[c[i]].size >= asize
    BY <1>5, <2>2, <2>4
  <2>6. p = c[i]
    BY <1>3, <1>6
  <2> HIDE DEF c, i, F
  <2>7. c[i] \in DOMAIN h.link
    BY <1>1, <1>2, <2>2, <2>5, ChainBlocks DEF c
  <2>8. p # NULL
    BY <2>5, <2>6
  <2> QED BY <1>1, <2>5, <2>6, <2>7, <2>8 DEF asize
<1>7. CASE found = {}
  <2>1. p = NULL
    BY <1>3, <1>7
  <2>2. ASSUME NEW q \in FreeBlocks(h), h.header[q].size >= asize
        PROVE  FALSE
    <3> DEFINE s == h.header[q].size
               k == Where(h, q)
               c == Chain(h, k)
    <3>1. s \in Nat /\ h.header[q].allocated = 0 /\ q \in Blocks(h) /\ q \in Nat
      BY <1>1, BlockIs DEF FreeBlocks
    <3>2. k \in Lists /\ k = ListOf(s)
      BY ListsOfSizes DEF Where
    <3>3. k \in from .. 3
      <4>1. CASE asize < ListMin
        <5>1. from = 0
          BY <4>1 DEF from
        <5> HIDE DEF k
        <5> QED BY <5>1, <3>2 DEF Lists
      <4>2. CASE ~ (asize < ListMin)
        <5>1. from = ListOf(asize) /\ ListMin <= asize
          BY <4>2, <1>4, SfmmAssumption DEF from
        <5>2. asize <= s
          BY <1>4, <2>2, <3>1
        <5> HIDE DEF s
        <5>3. ListOf(asize) <= ListOf(s)
          BY <1>4, <3>1, <5>1, <5>2, ListsInOrder
        <5> HIDE DEF k
        <5> QED BY <1>4, <3>2, <5>1, <5>3 DEF Lists
      <4> QED BY <4>1, <4>2
    <3>4. \E i \in DOMAIN c : c[i] = q
      <4>1. q \in DOMAIN h.link
        BY <1>1
      <4> QED BY <1>1, <1>2, <3>2, <4>1, ChainAll
    <3>5. PICK i \in DOMAIN c : c[i] = q
      BY <3>4
    <3>6. q # NULL
      BY <3>1 DEF NULL
    <3>7. i \in Fits(h, k, asize)
      BY <1>5, <2>2, <3>1, <3>2, <3>5, <3>6
    <3>8. k \in found
      BY <3>3, <3>7
    <3> QED BY <3>8, <1>7
  <2>3. ASSUME NEW q \in FreeBlocks(h) PROVE h.header[q].size < asize
    <3> DEFINE s == h.header[q].size
    <3>1. s \in Nat
      BY <1>1, BlockIs DEF FreeBlocks
    <3>2. ~ (s >= asize)
      BY <2>2
    <3> HIDE DEF s
    <3>3. s < asize
      BY <3>1, <3>2, <1>4
    <3> QED BY <3>3 DEF s
  <2> QED BY <2>1, <2>3 DEF asize
<1> QED BY <1>6, <1>7

IsGrowth(h, f, N) == f = [n \in 0 .. N |-> IF n = 0 THEN h ELSE extend_heap(f[n - 1])]

\* The heap after n pages more is defined for every n.
LEMMA GrowthExists == \A h : \A N \in Nat : \E f : IsGrowth(h, f, N)
<1> SUFFICES ASSUME NEW h, NEW N \in Nat
             PROVE  \E f : IsGrowth(h, f, N)
  OBVIOUS
<1> DEFINE S == {k \in Nat : ~ \E f : IsGrowth(h, f, k)}
<1>1. S \subseteq Nat
  OBVIOUS
<1>2. ASSUME S # {} PROVE FALSE
  <2> DEFINE k == Least(S)
  <2>1. k \in S /\ \A m \in S : k <= m
    <3> HIDE DEF S
    <3> QED BY <1>1, <1>2, LeastIs
  <2>2. k \in Nat /\ ~ \E f : IsGrowth(h, f, k)
    BY <2>1
  <2> HIDE DEF k, S
  <2>3. k # 0
    <3> DEFINE f == [n \in {0} |-> h]
    <3>1. 0 .. 0 = {0}
      OBVIOUS
    <3>2. IsGrowth(h, f, 0)
      BY <3>1 DEF IsGrowth
    <3> QED BY <3>2, <2>2
  <2>4. PICK f : IsGrowth(h, f, k - 1)
    <3>1. k - 1 \in Nat /\ k - 1 \notin S
      BY <2>1, <2>2, <2>3
    <3> QED BY <3>1 DEF S
  <2> DEFINE g == [n \in 0 .. k |-> IF n < k THEN f[n] ELSE extend_heap(f[k - 1])]
  <2>5. \A n \in 0 .. k : g[n] = IF n = 0 THEN h ELSE extend_heap(g[n - 1])
    <3> TAKE n \in 0 .. k
    <3>0. n \in Nat /\ n <= k
      BY <2>2
    <3>1. n # 0 => g[n - 1] = f[n - 1]
      <4> SUFFICES ASSUME n # 0 PROVE g[n - 1] = f[n - 1]
        OBVIOUS
      <4>1. n - 1 \in 0 .. k /\ n - 1 < k
        BY <2>2, <3>0
      <4> QED BY <4>1
    <3>2. CASE n < k
      <4>1. n \in 0 .. k - 1
        BY <2>2, <3>0, <3>2
      <4>2. f[n] = IF n = 0 THEN h ELSE extend_heap(f[n - 1])
        BY <2>4, <4>1 DEF IsGrowth
      <4>3. g[n] = f[n]
        BY <3>2
      <4> HIDE DEF g
      <4> QED BY <3>1, <4>2, <4>3
    <3>3. CASE n = k
      <4>1. g[n] = extend_heap(f[n - 1])
        BY <3>3, <2>2
      <4> HIDE DEF g
      <4> QED BY <2>3, <3>1, <3>3, <4>1
    <3> QED BY <3>0, <3>2, <3>3, <2>2
  <2>6. IsGrowth(h, g, k)
    <3>1. g = [n \in 0 .. k |-> g[n]]
      OBVIOUS
    <3> HIDE DEF g
    <3> QED BY <3>1, <2>5 DEF IsGrowth
  <2> HIDE DEF g
  <2> QED BY <2>2, <2>6
<1>3. N \notin S
  BY <1>2
<1> QED BY <1>3

\* Each page is added to a well-formed heap, and takes nothing out of use.
LEMMA GrowthIs ==
    ASSUME NEW h, Good(h), NEW N \in Nat, NEW f, IsGrowth(h, f, N), NEW k \in Nat,
           h.end = k * PageSize, NEW n \in 0 .. N
    PROVE  Good(f[n]) /\ Used(f[n]) = Used(h) /\ f[n].end = (k + n) * PageSize
<1> DEFINE Right(i) == Good(f[i]) /\ Used(f[i]) = Used(h) /\ f[i].end = (k + i) * PageSize
           Bad      == {i \in 0 .. N : ~ Right(i)}
<1>1. f[0] = h /\ \A i \in 0 .. N : i # 0 => f[i] = extend_heap(f[i - 1])
  BY DEF IsGrowth
<1>2. ASSUME Bad # {} PROVE FALSE
  <2> DEFINE i == Least(Bad)
  <2>1. i \in Bad /\ \A m \in Bad : i <= m
    <3>1. Bad \subseteq Nat
      OBVIOUS
    <3> HIDE DEF Bad
    <3> QED BY <3>1, <1>2, LeastIs
  <2>2. i \in 0 .. N /\ ~ Right(i)
    BY <2>1
  <2> HIDE DEF i
  <2>3. i # 0
    <3>1. Right(0)
      <4>1. k + 0 = k
        OBVIOUS
      <4> QED BY <4>1, <1>1
    <3> HIDE DEF Right
    <3> QED BY <3>1, <2>2
  <2>4. i - 1 \in 0 .. N /\ i - 1 < i /\ i \in Nat
    BY <2>2, <2>3
  <2>5. Right(i - 1)
    <3>1. \A m \in Bad : m \in Int /\ i <= m
      BY <2>1
    <3>2. i - 1 \notin Bad
      <4> HIDE DEF Bad
      <4> QED BY <3>1, <2>4
    <3> QED BY <3>2, <2>4
  <2>6. f[i] = extend_heap(f[i - 1])
    BY <1>1, <2>2, <2>3
  <2>7. Good(f[i]) /\ Used(f[i]) = Used(f[i - 1]) /\ f[i].end = f[i - 1].end + PageSize
    BY <2>5, <2>6, Grown
  <2>8. f[i].end = (k + i) * PageSize
    <3>1. f[i - 1].end = (k + (i - 1)) * PageSize
      BY <2>5
    <3>2. PageSize \in Int
      BY SfmmAssumption
    <3>3. (k + (i - 1)) * PageSize + PageSize = (k + i) * PageSize
      BY <3>2, <2>4
    <3> QED BY <3>1, <3>3, <2>7
  <2> QED BY <2>2, <2>5, <2>7, <2>8
<1> QED BY <1>2

\* A heap of whole pages, and no more of them than there may be.
Paged(h) == \E k \in 0 .. MaxPages : h.end = k * PageSize

\* malloc extends the heap until a block fits, or there are no more pages.
LEMMA ExtendedIs ==
    ASSUME NEW h, Good(h), Paged(h), NEW size \in Nat, NEW g, g = Extended(h, size)
    PROVE  /\ Good(g) /\ Paged(g) /\ Used(g) = Used(h)
           /\ find_fit(g, size) = NULL => g.end = MaxHeap
<1> DEFINE left == (MaxHeap - h.end) \div PageSize
<1>1. PICK k \in 0 .. MaxPages : h.end = k * PageSize
  BY DEF Paged
<1>2. k \in Nat /\ MaxPages \in Nat /\ PageSize \in Nat /\ PageSize > 0 /\ k <= MaxPages
  BY SfmmAssumption
<1>3. left = MaxPages - k
  <2>1. MaxHeap - h.end = (MaxPages - k) * PageSize
    <3>1. PageSize * MaxPages - k * PageSize = (MaxPages - k) * PageSize
      BY <1>2
    <3> QED BY <3>1, <1>1 DEF MaxHeap
  <2>2. \A a, d \in Nat : d > 0 => (a * d) \div d = a
    OBVIOUS
  <2>3. MaxPages - k \in Nat
    BY <1>2
  <2> QED BY <1>2, <2>1, <2>2, <2>3
<1>4. left \in Nat
  BY <1>2, <1>3
<1> HIDE DEF left
<1> DEFINE after  == CHOOSE f : IsGrowth(h, f, left)
           enough == {n \in 0 .. left : find_fit(after[n], size) # NULL}
           n      == IF enough = {} THEN left ELSE Least(enough)
<1>5. g = after[n]
  BY DEF Extended, IsGrowth, left
<1>6. IsGrowth(h, after, left)
  BY <1>4, GrowthExists
<1> HIDE DEF after
<1>7. n \in 0 .. left /\ (find_fit(after[n], size) = NULL => n = left)
  <2>1. CASE enough = {}
    BY <2>1, <1>4
  <2>2. CASE enough # {}
    <3>1. enough \subseteq Nat
      BY <1>4
    <3> DEFINE S == enough
    <3>2. Least(S) \in S
      <4> HIDE DEF S
      <4> QED BY <2>2, <3>1, LeastIs DEF S
    <3> QED BY <2>2, <3>2
  <2> QED BY <2>1, <2>2
<1> HIDE DEF n
<1>8. Good(after[n]) /\ Used(after[n]) = Used(h) /\ after[n].end = (k + n) * PageSize
  BY <1>1, <1>2, <1>4, <1>6, <1>7, GrowthIs
<1>9. k + n \in 0 .. MaxPages /\ (n = left => k + n = MaxPages)
  BY <1>2, <1>3, <1>4, <1>7
<1>10. Paged(g)
  BY <1>5, <1>8, <1>9 DEF Paged
<1>11. n = left => g.end = MaxHeap
  <2>1. MaxPages * PageSize = PageSize * MaxPages
    BY <1>2
  <2> QED BY <2>1, <1>5, <1>8, <1>9 DEF MaxHeap
<1> QED BY <1>5, <1>7, <1>8, <1>10, <1>11

\* What malloc gives, and what it leaves of the heap.
LEMMA MallocIs ==
    ASSUME NEW h, Good(h), Paged(h), NEW size \in Nat, NEW errno,
           NEW m, m = Malloc(h, size, errno)
    PROVE  /\ Good(m.heap) /\ Paged(m.heap)
           /\ m.errno \in {errno, "EINVAL", "ENOMEM"}
           /\ m.block = NULL => Used(m.heap) = Used(h)
           /\ m.block = NULL /\ ~ Invalid(size) =>
                /\ m.heap.end = MaxHeap
                /\ \A q \in FreeBlocks(m.heap) : m.heap.header[q].size < size + 16
           /\ m.block # NULL => Given(h, m.block, size, m.heap)
<1> DEFINE g == m.heap
           p == m.block
<1> DEFINE e == Extended(h, size)
           b == find_fit(e, size)
<1>1. m = IF Invalid(size) THEN [heap |-> h, block |-> NULL, errno |-> "EINVAL"]
          ELSE IF b = NULL THEN [heap |-> e, block |-> NULL, errno |-> "ENOMEM"]
          ELSE [heap |-> place(e, b, size), block |-> b, errno |-> errno]
  BY DEF Malloc
<1> HIDE DEF b
<1>2. /\ Good(e) /\ Paged(e) /\ Used(e) = Used(h)
      /\ b = NULL => e.end = MaxHeap
  BY ExtendedIs DEF b
<1> HIDE DEF e
<1>3. /\ b # NULL => b \in FreeBlocks(e) /\ e.header[b].size >= size + 16
      /\ b = NULL => \A q \in FreeBlocks(e) : e.header[q].size < size + 16
  BY <1>2, FoundIs DEF b
<1>4. CASE Invalid(size)
  <2>1. m = [heap |-> h, block |-> NULL, errno |-> "EINVAL"]
    BY <1>1, <1>4
  <2>2. g = h /\ p = NULL /\ m.errno = "EINVAL"
    BY <2>1
  <2> QED BY <2>2, <1>4
<1>5. CASE ~ Invalid(size) /\ b = NULL
  <2>1. m = [heap |-> e, block |-> NULL, errno |-> "ENOMEM"]
    BY <1>1, <1>5
  <2>2. g = e /\ p = NULL /\ m.errno = "ENOMEM"
    BY <2>1
  <2> QED BY <2>2, <1>2, <1>3, <1>5
<1>6. CASE ~ Invalid(size) /\ b # NULL
  <2>1. m = [heap |-> place(e, b, size), block |-> b, errno |-> errno]
    BY <1>1, <1>6
  <2>2. g = place(e, b, size) /\ p = b /\ m.errno = errno
    BY <2>1
  <2>3. Good(g) /\ g.end = e.end /\ Given(e, b, size, g)
    <3>1. Good(e) /\ b \in FreeBlocks(e) /\ e.header[b].size >= size + 16
      BY <1>2, <1>3, <1>6
    <3>2. g = place(e, b, size)
      BY <2>2
    <3> HIDE DEF g
    <3> QED BY <3>1, <3>2, Placed
  <2>4. Paged(g)
    BY <2>3, <1>2 DEF Paged
  <2>5. Given(h, b, size, g)
    BY <2>3, <1>2 DEF Given
  <2> QED BY <2>2, <2>3, <2>4, <2>5, <1>2, <1>6
<1> QED BY <1>4, <1>5, <1>6
-----------------------------------------------------------------------------
(***************************************************************************)
(* The heap h and what callers hold of it, l: a block is in use exactly    *)
(* while a caller holds it, and holds what the caller asked for.           *)
(***************************************************************************)
Booked(h, l) ==
    /\ Good(h) /\ Paged(h) /\ DOMAIN l = DOMAIN Used(h)
    /\ \A p \in DOMAIN l : l[p] \in Sizes /\ Holds(Used(h)[p], l[p])

\* A block that sf_malloc returns was not held before, and is booked with the size asked for.
LEMMA MallocBooked ==
    ASSUME NEW h, NEW l, Booked(h, l), NEW size \in Sizes, NEW errno,
           NEW m, m = Malloc(h, size, errno)
    PROVE  /\ m.errno \in {errno, "EINVAL", "ENOMEM"}
           /\ m.block = NULL => Booked(m.heap, l)
           /\ m.block # NULL => m.block \notin DOMAIN l /\ Booked(m.heap, With(l, m.block, size))
<1> DEFINE g == m.heap
           p == m.block
           k == With(l, p, size)
<1>1. /\ Good(h) /\ Paged(h) /\ DOMAIN l = DOMAIN Used(h)
      /\ \A a \in DOMAIN l : l[a] \in Sizes /\ Holds(Used(h)[a], l[a])
  BY DEF Booked
<1>2. size \in Nat
  BY SfmmAssumption
<1>3. m.errno \in {errno, "EINVAL", "ENOMEM"} /\ Good(g) /\ Paged(g)
  BY <1>1, <1>2, MallocIs
<1>4. CASE p = NULL
  <2>1. Used(g) = Used(h)
    BY <1>1, <1>2, <1>4, MallocIs
  <2> QED BY <1>1, <1>3, <1>4, <2>1 DEF Booked
<1>5. CASE p # NULL
  <2>1. /\ p \notin DOMAIN Used(h) /\ DOMAIN Used(g) = DOMAIN Used(h) \cup {p}
        /\ Holds(Used(g)[p], size)
        /\ \A a \in DOMAIN Used(h) : Used(g)[a] = Used(h)[a]
    <3>1. Given(h, p, size, g)
      BY <1>1, <1>2, <1>5, MallocIs
    <3> QED BY <3>1 DEF Given
  <2> HIDE DEF g, p
  <2>2. DOMAIN k = DOMAIN l \cup {p} /\ k[p] = size /\ \A a \in DOMAIN l : a # p => k[a] = l[a]
    BY DEF With
  <2> HIDE DEF k
  <2>3. ASSUME NEW a \in DOMAIN k PROVE k[a] \in Sizes /\ Holds(Used(g)[a], k[a])
    <3>1. CASE a = p
      BY <3>1, <2>1, <2>2
    <3>2. CASE a # p
      <4>1. a \in DOMAIN l /\ k[a] = l[a]
        BY <3>2, <2>2
      <4> QED BY <4>1, <1>1, <2>1
    <3> QED BY <3>1, <3>2
  <2>4. Booked(g, k)
    BY <1>1, <1>3, <2>1, <2>2, <2>3 DEF Booked
  <2> QED BY <1>1, <1>3, <1>5, <2>1, <2>4 DEF g, k, p
<1> QED BY <1>4, <1>5

\* sf_free takes one block off the books and leaves the other callers' blocks alone.
LEMMA FreeBooked ==
    ASSUME NEW h, NEW l, Booked(h, l), NEW p \in DOMAIN l
    PROVE  Booked(Free(h, p), Without(l, {p}))
<1> DEFINE g == Free(h, p)
           k == Without(l, {p})
<1>1. /\ Good(h) /\ Paged(h) /\ DOMAIN l = DOMAIN Used(h)
      /\ \A a \in DOMAIN l : l[a] \in Sizes /\ Holds(Used(h)[a], l[a])
  BY DEF Booked
<1>2. /\ Good(g) /\ g.end = h.end /\ DOMAIN Used(g) = DOMAIN Used(h) \ {p}
      /\ \A a \in DOMAIN Used(g) : Used(g)[a] = Used(h)[a]
  BY <1>1, Freed
<1>3. DOMAIN k = DOMAIN l \ {p} /\ \A a \in DOMAIN k : k[a] = l[a]
  BY DEF Without
<1> HIDE DEF g, k
<1>4. Paged(g)
  BY <1>1, <1>2 DEF Paged
<1>5. Booked(g, k)
  BY <1>1, <1>2, <1>3, <1>4 DEF Booked
<1> QED BY <1>5 DEF g, k

\* sf_realloc to less keeps the block, with the new size.
LEMMA ShrinkBooked ==
    ASSUME NEW h, NEW l, Booked(h, l), NEW p \in DOMAIN l, NEW size \in Sizes,
           h.header[p].size >= size + 16
    PROVE  Booked(Shrink(h, p, size), [l EXCEPT ![p] = size])
<1> DEFINE g == Shrink(h, p, size)
           k == [l EXCEPT ![p] = size]
<1>1. /\ Good(h) /\ Paged(h) /\ DOMAIN l = DOMAIN Used(h)
      /\ \A a \in DOMAIN l : l[a] \in Sizes /\ Holds(Used(h)[a], l[a])
  BY DEF Booked
<1>2. size \in Nat
  BY SfmmAssumption
<1>3. /\ Good(g) /\ g.end = h.end /\ DOMAIN Used(g) = DOMAIN Used(h)
      /\ Holds(Used(g)[p], size)
      /\ \A a \in DOMAIN Used(h) : a # p => Used(g)[a] = Used(h)[a]
  <2>1. p \in DOMAIN Used(h)
    BY <1>1
  <2> QED BY <1>1, <1>2, <2>1, Shrunk
<1>4. DOMAIN k = DOMAIN l /\ k[p] = size /\ \A a \in DOMAIN l : a # p => k[a] = l[a]
  OBVIOUS
<1> HIDE DEF g, k
<1>5. Paged(g)
  BY <1>1, <1>3 DEF Paged
<1>6. \A a \in DOMAIN k : k[a] \in Sizes /\ Holds(Used(g)[a], k[a])
  <2> TAKE a \in DOMAIN k
  <2>1. CASE a = p
    BY <2>1, <1>3, <1>4
  <2>2. CASE a # p
    BY <2>2, <1>1, <1>3, <1>4
  <2> QED BY <2>1, <2>2
<1>7. Booked(g, k)
  BY <1>1, <1>3, <1>4, <1>5, <1>6 DEF Booked
<1> QED BY <1>7 DEF g, k

\* The pointers that the checks accept are those that callers hold.
LEMMA AcceptedIs ==
    ASSUME NEW h, NEW l, Booked(h, l), NEW p \in Blocks(h)
    PROVE  Valid(h, p) <=> p \in DOMAIN l
<1>1. /\ Tiles(h) /\ DOMAIN l = DOMAIN Used(h)
      /\ \A a \in DOMAIN l : l[a] \in Sizes /\ Holds(Used(h)[a], l[a])
  BY DEF Booked, Good, Shape
<1>2. Valid(h, p) => p \in DOMAIN l
  BY <1>1 DEF Valid, Used
<1>3. ASSUME p \in DOMAIN l PROVE Valid(h, p)
  <2>1. /\ h.header[p].allocated = 1
        /\ Used(h)[p] = [header |-> h.header[p], footer |-> h.footer[End(h, p)]]
    BY <1>1, <1>3 DEF Used
  <2> DEFINE u == Used(h)[p]
  <2>2. Holds(u, l[p])
    BY <1>1, <1>3
  <2>3. u.header = h.header[p] /\ u.footer = h.footer[End(h, p)]
    BY <2>1
  <2>4. p <= h.end
    BY <1>1, BlockIs
  <2> HIDE DEF u
  <2> DEFINE f == h.footer[p + h.header[p].size]
  <2>5. f = u.footer
    BY <2>3 DEF End
  <2> HIDE DEF f
  <2>6. /\ f.padded = h.header[p].padded /\ f.allocated = h.header[p].allocated
        /\ f.requested + 16 # f.size => f.padded = 1
    BY <2>1, <2>2, <2>3, <2>5 DEF Holds
  <2> QED BY <2>1, <2>4, <2>6 DEF Valid, Size, f
<1> QED BY <1>2, <1>3

\* realloc to more: the new block is in use, and the old one no longer.
LEMMA MoveBooked ==
    ASSUME NEW h, NEW l, Booked(h, l), NEW p \in DOMAIN l, NEW size \in Sizes, NEW errno,
           NEW m, m = Malloc(h, size, errno)
    PROVE  /\ m.block = NULL => Booked(Move(m, p), l)
           /\ m.block # NULL => /\ m.block # p
                                /\ Booked(Move(m, p), With(Without(l, {p}), m.block, size))
<1>1. /\ m.block = NULL => Booked(m.heap, l)
      /\ m.block # NULL => m.block \notin DOMAIN l /\ Booked(m.heap, With(l, m.block, size))
  BY MallocBooked
<1>2. CASE m.block = NULL
  <2>1. Move(m, p) = m.heap
    BY <1>2 DEF Move
  <2> QED BY <1>1, <1>2, <2>1
<1>3. CASE m.block # NULL
  <2> DEFINE b == m.block
             k == With(l, b, size)
  <2>1. Move(m, p) = Free(m.heap, p) /\ b # p /\ b \notin DOMAIN l /\ Booked(m.heap, k)
    BY <1>1, <1>3 DEF Move
  <2>2. p \in DOMAIN k
    BY DEF With
  <2>3. Without(k, {p}) = With(Without(l, {p}), b, size)
    <3> HIDE DEF b
    <3> QED BY <2>1 DEF With, Without
  <2> HIDE DEF k
  <2>4. Booked(Free(m.heap, p), Without(k, {p}))
    BY <2>1, <2>2, FreeBooked
  <2> QED BY <1>3, <2>1, <2>3, <2>4
<1> QED BY <1>2, <1>3
-----------------------------------------------------------------------------
(***************************************************************************)
(* The inductive invariant.                                                *)
(***************************************************************************)
Inv == /\ Booked(heap, live) /\ live = [p \in DOMAIN live |-> live[p]]
       /\ sf_errno \in {"none", "EINVAL", "ENOMEM"} /\ aborted \in BOOLEAN

\* The empty heap satisfies the invariant.
LEMMA InitInv == Init => Inv
<1> SUFFICES ASSUME Init PROVE Inv
  OBVIOUS
<1>1. /\ heap.end = 0 /\ DOMAIN heap.header = {} /\ DOMAIN heap.footer = {}
      /\ DOMAIN heap.link = {} /\ heap.head = [n \in Lists |-> NULL] /\ DOMAIN live = {}
      /\ live = [p \in DOMAIN live |-> live[p]] /\ IsHeap(heap)
      /\ heap.header = [p \in {} |-> 0] /\ heap.footer = [p \in {} |-> 0]
      /\ heap.link = [p \in {} |-> 0]
  BY DEF Init, IsHeap
<1>2. Tiles(heap)
  BY <1>1 DEF Tiles, Blocks
<1>3. Linked(heap)
  BY <1>1 DEF Linked, Blocks, NULL
<1>4. Ordered(heap)
  <2> DEFINE rank == [p \in {} |-> 0]
  <2>1. rank \in [DOMAIN heap.link -> Nat] /\ \A a \in DOMAIN heap.link :
          heap.link[a].next # NULL => rank[heap.link[a].next] < rank[a]
    BY <1>1
  <2> HIDE DEF rank
  <2> QED BY <2>1 DEF Ordered
<1>5. FreeBlocks(heap) = {} /\ DOMAIN Used(heap) = {}
  BY <1>1 DEF FreeBlocks, Used, Blocks
<1>6. Paged(heap)
  <2>1. 0 \in 0 .. MaxPages /\ 0 * PageSize = 0
    BY SfmmAssumption
  <2> QED BY <1>1, <2>1 DEF Paged
<1>7. Booked(heap, live)
  BY <1>1, <1>2, <1>3, <1>4, <1>5, <1>6 DEF Booked, Good, Shape
<1> QED BY <1>1, <1>7 DEF Inv, Init

\* Every call of sf_malloc, sf_free and sf_realloc preserves the invariant.
LEMMA NextInv == Inv /\ [Next]_vars => Inv'
<1> SUFFICES ASSUME Inv, [Next]_vars PROVE Inv'
  OBVIOUS
<1>1. /\ Booked(heap, live) /\ live = [p \in DOMAIN live |-> live[p]]
      /\ sf_errno \in {"none", "EINVAL", "ENOMEM"} /\ aborted \in BOOLEAN
  BY DEF Inv
<1>2. \A f, x, v : With(f, x, v) = [y \in DOMAIN With(f, x, v) |-> With(f, x, v)[y]]
  BY DEF With
<1>3. \A f, S : Without(f, S) = [y \in DOMAIN Without(f, S) |-> Without(f, S)[y]]
  BY DEF Without
<1>4. ASSUME NEW size \in Sizes, sf_malloc(size) PROVE Inv'
  <2> DEFINE m == Malloc(heap, size, sf_errno)
  <2>1. /\ heap' = m.heap /\ sf_errno' = m.errno /\ aborted' = aborted
        /\ live' = IF m.block = NULL THEN live ELSE With(live, m.block, size)
    BY <1>4 DEF sf_malloc
  <2>2. /\ m.errno \in {sf_errno, "EINVAL", "ENOMEM"}
        /\ m.block = NULL => Booked(m.heap, live)
        /\ m.block # NULL => Booked(m.heap, With(live, m.block, size))
    BY <1>1, MallocBooked
  <2> HIDE DEF m
  <2>3. Booked(heap', live') /\ live' = [p \in DOMAIN live' |-> live'[p]]
    <3>1. CASE m.block = NULL
      BY <3>1, <2>1, <2>2, <1>1
    <3>2. CASE m.block # NULL
      <4>1. live' = With(live, m.block, size)
        BY <3>2, <2>1
      <4> QED BY <3>2, <4>1, <2>1, <2>2, <1>2
    <3> QED BY <3>1, <3>2
  <2>4. sf_errno' \in {"none", "EINVAL", "ENOMEM"} /\ aborted' \in BOOLEAN
    BY <1>1, <2>1, <2>2
  <2> QED BY <2>3, <2>4 DEF Inv
<1>5. ASSUME NEW p \in DOMAIN heap.header, Valid(heap, p),
             heap' = Free(heap, p), live' = Without(live, {p}), UNCHANGED <<sf_errno, aborted>>
      PROVE  Inv'
  <2>1. p \in DOMAIN live
    BY <1>1, <1>5, AcceptedIs DEF Blocks
  <2>2. Booked(heap', live')
    BY <1>1, <1>5, <2>1, FreeBooked
  <2>3. live' = [a \in DOMAIN live' |-> live'[a]]
    BY <1>3, <1>5
  <2> QED BY <1>1, <1>5, <2>2, <2>3 DEF Inv
<1>6. ASSUME aborted' = TRUE, UNCHANGED <<heap, live, sf_errno>> PROVE Inv'
  BY <1>1, <1>6 DEF Inv
<1>7. ASSUME NEW p \in DOMAIN heap.header, sf_free(p) PROVE Inv'
  BY <1>5, <1>6, <1>7 DEF sf_free
<1>8. ASSUME NEW p \in DOMAIN heap.header, NEW size \in Sizes, sf_realloc(p, size) PROVE Inv'
  <2>1. CASE ~ Valid(heap, p)
    BY <1>6, <1>8, <2>1 DEF sf_realloc
  <2>2. CASE Valid(heap, p) /\ size = 0
    BY <1>5, <1>8, <2>2 DEF sf_realloc
  <2>3. CASE Valid(heap, p) /\ size # 0 /\ Size(heap, p) - 16 < size
    <3> DEFINE m == Malloc(heap, size, sf_errno)
    <3>1. /\ heap' = Move(m, p) /\ sf_errno' = m.errno /\ aborted' = aborted
          /\ live' = IF m.block = NULL THEN live ELSE With(Without(live, {p}), m.block, size)
      BY <1>8, <2>3 DEF sf_realloc
    <3>2. p \in DOMAIN live
      BY <1>1, <2>3, AcceptedIs DEF Blocks
    <3>3. m.errno \in {sf_errno, "EINVAL", "ENOMEM"}
      BY <1>1, MallocBooked
    <3>4. /\ m.block = NULL => Booked(Move(m, p), live)
          /\ m.block # NULL => Booked(Move(m, p), With(Without(live, {p}), m.block, size))
      BY <1>1, <3>2, MoveBooked
    <3> HIDE DEF m
    <3>5. Booked(heap', live') /\ live' = [a \in DOMAIN live' |-> live'[a]]
      <4>1. CASE m.block = NULL
        BY <4>1, <3>1, <3>4, <1>1
      <4>2. CASE m.block # NULL
        <5>1. live' = With(Without(live, {p}), m.block, size)
          BY <4>2, <3>1
        <5> QED BY <4>2, <5>1, <3>1, <3>4, <1>2
      <4> QED BY <4>1, <4>2
    <3> QED BY <1>1, <3>1, <3>3, <3>5 DEF Inv
  <2>4. CASE Valid(heap, p) /\ size # 0 /\ ~ (Size(heap, p) - 16 < size)
    <3>1. /\ heap' = Shrink(heap, p, size) /\ live' = [live EXCEPT ![p] = size]
          /\ UNCHANGED <<sf_errno, aborted>>
      BY <1>8, <2>4 DEF sf_realloc
    <3>2. p \in DOMAIN live
      BY <1>1, <2>4, AcceptedIs DEF Blocks
    <3>3. heap.header[p].size >= size + 16
      <4> DEFINE s == heap.header[p].size
      <4>1. s \in Nat /\ size \in Nat /\ ~ (s - 16 < size)
        BY <1>1, <2>4, BlockIs, SfmmAssumption DEF Booked, Good, Shape, Blocks, Size
      <4> HIDE DEF s
      <4>2. s >= size + 16
        BY <4>1
      <4> QED BY <4>2 DEF s
    <3>4. Booked(heap', live')
      BY <1>1, <3>1, <3>2, <3>3, ShrinkBooked
    <3>5. live' = [a \in DOMAIN live' |-> live'[a]]
      BY <3>1
    <3> QED BY <1>1, <3>1, <3>4, <3>5 DEF Inv
  <2> QED BY <2>1, <2>2, <2>3, <2>4
<1>9. CASE UNCHANGED vars
  BY <1>1, <1>9 DEF Inv, vars
<1> QED BY <1>4, <1>7, <1>8, <1>9 DEF Next

\* The invariant holds however long and in whatever order sfmm.c is called.
THEOREM Invariance == Spec => []Inv
BY InitInv, NextInv, PTL DEF Spec
-----------------------------------------------------------------------------
(***************************************************************************)
(* What follows from it.                                                   *)
(***************************************************************************)
LEMMA PagesFit ==
    ASSUME NEW h, Paged(h)
    PROVE  h.end \in Nat /\ h.end <= MaxHeap /\ h.end \in {n * PageSize : n \in 0 .. MaxPages}
<1>1. PICK k \in 0 .. MaxPages : h.end = k * PageSize
  BY DEF Paged
<1>2. k \in Nat /\ MaxPages \in Nat /\ PageSize \in Nat /\ k <= MaxPages
  BY SfmmAssumption
<1>3. k * PageSize \in Nat
  BY <1>2
<1>4. k * PageSize <= PageSize * MaxPages
  <2>1. MaxPages - k \in Nat
    BY <1>2
  <2>2. (MaxPages - k) * PageSize \in Nat
    BY <1>2, <2>1
  <2>3. PageSize * MaxPages = k * PageSize + (MaxPages - k) * PageSize
    BY <1>2
  <2> QED BY <1>3, <2>2, <2>3
<1> QED BY <1>1, <1>3, <1>4 DEF MaxHeap

\* The blocks of sfmm.c follow each other from the start of the heap to its end, and
\* the header and the footer of each agree, whatever was allocated, split, freed,
\* joined and extended before.
THEOREM HeapIsTiled == Spec => []Tiled
<1>1. ASSUME Inv PROVE Tiled
  <2>1. Tiles(heap)
    BY <1>1 DEF Inv, Booked, Good, Shape
  <2>2. ASSUME NEW p \in DOMAIN heap.header
        PROVE  LET e == p + Size(heap, p)
               IN  /\ e > p
                   /\ e = heap.end \/ e \in DOMAIN heap.header
                   /\ e \in DOMAIN heap.footer
                   /\ heap.footer[e].size = Size(heap, p)
                   /\ heap.footer[e].allocated = heap.header[p].allocated
                   /\ \A q \in DOMAIN heap.header : ~ (p < q /\ q < e)
    <3> DEFINE e == End(heap, p)
    <3>1. p \in Blocks(heap)
      BY DEF Blocks
    <3>2. e \in Nat /\ p \in Nat /\ p < e
      BY <2>1, <3>1, BlockIs
    <3>3. /\ e = heap.end \/ e \in Blocks(heap)
          /\ e \in DOMAIN heap.footer
          /\ heap.footer[e].size = heap.header[p].size
          /\ heap.footer[e].allocated = heap.header[p].allocated
      BY <2>1, <3>1 DEF Tiles
    <3>4. \A q \in Blocks(heap) : ~ (p < q /\ q < e)
      <4> TAKE q \in Blocks(heap)
      <4>1. q \in Nat /\ (p < q => e <= q)
        BY <2>1, <3>1, BlockIs DEF Tiles
      <4> HIDE DEF e
      <4> QED BY <4>1, <3>2
    <3>5. e = p + Size(heap, p)
      BY DEF End, Size
    <3> HIDE DEF e
    <3> QED BY <3>2, <3>3, <3>4, <3>5 DEF Blocks, Size
  <2>3. ASSUME NEW e \in DOMAIN heap.footer
        PROVE  e - heap.footer[e].size \in DOMAIN heap.header
    <3>1. PICK p \in Blocks(heap) : e = End(heap, p)
      BY <2>1 DEF Tiles
    <3>2. heap.footer[e].size = heap.header[p].size
      BY <2>1, <3>1 DEF Tiles
    <3> DEFINE s == heap.header[p].size
    <3>3. e = p + s /\ p \in Nat /\ s \in Nat
      BY <2>1, <3>1, BlockIs
    <3> HIDE DEF s
    <3>4. e - s = p
      BY <3>3
    <3> QED BY <3>1, <3>2, <3>4 DEF Blocks, s
  <2>4. heap.end > 0 => 0 \in DOMAIN heap.header
    BY <2>1 DEF Tiles, Blocks
  <2> QED BY <2>2, <2>3, <2>4 DEF Tiled
<1> QED BY <1>1, Invariance, PTL

\* sf_free and sf_realloc let through exactly the pointers that callers hold: none
\* that is theirs is refused, and none is accepted again after it was freed.
THEOREM AcceptsOnlyHeld == Spec => []AcceptsWhatCallersHold
<1>1. ASSUME Inv PROVE AcceptsWhatCallersHold
  BY <1>1, AcceptedIs DEF Inv, AcceptsWhatCallersHold, Blocks
<1> QED BY <1>1, Invariance, PTL

\* A block that a caller holds is large enough for the size the caller asked for last,
\* records it, and wastes less than 32 bytes.
THEOREM BlocksFit == Spec => []BlocksFitRequests
<1>1. ASSUME Inv PROVE BlocksFitRequests
  <2>1. ASSUME NEW p \in DOMAIN live
        PROVE  /\ p \in DOMAIN heap.header
               /\ heap.footer[p + Size(heap, p)].requested = live[p]
               /\ Size(heap, p) - 16 - live[p] \in 0 .. 31
    <3>1. p \in DOMAIN Used(heap) /\ Holds(Used(heap)[p], live[p])
      BY <1>1 DEF Inv, Booked
    <3>2. /\ p \in Blocks(heap)
          /\ Used(heap)[p] = [header |-> heap.header[p], footer |-> heap.footer[End(heap, p)]]
      BY <3>1 DEF Used
    <3>3. /\ heap.header[p].size - 16 - live[p] \in 0 .. 31
          /\ heap.footer[End(heap, p)].requested = live[p]
      BY <3>1, <3>2 DEF Holds
    <3> QED BY <3>2, <3>3 DEF Blocks, End, Size
  <2> QED BY <2>1 DEF BlocksFitRequests
<1> QED BY <1>1, Invariance, PTL

\* Each free block is exactly once in the list for its size, and the lists are linked
\* both ways: coalescing takes a neighbour out of the list that it is in.
THEOREM ListsAreExact == Spec => []FreeListsExact
<1>1. ASSUME Inv PROVE FreeListsExact
  <2>1. /\ Tiles(heap) /\ Linked(heap) /\ Ordered(heap) /\ DOMAIN heap.link = FreeBlocks(heap)
    BY <1>1 DEF Inv, Booked, Good, Shape
  <2>2. IsFiniteSet(DOMAIN heap.link)
    BY <2>1, FreeIsFinite
  <2>3. PICK rank \in [DOMAIN heap.link -> Nat] : \A a \in DOMAIN heap.link :
          heap.link[a].next # NULL => rank[heap.link[a].next] < rank[a]
    BY <2>1 DEF Ordered
  <2>4. ASSUME NEW n \in Lists
        PROVE  LET c == Chain(heap, n)
                   filled == {i \in DOMAIN c : c[i] # NULL}
               IN  /\ \A i, j \in filled : c[i] = c[j] => i = j
                   /\ {c[i] : i \in filled} =
                         {p \in DOMAIN heap.header : /\ heap.header[p].allocated = 0
                                                     /\ ListOf(Size(heap, p)) = n}
                   /\ \A i \in filled :
                         heap.link[c[i]].prev = IF i = 1 THEN NULL ELSE c[i - 1]
    <3> DEFINE c == Chain(heap, n)
               filled == {i \in DOMAIN c : c[i] # NULL}
    <3>1. DOMAIN c \subseteq Nat
      <4>1. \E N \in Nat : DOMAIN c = 1 .. N
        BY <2>1, <2>2, ChainIs
      <4> HIDE DEF c
      <4> QED BY <4>1
    <3>2. \A i \in filled : /\ c[i] \in DOMAIN heap.link /\ Where(heap, c[i]) = n
                            /\ heap.link[c[i]].prev = IF i = 1 THEN NULL ELSE c[i - 1]
      <4> TAKE i \in filled
      <4>1. i \in DOMAIN c /\ c[i] # NULL
        OBVIOUS
      <4> QED BY <4>1, <2>1, <2>2, ChainBlocks
    <3>3. \A i, j \in filled : i < j => c[i] # c[j]
      <4> SUFFICES ASSUME NEW i \in filled, NEW j \in filled, i < j
                   PROVE  c[i] # c[j]
        OBVIOUS
      <4>1. i \in DOMAIN c /\ j \in DOMAIN c /\ c[j] # NULL
        OBVIOUS
      <4>2. rank[c[j]] < rank[c[i]]
        BY <4>1, <2>1, <2>2, <2>3, ChainFalls
      <4>3. rank[c[j]] \in Nat /\ rank[c[i]] \in Nat
        BY <2>3, <3>2
      <4> QED BY <4>2, <4>3
    <3>4. \A i, j \in filled : c[i] = c[j] => i = j
      <4> SUFFICES ASSUME NEW i \in filled, NEW j \in filled, c[i] = c[j]
                   PROVE  i = j
        OBVIOUS
      <4>1. i \in Nat /\ j \in Nat
        BY <3>1
      <4>2. ~ (i < j) /\ ~ (j < i)
        BY <3>3
      <4> QED BY <4>1, <4>2
    <3>5. ASSUME NEW p \in DOMAIN heap.link, Where(heap, p) = n
          PROVE  \E i \in filled : c[i] = p
      <4>1. \E i \in DOMAIN c : c[i] = p
        BY <2>1, <2>2, <3>5, ChainAll
      <4>2. p # NULL
        BY <2>1 DEF Linked, NULL
      <4> QED BY <4>1, <4>2
    <3>6. {c[i] : i \in filled} =
             {p \in DOMAIN heap.header : /\ heap.header[p].allocated = 0
                                         /\ ListOf(Size(heap, p)) = n}
      <4>1. {p \in DOMAIN heap.header : /\ heap.header[p].allocated = 0
                                        /\ ListOf(Size(heap, p)) = n}
              = {p \in DOMAIN heap.link : Where(heap, p) = n}
        BY <2>1 DEF FreeBlocks, Blocks, Where, Size
      <4> HIDE DEF filled, c
      <4>2. {c[i] : i \in filled} = {p \in DOMAIN heap.link : Where(heap, p) = n}
        BY <3>2, <3>5
      <4> QED BY <4>1, <4>2
    <3> QED BY <3>2, <3>4, <3>6
  <2>5. DOMAIN heap.link = {p \in DOMAIN heap.header : heap.header[p].allocated = 0}
    BY <2>1 DEF FreeBlocks, Blocks
  <2> QED BY <2>4, <2>5 DEF FreeListsExact
<1> QED BY <1>1, Invariance, PTL

\* The words of the heap hold what they are declared to hold, and addresses in it.
THEOREM TypeCorrect == Spec => []TypeOK
<1>1. ASSUME Inv PROVE TypeOK
  <2>1. /\ Tiles(heap) /\ Linked(heap) /\ DOMAIN heap.link = FreeBlocks(heap) /\ Paged(heap)
        /\ DOMAIN live = DOMAIN Used(heap) /\ \A p \in DOMAIN live : live[p] \in Sizes
    BY <1>1 DEF Inv, Booked, Good, Shape
  <2>2. /\ heap.end \in {n * PageSize : n \in 0 .. MaxPages}
        /\ heap.end \in Nat /\ heap.end <= MaxHeap /\ MaxHeap \in Nat
    <3>1. MaxHeap \in Nat
      BY SfmmAssumption DEF MaxHeap
    <3> QED BY <2>1, <3>1, PagesFit
  <2>3. \A p \in Blocks(heap) : p \in Addresses /\ End(heap, p) \in Addresses
    <3> TAKE p \in Blocks(heap)
    <3> DEFINE e == End(heap, p)
               s == heap.header[p].size
    <3>1. /\ p \in Nat /\ p % 16 = 0 /\ e \in Nat /\ p < e /\ e <= heap.end
          /\ s \in Nat /\ s % 16 = 0 /\ e = p + s
      BY <2>1, BlockIs
    <3> HIDE DEF e, s
    <3>2. e % 16 = 0 /\ p <= MaxHeap /\ e <= MaxHeap
      BY <2>2, <3>1
    <3>3. p \in Addresses /\ e \in Addresses
      BY <2>2, <3>1, <3>2 DEF Addresses
    <3> QED BY <3>3 DEF e
  <2>4. DOMAIN heap.header \subseteq Addresses /\ DOMAIN heap.footer \subseteq Addresses
    BY <2>1, <2>3 DEF Tiles, Blocks
  <2>5. /\ \A p \in DOMAIN heap.header : heap.header[p] \in Tag
        /\ \A e \in DOMAIN heap.footer : heap.footer[e] \in Foot
    BY <2>1 DEF Tiles, Blocks
  <2>6. DOMAIN heap.link \subseteq Addresses
    BY <2>1, <2>4 DEF Linked, Blocks
  <2>7. \A p \in DOMAIN heap.link :
          {heap.link[p].next, heap.link[p].prev} \subseteq Addresses \cup {NULL}
    <3>1. \A p \in DOMAIN heap.link : /\ heap.link[p].next \in DOMAIN heap.link \cup {NULL}
                                      /\ heap.link[p].prev \in DOMAIN heap.link \cup {NULL}
      BY <2>1 DEF Linked
    <3> QED BY <3>1, <2>6
  <2>8. heap.head \in [Lists -> Addresses \cup {NULL}]
    <3>1. heap.head \in [Lists -> DOMAIN heap.link \cup {NULL}]
      BY <2>1 DEF Linked
    <3> QED BY <3>1, <2>6
  <2>9. DOMAIN live \subseteq Addresses
    BY <2>1, <2>4 DEF Used, Blocks
  <2> QED BY <1>1, <2>1, <2>2, <2>4, <2>5, <2>7, <2>8, <2>9 DEF Inv, TypeOK
<1> QED BY <1>1, Invariance, PTL
-----------------------------------------------------------------------------
(***************************************************************************)
(* What malloc's callers may rely on.                                      *)
(***************************************************************************)
\* sf_malloc answers ENOMEM only when the heap has all its pages and none of its free
\* blocks is large enough: coalescing leaves no room that find_fit does not find.
THEOREM NoneFits == Spec => FailsOnlyWhenFull
<1>1. ASSUME Inv, live' = live, NEW size \in Sizes, sf_malloc(size), ~ Invalid(size)
      PROVE  /\ heap'.end = MaxHeap
             /\ \A p \in DOMAIN heap'.header :
                   heap'.header[p].allocated = 0 => Size(heap', p) < size + 16
  <2> DEFINE m == Malloc(heap, size, sf_errno)
  <2>1. /\ heap' = m.heap
        /\ live' = IF m.block = NULL THEN live ELSE With(live, m.block, size)
    BY <1>1 DEF sf_malloc
  <2>2. Booked(heap, live) /\ Good(heap) /\ Paged(heap) /\ size \in Nat
    BY <1>1, SfmmAssumption DEF Inv, Booked
  <2>3. m.block # NULL => m.block \notin DOMAIN live
    BY <2>2, MallocBooked
  <2>4. m.block = NULL =>
          /\ m.heap.end = MaxHeap
          /\ \A q \in FreeBlocks(m.heap) : m.heap.header[q].size < size + 16
    BY <1>1, <2>2, MallocIs
  <2> HIDE DEF m
  <2>5. m.block = NULL
    <3>1. m.block # NULL => m.block \in DOMAIN live
      BY <1>1, <2>1 DEF With
    <3> QED BY <2>3, <3>1
  <2> QED BY <2>1, <2>4, <2>5 DEF FreeBlocks, Blocks, Size
<1>2. Inv /\ [Next]_vars =>
        [(live' = live /\ sf_errno' = "ENOMEM") =>
            \A size \in Sizes : sf_malloc(size) /\ ~Invalid(size) =>
                /\ heap'.end = MaxHeap
                /\ \A p \in DOMAIN heap'.header :
                      heap'.header[p].allocated = 0 => Size(heap', p) < size + 16]_vars
  BY <1>1
<1> QED BY <1>2, Invariance, PTL DEF Spec, FailsOnlyWhenFull

\* The region of a block that a caller holds is in the heap and meets no other.
LEMMA RoomIs ==
    ASSUME NEW h, NEW l, NEW p, p \notin DOMAIN l, NEW size \in Sizes,
           Booked(h, With(l, p, size))
    PROVE  p \in Abstract!Addresses /\ Abstract!Room(l, p, size)
<1> DEFINE k == With(l, p, size)
<1>1. /\ Tiles(h) /\ Paged(h) /\ DOMAIN k = DOMAIN Used(h)
      /\ \A q \in DOMAIN k : k[q] \in Sizes /\ Holds(Used(h)[q], k[q])
  BY DEF Booked, Good, Shape
<1>2. DOMAIN k = DOMAIN l \cup {p} /\ k[p] = size /\ \A q \in DOMAIN l : k[q] = l[q]
  BY DEF With
<1> HIDE DEF k
<1>3. ASSUME NEW q \in DOMAIN k
      PROVE  /\ q \in Blocks(h) /\ q \in Nat /\ q % 16 = 0 /\ k[q] \in Nat /\ End(h, q) \in Nat
             /\ q + k[q] + 16 <= End(h, q) /\ End(h, q) <= h.end
  <2>1. /\ q \in Blocks(h)
        /\ Used(h)[q] = [header |-> h.header[q], footer |-> h.footer[End(h, q)]]
    BY <1>1 DEF Used
  <2>2. k[q] \in Nat /\ h.header[q].size - 16 - k[q] \in 0 .. 31
    <3>1. k[q] \in Sizes /\ Holds(Used(h)[q], k[q])
      BY <1>1
    <3>2. h.header[q].size - 16 - k[q] \in 0 .. 31
      BY <2>1, <3>1 DEF Holds
    <3> QED BY <3>1, <3>2, SfmmAssumption
  <2> DEFINE s == h.header[q].size
             e == End(h, q)
             r == k[q]
  <2>3. q \in Nat /\ q % 16 = 0 /\ e \in Nat /\ e <= h.end /\ s \in Nat /\ e = q + s
    BY <1>1, <2>1, BlockIs
  <2>4. r \in Nat /\ s - 16 - r \in 0 .. 31
    BY <2>2
  <2> HIDE DEF s, e, r
  <2>5. q + r + 16 <= e
    BY <2>3, <2>4
  <2> QED BY <2>1, <2>3, <2>4, <2>5 DEF e, r
<1>4. h.end \in Nat /\ h.end <= MaxHeap /\ MaxHeap \in Nat
  <2>1. MaxHeap \in Nat
    BY SfmmAssumption DEF MaxHeap
  <2> QED BY <1>1, <2>1, PagesFit
<1> DEFINE d == End(h, p)
<1>5. /\ p \in Blocks(h) /\ p \in Nat /\ p % 16 = 0 /\ size \in Nat /\ d \in Nat
      /\ p + size + 16 <= d /\ d <= h.end
  BY <1>2, <1>3
<1> HIDE DEF d
<1>6. p + 8 + size <= MaxHeap /\ p <= MaxHeap
  BY <1>4, <1>5
<1>7. ASSUME NEW q \in DOMAIN l PROVE p + size <= q \/ q + l[q] <= p
  <2> DEFINE e == End(h, q)
             r == l[q]
  <2>1. q \in Blocks(h) /\ q \in Nat /\ r \in Nat /\ e \in Nat /\ q + r + 16 <= e /\ q # p
    BY <1>2, <1>3
  <2>2. (p < q => d <= q) /\ (q < p => e <= p)
    BY <1>1, <1>5, <2>1, Apart DEF d
  <2> HIDE DEF e, r
  <2>3. p + size <= q \/ q + r <= p
    BY <1>5, <2>1, <2>2
  <2> QED BY <2>3 DEF r
<1>8. p \in Abstract!Addresses
  BY <1>4, <1>5, <1>6 DEF Abstract!Addresses
<1> QED BY <1>6, <1>7, <1>8 DEF Abstract!Room

\* Each step of sfmm.c is one that an allocator may take, or none for its callers.
LEMMA StepRefines == Inv /\ [Next]_vars => [Abstract!Next]_<<live, aborted>>
<1> SUFFICES ASSUME Inv, [Next]_vars PROVE [Abstract!Next]_<<live, aborted>>
  OBVIOUS
<1>1. Booked(heap, live) /\ live = [p \in DOMAIN live |-> live[p]]
  BY DEF Inv
<1>2. \A f, p, size : Abstract!With(f, p, size) = With(f, p, size)
  BY DEF Abstract!With, With
<1>3. \A p : Abstract!Without(p) = Without(live, {p})
  BY DEF Abstract!Without, Without
<1>4. ASSUME NEW size \in Sizes, sf_malloc(size) PROVE [Abstract!Next]_<<live, aborted>>
  <2> DEFINE m == Malloc(heap, size, sf_errno)
  <2>1. /\ ~ aborted /\ aborted' = aborted
        /\ live' = IF m.block = NULL THEN live ELSE With(live, m.block, size)
    BY <1>4 DEF sf_malloc
  <2>2. m.block # NULL => /\ m.block \notin DOMAIN live
                          /\ Booked(m.heap, With(live, m.block, size))
    BY <1>1, MallocBooked
  <2> HIDE DEF m
  <2>3. CASE m.block = NULL
    BY <2>1, <2>3
  <2>4. CASE m.block # NULL
    <3>1. m.block \in Abstract!Addresses /\ Abstract!Room(live, m.block, size)
      BY <2>2, <2>4, RoomIs
    <3>2. m.block \in Abstract!Addresses \ DOMAIN live /\ live' = Abstract!With(live, m.block, size)
      BY <1>2, <2>1, <2>2, <2>4, <3>1
    <3>3. Abstract!Malloc(size)
      BY <3>1, <3>2 DEF Abstract!Malloc
    <3> QED BY <2>1, <3>3 DEF Abstract!Next
  <2> QED BY <2>3, <2>4
<1>5. ASSUME NEW p \in DOMAIN heap.header, ~ aborted, Valid(heap, p),
             live' = Without(live, {p}), aborted' = aborted
      PROVE  [Abstract!Next]_<<live, aborted>>
  <2>1. p \in DOMAIN live
    BY <1>1, <1>5, AcceptedIs DEF Blocks
  <2>2. Abstract!Free(p)
    BY <1>3, <1>5 DEF Abstract!Free
  <2> QED BY <1>5, <2>1, <2>2 DEF Abstract!Next
<1>6. ASSUME ~ aborted, aborted' = TRUE, live' = live PROVE [Abstract!Next]_<<live, aborted>>
  BY <1>6 DEF Abstract!Next
<1>7. ASSUME NEW p \in DOMAIN heap.header, sf_free(p) PROVE [Abstract!Next]_<<live, aborted>>
  BY <1>5, <1>6, <1>7 DEF sf_free
<1>8. ASSUME NEW p \in DOMAIN heap.header, NEW size \in Sizes, sf_realloc(p, size)
      PROVE  [Abstract!Next]_<<live, aborted>>
  <2>1. CASE ~ Valid(heap, p)
    BY <1>6, <1>8, <2>1 DEF sf_realloc
  <2>2. CASE Valid(heap, p) /\ size = 0
    BY <1>5, <1>8, <2>2 DEF sf_realloc
  <2>3. CASE Valid(heap, p) /\ size # 0 /\ Size(heap, p) - 16 < size
    <3> DEFINE m == Malloc(heap, size, sf_errno)
    <3>1. /\ ~ aborted /\ aborted' = aborted
          /\ live' = IF m.block = NULL THEN live ELSE With(Without(live, {p}), m.block, size)
      BY <1>8, <2>3 DEF sf_realloc
    <3>2. p \in DOMAIN live
      BY <1>1, <2>3, AcceptedIs DEF Blocks
    <3>3. m.block # NULL => /\ m.block \notin DOMAIN live
                            /\ Booked(m.heap, With(live, m.block, size))
      BY <1>1, MallocBooked
    <3> HIDE DEF m
    <3>4. CASE m.block = NULL
      BY <3>1, <3>4
    <3>5. CASE m.block # NULL
      <4>1. m.block \in Abstract!Addresses /\ Abstract!Room(live, m.block, size) /\ m.block # p
        BY <3>2, <3>3, <3>5, RoomIs
      <4>2. live' = Abstract!With(Abstract!Without(p), m.block, size)
        BY <1>2, <1>3, <3>1, <3>5
      <4>3. Abstract!Realloc(p, size)
        BY <4>1, <4>2 DEF Abstract!Realloc
      <4> QED BY <3>1, <3>2, <4>3 DEF Abstract!Next
    <3> QED BY <3>4, <3>5
  <2>4. CASE Valid(heap, p) /\ size # 0 /\ ~ (Size(heap, p) - 16 < size)
    <3>1. /\ ~ aborted /\ aborted' = aborted /\ heap' = Shrink(heap, p, size)
          /\ live' = [live EXCEPT ![p] = size] /\ UNCHANGED sf_errno
      BY <1>8, <2>4 DEF sf_realloc
    <3>2. p \in DOMAIN live
      BY <1>1, <2>4, AcceptedIs DEF Blocks
    <3>3. [live EXCEPT ![p] = size] = With(Without(live, {p}), p, size)
      BY <1>1, <3>2 DEF With, Without
    <3>4. Booked(heap', live')
      BY NextInv, <1>8 DEF Inv, Next
    <3>5. Booked(heap', With(Without(live, {p}), p, size)) /\ p \notin DOMAIN Without(live, {p})
      BY <3>1, <3>3, <3>4 DEF Without
    <3>6. p \in Abstract!Addresses /\ Abstract!Room(Abstract!Without(p), p, size)
      BY <1>3, <3>5, RoomIs
    <3>7. live' = Abstract!With(Abstract!Without(p), p, size)
      BY <1>2, <1>3, <3>1, <3>3
    <3>8. Abstract!Realloc(p, size)
      BY <3>6, <3>7 DEF Abstract!Realloc
    <3> QED BY <3>1, <3>2, <3>8 DEF Abstract!Next
  <2> QED BY <2>1, <2>2, <2>3, <2>4
<1>9. CASE UNCHANGED vars
  BY <1>9 DEF vars
<1> QED BY <1>4, <1>7, <1>8, <1>9 DEF Next

\* For its callers sfmm.c is the abstract allocator: what it hands out lies in the heap
\* and never overlaps what another caller holds.
THEOREM Refines == Spec => ImplementsAllocator
<1>1. Init => Abstract!Init
  BY DEF Init, Abstract!Init
<1> QED BY <1>1, StepRefines, Invariance, PTL DEF Spec, ImplementsAllocator, Abstract!Spec
=============================================================================
