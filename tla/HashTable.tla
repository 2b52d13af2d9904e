------------------------------ MODULE HashTable ------------------------------
(***************************************************************************)
(* The open-addressing table of the cache (multi_thread_server/src/        *)
(* hashmap.c) as a value: an array of nodes, and what the probe loops of   *)
(* put, get and get_true_index find in it.  A key stands for its bytes,    *)
(* which is what memcmp compares; Index is get_index(), the hash of the    *)
(* key modulo the capacity.                                                *)
(***************************************************************************)
EXTENDS Integers, FiniteSets

CONSTANTS
    Keys, Vals,
    Capacity,   \* the number of slots
    Index       \* Index[k]: the slot where the probe for k begins

ASSUME HashTableAssumption ==
    /\ Capacity \in Nat \ {0}
    /\ Index \in [Keys -> 0 .. Capacity - 1]
    /\ "null" \notin Keys /\ "null" \notin Vals

Slots == 0 .. Capacity - 1

\* A slot that was never used is all zeros; a deleted one is a tombstone that
\* keeps its key and value; a cleared one is a tombstone without them.
Node  == [key : Keys \cup {"null"}, val : Vals \cup {"null"}, tombstone : BOOLEAN]
Empty == [key |-> "null", val |-> "null", tombstone |-> FALSE]
Clear == [key |-> "null", val |-> "null", tombstone |-> TRUE]

Live(nodes) == {i \in Slots : nodes[i].key # "null" /\ ~nodes[i].tombstone}

\* The slot that the probe for k looks at after j steps.
Probe(k, j) == (Index[k] + j) % Capacity

Least(S) == CHOOSE j \in S : \A i \in S : j <= i

\* Mutant of PutStops: the probe passes over the key's own entry.
PutStopsAtFree(nodes, k) ==
    {j \in Slots : LET n == nodes[Probe(k, j)] IN n.key = "null" \/ n.tombstone}

\* The steps at which the three probe loops stop, if they come that far.
PutStops(nodes, k) ==
    {j \in Slots : LET n == nodes[Probe(k, j)]
                   IN  n.key = "null" \/ n.tombstone \/ n.key = k}

GetStops(nodes, k) ==
    {j \in Slots : LET n == nodes[Probe(k, j)]
                   IN  n.key = "null" \/ (~n.tombstone /\ n.key = k)}

IndexStops(nodes, k) ==
    {j \in Slots : LET n == nodes[Probe(k, j)]
                   IN  ~n.tombstone /\ (n.key = "null" \/ n.key = k)}

\* What get returns: "null" at a slot without a key, and when it went all round.
Get(nodes, k) ==
    IF GetStops(nodes, k) = {} THEN "null"
    ELSE LET n == nodes[Probe(k, Least(GetStops(nodes, k)))]
         IN  IF n.key = "null" THEN "null" ELSE n.val

\* What get_true_index returns.
TrueIndex(nodes, k) ==
    IF IndexStops(nodes, k) = {} THEN -1
    ELSE LET i == Probe(k, Least(IndexStops(nodes, k)))
         IN  IF nodes[i].key = "null" THEN -1 ELSE i

\* The slot that put writes when the map is not full.  The loop takes the first
\* slot it could use, a tombstone included, and looks no further for the key; it
\* has no bound, so that there must be one.
PutSlot(nodes, k) == Probe(k, Least(PutStops(nodes, k)))
=============================================================================
