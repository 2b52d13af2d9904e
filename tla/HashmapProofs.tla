---------------------------- MODULE HashmapProofs ----------------------------
(***************************************************************************)
(* What holds of module Hashmap for any threads, keys, values and hash     *)
(* function, and a table of any capacity.                                  *)
(***************************************************************************)
EXTENDS Hashmap, TLAPS, FiniteSetTheorems, WellFoundedInduction

USE DEF Labels, Operations

-----------------------------------------------------------------------------
(***************************************************************************)
(* The probe loops.                                                        *)
(***************************************************************************)
\* The step at which a probe loop stops is one at which it may stop, and the
\* first of them.
LEMMA LeastIsLeast ==
    ASSUME NEW S, S \subseteq Nat, S # {}
    PROVE  Least(S) \in S /\ \A j \in S : Least(S) <= j
<1> DEFINE R == {ss \in Nat \X Nat : ss[1] < ss[2]}
<1>1. IsWellFoundedOn(R, Nat)
  BY NatLessThanWellFounded DEF OpToRel
<1>2. \E j \in S : \A i \in S : ~ (<<i, j>> \in R)
  <2> HIDE DEF R
  <2> QED
    BY <1>1, WFMin
<1>3. \A i, j \in S : ~ (<<i, j>> \in R) => j <= i
  OBVIOUS
<1>4. \E j \in S : \A i \in S : j <= i
  BY <1>2, <1>3
<1> QED
  BY <1>4 DEF Least

\* How far slot i is from the slot where the probe for k begins.
Distance(k, i) == (i - Index[k] + Capacity) % Capacity

\* A probe that goes all round comes to every slot exactly once.
LEMMA ProbeIsBijective ==
    ASSUME NEW k \in Keys
    PROVE  /\ \A j \in Slots : Probe(k, j) \in Slots /\ Distance(k, Probe(k, j)) = j
           /\ \A i \in Slots : Distance(k, i) \in Slots /\ Probe(k, Distance(k, i)) = i
<1>1. Capacity \in Nat /\ Capacity > 0 /\ Index[k] \in Slots
  BY HashTableAssumption DEF Slots
<1>2. /\ \A a \in Slots : a % Capacity = a
      /\ \A a \in Int : a >= Capacity /\ a < 2 * Capacity => a % Capacity = a - Capacity
  BY <1>1 DEF Slots
<1>3. ASSUME NEW j \in Slots
      PROVE  Probe(k, j) \in Slots /\ Distance(k, Probe(k, j)) = j
  <2>1. CASE Index[k] + j < Capacity
    <3>1. Probe(k, j) = Index[k] + j
      BY <1>1, <1>2, <2>1 DEF Slots, Probe
    <3> QED
      BY <1>1, <1>2, <2>1, <3>1 DEF Slots, Distance
  <2>2. CASE Index[k] + j >= Capacity
    <3>1. Probe(k, j) = Index[k] + j - Capacity
      BY <1>1, <1>2, <2>2 DEF Slots, Probe
    <3> QED
      BY <1>1, <1>2, <2>2, <3>1 DEF Slots, Distance
  <2> QED
    BY <1>1, <2>1, <2>2 DEF Slots
<1>4. ASSUME NEW i \in Slots
      PROVE  Distance(k, i) \in Slots /\ Probe(k, Distance(k, i)) = i
  <2>1. CASE i < Index[k]
    <3>1. Distance(k, i) = i - Index[k] + Capacity
      BY <1>1, <1>2, <2>1 DEF Slots, Distance
    <3> QED
      BY <1>1, <1>2, <2>1, <3>1 DEF Slots, Probe
  <2>2. CASE i >= Index[k]
    <3>1. Distance(k, i) = i - Index[k]
      BY <1>1, <1>2, <2>2 DEF Slots, Distance
    <3> QED
      BY <1>1, <1>2, <2>2, <3>1 DEF Slots, Probe
  <2> QED
    BY <1>1, <2>1, <2>2 DEF Slots
<1> QED
  BY <1>3, <1>4

\* A get returns a value or nothing.
LEMMA GetType ==
    ASSUME NEW table1 \in [Slots -> Node], NEW k \in Keys
    PROVE  Get(table1, k) \in Vals \cup {"null"}
<1> DEFINE stops == GetStops(table1, k)
<1>1. stops \subseteq Slots /\ Slots \subseteq Nat
  BY HashTableAssumption DEF GetStops, Slots
<1>2. CASE stops = {}
  BY <1>2 DEF Get
<1>3. CASE stops # {}
  <2>1. Probe(k, Least(stops)) \in Slots
    BY <1>1, <1>3, LeastIsLeast, ProbeIsBijective
  <2> QED
    BY <1>3, <2>1 DEF Get, Node
<1> QED
  BY <1>2, <1>3

\* An index that get_true_index finds is that of a live entry.
LEMMA TrueIndexIsLive ==
    ASSUME NEW table1, NEW k \in Keys
    PROVE  /\ TrueIndex(table1, k) \in Slots \cup {-1}
           /\ TrueIndex(table1, k) # -1 => TrueIndex(table1, k) \in Live(table1)
<1> DEFINE stops == IndexStops(table1, k)
           first == Least(stops)
<1>1. stops \subseteq Slots /\ Slots \subseteq Nat
  BY HashTableAssumption DEF IndexStops, Slots
<1>2. CASE stops = {}
  BY <1>2 DEF TrueIndex
<1>3. CASE stops # {}
  <2>1. first \in stops
    BY <1>1, <1>3, LeastIsLeast
  <2>2. Probe(k, first) \in Slots
    BY <1>1, <2>1, ProbeIsBijective
  <2>3. ~table1[Probe(k, first)].tombstone
    BY <2>1 DEF IndexStops
  <2> QED
    BY <1>3, <2>2, <2>3 DEF TrueIndex, Live
<1> QED
  BY <1>2, <1>3

\* get returns the value of a live entry when no slot before it on the probe path
\* is free or has a live entry of the same key.
LEMMA GetFindsEntry ==
    ASSUME NEW table1, NEW k \in Keys, NEW i \in Slots,
           table1[i].key = k, ~table1[i].tombstone,
           \A j \in Slots : j < Distance(k, i) =>
               LET n == table1[Probe(k, j)] IN n.key # "null" /\ (n.tombstone \/ n.key # k)
    PROVE  Get(table1, k) = table1[i].val
<1> DEFINE stops == GetStops(table1, k)
           first == Distance(k, i)
<1>1. stops \subseteq Slots /\ Slots \subseteq Nat
  BY HashTableAssumption DEF GetStops, Slots
<1>2. first \in Slots /\ Probe(k, first) = i
  BY ProbeIsBijective
<1>3. first \in stops
  BY <1>2 DEF GetStops
<1>4. \A j \in stops : ~(j < first)
  BY <1>2 DEF GetStops
<1>5. Least(stops) = first
  <2> HIDE DEF first, stops
  <2> QED
    BY <1>1, <1>3, <1>4, LeastIsLeast
<1> QED
  BY <1>2, <1>3, <1>5, HashTableAssumption DEF Get

\* put writes a slot that was free or had the key already, and every slot that
\* its probe passed on the way has another key.
LEMMA PutSlotIsFirst ==
    ASSUME NEW table1, NEW k \in Keys, PutStops(table1, k) # {}
    PROVE  LET i == PutSlot(table1, k)
           IN  /\ i \in Slots
               /\ table1[i].key = "null" \/ table1[i].tombstone \/ table1[i].key = k
               /\ \A j \in Slots : j < Distance(k, i) =>
                     LET n == table1[Probe(k, j)]
                     IN  n.key # "null" /\ ~n.tombstone /\ n.key # k
<1> DEFINE stops == PutStops(table1, k)
           first == Least(stops)
<1>1. stops \subseteq Slots /\ Slots \subseteq Nat
  BY HashTableAssumption DEF PutStops, Slots
<1>2. first \in stops /\ \A j \in stops : first <= j
  BY <1>1, LeastIsLeast
<1>3. PutSlot(table1, k) \in Slots /\ Distance(k, PutSlot(table1, k)) = first
  BY <1>1, <1>2, ProbeIsBijective DEF PutSlot
<1>4. LET n == table1[PutSlot(table1, k)] IN n.key = "null" \/ n.tombstone \/ n.key = k
  BY <1>2 DEF PutStops, PutSlot
<1>5. ASSUME NEW j \in Slots, j < first
      PROVE  LET n == table1[Probe(k, j)] IN n.key # "null" /\ ~n.tombstone /\ n.key # k
  <2>1. j \notin stops
    <3> HIDE DEF first, stops
    <3> QED
      BY <1>1, <1>2, <1>5
  <2> QED
    BY <2>1 DEF PutStops
<1> QED
  BY <1>3, <1>4, <1>5
-----------------------------------------------------------------------------
(***************************************************************************)
(* The invariant.                                                          *)
(***************************************************************************)
\* A call has the arguments that its next steps use.
ArgumentsOK ==
    \A t \in Threads :
        /\ pc[t] \in {"p_lock", "p_body"} => key[t] \in Keys /\ val[t] \in Vals
        /\ pc[t] \in {"r_enter", "r_write", "r_entered", "r_scan", "r_leave", "r_left",
                      "d_lock", "d_body", "d_read"} => key[t] \in Keys
        /\ pc[t] \in {"d_lock", "d_body", "d_read"} => index[t] \in Slots

\* The readers that num_readers counts, and those of them that write_lock covers.
Counted  == {"r_write", "r_entered", "r_scan", "r_leave"}
Covered  == {"r_entered", "r_scan", "r_leave"}
InFields == {"r_write", "r_entered", "r_left"}

\* fields_lock is held by the thread between its lock and unlock calls; a writer
\* holds write_lock itself, and the readers hold it together while one of them is
\* covered by it.
LocksOK ==
    /\ \A t \in Threads : pc[t] \in InFields <=> fields_lock = t
    /\ num_readers = Cardinality(At(Counted))
    /\ \A t \in At(Writing) : write_lock = t
    /\ At(Covered) # {} => write_lock # "null" /\ At(Writing) = {}

\* A slot with a key has a value: what clear_map does not clear has no key.
KeysHaveValues == \A i \in Slots : nodes[i].key # "null" => nodes[i].val # "null"

MapInv == TypeOK /\ ArgumentsOK /\ LocksOK /\ KeysHaveValues /\ ProbeChainsUnbroken

\* A step of t moves t, and no other thread, from one label to the next.
LEMMA GotoMoves ==
    ASSUME TypeOK, NEW t \in Threads, NEW from, NEW to \in Labels, Goto(t, from, to)
    PROVE  /\ pc[t] = from
           /\ pc' \in [Threads -> Labels]
           /\ pc'[t] = to
           /\ \A u \in Threads : u # t => pc'[u] = pc[u]
BY DEF Goto, TypeOK

\* What Return does to the caller and leaves of the others.
LEMMA ReturnMoves ==
    ASSUME TypeOK, NEW t \in Threads, NEW from, NEW r, Return(t, from, r),
           r \in Vals \cup {"null", "true", "false"}
    PROVE  /\ Goto(t, from, "idle")
           /\ op' \in [Threads -> Operations \cup {"index", "null"}]
           /\ key' \in [Threads -> Keys \cup {"null"}]
           /\ val' \in [Threads -> Vals \cup {"null", "true", "false"}]
           /\ index' \in [Threads -> Slots \cup {-1}]
           /\ op'[t] = "null" /\ pc'[t] = "idle"
           /\ \A u \in Threads : u # t =>
                 op'[u] = op[u] /\ key'[u] = key[u] /\ val'[u] = val[u] /\ index'[u] = index[u]
BY DEF Return, Goto, TypeOK

\* What put writes is a node, and no slot loses its type.
LEMMA EntryType ==
    ASSUME TypeOK, NEW t \in Threads, key[t] \in Keys, val[t] \in Vals, NEW i
    PROVE  /\ Entry(t) \in Node
           /\ [nodes EXCEPT ![i] = Entry(t)] \in [Slots -> Node]
<1>1. Entry(t) \in Node
  BY DEF Entry, Node
<1> QED
  BY <1>1 DEF TypeOK

\* The cases of a step, one for each branch of the code.
LEMMA StepCases ==
    ASSUME NEW t \in Threads, Begins(t) \/ Step(t)
    PROVE  \/ Begins(t) \/ WriteLock(t) \/ PutRefused(t) \/ PutInserts(t) \/ PutEvicts(t)
           \/ Delete(t) \/ DeleteReads(t) \/ ClearMap(t) \/ InvalidateMap(t)
           \/ ReaderEnter(t) \/ ReaderWriteLock(t) \/ ReaderEntered(t) \/ Scan(t)
           \/ ReaderLeave(t) \/ ReaderLeft(t)
BY DEF Step, Put

\* What the calls pass to Begin.
BeginArguments(o, k, v, first) ==
    \/ o \in {"put", "force"} /\ first = "p_lock" /\ k \in Keys /\ v \in Vals
    \/ o \in {"get", "delete"} /\ first = "r_enter" /\ k \in Keys /\ v = "null"
    \/ o = "clear" /\ first = "c_lock" /\ k = "null" /\ v = "null"
    \/ o = "invalidate" /\ first = "i_lock" /\ k = "null" /\ v = "null"

\* A call begins with arguments of its own kind.
LEMMA BeginsCases ==
    ASSUME NEW t \in Threads, Begins(t)
    PROVE  \E o, k, v, first, failure :
              /\ Begin(t, o, k, v, first, failure) /\ failure \in {"null", "false"}
              /\ BeginArguments(o, k, v, first)
<1> USE DEF BeginArguments
<1>1. CASE BeginPut(t)
  BY <1>1 DEF BeginPut
<1>2. CASE BeginGet(t)
  BY <1>2 DEF BeginGet
<1>3. CASE BeginDelete(t)
  BY <1>3 DEF BeginDelete
<1>4. CASE BeginClear(t)
  BY <1>4 DEF BeginClear
<1>5. CASE BeginInvalidate(t)
  BY <1>5 DEF BeginInvalidate
<1> QED
  BY <1>1, <1>2, <1>3, <1>4, <1>5 DEF Begins
-----------------------------------------------------------------------------
\* size stays within its width.
LEMMA SizeWraps == ASSUME NEW n \in Nat PROVE n % SizeMod \in 0 .. SizeMod - 1
BY HashmapAssumption, HashTableAssumption

\* A slot with a tombstone is a slot.
LEMMA TombstoneType == ASSUME NEW n \in Node PROVE [n EXCEPT !.tombstone = TRUE] \in Node
BY DEF Node

\* Calls keep the types and the arguments.
LEMMA TypeStep == TypeOK /\ ArgumentsOK /\ LocksOK /\ [Next]_vars => TypeOK' /\ ArgumentsOK'
<1> SUFFICES ASSUME TypeOK, ArgumentsOK, LocksOK, [Next]_vars PROVE TypeOK' /\ ArgumentsOK'
  OBVIOUS
<1>1. CASE UNCHANGED vars
  BY <1>1 DEF vars, table, sync, args, TypeOK, ArgumentsOK
<1> SUFFICES ASSUME NEW t \in Threads, Begins(t) \/ Step(t) PROVE TypeOK' /\ ArgumentsOK'
  BY <1>1 DEF Next
<1> USE DEF TypeOK, ArgumentsOK, Goto, table, sync, args
<1>2. CASE Begins(t)
  <2>1. PICK o, k, v, first, failure :
           /\ Begin(t, o, k, v, first, failure) /\ failure \in {"null", "false"}
           /\ BeginArguments(o, k, v, first)
    BY <1>2, BeginsCases
  <2>2. CASE invalid
    BY <2>1, <2>2, ReturnMoves DEF Begin
  <2>3. CASE ~invalid
    BY <2>1, <2>3 DEF Begin, BeginArguments
  <2> QED
    BY <2>2, <2>3
<1>3. CASE WriteLock(t)
  BY <1>3 DEF WriteLock
<1>4. CASE PutRefused(t)
  BY <1>4, ReturnMoves DEF PutRefused
<1>5. CASE PutInserts(t)
  <2>1. key[t] \in Keys /\ val[t] \in Vals
    BY <1>5 DEF PutInserts
  <2>2. CASE PutStops(nodes, key[t]) = {}
    BY <1>5, <2>2 DEF PutInserts
  <2>3. CASE PutStops(nodes, key[t]) # {}
    <3>1. nodes' \in [Slots -> Node]
      BY <1>5, <2>1, <2>3, EntryType DEF PutInserts
    <3>2. size' \in 0 .. SizeMod - 1
      <4>1. size + 1 \in Nat /\ size' = (size + 1) % SizeMod
        BY <1>5, <2>3 DEF PutInserts
      <4> QED
        BY <4>1, SizeWraps
    <3> QED
      BY <1>5, <2>3, <3>1, <3>2, ReturnMoves DEF PutInserts
  <2> QED
    BY <2>2, <2>3
<1>6. CASE PutEvicts(t)
  <2>1. key[t] \in Keys /\ val[t] \in Vals
    BY <1>6 DEF PutEvicts, Return
  <2>2. nodes' \in [Slots -> Node]
    BY <1>6, <2>1, EntryType DEF PutEvicts
  <2> QED
    BY <1>6, <2>2, ReturnMoves DEF PutEvicts
<1>7. CASE Delete(t)
  <2>1. nodes' \in [Slots -> Node]
    <3>1. index[t] \in Slots => [nodes[index[t]] EXCEPT !.tombstone = TRUE] \in Node
      BY TombstoneType
    <3>2. nodes' = [nodes EXCEPT ![index[t]] = [nodes[index[t]] EXCEPT !.tombstone = TRUE]]
      BY <1>7 DEF Delete
    <3> QED
      BY <3>1, <3>2
  <2>2. size' \in 0 .. SizeMod - 1
    <3>1. size + SizeMod - 1 \in Nat
      BY HashmapAssumption, HashTableAssumption
    <3>2. size' = (size + SizeMod - 1) % SizeMod
      BY <1>7 DEF Delete
    <3> HIDE DEF TypeOK, ArgumentsOK
    <3> QED
      BY <3>1, <3>2, SizeWraps
  <2> QED
    BY <1>7, <2>1, <2>2 DEF Delete
<1>8. CASE DeleteReads(t)
  <2>1. nodes[index[t]].val \in Vals \cup {"null"}
    BY <1>8 DEF DeleteReads, Return, Node
  <2> QED
    BY <1>8, <2>1, ReturnMoves DEF DeleteReads
<1>9. CASE ClearMap(t)
  <2>1. nodes' \in [Slots -> Node]
    BY <1>9 DEF ClearMap, Clear, Node
  <2>2. 0 \in 0 .. SizeMod - 1
    BY HashmapAssumption, HashTableAssumption
  <2> QED
    BY <1>9, <2>1, <2>2, ReturnMoves DEF ClearMap
<1>10. CASE InvalidateMap(t)
  BY <1>10, ReturnMoves DEF InvalidateMap
<1>11. CASE ReaderEnter(t)
  BY <1>11 DEF ReaderEnter
<1>12. CASE ReaderWriteLock(t)
  BY <1>12 DEF ReaderWriteLock
<1>13. CASE ReaderEntered(t)
  BY <1>13 DEF ReaderEntered
<1>14. CASE Scan(t)
  <2>1. key[t] \in Keys
    BY <1>14 DEF Scan
  <2>2. Get(nodes, key[t]) \in Vals \cup {"null"} /\ TrueIndex(nodes, key[t]) \in Slots \cup {-1}
    BY <2>1, GetType, TrueIndexIsLive
  <2>3. val' \in [Threads -> Vals \cup {"null", "true", "false"}] /\ index' \in [Threads -> Slots \cup {-1}]
    BY <1>14, <2>2 DEF Scan
  <2>4. \A u \in Threads : u # t => val'[u] = val[u] /\ index'[u] = index[u]
    BY <1>14 DEF Scan
  <2> QED
    BY <1>14, <2>1, <2>3, <2>4 DEF Scan
<1>15. CASE ReaderLeave(t)
  <2>1. num_readers' \in Nat
    <3>1. t \in At(Counted) /\ IsFiniteSet(At(Counted))
      BY <1>15, HashmapAssumption, FS_Subset DEF ReaderLeave, At, Counted
    <3>2. num_readers # 0
      BY <3>1, FS_EmptySet DEF LocksOK
    <3> QED
      BY <1>15, <3>2 DEF ReaderLeave
  <2> QED
    BY <1>15, <2>1 DEF ReaderLeave
<1>16. CASE ReaderLeft(t)
  <2>1. CASE op[t] = "get"
    BY <1>16, <2>1, ReturnMoves DEF ReaderLeft
  <2>2. CASE op[t] = "delete" /\ val[t] # "null" /\ ~invalid
    BY <1>16, <2>2 DEF ReaderLeft
  <2>3. CASE op[t] = "index" /\ index[t] # -1
    BY <1>16, <2>3 DEF ReaderLeft
  <2>4. CASE /\ op[t] # "get"
             /\ ~(op[t] = "delete" /\ val[t] # "null" /\ ~invalid)
             /\ ~(op[t] = "index" /\ index[t] # -1)
    BY <1>16, <2>4, ReturnMoves DEF ReaderLeft
  <2> QED
    BY <2>1, <2>2, <2>3, <2>4
<1> QED
  BY <1>2, <1>3, <1>4, <1>5, <1>6, <1>7, <1>8, <1>9, <1>10, <1>11, <1>12, <1>13, <1>14,
     <1>15, <1>16, StepCases
-----------------------------------------------------------------------------
(***************************************************************************)
(* The two locks and the count of the readers.                             *)
(***************************************************************************)
LEMMA AtCounts ==
    ASSUME TypeOK, NEW t \in Threads, NEW labels, NEW from, NEW to \in Labels,
           Goto(t, from, to)
    PROVE  /\ IsFiniteSet(At(labels)) /\ IsFiniteSet(At(labels)')
           /\ Cardinality(At(labels)) \in Nat /\ Cardinality(At(labels)') \in Nat
           /\ (from \in labels <=> to \in labels) => At(labels)' = At(labels)
           /\ from \notin labels /\ to \in labels =>
                 /\ At(labels)' = At(labels) \cup {t}
                 /\ Cardinality(At(labels)') = Cardinality(At(labels)) + 1
           /\ from \in labels /\ to \notin labels =>
                 /\ At(labels)' = At(labels) \ {t}
                 /\ Cardinality(At(labels)) = Cardinality(At(labels)') + 1
<1>1. /\ pc[t] = from /\ pc'[t] = to
      /\ \A u \in Threads : u # t => pc'[u] = pc[u]
  BY GotoMoves
<1>2. IsFiniteSet(At(labels)) /\ IsFiniteSet(At(labels)')
  BY HashmapAssumption, FS_Subset DEF At
<1>3. Cardinality(At(labels)) \in Nat /\ Cardinality(At(labels)') \in Nat
  BY <1>2, FS_CardinalityType
<1>4. (from \in labels <=> to \in labels) => At(labels)' = At(labels)
  BY <1>1 DEF At
<1>5. ASSUME from \notin labels, to \in labels
      PROVE  /\ At(labels)' = At(labels) \cup {t}
             /\ Cardinality(At(labels)') = Cardinality(At(labels)) + 1
  <2>1. At(labels)' = At(labels) \cup {t} /\ t \notin At(labels)
    BY <1>1, <1>5 DEF At
  <2> QED
    BY <1>2, <2>1, FS_AddElement
<1>6. ASSUME from \in labels, to \notin labels
      PROVE  /\ At(labels)' = At(labels) \ {t}
             /\ Cardinality(At(labels)) = Cardinality(At(labels)') + 1
  <2>1. /\ At(labels) = At(labels)' \cup {t} /\ t \notin At(labels)'
        /\ At(labels)' = At(labels) \ {t}
    BY <1>1, <1>6 DEF At
  <2> QED
    BY <1>2, <2>1, FS_AddElement
<1> QED
  BY <1>2, <1>3, <1>4, <1>5, <1>6

\* A step that is neither a lock nor an unlock keeps what the locks say.
LEMMA UnlockedStep ==
    ASSUME TypeOK, LocksOK, NEW t \in Threads, NEW from, NEW to \in Labels, Goto(t, from, to),
           UNCHANGED sync, from \in InFields <=> to \in InFields,
           from \in Counted <=> to \in Counted, from \in Covered <=> to \in Covered,
           from \in Writing <=> to \in Writing
    PROVE  LocksOK'
<1>1. /\ pc[t] = from /\ pc'[t] = to
      /\ \A u \in Threads : u # t => pc'[u] = pc[u]
  BY GotoMoves
<1>2. /\ At(Counted)' = At(Counted) /\ At(Covered)' = At(Covered)
      /\ At(Writing)' = At(Writing)
  BY <1>1 DEF At
<1>3. \A u \in Threads : pc'[u] \in InFields <=> pc[u] \in InFields
  BY <1>1
<1>4. UNCHANGED <<num_readers, write_lock, fields_lock>>
  BY DEF sync
<1> QED
  BY <1>2, <1>3, <1>4 DEF LocksOK

\* A writer gives write_lock back where it ends its critical section.
LEMMA WriterUnlocks ==
    ASSUME TypeOK, LocksOK, NEW t \in Threads, NEW from \in Writing,
           NEW to \in {"idle", "d_read"}, Goto(t, from, to),
           write_lock' = "null", UNCHANGED <<num_readers, fields_lock>>
    PROVE  LocksOK'
<1>1. /\ pc[t] = from /\ pc'[t] = to
      /\ \A u \in Threads : u # t => pc'[u] = pc[u]
  BY GotoMoves
<1>2. /\ At(Counted)' = At(Counted) /\ At(Covered)' = At(Covered)
  BY <1>1 DEF At, Counted, Covered, Writing
<1>3. At(Writing) = {t} /\ At(Covered) = {}
  BY <1>1 DEF LocksOK, At
<1>4. At(Writing)' = {}
  BY <1>1, <1>3 DEF At, Writing
<1>5. \A u \in Threads : pc'[u] \in InFields <=> pc[u] \in InFields
  BY <1>1 DEF InFields, Writing
<1> QED
  BY <1>2, <1>3, <1>4, <1>5 DEF LocksOK

\* Every step keeps what the two mutexes and the counter say.
LEMMA LockStep == TypeOK /\ LocksOK /\ [Next]_vars => LocksOK'
<1> SUFFICES ASSUME TypeOK, LocksOK, [Next]_vars PROVE LocksOK'
  OBVIOUS
<1>1. CASE UNCHANGED vars
  BY <1>1 DEF vars, sync, LocksOK, At
<1> SUFFICES ASSUME NEW t \in Threads, Begins(t) \/ Step(t) PROVE LocksOK'
  BY <1>1 DEF Next
<1> USE DEF InFields, Counted, Covered, Writing
<1>2. CASE Begins(t)
  <2>1. PICK o, k, v, first, failure :
           Begin(t, o, k, v, first, failure) /\ BeginArguments(o, k, v, first)
    BY <1>2, BeginsCases
  <2>2. \E to \in {"idle", "p_lock", "r_enter", "c_lock", "i_lock"} : Goto(t, "idle", to)
    BY <2>1 DEF Begin, Return, BeginArguments
  <2> QED
    BY <2>1, <2>2, UnlockedStep DEF Begin
<1>3. CASE WriteLock(t)
  <2>1. PICK from, to : /\ Goto(t, from, to)
                        /\ from \in {"p_lock", "d_lock", "c_lock", "i_lock"}
                        /\ to \in {"p_body", "d_body", "c_body", "i_body"}
    BY <1>3 DEF WriteLock
  <2>2. /\ pc[t] = from /\ pc'[t] = to /\ \A u \in Threads : u # t => pc'[u] = pc[u]
    BY <2>1, GotoMoves
  <2>3. At(Writing) = {} /\ At(Covered) = {}
    BY <1>3, HashmapAssumption DEF WriteLock, LocksOK, At
  <2>4. At(Counted)' = At(Counted) /\ At(Covered)' = At(Covered) /\ At(Writing)' = {t}
    BY <2>1, <2>2, <2>3 DEF At
  <2> QED
    BY <1>3, <2>1, <2>2, <2>3, <2>4 DEF WriteLock, LocksOK
<1>4. CASE PutRefused(t)
  BY <1>4, WriterUnlocks DEF PutRefused, Return
<1>5. CASE PutInserts(t)
  <2>1. CASE PutStops(nodes, key[t]) = {}
    BY <1>5, <2>1, UnlockedStep DEF PutInserts, sync
  <2>2. CASE PutStops(nodes, key[t]) # {}
    BY <1>5, <2>2, WriterUnlocks DEF PutInserts, Return
  <2> QED
    BY <2>1, <2>2
<1>6. CASE PutEvicts(t)
  BY <1>6, WriterUnlocks DEF PutEvicts, Return
<1>7. CASE Delete(t)
  BY <1>7, WriterUnlocks DEF Delete
<1>8. CASE DeleteReads(t)
  BY <1>8, UnlockedStep DEF DeleteReads, Return
<1>9. CASE ClearMap(t)
  BY <1>9, WriterUnlocks DEF ClearMap, Return
<1>10. CASE InvalidateMap(t)
  BY <1>10, WriterUnlocks DEF InvalidateMap, Return
<1>11. CASE ReaderEnter(t)
  <2>1. PICK to \in {"r_write", "r_entered"} :
           Goto(t, "r_enter", to) /\ (to = "r_write" <=> num_readers = 0)
    BY <1>11 DEF ReaderEnter
  <2>2. /\ pc[t] = "r_enter" /\ pc'[t] = to /\ \A u \in Threads : u # t => pc'[u] = pc[u]
    BY <2>1, GotoMoves
  <2>3. \A u \in Threads : pc[u] \notin InFields
    BY <1>11, HashmapAssumption DEF ReaderEnter, LocksOK
  <2>4. num_readers' = Cardinality(At(Counted)')
    BY <1>11, <2>1, AtCounts DEF ReaderEnter, LocksOK
  <2>5. At(Writing)' = At(Writing)
    BY <2>1, <2>2 DEF At
  <2>6. CASE to = "r_write"
    <3>1. At(Covered)' = At(Covered)
      BY <2>2, <2>6 DEF At
    <3> QED
      BY <1>11, <2>2, <2>3, <2>4, <2>5, <3>1 DEF ReaderEnter, LocksOK
  <2>7. CASE to = "r_entered"
    <3>1. At(Counted) # {}
      BY <2>1, <2>7, FS_EmptySet DEF LocksOK
    <3>2. At(Covered) # {}
      BY <2>3, <3>1 DEF At
    <3> QED
      BY <1>11, <2>2, <2>3, <2>4, <2>5, <3>2 DEF ReaderEnter, LocksOK
  <2> QED
    BY <2>6, <2>7
<1>12. CASE ReaderWriteLock(t)
  <2>1. /\ Goto(t, "r_write", "r_entered")
        /\ pc[t] = "r_write" /\ pc'[t] = "r_entered" /\ \A u \in Threads : u # t => pc'[u] = pc[u]
    BY <1>12, GotoMoves DEF ReaderWriteLock
  <2>2. At(Counted)' = At(Counted) /\ At(Writing)' = At(Writing)
    BY <2>1, AtCounts
  <2>3. At(Writing) = {}
    BY <1>12, HashmapAssumption DEF ReaderWriteLock, LocksOK, At
  <2> QED
    BY <1>12, <2>1, <2>2, <2>3, HashmapAssumption DEF ReaderWriteLock, LocksOK
<1>13. CASE ReaderEntered(t)
  <2>1. /\ Goto(t, "r_entered", "r_scan")
        /\ pc[t] = "r_entered" /\ pc'[t] = "r_scan" /\ \A u \in Threads : u # t => pc'[u] = pc[u]
    BY <1>13, GotoMoves DEF ReaderEntered
  <2>2. /\ At(Counted)' = At(Counted) /\ At(Covered)' = At(Covered)
        /\ At(Writing)' = At(Writing)
    BY <2>1, AtCounts
  <2> QED
    BY <1>13, <2>1, <2>2, HashmapAssumption DEF ReaderEntered, LocksOK
<1>14. CASE Scan(t)
  BY <1>14, UnlockedStep DEF Scan
<1>15. CASE ReaderLeave(t)
  <2>1. /\ Goto(t, "r_leave", "r_left")
        /\ pc[t] = "r_leave" /\ pc'[t] = "r_left" /\ \A u \in Threads : u # t => pc'[u] = pc[u]
    BY <1>15, GotoMoves DEF ReaderLeave
  <2>2. /\ At(Counted)' = At(Counted) \ {t} /\ At(Writing)' = At(Writing)
        /\ IsFiniteSet(At(Counted)') /\ Cardinality(At(Counted)') \in Nat
        /\ num_readers = Cardinality(At(Counted)') + 1
    BY <2>1, AtCounts DEF LocksOK
  <2>3. num_readers' = Cardinality(At(Counted)')
    BY <1>15, <2>2 DEF ReaderLeave
  <2>4. t \in At(Covered)
    BY <2>1 DEF At
  <2>5. At(Covered)' # {} => write_lock' # "null"
    <3>1. CASE num_readers = 1
      <4>1. At(Counted)' = {}
        BY <2>2, <3>1, FS_EmptySet
      <4> QED
        BY <4>1 DEF At
    <3>2. CASE num_readers # 1
      BY <1>15, <2>4, <3>2 DEF ReaderLeave, LocksOK
    <3> QED
      BY <3>1, <3>2
  <2>6. At(Writing)' = {}
    BY <2>2, <2>4 DEF LocksOK
  <2> QED
    BY <1>15, <2>1, <2>3, <2>5, <2>6, HashmapAssumption DEF ReaderLeave, LocksOK
<1>16. CASE ReaderLeft(t)
  <2>1. PICK to \in {"idle", "r_enter", "d_lock"} : Goto(t, "r_left", to)
    BY <1>16 DEF ReaderLeft, Return
  <2>2. /\ pc[t] = "r_left" /\ pc'[t] = to /\ \A u \in Threads : u # t => pc'[u] = pc[u]
    BY <2>1, GotoMoves
  <2>3. /\ At(Counted)' = At(Counted) /\ At(Covered)' = At(Covered)
        /\ At(Writing)' = At(Writing)
    BY <2>2 DEF At
  <2> QED
    BY <1>16, <2>2, <2>3, HashmapAssumption DEF ReaderLeft, LocksOK
<1> QED
  BY <1>2, <1>3, <1>4, <1>5, <1>6, <1>7, <1>8, <1>9, <1>10, <1>11, <1>12, <1>13, <1>14,
     <1>15, <1>16, StepCases
-----------------------------------------------------------------------------
(***************************************************************************)
(* The entries.                                                            *)
(***************************************************************************)
\* The two ways in which put writes a slot: it is the slot where get will look
\* first, or one that comes after live entries of other keys.
LEMMA PutWrites ==
    ASSUME TypeOK, ArgumentsOK, NEW t \in Threads, pc[t] = "p_body",
           PutInserts(t) \/ PutEvicts(t), nodes' # nodes \/ pc'[t] = "idle"
    PROVE  \E i \in Slots :
              /\ nodes' = [nodes EXCEPT ![i] = Entry(t)]
              /\ \A j \in Slots : j < Distance(key[t], i) =>
                    LET n == nodes[Probe(key[t], j)]
                    IN  n.key # "null" /\ ~n.tombstone /\ n.key # key[t]
<1>1. key[t] \in Keys /\ val[t] \in Vals
  BY DEF ArgumentsOK
<1>2. CASE PutInserts(t)
  <2>1. PutStops(nodes, key[t]) # {}
    BY <1>2 DEF PutInserts, Goto, TypeOK, table
  <2>2. nodes' = [nodes EXCEPT ![PutSlot(nodes, key[t])] = Entry(t)]
    BY <1>2, <2>1 DEF PutInserts
  <2> QED
    BY <1>1, <2>1, <2>2, PutSlotIsFirst
<1>3. CASE PutEvicts(t)
  <2>1. nodes' = [nodes EXCEPT ![Index[key[t]]] = Entry(t)]
    BY <1>3 DEF PutEvicts
  <2>2. 0 \in Slots /\ Index[key[t]] \in Slots /\ Slots \subseteq Nat
    BY <1>1, HashTableAssumption DEF Slots
  <2>3. Distance(key[t], Index[key[t]]) = 0
    BY <2>2, HashTableAssumption DEF Distance, Slots
  <2>4. \A j \in Slots : ~(j < Distance(key[t], Index[key[t]]))
    BY <2>2, <2>3
  <2> QED
    BY <2>1, <2>2, <2>4
<1> QED
  BY <1>2, <1>3

\* What a step does to the array: nothing, a put, a tombstone, or all of it cleared.
LEMMA NodesChange ==
    ASSUME TypeOK, ArgumentsOK, NEW t \in Threads, Begins(t) \/ Step(t)
    PROVE  \/ nodes' = nodes
           \/ /\ pc[t] = "p_body" /\ (PutInserts(t) \/ PutEvicts(t))
           \/ /\ pc[t] = "d_body" /\ index[t] \in Slots
              /\ nodes' = [nodes EXCEPT ![index[t]].tombstone = TRUE]
           \/ ClearMap(t)
<1> USE DEF table
<1>1. CASE Begins(t)
  BY <1>1, BeginsCases DEF Begin
<1>2. CASE WriteLock(t) \/ PutRefused(t) \/ DeleteReads(t) \/ InvalidateMap(t) \/ Scan(t)
  BY <1>2 DEF WriteLock, PutRefused, DeleteReads, InvalidateMap, Scan
<1>3. CASE ReaderEnter(t) \/ ReaderWriteLock(t) \/ ReaderEntered(t) \/ ReaderLeave(t)
  BY <1>3 DEF ReaderEnter, ReaderWriteLock, ReaderEntered, ReaderLeave
<1>4. CASE ReaderLeft(t)
  BY <1>4 DEF ReaderLeft
<1>5. CASE PutInserts(t) \/ PutEvicts(t)
  BY <1>5 DEF PutInserts, PutEvicts
<1>6. CASE Delete(t)
  BY <1>6 DEF Delete, Goto, ArgumentsOK
<1> QED
  BY <1>1, <1>2, <1>3, <1>4, <1>5, <1>6, StepCases

\* A put makes no free slot, and puts its own entry where its probe path has none.
LEMMA PutKeepsChains ==
    ASSUME TypeOK, ArgumentsOK, KeysHaveValues, ProbeChainsUnbroken,
           NEW t \in Threads, pc[t] = "p_body", PutInserts(t) \/ PutEvicts(t),
           nodes' # nodes
    PROVE  KeysHaveValues' /\ ProbeChainsUnbroken'
<1>1. PICK p \in Slots :
         /\ nodes' = [nodes EXCEPT ![p] = Entry(t)]
         /\ \A j \in Slots : j < Distance(key[t], p) => nodes[Probe(key[t], j)].key # "null"
  BY PutWrites
<1>2. key[t] \in Keys /\ val[t] \in Vals /\ key[t] # "null" /\ val[t] # "null"
  BY HashTableAssumption DEF ArgumentsOK
<1>3. /\ nodes'[p] = Entry(t) /\ \A i \in Slots : i # p => nodes'[i] = nodes[i]
      /\ Entry(t).key = key[t] /\ Entry(t).val = val[t]
  BY <1>1 DEF TypeOK, Entry
<1>4. \A i \in Slots : nodes[i].key # "null" => nodes'[i].key # "null"
  BY <1>2, <1>3
<1>5. KeysHaveValues'
  BY <1>2, <1>3 DEF KeysHaveValues
<1>6. ASSUME NEW i \in Live(nodes)', NEW j \in Slots, j < Distance(nodes'[i].key, i)
      PROVE  nodes'[Probe(nodes'[i].key, j)].key # "null"
  <2>1. i \in Slots
    BY <1>6 DEF Live
  <2>2. CASE i = p
    BY <1>1, <1>2, <1>3, <1>4, <1>6, <2>2, ProbeIsBijective
  <2>3. CASE i # p
    <3>1. i \in Live(nodes) /\ nodes'[i] = nodes[i] /\ nodes[i].key \in Keys
      BY <1>3, <1>6, <2>1, <2>3 DEF Live, TypeOK, Node
    <3>2. nodes[Probe(nodes[i].key, j)].key # "null"
      BY <1>6, <3>1 DEF ProbeChainsUnbroken, Distance
    <3> QED
      BY <1>4, <3>1, <3>2, ProbeIsBijective
  <2> QED
    BY <2>2, <2>3
<1>7. ProbeChainsUnbroken'
  BY <1>6 DEF ProbeChainsUnbroken, Distance
<1> QED
  BY <1>5, <1>7

\* A tombstone has its key still.
LEMMA MarkKeepsChains ==
    ASSUME TypeOK, KeysHaveValues, ProbeChainsUnbroken,
           NEW m \in Slots, nodes' = [nodes EXCEPT ![m].tombstone = TRUE]
    PROVE  KeysHaveValues' /\ ProbeChainsUnbroken' /\ Live(nodes)' = Live(nodes) \ {m}
<1>1. \A i \in Slots : nodes'[i].key = nodes[i].key /\ nodes'[i].val = nodes[i].val
  BY DEF TypeOK, Node
<1>2. Live(nodes)' = Live(nodes) \ {m}
  BY DEF TypeOK, Node, Live
<1>3. \A i \in Live(nodes) : i \in Slots /\ nodes[i].key \in Keys
  BY DEF Live, TypeOK, Node
<1>4. \A i \in Live(nodes), j \in Slots : Probe(nodes[i].key, j) \in Slots
  BY <1>3, ProbeIsBijective
<1>5. KeysHaveValues'
  BY <1>1 DEF KeysHaveValues
<1>6. ProbeChainsUnbroken'
  BY <1>1, <1>2, <1>3, <1>4 DEF ProbeChainsUnbroken
<1> QED
  BY <1>2, <1>5, <1>6

\* Every step keeps the probe chains unbroken.
LEMMA ChainStep ==
    /\ TypeOK /\ ArgumentsOK /\ KeysHaveValues /\ ProbeChainsUnbroken /\ [Next]_vars
    => KeysHaveValues' /\ ProbeChainsUnbroken'
<1> SUFFICES ASSUME TypeOK, ArgumentsOK, KeysHaveValues, ProbeChainsUnbroken, [Next]_vars
             PROVE  KeysHaveValues' /\ ProbeChainsUnbroken'
  OBVIOUS
<1>1. CASE nodes' = nodes
  BY <1>1 DEF KeysHaveValues, ProbeChainsUnbroken, Live
<1>2. CASE nodes' # nodes
  <2>1. PICK t \in Threads : Begins(t) \/ Step(t)
    BY <1>2 DEF Next, vars, table
  <2>2. CASE pc[t] = "p_body" /\ (PutInserts(t) \/ PutEvicts(t))
    BY <1>2, <2>2, PutKeepsChains
  <2>3. CASE index[t] \in Slots /\ nodes' = [nodes EXCEPT ![index[t]].tombstone = TRUE]
    BY <2>3, MarkKeepsChains
  <2>4. CASE ClearMap(t)
    <3>1. \A i \in Slots : nodes'[i].key = "null"
      BY <2>4 DEF ClearMap, Clear, KeysHaveValues
    <3>2. Live(nodes)' = {}
      BY <3>1 DEF Live
    <3> QED
      BY <3>1, <3>2 DEF KeysHaveValues, ProbeChainsUnbroken
  <2> QED
    BY <1>2, <2>1, <2>2, <2>3, <2>4, NodesChange
<1> QED
  BY <1>1, <1>2
-----------------------------------------------------------------------------
\* A step moves one thread.
LEMMA MovesOne ==
    ASSUME TypeOK, NEW t \in Threads, NEW u \in Threads, Begins(u) \/ Step(u), pc'[t] # pc[t]
    PROVE  u = t
<1> USE DEF TypeOK, Goto
<1>1. CASE Begins(u)
  BY <1>1, BeginsCases DEF Begin, Return
<1>2. CASE WriteLock(u) \/ PutRefused(u) \/ PutInserts(u) \/ PutEvicts(u)
  BY <1>2 DEF WriteLock, PutRefused, PutInserts, PutEvicts, Return
<1>3. CASE Delete(u) \/ DeleteReads(u) \/ ClearMap(u) \/ InvalidateMap(u)
  BY <1>3 DEF Delete, DeleteReads, ClearMap, InvalidateMap, Return
<1>4. CASE \/ ReaderEnter(u) \/ ReaderWriteLock(u) \/ ReaderEntered(u) \/ Scan(u)
           \/ ReaderLeave(u) \/ ReaderLeft(u)
  BY <1>4 DEF ReaderEnter, ReaderWriteLock, ReaderEntered, Scan, ReaderLeave, ReaderLeft, Return
<1> QED
  BY <1>1, <1>2, <1>3, <1>4, StepCases

\* A put that ends and does not return false has written.
LEMMA PutSucceeds ==
    ASSUME TypeOK, NEW t \in Threads, Begins(t) \/ Step(t), pc[t] = "p_body", val'[t] # "false"
    PROVE  PutInserts(t) \/ PutEvicts(t)
<1> USE DEF TypeOK, Goto
<1>1. ~Begins(t)
  BY BeginsCases DEF Begin
<1>2. ~PutRefused(t)
  BY DEF PutRefused, Return
<1>3. ~(WriteLock(t) \/ Delete(t) \/ DeleteReads(t) \/ ClearMap(t) \/ InvalidateMap(t))
  BY DEF WriteLock, Delete, DeleteReads, ClearMap, InvalidateMap, Return
<1>4. ~(\/ ReaderEnter(t) \/ ReaderWriteLock(t) \/ ReaderEntered(t) \/ Scan(t)
        \/ ReaderLeave(t) \/ ReaderLeft(t))
  BY DEF ReaderEnter, ReaderWriteLock, ReaderEntered, Scan, ReaderLeave, ReaderLeft, Return
<1> QED
  BY <1>1, <1>2, <1>3, <1>4, StepCases

\* The map begins in the invariant.
LEMMA InitEstablishes == Init => MapInv
<1> SUFFICES ASSUME Init PROVE MapInv
  OBVIOUS
<1>1. TypeOK
  <2>1. Empty \in Node /\ 0 \in 0 .. SizeMod - 1
    BY HashmapAssumption, HashTableAssumption DEF Empty, Node
  <2> QED
    BY <2>1 DEF Init, TypeOK
<1>2. \A labels : "idle" \notin labels => At(labels) = {}
  BY DEF Init, At
<1>3. At(Counted) = {} /\ At(Covered) = {} /\ At(Writing) = {}
  BY <1>2 DEF Counted, Covered, Writing
<1>4. LocksOK
  BY <1>3, FS_EmptySet, HashmapAssumption DEF Init, LocksOK, InFields
<1>5. \A j \in Slots : nodes[j].key = "null"
  BY DEF Init, Empty
<1>6. KeysHaveValues /\ ProbeChainsUnbroken
  BY <1>5 DEF KeysHaveValues, ProbeChainsUnbroken, Live
<1>7. ArgumentsOK
  BY DEF Init, ArgumentsOK
<1> QED
  BY <1>1, <1>4, <1>6, <1>7 DEF MapInv

\* The invariant of the map, however calls race.
LEMMA MapInvHolds == Spec => []MapInv
<1>1. MapInv /\ [Next]_vars => MapInv'
  BY TypeStep, LockStep, ChainStep DEF MapInv
<1> QED
  BY <1>1, InitEstablishes, PTL DEF Spec

\* The type invariant holds in every reachable state.
THEOREM TypeCorrect == Spec => []TypeOK
BY MapInvHolds, PTL DEF MapInv

\* The hand-made readers-writer lock excludes, for any number of threads and
\* whatever they call: while one writes nobody else writes, scans or has begun to.
THEOREM ExclusionCorrect == Spec => []ReadersExcludeWriters
<1>1. MapInv => ReadersExcludeWriters
  BY HashmapAssumption DEF MapInv, LocksOK, ReadersExcludeWriters, At, Covered, Writing
<1> QED
  BY <1>1, MapInvHolds, PTL

\* For every hash function and capacity, with deletions and evictions, no entry
\* ever has a free slot before it on its probe path.
THEOREM ChainsCorrect == Spec => []ProbeChainsUnbroken
BY MapInvHolds, PTL DEF MapInv

\* For every hash function and capacity, a put that returns true has made get
\* return its value, whatever tombstones and older entries of the key there were.
THEOREM PutsAreVisible == Spec => PutIsVisible
<1>1. MapInv /\ [Next]_vars =>
         [\A t \in Threads : pc[t] = "p_body" /\ pc'[t] = "idle" /\ val'[t] = "true" =>
                                Get(nodes', key[t]) = val[t]]_vars
  <2> SUFFICES ASSUME MapInv, [Next]_vars, NEW t \in Threads,
                      pc[t] = "p_body", pc'[t] = "idle", val'[t] = "true"
               PROVE  Get(nodes', key[t]) = val[t]
    OBVIOUS
  <2> USE DEF MapInv
  <2>1. PICK u \in Threads : Begins(u) \/ Step(u)
    BY DEF Next, vars
  <2>2. u = t
    BY <2>1, MovesOne
  <2>3. PutInserts(t) \/ PutEvicts(t)
    BY <2>1, <2>2, PutSucceeds
  <2>4. PICK p \in Slots :
           /\ nodes' = [nodes EXCEPT ![p] = Entry(t)]
           /\ \A j \in Slots : j < Distance(key[t], p) =>
                 LET n == nodes[Probe(key[t], j)]
                 IN  n.key # "null" /\ ~n.tombstone /\ n.key # key[t]
    BY <2>3, PutWrites
  <2>5. key[t] \in Keys
    BY DEF ArgumentsOK
  <2>6. /\ nodes'[p].key = key[t] /\ nodes'[p].val = val[t] /\ ~nodes'[p].tombstone
        /\ \A j \in Slots : j # p => nodes'[j] = nodes[j]
    BY <2>4 DEF TypeOK, Entry
  <2>7. ASSUME NEW j \in Slots, j < Distance(key[t], p)
        PROVE  LET n == nodes'[Probe(key[t], j)]
               IN  n.key # "null" /\ (n.tombstone \/ n.key # key[t])
    <3>1. Probe(key[t], j) \in Slots /\ Probe(key[t], j) # p
      BY <2>5, <2>7, ProbeIsBijective, HashTableAssumption DEF Slots
    <3> QED
      BY <2>4, <2>6, <2>7, <3>1
  <2> QED
    BY <2>5, <2>6, <2>7, GetFindsEntry
<1> QED
  BY <1>1, MapInvHolds, PTL DEF Spec, PutIsVisible
-----------------------------------------------------------------------------
(***************************************************************************)
(* The count of the entries, when at most one thread deletes and clears.   *)
(***************************************************************************)
Removes(t) == MayCall[t] \cap {"delete", "clear"} # {}

OneRemover == \A t, u \in Threads : Removes(t) /\ Removes(u) => t = u

\* Who deletes or clears may.
RemoversOK ==
    \A t \in Threads :
        /\ op[t] \in {"delete", "index"} => "delete" \in MayCall[t]
        /\ pc[t] \in {"d_lock", "d_body"} => op[t] = "index"
        /\ pc[t] \in {"c_lock", "c_body"} => op[t] = "clear"
        /\ op[t] = "clear" => "clear" \in MayCall[t]

\* A delete has an index and is on its way to make a tombstone of that slot.
Holding(t) ==
    /\ op[t] = "index" /\ index[t] # -1
    /\ pc[t] \in {"r_leave", "r_left", "d_lock", "d_body"}

\* The slot has a live entry until then: no other thread can have taken it away.
RemovalOK == RemoversOK /\ \A t \in Threads : Holding(t) => index[t] \in Live(nodes)

CapacityInv == RemovalOK /\ SizeCoversEntries /\ PutReturns

\* There are no more live entries than slots.
LEMMA LiveFinite == \A table1 : /\ IsFiniteSet(Slots) /\ Cardinality(Slots) = Capacity
                                /\ IsFiniteSet(Live(table1))
                                /\ Cardinality(Live(table1)) \in Nat
                                /\ Cardinality(Live(table1)) <= Capacity
<1>1. 0 \in Int /\ Capacity - 1 \in Int
  BY HashTableAssumption
<1>2. IsFiniteSet(Slots) /\ Cardinality(Slots) = Capacity
  BY <1>1, FS_Interval, HashTableAssumption DEF Slots
<1>3. \A table1 : Live(table1) \in SUBSET Slots
  BY DEF Live
<1> QED
  BY <1>2, <1>3, FS_Subset, FS_CardinalityType

\* A table with fewer entries than slots has a slot that ends put's loop.
LEMMA PutHasRoom ==
    ASSUME NEW table1, NEW k \in Keys, Cardinality(Live(table1)) < Capacity
    PROVE  PutStops(table1, k) # {}
<1>1. Live(table1) # Slots /\ Live(table1) \subseteq Slots
  BY LiveFinite, HashTableAssumption DEF Live
<1>2. PICK i \in Slots : table1[i].key = "null" \/ table1[i].tombstone
  BY <1>1 DEF Live
<1>3. Distance(k, i) \in Slots /\ Probe(k, Distance(k, i)) = i
  BY ProbeIsBijective
<1> QED
  BY <1>2, <1>3 DEF PutStops

\* A step of t leaves the locals of the others alone.
LEMMA MovesOthersNot ==
    ASSUME TypeOK, NEW t \in Threads, Begins(t) \/ Step(t), NEW u \in Threads, u # t
    PROVE  pc'[u] = pc[u] /\ op'[u] = op[u] /\ index'[u] = index[u]
<1> USE DEF TypeOK, Goto, args
<1>1. CASE Begins(t)
  BY <1>1, BeginsCases DEF Begin, Return
<1>2. CASE WriteLock(t) \/ PutRefused(t) \/ PutInserts(t) \/ PutEvicts(t)
  BY <1>2 DEF WriteLock, PutRefused, PutInserts, PutEvicts, Return
<1>3. CASE Delete(t) \/ DeleteReads(t) \/ ClearMap(t) \/ InvalidateMap(t)
  BY <1>3 DEF Delete, DeleteReads, ClearMap, InvalidateMap, Return
<1>4. CASE ReaderEnter(t) \/ ReaderWriteLock(t) \/ ReaderEntered(t) \/ ReaderLeave(t)
  BY <1>4 DEF ReaderEnter, ReaderWriteLock, ReaderEntered, ReaderLeave
<1>5. CASE Scan(t) \/ ReaderLeft(t)
  BY <1>5 DEF Scan, ReaderLeft, Return
<1> QED
  BY <1>1, <1>2, <1>3, <1>4, <1>5, StepCases

\* A put never takes a live entry's slot out of use.
LEMMA PutKeepsLive ==
    ASSUME TypeOK, ArgumentsOK, NEW t \in Threads, pc[t] = "p_body",
           PutInserts(t) \/ PutEvicts(t), nodes' # nodes
    PROVE  Live(nodes) \subseteq Live(nodes)'
<1>1. PICK p \in Slots : nodes' = [nodes EXCEPT ![p] = Entry(t)]
  BY PutWrites
<1>2. Entry(t).key # "null" /\ ~Entry(t).tombstone
  BY HashTableAssumption DEF Entry, ArgumentsOK
<1> QED
  BY <1>1, <1>2 DEF TypeOK, Live

\* What the step of a thread does to its own call.
LEMMA OwnRemoval ==
    ASSUME TypeOK, RemoversOK, NEW t \in Threads, Begins(t) \/ Step(t)
    PROVE  /\ op'[t] \in {"delete", "index"} => "delete" \in MayCall[t]
           /\ pc'[t] \in {"d_lock", "d_body"} => op'[t] = "index"
           /\ pc'[t] \in {"c_lock", "c_body"} => op'[t] = "clear"
           /\ op'[t] = "clear" => "clear" \in MayCall[t]
<1> USE DEF TypeOK, RemoversOK, Goto, args
<1>1. CASE Begins(t)
  <2>1. PICK o, k, v, first, failure :
           Begin(t, o, k, v, first, failure) /\ BeginArguments(o, k, v, first)
    BY <1>1, BeginsCases
  <2>2. CASE invalid
    BY <2>1, <2>2 DEF Begin, Return
  <2>3. CASE ~invalid
    BY <2>1, <2>3 DEF Begin, Permitted, BeginArguments
  <2> QED
    BY <2>2, <2>3
<1>2. CASE WriteLock(t)
  BY <1>2 DEF WriteLock
<1>3. CASE PutRefused(t) \/ PutInserts(t) \/ PutEvicts(t)
  BY <1>3 DEF PutRefused, PutInserts, PutEvicts, Return
<1>4. CASE Delete(t) \/ DeleteReads(t) \/ ClearMap(t) \/ InvalidateMap(t)
  BY <1>4 DEF Delete, DeleteReads, ClearMap, InvalidateMap, Return
<1>5. CASE ReaderEnter(t) \/ ReaderWriteLock(t) \/ ReaderEntered(t) \/ ReaderLeave(t) \/ Scan(t)
  BY <1>5 DEF ReaderEnter, ReaderWriteLock, ReaderEntered, ReaderLeave, Scan
<1>6. CASE ReaderLeft(t)
  BY <1>6 DEF ReaderLeft, Return
<1> QED
  BY <1>1, <1>2, <1>3, <1>4, <1>5, <1>6, StepCases

\* A delete has its index from a scan that found a live entry there.
LEMMA OwnIndex ==
    ASSUME MapInv, NEW t \in Threads, Begins(t) \/ Step(t), Holding(t)'
    PROVE  /\ nodes' = nodes /\ size' = size
           /\ index'[t] \in Live(nodes) \/ (Holding(t) /\ index'[t] = index[t])
<1> USE DEF MapInv, TypeOK, Holding, Goto, args, table
<1>1. CASE Begins(t)
  BY <1>1, BeginsCases DEF Begin, Return, BeginArguments
<1>2. CASE WriteLock(t)
  BY <1>2 DEF WriteLock
<1>3. CASE PutRefused(t) \/ PutInserts(t) \/ PutEvicts(t)
  BY <1>3 DEF PutRefused, PutInserts, PutEvicts, Return
<1>4. CASE Delete(t) \/ DeleteReads(t) \/ ClearMap(t) \/ InvalidateMap(t)
  BY <1>4 DEF Delete, DeleteReads, ClearMap, InvalidateMap, Return
<1>5. CASE ReaderEnter(t) \/ ReaderWriteLock(t) \/ ReaderEntered(t)
  BY <1>5 DEF ReaderEnter, ReaderWriteLock, ReaderEntered
<1>6. CASE Scan(t)
  <2>1. key[t] \in Keys /\ op[t] = "index" /\ nodes' = nodes /\ size' = size
    BY <1>6 DEF Scan, ArgumentsOK
  <2>2. index'[t] = TrueIndex(nodes, key[t]) /\ index'[t] # -1
    BY <1>6, <2>1 DEF Scan
  <2> QED
    BY <2>1, <2>2, TrueIndexIsLive
<1>7. CASE ReaderLeave(t)
  BY <1>7 DEF ReaderLeave
<1>8. CASE ReaderLeft(t)
  BY <1>8 DEF ReaderLeft, Return
<1> QED
  BY <1>1, <1>2, <1>3, <1>4, <1>5, <1>6, <1>7, <1>8, StepCases

\* Who changes size or the array.
LEMMA SizeChange ==
    ASSUME TypeOK, NEW t \in Threads, Begins(t) \/ Step(t)
    PROVE  \/ nodes' = nodes /\ size' = size
           \/ PutInserts(t) /\ pc[t] = "p_body" /\ pc'[t] = "idle"
           \/ PutEvicts(t) \/ Delete(t) \/ ClearMap(t)
<1> USE DEF table
<1>1. CASE Begins(t)
  BY <1>1, BeginsCases DEF Begin
<1>2. CASE WriteLock(t) \/ PutRefused(t) \/ DeleteReads(t) \/ InvalidateMap(t) \/ Scan(t)
  BY <1>2 DEF WriteLock, PutRefused, DeleteReads, InvalidateMap, Scan
<1>3. CASE \/ ReaderEnter(t) \/ ReaderWriteLock(t) \/ ReaderEntered(t) \/ ReaderLeave(t)
           \/ ReaderLeft(t)
  BY <1>3 DEF ReaderEnter, ReaderWriteLock, ReaderEntered, ReaderLeave, ReaderLeft
<1>4. CASE PutInserts(t)
  BY <1>4 DEF PutInserts, Return, Goto, TypeOK
<1> QED
  BY <1>1, <1>2, <1>3, <1>4, StepCases

\* Only a put without a slot to stop at goes round for ever.
LEMMA SpinsInPut ==
    ASSUME TypeOK, NEW t \in Threads, Begins(t) \/ Step(t), pc[t] # "p_spin", pc'[t] = "p_spin"
    PROVE  PutInserts(t) /\ PutStops(nodes, key[t]) = {}
<1> USE DEF TypeOK, Goto, args
<1>1. ~Begins(t)
  BY BeginsCases DEF Begin, Return, BeginArguments
<1>2. ~(WriteLock(t) \/ PutRefused(t) \/ PutEvicts(t))
  BY DEF WriteLock, PutRefused, PutEvicts, Return
<1>3. ~(Delete(t) \/ DeleteReads(t) \/ ClearMap(t) \/ InvalidateMap(t))
  BY DEF Delete, DeleteReads, ClearMap, InvalidateMap, Return
<1>4. ~(\/ ReaderEnter(t) \/ ReaderWriteLock(t) \/ ReaderEntered(t) \/ Scan(t)
        \/ ReaderLeave(t) \/ ReaderLeft(t))
  BY DEF ReaderEnter, ReaderWriteLock, ReaderEntered, Scan, ReaderLeave, ReaderLeft, Return
<1>5. PutInserts(t)
  BY <1>1, <1>2, <1>3, <1>4, StepCases
<1> QED
  BY <1>5 DEF PutInserts, Return

\* An index stays that of a live entry while only puts change the table.
LEMMA RemovalStep ==
    ASSUME OneRemover, MapInv, RemovalOK, [Next]_vars
    PROVE  RemovalOK'
<1> USE DEF MapInv, TypeOK
<1>1. CASE UNCHANGED vars
  BY <1>1 DEF vars, table, args, RemovalOK, RemoversOK, Holding, Live
<1> SUFFICES ASSUME NEW t \in Threads, Begins(t) \/ Step(t) PROVE RemovalOK'
  BY <1>1 DEF Next
<1>2. \A u \in Threads : u # t => /\ pc'[u] = pc[u] /\ op'[u] = op[u] /\ index'[u] = index[u]
  BY MovesOthersNot
<1>3. RemoversOK'
  BY <1>2, OwnRemoval DEF RemovalOK, RemoversOK
<1>4. ASSUME NEW u \in Threads, Holding(u), u # t PROVE index[u] \in Live(nodes)'
  <2>1. index[u] \in Live(nodes) /\ index[u] \in Slots /\ Removes(u)
    BY <1>4 DEF RemovalOK, RemoversOK, Holding, Live, Removes
  <2>2. CASE nodes' = nodes
    BY <2>1, <2>2 DEF Live
  <2>3. CASE nodes' # nodes /\ pc[t] = "p_body" /\ (PutInserts(t) \/ PutEvicts(t))
    BY <2>1, <2>3, PutKeepsLive
  <2>4. CASE pc[t] = "d_body" \/ ClearMap(t)
    <3>1. Removes(t)
      BY <2>4 DEF RemovalOK, RemoversOK, Removes, ClearMap, Return, Goto
    <3> QED
      BY <1>4, <2>1, <3>1 DEF OneRemover
  <2> QED
    BY <2>2, <2>3, <2>4, NodesChange
<1>5. Holding(t)' => index'[t] \in Live(nodes)'
  BY OwnIndex DEF RemovalOK, Live
<1> QED
  BY <1>2, <1>3, <1>4, <1>5 DEF RemovalOK, Holding

\* With one remover, every step keeps size enough, and lets a put find a slot.
LEMMA CapacityStep ==
    ASSUME OneRemover, MapInv, CapacityInv, [Next]_vars
    PROVE  SizeCoversEntries' /\ PutReturns'
<1> USE DEF MapInv, CapacityInv, TypeOK
<1>1. CASE UNCHANGED vars
  BY <1>1 DEF vars, table, args, SizeCoversEntries, PutReturns, Live, At
<1> SUFFICES ASSUME NEW t \in Threads, Begins(t) \/ Step(t) 
             PROVE SizeCoversEntries' /\ PutReturns'
  BY <1>1 DEF Next
<1>2. /\ size \in Nat /\ Capacity \in Nat /\ SizeMod \in Nat /\ SizeMod > Capacity
      /\ Cardinality(Live(nodes)) <= size /\ size <= Capacity
  BY HashTableAssumption, HashmapAssumption DEF SizeCoversEntries
<1>3. /\ IsFiniteSet(Live(nodes)) /\ Cardinality(Live(nodes)) \in Nat
      /\ IsFiniteSet(Live(nodes)') /\ Cardinality(Live(nodes)') \in Nat
      /\ Cardinality(Live(nodes)') <= Capacity
  BY LiveFinite
<1>4. SizeCoversEntries'
  <2>1. CASE nodes' = nodes /\ size' = size
    BY <2>1 DEF SizeCoversEntries, Live
  <2>2. CASE PutInserts(t) /\ pc[t] = "p_body" /\ pc'[t] = "idle"
    <3>1. PICK p \in Slots : nodes' = [nodes EXCEPT ![p] = Entry(t)]
      BY <2>2, PutWrites
    <3>2. Live(nodes)' \subseteq Live(nodes) \cup {p}
      BY <3>1 DEF Live
    <3>3. size < Capacity /\ size' = size + 1
      BY <1>2, <2>2 DEF PutInserts, Goto
    <3>4. /\ IsFiniteSet(Live(nodes) \cup {p})
          /\ Cardinality(Live(nodes) \cup {p}) <= Cardinality(Live(nodes)) + 1
      <4>1. /\ IsFiniteSet(Live(nodes) \cup {p})
            /\ Cardinality(Live(nodes) \cup {p}) =
                  IF p \in Live(nodes) THEN Cardinality(Live(nodes)) ELSE Cardinality(Live(nodes)) + 1
        BY <1>3, FS_AddElement
      <4> QED
        BY <1>3, <4>1
    <3>5. Cardinality(Live(nodes)') <= Cardinality(Live(nodes) \cup {p})
      BY <3>2, <3>4, FS_Subset
    <3>6. Cardinality(Live(nodes) \cup {p}) \in Nat
      BY <3>4, FS_CardinalityType
    <3> QED
      BY <1>2, <1>3, <3>3, <3>4, <3>5, <3>6 DEF SizeCoversEntries
  <2>3. CASE PutEvicts(t)
    BY <1>2, <1>3, <2>3 DEF PutEvicts, SizeCoversEntries
  <2>4. CASE Delete(t)
    <3>1. /\ pc[t] = "d_body" /\ index[t] \in Live(nodes) /\ index[t] \in Slots
          /\ nodes' = [nodes EXCEPT ![index[t]].tombstone = TRUE]
      BY <2>4, HashTableAssumption DEF Delete, Goto, RemovalOK, RemoversOK, Holding, ArgumentsOK, Slots
    <3>2. Live(nodes)' = Live(nodes) \ {index[t]}
      BY <3>1 DEF Live, Node
    <3>3. Cardinality(Live(nodes)') = Cardinality(Live(nodes)) - 1
      <4> DEFINE live == Live(nodes)
      <4>1. Cardinality(live \ {index[t]}) =
               IF index[t] \in live THEN Cardinality(live) - 1 ELSE Cardinality(live)
        <5> HIDE DEF live
        <5> QED
          BY <1>3, FS_RemoveElement DEF live
      <4> QED
        BY <3>1, <3>2, <4>1
    <3>4. size > 0
      BY <1>2, <1>3, <3>3
    <3>5. size' = size - 1
      <4>1. (size + SizeMod - 1) % SizeMod = size - 1
        BY <1>2, <3>4
      <4> QED
        BY <2>4, <4>1 DEF Delete
    <3> QED
      BY <1>2, <1>3, <3>3, <3>5 DEF SizeCoversEntries
  <2>5. CASE ClearMap(t)
    <3>1. Live(nodes)' = {}
      BY <2>5 DEF ClearMap, Clear, KeysHaveValues, Live
    <3> QED
      <4>1. Cardinality(Live(nodes)') = 0 /\ size' = 0
        BY <2>5, <3>1, FS_EmptySet DEF ClearMap
      <4> QED
        BY <1>2, <4>1 DEF SizeCoversEntries
  <2> QED
    BY <2>1, <2>2, <2>3, <2>4, <2>5, SizeChange
<1>5. PutReturns'
  <2>1. /\ pc[t] # "p_spin" /\ \A u \in Threads : pc[u] # "p_spin"
    BY DEF PutReturns, At
  <2>2. PutInserts(t) => PutStops(nodes, key[t]) # {}
    <3>1. PutInserts(t) => size < Capacity /\ key[t] \in Keys
      BY DEF PutInserts, ArgumentsOK
    <3> QED
      BY <1>2, <1>3, <3>1, PutHasRoom
  <2>3. pc'[t] # "p_spin"
    BY <2>1, <2>2, SpinsInPut
  <2> QED
    BY <2>1, <2>3, MovesOthersNot DEF PutReturns, At
<1> QED
  BY <1>4, <1>5

\* The invariant of a map with one remover.
LEMMA CapacityInvHolds == OneRemover => (Spec => []CapacityInv)
<1> SUFFICES ASSUME OneRemover PROVE Spec => []CapacityInv
  OBVIOUS
<1>1. Init => CapacityInv
  <2> SUFFICES ASSUME Init PROVE CapacityInv
    OBVIOUS
  <2>1. Live(nodes) = {}
    BY DEF Init, Live, Empty
  <2>2. SizeCoversEntries
    BY <2>1, FS_EmptySet, HashTableAssumption DEF Init, SizeCoversEntries
  <2> QED
    BY <2>2 DEF Init, CapacityInv, RemovalOK, RemoversOK, Holding, PutReturns, At
<1>2. MapInv /\ CapacityInv /\ [Next]_vars => CapacityInv'
  BY RemovalStep, CapacityStep DEF CapacityInv
<1> QED
  BY <1>1, <1>2, MapInvHolds, PTL DEF Spec

\* When at most one thread deletes and clears, size, which puts, deletes and
\* clears change under the lock from what they saw before it, covers the live
\* entries and stays within the capacity.  Two deleters break it.
THEOREM SizeIsEnough == OneRemover => (Spec => []SizeCoversEntries)
BY CapacityInvHolds, PTL DEF CapacityInv

\* That is what put relies on: its loop always finds a slot.
THEOREM PutTerminates == OneRemover => (Spec => []PutReturns)
BY CapacityInvHolds, PTL DEF CapacityInv
-----------------------------------------------------------------------------
(***************************************************************************)
(* Invalidation, by callers that wait until the map is quiet.              *)
(***************************************************************************)
\* An invalidation runs alone, and nobody is in a call of an invalid map.
QuietInv ==
    /\ \A t \in Threads : op[t] = "invalidate" <=> pc[t] \in {"i_lock", "i_body"}
    /\ \A t, u \in Threads : op[t] = "invalidate" /\ u # t => pc[u] = "idle"
    /\ invalid => \A t \in Threads : pc[t] = "idle"

\* A step within a call is not the beginning of another one.
LEMMA StepWithin ==
    ASSUME MapInv, QuietInv, NEW t \in Threads, Step(t), ~InvalidateMap(t)
    PROVE  /\ pc[t] # "idle" /\ UNCHANGED invalid
           /\ op'[t] = "invalidate" <=> pc'[t] \in {"i_lock", "i_body"}
           /\ op'[t] = "invalidate" => op[t] = "invalidate"
<1> USE DEF MapInv, TypeOK, QuietInv, Goto, args, table
<1>1. CASE WriteLock(t)
  BY <1>1 DEF WriteLock
<1>2. CASE PutRefused(t) \/ PutInserts(t) \/ PutEvicts(t)
  BY <1>2 DEF PutRefused, PutInserts, PutEvicts, Return
<1>3. CASE Delete(t) \/ DeleteReads(t) \/ ClearMap(t)
  BY <1>3 DEF Delete, DeleteReads, ClearMap, Return
<1>4. CASE ReaderEnter(t) \/ ReaderWriteLock(t) \/ ReaderEntered(t) \/ ReaderLeave(t) \/ Scan(t)
  BY <1>4 DEF ReaderEnter, ReaderWriteLock, ReaderEntered, ReaderLeave, Scan
<1>5. CASE ReaderLeft(t)
  BY <1>5 DEF ReaderLeft, Return
<1> QED
  BY <1>1, <1>2, <1>3, <1>4, <1>5 DEF Step, Put

\* Every step keeps others out while one invalidates.
LEMMA QuietStep ==
    ASSUME Quiesce, MapInv, QuietInv, [Next]_vars
    PROVE  QuietInv'
<1> USE DEF MapInv, TypeOK, QuietInv
<1>1. CASE UNCHANGED vars
  BY <1>1 DEF vars, table, args
<1> SUFFICES ASSUME NEW t \in Threads, Begins(t) \/ Step(t) PROVE QuietInv'
  BY <1>1 DEF Next
<1>2. \A u \in Threads : u # t => pc'[u] = pc[u] /\ op'[u] = op[u]
  BY MovesOthersNot
<1>3. CASE Begins(t)
  <2>1. PICK o, k, v, first, failure :
           Begin(t, o, k, v, first, failure) /\ BeginArguments(o, k, v, first)
    BY <1>3, BeginsCases
  <2>2. CASE invalid
    BY <1>2, <2>1, <2>2 DEF Begin, Return, Goto, table
  <2>3. CASE ~invalid
    <3>1. /\ pc'[t] = first /\ op'[t] = o /\ UNCHANGED invalid
          /\ \A u \in Threads \ {t} :
                IF o = "invalidate" THEN pc[u] = "idle" ELSE op[u] # "invalidate"
      BY <2>1, <2>3 DEF Begin, Goto, Permitted, table
    <3>2. o = "invalidate" <=> first \in {"i_lock", "i_body"}
      BY <2>1 DEF BeginArguments
    <3> QED
      BY <1>2, <2>3, <3>1, <3>2
  <2> QED
    BY <2>2, <2>3
<1>4. CASE Step(t) /\ ~InvalidateMap(t)
  BY <1>2, <1>4, StepWithin
<1>5. CASE InvalidateMap(t)
  <2>1. pc[t] = "i_body" /\ op'[t] = "null" /\ pc'[t] = "idle"
    BY <1>5 DEF InvalidateMap, Return, Goto
  <2> QED
    BY <1>2, <2>1
<1> QED
  BY <1>3, <1>4, <1>5

\* When invalidate_map is called only while no other call is under way, nobody
\* works on the freed array.
THEOREM NobodyUsesFreedArray == Quiesce => (Spec => []NoUseAfterFree)
<1> SUFFICES ASSUME Quiesce PROVE Spec => []NoUseAfterFree
  OBVIOUS
<1>1. Init => QuietInv
  BY DEF Init, QuietInv
<1>2. MapInv /\ QuietInv /\ [Next]_vars => QuietInv'
  BY QuietStep
<1>3. QuietInv => NoUseAfterFree
  BY DEF QuietInv, NoUseAfterFree, At, Writing
<1> QED
  BY <1>1, <1>2, <1>3, MapInvHolds, PTL DEF Spec
-----------------------------------------------------------------------------
(***************************************************************************)
(* The map implements the key-value map, for callers that put without      *)
(* force, get and clear.  A delete leaves a tombstone that a later put of  *)
(* the key may take although the key has an entry further on, and a forced *)
(* put destroys a neighbour: both are outside of what KVMap promises.      *)
(***************************************************************************)
StoreCallers == \A t \in Threads : MayCall[t] \subseteq {"put", "get", "clear"}

\* Such callers leave no tombstone with a key and no second entry of one.
NoMarkedKeys(table1) == \A i \in Slots : table1[i].tombstone => table1[i].key = "null"

KeysOnce(table1) ==
    \A i, j \in Slots : table1[i].key # "null" /\ table1[i].key = table1[j].key => i = j

ChainsOf(table1) ==
    \A i, j \in Slots :
        table1[i].key # "null" /\ ~table1[i].tombstone /\ j < Distance(table1[i].key, i) =>
            table1[Probe(table1[i].key, j)].key # "null"

OneEntryPerKey(table1) ==
    /\ table1 \in [Slots -> Node]
    /\ NoMarkedKeys(table1) /\ KeysOnce(table1) /\ ChainsOf(table1)

\* What an operation is doing follows from its name.
CallsOK ==
    \A t \in Threads :
        /\ pc[t] \in {"p_lock", "p_body", "p_spin"} => op[t] = "put"
        /\ pc[t] \in {"r_enter", "r_write", "r_entered", "r_scan", "r_leave", "r_left"} =>
              op[t] = "get"
        /\ pc[t] \in {"c_lock", "c_body"} => op[t] = "clear"
        /\ pc[t] \notin {"d_lock", "d_body", "d_read", "i_lock", "i_body"}

StoreInv ==
    /\ ~invalid /\ size <= Capacity
    /\ CallsOK
    /\ NoMarkedKeys(nodes) /\ KeysOnce(nodes)

\* The table as a function from keys to values, and the calls that have not taken
\* effect yet.
Store == [k \in Keys |-> Get(nodes, k)]
Calls == [t \in Threads |-> IF Effected(t) THEN "idle" ELSE op[t]]
Wants == [t \in Threads |-> IF Effected(t) THEN "null" ELSE key[t]]

\* In the invariant of a store a key has at most one entry.
LEMMA OneEntry == MapInv /\ StoreInv => OneEntryPerKey(nodes)
BY DEF MapInv, StoreInv, OneEntryPerKey, TypeOK, ProbeChainsUnbroken, ChainsOf, Distance, Live

\* Where each key has at most one entry, get finds it, and nothing for a key
\* that has none.
LEMMA GetIsLookup ==
    ASSUME NEW table1, OneEntryPerKey(table1), NEW k \in Keys
    PROVE  /\ \A i \in Slots : table1[i].key = k => Get(table1, k) = table1[i].val
           /\ (\A i \in Slots : table1[i].key # k) => Get(table1, k) = "null"
<1> USE DEF OneEntryPerKey
<1>1. k # "null" /\ Slots \subseteq Nat
  BY HashTableAssumption DEF Slots
<1>2. ASSUME NEW i \in Slots, table1[i].key = k
      PROVE  Get(table1, k) = table1[i].val
  <2>1. ~table1[i].tombstone
    BY <1>1, <1>2 DEF NoMarkedKeys
  <2>2. Distance(k, i) \in Slots /\ Probe(k, Distance(k, i)) = i
    BY ProbeIsBijective
  <2>3. ASSUME NEW j \in Slots, j < Distance(k, i)
        PROVE  LET n == table1[Probe(k, j)] IN n.key # "null" /\ (n.tombstone \/ n.key # k)
    <3>1. Probe(k, j) \in Slots /\ Distance(k, Probe(k, j)) = j
      BY ProbeIsBijective
    <3>2. table1[Probe(k, j)].key # "null"
      BY <1>1, <1>2, <2>1, <2>3 DEF ChainsOf
    <3>3. Probe(k, j) # i
      BY <1>1, <2>2, <2>3, <3>1
    <3> QED
      BY <1>1, <1>2, <3>1, <3>2, <3>3 DEF KeysOnce
  <2> QED
    BY <1>2, <2>1, <2>3, GetFindsEntry
<1>3. ASSUME \A i \in Slots : table1[i].key # k
      PROVE  Get(table1, k) = "null"
  <2> DEFINE stops == GetStops(table1, k)
  <2>1. CASE stops = {}
    BY <2>1 DEF Get
  <2>2. CASE stops # {}
    <3>1. stops \subseteq Slots
      BY DEF GetStops
    <3>2. Least(stops) \in stops
      <4> HIDE DEF stops
      <4> QED
        BY <1>1, <2>2, <3>1, LeastIsLeast
    <3>3. Probe(k, Least(stops)) \in Slots
      BY <3>1, <3>2, ProbeIsBijective
    <3>4. table1[Probe(k, Least(stops))].key = "null"
      BY <1>3, <3>2, <3>3 DEF GetStops
    <3> QED
      BY <2>2, <3>4 DEF Get
  <2> QED
    BY <2>1, <2>2
<1> QED
  BY <1>2, <1>3

\* A put into such a table keeps it so, and changes the value of its key only.
LEMMA PutIsUpdate ==
    ASSUME MapInv, StoreInv, MapInv', NEW t \in Threads, PutInserts(t),
           PutStops(nodes, key[t]) # {}
    PROVE  /\ NoMarkedKeys(nodes)' /\ KeysOnce(nodes)'
           /\ Store' = [Store EXCEPT ![key[t]] = val[t]]
<1> DEFINE k == key[t]
           p == PutSlot(nodes, key[t])
<1>1. k \in Keys /\ k # "null" /\ pc[t] = "p_body" /\ nodes \in [Slots -> Node]
  BY HashTableAssumption DEF PutInserts, MapInv, ArgumentsOK, TypeOK
<1>2. nodes' = [nodes EXCEPT ![p] = Entry(t)]
  BY DEF PutInserts
<1>3. /\ p \in Slots
      /\ nodes[p].key = "null" \/ nodes[p].tombstone \/ nodes[p].key = k
      /\ \A j \in Slots : j < Distance(k, p) => nodes[Probe(k, j)].key # k
  BY <1>1, PutSlotIsFirst
<1> HIDE DEF p
<1>4. nodes[p].key = "null" \/ nodes[p].key = k
  BY <1>3 DEF StoreInv, NoMarkedKeys
<1>5. /\ nodes'[p] = Entry(t) /\ \A i \in Slots : i # p => nodes'[i] = nodes[i]
      /\ Entry(t).key = k /\ Entry(t).val = val[t] /\ Entry(t).tombstone = FALSE
  BY <1>1, <1>2, <1>3 DEF Entry
<1>6. ASSUME NEW i \in Slots, nodes[i].key = k, i # p
      PROVE  FALSE
  <2>1. /\ Distance(k, i) \in Slots /\ Probe(k, Distance(k, i)) = i
        /\ Distance(k, p) \in Slots /\ Probe(k, Distance(k, p)) = p
    BY <1>1, <1>3, ProbeIsBijective
  <2>2. Distance(k, p) < Distance(k, i)
    <3>1. Distance(k, p) # Distance(k, i)
      BY <1>6, <2>1
    <3>2. ~(Distance(k, i) < Distance(k, p))
      BY <1>3, <1>6, <2>1
    <3>3. Distance(k, i) \in Int /\ Distance(k, p) \in Int
      BY <2>1, HashTableAssumption DEF Slots
    <3> QED
      BY <3>1, <3>2, <3>3
  <2>3. ~nodes[i].tombstone
    BY <1>1, <1>6 DEF StoreInv, NoMarkedKeys
  <2>4. nodes[p].key # "null"
    BY <1>1, <1>6, <2>1, <2>2, <2>3, OneEntry DEF OneEntryPerKey, ChainsOf
  <2> QED
    BY <1>1, <1>3, <1>4, <1>6, <2>4 DEF StoreInv, KeysOnce
<1>7. NoMarkedKeys(nodes)'
  BY <1>5 DEF StoreInv, NoMarkedKeys
<1>8. KeysOnce(nodes)'
  <2> SUFFICES ASSUME NEW i \in Slots, NEW j \in Slots,
                      nodes'[i].key # "null", nodes'[i].key = nodes'[j].key
               PROVE  i = j
    BY DEF KeysOnce
  <2>1. CASE i # p /\ j # p
    BY <1>5, <2>1 DEF StoreInv, KeysOnce
  <2>2. CASE i = p \/ j = p
    BY <1>5, <1>6, <2>2
  <2> QED
    BY <2>1, <2>2
<1>9. OneEntryPerKey(nodes) /\ OneEntryPerKey(nodes')
  <2>1. OneEntryPerKey(nodes)
    BY OneEntry
  <2>2. nodes' \in [Slots -> Node] /\ ChainsOf(nodes')
    BY DEF MapInv, TypeOK, ProbeChainsUnbroken, ChainsOf, Distance, Live
  <2> QED
    BY <1>7, <1>8, <2>1, <2>2 DEF OneEntryPerKey, NoMarkedKeys, KeysOnce
<1>10. Get(nodes', k) = val[t]
  BY <1>1, <1>3, <1>5, <1>9, GetIsLookup
<1>11. ASSUME NEW k2 \in Keys, k2 # k PROVE Get(nodes', k2) = Get(nodes, k2)
  <2>1. k2 # "null"
    BY HashTableAssumption
  <2>2. CASE \E i \in Slots : nodes[i].key = k2
    <3>1. PICK i \in Slots : nodes[i].key = k2
      BY <2>2
    <3>2. i # p
      BY <1>4, <1>11, <2>1, <3>1
    <3> QED
      BY <1>5, <1>9, <3>1, <3>2, GetIsLookup
  <2>3. CASE \A i \in Slots : nodes[i].key # k2
    <3>1. \A i \in Slots : nodes'[i].key # k2
      BY <1>5, <1>11, <2>3
    <3> QED
      BY <1>9, <2>3, <3>1, GetIsLookup
  <2> QED
    BY <2>2, <2>3
<1>12. Store' = [Store EXCEPT ![k] = val[t]]
  BY <1>1, <1>10, <1>11 DEF Store
<1> QED
  BY <1>7, <1>8, <1>12

\* A clear takes every key away.
LEMMA ClearEmpties ==
    ASSUME MapInv, NEW t \in Threads, ClearMap(t)
    PROVE  /\ \A i \in Slots : nodes'[i].key = "null"
           /\ NoMarkedKeys(nodes)' /\ KeysOnce(nodes)'
<1>1. \A i \in Slots : nodes'[i].key = "null"
  BY DEF ClearMap, Clear, MapInv, KeysHaveValues
<1> QED
  BY <1>1 DEF NoMarkedKeys, KeysOnce

\* A step of such a caller, seen from its own call.
LEMMA StoreCall ==
    ASSUME StoreCallers, MapInv, StoreInv, NEW t \in Threads, Begins(t) \/ Step(t)
    PROVE  /\ invalid' = invalid
           /\ pc'[t] \in {"p_lock", "p_body", "p_spin"} => op'[t] = "put"
           /\ pc'[t] \in {"r_enter", "r_write", "r_entered", "r_scan", "r_leave", "r_left"} =>
                 op'[t] = "get"
           /\ pc'[t] \in {"c_lock", "c_body"} => op'[t] = "clear"
           /\ pc'[t] \notin {"d_lock", "d_body", "d_read", "i_lock", "i_body"}
<1> USE DEF MapInv, TypeOK, StoreInv, CallsOK, Goto, args, table
<1>1. CASE Begins(t)
  <2>1. PICK o, k, v, first, failure :
           Begin(t, o, k, v, first, failure) /\ BeginArguments(o, k, v, first)
    BY <1>1, BeginsCases
  <2>2. o \in {"put", "get", "clear"}
    BY <2>1 DEF Begin, Permitted, StoreCallers
  <2>3. op'[t] = o /\ pc'[t] = first /\ invalid' = invalid
    BY <2>1 DEF Begin
  <2> QED
    BY <2>1, <2>2, <2>3 DEF BeginArguments
<1>2. CASE WriteLock(t)
  BY <1>2 DEF WriteLock
<1>3. CASE PutRefused(t) \/ PutEvicts(t)
  BY <1>3 DEF PutRefused, PutEvicts, Return
<1>4. CASE PutInserts(t)
  BY <1>4 DEF PutInserts, Return
<1>5. CASE Delete(t) \/ DeleteReads(t) \/ ClearMap(t) \/ InvalidateMap(t)
  BY <1>5 DEF Delete, DeleteReads, ClearMap, InvalidateMap, Return
<1>6. CASE ReaderEnter(t) \/ ReaderWriteLock(t) \/ ReaderEntered(t) \/ ReaderLeave(t) \/ Scan(t)
  BY <1>6 DEF ReaderEnter, ReaderWriteLock, ReaderEntered, ReaderLeave, Scan
<1>7. CASE ReaderLeft(t)
  BY <1>7 DEF ReaderLeft, Return
<1> QED
  BY <1>1, <1>2, <1>3, <1>4, <1>5, <1>6, <1>7, StepCases

\* Every step of a store keeps its invariant.
LEMMA StoreStep ==
    ASSUME StoreCallers, MapInv, StoreInv, MapInv', [Next]_vars
    PROVE  StoreInv'
<1>1. CASE UNCHANGED vars
  BY <1>1 DEF vars, table, args, StoreInv, CallsOK, NoMarkedKeys, KeysOnce
<1> SUFFICES ASSUME NEW t \in Threads, Begins(t) \/ Step(t) PROVE StoreInv'
  BY <1>1 DEF Next
<1>2. TypeOK /\ Capacity \in Nat /\ SizeMod \in Nat /\ SizeMod > Capacity /\ size \in Nat
  BY HashTableAssumption, HashmapAssumption DEF MapInv, TypeOK
<1>3. \A u \in Threads : u # t => pc'[u] = pc[u] /\ op'[u] = op[u]
  BY <1>2, MovesOthersNot
<1>4. CallsOK' /\ ~invalid'
  BY <1>3, StoreCall DEF StoreInv, CallsOK
<1> DEFINE TableOK == size' <= Capacity /\ NoMarkedKeys(nodes)' /\ KeysOnce(nodes)'
<1>5. nodes' = nodes /\ size' = size => TableOK
  BY DEF StoreInv, NoMarkedKeys, KeysOnce
<1>6. ASSUME PutInserts(t), pc[t] = "p_body", pc'[t] = "idle"
      PROVE  TableOK
  <2>1. PutStops(nodes, key[t]) # {}
    BY <1>2, <1>6 DEF PutInserts, Goto, TypeOK
  <2>2. size' = size + 1 /\ size < Capacity
    <3>1. size < Capacity /\ size' = (size + 1) % SizeMod
      BY <1>6, <2>1 DEF PutInserts
    <3> QED
      BY <1>2, <3>1
  <2>3. NoMarkedKeys(nodes)' /\ KeysOnce(nodes)'
    BY <1>6, <2>1, PutIsUpdate
  <2> QED
    BY <1>2, <2>2, <2>3
<1>7. ~PutEvicts(t)
  <2>1. PutEvicts(t) => pc[t] = "p_body" /\ size = Capacity
    BY <1>2 DEF PutEvicts, StoreInv
  <2> QED
    BY <2>1 DEF PutEvicts, StoreInv, CallsOK
<1>8. ~Delete(t)
  BY DEF Delete, Goto, StoreInv, CallsOK
<1>9. ClearMap(t) => TableOK
  BY <1>2, ClearEmpties DEF ClearMap
<1>10. TableOK
  BY <1>2, <1>5, <1>6, <1>7, <1>8, <1>9, SizeChange
<1> QED
  BY <1>4, <1>10 DEF StoreInv

\* The invariant of a store.
LEMMA StoreInvHolds == StoreCallers => (Spec => [](MapInv /\ StoreInv))
<1> SUFFICES ASSUME StoreCallers PROVE Spec => [](MapInv /\ StoreInv)
  OBVIOUS
<1>1. Init => StoreInv
  BY HashTableAssumption DEF Init, StoreInv, CallsOK, NoMarkedKeys, KeysOnce, Empty
<1>2. MapInv /\ StoreInv /\ MapInv' /\ [Next]_vars => StoreInv'
  BY StoreStep
<1> QED
  BY <1>1, <1>2, MapInvHolds, PTL DEF Spec

\* A step of one thread leaves the arguments of the others alone.
LEMMA KeysOfOthers ==
    ASSUME TypeOK, NEW t \in Threads, Begins(t) \/ Step(t), NEW u \in Threads, u # t
    PROVE  key'[u] = key[u]
<1> USE DEF TypeOK, args
<1>1. CASE Begins(t)
  BY <1>1, BeginsCases DEF Begin, Return
<1>2. CASE WriteLock(t) \/ PutRefused(t) \/ PutInserts(t) \/ PutEvicts(t)
  BY <1>2 DEF WriteLock, PutRefused, PutInserts, PutEvicts, Return
<1>3. CASE Delete(t) \/ DeleteReads(t) \/ ClearMap(t) \/ InvalidateMap(t)
  BY <1>3 DEF Delete, DeleteReads, ClearMap, InvalidateMap, Return
<1>4. CASE ReaderEnter(t) \/ ReaderWriteLock(t) \/ ReaderEntered(t) \/ ReaderLeave(t)
  BY <1>4 DEF ReaderEnter, ReaderWriteLock, ReaderEntered, ReaderLeave
<1>5. CASE Scan(t) \/ ReaderLeft(t)
  BY <1>5 DEF Scan, ReaderLeft, Return
<1> QED
  BY <1>1, <1>2, <1>3, <1>4, <1>5, StepCases

\* A step of one thread changes its own mapped call and key only.
LEMMA WantsMove ==
    ASSUME TypeOK, NEW t \in Threads, Begins(t) \/ Step(t)
    PROVE  /\ Calls' = [Calls EXCEPT ![t] = IF Effected(t)' THEN "idle" ELSE op'[t]]
           /\ Wants' = [Wants EXCEPT ![t] = IF Effected(t)' THEN "null" ELSE key'[t]]
           /\ Calls[t] = (IF Effected(t) THEN "idle" ELSE op[t])
           /\ Wants[t] = (IF Effected(t) THEN "null" ELSE key[t])
<1>1. \A u \in Threads : u # t => pc'[u] = pc[u] /\ op'[u] = op[u]
  BY MovesOthersNot
<1>2. \A u \in Threads : u # t => key'[u] = key[u]
  BY KeysOfOthers
<1>3. \A u \in Threads : u # t => (Effected(u)' <=> Effected(u))
  BY <1>1 DEF Effected
<1> QED
  BY <1>1, <1>2, <1>3 DEF Calls, Wants

\* The map begins as the abstract one.
LEMMA StoreInit == Init => KV!Init
<1> SUFFICES ASSUME Init PROVE KV!Init
  OBVIOUS
<1>1. \A k \in Keys : Get(nodes, k) = "null"
  <2> TAKE k \in Keys
  <2>1. \A i \in Slots : nodes[i] = Empty /\ Empty.key = "null" /\ ~Empty.tombstone
    BY DEF Init, Empty
  <2>2. Empty \in Node
    BY DEF Empty, Node
  <2>3. OneEntryPerKey(nodes)
    BY <2>1, <2>2 DEF Init, OneEntryPerKey, NoMarkedKeys, KeysOnce, ChainsOf
  <2> QED
    BY <2>1, <2>3, GetIsLookup, HashTableAssumption
<1> QED
  BY <1>1 DEF Init, KV!Init, Effected

\* Every step of a store is a step of the abstract map or leaves it alone.
LEMMA StoreRefines ==
    ASSUME StoreCallers, MapInv, StoreInv, MapInv', StoreInv', [Next]_vars
    PROVE  [KV!Next]_(KV!vars)
<1>0. TypeOK /\ ArgumentsOK /\ CallsOK
  BY DEF MapInv, StoreInv
<1>1. CASE UNCHANGED vars
  BY <1>1 DEF vars, table, args, KV!vars, Effected
<1> SUFFICES ASSUME NEW t \in Threads, Begins(t) \/ Step(t)
             PROVE  KV!Next \/ UNCHANGED KV!vars
  BY <1>1 DEF Next
<1> DEFINE Moved ==
      /\ Calls' = [Calls EXCEPT ![t] = IF Effected(t)' THEN "idle" ELSE op'[t]]
      /\ Wants' = [Wants EXCEPT ![t] = IF Effected(t)' THEN "null" ELSE key'[t]]
      /\ Calls[t] = (IF Effected(t) THEN "idle" ELSE op[t])
      /\ Wants[t] = (IF Effected(t) THEN "null" ELSE key[t])
<1>2. Moved
  BY <1>0, WantsMove
<1> HIDE DEF Moved
\* A step that has no effect on the store.
<1>3. ASSUME nodes' = nodes, val' = val, (Effected(t)' <=> Effected(t)),
             ~Effected(t) => op'[t] = op[t] /\ key'[t] = key[t]
      PROVE  UNCHANGED KV!vars
  <2>1. (IF Effected(t)' THEN "idle" ELSE op'[t]) = Calls[t]
    BY <1>2, <1>3 DEF Moved
  <2>2. (IF Effected(t)' THEN "null" ELSE key'[t]) = Wants[t]
    BY <1>2, <1>3 DEF Moved
  <2>3. Calls' = Calls
    BY <1>2, <2>1 DEF Moved, Calls
  <2>4. Wants' = Wants
    BY <1>2, <2>2 DEF Moved, Wants
  <2>5. Store' = Store
    BY <1>3 DEF Store
  <2> QED
    BY <1>3, <2>3, <2>4, <2>5 DEF KV!vars, Calls, Wants, Store
\* A step by which the call of t takes effect.
<1>4. ASSUME NEW kind, NEW s, NEW r, ~Effected(t), Effected(t)', op[t] = kind,
             Store' = s, val' = [val EXCEPT ![t] = r]
      PROVE  KV!TakeEffect(t, kind, s, r)
  <2>1. Calls[t] = kind
    BY <1>2, <1>4 DEF Moved
  <2>2. Calls' = [Calls EXCEPT ![t] = "idle"] /\ Wants' = [Wants EXCEPT ![t] = "null"]
    BY <1>2, <1>4 DEF Moved
  <2> QED
    BY <1>4, <2>1, <2>2 DEF KV!TakeEffect, Calls, Wants, Store
<1>5. CASE Begins(t)
  <2>1. PICK o, k, v, first, failure :
           Begin(t, o, k, v, first, failure) /\ BeginArguments(o, k, v, first)
    BY <1>5, BeginsCases
  <2>2. o \in {"put", "get", "clear"} /\ pc[t] = "idle" /\ nodes' = nodes
    BY <2>1 DEF Begin, Permitted, StoreCallers, table
  <2>3. pc'[t] = first /\ op'[t] = o /\ key'[t] = k /\ val' = [val EXCEPT ![t] = v]
    BY <1>0, <2>1 DEF Begin, Goto, StoreInv, TypeOK
  <2>4. first \notin {"idle", "r_leave", "r_left"}
    BY <2>1 DEF BeginArguments
  <2>5. Effected(t) /\ ~Effected(t)'
    BY <2>2, <2>3, <2>4 DEF Effected
  <2>6. /\ Calls[t] = "idle" /\ Calls' = [Calls EXCEPT ![t] = o]
        /\ Wants' = [Wants EXCEPT ![t] = k]
    BY <1>2, <2>3, <2>5 DEF Moved
  <2>7. Store' = Store
    BY <2>2 DEF Store
  <2>8. KV!Begin(t, o, k, v)
    BY <2>3, <2>6, <2>7 DEF KV!Begin, Calls, Wants, Store
  <2> QED
    BY <2>1, <2>2, <2>8 DEF KV!Next, BeginArguments
<1>6. CASE WriteLock(t) \/ ReaderEnter(t) \/ ReaderWriteLock(t) \/ ReaderEntered(t)
  <2>1. /\ nodes' = nodes /\ val' = val /\ op'[t] = op[t] /\ key'[t] = key[t]
    BY <1>6 DEF WriteLock, ReaderEnter, ReaderWriteLock, ReaderEntered, table, args
  <2>2. ~Effected(t) /\ ~Effected(t)'
    BY <1>0, <1>6 DEF WriteLock, ReaderEnter, ReaderWriteLock, ReaderEntered, Goto, TypeOK, Effected
  <2> QED
    BY <1>3, <2>1, <2>2
<1>7. CASE ReaderLeave(t)
  BY <1>0, <1>3, <1>7 DEF ReaderLeave, Goto, TypeOK, Effected, table, args
<1>8. CASE ReaderLeft(t)
  <2>1. pc[t] = "r_left"
    BY <1>8 DEF ReaderLeft, Goto, Return
  <2>2. op[t] = "get"
    BY <1>0, <2>1 DEF CallsOK
  <2>3. Return(t, "r_left", val[t]) /\ nodes' = nodes
    BY <1>8, <2>2 DEF ReaderLeft, table
  <2>4. pc'[t] = "idle" /\ val' = val
    BY <1>0, <2>3 DEF Return, Goto, TypeOK
  <2> QED
    BY <1>3, <2>1, <2>3, <2>4 DEF Effected
<1>9. CASE Scan(t)
  <2>1. pc[t] = "r_scan" /\ pc'[t] = "r_leave" /\ key[t] \in Keys /\ nodes' = nodes
    BY <1>0, <1>9 DEF Scan, Goto, ArgumentsOK, TypeOK, table
  <2>2. op[t] = "get" /\ val' = [val EXCEPT ![t] = Get(nodes, key[t])]
    BY <1>0, <1>9, <2>1 DEF Scan, CallsOK
  <2>3. ~Effected(t) /\ Effected(t)' /\ Store' = Store /\ Store[key[t]] = Get(nodes, key[t])
    BY <2>1 DEF Effected, Store
  <2>4. Wants[t] = key[t]
    BY <1>2, <2>3 DEF Moved
  <2>5. KV!TakeEffect(t, "get", Store, Store[Wants[t]])
    <3> DEFINE found == Store[Wants[t]]
    <3>1. val' = [val EXCEPT ![t] = found]
      BY <2>2, <2>3, <2>4
    <3>2. op[t] = "get" /\ ~Effected(t) /\ Effected(t)' /\ Store' = Store
      BY <2>2, <2>3
    <3> HIDE DEF found
    <3>3. KV!TakeEffect(t, "get", Store, found)
      BY <1>4, <3>1, <3>2 DEF KV!TakeEffect
    <3> QED
      BY <3>3 DEF found
  <2>6. KV!Get(t)
    BY <2>5 DEF KV!Get, Store, Wants
  <2> QED
    BY <2>6 DEF KV!Next
<1>10. CASE PutRefused(t)
  <2>1. /\ pc[t] = "p_body" /\ pc'[t] = "idle" /\ op[t] = "put" /\ nodes' = nodes
        /\ val' = [val EXCEPT ![t] = "false"]
    BY <1>0, <1>10 DEF PutRefused, Return, Goto, TypeOK, table
  <2>2. KV!TakeEffect(t, "put", Store, "false")
    BY <1>4, <2>1 DEF Effected, Store
  <2>3. KV!Refuse(t)
    BY <2>2 DEF KV!Refuse, Store
  <2> QED
    BY <2>3 DEF KV!Next
<1>11. CASE PutInserts(t)
  <2>1. pc[t] = "p_body" /\ op[t] = "put" /\ key[t] \in Keys
    BY <1>0, <1>11 DEF PutInserts, CallsOK, ArgumentsOK
  <2>2. CASE PutStops(nodes, key[t]) = {}
    <3>1. pc'[t] = "p_spin" /\ nodes' = nodes /\ val' = val /\ op' = op /\ key' = key
      BY <1>0, <1>11, <2>2 DEF PutInserts, Goto, TypeOK, table, args
    <3> QED
      BY <1>3, <2>1, <3>1 DEF Effected
  <2>3. CASE PutStops(nodes, key[t]) # {}
    <3>1. pc'[t] = "idle" /\ val' = [val EXCEPT ![t] = "true"]
      BY <1>0, <1>11, <2>3 DEF PutInserts, Return, Goto, TypeOK
    <3>2. Store' = [Store EXCEPT ![key[t]] = val[t]]
      BY <1>11, <2>3, PutIsUpdate
    <3>3. ~Effected(t) /\ Effected(t)'
      BY <2>1, <3>1 DEF Effected
    <3>4. Wants[t] = key[t]
      BY <1>2, <3>3 DEF Moved
    <3>5. KV!TakeEffect(t, "put", [Store EXCEPT ![Wants[t]] = val[t]], "true")
      BY <1>4, <2>1, <3>1, <3>2, <3>3, <3>4
    <3>6. KV!Put(t)
      BY <3>5 DEF KV!Put, Store, Wants
    <3> QED
      BY <3>6 DEF KV!Next
  <2> QED
    BY <2>2, <2>3
<1>12. CASE ClearMap(t)
  <2>1. /\ pc[t] = "c_body" /\ pc'[t] = "idle" /\ op[t] = "clear"
        /\ val' = [val EXCEPT ![t] = "true"]
    BY <1>0, <1>12 DEF ClearMap, Return, Goto, CallsOK, TypeOK
  <2>2. \A i \in Slots : nodes'[i].key = "null"
    BY <1>12, ClearEmpties
  <2>3. OneEntryPerKey(nodes')
    BY DEF MapInv, StoreInv, OneEntryPerKey, NoMarkedKeys, KeysOnce, TypeOK,
           ProbeChainsUnbroken, ChainsOf, Distance, Live
  <2>4. \A k \in Keys : Get(nodes', k) = "null"
    BY <2>2, <2>3, GetIsLookup, HashTableAssumption
  <2>5. Store' = [k \in Keys |-> "null"]
    BY <2>4 DEF Store
  <2>6. KV!TakeEffect(t, "clear", [k \in Keys |-> "null"], "true")
    BY <1>4, <2>1, <2>5 DEF Effected
  <2>7. KV!Clear(t)
    BY <2>6 DEF KV!Clear
  <2> QED
    BY <2>7 DEF KV!Next
\* The rest is what such callers never do.
<1>13. ~(Delete(t) \/ DeleteReads(t) \/ InvalidateMap(t))
  BY <1>0 DEF Delete, DeleteReads, InvalidateMap, Return, Goto, CallsOK
<1>14. ~PutEvicts(t)
  <2>1. PutEvicts(t) => pc[t] = "p_body" /\ size = Capacity
    BY <1>0, HashTableAssumption DEF PutEvicts, StoreInv, TypeOK
  <2> QED
    BY <1>0, <2>1 DEF PutEvicts, CallsOK
<1> QED
  BY <1>5, <1>6, <1>7, <1>8, <1>9, <1>10, <1>11, <1>12, <1>13, <1>14, StepCases

\* For callers that put without force, get and clear, the table with its probing,
\* its readers-writer lock and its counters implements the key-value map of
\* module KVMap: for any hash function, capacity and number of threads, each call
\* takes effect at one instant, and get returns what was put last.
THEOREM RefinesKVMap == StoreCallers => (Spec => ImplementsKVMap)
<1> SUFFICES ASSUME StoreCallers PROVE Spec => ImplementsKVMap
  OBVIOUS
<1>1. Init => KV!Init
  BY StoreInit
<1>2. MapInv /\ StoreInv /\ (MapInv /\ StoreInv)' /\ [Next]_vars => [KV!Next]_(KV!vars)
  BY StoreRefines
<1> QED
  BY <1>1, <1>2, StoreInvHolds, PTL DEF Spec, ImplementsKVMap, KV!Spec
=============================================================================
