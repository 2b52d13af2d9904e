-------------------------- MODULE HashmapTTLProofs --------------------------
(***************************************************************************)
(* What holds of module HashmapTTL for any threads, keys, values, hash     *)
(* function, capacity and lifetime.  The steps that it shares with module  *)
(* Hashmap keep the invariants proved in HashmapProofs; new here are the   *)
(* clock and the readers that make tombstones.                             *)
(***************************************************************************)
EXTENDS HashmapTTL, HashmapProofs

\* What the probe of a get has passed is no fresh entry of its key.
NotThere(t, j) ==
    LET i == Probe(key[t], j)
    IN  nodes[i].key # "null" /\ (nodes[i].tombstone \/ Expired(i) \/ nodes[i].key # key[t])

PassedOK ==
    \A t \in Threads : pc[t] = "r_scan" /\ op[t] # "index" =>
        \A j \in Slots : j < step[t] => NotThere(t, j)

\* A probe begins at step 0; the loop of get_true_index is one step.
StepsOK == \A t \in Threads : pc[t] # "r_scan" \/ op[t] = "index" => step[t] = 0

TimedInv ==
    /\ TTypeOK /\ ArgumentsOK /\ LocksOK /\ KeysHaveValues /\ ProbeChainsUnbroken
    /\ StepsOK /\ PassedOK

\* A step is one of the clock, one of a probe, or one of module Hashmap; of these
\* only a put writes a time, and only get_true_index has a loop in one step.
LEMMA TimedCases ==
    ASSUME TNext
    PROVE  \/ Tick
           \/ \E t \in Threads :
                 \/ Visit(t)
                 \/ /\ Begins(t) \/ Step(t)
                    /\ step' = step
                    /\ age' = age \/ (pc[t] = "p_body" /\ PutStarts(t))
                    /\ pc[t] = "r_scan" => op[t] = "index"
<1> SUFFICES ASSUME NEW t \in Threads,
                    PutStarts(t) \/ PutKeepsStart(t) \/ FindIndex(t) \/ Untimed(t)
             PROVE  /\ Begins(t) \/ Step(t)
                    /\ step' = step
                    /\ age' = age \/ (pc[t] = "p_body" /\ PutStarts(t))
                    /\ pc[t] = "r_scan" => op[t] = "index"
  BY DEF TNext
<1>1. CASE PutStarts(t)
  BY <1>1 DEF PutStarts, PutInserts, Put, Step
<1>2. CASE PutKeepsStart(t)
  BY <1>2 DEF PutKeepsStart, PutRefused, PutEvicts, Put, Step, timed
<1>3. CASE FindIndex(t)
  BY <1>3 DEF FindIndex, Step, timed
<1>4. CASE Untimed(t)
  <2>1. (Begins(t) \/ Step(t)) /\ step' = step /\ age' = age
    BY <1>4 DEF Untimed, Step, timed
  <2>2. Begins(t) => pc[t] # "r_scan"
    BY BeginsCases DEF Begin
  <2>3. WriteLock(t) \/ Delete(t) \/ DeleteReads(t) \/ ClearMap(t) \/ InvalidateMap(t) => pc[t] # "r_scan"
    BY DEF WriteLock, Delete, DeleteReads, ClearMap, InvalidateMap, Return, Goto
  <2>4. (\/ ReaderEnter(t) \/ ReaderWriteLock(t) \/ ReaderEntered(t) \/ ReaderLeave(t)
         \/ ReaderLeft(t)) => pc[t] # "r_scan"
    BY DEF ReaderEnter, ReaderWriteLock, ReaderEntered, ReaderLeave, ReaderLeft, Return, Goto
  <2> QED
    BY <1>4, <2>1, <2>2, <2>3, <2>4 DEF Untimed
<1> QED
  BY <1>1, <1>2, <1>3, <1>4

\* What a step of a probe does.
LEMMA VisitMoves ==
    ASSUME TTypeOK, ArgumentsOK, NEW t \in Threads, Visit(t)
    PROVE  /\ pc[t] = "r_scan" /\ op[t] # "index" /\ key[t] \in Keys
           /\ UNCHANGED <<size, invalid, sync, op, key, index, age>>
           /\ Probe(key[t], step[t]) \in Slots
           /\ \/ nodes' = nodes
              \/ nodes' = [nodes EXCEPT ![Probe(key[t], step[t])].tombstone = TRUE]
           /\ \/ /\ UNCHANGED <<pc, val>> /\ step' = [step EXCEPT ![t] = @ + 1]
                 /\ step[t] < Capacity - 1 /\ NotThere(t, step[t])
              \/ /\ Goto(t, "r_scan", "r_leave") /\ step' = [step EXCEPT ![t] = 0]
                 /\ \E v \in Vals \cup {"null"} : val' = [val EXCEPT ![t] = v]
<1> DEFINE i == Probe(key[t], step[t])
<1>1. /\ pc[t] = "r_scan" /\ op[t] # "index" /\ UNCHANGED <<sync, op, key, index, age>>
      /\ \/ nodes[i].key = "null" /\ Answer(t, "null") /\ UNCHANGED table
         \/ /\ nodes[i].key # "null" /\ (nodes[i].tombstone \/ Expired(i))
            /\ Mark(i) /\ Passes(t) /\ UNCHANGED invalid
         \/ /\ nodes[i].key = key[t] /\ ~(nodes[i].tombstone \/ Expired(i))
            /\ Answer(t, nodes[i].val) /\ UNCHANGED table
         \/ /\ nodes[i].key \notin {key[t], "null"} /\ ~(nodes[i].tombstone \/ Expired(i))
            /\ Passes(t) /\ UNCHANGED table
  BY DEF Visit
<1>2. key[t] \in Keys /\ step[t] \in Slots
  BY <1>1 DEF ArgumentsOK, TTypeOK
<1>3. i \in Slots
  BY <1>2, ProbeIsBijective
<1>4. nodes[i].val \in Vals \cup {"null"}
  BY <1>3 DEF TTypeOK, TypeOK, Node
<1>5. step[t] # Capacity - 1 => step[t] < Capacity - 1
  BY <1>2, HashTableAssumption DEF Slots
<1>6. ASSUME nodes[i].key # "null", nodes[i].tombstone \/ Expired(i) \/ nodes[i].key # key[t], Passes(t)
      PROVE  \/ /\ UNCHANGED <<pc, val>> /\ step' = [step EXCEPT ![t] = @ + 1]
                /\ step[t] < Capacity - 1 /\ NotThere(t, step[t])
             \/ Answer(t, "null")
  BY <1>5, <1>6 DEF Passes, NotThere
<1>7. ASSUME NEW v \in Vals \cup {"null"}, Answer(t, v)
      PROVE  /\ Goto(t, "r_scan", "r_leave") /\ step' = [step EXCEPT ![t] = 0]
             /\ val' = [val EXCEPT ![t] = v]
  BY <1>7 DEF Answer
<1>8. /\ UNCHANGED <<size, invalid>>
      /\ nodes' = nodes \/ nodes' = [nodes EXCEPT ![i].tombstone = TRUE]
  BY <1>1 DEF Mark, table
<1> HIDE DEF i
<1>9. \/ /\ UNCHANGED <<pc, val>> /\ step' = [step EXCEPT ![t] = @ + 1]
         /\ step[t] < Capacity - 1 /\ NotThere(t, step[t])
      \/ \E v \in Vals \cup {"null"} : Answer(t, v)
  BY <1>1, <1>4, <1>6
<1>10. \/ /\ UNCHANGED <<pc, val>> /\ step' = [step EXCEPT ![t] = @ + 1]
          /\ step[t] < Capacity - 1 /\ NotThere(t, step[t])
       \/ /\ Goto(t, "r_scan", "r_leave") /\ step' = [step EXCEPT ![t] = 0]
          /\ \E v \in Vals \cup {"null"} : val' = [val EXCEPT ![t] = v]
  BY <1>7, <1>9
<1> QED
  BY <1>1, <1>2, <1>3, <1>8, <1>10 DEF i

\* Reading and marking disturb neither the locks nor the chains, and no probe of
\* the others.
LEMMA VisitStep ==
    ASSUME TimedInv, NEW t \in Threads, Visit(t)
    PROVE  TimedInv'
<1> DEFINE i == Probe(key[t], step[t])
<1>0. /\ pc[t] = "r_scan" /\ op[t] # "index" /\ key[t] \in Keys
      /\ UNCHANGED <<size, invalid, sync, op, key, index, age>> /\ i \in Slots
      /\ nodes' = nodes \/ nodes' = [nodes EXCEPT ![i].tombstone = TRUE]
      /\ \/ /\ UNCHANGED <<pc, val>> /\ step' = [step EXCEPT ![t] = @ + 1]
            /\ step[t] < Capacity - 1 /\ NotThere(t, step[t])
         \/ /\ Goto(t, "r_scan", "r_leave") /\ step' = [step EXCEPT ![t] = 0]
            /\ \E v \in Vals \cup {"null"} : val' = [val EXCEPT ![t] = v]
  BY VisitMoves DEF TimedInv
<1> HIDE DEF i
<1> USE DEF TimedInv, TTypeOK, TypeOK
<1>1. \A j \in Slots : /\ nodes'[j].key = nodes[j].key /\ nodes'[j].val = nodes[j].val
                       /\ nodes[j].tombstone => nodes'[j].tombstone
                       /\ nodes'[j] \in Node
  <2>1. nodes \in [Slots -> Node]
    OBVIOUS
  <2>2. CASE nodes' = nodes
    BY <2>1, <2>2
  <2>3. CASE nodes' = [nodes EXCEPT ![i].tombstone = TRUE]
    <3>1. \A j \in Slots : nodes'[j] = IF j = i THEN [nodes[j] EXCEPT !.tombstone = TRUE] ELSE nodes[j]
      BY <1>0, <2>1, <2>3
    <3>2. \A n \in Node : LET m == [n EXCEPT !.tombstone = TRUE]
                          IN  m \in Node /\ m.key = n.key /\ m.val = n.val /\ m.tombstone
      BY DEF Node
    <3>3. \A j \in Slots : nodes[j] \in Node
      BY <2>1
    <3> HIDE DEF TimedInv, TTypeOK, TypeOK
    <3> QED
      BY <3>1, <3>2, <3>3
  <2> QED
    BY <1>0, <2>2, <2>3
<1>2. /\ pc' \in [Threads -> Labels] /\ val' \in [Threads -> Vals \cup {"null", "true", "false"}]
      /\ \A u \in Threads : u # t => pc'[u] = pc[u] /\ val'[u] = val[u] /\ step'[u] = step[u]
      /\ pc'[t] \in {"r_scan", "r_leave"} /\ (pc'[t] = "r_leave" => step'[t] = 0)
  <2>1. CASE UNCHANGED <<pc, val>> /\ step' = [step EXCEPT ![t] = @ + 1]
    BY <1>0, <2>1
  <2>2. ASSUME NEW v \in Vals \cup {"null"}, Goto(t, "r_scan", "r_leave"),
               step' = [step EXCEPT ![t] = 0], val' = [val EXCEPT ![t] = v]
        PROVE  /\ pc' \in [Threads -> Labels]
               /\ val' \in [Threads -> Vals \cup {"null", "true", "false"}]
               /\ \A u \in Threads : u # t => pc'[u] = pc[u] /\ val'[u] = val[u] /\ step'[u] = step[u]
               /\ pc'[t] = "r_leave" /\ step'[t] = 0
    BY <2>2 DEF Goto, Labels
  <2> QED
    BY <1>0, <2>1, <2>2
<1>3. step' \in [Threads -> Slots]
  <2>1. 0 \in Slots /\ (step[t] < Capacity - 1 => step[t] + 1 \in Slots)
    BY HashTableAssumption DEF Slots
  <2> QED
    BY <1>0, <2>1
<1>4. TypeOK'
  <2>1. nodes' \in [Slots -> Node]
    BY <1>0, <1>1
  <2>2. \A u \in Threads : pc'[u] = "p_body" => key'[u] \in Keys /\ val'[u] \in Vals
    BY <1>0, <1>2
  <2> QED
    BY <1>0, <1>2, <2>1, <2>2 DEF sync
<1>5. TTypeOK'
  <2>1. \A u \in Threads : pc'[u] # "r_scan" => step'[u] = 0
    BY <1>2
  <2> QED
    BY <1>0, <1>3, <1>4, <2>1
<1>6. ArgumentsOK'
  BY <1>0, <1>2 DEF ArgumentsOK
<1>7. LocksOK'
  <2>1. CASE pc' = pc
    BY <1>0, <2>1 DEF LocksOK, At, sync
  <2>2. CASE Goto(t, "r_scan", "r_leave")
    <3>1. TypeOK /\ LocksOK /\ UNCHANGED sync
      BY <1>0
    <3>2. /\ "r_scan" \notin InFields /\ "r_leave" \notin InFields
          /\ "r_scan" \in Counted /\ "r_leave" \in Counted
          /\ "r_scan" \in Covered /\ "r_leave" \in Covered
          /\ "r_scan" \notin Writing /\ "r_leave" \notin Writing /\ "r_leave" \in Labels
      BY DEF InFields, Counted, Covered, Writing, Labels
    <3> HIDE DEF TimedInv, TTypeOK, TypeOK
    <3> QED
      BY <2>2, <3>1, <3>2, UnlockedStep
  <2> QED
    BY <1>0, <2>1, <2>2
<1>8. KeysHaveValues' /\ ProbeChainsUnbroken'
  <2>1. CASE nodes' = nodes
    BY <2>1 DEF KeysHaveValues, ProbeChainsUnbroken, Live
  <2>2. CASE nodes' = [nodes EXCEPT ![i].tombstone = TRUE]
    BY <1>0, <2>2, MarkKeepsChains
  <2> QED
    BY <1>0, <2>1, <2>2
<1>9. PassedOK'
  <2> SUFFICES ASSUME NEW u \in Threads, pc'[u] = "r_scan", op'[u] # "index",
                      NEW j \in Slots, j < step'[u]
               PROVE  NotThere(u, j)'
    BY DEF PassedOK
  <2>1. pc[u] = "r_scan" /\ op[u] # "index" /\ key'[u] = key[u] /\ key[u] \in Keys
    BY <1>0, <1>2 DEF ArgumentsOK
  <2>2. NotThere(u, j)
    <3>1. CASE u # t
      BY <1>2, <2>1, <3>1 DEF PassedOK
    <3>2. CASE u = t
      <4>1. step'[t] = step[t] + 1 /\ NotThere(t, step[t])
        BY <1>0, <3>2 DEF Goto
      <4>2. j < step[t] \/ j = step[t]
        BY <3>2, <4>1, HashTableAssumption DEF Slots
      <4> QED
        BY <2>1, <3>2, <4>1, <4>2 DEF PassedOK
    <3> QED
      BY <3>1, <3>2
  <2>3. Probe(key[u], j) \in Slots
    BY <2>1, ProbeIsBijective
  <2> QED
    BY <1>0, <1>1, <2>1, <2>2, <2>3 DEF NotThere, Expired
<1>10. StepsOK'
  BY <1>0, <1>2 DEF StepsOK
<1> QED
  BY <1>5, <1>6, <1>7, <1>8, <1>9, <1>10

\* The clock makes entries older.
LEMMA TickStep ==
    ASSUME TimedInv, Tick
    PROVE  TimedInv'
<1>1. /\ UNCHANGED <<vars, step>>
      /\ age' = [i \in Slots |-> IF Expired(i) THEN age[i] ELSE age[i] + 1]
      /\ age \in [Slots -> 0 .. Lifetime]
  BY DEF Tick, TimedInv, TTypeOK
<1>2. age' \in [Slots -> 0 .. Lifetime] /\ \A i \in Slots : Expired(i) => Expired(i)'
  <2>1. \A i \in Slots : age[i] \in 0 .. Lifetime /\ ~Expired(i) => age[i] + 1 \in 0 .. Lifetime
    BY TTLAssumption DEF Expired
  <2> QED
    BY <1>1, <2>1 DEF Expired
<1>3. TTypeOK'
  <2>1. TypeOK'
    BY <1>1 DEF TimedInv, TTypeOK, TypeOK, vars, table, sync, args
  <2> QED
    BY <1>1, <1>2, <2>1 DEF TimedInv, TTypeOK, vars
<1>4. ArgumentsOK' /\ LocksOK' /\ KeysHaveValues' /\ ProbeChainsUnbroken'
  BY <1>1 DEF TimedInv, ArgumentsOK, LocksOK, KeysHaveValues, ProbeChainsUnbroken,
              At, Live, vars, table, sync, args
<1>5. PassedOK'
  <2> SUFFICES ASSUME NEW u \in Threads, pc[u] = "r_scan", op[u] # "index",
                      NEW j \in Slots, j < step[u]
               PROVE  NotThere(u, j)'
    BY <1>1 DEF PassedOK, vars, args
  <2>1. NotThere(u, j) /\ Probe(key[u], j) \in Slots
    BY ProbeIsBijective DEF TimedInv, PassedOK, ArgumentsOK
  <2> QED
    BY <1>1, <1>2, <2>1 DEF NotThere, vars, table, args
<1>6. StepsOK'
  BY <1>1 DEF TimedInv, StepsOK, vars, args
<1> QED
  BY <1>3, <1>4, <1>5, <1>6 DEF TimedInv

\* A call that comes to its probe has passed nothing yet, and while others probe
\* nobody writes: neither the array nor a time.
LEMMA MapStep ==
    ASSUME TimedInv, NEW t \in Threads, Begins(t) \/ Step(t), step' = step,
           age' = age \/ (pc[t] = "p_body" /\ PutStarts(t)),
           pc[t] = "r_scan" => op[t] = "index"
    PROVE  TimedInv'
<1> USE DEF TimedInv
<1>1. TypeOK /\ [Next]_vars
  BY DEF TTypeOK, Next
<1>2. TypeOK' /\ ArgumentsOK' /\ LocksOK' /\ KeysHaveValues' /\ ProbeChainsUnbroken'
  BY <1>1, TypeStep, LockStep, ChainStep
<1>3. /\ step'[t] = 0
      /\ \A u \in Threads : u # t => pc'[u] = pc[u] /\ op'[u] = op[u] /\ key'[u] = key[u]
  BY <1>1, MovesOthersNot, KeysOfOthers DEF StepsOK
<1>4. StepsOK'
  BY <1>3 DEF StepsOK
<1>5. TTypeOK'
  <2>1. age' \in [Slots -> 0 .. Lifetime]
    <3>1. 0 \in 0 .. Lifetime
      BY TTLAssumption
    <3> QED
      BY <3>1 DEF PutStarts, TTypeOK
  <2>2. \A u \in Threads : pc'[u] # "r_scan" => step'[u] = 0
    BY <1>4 DEF StepsOK
  <2> QED
    BY <1>2, <2>1, <2>2 DEF TTypeOK
<1>6. PassedOK'
  <2> SUFFICES ASSUME NEW u \in Threads, pc'[u] = "r_scan", op'[u] # "index",
                      NEW j \in Slots, j < step'[u]
               PROVE  NotThere(u, j)'
    BY DEF PassedOK
  <2>1. u # t
    BY <1>3, HashTableAssumption DEF Slots
  <2>2. pc[u] = "r_scan" /\ op[u] # "index" /\ key'[u] = key[u] /\ key[u] \in Keys
    BY <1>3, <2>1 DEF ArgumentsOK
  <2>3. At(Writing) = {}
    BY <2>2 DEF LocksOK, At, Covered
  <2>4. pc[t] \notin {"p_body", "d_body", "c_body"}
    BY <2>3 DEF At, Writing
  <2>5. age' = age /\ nodes' = nodes
    <3>1. ~ClearMap(t)
      BY <2>4 DEF ClearMap, Return, Goto
    <3> QED
      BY <1>1, <2>4, <3>1, NodesChange
  <2>6. NotThere(u, j)
    BY <2>2 DEF PassedOK
  <2> QED
    BY <2>2, <2>5, <2>6 DEF NotThere, Expired
<1> QED
  BY <1>2, <1>4, <1>5, <1>6

\* The invariant of the map with expiry.
LEMMA TimedInvHolds == TSpec => []TimedInv
<1>1. TInit => TimedInv
  <2> SUFFICES ASSUME TInit PROVE TimedInv
    OBVIOUS
  <2>1. MapInv
    BY InitEstablishes DEF TInit
  <2>2. TTypeOK /\ StepsOK
    <3>1. 0 \in Slots
      BY HashTableAssumption DEF Slots
    <3> QED
      BY <2>1, <3>1 DEF TInit, TTypeOK, StepsOK, MapInv
  <2>3. PassedOK
    BY DEF TInit, Init, PassedOK
  <2> QED
    BY <2>1, <2>2, <2>3 DEF TimedInv, MapInv
<1>2. TimedInv /\ [TNext]_tvars => TimedInv'
  <2> SUFFICES ASSUME TimedInv, [TNext]_tvars PROVE TimedInv'
    OBVIOUS
  <2>1. CASE UNCHANGED tvars
    BY <2>1 DEF tvars, timed, vars, table, sync, args, TimedInv, TTypeOK, TypeOK, ArgumentsOK,
                LocksOK, KeysHaveValues, ProbeChainsUnbroken, StepsOK, PassedOK, NotThere,
                Expired, At, Live
  <2>2. CASE TNext
    BY <2>2, TimedCases, TickStep, VisitStep, MapStep
  <2> QED
    BY <2>1, <2>2
<1> QED
  BY <1>1, <1>2, PTL DEF TSpec

\* Clock and tombstones leave the types alone.
THEOREM TimedTypeCorrect == TSpec => []TTypeOK
BY TimedInvHolds, PTL DEF TimedInv

\* get answers what is fresh in the map at its last step: what it has passed was no
\* fresh entry of its key and does not become one, as nobody writes meanwhile.
THEOREM GetsAreAtomic == TSpec => GetIsAtomic
<1>1. TimedInv /\ [TNext]_tvars =>
         [\A t \in Threads : pc[t] = "r_scan" /\ pc'[t] = "r_leave" /\ op[t] # "index" =>
             val'[t] = Get(Fresh(nodes), key[t])]_tvars
  <2> SUFFICES ASSUME TimedInv, TNext, NEW t \in Threads,
                      pc[t] = "r_scan", pc'[t] = "r_leave", op[t] # "index"
               PROVE  val'[t] = Get(Fresh(nodes), key[t])
    BY DEF tvars, vars
  <2> USE DEF TimedInv
  <2>1. Visit(t)
    <3>1. ~Tick
      BY DEF Tick, vars
    <3>2. ASSUME NEW u \in Threads, Visit(u)
          PROVE  u = t
      BY <3>2, VisitMoves DEF Goto, TTypeOK, TypeOK
    <3>3. ASSUME NEW u \in Threads, Begins(u) \/ Step(u), pc[u] = "r_scan" => op[u] = "index"
          PROVE  FALSE
      BY <3>3, MovesOne DEF TTypeOK
    <3> QED
      BY <3>1, <3>2, <3>3, TimedCases
  <2> DEFINE k == key[t]
             i == Probe(k, step[t])
             fresh == Fresh(nodes)
  <2>2. k \in Keys /\ step[t] \in Slots /\ i \in Slots
    BY ProbeIsBijective DEF ArgumentsOK, TTypeOK
  <2>3. \A j \in Slots : /\ fresh[j].key = nodes[j].key /\ fresh[j].val = nodes[j].val
                         /\ fresh[j].tombstone <=> nodes[j].tombstone \/ Expired(j)
    <3> SUFFICES ASSUME NEW j \in Slots
                 PROVE  /\ fresh[j].key = nodes[j].key /\ fresh[j].val = nodes[j].val
                        /\ fresh[j].tombstone <=> nodes[j].tombstone \/ Expired(j)
      OBVIOUS
    <3>1. nodes[j] \in Node
      BY DEF TTypeOK, TypeOK
    <3>2. fresh[j] = [nodes[j] EXCEPT !.tombstone = nodes[j].tombstone \/ Expired(j)]
      BY DEF Fresh
    <3> HIDE DEF fresh, TimedInv
    <3> QED
      BY <3>1, <3>2 DEF Node
  <2>4. \A j \in Slots : j < step[t] => j \notin GetStops(fresh, k)
    <3> SUFFICES ASSUME NEW j \in Slots, j < step[t] PROVE j \notin GetStops(fresh, k)
      OBVIOUS
    <3>1. NotThere(t, j) /\ Probe(k, j) \in Slots
      BY <2>2, ProbeIsBijective DEF PassedOK
    <3> QED
      BY <2>3, <3>1 DEF NotThere, GetStops
  <2>5. \/ nodes[i].key = "null" /\ Answer(t, "null")
        \/ /\ nodes[i].key # "null" /\ (nodes[i].tombstone \/ Expired(i)) /\ Passes(t)
        \/ nodes[i].key = k /\ ~(nodes[i].tombstone \/ Expired(i)) /\ Answer(t, nodes[i].val)
        \/ nodes[i].key \notin {k, "null"} /\ Passes(t)
    BY <2>1 DEF Visit
  <2>6. ASSUME NEW v, Answer(t, v) PROVE val'[t] = v
    BY <2>6 DEF Answer, TTypeOK, TypeOK
  <2>7. Passes(t) => step[t] = Capacity - 1 /\ val'[t] = "null"
    <3>1. Passes(t) => step[t] = Capacity - 1
      BY DEF Passes
    <3> QED
      BY <2>6, <3>1 DEF Passes
  <2> HIDE DEF fresh, i, k
  <2>8. ASSUME step[t] \in GetStops(fresh, k)
        PROVE  Get(fresh, k) = IF fresh[i].key = "null" THEN "null" ELSE fresh[i].val
    <3>1. GetStops(fresh, k) \subseteq Slots /\ Slots \subseteq Nat
      BY HashTableAssumption DEF GetStops, Slots
    <3>2. Least(GetStops(fresh, k)) = step[t]
      <4> DEFINE stops == GetStops(fresh, k)
      <4>1. stops \subseteq Slots /\ Slots \subseteq Nat /\ step[t] \in stops
            /\ \A j \in stops : ~(j < step[t])
        BY <2>4, <2>8, <3>1
      <4> HIDE DEF stops
      <4>2. Least(stops) \in stops /\ \A j \in stops : Least(stops) <= j
        BY <4>1, LeastIsLeast
      <4> DEFINE l == Least(stops)
      <4>3. l \in Nat /\ step[t] \in Nat /\ l <= step[t] /\ ~(l < step[t])
        BY <4>1, <4>2
      <4> HIDE DEF l
      <4>4. l = step[t]
        BY <4>3
      <4> QED
        BY <4>4 DEF stops, l
    <3> QED
      BY <2>8, <3>2 DEF Get, i
  <2>9. CASE nodes[i].key = "null" /\ Answer(t, "null")
    <3>1. step[t] \in GetStops(fresh, k)
      BY <2>2, <2>3, <2>9 DEF GetStops, i
    <3> QED
      BY <2>2, <2>3, <2>6, <2>8, <2>9, <3>1 DEF fresh, k
  <2>10. CASE nodes[i].key = k /\ ~(nodes[i].tombstone \/ Expired(i)) /\ Answer(t, nodes[i].val)
    <3>1. step[t] \in GetStops(fresh, k)
      BY <2>2, <2>3, <2>10 DEF GetStops, i
    <3>2. k # "null"
      BY <2>2, HashTableAssumption
    <3> QED
      BY <2>2, <2>3, <2>6, <2>8, <2>10, <3>1, <3>2 DEF fresh, k
  <2>11. CASE /\ nodes[i].key # "null" /\ (nodes[i].tombstone \/ Expired(i) \/ nodes[i].key # k)
              /\ Passes(t)
    <3>1. step[t] \notin GetStops(fresh, k)
      BY <2>2, <2>3, <2>11 DEF GetStops, i
    <3>2. \A j \in Slots : j < step[t] \/ j = step[t]
      BY <2>7, <2>11, HashTableAssumption DEF Slots
    <3>3. GetStops(fresh, k) = {}
      BY <2>4, <3>1, <3>2 DEF GetStops
    <3> QED
      BY <2>7, <2>11, <3>3 DEF Get, fresh, k
  <2> QED
    BY <2>5, <2>9, <2>10, <2>11
<1> QED
  BY <1>1, TimedInvHolds, PTL DEF TSpec, GetIsAtomic

\* A put that returns true is visible, whatever was in its slot.
THEOREM TimedPutsAreVisible == TSpec => TimedPutIsVisible
<1>1. TimedInv /\ [TNext]_tvars =>
         [\A t \in Threads :
             pc[t] = "p_body" /\ pc'[t] = "idle" /\ val'[t] = "true" /\ size < Capacity =>
                 Get(Fresh(nodes)', key[t]) = val[t]]_tvars
  <2> SUFFICES ASSUME TimedInv, TNext, NEW t \in Threads,
                      pc[t] = "p_body", pc'[t] = "idle", val'[t] = "true", size < Capacity
               PROVE  Get(Fresh(nodes)', key[t]) = val[t]
    BY DEF tvars, vars
  <2> USE DEF TimedInv
  <2>1. PutStarts(t)
    <3>1. ~Tick
      BY DEF Tick, vars
    <3>2. ASSUME NEW u \in Threads, Visit(u)
          PROVE  FALSE
      BY <3>2, VisitMoves DEF Goto, TTypeOK, TypeOK
    <3>3. PICK u \in Threads : PutStarts(u) \/ PutKeepsStart(u) \/ FindIndex(u) \/ Untimed(u)
      BY <3>1, <3>2 DEF TNext
    <3>4. Begins(u) \/ Step(u)
      BY <3>3 DEF PutStarts, PutKeepsStart, FindIndex, Untimed, Step, Put
    <3>5. u = t
      BY <3>4, MovesOne DEF TTypeOK
    <3>6. ~PutKeepsStart(t)
      BY HashTableAssumption DEF PutKeepsStart, PutRefused, PutEvicts, Return, TTypeOK, TypeOK
    <3>7. ~FindIndex(t)
      BY DEF FindIndex, Scan, Goto
    <3>8. ~Untimed(t)
      <4>1. ~Begins(t)
        BY BeginsCases DEF Begin
      <4>2. ~(WriteLock(t) \/ Delete(t) \/ DeleteReads(t) \/ ClearMap(t) \/ InvalidateMap(t))
        BY DEF WriteLock, Delete, DeleteReads, ClearMap, InvalidateMap, Return, Goto
      <4>3. ~(\/ ReaderEnter(t) \/ ReaderWriteLock(t) \/ ReaderEntered(t) \/ ReaderLeave(t)
              \/ ReaderLeft(t))
        BY DEF ReaderEnter, ReaderWriteLock, ReaderEntered, ReaderLeave, ReaderLeft, Return, Goto
      <4> QED
        BY <4>1, <4>2, <4>3 DEF Untimed
    <3> QED
      BY <3>3, <3>5, <3>6, <3>7, <3>8
  <2>2. PutInserts(t) /\ PutStops(nodes, key[t]) # {} /\ age' = [age EXCEPT ![PutSlot(nodes, key[t])] = 0]
    BY <2>1 DEF PutStarts, PutInserts, Goto, TTypeOK, TypeOK
  <2>3. key[t] \in Keys
    BY DEF ArgumentsOK
  <2> DEFINE p == PutSlot(nodes, key[t])
             fresh == Fresh(nodes)'
  <2>4. /\ p \in Slots /\ nodes' = [nodes EXCEPT ![p] = Entry(t)]
        /\ \A j \in Slots : j < Distance(key[t], p) =>
              LET n == nodes[Probe(key[t], j)]
              IN  n.key # "null" /\ ~n.tombstone /\ n.key # key[t]
    BY <2>2, <2>3, PutSlotIsFirst DEF PutInserts
  <2>5. /\ nodes'[p].key = key[t] /\ nodes'[p].val = val[t] /\ ~nodes'[p].tombstone
        /\ \A j \in Slots : j # p => nodes'[j] = nodes[j]
        /\ nodes' \in [Slots -> Node] /\ age'[p] = 0
    <3>1. nodes \in [Slots -> Node] /\ Entry(t) \in Node /\ age \in [Slots -> 0 .. Lifetime]
      BY <2>3, EntryType DEF TTypeOK, TypeOK
    <3>2. Entry(t).key = key[t] /\ Entry(t).val = val[t] /\ ~Entry(t).tombstone
      BY DEF Entry
    <3> HIDE DEF p
    <3>3. age' = [age EXCEPT ![p] = 0]
      BY <2>2 DEF p
    <3> QED
      BY <2>4, <3>1, <3>2, <3>3
  <2>6. \A j \in Slots : /\ fresh[j].key = nodes'[j].key /\ fresh[j].val = nodes'[j].val
                         /\ fresh[j].tombstone <=> nodes'[j].tombstone \/ age'[j] >= Lifetime
    BY <2>5 DEF Fresh, Expired, Node
  <2> HIDE DEF p, fresh
  <2>7. fresh[p].key = key[t] /\ fresh[p].val = val[t] /\ ~fresh[p].tombstone
    BY <2>4, <2>5, <2>6, TTLAssumption
  <2>8. ASSUME NEW j \in Slots, j < Distance(key[t], p)
        PROVE  LET n == fresh[Probe(key[t], j)]
               IN  n.key # "null" /\ (n.tombstone \/ n.key # key[t])
    <3>1. Probe(key[t], j) \in Slots /\ Probe(key[t], j) # p
      BY <2>3, <2>8, ProbeIsBijective, HashTableAssumption DEF Slots
    <3> QED
      BY <2>4, <2>5, <2>6, <2>8, <3>1
  <2>9. Get(fresh, key[t]) = val[t]
    BY <2>3, <2>4, <2>7, <2>8, GetFindsEntry
  <2> QED
    BY <2>9 DEF fresh
<1> QED
  BY <1>1, TimedInvHolds, PTL DEF TSpec, TimedPutIsVisible
-----------------------------------------------------------------------------
(***************************************************************************)
(* The count of the entries, when at most one thread deletes and clears.   *)
(***************************************************************************)
\* The slot of a delete under way counts until the delete is done, although its
\* entry may have expired, or made place for a new one, in the meantime.
Held == {index[t] : t \in {u \in Threads : Holding(u)}}

RoomInv ==
    /\ RemoversOK /\ PutReturns
    /\ Cardinality(Live(nodes) \cup Held) <= size /\ size <= Capacity

\* The live entries and those on their way out are no more than slots.
LEMMA HeldFinite ==
    ASSUME TypeOK
    PROVE  /\ Held \subseteq Slots
           /\ IsFiniteSet(Live(nodes) \cup Held)
           /\ Cardinality(Live(nodes) \cup Held) \in Nat
           /\ Cardinality(Live(nodes) \cup Held) <= Capacity
<1>1. Held \subseteq Slots
  BY DEF Held, Holding, TypeOK
<1>2. Live(nodes) \cup Held \in SUBSET Slots
  BY <1>1 DEF Live
<1> QED
  BY <1>1, <1>2, LiveFinite, FS_Subset, FS_CardinalityType

\* Fewer slots to count need no more room.
LEMMA RoomShrinks ==
    ASSUME TypeOK, NEW S, S \subseteq Live(nodes) \cup Held
    PROVE  IsFiniteSet(S) /\ Cardinality(S) \in Nat
           /\ Cardinality(S) <= Cardinality(Live(nodes) \cup Held)
<1> DEFINE T == Live(nodes) \cup Held
<1>1. IsFiniteSet(T) /\ S \in SUBSET T
  BY HeldFinite
<1> HIDE DEF T
<1>2. IsFiniteSet(S) /\ Cardinality(S) <= Cardinality(T)
  BY <1>1, FS_Subset
<1> QED
  BY <1>2, FS_CardinalityType DEF T

\* Every step of a call keeps the room that size promises.
LEMMA RoomForMapStep ==
    ASSUME OneRemover, TypeOK, TypeOK', ArgumentsOK, LocksOK, KeysHaveValues,
           ProbeChainsUnbroken, RoomInv, NEW t \in Threads, Begins(t) \/ Step(t)
    PROVE  RoomInv'
<1>1. \A u \in Threads : u # t => pc'[u] = pc[u] /\ op'[u] = op[u] /\ index'[u] = index[u]
  BY MovesOthersNot
<1>2. RemoversOK'
  BY <1>1, OwnRemoval DEF RoomInv, RemoversOK
<1>3. MapInv
  BY DEF MapInv
<1>4. \A u \in Threads : u # t => (Holding(u)' <=> Holding(u))
  BY <1>1 DEF Holding
<1>5. Removes(t) => \A u \in Threads : u # t => ~Holding(u)
  BY DEF Holding, RoomInv, RemoversOK, OneRemover, Removes
<1>6. /\ size \in Nat /\ Capacity \in Nat /\ SizeMod \in Nat /\ SizeMod > Capacity
      /\ Cardinality(Live(nodes) \cup Held) <= size /\ size <= Capacity
      /\ Cardinality(Live(nodes) \cup Held) \in Nat
      /\ Cardinality((Live(nodes) \cup Held)') \in Nat
      /\ Cardinality((Live(nodes) \cup Held)') <= Capacity
  <2>1. /\ Cardinality((Live(nodes) \cup Held)') \in Nat
        /\ Cardinality((Live(nodes) \cup Held)') <= Capacity
    <3>1. Held' \subseteq Slots
      BY DEF Held, Holding, TypeOK
    <3>2. (Live(nodes) \cup Held)' \in SUBSET Slots
      BY <3>1 DEF Live
    <3> QED
      BY <3>2, LiveFinite, FS_Subset, FS_CardinalityType
  <2> QED
    BY <2>1, HeldFinite, HashTableAssumption, HashmapAssumption DEF RoomInv, TypeOK
<1>7. Cardinality((Live(nodes) \cup Held)') <= size' /\ size' <= Capacity
  <2>1. CASE nodes' = nodes /\ size' = size
    <3>1. Held' \subseteq Live(nodes) \cup Held
      <4> SUFFICES ASSUME NEW u \in Threads, Holding(u)' PROVE index'[u] \in Live(nodes) \cup Held
        BY DEF Held
      <4>1. CASE u = t
        BY <1>3, <4>1, OwnIndex DEF Held
      <4>2. CASE u # t
        BY <1>1, <1>4, <4>2 DEF Held
      <4> QED
        BY <4>1, <4>2
    <3>2. (Live(nodes) \cup Held)' \subseteq Live(nodes) \cup Held
      BY <2>1, <3>1 DEF Live
    <3>3. Cardinality((Live(nodes) \cup Held)') <= Cardinality(Live(nodes) \cup Held)
      BY <3>2, RoomShrinks
    <3> QED
      BY <1>6, <2>1, <3>3
  <2>2. CASE PutInserts(t) /\ pc[t] = "p_body" /\ pc'[t] = "idle"
    <3>1. PICK p \in Slots : nodes' = [nodes EXCEPT ![p] = Entry(t)]
      BY <2>2, PutWrites
    <3>2. ~Holding(t)'
      BY <2>2 DEF Holding
    <3>3. Held' \subseteq Held
      BY <1>1, <1>4, <3>2 DEF Held
    <3> DEFINE T == Live(nodes) \cup Held
    <3>4. (Live(nodes) \cup Held)' \in SUBSET (T \cup {p})
      BY <3>1, <3>3 DEF Live
    <3>5. IsFiniteSet(T) /\ Cardinality(T) \in Nat /\ Cardinality(T) <= size
      BY <1>6, HeldFinite
    <3>6. size < Capacity /\ size' = size + 1
      <4>1. size < Capacity /\ size' = (size + 1) % SizeMod
        BY <2>2 DEF PutInserts, Goto, TypeOK
      <4>2. (size + 1) % SizeMod = size + 1
        BY <1>6, <4>1
      <4> QED
        BY <4>1, <4>2
    <3> HIDE DEF T
    <3>7. /\ IsFiniteSet(T \cup {p}) /\ Cardinality(T \cup {p}) \in Nat
          /\ Cardinality(T \cup {p}) = IF p \in T THEN Cardinality(T) ELSE Cardinality(T) + 1
      BY <3>5, FS_AddElement, FS_CardinalityType
    <3>8. Cardinality(T \cup {p}) <= Cardinality(T) + 1
      BY <3>5, <3>7
    <3>9. Cardinality((Live(nodes) \cup Held)') <= Cardinality(T \cup {p})
      BY <3>4, <3>7, FS_Subset
    <3> QED
      BY <1>6, <3>5, <3>6, <3>7, <3>8, <3>9
  <2>3. CASE PutEvicts(t)
    <3>1. size >= Capacity /\ size' = size
      BY <2>3 DEF PutEvicts
    <3> QED
      BY <1>6, <3>1
  <2>4. CASE Delete(t)
    <3>1. /\ pc[t] = "d_body" /\ pc'[t] = "d_read" /\ index[t] \in Slots
          /\ nodes' = [nodes EXCEPT ![index[t]].tombstone = TRUE]
          /\ size' = (size + SizeMod - 1) % SizeMod
      BY <2>4 DEF Delete, Goto, ArgumentsOK, TypeOK
    <3>2. Holding(t) /\ Removes(t) /\ ~Holding(t)'
      BY <3>1, HashTableAssumption DEF Holding, RoomInv, RemoversOK, Removes, Slots
    <3>3. Held = {index[t]} /\ Held' = {}
      BY <1>4, <1>5, <3>2 DEF Held
    <3> DEFINE T == Live(nodes) \cup Held
               x == index[t]
    <3>4. (Live(nodes) \cup Held)' = T \ {x} /\ x \in T
      <4>1. Live(nodes)' = Live(nodes) \ {x}
        BY <3>1, MarkKeepsChains
      <4> QED
        BY <3>3, <4>1
    <3>5. IsFiniteSet(T) /\ Cardinality(T) \in Nat /\ Cardinality(T) <= size
      BY <1>6, HeldFinite
    <3> HIDE DEF T, x
    <3>6. Cardinality(T \ {x}) = Cardinality(T) - 1 /\ Cardinality(T) >= 1
      BY <3>4, <3>5, FS_RemoveElement, FS_EmptySet
    <3>7. size >= 1
      BY <1>6, <3>5, <3>6
    <3>8. size' = size - 1
      <4>1. (size + SizeMod - 1) % SizeMod = size - 1
        BY <1>6, <3>7
      <4> QED
        BY <3>1, <4>1
    <3>9. Cardinality((Live(nodes) \cup Held)') = Cardinality(T) - 1
      BY <3>4, <3>6
    <3> QED
      BY <1>6, <3>5, <3>7, <3>8, <3>9
  <2>5. CASE ClearMap(t)
    <3>1. pc[t] = "c_body" /\ pc'[t] = "idle"
      BY <2>5 DEF ClearMap, Return, Goto, TypeOK
    <3>2. Removes(t) /\ ~Holding(t)'
      BY <3>1 DEF Holding, RoomInv, RemoversOK, Removes
    <3>3. Held' = {}
      BY <1>4, <1>5, <3>2 DEF Held
    <3>4. Live(nodes)' = {}
      BY <2>5 DEF ClearMap, Clear, KeysHaveValues, Live
    <3>5. (Live(nodes) \cup Held)' = {} /\ size' = 0
      BY <2>5, <3>3, <3>4 DEF ClearMap
    <3>6. Cardinality((Live(nodes) \cup Held)') = 0
      BY <3>5, FS_EmptySet
    <3> QED
      BY <1>6, <3>5, <3>6
  <2> QED
    BY <2>1, <2>2, <2>3, <2>4, <2>5, SizeChange
<1>8. PutReturns'
  <2>1. \A u \in Threads : pc[u] # "p_spin"
    BY DEF RoomInv, PutReturns, At
  <2>2. PutInserts(t) => PutStops(nodes, key[t]) # {}
    <3>1. PutInserts(t) => size < Capacity /\ key[t] \in Keys
      BY DEF PutInserts, ArgumentsOK
    <3>2. Cardinality(Live(nodes)) <= Cardinality(Live(nodes) \cup Held) /\ Cardinality(Live(nodes)) \in Nat
      BY RoomShrinks
    <3> QED
      BY <1>6, <3>1, <3>2, PutHasRoom
  <2>3. pc'[t] # "p_spin"
    BY <2>1, <2>2, SpinsInPut
  <2> QED
    BY <1>1, <2>1, <2>3 DEF PutReturns, At
<1> QED
  BY <1>2, <1>7, <1>8 DEF RoomInv

\* A reader's tombstone frees a slot that size goes on counting.
LEMMA RoomForVisit ==
    ASSUME TimedInv, RoomInv, NEW t \in Threads, Visit(t)
    PROVE  RoomInv'
<1>1. /\ pc[t] = "r_scan" /\ op[t] # "index" /\ UNCHANGED <<size, op, index>>
      /\ Probe(key[t], step[t]) \in Slots
      /\ \/ nodes' = nodes
         \/ nodes' = [nodes EXCEPT ![Probe(key[t], step[t])].tombstone = TRUE]
      /\ pc' = pc \/ Goto(t, "r_scan", "r_leave")
  BY VisitMoves DEF TimedInv
<1>2. TypeOK /\ KeysHaveValues /\ ProbeChainsUnbroken
  BY DEF TimedInv, TTypeOK
<1>3. \A u \in Threads : /\ u # t => pc'[u] = pc[u]
                         /\ u = t => pc'[u] \in {"r_scan", "r_leave"}
  BY <1>1, <1>2 DEF Goto, TypeOK
<1>4. RemoversOK' /\ PutReturns'
  BY <1>1, <1>3 DEF RoomInv, RemoversOK, PutReturns, At
<1>5. Held' \subseteq Held
  BY <1>1, <1>3 DEF Held, Holding
<1>6. Live(nodes)' \subseteq Live(nodes)
  <2>1. CASE nodes' = nodes
    BY <2>1 DEF Live
  <2>2. CASE nodes' = [nodes EXCEPT ![Probe(key[t], step[t])].tombstone = TRUE]
    BY <1>1, <1>2, <2>2, MarkKeepsChains
  <2> QED
    BY <1>1, <2>1, <2>2
<1>7. (Live(nodes) \cup Held)' \subseteq Live(nodes) \cup Held
  BY <1>5, <1>6
<1>8. /\ Cardinality((Live(nodes) \cup Held)') \in Nat
      /\ Cardinality((Live(nodes) \cup Held)') <= Cardinality(Live(nodes) \cup Held)
      /\ Cardinality(Live(nodes) \cup Held) \in Nat
  BY <1>2, <1>7, RoomShrinks, HeldFinite
<1>9. size \in Nat /\ size' = size /\ Cardinality(Live(nodes) \cup Held) <= size /\ size <= Capacity
  BY <1>1, <1>2, HashmapAssumption DEF RoomInv, TypeOK
<1>10. Cardinality((Live(nodes) \cup Held)') <= size' /\ size' <= Capacity
  BY <1>8, <1>9
<1> QED
  BY <1>4, <1>10 DEF RoomInv

\* With one thread that deletes and clears, the map that counts its expired entries
\* still has room for a put that believes its size.
THEOREM RoomIsKept == OneRemover => (TSpec => []ExpiryKeepsRoom)
<1> SUFFICES ASSUME OneRemover PROVE TSpec => []ExpiryKeepsRoom
  OBVIOUS
<1>1. TInit => RoomInv
  <2> SUFFICES ASSUME TInit PROVE RoomInv
    OBVIOUS
  <2>1. Live(nodes) \cup Held = {}
    BY DEF TInit, Init, Live, Empty, Held, Holding
  <2>2. Cardinality(Live(nodes) \cup Held) <= size /\ size <= Capacity
    <3>1. Cardinality(Live(nodes) \cup Held) = 0
      BY <2>1, FS_EmptySet
    <3>2. size = 0 /\ Capacity \in Nat
      BY HashTableAssumption DEF TInit, Init
    <3> QED
      BY <3>1, <3>2
  <2> QED
    BY <2>2 DEF TInit, Init, RoomInv, RemoversOK, PutReturns, At
<1>2. TimedInv /\ TimedInv' /\ RoomInv /\ [TNext]_tvars => RoomInv'
  <2> SUFFICES ASSUME TimedInv, TimedInv', RoomInv, [TNext]_tvars PROVE RoomInv'
    OBVIOUS
  <2>1. CASE UNCHANGED vars
    BY <2>1 DEF vars, table, args, RoomInv, RemoversOK, PutReturns, Held, Holding, Live, At
  <2>2. UNCHANGED tvars \/ Tick => UNCHANGED vars
    BY DEF tvars, Tick
  <2>3. ASSUME NEW t \in Threads, Begins(t) \/ Step(t)
        PROVE  RoomInv'
    BY <2>3, RoomForMapStep DEF TimedInv, TTypeOK
  <2> QED
    BY <2>1, <2>2, <2>3, TimedCases, RoomForVisit
<1>3. TimedInv /\ RoomInv => ExpiryKeepsRoom
  <2> SUFFICES ASSUME TimedInv, RoomInv PROVE ExpiryKeepsRoom
    OBVIOUS
  <2>1. TypeOK
    BY DEF TimedInv, TTypeOK
  <2>2. /\ Cardinality(Live(nodes)) <= Cardinality(Live(nodes) \cup Held)
        /\ Cardinality(Live(nodes)) \in Nat /\ Cardinality(Live(nodes) \cup Held) \in Nat
    BY <2>1, RoomShrinks, HeldFinite
  <2>3. size \in Nat
    BY <2>1, HashmapAssumption DEF TypeOK
  <2> QED
    BY <2>2, <2>3 DEF RoomInv, ExpiryKeepsRoom, SizeCoversEntries
<1> QED
  BY <1>1, <1>2, <1>3, TimedInvHolds, PTL DEF TSpec
=============================================================================
