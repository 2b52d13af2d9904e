----------------------------- MODULE QueueProofs -----------------------------
(***************************************************************************)
(* What holds of module Queue for any threads, items and nodes, and for    *)
(* callers that invalidate the queue at any time as well as for those that *)
(* wait until it is quiet.                                                 *)
(***************************************************************************)
EXTENDS Queue, TLAPS, FiniteSetTheorems, SequenceTheorems

\* The mutex is held by the thread that is between its lock and its unlock call
\* (a crashed thread keeps it).
LockHeld == \A t \in Threads : pc[t] \in Critical \cup {"crash"} <=> lock = t

\* What the callers' discipline buys: an invalidation runs alone, and once it is
\* over no other call is under way.
Quiet ==
    Quiesce =>
        /\ \A t, u \in Threads : pc[t] \in Invalidating /\ u # t => pc[u] = "idle"
        /\ \A t \in Threads : invalid => pc[t] \in {"idle", "i_unlock"}

USE DEF Labels, Operations

-----------------------------------------------------------------------------
\* Every action begins with Goto: a step of t moves t, and no other thread, from
\* one label to the next.
LEMMA GotoMoves ==
    ASSUME TypeOK, NEW t \in Threads, NEW from, NEW to \in Labels, Goto(t, from, to)
    PROVE  /\ pc[t] = from
           /\ pc' \in [Threads -> Labels]
           /\ pc'[t] = to
           /\ \A u \in Threads : u # t => pc'[u] = pc[u]
BY DEF Goto, TypeOK

\* The queue begins with the types it has.
LEMMA TypeInit == Init => TypeOK
<1> SUFFICES ASSUME Init PROVE TypeOK
  OBVIOUS
<1>1. linked \in Seq(Nodes)
  BY DEF Init
<1> QED
  BY <1>1, QueueAssumption DEF Init, TypeOK

\* The list shape is needed where a node leaves the list: its tail is then that
\* of a list which is not empty.
LEMMA TypeStep == TypeOK /\ ListShape /\ [Next]_vars => TypeOK'
<1> SUFFICES ASSUME TypeOK, ListShape, [Next]_vars PROVE TypeOK'
  OBVIOUS
<1> USE DEF TypeOK, Results, Lock, Unlock, Goto
<1>1. CASE UNCHANGED vars
  BY <1>1 DEF vars, list, sync, heap, locals
<1> SUFFICES ASSUME NEW t \in Threads,
                    BeginEnqueue(t) \/ BeginDequeue(t) \/ BeginInvalidate(t) \/ Step(t)
             PROVE  TypeOK'
  BY <1>1 DEF Next
<1>2. CASE BeginEnqueue(t)
  BY <1>2 DEF BeginEnqueue, Begin, list, sync, heap
<1>3. CASE BeginDequeue(t)
  BY <1>3 DEF BeginDequeue, Begin, list, sync, heap
<1>4. CASE BeginInvalidate(t)
  BY <1>4 DEF BeginInvalidate, Begin, list, sync, heap
<1>5. CASE AllocFails(t)
  BY <1>5 DEF AllocFails, list, sync, heap
<1>6. CASE Alloc(t)
  <2>1. PICK n \in Nodes \ allocated : /\ allocated' = allocated \cup {n}
                                       /\ node' = [node EXCEPT ![t] = n]
                                       /\ item' = [item EXCEPT ![n] = val[t]]
                                       /\ next' = [next EXCEPT ![n] = "null"]
    BY <1>6 DEF Alloc
  <2> QED
    BY <1>6, <2>1 DEF Alloc, list, sync
<1>7. CASE EnqueueLock(t)
  BY <1>7 DEF EnqueueLock, list, heap, locals
<1>8. CASE Link(t)
  BY <1>8 DEF Link, sync, locals
<1>9. CASE Post(t)
  BY <1>9 DEF Post, list, heap, locals
<1>10. CASE EnqueueUnlock(t)
  BY <1>10 DEF EnqueueUnlock, list, heap
<1>11. CASE Wait(t)
  BY <1>11 DEF Wait, list, heap, locals
<1>12. CASE DequeueLock(t)
  BY <1>12 DEF DequeueLock, list, heap, locals
<1> DEFINE RemoveFrontTypeOK ==
      /\ front' \in Nodes \cup {"null"}
      /\ linked' \in Seq(Nodes)
      /\ allocated' \subseteq Nodes
      /\ next' \in [Nodes -> Nodes \cup {"null"}]
      /\ item' \in [Nodes -> Items \cup {"null"}]
<1>13. RemoveFront => RemoveFrontTypeOK
  <2> SUFFICES ASSUME RemoveFront PROVE RemoveFrontTypeOK
    OBVIOUS
  <2>1. linked # <<>> /\ front \in Nodes
    BY DEF RemoveFront, ListShape
  <2>2. linked' \in Seq(Nodes)
    BY <2>1 DEF RemoveFront
  <2> QED
    BY <2>1, <2>2 DEF RemoveFront
<1>14. CASE Pop(t)
  <2>1. CASE front = "null"
    <3>1. UNCHANGED <<list, sync, invalid, heap, locals>>
      BY <1>14, <2>1 DEF Pop
    <3>2. /\ pc' \in [Threads -> Labels]
          /\ \A u \in Threads : pc'[u] # "crash" => pc'[u] = pc[u]
      BY <1>14, <2>1 DEF Pop
    <3> HIDE DEF Goto, Results
    <3> QED
      BY <3>1, <3>2 DEF list, sync, heap, locals
  <2>2. CASE front # "null"
    <3>1. RemoveFrontTypeOK
      BY <1>13, <1>14, <2>2 DEF Pop
    <3>2. /\ pc' \in [Threads -> Labels]
          /\ val' \in [Threads -> Items \cup {"null", "true", "false"}]
          /\ UNCHANGED <<rear, items, lock, invalid, node>>
      BY <1>14, <2>2 DEF Pop, sync
    <3>3. \A u \in Threads : /\ pc'[u] = "e_alloc" => val'[u] \in Items
                             /\ pc'[u] \in {"e_lock", "e_link"} => node'[u] \in Nodes
      BY <1>14, <2>2, <3>2 DEF Pop
    <3> HIDE DEF Goto, Results
    <3> QED
      BY <3>1, <3>2, <3>3
  <2> QED
    BY <2>1, <2>2
<1>15. CASE DequeueUnlock(t)
  BY <1>15 DEF DequeueUnlock, list, heap, locals
<1>16. CASE InvalidateLock(t)
  BY <1>16 DEF InvalidateLock, list, heap, locals
<1>17. CASE Destroy(t)
  BY <1>13, <1>17 DEF Destroy, sync, locals
<1>18. CASE Mark(t)
  BY <1>18 DEF Mark, sync, heap, locals
<1>19. CASE InvalidateUnlock(t)
  BY <1>19 DEF InvalidateUnlock, list, heap
<1> QED
  BY <1>2, <1>3, <1>4, <1>5, <1>6, <1>7, <1>8, <1>9, <1>10, <1>11, <1>12, <1>14,
     <1>15, <1>16, <1>17, <1>18, <1>19 DEF Step
-----------------------------------------------------------------------------
\* The mutex excludes: a step that enters or leaves a critical section takes or
\* gives back the mutex, and no other step touches either.
LEMMA LockStep == TypeOK /\ LockHeld /\ [Next]_vars => LockHeld'
<1> SUFFICES ASSUME TypeOK, LockHeld, [Next]_vars PROVE LockHeld'
  OBVIOUS
<1> USE QueueAssumption DEF LockHeld, Critical, Goto, Lock, Unlock, TypeOK
<1>1. CASE UNCHANGED vars
  BY <1>1 DEF vars, sync
<1> SUFFICES ASSUME NEW t \in Threads,
                    BeginEnqueue(t) \/ BeginDequeue(t) \/ BeginInvalidate(t) \/ Step(t)
             PROVE  LockHeld'
  BY <1>1 DEF Next
<1>2. CASE BeginEnqueue(t) \/ BeginDequeue(t) \/ BeginInvalidate(t)
  BY <1>2 DEF BeginEnqueue, BeginDequeue, BeginInvalidate, Begin, sync
<1>3. CASE AllocFails(t) \/ Alloc(t) \/ EnqueueLock(t)
  BY <1>3 DEF AllocFails, Alloc, EnqueueLock, sync
<1>4. CASE Link(t) \/ Post(t) \/ EnqueueUnlock(t)
  BY <1>4 DEF Link, Post, EnqueueUnlock, sync
<1>5. CASE Wait(t) \/ DequeueLock(t) \/ Pop(t) \/ DequeueUnlock(t)
  BY <1>5 DEF Wait, DequeueLock, Pop, DequeueUnlock, sync
<1>6. CASE InvalidateLock(t) \/ Destroy(t)
  BY <1>6 DEF InvalidateLock, Destroy, sync
<1>7. CASE Mark(t) \/ InvalidateUnlock(t)
  BY <1>7 DEF Mark, InvalidateUnlock, sync
<1> QED
  BY <1>2, <1>3, <1>4, <1>5, <1>6, <1>7 DEF Step
-----------------------------------------------------------------------------
\* What the pointer assignments do to the list, each under the mutex.
ListInv == ListShape /\ NodesAccountedFor

\* Linking a node at the rear keeps the list.
LEMMA LinkKeepsList ==
    ASSUME TypeOK, ListInv, NEW t \in Threads, Link(t)
    PROVE  ListInv'
<1> USE DEF TypeOK, Goto
<1>1. /\ pc[t] = "e_link" /\ node[t] \in Carried /\ node[t] \in Nodes
      /\ node[t] \notin Members /\ node[t] \in allocated
  BY DEF Link, Carried, At, ListInv, NodesAccountedFor
<1>2. /\ Carried' = Carried \ {node[t]}
      /\ \A u, v \in At({"e_lock", "e_link"})' : node'[u] = node'[v] => u = v
  BY <1>1 DEF Link, Carried, At, ListInv, NodesAccountedFor, locals
<1>3. Len(linked') = Len(linked) + 1 /\ DOMAIN linked' = 1 .. (Len(linked) + 1)
  BY <1>1 DEF Link
<1>4. \A k \in DOMAIN linked : linked'[k] = linked[k]
  BY <1>1 DEF Link
<1>5. linked'[Len(linked) + 1] = node[t]
  BY <1>1 DEF Link
<1>6. Members' = Members \cup {node[t]}
  BY <1>3, <1>4, <1>5 DEF Members
<1>7. NodesAccountedFor'
  <2>1. \A n \in Carried' : next'[n] = "null"
    <3>1. front # "null" => rear \in Members
      BY DEF ListInv, ListShape, Members
    <3> QED
      BY <1>2, <3>1 DEF Link, ListInv, NodesAccountedFor
  <2> QED
    BY <1>1, <1>2, <1>6, <2>1 DEF ListInv, NodesAccountedFor, Link
<1>8. CASE front = "null"
  <2>1. linked = <<>> /\ Len(linked) = 0
    BY <1>8, QueueAssumption DEF ListInv, ListShape
  <2>2. front' = node[t] /\ rear' = node[t] /\ next'[node[t]] = "null"
    BY <1>1, <1>8 DEF Link, ListInv, NodesAccountedFor
  <2>3. /\ Len(linked') = 1 /\ linked' # <<>> /\ linked'[1] = node[t]
        /\ \A k \in DOMAIN linked' : k = 1
    <3>1. Len(linked') = 1 /\ linked'[1] = node[t]
      BY <1>3, <1>5, <2>1
    <3>2. \A k \in DOMAIN linked' : k = 1
      BY <1>3, <2>1
    <3>3. linked' # <<>>
      BY <1>1, <2>1 DEF Link
    <3> QED
      BY <3>1, <3>2, <3>3
  <2>4. ListShape'
    BY <2>2, <2>3 DEF ListShape
  <2> QED
    BY <1>7, <2>4 DEF ListInv
<1>9. CASE front # "null"
  <2> DEFINE last == Len(linked)
  <2>1. /\ linked # <<>> /\ last \in DOMAIN linked /\ 1 \in DOMAIN linked
        /\ rear = linked[last] /\ rear \in Nodes /\ front = linked[1]
    BY <1>9 DEF ListInv, ListShape
  <2>2. front' = front /\ rear' = node[t] /\ next' = [next EXCEPT ![rear] = node[t]]
    BY <1>9 DEF Link
  <2>3. front' = linked'[1]
    BY <1>4, <2>1, <2>2
  <2>4. \A j, k \in DOMAIN linked' : linked'[j] = linked'[k] => j = k
    BY <1>1, <1>3, <1>4, <1>5 DEF Members, ListInv, ListShape
  <2>5. next'[node[t]] = "null"
    <3>1. rear # node[t]
      BY <1>1, <2>1 DEF Members
    <3> QED
      BY <1>1, <2>2, <3>1 DEF ListInv, NodesAccountedFor
  <2>6. ASSUME NEW k \in DOMAIN linked PROVE next'[linked[k]] = linked'[k + 1]
    <3>1. linked[k] \in Nodes
      OBVIOUS
    <3>2. CASE k = last
      BY <1>5, <2>1, <2>2, <3>1, <3>2
    <3>3. CASE k # last
      <4>1. linked[k] # rear /\ k + 1 \in DOMAIN linked
        BY <2>1, <3>3 DEF ListInv, ListShape
      <4> QED
        BY <1>4, <2>2, <3>1, <3>3, <4>1 DEF ListInv, ListShape
    <3> QED
      BY <3>2, <3>3
  <2>7. ListShape'
    BY <1>3, <1>4, <1>5, <2>2, <2>3, <2>4, <2>5, <2>6 DEF ListShape
  <2> QED
    BY <1>7, <2>7 DEF ListInv
<1> QED
  BY <1>8, <1>9

\* Taking the front node off keeps the list.
LEMMA RemoveFrontKeepsList ==
    ASSUME TypeOK, ListInv, RemoveFront, Carried' = Carried, node' = node, rear' = rear,
           At({"e_lock", "e_link"})' = At({"e_lock", "e_link"})
    PROVE  ListInv'
<1> USE DEF TypeOK, ListInv
<1>1. /\ linked # <<>> /\ front = linked[1] /\ front \in Nodes /\ front \in Members
      /\ 1 \in DOMAIN linked
  BY DEF RemoveFront, ListShape, Members
<1>2. /\ Len(linked') = Len(linked) - 1
      /\ DOMAIN linked' = 1 .. (Len(linked) - 1)
      /\ \A k \in DOMAIN linked' : linked'[k] = linked[k + 1] /\ k + 1 \in DOMAIN linked
  BY <1>1 DEF RemoveFront
<1>3. \A k \in DOMAIN linked : linked[k] = front => k = 1
  BY <1>1 DEF ListShape
<1>4. Members' = Members \ {front}
  <2>1. Members' \subseteq Members \ {front}
    BY <1>2, <1>3 DEF Members
  <2>2. ASSUME NEW k \in DOMAIN linked, linked[k] # front PROVE linked[k] \in Members'
    <3>1. k - 1 \in DOMAIN linked' /\ linked'[k - 1] = linked[k]
      BY <1>1, <1>2, <2>2
    <3> QED
      BY <3>1 DEF Members
  <2>3. Members \ {front} \subseteq Members'
    BY <2>2 DEF Members
  <2> QED
    BY <2>1, <2>3
<1>5. NodesAccountedFor'
  <2>1. \A n \in Carried' : n \in Nodes /\ n # front /\ next'[n] = "null"
    BY <1>1 DEF NodesAccountedFor, RemoveFront
  <2>2. allocated' = Members' \cup Carried' /\ Members' \cap Carried' = {}
    BY <1>1, <1>4 DEF NodesAccountedFor, RemoveFront
  <2> QED
    BY <2>1, <2>2 DEF NodesAccountedFor
<1>6. ListShape'
  <2>1. front' = IF linked' = <<>> THEN "null" ELSE linked'[1]
    BY <1>1, <1>2 DEF RemoveFront, ListShape
  <2>2. \A j, k \in DOMAIN linked' : linked'[j] = linked'[k] => j = k
    BY <1>2 DEF ListShape
  <2>3. ASSUME NEW k \in DOMAIN linked'
        PROVE  IF k = Len(linked') THEN rear' = linked'[k] /\ next'[linked'[k]] = "null"
                                   ELSE next'[linked'[k]] = linked'[k + 1]
    <3>1. /\ k + 1 \in DOMAIN linked /\ linked[k + 1] # front /\ linked'[k] = linked[k + 1]
          /\ linked[k + 1] \in Nodes
      BY <1>2, <1>3
    <3>2. next'[linked'[k]] = next[linked[k + 1]]
      BY <1>1, <3>1 DEF RemoveFront
    <3> QED
      BY <1>2, <3>1, <3>2 DEF ListShape
  <2> QED
    BY <2>1, <2>2, <2>3 DEF ListShape
<1> QED
  BY <1>5, <1>6

\* A new node that is in no list leaves the list alone.
LEMMA AllocKeepsList ==
    ASSUME TypeOK, ListInv, NEW t \in Threads, Alloc(t)
    PROVE  ListInv'
<1> USE DEF TypeOK, ListInv, Goto
<1>1. PICK n \in Nodes \ allocated : /\ allocated' = allocated \cup {n}
                                     /\ node' = [node EXCEPT ![t] = n]
                                     /\ item' = [item EXCEPT ![n] = val[t]]
                                     /\ next' = [next EXCEPT ![n] = "null"]
  BY DEF Alloc
<1>2. n \notin Members /\ n \notin Carried
  BY DEF NodesAccountedFor
<1>3. /\ front' = front /\ rear' = rear /\ linked' = linked
      /\ Members' = Members
  BY DEF Alloc, list, Members
<1>4. /\ At({"e_lock", "e_link"})' = At({"e_lock", "e_link"}) \cup {t}
      /\ t \notin At({"e_lock", "e_link"})
  BY DEF Alloc, At
<1>5. Carried' = Carried \cup {n}
  BY <1>1, <1>4 DEF Carried, At
<1>6. \A u, v \in At({"e_lock", "e_link"})' : node'[u] = node'[v] => u = v
  BY <1>1, <1>2, <1>4 DEF NodesAccountedFor, Carried, At
<1>7. \A m \in Carried' : next'[m] = "null"
  BY <1>1, <1>2, <1>5 DEF NodesAccountedFor
<1>8. NodesAccountedFor'
  BY <1>1, <1>2, <1>3, <1>5, <1>6, <1>7 DEF NodesAccountedFor
<1>9. \A k \in DOMAIN linked : next'[linked[k]] = next[linked[k]]
  BY <1>1, <1>2 DEF Members
<1>10. ListShape'
  BY <1>3, <1>9 DEF ListShape
<1> QED
  BY <1>8, <1>10

\* Every step keeps the list.
LEMMA ListStep == TypeOK /\ ListInv /\ [Next]_vars => ListInv'
<1> SUFFICES ASSUME TypeOK, ListInv, [Next]_vars PROVE ListInv'
  OBVIOUS
<1> DEFINE Same == /\ UNCHANGED <<front, linked, next, allocated>>
                   /\ linked # <<>> => rear' = rear
                   /\ Carried' = Carried
                   /\ \A u \in At({"e_lock", "e_link"})' :
                         u \in At({"e_lock", "e_link"}) /\ node'[u] = node[u]
<1>1. Same => ListInv'
  BY DEF ListInv, ListShape, NodesAccountedFor, Members
<1>2. CASE UNCHANGED vars
  BY <1>1, <1>2 DEF vars, list, heap, locals, Carried, At
<1> SUFFICES ASSUME NEW t \in Threads,
                    BeginEnqueue(t) \/ BeginDequeue(t) \/ BeginInvalidate(t) \/ Step(t)
             PROVE  ListInv'
  BY <1>2 DEF Next
<1>3. ASSUME NEW from, NEW to, Goto(t, from, to),
             \A u \in Threads : u # t \/ from # "e_unlock" => node'[u] = node[u],
             from \in {"e_lock", "e_link"} <=> to \in {"e_lock", "e_link"}
      PROVE  /\ Carried' = Carried
             /\ At({"e_lock", "e_link"})' = At({"e_lock", "e_link"})
             /\ \A u \in At({"e_lock", "e_link"}) : node'[u] = node[u]
  BY <1>3 DEF Goto, TypeOK, Carried, At
<1>4. CASE BeginEnqueue(t) \/ BeginDequeue(t) \/ BeginInvalidate(t)
  BY <1>1, <1>3, <1>4 DEF BeginEnqueue, BeginDequeue, BeginInvalidate, Begin, list, heap
<1>5. CASE AllocFails(t)
  BY <1>1, <1>3, <1>5 DEF AllocFails, list, heap
<1>6. CASE Alloc(t)
  BY <1>6, AllocKeepsList
<1>7. CASE EnqueueLock(t)
  BY <1>1, <1>3, <1>7 DEF EnqueueLock, list, heap, locals
<1>8. CASE Link(t)
  BY <1>8, LinkKeepsList
<1>9. CASE Post(t)
  BY <1>1, <1>3, <1>9 DEF Post, list, heap, locals
<1>10. CASE EnqueueUnlock(t)
  BY <1>1, <1>3, <1>10 DEF EnqueueUnlock, list, heap
<1>11. CASE Wait(t)
  BY <1>1, <1>3, <1>11 DEF Wait, list, heap, locals
<1>12. CASE DequeueLock(t)
  BY <1>1, <1>3, <1>12 DEF DequeueLock, list, heap, locals
<1>13. CASE Pop(t)
  <2>1. CASE front = "null"
    BY <1>1, <1>3, <1>13, <2>1 DEF Pop, list, heap, locals
  <2>2. CASE front # "null"
    BY <1>3, <1>13, <2>2, RemoveFrontKeepsList DEF Pop
  <2> QED
    BY <2>1, <2>2
<1>14. CASE DequeueUnlock(t)
  BY <1>1, <1>3, <1>14 DEF DequeueUnlock, list, heap, locals
<1>15. CASE InvalidateLock(t)
  BY <1>1, <1>3, <1>15 DEF InvalidateLock, list, heap, locals
<1>16. CASE Destroy(t)
  BY <1>3, <1>16, RemoveFrontKeepsList DEF Destroy, locals
<1>17. CASE Mark(t)
  <2>1. linked = <<>>
    BY <1>17, QueueAssumption DEF Mark, ListInv, ListShape, TypeOK
  <2> QED
    BY <1>1, <1>3, <1>17, <2>1 DEF Mark, heap, locals
<1>18. CASE InvalidateUnlock(t)
  BY <1>1, <1>3, <1>18 DEF InvalidateUnlock, list, heap
<1> QED
  BY <1>4, <1>5, <1>6, <1>7, <1>8, <1>9, <1>10, <1>11, <1>12, <1>13, <1>14,
     <1>15, <1>16, <1>17, <1>18 DEF Step
-----------------------------------------------------------------------------
(***************************************************************************)
(* The semaphore's count.  A step moves one thread, so that the number of  *)
(* threads at a set of labels changes by one at most.                      *)
(***************************************************************************)
LEMMA AtCounts ==
    ASSUME TypeOK, NEW t \in Threads, NEW labels, NEW from, NEW to \in Labels,
           Goto(t, from, to)
    PROVE  /\ Cardinality(At(labels)) \in Nat /\ Cardinality(At(labels)') \in Nat
           /\ (from \in labels <=> to \in labels) => At(labels)' = At(labels)
           /\ from \notin labels /\ to \in labels =>
                 Cardinality(At(labels)') = Cardinality(At(labels)) + 1
           /\ from \in labels /\ to \notin labels =>
                 Cardinality(At(labels)) = Cardinality(At(labels)') + 1
<1>1. /\ pc[t] = from /\ pc'[t] = to
      /\ \A u \in Threads : u # t => pc'[u] = pc[u]
  BY GotoMoves
<1>2. IsFiniteSet(At(labels)) /\ IsFiniteSet(At(labels)')
  BY QueueAssumption, FS_Subset DEF At
<1>3. Cardinality(At(labels)) \in Nat /\ Cardinality(At(labels)') \in Nat
  BY <1>2, FS_CardinalityType
<1>4. (from \in labels <=> to \in labels) => At(labels)' = At(labels)
  BY <1>1 DEF At
<1>5. ASSUME from \notin labels, to \in labels
      PROVE  Cardinality(At(labels)') = Cardinality(At(labels)) + 1
  <2>1. At(labels)' = At(labels) \cup {t} /\ t \notin At(labels)
    BY <1>1, <1>5 DEF At
  <2> QED
    BY <1>2, <2>1, FS_AddElement
<1>6. ASSUME from \in labels, to \notin labels
      PROVE  Cardinality(At(labels)) = Cardinality(At(labels)') + 1
  <2>1. At(labels) = At(labels)' \cup {t} /\ t \notin At(labels)'
    BY <1>1, <1>6 DEF At
  <2> QED
    BY <1>2, <2>1, FS_AddElement
<1> QED
  BY <1>3, <1>4, <1>5, <1>6

\* The destroy loop is entered for good: it ends with the queue invalid.
LEMMA TicketStep ==
    TypeOK /\ LockHeld /\ ListInv /\ TicketsMatchItems /\ [Next]_vars => TicketsMatchItems'
<1> SUFFICES ASSUME TypeOK, LockHeld, ListInv, TicketsMatchItems, [Next]_vars,
                    ~invalid', At({"i_destroy"})' = {}
             PROVE  (items + Cardinality(At({"d_lock", "d_pop"})) =
                       Len(linked) - Cardinality(At({"e_post"})))'
  BY DEF TicketsMatchItems
<1> DEFINE Past   == Cardinality(At({"d_lock", "d_pop"}))
           Posting == Cardinality(At({"e_post"}))
<1>1. CASE UNCHANGED vars
  BY <1>1 DEF vars, list, sync, TicketsMatchItems, At
<1> SUFFICES ASSUME NEW t \in Threads,
                    BeginEnqueue(t) \/ BeginDequeue(t) \/ BeginInvalidate(t) \/ Step(t)
             PROVE  (items + Past = Len(linked) - Posting)'
  BY <1>1 DEF Next
<1>2. ASSUME NEW from, NEW to \in Labels \ {"i_destroy"}, Goto(t, from, to),
             from # "i_destroy", invalid' = invalid
      PROVE  /\ items + Past = Len(linked) - Posting
             /\ Past \in Nat /\ Posting \in Nat /\ Past' \in Nat /\ Posting' \in Nat
             /\ (from \in {"d_lock", "d_pop"} <=> to \in {"d_lock", "d_pop"}) => Past' = Past
             /\ (from = "e_post" <=> to = "e_post") => Posting' = Posting
             /\ (from = "e_link" /\ to = "e_post") => Posting' = Posting + 1
             /\ (from = "e_post" /\ to = "e_unlock") => Posting = Posting' + 1
             /\ (from = "d_wait" /\ to = "d_lock") => Past' = Past + 1
             /\ (from = "d_pop" /\ to = "d_unlock") => Past = Past' + 1
  <2>1. At({"i_destroy"})' = At({"i_destroy"})
    BY <1>2, AtCounts
  <2>2. items + Past = Len(linked) - Posting
    BY <1>2, <2>1 DEF TicketsMatchItems
  <2>3. /\ Past \in Nat /\ Past' \in Nat
        /\ (from \in {"d_lock", "d_pop"} <=> to \in {"d_lock", "d_pop"}) => Past' = Past
        /\ from \notin {"d_lock", "d_pop"} /\ to \in {"d_lock", "d_pop"} => Past' = Past + 1
        /\ from \in {"d_lock", "d_pop"} /\ to \notin {"d_lock", "d_pop"} => Past = Past' + 1
    <3> DEFINE passed == {"d_lock", "d_pop"}
    <3> HIDE DEF passed
    <3>1. /\ Cardinality(At(passed)) \in Nat /\ Cardinality(At(passed)') \in Nat
          /\ (from \in passed <=> to \in passed) => At(passed)' = At(passed)
          /\ from \notin passed /\ to \in passed =>
                Cardinality(At(passed)') = Cardinality(At(passed)) + 1
          /\ from \in passed /\ to \notin passed =>
                Cardinality(At(passed)) = Cardinality(At(passed)') + 1
      BY <1>2, AtCounts
    <3> QED
      BY <3>1 DEF passed
  <2>4. /\ Posting \in Nat /\ Posting' \in Nat
        /\ (from \in {"e_post"} <=> to \in {"e_post"}) => Posting' = Posting
        /\ from \notin {"e_post"} /\ to \in {"e_post"} => Posting' = Posting + 1
        /\ from \in {"e_post"} /\ to \notin {"e_post"} => Posting = Posting' + 1
    <3> DEFINE posting == {"e_post"}
    <3> HIDE DEF posting
    <3>1. /\ Cardinality(At(posting)) \in Nat /\ Cardinality(At(posting)') \in Nat
          /\ (from \in posting <=> to \in posting) => At(posting)' = At(posting)
          /\ from \notin posting /\ to \in posting =>
                Cardinality(At(posting)') = Cardinality(At(posting)) + 1
          /\ from \in posting /\ to \notin posting =>
                Cardinality(At(posting)) = Cardinality(At(posting)') + 1
      BY <1>2, AtCounts
    <3> QED
      BY <3>1 DEF posting
  <2> HIDE DEF Past, Posting
  <2> QED
    BY <2>2, <2>3, <2>4
<1> HIDE DEF Past, Posting
<1>3. CASE BeginEnqueue(t) \/ BeginDequeue(t) \/ BeginInvalidate(t)
  BY <1>2, <1>3 DEF BeginEnqueue, BeginDequeue, BeginInvalidate, Begin, list, sync
<1>4. CASE AllocFails(t) \/ Alloc(t)
  BY <1>2, <1>4 DEF AllocFails, Alloc, list, sync
<1>5. CASE EnqueueLock(t)
  BY <1>2, <1>5 DEF EnqueueLock, list
<1>6. CASE Link(t)
  <2>1. node[t] \in Nodes
    BY <1>6 DEF Link, Goto, TypeOK
  <2>2. Len(linked') = Len(linked) + 1
    BY <1>6, <2>1 DEF Link, TypeOK
  <2>3. /\ items + Past = Len(linked) - Posting /\ Past' = Past /\ Posting' = Posting + 1
        /\ Past \in Nat /\ Posting \in Nat
    BY <1>2, <1>6 DEF Link
  <2>4. items' = items /\ items \in Nat /\ Len(linked) \in Nat
    BY <1>6 DEF Link, sync, TypeOK
  <2> QED
    BY <2>2, <2>3, <2>4
<1>7. CASE Post(t)
  <2>1. /\ items + Past = Len(linked) - Posting /\ Past' = Past /\ Posting = Posting' + 1
        /\ Past \in Nat /\ Posting' \in Nat
    BY <1>2, <1>7 DEF Post
  <2>2. linked' = linked /\ items' = items + 1 /\ items \in Nat /\ Len(linked) \in Nat
    BY <1>7 DEF Post, list, TypeOK
  <2> QED
    BY <2>1, <2>2
<1>8. CASE EnqueueUnlock(t)
  BY <1>2, <1>8 DEF EnqueueUnlock, list
<1>9. CASE Wait(t)
  BY <1>2, <1>9 DEF Wait, list, TypeOK
<1>10. CASE DequeueLock(t)
  BY <1>2, <1>10 DEF DequeueLock, list
<1>11. CASE Pop(t)
  <2>1. front # "null"
    <3>1. CASE front = "null"
      \* The counts leave no room for a thread that passed the semaphore.
      <4>1. Past > 0
        <5>1. t \in At({"d_lock", "d_pop"}) /\ IsFiniteSet(At({"d_lock", "d_pop"}))
          BY <1>11, <3>1, QueueAssumption, FS_Subset DEF Pop, Goto, At
        <5> QED
          BY <5>1, FS_EmptySet, FS_CardinalityType DEF Past
      <4>2. linked = <<>>
        BY <3>1, QueueAssumption DEF ListInv, ListShape, TypeOK
      <4>3. items + Past = Len(linked) - Posting /\ Posting \in Nat /\ Past \in Nat
        BY <1>2, <1>11, <3>1 DEF Pop, list, sync
      <4> QED
        BY <4>1, <4>2, <4>3 DEF TypeOK
    <3> QED
      BY <3>1
  <2>2. Len(linked') = Len(linked) - 1
    BY <1>11, <2>1 DEF Pop, RemoveFront, ListInv, ListShape, TypeOK
  <2>3. /\ items + Past = Len(linked) - Posting /\ Past = Past' + 1 /\ Posting' = Posting
        /\ Past' \in Nat /\ Posting \in Nat
    BY <1>2, <1>11, <2>1 DEF Pop, sync
  <2>4. items' = items /\ items \in Nat /\ Len(linked) \in Nat
    BY <1>11, <2>1 DEF Pop, sync, TypeOK
  <2> QED
    BY <2>2, <2>3, <2>4
<1>12. CASE DequeueUnlock(t)
  BY <1>2, <1>12 DEF DequeueUnlock, list
<1>13. CASE InvalidateLock(t)
  BY <1>13, GotoMoves DEF InvalidateLock, At
<1>14. CASE Destroy(t)
  BY <1>14, GotoMoves DEF Destroy, At
<1>15. CASE Mark(t)
  BY <1>15 DEF Mark
<1>16. CASE InvalidateUnlock(t)
  BY <1>2, <1>16 DEF InvalidateUnlock, list
<1> QED
  BY <1>3, <1>4, <1>5, <1>6, <1>7, <1>8, <1>9, <1>10, <1>11, <1>12, <1>13, <1>14,
     <1>15, <1>16 DEF Step
-----------------------------------------------------------------------------
\* Every step keeps others out while one invalidates.
LEMMA QuietStep == TypeOK /\ Quiet /\ [Next]_vars => Quiet'
<1> SUFFICES ASSUME TypeOK, Quiet, [Next]_vars, Quiesce PROVE Quiet'
  BY DEF Quiet
<1> USE DEF Quiet, Goto, Invalidating, TypeOK
<1>1. CASE UNCHANGED vars
  BY <1>1 DEF vars
<1> SUFFICES ASSUME NEW t \in Threads,
                    BeginEnqueue(t) \/ BeginDequeue(t) \/ BeginInvalidate(t) \/ Step(t)
             PROVE  Quiet'
  BY <1>1 DEF Next
<1>2. CASE BeginInvalidate(t)
  BY <1>2 DEF BeginInvalidate, Begin, Permitted
<1>3. CASE BeginEnqueue(t) \/ BeginDequeue(t)
  BY <1>3 DEF BeginEnqueue, BeginDequeue, Begin, Permitted
<1>4. CASE AllocFails(t) \/ Alloc(t) \/ EnqueueLock(t) \/ Link(t)
  BY <1>4 DEF AllocFails, Alloc, EnqueueLock, Link
<1>5. CASE Post(t) \/ EnqueueUnlock(t) \/ Wait(t) \/ DequeueLock(t)
  BY <1>5 DEF Post, EnqueueUnlock, Wait, DequeueLock
<1>6. CASE Pop(t) \/ DequeueUnlock(t)
  BY <1>6 DEF Pop, DequeueUnlock, sync
<1>7. CASE InvalidateLock(t) \/ Destroy(t)
  BY <1>7 DEF InvalidateLock, Destroy
<1>8. CASE Mark(t) \/ InvalidateUnlock(t)
  BY <1>8 DEF Mark, InvalidateUnlock
<1> QED
  BY <1>2, <1>3, <1>4, <1>5, <1>6, <1>7, <1>8 DEF Step

\* Every step leaves an invalid queue empty.
LEMMA InvalidIsEmptyStep ==
    TypeOK /\ ListInv /\ Quiesce /\ Quiet /\ InvalidIsEmpty /\ [Next]_vars => InvalidIsEmpty'
<1> SUFFICES ASSUME TypeOK, ListInv, Quiesce, Quiet, InvalidIsEmpty, [Next]_vars
             PROVE  InvalidIsEmpty'
  OBVIOUS
<1> USE DEF InvalidIsEmpty
<1>1. CASE UNCHANGED vars
  BY <1>1 DEF vars, list, heap
<1> SUFFICES ASSUME NEW t \in Threads,
                    BeginEnqueue(t) \/ BeginDequeue(t) \/ BeginInvalidate(t) \/ Step(t)
             PROVE  InvalidIsEmpty'
  BY <1>1 DEF Next
<1>2. CASE Mark(t)
  <2>1. linked = <<>>
    BY <1>2, QueueAssumption DEF Mark, ListInv, ListShape, TypeOK
  <2>2. Members = {} /\ Carried = {}
    BY <1>2, <2>1 DEF Mark, Goto, Quiet, Invalidating, Members, Carried, At
  <2> QED
    BY <1>2, <2>1, <2>2 DEF Mark, heap, ListInv, NodesAccountedFor
<1>3. CASE BeginEnqueue(t) \/ BeginDequeue(t) \/ BeginInvalidate(t)
  BY <1>3 DEF BeginEnqueue, BeginDequeue, BeginInvalidate, Begin, list, heap
<1>4. CASE InvalidateUnlock(t)
  BY <1>4 DEF InvalidateUnlock, list, heap
<1>5. CASE ~invalid /\ invalid' = invalid
  BY <1>5
\* Every other step is one that no thread of an invalid queue is about to take.
<1>6. CASE invalid
  <2>1. pc[t] \in {"idle", "i_unlock"}
    BY <1>6 DEF Quiet
  <2> USE DEF Goto
  <2>2. ~ (AllocFails(t) \/ Alloc(t) \/ EnqueueLock(t) \/ Link(t) \/ Post(t) \/ EnqueueUnlock(t))
    BY <2>1 DEF AllocFails, Alloc, EnqueueLock, Link, Post, EnqueueUnlock
  <2>3. ~ (Wait(t) \/ DequeueLock(t) \/ Pop(t) \/ DequeueUnlock(t)
             \/ InvalidateLock(t) \/ Destroy(t))
    BY <2>1 DEF Wait, DequeueLock, Pop, DequeueUnlock, InvalidateLock, Destroy
  <2> QED
    BY <1>2, <1>3, <1>4, <2>2, <2>3 DEF Step
<1>7. CASE ~invalid /\ ~Mark(t)
  <2>1. invalid' = invalid
    BY <1>7 DEF Step, BeginEnqueue, BeginDequeue, BeginInvalidate, Begin, AllocFails, Alloc,
                EnqueueLock, Link, Post, EnqueueUnlock, Wait, DequeueLock, Pop, DequeueUnlock,
                InvalidateLock, Destroy, InvalidateUnlock
  <2> QED
    BY <1>5, <1>7, <2>1
<1> QED
  BY <1>2, <1>6, <1>7
-----------------------------------------------------------------------------
\* The inductive invariant.
QueueInv ==
    /\ TypeOK
    /\ LockHeld
    /\ ListInv
    /\ TicketsMatchItems
    /\ Quiet
    /\ Quiesce => InvalidIsEmpty

\* The invariant of the queue.
LEMMA QueueInvHolds == Spec => []QueueInv
<1>1. Init => QueueInv
  <2> SUFFICES ASSUME Init PROVE QueueInv
    OBVIOUS
  <2>1. TypeOK
    BY TypeInit
  <2>2. \A labels : "idle" \notin labels => At(labels) = {}
    BY DEF Init, At
  <2>3. LockHeld /\ Quiet /\ InvalidIsEmpty
    BY QueueAssumption DEF Init, LockHeld, Critical, Quiet, Invalidating, InvalidIsEmpty
  <2>4. Members = {} /\ Carried = {} /\ At({"e_lock", "e_link"}) = {}
    BY <2>2 DEF Init, Members, Carried
  <2>5. ListInv
    BY <2>4 DEF Init, ListInv, ListShape, NodesAccountedFor
  <2>6. Cardinality(At({"d_lock", "d_pop"})) = 0 /\ Cardinality(At({"e_post"})) = 0
    BY <2>2, FS_EmptySet
  <2>7. Len(linked) = 0 /\ items = 0
    BY DEF Init
  <2>8. TicketsMatchItems
    BY <2>6, <2>7 DEF TicketsMatchItems
  <2> QED
    BY <2>1, <2>3, <2>5, <2>8 DEF QueueInv
<1>2. QueueInv /\ [Next]_vars => QueueInv'
  BY TypeStep, LockStep, ListStep, TicketStep, QuietStep, InvalidIsEmptyStep
     DEF QueueInv, ListInv
<1> QED
  BY <1>1, <1>2, PTL DEF Spec

\* The type invariant holds in every reachable state.
THEOREM TypeCorrect == Spec => []TypeOK
BY QueueInvHolds, PTL DEF QueueInv

\* However the calls interleave, a racing invalidation included, front, rear and
\* the next fields describe one list, and every allocated node is in it or in
\* the hands of one enqueue.
THEOREM ListCorrect == Spec => [](ListShape /\ NodesAccountedFor)
<1>1. QueueInv => ListShape /\ NodesAccountedFor
  BY DEF QueueInv, ListInv
<1> QED
  BY <1>1, QueueInvHolds, PTL

\* No node leaks and none is handed out twice: the allocated nodes are the ones in
\* the list and the ones that a single enqueue each is about to link.
THEOREM NodesCorrect == Spec => []NodesAccountedFor
BY ListCorrect, PTL

\* As long as nobody begins to destroy the queue, the semaphore and the threads
\* on their way past it account for every item.
THEOREM TicketsCorrect == Spec => []TicketsMatchItems
<1>1. QueueInv => TicketsMatchItems
  BY DEF QueueInv
<1> QED
  BY <1>1, QueueInvHolds, PTL

\* A thread about to read self->front->item finds a node, in a queue that is not
\* invalid yet: the mutex keeps an invalidation from emptying the list, and the
\* thread's ticket stands for an item.
LEMMA PopFindsNode ==
    ASSUME QueueInv, ~invalid, NEW t \in Threads, pc[t] = "d_pop"
    PROVE  front # "null"
<1> DEFINE Past == Cardinality(At({"d_lock", "d_pop"}))
           Posting == Cardinality(At({"e_post"}))
<1>1. At({"i_destroy"}) = {}
  BY DEF QueueInv, LockHeld, Critical, At
<1>2. IsFiniteSet(At({"d_lock", "d_pop"})) /\ IsFiniteSet(At({"e_post"}))
  BY QueueAssumption, FS_Subset DEF At
<1>3. t \in At({"d_lock", "d_pop"})
  BY DEF At
<1>4. Past \in Nat /\ Past # 0 /\ Posting \in Nat
  BY <1>2, <1>3, FS_EmptySet, FS_CardinalityType
<1>5. items \in Nat /\ items + Past = Len(linked) - Posting
  BY <1>1 DEF QueueInv, TypeOK, TicketsMatchItems
<1>6. linked # <<>>
  <2> SUFFICES ASSUME linked = <<>> PROVE FALSE
    OBVIOUS
  <2>1. Len(linked) = 0
    OBVIOUS
  <2> QED
    BY <1>4, <1>5, <2>1
<1> QED
  BY <1>6, QueueAssumption DEF QueueInv, ListInv, ListShape, TypeOK

\* When invalidate_queue is called only while no other call is under way, no
\* dequeue ever dereferences a NULL front, for any number of threads and nodes.
THEOREM DequeueNeverDereferencesNull == Quiesce => (Spec => []NoNullDeref)
<1> SUFFICES ASSUME Quiesce PROVE Spec => []NoNullDeref
  OBVIOUS
<1>1. QueueInv => NoNullDeref
  BY PopFindsNode DEF NoNullDeref, QueueInv, Quiet
<1> QED
  BY <1>1, QueueInvHolds, PTL

\* Under the same discipline invalidation leaves nothing behind.
THEOREM InvalidationComplete == Quiesce => (Spec => []InvalidIsEmpty)
<1> SUFFICES ASSUME Quiesce PROVE Spec => []InvalidIsEmpty
  OBVIOUS
<1>1. QueueInv => InvalidIsEmpty
  BY DEF QueueInv
<1> QED
  BY <1>1, QueueInvHolds, PTL
-----------------------------------------------------------------------------
(***************************************************************************)
(* The queue implements the FIFO queue.                                    *)
(***************************************************************************)

\* What the list, the program counters and the locals say of the FIFO queue.
Contents == [k \in DOMAIN linked |-> item[linked[k]]]
Calls    == [t \in Threads |-> Call(t)]
Vals     == [t \in Threads |-> Value(t)]

\* The node that an enqueue is about to link still holds the argument of its call,
\* although the mutex is not held while it waits: nobody else writes that node.
ItemsHeld == \A t \in At({"e_lock", "e_link"}) : item[node[t]] = val[t]

RefinementInv == QueueInv /\ ItemsHeld

\* Every step leaves the item in a node that is about to be linked.
LEMMA ItemsHeldStep == QueueInv /\ ItemsHeld /\ [Next]_vars => ItemsHeld'
<1> SUFFICES ASSUME QueueInv, ItemsHeld, [Next]_vars PROVE ItemsHeld'
  OBVIOUS
<1> USE DEF ItemsHeld, Goto, TypeOK
<1>0. TypeOK /\ ListInv
  BY DEF QueueInv
<1> USE <1>0
\* A step that leaves alone the nodes about to be linked, and who carries them.
<1>1. ASSUME \A u \in At({"e_lock", "e_link"})' :
                /\ u \in At({"e_lock", "e_link"})
                /\ node'[u] = node[u] /\ val'[u] = val[u] /\ item'[node[u]] = item[node[u]]
      PROVE  ItemsHeld'
  BY <1>1
<1>2. CASE UNCHANGED vars
  BY <1>1, <1>2 DEF vars, heap, locals, At
<1> SUFFICES ASSUME NEW t \in Threads,
                    BeginEnqueue(t) \/ BeginDequeue(t) \/ BeginInvalidate(t) \/ Step(t)
             PROVE  ItemsHeld'
  BY <1>2 DEF Next
<1>3. CASE BeginEnqueue(t) \/ BeginDequeue(t) \/ BeginInvalidate(t)
  BY <1>1, <1>3 DEF BeginEnqueue, BeginDequeue, BeginInvalidate, Begin, heap, At, Results
<1>4. CASE AllocFails(t)
  BY <1>1, <1>4 DEF AllocFails, heap, At, Results
<1>5. CASE Alloc(t)
  <2>1. PICK n \in Nodes \ allocated : /\ node' = [node EXCEPT ![t] = n]
                                       /\ item' = [item EXCEPT ![n] = val[t]]
    BY <1>5 DEF Alloc
  <2>2. pc[t] = "e_alloc" /\ val' = val /\ \A u \in Threads : u # t => pc'[u] = pc[u]
    BY <1>5 DEF Alloc
  <2>3. \A u \in At({"e_lock", "e_link"}) : node[u] \in Nodes /\ node[u] # n
    BY <2>1 DEF ListInv, NodesAccountedFor, Carried, At
  <2>4. ASSUME NEW u \in At({"e_lock", "e_link"})' PROVE item'[node'[u]] = val'[u]
    <3>1. CASE u = t
      BY <2>1, <2>2, <3>1
    <3>2. CASE u # t
      BY <2>1, <2>2, <2>3, <3>2 DEF At
    <3> QED
      BY <3>1, <3>2
  <2> QED
    BY <2>4
<1>6. CASE EnqueueLock(t)
  BY <1>1, <1>6 DEF EnqueueLock, heap, locals, At
<1>7. CASE Link(t) \/ Post(t)
  BY <1>1, <1>7 DEF Link, Post, heap, locals, At
<1>8. CASE EnqueueUnlock(t)
  BY <1>1, <1>8 DEF EnqueueUnlock, heap, At, Results
<1>9. CASE Wait(t) \/ DequeueLock(t) \/ DequeueUnlock(t) \/ InvalidateLock(t)
  BY <1>1, <1>9 DEF Wait, DequeueLock, DequeueUnlock, InvalidateLock, heap, locals, At
<1>10. ASSUME RemoveFront
       PROVE  \A u \in At({"e_lock", "e_link"}) : item'[node[u]] = item[node[u]]
  <2>1. linked # <<>> /\ front = linked[1] /\ 1 \in DOMAIN linked
    BY <1>10 DEF RemoveFront, ListInv, ListShape
  <2>2. front \in Members
    BY <2>1 DEF Members
  <2>3. \A u \in At({"e_lock", "e_link"}) : node[u] # front
    BY <2>2 DEF ListInv, NodesAccountedFor, Carried
  <2> QED
    BY <1>10, <2>3 DEF RemoveFront, At
<1>11. CASE Pop(t)
  <2>1. CASE front = "null"
    BY <1>1, <1>11, <2>1 DEF Pop, heap, locals, At
  <2>2. CASE front # "null"
    BY <1>1, <1>10, <1>11, <2>2 DEF Pop, At, Results
  <2> QED
    BY <2>1, <2>2
<1>12. CASE Destroy(t)
  BY <1>1, <1>10, <1>12 DEF Destroy, locals, At
<1>13. CASE Mark(t)
  BY <1>1, <1>13 DEF Mark, heap, locals, At
<1>14. CASE InvalidateUnlock(t)
  BY <1>1, <1>14 DEF InvalidateUnlock, heap, At, Results
<1> QED
  BY <1>3, <1>4, <1>5, <1>6, <1>7, <1>8, <1>9, <1>11, <1>12, <1>13, <1>14 DEF Step

\* The invariant that the refinement needs.
LEMMA RefinementInvHolds == Spec => []RefinementInv
<1>1. Init => ItemsHeld
  BY DEF Init, ItemsHeld, At
<1>2. QueueInv /\ ItemsHeld /\ [Next]_vars => ItemsHeld'
  BY ItemsHeldStep
<1> QED
  BY <1>1, <1>2, QueueInvHolds, PTL DEF Spec, RefinementInv

\* A step of one thread changes the mapped call and value of that thread only.
LEMMA CallsMove ==
    ASSUME TypeOK, NEW t \in Threads, NEW from, NEW to \in Labels, Goto(t, from, to),
           \A u \in Threads : u # t => val'[u] = val[u]
    PROVE  /\ Calls' = [Calls EXCEPT ![t] = Call(t)']
           /\ Vals' = [Vals EXCEPT ![t] = Value(t)']
           /\ Calls[t] = Call(t) /\ Vals[t] = Value(t)
<1>1. \A u \in Threads : u # t => pc'[u] = pc[u]
  BY GotoMoves
<1>2. \A u \in Threads : u # t => Call(u)' = Call(u) /\ Value(u)' = Value(u)
  BY <1>1 DEF Call, Value
<1> QED
  BY <1>2 DEF Calls, Vals

\* The items depend on the list and its nodes alone.
LEMMA ContentsSame ==
    ASSUME linked' = linked, \A n \in Members : item'[n] = item[n]
    PROVE  Contents' = Contents
BY DEF Contents, Members

\* Linking a node appends its item.
LEMMA ContentsGrow ==
    ASSUME RefinementInv, NEW t \in Threads, Link(t)
    PROVE  Contents' = Append(Contents, val[t])
<1>1. pc[t] = "e_link" /\ node[t] \in Nodes /\ item[node[t]] = val[t]
  BY DEF Link, Goto, RefinementInv, QueueInv, TypeOK, ItemsHeld, At
<1>2. item' = item /\ linked' = Append(linked, node[t]) /\ linked \in Seq(Nodes)
  BY DEF Link, RefinementInv, QueueInv, TypeOK
<1>3. /\ Contents \in Seq(Items \cup {"null"}) /\ Len(Contents) = Len(linked)
      /\ DOMAIN Contents = DOMAIN linked
  <2>1. item \in [Nodes -> Items \cup {"null"}]
    BY DEF RefinementInv, QueueInv, TypeOK
  <2>2. DOMAIN linked = 1 .. Len(linked) /\ Len(linked) \in Nat
    BY <1>2
  <2>3. Contents \in [1 .. Len(linked) -> Items \cup {"null"}]
    BY <1>2, <2>1, <2>2 DEF Contents
  <2> QED
    BY <2>2, <2>3
<1>4. DOMAIN linked' = 1 .. (Len(linked) + 1)
  BY <1>1, <1>2
<1>5. Contents' = [k \in 1 .. (Len(linked) + 1) |-> item[linked'[k]]]
  BY <1>2, <1>4 DEF Contents
<1>6. \A k \in 1 .. (Len(linked) + 1) :
          item[linked'[k]] = IF k = Len(linked) + 1 THEN val[t] ELSE Contents[k]
  BY <1>1, <1>2 DEF Contents
<1>7. Append(Contents, val[t]) =
        [k \in 1 .. (Len(linked) + 1) |->
            IF k = Len(linked) + 1 THEN val[t] ELSE Contents[k]]
  BY <1>3
<1> QED
  BY <1>5, <1>6, <1>7

\* Removing the front node takes the oldest item away.
LEMMA ContentsShrink ==
    ASSUME QueueInv, RemoveFront
    PROVE  Contents # <<>> /\ Head(Contents) = item[front] /\ Contents' = Tail(Contents)
<1>1. TypeOK /\ ListInv
  BY DEF QueueInv
<1>2. linked \in Seq(Nodes) /\ linked # <<>> /\ front = linked[1] /\ 1 \in DOMAIN linked
  BY <1>1 DEF RemoveFront, TypeOK, ListInv, ListShape
<1>3. /\ Contents \in Seq(Items \cup {"null"}) /\ Len(Contents) = Len(linked)
      /\ DOMAIN Contents = DOMAIN linked /\ Contents[1] = item[front]
  <2>1. item \in [Nodes -> Items \cup {"null"}]
    BY <1>1 DEF TypeOK
  <2>2. DOMAIN linked = 1 .. Len(linked) /\ Len(linked) \in Nat
    BY <1>2
  <2>3. Contents \in [1 .. Len(linked) -> Items \cup {"null"}]
    BY <1>2, <2>1, <2>2 DEF Contents
  <2> QED
    BY <1>2, <2>2, <2>3 DEF Contents
<1>4. Contents # <<>> /\ Head(Contents) = item[front]
  BY <1>2, <1>3
<1>5. /\ linked' = Tail(linked) /\ DOMAIN linked' = 1 .. (Len(linked) - 1)
      /\ \A k \in 1 .. (Len(linked) - 1) :
            linked'[k] = linked[k + 1] /\ k + 1 \in DOMAIN linked /\ linked[k + 1] \in Nodes
  BY <1>2 DEF RemoveFront
<1>6. \A k \in 1 .. (Len(linked) - 1) : linked[k + 1] # front
  BY <1>1, <1>2, <1>5 DEF ListInv, ListShape
<1>7. \A k \in 1 .. (Len(linked) - 1) : item'[linked'[k]] = Contents[k + 1]
  BY <1>1, <1>5, <1>6 DEF RemoveFront, TypeOK, Contents
<1>8. Contents' = [k \in 1 .. (Len(linked) - 1) |-> Contents[k + 1]]
  BY <1>5, <1>7 DEF Contents
<1>9. Tail(Contents) = [k \in 1 .. (Len(linked) - 1) |-> Contents[k + 1]]
  <2>1. /\ Tail(Contents) \in Seq(Items \cup {"null"}) /\ Len(Tail(Contents)) = Len(linked) - 1
        /\ \A k \in 1 .. (Len(linked) - 1) : Tail(Contents)[k] = Contents[k + 1]
    BY <1>3, <1>4
  <2>2. Tail(Contents) \in [1 .. (Len(linked) - 1) -> Items \cup {"null"}]
    BY <2>1, LenProperties
  <2> QED
    BY <2>1, <2>2
<1> QED
  BY <1>4, <1>8, <1>9

\* Every step is a step of the abstract queue or leaves it alone.
LEMMA RefinementStep ==
    Quiesce /\ RefinementInv /\ [Next]_vars => [Fifo!Next]_(Fifo!vars)
<1> SUFFICES ASSUME Quiesce, RefinementInv, [Next]_vars
             PROVE  [Fifo!Next]_(Fifo!vars)
  OBVIOUS
<1>0. TypeOK /\ ListInv /\ Quiet /\ invalid \in BOOLEAN
  BY DEF RefinementInv, QueueInv, TypeOK
<1> DEFINE Stutter == Contents' = Contents /\ invalid' = invalid /\ Calls' = Calls /\ Vals' = Vals
<1>1. Stutter => UNCHANGED Fifo!vars
  BY DEF Fifo!vars, Contents, Calls, Vals
<1>2. CASE UNCHANGED vars
  BY <1>1, <1>2 DEF vars, list, heap, locals, Contents, Calls, Vals, Call, Value
<1> SUFFICES ASSUME NEW t \in Threads,
                    BeginEnqueue(t) \/ BeginDequeue(t) \/ BeginInvalidate(t) \/ Step(t)
             PROVE  Fifo!Next \/ UNCHANGED Fifo!vars
  BY <1>2 DEF Next
\* A step that moves t and changes no other thread's value.
<1> DEFINE Moved == /\ Calls' = [Calls EXCEPT ![t] = Call(t)']
                    /\ Vals' = [Vals EXCEPT ![t] = Value(t)']
                    /\ Calls[t] = Call(t) /\ Vals[t] = Value(t)
<1>3. ASSUME NEW from, NEW to \in Labels, Goto(t, from, to),
             \A u \in Threads : u # t => val'[u] = val[u]
      PROVE  Moved /\ pc[t] = from /\ pc'[t] = to
  BY <1>0, <1>3, CallsMove, GotoMoves
<1>4. \A v : Results(t, v) => val'[t] = v /\ \A u \in Threads : u # t => val'[u] = val[u]
  BY <1>0 DEF Results, TypeOK
<1>5. ASSUME Moved, Call(t)' = Call(t), Value(t)' = Value(t)
      PROVE  Calls' = Calls /\ Vals' = Vals
  BY <1>5 DEF Calls, Vals
<1> HIDE DEF Moved
<1>6. ASSUME NEW op, NEW first \in Labels, NEW arg, NEW failure, Begin(t, op, first, arg, failure)
      PROVE  /\ Moved /\ Contents' = Contents /\ UNCHANGED invalid
             /\ pc[t] = "idle" /\ val'[t] = (IF invalid THEN failure ELSE arg)
             /\ pc'[t] = (IF invalid THEN "idle" ELSE first)
  BY <1>3, <1>4, <1>6 DEF Begin, list, heap, Contents
<1>7. ASSUME NEW kind, NEW v,
             Moved, Contents' = Contents, invalid' = invalid, ~invalid,
             pc[t] = "idle", Call(t)' = kind, Value(t)' = v
      PROVE  Fifo!Begin(t, kind, v)
  <2>1. Call(t) = "idle"
    BY <1>7 DEF Call
  <2> QED
    BY <1>0, <1>7, <2>1 DEF Fifo!Begin, Contents, Calls, Vals, Moved
<1>8. ASSUME NEW v, Moved, Contents' = Contents, invalid' = invalid, invalid,
             pc[t] = "idle", pc'[t] = "idle", Value(t)' = v
      PROVE  Fifo!Reject(t, v)
  <2>1. Call(t) = "idle" /\ Call(t)' = "idle"
    BY <1>8 DEF Call
  <2>2. Calls' = Calls
    BY <1>8, <2>1 DEF Moved, Calls
  <2> QED
    BY <1>0, <1>8, <2>1, <2>2 DEF Fifo!Reject, Contents, Calls, Vals, Moved
<1>9. CASE BeginEnqueue(t)
  <2>1. PICK i \in Items : Begin(t, "enqueue", "e_alloc", i, "false")
    BY <1>9 DEF BeginEnqueue
  <2>2. CASE invalid
    <3>1. Value(t)' = "false"
      BY <1>6, <2>1, <2>2 DEF Value
    <3> QED
      BY <1>6, <1>8, <2>1, <2>2, <3>1 DEF Fifo!Next
  <2>3. CASE ~invalid
    <3>1. Call(t)' = "enqueue" /\ Value(t)' = i
      BY <1>6, <2>1, <2>3 DEF Call, Value
    <3> QED
      BY <1>6, <1>7, <2>1, <2>3, <3>1 DEF Fifo!Next
  <2> QED
    BY <2>2, <2>3
<1>10. CASE BeginDequeue(t)
  <2>1. Begin(t, "dequeue", "d_wait", "null", "null")
    BY <1>10 DEF BeginDequeue
  <2>2. CASE invalid
    <3>1. Value(t)' = "null"
      BY <1>6, <2>1, <2>2 DEF Value
    <3> QED
      BY <1>6, <1>8, <2>1, <2>2, <3>1 DEF Fifo!Next
  <2>3. CASE ~invalid
    <3>1. Call(t)' = "dequeue" /\ Value(t)' = "null"
      BY <1>6, <2>1, <2>3 DEF Call, Value
    <3> QED
      BY <1>6, <1>7, <2>1, <2>3, <3>1 DEF Fifo!Next
  <2> QED
    BY <2>2, <2>3
<1>11. CASE BeginInvalidate(t)
  <2>1. Begin(t, "invalidate", "i_lock", "null", "false")
    BY <1>11 DEF BeginInvalidate
  <2>2. CASE invalid
    <3>1. Value(t)' = "false"
      BY <1>6, <2>1, <2>2 DEF Value
    <3> QED
      BY <1>6, <1>8, <2>1, <2>2, <3>1 DEF Fifo!Next
  <2>3. CASE ~invalid
    <3>1. Call(t)' = "invalidate" /\ Value(t)' = "null"
      BY <1>6, <2>1, <2>3 DEF Call, Value
    <3> QED
      BY <1>6, <1>7, <2>1, <2>3, <3>1 DEF Fifo!Next
  <2> QED
    BY <2>2, <2>3
<1>12. CASE AllocFails(t)
  <2>1. Moved /\ pc[t] = "e_alloc" /\ pc'[t] = "idle" /\ val'[t] = "false"
    BY <1>3, <1>4, <1>12 DEF AllocFails
  <2>2. Call(t) = "enqueue" /\ Call(t)' = "idle" /\ Value(t)' = "false"
    BY <2>1 DEF Call, Value
  <2>3. Contents' = Contents /\ invalid' = invalid
    BY <1>12 DEF AllocFails, list, heap, Contents
  <2>4. Fifo!Refuse(t)
    BY <2>1, <2>2, <2>3 DEF Fifo!Refuse, Contents, Calls, Vals, Moved
  <2> QED
    BY <2>4 DEF Fifo!Next
\* The steps between the instants at which a call takes effect.
<1>13. ASSUME NEW from, NEW to \in Labels, Goto(t, from, to), val' = val,
              Contents' = Contents, invalid' = invalid,
              from # to => <<from, to>> \in {<<"e_alloc", "e_lock">>, <<"e_lock", "e_link">>,
                   <<"e_post", "e_unlock">>, <<"d_wait", "d_lock">>, <<"d_lock", "d_pop">>,
                   <<"i_lock", "i_destroy">>}
       PROVE  UNCHANGED Fifo!vars
  <2>1. Moved /\ pc[t] = from /\ pc'[t] = to
    BY <1>3, <1>13
  <2>2. Call(t)' = Call(t) /\ Value(t)' = Value(t)
    BY <1>13, <2>1 DEF Call, Value
  <2> QED
    BY <1>1, <1>5, <1>13, <2>1, <2>2
<1>14. CASE Alloc(t)
  <2>1. PICK n \in Nodes \ allocated : item' = [item EXCEPT ![n] = val[t]]
    BY <1>14 DEF Alloc
  <2>2. linked' = linked /\ n \notin Members
    BY <1>0, <1>14 DEF Alloc, list, ListInv, NodesAccountedFor
  <2>3. \A m \in Members : item'[m] = item[m]
    BY <1>0, <2>1, <2>2 DEF Members, TypeOK
  <2>4. Contents' = Contents
    BY <2>2, <2>3, ContentsSame
  <2> QED
    BY <1>13, <1>14, <2>4 DEF Alloc
<1>15. CASE EnqueueLock(t) \/ Post(t)
  BY <1>13, <1>15 DEF EnqueueLock, Post, list, heap, locals, Contents
<1>16. CASE Wait(t) \/ DequeueLock(t)
  BY <1>13, <1>16 DEF Wait, DequeueLock, list, heap, locals, Contents
<1>17. CASE InvalidateLock(t)
  BY <1>13, <1>17 DEF InvalidateLock, list, heap, locals, Contents
<1>18. CASE Link(t)
  <2>1. Moved /\ pc[t] = "e_link" /\ pc'[t] = "e_post"
    BY <1>3, <1>18 DEF Link, locals
  <2>2. /\ Call(t) = "enqueue" /\ Call(t)' = "returning"
        /\ Value(t) = val[t] /\ Value(t)' = "true"
    BY <2>1 DEF Call, Value
  <2>3. Contents' = Append(Contents, val[t]) /\ invalid' = invalid
    BY <1>18, ContentsGrow DEF Link
  <2>4. ~invalid
    BY <1>0, <2>1 DEF Quiet
  <2>5. Fifo!Insert(t)
    BY <2>1, <2>2, <2>3, <2>4 DEF Fifo!Insert, Contents, Calls, Vals, Moved
  <2> QED
    BY <2>5 DEF Fifo!Next
<1>19. CASE Pop(t)
  <2>1. pc[t] = "d_pop"
    BY <1>19 DEF Pop, Goto
  <2>2. ~invalid
    BY <1>0, <2>1 DEF Quiet
  <2>3. front # "null"
    BY <2>1, <2>2, PopFindsNode DEF RefinementInv
  <2>4. /\ Moved /\ pc'[t] = "d_unlock" /\ val'[t] = item[front]
        /\ RemoveFront /\ invalid' = invalid
    BY <1>3, <1>4, <1>19, <2>3 DEF Pop
  <2>5. /\ Call(t) = "dequeue" /\ Call(t)' = "returning" /\ Value(t)' = item[front]
    BY <2>1, <2>4 DEF Call, Value
  <2>6. Contents # <<>> /\ Head(Contents) = item[front] /\ Contents' = Tail(Contents)
    BY <2>4, ContentsShrink DEF RefinementInv
  <2>7. Fifo!Remove(t)
    BY <2>4, <2>5, <2>6 DEF Fifo!Remove, Contents, Calls, Vals, Moved
  <2> QED
    BY <2>7 DEF Fifo!Next
<1>20. CASE Destroy(t)
  <2>1. /\ Moved /\ pc[t] = "i_destroy" /\ pc'[t] = "i_destroy" /\ val' = val
        /\ RemoveFront /\ invalid' = invalid
    BY <1>3, <1>20 DEF Destroy, locals
  <2>2. Call(t) = "invalidate" /\ Call(t)' = Call(t) /\ Value(t)' = Value(t)
    BY <2>1 DEF Call, Value
  <2>3. Contents # <<>> /\ Contents' = Tail(Contents)
    BY <2>1, ContentsShrink DEF RefinementInv
  <2>4. Calls' = Calls /\ Vals' = Vals
    BY <1>5, <2>1, <2>2
  <2>5. Fifo!Destroy(t)
    BY <2>1, <2>2, <2>3, <2>4 DEF Fifo!Destroy, Contents, Calls, Vals, Moved
  <2> QED
    BY <2>5 DEF Fifo!Next
<1>21. CASE Mark(t)
  <2>1. /\ Moved /\ pc[t] = "i_destroy" /\ pc'[t] = "i_unlock"
        /\ front = "null" /\ invalid' = TRUE /\ linked' = linked /\ item' = item
    BY <1>3, <1>21 DEF Mark, locals, heap
  <2>2. /\ Call(t) = "invalidate" /\ Call(t)' = "returning" /\ Value(t)' = "true"
    BY <2>1 DEF Call, Value
  <2>3. linked = <<>>
    BY <1>0, <2>1, QueueAssumption DEF ListInv, ListShape, TypeOK
  <2>4. Contents = <<>>
    BY <2>3 DEF Contents
  <2>5. Contents' = Contents
    BY <2>1 DEF Contents
  <2>6. Fifo!Close(t)
    BY <2>1, <2>2, <2>4, <2>5 DEF Fifo!Close, Contents, Calls, Vals, Moved
  <2> QED
    BY <2>6 DEF Fifo!Next
<1>22. CASE EnqueueUnlock(t) \/ DequeueUnlock(t) \/ InvalidateUnlock(t)
  <2>1. /\ Moved /\ pc[t] \in {"e_unlock", "d_unlock", "i_unlock"} /\ pc'[t] = "idle"
        /\ pc[t] \in {"e_unlock", "i_unlock"} => val'[t] = "true"
        /\ pc[t] = "d_unlock" => val' = val
    BY <1>3, <1>4, <1>22 DEF EnqueueUnlock, DequeueUnlock, InvalidateUnlock, locals
  <2>2. Contents' = Contents /\ invalid' = invalid
    BY <1>22 DEF EnqueueUnlock, DequeueUnlock, InvalidateUnlock, list, heap, Contents
  <2>3. Call(t) = "returning" /\ Call(t)' = "idle" /\ Value(t)' = Value(t)
    BY <2>1 DEF Call, Value
  <2>4. Vals' = Vals
    BY <2>1, <2>3 DEF Moved, Vals
  <2>5. Fifo!Return(t)
    BY <2>1, <2>2, <2>3, <2>4 DEF Fifo!Return, Contents, Calls, Vals, Moved
  <2> QED
    BY <2>5 DEF Fifo!Next
<1> QED
  BY <1>9, <1>10, <1>11, <1>12, <1>14, <1>15, <1>16, <1>17, <1>18, <1>19, <1>20, <1>21,
     <1>22 DEF Step

\* The queue begins as the abstract one.
LEMMA RefinementInit == Init => Fifo!Init
<1> SUFFICES ASSUME Init PROVE Fifo!Init
  OBVIOUS
<1>1. Contents = <<>>
  BY DEF Init, Contents
<1>2. Calls = [t \in Threads |-> "idle"] /\ Vals = [t \in Threads |-> "null"]
  BY DEF Init, Calls, Vals, Call, Value
<1>3. (~invalid) = TRUE
  BY DEF Init
<1> QED
  BY <1>1, <1>2, <1>3 DEF Fifo!Init, Contents, Calls, Vals

\* Each call of the queue takes effect at one instant: under the callers'
\* discipline of invalidating a quiet queue, the linked list behind its mutex
\* and semaphore implements the FIFO queue of module FifoQueue, for any number
\* of threads, items and nodes.
THEOREM RefinesFifo == Quiesce => (Spec => ImplementsFifo)
<1> SUFFICES ASSUME Quiesce PROVE Spec => ImplementsFifo
  OBVIOUS
<1>1. Init => Fifo!Init
  BY RefinementInit
<1>2. RefinementInv /\ [Next]_vars => [Fifo!Next]_(Fifo!vars)
  BY RefinementStep
<1> QED
  BY <1>1, <1>2, RefinementInvHolds, PTL DEF Spec, ImplementsFifo, Fifo!Spec
=============================================================================
