-------------------------------- MODULE Queue --------------------------------
(***************************************************************************)
(* The blocking request queue of the multi-threaded server                 *)
(* (multi_thread_server/src/queue.c): a singly linked list behind a mutex, *)
(* with a semaphore that counts the items.  A step is one access to shared *)
(* state: the unlocked read of `invalid` that every call begins with, an   *)
(* operation on the mutex or the semaphore, the block of assignments made  *)
(* under the mutex, and one round of the destroy loop.                     *)
(*                                                                         *)
(* A node is an address of the heap: calloc returns any address that is    *)
(* not in use, one freed a moment ago included, or fails.                  *)
(***************************************************************************)
EXTENDS Naturals, Sequences, FiniteSets

CONSTANTS
    Threads,
    Items,      \* the item pointers (never NULL: the server queues what Malloc gave it)
    Nodes,      \* the addresses a queue node can have
    MayCall,    \* MayCall[t]: the operations that thread t calls
    Quiesce     \* TRUE: invalidate_queue is called when no other call is under way,
                \* as queue_tests.c does it; FALSE: at any time

Operations == {"enqueue", "dequeue", "invalidate"}

ASSUME QueueAssumption ==
    /\ IsFiniteSet(Threads) /\ "null" \notin Threads
    /\ IsFiniteSet(Nodes) /\ "null" \notin Nodes
    /\ MayCall \in [Threads -> SUBSET Operations]
    /\ Quiesce \in BOOLEAN

VARIABLES
    front, rear,    \* queue_t
    items,          \* the semaphore
    lock,           \* the thread that holds the mutex, or "null"
    invalid,
    next, item,     \* the fields of every node
    allocated,      \* the nodes that calloc gave out and free did not take back
    linked,         \* history: the nodes of the list, oldest first
    pc, node, val   \* of each thread: what it does next, its `tmp`, and the
                    \* argument of its call, then what the call returned

heap   == <<next, item, allocated>>
list   == <<front, rear, linked>>
sync   == <<items, lock>>
locals == <<node, val>>
vars   == <<list, sync, invalid, heap, pc, locals>>

Labels == {"idle", "e_alloc", "e_lock", "e_link", "e_post", "e_unlock",
           "d_wait", "d_lock", "d_pop", "d_unlock",
           "i_lock", "i_destroy", "i_unlock", "crash"}

\* Where a thread holds the mutex.
Critical == {"e_link", "e_post", "e_unlock", "d_pop", "d_unlock",
             "i_destroy", "i_unlock"}

Invalidating == {"i_lock", "i_destroy", "i_unlock"}

\* A crash of one thread ends the process.
Running == \A t \in Threads : pc[t] # "crash"

Goto(t, from, to) ==
    /\ Running
    /\ pc[t] = from
    /\ pc' = [pc EXCEPT ![t] = to]

Results(t, v) == val' = [val EXCEPT ![t] = v]

Lock(t)   == lock = "null" /\ lock' = t
Unlock(t) == lock' = "null"
-----------------------------------------------------------------------------
Init ==
    /\ front = "null" /\ rear = "null" /\ linked = <<>>
    /\ items = 0 /\ lock = "null" /\ invalid = FALSE
    /\ next = [n \in Nodes |-> "null"]
    /\ item = [n \in Nodes |-> "null"]
    /\ allocated = {}
    /\ pc   = [t \in Threads |-> "idle"]
    /\ node = [t \in Threads |-> "null"]
    /\ val  = [t \in Threads |-> "null"]

\* What the callers see to: calls that the queue itself does not order.
Permitted(t, op) ==
    /\ op \in MayCall[t]
    /\ Quiesce => \A u \in Threads \ {t} :
                      pc[u] \in (IF op = "invalidate" THEN {"idle"}
                                 ELSE Labels \ Invalidating)

\* The test that begins every call reads `invalid` without the lock.
Begin(t, op, first, arg, failure) ==
    /\ Permitted(t, op)
    /\ Goto(t, "idle", IF invalid THEN "idle" ELSE first)
    /\ Results(t, IF invalid THEN failure ELSE arg)
    /\ UNCHANGED <<list, sync, invalid, heap, node>>

BeginEnqueue(t)    == \E i \in Items : Begin(t, "enqueue", "e_alloc", i, "false")
BeginDequeue(t)    == Begin(t, "dequeue", "d_wait", "null", "null")
BeginInvalidate(t) == Begin(t, "invalidate", "i_lock", "null", "false")
-----------------------------------------------------------------------------
AllocFails(t) ==
    /\ Goto(t, "e_alloc", "idle")
    /\ Results(t, "false")
    /\ UNCHANGED <<list, sync, invalid, heap, node>>

Alloc(t) ==
    /\ Goto(t, "e_alloc", "e_lock")
    /\ \E n \in Nodes \ allocated :
          /\ allocated' = allocated \cup {n}
          /\ node' = [node EXCEPT ![t] = n]
          /\ item' = [item EXCEPT ![n] = val[t]]
          /\ next' = [next EXCEPT ![n] = "null"]
    /\ UNCHANGED <<list, sync, invalid, val>>

EnqueueLock(t) ==
    /\ Goto(t, "e_lock", "e_link")
    /\ Lock(t)
    /\ UNCHANGED <<list, items, invalid, heap, locals>>

\* Mutant of Link: rear stays behind when the list is not empty.
LinkStaleRear(t) ==
    /\ Goto(t, "e_link", "e_post")
    /\ IF front = "null"
       THEN front' = node[t] /\ next' = next /\ rear' = node[t]
       ELSE front' = front /\ next' = [next EXCEPT ![rear] = node[t]] /\ rear' = rear
    /\ linked' = Append(linked, node[t])
    /\ UNCHANGED <<sync, invalid, item, allocated, locals>>

\* rear dangles while the list is empty: it is read only when front is not NULL.
Link(t) ==
    /\ Goto(t, "e_link", "e_post")
    /\ IF front = "null"
       THEN front' = node[t] /\ next' = next
       ELSE front' = front /\ next' = [next EXCEPT ![rear] = node[t]]
    /\ rear' = node[t]
    /\ linked' = Append(linked, node[t])
    /\ UNCHANGED <<sync, invalid, item, allocated, locals>>

\* Mutant of Post: a binary semaphore, which forgets a post that nobody awaited.
PostBinary(t) ==
    /\ Goto(t, "e_post", "e_unlock")
    /\ items' = 1
    /\ UNCHANGED <<list, lock, invalid, heap, locals>>

Post(t) ==
    /\ Goto(t, "e_post", "e_unlock")
    /\ items' = items + 1
    /\ UNCHANGED <<list, lock, invalid, heap, locals>>

EnqueueUnlock(t) ==
    /\ Goto(t, "e_unlock", "idle")
    /\ Unlock(t)
    /\ node' = [node EXCEPT ![t] = "null"]
    /\ Results(t, "true")
    /\ UNCHANGED <<list, items, invalid, heap>>
-----------------------------------------------------------------------------
\* Mutant of Wait: the count is looked at and not taken.
WaitPeeks(t) ==
    /\ Goto(t, "d_wait", "d_lock")
    /\ items > 0
    /\ UNCHANGED <<list, sync, invalid, heap, locals>>

Wait(t) ==
    /\ Goto(t, "d_wait", "d_lock")
    /\ items > 0
    /\ items' = items - 1
    /\ UNCHANGED <<list, lock, invalid, heap, locals>>

DequeueLock(t) ==
    /\ Goto(t, "d_lock", "d_pop")
    /\ Lock(t)
    /\ UNCHANGED <<list, items, invalid, heap, locals>>

\* Mutant of RemoveFront: the node is not freed.
RemoveFrontLeaks ==
    /\ front # "null"
    /\ front' = next[front]
    /\ linked' = Tail(linked)
    /\ UNCHANGED heap

\* front moves to the next node and the old one is freed: what the heap does to
\* its fields is left out, calloc clears them before anybody reads them.
RemoveFront ==
    /\ front # "null"
    /\ front' = next[front]
    /\ linked' = Tail(linked)
    /\ allocated' = allocated \ {front}
    /\ next' = [next EXCEPT ![front] = "null"]
    /\ item' = [item EXCEPT ![front] = "null"]

\* self->front->item with front NULL kills the process.
Pop(t) ==
    IF front = "null"
    THEN Goto(t, "d_pop", "crash") /\ UNCHANGED <<list, sync, invalid, heap, locals>>
    ELSE /\ Goto(t, "d_pop", "d_unlock")
         /\ RemoveFront
         /\ Results(t, item[front])
         /\ UNCHANGED <<rear, sync, invalid, node>>

DequeueUnlock(t) ==
    /\ Goto(t, "d_unlock", "idle")
    /\ Unlock(t)
    /\ UNCHANGED <<list, items, invalid, heap, locals>>
-----------------------------------------------------------------------------
InvalidateLock(t) ==
    /\ Goto(t, "i_lock", "i_destroy")
    /\ Lock(t)
    /\ UNCHANGED <<list, items, invalid, heap, locals>>

Destroy(t) ==
    /\ Goto(t, "i_destroy", "i_destroy")
    /\ RemoveFront
    /\ UNCHANGED <<rear, sync, invalid, locals>>

\* Mutant of Mark: the destroy loop stops at the last node.
MarkEarly(t) ==
    /\ Goto(t, "i_destroy", "i_unlock")
    /\ front # "null" => next[front] = "null"
    /\ rear' = "null"
    /\ invalid' = TRUE
    /\ UNCHANGED <<front, linked, sync, heap, locals>>

\* The semaphore keeps its count.
Mark(t) ==
    /\ Goto(t, "i_destroy", "i_unlock")
    /\ front = "null"
    /\ rear' = "null"
    /\ invalid' = TRUE
    /\ UNCHANGED <<front, linked, sync, heap, locals>>

InvalidateUnlock(t) ==
    /\ Goto(t, "i_unlock", "idle")
    /\ Unlock(t)
    /\ Results(t, "true")
    /\ UNCHANGED <<list, items, invalid, heap, node>>
-----------------------------------------------------------------------------
\* The steps inside a call.
Step(t) ==
    \/ AllocFails(t) \/ Alloc(t) \/ EnqueueLock(t) \/ Link(t) \/ Post(t) \/ EnqueueUnlock(t)
    \/ Wait(t) \/ DequeueLock(t) \/ Pop(t) \/ DequeueUnlock(t)
    \/ InvalidateLock(t) \/ Destroy(t) \/ Mark(t) \/ InvalidateUnlock(t)

Next ==
    \E t \in Threads :
        BeginEnqueue(t) \/ BeginDequeue(t) \/ BeginInvalidate(t) \/ Step(t)

Spec == Init /\ [][Next]_vars

\* A thread in a call keeps running, and a worker always comes back for the
\* next item: the loop of thread() in cream.c.
Fairness ==
    \A t \in Threads :
        /\ WF_vars(Step(t))
        /\ WF_vars(BeginDequeue(t))

FairSpec == Spec /\ Fairness
-----------------------------------------------------------------------------
(***************************************************************************)
(* Properties.                                                             *)
(***************************************************************************)
At(labels) == {t \in Threads : pc[t] \in labels}

Members == {linked[k] : k \in DOMAIN linked}

\* Nodes that enqueuers have filled in and not linked yet.
Carried == {node[t] : t \in At({"e_lock", "e_link"})}

\* The type invariant of the queue and of its callers.
TypeOK ==
    /\ front \in Nodes \cup {"null"}
    /\ rear \in Nodes \cup {"null"}
    /\ linked \in Seq(Nodes)
    /\ items \in Nat
    /\ lock \in Threads \cup {"null"}
    /\ invalid \in BOOLEAN
    /\ next \in [Nodes -> Nodes \cup {"null"}]
    /\ item \in [Nodes -> Items \cup {"null"}]
    /\ allocated \subseteq Nodes
    /\ pc \in [Threads -> Labels]
    /\ node \in [Threads -> Nodes \cup {"null"}]
    /\ val \in [Threads -> Items \cup {"null", "true", "false"}]
    /\ \A t \in Threads : /\ pc[t] = "e_alloc" => val[t] \in Items
                          /\ pc[t] \in {"e_lock", "e_link"} => node[t] \in Nodes

\* The pointers describe the list: front and the next fields lead through the
\* linked nodes in order, each of them once, and rear, which enqueue trusts
\* although dequeue never updates it, is the last one whenever there is one.
ListShape ==
    /\ front = IF linked = <<>> THEN "null" ELSE linked[1]
    /\ \A j, k \in DOMAIN linked : linked[j] = linked[k] => j = k
    /\ \A k \in DOMAIN linked :
          IF k = Len(linked) THEN rear = linked[k] /\ next[linked[k]] = "null"
                             ELSE next[linked[k]] = linked[k + 1]

\* Every node that is not freed is in the list or in the hands of the one
\* enqueue that allocated it: no node leaks, none is used after free() gave its
\* address to another enqueue, no two enqueues hold the same node, and a node
\* about to be linked points nowhere.
NodesAccountedFor ==
    /\ allocated = Members \cup Carried
    /\ Members \cap Carried = {}
    /\ \A n \in Carried : next[n] = "null"
    /\ \A t, u \in At({"e_lock", "e_link"}) : node[t] = node[u] => t = u

\* Between sem_post under the lock and sem_wait outside it no count is lost:
\* the semaphore, the dequeues that have passed it and the enqueue that has
\* linked its node and not posted yet add up to the length of the list.
TicketsMatchItems ==
    (~invalid /\ At({"i_destroy"}) = {}) =>
        items + Cardinality(At({"d_lock", "d_pop"})) = Len(linked) - Cardinality(At({"e_post"}))

\* dequeue reads self->front->item without testing front: a thread that passed
\* the semaphore always finds a node.
NoNullDeref == \A t \in Threads : pc[t] = "d_pop" => front # "null"

\* What invalidate_queue promises (queue.h: it destroys all items): an invalid
\* queue holds no item, and no enqueue is about to link one.
InvalidIsEmpty == invalid => linked = <<>> /\ allocated = {}

\* Each call of the queue takes effect at one instant: the pointer assignments
\* of enqueue, dequeue and invalidate_queue, the semaphore and the lock together
\* implement the FIFO queue.  An enqueue takes effect when it links its node,
\* although a dequeuer can take it only after the post.
Call(t) ==
    CASE pc[t] \in {"e_alloc", "e_lock", "e_link"} -> "enqueue"
      [] pc[t] \in {"d_wait", "d_lock", "d_pop"}   -> "dequeue"
      [] pc[t] \in {"i_lock", "i_destroy"}         -> "invalidate"
      [] pc[t] \in {"e_post", "e_unlock", "d_unlock", "i_unlock"} -> "returning"
      [] OTHER -> "idle"

Value(t) == IF pc[t] \in {"e_post", "e_unlock", "i_unlock"} THEN "true" ELSE val[t]

Fifo == INSTANCE FifoQueue WITH
            contents <- [k \in DOMAIN linked |-> item[linked[k]]],
            open     <- ~invalid,
            call     <- [t \in Threads |-> Call(t)],
            val      <- [t \in Threads |-> Value(t)]

ImplementsFifo == Fifo!Spec

\* Every node that is linked leaves the list again: the queue never strands an
\* item while a worker lives, however the threads interleave.
EveryItemLeaves == \A n \in Nodes : n \in Members ~> n \notin Members
=============================================================================
