------------------------------- MODULE Hashmap -------------------------------
(***************************************************************************)
(* The concurrent hash map of the cache (multi_thread_server/src/          *)
(* hashmap.c).  Writers hold write_lock; readers count themselves under    *)
(* fields_lock, the first of them takes write_lock for all and the last    *)
(* one gives it back, whichever thread took it.  A step is an operation on *)
(* a mutex with what it protects: the counter of the readers, or a         *)
(* writer's whole critical section up to its unlock.  delete is get, then  *)
(* get_true_index, then a critical section of its own.                     *)
(***************************************************************************)
EXTENDS HashTable

CONSTANTS
    Threads,
    MayCall,    \* MayCall[t]: the operations that thread t calls
    SizeMod,    \* size is unsigned: it wraps at this number (2^32 in C)
    Quiesce     \* TRUE: invalidate_map is called when no other call is under way

\* "force" is put with force == true.  A delete in its second half is at "index".
Operations == {"put", "force", "get", "delete", "clear", "invalidate"}

ASSUME HashmapAssumption ==
    /\ IsFiniteSet(Threads) /\ "null" \notin Threads
    /\ MayCall \in [Threads -> SUBSET Operations]
    /\ SizeMod \in Nat /\ SizeMod > Capacity
    /\ Quiesce \in BOOLEAN

VARIABLES
    nodes, size, num_readers, invalid,   \* hashmap_t
    write_lock, fields_lock,             \* the thread that locked it, or "null"
    pc, op, key, val, index              \* of each thread: its call; val is the argument
                                         \* of a put, then what the call returned

table  == <<nodes, size, invalid>>
sync   == <<num_readers, write_lock, fields_lock>>
args   == <<op, key, val, index>>
vars   == <<table, sync, pc, args>>

Labels == {"idle", "p_lock", "p_body", "p_spin",
           "r_enter", "r_write", "r_entered", "r_scan", "r_leave", "r_left",
           "d_lock", "d_body", "d_read", "c_lock", "c_body", "i_lock", "i_body"}

Goto(t, from, to) == pc[t] = from /\ pc' = [pc EXCEPT ![t] = to]

\* The call of t ends with result r.
Return(t, from, r) ==
    /\ Goto(t, from, "idle")
    /\ op'    = [op EXCEPT ![t] = "null"]
    /\ key'   = [key EXCEPT ![t] = "null"]
    /\ val'   = [val EXCEPT ![t] = r]
    /\ index' = [index EXCEPT ![t] = -1]
-----------------------------------------------------------------------------
Init ==
    /\ nodes = [i \in Slots |-> Empty]
    /\ size = 0 /\ num_readers = 0 /\ invalid = FALSE
    /\ write_lock = "null" /\ fields_lock = "null"
    /\ pc    = [t \in Threads |-> "idle"]
    /\ op    = [t \in Threads |-> "null"]
    /\ key   = [t \in Threads |-> "null"]
    /\ val   = [t \in Threads |-> "null"]
    /\ index = [t \in Threads |-> -1]

Permitted(t, o) ==
    /\ o \in MayCall[t]
    /\ Quiesce => \A u \in Threads \ {t} :
                     IF o = "invalidate" THEN pc[u] = "idle" ELSE op[u] # "invalidate"

\* Mutant of Begin: `invalid` is not looked at.
BeginUnchecked(t, o, k, v, first, failure) ==
    /\ Permitted(t, o)
    /\ Goto(t, "idle", first)
    /\ op'  = [op EXCEPT ![t] = o]
    /\ key' = [key EXCEPT ![t] = k]
    /\ val' = [val EXCEPT ![t] = v]
    /\ UNCHANGED <<index, table, sync>>

\* Every call begins by reading `invalid` without a lock.
Begin(t, o, k, v, first, failure) ==
    /\ Permitted(t, o)
    /\ pc[t] = "idle"
    /\ IF invalid
       THEN Return(t, "idle", failure)
       ELSE /\ Goto(t, "idle", first)
            /\ op'  = [op EXCEPT ![t] = o]
            /\ key' = [key EXCEPT ![t] = k]
            /\ val' = [val EXCEPT ![t] = v]
            /\ UNCHANGED index
    /\ UNCHANGED <<table, sync>>

BeginPut(t)        == \E o \in {"put", "force"}, k \in Keys, v \in Vals :
                         Begin(t, o, k, v, "p_lock", "false")
BeginGet(t)        == \E k \in Keys : Begin(t, "get", k, "null", "r_enter", "null")
BeginDelete(t)     == \E k \in Keys : Begin(t, "delete", k, "null", "r_enter", "null")
BeginClear(t)      == Begin(t, "clear", "null", "null", "c_lock", "false")
BeginInvalidate(t) == Begin(t, "invalidate", "null", "null", "i_lock", "false")
-----------------------------------------------------------------------------
\* A writer takes write_lock, whichever operation it is about to do.
WriteLock(t) ==
    /\ \/ Goto(t, "p_lock", "p_body")
       \/ Goto(t, "d_lock", "d_body")
       \/ Goto(t, "c_lock", "c_body")
       \/ Goto(t, "i_lock", "i_body")
    /\ write_lock = "null"
    /\ write_lock' = t
    /\ UNCHANGED <<table, num_readers, fields_lock, args>>

\* Mutant of Entry: an entry put back in the place of its tombstone stays deleted.
EntryStaysDeleted(t) ==
    [key |-> key[t], val |-> val[t],
     tombstone |-> \E i \in Slots : nodes[i].key = key[t] /\ nodes[i].tombstone]

\* What put writes into a slot, live again if it was a tombstone.
Entry(t) == [key |-> key[t], val |-> val[t], tombstone |-> FALSE]

\* Mutant of PutRefused: an early return without the unlock.
PutRefusedLocked(t) ==
    /\ pc[t] = "p_body" /\ size = Capacity /\ op[t] = "put"
    /\ Return(t, "p_body", "false")
    /\ UNCHANGED <<table, sync>>

PutRefused(t) ==
    /\ pc[t] = "p_body" /\ size = Capacity /\ op[t] = "put"
    /\ Return(t, "p_body", "false")
    /\ write_lock' = "null"
    /\ UNCHANGED <<table, num_readers, fields_lock>>

\* Mutant of PutInserts: a reused tombstone is not counted.
PutInsertsUncounted(t) ==
    /\ pc[t] = "p_body" /\ size < Capacity
    /\ PutStops(nodes, key[t]) # {}
    /\ nodes' = [nodes EXCEPT ![PutSlot(nodes, key[t])] = Entry(t)]
    /\ size' = IF nodes[PutSlot(nodes, key[t])].tombstone THEN size ELSE (size + 1) % SizeMod
    /\ Return(t, "p_body", "true")
    /\ write_lock' = "null"
    /\ UNCHANGED <<invalid, num_readers, fields_lock>>

\* Mutant of PutInserts: the bound of size is off by one.
PutInsertsWhenFull(t) ==
    /\ pc[t] = "p_body" /\ size <= Capacity
    /\ IF PutStops(nodes, key[t]) = {}
       THEN Goto(t, "p_body", "p_spin") /\ UNCHANGED <<table, write_lock, args>>
       ELSE /\ nodes' = [nodes EXCEPT ![PutSlot(nodes, key[t])] = Entry(t)]
            /\ size' = (size + 1) % SizeMod
            /\ Return(t, "p_body", "true")
            /\ write_lock' = "null"
            /\ UNCHANGED invalid
    /\ UNCHANGED <<num_readers, fields_lock>>

\* size is incremented for a key that was there already, too.  When no slot ends
\* the loop it goes round for ever, with the lock.
PutInserts(t) ==
    /\ pc[t] = "p_body" /\ size < Capacity
    /\ IF PutStops(nodes, key[t]) = {}
       THEN Goto(t, "p_body", "p_spin") /\ UNCHANGED <<table, write_lock, args>>
       ELSE /\ nodes' = [nodes EXCEPT ![PutSlot(nodes, key[t])] = Entry(t)]
            /\ size' = (size + 1) % SizeMod
            /\ Return(t, "p_body", "true")
            /\ write_lock' = "null"
            /\ UNCHANGED invalid
    /\ UNCHANGED <<num_readers, fields_lock>>

\* The map is full, or its size has wrapped: the entry at the key's own index is
\* destroyed, without asking whether the key has one elsewhere.
PutEvicts(t) ==
    /\ pc[t] = "p_body" /\ size >= Capacity /\ ~ (size = Capacity /\ op[t] = "put")
    /\ nodes' = [nodes EXCEPT ![Index[key[t]]] = Entry(t)]
    /\ Return(t, "p_body", "true")
    /\ write_lock' = "null"
    /\ UNCHANGED <<size, invalid, num_readers, fields_lock>>

Put(t) == PutRefused(t) \/ PutInserts(t) \/ PutEvicts(t)
-----------------------------------------------------------------------------
\* A reader comes in: it counts itself, and the first one locks the writers out
\* while it holds fields_lock.
ReaderEnter(t) ==
    /\ Goto(t, "r_enter", IF num_readers = 0 THEN "r_write" ELSE "r_entered")
    /\ fields_lock = "null"
    /\ fields_lock' = t
    /\ num_readers' = num_readers + 1
    /\ UNCHANGED <<table, write_lock, args>>

ReaderWriteLock(t) ==
    /\ Goto(t, "r_write", "r_entered")
    /\ write_lock = "null"
    /\ write_lock' = t
    /\ UNCHANGED <<table, num_readers, fields_lock, args>>

ReaderEntered(t) ==
    /\ Goto(t, "r_entered", "r_scan")
    /\ fields_lock' = "null"
    /\ UNCHANGED <<table, num_readers, write_lock, args>>

\* The probe loop of get, or of get_true_index in the second half of delete.
Scan(t) ==
    /\ Goto(t, "r_scan", "r_leave")
    /\ IF op[t] = "index"
       THEN index' = [index EXCEPT ![t] = TrueIndex(nodes, key[t])] /\ UNCHANGED val
       ELSE val' = [val EXCEPT ![t] = Get(nodes, key[t])] /\ UNCHANGED index
    /\ UNCHANGED <<table, sync, op, key>>

\* Mutant of ReaderLeave: every reader lets the writers in.
ReaderLeaveUnlocks(t) ==
    /\ Goto(t, "r_leave", "r_left")
    /\ fields_lock = "null"
    /\ fields_lock' = t
    /\ num_readers' = num_readers - 1
    /\ write_lock' = "null"
    /\ UNCHANGED <<table, args>>

\* The last reader lets the writers in.
ReaderLeave(t) ==
    /\ Goto(t, "r_leave", "r_left")
    /\ fields_lock = "null"
    /\ fields_lock' = t
    /\ num_readers' = num_readers - 1
    /\ write_lock' = IF num_readers = 1 THEN "null" ELSE write_lock
    /\ UNCHANGED <<table, args>>

\* get is done; delete goes on to get_true_index, which looks at `invalid` again,
\* and with an index in hand to its critical section.
ReaderLeft(t) ==
    /\ fields_lock' = "null"
    /\ CASE op[t] = "get" -> Return(t, "r_left", val[t])
         [] op[t] = "delete" /\ val[t] # "null" /\ ~invalid ->
               Goto(t, "r_left", "r_enter") /\ op' = [op EXCEPT ![t] = "index"]
               /\ UNCHANGED <<key, val, index>>
         [] op[t] = "index" /\ index[t] # -1 -> Goto(t, "r_left", "d_lock") /\ UNCHANGED args
         [] OTHER -> Return(t, "r_left", "null")
    /\ UNCHANGED <<table, num_readers, write_lock>>

\* Mutant of Delete: the slot is emptied instead of marked.
DeleteEmpties(t) ==
    /\ Goto(t, "d_body", "d_read")
    /\ nodes' = [nodes EXCEPT ![index[t]] = Empty]
    /\ size' = (size + SizeMod - 1) % SizeMod
    /\ write_lock' = "null"
    /\ UNCHANGED <<invalid, num_readers, fields_lock, args>>

\* The slot found a while ago becomes a tombstone, whatever is in it now.
Delete(t) ==
    /\ Goto(t, "d_body", "d_read")
    /\ nodes' = [nodes EXCEPT ![index[t]].tombstone = TRUE]
    /\ size' = (size + SizeMod - 1) % SizeMod
    /\ write_lock' = "null"
    /\ UNCHANGED <<invalid, num_readers, fields_lock, args>>

\* The node that delete returns is read after the unlock.
DeleteReads(t) ==
    /\ Return(t, "d_read", nodes[index[t]].val)
    /\ UNCHANGED <<table, sync>>
-----------------------------------------------------------------------------
ClearMap(t) ==
    /\ nodes' = [i \in Slots |->
                    IF nodes[i].key # "null" /\ nodes[i].val # "null" THEN Clear ELSE nodes[i]]
    /\ size' = 0
    /\ Return(t, "c_body", "true")
    /\ write_lock' = "null"
    /\ UNCHANGED <<invalid, num_readers, fields_lock>>

\* The array is freed, the entries are not destroyed, and the result is false.
InvalidateMap(t) ==
    /\ invalid' = TRUE
    /\ Return(t, "i_body", "false")
    /\ write_lock' = "null"
    /\ UNCHANGED <<nodes, size, num_readers, fields_lock>>
-----------------------------------------------------------------------------
Begins(t) ==
    BeginPut(t) \/ BeginGet(t) \/ BeginDelete(t) \/ BeginClear(t) \/ BeginInvalidate(t)

Step(t) ==
    \/ WriteLock(t) \/ Put(t) \/ Delete(t) \/ DeleteReads(t) \/ ClearMap(t) \/ InvalidateMap(t)
    \/ ReaderEnter(t) \/ ReaderWriteLock(t) \/ ReaderEntered(t) \/ Scan(t)
    \/ ReaderLeave(t) \/ ReaderLeft(t)

Next == \E t \in Threads : Begins(t) \/ Step(t)

Spec == Init /\ [][Next]_vars

\* A thread inside a call keeps running.
FairSpec == Spec /\ \A t \in Threads : WF_vars(Step(t))
-----------------------------------------------------------------------------
(***************************************************************************)
(* Properties.                                                             *)
(***************************************************************************)
At(labels) == {t \in Threads : pc[t] \in labels}

Writing == {"p_body", "p_spin", "d_body", "c_body", "i_body"}

\* The type invariant of the map and of its callers.
TypeOK ==
    /\ nodes \in [Slots -> Node]
    /\ size \in 0 .. SizeMod - 1
    /\ num_readers \in Nat
    /\ invalid \in BOOLEAN
    /\ write_lock \in Threads \cup {"null"}
    /\ fields_lock \in Threads \cup {"null"}
    /\ pc \in [Threads -> Labels]
    /\ op \in [Threads -> Operations \cup {"index", "null"}]
    /\ key \in [Threads -> Keys \cup {"null"}]
    /\ val \in [Threads -> Vals \cup {"null", "true", "false"}]
    /\ index \in [Threads -> Slots \cup {-1}]
    /\ \A t \in Threads : pc[t] = "p_body" => key[t] \in Keys /\ val[t] \in Vals

\* Readers and writers exclude each other although the thread that takes
\* write_lock for the readers is not always the one that gives it back, and
\* although each of the two counts of the readers is taken in a critical section
\* of its own: while one writes nobody else writes, scans or has begun to.
ReadersExcludeWriters ==
    \A t \in At(Writing) : At(Writing \cup {"r_entered", "r_scan", "r_leave"}) = {t}

\* get stops at a slot without a key, so that no entry may have such a slot
\* before it on its probe path: deletions leave tombstones, with their keys, and
\* nothing but clear_map, which empties the whole map, takes a key away.
ProbeChainsUnbroken ==
    \A i \in Live(nodes), j \in Slots :
        (j < (i - Index[nodes[i].key] + Capacity) % Capacity) =>
            nodes[Probe(nodes[i].key, j)].key # "null"

\* put trusts that a map with size < capacity has a slot that ends its loop.
SizeCoversEntries == Cardinality(Live(nodes)) <= size /\ size <= Capacity

\* put always returns: its loop never goes round a table without a free slot.
PutReturns == At({"p_spin"}) = {}

\* No call works on the array that invalidate_map has freed.
NoUseAfterFree ==
    invalid => At((Writing \ {"i_body"}) \cup {"r_scan", "d_read"}) = {}

\* Calls never wait for each other in a circle, of fields_lock and write_lock in
\* particular: when every thread is in a call, one of them returns.
SomeCallReturns == At({"idle"}) = {} ~> At({"idle"}) # {}

\* What a key maps to changes when a put of that key is done, and otherwise it
\* only vanishes (delete, clear, eviction): a value that a later put has replaced
\* never comes back.
NoStaleValue ==
    [][\A k \in Keys : \/ Get(nodes', k) \in {Get(nodes, k), "null"}
                       \/ \E t \in Threads : /\ pc[t] = "p_body" /\ pc'[t] = "idle"
                                             /\ key[t] = k /\ Get(nodes', k) = val[t]]_vars

\* A put that returns true is visible: from its unlock on get finds its value,
\* although put writes the first slot it could use and looks no further, so that
\* tombstones, older entries of the key and evicted neighbours may lie around it.
PutIsVisible ==
    [][\A t \in Threads : pc[t] = "p_body" /\ pc'[t] = "idle" /\ val'[t] = "true" =>
                              Get(nodes', key[t]) = val[t]]_vars

\* A map whose callers put without force, get and clear, from any number of
\* threads, implements the key-value map: probing, the two locks and the counter
\* of the readers never lose, mix up or bring back an entry.
Effected(t) == pc[t] \in {"idle", "r_leave", "r_left"}

KV == INSTANCE KVMap WITH
          store <- [k \in Keys |-> Get(nodes, k)],
          call  <- [t \in Threads |-> IF Effected(t) THEN "idle" ELSE op[t]],
          key   <- [t \in Threads |-> IF Effected(t) THEN "null" ELSE key[t]]

ImplementsKVMap == KV!Spec
=============================================================================
