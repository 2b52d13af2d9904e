----------------------------- MODULE HashmapTTL -----------------------------
(***************************************************************************)
(* The map with entries that expire (multi_thread_server/src/              *)
(* extracredit.c, which `make ec` builds in the place of hashmap.c).  The  *)
(* locks, put's choice of a slot, delete, clear_map and invalidate_map are *)
(* those of module Hashmap.  A slot also has the time at which put wrote   *)
(* it, and get, which is a reader, makes tombstones of the expired entries *)
(* that its probe passes, without decrementing size.                       *)
(***************************************************************************)
EXTENDS Hashmap

CONSTANT Lifetime   \* ticks of clock() from which on an entry counts as expired:
                    \* (clock() - start) / CLOCKS_PER_SEC > TTL

ASSUME TTLAssumption == Lifetime \in Nat \ {0}

VARIABLES
    age,    \* of each slot: clock() - start, as far as Lifetime
    step    \* of each reader: the steps of get's probe loop that it has done

timed == <<age, step>>
tvars == <<vars, timed>>

Expired(i) == age[i] >= Lifetime

\* The array as get sees it.
Fresh(array) == [i \in Slots |-> [array[i] EXCEPT !.tombstone = @ \/ Expired(i)]]
-----------------------------------------------------------------------------
\* calloc makes start 0, which is as old as the process.
TInit ==
    /\ Init
    /\ \E a \in 0 .. Lifetime : age = [i \in Slots |-> a]
    /\ step = [t \in Threads |-> 0]

\* The clock goes on at any time, in the middle of a probe too.
Tick ==
    /\ \E i \in Slots : ~Expired(i)
    /\ age' = [i \in Slots |-> IF Expired(i) THEN age[i] ELSE age[i] + 1]
    /\ UNCHANGED <<vars, step>>

\* Mutant of PutStarts: an entry that is written again keeps its start.
PutStartsOnce(t) ==
    /\ PutInserts(t)
    /\ LET i == PutSlot(nodes, key[t])
       IN  age' = IF PutStops(nodes, key[t]) = {} \/ nodes[i].key = key[t] THEN age
                  ELSE [age EXCEPT ![i] = 0]
    /\ UNCHANGED step

PutStarts(t) ==
    /\ PutInserts(t)
    /\ age' = IF PutStops(nodes, key[t]) = {} THEN age
              ELSE [age EXCEPT ![PutSlot(nodes, key[t])] = 0]
    /\ UNCHANGED step

\* A forced put into a full map leaves the start of the entry it destroys.
PutKeepsStart(t) == (PutRefused(t) \/ PutEvicts(t)) /\ UNCHANGED timed

\* get's probe loop is over.
Answer(t, v) ==
    /\ Goto(t, "r_scan", "r_leave")
    /\ val' = [val EXCEPT ![t] = v]
    /\ step' = [step EXCEPT ![t] = 0]

\* Mutant of Passes: an expired entry ends the search.
PassesNotExpired(t) ==
    IF step[t] = Capacity - 1 \/ Expired(Probe(key[t], step[t]))
    THEN Answer(t, "null")
    ELSE step' = [step EXCEPT ![t] = @ + 1] /\ UNCHANGED <<pc, val>>

Passes(t) ==
    IF step[t] = Capacity - 1
    THEN Answer(t, "null")
    ELSE step' = [step EXCEPT ![t] = @ + 1] /\ UNCHANGED <<pc, val>>

\* Mutant of Mark: an expired entry is taken out of size.
MarkUncounts(i) ==
    /\ nodes' = [nodes EXCEPT ![i].tombstone = TRUE]
    /\ size' = IF nodes[i].tombstone THEN size ELSE (size + SizeMod - 1) % SizeMod

\* A reader writes to the array; size goes on counting what it takes out.
Mark(i) == nodes' = [nodes EXCEPT ![i].tombstone = TRUE] /\ UNCHANGED size

\* One step of get's loop.  Readers do this at the same time, so that several may
\* mark one slot, and one may visit a slot that another has marked just before.
Visit(t) ==
    LET i == Probe(key[t], step[t])
        gone == nodes[i].tombstone \/ Expired(i)
    IN  /\ pc[t] = "r_scan" /\ op[t] # "index"
        /\ \/ nodes[i].key = "null" /\ Answer(t, "null") /\ UNCHANGED table
           \/ nodes[i].key # "null" /\ gone /\ Mark(i) /\ Passes(t) /\ UNCHANGED invalid
           \/ nodes[i].key = key[t] /\ ~gone /\ Answer(t, nodes[i].val) /\ UNCHANGED table
           \/ nodes[i].key \notin {key[t], "null"} /\ ~gone /\ Passes(t) /\ UNCHANGED table
        /\ UNCHANGED <<sync, op, key, index, age>>

\* get_true_index does not look at the time.
FindIndex(t) == op[t] = "index" /\ Scan(t) /\ UNCHANGED timed

Untimed(t) ==
    /\ \/ Begins(t) \/ WriteLock(t) \/ Delete(t) \/ DeleteReads(t) \/ ClearMap(t)
       \/ InvalidateMap(t) \/ ReaderEnter(t) \/ ReaderWriteLock(t) \/ ReaderEntered(t)
       \/ ReaderLeave(t) \/ ReaderLeft(t)
    /\ UNCHANGED timed

TNext ==
    \/ Tick
    \/ \E t \in Threads : PutStarts(t) \/ PutKeepsStart(t) \/ Visit(t) \/ FindIndex(t) \/ Untimed(t)

TSpec == TInit /\ [][TNext]_tvars
-----------------------------------------------------------------------------
(***************************************************************************)
(* Properties.                                                             *)
(***************************************************************************)
TTypeOK ==
    /\ TypeOK
    /\ age \in [Slots -> 0 .. Lifetime]
    /\ step \in [Threads -> Slots]
    /\ \A t \in Threads : pc[t] # "r_scan" => step[t] = 0

\* get answers what is in the map at one instant, its last step, although it goes
\* from slot to slot while the clock runs and other readers make tombstones on
\* its way: it finds the entry that is fresh then, and misses none.
GetIsAtomic ==
    [][\A t \in Threads : pc[t] = "r_scan" /\ pc'[t] = "r_leave" /\ op[t] # "index" =>
          val'[t] = Get(Fresh(nodes), key[t])]_tvars

\* An entry that has expired is counted in size until somebody deletes it, and a
\* delete that another reader's tombstone or a new entry has overtaken takes one
\* away all the same: with one thread that deletes, size still covers the entries,
\* and put finds a slot.
ExpiryKeepsRoom == SizeCoversEntries /\ PutReturns

\* A put that returns true is visible from its unlock on, although it may have
\* taken the slot of an expired entry, its own or another's, before any reader has
\* marked it.  Not so a forced put into a full map, which is seen as expired when
\* the entry it destroyed was.
TimedPutIsVisible ==
    [][\A t \in Threads :
          pc[t] = "p_body" /\ pc'[t] = "idle" /\ val'[t] = "true" /\ size < Capacity =>
              Get(Fresh(nodes)', key[t]) = val[t]]_tvars
=============================================================================
