-------------------------------- MODULE KVMap --------------------------------
(***************************************************************************)
(* What multi_thread_server/include/hashmap.h promises of a map whose      *)
(* entries are put, got, cleared and deleted by several threads: each call *)
(* takes effect in one indivisible step between its beginning and its      *)
(* return, and what is read is what was put last.  A put may be refused,   *)
(* when the map is full, and then leaves no trace.                         *)
(***************************************************************************)
CONSTANTS Threads, Keys, Vals

VARIABLES
    store,   \* store[k]: the value of key k, or "null"
    call,    \* call[t]: how far the call of thread t has come
    key,     \* key[t]: the key it is about, or "null"
    val      \* val[t]: the argument of a put, then what the call returned

vars == <<store, call, key, val>>

Init ==
    /\ store = [k \in Keys |-> "null"]
    /\ call  = [t \in Threads |-> "idle"]
    /\ key   = [t \in Threads |-> "null"]
    /\ val   = [t \in Threads |-> "null"]

Begin(t, kind, k, v) ==
    /\ call[t] = "idle"
    /\ call' = [call EXCEPT ![t] = kind]
    /\ key'  = [key EXCEPT ![t] = k]
    /\ val'  = [val EXCEPT ![t] = v]
    /\ UNCHANGED store

\* The call takes effect: the map becomes s and the result is r.  What the thread
\* still does before it returns to its caller is of no consequence.
TakeEffect(t, kind, s, r) ==
    /\ call[t] = kind
    /\ store' = s
    /\ call'  = [call EXCEPT ![t] = "idle"]
    /\ key'   = [key EXCEPT ![t] = "null"]
    /\ val'   = [val EXCEPT ![t] = r]

Put(t)    == TakeEffect(t, "put", [store EXCEPT ![key[t]] = val[t]], "true")
Refuse(t) == TakeEffect(t, "put", store, "false")
Get(t)    == TakeEffect(t, "get", store, store[key[t]])
Delete(t) == TakeEffect(t, "delete", [store EXCEPT ![key[t]] = "null"], store[key[t]])
Clear(t)  == TakeEffect(t, "clear", [k \in Keys |-> "null"], "true")

Next ==
    \E t \in Threads :
        \/ \E k \in Keys, v \in Vals : Begin(t, "put", k, v)
        \/ \E k \in Keys : Begin(t, "get", k, "null") \/ Begin(t, "delete", k, "null")
        \/ Begin(t, "clear", "null", "null")
        \/ Put(t) \/ Refuse(t) \/ Get(t) \/ Delete(t) \/ Clear(t)

Spec == Init /\ [][Next]_vars
=============================================================================
