------------------------------ MODULE FifoQueue ------------------------------
(***************************************************************************)
(* What the request queue of the multi-threaded server promises its        *)
(* callers (multi_thread_server/include/queue.h): each call takes effect   *)
(* in one indivisible step between the moment it is made and the moment it *)
(* returns, an enqueue that reports success has appended its item, and a   *)
(* dequeue hands out the oldest item.  A dequeue waits while the queue is  *)
(* empty.  An invalidation destroys the items that are left, after which   *)
(* every new call fails at once.  How the calls are implemented (a linked  *)
(* list, a mutex, a semaphore) is the business of module Queue, which is   *)
(* shown to implement this one.                                            *)
(***************************************************************************)
EXTENDS Sequences

CONSTANTS
    Threads,  \* the callers
    Items     \* what is queued

VARIABLES
    contents,  \* the queued items, oldest first
    open,      \* no invalidation has completed
    call,      \* call[t]: how far the call of thread t has come
    val        \* val[t]: the argument of t's call, then what it returned

vars == <<contents, open, call, val>>

Init ==
    /\ contents = <<>>
    /\ open = TRUE
    /\ call = [t \in Threads |-> "idle"]
    /\ val  = [t \in Threads |-> "null"]

\* Thread t makes a call with argument v.
Begin(t, kind, v) ==
    /\ open
    /\ call[t] = "idle"
    /\ call' = [call EXCEPT ![t] = kind]
    /\ val'  = [val EXCEPT ![t] = v]
    /\ UNCHANGED <<contents, open>>

\* Thread t calls an invalidated queue, which answers r at once.
Reject(t, r) ==
    /\ ~open
    /\ call[t] = "idle"
    /\ val' = [val EXCEPT ![t] = r]
    /\ UNCHANGED <<contents, open, call>>

\* The item becomes visible to the dequeuers.
Insert(t) ==
    /\ open
    /\ call[t] = "enqueue"
    /\ contents' = Append(contents, val[t])
    /\ call' = [call EXCEPT ![t] = "returning"]
    /\ val'  = [val EXCEPT ![t] = "true"]
    /\ UNCHANGED open

\* An enqueue that finds no memory reports failure and leaves no trace.
Refuse(t) ==
    /\ call[t] = "enqueue"
    /\ call' = [call EXCEPT ![t] = "idle"]
    /\ val'  = [val EXCEPT ![t] = "false"]
    /\ UNCHANGED <<contents, open>>

Remove(t) ==
    /\ call[t] = "dequeue"
    /\ contents # <<>>
    /\ contents' = Tail(contents)
    /\ call' = [call EXCEPT ![t] = "returning"]
    /\ val'  = [val EXCEPT ![t] = Head(contents)]
    /\ UNCHANGED open

\* An invalidation destroys the oldest item that is left.
Destroy(t) ==
    /\ call[t] = "invalidate"
    /\ contents # <<>>
    /\ contents' = Tail(contents)
    /\ UNCHANGED <<open, call, val>>

Close(t) ==
    /\ call[t] = "invalidate"
    /\ contents = <<>>
    /\ open' = FALSE
    /\ call' = [call EXCEPT ![t] = "returning"]
    /\ val'  = [val EXCEPT ![t] = "true"]
    /\ UNCHANGED contents

Return(t) ==
    /\ call[t] = "returning"
    /\ call' = [call EXCEPT ![t] = "idle"]
    /\ UNCHANGED <<contents, open, val>>

Next ==
    \E t \in Threads :
        \/ \E i \in Items : Begin(t, "enqueue", i)
        \/ Begin(t, "dequeue", "null")
        \/ Begin(t, "invalidate", "null")
        \/ Reject(t, "false")
        \/ Reject(t, "null")
        \/ Insert(t)
        \/ Refuse(t)
        \/ Remove(t)
        \/ Destroy(t)
        \/ Close(t)
        \/ Return(t)

Spec == Init /\ [][Next]_vars
=============================================================================
