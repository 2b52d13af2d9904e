------------------------------- MODULE MCQueue -------------------------------
(***************************************************************************)
(* Small instances of module Queue.                                        *)
(***************************************************************************)
EXTENDS Queue, TLC

CONSTANTS p, q, w, x   \* threads

\* The server's threads: the acceptor p enqueues, the workers w and x loop over
\* dequeue; q enqueues too, and then invalidates the queue as queue_fini does.
ServerCalls == (p :> {"enqueue"}) @@ (q :> {"enqueue", "invalidate"})
                 @@ (w :> {"dequeue"}) @@ (x :> {"dequeue"})
=============================================================================
