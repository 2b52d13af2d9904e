------------------------------- MODULE MCCream -------------------------------
(***************************************************************************)
(* Small instances of module Cream.                                        *)
(***************************************************************************)
EXTENDS Cream, TLC

CONSTANTS a, b, c, d,   \* clients
          k1, k2        \* keys

R(code_, k) == [code |-> code_, key |-> k, valid |-> TRUE]
Bad(code_)  == [code |-> code_, key |-> k1, valid |-> FALSE]

\* Two keys with one index: the second put over a full map frees the first value.
SameIndex == (k1 :> 0) @@ (k2 :> 0)

\* Clients of every kind; one of them may fall silent or hang up.
Mixed == (a :> {R("PUT", k1), R("unsupported", k1), Bad("PUT")})
           @@ (b :> {R("PUT", k2), R("EVICT", k1), R("CLEAR", k1)})
           @@ (c :> {R("GET", k1), Bad("GET"), R("PUT", k1), R("eof", k1), R("silence", k1)})

\* Writers of both keys, and a reader of one.
Readers == (a :> {R("PUT", k1)}) @@ (b :> {R("GET", k1)}) @@ (c :> {R("PUT", k2)})
             @@ (d :> {R("PUT", k2)})
=============================================================================
