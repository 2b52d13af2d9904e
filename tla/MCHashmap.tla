------------------------------ MODULE MCHashmap ------------------------------
(***************************************************************************)
(* Small instances of module Hashmap.                                      *)
(***************************************************************************)
EXTENDS Hashmap, TLC

CONSTANTS a, b, c,     \* threads
          k1, k2, k3   \* keys

\* Two keys collide at the last slot, so that their probe wraps round to the
\* first, where that of the third one begins.
Collide == (k1 :> Capacity - 1) @@ (k2 :> Capacity - 1) @@ (k3 :> 0)

\* One thread puts, by force and without, and invalidates the map; one alone
\* deletes and clears; one reads.
OneDeleter == (a :> {"put", "force", "invalidate"}) @@ (b :> {"delete", "clear"})
                @@ (c :> {"get"})

\* Nobody deletes and nobody evicts.
NoDeleter == (a :> {"put"}) @@ (b :> {"get", "clear"}) @@ (c :> {"put", "get"})

\* One thread alone.
Alone == (a :> {"put", "force", "get", "delete"}) @@ (b :> {}) @@ (c :> {})

\* Nothing tells one value from another.
ValSymmetry == Permutations(Vals)
=============================================================================
