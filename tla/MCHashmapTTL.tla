---------------------------- MODULE MCHashmapTTL ----------------------------
(***************************************************************************)
(* Small instances of module HashmapTTL.                                   *)
(***************************************************************************)
EXTENDS HashmapTTL, TLC

CONSTANTS a, b, c,     \* threads
          k1, k2       \* keys

\* The keys collide at the last slot, so that their probes wrap.
Collide == (k1 :> Capacity - 1) @@ (k2 :> Capacity - 1)

\* One thread puts and invalidates, one deletes and clears, one reads.
OneDeleter == (a :> {"put", "force", "invalidate"}) @@ (b :> {"delete", "clear"}) @@ (c :> {"get"})
=============================================================================
