-------------------------------- MODULE MCSfmm --------------------------------
(***************************************************************************)
(* Small instances of module Sfmm.                                         *)
(***************************************************************************)
EXTENDS Sfmm

\* One list for each number of 32-byte rows of a small page.
ListBounds == [n \in 0 .. 2 |-> <<32, 64, 96>>[n + 1]]
=============================================================================
