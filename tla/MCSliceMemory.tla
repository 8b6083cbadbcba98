---------------------------- MODULE MCSliceMemory ----------------------------
(***************************************************************************)
(* Model checking of SliceMemory, at the addresses around every boundary.  *)
(***************************************************************************)
EXTENDS MemoryClient

\* Code bytes differ from their neighbours, so that a shifted load shows.
MCMems == {[code |-> [i \in 0..(CodeLen - 1) |-> (i + 1) % BASE],
            ram  |-> [i \in 0..(RamLen - 1) |-> 0]]}

=============================================================================
