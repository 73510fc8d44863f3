--------------------------- MODULE MCUnitHandles ---------------------------
(* Instances of UnitHandles for TLC. *)
EXTENDS UnitHandles, TLC

Interchangeable == Permutations(Threads) \cup Permutations(Sockets)
=============================================================================
