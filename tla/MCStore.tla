------------------------------- MODULE MCStore -------------------------------
(* Instances of StoreReaders for TLC. *)
EXTENDS StoreReaders, TLC

CONSTANTS menu, shell, run1, run2, i1, i2, i3, cloud, lan, public

StoreSymmetry == Permutations(Pairing) \cup Permutations(Id)
=============================================================================
