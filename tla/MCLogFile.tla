------------------------------ MODULE MCLogFile ------------------------------
(* Instances of LogFile for TLC. *)
EXTENDS LogFile

CONSTANTS udev, daemon, menu

ProcSymmetry == Permutations(Proc)
=============================================================================
