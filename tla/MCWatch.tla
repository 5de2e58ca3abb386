------------------------------- MODULE MCWatch -------------------------------
(* Instances of Watch for TLC. *)
EXTENDS Watch, TLC

CONSTANTS udev, h1, h2, home

(* The wait itself is Autosync's business: probe once and give up. *)
NoPatience == [p \in Proc |-> 0]

HighlightSymmetry == Permutations(Highlight)
=============================================================================
