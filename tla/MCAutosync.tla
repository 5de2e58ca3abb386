----------------------------- MODULE MCAutosync -----------------------------
(* Instances of Autosync for TLC. *)
EXTENDS Autosync, TLC

CONSTANTS udev, menu, h1, h2, home, book

(* One cadence of waiting is enough to probe, sleep and probe again. *)
OneCadence == [p \in Proc |-> 1]

(* Where the wait is not in question, probe once and give up. *)
NoPatience == [p \in Proc |-> 0]

HighlightSymmetry == Permutations(Highlight)
=============================================================================
