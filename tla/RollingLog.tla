------------------------------ MODULE RollingLog ------------------------------
(***************************************************************************)
(* What the result log promises its reader, with one writer in sight and   *)
(* no read, truncation or rewrite: lines are added at its end, and when it *)
(* has outgrown its cap its oldest lines go, in one step, no further than  *)
(* one line below the cap.  Logging is best effort: the file may also be   *)
(* damaged, and of a damaged file nothing more is promised here.           *)
(***************************************************************************)
EXTENDS Naturals, Sequences

CONSTANTS
  Cell,       \* what the file is made of
  IsEnd(_),   \* the cells that end a line
  MaxBytes,   \* the cap, in cells
  MaxLen      \* length of the longest line, in cells

VARIABLES
  text,  \* what the file says
  sound  \* it has not been damaged

vars == <<text, sound>>

(* t is s without its first lines, the cell before it being the end of one. *)
EndOf(t, s) ==
  /\ Len(t) < Len(s)
  /\ \A i \in 1 .. Len(t) : t[i] = s[Len(s) - Len(t) + i]
  /\ IsEnd(s[Len(s) - Len(t)])

Init ==
  /\ text = <<>>
  /\ sound = TRUE

(* A line comes to the end of the text. *)
Line ==
  /\ Len(text') \in Len(text) + 1 .. Len(text) + MaxLen
  /\ \A i \in 1 .. Len(text) : text'[i] = text[i]
  /\ \A i \in Len(text) + 1 .. Len(text') : IsEnd(text'[i]) <=> i = Len(text')
  /\ sound' = sound

Trim ==
  /\ sound
  /\ Len(text) > MaxBytes
  /\ EndOf(text', text)
  /\ Len(text') \in MaxBytes - MaxLen .. MaxBytes
  /\ sound' = sound

Damage ==
  /\ text' \in Seq(Cell)
  /\ ~sound'

Next == Line \/ Trim \/ Damage

Spec == Init /\ [][Next]_vars
=============================================================================
