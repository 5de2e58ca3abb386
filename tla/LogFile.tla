------------------------------- MODULE LogFile -------------------------------
(***************************************************************************)
(* autosync.log as its writers share it: every caller of Run and the watch *)
(* daemon append result lines outside any lock, each then reads the file   *)
(* back and rewrites it when it is over its cap.  The udev rules also      *)
(* redirect the output of those processes into it.  The file is a sequence *)
(* of cells (bytes, or any fixed share of a line); a rewrite is a          *)
(* truncation and, later, one write from offset 0, while appends go to     *)
(* whatever the end is by then.                                            *)
(***************************************************************************)
EXTENDS SequencesExt

CONSTANTS
  Proc,      \* processes that log
  MaxBytes,  \* the cap of the file, in cells
  MaxLen,    \* length of the longest line, in cells
  MaxLines   \* bound on the lines ever logged

ASSUME LogConstants ==
  /\ IsFiniteSet(Proc)
  /\ MaxBytes \in Nat
  /\ MaxLen \in Nat \ {0}
  /\ MaxLen <= MaxBytes
  /\ MaxLines \in Nat

VARIABLES
  log,     \* the file
  copy,    \* what each process is about to write in its place
  pc,      \* where each process is in Log
  lines,   \* history: lines logged so far
  all,     \* history: all that was ever appended
  strays,  \* history: appends since the last check whose own check never comes
  raced,   \* history: the file changed between a truncation and its rewrite
  lost     \* history: as raced, or it grew after being read, or a rewrite failed

ghosts == <<lines, all, strays, raced, lost>>
vars == <<log, copy, pc, ghosts>>

-----------------------------------------------------------------------------
(* A cell is the at-th of a line and has left more after it. *)
Cell == [line : Nat, at : Nat, left : Nat]

Line(n, len) == [i \in 1 .. len |-> [line |-> n, at |-> i, left |-> len - i]]

IsEnd(cell) == cell.left = 0

Newest(s, n) == SubSeq(s, Len(s) - n + 1, Len(s))

(* Without an end of line in sight nothing is dropped: the first one is at 0. *)
FromBoundary(s) == SubSeq(s, SelectInSeq(s, IsEnd) + 1, Len(s))

(* The operators with an underscore are defects the properties notice. *)
CapLog_MidLine(s) == Newest(s, MaxBytes)

CapLog_Oldest(s) == SubSeq(s, 1, MaxBytes)

CapLog_Off(s) == s

CapLog_OneLine(s) == FromBoundary(s)

CapLog(s) == FromBoundary(Newest(s, MaxBytes))

(* A write from offset 0 leaves what lies beyond it. *)
Overwrite(s, t) == t \o SubSeq(s, Len(t) + 1, Len(s))

Others(p, labels) == \E q \in Proc \ {p} : pc[q] \in labels

-----------------------------------------------------------------------------
Init ==
  /\ log = <<>>
  /\ copy = [p \in Proc |-> <<>>]
  /\ pc = [p \in Proc |-> "idle"]
  /\ lines = 0
  /\ all = <<>>
  /\ strays = 0
  /\ raced = FALSE
  /\ lost = FALSE

Goto(p, label) == pc' = [pc EXCEPT ![p] = label]

AddLine(len) ==
  /\ lines < MaxLines
  /\ lines' = lines + 1
  /\ log' = log \o Line(lines', len)
  /\ all' = all \o Line(lines', len)

(* p's change of the file falls into the rewrite of another. *)
Disturbs(p) ==
  /\ raced' = (raced \/ Others(p, {"fill"}))
  /\ lost' = (lost \/ Others(p, {"trunc", "fill"}))

(* A log that cannot be opened is a line not logged. *)
AppendLine(p) ==
  /\ pc[p] = "idle"
  /\ \E len \in 1 .. MaxLen : AddLine(len)
  /\ Goto(p, "check")
  /\ Disturbs(p)
  /\ UNCHANGED <<copy, strays>>

(* Output of one of the processes, which its shell appends; nobody checks. *)
Redirected ==
  /\ \E len \in 1 .. MaxLen : AddLine(len)
  /\ strays' = strays + 1
  /\ raced' = (raced \/ \E q \in Proc : pc[q] = "fill")
  /\ lost' = (lost \/ \E q \in Proc : pc[q] \in {"trunc", "fill"})
  /\ UNCHANGED <<copy, pc>>

CheckSize(p) ==
  /\ pc[p] = "check"
  /\ \/ /\ Len(log) <= MaxBytes
        /\ Goto(p, "idle")
        /\ strays' = 0
        /\ UNCHANGED copy
     \/ /\ Len(log) > MaxBytes
        /\ Goto(p, "trunc")
        /\ copy' = [copy EXCEPT ![p] = CapLog(log)]
        /\ UNCHANGED strays
  /\ UNCHANGED <<log, lines, all, raced, lost>>

Truncate(p) ==
  /\ pc[p] = "trunc"
  /\ Goto(p, "fill")
  /\ log' = <<>>
  /\ strays' = 0
  /\ Disturbs(p)
  /\ UNCHANGED <<copy, lines, all>>

Fill(p) ==
  /\ pc[p] = "fill"
  /\ Goto(p, "idle")
  /\ log' = Overwrite(log, copy[p])
  /\ copy' = [copy EXCEPT ![p] = <<>>]
  /\ UNCHANGED ghosts

(* The process dies, or a read, open or write fails: Log reports nothing. *)
Leave(p) ==
  /\ pc[p] # "idle"
  /\ Goto(p, "idle")
  /\ copy' = [copy EXCEPT ![p] = <<>>]
  /\ strays' = IF pc[p] = "fill" THEN strays ELSE strays + 1
  /\ lost' = (lost \/ pc[p] = "fill")
  /\ UNCHANGED <<log, lines, all, raced>>

Step(p) ==
  \/ AppendLine(p)
  \/ CheckSize(p)
  \/ Truncate(p)
  \/ Fill(p)
  \/ Leave(p)

(* The bound is reached and nobody is in the middle of Log. *)
Terminating ==
  /\ lines = MaxLines
  /\ \A p \in Proc : pc[p] = "idle"
  /\ UNCHANGED vars

Next ==
  \/ Terminating
  \/ Redirected
  \/ \E p \in Proc : Step(p)

Spec == Init /\ [][Next]_vars

-----------------------------------------------------------------------------
TypeOK ==
  /\ log \in Seq(Cell)
  /\ copy \in [Proc -> Seq(Cell)]
  /\ pc \in [Proc -> {"idle", "check", "trunc", "fill"}]
  /\ lines \in Nat
  /\ all \in Seq(Cell)
  /\ strays \in Nat
  /\ raced \in BOOLEAN
  /\ lost \in BOOLEAN

Unchecked == {p \in Proc : pc[p] \in {"check", "trunc"}}

(* The log cannot grow without bound (log.go, fileLogger): it exceeds its cap
   by at most one line for each process between its append and its rewrite,
   and one for each append since that nobody checks, however the appends,
   rewrites and deaths of several processes interleave. *)
SizeBounded == Len(log) <= MaxBytes + MaxLen * (Cardinality(Unchecked) + strays)

(* Whole lines one after the other, the older ones first. *)
Whole(s) ==
  \A i \in 1 .. Len(s) :
    /\ i = 1 => s[i].at = 1
    /\ i = Len(s) => IsEnd(s[i])
    /\ i > 1 => IF IsEnd(s[i - 1])
                THEN s[i].at = 1 /\ s[i].line > s[i - 1].line
                ELSE s[i].at = s[i - 1].at + 1 /\ s[i].line = s[i - 1].line

(* The log never starts mid-line, nor breaks or reorders a line, unless the
   file changed between another process's truncation and its rewrite (log.go,
   capLog; Log takes no lock). *)
WholeLines == ~raced => Whole(log)

(* Truncation takes the oldest: unless a line came into another process's
   rewrite, or one failed, the log ends in the newest line, misses none after
   its first, and is nearly full if it misses any at all (log.go, capLog). *)
NewestKept ==
  ~lost /\ (\A p \in Proc : pc[p] # "fill") =>
    /\ Len(log) <= Len(all)
    /\ log = Newest(all, Len(log))
    /\ log # all => Len(log) >= MaxBytes - MaxLen

(* A file that is being rewritten already says what its rewriter has in hand. *)
Text ==
  IF ~lost /\ \E p \in Proc : pc[p] = "fill"
  THEN copy[CHOOSE p \in Proc : pc[p] = "fill"]
  ELSE log

Contract == INSTANCE RollingLog WITH text <- Text, sound <- ~lost

(* Several writers that read, truncate and rewrite the file outside any lock
   are as good as one that trims it in a step, until a change comes between
   another's read and rewrite, or a rewrite fails (log.go, Log and capLog). *)
ImplementsRollingLog == Contract!Spec
=============================================================================
