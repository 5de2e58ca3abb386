----------------------------- MODULE SerialSync -----------------------------
(***************************************************************************)
(* What the sync engine promises, with no process, lock, file or request   *)
(* in sight.  At most one run is in flight.  A run takes a snapshot of the *)
(* highlights the reader shows, as far as they have text; the server may   *)
(* come to hold any of the highlights ever captured, and a run settles     *)
(* only once the server holds its whole snapshot.  The ledger is the       *)
(* snapshot of the last run that settled: the baseline against which the   *)
(* next run measures growth.                                               *)
(***************************************************************************)
CONSTANTS
  Highlight,
  Blank  \* the highlights that have no text to send

VARIABLES
  bookmark,  \* the device's view of each highlight
  server,    \* highlights the server holds
  ledger,    \* highlights counted by the last settled run
  flight     \* snapshot of the run in flight, or NoRun

vars == <<bookmark, server, ledger, flight>>

NoRun == [active |-> FALSE, items |-> {}]

Running(S) == [active |-> TRUE, items |-> S]

Visible == {h \in Highlight : bookmark[h] = "visible"}

Captured == {h \in Highlight : bookmark[h] # "absent"}

Init ==
  /\ bookmark \in [Highlight -> {"absent", "visible"}]
  /\ server = {}
  /\ ledger = {}
  /\ flight = NoRun

Capture(h) ==
  /\ bookmark[h] = "absent"
  /\ bookmark' = [bookmark EXCEPT ![h] = "visible"]
  /\ UNCHANGED <<server, ledger, flight>>

Hide(h) ==
  /\ bookmark[h] = "visible"
  /\ bookmark' = [bookmark EXCEPT ![h] = "hidden"]
  /\ UNCHANGED <<server, ledger, flight>>

Take ==
  /\ ~flight.active
  /\ flight' = Running(Visible \ Blank)
  /\ UNCHANGED <<bookmark, server, ledger>>

Import(S) ==
  /\ server' = server \cup S
  /\ UNCHANGED <<bookmark, ledger, flight>>

Settle ==
  /\ flight.active
  /\ flight.items \subseteq server
  /\ ledger' = flight.items
  /\ flight' = NoRun
  /\ UNCHANGED <<bookmark, server>>

Abandon ==
  /\ flight.active
  /\ flight' = NoRun
  /\ UNCHANGED <<bookmark, server, ledger>>

Next ==
  \/ \E h \in Highlight : Capture(h) \/ Hide(h)
  \/ \E S \in SUBSET Captured : Import(S)
  \/ Take
  \/ Settle
  \/ Abandon

Spec == Init /\ [][Next]_vars
=============================================================================
