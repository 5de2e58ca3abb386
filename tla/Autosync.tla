------------------------------ MODULE Autosync ------------------------------
(***************************************************************************)
(* The sync engine autosync.Run and everything it shares: the processes    *)
(* that call it (udev autosync, the watch daemon, sync-now), the flock     *)
(* they contend for, the last-sync record with its temporary file, the     *)
(* import requests on the network, and the toast.  One action per blocking *)
(* step of Run, so that runs, captures, link changes, page turns, lost     *)
(* requests and process deaths interleave between any two of them.         *)
(***************************************************************************)
EXTENDS Integers, FiniteSets

CONSTANTS
  Proc,           \* processes that may call Run
  Quiet,          \* those wired with the no-op toaster (sync-now)
  Highlight,      \* highlights the reader may capture
  Blank,          \* those whose text is nothing but tabs or newlines
  Undated,        \* those dated by no timestamp ("", "0000-00-00T...")
  View,           \* Nickel's views
  ToastAllow,     \* views on which a toast may be shown
  MaxWait,        \* [Proc -> Nat]: connectivity-wait bound, in cadences
  WritesMayFail,  \* can writing or renaming the record fail (full disk)?
  Nobody,         \* the lock when it is free
  NoView,         \* a failed or no-op view probe
  Torn            \* a half-written file

ASSUME AutosyncConstants ==
  /\ Quiet \subseteq Proc
  /\ Blank \subseteq Highlight
  /\ Undated \subseteq Highlight
  /\ ToastAllow \subseteq View
  /\ MaxWait \in [Proc -> Nat]
  /\ WritesMayFail \in BOOLEAN
  /\ Nobody \notin Proc
  /\ NoView \notin View
  /\ IsFiniteSet(Highlight)

VARIABLES
  bookmark,  \* the bookmark rows of KoboReader.sqlite
  link,      \* wlan0 is up with a default route
  view,      \* the view on screen
  wire,      \* import requests sent and not yet applied
  server,    \* highlights the server holds
  lock,      \* holder of the shared flock
  pc,        \* where each process is in Run
  waited,    \* cadences spent waiting for connectivity
  snap,      \* the full set read by the run
  growth,    \* growth of the set over the recorded count
  outcome,   \* classification of the latest run
  record,    \* the last-sync file
  tmp,       \* its temporary file
  told       \* highlights already announced by a toast

device == <<bookmark, link, view>>
network == <<wire, server>>
files == <<record, tmp>>
run == <<pc, waited, snap, growth, outcome>>
vars == <<device, network, lock, run, files, told>>

-----------------------------------------------------------------------------
(* The highlights the queries see, and those that ever existed. *)
Visible == {h \in Highlight : bookmark[h] = "visible"}

Captured == {h \in Highlight : bookmark[h] # "absent"}

(* The queries' trim() strips spaces only; BuildItem strips all white space and
   drops the rows of which nothing is left. *)
Items == Visible \ Blank

(* NormalizeTimestamp: what is no timestamp is sent as null, never raw. *)
CreatedAt_Raw(h) == IF h \in Undated THEN "raw" ELSE "utc"

CreatedAt(h) == IF h \in Undated THEN "null" ELSE "utc"

(* One raw date makes the server refuse the whole batch. *)
Refused(S) == \E h \in S : CreatedAt(h) = "raw"

(* The record.  "items" is a ghost: the highlights that "count" counts. *)
RecordType ==
  [outcome : {"none", "ok", "offline", "error"}, success : BOOLEAN,
   count : Nat, items : SUBSET Highlight]

ASSUME TornIsNoRecord == Torn \notin RecordType

ZeroRecord == [outcome |-> "none", success |-> FALSE, count |-> 0, items |-> {}]

Missing == ZeroRecord  \* a file that is not there loads as the zero record

Load(file) == IF file = Torn THEN ZeroRecord ELSE file

(* Stamp_Fresh, like every operator with an underscore in its name, is a
   defect the properties below must notice: here Record() does not load.
   What Record() makes of the record it loaded: only a success moves the
   success mark and the count. *)
Stamp_Fresh(rec, o, S) ==
  IF o = "synced"
  THEN [outcome |-> "ok", success |-> TRUE, count |-> Cardinality(S), items |-> S]
  ELSE [ZeroRecord EXCEPT !.outcome = o]

Stamp(rec, o, S) ==
  IF o = "synced"
  THEN [outcome |-> "ok", success |-> TRUE, count |-> Cardinality(S), items |-> S]
  ELSE [rec EXCEPT !.outcome = o]

Growth(count, last) == count - last

(* The one line of "kobo-sync status": a success outlives later failures. *)
StatusLine(hasToken) ==
  LET rec == Load(record) IN
  CASE ~hasToken -> "Not paired"
    [] hasToken /\ rec.success -> "Last synced"
    [] hasToken /\ ~rec.success /\ rec.outcome = "offline" -> "Waiting for WiFi"
    [] hasToken /\ ~rec.success /\ rec.outcome = "error" -> "Sync isn't working"
    [] OTHER -> "Not synced yet"

Label == {"idle", "token", "wait", "read", "post", "await", "count",
          "record", "rename", "view", "show"}

Outcome == {"none", "synced", "offline", "error", "dedup", "unpaired", "lockerr"}

-----------------------------------------------------------------------------
Init ==
  /\ bookmark \in [Highlight -> {"absent", "visible"}]
  /\ link \in BOOLEAN
  /\ view \in View
  /\ wire = {}
  /\ server = {}
  /\ lock = Nobody
  /\ pc = [p \in Proc |-> "idle"]
  /\ waited = [p \in Proc |-> 0]
  /\ snap = [p \in Proc |-> {}]
  /\ growth = [p \in Proc |-> 0]
  /\ outcome = [p \in Proc |-> "none"]
  /\ record = Missing
  /\ tmp = Missing
  /\ told = {}

-----------------------------------------------------------------------------
(* The reader, the radio and Nickel, none of them in step with a run. *)
Capture(h) ==
  /\ bookmark[h] = "absent"
  /\ bookmark' = [bookmark EXCEPT ![h] = "visible"]
  /\ UNCHANGED <<link, view, network, lock, run, files, told>>

Hide(h) ==
  /\ bookmark[h] = "visible"
  /\ bookmark' = [bookmark EXCEPT ![h] = "hidden"]
  /\ UNCHANGED <<link, view, network, lock, run, files, told>>

LinkChange ==
  /\ link' = ~link
  /\ UNCHANGED <<bookmark, view, network, lock, run, files, told>>

ViewChange ==
  /\ view' \in View \ {view}
  /\ UNCHANGED <<bookmark, link, network, lock, run, files, told>>

(* The import endpoint applies a request in its own time, possibly after the
   run that sent it gave up; applying one twice changes nothing. *)
ServerImport(S) ==
  /\ ~Refused(S)
  /\ server' = server \cup S
  /\ wire' = wire \ {S}
  /\ UNCHANGED <<device, lock, run, files, told>>

LoseRequest(S) ==
  /\ wire' = wire \ {S}
  /\ UNCHANGED <<device, server, lock, run, files, told>>

(* The manual "kobo-sync sync": no lock, no wait, no record, no toast.  It
   sends what it read, and the wire delays that as long as it likes. *)
SyncCommand ==
  /\ Items # {}
  /\ wire' = wire \cup {Items}
  /\ UNCHANGED <<device, server, lock, run, files, told>>

-----------------------------------------------------------------------------
Goto(p, label) ==
  /\ pc[p] # "idle"
  /\ pc' = [pc EXCEPT ![p] = label]

(* Every return of Run after the lock was taken runs the deferred unlock. *)
Unlock_Leak(p) == UNCHANGED lock

Unlock(p) == lock' = IF lock = p THEN Nobody ELSE lock

Clear(p) ==
  /\ waited' = [waited EXCEPT ![p] = 0]
  /\ snap' = [snap EXCEPT ![p] = {}]
  /\ growth' = [growth EXCEPT ![p] = 0]

Return(p, o) ==
  /\ Goto(p, "idle")
  /\ outcome' = [outcome EXCEPT ![p] = o]
  /\ Unlock(p)
  /\ Clear(p)

(* A failed wait or sync is recorded as an attempt; it keeps no snapshot. *)
Fail(p, o) ==
  /\ Goto(p, "record")
  /\ outcome' = [outcome EXCEPT ![p] = o]
  /\ Clear(p)
  /\ UNCHANGED lock

LockFree_Shared == TRUE

LockFree == lock = Nobody

TryLock(p) ==
  /\ pc[p] = "idle"
  /\ \/ /\ LockFree
        /\ lock' = p
        /\ pc' = [pc EXCEPT ![p] = "token"]
        /\ outcome' = [outcome EXCEPT ![p] = "none"]
     \/ /\ ~LockFree
        /\ outcome' = [outcome EXCEPT ![p] = "dedup"]
        /\ UNCHANGED <<lock, pc>>
     \/ /\ outcome' = [outcome EXCEPT ![p] = "lockerr"]
        /\ UNCHANGED <<lock, pc>>
  /\ UNCHANGED <<device, network, waited, snap, growth, files, told>>

(* Whether a token is there is the pairing store's business (StoreReaders): it
   comes with a pairing, and a re-pairing may take it away for a while. *)
CheckToken(p) ==
  /\ pc[p] = "token"
  /\ \/ /\ Goto(p, "wait")
        /\ UNCHANGED <<waited, snap, growth, outcome, lock>>
     \/ Return(p, "unpaired")
  /\ UNCHANGED <<device, network, files, told>>

(* Probe first, then the deadline, then sleep: a sleep takes one cadence or
   more, and never lets the wait go past the deadline unnoticed. *)
Ready == link

Expired(p) == waited[p] >= MaxWait[p]

WaitForConnectivity(p) ==
  /\ pc[p] = "wait"
  /\ \/ /\ Ready
        /\ Goto(p, "read")
        /\ UNCHANGED <<waited, snap, growth, outcome, lock>>
     \/ /\ ~Ready
        /\ Expired(p)
        /\ Fail(p, "offline")
     \/ /\ ~Ready
        /\ ~Expired(p)
        /\ \E t \in waited[p] + 1 .. MaxWait[p] :
             waited' = [waited EXCEPT ![p] = t]
        /\ UNCHANGED <<pc, snap, growth, outcome, lock>>
  /\ UNCHANGED <<device, network, files, told>>

ReadHighlights(p) ==
  /\ pc[p] = "read"
  /\ \/ /\ Goto(p, "post")
        /\ snap' = [snap EXCEPT ![p] = Items]
        /\ UNCHANGED <<waited, growth, outcome, lock>>
     \/ Fail(p, "error")
  /\ UNCHANGED <<device, network, files, told>>

(* The full set is sent every time; an empty one is never sent. *)
SendImport(p) ==
  /\ pc[p] = "post"
  /\ \/ /\ snap[p] = {}
        /\ Goto(p, "count")
        /\ UNCHANGED wire
     \/ /\ snap[p] # {}
        /\ Goto(p, "await")
        /\ wire' = wire \cup {snap[p]}
  /\ UNCHANGED <<device, server, lock, waited, snap, growth, outcome, files, told>>

(* The answer is a 2xx with a readable body: the batch is stored. *)
Answered_AnyStatus(p) == TRUE

Answered(p) == snap[p] \subseteq server

AwaitReply(p) ==
  /\ pc[p] = "await"
  /\ Answered(p)
  /\ Goto(p, "count")
  /\ UNCHANGED <<device, network, lock, waited, snap, growth, outcome, files, told>>

(* No connection, a timeout, a non-2xx status or an unreadable body. *)
PostError_NoTimeout(p) ==
  /\ pc[p] = "await"
  /\ Answered(p)
  /\ Fail(p, "error")
  /\ UNCHANGED <<device, network, files, told>>

PostError_Retries(p) ==
  /\ pc[p] = "await"
  /\ Goto(p, "post")
  /\ UNCHANGED <<device, network, lock, waited, snap, growth, outcome, files, told>>

PostError(p) ==
  /\ pc[p] = "await"
  /\ Fail(p, "error")
  /\ UNCHANGED <<device, network, files, told>>

(* The growth is taken before Record() replaces the count it is taken from. *)
CountGrowth(p) ==
  /\ pc[p] = "count"
  /\ Goto(p, "record")
  /\ growth' = [growth EXCEPT ![p] = Growth(Cardinality(snap[p]), Load(record).count)]
  /\ outcome' = [outcome EXCEPT ![p] = "synced"]
  /\ UNCHANGED <<device, network, lock, waited, snap, files, told>>

WriteTmp(p) ==
  /\ pc[p] = "record"
  /\ \/ /\ Goto(p, "rename")
        /\ tmp' = Stamp(Load(record), outcome[p], snap[p])
     \/ /\ WritesMayFail
        /\ Goto(p, "view")
        /\ tmp' = Torn
  /\ UNCHANGED <<device, network, lock, waited, snap, growth, outcome, record, told>>

Rename(p) ==
  /\ pc[p] = "rename"
  /\ Goto(p, "view")
  /\ \/ /\ record' = tmp
        /\ tmp' = Missing
     \/ /\ WritesMayFail
        /\ UNCHANGED files
  /\ UNCHANGED <<device, network, lock, waited, snap, growth, outcome, told>>

(* No growth, no probe.  sync-now's prober never names a view. *)
Probed(p) == IF p \in Quiet THEN {NoView} ELSE {view, NoView}

ProbeView(p) ==
  /\ pc[p] = "view"
  /\ \/ /\ growth[p] > 0
        /\ Probed(p) \cap ToastAllow # {}
        /\ Goto(p, "show")
        /\ UNCHANGED <<waited, snap, growth, outcome, lock>>
     \/ /\ growth[p] <= 0 \/ Probed(p) \ ToastAllow # {}
        /\ Return(p, outcome[p])
  /\ UNCHANGED <<device, network, files, told>>

ShowToast(p) ==
  /\ pc[p] = "show"
  /\ told' = told \cup snap[p]
  /\ Return(p, outcome[p])
  /\ UNCHANGED <<device, network, files>>

(* Death of the process, or of the device with every process: the kernel
   drops its flock; a write it was in the middle of may stay half done. *)
Crash_CopiedRecord(p) ==
  /\ Return(p, "none")
  /\ record' \in IF pc[p] = "rename" THEN {record, Torn} ELSE {record}
  /\ UNCHANGED <<device, network, tmp, told>>

Crash(p) ==
  /\ Return(p, "none")
  /\ tmp' \in IF pc[p] = "record" THEN {tmp, Torn} ELSE {tmp}
  /\ UNCHANGED <<device, network, record, told>>

-----------------------------------------------------------------------------
Environment ==
  \/ \E h \in Highlight : Capture(h) \/ Hide(h)
  \/ LinkChange
  \/ ViewChange
  \/ SyncCommand
  \/ \E S \in wire : ServerImport(S) \/ LoseRequest(S)

(* The steps of a run that has the lock. *)
RunStep(p) ==
  \/ CheckToken(p)
  \/ WaitForConnectivity(p)
  \/ ReadHighlights(p)
  \/ SendImport(p)
  \/ AwaitReply(p)
  \/ PostError(p)
  \/ CountGrowth(p)
  \/ WriteTmp(p)
  \/ Rename(p)
  \/ ProbeView(p)
  \/ ShowToast(p)

Next ==
  \/ Environment
  \/ \E p \in Proc : TryLock(p) \/ RunStep(p) \/ Crash(p)

Spec == Init /\ [][Next]_vars

(* A run that started keeps executing.  Nothing is assumed of the device, the
   network or the triggers. *)
RunFairness == \A p \in Proc : WF_vars(RunStep(p))

-----------------------------------------------------------------------------
TypeOK ==
  /\ bookmark \in [Highlight -> {"absent", "visible", "hidden"}]
  /\ link \in BOOLEAN
  /\ view \in View
  /\ wire \subseteq SUBSET Highlight
  /\ server \subseteq Highlight
  /\ lock \in Proc \cup {Nobody}
  /\ pc \in [Proc -> Label]
  /\ waited \in [Proc -> Nat]
  /\ snap \in [Proc -> SUBSET Highlight]
  /\ growth \in [Proc -> Int]
  /\ outcome \in [Proc -> Outcome]
  /\ record \in RecordType
  /\ tmp \in RecordType \cup {Torn}
  /\ told \subseteq Highlight

(* The flock serializes whole runs: no two callers of Run are past TryLock
   at once (lock.go), whatever crashes and leaves. *)
OneRunAtATime ==
  \A p, q \in Proc : pc[p] # "idle" /\ pc[q] # "idle" => p = q

(* What "status" reads is true: the count is the size of a set the server
   holds, and an "ok" attempt is also a success (record.go). *)
RecordHonest ==
  /\ record.count = Cardinality(record.items)
  /\ record.items \subseteq server
  /\ record.outcome = "ok" => record.success
  /\ ~record.success => record.items = {}

(* A toast announces news: its number never exceeds the highlights of this
   run that no earlier toast announced, and the server holds them all; a
   plain re-send does not toast (run.go, growth gate). *)
ToastIsNews ==
  \A p \in Proc :
    pc[p] = "show" => /\ growth[p] <= Cardinality(snap[p] \ told)
                      /\ snap[p] \subseteq server

(* A success is durable: while the device is paired, a status line that says
   when the last sync was is never replaced by a failure, and a counted
   highlight that is still on the device stays counted.  No crash, failed
   attempt or concurrent run moves either back (status.go, DecideStatusLine;
   record.go, Record). *)
BaselineNeverForgets ==
  [][/\ StatusLine(TRUE) = "Last synced" => StatusLine(TRUE)' = "Last synced"
     /\ \A h \in record.items :
          bookmark'[h] = "visible" => h \in record'.items]_vars

(* The most steps a run has left: one for each place of Run that is still
   before it, and the cadences left to wait. *)
Before == [idle |-> 0, show |-> 1, view |-> 2, rename |-> 3, record |-> 4,
           count |-> 5, await |-> 6, post |-> 7, read |-> 8, wait |-> 9, token |-> 10]

StepsLeft(p) ==
  Before[pc[p]] + IF pc[p] \in {"token", "wait"} THEN MaxWait[p] - waited[p] ELSE 0

(* A run that holds the lock cannot go round in circles: each of its steps
   brings it nearer to its return, and nothing the reader, the link, the server
   or another caller does takes it further away (wait.go, the deadline; run.go,
   one attempt per run). *)
RunProgress ==
  [][\A p \in Proc : pc[p] # "idle" =>
       /\ StepsLeft(p)' \in 0 .. StepsLeft(p)
       /\ RunStep(p) => StepsLeft(p)' # StepsLeft(p)]_vars

-----------------------------------------------------------------------------
(* The run in flight is the one that read the highlights and has not yet
   recorded what became of them. *)
InFlight(p) ==
  \/ pc[p] \in {"post", "await", "count"}
  \/ pc[p] \in {"record", "rename"} /\ outcome[p] = "synced"

Flight ==
  [active |-> \E p \in Proc : InFlight(p),
   items |-> UNION {snap[p] : p \in {q \in Proc : InFlight(q)}}]

Serial == INSTANCE SerialSync WITH ledger <- record.items, flight <- Flight

(* The engine, with its processes, lock, files and network, implements the
   one-run-at-a-time specification. *)
ImplementsSerialSync == Serial!Spec

-----------------------------------------------------------------------------
(* Under RunFairness alone every run comes to an end, and with it the lock is
   free again: both waits are bounded (wait.go, the client's timeout). *)
FairSpec == Spec /\ RunFairness

RunsEnd == \A p \in Proc : pc[p] # "idle" ~> pc[p] = "idle"

(* What the surroundings must grant for a highlight to arrive: deaths cease,
   and a trigger of p that infinitely often could take the lock, find the token
   and the link, read the database or reach the server sometimes does. *)
Goes(p) ==
  /\ SF_vars(TryLock(p) /\ lock' = p)
  /\ SF_vars(CheckToken(p) /\ pc'[p] = "wait")
  /\ SF_vars(LinkChange /\ pc[p] = "wait" /\ link')
  /\ SF_vars(WaitForConnectivity(p) /\ pc'[p] = "read")
  /\ SF_vars(ReadHighlights(p) /\ pc'[p] = "post")

DeliverySpec ==
  /\ FairSpec
  /\ <>[][\A p \in Proc : ~Crash(p)]_vars
  /\ \A S \in SUBSET Highlight \ {{}} : SF_vars(S \in wire /\ ServerImport(S))
  /\ \A p \in Proc \ Quiet : Goes(p)

(* A highlight that has text and stays on the device reaches the server,
   whatever its date says and whether or not the run that sent it saw the
   answer (item.go, BuildItem; run.go, Run). *)
Delivered ==
  \A h \in Highlight \ Blank :
    bookmark[h] = "visible" ~> h \in server \/ bookmark[h] = "hidden"
=============================================================================
