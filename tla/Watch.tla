-------------------------------- MODULE Watch --------------------------------
(***************************************************************************)
(* The resident watch daemon beside the engine of Autosync: Nickel's       *)
(* writes raise WAL events in the daemon's inotify queue, the daemon       *)
(* drains a burst, compares the signature of the highlights with its       *)
(* baseline, and delegates a sync to the same Run, under the same lock,    *)
(* that udev fires.  Time is told only where the code looks at it, in the  *)
(* debounce of a drain.                                                    *)
(***************************************************************************)
EXTENDS Autosync

CONSTANTS
  Daemon,            \* the process of the daemon
  WalBound,          \* bound on the queued WAL events that are told apart
  Window,            \* silence that ends a drain, in ticks
  Cap,               \* age of the burst that ends it all the same
  ClockMayStepBack   \* may the wall clock that dates a highlight go back?

ASSUME WatchConstants ==
  /\ Daemon \in Proc
  /\ WalBound \in Nat \ {0}
  /\ Window \in Nat \ {0}
  /\ Cap \in Nat \ {0}
  /\ ClockMayStepBack \in BOOLEAN

VARIABLES
  born,     \* DateCreated of each captured highlight, 0 for none or no date
  wal,      \* WAL events in the daemon's queue
  dpc,      \* where the daemon is
  age,      \* ticks since the first event of the burst being drained
  quiet,    \* ticks since its last
  prev,     \* highlights behind the baseline signature
  cur,      \* highlights behind the signature just read
  looked,   \* history: the highlights on the device when the last evaluation began
  excused   \* history: highlights the baseline absorbed without an import

clock == <<age, quiet>>
daemon == <<wal, dpc, prev, cur, looked, excused>>
watchVars == <<vars, born, clock, daemon>>

-----------------------------------------------------------------------------
(* The signature is a count and a greatest date; prev and cur keep the sets it
   was read from so that properties can name them. *)
Newer(new, old) == \E h \in new : \A g \in old : born[h] > born[g]

Grew_CountOnly(old, new) == Cardinality(new) > Cardinality(old)

Grew(old, new) ==
  \/ Cardinality(new) > Cardinality(old)
  \/ Newer(new, old)

(* inotify is armed before the watch lock is taken and the baseline read. *)
Watching_AfterBaseline == dpc \notin {"off", "armed", "locked", "based"}

Watching == dpc # "off"

Enqueued == IF Watching /\ wal < WalBound THEN wal + 1 ELSE wal

(* Run's exit code is 0: the caller takes the sync as done. *)
ExitZero_Always(o) == TRUE

ExitZero(o) == o \in {"synced", "dedup", "unpaired"}

WatchInit ==
  /\ Init
  /\ born = [h \in Highlight |-> IF h \in Captured THEN 1 ELSE 0]
  /\ wal = 0
  /\ dpc = "off"
  /\ age = 0
  /\ quiet = 0
  /\ prev = {}
  /\ cur = {}
  /\ looked = {}
  /\ excused = {}

-----------------------------------------------------------------------------
(* Every commit of Nickel appends to the WAL; most of them are not about
   highlights at all. *)
Date == 1 .. Cardinality(Highlight) + 1

Later(d) == \A g \in Captured : born[g] < d

DatedCapture(h) ==
  /\ Capture(h)
  /\ \E d \in Date :
       /\ \/ ClockMayStepBack
          \/ Later(d) /\ \A e \in Date : Later(e) => d <= e
       /\ born' = [born EXCEPT ![h] = IF h \in Undated THEN 0 ELSE d]
  /\ wal' = Enqueued
  /\ UNCHANGED <<clock, dpc, prev, cur, looked, excused>>

HideWrite(h) ==
  /\ Hide(h)
  /\ wal' = Enqueued
  /\ UNCHANGED <<born, clock, dpc, prev, cur, looked, excused>>

Chatter ==
  /\ Watching
  /\ wal' = Enqueued
  /\ UNCHANGED <<vars, born, clock, dpc, prev, cur, looked, excused>>

-----------------------------------------------------------------------------
Start ==
  /\ dpc = "off"
  /\ dpc' = "armed"
  /\ UNCHANGED <<vars, born, clock, wal, prev, cur, looked, excused>>

(* The daemon's own lock keeps a relaunch from becoming a second daemon; a
   lock error ends this one. *)
TakeWatchLock ==
  /\ dpc = "armed"
  /\ \/ /\ dpc' = "locked"
        /\ UNCHANGED wal
     \/ /\ dpc' = "off"
        /\ wal' = 0
  /\ UNCHANGED <<vars, born, clock, prev, cur, looked, excused>>

ReadBaseline ==
  /\ dpc = "locked"
  /\ dpc' = "based"
  /\ prev' \in {Visible, {}}
  /\ looked' = Visible
  /\ excused' = prev'
  /\ UNCHANGED <<vars, born, clock, wal, cur>>

OpenEvents ==
  /\ dpc = "based"
  /\ dpc' = "listen"
  /\ UNCHANGED <<vars, born, clock, wal, prev, cur, looked, excused>>

Dequeue ==
  /\ dpc = "listen"
  /\ wal > 0
  /\ wal' = wal - 1
  /\ dpc' = "drain"
  /\ UNCHANGED <<vars, born, clock, prev, cur, looked, excused>>

(* The burst is due after a silence, and by the cap however noisy it is. *)
DebounceWait_NoCap(a, q) == Window - q

DebounceWait(a, q) == IF Cap - a < Window - q THEN Cap - a ELSE Window - q

Due_Late == DebounceWait(age, quiet) < 0

Due == DebounceWait(age, quiet) <= 0

Tick ==
  /\ dpc = "drain"
  /\ ~Due
  /\ age' = IF age < Cap THEN age + 1 ELSE age
  /\ quiet' = quiet + 1
  /\ UNCHANGED <<vars, born, daemon>>

EndDrain ==
  /\ dpc' = "sign"
  /\ looked' = Visible
  /\ age' = 0
  /\ quiet' = 0

(* An event restarts the silence but not the cap; one that is there when the
   timer fires may still be the one select takes. *)
DrainEvent ==
  /\ dpc = "drain"
  /\ wal > 0
  /\ wal' = wal - 1
  /\ \/ /\ DebounceWait(age, 0) > 0
        /\ quiet' = 0
        /\ UNCHANGED <<dpc, looked, age>>
     \/ /\ DebounceWait(age, 0) <= 0
        /\ EndDrain
  /\ UNCHANGED <<vars, born, prev, cur, excused>>

DrainDone ==
  /\ dpc = "drain"
  /\ Due
  /\ EndDrain
  /\ UNCHANGED <<vars, born, wal, prev, cur, excused>>

Listen(base) ==
  /\ dpc' = "listen"
  /\ prev' = base
  /\ cur' = {}

ReadSignature ==
  /\ dpc = "sign"
  /\ \/ /\ dpc' = "decide"
        /\ cur' = Visible
        /\ UNCHANGED prev
     \/ Listen(prev)
  /\ UNCHANGED <<vars, born, clock, wal, looked, excused>>

SkipNoGrowth ==
  /\ dpc = "decide"
  /\ ~Grew(prev, cur)
  /\ Listen(cur)
  /\ UNCHANGED <<vars, born, clock, wal, looked, excused>>

SkipNotReady ==
  /\ dpc = "decide"
  /\ Grew(prev, cur)
  /\ ~Ready
  /\ Listen(prev)
  /\ UNCHANGED <<vars, born, clock, wal, looked, excused>>

Delegate ==
  /\ dpc = "decide"
  /\ Grew(prev, cur)
  /\ Ready
  /\ dpc' = "run"
  /\ TryLock(Daemon)
  /\ UNCHANGED <<born, clock, wal, prev, cur, looked, excused>>

DelegatedStep ==
  /\ dpc = "run"
  /\ RunStep(Daemon)
  /\ UNCHANGED <<born, clock, daemon>>

Delegated ==
  /\ dpc = "run"
  /\ pc[Daemon] = "idle"
  /\ Listen(IF ExitZero(outcome[Daemon]) THEN cur ELSE prev)
  /\ excused' = IF outcome[Daemon] \in {"dedup", "unpaired"}
                THEN excused \cup cur ELSE excused
  /\ UNCHANGED <<vars, born, clock, wal, looked>>

(* A panic anywhere in evaluate, the delegated Run included, is recovered: the
   deferred unlock still runs and the baseline is held. *)
Recover ==
  /\ dpc \in {"sign", "decide", "run"}
  /\ Listen(prev)
  /\ IF pc[Daemon] = "idle" THEN UNCHANGED vars
     ELSE Return(Daemon, "none") /\ UNCHANGED <<device, network, files, told>>
  /\ UNCHANGED <<born, clock, wal, looked, excused>>

(* The daemon is killed, or its event channel closes. *)
Die ==
  /\ Watching
  /\ dpc' = "off"
  /\ wal' = 0
  /\ age' = 0
  /\ quiet' = 0
  /\ prev' = {}
  /\ cur' = {}
  /\ looked' = {}
  /\ excused' = {}
  /\ IF pc[Daemon] = "idle" THEN UNCHANGED vars ELSE Crash(Daemon)
  /\ UNCHANGED born

-----------------------------------------------------------------------------
Beside ==
  \/ LinkChange
  \/ ViewChange
  \/ SyncCommand
  \/ \E S \in wire : ServerImport(S) \/ LoseRequest(S)
  \/ \E p \in Proc \ {Daemon} : TryLock(p) \/ RunStep(p) \/ Crash(p)

DaemonStep ==
  \/ TakeWatchLock
  \/ ReadBaseline
  \/ OpenEvents
  \/ Dequeue
  \/ DrainEvent
  \/ DrainDone
  \/ ReadSignature
  \/ SkipNoGrowth
  \/ SkipNotReady
  \/ Delegate
  \/ DelegatedStep
  \/ Delegated

WatchNext ==
  \/ \E h \in Highlight : DatedCapture(h) \/ HideWrite(h)
  \/ Chatter
  \/ Beside /\ UNCHANGED <<born, clock, daemon>>
  \/ Start
  \/ DaemonStep
  \/ Tick
  \/ Recover
  \/ Die

WatchSpec == WatchInit /\ [][WatchNext]_watchVars

-----------------------------------------------------------------------------
WatchTypeOK ==
  /\ TypeOK
  /\ born \in [Highlight -> {0} \cup Date]
  /\ wal \in 0 .. WalBound
  /\ age \in 0 .. Cap
  /\ quiet \in 0 .. Window
  /\ dpc \in {"off", "armed", "locked", "based", "listen", "drain",
             "sign", "decide", "run"}
  /\ prev \subseteq Highlight
  /\ cur \subseteq Highlight
  /\ looked \subseteq Highlight
  /\ excused \subseteq Highlight

(* No wakeup is lost: a daemon back at its channel with no WAL event queued
   began an evaluation after the latest capture, however captures fell among its
   start, its drains and its syncs (watch.go, Run; main.go arms inotify
   before the baseline is read). *)
NoLostWakeup == dpc = "listen" /\ wal = 0 => Visible \subseteq looked

(* The signature misses no addition: a set with a highlight the baseline did
   not have has grown, even when a deletion keeps the count level
   (signature.go, grew). *)
AdditionSeen == dpc = "decide" /\ ~Grew(prev, cur) => cur \subseteq prev

(* The baseline advances over a highlight that has text only for cause: it was
   there when the daemon started, the server holds it, or Run answered dedup or
   unpaired (watch.go, evaluate: hold the baseline and retry). *)
AdvanceForCause == dpc # "off" => prev \cap Items \subseteq server \cup excused

(* Holding the baseline is a retry: as long as the device has a highlight with
   text that the server misses and nobody excused, what the daemon reads next
   has grown over its baseline, whatever syncs failed, highlights went and
   panics were recovered in the meantime (watch.go, evaluate). *)
MissingIsGrowth ==
  dpc # "off" /\ ~(Items \subseteq server \cup excused) => Grew(prev, Visible)

(* A dedup is harmless: when the daemon lost the lock, the run that holds it
   is resending the full set (runner.go, Sync). *)
DedupIsCovered ==
  [][Delegate /\ outcome'[Daemon] = "dedup" =>
       \A h \in cur \ (server \cup Blank) :
         \E p \in Proc : \/ pc[p] \in {"token", "wait", "read"}
                         \/ h \in snap[p]]_watchVars

Evaluating == dpc \in {"drain", "sign", "decide", "run"}

(* The most steps and ticks before the daemon is back at its channel: those of
   the burst up to its cap, of the decision and of the run it delegates. *)
WorkLeft ==
  CASE dpc = "drain" -> MaxWait[Daemon] + 14 + (Cap - age)
    [] dpc = "sign" -> MaxWait[Daemon] + 13
    [] dpc = "decide" -> MaxWait[Daemon] + 12
    [] dpc = "run" -> 1 + StepsLeft(Daemon)
    [] OTHER -> 0

(* A burst is evaluated after a bounded time and number of steps: no event in a
   drain, no capture and no other caller of Run puts off the end of an
   evaluation, and every other step of the daemon, and every tick, brings it
   nearer (watch.go, drain; debounce.go). *)
EvaluationProgress ==
  [][Evaluating =>
       /\ WorkLeft' \in 0 .. WorkLeft
       /\ Tick \/ (DaemonStep /\ ~DrainEvent) => WorkLeft' # WorkLeft]_watchVars

(* The daemon is scheduled and time passes.  Nothing is assumed of the run that
   may hold the lock: the daemon never waits for it. *)
WatchFairSpec ==
  /\ WatchSpec
  /\ WF_watchVars(DaemonStep)
  /\ WF_watchVars(Tick)

(* Every capture under a running daemon is evaluated, unless the daemon dies
   or the highlight goes first. *)
CaptureEvaluated ==
  \A h \in Highlight :
    dpc = "listen" /\ bookmark[h] = "visible"
      ~> h \in looked \/ bookmark[h] = "hidden" \/ dpc = "off"
=============================================================================
