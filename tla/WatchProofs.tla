----------------------------- MODULE WatchProofs -----------------------------
(***************************************************************************)
(* The daemon hears every capture, for every number of processes and       *)
(* highlights and every length of its queue.                               *)
(***************************************************************************)
EXTENDS Watch, AutosyncProofs

(* From the start of an evaluation on, a highlight the evaluation did not find
   on the device has left a WAL event in the queue, which only a drain empties. *)
Hearing ==
  /\ wal \in Nat
  /\ dpc \in {"based", "listen", "sign", "decide", "run"} /\ wal = 0 => Visible \subseteq looked

(* Only the user's highlights change what is visible. *)
LEMMA RunKeepsDevice ==
  ASSUME NEW p \in Proc, RunStep(p)
  PROVE  UNCHANGED bookmark
BY DEF RunStep, CheckToken, WaitForConnectivity, ReadHighlights, SendImport, AwaitReply,
  PostError, CountGrowth, WriteTmp, Rename, ProbeView, ShowToast, device

LEMMA BesideKeepsDevice ==
  ASSUME Beside
  PROVE  UNCHANGED bookmark
<1>1. ASSUME NEW p \in Proc, TryLock(p) \/ Crash(p) PROVE UNCHANGED bookmark
  BY <1>1 DEF TryLock, Crash, device
<1> QED
  BY <1>1, RunKeepsDevice DEF Beside, LinkChange, ViewChange, SyncCommand,
     ServerImport, LoseRequest, device

LEMMA HearingInit == WatchInit => Hearing
BY DEF WatchInit, Hearing

LEMMA HearingStep == Hearing /\ [WatchNext]_watchVars => Hearing'
<1> SUFFICES ASSUME Hearing, [WatchNext]_watchVars PROVE Hearing'
  OBVIOUS
<1> USE WatchConstants DEF Hearing
<1>1. ASSUME NEW h \in Highlight, DatedCapture(h) \/ HideWrite(h) PROVE Hearing'
  <2>1. dpc' = dpc /\ looked' = looked /\ wal' = Enqueued
    BY <1>1 DEF DatedCapture, HideWrite
  <2>2. CASE dpc = "off"
    BY <2>1, <2>2 DEF Enqueued, Watching
  <2>3. CASE dpc # "off"
    <3>1. wal' \in Nat /\ wal' # 0
      BY <2>1, <2>3 DEF Enqueued, Watching
    <3> QED
      BY <3>1
  <2> QED
    BY <2>2, <2>3
<1>2. CASE Chatter
  BY <1>2 DEF Chatter, Enqueued, Watching, vars, device, Visible
<1>3. CASE Beside /\ UNCHANGED <<born, clock, daemon>>
  BY <1>3, BesideKeepsDevice DEF daemon, Visible
<1>4. CASE Start \/ TakeWatchLock
  BY <1>4 DEF Start, TakeWatchLock, vars, device, Visible
<1>5. CASE ReadBaseline
  BY <1>5 DEF ReadBaseline, vars, device, Visible
<1>6. CASE OpenEvents \/ Dequeue \/ DrainEvent \/ Tick
  BY <1>6 DEF OpenEvents, Dequeue, DrainEvent, Tick, EndDrain, daemon, vars, device, Visible
<1>7. CASE DrainDone
  BY <1>7 DEF DrainDone, EndDrain, vars, device, Visible
<1>8. CASE ReadSignature \/ SkipNoGrowth \/ SkipNotReady \/ Delegated
  BY <1>8 DEF ReadSignature, SkipNoGrowth, SkipNotReady, Delegated, Listen, vars, device, Visible
<1>9. CASE Delegate
  BY <1>9 DEF Delegate, TryLock, device, Visible
<1>10. CASE DelegatedStep
  BY <1>10, RunKeepsDevice DEF DelegatedStep, daemon, Visible
<1>11. CASE Recover
  BY <1>11 DEF Recover, Listen, vars, device, Visible
<1>12. CASE Die
  BY <1>12 DEF Die
<1>13. CASE UNCHANGED watchVars
  BY <1>13 DEF watchVars, vars, device, daemon, Visible
<1> QED
  BY <1>1, <1>2, <1>3, <1>4, <1>5, <1>6, <1>7, <1>8, <1>9, <1>10, <1>11, <1>12, <1>13
     DEF WatchNext, DaemonStep

(* No capture goes unevaluated: a daemon at an empty queue began its latest
   evaluation after the latest capture. *)
THEOREM EveryCaptureHeard == WatchSpec => []NoLostWakeup
<1>1. Hearing => NoLostWakeup
  BY DEF Hearing, NoLostWakeup
<1> QED
  BY <1>1, HearingInit, HearingStep, PTL DEF WatchSpec

-----------------------------------------------------------------------------
(* The daemon is one more caller of Run.  A panic of its run is the death of
   the run in which the temporary file stays as it is. *)
LEMMA RecoverIsCrash ==
  ASSUME Recover
  PROVE  [Next]_vars
<1>1. CASE pc[Daemon] = "idle"
  BY <1>1 DEF Recover
<1>2. CASE pc[Daemon] # "idle"
  <2>1. Crash(Daemon)
    BY <1>2 DEF Recover, Crash, files
  <2> QED
    BY <2>1, WatchConstants DEF Next
<1> QED
  BY <1>1, <1>2

LEMMA WatchStepIsStep == [WatchNext]_watchVars => [Next]_vars
<1> SUFFICES ASSUME [WatchNext]_watchVars PROVE [Next]_vars
  OBVIOUS
<1> USE WatchConstants
<1>1. ASSUME NEW h \in Highlight, DatedCapture(h) \/ HideWrite(h) PROVE [Next]_vars
  BY <1>1 DEF DatedCapture, HideWrite, Next, Environment
<1>2. CASE Chatter \/ Start \/ Tick
  BY <1>2 DEF Chatter, Start, Tick
<1>3. CASE Beside
  BY <1>3 DEF Beside, Next, Environment
<1>4. CASE TakeWatchLock \/ ReadBaseline \/ OpenEvents \/ Dequeue \/ DrainEvent \/ DrainDone
  BY <1>4 DEF TakeWatchLock, ReadBaseline, OpenEvents, Dequeue, DrainEvent, DrainDone
<1>5. CASE ReadSignature \/ SkipNoGrowth \/ SkipNotReady \/ Delegated
  BY <1>5 DEF ReadSignature, SkipNoGrowth, SkipNotReady, Delegated
<1>6. CASE Delegate \/ DelegatedStep
  BY <1>6 DEF Delegate, DelegatedStep, Next
<1>7. CASE Recover
  BY <1>7, RecoverIsCrash
<1>8. CASE Die
  BY <1>8 DEF Die, Next
<1>9. CASE UNCHANGED watchVars
  BY <1>9 DEF watchVars
<1> QED
  BY <1>1, <1>2, <1>3, <1>4, <1>5, <1>6, <1>7, <1>8, <1>9 DEF WatchNext, DaemonStep

(* Beside the daemon the engine is still the engine: every theorem about Spec
   holds of the system with the daemon in it (runner.go reuses autosync.Run). *)
THEOREM DaemonIsACaller == WatchSpec => Spec
<1>1. WatchInit => Init
  BY DEF WatchInit
<1> QED
  BY <1>1, WatchStepIsStep, PTL DEF WatchSpec, Spec

(* One lock and one record serve every caller of Run, the resident daemon, its
   deaths and its recovered panics included: with it in the system the engine
   still implements its contract, runs still exclude each other, and the record
   is still honest and durable (runner.go, Sync; main.go, runWatch). *)
THEOREM EngineBesideDaemon ==
  WatchSpec => /\ ImplementsSerialSync
               /\ []OneRunAtATime
               /\ []RecordHonest
               /\ BaselineNeverForgets
BY DaemonIsACaller, Refinement, Serialized, HonestRecord, DurableBaseline, PTL

-----------------------------------------------------------------------------
(* With a clock that never goes back, what came to a set later is younger than
   all that was in it. *)
Younger(new, old) == \A g \in old, h \in new \ old : born[g] < born[h]

Dated ==
  /\ bookmark \in [Highlight -> {"absent", "visible", "hidden"}]
  /\ Undated = {}
  /\ born \in [Highlight -> Nat]
  /\ prev \subseteq Captured /\ cur \subseteq Captured
  /\ dpc \notin {"decide", "run"} => cur = {}
  /\ Younger(Visible, prev) /\ Younger(Visible, cur) /\ Younger(cur, prev)

LEMMA DatesAreNumbers == Date \subseteq Nat
<1>1. Cardinality(Highlight) \in Nat
  BY AutosyncConstants, FS_CardinalityType
<1> QED
  BY <1>1 DEF Date

LEMMA DatedInit == Undated = {} /\ WatchInit => Dated
BY DEF WatchInit, Init, Dated, Younger, Captured, Visible

(* A step that captures nothing and leaves the daemon's two sets alone. *)
LEMMA DatedStutter ==
  ASSUME Dated, UNCHANGED <<born, bookmark, dpc, prev, cur>>
  PROVE  Dated'
BY DEF Dated, Younger, Captured, Visible

LEMMA DatedCaptureStep ==
  ASSUME Dated, ~ClockMayStepBack, NEW h \in Highlight, DatedCapture(h)
  PROVE  Dated'
<1>1. PICK d \in Nat :
        /\ \A g \in Captured : born[g] < d
        /\ born' = [born EXCEPT ![h] = d]
  BY DatesAreNumbers DEF DatedCapture, Later, Dated
<1>2. /\ h \notin Captured
      /\ bookmark' = [bookmark EXCEPT ![h] = "visible"]
      /\ UNCHANGED <<dpc, prev, cur>>
  BY DEF DatedCapture, Capture, Captured
<1>3. Visible' = Visible \cup {h} /\ Captured' = Captured \cup {h}
  BY <1>2 DEF Dated, Visible, Captured
<1>4. \A g \in Captured : born'[g] = born[g] /\ born'[g] < born'[h]
  BY <1>1, <1>2 DEF Dated, Captured
<1>5. Visible \subseteq Captured
  BY DEF Visible, Captured
<1>6. born' \in [Highlight -> Nat] /\ bookmark' \in [Highlight -> {"absent", "visible", "hidden"}]
  BY <1>1, <1>2 DEF Dated
<1> QED
  BY <1>2, <1>3, <1>4, <1>5, <1>6 DEF Dated, Younger

LEMMA DatedStep == ~ClockMayStepBack /\ Dated /\ [WatchNext]_watchVars => Dated'
<1> SUFFICES ASSUME ~ClockMayStepBack, Dated, [WatchNext]_watchVars PROVE Dated'
  OBVIOUS
<1>1. ASSUME NEW h \in Highlight, DatedCapture(h) PROVE Dated'
  BY <1>1, DatedCaptureStep
<1>2. ASSUME NEW h \in Highlight, HideWrite(h) PROVE Dated'
  BY <1>2 DEF HideWrite, Hide, Dated, Younger, Captured, Visible
<1>3. CASE Chatter \/ OpenEvents \/ Dequeue \/ DrainEvent \/ Start \/ TakeWatchLock \/ DrainDone \/ Tick
  BY <1>3 DEF Chatter, OpenEvents, Dequeue, DrainEvent, Start, TakeWatchLock, DrainDone, Tick, EndDrain, daemon, vars, device,
     Dated, Younger, Captured, Visible
<1>4. CASE Beside /\ UNCHANGED <<born, clock, daemon>>
  BY <1>4, BesideKeepsDevice, DatedStutter DEF daemon
<1>5. CASE ReadBaseline
  BY <1>5 DEF ReadBaseline, vars, device, Dated, Younger, Captured, Visible
<1>6. CASE ReadSignature
  BY <1>6 DEF ReadSignature, Listen, vars, device, Dated, Younger, Captured, Visible
<1>7. CASE SkipNoGrowth \/ SkipNotReady \/ Delegated
  BY <1>7 DEF SkipNoGrowth, SkipNotReady, Delegated, Listen, vars, device,
     Dated, Younger, Captured, Visible
<1>8. CASE Delegate
  BY <1>8 DEF Delegate, TryLock, device, Dated, Younger, Captured, Visible
<1>9. CASE DelegatedStep
  BY <1>9, WatchConstants, RunKeepsDevice, DatedStutter DEF DelegatedStep, daemon
<1>10. CASE Recover
  BY <1>10 DEF Recover, Listen, vars, device, Dated, Younger, Captured, Visible
<1>11. CASE Die
  BY <1>11 DEF Die, Crash, vars, device, Dated, Younger, Captured, Visible
<1>12. CASE UNCHANGED watchVars
  BY <1>12, DatedStutter DEF watchVars, vars, device, daemon
<1> QED
  BY <1>1, <1>2, <1>3, <1>4, <1>5, <1>6, <1>7, <1>8, <1>9, <1>10, <1>11, <1>12
     DEF WatchNext, DaemonStep

(* A younger highlight raises the greatest date, whatever the count does. *)
LEMMA DatedShowsAdditions == Dated => AdditionSeen
BY DEF Dated, Younger, AdditionSeen, Grew, Newer

(* Count and greatest date are enough: with a clock that never goes back and a
   date on every highlight, no addition hides behind a deletion (signature.go, grew). *)
THEOREM AdditionsShow ==
  ASSUME ~ClockMayStepBack, Undated = {}
  PROVE  WatchSpec => []AdditionSeen
<1>1. Dated => AdditionSeen
  BY DatedShowsAdditions
<1>2. Dated /\ [WatchNext]_watchVars => Dated'
  BY DatedStep
<1> QED
  BY <1>1, <1>2, DatedInit, PTL DEF WatchSpec
-----------------------------------------------------------------------------
(* The types of the daemon's own variables. *)
DaemonTyped ==
  /\ born \in [Highlight -> {0} \cup Date]
  /\ wal \in 0 .. WalBound
  /\ age \in 0 .. Cap
  /\ quiet \in 0 .. Window
  /\ dpc \in {"off", "armed", "locked", "based", "listen", "drain",
             "sign", "decide", "run"}
  /\ prev \subseteq Highlight
  /\ cur \subseteq Highlight
  /\ looked \subseteq Highlight
  /\ excused \subseteq Highlight

LEMMA DaemonTypedInit == WatchInit => DaemonTyped
<1> SUFFICES ASSUME WatchInit PROVE DaemonTyped
  OBVIOUS
<1>1. Cardinality(Highlight) \in Nat
  BY AutosyncConstants, FS_CardinalityType
<1>2. 1 \in Date
  BY <1>1 DEF Date
<1> QED
  BY <1>2, WatchConstants DEF WatchInit, DaemonTyped

LEMMA DaemonTypedStep == DaemonTyped /\ [WatchNext]_watchVars => DaemonTyped'
<1> SUFFICES ASSUME DaemonTyped, [WatchNext]_watchVars PROVE DaemonTyped'
  OBVIOUS
<1> USE WatchConstants DEF DaemonTyped
<1>1. ASSUME NEW h \in Highlight, DatedCapture(h) PROVE DaemonTyped'
  BY <1>1 DEF DatedCapture, Enqueued, clock
<1>2. ASSUME NEW h \in Highlight, HideWrite(h) PROVE DaemonTyped'
  BY <1>2 DEF HideWrite, Enqueued, clock
<1>3. CASE Chatter
  BY <1>3 DEF Chatter, Enqueued, clock
<1>4. CASE (Beside /\ UNCHANGED <<born, clock, daemon>>) \/ DelegatedStep \/ UNCHANGED watchVars
  BY <1>4 DEF DelegatedStep, watchVars, clock, daemon
<1>5. CASE Start \/ TakeWatchLock \/ OpenEvents \/ Dequeue
  BY <1>5 DEF Start, TakeWatchLock, OpenEvents, Dequeue, clock
<1>6. CASE ReadBaseline
  BY <1>6 DEF ReadBaseline, Visible, clock
<1>7. CASE Tick
  <2>1. quiet < Window
    BY <1>7 DEF Tick, Due, DebounceWait
  <2> QED
    BY <1>7, <2>1 DEF Tick, daemon
<1>8. CASE DrainEvent \/ DrainDone
  BY <1>8 DEF DrainEvent, DrainDone, EndDrain, Visible
<1>9. CASE ReadSignature
  BY <1>9 DEF ReadSignature, Listen, Visible, clock
<1>10. CASE SkipNoGrowth \/ SkipNotReady \/ Delegate
  BY <1>10 DEF SkipNoGrowth, SkipNotReady, Delegate, Listen, clock
<1>11. CASE Delegated
  BY <1>11 DEF Delegated, Listen, clock
<1>12. CASE Recover \/ Die
  BY <1>12 DEF Recover, Die, Listen, clock
<1> QED
  BY <1>1, <1>2, <1>3, <1>4, <1>5, <1>6, <1>7, <1>8, <1>9, <1>10, <1>11, <1>12
     DEF WatchNext, DaemonStep

(* Every variable of the daemon keeps its type: the queue its bound, and the two
   ages of a drain theirs (watch.go, drain). *)
THEOREM WatchTyped == WatchSpec => []WatchTypeOK
<1>1. DaemonTyped /\ TypeOK => WatchTypeOK
  BY DEF DaemonTyped, WatchTypeOK
<1> QED
  BY <1>1, DaemonTypedInit, DaemonTypedStep, DaemonIsACaller, TypeCorrect, PTL DEF WatchSpec

-----------------------------------------------------------------------------
(* What the baseline may count: a highlight behind it, and behind the signature
   of a sync that succeeded, is stored or excused; a delegated run that has
   read the database sends all that is still there of the signature. *)
Caused ==
  /\ prev \cap Items \subseteq server \cup excused
  /\ dpc = "run" /\ outcome[Daemon] = "synced" => cur \cap Items \subseteq server
  /\ dpc = "run" /\ pc[Daemon] \in {"post", "await", "count"} =>
       cur \cap Items \subseteq snap[Daemon]

LEMMA CausedInit == WatchInit => Caused
BY DEF WatchInit, Caused

(* The captured highlights only grow, so a set of them gains no item. *)
LEMMA NoNewItems ==
  ASSUME Dated, NEW h \in Highlight, Capture(h) \/ Hide(h)
  PROVE  prev \cap Items' \subseteq prev \cap Items /\ cur \cap Items' \subseteq cur \cap Items
BY DEF Capture, Hide, Dated, Items, Visible, Captured

(* Callers other than the daemon leave the daemon's run alone. *)
LEMMA BesideLeavesDaemon ==
  ASSUME TypeOK, Beside
  PROVE  /\ pc'[Daemon] = pc[Daemon]
         /\ snap'[Daemon] = snap[Daemon]
         /\ outcome'[Daemon] = outcome[Daemon]
         /\ server \subseteq server'
<1> USE WatchConstants DEF TypeOK
<1>1. CASE LinkChange \/ ViewChange \/ SyncCommand
  BY <1>1 DEF LinkChange, ViewChange, SyncCommand, network, run
<1>2. ASSUME NEW S \in wire, ServerImport(S) \/ LoseRequest(S)
      PROVE  /\ UNCHANGED <<pc, snap, outcome>>
             /\ server \subseteq server'
  BY <1>2 DEF ServerImport, LoseRequest, run
<1>3. ASSUME NEW p \in Proc \ {Daemon}, TryLock(p) \/ Crash(p)
      PROVE  /\ pc'[Daemon] = pc[Daemon]
             /\ snap'[Daemon] = snap[Daemon]
             /\ outcome'[Daemon] = outcome[Daemon]
             /\ server' = server
  BY <1>3 DEF TryLock, Crash, Return, Goto, Clear, network
<1>4. ASSUME NEW p \in Proc \ {Daemon}, RunStep(p)
      PROVE  /\ pc'[Daemon] = pc[Daemon]
             /\ snap'[Daemon] = snap[Daemon]
             /\ outcome'[Daemon] = outcome[Daemon]
             /\ server' = server
  BY <1>4 DEF RunStep, CheckToken, WaitForConnectivity, ReadHighlights, SendImport, AwaitReply,
     PostError, CountGrowth, WriteTmp, Rename, ProbeView, ShowToast, Return, Fail, Goto, Clear, network
<1> QED
  BY <1>1, <1>2, <1>3, <1>4 DEF Beside

(* The daemon's own run reads the items, and settles on what the server has. *)
LEMMA CausedRunStep ==
  ASSUME Inv, Caused, DelegatedStep
  PROVE  Caused'
<1> USE WatchConstants DEF Inv, TypeInv, TypeOK, Caused
<1>1. UNCHANGED <<bookmark, server, dpc, prev, cur, excused>>
  BY RunKeepsDevice DEF DelegatedStep, daemon, RunStep, CheckToken, WaitForConnectivity,
     ReadHighlights, SendImport, AwaitReply, PostError, CountGrowth, WriteTmp, Rename,
     ProbeView, ShowToast, network
<1>2. Items' = Items
  BY <1>1 DEF Items, Visible
<1>3. dpc = "run" /\ RunStep(Daemon)
  BY DEF DelegatedStep
<1>4. CASE ReadHighlights(Daemon)
  BY <1>1, <1>2, <1>3, <1>4 DEF ReadHighlights, Goto, Fail, Clear
<1>5. CASE CountGrowth(Daemon)
  BY <1>1, <1>2, <1>3, <1>5 DEF CountGrowth, Goto, Known, Stored
<1>6. CASE CheckToken(Daemon) \/ WaitForConnectivity(Daemon) \/ PostError(Daemon)
  BY <1>1, <1>2, <1>3, <1>6 DEF CheckToken, WaitForConnectivity, PostError, Return, Fail, Goto, Clear
<1>7. CASE SendImport(Daemon) \/ AwaitReply(Daemon)
  BY <1>1, <1>2, <1>3, <1>7 DEF SendImport, AwaitReply, Goto
<1>8. CASE WriteTmp(Daemon) \/ Rename(Daemon)
  BY <1>1, <1>2, <1>3, <1>8 DEF WriteTmp, Rename, Goto
<1>9. CASE ProbeView(Daemon) \/ ShowToast(Daemon)
  BY <1>1, <1>2, <1>3, <1>9 DEF ProbeView, ShowToast, Return, Goto, Clear
<1> QED
  BY <1>3, <1>4, <1>5, <1>6, <1>7, <1>8, <1>9 DEF RunStep

LEMMA CausedStep ==
  ASSUME Inv, Dated, Caused, [WatchNext]_watchVars
  PROVE  Caused'
<1> USE WatchConstants DEF Caused
<1>0. TypeOK
  BY DEF Inv, TypeInv
<1>1. ASSUME NEW h \in Highlight, DatedCapture(h) \/ HideWrite(h) PROVE Caused'
  <2>1. UNCHANGED <<server, dpc, prev, cur, excused, pc, snap, outcome>>
    BY <1>1 DEF DatedCapture, HideWrite, Capture, Hide, network, run
  <2>2. Capture(h) \/ Hide(h)
    BY <1>1 DEF DatedCapture, HideWrite
  <2> QED
    BY <2>1, <2>2, NoNewItems
<1>2. CASE Beside /\ UNCHANGED <<born, clock, daemon>>
  <2>1. Items' = Items
    BY <1>2, BesideKeepsDevice DEF Items, Visible
  <2> QED
    BY <1>0, <1>2, <2>1, BesideLeavesDaemon DEF daemon
<1>3. CASE Chatter \/ Start \/ TakeWatchLock \/ OpenEvents \/ Dequeue \/ Tick
  BY <1>3 DEF Chatter, Start, TakeWatchLock, OpenEvents, Dequeue, Tick, daemon, vars,
     device, network, run, Items, Visible
<1>4. CASE DrainEvent \/ DrainDone
  BY <1>4 DEF DrainEvent, DrainDone, EndDrain, vars, device, network, run, Items, Visible
<1>5. CASE ReadBaseline
  BY <1>5 DEF ReadBaseline, vars, device, network, run, Items, Visible
<1>6. CASE ReadSignature \/ SkipNotReady
  BY <1>6 DEF ReadSignature, SkipNotReady, Listen, vars, device, network, run, Items, Visible
<1>7. CASE SkipNoGrowth
  <2>1. cur \subseteq prev
    BY <1>7, DatedShowsAdditions DEF SkipNoGrowth, AdditionSeen
  <2> QED
    BY <1>7, <2>1 DEF SkipNoGrowth, Listen, vars, device, network, run, Items, Visible
<1>8. CASE Delegate
  <2>1. /\ UNCHANGED <<bookmark, server, prev, excused>>
        /\ pc'[Daemon] \in {"idle", "token"}
        /\ outcome'[Daemon] \in {"none", "dedup", "lockerr"}
    BY <1>0, <1>8 DEF Delegate, TryLock, TypeOK, device, network
  <2> QED
    BY <2>1 DEF Items, Visible
<1>9. CASE DelegatedStep
  BY <1>9, CausedRunStep
<1>10. CASE Delegated
  <2>1. /\ UNCHANGED <<bookmark, server>>
        /\ dpc' = "listen"
        /\ dpc = "run"
    BY <1>10 DEF Delegated, Listen, vars, device, network
  <2>2. prev' \cap Items \subseteq server \cup excused'
    BY <1>10 DEF Delegated, Listen, ExitZero
  <2> QED
    BY <2>1, <2>2 DEF Items, Visible
<1>11. CASE Recover
  <2>1. UNCHANGED <<bookmark, server, prev, excused>> /\ dpc' = "listen"
    BY <1>11 DEF Recover, Listen, vars, device, network
  <2> QED
    BY <2>1 DEF Items, Visible
<1>12. CASE Die
  BY <1>12 DEF Die
<1>13. CASE UNCHANGED watchVars
  BY <1>13 DEF watchVars, daemon, vars, device, network, run, Items, Visible
<1> QED
  BY <1>1, <1>2, <1>3, <1>4, <1>5, <1>6, <1>7, <1>8, <1>9, <1>10, <1>11, <1>12, <1>13
     DEF WatchNext, DaemonStep

(* The baseline never swallows a highlight without cause: with a clock that
   never goes back and a date on every highlight, what it counts was there at
   the start, is on the server, or was excused by a dedup or a missing token
   (watch.go, evaluate). *)
THEOREM BaselineForCause ==
  ASSUME ~ClockMayStepBack, Undated = {}
  PROVE  WatchSpec => []AdvanceForCause
<1>1. Inv /\ Dated /\ Caused /\ [WatchNext]_watchVars => Caused'
  BY CausedStep
<1>2. Dated /\ [WatchNext]_watchVars => Dated'
  BY DatedStep
<1>3. Undated = {} /\ WatchInit => Dated
  BY DatedInit
<1>4. Caused => AdvanceForCause
  BY DEF Caused, AdvanceForCause
<1> QED
  BY <1>1, <1>2, <1>3, <1>4, CausedInit, DaemonIsACaller, Invariant, PTL DEF WatchSpec
-----------------------------------------------------------------------------
(* What is missing on the server is younger than all the baseline counts, so
   the greatest date shows it. *)
LEMMA MissingShows ==
  ASSUME Dated, Caused
  PROVE  MissingIsGrowth
<1> SUFFICES ASSUME NEW h \in Items, h \notin server \cup excused
             PROVE  Grew(prev, Visible)
  BY DEF MissingIsGrowth
<1>1. h \in Visible \ prev
  BY DEF Caused, Items
<1>2. \A g \in prev : born[h] > born[g]
  <2>1. h \in Highlight /\ prev \subseteq Highlight /\ born \in [Highlight -> Nat]
    BY <1>1 DEF Dated, Visible, Captured
  <2> QED
    BY <1>1, <2>1 DEF Dated, Younger
<1> QED
  BY <1>1, <1>2 DEF Grew, Newer

(* A sync that failed is tried again: with a clock that never goes back and a
   date on every highlight, what the server misses without excuse makes the
   next signature grow (watch.go, evaluate: hold the baseline and retry). *)
THEOREM RetryIsCertain ==
  ASSUME ~ClockMayStepBack, Undated = {}
  PROVE  WatchSpec => []MissingIsGrowth
<1>1. Inv /\ Dated /\ Caused /\ [WatchNext]_watchVars => Caused'
  BY CausedStep
<1>2. Dated /\ [WatchNext]_watchVars => Dated'
  BY DatedStep
<1>3. Undated = {} /\ WatchInit => Dated
  BY DatedInit
<1>4. Dated /\ Caused => MissingIsGrowth
  BY MissingShows
<1> QED
  BY <1>1, <1>2, <1>3, <1>4, CausedInit, DaemonIsACaller, Invariant, PTL DEF WatchSpec

-----------------------------------------------------------------------------
(* While an evaluation is on, what is left of it is a number; the run it may
   have delegated has no more steps left than it began with. *)
LEMMA WorkLeftIsNat ==
  ASSUME TypeOK, WaitBounded, DaemonTyped
  PROVE  /\ WorkLeft \in Nat
         /\ MaxWait[Daemon] \in Nat
         /\ StepsLeft(Daemon) \in 0 .. MaxWait[Daemon] + 10
         /\ Cap - age \in Nat
<1> USE WatchConstants
<1>1. /\ MaxWait[Daemon] \in Nat
      /\ Before[pc[Daemon]] \in 0 .. 10
      /\ MaxWait[Daemon] - waited[Daemon] \in Nat
      /\ waited[Daemon] \in Nat
  BY AutosyncConstants, StepsLeftIsNat DEF TypeOK
<1>2. StepsLeft(Daemon) \in 0 .. MaxWait[Daemon] + 10
  BY <1>1 DEF StepsLeft
<1>3. age \in 0 .. Cap
  BY DEF DaemonTyped
<1> QED
  BY <1>1, <1>2, <1>3 DEF WorkLeft

LEMMA TickProgress ==
  ASSUME TypeOK, WaitBounded, DaemonTyped, Tick
  PROVE  WorkLeft' \in Nat /\ WorkLeft' < WorkLeft
<1>1. MaxWait[Daemon] \in Nat /\ age \in 0 .. Cap /\ quiet \in 0 .. Window
  BY WorkLeftIsNat DEF DaemonTyped
<1>2. age < Cap
  BY <1>1, WatchConstants DEF Tick, Due, DebounceWait
<1>3. dpc = "drain" /\ dpc' = "drain" /\ age' = age + 1
  BY <1>2 DEF Tick, daemon
<1> QED
  BY <1>1, <1>2, <1>3, WatchConstants DEF WorkLeft

(* An event of the burst restarts the silence and never the cap. *)
LEMMA DrainProgress ==
  ASSUME TypeOK, WaitBounded, DaemonTyped, DrainEvent \/ DrainDone
  PROVE  /\ WorkLeft' \in 0 .. WorkLeft
         /\ DrainDone => WorkLeft' # WorkLeft
<1>1. MaxWait[Daemon] \in Nat /\ Cap - age \in Nat
  BY WorkLeftIsNat
<1>2. dpc = "drain" /\ (dpc' = "sign" \/ (dpc' = "drain" /\ age' = age /\ ~DrainDone))
  BY DEF DrainEvent, DrainDone, EndDrain
<1> QED
  BY <1>1, <1>2 DEF WorkLeft

LEMMA EvaluateProgress ==
  ASSUME TypeOK, TypeOK', WaitBounded, WaitBounded', DaemonTyped,
         ReadSignature \/ SkipNoGrowth \/ SkipNotReady \/ Delegate \/ DelegatedStep \/ Delegated
  PROVE  WorkLeft' \in Nat /\ WorkLeft' < WorkLeft
<1> USE WatchConstants
<1>1. MaxWait[Daemon] \in Nat /\ StepsLeft(Daemon) \in 0 .. MaxWait[Daemon] + 10
  BY WorkLeftIsNat
<1>2. StepsLeft(Daemon)' \in 0 .. MaxWait[Daemon] + 10
  <2>1. /\ Before[pc'[Daemon]] \in 0 .. 10
        /\ MaxWait[Daemon] - waited'[Daemon] \in Nat
        /\ waited'[Daemon] \in Nat
    BY AutosyncConstants DEF TypeOK, WaitBounded, Label, Before
  <2> QED
    BY <1>1, <2>1 DEF StepsLeft, Before
<1>3. CASE ReadSignature
  BY <1>1, <1>3 DEF ReadSignature, Listen, WorkLeft
<1>4. CASE SkipNoGrowth \/ SkipNotReady
  BY <1>1, <1>4 DEF SkipNoGrowth, SkipNotReady, Listen, WorkLeft
<1>5. CASE Delegate
  BY <1>1, <1>2, <1>5 DEF Delegate, WorkLeft
<1>6. CASE DelegatedStep
  <2>1. dpc = "run" /\ dpc' = "run"
    BY <1>6 DEF DelegatedStep, daemon
  <2>2. StepsLeft(Daemon)' < StepsLeft(Daemon)
    BY <1>6, RunStepProgress DEF DelegatedStep
  <2> QED
    BY <1>1, <1>2, <2>1, <2>2 DEF WorkLeft
<1>7. CASE Delegated
  BY <1>1, <1>7 DEF Delegated, Listen, WorkLeft
<1> QED
  BY <1>3, <1>4, <1>5, <1>6, <1>7

(* Everybody else leaves the daemon's evaluation, and its run, where they are. *)
LEMMA BesideKeepsWork ==
  ASSUME TypeOK, Beside
  PROVE  pc'[Daemon] = pc[Daemon] /\ waited'[Daemon] = waited[Daemon]
<1> USE WatchConstants DEF TypeOK
<1>1. CASE LinkChange \/ ViewChange \/ SyncCommand
  BY <1>1 DEF LinkChange, ViewChange, SyncCommand, run
<1>2. ASSUME NEW S \in wire, ServerImport(S) \/ LoseRequest(S)
      PROVE  UNCHANGED <<pc, waited>>
  BY <1>2 DEF ServerImport, LoseRequest, run
<1>3. ASSUME NEW p \in Proc \ {Daemon}, TryLock(p) \/ RunStep(p) \/ Crash(p)
      PROVE  pc'[Daemon] = pc[Daemon] /\ waited'[Daemon] = waited[Daemon]
  BY <1>3 DEF TryLock, RunStep, Crash, CheckToken, WaitForConnectivity, ReadHighlights,
     SendImport, AwaitReply, PostError, CountGrowth, WriteTmp, Rename, ProbeView, ShowToast,
     Return, Fail, Goto, Clear
<1> QED
  BY <1>1, <1>2, <1>3 DEF Beside

LEMMA SurroundingsKeepWork ==
  ASSUME TypeOK,
         \/ \E h \in Highlight : DatedCapture(h) \/ HideWrite(h)
         \/ Chatter
         \/ Beside /\ UNCHANGED <<born, clock, daemon>>
         \/ UNCHANGED watchVars
  PROVE  WorkLeft' = WorkLeft
<1>1. UNCHANGED <<dpc, age, pc, waited>> \/ (Beside /\ UNCHANGED <<dpc, age>>)
  BY DEF DatedCapture, HideWrite, Capture, Hide, Chatter, watchVars, vars, run, clock, daemon
<1>2. /\ UNCHANGED <<dpc, age>>
      /\ pc'[Daemon] = pc[Daemon]
      /\ waited'[Daemon] = waited[Daemon]
  BY <1>1, BesideKeepsWork
<1> QED
  BY <1>2 DEF WorkLeft, StepsLeft, Before

(* However noisy the WAL and whatever becomes of the sync, a burst is evaluated
   after at most the cap's ticks and a number of steps that the connectivity
   bound gives: the safety half of CaptureEvaluated (watch.go, drain and
   evaluate; debounce.go). *)
THEOREM EvaluationsProgress == WatchSpec => EvaluationProgress
<1> DEFINE Forward ==
      Evaluating =>
        /\ WorkLeft' \in 0 .. WorkLeft
        /\ Tick \/ (DaemonStep /\ ~DrainEvent) => WorkLeft' # WorkLeft
<1>1. ASSUME TypeOK, TypeOK', WaitBounded, WaitBounded', DaemonTyped, [WatchNext]_watchVars
      PROVE  Forward
  <2> SUFFICES ASSUME Evaluating
               PROVE  /\ WorkLeft' \in 0 .. WorkLeft
                      /\ Tick \/ (DaemonStep /\ ~DrainEvent) => WorkLeft' # WorkLeft
    OBVIOUS
  <2>1. WorkLeft \in Nat
    BY <1>1, WorkLeftIsNat
  <2>2. CASE Tick
    BY <1>1, <2>1, <2>2, TickProgress
  <2>3. CASE DaemonStep
    <3>1. ~(TakeWatchLock \/ ReadBaseline \/ OpenEvents \/ Dequeue)
      BY DEF Evaluating, TakeWatchLock, ReadBaseline, OpenEvents, Dequeue
    <3>2. CASE DrainEvent \/ DrainDone
      <4>1. ~Tick
        BY <1>1, <3>2, WatchConstants DEF DrainEvent, DrainDone, Tick, daemon, DaemonTyped
      <4> QED
        BY <1>1, <3>2, <4>1, DrainProgress
    <3>3. CASE ~(DrainEvent \/ DrainDone)
      BY <1>1, <2>1, <2>3, <3>1, <3>3, EvaluateProgress DEF DaemonStep
    <3> QED
      BY <3>2, <3>3
  <2>4. CASE Recover \/ Die
    <3>1. WorkLeft' = 0 /\ WorkLeft > 0
      BY <1>1, <2>4, WorkLeftIsNat DEF Recover, Die, Listen, WorkLeft, Evaluating
    <3> QED
      BY <2>1, <3>1
  <2>5. CASE ~(Tick \/ DaemonStep \/ Recover \/ Die)
    <3>1. ~Start
      BY DEF Start, Evaluating
    <3>2. WorkLeft' = WorkLeft
      BY <1>1, <2>5, <3>1, SurroundingsKeepWork DEF WatchNext
    <3> QED
      BY <2>1, <2>5, <3>2
  <2> QED
    BY <2>2, <2>3, <2>4, <2>5
<1>2. TypeOK /\ TypeOK' /\ WaitBounded /\ WaitBounded' /\ DaemonTyped /\ [WatchNext]_watchVars
        => [Forward]_watchVars
  BY <1>1
<1>3. TypeOK /\ WaitBounded /\ [WatchNext]_watchVars => WaitBounded'
  BY WaitBoundedStep, WatchStepIsStep
<1>4. WatchInit => WaitBounded
  BY WaitBoundedInit DEF WatchInit
<1> QED
  BY <1>2, <1>3, <1>4, DaemonTypedInit, DaemonTypedStep, DaemonIsACaller, TypeCorrect, PTL
     DEF WatchSpec, EvaluationProgress
=============================================================================
