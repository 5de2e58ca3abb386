--------------------------- MODULE AutosyncProofs ---------------------------
(***************************************************************************)
(* Theorems about Autosync for every set of processes and every finite set *)
(* of highlights, bound of the wait and view.                              *)
(***************************************************************************)
EXTENDS Autosync, FiniteSetTheorems, TLAPS

(* Sets of highlights are finite, so counting them is sound. *)
LEMMA HighlightsFinite ==
  ASSUME NEW S, S \subseteq Highlight
  PROVE  IsFiniteSet(S) /\ Cardinality(S) \in Nat
<1>1. IsFiniteSet(Highlight)
  BY AutosyncConstants
<1>2. IsFiniteSet(S)
  BY <1>1, FS_Subset
<1> QED
  BY <1>2, FS_CardinalityType

(* Record() keeps a record a record. *)
LEMMA StampType ==
  ASSUME NEW rec \in RecordType, NEW S \in SUBSET Highlight,
         NEW o \in {"synced", "offline", "error"}
  PROVE  Stamp(rec, o, S) \in RecordType
<1>1. Cardinality(S) \in Nat
  BY HighlightsFinite
<1> QED
  BY <1>1 DEF Stamp, RecordType

(* Torn is the only value that is no record, so loading yields a record. *)
LEMMA LoadType ==
  ASSUME NEW file \in RecordType \cup {Torn}
  PROVE  Load(file) \in RecordType
BY DEF Load, Missing, ZeroRecord, RecordType

-----------------------------------------------------------------------------
(* A process that is to write the record has an attempt to record, and what
   is in the temporary file is then that attempt. *)
Attempt(p) == pc[p] \in {"record", "rename"}

Recording ==
  \A p \in Proc :
    /\ Attempt(p) => outcome[p] \in {"synced", "offline", "error"}
    /\ pc[p] = "rename" => tmp = Stamp(Load(record), outcome[p], snap[p])

(* The lock and the program counters agree. *)
LockOwned ==
  /\ \A p \in Proc : pc[p] # "idle" => lock = p
  /\ lock # Nobody => pc[lock] # "idle"

TypeInv == TypeOK /\ LockOwned /\ Recording

LEMMA TypeInit == Init => TypeInv
BY DEF Init, TypeInv, TypeOK, LockOwned, Recording, Attempt, Label, Outcome,
       RecordType, Missing, ZeroRecord

LEMMA TypeStep == TypeInv /\ [Next]_vars => TypeInv'
<1> SUFFICES ASSUME TypeInv, [Next]_vars PROVE TypeInv'
  OBVIOUS
<1> USE AutosyncConstants DEF TypeInv, TypeOK, LockOwned, Recording, Attempt
<1>1. ASSUME NEW h \in Highlight, Capture(h) \/ Hide(h) PROVE TypeInv'
  BY <1>1 DEF Capture, Hide, network, run, files
<1>2. CASE LinkChange \/ ViewChange
  BY <1>2 DEF LinkChange, ViewChange, network, run, files
<1>3. CASE SyncCommand
  BY <1>3 DEF SyncCommand, Items, Visible, device, run, files
<1>4. ASSUME NEW S \in wire, ServerImport(S) \/ LoseRequest(S) PROVE TypeInv'
  BY <1>4 DEF ServerImport, LoseRequest, device, run, files
<1>5. ASSUME NEW p \in Proc, TryLock(p) PROVE TypeInv'
  BY <1>5 DEF TryLock, LockFree, Label, Outcome, device, network, files
<1>6. ASSUME NEW p \in Proc, CheckToken(p) PROVE TypeInv'
  BY <1>6 DEF CheckToken, Goto, Return, Clear, Unlock, Label, Outcome, device, network, files
<1>7. ASSUME NEW p \in Proc, WaitForConnectivity(p) PROVE TypeInv'
  BY <1>7 DEF WaitForConnectivity, Ready, Expired, Goto, Fail, Clear, Label, Outcome, device, network, files
<1>8. ASSUME NEW p \in Proc, ReadHighlights(p) PROVE TypeInv'
  BY <1>8 DEF ReadHighlights, Items, Visible, Goto, Fail, Clear, Label, Outcome, device, network, files
<1>9. ASSUME NEW p \in Proc, SendImport(p) PROVE TypeInv'
  BY <1>9 DEF SendImport, Goto, Label, device, files
<1>10. ASSUME NEW p \in Proc, AwaitReply(p) PROVE TypeInv'
  BY <1>10 DEF AwaitReply, Goto, Label, device, network, files
<1>11. ASSUME NEW p \in Proc, PostError(p) PROVE TypeInv'
  BY <1>11 DEF PostError, Goto, Fail, Clear, Label, Outcome, device, network, files
<1>12. ASSUME NEW p \in Proc, CountGrowth(p) PROVE TypeInv'
  <2>1. Growth(Cardinality(snap[p]), Load(record).count) \in Int
    BY HighlightsFinite, LoadType DEF Growth, RecordType
  <2> QED
    BY <1>12, <2>1 DEF CountGrowth, Goto, Label, Outcome, device, network, files
<1>13. ASSUME NEW p \in Proc, WriteTmp(p) PROVE TypeInv'
  <2>1. Stamp(Load(record), outcome[p], snap[p]) \in RecordType
    BY <1>13, StampType, LoadType DEF WriteTmp
  <2> QED
    BY <1>13, <2>1 DEF WriteTmp, Goto, Label, device, network
<1>14. ASSUME NEW p \in Proc, Rename(p) PROVE TypeInv'
  <2>1. tmp \in RecordType /\ Missing \in RecordType
    BY <1>14, StampType, LoadType DEF Rename, Missing, ZeroRecord, RecordType
  <2> QED
    BY <1>14, <2>1 DEF Rename, Goto, Label, device, network, files
<1>15. ASSUME NEW p \in Proc, ProbeView(p) PROVE TypeInv'
  BY <1>15 DEF ProbeView, Goto, Return, Clear, Unlock, Label, Outcome, device, network, files
<1>16. ASSUME NEW p \in Proc, ShowToast(p) PROVE TypeInv'
  BY <1>16 DEF ShowToast, Goto, Return, Clear, Unlock, Label, Outcome, device, network, files
<1>17. ASSUME NEW p \in Proc, Crash(p) PROVE TypeInv'
  BY <1>17 DEF Crash, Goto, Return, Clear, Unlock, Label, Outcome, device, network
<1>18. CASE UNCHANGED vars
  BY <1>18 DEF vars, device, network, run, files
<1> QED
  BY <1>1, <1>2, <1>3, <1>4, <1>5, <1>6, <1>7, <1>8, <1>9, <1>10, <1>11, <1>12,
     <1>13, <1>14, <1>15, <1>16, <1>17, <1>18 DEF Next, Environment, RunStep

(* Every variable has its type; in particular last-sync is never half written
   (record.go: write a temporary file, then rename). *)
THEOREM TypeCorrect == Spec => []TypeOK
<1>1. Spec => []TypeInv
  BY TypeInit, TypeStep, PTL DEF Spec
<1>2. TypeInv => TypeOK
  BY DEF TypeInv
<1> QED
  BY <1>1, <1>2, PTL

(* The flock serializes runs. *)
THEOREM Serialized == Spec => []OneRunAtATime
<1>1. Spec => []TypeInv
  BY TypeInit, TypeStep, PTL DEF Spec
<1>2. TypeInv => OneRunAtATime
  BY DEF TypeInv, LockOwned, OneRunAtATime
<1> QED
  BY <1>1, <1>2, PTL

-----------------------------------------------------------------------------
(* What a run knows.  From its read to its return the server's answer makes
   its snapshot part of what the server holds; until it has recorded, every
   counted highlight still on the device is in its snapshot, because nobody
   else can have moved the record since. *)
Stored(p) == pc[p] \in {"count", "record", "rename", "view", "show"}

Known ==
  /\ \A S \in wire : S \subseteq Captured
  /\ server \subseteq Captured
  /\ record.items \subseteq Captured \ Blank
  /\ \A p \in Proc : snap[p] \subseteq Captured \ Blank
  /\ \A p \in Proc : Stored(p) => snap[p] \subseteq server
  /\ \A p \in Proc : InFlight(p) => record.items \cap Visible \subseteq snap[p]

Inv == TypeInv /\ RecordHonest /\ Known

LEMMA InvInit == Init => Inv
<1> SUFFICES ASSUME Init PROVE RecordHonest /\ Known
  BY TypeInit DEF Inv
<1>1. RecordHonest
  BY FS_EmptySet DEF Init, RecordHonest, Missing, ZeroRecord
<1>2. Known
  BY DEF Init, Known, Stored, InFlight, Missing, ZeroRecord
<1> QED
  BY <1>1, <1>2

(* What a file loads is what it holds, if it is a record. *)
LEMMA LoadRecordIs ==
  ASSUME TypeInv
  PROVE  Load(record) = record
BY TornIsNoRecord DEF TypeInv, TypeOK, Load

LEMMA InvStep == Inv /\ [Next]_vars => Inv'
<1> SUFFICES ASSUME Inv, [Next]_vars PROVE RecordHonest' /\ Known'
  BY TypeStep DEF Inv
<1> USE AutosyncConstants DEF Inv, TypeInv, TypeOK, LockOwned, RecordHonest, Known,
        Stored, InFlight
<1>1. ASSUME NEW h \in Highlight, Capture(h) PROVE RecordHonest' /\ Known'
  <2>1. Captured \subseteq Captured'
    BY <1>1 DEF Capture, Captured
  <2>2. Captured \cap Visible' \subseteq Visible
    BY <1>1 DEF Capture, Captured, Visible
  <2> QED
    BY <1>1, <2>1, <2>2 DEF Capture, network, run, files
<1>2. ASSUME NEW h \in Highlight, Hide(h) PROVE RecordHonest' /\ Known'
  <2>1. Captured' = Captured /\ Visible' \subseteq Visible
    BY <1>2 DEF Hide, Captured, Visible
  <2> QED
    BY <1>2, <2>1 DEF Hide, network, run, files
<1>3. CASE LinkChange \/ ViewChange \/ UNCHANGED vars
  BY <1>3 DEF LinkChange, ViewChange, vars, device, network, run, files, Captured, Visible
<1> USE DEF device
<1>4. CASE SyncCommand
  BY <1>4 DEF SyncCommand, Items, run, files, Captured, Visible
<1>5. ASSUME NEW S \in wire, ServerImport(S) \/ LoseRequest(S) PROVE RecordHonest' /\ Known'
  BY <1>5 DEF ServerImport, LoseRequest, run, files, Captured, Visible
<1>6. ASSUME NEW p \in Proc, TryLock(p) PROVE RecordHonest' /\ Known'
  BY <1>6 DEF TryLock, LockFree, network, files, Captured, Visible
<1>7. ASSUME NEW p \in Proc, CheckToken(p) PROVE RecordHonest' /\ Known'
  BY <1>7 DEF CheckToken, Goto, Return, Clear, Unlock, network, files, Captured, Visible
<1>8. ASSUME NEW p \in Proc, WaitForConnectivity(p) PROVE RecordHonest' /\ Known'
  BY <1>8 DEF WaitForConnectivity, Goto, Fail, Clear, network, files, Captured, Visible
<1>9. ASSUME NEW p \in Proc, ReadHighlights(p) PROVE RecordHonest' /\ Known'
  BY <1>9 DEF ReadHighlights, Items, Goto, Fail, Clear, network, files, Captured, Visible
<1>10. ASSUME NEW p \in Proc, SendImport(p) PROVE RecordHonest' /\ Known'
  BY <1>10 DEF SendImport, Goto, files, Captured, Visible
<1>11. ASSUME NEW p \in Proc, AwaitReply(p) PROVE RecordHonest' /\ Known'
  BY <1>11 DEF AwaitReply, Answered, Goto, network, files, Captured, Visible
<1>12. ASSUME NEW p \in Proc, PostError(p) PROVE RecordHonest' /\ Known'
  BY <1>12 DEF PostError, Goto, Fail, Clear, network, files, Captured, Visible
<1>13. ASSUME NEW p \in Proc, CountGrowth(p) PROVE RecordHonest' /\ Known'
  BY <1>13 DEF CountGrowth, Goto, network, files, Captured, Visible
<1>14. ASSUME NEW p \in Proc, WriteTmp(p) PROVE RecordHonest' /\ Known'
  BY <1>14 DEF WriteTmp, Goto, network, Captured, Visible
<1>15. ASSUME NEW p \in Proc, Rename(p) PROVE RecordHonest' /\ Known'
  <2>1. record' = record \/ record' = Stamp(record, outcome[p], snap[p])
    BY <1>15, LoadRecordIs DEF Rename, Recording, files
  <2>2. outcome[p] \in {"synced", "offline", "error"} /\ snap[p] \subseteq server
    BY <1>15 DEF Rename, Recording, Attempt
  <2>3. RecordHonest'
    BY <1>15, <2>1, <2>2 DEF Rename, network, Stamp, RecordType
  <2>4. record'.items \in {record.items, snap[p]}
    BY <2>1 DEF Stamp, RecordType
  <2>5. \A q \in Proc : InFlight(q)' => FALSE
    BY <1>15 DEF Rename, Goto
  <2>6. Known'
    BY <1>15, <2>4, <2>5 DEF Rename, Goto, network, Captured
  <2> QED
    BY <2>3, <2>6
<1>16. ASSUME NEW p \in Proc, ProbeView(p) PROVE RecordHonest' /\ Known'
  BY <1>16 DEF ProbeView, Goto, Return, Clear, Unlock, network, files, Captured, Visible
<1>17. ASSUME NEW p \in Proc, ShowToast(p) PROVE RecordHonest' /\ Known'
  BY <1>17 DEF ShowToast, Goto, Return, Clear, Unlock, network, files, Captured, Visible
<1>18. ASSUME NEW p \in Proc, Crash(p) PROVE RecordHonest' /\ Known'
  BY <1>18 DEF Crash, Goto, Return, Clear, Unlock, network, Captured, Visible
<1> QED
  BY <1>1, <1>2, <1>3, <1>4, <1>5, <1>6, <1>7, <1>8, <1>9, <1>10, <1>11, <1>12,
     <1>13, <1>14, <1>15, <1>16, <1>17, <1>18 DEF Next, Environment, RunStep

LEMMA Invariant == Spec => []Inv
BY InvInit, InvStep, PTL DEF Spec

(* What "kobo-sync status" reads is true, whatever fails or dies. *)
THEOREM HonestRecord == Spec => []RecordHonest
<1>1. Inv => RecordHonest
  BY DEF Inv
<1> QED
  BY <1>1, Invariant, PTL
-----------------------------------------------------------------------------
(* Only Rename moves the record. *)
LEMMA RecordMovesAtRename ==
  ASSUME [Next]_vars, \A p \in Proc : ~Rename(p)
  PROVE  UNCHANGED record
BY DEF Next, Environment, RunStep, vars, device, network, run, files, Capture, Hide,
  LinkChange, ViewChange, SyncCommand, ServerImport, LoseRequest, TryLock,
  CheckToken, WaitForConnectivity, ReadHighlights, SendImport, AwaitReply, PostError,
  CountGrowth, WriteTmp, ProbeView, ShowToast, Crash

(* A paired device reports its last sync exactly when it ever had a success. *)
LEMMA StatusOfSuccess ==
  ASSUME TypeInv, TypeInv'
  PROVE  /\ (StatusLine(TRUE) = "Last synced" <=> record.success)
         /\ (StatusLine(TRUE)' = "Last synced" <=> record'.success)
<1>1. Load(record) = record /\ Load(record)' = record'
  BY TornIsNoRecord DEF TypeInv, TypeOK, Load
<1>2. record.success \in BOOLEAN /\ record'.success \in BOOLEAN
  BY DEF TypeInv, TypeOK, RecordType
<1> QED
  BY <1>1, <1>2 DEF StatusLine

(* A success is never forgotten, and a counted highlight still on the device
   stays counted, whatever dies or fails. *)
THEOREM DurableBaseline == Spec => BaselineNeverForgets
<1> DEFINE Keeps == /\ StatusLine(TRUE) = "Last synced" => StatusLine(TRUE)' = "Last synced"
                    /\ \A h \in record.items :
                         bookmark'[h] = "visible" => h \in record'.items
<1>1. ASSUME Inv, Inv', [Next]_vars PROVE Keeps
  <2>0. /\ (StatusLine(TRUE) = "Last synced" <=> record.success)
        /\ (StatusLine(TRUE)' = "Last synced" <=> record'.success)
    BY <1>1, StatusOfSuccess DEF Inv, TypeInv
  <2>1. CASE \A p \in Proc : ~Rename(p)
    BY <1>1, <2>0, <2>1, RecordMovesAtRename
  <2>2. ASSUME NEW p \in Proc, Rename(p) PROVE Keeps
    <3>1. record' = record \/ record' = Stamp(record, outcome[p], snap[p])
      BY <1>1, <2>2, LoadRecordIs DEF Rename, files, Inv, TypeInv, Recording
    <3>2. CASE outcome[p] = "synced"
      <4>1. record.items \cap Visible \subseteq snap[p]
        BY <1>1, <2>2, <3>2 DEF Inv, Known, InFlight, Rename
      <4>2. record.items \subseteq Highlight /\ bookmark' = bookmark
        BY <1>1, <2>2 DEF Inv, TypeInv, TypeOK, RecordType, Rename, device
      <4> QED
        <5>1. CASE record' = record
          BY <2>0, <4>2, <5>1
        <5>2. CASE record' = Stamp(record, outcome[p], snap[p])
          <6>1. record'.success = TRUE /\ record'.items = snap[p]
            BY <3>2, <5>2 DEF Stamp
          <6> QED
            BY <2>0, <4>1, <4>2, <6>1 DEF Visible
        <5> QED
          BY <3>1, <5>1, <5>2
    <3>3. CASE outcome[p] # "synced"
      BY <1>1, <2>0, <3>1, <3>3 DEF Stamp, Inv, TypeInv, TypeOK, RecordType
    <3> QED
      BY <3>2, <3>3
  <2> QED
    BY <2>1, <2>2
<1>2. Inv /\ Inv' /\ [Next]_vars => [Keeps]_vars
  BY <1>1
<1> QED
  BY <1>2, Invariant, PTL DEF Spec, BaselineNeverForgets

-----------------------------------------------------------------------------
(* The refinement.  With the lock there is at most one run in flight, and
   the abstract flight is that run's snapshot. *)
LEMMA FlightIs ==
  ASSUME Inv
  PROVE  /\ \A p \in Proc : InFlight(p) => Flight = Serial!Running(snap[p])
         /\ (\A p \in Proc : ~InFlight(p)) => Flight = Serial!NoRun
<1>1. ASSUME NEW p \in Proc, InFlight(p) PROVE Flight = Serial!Running(snap[p])
  <2>1. {q \in Proc : InFlight(q)} = {p}
    BY <1>1 DEF Inv, TypeInv, LockOwned, InFlight
  <2> QED
    BY <1>1, <2>1 DEF Flight, Serial!Running
<1>2. ASSUME \A p \in Proc : ~InFlight(p) PROVE Flight = Serial!NoRun
  <2>1. {q \in Proc : InFlight(q)} = {}
    BY <1>2
  <2> QED
    BY <1>2, <2>1 DEF Flight, Serial!NoRun
<1> QED
  BY <1>1, <1>2

LEMMA SerialInit == Init => Serial!Init
<1> SUFFICES ASSUME Init PROVE Serial!Init
  OBVIOUS
<1>1. \A p \in Proc : ~InFlight(p)
  BY DEF Init, InFlight
<1>2. Flight = Serial!NoRun
  <2>1. {p \in Proc : InFlight(p)} = {}
    BY <1>1
  <2> QED
    BY <1>1, <2>1 DEF Flight, Serial!NoRun
<1> QED
  BY <1>2 DEF Init, Serial!Init, Missing, ZeroRecord

(* Steps that neither read, record nor give up leave the flight alone. *)
LEMMA FlightKept ==
  ASSUME UNCHANGED <<pc, snap, outcome>>
  PROVE  Flight' = Flight
BY DEF Flight, InFlight

(* A step of the lock's owner starts, keeps or ends its own flight only. *)
LEMMA FlightOfOwner ==
  ASSUME Inv, Inv', NEW p \in Proc, lock = p,
         \A q \in Proc \ {p} : pc'[q] = pc[q]
  PROVE  /\ InFlight(p) => Flight = Serial!Running(snap[p])
         /\ ~InFlight(p) => Flight = Serial!NoRun
         /\ InFlight(p)' => Flight' = Serial!Running(snap'[p])
         /\ ~InFlight(p)' => Flight' = Serial!NoRun
<1>1. \A q \in Proc \ {p} : pc[q] = "idle"
  BY DEF Inv, TypeInv, LockOwned
<1>2. \A q \in Proc \ {p} : ~InFlight(q) /\ ~InFlight(q)'
  BY <1>1 DEF InFlight
<1>3. ASSUME InFlight(p)' PROVE Flight' = Serial!Running(snap'[p])
  <2>1. {q \in Proc : InFlight(q)'} = {p}
    BY <1>2, <1>3
  <2> QED
    BY <1>3, <2>1 DEF Flight, Serial!Running
<1>4. ASSUME ~InFlight(p)' PROVE Flight' = Serial!NoRun
  <2>1. {q \in Proc : InFlight(q)'} = {}
    BY <1>2, <1>4
  <2> QED
    BY <1>4, <2>1 DEF Flight, Serial!NoRun
<1> QED
  BY <1>2, <1>3, <1>4, FlightIs

LEMMA SerialStep ==
  ASSUME Inv, Inv', [Next]_vars
  PROVE  [Serial!Next]_(Serial!vars)
<1> DEFINE Stays == UNCHANGED <<bookmark, server, record, Flight>>
<1>0. Stays => UNCHANGED Serial!vars
  BY DEF Serial!vars
<1>1. ASSUME NEW h \in Highlight, Capture(h) PROVE Serial!Next
  BY <1>1, FlightKept DEF Capture, Serial!Next, Serial!Capture, network, run, files
<1>2. ASSUME NEW h \in Highlight, Hide(h) PROVE Serial!Next
  BY <1>2, FlightKept DEF Hide, Serial!Next, Serial!Hide, network, run, files
<1>3. CASE LinkChange \/ ViewChange \/ SyncCommand \/ UNCHANGED vars
  BY <1>0, <1>3, FlightKept DEF LinkChange, ViewChange, SyncCommand, vars, device, network, run, files
<1>4. ASSUME NEW S \in wire, ServerImport(S) PROVE Serial!Next
  <2>1. S \in SUBSET Serial!Captured
    BY DEF Inv, Known, Captured, Serial!Captured
  <2>2. Serial!Import(S)
    BY <1>4, FlightKept DEF ServerImport, Serial!Import, device, run, files
  <2> QED
    BY <2>1, <2>2 DEF Serial!Next
<1>5. ASSUME NEW S \in wire, LoseRequest(S) PROVE Stays
  BY <1>5, FlightKept DEF LoseRequest, device, run, files
<1>6. ASSUME NEW p \in Proc, TryLock(p) PROVE Stays
  <2>1. \A q \in Proc : InFlight(q)' = InFlight(q)
    BY <1>6 DEF TryLock, InFlight, Inv, TypeInv, TypeOK
  <2> QED
    BY <1>6, <2>1 DEF TryLock, Flight, device, network, files
<1>7. ASSUME NEW p \in Proc, RunStep(p) \/ Crash(p)
      PROVE  Serial!Next \/ UNCHANGED Serial!vars
  <2>1. pc[p] # "idle" /\ lock = p
    BY <1>7 DEF RunStep, Crash, CheckToken, WaitForConnectivity, ReadHighlights,
       SendImport, AwaitReply, PostError, CountGrowth, WriteTmp, Rename, ProbeView,
       ShowToast, Return, Goto, Inv, TypeInv, LockOwned
  <2>2. \A q \in Proc \ {p} : pc'[q] = pc[q]
    BY <1>7 DEF RunStep, Crash, CheckToken, WaitForConnectivity, ReadHighlights,
       SendImport, AwaitReply, PostError, CountGrowth, WriteTmp, Rename, ProbeView,
       ShowToast, Return, Fail, Goto, Inv, TypeInv, TypeOK
  <2>3. /\ InFlight(p) => Flight = Serial!Running(snap[p])
        /\ ~InFlight(p) => Flight = Serial!NoRun
        /\ InFlight(p)' => Flight' = Serial!Running(snap'[p])
        /\ ~InFlight(p)' => Flight' = Serial!NoRun
    BY <2>1, <2>2, FlightOfOwner
  <2> USE DEF Inv, TypeInv, TypeOK
  <2>4. ASSUME InFlight(p) => snap'[p] = snap[p] /\ InFlight(p)',
               InFlight(p)' => InFlight(p),
               UNCHANGED <<bookmark, server, record>>
        PROVE  Stays
    BY <2>3, <2>4
  <2>5. ASSUME InFlight(p), ~InFlight(p)', UNCHANGED <<bookmark, server, record>>
        PROVE  Serial!Abandon
    BY <2>3, <2>5 DEF Serial!Abandon, Serial!Running, Serial!NoRun
  <2>6. CASE CheckToken(p)
    BY <1>0, <2>4, <2>6 DEF CheckToken, Goto, Return, InFlight, device, network, files
  <2>7. CASE WaitForConnectivity(p)
    BY <1>0, <2>4, <2>7 DEF WaitForConnectivity, Goto, Fail, InFlight, device, network, files
  <2>8. CASE ReadHighlights(p)
    <3>1. CASE pc'[p] = "post"
      <4>1. InFlight(p)' /\ ~InFlight(p) /\ snap'[p] = Visible \ Blank
        BY <2>8, <3>1 DEF ReadHighlights, Items, Goto, Fail, InFlight
      <4>2. Serial!Take
        BY <2>3, <2>8, <4>1 DEF ReadHighlights, Serial!Take, Serial!NoRun,
           Serial!Running, Serial!Visible, Visible, device, network, files
      <4> QED
        BY <4>2 DEF Serial!Next
    <3>2. CASE pc'[p] # "post"
      BY <1>0, <2>4, <2>8, <3>2 DEF ReadHighlights, Goto, Fail, InFlight, device, network, files
    <3> QED
      BY <3>1, <3>2
  <2>9. CASE SendImport(p)
    BY <1>0, <2>4, <2>9 DEF SendImport, Goto, InFlight, device, files
  <2>10. CASE AwaitReply(p)
    BY <1>0, <2>4, <2>10 DEF AwaitReply, Goto, InFlight, device, network, files
  <2>11. CASE PostError(p)
    <3>1. InFlight(p) /\ ~InFlight(p)'
      BY <2>11 DEF PostError, Goto, Fail, InFlight
    <3> QED
      BY <2>5, <2>11, <3>1 DEF PostError, Serial!Next, device, network, files
  <2>12. CASE CountGrowth(p)
    BY <1>0, <2>4, <2>12 DEF CountGrowth, Goto, InFlight, device, network, files
  <2>13. CASE WriteTmp(p)
    <3>1. CASE pc'[p] = "rename"
      BY <1>0, <2>4, <2>13, <3>1 DEF WriteTmp, Goto, InFlight, device, network
    <3>2. CASE pc'[p] # "rename"
      <4>1. ~InFlight(p)' /\ UNCHANGED <<bookmark, server, record>>
        BY <2>13, <3>2 DEF WriteTmp, Goto, InFlight, device, network
      <4> QED
        BY <1>0, <2>4, <2>5, <4>1 DEF Serial!Next
    <3> QED
      BY <3>1, <3>2
  <2>14. CASE Rename(p)
    <3>1. ~InFlight(p)' /\ UNCHANGED <<bookmark, server>>
      BY <2>14 DEF Rename, Goto, InFlight, device, network
    <3>2. CASE UNCHANGED record
      BY <1>0, <2>4, <2>5, <3>1, <3>2 DEF Serial!Next
    <3>3. CASE record' = tmp /\ outcome[p] = "synced"
      <4>1. record'.items = snap[p] /\ InFlight(p) /\ snap[p] \subseteq server
        BY <2>14, <3>3 DEF Rename, Recording, Stamp, InFlight, Known, Stored
      <4>2. Serial!Settle
        BY <2>3, <3>1, <4>1 DEF Serial!Settle, Serial!Running, Serial!NoRun
      <4> QED
        BY <4>2 DEF Serial!Next
    <3>4. CASE record' = tmp /\ outcome[p] # "synced"
      <4>1. record'.items = record.items
        BY <2>14, <3>4, LoadRecordIs DEF Rename, Recording, Stamp, RecordType
      <4>2. ~InFlight(p)
        BY <2>14, <3>4 DEF Rename, InFlight
      <4> QED
        BY <2>3, <3>1, <4>1, <4>2 DEF Serial!vars
    <3> QED
      BY <2>14, <3>2, <3>3, <3>4 DEF Rename, files
  <2>15. CASE ProbeView(p)
    BY <1>0, <2>4, <2>15 DEF ProbeView, Goto, Return, InFlight, device, network, files
  <2>16. CASE ShowToast(p)
    BY <1>0, <2>4, <2>16 DEF ShowToast, Goto, Return, InFlight, device, network, files
  <2>17. CASE Crash(p)
    <3>1. ~InFlight(p)' /\ UNCHANGED <<bookmark, server, record>>
      BY <2>17 DEF Crash, Goto, Return, InFlight, device, network
    <3> QED
      BY <1>0, <2>4, <2>5, <3>1 DEF Serial!Next
  <2> QED
    BY <1>7, <2>6, <2>7, <2>8, <2>9, <2>10, <2>11, <2>12, <2>13, <2>14, <2>15,
       <2>16, <2>17 DEF RunStep
<1> QED
  BY <1>0, <1>1, <1>2, <1>3, <1>4, <1>5, <1>6, <1>7 DEF Next, Environment

(* The engine implements the contract: at most one run in flight, and a run
   settles only on highlights the server holds. *)
THEOREM Refinement == Spec => ImplementsSerialSync
<1>1. Inv /\ Inv' /\ [Next]_vars => [Serial!Next]_(Serial!vars)
  BY SerialStep
<1> QED
  BY <1>1, SerialInit, Invariant, PTL DEF Spec, ImplementsSerialSync, Serial!Spec
-----------------------------------------------------------------------------
(* The growth of a count bounds the members that are new: if S shares with T
   only members of R, then S outgrows R by at most its members outside T. *)
LEMMA GrowthBound ==
  ASSUME NEW S \in SUBSET Highlight, NEW R \in SUBSET Highlight, NEW T,
         S \cap T \subseteq R
  PROVE  Cardinality(S) - Cardinality(R) <= Cardinality(S \ T)
<1>1. IsFiniteSet(S) /\ IsFiniteSet(R) /\ IsFiniteSet(S \cap T)
  BY HighlightsFinite
<1>2. Cardinality(S \cap T) <= Cardinality(R)
  BY <1>1, FS_Subset
<1>3. Cardinality(S \ T) = Cardinality(S) - Cardinality(S \cap T)
  BY <1>1, FS_Difference
<1>4. /\ Cardinality(S) \in Nat
      /\ Cardinality(R) \in Nat
      /\ Cardinality(S \cap T) \in Nat
  BY <1>1, FS_CardinalityType
<1> QED
  BY <1>2, <1>3, <1>4

(* What has been announced is counted, as far as it is still on the device;
   a run in flight knows every announced highlight as a counted one. *)
Announced ==
  /\ told \subseteq Captured
  /\ told \cap Visible \subseteq record.items
  /\ \A p \in Proc : InFlight(p) => told \cap snap[p] \subseteq record.items
  /\ \A p \in Proc :
       Attempt(p) =>
         growth[p] = IF outcome[p] = "synced"
                     THEN Cardinality(snap[p]) - record.count ELSE 0
  /\ \A p \in Proc :
       pc[p] \in {"view", "show"} /\ growth[p] > 0 =>
         /\ record.items = snap[p]
         /\ growth[p] <= Cardinality(snap[p] \ told)
  /\ \A p \in Proc : pc[p] = "show" => growth[p] > 0

LEMMA AnnouncedInit == Init => Announced
BY DEF Init, Announced, InFlight, Attempt

LEMMA AnnouncedStep ==
  ASSUME ~WritesMayFail, Inv, Inv', Announced, [Next]_vars
  PROVE  Announced'
<1> USE AutosyncConstants DEF Inv, TypeInv, TypeOK, LockOwned, Announced, InFlight, Attempt
<1>1. ASSUME NEW h \in Highlight, Capture(h) PROVE Announced'
  <2>1. Captured \subseteq Captured'
    BY <1>1 DEF Capture, Captured
  <2>2. Captured \cap Visible' \subseteq Visible
    BY <1>1 DEF Capture, Captured, Visible
  <2> QED
    BY <1>1, <2>1, <2>2 DEF Capture, network, run, files
<1>2. ASSUME NEW h \in Highlight, Hide(h) PROVE Announced'
  <2>1. Captured' = Captured /\ Visible' \subseteq Visible
    BY <1>2 DEF Hide, Captured, Visible
  <2> QED
    BY <1>2, <2>1 DEF Hide, network, run, files
<1>3. CASE LinkChange \/ ViewChange \/ UNCHANGED vars
  BY <1>3 DEF LinkChange, ViewChange, vars, device, network, run, files, Captured, Visible
<1> USE DEF device
<1>4. CASE SyncCommand
  BY <1>4 DEF SyncCommand, Items, run, files, Captured, Visible
<1>5. ASSUME NEW S \in wire, ServerImport(S) \/ LoseRequest(S) PROVE Announced'
  BY <1>5 DEF ServerImport, LoseRequest, run, files, Captured, Visible
<1>6. ASSUME NEW p \in Proc, TryLock(p) PROVE Announced'
  BY <1>6 DEF TryLock, LockFree, network, files, Captured, Visible
<1>7. ASSUME NEW p \in Proc, CheckToken(p) PROVE Announced'
  BY <1>7 DEF CheckToken, Goto, Return, Clear, Unlock, network, files, Captured, Visible
<1>8. ASSUME NEW p \in Proc, WaitForConnectivity(p) PROVE Announced'
  BY <1>8 DEF WaitForConnectivity, Goto, Fail, Clear, network, files, Captured, Visible
<1>9. ASSUME NEW p \in Proc, ReadHighlights(p) PROVE Announced'
  BY <1>9 DEF ReadHighlights, Items, Goto, Fail, Clear, network, files, Captured, Visible
<1>10. ASSUME NEW p \in Proc, SendImport(p) PROVE Announced'
  BY <1>10 DEF SendImport, Goto, files, Captured, Visible
<1>11. ASSUME NEW p \in Proc, AwaitReply(p) PROVE Announced'
  BY <1>11 DEF AwaitReply, Goto, network, files, Captured, Visible
<1>12. ASSUME NEW p \in Proc, PostError(p) PROVE Announced'
  BY <1>12 DEF PostError, Goto, Fail, Clear, network, files, Captured, Visible
<1>13. ASSUME NEW p \in Proc, CountGrowth(p) PROVE Announced'
  BY <1>13, LoadRecordIs DEF CountGrowth, Growth, Goto, network, files, Captured, Visible
<1>14. ASSUME NEW p \in Proc, WriteTmp(p) PROVE Announced'
  BY <1>14 DEF WriteTmp, Goto, network, Captured, Visible
<1>15. ASSUME NEW p \in Proc, Rename(p) PROVE Announced'
  <2>1. record' = Stamp(record, outcome[p], snap[p])
    BY <1>15, LoadRecordIs DEF Rename, Recording
  <2>2. UNCHANGED <<bookmark, told, snap, growth>>
    BY <1>15 DEF Rename
  <2>3. \A q \in Proc : ~InFlight(q)' /\ ~Attempt(q)' /\ pc'[q] \in {"idle", "view"}
                        /\ (pc'[q] = "view" => q = p)
    BY <1>15 DEF Rename, Goto
  <2>4. CASE outcome[p] = "synced"
    <3>1. record'.items = snap[p]
      BY <2>1, <2>4 DEF Stamp
    <3>2. told \cap Visible \subseteq snap[p]
      BY <1>15, <2>4 DEF Rename, Known
    <3>3. growth[p] <= Cardinality(snap[p] \ told)
      <4>1. growth[p] = Cardinality(snap[p]) - Cardinality(record.items)
        BY <1>15, <2>4 DEF Rename, RecordHonest
      <4>2. snap[p] \cap told \subseteq record.items
        BY <1>15, <2>4 DEF Rename
      <4>3. snap[p] \in SUBSET Highlight /\ record.items \in SUBSET Highlight
        BY DEF RecordType
      <4>4. Cardinality(snap[p]) - Cardinality(record.items) <= Cardinality(snap[p] \ told)
        BY ONLY <4>2, <4>3, GrowthBound, Zenon
      <4> QED
        BY <4>1, <4>4
    <3> QED
      BY <2>2, <2>3, <3>1, <3>2, <3>3 DEF Captured, Visible
  <2>5. CASE outcome[p] # "synced"
    <3>1. record'.items = record.items /\ growth[p] = 0
      BY <1>15, <2>1, <2>5 DEF Rename, Stamp, RecordType
    <3> QED
      BY <2>2, <2>3, <3>1 DEF Captured, Visible
  <2> QED
    BY <2>4, <2>5
<1>16. ASSUME NEW p \in Proc, ProbeView(p) PROVE Announced'
  BY <1>16 DEF ProbeView, Goto, Return, Clear, Unlock, network, files, Captured, Visible
<1>17. ASSUME NEW p \in Proc, ShowToast(p) PROVE Announced'
  BY <1>17 DEF ShowToast, Goto, Return, Clear, Unlock, network, files, Captured, Visible, Known
<1>18. ASSUME NEW p \in Proc, Crash(p) PROVE Announced'
  BY <1>18 DEF Crash, Goto, Return, Clear, Unlock, network, Captured, Visible
<1> QED
  BY <1>1, <1>2, <1>3, <1>4, <1>5, <1>6, <1>7, <1>8, <1>9, <1>10, <1>11, <1>12,
     <1>13, <1>14, <1>15, <1>16, <1>17, <1>18 DEF Next, Environment, RunStep

(* Where the record can be written, a toast never announces more highlights
   than are new, and all of them are on the server: run.go's growth gate does
   what its comment says, through crashes, retries and late requests. *)
THEOREM ToastOnlyNews ==
  ASSUME ~WritesMayFail
  PROVE  Spec => []ToastIsNews
<1>1. Inv /\ Inv' /\ Announced /\ [Next]_vars => Announced'
  BY AnnouncedStep
<1>2. Inv /\ Announced => ToastIsNews
  BY DEF Inv, Known, Stored, Announced, ToastIsNews
<1> QED
  BY <1>1, <1>2, AnnouncedInit, Invariant, PTL DEF Spec
-----------------------------------------------------------------------------
(* The wait never counts past its bound, so what is left of it is a number. *)
WaitBounded == \A p \in Proc : waited[p] <= MaxWait[p]

LEMMA WaitBoundedInit == Init => WaitBounded
BY AutosyncConstants DEF Init, WaitBounded

LEMMA WaitBoundedStep == TypeOK /\ WaitBounded /\ [Next]_vars => WaitBounded'
<1> SUFFICES ASSUME TypeOK, WaitBounded, [Next]_vars PROVE WaitBounded'
  OBVIOUS
<1> USE AutosyncConstants DEF TypeOK, WaitBounded
<1>1. CASE Environment \/ UNCHANGED vars
  BY <1>1 DEF Environment, Capture, Hide, LinkChange, ViewChange, SyncCommand, ServerImport,
     LoseRequest, vars, run
<1>2. ASSUME NEW p \in Proc, WaitForConnectivity(p) PROVE WaitBounded'
  BY <1>2 DEF WaitForConnectivity, Fail, Clear
<1>3. ASSUME NEW p \in Proc, ~WaitForConnectivity(p), TryLock(p) \/ RunStep(p) \/ Crash(p)
      PROVE  WaitBounded'
  BY <1>3 DEF RunStep, TryLock, Crash, CheckToken, ReadHighlights, SendImport, AwaitReply,
     PostError, CountGrowth, WriteTmp, Rename, ProbeView, ShowToast, Return, Fail, Clear
<1> QED
  BY <1>1, <1>2, <1>3 DEF Next

LEMMA StepsLeftIsNat ==
  ASSUME TypeOK, WaitBounded, NEW p \in Proc
  PROVE  /\ Before[pc[p]] \in 0 .. 10
         /\ MaxWait[p] - waited[p] \in Nat
         /\ StepsLeft(p) \in Nat
<1>1. pc[p] \in Label /\ MaxWait[p] \in Nat /\ waited[p] \in Nat /\ waited[p] <= MaxWait[p]
  BY AutosyncConstants DEF TypeOK, WaitBounded
<1>2. Before[pc[p]] \in 0 .. 10
  BY <1>1 DEF Label, Before
<1> QED
  BY <1>1, <1>2 DEF StepsLeft

(* What others do leaves a run where it is. *)
LEMMA OthersKeepSteps ==
  ASSUME TypeOK, [Next]_vars, NEW p \in Proc, pc[p] # "idle", ~RunStep(p), ~Crash(p)
  PROVE  pc'[p] = pc[p] /\ waited'[p] = waited[p]
<1> USE DEF TypeOK
<1>1. CASE Environment \/ UNCHANGED vars
  BY <1>1 DEF Environment, Capture, Hide, LinkChange, ViewChange, SyncCommand, ServerImport,
     LoseRequest, vars, run
<1>2. ASSUME NEW q \in Proc, TryLock(q)
      PROVE  pc'[p] = pc[p] /\ waited'[p] = waited[p]
  BY <1>2 DEF TryLock
<1>3. ASSUME NEW q \in Proc \ {p}, RunStep(q) \/ Crash(q)
      PROVE  pc'[p] = pc[p] /\ waited'[p] = waited[p]
  BY <1>3 DEF RunStep, Crash, CheckToken, WaitForConnectivity, ReadHighlights, SendImport,
     AwaitReply, PostError, CountGrowth, WriteTmp, Rename, ProbeView, ShowToast, Return, Fail,
     Goto, Clear
<1> QED
  BY <1>1, <1>2, <1>3 DEF Next

(* Each step of a run leads to a place nearer the end, but for the sleep of the
   wait, which brings the deadline nearer. *)
LEMMA RunStepGoesOn ==
  ASSUME TypeOK, WaitBounded, NEW p \in Proc, RunStep(p)
  PROVE  \/ /\ Before[pc'[p]] < Before[pc[p]]
            /\ pc'[p] = "wait" => pc[p] = "token" /\ waited'[p] = waited[p]
            /\ pc'[p] # "token"
         \/ /\ pc[p] = "wait" /\ pc'[p] = "wait"
            /\ waited'[p] \in waited[p] + 1 .. MaxWait[p]
<1> USE DEF TypeOK, Before
<1>1. CASE CheckToken(p)
  BY <1>1 DEF CheckToken, Goto, Return
<1>2. CASE WaitForConnectivity(p)
  BY <1>2 DEF WaitForConnectivity, Goto, Fail
<1>3. CASE ReadHighlights(p)
  BY <1>3 DEF ReadHighlights, Goto, Fail
<1>4. CASE SendImport(p) \/ AwaitReply(p)
  BY <1>4 DEF SendImport, AwaitReply, Goto
<1>5. CASE PostError(p) \/ CountGrowth(p)
  BY <1>5 DEF PostError, CountGrowth, Goto, Fail
<1>6. CASE WriteTmp(p) \/ Rename(p)
  BY <1>6 DEF WriteTmp, Rename, Goto
<1>7. CASE ProbeView(p) \/ ShowToast(p)
  BY <1>7 DEF ProbeView, ShowToast, Goto, Return
<1> QED
  BY <1>1, <1>2, <1>3, <1>4, <1>5, <1>6, <1>7 DEF RunStep

LEMMA RunStepProgress ==
  ASSUME TypeOK, TypeOK', WaitBounded, WaitBounded', NEW p \in Proc, RunStep(p)
  PROVE  StepsLeft(p)' < StepsLeft(p)
<1>1. /\ Before[pc[p]] \in 0 .. 10 /\ Before[pc'[p]] \in 0 .. 10
      /\ MaxWait[p] - waited[p] \in Nat /\ MaxWait[p] - waited'[p] \in Nat
  BY AutosyncConstants DEF TypeOK, WaitBounded, Label, Before
<1>2. MaxWait[p] \in Nat /\ waited[p] \in Nat /\ waited'[p] \in Nat
  BY AutosyncConstants DEF TypeOK
<1>3. StepsLeft(p)' = Before[pc'[p]]
                      + IF pc'[p] \in {"token", "wait"} THEN MaxWait[p] - waited'[p] ELSE 0
  BY DEF StepsLeft, Before
<1>4. CASE pc[p] = "wait" /\ pc'[p] = "wait" /\ waited'[p] \in waited[p] + 1 .. MaxWait[p]
  BY <1>1, <1>2, <1>3, <1>4 DEF StepsLeft
<1>5. CASE /\ Before[pc'[p]] < Before[pc[p]]
           /\ pc'[p] = "wait" => pc[p] = "token" /\ waited'[p] = waited[p]
           /\ pc'[p] # "token"
  BY <1>1, <1>2, <1>3, <1>5 DEF StepsLeft
<1> QED
  BY <1>4, <1>5, RunStepGoesOn

(* A run takes at most its wait's bound and ten steps more, whatever goes on
   around it: the safety half of RunsEnd (wait.go; run.go). *)
THEOREM RunsProgress == Spec => RunProgress
<1> DEFINE Forward ==
      \A p \in Proc : pc[p] # "idle" =>
        /\ StepsLeft(p)' \in 0 .. StepsLeft(p)
        /\ RunStep(p) => StepsLeft(p)' # StepsLeft(p)
<1>1. ASSUME TypeOK, TypeOK', WaitBounded, WaitBounded', [Next]_vars PROVE Forward
  <2> SUFFICES ASSUME NEW p \in Proc, pc[p] # "idle"
               PROVE  /\ StepsLeft(p)' \in 0 .. StepsLeft(p)
                      /\ RunStep(p) => StepsLeft(p)' # StepsLeft(p)
    OBVIOUS
  <2>1. StepsLeft(p) \in Nat /\ StepsLeft(p)' \in Nat
    <3>1. MaxWait[p] - waited'[p] \in Nat /\ Before[pc'[p]] \in 0 .. 10
      BY <1>1, AutosyncConstants DEF TypeOK, WaitBounded, Label, Before
    <3> QED
      BY <1>1, <3>1, StepsLeftIsNat DEF StepsLeft, Before
  <2>2. CASE RunStep(p)
    BY <1>1, <2>1, <2>2, RunStepProgress
  <2>3. CASE Crash(p) /\ ~RunStep(p)
    <3>1. pc'[p] = "idle"
      BY <1>1, <2>3 DEF Crash, Return, Goto, TypeOK
    <3>2. StepsLeft(p)' = 0
      BY <3>1 DEF StepsLeft, Before
    <3> QED
      BY <2>1, <2>3, <3>2
  <2>4. CASE ~Crash(p) /\ ~RunStep(p)
    <3>1. StepsLeft(p)' = StepsLeft(p)
      BY <1>1, <2>4, OthersKeepSteps DEF StepsLeft, Before
    <3> QED
      BY <2>1, <2>4, <3>1
  <2> QED
    BY <2>2, <2>3, <2>4
<1>2. TypeOK /\ TypeOK' /\ WaitBounded /\ WaitBounded' /\ [Next]_vars => [Forward]_vars
  BY <1>1
<1>3. TypeOK /\ WaitBounded /\ [Next]_vars => WaitBounded'
  BY WaitBoundedStep
<1> QED
  BY <1>2, <1>3, WaitBoundedInit, TypeCorrect, PTL DEF Spec, RunProgress
=============================================================================
