----------------------------- MODULE PairProofs -----------------------------
(***************************************************************************)
(* What a pairing leaves on disk, for every set of servers and ids, code   *)
(* lifetime and decision window: types, the url before the token, what     *)
(* exit code 0 means, and the refinement of PairStore.                     *)
(***************************************************************************)
EXTENDS Pair, TLAPS

LEMMA TypeInit == Init => TypeOK
<1> SUFFICES ASSUME Init
             PROVE  TypeOK
  OBVIOUS
<1>1. /\ 0 \in 0 .. CodeTTL + 1
      /\ 0 \in 0 .. DecisionWindow
  BY PairConstants
<1> QED
  BY <1>1 DEF Init, TypeOK, File, NoTap

LEMMA TypeStep == TypeOK /\ [Next]_vars => TypeOK'
<1> SUFFICES ASSUME TypeOK, [Next]_vars
             PROVE  TypeOK'
  OBVIOUS
<1> USE DEF TypeOK, File
<1>1. /\ DecisionWindow \in 0 .. DecisionWindow
      /\ 0 \in 0 .. DecisionWindow
      /\ 0 \in 0 .. CodeTTL + 1
      /\ \A t \in 0 .. CodeTTL + 1 : Tick(t) \in 0 .. CodeTTL + 1
      /\ \A t \in 0 .. CodeTTL + 1 : Later(t) \subseteq 0 .. CodeTTL + 1
      /\ \A t \in 0 .. DecisionWindow : t # 0 => t - 1 \in 0 .. DecisionWindow
  BY PairConstants DEF Tick, Later
<1>2. ASSUME NEW b \in {"cancel", "retry"}, Tap(b)
      PROVE  TypeOK'
  BY <1>2 DEF Tap, Tapped, Buttoned, run, clock, store
<1>3. CASE Latch \/ ClaimCode \/ ExpireCode
  BY <1>3 DEF Latch, ClaimCode, ExpireCode, NoTap, run, screen, clock, store
<1>4. CASE Start
  BY <1>1, <1>4 DEF Start, NoTap, store
<1>5. CASE ReuseID \/ GenerateID \/ TruncateID \/ FillID \/ StoreFails
  BY <1>5 DEF ReuseID, GenerateID, TruncateID, FillID, StoreFails, Goto, Finish,
              Show, Buttoned, screen, clock, store
<1>6. CASE Connect
  BY <1>1, <1>6 DEF Connect, Goto, Show, Buttoned, store
<1>7. CASE Request
  <2>1. age' \in 0 .. CodeTTL + 1
    BY <1>1, <1>7 DEF Request, clock
  <2>2. left' = left
    BY <1>7 DEF Request, clock
  <2> QED
    BY <1>7, <2>1, <2>2
       DEF Request, Goto, Finish, Show, Buttoned, run, store
<1>8. CASE Poll
  BY <1>8 DEF Poll, TakeButton, NoTap, Goto, Finish, Show, Buttoned, clock, store
<1>9. CASE Status
  BY <1>1, <1>9 DEF Status, Goto, Finish, Show, Buttoned, store
<1>10. CASE Sleep
  BY <1>1, <1>10 DEF Sleep, Goto, screen, store
<1>11. CASE WaitButton
  <2>1. left' \in 0 .. DecisionWindow
    BY <1>1, <1>11 DEF WaitButton, Lapsed
  <2> QED
    BY <1>11, <2>1
       DEF WaitButton, Prompting, OnRetry, GiveUp, TakeButton, NoTap, Goto,
           Finish, run, store
<1>12. CASE TruncateURL \/ FillURL \/ TruncateToken \/ FillToken
  BY <1>12 DEF TruncateURL, FillURL, TruncateToken, FillToken, Goto, Show,
               Buttoned, screen, clock
<1>13. CASE Linger \/ Crash
  BY <1>13 DEF Linger, Crash, Finish, Show, NoTap, screen, clock, store
<1>14. CASE EditID
  BY <1>14 DEF EditID, run, screen, clock
<1>15. CASE UNCHANGED vars
  BY <1>15 DEF vars, run, screen, clock, store
<1> QED
  BY <1>2, <1>3, <1>4, <1>5, <1>6, <1>7, <1>8, <1>9, <1>10, <1>11, <1>12,
     <1>13, <1>14, <1>15
     DEF Next, PairStep

(* Every variable of a pairing stays in its range; the counters stop one past
   the bounds the code compares them with. *)
THEOREM PairTyped == Spec => []TypeOK
BY TypeInit, TypeStep, PTL DEF Spec

-----------------------------------------------------------------------------
(* The url file is settled before the token is touched, and both are settled
   when a run that claims success lingers on its last dialog. *)
Saved ==
  /\ token # NoFile => url # NoFile
  /\ pc \in {"token", "filltoken", "linger"} => url = target
  /\ pc = "linger" => token = target
  /\ result = "paired" => pc = "off" /\ token = target /\ url = target
  /\ target \in Backend

LEMMA SavedInit == Init => Saved
BY PairConstants DEF Init, Saved

LEMMA SavedStep == Saved /\ [Next]_vars => Saved'
<1> SUFFICES ASSUME Saved, [Next]_vars
             PROVE  Saved'
  OBVIOUS
<1> USE PairConstants DEF Saved
<1>1. ASSUME NEW b \in {"cancel", "retry"}, Tap(b)
      PROVE  Saved'
  BY <1>1 DEF Tap, run, store
<1>2. CASE Latch \/ ClaimCode \/ ExpireCode
  BY <1>2 DEF Latch, ClaimCode, ExpireCode, run, store
<1>3. CASE Start
  BY <1>3 DEF Start, store
<1>4. CASE ReuseID \/ GenerateID \/ TruncateID \/ FillID \/ StoreFails
  BY <1>4 DEF ReuseID, GenerateID, TruncateID, FillID, StoreFails, Goto, Finish, store
<1>5. CASE Connect \/ Request
  BY <1>5 DEF Connect, Request, Finish, Goto, run, store
<1>6. CASE Poll \/ Status \/ Sleep
  BY <1>6 DEF Poll, Status, Sleep, Finish, Goto, store
<1>7. CASE WaitButton
  BY <1>7 DEF WaitButton, Prompting, OnRetry, GiveUp, Finish, Goto, run, store
<1>8. CASE TruncateURL \/ FillURL
  BY <1>8 DEF TruncateURL, FillURL, Goto
<1>9. CASE TruncateToken \/ FillToken
  BY <1>9 DEF TruncateToken, FillToken, Goto
<1>10. CASE Linger \/ Crash
  BY <1>10 DEF Linger, Crash, Finish, store
<1>11. CASE EditID
  BY <1>11 DEF EditID, run
<1>12. CASE UNCHANGED vars
  BY <1>12 DEF vars, run, store
<1> QED
  BY <1>1, <1>2, <1>3, <1>4, <1>5, <1>6, <1>7, <1>8, <1>9, <1>10, <1>11, <1>12
     DEF Next, PairStep

(* A device that has a token has a url file, whatever fails or dies. *)
THEOREM URLBeforeToken == Spec => []PairedHasURL
<1>1. Saved => PairedHasURL
  BY DEF Saved, PairedHasURL
<1> QED
  BY <1>1, SavedInit, SavedStep, PTL DEF Spec

(* Exit code 0 means that the token is stored, beside the url of the server
   that minted it. *)
THEOREM PairedMeansStored == Spec => []ExitCodeHonest
<1>1. Saved => ExitCodeHonest
  BY DEF Saved, ExitCodeHonest
<1> QED
  BY <1>1, SavedInit, SavedStep, PTL DEF Spec

-----------------------------------------------------------------------------
(* The refinement.  A pairing is in the place PairStore sees, and a step of
   PairStore by it is a change of that place and of the files. *)
LEMMA StoreInit == Init => Store!Init
BY DEF Init, Store!Init, Place

(* Nothing PairStore speaks of moves while the place and the files stay. *)
LEMMA StoreStutter ==
  ASSUME Place' = Place, UNCHANGED <<target, id, store>>
  PROVE  UNCHANGED Store!vars
BY DEF Store!vars, Store!store, store

LEMMA StoreLeave ==
  ASSUME Place # "idle", Place' = "idle", UNCHANGED <<target, id, store>>
  PROVE  Store!Next
<1>1. Store!Leave("this")
  BY DEF Store!Leave, Store!Goto, Store!store, store, This
<1> QED
  BY <1>1 DEF Store!Next, Store!Step, This

LEMMA StoreStep == TypeOK /\ TypeOK' /\ [Next]_vars => [Store!Next]_(Store!vars)
<1> SUFFICES ASSUME TypeOK, TypeOK', [Next]_vars
             PROVE  Store!Next \/ UNCHANGED Store!vars
  OBVIOUS
<1>1. ASSUME NEW b \in {"cancel", "retry"}, Tap(b)
      PROVE  UNCHANGED Store!vars
  BY <1>1, StoreStutter DEF Tap, Place, run, store
<1>2. CASE Latch \/ ClaimCode \/ ExpireCode
  BY <1>2, StoreStutter DEF Latch, ClaimCode, ExpireCode, Place, run, store
<1>3. CASE Start
  <2>1. Store!Begin("this")
    BY <1>3 DEF Start, Store!Begin, Store!Goto, Store!store, store, Place, This
  <2> QED
    BY <2>1 DEF Store!Next, Store!Step, This
<1>4. CASE ReuseID
  <2>1. Store!ReuseID("this")
    BY <1>4 DEF ReuseID, Store!ReuseID, Store!Valid, Store!Goto, Store!store,
                store, Place, This
  <2> QED
    BY <2>1 DEF Store!Next, Store!Step, This
<1>5. CASE GenerateID
  <2>1. Store!GenerateID("this")
    BY <1>5 DEF GenerateID, Store!GenerateID, Store!Goto, Store!store, store, Place, This
  <2> QED
    BY <2>1 DEF Store!Next, Store!Step, This
<1>6. CASE TruncateID
  <2>1. Store!TruncateID("this")
    BY <1>6 DEF TruncateID, Goto, Store!TruncateID, Store!Goto, Place, This
  <2> QED
    BY <2>1 DEF Store!Next, Store!Step, This
<1>7. CASE FillID
  <2>1. Store!FillID("this")
    BY <1>7 DEF FillID, Goto, Store!FillID, Store!Goto, Place, This
  <2> QED
    BY <2>1 DEF Store!Next, Store!Step, This
<1>8. CASE StoreFails
  <2>1. Place # "idle" /\ Place' = "idle"
    BY <1>8 DEF StoreFails, Finish, Place
  <2> QED
    BY <1>8, <2>1, StoreLeave DEF StoreFails, Finish
<1>9. CASE Connect \/ Request \/ Poll \/ Status \/ Sleep \/ WaitButton
  <2>1. UNCHANGED <<target, id, store>>
    BY <1>9 DEF Connect, Request, Poll, Status, Sleep, WaitButton, Goto, Finish, run
  <2>2. /\ Place = "ready"
        /\ pc' \in {"off", "wifi", "nowifi", "request", "poll", "status",
                    "sleep", "expired", "url"}
    BY <1>9 DEF Connect, Request, Poll, Status, Sleep, WaitButton, Prompting,
                OnRetry, Goto, Finish, run, Place
  <2>3. CASE pc' = "off"
    <3>1. Place # "idle" /\ Place' = "idle"
      BY <2>2, <2>3 DEF Place
    <3> QED
      BY <2>1, <3>1, StoreLeave
  <2>4. CASE pc' = "url"
    <3>1. Place' = "url"
      BY <2>4 DEF Place
    <3>2. Store!Paired("this")
      BY <2>1, <2>2, <3>1 DEF Store!Paired, Store!Goto, Store!store, store, This
    <3> QED
      BY <3>2 DEF Store!Next, Store!Step, This
  <2>5. CASE pc' \notin {"off", "url"}
    <3>1. Place' = "ready"
      BY <2>2, <2>5 DEF Place
    <3> QED
      BY <2>1, <2>2, <3>1, StoreStutter
  <2> QED
    BY <2>3, <2>4, <2>5
<1>10. CASE TruncateURL
  <2>1. Store!TruncateURL("this")
    BY <1>10 DEF TruncateURL, Goto, Store!TruncateURL, Store!Goto, Place, This
  <2> QED
    BY <2>1 DEF Store!Next, Store!Step, This
<1>11. CASE FillURL
  <2>1. target \in Store!Filled(url, target)
    BY DEF Store!Filled
  <2>2. Store!FillURL("this")
    BY <1>11, <2>1 DEF FillURL, Goto, Store!FillURL, Store!Goto, Place, This
  <2> QED
    BY <2>2 DEF Store!Next, Store!Step, This
<1>12. CASE TruncateToken
  <2>1. Store!TruncateToken("this")
    BY <1>12 DEF TruncateToken, Goto, Store!TruncateToken, Store!Goto, Place, This
  <2> QED
    BY <2>1 DEF Store!Next, Store!Step, This
<1>13. CASE FillToken
  <2>1. target \in Store!Filled(token, target)
    BY DEF Store!Filled
  <2>2. Store!FillToken("this")
    BY <1>13, <2>1 DEF FillToken, Goto, Store!FillToken, Store!Goto, Place, This
  <2> QED
    BY <2>2 DEF Store!Next, Store!Step, This
<1>14. CASE Linger \/ Crash
  <2>1. Place # "idle" /\ Place' = "idle"
    BY <1>14 DEF Linger, Crash, Finish, Place, TypeOK
  <2> QED
    BY <1>14, <2>1, StoreLeave DEF Linger, Crash, Finish, store
<1>15. CASE EditID
  <2>1. Place # "fillid" /\ Place' = Place
    BY <1>15 DEF EditID, Place, run, TypeOK
  <2>2. Store!EditID
    BY <1>15, <2>1 DEF EditID, Store!EditID, run, This
  <2> QED
    BY <2>2 DEF Store!Next
<1>16. CASE UNCHANGED vars
  BY <1>16, StoreStutter DEF vars, run, store, Place
<1> QED
  BY <1>1, <1>2, <1>3, <1>4, <1>5, <1>6, <1>7, <1>8, <1>9, <1>10, <1>11,
     <1>12, <1>13, <1>14, <1>15, <1>16
     DEF Next, PairStep

(* A pairing with its dialog, user, server and clock does to its files what
   PairStore says a pairing may do. *)
THEOREM FilesAsSpecified == Spec => ImplementsPairStore
BY TypeInit, TypeStep, StoreInit, StoreStep, PTL
   DEF Spec, ImplementsPairStore, Store!Spec
-----------------------------------------------------------------------------
(* The measure of DialogProgress is a number wherever the program is at work. *)
LEMMA StepsLeftIsNat ==
  ASSUME TypeOK, pc \notin Resting
  PROVE  /\ StepsLeft \in Nat
         /\ pc \notin Polling => StepsLeft <= DecisionWindow + 5
         /\ pc \in Polling => /\ PollsLeft \in Nat
                              /\ StepsLeft = DecisionWindow + 6 + PollsLeft
                                   + IF pc = "poll" THEN IF TimedOut THEN 0 ELSE 3
                                     ELSE IF pc = "status" THEN 2 ELSE 1
<1>1. /\ left \in Nat /\ left <= DecisionWindow /\ DecisionWindow \in Nat
      /\ PollsLeft \in Nat
  BY PairConstants DEF TypeOK, PollsLeft
<1>2. CASE pc \notin Polling
  BY <1>1, <1>2 DEF StepsLeft, Before, Resting, Polling, TypeOK
<1>3. CASE pc \in Polling
  BY <1>1, <1>3 DEF StepsLeft, Polling
<1> QED
  BY <1>2, <1>3

(* Polling goes round by way of a sleep, and each sleep takes of the code's
   lifetime or finds it over. *)
LEMMA PollGoesOn ==
  ASSUME TypeOK, pc \in Polling, Poll \/ Status \/ Sleep, pc' \in Polling
  PROVE  \/ /\ pc = "poll" /\ pc' = "status" /\ ~TimedOut /\ age' = age
         \/ /\ pc = "status" /\ pc' = "sleep" /\ age' \in age .. CodeTTL + 1
         \/ /\ pc = "sleep" /\ pc' = "poll"
            /\ age' \in age .. CodeTTL + 1
            /\ age' > age \/ age' = CodeTTL + 1
<1> USE PairConstants DEF TypeOK
<1>1. Tick(age) \in age .. CodeTTL + 1 /\ (Tick(age) > age \/ age = CodeTTL + 1)
  BY DEF Tick
<1>2. CASE Poll
  BY <1>2 DEF Poll, Goto, Finish, Polling, clock
<1>3. CASE Status
  BY <1>1, <1>3 DEF Status, Goto, Finish, Polling
<1>4. CASE Sleep
  BY <1>1, <1>4 DEF Sleep, Goto, Later, Polling
<1> QED
  BY <1>2, <1>3, <1>4

(* Outside the polls a step ends, rests, or is one line further on. *)
LEMMA StepGoesOn ==
  ASSUME TypeOK, PairStep, pc \notin Resting, pc \notin Polling
  PROVE  \/ pc' \in Resting
         \/ pc = "load" /\ pc' = "mint"
         \/ pc = "mint" /\ pc' = "fillid"
         \/ pc = "url" /\ pc' = "fillurl"
         \/ pc = "fillurl" /\ pc' = "token"
         \/ pc = "token" /\ pc' = "filltoken"
         \/ pc = "filltoken" /\ pc' = "linger"
         \/ Prompting /\ pc' = pc /\ left' = left - 1 /\ left # 0
<1> USE DEF Resting, Polling
<1>1. CASE ReuseID \/ GenerateID \/ TruncateID \/ FillID \/ StoreFails
  BY <1>1 DEF ReuseID, GenerateID, TruncateID, FillID, StoreFails, Goto, Finish
<1>2. CASE Connect \/ Request \/ Poll \/ Status \/ Sleep
  BY <1>2 DEF Connect, Request, Poll, Status, Sleep
<1>3. CASE WaitButton
  BY <1>3 DEF WaitButton, Prompting, OnRetry, Lapsed, Goto, Finish, run
<1>4. CASE TruncateURL \/ FillURL \/ TruncateToken \/ FillToken \/ Linger
  BY <1>4 DEF TruncateURL, FillURL, TruncateToken, FillToken, Linger, Goto, Finish
<1> QED
  BY <1>1, <1>2, <1>3, <1>4 DEF PairStep

LEMMA PollingSteps ==
  ASSUME TypeOK, PairStep, pc \in Polling
  PROVE  /\ Poll \/ Status \/ Sleep
         /\ pc' \in Resting \cup Polling \cup {"url", "expired"}
         /\ pc' = "expired" => left' = DecisionWindow
<1> USE DEF Polling, Resting
<1>1. Poll \/ Status \/ Sleep
  BY DEF PairStep, ReuseID, GenerateID, TruncateID, FillID, StoreFails, Connect, Request,
     WaitButton, Prompting, TruncateURL, FillURL, TruncateToken, FillToken, Linger
<1> QED
  BY <1>1 DEF Poll, Status, Sleep, Goto, Finish

LEMMA PairStepProgress ==
  ASSUME TypeOK, TypeOK', PairStep, pc \notin Resting, pc' \notin Resting
  PROVE  StepsLeft' \in Nat /\ StepsLeft' < StepsLeft
<1>1. /\ CodeTTL \in Nat /\ DecisionWindow \in Nat
      /\ age \in 0 .. CodeTTL + 1 /\ age' \in 0 .. CodeTTL + 1
      /\ left \in 0 .. DecisionWindow /\ left' \in 0 .. DecisionWindow
  BY PairConstants DEF TypeOK
<1>2. CASE pc \notin Polling
  BY <1>1, <1>2, StepGoesOn DEF StepsLeft, Before, Polling, Prompting
<1>3. CASE pc \in Polling /\ pc' \in Polling
  <2>1. Poll \/ Status \/ Sleep
    BY <1>3, PollingSteps
  <2>2. CASE pc = "poll" /\ pc' = "status" /\ ~TimedOut /\ age' = age
    BY <1>1, <2>2 DEF StepsLeft, Polling, PollsLeft, TimedOut
  <2>3. CASE pc = "status" /\ pc' = "sleep" /\ age' \in age .. CodeTTL + 1
    BY <1>1, <2>3 DEF StepsLeft, Polling, PollsLeft
  <2>4. CASE /\ pc = "sleep" /\ pc' = "poll"
             /\ age' \in age .. CodeTTL + 1
             /\ age' > age \/ age' = CodeTTL + 1
    BY <1>1, <2>4 DEF StepsLeft, Polling, PollsLeft, TimedOut
  <2> QED
    BY <1>3, <2>1, <2>2, <2>3, <2>4, PollGoesOn
<1>4. CASE pc \in Polling /\ pc' \notin Polling
  <2>1. pc' = "url" \/ (pc' = "expired" /\ left' = DecisionWindow)
    BY <1>4, PollingSteps
  <2>2. StepsLeft' \in Nat /\ StepsLeft' <= DecisionWindow + 5
    BY <1>1, <2>1 DEF StepsLeft, Before, Polling
  <2>3. StepsLeft \in Nat /\ StepsLeft >= DecisionWindow + 6
    BY <1>1, <1>4, StepsLeftIsNat
  <2> QED
    BY <1>1, <2>2, <2>3
<1> QED
  BY <1>2, <1>3, <1>4

(* The user, the watcher, the server and the clock of a tap leave the program
   where it is and its bounds as they are. *)
LEMMA OthersKeepSteps ==
  ASSUME [Next]_vars, pc \notin Resting, ~PairStep, ~Crash
  PROVE  UNCHANGED <<pc, age, left>>
<1>1. ASSUME NEW b \in {"cancel", "retry"}, Tap(b)
      PROVE  UNCHANGED <<pc, age, left>>
  BY <1>1 DEF Tap, run, clock
<1>2. CASE Latch \/ ClaimCode \/ ExpireCode \/ EditID \/ UNCHANGED vars
  BY <1>2 DEF Latch, ClaimCode, ExpireCode, EditID, vars, run, clock
<1>3. ~Start
  BY DEF Start, Resting
<1> QED
  BY <1>1, <1>2, <1>3 DEF Next

(* A pairing command that shows a code or a prompt rests after a number of
   steps that its bounds give, whatever the user, the dialog and the server do:
   the safety half of DialogsEnd (run.go, pollLoop and waitButton). *)
THEOREM DialogsProgress == Spec => DialogProgress
<1> DEFINE Forward ==
      pc \notin Resting =>
        \/ pc' \in Resting
        \/ /\ StepsLeft' \in 0 .. StepsLeft
           /\ PairStep => StepsLeft' # StepsLeft
<1>1. ASSUME TypeOK, TypeOK', [Next]_vars PROVE Forward
  <2> SUFFICES ASSUME pc \notin Resting, pc' \notin Resting
               PROVE  /\ StepsLeft' \in 0 .. StepsLeft
                      /\ PairStep => StepsLeft' # StepsLeft
    OBVIOUS
  <2>1. StepsLeft \in Nat
    BY <1>1, StepsLeftIsNat
  <2>2. CASE PairStep
    <3>1. StepsLeft' \in Nat /\ StepsLeft' < StepsLeft
      BY <1>1, <2>2, PairStepProgress
    <3> QED
      BY <2>1, <3>1
  <2>3. CASE ~PairStep
    <3>1. ~Crash
      BY DEF Crash, Finish, Resting
    <3>2. StepsLeft' = StepsLeft
      BY <1>1, <2>3, <3>1, OthersKeepSteps DEF StepsLeft, Before, Polling, PollsLeft, TimedOut
    <3> QED
      BY <2>1, <2>3, <3>2
  <2> QED
    BY <2>2, <2>3
<1>2. TypeOK /\ TypeOK' /\ [Next]_vars => [Forward]_vars
  BY <1>1
<1> QED
  BY <1>2, PairTyped, PTL DEF Spec, DialogProgress
=============================================================================
