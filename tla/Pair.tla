-------------------------------- MODULE Pair --------------------------------
(***************************************************************************)
(* One "kobo-sync pair" at a time: the request and poll loops of pair.Run, *)
(* the dialog with its latched button and watcher goroutine, the pairing   *)
(* server, the user's taps, and the files it stores step by step, as       *)
(* PairStore says for any number of pairings. Time is counted in poll      *)
(* cadences and only while a code is shown or a decision is awaited.  The  *)
(* operators with an underscore are defects the properties notice.         *)
(***************************************************************************)
EXTENDS Naturals

CONSTANTS
  Backend,         \* servers a device may be paired with
  Id,              \* hardware ids that may be generated
  CodeTTL,         \* lifetime of a code, in cadences
  DecisionWindow,  \* how long a Retry/Cancel prompt waits, in cadences
  ConnectMayFail,  \* may WiFi.Connect report failure?  (qndbWiFi never does)
  NoFile,          \* a file that was never written
  Empty,           \* a file that was truncated and not filled
  Garbled          \* a hardware-id file that was damaged or edited

ASSUME PairConstants ==
  /\ CodeTTL \in Nat
  /\ DecisionWindow \in Nat
  /\ ConnectMayFail \in BOOLEAN
  /\ {NoFile, Empty, Garbled} \cap (Backend \cup Id) = {}
  /\ NoFile # Empty
  /\ Garbled \notin {NoFile, Empty}

VARIABLES
  pc,       \* where Run is; "off" when no pairing runs
  target,   \* the --url this run pairs with
  id,       \* the hardware id this run sends
  result,   \* how the latest run ended
  dialog,   \* the dialog on screen
  pending,  \* a tap whose signal has not reached the watcher's latch
  last,     \* the latch, read and cleared by Poll
  code,     \* the server's view of the code this run shows
  age,      \* cadences since the code was shown
  left,     \* cadences left to decide
  hwid,     \* the hardware-id file
  url,      \* the url file
  token     \* the token file: the server that minted it

run == <<pc, target, id, result>>
screen == <<dialog, pending, last>>
clock == <<age, left>>
store == <<hwid, url, token>>
vars == <<run, screen, code, clock, store>>

File(content) == content \cup {NoFile, Empty}

(* A tap remembers the dialog it was made on; the program does not. *)
NoTap == [button |-> "none", on |-> "none"]

Tapped(b) == [button |-> b, on |-> dialog]

Buttoned == {"code", "expired", "nowifi"}

(* Counters stop one past the bound they are compared with. *)
Later(t) == t .. CodeTTL + 1

Tick(t) == IF t <= CodeTTL THEN t + 1 ELSE t

Init ==
  /\ pc = "off"
  /\ target \in Backend
  /\ id \in Id
  /\ result = "none"
  /\ dialog = "none"
  /\ pending = NoTap
  /\ last = NoTap
  /\ code = "none"
  /\ age = 0
  /\ left = 0
  /\ hwid \in Id \cup {NoFile}
  /\ url \in Backend \cup {NoFile}
  /\ token = url

-----------------------------------------------------------------------------
(* The user.  A tap may dismiss the dialog; one that comes while another is
   on its way finds the watcher not armed. *)
Tap(b) ==
  /\ dialog \in Buttoned
  /\ pending = NoTap
  /\ pending' = Tapped(b)
  /\ dialog' \in {dialog, "dismissed"}
  /\ UNCHANGED <<run, last, code, clock, store>>

(* The watcher goroutine latches the tap, whatever dialog is up by then, or
   was between two arms and misses it. *)
Latch ==
  /\ pending # NoTap
  /\ last' \in {pending, last}
  /\ pending' = NoTap
  /\ UNCHANGED <<run, dialog, code, clock, store>>

ClaimCode ==
  /\ code = "live"
  /\ age <= CodeTTL
  /\ code' = "claimed"
  /\ UNCHANGED <<run, screen, clock, store>>

ExpireCode ==
  /\ code = "live"
  /\ code' = "gone"
  /\ UNCHANGED <<run, screen, clock, store>>

-----------------------------------------------------------------------------
Finish(r) ==
  /\ pc' = "off"
  /\ result' = r
  /\ UNCHANGED <<target, id>>

Goto(label) ==
  /\ pc' = label
  /\ UNCHANGED <<target, id, result>>

(* Poll() hands over the latched button and clears it. *)
TakeButton == last' = NoTap

Show(d) == dialog' = d

Start ==
  /\ pc = "off"
  /\ \E b \in Backend : target' = b
  /\ pc' = "load"
  /\ result' = "none"
  /\ dialog' = "none"
  /\ pending' = NoTap
  /\ last' = NoTap
  /\ code' = "none"
  /\ age' = 0
  /\ left' = 0
  /\ UNCHANGED <<id, store>>

(* Edited, removed or damaged from outside, but not inside a write of it. *)
EditID ==
  /\ pc # "fillid"
  /\ hwid' \in Id \cup {NoFile, Garbled}
  /\ UNCHANGED <<run, screen, code, clock, url, token>>

(* The hardware-id file: a valid id that can be read is reused, anything else
   replaced. *)
ReuseID_Unvalidated ==
  /\ pc = "load"
  /\ hwid # NoFile
  /\ pc' = "wifi"
  /\ id' = hwid
  /\ UNCHANGED <<target, result, screen, code, clock, store>>

ReuseID ==
  /\ pc = "load"
  /\ hwid \in Id
  /\ pc' = "wifi"
  /\ id' = hwid
  /\ UNCHANGED <<target, result, screen, code, clock, store>>

GenerateID ==
  /\ pc = "load"
  /\ pc' = "mint"
  /\ id' \in Id
  /\ UNCHANGED <<target, result, screen, code, clock, store>>

TruncateID ==
  /\ pc = "mint"
  /\ Goto("fillid")
  /\ hwid' = Empty
  /\ UNCHANGED <<screen, code, clock, url, token>>

FillID ==
  /\ pc = "fillid"
  /\ Goto("wifi")
  /\ hwid' = id
  /\ UNCHANGED <<screen, code, clock, url, token>>

(* No random bytes, or a file that cannot be opened or written. *)
StoreFails ==
  /\ pc \in {"load", "mint", "fillid", "url", "fillurl", "token", "filltoken"}
  /\ Finish("fatal")
  /\ Show("error")
  /\ UNCHANGED <<pending, last, code, clock, store>>

Connect ==
  /\ pc = "wifi"
  /\ \/ /\ Goto("request")
        /\ UNCHANGED <<dialog, left>>
     \/ /\ ConnectMayFail
        /\ Goto("nowifi")
        /\ Show("nowifi")
        /\ left' = DecisionWindow
  /\ UNCHANGED <<pending, last, code, age, store>>

(* A code, a refusal, or a transient answer: sleep and ask again, for as long
   as it takes and deaf to Cancel. *)
Request ==
  /\ pc = "request"
  /\ \/ /\ Goto("poll")
        /\ Show("code")
        /\ code' = "live"
        /\ age' = 0
        /\ UNCHANGED left
     \/ /\ Finish("fatal")
        /\ Show("error")
        /\ UNCHANGED <<code, clock>>
     \/ UNCHANGED <<run, dialog, code, clock>>
  /\ UNCHANGED <<pending, last, store>>

TimedOut_Never == FALSE

TimedOut == age > CodeTTL

Poll ==
  /\ pc = "poll"
  /\ TakeButton
  /\ \/ /\ last.button = "cancel"
        /\ Finish("cancelled")
        /\ UNCHANGED dialog
     \/ /\ last.button # "cancel"
        /\ TimedOut
        /\ Finish("expired")
        /\ Show("expired")
     \/ /\ last.button # "cancel"
        /\ ~TimedOut
        /\ Goto("status")
        /\ UNCHANGED dialog
  /\ UNCHANGED <<pending, code, clock, store>>

(* The status call may take its time, and any answer may instead be a
   transient one. *)
Status ==
  /\ pc = "status"
  /\ age' \in {age, Tick(age)}
  /\ \/ /\ code = "claimed"
        /\ Goto("url")
        /\ UNCHANGED <<dialog, left>>
     \/ /\ Goto("sleep")
        /\ UNCHANGED <<dialog, left>>
     \/ /\ code = "gone"
        /\ Goto("expired")
        /\ Show("expired")
        /\ left' = DecisionWindow
     \/ /\ Finish("fatal")
        /\ Show("error")
        /\ UNCHANGED left
  /\ UNCHANGED <<pending, last, code, store>>

(* One cadence, or as long as the server's Retry-After says. *)
Sleep_Untimed ==
  /\ pc = "sleep"
  /\ Goto("poll")
  /\ UNCHANGED <<screen, code, clock, store>>

Sleep ==
  /\ pc = "sleep"
  /\ Goto("poll")
  /\ age' \in Later(Tick(age))
  /\ UNCHANGED <<screen, code, left, store>>

(* waitButton, under the No-WiFi and the expired prompt. *)
Prompting == pc \in {"nowifi", "expired"}

OnRetry == IF pc = "nowifi" THEN "wifi" ELSE "request"

GiveUp == IF pc = "nowifi" THEN "cancelled" ELSE "expired"

Lapsed_Never == FALSE

Lapsed == left = 0

WaitButton ==
  /\ Prompting
  /\ TakeButton
  /\ \/ /\ last.button = "retry"
        /\ Goto(OnRetry)
        /\ UNCHANGED left
     \/ /\ \/ last.button = "cancel"
           \/ last.button = "none" /\ Lapsed
        /\ Finish(GiveUp)
        /\ UNCHANGED left
     \/ /\ last.button = "none"
        /\ ~Lapsed
        /\ left' = left - 1
        /\ UNCHANGED run
  /\ UNCHANGED <<dialog, pending, code, age, store>>

(* The url, then the token, each truncated and then filled.  The email and
   paired-at files, which only "about" shows, are left out. *)
TruncateURL_ErrorIgnored ==
  /\ pc = "url"
  /\ \/ Goto("fillurl") /\ url' = Empty
     \/ Goto("token") /\ UNCHANGED url
  /\ UNCHANGED <<screen, code, clock, hwid, token>>

TruncateURL ==
  /\ pc = "url"
  /\ Goto("fillurl")
  /\ url' = Empty
  /\ UNCHANGED <<screen, code, clock, hwid, token>>

FillURL ==
  /\ pc = "fillurl"
  /\ Goto("token")
  /\ url' = target
  /\ UNCHANGED <<screen, code, clock, hwid, token>>

TruncateToken ==
  /\ pc = "token"
  /\ Goto("filltoken")
  /\ token' = Empty
  /\ UNCHANGED <<screen, code, clock, hwid, url>>

FillToken_ErrorIgnored ==
  /\ pc = "filltoken"
  /\ Goto("linger")
  /\ token' \in {target, token}
  /\ Show("paired")
  /\ UNCHANGED <<pending, last, code, clock, hwid, url>>

FillToken ==
  /\ pc = "filltoken"
  /\ Goto("linger")
  /\ token' = target
  /\ Show("paired")
  /\ UNCHANGED <<pending, last, code, clock, hwid, url>>

Linger ==
  /\ pc = "linger"
  /\ Finish("paired")
  /\ UNCHANGED <<screen, code, clock, store>>

(* The process dies; a file it truncated stays empty. *)
Crash ==
  /\ pc # "off"
  /\ Finish("none")
  /\ Show("none")
  /\ pending' = NoTap
  /\ last' = NoTap
  /\ UNCHANGED <<code, clock, store>>

-----------------------------------------------------------------------------
PairStep ==
  \/ ReuseID
  \/ GenerateID
  \/ TruncateID
  \/ FillID
  \/ StoreFails
  \/ Connect
  \/ Request
  \/ Poll
  \/ Status
  \/ Sleep
  \/ WaitButton
  \/ TruncateURL
  \/ FillURL
  \/ TruncateToken
  \/ FillToken
  \/ Linger

Next ==
  \/ \E b \in {"cancel", "retry"} : Tap(b)
  \/ Latch
  \/ EditID
  \/ ClaimCode
  \/ ExpireCode
  \/ Start
  \/ PairStep
  \/ Crash

Spec == Init /\ [][Next]_vars

-----------------------------------------------------------------------------
TypeOK ==
  /\ pc \in {"off", "load", "mint", "fillid", "wifi", "nowifi", "request",
             "poll", "status", "sleep", "expired", "url", "fillurl",
             "token", "filltoken", "linger"}
  /\ target \in Backend
  /\ id \in Id
  /\ result \in {"none", "paired", "cancelled", "expired", "fatal"}
  /\ dialog \in Buttoned \cup {"none", "dismissed", "paired", "error"}
  /\ {pending, last} \subseteq
       [button : {"none", "cancel", "retry"}, on : {"none"} \cup Buttoned]
  /\ code \in {"none", "live", "claimed", "gone"}
  /\ age \in 0 .. CodeTTL + 1
  /\ left \in 0 .. DecisionWindow
  /\ hwid \in File(Id) \cup {Garbled}
  /\ url \in File(Backend)
  /\ token \in File(Backend)

(* A paired device also has the url file, if only an empty one, whatever write
   failed and wherever the process died: the url is written before the token
   (run.go, pollLoop). *)
PairedHasURL == token # NoFile => url # NoFile

(* The exit code is 0 only when a token was written, and then autosync talks
   to the server that minted it (main.go, runPair). *)
ExitCodeHonest == result = "paired" => token = target /\ url = target

Resting == {"off", "wifi", "request"}

(* A code is polled until it is paired, refused, cancelled or timed out, and a
   prompt is left when its window lapses: a walked-away device never sits on a
   dialog for ever (run.go, waitButton).  Only the code request may go on, and
   the user may ask for WiFi or for a code again. *)
DialogsEnd ==
  pc \notin Resting ~> pc \in Resting

FairSpec == Spec /\ WF_vars(PairStep)

(* The most steps the program takes before it is off, or asks for WiFi or for a
   code: those of a save, of a prompt, and of a poll in each cadence that the
   code has left. *)
Before ==
  [load |-> 3, mint |-> 2, fillid |-> 1, linger |-> 1, filltoken |-> 2,
   token |-> 3, fillurl |-> 4, url |-> 5, nowifi |-> left, expired |-> left]

Polling == {"poll", "status", "sleep"}

PollsLeft == 3 * (CodeTTL + 1 - age)

StepsLeft ==
  IF pc \notin Polling THEN Before[pc]
  ELSE DecisionWindow + 6 + PollsLeft
       + CASE pc = "poll" -> IF TimedOut THEN 0 ELSE 3
           [] pc = "status" -> 2
           [] pc = "sleep" -> 1

(* No code and no prompt outlasts its bound: each step of the program lowers
   what is left of it until it rests, and no tap, missed tap or answer of the
   server raises it (run.go, pollLoop and waitButton). *)
DialogProgress ==
  [][pc \notin Resting =>
       \/ pc' \in Resting
       \/ /\ StepsLeft' \in 0 .. StepsLeft
          /\ PairStep => StepsLeft' # StepsLeft]_vars

(* A code that expired is never replaced without the user asking for it on the
   expired prompt (display.go: the code dialog's OK is harmless). *)
RetryMeansRetry ==
  [][pc = "expired" /\ pc' = "request" => last.on = "expired"]_vars

(* When the local TTL stops a run its code is dead: nobody claimed it. *)
TimedOutMeansDead ==
  [][Poll /\ result' = "expired" => code # "claimed"]_vars

-----------------------------------------------------------------------------
(* From WiFi to the claim, PairStore only sees a pairing that is ready. *)
Place ==
  CASE pc = "off" -> "idle"
    [] pc \in {"wifi", "nowifi", "request", "poll", "status", "sleep",
               "expired"} -> "ready"
    [] pc = "linger" -> "done"
    [] OTHER -> pc

This == {"this"}

Store == INSTANCE PairStore WITH
  Pairing <- This,
  at <- [p \in This |-> Place],
  target <- [p \in This |-> target],
  id <- [p \in This |-> id]

(* The pairing command does to the files what PairStore says, whatever the
   dialog, the user, the server and the clock do (run.go, state.go). *)
ImplementsPairStore == Store!Spec
=============================================================================
