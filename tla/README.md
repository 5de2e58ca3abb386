# kobo-sync in TLA+

`kobo-sync` is a Go program that runs on a Kobo e-reader. It pairs the device
with a Librito account and sends the reader's highlights to Librito, either
when udev sees the WiFi come up, when a resident daemon sees a new highlight,
or when the user asks. Each of these is a process of its own; they meet in a
lock file, a small record file, the database that Nickel (the Kobo's own
software) writes, and the server. This project specifies that concurrent core,
model-checks it with TLC on small instances and proves its main invariants
with TLAPS for every instance.

## 1. The system

### Components

| Component | Source (under `src/`) | State it keeps | Operations | What makes it correct |
|---|---|---|---|---|
| Sync engine | `internal/autosync/run.go`, `outcome.go`, `syncer.go` | none between runs | `Run`: lock, token, wait, sync, growth, record, toast | runs do not overlap; every run ends; a toast is news |
| Lock | `autosync/lock.go` | a flock on `/tmp` | `TryLock`, unlock, release on death | one holder; never left behind |
| Last-sync record | `autosync/record.go` | `last-sync` and its `.tmp` | `Record`, `LastCount`, `LoadRecord` | never torn; a success is durable; the count is of a set the server holds |
| Connectivity | `autosync/wait.go`, `prober.go` | none | `Probe`, `WaitForConnectivity` | bounded |
| Toast | `autosync/ndb.go` | none | `CurrentView`, `Toast` | never over a page |
| Backend and token | `autosync/config.go` | reads `token`, `url` | `Token`, `BaseURL`, `ResolveBaseURL` | token and backend belong together |
| Result log | `autosync/log.go` | `autosync.log` | `Log`, `capLog` | bounded; newest lines kept |
| Import client | `internal/sync/*.go` | none | `Run`, `PostImport` | full set, idempotent import |
| Highlight reader | `internal/kobo/*.go` | reads `KoboReader.sqlite` | `ReadHighlights`, `ReadHighlightSignature` | the two queries see the same rows |
| Row mapping | `internal/transform/*.go` | none | `BuildItem` and its helpers | total, no false ISBN or zone; no row spoils the batch |
| Watch daemon | `internal/watch/*.go` | baseline signature, inotify queue | `Run`, `drain`, `evaluate` | no capture goes unheard |
| Pairing flow | `internal/pair/run.go`, `classify.go`, `client.go` | the code on screen and its age | request, poll, prompts | ends; exit code 0 means paired |
| Pairing dialog | `internal/pair/display.go` | latched button, watcher goroutine | `ShowCode`, `Update*`, `Poll`, `Close` | a tap means what its dialog said |
| Pairing store | `internal/pair/state.go`, `hwid.go` | `hardware-id`, `token`, `url`, `email`, `paired-at` | `LoadOrCreateHardwareID`, `Write*` | url before token; the hardware id changes only when its file is lost |
| WiFi driver | `internal/pair/wifi.go` | none | `Connect` | bounded |
| Model detection | `internal/pair/model.go` | none | `DetectModel` | total |
| Status text | `internal/status/status.go` | none | `DecideStatusLine`, `DecideSyncResult`, `AboutLines` | says what the record says |
| Command line | `main.go`, `route.go`, `dispatch.go`, `args.go`, `command.go` | none | one handler per command | wires one record and one lock into all |

### How they interact

* Three kinds of process call `autosync.Run`: the udev rule's `autosync` (60 s
  connectivity bound), the daemon's delegated runs (5 s) and `sync-now` (5 s,
  no toast). They share the flock and the record. `sync` posts without either.
* Nickel writes `KoboReader.sqlite` through its WAL at any time; the daemon's
  inotify watch on the directory turns WAL writes into events, the engine only
  reads.
* The server applies an import when it arrives, which may be after the sender
  gave up. Import is additive and idempotent; the device re-sends the full set.
* `pair` writes `hardware-id`, `url` and `token`, without a lock, also when another
  `pair` does; each run reads `token` before it waits for connectivity and `url`
  after.
* Every run and the daemon append to `autosync.log` and cut it back to its cap,
  without a lock; the udev rules redirect the processes' output into the same file.
* The pairing dialog is driven by one `qndb` process per call; a goroutine
  waits for the button signal and latches it for the polling loop.

### What is hard

Triggers coincide; captures fall between any two reads; the link drops between
probe and POST; a request is lost or answered too late; a process or the whole
device dies with a file half written; the view changes between the probe and
the toast; a button is tapped on a dialog that is gone by the time it is read.
`PROJECT.json` lists these hazards, each at its line, with the property that
watches it or the reason none does yet.

## 2. Modules

```
SerialSync            the engine's contract: one run at a time, settle on confirmation
   ^ implements
Autosync              processes, flock, record files, requests, dates, toast
   ^ extends
Watch                 Nickel's WAL events, the daemon, its debounce, its delegated runs

PairStore             the files of any number of pairings, written in place, no lock
   ^ implements   ^ extends
Pair              StoreReaders   the runs that read token and url beside them
the command, the dialog, the server

RollingLog            the log's contract: lines are added, the oldest go in one step
   ^ implements
LogFile               the result log and its unlocked writers

MCAutosync MCWatch MCPair MCStore MCLogFile                instances for TLC
AutosyncProofs WatchProofs PairProofs StoreProofs          theorems
LogProofs LogNewestProofs LogContractProofs                theorems on LogFile
```

Operators with an underscore (`Stamp_Fresh`, `Grew_CountOnly`, ...) are
deliberate defects, each next to the definition it perturbs. Substituted for
it, each one breaks a stated property: they show that the property depends on
that line of the code. No specification uses them.

### Autosync

One action per step of `Run` that blocks or touches shared state. `pc[p]` is
where process `p` is in `Run`:

| `pc` | action | code |
|---|---|---|
| `idle` | `TryLock` | `run.go` 36-44, `lock.go` |
| `token` | `CheckToken` | `run.go` 46-50 |
| `wait` | `WaitForConnectivity` | `wait.go` 17-28 |
| `read` | `ReadHighlights` | `kobo/read.go` |
| `post` | `SendImport` | `sync/client.go` 38-57 |
| `await` | `AwaitReply`, `PostError` | `sync/client.go` 57-88 |
| `count` | `CountGrowth` | `run.go` 70 |
| `record` | `WriteTmp` | `record.go` 55-84 |
| `rename` | `Rename` | `record.go` 85 |
| `view` | `ProbeView` | `run.go` 102-113 |
| `show` | `ShowToast` | `run.go` 114, and the return |

`Return` is the deferred unlock and the end of `Run`; `Fail` is the
`record(OutcomeOffline | OutcomeError)` branch, after which no growth is
counted. `Crash` is the death of the process: the kernel drops its flock and a
temporary file it was writing may stay `Torn`. Beside the runs, the environment
captures and hides highlights, toggles the link, changes the view, runs the
lock-free `sync` command, and applies, refuses or loses requests. `CheckToken` may
find a token or none: which is the business of `StoreReaders`.

Rows are told apart as far as a run could stumble over them. A highlight in
`Blank` has a text of tabs or newlines: the queries' `trim()`, which strips
spaces only, lets it through, and `BuildItem` drops it. A highlight in `Undated`
has a `DateCreated` that is no timestamp: `NormalizeTimestamp` turns it into
null, and one sent raw would make the server refuse the whole batch, at every
run. `StatusLine` is what `kobo-sync status` prints, without how long ago.

Abstractions: the three sysfs signals are one bit; a highlight is a model value
with a life of absent, visible, hidden; the server is a set that only grows; the
wait is counted in cadences, and a sleep may take several of them; the record's
two time stamps are reduced to whether there ever was a success; the `items`
field of a record and `told` are ghosts that the properties speak of. The
server's `imported` count is taken to be the size of the batch, which is what
`outcome.go` 60-61 says it is. A run counts as answered when the server holds
its snapshot, so two requests for the same set are not told apart, and the
answer to one may come although the other was lost.

### SerialSync

Take a snapshot, let the server import what was captured, settle only when it
holds the whole snapshot, or abandon. The refinement maps `ledger` to
`record.items` and `flight` to the snapshot of the process between its read
and its rename: the lock makes that process unique, and the rename is where a
run settles. Captures, hides and imports map to themselves, and everything
else stutters.

### Watch

Extends Autosync with one process, `Daemon`, that calls `Run` from
`evaluate`. `dpc` follows `watch.go`: `armed` (inotify is up, `main.go` 190),
`locked`, `based`, `listen`, `drain`, `sign`, `decide`, `run`. `DatedCapture` and
`HideWrite` date the highlight and enqueue a WAL event, and `Chatter` is every
other WAL write. `Recover` is the panic handler, `Die` the death of the daemon,
or the closing of its event channel, whatever it was doing. The signature is
computed from the sets `prev` and `cur`, which are kept whole so that properties
can say what the count and the greatest date stand for. `looked` and `excused`
are history variables. A commit and its WAL event are one step: the debounce
window of seconds separates them from any read. The daemon's own lock means one
daemon: a second one exits at once. The queue saturates at `WalBound`; past that
the code's channel and the kernel's queue hold more events of the same kind,
which one drain consumes together.

Time passes only in a drain. `age` and `quiet` are the ticks since the first and
the latest event of the burst, `DebounceWait` is `debounce.go` over them,
`DrainEvent` an event that restarts the silence, `DrainDone` the timer. `Tick`
stops while the timer is due, as nothing else the daemon could notice happens
later; an event that is queued by then may still be the one `select` takes.

### PairStore and StoreReaders

`PairStore` has any number of `pair` processes. `os.WriteFile` truncates and then
writes, so a file is `Empty` between the two, and stays so after a death, a
failed write, or an open that is not followed by one. Two writers whose contents
differ in length may leave the tail of one behind the other (`Garbled`); hardware
ids are all of one length. A fill is otherwise all or nothing. `Leave` is
every return, failure and death.

`LoadOrCreateHardwareID` (`state.go` 26-44) generates and writes a new id whenever it
does not get a valid one: the file is missing, its read fails, or its content does not
have the form of an id, having been edited or damaged. So `GenerateID` may be taken
whatever the file holds, `ReuseID` only if it holds a valid id, and `EditID` is
the outside world, which reaches the file over USB, changing it to anything: another
id, something that is none (`Garbled`), or no file.

`StoreReaders` adds runs of the engine, which read the token, wait, and resolve
the url, and the requests that carry a hardware id to a server. `Resolve` is
`ResolveBaseURL`, with the set of urls it accepts as a constant. A backend stands
for its url and for a token it minted. `posted` is the token that last left the
device and `registered` the ids that ever did. `mishaps` counts what may cost the
device an identity: an edit of the file, and a creation of an id that begins while the
file holds a valid one (it failed to read) or while another pairing is creating one.
`IdentityKept` says that servers see one id and at most one more per mishap, so
that a death, a failed write, or any other interleaving of pairings costs none.
`MaxMishaps` bounds the count in the guards of the steps that raise it. A save is what a pairing does
from the truncation of the url to the fill of the token. It is `alone` if no other
save was under way at its start or began before its end; the files are `settled`
once such a save is complete, until the next begins, and a run is `calm` if it
read its token then and no save has begun since. These are history variables: they
say for which runs token and url should agree, and no step depends on them.

### Pair

One pairing, with all that `PairStore` leaves out. `pc` follows `pair/run.go`; the
dialog is what is on screen, `pending` a tap whose signal is on its way to the
watcher goroutine, `last` the latch. Both remember the dialog they were made on,
which the program does not. `Latch` may miss a tap (the watcher was between two
`qndb` calls). Time is counted in poll cadences and passes where the code
sleeps or waits for the network. The refinement maps its one process to the
only member of `PairStore`'s `Pairing`, everything between WiFi and the claim
to `ready`, and files and ids to themselves.

### LogFile

The log is a sequence of cells: bytes, or any fixed share of a line. A cell knows
its line, its place in it, and how much of the line follows, which is all that
`capLog`, looking for a line end, can tell apart. `Log` is five steps: append, check,
truncate, fill, and leaving in between. `O_APPEND` makes each append go to the end
of the file as it is then, while the rewrite goes to offset 0, so an append that
falls between a truncation and its fill is overwritten (`Overwrite`). `Redirected`
is output of the processes that the shell of a udev rule appends; nobody checks
the size after it.

### RollingLog

The log as one writer that trims it in a step: a line is added, or the log, over
its cap, loses its oldest lines and at most one line more than it must; or it is
damaged, after which nothing is promised, as logging is best effort. The refinement
maps `sound` to `~lost`, and `text` to the file, except between a truncation and its
fill, when the file is empty and says, for the contract, what its rewriter has in
hand. A trim happens at the truncation; reading, filling and a death that leaves
the file alone stutter.

## 3. What TLC checks

Every question has one run; the instances are in the `.cfg` files.

| Run | Instance | Shows |
|---|---|---|
| `autosync_safety` | 2 callers (one silent), 2 highlights, wait bound 1 | types, serialization, honest record, toast is news, baseline never goes back |
| `autosync_faults` | 2 callers, 1 highlight, 2 views, failing writes, run fairness | the record stays honest, the engine implements SerialSync, each step brings a run nearer its end, every run ends and frees the lock |
| `autosync_delivery` | 2 callers, a highlight without a date, recurring triggers, token and link | a highlight that has text and stays reaches the server |
| `watch_daemon` | daemon and udev, 1 highlight, window and cap 1, chattering WAL, daemon fairness | no lost wakeup; the baseline advances for cause; every capture is evaluated |
| `watch_growth` | daemon, 2 highlights, one blank, window 2, cap 3 | count and date miss no addition, the baseline advances for cause, what the server misses is growth at the next evaluation, each step and tick brings an evaluation nearer its end |
| `pair_flow` | 2 backends, 2 ids, TTL 2, window 1, program fairness | url before token; exit code honest; codes and prompts do not stay for ever, and each step brings them nearer their end; the files change as PairStore says |
| `store` | 2 pairings, 3 ids, 2 backends, 1 run, at most 1 mishap | token needs url; one identity, and one more per mishap; a save left alone repairs what others left |
| `log` | 3 writers, cap 4, lines of 1 or 2 cells, 6 lines | size bounded; whole lines; newest kept; as good as a log trimmed in one step |
| `watch_dedup` | expected violation | a dedup need not be covered by the holder's run |
| `pair_retry`, `pair_claim` | expected violations | see Findings |
| `store_backend` | expected violation: 1 pairing, 1 run | a re-pairing lets a token go to another backend |

### Bounds, and why they are enough

* Two callers: the lock distinguishes the holder from the others, and every
  interleaving of concern (dedup, a death of one beside a run of another, a
  record read by one and written by the other) needs two. The theorems of
  section 4 cover any number.
* Two highlights: one counted and one new, or one deleted and one added. One
  where a property is per highlight. `Blank` is checked in `watch_growth`, where
  the signature counts what is not sent, and `Undated` in `autosync_delivery`,
  where a bad date could stop a batch; the theorems cover both everywhere.
* A wait bound of one cadence lets a run probe, sleep and probe again. It is zero
  in `Watch`, since the daemon only delegates when connected, and in
  `autosync_delivery`, where a wait that lapses is one more attempt that failed.
* `WalBound = 1` distinguishes an empty from a non-empty queue, which is all
  the daemon can see; an event that comes on top of a queued one is absorbed by
  the same drain or starts the next.
* `Window = 2` and `Cap = 3`: a silence can be broken, and the cap can cut a
  window short. Where liveness is checked both are 1, which suffices for a
  WAL that is never silent for a window.
* `Date` has one value more than there are highlights, so that each may be
  dated later than all before it, or, after a clock step, not.
* `CodeTTL = 2` and `DecisionWindow = 1` let a code live through a full poll,
  time out on the boundary and past it, and a prompt be asked once before it lapses.
  Counters stop one past their bound. The violations have 3 and 2.
* Two trusted backends and two pairings: another server and a race for each file.
  What `ResolveBaseURL` refuses (here an empty or a garbled url) goes to the default
  one, as would a backend that is not trusted. One run reads: runs do not touch
  each other's reads.
* `MaxMishaps = 1` and three ids: the mishap may come before, between and after the
  pairings, and a third id is there to break the bound. The theorem covers any number.
* Three writers, so that two can disturb a third; a cap of four cells and lines of
  up to two, so that a cut falls on a line end or inside a line; `MaxLines = 6`
  fills the log past its cap twice. `MaxLines` bounds the model only.

### Fairness

* `RunFairness`: weak fairness of a run's own steps, nothing else. A started
  process is scheduled; its blocking calls end because the wait is bounded
  (`wait.go`) and the client has a timeout (`client.go` 56), which is why
  `PostError` may always be taken and is part of the fair step.
* `DeliverySpec` adds what only the surroundings can grant: deaths cease, and
  triggers, token, link, database and server, each blocked again and again, get
  through sometimes (strong fairness). The server's fairness is for batches it
  accepts: it is never assumed to take one with a date that is none. It is an assumption
  on the world, stated because delivery cannot hold without it.
* `WatchFairSpec`: the daemon is scheduled and time passes (`Tick`). That a drain
  ends however noisy the WAL is not assumed but follows from the cap. Nothing is
  assumed of the run that may hold the lock, of captures, chatter, deaths or
  triggers.
* `Pair!FairSpec`: weak fairness of the program's step. The user, the server
  and the watcher goroutine are not assumed to do anything.
* `PairStore`, `StoreReaders` and `LogFile` state no fairness: their properties
  are safety.

`Delivered`, `RunsEnd`, `CaptureEvaluated` and `DialogsEnd` are liveness
properties, which rest on TLC. Of the last three the part that needs no fairness
is stated on its own and proved: `RunProgress`, `EvaluationProgress` and
`DialogProgress` give a natural number that the steps in question lower and that
nothing else in the system raises (`StepsLeft` of a run and of a pairing, `WorkLeft`
of the daemon). That those steps are possible and get scheduled is what is left
to fairness and to TLC.

## 4. What is proved

The theorems hold for every set of processes, pairings, ids and backends, every
finite set of highlights (and of log writers) and every bound, under the named
assumptions on the constants.

| Theorem | Statement | Argument |
|---|---|---|
| `TypeCorrect` | `Spec => []TypeOK` | `TypeInv`: types, `LockOwned`, `Recording` |
| `Serialized` | `Spec => []OneRunAtATime` | from `LockOwned` |
| `HonestRecord` | `Spec => []RecordHonest` | `Inv` = `TypeInv`, `RecordHonest`, `Known` |
| `DurableBaseline` | `Spec => BaselineNeverForgets` | a step from `Inv`; only `Rename` matters |
| `Refinement` | `Spec => ImplementsSerialSync` | one step lemma per action on top of `Inv` |
| `RunsProgress` | `Spec => RunProgress` | `WaitBounded`, one measure for every place in `Run` |
| `ToastOnlyNews` | no failing writes: `Spec => []ToastIsNews` | what was announced is counted or in the running snapshot |
| `PairTyped` | `Spec => []TypeOK` (Pair) | inductive as it stands |
| `URLBeforeToken` | `Spec => []PairedHasURL` | `Saved` |
| `PairedMeansStored` | `Spec => []ExitCodeHonest` | `Saved` |
| `FilesAsSpecified` | `Spec => ImplementsPairStore` | each step of the command is a step of PairStore or leaves its files and its place alone |
| `DialogsProgress` | `Spec => DialogProgress` | a step of the program lowers `StepsLeft`; the rest leave it alone |
| `StoreTyped` | `StoreSpec => []StoreTypeOK` | inductive as it stands |
| `TokenHasURL` | `StoreSpec => []TokenNeedsURL` | `URLInv` |
| `IdentityPerMishap` | `StoreSpec => []IdentityKept` | `Paid` |
| `LonePairingRepairs` | `StoreSpec => []PairingRepairs` | `RepairInv` |
| `LogBounded` | `Spec => []SizeBounded` | `SizeInv` |
| `LogReadable` | `Spec => []WholeLines` | `WholeInv` |
| `LogKeepsNewest` | `Spec => []NewestKept` | `NewestInv` |
| `LogIsRolling` | `Spec => ImplementsRollingLog` | `HandInv` on top of `NewestInv`; only `Truncate` trims |
| `WatchTyped` | `WatchSpec => []WatchTypeOK` | `DaemonTyped`, and Autosync's `TypeCorrect` |
| `EveryCaptureHeard` | `WatchSpec => []NoLostWakeup` | `Hearing` |
| `AdditionsShow` | clock forward, all dated: `WatchSpec => []AdditionSeen` | `Dated` |
| `BaselineForCause` | clock forward, all dated: `WatchSpec => []AdvanceForCause` | `Caused`, with `Dated` and the engine's `Inv` |
| `RetryIsCertain` | clock forward, all dated: `WatchSpec => []MissingIsGrowth` | from `Caused`, `Dated` and the engine's `Inv` |
| `EvaluationsProgress` | `WatchSpec => EvaluationProgress` | `DaemonTyped` and `WaitBounded`; the delegated run by its own measure |
| `DaemonIsACaller` | `WatchSpec => Spec` | every step of the daemon's world is a step of the engine's, or a stutter |
| `EngineBesideDaemon` | `WatchSpec => ImplementsSerialSync`, and the engine's invariants | `DaemonIsACaller` and the engine's theorems |

*Why the strengthenings.* `record \in RecordType` is not inductive: `Rename`
moves `tmp` into it, so `Recording` says that a process about to rename finds
in `tmp` exactly the stamp of what it would record. That holds because nobody
else is past the lock (`LockOwned`), even though a crash may leave `tmp` torn:
the next holder writes it again first. `RecordHonest` needs to know that a
snapshot which reached `count` is on the server; `BaselineNeverForgets` needs
that, while a run is in flight, every counted and still visible highlight is in
its snapshot. Both are parts of `Known`. They hold because the record cannot
move between a run's read and its rename. `Hearing` strengthens
`NoLostWakeup` to all states of the daemon from the start of an evaluation on,
and `Dated` says that what is visible and not in a signature's set is younger
than all that is in it. `Caused` follows a delegated run: what the signature
counted and can be sent is in the run's snapshot once it has read, and on the
server once it is answered, so a baseline that moves on exit code 0 moves over
nothing else. It needs `Dated`, because a signature that shows no growth is
absorbed without a run.

The files need their writers. `URLInv` adds that a pairing past the url's
truncation has a url file. `Paid` is a
balance: `Held` are the ids registered, on disk, or in the hands of pairings, and
`Creating` the pairings on their way to another. Together they never outnumber the
mishaps by more than one, nor by any while there is no id on disk and none being
created. Each step keeps it: what a pairing fills the file with it was creating
before, a death while creating gives up the id together with the place it was to
take, and a creation that begins otherwise than on a device without an id is
itself a mishap. `RepairInv` says that a save which is
alone is the only one, and that the file it has truncated is blank and the one it
has filled is its own, so that no tail of an older content survives its fills; that
settled files agree and nobody is writing them; and that a calm run holds the token
on disk. `SizeInv` bounds, besides the log, the copies about to replace it.
`WholeInv` says that those copies are whole lines, none newer than the latest,
and that the log is empty before a fill. `NewestInv` says that a copy about
to replace the log is, like the log itself, the end of all that was logged, and
that every line goes on to its end within the longest length. They rest on lemmas
about `CapLog`: its result is at most the cap (`CapLogBounds`), of whole lines a
run of whole lines (`WholeCap`), and it drops less than a line beyond what it must
(`RecentCap`).

`HandInv` says that, until a change falls between, a writer about to truncate has in
hand the trim of the file as it is. The contract's trim then follows from one more
fact about `CapLog`: with a line end in its window, which whole lines guarantee
(`EndInSight`), it returns the end of the file from just after a line end
(`CapLogTrims`).

*Progress.* `WaitBounded` (a run never waits past its cadences) makes `StepsLeft` a
natural number, so that a step of `Run` lowers it although the wait loop goes round.
The proofs show that a run's measure is out of reach of every other process, of
link, server and reader; that a poll, its status and its sleep together cost the
pairing at least one cadence of the code's life; and that an event in a drain, the
only thing that restarts the silence, leaves the age of the burst alone.
`RetryIsCertain` reads `Caused` the other way round: what the server misses and
nobody excused is not in the baseline's set, so it is younger than all that is, and
the signature shows it.

`DaemonIsACaller` carries the theorems on `Spec` over to the system with
the daemon (`EngineBesideDaemon`); its only step that is not literally one of
`Autosync`'s is the recovered panic, which is a `Crash` that leaves the temporary file alone.

Every safety property, action property and refinement that a passing run checks
is proved. Model-checked only: liveness (`Delivered`, `RunsEnd`,
`CaptureEvaluated`, `DialogsEnd`), since fairness and ENABLED are beyond the
prover, and the violations.

## 5. Findings

Each is a run expected to violate one property, which states what a comment of
the repository says.

* `watch_dedup`: `runner.go` 20-22 says a dedup is covered by the concurrent
  run; that run may have read the database before the capture, or have failed.
  The highlight is still sent by the next trigger of any kind. `sync-now` tells the
  user the same of a dedup (`status.go` 65).
* `pair_retry`: `display.go` 93 calls the code dialog's OK harmless; latched
  late, it acts as Retry on the expired prompt.
* `pair_claim`: `run.go` 107 (pair) takes the TTL to mean a dead code; a code
  claimed in its last interval, or during a long Retry-After, is dropped with its token.
* `store_backend`: `config.go` 43-45 takes url and token to match. A re-pairing
  writes the new url over the old token's; a run that falls between the writes, or
  comes after a death there, sends the old token to the new backend, or to the
  default one while the url is empty. `PairingRepairs` is what holds
  instead: such a mix lasts until a pairing saves undisturbed.

Seen in the models and not stated as properties, since each is one step of the
code and any property would only repeat it: the toast fires after a view probe
that a page turn may have made stale (`run.go` 113, against `outcome.go` 51); the
code request is retried without the bound that `interfaces.go` 40 gives it.

Three assumptions are constants of the modules, because the code relies on them
and properties fail without them. `WritesMayFail`: `run.go` 72-73 toasts
the growth whether or not `Record` could store the count, and `Record` reports
nothing, so on a full disk each re-send toasts again and `ToastIsNews` fails
(`RecordHonest` and the refinement do not). `ClockMayStepBack`: `signature.go`
13-16 counts on dates that rise, so a clock step back between a deletion and an
addition hides the addition from the daemon and `AdditionSeen` fails. `Undated`:
a row without a date sorts below every other, with the same effect, which is why
`AdditionsShow`, `BaselineForCause` and `RetryIsCertain` assume it empty; delivery
does not.

## 6. Not modelled, and the plan

Left out for good: help and flag text, routing of command names, the toast's and
dialog's wording, the about lines and the email and paired-at files they show,
model detection, the development scripts; SQL text, JSON encoding and the shape
of an ISBN, except for what they decide about a row; the manual `sync` command's
own flags for url and token.

Of the files only `hardware-id` is edited from outside or fails to read. A `last-sync`
that is intact but fails to read would load as never synced (`record.go` 56, 91-93), after
which a run counts every highlight as new and, if it fails, stores a record without
the last success; a `url` that fails to read counts as none (`config.go` 39-40), so that the
token goes to the default backend. A run that cannot read its token ends as
unpaired, which is a run without a token in the models. An edit falls before or
after a write of `hardware-id`, not inside it. `PairedHasURL` and `TokenNeedsURL` speak of the
url file and not of its content: one that a failed fill left empty counts, and what a
run then does with the token is `PairingRepairs` and `SentToMinter`.

Also left out: power loss with unsynced file data (deaths are process deaths), a
write that stores part of a line or a file and then fails, the overflow of the
kernel's inotify queue, and events of other files in the directory, which the
daemon reads and ignores. The record's time stamps are reduced to whether there
was a success, so that an empty set, which no request confirms, counts as one.
Two pairings at once share one dialog in the program; only their files are
modelled. Autosync has one server, so a record that survives a re-pairing with
another is not seen.

What could come next, in the order of importance:

1. The record with its stamps, over two servers and a re-pairing between them.
2. Two pairings on one dialog.
3. Unsynced data at power-off: which of the files' promises survive it.

## 7. Running it

```
tlc -workers 2 -config AutosyncSafety.cfg MCAutosync.tla
tlc -workers 2 -config WatchDaemon.cfg MCWatch.tla
tlc -workers 2 -config Pair.cfg MCPair.tla
tlc -workers 2 -config Store.cfg MCStore.tla
tlc -workers 2 -config LogFile.cfg MCLogFile.tla
tlapm AutosyncProofs.tla
tlapm WatchProofs.tla
tlapm PairProofs.tla
tlapm StoreProofs.tla
tlapm LogProofs.tla
tlapm LogNewestProofs.tla
tlapm LogContractProofs.tla
```

`PROJECT.json` names every run with its module, configuration and expected
result, and maps every definition to the lines it models. Every run checks for
deadlock as well: the environment can always take a step, and the log's
`Terminating` is where its bound ends the model.
