----------------------------- MODULE StoreReaders -----------------------------
(***************************************************************************)
(* The files of PairStore beside those who use them: a run of the engine   *)
(* reads the token before it waits for connectivity and the url after, and *)
(* sends the one to the other; a pairing that is ready sends its hardware  *)
(* id to the server.  No lock is shared by pairings and runs.              *)
(***************************************************************************)
EXTENDS PairStore, Naturals, FiniteSets

CONSTANTS
  Reader,   \* runs of the engine
  Default,  \* the backend compiled in
  Trusted,  \* backends ResolveBaseURL accepts: https, or http to a private host
  MaxMishaps  \* bound: mishaps to the hardware-id file

ASSUME ReaderConstants ==
  /\ Default \in Trusted
  /\ Trusted \subseteq Backend
  /\ MaxMishaps \in Nat

VARIABLES
  held,        \* the token each run read, or NoFile
  posted,      \* history: the last token sent, where to and whether by a calm run
  registered,  \* history: hardware ids sent to a server
  mishaps,     \* history: times that an id was at risk (Mishap and EditFile)
  alone,       \* history: the pairings whose save nothing has come between
  settled,     \* history: the last save to begin was alone to its end, or none began
  calm         \* history: the runs that read a settled token, with no save begun since

quiet == <<alone, settled, calm>>
history == <<posted, registered, mishaps, quiet>>
allVars == <<vars, held, history>>

Resolve_NoDefault(file) == file

Resolve(file) == IF file \in Trusted THEN file ELSE Default

StoreInit ==
  /\ Init
  /\ held = [r \in Reader |-> NoFile]
  /\ posted = {}
  /\ registered = {}
  /\ mishaps = 0
  /\ alone = {}
  /\ settled = TRUE
  /\ calm = {}

-----------------------------------------------------------------------------
(* Without a token the run ends here, as unpaired. *)
ReadToken(r) ==
  /\ held[r] = NoFile
  /\ token \notin Blank
  /\ held' = [held EXCEPT ![r] = token]
  /\ calm' = IF settled THEN calm \cup {r} ELSE calm
  /\ UNCHANGED <<vars, posted, registered, mishaps, alone, settled>>

(* The wait for connectivity lies before this. *)
SendToBackend(r) ==
  /\ held[r] # NoFile
  /\ posted' = {[token |-> held[r], to |-> Resolve(url), calm |-> r \in calm]}
  /\ held' = [held EXCEPT ![r] = NoFile]
  /\ calm' = calm \ {r}
  /\ UNCHANGED <<vars, registered, mishaps, alone, settled>>

(* The wait failed, or the run died. *)
GiveUp(r) ==
  /\ held' = [held EXCEPT ![r] = NoFile]
  /\ calm' = calm \ {r}
  /\ UNCHANGED <<vars, posted, registered, mishaps, alone, settled>>

RequestCode(p) ==
  /\ at[p] = "ready"
  /\ registered' = registered \cup {id[p]}
  /\ UNCHANGED <<vars, held, posted, mishaps, quiet>>

Creating == {q \in Pairing : at[q] \in {"mint", "fillid"}}

SaveLabels == {"fillurl", "token", "filltoken"}

Saving == {q \in Pairing : at[q] \in SaveLabels}

(* A save begins by truncating the url. *)
SaveBegins(p) ==
  /\ alone' = IF Saving = {} THEN {p} ELSE {}
  /\ settled' = FALSE
  /\ calm' = {}

(* Any other step of p; the last of a save settles the files if it was alone. *)
SaveGoesOn(p) ==
  /\ alone' = {q \in alone : at'[q] \in SaveLabels}
  /\ settled' = (settled \/ (p \in alone /\ at'[p] = "done"))
  /\ calm' = calm

(* p creates an id beside another pairing that does, or over a valid one that
   it failed to read. *)
Mishap(p) == at'[p] = "mint" /\ (Creating # {} \/ Valid(hwid))

Pair(p) ==
  /\ Step(p)
  /\ mishaps' = IF Mishap(p) THEN mishaps + 1 ELSE mishaps
  /\ mishaps' <= MaxMishaps
  /\ IF at'[p] = "fillurl" THEN SaveBegins(p) ELSE SaveGoesOn(p)
  /\ UNCHANGED <<held, posted, registered>>

EditFile ==
  /\ mishaps < MaxMishaps
  /\ mishaps' = mishaps + 1
  /\ EditID
  /\ UNCHANGED <<held, posted, registered, quiet>>

StoreNext ==
  \/ EditFile
  \/ \E p \in Pairing : Pair(p) \/ RequestCode(p)
  \/ \E r \in Reader : ReadToken(r) \/ SendToBackend(r) \/ GiveUp(r)

StoreSpec == StoreInit /\ [][StoreNext]_allVars

-----------------------------------------------------------------------------
StoreTypeOK ==
  /\ TypeOK
  /\ held \in [Reader -> Backend \cup {NoFile, Garbled}]
  /\ posted \subseteq [token : Backend \cup {Garbled}, to : Trusted, calm : BOOLEAN]
  /\ registered \subseteq Id
  /\ mishaps \in 0 .. MaxMishaps
  /\ alone \subseteq Pairing
  /\ settled \in BOOLEAN
  /\ calm \subseteq Reader

(* A paired device also has the url file, if only an empty one, however many
   pairings ran, failed and died at whatever step: the url is written first
   and a failure to write it stops the save (run.go, pollLoop). *)
TokenNeedsURL == token \notin Blank => url # NoFile

(* Servers see one hardware id of a device, and at most one more for each time
   that the file was edited, lost or damaged, failed to read while intact, or
   was being created by another pairing when a pairing began to create it.
   Nothing else costs an id: deaths and failed writes at any step, between the
   file's creation and its content too, and pairings that interleave in any
   other way leave the identity as it was (state.go, LoadOrCreateHardwareID). *)
IdentityKept == Cardinality(registered) <= 1 + mishaps

(* A pairing repairs whatever mix of files earlier ones left, dead or beside
   one another: once a save has gone from its first write to its last with no
   other in between, and until the next begins, a run that reads a token that
   a trusted backend minted sends it to that backend (run.go, pollLoop;
   config.go, ResolveBaseURL). *)
PairingRepairs ==
  \A m \in posted : m.calm /\ m.token \in Trusted => m.to = m.token

(* The resolved backend matches the one the token was minted on (config.go,
   ResolveBaseURL). *)
SentToMinter == \A m \in posted : m.token \in Trusted => m.to = m.token
=============================================================================
