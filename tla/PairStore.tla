------------------------------ MODULE PairStore ------------------------------
(***************************************************************************)
(* What any number of "kobo-sync pair" processes do to the files that      *)
(* outlive them: hardware-id, url and token.  Nothing locks these files.   *)
(* A file is written by truncating it and then writing it whole, so a      *)
(* process that dies or fails in between leaves it empty, and two writers  *)
(* of different lengths may garble it.  The hardware-id file may also be   *)
(* edited, lost or damaged from outside, and an intact one fail to read.   *)
(* The dialog, the server and the clock are those of Pair, which           *)
(* implements this module.                                                 *)
(***************************************************************************)
CONSTANTS
  Pairing,  \* processes that pair
  Id,       \* hardware ids that may be generated
  Backend,  \* servers a device may be paired with
  NoFile,   \* a file that was never written
  Empty,    \* a file that was truncated and not filled
  Garbled   \* content that is neither: damaged, edited, or two contents mixed

ASSUME StoreConstants ==
  /\ Empty # NoFile
  /\ Garbled # Empty
  /\ Garbled # NoFile
  /\ {NoFile, Empty, Garbled} \cap (Id \cup Backend) = {}

VARIABLES
  at,      \* where each pairing is
  target,  \* the --url of each pairing
  id,      \* the hardware id each pairing sends
  hwid,    \* the hardware-id file
  url,     \* the url file: a backend
  token    \* the token file: the backend that minted it

store == <<hwid, url, token>>
vars == <<at, target, id, store>>

Phase == {"idle", "load", "mint", "fillid", "ready", "url", "fillurl",
          "token", "filltoken", "done"}

(* A token or url that reads back as nothing. *)
Blank == {NoFile, Empty}

(* A write from offset 0 over a file that another process filled. *)
Filled(file, v) == IF file \in Blank \cup {v} THEN {v} ELSE {v, Garbled}

Valid(file) == file \in Id

-----------------------------------------------------------------------------
Init ==
  /\ at = [p \in Pairing |-> "idle"]
  /\ target \in [Pairing -> Backend]
  /\ id \in [Pairing -> Id]
  /\ hwid \in Id \cup {NoFile}
  /\ url \in Backend \cup {NoFile}
  /\ token = url

Goto(p, from, to) ==
  /\ at[p] = from
  /\ at' = [at EXCEPT ![p] = to]

Begin(p) ==
  /\ Goto(p, "idle", "load")
  /\ \E b \in Backend : target' = [target EXCEPT ![p] = b]
  /\ UNCHANGED <<id, store>>

(* A valid id that can be read is reused. *)
ReuseID(p) ==
  /\ Valid(hwid)
  /\ Goto(p, "load", "ready")
  /\ id' = [id EXCEPT ![p] = hwid]
  /\ UNCHANGED <<target, store>>

(* A file that is not valid, or any that fails to read, is replaced by a
   random id. *)
GenerateID(p) ==
  /\ Goto(p, "load", "mint")
  /\ \E i \in Id : id' = [id EXCEPT ![p] = i]
  /\ UNCHANGED <<target, store>>

TruncateID(p) ==
  /\ Goto(p, "mint", "fillid")
  /\ hwid' = Empty
  /\ UNCHANGED <<target, id, url, token>>

(* The operators with an underscore are defects the properties notice. *)
FillID_ErrorIgnored(p) ==
  /\ Goto(p, "fillid", "ready")
  /\ hwid' \in {id[p], hwid}
  /\ UNCHANGED <<target, id, url, token>>

(* Ids are all of one length: the later writer wins. *)
FillID(p) ==
  /\ Goto(p, "fillid", "ready")
  /\ hwid' = id[p]
  /\ UNCHANGED <<target, id, url, token>>

(* The server minted a token for p. *)
Paired_NoURL(p) ==
  /\ Goto(p, "ready", "token")
  /\ UNCHANGED <<target, id, store>>

Paired(p) ==
  /\ Goto(p, "ready", "url")
  /\ UNCHANGED <<target, id, store>>

TruncateURL_InPlace(p) ==
  /\ Goto(p, "url", "fillurl")
  /\ UNCHANGED <<target, id, store>>

TruncateURL(p) ==
  /\ Goto(p, "url", "fillurl")
  /\ url' = Empty
  /\ UNCHANGED <<target, id, hwid, token>>

FillURL(p) ==
  /\ Goto(p, "fillurl", "token")
  /\ url' \in Filled(url, target[p])
  /\ UNCHANGED <<target, id, hwid, token>>

TruncateToken(p) ==
  /\ Goto(p, "token", "filltoken")
  /\ token' = Empty
  /\ UNCHANGED <<target, id, hwid, url>>

FillToken(p) ==
  /\ Goto(p, "filltoken", "done")
  /\ token' \in Filled(token, target[p])
  /\ UNCHANGED <<target, id, hwid, url>>

(* p returns, gives up, fails to open or write a file, or dies. *)
Leave(p) ==
  /\ at[p] # "idle"
  /\ Goto(p, at[p], "idle")
  /\ UNCHANGED <<target, id, store>>

(* Whoever has the storage edits, removes or damages the hardware-id file,
   before or after a write of it but not inside one. *)
EditID ==
  /\ \A p \in Pairing : at[p] # "fillid"
  /\ hwid' \in Id \cup {NoFile, Garbled}
  /\ UNCHANGED <<at, target, id, url, token>>

Step(p) ==
  \/ Begin(p)
  \/ ReuseID(p)
  \/ GenerateID(p)
  \/ TruncateID(p)
  \/ FillID(p)
  \/ Paired(p)
  \/ TruncateURL(p)
  \/ FillURL(p)
  \/ TruncateToken(p)
  \/ FillToken(p)
  \/ Leave(p)

Next == EditID \/ \E p \in Pairing : Step(p)

Spec == Init /\ [][Next]_vars

-----------------------------------------------------------------------------
TypeOK ==
  /\ at \in [Pairing -> Phase]
  /\ target \in [Pairing -> Backend]
  /\ id \in [Pairing -> Id]
  /\ hwid \in Id \cup Blank \cup {Garbled}
  /\ url \in Backend \cup Blank \cup {Garbled}
  /\ token \in Backend \cup Blank \cup {Garbled}
=============================================================================
