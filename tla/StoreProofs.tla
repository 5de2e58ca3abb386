----------------------------- MODULE StoreProofs -----------------------------
(***************************************************************************)
(* Theorems about StoreReaders, for any number of pairings and runs and    *)
(* any set of backends: the url before the token, a bound on the hardware  *)
(* ids that servers see, and the repair of the files by a pairing that is   *)
(* left alone.                                                             *)
(***************************************************************************)
EXTENDS StoreReaders, FiniteSetTheorems, TLAPS

USE DEF Blank, Valid

LEMMA TypesInit == StoreInit => StoreTypeOK
BY ReaderConstants DEF StoreInit, Init, StoreTypeOK, TypeOK, Phase

LEMMA TypesNext == StoreTypeOK /\ [StoreNext]_allVars => StoreTypeOK'
<1> SUFFICES ASSUME StoreTypeOK, [StoreNext]_allVars
             PROVE  StoreTypeOK'
  OBVIOUS
<1> USE DEF StoreTypeOK, TypeOK
<1>1. ASSUME NEW p \in Pairing, Pair(p)
      PROVE  StoreTypeOK'
  <2>1. /\ Step(p)
        /\ UNCHANGED <<held, posted, registered>>
        /\ alone' \subseteq Pairing
        /\ settled' \in BOOLEAN
        /\ calm' \subseteq Reader
    BY <1>1 DEF Pair, SaveBegins, SaveGoesOn
  <2>2. TypeOK'
    <3> USE DEF Goto, store, Phase, Filled
    <3>1. CASE Begin(p) \/ ReuseID(p) \/ GenerateID(p)
      BY <3>1 DEF Begin, ReuseID, GenerateID
    <3>2. CASE TruncateID(p) \/ FillID(p)
      BY <3>2 DEF TruncateID, FillID
    <3>3. CASE Paired(p) \/ Leave(p)
      BY <3>3 DEF Paired, Leave
    <3>4. CASE TruncateURL(p) \/ FillURL(p)
      BY <3>4 DEF TruncateURL, FillURL
    <3>5. CASE TruncateToken(p) \/ FillToken(p)
      BY <3>5 DEF TruncateToken, FillToken
    <3> QED
      BY <2>1, <3>1, <3>2, <3>3, <3>4, <3>5 DEF Step
  <2>3. mishaps' \in 0 .. MaxMishaps
    <3>1. /\ mishaps' = mishaps + 1 \/ mishaps' = mishaps
          /\ mishaps' <= MaxMishaps
      BY <1>1 DEF Pair
    <3> QED
      BY <3>1, ReaderConstants
  <2> QED
    BY <2>1, <2>2, <2>3
<1>2. ASSUME NEW p \in Pairing, RequestCode(p)
      PROVE  StoreTypeOK'
  BY <1>2 DEF RequestCode, vars, store, quiet
<1>3. ASSUME NEW r \in Reader, ReadToken(r)
      PROVE  StoreTypeOK'
  BY <1>3 DEF ReadToken, vars, store
<1>4. ASSUME NEW r \in Reader, SendToBackend(r)
      PROVE  StoreTypeOK'
  BY <1>4, ReaderConstants DEF SendToBackend, Resolve, vars, store
<1>5. ASSUME NEW r \in Reader, GiveUp(r)
      PROVE  StoreTypeOK'
  BY <1>5 DEF GiveUp, vars, store
<1>6. CASE EditFile
  BY <1>6, ReaderConstants DEF EditFile, EditID, quiet
<1>7. CASE UNCHANGED allVars
  BY <1>7 DEF allVars, vars, store, history, quiet
<1> QED
  BY <1>1, <1>2, <1>3, <1>4, <1>5, <1>6, <1>7 DEF StoreNext

(* The files hold what pairings write, whatever interleaves or dies. *)
THEOREM StoreTyped == StoreSpec => []StoreTypeOK
BY TypesInit, TypesNext, PTL DEF StoreSpec

-----------------------------------------------------------------------------
(* Once a save has begun the url file exists. *)
URLInv ==
  /\ TokenNeedsURL
  /\ \A p \in Pairing : at[p] \in {"fillurl", "token", "filltoken"} => url # NoFile

LEMMA URLInvInit == StoreInit => URLInv
BY DEF StoreInit, Init, URLInv, TokenNeedsURL

LEMMA URLInvNext == StoreTypeOK /\ URLInv /\ [StoreNext]_allVars => URLInv'
<1> SUFFICES ASSUME StoreTypeOK, URLInv, [StoreNext]_allVars
             PROVE  URLInv'
  OBVIOUS
<1> USE DEF StoreTypeOK, TypeOK, URLInv, TokenNeedsURL
<1>1. ASSUME NEW p \in Pairing, Pair(p)
      PROVE  URLInv'
  <2>1. Step(p)
    BY <1>1 DEF Pair
  <2> USE StoreConstants DEF Goto, store, Filled
  <2>2. CASE Begin(p) \/ ReuseID(p) \/ GenerateID(p) \/ TruncateID(p) \/ FillID(p)
    BY <2>2 DEF Begin, ReuseID, GenerateID, TruncateID, FillID
  <2>3. CASE Paired(p) \/ Leave(p)
    BY <2>3 DEF Paired, Leave
  <2>4. CASE TruncateURL(p) \/ FillURL(p)
    BY <2>4 DEF TruncateURL, FillURL
  <2>5. CASE TruncateToken(p) \/ FillToken(p)
    BY <2>5 DEF TruncateToken, FillToken
  <2> QED
    BY <2>1, <2>2, <2>3, <2>4, <2>5 DEF Step
<1>2. CASE EditFile
  BY <1>2 DEF EditFile, EditID
<1>3. CASE UNCHANGED vars
  BY <1>3 DEF vars, store
<1> QED
  BY <1>1, <1>2, <1>3
     DEF StoreNext, RequestCode, ReadToken, SendToBackend, GiveUp, allVars

(* A device with a token has a url file, however many pairings run, fail and
   die (run.go, pollLoop). *)
THEOREM TokenHasURL == StoreSpec => []TokenNeedsURL
<1>1. URLInv => TokenNeedsURL
  BY DEF URLInv
<1> QED
  BY <1>1, TypesInit, TypesNext, URLInvInit, URLInvNext, PTL DEF StoreSpec

-----------------------------------------------------------------------------
(* The ids that servers saw or may yet see without another being created: those
   registered, the one on disk, and those that pairings hold.  With the ids
   being created they never outnumber the mishaps by more than one, and by none
   when there is no id on disk and none on its way there. *)
HasID == {"ready", "url", "fillurl", "token", "filltoken", "done"}

Using == {q \in Pairing : at[q] \in HasID}

OnDisk == {hwid} \cap Id

Held == registered \cup OnDisk \cup {id[q] : q \in Using}

First == IF OnDisk # {} \/ Creating # {} THEN 1 ELSE 0

Paid ==
  /\ IsFiniteSet(Held)
  /\ IsFiniteSet(Creating)
  /\ Cardinality(Held) + Cardinality(Creating) <= mishaps + First

LEMMA PaidInit == StoreInit => Paid
<1> SUFFICES ASSUME StoreInit
             PROVE  Paid
  OBVIOUS
<1>1. Creating = {} /\ Using = {} /\ registered = {} /\ mishaps = 0
  BY DEF StoreInit, Init, Creating, Using, HasID
<1>2. Held = OnDisk
  BY <1>1 DEF Held
<1>3. OnDisk = {} \/ OnDisk = {hwid}
  BY DEF OnDisk
<1>4. /\ IsFiniteSet({}) /\ Cardinality({}) = 0
      /\ IsFiniteSet({hwid}) /\ Cardinality({hwid}) = 1
  BY FS_EmptySet, FS_Singleton
<1> QED
  BY <1>1, <1>2, <1>3, <1>4 DEF Paid, First

LEMMA AtMostOneMore ==
  ASSUME NEW S, IsFiniteSet(S), NEW x, NEW T, T \subseteq S \cup {x}
  PROVE  /\ IsFiniteSet(T)
         /\ Cardinality(S) \in Nat
         /\ Cardinality(T) \in Nat
         /\ Cardinality(T) <= Cardinality(S) + 1
         /\ T \subseteq S => Cardinality(T) <= Cardinality(S)
<1>1. /\ IsFiniteSet(S \cup {x})
      /\ Cardinality(S \cup {x}) =
           IF x \in S THEN Cardinality(S) ELSE Cardinality(S) + 1
  BY FS_AddElement
<1>2. Cardinality(S) \in Nat /\ Cardinality(S \cup {x}) \in Nat
  BY <1>1, FS_CardinalityType
<1>3. /\ IsFiniteSet(T)
      /\ Cardinality(T) <= Cardinality(S \cup {x})
      /\ T \subseteq S => Cardinality(T) <= Cardinality(S)
  BY <1>1, FS_Subset
<1>4. Cardinality(T) \in Nat
  BY <1>3, FS_CardinalityType
<1> QED
  BY <1>1, <1>2, <1>3, <1>4

(* A step costs nothing that neither creates an id nor adds to those held. *)
LEMMA PaidStays ==
  ASSUME StoreTypeOK, Paid,
         Held' \subseteq Held, Creating' \subseteq Creating,
         \/ mishaps' = mishaps /\ First' = First
         \/ mishaps' = mishaps + 1
  PROVE  Paid'
<1>1. /\ IsFiniteSet(Held') /\ Cardinality(Held') <= Cardinality(Held)
      /\ IsFiniteSet(Creating') /\ Cardinality(Creating') <= Cardinality(Creating)
      /\ Cardinality(Held) \in Nat /\ Cardinality(Held') \in Nat
      /\ Cardinality(Creating) \in Nat /\ Cardinality(Creating') \in Nat
  BY FS_Subset, FS_CardinalityType DEF Paid
<1>2. mishaps \in Nat /\ First \in {0, 1} /\ First' \in {0, 1}
  BY ReaderConstants DEF StoreTypeOK, First
<1> QED
  BY <1>1, <1>2 DEF Paid

(* An edit and a creation that is a mishap are paid for by the count, the first
   creation on a device without an id by First. *)
LEMMA PaidMore ==
  ASSUME StoreTypeOK, Paid, First' = 1,
         mishaps' = mishaps + 1 \/ (mishaps' = mishaps /\ First = 0),
         NEW i, Held' \subseteq Held \cup {i},
         NEW p, Creating' \subseteq Creating \cup {p},
         Held' \subseteq Held \/ Creating' \subseteq Creating
  PROVE  Paid'
<1>1. /\ IsFiniteSet(Held)
      /\ IsFiniteSet(Creating)
      /\ Cardinality(Held) + Cardinality(Creating) <= mishaps + First
  BY DEF Paid
<1>2. /\ IsFiniteSet(Held')
      /\ Cardinality(Held) \in Nat /\ Cardinality(Held') \in Nat
      /\ Cardinality(Held') <= Cardinality(Held) + 1
      /\ Held' \subseteq Held => Cardinality(Held') <= Cardinality(Held)
  BY <1>1, AtMostOneMore
<1>3. /\ IsFiniteSet(Creating')
      /\ Cardinality(Creating) \in Nat /\ Cardinality(Creating') \in Nat
      /\ Cardinality(Creating') <= Cardinality(Creating) + 1
      /\ Creating' \subseteq Creating => Cardinality(Creating') <= Cardinality(Creating)
  BY <1>1, AtMostOneMore
<1>4. mishaps \in Nat /\ First \in {0, 1}
  BY ReaderConstants DEF StoreTypeOK, First
<1>5. \/ Cardinality(Held') <= Cardinality(Held)
      \/ Cardinality(Creating') <= Cardinality(Creating)
  BY <1>2, <1>3
<1>6. Cardinality(Held') + Cardinality(Creating') <= mishaps' + First'
  BY <1>1, <1>2, <1>3, <1>4, <1>5
<1> QED
  BY <1>2, <1>3, <1>6 DEF Paid

(* What a pairing ceases to create it holds, or nobody does. *)
LEMMA PaidCreated ==
  ASSUME StoreTypeOK, Paid, mishaps' = mishaps,
         NEW p \in Creating, Creating' = Creating \ {p},
         NEW i, Held' \subseteq Held \cup {i},
         \/ First' = First
         \/ Held' \subseteq Held
  PROVE  Paid'
<1>1. /\ IsFiniteSet(Held) /\ Cardinality(Held) \in Nat
      /\ IsFiniteSet(Creating) /\ Cardinality(Creating) \in Nat
  BY FS_CardinalityType DEF Paid
<1>2. /\ IsFiniteSet(Creating')
      /\ Cardinality(Creating') \in Nat
      /\ Cardinality(Creating') = Cardinality(Creating) - 1
  BY <1>1, FS_RemoveElement, FS_CardinalityType
<1>3. /\ IsFiniteSet(Held') /\ Cardinality(Held') \in Nat
      /\ Cardinality(Held') <= Cardinality(Held) + 1
      /\ Held' \subseteq Held => Cardinality(Held') <= Cardinality(Held)
  BY <1>1, AtMostOneMore
<1>4. mishaps \in Nat
  BY ReaderConstants DEF StoreTypeOK
<1>5. First \in {0, 1} /\ First' \in {0, 1}
  BY DEF First
<1> QED
  BY <1>1, <1>2, <1>3, <1>4, <1>5 DEF Paid

LEMMA PaidNext == StoreTypeOK /\ StoreTypeOK' /\ Paid /\ [StoreNext]_allVars => Paid'
<1> SUFFICES ASSUME StoreTypeOK, StoreTypeOK', Paid, [StoreNext]_allVars
             PROVE  Paid'
  OBVIOUS
<1> USE DEF StoreTypeOK, TypeOK, HasID
<1>1. ASSUME NEW p \in Pairing, Pair(p)
      PROVE  Paid'
  <2>1. /\ Step(p)
        /\ registered' = registered
        /\ mishaps' = IF Mishap(p) THEN mishaps + 1 ELSE mishaps
    BY <1>1 DEF Pair
  <2> USE DEF Goto, store
  <2>2. CASE GenerateID(p)
    <3>1. /\ at[p] = "load" /\ at'[p] = "mint"
          /\ Creating' = Creating \cup {p}
          /\ UNCHANGED <<hwid, Using>>
          /\ \A q \in Using : id'[q] = id[q]
      BY <2>2 DEF GenerateID, Creating, Using
    <3>2. Held' = Held
      BY <2>1, <3>1 DEF Held, OnDisk
    <3>3. First' = 1
      BY <3>1 DEF First
    <3>4. mishaps' = mishaps + 1 \/ (mishaps' = mishaps /\ First = 0)
      <4>1. CASE Mishap(p)
        BY <2>1, <4>1
      <4>2. CASE ~Mishap(p)
        <5>1. Creating = {} /\ hwid \notin Id
          BY <3>1, <4>2 DEF Mishap
        <5>2. OnDisk = {}
          BY <5>1 DEF OnDisk
        <5>3. First = 0
          BY <5>1, <5>2 DEF First
        <5> QED
          BY <2>1, <4>2, <5>3
      <4> QED
        BY <4>1, <4>2
    <3> QED
      BY <3>1, <3>2, <3>3, <3>4, PaidMore
  <2>3. CASE FillID(p)
    <3>1. /\ at[p] = "fillid" /\ at'[p] = "ready"
          /\ hwid' = id[p]
          /\ id' = id
          /\ p \in Creating
          /\ Creating' = Creating \ {p}
          /\ Using' = Using \cup {p}
      BY <2>3 DEF FillID, Creating, Using
    <3>2. Held' \subseteq Held \cup {id[p]}
      BY <2>1, <3>1 DEF Held, OnDisk
    <3>3. First' = 1 /\ First = 1
      BY <3>1 DEF First, OnDisk
    <3>4. ~Mishap(p)
      BY <3>1 DEF Mishap
    <3> QED
      BY <2>1, <3>1, <3>2, <3>3, <3>4, PaidCreated
  <2>4. CASE TruncateID(p)
    <3>1. /\ UNCHANGED <<Creating, Using, id>>
          /\ p \in Creating
          /\ hwid' = Empty
          /\ ~Mishap(p)
      BY <2>4 DEF TruncateID, Creating, Using, Mishap
    <3>2. Held' \subseteq Held
      BY <2>1, <3>1, StoreConstants DEF Held, OnDisk
    <3>3. First' = First
      BY <3>1 DEF First
    <3> QED
      BY <2>1, <3>1, <3>2, <3>3, PaidStays
  <2>5. CASE ReuseID(p)
    <3>1. /\ UNCHANGED <<Creating, hwid>>
          /\ Using' = Using \cup {p}
          /\ hwid \in Id
          /\ id'[p] = hwid
          /\ \A q \in Using : id'[q] = IF q = p THEN hwid ELSE id[q]
          /\ ~Mishap(p)
      BY <2>5 DEF ReuseID, Creating, Using, Mishap
    <3>2. Held' \subseteq Held
      BY <2>1, <3>1 DEF Held, OnDisk
    <3>3. First' = First
      BY <3>1 DEF First, OnDisk
    <3> QED
      BY <2>1, <3>1, <3>2, <3>3, PaidStays
  <2>6. CASE Leave(p)
    <3>1. /\ UNCHANGED <<hwid, id>>
          /\ Creating' = Creating \ {p}
          /\ Using' \subseteq Using
          /\ ~Mishap(p)
      BY <2>6 DEF Leave, Creating, Using, Mishap
    <3>2. Held' \subseteq Held
      BY <2>1, <3>1 DEF Held, OnDisk
    <3>3. CASE p \in Creating
      BY <2>1, <3>1, <3>2, <3>3, PaidCreated
    <3>4. CASE p \notin Creating
      <4>1. Creating' = Creating
        BY <3>1, <3>4
      <4>2. First' = First
        BY <3>1, <4>1 DEF First, OnDisk
      <4> QED
        BY <2>1, <3>1, <3>2, <4>1, <4>2, PaidStays
    <3> QED
      BY <3>3, <3>4
  <2>7. CASE \/ Begin(p) \/ Paired(p) \/ TruncateURL(p) \/ FillURL(p)
             \/ TruncateToken(p) \/ FillToken(p)
    <3>1. UNCHANGED <<Creating, Using, hwid, id>> /\ ~Mishap(p)
      BY <2>7 DEF Begin, Paired, TruncateURL, FillURL, TruncateToken, FillToken,
         Creating, Using, Mishap
    <3>2. Held' = Held /\ First' = First
      BY <2>1, <3>1 DEF Held, First, OnDisk
    <3> QED
      BY <2>1, <3>1, <3>2, PaidStays
  <2> QED
    BY <2>1, <2>2, <2>3, <2>4, <2>5, <2>6, <2>7 DEF Step
<1>2. CASE EditFile
  <2>1. /\ UNCHANGED <<Creating, Using, id, registered>>
        /\ mishaps' = mishaps + 1
    BY <1>2 DEF EditFile, EditID, Creating, Using
  <2>2. CASE OnDisk' = {}
    <3>1. Held' \subseteq Held
      BY <2>1, <2>2 DEF Held
    <3> QED
      BY <2>1, <3>1, PaidStays
  <2>3. CASE OnDisk' # {}
    <3>1. Held' \subseteq Held \cup {hwid'}
      BY <2>1 DEF Held, OnDisk
    <3>2. First' = 1
      BY <2>3 DEF First
    <3> QED
      BY <2>1, <3>1, <3>2, PaidMore
  <2> QED
    BY <2>2, <2>3
<1>3. ASSUME NEW p \in Pairing, RequestCode(p)
      PROVE  Paid'
  <2>1. /\ UNCHANGED <<Creating, Using, hwid, id, mishaps>>
        /\ registered' = registered \cup {id[p]}
        /\ p \in Using
    BY <1>3 DEF RequestCode, vars, store, Creating, Using
  <2>2. Held' \subseteq Held /\ First' = First
    BY <2>1 DEF Held, First, OnDisk
  <2> QED
    BY <2>1, <2>2, PaidStays
<1>4. ASSUME UNCHANGED <<vars, registered, mishaps>>
      PROVE  Paid'
  BY <1>4 DEF Paid, Held, OnDisk, Using, First, Creating, vars, store
<1> QED
  BY <1>1, <1>2, <1>3, <1>4
     DEF StoreNext, ReadToken, SendToBackend, GiveUp, history, allVars

(* Servers see one hardware id of a device and at most one more for each mishap
   to the file that holds it, whatever else interleaves, fails or dies
   (state.go, LoadOrCreateHardwareID). *)
THEOREM IdentityPerMishap == StoreSpec => []IdentityKept
<1>1. ASSUME StoreTypeOK, Paid
      PROVE  IdentityKept
  <2>1. /\ IsFiniteSet(Held) /\ Cardinality(Held) \in Nat
        /\ Cardinality(Creating) \in Nat
        /\ Cardinality(Held) + Cardinality(Creating) <= mishaps + First
    BY <1>1, FS_CardinalityType DEF Paid
  <2>2. /\ Cardinality(registered) \in Nat
        /\ Cardinality(registered) <= Cardinality(Held)
    BY <2>1, FS_Subset, FS_CardinalityType DEF Held
  <2>3. mishaps \in Nat /\ First \in {0, 1}
    BY <1>1, ReaderConstants DEF StoreTypeOK, First
  <2> QED
    BY <2>1, <2>2, <2>3 DEF IdentityKept
<1>2. StoreTypeOK /\ Paid => IdentityKept
  BY <1>1
<1> QED
  BY <1>2, TypesInit, TypesNext, PaidInit, PaidNext, PTL DEF StoreSpec

-----------------------------------------------------------------------------
(* A save that is alone has no other beside it and has read back as blank or
   as its own what it wrote so far; files that settled are no longer written,
   agree, and are what the calm runs read. *)
RepairInv ==
  /\ \A p \in alone :
       /\ Saving = {p}
       /\ at[p] = "fillurl" => url = Empty
       /\ at[p] \in {"token", "filltoken"} => url = target[p]
       /\ at[p] = "filltoken" => token = Empty
  /\ settled => Saving = {} /\ token = url
  /\ \A r \in calm : settled /\ held[r] = token
  /\ PairingRepairs

LEMMA RepairInit == StoreInit => RepairInv
BY DEF StoreInit, Init, RepairInv, Saving, SaveLabels, PairingRepairs

LEMMA RepairNext == StoreTypeOK /\ RepairInv /\ [StoreNext]_allVars => RepairInv'
<1> SUFFICES ASSUME StoreTypeOK, RepairInv, [StoreNext]_allVars
             PROVE  RepairInv'
  OBVIOUS
<1> USE DEF StoreTypeOK, TypeOK
<1>1. /\ \A p \in alone :
           /\ Saving = {p}
           /\ at[p] = "fillurl" => url = Empty
           /\ at[p] \in {"token", "filltoken"} => url = target[p]
           /\ at[p] = "filltoken" => token = Empty
      /\ settled => Saving = {} /\ token = url
      /\ \A r \in calm : settled /\ held[r] = token
      /\ PairingRepairs
  BY DEF RepairInv
<1>2. ASSUME NEW p \in Pairing, Pair(p)
      PROVE  RepairInv'
  <2>1. /\ Step(p)
        /\ IF at'[p] = "fillurl" THEN SaveBegins(p) ELSE SaveGoesOn(p)
        /\ UNCHANGED <<held, posted>>
    BY <1>2 DEF Pair
  <2>2. PairingRepairs'
    BY <1>1, <2>1 DEF PairingRepairs
  <2>3. \A q \in Pairing \ {p} : at'[q] = at[q]
    BY <2>1 DEF Step, Goto, Begin, ReuseID, GenerateID, TruncateID, FillID, Paired,
       TruncateURL, FillURL, TruncateToken, FillToken, Leave
  <2>4. CASE TruncateURL(p)
    <3>1. at[p] = "url" /\ at'[p] = "fillurl" /\ url' = Empty
      BY <2>4 DEF TruncateURL, Goto
    <3>2. SaveBegins(p)
      BY <2>1, <3>1
    <3>3. Saving = {} => Saving' = {p}
      BY <2>3, <3>1 DEF Saving, SaveLabels
    <3> QED
      BY <2>2, <3>1, <3>2, <3>3 DEF SaveBegins, RepairInv
  <2>5. CASE ~TruncateURL(p)
    <3>1. at'[p] # "fillurl" /\ SaveGoesOn(p)
      BY <2>1, <2>5 DEF Step, Goto, Begin, ReuseID, GenerateID, TruncateID, FillID, Paired,
         FillURL, TruncateToken, FillToken, Leave
    <3>2. /\ alone' = {q \in alone : at'[q] \in SaveLabels}
          /\ settled' = (settled \/ (p \in alone /\ at'[p] = "done"))
          /\ calm' = calm
      BY <3>1 DEF SaveGoesOn
    <3>3. p \in Saving \/ p \in Saving' =>
            FillURL(p) \/ TruncateToken(p) \/ FillToken(p) \/ Leave(p)
      BY <2>1, <2>5 DEF Saving, SaveLabels, Step, Goto, Begin, ReuseID, GenerateID,
         TruncateID, FillID, Paired
    <3>4. CASE p \notin Saving /\ p \notin Saving'
      <4>1. Saving' = Saving
        BY <2>3, <3>4 DEF Saving
      <4>2. UNCHANGED <<url, token>>
        BY <2>1, <2>5, <3>4 DEF Saving, SaveLabels, Step, Begin, ReuseID, GenerateID,
           TruncateID, FillID, Paired, FillURL, TruncateToken, FillToken, Leave, Goto, store
      <4>3. \A q \in Pairing \ {p} : target'[q] = target[q]
        BY <2>1, <2>5 DEF Step, Begin, ReuseID, GenerateID, TruncateID, FillID, Paired,
           FillURL, TruncateToken, FillToken, Leave
      <4>4. p \notin alone /\ (settled' <=> settled)
        BY <1>1, <3>2, <3>4
      <4>5. alone' \subseteq alone
        BY <3>2
      <4> QED
        BY <1>1, <2>1, <2>2, <2>3, <3>2, <4>1, <4>2, <4>3, <4>4, <4>5 DEF RepairInv
    <3>5. CASE p \in Saving \/ p \in Saving'
      <4>1. FillURL(p) \/ TruncateToken(p) \/ FillToken(p) \/ Leave(p)
        BY <3>3, <3>5
      <4>2. p \in Saving
        BY <3>5, <4>1 DEF FillURL, TruncateToken, FillToken, Leave, Goto, Saving, SaveLabels
      <4>3. ~settled /\ calm = {}
        BY <1>1, <4>2
      <4>4. \A q \in alone : q = p
        BY <1>1, <4>2
      <4>5. Saving' \subseteq Saving
        BY <2>3, <4>2 DEF Saving
      <4>6. \A q \in alone' : q = p /\ p \in alone /\ Saving' = {p}
        BY <1>1, <3>2, <4>4, <4>5 DEF Saving
      <4>7. CASE FillURL(p)
        BY <1>1, <2>2, <3>2, <4>3, <4>6, <4>7 DEF FillURL, Goto, Filled, RepairInv
      <4>8. CASE TruncateToken(p)
        BY <1>1, <2>2, <3>2, <4>3, <4>6, <4>8 DEF TruncateToken, Goto, RepairInv
      <4>9. CASE FillToken(p)
        <5>1. /\ at[p] = "filltoken"
              /\ at'[p] = "done"
              /\ url' = url
              /\ token' \in Filled(token, target[p])
          BY <4>9 DEF FillToken, Goto
        <5>2. alone' = {}
          BY <3>2, <4>4, <5>1 DEF SaveLabels
        <5>3. p \in alone => Saving' = {} /\ token' = url'
          <6>1. p \in alone => Saving = {p} /\ url = target[p] /\ token = Empty
            BY <1>1, <5>1
          <6>2. p \notin Saving'
            BY <5>1 DEF Saving, SaveLabels
          <6> QED
            BY <4>5, <5>1, <6>1, <6>2 DEF Filled
        <5> QED
          BY <2>2, <3>2, <4>3, <5>2, <5>3 DEF RepairInv
      <4>10. CASE Leave(p)
        <5>1. at'[p] = "idle"
          BY <4>10 DEF Leave, Goto
        <5>2. alone' = {} /\ ~settled' /\ calm' = {}
          BY <3>2, <4>3, <4>4, <5>1 DEF SaveLabels
        <5> QED
          BY <2>2, <5>2 DEF RepairInv
      <4> QED
        BY <4>1, <4>7, <4>8, <4>9, <4>10
    <3> QED
      BY <3>4, <3>5
  <2> QED
    BY <2>4, <2>5
<1>3. ASSUME NEW p \in Pairing, RequestCode(p)
      PROVE  RepairInv'
  BY <1>1, <1>3 DEF RequestCode, RepairInv, PairingRepairs, Saving, vars, store, quiet
<1>4. ASSUME NEW r \in Reader, ReadToken(r)
      PROVE  RepairInv'
  BY <1>1, <1>4 DEF ReadToken, RepairInv, PairingRepairs, Saving, vars, store
<1>5. ASSUME NEW r \in Reader, SendToBackend(r)
      PROVE  RepairInv'
  <2>1. r \in calm /\ held[r] \in Trusted => Resolve(url) = held[r]
    BY <1>1 DEF Resolve
  <2>2. posted' = {[token |-> held[r], to |-> Resolve(url), calm |-> r \in calm]}
    BY <1>5 DEF SendToBackend
  <2>3. PairingRepairs'
    <3> SUFFICES ASSUME NEW m \in posted', m.calm, m.token \in Trusted
                 PROVE  m.to = m.token
      BY DEF PairingRepairs
    <3>1. m = [token |-> held[r], to |-> Resolve(url), calm |-> r \in calm]
      BY <2>2
    <3>2. r \in calm
      BY <3>1, Zenon
    <3>3. m.token = held[r] /\ m.to = Resolve(url)
      BY <3>1
    <3> QED
      BY <2>1, <3>2, <3>3
  <2> QED
    BY <1>1, <1>5, <2>3 DEF SendToBackend, RepairInv, Saving, vars, store
<1>6. ASSUME NEW r \in Reader, GiveUp(r)
      PROVE  RepairInv'
  BY <1>1, <1>6 DEF GiveUp, RepairInv, PairingRepairs, Saving, vars, store
<1>7. CASE EditFile
  BY <1>1, <1>7 DEF EditFile, EditID, RepairInv, PairingRepairs, Saving, quiet
<1>8. CASE UNCHANGED allVars
  BY <1>1, <1>8 DEF RepairInv, PairingRepairs, Saving, allVars, vars, store, history, quiet
<1> QED
  BY <1>2, <1>3, <1>4, <1>5, <1>6, <1>7, <1>8 DEF StoreNext

(* Whatever mix of files dead and simultaneous pairings left, a save that is
   alone from its first write to its last repairs it: until the next begins, a
   run sends a trusted backend's token to that backend (run.go, pollLoop;
   config.go, ResolveBaseURL). *)
THEOREM LonePairingRepairs == StoreSpec => []PairingRepairs
<1>1. RepairInv => PairingRepairs
  BY DEF RepairInv
<1> QED
  BY <1>1, TypesInit, TypesNext, RepairInit, RepairNext, PTL DEF StoreSpec
=============================================================================
