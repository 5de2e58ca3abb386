-------------------------- MODULE LogContractProofs --------------------------
(***************************************************************************)
(* The theorem that the log of several writers implements a log that is    *)
(* trimmed in one step: what a writer has in hand at its truncation is the *)
(* trim of what it truncates, and it is what the file says until it has    *)
(* been written.                                                           *)
(***************************************************************************)
EXTENDS LogNewestProofs

(* While nobody has come between, a writer about to truncate has in hand what
   should be left of the file as it is. *)
HandInv ==
  ~lost =>
    \A p \in Proc : pc[p] = "trunc" =>
      /\ Len(log) > MaxBytes
      /\ copy[p] = CapLog(log)

ContractInv == SizeInv /\ NewestInv /\ HandInv

-----------------------------------------------------------------------------
(* Lemmas about the operators of the model. *)

(* In a run of whole lines there is an end of line within the longest length
   of one. *)
LEMMA EndInSight ==
  ASSUME NEW s \in Seq(Cell), NEW a \in Seq(Cell), Len(s) > MaxBytes,
         Ended(a), Recent(s, a)
  PROVE  \E i \in 1 .. MaxLen :
           /\ i <= MaxBytes
           /\ IsEnd(s[Len(s) - MaxBytes + i])
<1> DEFINE f == Len(a) - MaxBytes + 1
<1>1. /\ Len(s) \in Nat
      /\ Len(a) \in Nat
      /\ Len(s) <= Len(a)
      /\ MaxBytes \in Nat
      /\ MaxLen \in Nat
      /\ MaxLen >= 1
      /\ MaxLen <= MaxBytes
  BY LenProperties, LogConstants DEF Recent
<1>2. f \in 1 .. Len(a)
  BY <1>1
<1>3. /\ a[f].left \in Nat
      /\ a[f].left < MaxLen
      /\ IsEnd(a[f + a[f].left])
  BY <1>2, CellLeft DEF Ended
<1>4. PICK m \in Nat : m = a[f].left /\ m < MaxLen
  BY <1>3
<1>5. /\ 1 + m \in 1 .. MaxLen
      /\ 1 + m <= MaxBytes
      /\ Len(s) - MaxBytes + (1 + m) \in 1 .. Len(s)
      /\ Len(a) - Len(s) + (Len(s) - MaxBytes + (1 + m)) = f + m
  <2>1. 1 + m \in 1 .. MaxLen /\ 1 + m <= MaxBytes
    BY <1>1, <1>4
  <2>2. Len(s) - MaxBytes + (1 + m) \in 1 .. Len(s)
    BY <1>1, <2>1
  <2>3. Len(a) - Len(s) + (Len(s) - MaxBytes + (1 + m)) = f + m
    BY <1>1, <1>4
  <2> QED
    BY <2>1, <2>2, <2>3
<1>6. IsEnd(a[f + m])
  BY <1>3, <1>4
<1> HIDE DEF f
<1>7. s[Len(s) - MaxBytes + (1 + m)] = a[f + m]
  BY <1>5 DEF Recent
<1> QED
  BY <1>5, <1>6, <1>7

(* The capped log, the end of a line being in sight. *)
LEMMA CapLogTrims ==
  ASSUME NEW s \in Seq(Cell), Len(s) > MaxBytes,
         NEW e \in 1 .. MaxLen, e <= MaxBytes, IsEnd(s[Len(s) - MaxBytes + e])
  PROVE  /\ Contract!EndOf(CapLog(s), s)
         /\ Len(CapLog(s)) \in MaxBytes - MaxLen .. MaxBytes
<1> DEFINE t == Newest(s, MaxBytes)
<1> DEFINE k == SelectInSeq(t, IsEnd)
<1> DEFINE c == CapLog(s)
<1>1. /\ Len(s) \in Nat
      /\ MaxBytes \in Nat
      /\ MaxLen \in Nat
      /\ MaxBytes \in 0 .. Len(s)
      /\ e \in 1 .. MaxBytes
  BY LenProperties, LogConstants
<1>2. /\ t \in Seq(Cell)
      /\ Len(t) = MaxBytes
      /\ \A i \in 1 .. MaxBytes : t[i] = s[Len(s) - MaxBytes + i]
  BY <1>1, NewestCells
<1>3. /\ k \in 0 .. MaxBytes
      /\ k > 0 => IsEnd(t[k])
      /\ k = 0 => \A i \in 1 .. MaxBytes : ~ IsEnd(t[i])
      /\ \A i \in 1 .. MaxBytes : IsEnd(t[i]) => k <= i
  BY <1>2, FirstEnd
<1> HIDE DEF t, k
<1>4. /\ \A i \in k + 1 .. MaxBytes : t[i] \in Cell
      /\ k + 1 \in Int
      /\ MaxBytes \in Int
  BY <1>1, <1>2, <1>3, ElementOfSeq
<1>5. c = SubSeq(t, k + 1, MaxBytes)
  BY <1>2 DEF CapLog, FromBoundary, t, k
<1>6. /\ Len(c) = IF k + 1 <= MaxBytes THEN MaxBytes - (k + 1) + 1 ELSE 0
      /\ \A i \in 1 .. MaxBytes - (k + 1) + 1 : c[i] = t[(k + 1) + i - 1]
  BY <1>4, <1>5, SubSeqProperties
<1> HIDE DEF c
<1>7. Len(c) = MaxBytes - k
  BY <1>1, <1>3, <1>6
<1>8. k \in 1 .. MaxLen
  <2>1. IsEnd(t[e])
    BY <1>1, <1>2
  <2> QED
    BY <1>1, <1>3, <2>1
<1>9. ASSUME NEW i \in 1 .. Len(c)
      PROVE  c[i] = s[Len(s) - Len(c) + i]
  <2>1. /\ i \in 1 .. MaxBytes - (k + 1) + 1
        /\ (k + 1) + i - 1 = k + i
        /\ k + i \in 1 .. MaxBytes
        /\ Len(s) - MaxBytes + (k + i) = Len(s) - Len(c) + i
    BY <1>1, <1>3, <1>7
  <2> QED
    BY <1>2, <1>6, <2>1
<1>10. IsEnd(s[Len(s) - Len(c)])
  <2>1. k \in 1 .. MaxBytes /\ Len(s) - MaxBytes + k = Len(s) - Len(c)
    BY <1>1, <1>3, <1>7, <1>8
  <2>2. t[k] = s[Len(s) - MaxBytes + k] /\ IsEnd(t[k])
    BY <1>2, <1>3, <2>1
  <2> QED
    BY <2>1, <2>2
<1>11. Len(c) < Len(s) /\ Len(c) \in MaxBytes - MaxLen .. MaxBytes
  BY <1>1, <1>7, <1>8
<1> QED
  BY <1>9, <1>10, <1>11 DEF Contract!EndOf, c

(* A line at the end of a file. *)
LEMMA LineAdded ==
  ASSUME NEW s \in Seq(Cell), NEW n \in Nat, NEW len \in 1 .. MaxLen
  PROVE  LET t == s \o Line(n, len)
         IN /\ Len(t) \in Len(s) + 1 .. Len(s) + MaxLen
            /\ \A i \in 1 .. Len(s) : t[i] = s[i]
            /\ \A i \in Len(s) + 1 .. Len(t) : IsEnd(t[i]) <=> i = Len(t)
<1> DEFINE l == Line(n, len)
<1> DEFINE t == s \o l
<1>1. l \in Seq(Cell) /\ Len(l) = len /\ len \in Nat /\ MaxLen \in Nat
  BY LineCells, LogConstants
<1>2. \A i \in 1 .. len : l[i].left = len - i
  BY LineLeft
<1> HIDE DEF l
<1>3. /\ Len(s) \in Nat
      /\ Len(t) = Len(s) + len
      /\ \A i \in 1 .. Len(s) : t[i] = s[i]
      /\ \A i \in 1 .. len : t[Len(s) + i] = l[i]
  BY <1>1, Behind
<1> HIDE DEF t
<1>4. ASSUME NEW i \in Len(s) + 1 .. Len(t)
      PROVE  IsEnd(t[i]) <=> i = Len(t)
  <2>1. PICK j \in 1 .. len : i = Len(s) + j
    <3>1. i - Len(s) \in 1 .. len /\ i = Len(s) + (i - Len(s))
      BY <1>1, <1>3
    <3> QED
      BY <3>1
  <2>2. t[i] = l[j] /\ l[j].left = len - j
    BY <1>2, <1>3, <2>1
  <2>3. IsEnd(t[i]) <=> len - j = 0
    BY <2>2 DEF IsEnd
  <2> QED
    BY <1>1, <1>3, <2>1, <2>3
<1>5. Len(t) \in Len(s) + 1 .. Len(s) + MaxLen
  BY <1>1, <1>3
<1> QED
  BY <1>3, <1>4, <1>5 DEF t, l

(* What the file says. *)
LEMMA TextIsLog ==
  ASSUME lost \/ \A p \in Proc : pc[p] # "fill"
  PROVE  Text = log
  BY DEF Text

LEMMA TextInHand ==
  ASSUME NEW p \in Proc, ~lost, pc[p] = "fill",
         \A q \in Proc \ {p} : pc[q] # "fill"
  PROVE  Text = copy[p]
<1>1. p = CHOOSE q \in Proc : pc[q] = "fill"
  OBVIOUS
<1> QED
  BY <1>1 DEF Text

-----------------------------------------------------------------------------
LEMMA HandInit == Init => HandInv
  BY DEF Init, HandInv

(* A file that changed between another's read and its truncation is no longer
   sound, so that every writer's copy is of the file as it is. *)
LEMMA HandNext == SizeInv /\ NewestInv /\ HandInv /\ [Next]_vars => HandInv'
<1> SUFFICES ASSUME SizeInv, NewestInv, HandInv, [Next]_vars, ~lost'
             PROVE  \A p \in Proc : pc'[p] = "trunc" =>
                      Len(log') > MaxBytes /\ copy'[p] = CapLog(log')
  BY DEF HandInv
<1>1. /\ pc \in [Proc -> {"idle", "check", "trunc", "fill"}]
      /\ copy \in [Proc -> Seq(Cell)]
      /\ log \in Seq(Cell)
      /\ Len(log) \in Nat
      /\ MaxBytes \in Nat
  BY LogConstants, LenProperties DEF SizeInv, TypeOK
<1>2. ~lost => \A p \in Proc : pc[p] = "trunc" => Len(log) > MaxBytes /\ copy[p] = CapLog(log)
  BY DEF HandInv
<1>3. CASE Redirected
  BY <1>3 DEF Redirected
<1>4. ASSUME NEW p \in Proc, AppendLine(p)
      PROVE  \A q \in Proc : pc'[q] # "trunc"
  BY <1>1, <1>4 DEF AppendLine, Disturbs, Others, Goto
<1>5. ASSUME NEW p \in Proc, CheckSize(p)
      PROVE  \A q \in Proc : pc'[q] = "trunc" =>
               Len(log') > MaxBytes /\ copy'[q] = CapLog(log')
  <2>1. log' = log /\ lost' = lost
    BY <1>5 DEF CheckSize
  <2>2. \A q \in Proc \ {p} : pc'[q] = pc[q] /\ copy'[q] = copy[q]
    BY <1>1, <1>5 DEF CheckSize, Goto
  <2>3. pc'[p] = "trunc" => Len(log) > MaxBytes /\ copy'[p] = CapLog(log)
    BY <1>1, <1>5 DEF CheckSize, Goto
  <2> QED
    BY <1>2, <2>1, <2>2, <2>3
<1>6. ASSUME NEW p \in Proc, Truncate(p)
      PROVE  \A q \in Proc : pc'[q] # "trunc"
  BY <1>1, <1>6 DEF Truncate, Disturbs, Others, Goto
<1>7. ASSUME NEW p \in Proc, Fill(p)
      PROVE  \A q \in Proc : pc'[q] # "trunc"
  <2>1. \A q \in Proc \ {p} : pc[q] # "trunc"
    BY <1>7 DEF Fill, ghosts, NewestInv
  <2> QED
    BY <1>1, <1>7, <2>1 DEF Fill, Goto
<1>8. ASSUME NEW p \in Proc, Leave(p)
      PROVE  \A q \in Proc : pc'[q] = "trunc" =>
               Len(log') > MaxBytes /\ copy'[q] = CapLog(log')
  <2>1. log' = log /\ ~lost
    BY <1>8 DEF Leave
  <2>2. pc'[p] = "idle" /\ \A q \in Proc \ {p} : pc'[q] = pc[q] /\ copy'[q] = copy[q]
    BY <1>1, <1>8 DEF Leave, Goto
  <2> QED
    BY <1>2, <2>1, <2>2
<1>9. CASE UNCHANGED vars
  BY <1>2, <1>9 DEF vars, ghosts
<1> QED
  BY <1>3, <1>4, <1>5, <1>6, <1>7, <1>8, <1>9 DEF Next, Step, Terminating

-----------------------------------------------------------------------------
LEMMA ContractInit == Init => Contract!Init
  BY DEF Init, Contract!Init, Text

LEMMA ContractStep ==
  ContractInv /\ ContractInv' /\ [Next]_vars => [Contract!Next]_Contract!vars
<1> SUFFICES ASSUME ContractInv, ContractInv', [Next]_vars
             PROVE  [Contract!Next]_Contract!vars
  OBVIOUS
<1>1. /\ pc \in [Proc -> {"idle", "check", "trunc", "fill"}]
      /\ copy \in [Proc -> Seq(Cell)]
      /\ log \in Seq(Cell)
      /\ lines \in Nat
  BY DEF ContractInv, SizeInv, TypeOK
<1>2. CASE lost'
  <2>1. Text' = log'
    BY <1>2 DEF Text
  <2>2. log' \in Seq(Cell)
    BY DEF ContractInv, SizeInv, TypeOK
  <2>3. Contract!Damage
    BY <1>2, <2>1, <2>2 DEF Contract!Damage
  <2> QED
    BY <2>3 DEF Contract!Next
<1>3. CASE ~lost'
  <2>1. ~lost
    BY <1>3 DEF Next, Step, Terminating, Redirected, AppendLine, CheckSize, Truncate, Fill,
       Leave, Disturbs, vars, ghosts
  <2>2. ASSUME NEW p \in Proc, pc[p] = "fill"
        PROVE  /\ log = <<>>
               /\ \A q \in Proc \ {p} : pc[q] # "fill"
               /\ Text = copy[p]
    <3>1. log = <<>> /\ \A q \in Proc \ {p} : pc[q] # "fill"
      BY <2>1, <2>2 DEF ContractInv, NewestInv
    <3> QED
      BY <2>1, <2>2, <3>1, TextInHand
  <2>3. ASSUME NEW len \in 1 .. MaxLen, AddLine(len), \A q \in Proc : pc[q] # "fill",
               \A q \in Proc : pc'[q] # "fill"
        PROVE  Contract!Line
    <3>1. Text = log
      BY <2>3, TextIsLog
    <3>2. Text' = log'
      BY <2>3 DEF Text
    <3>3. log' = log \o Line(lines', len) /\ lines' \in Nat
      BY <1>1, <2>3 DEF AddLine
    <3>4. /\ Len(log') \in Len(log) + 1 .. Len(log) + MaxLen
          /\ \A i \in 1 .. Len(log) : log'[i] = log[i]
          /\ \A i \in Len(log) + 1 .. Len(log') : IsEnd(log'[i]) <=> i = Len(log')
      BY <1>1, <3>3, LineAdded
    <3> QED
      BY <1>3, <2>1, <3>1, <3>2, <3>4 DEF Contract!Line
  <2>4. CASE Redirected
    <3>1. pc' = pc /\ \A q \in Proc : pc[q] # "fill"
      BY <1>3, <2>4 DEF Redirected
    <3>2. \A q \in Proc : pc'[q] # "fill"
      BY <3>1
    <3>3. Contract!Line
      BY <2>3, <2>4, <3>1, <3>2 DEF Redirected
    <3> QED
      BY <3>3 DEF Contract!Next
  <2>5. ASSUME NEW p \in Proc, AppendLine(p)
        PROVE  Contract!Next
    <3>1. \A q \in Proc : pc[q] # "fill" /\ pc'[q] # "fill"
      BY <1>1, <1>3, <2>5 DEF AppendLine, Disturbs, Others, Goto
    <3>2. Contract!Line
      BY <2>3, <2>5, <3>1 DEF AppendLine
    <3> QED
      BY <3>2 DEF Contract!Next
  <2>6. ASSUME NEW p \in Proc, CheckSize(p)
        PROVE  Text' = Text
    <3>1. log' = log /\ pc[p] = "check" /\ pc'[p] # "fill"
      BY <1>1, <2>6 DEF CheckSize, Goto
    <3>2. \A q \in Proc \ {p} : pc'[q] = pc[q] /\ copy'[q] = copy[q]
      BY <1>1, <2>6 DEF CheckSize, Goto
    <3>3. CASE \E q \in Proc : pc[q] = "fill"
      <4>1. PICK q \in Proc : pc[q] = "fill"
        BY <3>3
      <4>2. q # p /\ pc'[q] = "fill" /\ \A r \in Proc \ {q} : pc'[r] # "fill"
        BY <2>2, <3>1, <3>2, <4>1
      <4>3. Text' = copy'[q]
        <5>1. q = CHOOSE r \in Proc : pc'[r] = "fill"
          BY <4>2
        <5> QED
          BY <1>3, <4>2, <5>1 DEF Text
      <4> QED
        BY <2>2, <3>2, <4>1, <4>2, <4>3
    <3>4. CASE \A q \in Proc : pc[q] # "fill"
      <4>1. \A q \in Proc : pc'[q] # "fill"
        BY <3>1, <3>2, <3>4
      <4> QED
        BY <3>1, <3>4, <4>1 DEF Text
    <3> QED
      BY <3>3, <3>4
  <2>7. ASSUME NEW p \in Proc, Truncate(p)
        PROVE  Contract!Trim
    <3>1. /\ pc[p] = "trunc"
          /\ pc' = [pc EXCEPT ![p] = "fill"]
          /\ copy' = copy
          /\ \A q \in Proc \ {p} : pc[q] # "fill"
      BY <1>3, <2>7 DEF Truncate, Disturbs, Others, Goto
    <3>2. Text = log
      BY <3>1, TextIsLog
    <3>3. pc'[p] = "fill" /\ \A q \in Proc \ {p} : pc'[q] # "fill"
      BY <1>1, <3>1
    <3>4. Text' = copy[p]
      <4>1. p = CHOOSE q \in Proc : pc'[q] = "fill"
        BY <3>3
      <4> QED
        BY <1>3, <3>1, <3>3, <4>1 DEF Text
    <3>5. Len(log) > MaxBytes /\ copy[p] = CapLog(log)
      BY <2>1, <3>1 DEF ContractInv, HandInv
    <3>6. Ended(all) /\ Recent(log, all) /\ all \in Seq(Cell)
      <4>1. \A q \in Proc : pc[q] # "fill"
        BY <3>1
      <4> QED
        BY <2>1, <4>1 DEF ContractInv, NewestInv, SizeInv, TypeOK
    <3>7. /\ Contract!EndOf(CapLog(log), log)
          /\ Len(CapLog(log)) \in MaxBytes - MaxLen .. MaxBytes
      BY <1>1, <3>5, <3>6, EndInSight, CapLogTrims
    <3> QED
      BY <1>3, <2>1, <3>2, <3>4, <3>5, <3>7 DEF Contract!Trim
  <2>8. ASSUME NEW p \in Proc, Fill(p)
        PROVE  Text' = Text
    <3>1. /\ pc[p] = "fill"
          /\ pc' = [pc EXCEPT ![p] = "idle"]
          /\ log' = Overwrite(log, copy[p])
      BY <2>8 DEF Fill, Goto
    <3>2. log = <<>> /\ Text = copy[p] /\ \A q \in Proc \ {p} : pc[q] # "fill"
      BY <2>2, <3>1
    <3>3. log' = copy[p]
      <4>1. copy[p] \in Seq(Cell) /\ Len(copy[p]) \in Nat
        BY <1>1, LenProperties
      <4>2. SubSeq(log, Len(copy[p]) + 1, Len(log)) = <<>>
        BY <3>2, <4>1, EmptySeq, SubSeqEmpty
      <4> QED
        BY <3>1, <4>1, <4>2, ConcatEmptySeq DEF Overwrite
    <3>4. \A q \in Proc : pc'[q] # "fill"
      BY <1>1, <3>1, <3>2
    <3>5. Text' = log'
      BY <3>4 DEF Text
    <3> QED
      BY <3>2, <3>3, <3>5
  <2>9. ASSUME NEW p \in Proc, Leave(p)
        PROVE  Text' = Text
    <3>1. log' = log /\ pc[p] # "fill" /\ pc'[p] = "idle"
      BY <1>1, <1>3, <2>9 DEF Leave, Goto
    <3>2. \A q \in Proc \ {p} : pc'[q] = pc[q] /\ copy'[q] = copy[q]
      BY <1>1, <2>9 DEF Leave, Goto
    <3>3. CASE \E q \in Proc : pc[q] = "fill"
      <4>1. PICK q \in Proc : pc[q] = "fill"
        BY <3>3
      <4>2. q # p /\ pc'[q] = "fill" /\ \A r \in Proc \ {q} : pc'[r] # "fill"
        BY <2>2, <3>1, <3>2, <4>1
      <4>3. Text' = copy'[q]
        <5>1. q = CHOOSE r \in Proc : pc'[r] = "fill"
          BY <4>2
        <5> QED
          BY <1>3, <4>2, <5>1 DEF Text
      <4> QED
        BY <2>2, <3>2, <4>1, <4>2, <4>3
    <3>4. CASE \A q \in Proc : pc[q] # "fill"
      <4>1. \A q \in Proc : pc'[q] # "fill"
        BY <3>1, <3>2, <3>4
      <4> QED
        BY <3>1, <3>4, <4>1 DEF Text
    <3> QED
      BY <3>3, <3>4
  <2>10. CASE UNCHANGED vars
    <3>1. Text' = Text
      BY <2>10 DEF vars, ghosts, Text
    <3> QED
      BY <1>3, <2>1, <3>1 DEF Contract!vars
  <2> QED
    BY <1>3, <2>1, <2>4, <2>5, <2>6, <2>7, <2>8, <2>9, <2>10
       DEF Next, Step, Terminating, Contract!Next, Contract!vars
<1> QED
  BY <1>2, <1>3

(* The log of several writers, each of which reads, truncates and rewrites it
   in steps of its own, implements one that is trimmed in a step, until a
   change comes between another's read and rewrite, or a rewrite fails
   (log.go, Log and capLog). *)
THEOREM LogIsRolling == Spec => ImplementsRollingLog
<1>1. Init => ContractInv
  BY SizeInit, NewestInit, HandInit DEF ContractInv
<1>2. ContractInv /\ [Next]_vars => ContractInv'
  BY SizeNext, NewestNext, HandNext DEF ContractInv
<1> QED
  BY <1>1, <1>2, ContractInit, ContractStep, PTL DEF Spec, ImplementsRollingLog, Contract!Spec
=============================================================================
