--------------------------- MODULE LogNewestProofs ---------------------------
(***************************************************************************)
(* The theorem that truncation takes the oldest: a log whose rewrites were *)
(* neither disturbed nor abandoned is the newest part of all that was      *)
(* logged, and nearly as much of it as the cap allows.                     *)
(***************************************************************************)
EXTENDS LogProofs

(* s is the end of a, and long unless it is all of a. *)
Recent(s, a) ==
  /\ Len(s) <= Len(a)
  /\ \A i \in 1 .. Len(s) : s[i] = a[Len(a) - Len(s) + i]
  /\ Len(s) < Len(a) => Len(s) >= MaxBytes - MaxLen

(* Every line in a goes on to its end, within the longest length of a line. *)
Ended(a) ==
  \A i \in 1 .. Len(a) :
    /\ a[i].left < MaxLen
    /\ i + a[i].left <= Len(a)
    /\ IsEnd(a[i + a[i].left])

NewestInv ==
  /\ Ended(all)
  /\ ~lost =>
       /\ (\A p \in Proc : pc[p] # "fill") => Recent(log, all)
       /\ \A p \in Proc : pc[p] = "trunc" => Recent(copy[p], all)
       /\ \A p \in Proc : pc[p] = "fill" =>
            /\ log = <<>>
            /\ Recent(copy[p], all)
            /\ \A q \in Proc \ {p} : pc[q] \notin {"trunc", "fill"}

-----------------------------------------------------------------------------
(* Lemmas about the end of a sequence. *)

LEMMA CellLeft ==
  ASSUME NEW s \in Seq(Cell)
  PROVE  \A i \in 1 .. Len(s) : s[i].left \in Nat
<1>1. \A i \in 1 .. Len(s) : s[i] \in Cell
  BY ElementOfSeq
<1>2. \A x \in Cell : x.left \in Nat
  BY DEF Cell
<1> QED
  BY <1>1, <1>2

LEMMA LineLeft ==
  ASSUME NEW n \in Nat, NEW len \in 1 .. MaxLen, NEW i \in 1 .. len
  PROVE  /\ Line(n, len)[i].left = len - i
         /\ Line(n, len)[i].left < MaxLen
         /\ IsEnd(Line(n, len)[len])
<1>1. len \in Nat /\ len <= MaxLen /\ MaxLen \in Nat
  BY LogConstants
<1>2. Line(n, len)[i].left = len - i
  BY <1>1 DEF Line
<1>3. Line(n, len)[len].left = 0
  <2>1. len \in 1 .. len /\ len - len = 0
    BY <1>1
  <2> QED
    BY <2>1 DEF Line
<1> QED
  BY <1>1, <1>2, <1>3 DEF IsEnd

(* The cells of a sequence with another one behind it. *)
LEMMA Behind ==
  ASSUME NEW s \in Seq(Cell), NEW l \in Seq(Cell)
  PROVE  /\ Len(s) \in Nat
         /\ Len(l) \in Nat
         /\ Len(s \o l) = Len(s) + Len(l)
         /\ \A i \in 1 .. Len(s) : (s \o l)[i] = s[i]
         /\ \A i \in 1 .. Len(l) : (s \o l)[Len(s) + i] = l[i]
<1>1. Len(s) \in Nat /\ Len(l) \in Nat
  BY LenProperties
<1>2. /\ Len(s \o l) = Len(s) + Len(l)
      /\ \A i \in 1 .. Len(s) + Len(l) :
           (s \o l)[i] = IF i <= Len(s) THEN s[i] ELSE l[i - Len(s)]
  BY ConcatProperties
<1>3. \A i \in 1 .. Len(l) : /\ Len(s) + i \in 1 .. Len(s) + Len(l)
                             /\ ~ (Len(s) + i <= Len(s))
                             /\ (Len(s) + i) - Len(s) = i
  BY <1>1
<1>4. \A i \in 1 .. Len(s) : i \in 1 .. Len(s) + Len(l) /\ i <= Len(s)
  BY <1>1
<1> QED
  BY <1>1, <1>2, <1>3, <1>4

LEMMA RecentAppend ==
  ASSUME NEW s \in Seq(Cell), NEW a \in Seq(Cell), NEW l \in Seq(Cell), Recent(s, a)
  PROVE  Recent(s \o l, a \o l)
<1> DEFINE t == s \o l
<1> DEFINE b == a \o l
<1>1. /\ Len(s) \in Nat
      /\ Len(l) \in Nat
      /\ Len(t) = Len(s) + Len(l)
      /\ \A i \in 1 .. Len(s) : t[i] = s[i]
      /\ \A i \in 1 .. Len(l) : t[Len(s) + i] = l[i]
  BY Behind
<1>2. /\ Len(a) \in Nat
      /\ Len(b) = Len(a) + Len(l)
      /\ \A i \in 1 .. Len(a) : b[i] = a[i]
      /\ \A i \in 1 .. Len(l) : b[Len(a) + i] = l[i]
  BY Behind
<1> HIDE DEF t, b
<1>3. Len(t) <= Len(b) /\ (Len(t) < Len(b) => Len(t) >= MaxBytes - MaxLen)
  BY <1>1, <1>2, LogConstants DEF Recent
<1>4. ASSUME NEW i \in 1 .. Len(t)
      PROVE  t[i] = b[Len(b) - Len(t) + i]
  <2>1. Len(b) - Len(t) + i = Len(a) - Len(s) + i
    BY <1>1, <1>2
  <2>2. CASE i <= Len(s)
    <3>1. i \in 1 .. Len(s) /\ Len(a) - Len(s) + i \in 1 .. Len(a)
      BY <1>1, <1>2, <2>2 DEF Recent
    <3>2. s[i] = a[Len(a) - Len(s) + i]
      BY <3>1 DEF Recent
    <3> QED
      BY <1>1, <1>2, <2>1, <3>1, <3>2
  <2>3. CASE i > Len(s)
    <3>1. PICK j \in 1 .. Len(l) : i = Len(s) + j
      <4>1. i - Len(s) \in 1 .. Len(l) /\ i = Len(s) + (i - Len(s))
        BY <1>1, <2>3
      <4> QED
        BY <4>1
    <3>2. Len(a) - Len(s) + i = Len(a) + j
      BY <1>1, <1>2, <3>1
    <3> QED
      BY <1>1, <1>2, <2>1, <3>1, <3>2
  <2> QED
    BY <1>1, <2>2, <2>3
<1>5. Recent(t, b)
  BY <1>3, <1>4 DEF Recent
<1> QED
  BY <1>5 DEF t, b

LEMMA EndedAppend ==
  ASSUME NEW a \in Seq(Cell), NEW n \in Nat, NEW len \in 1 .. MaxLen, Ended(a)
  PROVE  Ended(a \o Line(n, len))
<1> DEFINE l == Line(n, len)
<1> DEFINE b == a \o l
<1>1. l \in Seq(Cell) /\ Len(l) = len /\ len \in Nat
  BY LineCells, LogConstants
<1>2. /\ \A i \in 1 .. len : l[i].left = len - i /\ l[i].left < MaxLen
      /\ IsEnd(l[len])
  <2>1. len \in 1 .. len
    BY <1>1
  <2> QED
    BY <2>1, LineLeft
<1> HIDE DEF l
<1>3. /\ Len(a) \in Nat
      /\ Len(b) = Len(a) + len
      /\ \A i \in 1 .. Len(a) : b[i] = a[i]
      /\ \A i \in 1 .. len : b[Len(a) + i] = l[i]
  BY <1>1, Behind
<1>4. \A i \in 1 .. Len(a) : a[i].left \in Nat
  BY CellLeft
<1> HIDE DEF b
<1>5. ASSUME NEW i \in 1 .. Len(b)
      PROVE  b[i].left < MaxLen /\ i + b[i].left <= Len(b) /\ IsEnd(b[i + b[i].left])
  <2>1. CASE i <= Len(a)
    <3>1. i \in 1 .. Len(a) /\ b[i] = a[i]
      BY <1>3, <2>1
    <3>2. /\ a[i].left < MaxLen
          /\ i + a[i].left \in 1 .. Len(a)
          /\ IsEnd(a[i + a[i].left])
      BY <1>3, <1>4, <3>1 DEF Ended
    <3>3. b[i + a[i].left] = a[i + a[i].left]
      BY <1>3, <3>2
    <3> QED
      BY <1>1, <1>3, <3>1, <3>2, <3>3
  <2>2. CASE i > Len(a)
    <3>1. PICK j \in 1 .. len : i = Len(a) + j
      <4>1. i - Len(a) \in 1 .. len /\ i = Len(a) + (i - Len(a))
        BY <1>1, <1>3, <2>2
      <4> QED
        BY <4>1
    <3>2. b[i] = l[j] /\ l[j].left = len - j /\ l[j].left < MaxLen
      BY <1>2, <1>3, <3>1
    <3>3. i + b[i].left = Len(a) + len /\ len \in 1 .. len
      BY <1>1, <1>3, <3>1, <3>2
    <3>4. b[Len(a) + len] = l[len]
      BY <1>3, <3>3
    <3>5. i + b[i].left <= Len(b)
      BY <1>1, <1>3, <3>3
    <3>6. IsEnd(b[i + b[i].left])
      BY <1>2, <3>3, <3>4, Zenon
    <3> QED
      BY <3>2, <3>5, <3>6
  <2> QED
    BY <1>3, <2>1, <2>2
<1>6. Ended(b)
  BY <1>5 DEF Ended
<1> QED
  BY <1>6 DEF b, l

(* The capped log in terms of the log. *)
LEMMA CapLogCells ==
  ASSUME NEW s \in Seq(Cell), Len(s) > MaxBytes
  PROVE  \E k \in 0 .. MaxBytes :
           /\ Len(CapLog(s)) = MaxBytes - k
           /\ \A i \in 1 .. MaxBytes - k : CapLog(s)[i] = s[Len(s) - MaxBytes + (k + i)]
           /\ \A i \in 1 .. MaxBytes : IsEnd(s[Len(s) - MaxBytes + i]) => k <= i
<1> DEFINE t == Newest(s, MaxBytes)
<1> DEFINE k == SelectInSeq(t, IsEnd)
<1> DEFINE c == CapLog(s)
<1>1. /\ Len(s) \in Nat
      /\ MaxBytes \in Nat
      /\ MaxBytes \in 0 .. Len(s)
  BY LenProperties, LogConstants
<1>2. /\ t \in Seq(Cell)
      /\ Len(t) = MaxBytes
      /\ \A i \in 1 .. MaxBytes : t[i] = s[Len(s) - MaxBytes + i]
  BY <1>1, NewestCells
<1>3. /\ k \in 0 .. MaxBytes
      /\ \A i \in 1 .. MaxBytes : IsEnd(t[i]) => k <= i
  BY <1>2, FirstEnd
<1> HIDE DEF t, k
<1>4. /\ \A i \in k + 1 .. MaxBytes : t[i] \in Cell
      /\ k + 1 \in Int
      /\ MaxBytes \in Int
  BY <1>1, <1>2, <1>3, ElementOfSeq
<1>5. c = SubSeq(t, k + 1, MaxBytes)
  BY <1>2 DEF CapLog, FromBoundary, t, k
<1>6. /\ Len(c) = IF k + 1 <= MaxBytes THEN MaxBytes - (k + 1) + 1 ELSE 0
      /\ \A i \in 1 .. MaxBytes - (k + 1) + 1 : c[i] = t[(k + 1) + i - 1]
  BY <1>4, <1>5, SubSeqProperties
<1> HIDE DEF c
<1>7. Len(c) = MaxBytes - k
  BY <1>1, <1>3, <1>6
<1>8. ASSUME NEW i \in 1 .. MaxBytes - k
      PROVE  c[i] = s[Len(s) - MaxBytes + (k + i)]
  <2>1. /\ i \in 1 .. MaxBytes - (k + 1) + 1
        /\ (k + 1) + i - 1 = k + i
        /\ k + i \in 1 .. MaxBytes
    BY <1>1, <1>3
  <2>2. c[i] = t[k + i]
    BY <1>6, <2>1
  <2> QED
    BY <1>2, <2>1, <2>2
<1>9. \A i \in 1 .. MaxBytes : IsEnd(s[Len(s) - MaxBytes + i]) => k <= i
  BY <1>2, <1>3
<1> QED
  BY <1>3, <1>7, <1>8, <1>9 DEF c

(* A rewrite drops less than a line beyond what it must. *)
LEMMA RecentCap ==
  ASSUME NEW s \in Seq(Cell), NEW a \in Seq(Cell), Len(s) > MaxBytes,
         Ended(a), Recent(s, a)
  PROVE  Recent(CapLog(s), a)
<1> DEFINE c == CapLog(s)
<1>1. /\ Len(s) \in Nat
      /\ Len(a) \in Nat
      /\ Len(s) <= Len(a)
      /\ MaxBytes \in Nat
      /\ MaxLen \in Nat
      /\ MaxLen >= 1
      /\ MaxLen <= MaxBytes
  BY LenProperties, LogConstants DEF Recent
<1>2. PICK k \in 0 .. MaxBytes :
        /\ Len(c) = MaxBytes - k
        /\ \A i \in 1 .. MaxBytes - k : c[i] = s[Len(s) - MaxBytes + (k + i)]
        /\ \A i \in 1 .. MaxBytes : IsEnd(s[Len(s) - MaxBytes + i]) => k <= i
  BY CapLogCells
<1> HIDE DEF c
<1>3. ASSUME NEW i \in 1 .. MaxBytes
      PROVE  s[Len(s) - MaxBytes + i] = a[Len(a) - MaxBytes + i]
  <2>1. /\ Len(s) - MaxBytes + i \in 1 .. Len(s)
        /\ Len(a) - Len(s) + (Len(s) - MaxBytes + i) = Len(a) - MaxBytes + i
    BY <1>1
  <2> QED
    BY <2>1 DEF Recent
<1>4. k <= MaxLen
  <2> DEFINE f == Len(a) - MaxBytes + 1
  <2>1. f \in 1 .. Len(a)
    BY <1>1
  <2>2. /\ a[f].left \in Nat
        /\ a[f].left < MaxLen
        /\ IsEnd(a[f + a[f].left])
    BY <2>1, CellLeft DEF Ended
  <2>3. PICK m \in Nat : m = a[f].left
    BY <2>2
  <2>4. 1 + m \in 1 .. MaxBytes /\ 1 + m <= MaxLen /\ f + m = Len(a) - MaxBytes + (1 + m)
    BY <1>1, <2>2, <2>3
  <2>5. IsEnd(a[Len(a) - MaxBytes + (1 + m)])
    BY <2>2, <2>3, <2>4
  <2> HIDE DEF f
  <2>6. IsEnd(s[Len(s) - MaxBytes + (1 + m)])
    BY <1>3, <2>4, <2>5
  <2>7. k <= 1 + m
    BY <1>2, <2>4, <2>6
  <2> QED
    BY <1>1, <2>3, <2>4, <2>7
<1>5. Len(c) <= Len(a) /\ Len(c) >= MaxBytes - MaxLen
  BY <1>1, <1>2, <1>4
<1>6. ASSUME NEW i \in 1 .. Len(c)
      PROVE  c[i] = a[Len(a) - Len(c) + i]
  <2>1. /\ i \in 1 .. MaxBytes - k
        /\ k + i \in 1 .. MaxBytes
        /\ Len(a) - MaxBytes + (k + i) = Len(a) - Len(c) + i
    BY <1>1, <1>2
  <2>2. c[i] = s[Len(s) - MaxBytes + (k + i)]
    BY <1>2, <2>1
  <2> QED
    BY <1>3, <2>1, <2>2
<1>7. Recent(c, a)
  BY <1>5, <1>6 DEF Recent
<1> QED
  BY <1>7 DEF c

-----------------------------------------------------------------------------
LEMMA NewestInit == Init => NewestInv
<1> SUFFICES ASSUME Init
             PROVE  NewestInv
  OBVIOUS
<1>1. Len(<<>>) = 0
  BY EmptySeq
<1>2. Ended(<<>>) /\ Recent(<<>>, <<>>)
  BY <1>1 DEF Ended, Recent
<1> QED
  BY <1>2 DEF Init, NewestInv

LEMMA NewestNext == SizeInv /\ NewestInv /\ [Next]_vars => NewestInv'
<1> SUFFICES ASSUME SizeInv, NewestInv, [Next]_vars
             PROVE  NewestInv'
  OBVIOUS
<1>1. /\ TypeOK
      /\ log \in Seq(Cell)
      /\ all \in Seq(Cell)
      /\ pc \in [Proc -> {"idle", "check", "trunc", "fill"}]
      /\ copy \in [Proc -> Seq(Cell)]
      /\ MaxBytes \in Nat
  BY LogConstants DEF SizeInv, TypeOK
<1>2. Ended(all)
  BY DEF NewestInv
<1>3. ASSUME ~lost
      PROVE  /\ (\A p \in Proc : pc[p] # "fill") => Recent(log, all)
             /\ \A p \in Proc : pc[p] = "trunc" => Recent(copy[p], all)
             /\ \A p \in Proc : pc[p] = "fill" =>
                  /\ log = <<>>
                  /\ Recent(copy[p], all)
                  /\ \A q \in Proc \ {p} : pc[q] \notin {"trunc", "fill"}
  BY <1>3 DEF NewestInv
<1>4. ASSUME NEW len \in 1 .. MaxLen, AddLine(len)
      PROVE  /\ Ended(all')
             /\ Recent(log, all) => Recent(log', all')
  <2>1. lines' \in Nat
    BY <1>1, <1>4 DEF AddLine, TypeOK
  <2>2. /\ Line(lines', len) \in Seq(Cell)
        /\ log' = log \o Line(lines', len)
        /\ all' = all \o Line(lines', len)
    BY <1>4, <2>1, LineCells DEF AddLine
  <2> QED
    BY <1>1, <1>2, <2>1, <2>2, EndedAppend, RecentAppend
<1>5. CASE Redirected
  <2>1. /\ copy' = copy
        /\ pc' = pc
        /\ ~lost' => ~lost /\ \A q \in Proc : pc[q] \notin {"trunc", "fill"}
    BY <1>5 DEF Redirected
  <2>2. /\ Ended(all')
        /\ Recent(log, all) => Recent(log', all')
    BY <1>4, <1>5 DEF Redirected
  <2> QED
    BY <1>3, <2>1, <2>2 DEF NewestInv
<1>6. CASE \E p \in Proc : AppendLine(p)
  <2>1. PICK p \in Proc : AppendLine(p)
    BY <1>6
  <2>2. /\ pc[p] = "idle"
        /\ pc' = [pc EXCEPT ![p] = "check"]
        /\ ~lost' => ~lost /\ \A q \in Proc \ {p} : pc[q] \notin {"trunc", "fill"}
    BY <2>1 DEF AppendLine, Disturbs, Others, Goto
  <2>3. ~lost' => \A q \in Proc : pc[q] # "fill" /\ pc'[q] \notin {"trunc", "fill"}
    BY <1>1, <2>2
  <2>4. /\ Ended(all')
        /\ Recent(log, all) => Recent(log', all')
    BY <1>4, <2>1 DEF AppendLine
  <2> QED
    BY <1>3, <2>2, <2>3, <2>4 DEF NewestInv
<1>7. CASE \E p \in Proc : CheckSize(p)
  <2>1. PICK p \in Proc : CheckSize(p)
    BY <1>7
  <2>2. pc[p] = "check" /\ UNCHANGED <<log, all, lost>>
    BY <2>1 DEF CheckSize
  <2>3. CASE Len(log) <= MaxBytes
    <3>1. pc' = [pc EXCEPT ![p] = "idle"] /\ copy' = copy
      BY <1>1, <2>1, <2>3, LenProperties DEF CheckSize, Goto
    <3>2. \A q \in Proc : /\ pc'[q] \in {"trunc", "fill"} => pc'[q] = pc[q]
                          /\ pc[q] = "fill" => pc'[q] = "fill"
      BY <1>1, <2>2, <3>1
    <3> QED
      BY <1>2, <1>3, <2>2, <3>1, <3>2 DEF NewestInv
  <2>4. CASE Len(log) > MaxBytes
    <3>1. /\ pc' = [pc EXCEPT ![p] = "trunc"]
          /\ copy' = [copy EXCEPT ![p] = CapLog(log)]
      BY <1>1, <2>1, <2>4, LenProperties DEF CheckSize, Goto
    <3>2. ~lost => \A q \in Proc : pc[q] # "fill"
      BY <1>1, <1>3, <2>4, EmptySeq
    <3>3. ~lost => Recent(CapLog(log), all)
      BY <1>1, <1>2, <1>3, <2>4, <3>2, RecentCap
    <3>4. /\ \A q \in Proc : pc'[q] = "fill" => pc[q] = "fill"
          /\ \A q \in Proc : pc'[q] = "trunc" =>
               \/ copy'[q] = CapLog(log)
               \/ pc[q] = "trunc" /\ copy'[q] = copy[q]
      BY <1>1, <3>1
    <3> QED
      BY <1>2, <1>3, <2>2, <3>2, <3>3, <3>4 DEF NewestInv
  <2> QED
    BY <1>1, <2>3, <2>4, LenProperties
<1>8. CASE \E p \in Proc : Truncate(p)
  <2>1. PICK p \in Proc : Truncate(p)
    BY <1>8
  <2>2. /\ pc[p] = "trunc"
        /\ pc' = [pc EXCEPT ![p] = "fill"]
        /\ log' = <<>>
        /\ copy' = copy
        /\ all' = all
        /\ ~lost' => ~lost /\ \A q \in Proc \ {p} : pc[q] \notin {"trunc", "fill"}
    BY <2>1 DEF Truncate, Disturbs, Others, Goto
  <2>3. /\ pc'[p] = "fill"
        /\ \A q \in Proc \ {p} : pc'[q] = pc[q]
    BY <1>1, <2>2
  <2> QED
    BY <1>2, <1>3, <2>2, <2>3 DEF NewestInv
<1>9. CASE \E p \in Proc : Fill(p)
  <2>1. PICK p \in Proc : Fill(p)
    BY <1>9
  <2>2. /\ pc[p] = "fill"
        /\ pc' = [pc EXCEPT ![p] = "idle"]
        /\ log' = Overwrite(log, copy[p])
        /\ all' = all
        /\ lost' = lost
    BY <2>1 DEF Fill, ghosts, Goto
  <2>3. ~lost => log' = copy[p]
    <3> HAVE ~lost
    <3>1. copy[p] \in Seq(Cell) /\ Len(copy[p]) \in Nat
      BY <1>1, LenProperties
    <3>2. log = <<>> /\ Len(log) = 0
      BY <1>3, <2>2, EmptySeq
    <3>3. SubSeq(log, Len(copy[p]) + 1, Len(log)) = <<>>
      BY <3>1, <3>2, SubSeqEmpty
    <3>4. copy[p] \o <<>> = copy[p]
      BY <3>1, ConcatEmptySeq
    <3> QED
      BY <2>2, <3>3, <3>4 DEF Overwrite
  <2>4. /\ pc'[p] = "idle"
        /\ \A q \in Proc \ {p} : pc'[q] = pc[q]
    BY <1>1, <2>2
  <2>5. ~lost => \A q \in Proc : pc'[q] \notin {"trunc", "fill"}
    BY <1>3, <2>2, <2>4
  <2>6. ~lost => Recent(copy[p], all)
    BY <1>3, <2>2
  <2> QED
    BY <1>2, <2>2, <2>3, <2>5, <2>6 DEF NewestInv
<1>10. CASE \E p \in Proc : Leave(p)
  <2>1. PICK p \in Proc : Leave(p)
    BY <1>10
  <2>2. /\ log' = log
        /\ all' = all
        /\ copy' = [copy EXCEPT ![p] = <<>>]
        /\ pc' = [pc EXCEPT ![p] = "idle"]
        /\ ~lost' => ~lost /\ pc[p] # "fill"
    BY <2>1 DEF Leave, Goto
  <2>3. \A q \in Proc : pc'[q] \in {"trunc", "fill"} =>
          pc'[q] = pc[q] /\ copy'[q] = copy[q]
    BY <1>1, <2>2
  <2>4. ~lost' => \A q \in Proc : (pc[q] = "fill" => pc'[q] = "fill")
    BY <1>1, <2>2
  <2> QED
    BY <1>2, <1>3, <2>2, <2>3, <2>4 DEF NewestInv
<1>11. CASE UNCHANGED vars
  <2>1. UNCHANGED <<log, copy, pc, all, lost>>
    BY <1>11 DEF vars, ghosts
  <2> QED
    BY <2>1 DEF NewestInv
<1> QED
  BY <1>5, <1>6, <1>7, <1>8, <1>9, <1>10, <1>11 DEF Next, Step, Terminating

(* Of two sequences of one length, the end of one is that one. *)
LEMMA RecentIsNewest ==
  ASSUME NEW s \in Seq(Cell), NEW a \in Seq(Cell), Recent(s, a)
  PROVE  /\ s = Newest(a, Len(s))
         /\ s # a => Len(s) >= MaxBytes - MaxLen
<1>1. /\ Len(s) \in Nat
      /\ Len(a) \in Nat
      /\ Len(s) \in 0 .. Len(a)
  BY LenProperties DEF Recent
<1>2. /\ Newest(a, Len(s)) \in Seq(Cell)
      /\ Len(Newest(a, Len(s))) = Len(s)
      /\ \A i \in 1 .. Len(s) : Newest(a, Len(s))[i] = a[Len(a) - Len(s) + i]
  BY <1>1, NewestCells
<1>3. s = Newest(a, Len(s))
  BY <1>2, SeqEqual DEF Recent
<1>4. CASE Len(s) = Len(a)
  <2>1. \A i \in 1 .. Len(s) : s[i] = a[i]
    <3> TAKE i \in 1 .. Len(s)
    <3>1. Len(a) - Len(s) + i = i
      BY <1>1, <1>4
    <3> QED
      BY <3>1 DEF Recent
  <2>2. s = a
    BY <1>4, <2>1, SeqEqual
  <2> QED
    BY <1>3, <2>2
<1>5. CASE Len(s) < Len(a)
  BY <1>3, <1>5 DEF Recent
<1> QED
  BY <1>1, <1>4, <1>5

(* Without an append into another's rewrite, or a rewrite that failed, the log
   ends in the newest line, misses none after its first, and is nearly full if
   it misses any (log.go, capLog). *)
THEOREM LogKeepsNewest == Spec => []NewestKept
<1>1. SizeInv /\ NewestInv => NewestKept
  <2> SUFFICES ASSUME SizeInv, NewestInv, ~lost, \A p \in Proc : pc[p] # "fill"
               PROVE  /\ Len(log) <= Len(all)
                      /\ log = Newest(all, Len(log))
                      /\ log # all => Len(log) >= MaxBytes - MaxLen
    BY DEF NewestKept
  <2>1. /\ Recent(log, all)
        /\ log \in Seq(Cell)
        /\ all \in Seq(Cell)
    BY DEF NewestInv, SizeInv, TypeOK
  <2> QED
    BY <2>1, RecentIsNewest DEF Recent
<1> QED
  BY <1>1, SizeInit, SizeNext, NewestInit, NewestNext, PTL DEF Spec
=============================================================================
