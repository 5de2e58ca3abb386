------------------------------ MODULE LogProofs ------------------------------
(***************************************************************************)
(* Theorems about LogFile, for any number of processes, any cap and any    *)
(* length of lines: the size of the log is bounded, and a rewrite that is  *)
(* not disturbed leaves whole lines.                                       *)
(***************************************************************************)
EXTENDS LogFile, TLAPS, SequenceTheorems, FiniteSetTheorems, WellFoundedInduction

-----------------------------------------------------------------------------
(* Lemmas about the operators of the model. *)

(* A set of naturals with an element has a least one. *)
LEMMA LeastElement ==
  ASSUME NEW I \in SUBSET Nat, I # {}
  PROVE  /\ Min(I) \in I
         /\ \A i \in I : Min(I) <= i
<1>1. PICK x \in I : \A y \in I : ~ (<<y, x>> \in OpToRel(<, Nat))
  BY NatLessThanWellFounded, WFMin
<1>2. ASSUME NEW y \in I
      PROVE  x <= y
  <2>1. x \in Nat /\ y \in Nat
    OBVIOUS
  <2>2. y < x => <<y, x>> \in OpToRel(<, Nat)
    BY <2>1, SMT DEF OpToRel
  <2>3. ~ (y < x)
    BY <1>1, <2>2, Zenon
  <2> QED
    BY <2>1, <2>3
<1> QED
  BY <1>2 DEF Min

(* The first end of line is an end of line, or 0 when there is none. *)
LEMMA FirstEnd ==
  ASSUME NEW s \in Seq(Cell)
  PROVE  LET k == SelectInSeq(s, IsEnd)
         IN /\ k \in 0 .. Len(s)
            /\ k > 0 => IsEnd(s[k])
            /\ k = 0 => \A i \in 1 .. Len(s) : ~ IsEnd(s[i])
            /\ \A i \in 1 .. Len(s) : IsEnd(s[i]) => k <= i
<1> DEFINE I == {i \in 1 .. Len(s) : IsEnd(s[i])}
<1>1. CASE I = {}
  <2>1. SelectInSeq(s, IsEnd) = 0
    BY <1>1 DEF SelectInSeq
  <2> QED
    BY <1>1, <2>1, LenProperties DEF IsEnd
<1>2. CASE I # {}
  <2>1. I \in SUBSET Nat
    BY LenProperties
  <2>2. SelectInSeq(s, IsEnd) = Min(I)
    BY <1>2 DEF SelectInSeq
  <2>3. /\ Min(I) \in I
        /\ \A i \in I : Min(I) <= i
    BY <1>2, <2>1, LeastElement
  <2> QED
    BY <2>2, <2>3, LenProperties DEF IsEnd
<1> QED
  BY <1>1, <1>2

LEMMA NewestCells ==
  ASSUME NEW s \in Seq(Cell), NEW n \in 0 .. Len(s)
  PROVE  /\ Newest(s, n) \in Seq(Cell)
         /\ Len(Newest(s, n)) = n
         /\ \A i \in 1 .. n : Newest(s, n)[i] = s[Len(s) - n + i]
<1>1. /\ Len(s) \in Nat
      /\ \A i \in 1 .. Len(s) : s[i] \in Cell
  BY LenProperties, ElementOfSeq
<1>2. \A i \in Len(s) - n + 1 .. Len(s) : s[i] \in Cell
  BY <1>1
<1>3. /\ Len(s) - n + 1 \in Int
      /\ Len(s) \in Int
  BY <1>1
<1> QED
  BY <1>1, <1>2, <1>3, SubSeqProperties DEF Newest

(* A capped log is not over the cap. *)
LEMMA CapLogBounds ==
  ASSUME NEW s \in Seq(Cell), Len(s) > MaxBytes
  PROVE  /\ CapLog(s) \in Seq(Cell)
         /\ Len(CapLog(s)) <= MaxBytes
<1> DEFINE t == Newest(s, MaxBytes)
<1> DEFINE k == SelectInSeq(t, IsEnd)
<1>1. /\ t \in Seq(Cell)
      /\ Len(t) = MaxBytes
  BY NewestCells, LogConstants, LenProperties
<1>2. k \in 0 .. Len(t)
  BY <1>1, FirstEnd
<1> HIDE DEF t, k
<1>3. /\ \A i \in k + 1 .. Len(t) : t[i] \in Cell
      /\ k + 1 \in Int
      /\ Len(t) \in Int
  BY <1>1, <1>2, LenProperties, ElementOfSeq
<1>4. /\ SubSeq(t, k + 1, Len(t)) \in Seq(Cell)
      /\ Len(SubSeq(t, k + 1, Len(t))) <= MaxBytes
  BY <1>1, <1>2, <1>3, SubSeqProperties, LogConstants
<1> QED
  BY <1>4 DEF CapLog, FromBoundary, t, k

LEMMA OverwriteLength ==
  ASSUME NEW s \in Seq(Cell), NEW t \in Seq(Cell)
  PROVE  /\ Overwrite(s, t) \in Seq(Cell)
         /\ Len(Overwrite(s, t)) <= Len(s) \/ Len(Overwrite(s, t)) = Len(t)
<1>1. /\ Len(s) \in Nat
      /\ Len(t) \in Nat
      /\ \A i \in Len(t) + 1 .. Len(s) : s[i] \in Cell
  BY LenProperties, ElementOfSeq
<1>2. /\ Len(t) + 1 \in Int
      /\ Len(s) \in Int
  BY <1>1
<1> DEFINE u == SubSeq(s, Len(t) + 1, Len(s))
<1>3. /\ u \in Seq(Cell)
      /\ Len(u) = IF Len(t) + 1 <= Len(s) THEN Len(s) - (Len(t) + 1) + 1 ELSE 0
  BY <1>1, <1>2, SubSeqProperties
<1> HIDE DEF u
<1>4. /\ t \o u \in Seq(Cell)
      /\ Len(t \o u) = Len(t) + Len(u)
  BY <1>3, ConcatProperties
<1> QED
  BY <1>1, <1>3, <1>4 DEF Overwrite, u

LEMMA LineCells ==
  ASSUME NEW n \in Nat, NEW len \in 1 .. MaxLen
  PROVE  /\ Line(n, len) \in Seq(Cell)
         /\ Len(Line(n, len)) = len
<1>1. len \in Nat
  BY LogConstants
<1>2. Line(n, len) \in [1 .. len -> Cell]
  BY <1>1 DEF Line, Cell
<1> QED
  BY <1>1, <1>2, SeqDef, LenProperties

-----------------------------------------------------------------------------
(* The bound on the size, with the types and the cap on the copies it needs. *)
CopiesCapped == \A p \in Proc : Len(copy[p]) <= MaxBytes

SizeInv ==
  /\ TypeOK
  /\ CopiesCapped
  /\ SizeBounded

(* Each process between its append and its rewrite pays for one line. *)
LEMMA Payers ==
  ASSUME TypeOK, NEW p \in Proc, NEW l \in {"idle", "check", "trunc", "fill"},
         Goto(p, l)
  PROVE  /\ Cardinality(Unchecked) \in Nat
         /\ Cardinality(Unchecked') \in Nat
         /\ Cardinality(Unchecked') =
              Cardinality(Unchecked)
              + (IF l \in {"check", "trunc"} THEN 1 ELSE 0)
              - (IF pc[p] \in {"check", "trunc"} THEN 1 ELSE 0)
<1>1. /\ IsFiniteSet(Proc)
      /\ Unchecked \subseteq Proc
      /\ Unchecked' \subseteq Proc
  BY LogConstants DEF Unchecked
<1>2. /\ IsFiniteSet(Unchecked)
      /\ Cardinality(Unchecked) \in Nat
      /\ IsFiniteSet(Unchecked')
      /\ Cardinality(Unchecked') \in Nat
  BY <1>1, FS_Subset, FS_CardinalityType
<1>3. Unchecked' = IF l \in {"check", "trunc"} THEN Unchecked \cup {p} ELSE Unchecked \ {p}
  BY DEF Unchecked, Goto, TypeOK
<1>4. p \in Unchecked <=> pc[p] \in {"check", "trunc"}
  BY DEF Unchecked
<1>5. CASE l \in {"check", "trunc"}
  <2>1. Unchecked' = Unchecked \cup {p}
    BY <1>3, <1>5
  <2>2. Cardinality(Unchecked \cup {p}) =
          IF p \in Unchecked THEN Cardinality(Unchecked) ELSE Cardinality(Unchecked) + 1
    BY <1>2, FS_AddElement
  <2> QED
    BY <1>2, <1>4, <1>5, <2>1, <2>2
<1>6. CASE l \notin {"check", "trunc"}
  <2>1. Unchecked' = Unchecked \ {p}
    BY <1>3, <1>6
  <2>2. Cardinality(Unchecked \ {p}) =
          IF p \in Unchecked THEN Cardinality(Unchecked) - 1 ELSE Cardinality(Unchecked)
    BY <1>2, FS_RemoveElement
  <2> QED
    BY <1>2, <1>4, <1>6, <2>1, <2>2
<1> QED
  BY <1>5, <1>6

(* The arithmetic of the bound. *)
LEMMA OneMore ==
  ASSUME NEW b \in Nat, NEW m \in Nat
  PROVE  /\ m * b \in Nat
         /\ m * (b + 1) = m * b + m
<1> QED
  BY SMT

LEMMA NoLess ==
  ASSUME NEW a \in Nat, NEW b \in Nat, NEW m \in Nat, a <= b
  PROVE  m * a <= m * b
<1>1. PICK d \in Nat : b = a + d
  <2>1. b - a \in Nat /\ b = a + (b - a)
    OBVIOUS
  <2> QED
    BY <2>1
<1>2. m * (a + d) = m * a + m * d
  BY SMT
<1>3. m * d \in Nat /\ m * a \in Nat
  BY SMT
<1> QED
  BY <1>1, <1>2, <1>3

LEMMA AddLineGrows ==
  ASSUME TypeOK, NEW len \in 1 .. MaxLen, AddLine(len)
  PROVE  /\ lines' \in Nat
         /\ log' \in Seq(Cell)
         /\ all' \in Seq(Cell)
         /\ Len(log') <= Len(log) + MaxLen
<1>1. lines' \in Nat
  BY DEF AddLine, TypeOK
<1>2. /\ Line(lines', len) \in Seq(Cell)
      /\ Len(Line(lines', len)) = len
  BY <1>1, LineCells
<1>3. /\ log \in Seq(Cell)
      /\ all \in Seq(Cell)
      /\ Len(log) \in Nat
  BY LenProperties DEF TypeOK
<1>4. /\ log \o Line(lines', len) \in Seq(Cell)
      /\ Len(log \o Line(lines', len)) = Len(log) + len
      /\ all \o Line(lines', len) \in Seq(Cell)
  BY <1>2, <1>3, ConcatProperties
<1> QED
  BY <1>1, <1>3, <1>4, LogConstants DEF AddLine

LEMMA SizeInit == Init => SizeInv
<1> SUFFICES ASSUME Init
             PROVE  SizeInv
  OBVIOUS
<1>1. /\ <<>> \in Seq(Cell)
      /\ Len(<<>>) = 0
  BY EmptySeq
<1>2. TypeOK
  BY <1>1 DEF Init, TypeOK
<1>3. CopiesCapped
  BY <1>1, LogConstants DEF Init, CopiesCapped
<1>4. SizeBounded
  <2>1. Unchecked = {}
    BY DEF Init, Unchecked
  <2>2. Cardinality(Unchecked) = 0
    BY <2>1, FS_EmptySet
  <2> QED
    BY <1>1, <2>2, LogConstants, SMT DEF Init, SizeBounded
<1> QED
  BY <1>2, <1>3, <1>4 DEF SizeInv

LEMMA SizeNext == SizeInv /\ [Next]_vars => SizeInv'
<1> SUFFICES ASSUME SizeInv, [Next]_vars
             PROVE  SizeInv'
  OBVIOUS
<1> DEFINE c == Cardinality(Unchecked)
<1> USE DEF SizeInv
<1>1. /\ Len(log) \in Nat
      /\ strays \in Nat
      /\ c \in Nat
      /\ MaxLen \in Nat
      /\ MaxBytes \in Nat
  <2>1. IsFiniteSet(Unchecked)
    BY LogConstants, FS_Subset DEF Unchecked
  <2> QED
    BY <2>1, FS_CardinalityType, LenProperties, LogConstants DEF TypeOK
<1>2. Len(log) <= MaxBytes + MaxLen * (c + strays)
  BY DEF SizeBounded
<1>3. CASE Redirected
  <2>1. PICK len \in 1 .. MaxLen : AddLine(len)
    BY <1>3 DEF Redirected
  <2>2. /\ lines' \in Nat
        /\ log' \in Seq(Cell)
        /\ all' \in Seq(Cell)
        /\ Len(log') <= Len(log) + MaxLen
    BY <2>1, AddLineGrows
  <2>3. TypeOK'
    BY <1>3, <2>2 DEF Redirected, TypeOK
  <2>4. CopiesCapped'
    BY <1>3 DEF Redirected, CopiesCapped
  <2>5. SizeBounded'
    <3>1. Unchecked' = Unchecked /\ strays' = strays + 1
      BY <1>3 DEF Redirected, Unchecked
    <3>2. MaxLen * (c + strays + 1) = MaxLen * (c + strays) + MaxLen
      BY <1>1, OneMore
    <3>3. Len(log') \in Nat
      BY <2>2, LenProperties
    <3>4. MaxLen * (c + strays) \in Nat
      BY <1>1, OneMore
    <3>5. Len(log') <= MaxBytes + MaxLen * (c + strays + 1)
      BY <1>1, <1>2, <2>2, <3>2, <3>3, <3>4
    <3>6. c + strays + 1 = c + strays'
      BY <1>1, <3>1
    <3> QED
      BY <3>1, <3>5, <3>6 DEF SizeBounded
  <2> QED
    BY <2>3, <2>4, <2>5
<1>4. CASE \E p \in Proc : AppendLine(p)
  <2>1. PICK p \in Proc : AppendLine(p)
    BY <1>4
  <2>2. PICK len \in 1 .. MaxLen : AddLine(len)
    BY <2>1 DEF AppendLine
  <2>3. /\ lines' \in Nat
        /\ log' \in Seq(Cell)
        /\ all' \in Seq(Cell)
        /\ Len(log') <= Len(log) + MaxLen
    BY <2>2, AddLineGrows
  <2>4. TypeOK'
    BY <2>1, <2>3 DEF AppendLine, TypeOK, Goto, Disturbs
  <2>5. CopiesCapped'
    BY <2>1 DEF AppendLine, CopiesCapped
  <2>6. SizeBounded'
    <3>1. Goto(p, "check") /\ pc[p] = "idle" /\ strays' = strays
      BY <2>1 DEF AppendLine
    <3>2. Cardinality(Unchecked') = c + 1
      <4>1. Cardinality(Unchecked') = c + 1 - 0
        BY <3>1, Payers
      <4> QED
        BY <1>1, <4>1
    <3>3. MaxLen * (c + strays + 1) = MaxLen * (c + strays) + MaxLen
      BY <1>1, OneMore
    <3>4. Len(log') \in Nat /\ MaxLen * (c + strays) \in Nat
      BY <1>1, <2>3, OneMore, LenProperties
    <3>5. Len(log') <= MaxBytes + MaxLen * (c + strays + 1)
      BY <1>1, <1>2, <2>3, <3>3, <3>4
    <3>6. c + strays + 1 = Cardinality(Unchecked') + strays'
      BY <1>1, <3>1, <3>2
    <3> QED
      BY <3>5, <3>6 DEF SizeBounded
  <2> QED
    BY <2>4, <2>5, <2>6
<1>5. CASE \E p \in Proc : CheckSize(p)
  <2>1. PICK p \in Proc : CheckSize(p)
    BY <1>5
  <2>2. log' = log
    BY <2>1 DEF CheckSize
  <2>3. CASE Len(log) <= MaxBytes
    <3>1. /\ Goto(p, "idle")
          /\ strays' = 0
          /\ copy' = copy
      BY <2>1, <2>3, <1>1 DEF CheckSize
    <3>2. TypeOK' /\ CopiesCapped'
      BY <2>1, <3>1 DEF CheckSize, Goto, TypeOK, CopiesCapped
    <3>3. Cardinality(Unchecked') \in Nat
      BY <3>1, Payers
    <3>4. MaxLen * (Cardinality(Unchecked') + 0) \in Nat
      BY <1>1, <3>3, OneMore
    <3> QED
      BY <1>1, <2>2, <2>3, <3>1, <3>2, <3>4 DEF SizeBounded
  <2>4. CASE Len(log) > MaxBytes
    <3>1. /\ Goto(p, "trunc")
          /\ pc[p] = "check"
          /\ strays' = strays
          /\ copy' = [copy EXCEPT ![p] = CapLog(log)]
      BY <2>1, <2>4, <1>1 DEF CheckSize
    <3>2. /\ CapLog(log) \in Seq(Cell)
          /\ Len(CapLog(log)) <= MaxBytes
      BY <2>4, CapLogBounds DEF TypeOK
    <3>3. TypeOK' /\ CopiesCapped'
      BY <2>1, <3>1, <3>2 DEF CheckSize, Goto, TypeOK, CopiesCapped
    <3>4. Cardinality(Unchecked') = c
      <4>1. Cardinality(Unchecked') = c + 1 - 1
        BY <3>1, Payers
      <4> QED
        BY <1>1, <4>1
    <3> QED
      BY <1>2, <2>2, <3>1, <3>3, <3>4 DEF SizeBounded
  <2> QED
    BY <1>1, <2>3, <2>4
<1>6. CASE \E p \in Proc : Truncate(p)
  <2>1. PICK p \in Proc : Truncate(p)
    BY <1>6
  <2>2. /\ log' \in Seq(Cell)
        /\ Len(log') = 0
    BY <2>1, EmptySeq DEF Truncate
  <2>3. TypeOK' /\ CopiesCapped'
    BY <2>1, <2>2 DEF Truncate, Goto, Disturbs, TypeOK, CopiesCapped
  <2>4. Cardinality(Unchecked') \in Nat /\ strays' = 0
    BY <2>1, Payers DEF Truncate
  <2>5. MaxLen * (Cardinality(Unchecked') + 0) \in Nat
    BY <1>1, <2>4, OneMore
  <2> QED
    BY <1>1, <2>2, <2>3, <2>4, <2>5 DEF SizeBounded
<1>7. CASE \E p \in Proc : Fill(p)
  <2>1. PICK p \in Proc : Fill(p)
    BY <1>7
  <2>2. /\ log' \in Seq(Cell)
        /\ Len(log') <= Len(log) \/ Len(log') = Len(copy[p])
    BY <2>1, OverwriteLength DEF Fill, TypeOK
  <2>3. TypeOK' /\ CopiesCapped'
    BY <2>1, <2>2, EmptySeq, LogConstants DEF Fill, ghosts, Goto, TypeOK, CopiesCapped
  <2>4. /\ Goto(p, "idle")
        /\ pc[p] = "fill"
        /\ strays' = strays
    BY <2>1 DEF Fill, ghosts
  <2>5. Cardinality(Unchecked') = c
    <3>1. Cardinality(Unchecked') = c + 0 - 0
      BY <2>4, Payers
    <3> QED
      BY <1>1, <3>1
  <2>6. Len(copy[p]) <= MaxBytes /\ Len(copy[p]) \in Nat
    BY LenProperties DEF CopiesCapped, TypeOK
  <2>7. MaxLen * (c + strays) \in Nat
    BY <1>1, OneMore
  <2>8. Len(log') <= MaxBytes + MaxLen * (c + strays)
    BY <1>1, <1>2, <2>2, <2>6, <2>7, LenProperties
  <2> QED
    BY <2>3, <2>4, <2>5, <2>8 DEF SizeBounded
<1>8. CASE \E p \in Proc : Leave(p)
  <2>1. PICK p \in Proc : Leave(p)
    BY <1>8
  <2>2. /\ Goto(p, "idle")
        /\ log' = log
        /\ strays' = IF pc[p] = "fill" THEN strays ELSE strays + 1
        /\ pc[p] \in {"check", "trunc", "fill"}
    BY <2>1 DEF Leave, TypeOK
  <2>3. TypeOK' /\ CopiesCapped'
    BY <2>1, <2>2, <1>1, EmptySeq, LogConstants DEF Leave, Goto, TypeOK, CopiesCapped
  <2>4. Cardinality(Unchecked') + strays' = c + strays
    <3>1. /\ Cardinality(Unchecked') \in Nat
          /\ Cardinality(Unchecked') = c + 0 - (IF pc[p] \in {"check", "trunc"} THEN 1 ELSE 0)
      BY <2>2, Payers
    <3> QED
      BY <1>1, <2>2, <3>1
  <2> QED
    BY <1>2, <2>2, <2>3, <2>4 DEF SizeBounded
<1>9. CASE UNCHANGED vars
  <2>1. UNCHANGED <<log, copy, pc, lines, all, strays, raced, lost>>
    BY <1>9 DEF vars, ghosts
  <2>2. Unchecked' = Unchecked
    BY <2>1 DEF Unchecked
  <2> QED
    BY <2>1, <2>2 DEF TypeOK, CopiesCapped, SizeBounded
<1> QED
  BY <1>3, <1>4, <1>5, <1>6, <1>7, <1>8, <1>9 DEF Next, Step, Terminating

(* The log exceeds its cap by no more than a line for each writer between its
   append and its rewrite and each unchecked append (log.go, fileLogger). *)
THEOREM LogBounded == Spec => []SizeBounded
<1>1. SizeInv => SizeBounded
  BY DEF SizeInv
<1> QED
  BY <1>1, SizeInit, SizeNext, PTL DEF Spec

-----------------------------------------------------------------------------
(* Whole lines: what a rewrite is about to write is whole as well, and no two
   processes are in the middle of one unless the race happened. *)
Upto(s, n) == \A i \in 1 .. Len(s) : s[i].line <= n

WholeInv ==
  ~raced =>
    /\ Whole(log)
    /\ Upto(log, lines)
    /\ \A p \in Proc : Whole(copy[p]) /\ Upto(copy[p], lines)
    /\ \A p \in Proc : pc[p] = "fill" =>
         /\ log = <<>>
         /\ \A q \in Proc : pc[q] = "fill" => q = p

(* The cells of a line. *)
LEMMA LineFields ==
  ASSUME NEW n \in Nat, NEW len \in 1 .. MaxLen, NEW i \in 1 .. len
  PROVE  /\ Line(n, len)[i].line = n
         /\ Line(n, len)[i].at = i
         /\ (IsEnd(Line(n, len)[i]) <=> i = len)
<1>1. len \in Nat
  BY LogConstants
<1>2. /\ Line(n, len)[i].line = n
      /\ Line(n, len)[i].at = i
      /\ Line(n, len)[i].left = len - i
  BY <1>1 DEF Line
<1>3. len - i = 0 <=> i = len
  BY <1>1
<1> QED
  BY <1>2, <1>3 DEF IsEnd

(* The sequence t continues s with the cells l of line n + 1. *)
Continues(s, t, l, n, k, len) ==
  /\ len > 0
  /\ Len(s) = k
  /\ Len(t) = k + len
  /\ \A i \in 1 .. k : t[i] = s[i] /\ s[i].line \in Nat
  /\ \A i \in k + 1 .. k + len : t[i] = l[i - k]
  /\ \A i \in 1 .. len : /\ l[i].line = n + 1
                        /\ l[i].at = i
                        /\ (IsEnd(l[i]) <=> i = len)

LEMMA WholeContinued ==
  ASSUME NEW s, NEW t, NEW l, NEW n \in Nat, NEW k \in Nat, NEW len \in Nat,
         Continues(s, t, l, n, k, len), Whole(s), Upto(s, n)
  PROVE  Whole(t) /\ Upto(t, n + 1)
<1> USE DEF Continues
<1>1. ASSUME NEW i \in 1 .. k + len
      PROVE  \/ i \in 1 .. k
             \/ /\ i \in k + 1 .. k + len
                /\ i - k \in 1 .. len
                /\ t[i] = l[i - k]
  OBVIOUS
<1>2. Upto(t, n + 1)
  <2> SUFFICES ASSUME NEW i \in 1 .. Len(t)
               PROVE  t[i].line <= n + 1
    BY DEF Upto
  <2>1. CASE i \in 1 .. k
    BY <2>1 DEF Upto
  <2>2. CASE i - k \in 1 .. len /\ t[i] = l[i - k]
    BY <2>2
  <2> QED
    BY <1>1, <2>1, <2>2
<1>3. ASSUME NEW i \in 1 .. Len(t)
      PROVE  /\ i = 1 => t[i].at = 1
             /\ i = Len(t) => IsEnd(t[i])
             /\ i > 1 => IF IsEnd(t[i - 1])
                         THEN t[i].at = 1 /\ t[i].line > t[i - 1].line
                         ELSE t[i].at = t[i - 1].at + 1 /\ t[i].line = t[i - 1].line
  <2>1. CASE i \in 1 .. k
    <3>1. t[i] = s[i] /\ (i > 1 => i - 1 \in 1 .. k /\ t[i - 1] = s[i - 1]) /\ i # Len(t)
      BY <2>1
    <3> QED
      BY <2>1, <3>1 DEF Whole
  <2>2. CASE i = k + 1
    <3>1. t[i] = l[1] /\ 1 \in 1 .. len
      BY <2>2
    <3>2. t[i].line = n + 1 /\ t[i].at = 1 /\ (IsEnd(t[i]) <=> 1 = len)
      BY <3>1 DEF IsEnd
    <3>3. CASE k = 0
      BY <2>2, <3>2, <3>3
    <3>4. CASE k > 0
      <4>1. k \in 1 .. k /\ t[i - 1] = s[k]
        BY <2>2, <3>4
      <4>2. IsEnd(s[k]) /\ s[k].line <= n /\ s[k].line \in Nat
        BY <4>1 DEF Whole, Upto
      <4> QED
        BY <2>2, <3>2, <4>1, <4>2
    <3> QED
      BY <3>3, <3>4
  <2>3. CASE i > k + 1
    <3>1. /\ i - k \in 1 .. len
          /\ (i - 1) - k \in 1 .. len
          /\ (i - 1) - k # len
          /\ t[i] = l[i - k]
          /\ t[i - 1] = l[(i - 1) - k]
      <4>1. i \in k + 1 .. k + len /\ i - 1 \in k + 1 .. k + len
        BY <2>3
      <4>2. t[i] = l[i - k] /\ t[i - 1] = l[(i - 1) - k]
        BY <4>1
      <4> QED
        BY <4>1, <4>2
    <3>2. /\ t[i].at = i - k
          /\ t[i].line = n + 1
          /\ IsEnd(t[i]) <=> i - k = len
      BY <3>1 DEF IsEnd
    <3>3. /\ t[i - 1].at = (i - 1) - k
          /\ t[i - 1].line = n + 1
          /\ ~ IsEnd(t[i - 1])
      BY <3>1 DEF IsEnd
    <3>4. i # 1 /\ (i = Len(t) => i - k = len) /\ i - k = (i - 1) - k + 1
      BY <2>3
    <3> QED
      BY <3>2, <3>3, <3>4
  <2> QED
    BY <1>1, <2>1, <2>2, <2>3
<1>4. Whole(t)
  BY <1>3 DEF Whole
<1> QED
  BY <1>2, <1>4

(* The next line keeps a log whole. *)
LEMMA WholeAppend ==
  ASSUME NEW s \in Seq(Cell), NEW n \in Nat, NEW len \in 1 .. MaxLen,
         Whole(s), Upto(s, n)
  PROVE  /\ Whole(s \o Line(n + 1, len))
         /\ Upto(s \o Line(n + 1, len), n + 1)
<1>1. /\ n + 1 \in Nat
      /\ Len(s) \in Nat
      /\ len \in Nat
      /\ len > 0
  BY LenProperties, LogConstants
<1>2. /\ Line(n + 1, len) \in Seq(Cell)
      /\ Len(Line(n + 1, len)) = len
  BY <1>1, LineCells
<1>3. /\ Len(s \o Line(n + 1, len)) = Len(s) + len
      /\ \A i \in 1 .. Len(s) + len :
           (s \o Line(n + 1, len))[i] =
             IF i <= Len(s) THEN s[i] ELSE Line(n + 1, len)[i - Len(s)]
  BY <1>2, ConcatProperties
<1>4. \A i \in 1 .. Len(s) : (s \o Line(n + 1, len))[i] = s[i]
  BY <1>1, <1>3
<1>5. \A i \in Len(s) + 1 .. Len(s) + len :
        (s \o Line(n + 1, len))[i] = Line(n + 1, len)[i - Len(s)]
  BY <1>1, <1>3
<1>6. \A i \in 1 .. Len(s) : s[i].line \in Nat
  <2>1. \A i \in 1 .. Len(s) : s[i] \in Cell
    BY ElementOfSeq
  <2>2. \A x \in Cell : x.line \in Nat
    BY DEF Cell
  <2> QED
    BY <2>1, <2>2
<1>7. \A i \in 1 .. len : /\ Line(n + 1, len)[i].line = n + 1
                           /\ Line(n + 1, len)[i].at = i
                           /\ (IsEnd(Line(n + 1, len)[i]) <=> i = len)
  BY <1>1, LineFields
<1> QED
  <2> DEFINE l == Line(n + 1, len)
  <2> DEFINE t == s \o l
  <2>1. /\ Len(t) = Len(s) + len
        /\ \A i \in 1 .. Len(s) : t[i] = s[i]
        /\ \A i \in Len(s) + 1 .. Len(s) + len : t[i] = l[i - Len(s)]
        /\ \A i \in 1 .. len : /\ l[i].line = n + 1
                               /\ l[i].at = i
                               /\ (IsEnd(l[i]) <=> i = len)
    BY <1>3, <1>4, <1>5, <1>7
  <2> HIDE DEF l, t
  <2>2. Whole(t) /\ Upto(t, n + 1)
    <3>1. Continues(s, t, l, n, Len(s), len)
      BY <1>1, <1>6, <2>1 DEF Continues
    <3> QED
      BY <1>1, <3>1, WholeContinued
  <2> QED
    BY <2>2 DEF l, t

(* A capped log starts after an end of line. *)
LEMMA WholeCap ==
  ASSUME NEW s \in Seq(Cell), NEW n \in Nat, Len(s) > MaxBytes,
         Whole(s), Upto(s, n)
  PROVE  /\ Whole(CapLog(s))
         /\ Upto(CapLog(s), n)
<1> DEFINE t == Newest(s, MaxBytes)
<1> DEFINE k == SelectInSeq(t, IsEnd)
<1> DEFINE c == CapLog(s)
<1>1. /\ Len(s) \in Nat
      /\ MaxBytes \in Nat \ {0}
      /\ MaxBytes \in 0 .. Len(s)
  BY LenProperties, LogConstants
<1>2. /\ t \in Seq(Cell)
      /\ Len(t) = MaxBytes
      /\ \A i \in 1 .. MaxBytes : t[i] = s[Len(s) - MaxBytes + i]
  BY <1>1, NewestCells
<1>3. /\ k \in 0 .. Len(t)
      /\ k > 0 => IsEnd(t[k])
      /\ k = 0 => \A i \in 1 .. Len(t) : ~ IsEnd(t[i])
  BY <1>2, FirstEnd
<1> HIDE DEF t, k
<1>4. k \in 1 .. MaxBytes /\ IsEnd(t[k])
  <2>1. t[MaxBytes] = s[Len(s)] /\ IsEnd(s[Len(s)])
    BY <1>1, <1>2 DEF Whole
  <2> QED
    BY <1>1, <1>2, <1>3, <2>1
<1>5. /\ Len(c) = MaxBytes - k
      /\ \A i \in 1 .. MaxBytes - k : c[i] = t[k + i]
  <2>1. /\ \A i \in k + 1 .. Len(t) : t[i] \in Cell
        /\ k + 1 \in Int
        /\ Len(t) \in Int
    BY <1>1, <1>2, <1>4, LenProperties, ElementOfSeq
  <2>2. c = SubSeq(t, k + 1, Len(t))
    BY DEF CapLog, FromBoundary, t, k
  <2>3. /\ Len(c) = IF k + 1 <= Len(t) THEN Len(t) - (k + 1) + 1 ELSE 0
        /\ \A i \in 1 .. Len(t) - (k + 1) + 1 : c[i] = t[(k + 1) + i - 1]
    BY <2>1, <2>2, SubSeqProperties
  <2>4. \A i \in 1 .. MaxBytes - k : (k + 1) + i - 1 = k + i /\ i \in 1 .. Len(t) - (k + 1) + 1
    BY <1>1, <1>2, <1>4
  <2> QED
    BY <1>1, <1>2, <1>4, <2>3, <2>4
<1> HIDE DEF c
<1> DEFINE d == Len(s) - MaxBytes + k
<1>6. /\ d \in Nat
      /\ d > 0
      /\ d + Len(c) = Len(s)
      /\ IsEnd(s[d])
      /\ \A i \in 1 .. Len(c) : c[i] = s[d + i] /\ d + i \in 1 .. Len(s)
  <2>1. d \in Nat /\ d > 0 /\ d + Len(c) = Len(s)
    BY <1>1, <1>4, <1>5
  <2>2. IsEnd(s[d])
    BY <1>2, <1>4
  <2>3. ASSUME NEW i \in 1 .. Len(c)
        PROVE  c[i] = s[d + i] /\ d + i \in 1 .. Len(s)
    <3>1. k + i \in 1 .. MaxBytes /\ i \in 1 .. MaxBytes - k
      BY <1>1, <1>4, <1>5
    <3>2. c[i] = s[Len(s) - MaxBytes + (k + i)]
      BY <1>2, <1>5, <3>1
    <3>3. Len(s) - MaxBytes + (k + i) = d + i
      BY <1>1, <1>4, <3>1
    <3> QED
      BY <1>1, <1>4, <1>5, <3>1, <3>2, <3>3
  <2> QED
    BY <2>1, <2>2, <2>3
<1> HIDE DEF d
<1>7. Upto(c, n)
  BY <1>6 DEF Upto
<1>8. ASSUME NEW i \in 1 .. Len(c)
      PROVE  /\ i = 1 => c[i].at = 1
             /\ i = Len(c) => IsEnd(c[i])
             /\ i > 1 => IF IsEnd(c[i - 1])
                         THEN c[i].at = 1 /\ c[i].line > c[i - 1].line
                         ELSE c[i].at = c[i - 1].at + 1 /\ c[i].line = c[i - 1].line
  <2>1. /\ c[i] = s[d + i]
        /\ d + i \in 1 .. Len(s)
        /\ d + i > 1
        /\ (d + i) - 1 \in 1 .. Len(s)
        /\ i = Len(c) => d + i = Len(s)
        /\ i = 1 => (d + i) - 1 = d
        /\ Len(c) \in Nat
    BY <1>1, <1>5, <1>4, <1>6
  <2>2. i > 1 => c[i - 1] = s[(d + i) - 1]
    <3>1. i > 1 => i - 1 \in 1 .. Len(c) /\ d + (i - 1) = (d + i) - 1
      BY <1>6, <2>1
    <3> QED
      BY <1>6, <3>1
  <2>3. IF IsEnd(s[(d + i) - 1])
        THEN s[d + i].at = 1 /\ s[d + i].line > s[(d + i) - 1].line
        ELSE s[d + i].at = s[(d + i) - 1].at + 1 /\ s[d + i].line = s[(d + i) - 1].line
    BY <2>1 DEF Whole
  <2>4. i = Len(c) => IsEnd(s[d + i])
    BY <2>1 DEF Whole
  <2>5. i = 1 => c[i].at = 1
    BY <1>6, <2>1, <2>3
  <2> QED
    BY <2>1, <2>2, <2>3, <2>4, <2>5
<1>9. Whole(c)
  BY <1>8 DEF Whole
<1> QED
  BY <1>7, <1>9 DEF c

LEMMA WholeInit == Init => WholeInv
<1> SUFFICES ASSUME Init
             PROVE  WholeInv
  OBVIOUS
<1>1. Whole(<<>>) /\ Upto(<<>>, 0)
  BY EmptySeq DEF Whole, Upto
<1> QED
  BY <1>1 DEF Init, WholeInv

LEMMA WholeNext == SizeInv /\ WholeInv /\ [Next]_vars => WholeInv'
<1> SUFFICES ASSUME SizeInv, WholeInv, [Next]_vars, ~raced'
             PROVE  WholeInv'
  BY DEF WholeInv
<1>1. /\ TypeOK
      /\ lines \in Nat
      /\ Len(log) \in Nat
      /\ MaxBytes \in Nat
  BY LenProperties, LogConstants DEF SizeInv, TypeOK
<1>2. ~raced
  BY DEF Next, Terminating, Redirected, Step, AppendLine, CheckSize, Truncate,
         Fill, Leave, Disturbs, ghosts, vars
<1>3. /\ Whole(log)
      /\ Upto(log, lines)
      /\ \A p \in Proc : Whole(copy[p]) /\ Upto(copy[p], lines)
      /\ \A p \in Proc : pc[p] = "fill" =>
           /\ log = <<>>
           /\ \A q \in Proc : pc[q] = "fill" => q = p
  BY <1>2 DEF WholeInv
<1>4. Whole(<<>>) /\ \A n \in Nat : Upto(<<>>, n)
  BY EmptySeq DEF Whole, Upto
<1>5. \A p \in Proc : Upto(copy[p], lines + 1)
  <2> TAKE p \in Proc
  <2>1. /\ copy[p] \in Seq(Cell)
        /\ Len(copy[p]) \in Nat
    BY <1>1, LenProperties DEF TypeOK
  <2>2. \A i \in 1 .. Len(copy[p]) : copy[p][i] \in Cell
    BY <2>1, ElementOfSeq
  <2>3. \A x \in Cell : x.line \in Nat
    BY DEF Cell
  <2>4. \A i \in 1 .. Len(copy[p]) : copy[p][i].line <= lines
    BY <1>3 DEF Upto
  <2>5. \A i \in 1 .. Len(copy[p]) : copy[p][i].line <= lines + 1
    BY <1>1, <2>2, <2>3, <2>4
  <2> QED
    BY <2>5 DEF Upto
<1>6. ASSUME NEW len \in 1 .. MaxLen, AddLine(len)
      PROVE  /\ lines' = lines + 1
             /\ Whole(log')
             /\ Upto(log', lines')
  <2>1. lines' = lines + 1 /\ log' = log \o Line(lines + 1, len)
    BY <1>6 DEF AddLine
  <2>2. log \in Seq(Cell)
    BY <1>1 DEF TypeOK
  <2> QED
    BY <1>1, <1>3, <2>1, <2>2, WholeAppend
<1>7. CASE Redirected
  <2>1. /\ copy' = copy
        /\ pc' = pc
        /\ \A q \in Proc : pc[q] # "fill"
    BY <1>7 DEF Redirected
  <2>2. lines' = lines + 1 /\ Whole(log') /\ Upto(log', lines')
    BY <1>6, <1>7 DEF Redirected
  <2> QED
    BY <1>3, <1>5, <2>1, <2>2 DEF WholeInv
<1>8. CASE \E p \in Proc : AppendLine(p)
  <2>1. PICK p \in Proc : AppendLine(p)
    BY <1>8
  <2>2. /\ copy' = copy
        /\ pc' = [pc EXCEPT ![p] = "check"]
        /\ \A q \in Proc \ {p} : pc[q] # "fill"
    BY <2>1 DEF AppendLine, Disturbs, Others, Goto
  <2>3. \A q \in Proc : pc'[q] # "fill"
    BY <1>1, <2>2 DEF TypeOK
  <2>4. lines' = lines + 1 /\ Whole(log') /\ Upto(log', lines')
    BY <1>6, <2>1 DEF AppendLine
  <2> QED
    BY <1>3, <1>5, <2>2, <2>3, <2>4 DEF WholeInv
<1>9. CASE \E p \in Proc : CheckSize(p)
  <2>1. PICK p \in Proc : CheckSize(p)
    BY <1>9
  <2>2. log' = log /\ lines' = lines
    BY <2>1 DEF CheckSize
  <2>3. \A q \in Proc : pc'[q] = "fill" => pc[q] = "fill"
    BY <1>1, <2>1 DEF CheckSize, Goto, TypeOK
  <2>4. \A q \in Proc : Whole(copy'[q]) /\ Upto(copy'[q], lines)
    <3>1. CASE Len(log) <= MaxBytes
      BY <1>1, <1>3, <2>1, <3>1 DEF CheckSize
    <3>2. CASE Len(log) > MaxBytes
      <4>1. Whole(CapLog(log)) /\ Upto(CapLog(log), lines)
        BY <1>1, <1>3, <3>2, WholeCap DEF TypeOK
      <4>2. copy' = [copy EXCEPT ![p] = CapLog(log)]
        BY <1>1, <2>1, <3>2 DEF CheckSize
      <4> QED
        BY <1>1, <1>3, <4>1, <4>2 DEF TypeOK
    <3> QED
      BY <1>1, <3>1, <3>2
  <2> QED
    BY <1>3, <2>2, <2>3, <2>4 DEF WholeInv
<1>10. CASE \E p \in Proc : Truncate(p)
  <2>1. PICK p \in Proc : Truncate(p)
    BY <1>10
  <2>2. /\ log' = <<>>
        /\ lines' = lines
        /\ copy' = copy
        /\ pc' = [pc EXCEPT ![p] = "fill"]
        /\ \A q \in Proc \ {p} : pc[q] # "fill"
    BY <2>1 DEF Truncate, Disturbs, Others, Goto
  <2>3. \A q \in Proc : pc'[q] = "fill" => q = p
    BY <1>1, <2>2 DEF TypeOK
  <2> QED
    BY <1>1, <1>3, <1>4, <2>2, <2>3 DEF WholeInv
<1>11. CASE \E p \in Proc : Fill(p)
  <2>1. PICK p \in Proc : Fill(p)
    BY <1>11
  <2>2. /\ pc[p] = "fill"
        /\ pc' = [pc EXCEPT ![p] = "idle"]
        /\ copy' = [copy EXCEPT ![p] = <<>>]
        /\ lines' = lines
        /\ log' = Overwrite(log, copy[p])
    BY <2>1 DEF Fill, ghosts, Goto
  <2>3. log' = copy[p]
    <3>1. copy[p] \in Seq(Cell) /\ Len(copy[p]) \in Nat
      BY <1>1, LenProperties DEF TypeOK
    <3>2. log = <<>> /\ Len(log) = 0
      BY <1>3, <2>2, EmptySeq
    <3>3. SubSeq(log, Len(copy[p]) + 1, Len(log)) = <<>>
      BY <3>1, <3>2, SubSeqEmpty
    <3>4. copy[p] \o <<>> = copy[p]
      BY <3>1, ConcatEmptySeq
    <3> QED
      BY <2>2, <3>3, <3>4 DEF Overwrite
  <2>4. \A q \in Proc : pc'[q] # "fill"
    BY <1>1, <1>3, <2>2 DEF TypeOK
  <2>5. \A q \in Proc : Whole(copy'[q]) /\ Upto(copy'[q], lines)
    BY <1>1, <1>3, <1>4, <2>2 DEF TypeOK
  <2> QED
    BY <1>3, <2>2, <2>3, <2>4, <2>5 DEF WholeInv
<1>12. CASE \E p \in Proc : Leave(p)
  <2>1. PICK p \in Proc : Leave(p)
    BY <1>12
  <2>2. /\ log' = log
        /\ lines' = lines
        /\ copy' = [copy EXCEPT ![p] = <<>>]
        /\ pc' = [pc EXCEPT ![p] = "idle"]
    BY <2>1 DEF Leave, Goto
  <2>3. \A q \in Proc : pc'[q] = "fill" => pc[q] = "fill"
    BY <1>1, <2>2 DEF TypeOK
  <2>4. \A q \in Proc : Whole(copy'[q]) /\ Upto(copy'[q], lines)
    BY <1>1, <1>3, <1>4, <2>2 DEF TypeOK
  <2> QED
    BY <1>3, <2>2, <2>3, <2>4 DEF WholeInv
<1>13. CASE UNCHANGED vars
  <2>1. UNCHANGED <<log, copy, pc, lines, raced>>
    BY <1>13 DEF vars, ghosts
  <2> QED
    BY <2>1 DEF WholeInv
<1> QED
  BY <1>7, <1>8, <1>9, <1>10, <1>11, <1>12, <1>13 DEF Next, Step, Terminating

(* The log is made of whole lines in their order unless a write came between
   another process's truncation and its rewrite (log.go, Log and capLog). *)
THEOREM LogReadable == Spec => []WholeLines
<1>1. WholeInv => WholeLines
  BY DEF WholeInv, WholeLines
<1> QED
  BY <1>1, SizeInit, SizeNext, WholeInit, WholeNext, PTL DEF Spec
=============================================================================
