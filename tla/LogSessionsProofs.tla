--------------------------- MODULE LogSessionsProofs ---------------------------
(***************************************************************************)
(* What a log session shows is what its program wrote: for any limits of   *)
(* the buffer, any size of a read, and however much is written. And the    *)
(* environment that any session is told is the one its program has.        *)
(*                                                                         *)
(* The loop of Append runs over the bytes of one read, the parser of .env  *)
(* files over their lines; what they lead to is shown by induction over    *)
(* the bytes and the lines. The induction is on sets of numbers, from the  *)
(* least element that every such set has.                                  *)
(***************************************************************************)
EXTENDS LogSessions, Environment, FiniteSetTheorems, SequenceTheorems, WellFoundedInduction, TLAPS

LEMMA LeastNat == ASSUME NEW T \in SUBSET Nat, T # {} PROVE \E x \in T : \A y \in T : x <= y
<1>1. IsWellFoundedOn({ss \in Nat \X Nat : ss[1] < ss[2]}, Nat)
  BY NatLessThanWellFounded, Zenon DEF OpToRel
<1>2. PICK R : R = {ss \in Nat \X Nat : ss[1] < ss[2]}
  OBVIOUS
<1>3. IsWellFoundedOn(R, Nat)
  BY <1>1, <1>2, Zenon
<1>4. PICK x \in T : \A y \in T : ~(<<y, x>> \in R)
  BY <1>3, WFMin, Zenon
<1>5. ASSUME NEW y \in T PROVE x <= y
  <2>1. <<y, x>> \notin R
    BY <1>4
  <2>2. ~(y < x)
    BY <2>1, <1>2
  <2> QED
    BY <2>2
<1> QED
  BY <1>5

LEMMA SetInduction ==
    ASSUME NEW n \in Nat, NEW T, 0 \in T, \A i \in 0..n - 1 : i \in T => i + 1 \in T
    PROVE  \A i \in 0..n : i \in T
<1> SUFFICES ASSUME NEW j \in 0..n, j \notin T PROVE FALSE
  OBVIOUS
<1> DEFINE U == {i \in 0..n : i \notin T}
<1>1. PICK x \in U : \A y \in U : x <= y
  <2>1. U \in SUBSET Nat /\ U # {}
    OBVIOUS
  <2> HIDE DEF U
  <2> QED
    BY <2>1, LeastNat
<1>2. x # 0 /\ x \in 0..n /\ x \notin T
  OBVIOUS
<1>3. x - 1 \in 0..n - 1 /\ x - 1 \in T
  BY <1>1, <1>2
<1> QED
  BY <1>2, <1>3
-------------------------------------------------------------------------------
(* Counting bytes *)

\* es is a sequence of records with a text.
HasTexts(es) ==
    /\ Len(es) \in Nat /\ DOMAIN es = 1..Len(es)
    /\ \A i \in 1..Len(es) : es[i].text \in Seq(Chars)

\* The bytes of the first n of them.
Cells(es, n) == UNION {{i} \X DOMAIN es[i].text : i \in 1..n}
Sum(es, n) == Cardinality(Cells(es, n))

LEMMA CellsNext ==
    ASSUME NEW es, HasTexts(es), NEW n \in 0..Len(es) - 1, IsFiniteSet(Cells(es, n))
    PROVE  /\ IsFiniteSet(Cells(es, n + 1))
           /\ Sum(es, n + 1) = Sum(es, n) + Len(es[n + 1].text)
<1>1. n \in Nat /\ n + 1 \in 1..Len(es) /\ 1..n + 1 = 1..n \cup {n + 1} /\ n + 1 \notin 1..n
  BY DEF HasTexts
<1>2. PICK text \in Seq(Chars) : text = es[n + 1].text
  BY <1>1 DEF HasTexts
<1>3. DOMAIN text = 1..Len(text) /\ Len(text) \in Nat
  OBVIOUS
<1>4. PICK new : new = {n + 1} \X DOMAIN text
  OBVIOUS
<1>5. IsFiniteSet(new) /\ Cardinality(new) = Len(text)
  <2>1. IsFiniteSet(1..Len(text)) /\ Cardinality(1..Len(text)) = Len(text)
    <3>1. 1 \in Int /\ Len(text) \in Int /\ (1 > Len(text) => Len(text) = 0)
      BY <1>3
    <3>2. IsFiniteSet(1..Len(text)) /\ Cardinality(1..Len(text)) = IF 1 > Len(text) THEN 0 ELSE Len(text) - 1 + 1
      BY <3>1, FS_Interval
    <3> QED
      BY <3>1, <3>2
  <2>2. IsFiniteSet({n + 1}) /\ Cardinality({n + 1}) = 1
    BY FS_Singleton
  <2>3. PICK A, B : A = {n + 1} /\ B = 1..Len(text)
    OBVIOUS
  <2>4. IsFiniteSet(A) /\ IsFiniteSet(B) /\ Cardinality(A) = 1 /\ Cardinality(B) = Len(text)
    BY <2>1, <2>2, <2>3, Zenon
  <2>5. IsFiniteSet(A \X B) /\ Cardinality(A \X B) = Cardinality(A) * Cardinality(B)
    BY <2>4, FS_Product, Zenon
  <2>6. Cardinality(A \X B) = Len(text)
    <3>1. PICK l \in Nat : l = Len(text)
      BY <1>3
    <3>2. Cardinality(A \X B) = 1 * l
      BY <2>4, <2>5, <3>1, Zenon
    <3>3. 1 * l = l
      OBVIOUS
    <3> QED
      BY <3>1, <3>2, <3>3, Zenon
  <2>7. new = A \X B
    BY <1>3, <1>4, <2>3
  <2> QED
    BY <2>5, <2>6, <2>7
<1>6. Cells(es, n + 1) = Cells(es, n) \cup new
  BY <1>1, <1>2, <1>4 DEF Cells
<1>7. Cells(es, n) \cap new = {}
  <2> SUFFICES ASSUME NEW c \in Cells(es, n), c \in new PROVE FALSE
    OBVIOUS
  <2>1. PICK i \in 1..n : c \in {i} \X DOMAIN es[i].text
    BY DEF Cells
  <2>2. c[1] = i /\ c[1] = n + 1
    BY <2>1, <1>4
  <2> QED
    BY <1>1, <2>2
<1>8. /\ IsFiniteSet(Cells(es, n) \cup new)
      /\ Cardinality(Cells(es, n) \cup new) = Cardinality(Cells(es, n)) + Cardinality(new) - Cardinality({})
  BY <1>5, <1>7, FS_Union
<1>9. Cardinality({}) = 0 /\ Cardinality(Cells(es, n)) \in Nat
  BY FS_EmptySet, FS_CardinalityType
<1>10. Cardinality(Cells(es, n) \cup new) = Cardinality(Cells(es, n)) + Len(text)
  BY <1>3, <1>5, <1>8, <1>9
<1> QED
  BY <1>2, <1>6, <1>8, <1>10, Zenon DEF Sum

LEMMA SumFinite == ASSUME NEW es, HasTexts(es) PROVE \A n \in 0..Len(es) : IsFiniteSet(Cells(es, n))
<1> DEFINE T == {n \in 0..Len(es) : IsFiniteSet(Cells(es, n))}
<1>1. Len(es) \in Nat
  BY DEF HasTexts
<1>2. 0 \in T
  <2>1. Cells(es, 0) = {}
    BY DEF Cells
  <2> QED
    BY <1>1, <2>1, FS_EmptySet
<1>3. ASSUME NEW i \in 0..Len(es) - 1, i \in T PROVE i + 1 \in T
  <2>1. IsFiniteSet(Cells(es, i + 1))
    BY <1>3, CellsNext
  <2> QED
    BY <1>1, <2>1
<1> HIDE DEF T
<1>4. \A n \in 0..Len(es) : n \in T
  BY <1>1, <1>2, <1>3, SetInduction
<1> QED
  BY <1>4 DEF T

LEMMA SumIs ==
    ASSUME NEW es, HasTexts(es)
    PROVE  /\ Sum(es, 0) = 0
           /\ \A n \in 0..Len(es) : Sum(es, n) \in Nat
           /\ \A n \in 0..Len(es) - 1 : Sum(es, n + 1) = Sum(es, n) + Len(es[n + 1].text)
           /\ TotalBytes(es) = Sum(es, Len(es))
<1>1. Sum(es, 0) = 0
  <2>1. Cells(es, 0) = {}
    BY DEF Cells
  <2> QED
    BY <2>1, FS_EmptySet DEF Sum
<1>2. ASSUME NEW n \in 0..Len(es) PROVE Sum(es, n) \in Nat
  BY SumFinite, FS_CardinalityType DEF Sum
<1>3. ASSUME NEW n \in 0..Len(es) - 1 PROVE Sum(es, n + 1) = Sum(es, n) + Len(es[n + 1].text)
  <2>1. n \in 0..Len(es)
    BY DEF HasTexts
  <2> QED
    BY <2>1, SumFinite, CellsNext
<1>4. TotalBytes(es) = Sum(es, Len(es))
  BY DEF TotalBytes, Sum, Cells, HasTexts
<1> QED
  BY <1>1, <1>2, <1>3, <1>4

\* The bytes of a part of a sequence.
LEMMA SumOfPart ==
    ASSUME NEW es, HasTexts(es), NEW fs, HasTexts(fs), NEW k \in Nat, k + Len(fs) <= Len(es),
           \A i \in 1..Len(fs) : fs[i].text = es[k + i].text
    PROVE  TotalBytes(fs) = Sum(es, k + Len(fs)) - Sum(es, k)
<1> DEFINE T == {n \in 0..Len(fs) : Sum(es, k + n) = Sum(es, k) + Sum(fs, n)}
<1>1. Len(es) \in Nat /\ Len(fs) \in Nat
  BY DEF HasTexts
<1>2. Sum(es, k) \in Nat /\ k \in 0..Len(es)
  BY <1>1, SumIs
<1>3. 0 \in T
  BY <1>1, <1>2, SumIs
<1>4. ASSUME NEW i \in 0..Len(fs) - 1, i \in T PROVE i + 1 \in T
  <2>1. k + i \in 0..Len(es) - 1 /\ i + 1 \in 1..Len(fs) /\ i \in 0..Len(fs) /\ (k + i) + 1 = k + (i + 1)
    BY <1>1
  <2>2. fs[i + 1].text = es[k + (i + 1)].text
    BY <2>1
  <2>3. Sum(es, k + (i + 1)) = Sum(es, k + i) + Len(es[k + (i + 1)].text)
    BY <2>1, SumIs
  <2>4. Sum(fs, i + 1) = Sum(fs, i) + Len(fs[i + 1].text)
    BY <2>1, SumIs
  <2>5. PICK l \in Nat : l = Len(fs[i + 1].text)
    BY <2>1 DEF HasTexts
  <2>6. Sum(fs, i) \in Nat
    BY <2>1, SumIs
  <2>7. Sum(es, k + i) = Sum(es, k) + Sum(fs, i)
    BY <1>4
  <2>8. Sum(es, k + (i + 1)) = Sum(es, k) + Sum(fs, i + 1)
    <3>1. PICK a, b, c, d, e :
            /\ a = Sum(es, k + (i + 1)) /\ b = Sum(es, k + i) /\ c = Sum(es, k)
            /\ d = Sum(fs, i + 1) /\ e = Sum(fs, i)
      OBVIOUS
    <3>2. c \in Int /\ e \in Nat
      BY <1>2, <2>6, <3>1
    <3>3. a = b + l /\ d = e + l /\ b = c + e
      BY <2>2, <2>3, <2>4, <2>5, <2>7, <3>1, Zenon
    <3>4. a = c + d
      BY <3>2, <3>3
    <3> QED
      BY <3>1, <3>4, Zenon
  <2> QED
    BY <1>1, <2>1, <2>8
<1> HIDE DEF T
<1>5. Len(fs) \in T
  <2>1. \A i \in 0..Len(fs) : i \in T
    BY <1>1, <1>3, <1>4, SetInduction
  <2> QED
    BY <1>1, <2>1
<1>6. Sum(es, k + Len(fs)) = Sum(es, k) + Sum(fs, Len(fs)) /\ Sum(fs, Len(fs)) \in Nat
  BY <1>1, <1>5, SumIs DEF T
<1> QED
  BY <1>2, <1>6, SumIs

LEMMA SumAgrees ==
    ASSUME NEW es, NEW fs, NEW n \in Nat, \A i \in 1..n : fs[i].text = es[i].text
    PROVE  Sum(fs, n) = Sum(es, n)
BY DEF Sum, Cells

LEMMA SequencesHaveTexts ==
    /\ \A es \in Seq(Entries) : HasTexts(es)
    /\ \A es \in Seq(Lines) : HasTexts(es)
<1>1. \A text \in Texts : text \in Seq(Chars)
  BY DEF Texts, Chars
<1>2. \A e \in Entries : e.text \in Seq(Chars)
  BY <1>1 DEF Entries
<1>3. \A e \in Lines : e.text \in Seq(Chars)
  BY <1>1 DEF Lines
<1>4. ASSUME NEW es \in Seq(Entries) PROVE HasTexts(es)
  <2>1. Len(es) \in Nat /\ DOMAIN es = 1..Len(es) /\ \A i \in 1..Len(es) : es[i] \in Entries
    OBVIOUS
  <2> QED
    BY <1>2, <2>1 DEF HasTexts
<1>5. ASSUME NEW es \in Seq(Lines) PROVE HasTexts(es)
  <2>1. Len(es) \in Nat /\ DOMAIN es = 1..Len(es) /\ \A i \in 1..Len(es) : es[i] \in Lines
    OBVIOUS
  <2> QED
    BY <1>3, <2>1 DEF HasTexts
<1> QED
  BY <1>4, <1>5
-------------------------------------------------------------------------------
(* LogBuffer: eviction and the counters *)

Buffers == [entries : Seq(Entries), next : Nat \ {0}, retained : Nat, dropped : Nat, droppedBytes : Nat]

\* The limits, on numbers.
Within(count, bytes) ==
    /\ LimitEntries > 0 => count <= LimitEntries
    /\ LimitBytes > 0 => bytes <= LimitBytes

\* The entries of b are the last of the lines, as many as the limits allow.
Kept(b, lines) ==
    /\ b \in Buffers /\ lines \in Seq(Lines)
    /\ b.dropped + Len(b.entries) = Len(lines) /\ b.next = Len(lines) + 1
    /\ \A i \in 1..Len(b.entries) :
          /\ b.entries[i].revision = b.dropped + i
          /\ b.entries[i].stream = lines[b.dropped + i].stream
          /\ b.entries[i].text = lines[b.dropped + i].text
    /\ b.retained = Sum(lines, Len(lines)) - Sum(lines, b.dropped)
    /\ b.droppedBytes = Sum(lines, b.dropped)
    /\ Within(Len(b.entries), b.retained)
    /\ b.dropped > 0 => ~Within(Len(b.entries) + 1, Sum(lines, Len(lines)) - Sum(lines, b.dropped - 1))

\* The loop of EvictIfNeeded stops, at the latest when nothing is left.
LEMMA EvictedIs ==
    ASSUME NEW es, Len(es) \in Nat, NEW n, n = Evicted(es)
    PROVE  /\ n \in 0..Len(es)
           /\ n = Len(es) \/ Fits(SubSeq(es, n + 1, Len(es)))
           /\ \A m \in 0..n - 1 : ~Fits(SubSeq(es, m + 1, Len(es)))
<1> DEFINE T == {x \in 0..Len(es) : x = Len(es) \/ Fits(SubSeq(es, x + 1, Len(es)))}
<1>1. PICK x \in T : \A y \in T : x <= y
  <2>1. T \in SUBSET Nat /\ Len(es) \in T
    OBVIOUS
  <2> HIDE DEF T
  <2> QED
    BY <2>1, LeastNat
<1>2. \A m \in 0..x - 1 : ~Fits(SubSeq(es, m + 1, Len(es)))
  <2> SUFFICES ASSUME NEW m \in 0..x - 1, Fits(SubSeq(es, m + 1, Len(es))) PROVE FALSE
    OBVIOUS
  <2>1. m \in 0..Len(es) /\ m < x
    BY <1>1
  <2>2. m \in T
    BY <2>1
  <2> QED
    BY <1>1, <2>1, <2>2
<1>3. \E y \in 0..Len(es) : /\ y = Len(es) \/ Fits(SubSeq(es, y + 1, Len(es)))
                            /\ \A m \in 0..(y - 1) : ~Fits(SubSeq(es, m + 1, Len(es)))
  BY <1>1, <1>2
<1> QED
  BY <1>3, Zenon DEF Evicted

LEMMA PartOf ==
    ASSUME NEW S, NEW es \in Seq(S), NEW from \in Nat, NEW to \in Nat, from <= to, to <= Len(es)
    PROVE  /\ SubSeq(es, from + 1, to) \in Seq(S) /\ Len(SubSeq(es, from + 1, to)) = to - from
           /\ \A i \in 1..to - from : SubSeq(es, from + 1, to)[i] = es[from + i]
OBVIOUS

\* part is the n elements of es after the first `from`.
IsPart(part, S, es, from, n) ==
    part \in Seq(S) /\ Len(part) = n /\ \A i \in 1..n : part[i] = es[from + i]

LEMMA PartIs ==
    ASSUME NEW S, NEW es \in Seq(S), NEW from \in Nat, NEW n \in Nat, NEW to \in Nat,
           to = from + n, to <= Len(es), NEW part, part = SubSeq(es, from + 1, to)
    PROVE  IsPart(part, S, es, from, n)
<1>1. from <= to /\ to - from = n
  OBVIOUS
<1>2. /\ SubSeq(es, from + 1, to) \in Seq(S) /\ Len(SubSeq(es, from + 1, to)) = to - from
      /\ \A i \in 1..to - from : SubSeq(es, from + 1, to)[i] = es[from + i]
  BY <1>1, PartOf
<1> QED
  BY <1>1, <1>2 DEF IsPart

LEMMA CompleteKeeps ==
    ASSUME NEW b, NEW lines, Kept(b, lines), NEW s \in Streams, NEW text \in Texts
    PROVE  Kept(CompleteLine(b, s, text), Append(lines, [stream |-> s, text |-> text]))
<1>1. PICK d \in Nat, k \in Nat, L \in Nat :
        /\ d = b.dropped /\ k = Len(b.entries) /\ L = Len(lines) /\ d + k = L
        /\ b.next = L + 1 /\ b.entries \in Seq(Entries) /\ lines \in Seq(Lines)
  <2>1. /\ b.dropped \in Nat /\ b.entries \in Seq(Entries) /\ lines \in Seq(Lines)
        /\ b.dropped + Len(b.entries) = Len(lines) /\ b.next = Len(lines) + 1
    BY DEF Kept, Buffers
  <2>2. Len(b.entries) \in Nat /\ Len(lines) \in Nat
    BY <2>1
  <2> QED
    BY <2>1, <2>2, Zenon
<1>0. d + k = L
  BY <1>1
<1>2. PICK e \in Entries : e = [revision |-> b.next, stream |-> s, text |-> text]
  <2>1. b.next \in Nat \ {0}
    BY <1>1
  <2> QED
    BY <2>1 DEF Entries
<1>3. PICK l \in Lines : l = [stream |-> s, text |-> text]
  BY DEF Lines
<1>4. PICK grown \in Seq(Entries) :
        /\ grown = Append(b.entries, e) /\ Len(grown) = k + 1 /\ grown[k + 1] = e
        /\ \A i \in 1..k : grown[i] = b.entries[i]
  <2>1. PICK grown, es : es = b.entries /\ grown = Append(es, e)
    OBVIOUS
  <2>2. es \in Seq(Entries) /\ Len(es) = k
    BY <1>1, <2>1
  <2>3. /\ grown \in Seq(Entries) /\ Len(grown) = k + 1 /\ grown[k + 1] = e
        /\ \A i \in 1..k : grown[i] = es[i]
    BY <2>1, <2>2
  <2> QED
    BY <2>1, <2>3
<1>5. PICK more \in Seq(Lines) :
        /\ more = Append(lines, l) /\ Len(more) = L + 1 /\ more[L + 1] = l
        /\ \A i \in 1..L : more[i] = lines[i]
  <2>1. PICK more : more = Append(lines, l)
    OBVIOUS
  <2>2. /\ more \in Seq(Lines) /\ Len(more) = L + 1 /\ more[L + 1] = l
        /\ \A i \in 1..L : more[i] = lines[i]
    BY <1>1, <2>1
  <2> QED
    BY <2>1, <2>2
<1>6. HasTexts(grown) /\ HasTexts(more) /\ HasTexts(lines)
  BY <1>1, <1>4, <1>5, SequencesHaveTexts
<1>7. ASSUME NEW i \in 1..k + 1
      PROVE  grown[i].revision = d + i /\ grown[i].stream = more[d + i].stream /\ grown[i].text = more[d + i].text
  <2>1. CASE i = k + 1
    <3>1. d + i = L + 1
      BY <1>0, <2>1
    <3> QED
      BY <1>1, <1>2, <1>3, <1>4, <1>5, <2>1, <3>1
  <2>2. CASE i # k + 1
    <3>1. i \in 1..k /\ d + i \in 1..L
      BY <1>0, <2>2
    <3>2. grown[i] = b.entries[i] /\ more[d + i] = lines[d + i]
      BY <1>4, <1>5, <3>1
    <3> QED
      BY <1>1, <3>1, <3>2 DEF Kept
  <2> QED
    BY <2>1, <2>2
<1>8. PICK n \in 0..k + 1 :
        /\ n = Evicted(grown)
        /\ n = k + 1 \/ Fits(SubSeq(grown, n + 1, k + 1))
        /\ \A m \in 0..n - 1 : ~Fits(SubSeq(grown, m + 1, k + 1))
  <2>1. PICK n : n = Evicted(grown)
    OBVIOUS
  <2>2. Len(grown) \in Nat /\ Len(grown) = k + 1
    BY <1>1, <1>4
  <2> QED
    BY <2>1, <2>2, EvictedIs
<1>9. ASSUME NEW m \in 0..k + 1
      PROVE  /\ SubSeq(grown, m + 1, k + 1) \in Seq(Entries)
             /\ Len(SubSeq(grown, m + 1, k + 1)) = k + 1 - m
             /\ \A i \in 1..k + 1 - m : SubSeq(grown, m + 1, k + 1)[i] = grown[m + i]
             /\ TotalBytes(SubSeq(grown, m + 1, k + 1)) = Sum(more, L + 1) - Sum(more, d + m)
  <2>1. PICK part : part = SubSeq(grown, m + 1, k + 1)
    OBVIOUS
  <2>0. Len(grown) = k + 1
    BY <1>4
  <2>2. part \in Seq(Entries) /\ Len(part) = k + 1 - m /\ \A i \in 1..k + 1 - m : part[i] = grown[m + i]
    <3>1. PICK size \in Nat, to \in Nat : size = k + 1 - m /\ to = k + 1 /\ to = m + size /\ m \in Nat
      OBVIOUS
    <3>2. to <= Len(grown) /\ part = SubSeq(grown, m + 1, to)
      BY <2>0, <2>1, <3>1
    <3>3. IsPart(part, Entries, grown, m, size)
      BY <3>1, <3>2, PartIs
    <3> QED
      BY <3>1, <3>3 DEF IsPart
  <2>3. ASSUME NEW i \in 1..Len(part) PROVE part[i].text = more[(d + m) + i].text
    <3>0. Len(part) = k + 1 - m
      BY <2>2
    <3>1. m + i \in 1..k + 1 /\ d + (m + i) = (d + m) + i
      BY <3>0
    <3> QED
      BY <1>7, <2>2, <3>1
  <2>l. Len(part) = k + 1 - m
    BY <2>2
  <2>4. HasTexts(part) /\ d + m \in Nat /\ (d + m) + Len(part) = L + 1
    <3>1. HasTexts(part)
      BY <2>2, SequencesHaveTexts
    <3>2. d + m \in Nat /\ (d + m) + (k + 1 - m) = L + 1
      BY <1>0
    <3> QED
      BY <2>l, <3>1, <3>2
  <2>5. TotalBytes(part) = Sum(more, (d + m) + Len(part)) - Sum(more, d + m)
    <3>0. Len(more) = L + 1
      BY <1>5
    <3>1. (d + m) + Len(part) <= Len(more)
      BY <2>4, <3>0
    <3> QED
      BY <1>6, <2>3, <2>4, <3>1, SumOfPart
  <2> QED
    BY <2>1, <2>2, <2>4, <2>5
<1>10. PICK x \in Nat, old \in Nat, sd \in Nat, sn \in Nat :
         /\ x = Len(text) /\ old = Sum(lines, L) /\ sd = Sum(lines, d) /\ sn = Sum(more, d + n)
  <2>0. Len(more) = L + 1 /\ Len(lines) = L
    BY <1>1, <1>5
  <2>1. L \in 0..Len(lines) /\ d \in 0..Len(lines) /\ d + n \in 0..Len(more)
    BY <1>0, <2>0
  <2>2. Sum(lines, L) \in Nat /\ Sum(lines, d) \in Nat /\ Sum(more, d + n) \in Nat
    BY <1>6, <2>1, SumIs
  <2>3. Len(text) \in Nat
    BY DEF Texts
  <2> QED
    BY <2>2, <2>3
<1>11. ASSUME NEW j \in 0..L PROVE Sum(more, j) = Sum(lines, j)
  <2>1. \A i \in 1..j : more[i].text = lines[i].text
    BY <1>1, <1>5
  <2> QED
    BY <1>1, <2>1, SumAgrees
<1>12. Sum(more, L + 1) = old + x
  <2>1. L \in 0..Len(more) - 1 /\ L \in 0..L
    BY <1>1, <1>5
  <2>2. Sum(more, L + 1) = Sum(more, L) + Len(more[L + 1].text)
    BY <1>6, <2>1, SumIs
  <2> QED
    BY <1>3, <1>5, <1>10, <1>11, <2>1, <2>2
<1>13. TotalBytes(SubSeq(grown, 1, n)) = sn - sd
  <2>1. PICK part : part = SubSeq(grown, 1, n)
    OBVIOUS
  <2>0. Len(grown) = k + 1
    BY <1>4
  <2>2. part \in Seq(Entries) /\ Len(part) = n /\ \A i \in 1..n : part[i] = grown[i]
    BY <2>0, <2>1, PartOf
  <2>3. ASSUME NEW i \in 1..Len(part) PROVE part[i].text = more[d + i].text
    <3>1. i \in 1..n
      BY <2>2
    <3>2. i \in 1..k + 1
      BY <3>1
    <3> QED
      BY <1>7, <2>2, <3>1, <3>2
  <2>l. Len(part) = n /\ Len(more) = L + 1
    BY <1>5, <2>2
  <2>n. d + Len(part) <= Len(more) /\ d \in 0..L
    BY <1>0, <2>l
  <2>4. HasTexts(part) /\ d + Len(part) <= Len(more) /\ d \in 0..L
    BY <2>2, <2>n, SequencesHaveTexts
  <2>5. TotalBytes(part) = Sum(more, d + Len(part)) - Sum(more, d)
    BY <1>6, <2>3, <2>4, SumOfPart
  <2> QED
    BY <1>10, <1>11, <2>1, <2>2, <2>4, <2>5
<1>14. PICK kept \in Seq(Entries) :
         /\ kept = SubSeq(grown, n + 1, k + 1) /\ Len(kept) = k + 1 - n
         /\ \A i \in 1..k + 1 - n : kept[i] = grown[n + i]
         /\ TotalBytes(kept) = old + x - sn
  <2>1. PICK kept : kept = SubSeq(grown, n + 1, k + 1)
    OBVIOUS
  <2>2. /\ kept \in Seq(Entries) /\ Len(kept) = k + 1 - n
        /\ \A i \in 1..k + 1 - n : kept[i] = grown[n + i]
        /\ TotalBytes(kept) = Sum(more, L + 1) - Sum(more, d + n)
    BY <1>9, <2>1
  <2>3. TotalBytes(kept) = old + x - sn
    BY <1>10, <1>12, <2>2, SMTT(60)
  <2> QED
    BY <2>1, <2>2, <2>3
<1>k. Len(kept) = k + 1 - n /\ LimitEntries \in Nat /\ LimitBytes \in Nat
  BY <1>14, LogAssumption
<1>15. old + x - sn \in Nat
  <2>0. Len(kept) \in 0..Len(kept)
    BY <1>k
  <2>1. HasTexts(kept) /\ Len(kept) \in 0..Len(kept)
    BY <2>0, SequencesHaveTexts
  <2>2. TotalBytes(kept) \in Nat
    BY <2>1, SumIs
  <2> QED
    BY <1>14, <2>2
<1>16. /\ b \in Buffers /\ b.retained = old - sd /\ b.droppedBytes = sd
       /\ Within(k, old - sd)
       /\ d > 0 => ~Within(k + 1, old - Sum(lines, d - 1))
  BY <1>1, <1>10 DEF Kept
<1>c. PICK c : c = CompleteLine(b, s, text)
  OBVIOUS
<1>17. /\ c.entries = kept /\ c.next = b.next + 1 /\ c.retained = b.retained + x - (sn - sd)
       /\ c.dropped = d + n /\ c.droppedBytes = b.droppedBytes + (sn - sd)
       /\ c = [entries |-> c.entries, next |-> c.next, retained |-> c.retained, dropped |-> c.dropped,
               droppedBytes |-> c.droppedBytes]
  <2>1. c = [b EXCEPT !.entries = kept, !.next = b.next + 1, !.retained = b.retained + x - (sn - sd),
                      !.dropped = d + n, !.droppedBytes = b.droppedBytes + (sn - sd)]
    <3>1. /\ kept = SubSeq(Append(b.entries, [revision |-> b.next, stream |-> s, text |-> text]),
                           Evicted(Append(b.entries, [revision |-> b.next, stream |-> s, text |-> text])) + 1,
                           Len(Append(b.entries, [revision |-> b.next, stream |-> s, text |-> text])))
          /\ n = Evicted(Append(b.entries, [revision |-> b.next, stream |-> s, text |-> text]))
          /\ sn - sd = TotalBytes(SubSeq(Append(b.entries, [revision |-> b.next, stream |-> s, text |-> text]), 1,
                           Evicted(Append(b.entries, [revision |-> b.next, stream |-> s, text |-> text]))))
      BY <1>2, <1>4, <1>8, <1>13, <1>14, Zenon
    <3> QED
      BY <1>1, <1>c, <1>10, <3>1, Zenon DEF CompleteLine
  <2> QED
    BY <1>16, <2>1 DEF Buffers
<1>18. c.retained = old + x - sn /\ c.droppedBytes = sn /\ c.next = L + 2
  BY <1>1, <1>10, <1>16, <1>17, SMTT(60)
<1>19. c \in Buffers
  <2>1. c.next \in Nat \ {0} /\ c.retained \in Nat /\ c.dropped \in Nat /\ c.droppedBytes \in Nat
    <3>1. c.dropped = d + n /\ c.retained = old + x - sn /\ c.droppedBytes = sn /\ c.next = L + 2
      BY <1>17, <1>18
    <3> QED
      BY <1>15, <3>1
  <2> QED
    BY <1>14, <1>17, <2>1 DEF Buffers
<1>20. Within(Len(kept), old + x - sn)
  <2>1. CASE n = k + 1
    <3>1. d + n = L + 1
      BY <1>0, <2>1
    <3>2. sn = old + x
      BY <1>10, <1>12, <3>1
    <3> QED
      BY <1>k, <2>1, <3>2 DEF Within
  <2>2. CASE n # k + 1
    <3>1. Fits(kept)
      BY <1>8, <1>14, <2>2
    <3> QED
      BY <1>14, <3>1 DEF Fits, Within
  <2> QED
    BY <2>1, <2>2
<1>21. d + n > 0 => ~Within(Len(kept) + 1, (old + x) - Sum(more, d + n - 1))
  <2>1. CASE n > 0
    <3>1. PICK m \in 0..n - 1 : m = n - 1
      BY <2>1
    <3>2. ~Fits(SubSeq(grown, m + 1, k + 1))
      BY <1>8, <3>1
    <3>3. m \in 0..k + 1 /\ d + m = d + n - 1 /\ k + 1 - m = Len(kept) + 1
      BY <1>k, <2>1, <3>1
    <3>4. /\ Len(SubSeq(grown, m + 1, k + 1)) = Len(kept) + 1
          /\ TotalBytes(SubSeq(grown, m + 1, k + 1)) = (old + x) - Sum(more, d + n - 1)
      BY <1>9, <1>12, <3>3
    <3> QED
      BY <3>2, <3>4 DEF Fits, Within
  <2>2. CASE n = 0 /\ d > 0
    <3>0. Len(lines) = L
      BY <1>1
    <3>1. d - 1 \in 0..L /\ d - 1 \in 0..Len(lines) /\ d + n - 1 = d - 1 /\ Len(kept) = k + 1
      BY <1>0, <1>k, <2>2, <3>0
    <3>2. PICK p \in Nat : p = Sum(lines, d - 1) /\ Sum(more, d + n - 1) = p
      BY <1>6, <1>11, <3>1, SumIs
    <3>3. ~Within(k + 1, old - p)
      BY <1>16, <2>2, <3>2
    <3>4. ~Within(k + 2, (old + x) - p)
      BY <1>k, <3>3 DEF Within
    <3>5. Len(kept) + 1 = k + 2
      BY <3>1
    <3> QED
      BY <3>2, <3>4, <3>5
  <2> QED
    BY <2>1, <2>2
<1>22. ASSUME NEW i \in 1..Len(kept)
       PROVE  /\ kept[i].revision = (d + n) + i
              /\ kept[i].stream = more[(d + n) + i].stream
              /\ kept[i].text = more[(d + n) + i].text
  <2>1. n + i \in 1..k + 1 /\ d + (n + i) = (d + n) + i /\ i \in 1..k + 1 - n
    BY <1>k
  <2> QED
    BY <1>7, <1>14, <2>1
<1>23. (d + n) + Len(kept) = Len(more) /\ c.next = Len(more) + 1
  <2>1. Len(more) = L + 1 /\ c.next = L + 2
    BY <1>5, <1>18
  <2> QED
    BY <1>0, <1>k, <2>1
<1> QED
  <2>1. Kept(c, more)
    <3>1. PICK q : q = d + n
      OBVIOUS
    <3>2. c.dropped = q /\ c.entries = kept
      BY <1>17, <3>1
    <3>3. c.dropped + Len(c.entries) = Len(more) /\ c.next = Len(more) + 1
      BY <1>23, <3>1, <3>2
    <3>4. \A i \in 1..Len(c.entries) :
             /\ c.entries[i].revision = c.dropped + i
             /\ c.entries[i].stream = more[c.dropped + i].stream
             /\ c.entries[i].text = more[c.dropped + i].text
      BY <1>22, <3>1, <3>2, Zenon
    <3>5. Sum(more, Len(more)) = old + x /\ Sum(more, c.dropped) = sn
      BY <1>5, <1>10, <1>12, <3>1, <3>2
    <3>6. c.retained = Sum(more, Len(more)) - Sum(more, c.dropped) /\ c.droppedBytes = Sum(more, c.dropped)
      BY <1>18, <3>5
    <3>7. Within(Len(c.entries), c.retained)
      BY <1>18, <1>20, <3>2
    <3>8. c.dropped > 0 => ~Within(Len(c.entries) + 1, Sum(more, Len(more)) - Sum(more, c.dropped - 1))
      <4>1. q > 0 => ~Within(Len(kept) + 1, (old + x) - Sum(more, q - 1))
        BY <1>21, <3>1
      <4> QED
        BY <3>2, <3>5, <4>1
    <3> QED
      BY <1>19, <3>3, <3>4, <3>6, <3>7, <3>8, Zenon DEF Kept
  <2> QED
    BY <1>3, <1>5, <1>c, <2>1
-------------------------------------------------------------------------------
(* The lines in a sequence of bytes *)

\* The text after the last newline or carriage return among the first n bytes.
LineUpTo(w, n) == SubSeq(w, Max({0} \cup {i \in 1..n : w[i] \in {CR, LF}}) + 1, n)

LEMMA GreatestNat ==
    ASSUME NEW n \in Nat, NEW T \in SUBSET (0..n), T # {}
    PROVE  Max(T) \in T /\ \A y \in T : y <= Max(T)
<1> DEFINE U == {u \in 0..n : \A y \in T : y <= u}
<1>1. PICK u \in U : \A v \in U : u <= v
  <2>1. U \in SUBSET Nat /\ n \in U
    OBVIOUS
  <2> HIDE DEF U
  <2> QED
    BY <2>1, LeastNat
<1>2. u \in Nat /\ u <= n /\ \A y \in T : y <= u
  OBVIOUS
<1>3. u \in T
  <2> SUFFICES ASSUME u \notin T PROVE FALSE
    OBVIOUS
  <2>1. \A y \in T : y \in Nat /\ y < u
    BY <1>2
  <2>2. u - 1 \in 0..n /\ \A y \in T : y <= u - 1
    <3>1. \E y \in Nat : y < u
      BY <2>1
    <3>2. u > 0
      BY <1>2, <3>1
    <3>3. ASSUME NEW y \in T PROVE y <= u - 1
      BY <1>2, <2>1
    <3> QED
      BY <1>2, <3>2, <3>3
  <2>3. u - 1 \in U
    BY <2>2
  <2> QED
    BY <1>1, <1>2, <2>3
<1>4. \E x \in T : \A y \in T : x >= y
  BY <1>2, <1>3
<1>5. Max(T) \in T /\ \A y \in T : Max(T) >= y
  BY <1>4, Zenon DEF Max
<1> QED
  BY <1>5

LEMMA MinOfTwo == ASSUME NEW x \in Int, NEW y \in Int PROVE Min({x, y}) = IF x <= y THEN x ELSE y
BY DEF Min

LEMMA MaxOfTwo == ASSUME NEW x \in Int, NEW y \in Int PROVE Max({x, y}) = IF x >= y THEN x ELSE y
BY DEF Max

LEMMA LineUpToIs ==
    ASSUME NEW w \in Seq(Chars), NEW n \in 0..Len(w)
    PROVE  \E j \in 0..n :
              /\ LineUpTo(w, n) = SubSeq(w, j + 1, n)
              /\ j > 0 => w[j] \in {CR, LF}
              /\ \A i \in j + 1..n : w[i] \notin {CR, LF}
<1> DEFINE T == {0} \cup {i \in 1..n : w[i] \in {CR, LF}}
<1>1. Max(T) \in T /\ \A y \in T : y <= Max(T)
  <2>1. T \in SUBSET (0..n) /\ T # {} /\ n \in Nat
    OBVIOUS
  <2> HIDE DEF T
  <2> QED
    BY <2>1, GreatestNat
<1>2. PICK j : j = Max(T)
  OBVIOUS
<1>3. j \in 0..n /\ (j > 0 => w[j] \in {CR, LF})
  BY <1>1, <1>2
<1>4. ASSUME NEW i \in j + 1..n PROVE w[i] \notin {CR, LF}
  <2> SUFFICES ASSUME w[i] \in {CR, LF} PROVE FALSE
    OBVIOUS
  <2>1. i \in 1..n /\ i > j
    BY <1>3
  <2>2. i \in T
    BY <2>1
  <2> QED
    BY <1>1, <1>2, <1>3, <2>1, <2>2
<1>5. LineUpTo(w, n) = SubSeq(w, j + 1, n)
  BY <1>2 DEF LineUpTo
<1> QED
  BY <1>3, <1>4, <1>5

\* The line grows by each byte that is not a control character and is emptied by one.
LEMMA LineUpToNext ==
    ASSUME NEW w \in Seq(Chars), NEW n \in 0..Len(w) - 1
    PROVE  LineUpTo(w, n + 1) = IF w[n + 1] \in {CR, LF} THEN <<>> ELSE Append(LineUpTo(w, n), w[n + 1])
<1>1. n \in 0..Len(w) /\ n + 1 \in 0..Len(w) /\ n \in Nat /\ Len(w) \in Nat
  OBVIOUS
<1>2. PICK j \in 0..n :
        /\ LineUpTo(w, n) = SubSeq(w, j + 1, n)
        /\ j > 0 => w[j] \in {CR, LF}
        /\ \A i \in j + 1..n : w[i] \notin {CR, LF}
  BY <1>1, LineUpToIs
<1>3. PICK k \in 0..n + 1 :
        /\ LineUpTo(w, n + 1) = SubSeq(w, k + 1, n + 1)
        /\ k > 0 => w[k] \in {CR, LF}
        /\ \A i \in k + 1..n + 1 : w[i] \notin {CR, LF}
  BY <1>1, LineUpToIs
<1>4. CASE w[n + 1] \in {CR, LF}
  <2>1. k = n + 1
    BY <1>1, <1>3, <1>4
  <2>2. SubSeq(w, k + 1, n + 1) = <<>>
    BY <1>1, <2>1
  <2> QED
    BY <1>3, <1>4, <2>2
<1>5. CASE w[n + 1] \notin {CR, LF}
  <2>1. k # n + 1
    BY <1>1, <1>3, <1>5
  <2>2. ~(k < j)
    <3> SUFFICES ASSUME k < j PROVE FALSE
      OBVIOUS
    <3>1. j \in k + 1..n + 1 /\ j > 0
      BY <1>1
    <3> QED
      BY <1>2, <1>3, <3>1
  <2>3. ~(j < k)
    <3> SUFFICES ASSUME j < k PROVE FALSE
      OBVIOUS
    <3>1. k \in j + 1..n /\ k > 0
      BY <1>1, <2>1
    <3> QED
      BY <1>2, <1>3, <3>1
  <2>4. k = j
    BY <2>2, <2>3
  <2>5. SubSeq(w, j + 1, n + 1) = Append(SubSeq(w, j + 1, n), w[n + 1])
    BY <1>1
  <2> QED
    BY <1>2, <1>3, <1>5, <2>4, <2>5
<1> QED
  BY <1>4, <1>5

LEMMA LineBeforeIs ==
    ASSUME NEW w, NEW n \in Nat
    PROVE  LineBefore(w, n + 1) = IF n > 0 /\ w[n] = CR THEN LineUpTo(w, n - 1) ELSE LineUpTo(w, n)
<1>1. (n + 1) - 1 = n /\ (n + 1) - 2 = n - 1 /\ (n + 1 > 1 <=> n > 0)
  OBVIOUS
<1>2. CASE n > 0 /\ w[n] = CR
  BY <1>1, <1>2 DEF LineBefore, LineUpTo
<1>3. CASE ~(n > 0 /\ w[n] = CR)
  BY <1>1, <1>3 DEF LineBefore, LineUpTo
<1> QED
  BY <1>2, <1>3

\* A line does not depend on what is written after it.
LEMMA LineBeforeAgrees ==
    ASSUME NEW v \in Seq(Chars), NEW w \in Seq(Chars), NEW n \in Nat, n <= Len(v), n <= Len(w),
           \A i \in 1..n : v[i] = w[i]
    PROVE  LineBefore(v, n + 1) = LineBefore(w, n + 1)
<1>1. ASSUME NEW m \in 0..n PROVE LineUpTo(v, m) = LineUpTo(w, m)
  <2>1. {i \in 1..m : v[i] \in {CR, LF}} = {i \in 1..m : w[i] \in {CR, LF}}
    OBVIOUS
  <2>2. PICK k : k = Max({0} \cup {i \in 1..m : v[i] \in {CR, LF}})
    OBVIOUS
  <2>3. k \in 0..m
    <3>1. PICK T : T = {0} \cup {i \in 1..m : v[i] \in {CR, LF}}
      OBVIOUS
    <3>2. T \in SUBSET (0..m) /\ T # {} /\ m \in Nat
      BY <3>1
    <3>3. Max(T) \in T
      BY <3>2, GreatestNat
    <3> QED
      BY <2>2, <3>1, <3>2, <3>3
  <2>4. SubSeq(v, k + 1, m) = SubSeq(w, k + 1, m)
    BY <2>3
  <2> QED
    BY <2>1, <2>2, <2>4 DEF LineUpTo
<1>2. n \in 0..n /\ (n > 0 => n - 1 \in 0..n /\ v[n] = w[n])
  OBVIOUS
<1> QED
  BY <1>1, <1>2, LineBeforeIs

\* The lines at the places M are those that the newlines at the places N end.
EndedBy(w, lines, N, M) ==
    \E end \in [M -> N] :
        /\ \A j, k \in M : j < k => end[j] < end[k]
        /\ \A i \in N : \E k \in M : end[k] = i
        /\ \A k \in M : lines[k].text = LineBefore(w, end[k])

\* The lines of stream s are those that the newlines among the first n bytes end.
Told(w, n, lines, s) ==
    EndedBy(w, lines, {i \in 1..n : w[i] = LF}, {k \in DOMAIN lines : lines[k].stream = s})

LEMMA ToldGrows ==
    ASSUME NEW v \in Seq(Chars), NEW w \in Seq(Chars), NEW n \in Nat, n <= Len(v), n <= Len(w),
           \A i \in 1..n : v[i] = w[i], NEW lines, NEW s, Told(v, n, lines, s)
    PROVE  Told(w, n, lines, s)
<1> DEFINE newlines == {i \in 1..n : w[i] = LF}
           mine == {k \in DOMAIN lines : lines[k].stream = s}
<1>1. newlines = {i \in 1..n : v[i] = LF}
  OBVIOUS
<1>2. PICK end \in [mine -> newlines] :
        /\ \A j, k \in mine : j < k => end[j] < end[k]
        /\ \A i \in newlines : \E k \in mine : end[k] = i
        /\ \A k \in mine : lines[k].text = LineBefore(v, end[k])
  BY <1>1, Zenon DEF Told, EndedBy
<1>3. ASSUME NEW k \in mine PROVE lines[k].text = LineBefore(w, end[k])
  <2>1. PICK m \in Nat : end[k] = m + 1 /\ m <= n
    <3>1. end[k] \in 1..n
      BY <1>2
    <3>2. end[k] - 1 \in Nat /\ end[k] = (end[k] - 1) + 1 /\ end[k] - 1 <= n
      BY <3>1
    <3> QED
      BY <3>2
  <2>2. m <= Len(v) /\ m <= Len(w) /\ \A i \in 1..m : v[i] = w[i]
    BY <2>1
  <2>3. LineBefore(v, m + 1) = LineBefore(w, m + 1)
    BY <2>2, LineBeforeAgrees
  <2> QED
    BY <1>2, <2>1, <2>3
<1> HIDE DEF newlines, mine
<1>4. EndedBy(w, lines, newlines, mine)
  BY <1>2, <1>3, Zenon DEF EndedBy
<1> QED
  BY <1>4, Zenon DEF Told, newlines, mine

\* A byte that is not a newline ends no line.
LEMMA ToldSame ==
    ASSUME NEW w, NEW n \in Nat, w[n + 1] # LF, NEW lines, NEW s, Told(w, n, lines, s)
    PROVE  Told(w, n + 1, lines, s)
<1>1. {i \in 1..n + 1 : w[i] = LF} = {i \in 1..n : w[i] = LF}
  OBVIOUS
<1> QED
  BY <1>1, Zenon DEF Told, EndedBy

\* A line of the other stream is none of this one.
LEMMA ToldOther ==
    ASSUME NEW w, NEW n \in Nat, NEW lines \in Seq(Lines), NEW l \in Lines, NEW s, l.stream # s, Told(w, n, lines, s)
    PROVE  Told(w, n, Append(lines, l), s)
<1>1. PICK more : more = Append(lines, l)
  OBVIOUS
<1>2. /\ DOMAIN lines = 1..Len(lines) /\ DOMAIN more = 1..Len(lines) + 1 /\ Len(lines) \in Nat
      /\ more[Len(lines) + 1] = l /\ \A k \in 1..Len(lines) : more[k] = lines[k]
  BY <1>1
<1>3. {k \in DOMAIN more : more[k].stream = s} = {k \in DOMAIN lines : lines[k].stream = s}
  BY <1>2
<1>4. \A k \in {k \in DOMAIN lines : lines[k].stream = s} : more[k].text = lines[k].text
  BY <1>2
<1>5. Told(w, n, more, s)
  <2> DEFINE newlines == {i \in 1..n : w[i] = LF}
             mine == {k \in DOMAIN lines : lines[k].stream = s}
  <2>1. PICK end \in [mine -> newlines] :
          /\ \A j, k \in mine : j < k => end[j] < end[k]
          /\ \A i \in newlines : \E k \in mine : end[k] = i
          /\ \A k \in mine : lines[k].text = LineBefore(w, end[k])
    BY Zenon DEF Told, EndedBy
  <2>2. \A k \in mine : more[k].text = LineBefore(w, end[k])
    BY <1>4, <2>1, Zenon
  <2>3. {k \in DOMAIN more : more[k].stream = s} = mine
    BY <1>3, Zenon
  <2> HIDE DEF newlines, mine
  <2>4. {i \in 1..n : w[i] = LF} = newlines
    BY DEF newlines
  <2>5. EndedBy(w, more, newlines, mine)
    BY <2>1, <2>2, Zenon DEF EndedBy
  <2> QED
    BY <2>3, <2>4, <2>5 DEF Told
<1> QED
  BY <1>1, <1>5

\* A newline ends a line, after the others.
LEMMA ToldNext ==
    ASSUME NEW w, NEW n \in Nat, w[n + 1] = LF, NEW lines \in Seq(Lines), NEW l \in Lines, NEW s,
           l.stream = s, l.text = LineBefore(w, n + 1), Told(w, n, lines, s)
    PROVE  Told(w, n + 1, Append(lines, l), s)
<1> DEFINE newlines == {i \in 1..n : w[i] = LF}
           mine == {k \in DOMAIN lines : lines[k].stream = s}
           L == Len(lines)
<1>1. PICK more : more = Append(lines, l)
  OBVIOUS
<1>2. /\ DOMAIN lines = 1..L /\ DOMAIN more = 1..L + 1 /\ L \in Nat
      /\ more[L + 1] = l /\ \A k \in 1..L : more[k] = lines[k]
  BY <1>1
<1>3. {k \in DOMAIN more : more[k].stream = s} = mine \cup {L + 1}
  BY <1>2
<1>4. {i \in 1..n + 1 : w[i] = LF} = newlines \cup {n + 1}
  OBVIOUS
<1>5. /\ \A k \in mine : more[k].text = lines[k].text /\ k \in Nat /\ k < L + 1
      /\ more[L + 1].text = LineBefore(w, n + 1)
      /\ \A i \in newlines : i \in Nat /\ i < n + 1
  BY <1>2
<1>6. PICK end \in [mine -> newlines] :
        /\ \A j, k \in mine : j < k => end[j] < end[k]
        /\ \A i \in newlines : \E k \in mine : end[k] = i
        /\ \A k \in mine : lines[k].text = LineBefore(w, end[k])
  BY Zenon DEF Told, EndedBy
<1> HIDE DEF newlines, mine, L
<1>7. PICK new \in [mine \cup {L + 1} -> newlines \cup {n + 1}] :
        /\ \A k \in mine : new[k] = end[k]
        /\ new[L + 1] = n + 1
  <2>1. L + 1 \notin mine /\ L \in Nat
    BY <1>2, <1>5
  <2>2. PICK new : new = [k \in mine \cup {L + 1} |-> IF k \in mine THEN end[k] ELSE n + 1]
    OBVIOUS
  <2> QED
    BY <2>1, <2>2
<1>8. ASSUME NEW j \in mine \cup {L + 1}, NEW k \in mine \cup {L + 1}, j < k PROVE new[j] < new[k]
  <2>1. L \in Nat
    BY <1>2
  <2>2. j \in mine
    <3> SUFFICES ASSUME j = L + 1 PROVE FALSE
      OBVIOUS
    <3>1. k \in Nat /\ k <= L + 1
      BY <1>5, <2>1
    <3> QED
      BY <1>8, <2>1, <3>1
  <2>3. CASE k \in mine
    BY <1>6, <1>7, <1>8, <2>2, <2>3
  <2>4. CASE k = L + 1
    <3>1. new[k] = n + 1 /\ new[j] \in newlines
      BY <1>6, <1>7, <2>2, <2>4
    <3> QED
      BY <1>5, <3>1
  <2> QED
    BY <2>3, <2>4
<1>9. \A i \in newlines \cup {n + 1} : \E k \in mine \cup {L + 1} : new[k] = i
  BY <1>6, <1>7
<1>10. \A k \in mine \cup {L + 1} : more[k].text = LineBefore(w, new[k])
  BY <1>5, <1>6, <1>7
<1>11. PICK N, M : N = newlines \cup {n + 1} /\ M = mine \cup {L + 1}
  OBVIOUS
<1>12. EndedBy(w, more, N, M)
  BY <1>7, <1>8, <1>9, <1>10, <1>11, Zenon DEF EndedBy
<1>13. {i \in 1..n + 1 : w[i] = LF} = N /\ {k \in DOMAIN more : more[k].stream = s} = M
  BY <1>3, <1>4, <1>11
<1>14. Told(w, n + 1, more, s)
  BY <1>12, <1>13 DEF Told
<1> QED
  BY <1>1, <1>14
-------------------------------------------------------------------------------
(* The loop of Append *)

\* The buffer, the lines and the open line as the loop goes.
LoopStates == [buffer : Buffers, lines : Seq(Lines), partial : Texts, cr : BOOLEAN]

LoopState(b, lines, partial, cr) == [buffer |-> b, lines |-> lines, partial |-> partial, cr |-> cr]

LEMMA Controls == CR # LF /\ Chars = {"a", CR, LF} /\ "a" \notin {CR, LF} /\ Texts = Seq({"a"})
<1>1. CR # LF /\ "a" \notin {CR, LF}
  BY DEF CR, LF
<1>2. Chars \ {CR, LF} = {"a"}
  BY <1>1 DEF Chars
<1> QED
  BY <1>1, <1>2 DEF Chars, Texts

LEMMA LoopStatePartial ==
    ASSUME NEW b, NEW lines, NEW partial, NEW cr, NEW q
    PROVE  [LoopState(b, lines, partial, cr) EXCEPT !.partial = q] = LoopState(b, lines, q, cr)
BY DEF LoopState

LEMMA LoopStateCr ==
    ASSUME NEW b, NEW lines, NEW partial, NEW cr, NEW d
    PROVE  [LoopState(b, lines, partial, cr) EXCEPT !.cr = d] = LoopState(b, lines, partial, d)
BY DEF LoopState

LEMMA LoopStateFields ==
    ASSUME NEW b, NEW lines, NEW partial, NEW cr, NEW r, r = LoopState(b, lines, partial, cr)
    PROVE  r.buffer = b /\ r.lines = lines /\ r.partial = partial /\ r.cr = cr
BY DEF LoopState

\* The line that a byte is added to.
Rewritten(st) == IF st.cr THEN <<>> ELSE st.partial

\* What a round of the loop makes of st, by the byte it reads.
RoundIs(r, st, s, data, i) ==
    /\ data[i] = LF =>
          r = LoopState(CompleteLine(st.buffer, s, st.partial),
                        Append(st.lines, [stream |-> s, text |-> st.partial]), <<>>, FALSE)
    /\ data[i] = CR /\ i # Len(data) /\ data[i + 1] = LF =>
          r = LoopState(st.buffer, st.lines, Rewritten(st), FALSE)
    /\ data[i] = CR /\ i # Len(data) /\ data[i + 1] # LF =>
          r = LoopState(st.buffer, st.lines, <<>>, FALSE)
    /\ data[i] = CR /\ i = Len(data) =>
          r = LoopState(st.buffer, st.lines, Rewritten(st), TRUE)
    /\ data[i] \notin {CR, LF} =>
          r = LoopState(st.buffer, st.lines, Append(Rewritten(st), data[i]), FALSE)

LEMMA AppendCharIs ==
    ASSUME NEW st \in LoopStates, NEW s, NEW data, Len(data) \in Nat, NEW i \in 1..Len(data)
    PROVE  RoundIs(AppendChar(st, s, data, i), st, s, data, i)
<1>p. PICK p : p = Rewritten(st)
  OBVIOUS
<1>b. PICK no, yes : no = FALSE /\ yes = TRUE
  OBVIOUS
<1>1. st = LoopState(st.buffer, st.lines, st.partial, st.cr)
  BY DEF LoopStates, LoopState
<1>2. CASE data[i] = LF
  <2>1. AppendChar(st, s, data, i) = Completed(st, s)
    BY <1>2, <1>b, Controls DEF AppendChar
  <2>2. PICK x, y : x = CompleteLine(st.buffer, s, st.partial) /\ y = Append(st.lines, [stream |-> s, text |-> st.partial])
    OBVIOUS
  <2>3. Completed(st, s) = [st EXCEPT !.buffer = x, !.lines = y, !.partial = <<>>, !.cr = no]
    BY <2>2, <1>b, Zenon DEF Completed
  <2>4. Completed(st, s) = LoopState(x, y, <<>>, no)
    <3>1. PICK c : c = [st EXCEPT !.buffer = x, !.lines = y, !.partial = <<>>, !.cr = no]
      OBVIOUS
    <3>2. /\ c.buffer = x /\ c.lines = y /\ c.partial = <<>> /\ c.cr = no
          /\ c = [buffer |-> c.buffer, lines |-> c.lines, partial |-> c.partial, cr |-> c.cr]
      BY <3>1 DEF LoopStates
    <3> QED
      BY <2>3, <3>1, <3>2 DEF LoopState
  <2> QED
    BY <1>b, <1>2, <2>1, <2>2, <2>4, Controls, <1>p DEF RoundIs
<1>3. PICK r : r = [st EXCEPT !.partial = IF st.cr THEN <<>> ELSE @, !.cr = no]
  OBVIOUS
<1>4. r = LoopState(st.buffer, st.lines, p, no)
  BY <1>1, <1>3, <1>p DEF LoopState, Rewritten
<1>5. CASE data[i] = CR /\ i # Len(data) /\ data[i + 1] = LF
  <2>1. AppendChar(st, s, data, i) = r
    BY <1>3, <1>5, <1>b, Controls DEF AppendChar
  <2> QED
    BY <1>b, <1>4, <1>5, <2>1, Controls, <1>p DEF RoundIs
<1>6. CASE data[i] = CR /\ i # Len(data) /\ data[i + 1] # LF
  <2>1. AppendChar(st, s, data, i) = [r EXCEPT !.partial = <<>>]
    BY <1>3, <1>6, <1>b, Controls DEF AppendChar
  <2>2. [r EXCEPT !.partial = <<>>] = LoopState(st.buffer, st.lines, <<>>, no)
    BY <1>4, LoopStatePartial, LoopStateCr
  <2> QED
    BY <1>b, <1>6, <2>1, <2>2, Controls, <1>p DEF RoundIs
<1>7. CASE data[i] = CR /\ i = Len(data)
  <2>1. AppendChar(st, s, data, i) = [r EXCEPT !.cr = yes]
    BY <1>3, <1>7, <1>b, Controls DEF AppendChar
  <2>2. [r EXCEPT !.cr = yes] = LoopState(st.buffer, st.lines, p, yes)
    BY <1>4, LoopStatePartial, LoopStateCr
  <2> QED
    BY <1>b, <1>7, <2>1, <2>2, Controls, <1>p DEF RoundIs
<1>8. CASE data[i] \notin {CR, LF}
  <2>1. AppendChar(st, s, data, i) = [r EXCEPT !.partial = Append(@, data[i])]
    BY <1>3, <1>8, <1>b DEF AppendChar
  <2>2. PICK q : q = Append(p, data[i])
    OBVIOUS
  <2>3. [r EXCEPT !.partial = q] = LoopState(st.buffer, st.lines, q, no)
    BY <1>4, LoopStatePartial
  <2>4. r.partial = p
    BY <1>4, LoopStateFields
  <2>5. AppendChar(st, s, data, i) = [r EXCEPT !.partial = q]
    BY <2>1, <2>2, <2>4
  <2> QED
    BY <1>b, <1>8, <2>2, <2>3, <2>5, <1>p DEF RoundIs
<1> QED
  BY <1>2, <1>5, <1>6, <1>7, <1>8

\* The rounds of the loop over the first n bytes, in terms of the rounds before.
Rounds(g, start, s, data, n) ==
    [i \in 0..n |-> IF i = 0 THEN {start} ELSE {AppendChar(st, s, data, i) : st \in g[i - 1]}]

LEMMA RoundsExist ==
    ASSUME NEW start, NEW s, NEW data, NEW N \in Nat
    PROVE  \E g : g = Rounds(g, start, s, data, N)
<1> DEFINE T == {n \in 0..N : \E g : g = Rounds(g, start, s, data, n)}
<1>1. 0 \in T
  <2>1. PICK g : g = [i \in 0..0 |-> {start}]
    OBVIOUS
  <2>2. g = Rounds(g, start, s, data, 0)
    BY <2>1 DEF Rounds
  <2> QED
    BY <2>2
<1>2. ASSUME NEW n \in 0..N - 1, n \in T PROVE n + 1 \in T
  <2>1. PICK g : g = Rounds(g, start, s, data, n)
    BY <1>2
  <2>2. PICK h : h = [i \in 0..n + 1 |-> IF i = n + 1 THEN {AppendChar(st, s, data, i) : st \in g[i - 1]} ELSE g[i]]
    OBVIOUS
  <2>3. \A i \in 0..n : h[i] = g[i]
    BY <2>2
  <2>4. ASSUME NEW i \in 0..n + 1
        PROVE  h[i] = IF i = 0 THEN {start} ELSE {AppendChar(st, s, data, i) : st \in h[i - 1]}
    <3>1. CASE i = n + 1
      <4>1. i # 0 /\ i - 1 \in 0..n
        BY <3>1
      <4>2. h[i - 1] = g[i - 1]
        BY <2>3, <4>1
      <4>3. h[i] = {AppendChar(st, s, data, i) : st \in g[i - 1]}
        BY <2>2, <3>1
      <4> QED
        BY <4>1, <4>2, <4>3, Zenon
    <3>2. CASE i # n + 1
      <4>1. i \in 0..n /\ (i # 0 => i - 1 \in 0..n)
        BY <3>2
      <4>2. h[i] = g[i] /\ (i # 0 => h[i - 1] = g[i - 1])
        BY <2>3, <4>1
      <4>3. g[i] = IF i = 0 THEN {start} ELSE {AppendChar(st, s, data, i) : st \in g[i - 1]}
        BY <2>1, <4>1, Zenon DEF Rounds
      <4> QED
        BY <4>2, <4>3, Zenon
    <3> QED
      BY <3>1, <3>2
  <2>5. h = Rounds(h, start, s, data, n + 1)
    <3>1. PICK f : f = Rounds(h, start, s, data, n + 1)
      OBVIOUS
    <3>2. /\ f = [i \in 0..n + 1 |-> f[i]] /\ h = [i \in 0..n + 1 |-> h[i]]
          /\ \A i \in 0..n + 1 : h[i] = f[i]
      BY <2>2, <2>4, <3>1, Zenon DEF Rounds
    <3> QED
      BY <3>1, <3>2
  <2>6. n + 1 \in 0..N
    OBVIOUS
  <2> QED
    BY <2>5, <2>6
<1> HIDE DEF T
<1>3. N \in T
  <2>1. \A i \in 0..N : i \in T
    BY <1>1, <1>2, SetInduction
  <2> QED
    BY <2>1
<1> QED
  BY <1>3 DEF T

\* The open line between two reads. A carriage return at the end of a read is undecided.
Settled(w, n, partial, cr) ==
    /\ partial = LineBefore(w, n + 1)
    /\ cr <=> n > 0 /\ w[n] = CR

\* The open line after n bytes in the middle of a read: it is what a newline that
\* comes next ends, and what another byte is added to.
Underway(w, n, partial, cr) ==
    /\ w[n + 1] = LF => partial = LineBefore(w, n + 1)
    /\ w[n + 1] # LF => (IF cr THEN <<>> ELSE partial) = LineUpTo(w, n)

LEMMA SettledUnderway ==
    ASSUME NEW w \in Seq(Chars), NEW n \in 0..Len(w), NEW partial, NEW cr \in BOOLEAN, Settled(w, n, partial, cr)
    PROVE  Underway(w, n, partial, cr)
<1>1. n \in Nat
  OBVIOUS
<1>2. partial = IF n > 0 /\ w[n] = CR THEN LineUpTo(w, n - 1) ELSE LineUpTo(w, n)
  BY <1>1, LineBeforeIs DEF Settled
<1>3. ASSUME cr PROVE LineUpTo(w, n) = <<>>
  <2>1. n > 0 /\ w[n] = CR
    BY <1>3 DEF Settled
  <2>2. PICK m \in 0..Len(w) - 1 : n = m + 1
    <3>1. n - 1 \in 0..Len(w) - 1 /\ n = (n - 1) + 1
      BY <2>1
    <3> QED
      BY <3>1
  <2>3. LineUpTo(w, m + 1) = <<>>
    BY <2>1, <2>2, LineUpToNext
  <2> QED
    BY <2>2, <2>3
<1>4. ASSUME ~cr PROVE partial = LineUpTo(w, n)
  BY <1>2, <1>4 DEF Settled
<1>5. partial = LineBefore(w, n + 1)
  BY DEF Settled
<1>6. (IF cr THEN <<>> ELSE partial) = LineUpTo(w, n)
  BY <1>3, <1>4
<1> QED
  BY <1>5, <1>6 DEF Underway

\* After n bytes of stream s, when the read ends with byte m.
Going(w, n, m, s, st) ==
    /\ st \in LoopStates
    /\ Kept(st.buffer, st.lines)
    /\ Told(w, n, st.lines, s)
    /\ n = m => Settled(w, n, st.partial, st.cr)
    /\ n # m => Underway(w, n, st.partial, st.cr)

LEMMA GoingBy ==
    ASSUME NEW w, NEW n, NEW m, NEW s, NEW b \in Buffers, NEW lines \in Seq(Lines), NEW partial \in Texts, NEW cr \in BOOLEAN,
           Kept(b, lines), Told(w, n, lines, s),
           n = m => Settled(w, n, partial, cr), n # m => Underway(w, n, partial, cr)
    PROVE  Going(w, n, m, s, LoopState(b, lines, partial, cr))
<1>1. PICK st : st = LoopState(b, lines, partial, cr)
  OBVIOUS
<1>2. st.buffer = b /\ st.lines = lines /\ st.partial = partial /\ st.cr = cr
  BY <1>1, LoopStateFields
<1>3. st \in LoopStates
  BY <1>1 DEF LoopStates, LoopState
<1>4. Going(w, n, m, s, st)
  BY <1>2, <1>3 DEF Going
<1> QED
  BY <1>1, <1>4

LEMMA RoundGoes ==
    ASSUME NEW w \in Seq(Chars), NEW a \in Nat, NEW data \in Seq(Chars), a + Len(data) <= Len(w),
           \A i \in 1..Len(data) : data[i] = w[a + i],
           NEW s \in Streams, NEW i \in 1..Len(data), NEW n \in Nat, n + 1 = a + i,
           NEW m \in Nat, m = a + Len(data),
           NEW st, Going(w, n, m, s, st)
    PROVE  Going(w, n + 1, m, s, AppendChar(st, s, data, i))
<1>1. /\ st \in LoopStates /\ Kept(st.buffer, st.lines) /\ Told(w, n, st.lines, s)
      /\ Underway(w, n, st.partial, st.cr)
  <2>1. n # m
    OBVIOUS
  <2> QED
    BY <2>1 DEF Going
<1>m. n + 1 = m <=> i = Len(data)
  OBVIOUS
<1>2. /\ st.buffer \in Buffers /\ st.lines \in Seq(Lines) /\ st.partial \in Texts /\ st.cr \in BOOLEAN
  BY <1>1 DEF LoopStates
<1>3. /\ n \in 0..Len(w) - 1 /\ data[i] = w[n + 1] /\ Len(data) \in Nat /\ n + 1 \in Nat /\ n + 1 > 0
      /\ i # Len(data) => data[i + 1] = w[(n + 1) + 1]
      /\ (n + 1) - 1 = n
  <2>1. Len(data) \in Nat /\ Len(w) \in Nat
    OBVIOUS
  <2>2. n \in 0..Len(w) - 1
    BY <2>1
  <2>3. data[i] = w[n + 1]
    OBVIOUS
  <2>4. i # Len(data) => i + 1 \in 1..Len(data) /\ a + (i + 1) = (n + 1) + 1
    BY <2>1
  <2> QED
    BY <2>1, <2>2, <2>3, <2>4
<1>p. PICK p : p = Rewritten(st)
  OBVIOUS
<1>b. PICK no \in BOOLEAN, yes \in BOOLEAN : no = FALSE /\ yes = TRUE
  OBVIOUS
<1>4. p = Rewritten(st) /\ no = FALSE /\ yes = TRUE
  BY <1>p, <1>b
<1>5. p \in Texts /\ <<>> \in Texts
  BY <1>2, <1>4 DEF Texts, Rewritten
<1>6. LineBefore(w, (n + 1) + 1) = IF w[n + 1] = CR THEN LineUpTo(w, n) ELSE LineUpTo(w, n + 1)
  BY <1>3, LineBeforeIs
<1>7. LineUpTo(w, n + 1) = IF w[n + 1] \in {CR, LF} THEN <<>> ELSE Append(LineUpTo(w, n), w[n + 1])
  BY <1>3, LineUpToNext
<1>8. PICK r : r = AppendChar(st, s, data, i)
  OBVIOUS
<1>l. Len(data) \in Nat /\ st \in LoopStates
  BY <1>1, <1>3
<1>r. RoundIs(r, st, s, data, i)
  BY <1>l, <1>8, AppendCharIs
<1>k. Kept(st.buffer, st.lines)
  BY <1>1
<1>9. CASE data[i] = LF
  <2>1. PICK b, l, lines : /\ l = [stream |-> s, text |-> st.partial] /\ b = CompleteLine(st.buffer, s, st.partial)
                           /\ lines = Append(st.lines, l)
    OBVIOUS
  <2>2. r = LoopState(b, lines, <<>>, no)
    BY <1>r, <1>4, <1>9, <2>1, Controls DEF RoundIs
  <2>3. Kept(b, lines)
    BY <1>1, <1>2, <2>1, CompleteKeeps
  <2>4. b \in Buffers /\ lines \in Seq(Lines)
    BY <2>3 DEF Kept
  <2>5. l \in Lines /\ l.stream = s /\ l.text = LineBefore(w, n + 1)
    BY <1>1, <1>2, <1>3, <1>9, <2>1 DEF Lines, Underway
  <2>6. Told(w, n + 1, lines, s)
    BY <1>1, <1>2, <1>3, <1>9, <2>1, <2>5, ToldNext
  <2>7. LineUpTo(w, n + 1) = <<>> /\ LineBefore(w, (n + 1) + 1) = <<>>
    BY <1>3, <1>6, <1>7, <1>9, Controls
  <2>8. Settled(w, n + 1, <<>>, no) /\ Underway(w, n + 1, <<>>, no)
    BY <1>3, <1>9, <2>7, Controls, <1>4 DEF Settled, Underway
  <2> QED
    BY <1>5, <1>8, <2>2, <2>3, <2>4, <2>6, <2>8, <1>m, GoingBy
<1>10. CASE data[i] # LF
  <2>1. p = LineUpTo(w, n)
    BY <1>1, <1>3, <1>4, <1>10 DEF Underway, Rewritten
  <2>2. Told(w, n + 1, st.lines, s)
    BY <1>1, <1>3, <1>10, ToldSame
  <2>3. CASE data[i] = CR /\ i # Len(data) /\ data[i + 1] = LF
    <3>1. r = LoopState(st.buffer, st.lines, p, no)
      BY <1>r, <1>4, <2>3, Controls DEF RoundIs
    <3>2. Underway(w, n + 1, p, no)
      BY <1>3, <1>4, <1>6, <2>1, <2>3 DEF Underway
    <3> QED
      BY <1>k, <1>2, <1>5, <1>8, <2>2, <2>3, <3>1, <3>2, <1>m, GoingBy
  <2>4. CASE data[i] = CR /\ i # Len(data) /\ data[i + 1] # LF
    <3>1. r = LoopState(st.buffer, st.lines, <<>>, no)
      BY <1>r, <1>4, <2>4, Controls DEF RoundIs
    <3>2. Underway(w, n + 1, <<>>, no)
      BY <1>3, <1>4, <1>7, <2>4 DEF Underway
    <3> QED
      BY <1>k, <1>2, <1>5, <1>8, <2>2, <2>4, <3>1, <3>2, <1>m, GoingBy
  <2>5. CASE data[i] = CR /\ i = Len(data)
    <3>1. r = LoopState(st.buffer, st.lines, p, yes)
      BY <1>r, <1>4, <2>5, Controls DEF RoundIs
    <3>2. Settled(w, n + 1, p, yes)
      BY <1>3, <1>6, <2>1, <2>5, <1>4 DEF Settled
    <3> QED
      BY <1>k, <1>2, <1>5, <1>8, <2>2, <2>5, <3>1, <3>2, <1>m, GoingBy
  <2>6. CASE data[i] # CR
    <3>1. PICK q : q = Append(p, data[i])
      OBVIOUS
    <3>2. r = LoopState(st.buffer, st.lines, q, no)
      BY <1>r, <1>4, <1>10, <2>6, <3>1, Controls DEF RoundIs
    <3>3. q = LineUpTo(w, n + 1) /\ q = LineBefore(w, (n + 1) + 1)
      BY <1>3, <1>6, <1>7, <1>10, <2>1, <2>6, <3>1
    <3>4. Settled(w, n + 1, q, no) /\ Underway(w, n + 1, q, no)
      BY <1>3, <2>6, <3>3, <1>4 DEF Settled, Underway
    <3>5. q \in Texts
      <4>1. data[i] = "a"
        BY <1>10, <2>6, Controls
      <4> QED
        BY <1>5, <3>1, <4>1, Controls
    <3> QED
      BY <1>k, <1>2, <1>8, <2>2, <3>2, <3>4, <3>5, <1>m, GoingBy
  <2> QED
    BY <2>3, <2>4, <2>5, <2>6
<1> QED
  BY <1>9, <1>10

\* A round adds nothing to the lines of the other stream.
LEMMA RoundOther ==
    ASSUME NEW st \in LoopStates, NEW s \in Streams, NEW data \in Seq(Chars), NEW i \in 1..Len(data),
           NEW v, NEW k \in Nat, NEW t, t # s, Told(v, k, st.lines, t)
    PROVE  Told(v, k, AppendChar(st, s, data, i).lines, t)
<1>1. PICK r : r = AppendChar(st, s, data, i)
  OBVIOUS
<1>2. RoundIs(r, st, s, data, i)
  <2>1. Len(data) \in Nat
    OBVIOUS
  <2> QED
    BY <1>1, <2>1, AppendCharIs
<1>3. CASE data[i] = LF
  <2>1. PICK l, lines, b, p : /\ l = [stream |-> s, text |-> st.partial] /\ lines = Append(st.lines, l)
                              /\ b = CompleteLine(st.buffer, s, st.partial) /\ p = <<>>
    OBVIOUS
  <2>2. PICK no : no = FALSE
    OBVIOUS
  <2>3. r = LoopState(b, lines, p, no)
    BY <1>2, <1>3, <2>1, <2>2 DEF RoundIs
  <2>4. r.lines = lines
    BY <2>3, LoopStateFields
  <2>5. l \in Lines /\ l.stream # t /\ st.lines \in Seq(Lines)
    BY <2>1 DEF LoopStates, Lines
  <2>6. Told(v, k, lines, t)
    BY <2>1, <2>5, ToldOther
  <2> QED
    BY <1>1, <2>4, <2>6
<1>4. CASE data[i] # LF
  <2>1. \E p, c : r = LoopState(st.buffer, st.lines, p, c)
    BY <1>2, <1>4, Zenon DEF RoundIs
  <2>2. r.lines = st.lines
    BY <2>1, LoopStateFields
  <2> QED
    BY <1>1, <2>2
<1> QED
  BY <1>3, <1>4

\* data are the bytes of w after byte a and up to byte m.
IsRead(w, a, data, m) ==
    /\ a \in Nat /\ m \in Nat /\ m = a + Len(data) /\ m <= Len(w)
    /\ \A i \in 1..Len(data) : data[i] = w[a + i]

\* The loop over a read leads to one state. There the bytes of the read have been made into
\* lines of their stream, and the other stream t has the lines it had.
LEMMA LoopGoes ==
    ASSUME NEW w \in Seq(Chars), NEW a, NEW data \in Seq(Chars), NEW m, IsRead(w, a, data, m),
           NEW s \in Streams, NEW t, t # s, NEW v, NEW k \in Nat,
           NEW start, start = LoopState(buffer, completed, open[s].partial, open[s].cr),
           Going(w, a, m, s, start), Told(v, k, completed, t)
    PROVE  \E st : AppendData(s, data) = {st} /\ Going(w, m, m, s, st) /\ Told(v, k, st.lines, t)
<1> DEFINE N == Len(data)
<1>0. N \in Nat
  OBVIOUS
<1>1. start = LoopState(buffer, completed, open[s].partial, open[s].cr)
  OBVIOUS
<1>a. /\ a \in Nat /\ m \in Nat /\ m = a + Len(data) /\ m <= Len(w)
      /\ \A i \in 1..Len(data) : data[i] = w[a + i]
  BY DEF IsRead
<1>2. PICK g : g = Rounds(g, start, s, data, N) /\ AppendData(s, data) = g[N]
  <2>1. \E g : g = Rounds(g, start, s, data, N)
    <3> HIDE DEF N
    <3> QED
      BY <1>0, RoundsExist, ZenonT(60)
  <2> QED
    BY <1>1, <2>1, Zenon DEF AppendData, Rounds, LoopState
<1>3. g[0] = {start}
  BY <1>0, <1>2 DEF Rounds
<1>4. ASSUME NEW i \in 1..N PROVE g[i] = {AppendChar(st, s, data, i) : st \in g[i - 1]}
  <2>1. i \in 0..N /\ i # 0
    BY <1>0
  <2>2. g[i] = IF i = 0 THEN {start} ELSE {AppendChar(st, s, data, i) : st \in g[i - 1]}
    BY <1>2, <2>1, Zenon DEF Rounds
  <2> QED
    BY <2>1, <2>2, Zenon
<1> DEFINE T == {i \in 0..N : \E st : g[i] = {st} /\ Going(w, a + i, m, s, st) /\ Told(v, k, st.lines, t)}
<1>5. 0 \in T
  <2>1. a + 0 = a /\ 0 \in 0..N
    BY <1>0, <1>a
  <2>2. start.lines = completed
    BY <1>1, LoopStateFields
  <2>3. Going(w, a + 0, m, s, start) /\ Told(v, k, start.lines, t)
    BY <1>1, <2>1, <2>2
  <2> QED
    BY <1>3, <2>1, <2>3
<1>6. ASSUME NEW i \in 0..N - 1, i \in T PROVE i + 1 \in T
  <2>1. PICK st : g[i] = {st} /\ Going(w, a + i, m, s, st) /\ Told(v, k, st.lines, t)
    BY <1>6
  <2>2. PICK j \in 1..N, n \in Nat : j = i + 1 /\ n = a + i /\ n + 1 = a + j /\ j - 1 = i
    <3>1. i + 1 \in 1..N /\ a + i \in Nat /\ (a + i) + 1 = a + (i + 1) /\ (i + 1) - 1 = i
      BY <1>0, <1>a
    <3> QED
      BY <3>1
  <2>3. g[j] = {AppendChar(x, s, data, j) : x \in {st}}
    BY <1>4, <2>1, <2>2
  <2>4. PICK r : r = AppendChar(st, s, data, j)
    OBVIOUS
  <2>5. g[j] = {r}
    BY <2>3, <2>4
  <2>6. Going(w, n, m, s, st) /\ Told(v, k, st.lines, t)
    BY <2>1, <2>2
  <2>7. Going(w, n + 1, m, s, r)
    BY <1>a, <2>2, <2>4, <2>6, RoundGoes
  <2>8. st \in LoopStates
    BY <2>6 DEF Going
  <2>9. Told(v, k, r.lines, t)
    BY <2>4, <2>6, <2>8, RoundOther
  <2>10. j \in 0..N /\ Going(w, a + j, m, s, r)
    BY <1>0, <2>2, <2>7
  <2> QED
    BY <2>2, <2>5, <2>9, <2>10
<1>7. N \in T
  <2> HIDE DEF T, N
  <2>1. \A i \in 0..N : i \in T
    BY <1>0, <1>5, <1>6, SetInduction
  <2> QED
    BY <1>0, <2>1
<1> QED
  BY <1>a, <1>2, <1>7
-------------------------------------------------------------------------------
(* The inductive invariant *)

\* Stream s, of which w has been written: n bytes are in the buffer, the next ones are in the
\* thread, the rest is in the pipe; the lines and the open line are those of the n bytes.
Flows(w, n, data, inPipe, lines, s, partial, cr) ==
    /\ n \in Nat /\ Len(w) = n + Len(data) + Len(inPipe)
    /\ \A i \in 1..Len(data) : data[i] = w[n + i]
    /\ \A i \in 1..Len(inPipe) : inPipe[i] = w[n + Len(data) + i]
    /\ Told(w, n, lines, s)
    /\ Settled(w, n, partial, cr)

\* A reader ends at the end of its pipe, and the session after its readers.
Threads ==
    /\ \A s \in Streams : ~reader[s].alive => pipe[s] = <<>> /\ reader[s].data = <<>> /\ ~HasWriter
    /\ session.status # "Running" => \A s \in Streams : ~reader[s].alive

StreamFlows(s) ==
    Flows(program.written[s], Appended(s), reader[s].data, pipe[s], completed, s, open[s].partial, open[s].cr)

Inv ==
    /\ TypeOK
    /\ Threads
    /\ Kept(buffer, completed)
    /\ \A s \in Streams : StreamFlows(s)

LEMMA FlowsWrites ==
    ASSUME NEW w \in Seq(Chars), NEW data \in Seq(Chars), NEW inPipe \in Seq(Chars), NEW c \in Chars,
           NEW n, NEW lines, NEW s, NEW partial, NEW cr, Flows(w, n, data, inPipe, lines, s, partial, cr)
    PROVE  Flows(Append(w, c), n, data, Append(inPipe, c), lines, s, partial, cr)
<1>1. PICK v, q : v = Append(w, c) /\ q = Append(inPipe, c)
  OBVIOUS
<1>2. /\ v \in Seq(Chars) /\ Len(v) = Len(w) + 1 /\ v[Len(w) + 1] = c /\ \A i \in 1..Len(w) : v[i] = w[i]
      /\ q \in Seq(Chars) /\ Len(q) = Len(inPipe) + 1 /\ q[Len(inPipe) + 1] = c
      /\ \A i \in 1..Len(inPipe) : q[i] = inPipe[i]
  BY <1>1
<1>3. /\ n \in Nat /\ Len(w) = n + Len(data) + Len(inPipe)
      /\ Told(w, n, lines, s) /\ Settled(w, n, partial, cr)
  BY DEF Flows
<1>4. Len(w) \in Nat /\ Len(data) \in Nat /\ Len(inPipe) \in Nat
  OBVIOUS
<1>5. Len(v) = n + Len(data) + Len(q)
  BY <1>2, <1>3, <1>4
<1>6. n <= Len(w) /\ n <= Len(v) /\ \A i \in 1..n : i \in 1..Len(w)
  BY <1>2, <1>3, <1>4
<1>7. \A i \in 1..n : w[i] = v[i]
  BY <1>2, <1>6
<1>8. Told(v, n, lines, s)
  BY <1>2, <1>3, <1>6, <1>7, ToldGrows
<1>9. LineBefore(w, n + 1) = LineBefore(v, n + 1)
  BY <1>2, <1>3, <1>6, <1>7, LineBeforeAgrees
<1>10. n > 0 => w[n] = v[n]
  BY <1>3, <1>7
<1>11. Settled(v, n, partial, cr)
  BY <1>3, <1>9, <1>10 DEF Settled
<1>12. \A i \in 1..Len(data) : data[i] = v[n + i]
  <2> SUFFICES ASSUME NEW i \in 1..Len(data) PROVE data[i] = v[n + i]
    OBVIOUS
  <2>1. n + i \in 1..Len(w)
    BY <1>3, <1>4
  <2>2. data[i] = w[n + i]
    BY DEF Flows
  <2> QED
    BY <1>2, <2>1, <2>2
<1>13. \A i \in 1..Len(q) : q[i] = v[n + Len(data) + i]
  <2> SUFFICES ASSUME NEW i \in 1..Len(q) PROVE q[i] = v[n + Len(data) + i]
    OBVIOUS
  <2>1. CASE i = Len(inPipe) + 1
    <3>1. n + Len(data) + i = Len(w) + 1
      BY <1>3, <1>4, <2>1
    <3> QED
      BY <1>2, <2>1, <3>1
  <2>2. CASE i # Len(inPipe) + 1
    <3>1. i \in 1..Len(inPipe)
      BY <1>2, <1>4, <2>2
    <3>2. n + Len(data) + i \in 1..Len(w)
      BY <1>3, <1>4, <3>1
    <3>3. inPipe[i] = w[n + Len(data) + i]
      BY <3>1 DEF Flows
    <3> QED
      BY <1>2, <3>1, <3>2, <3>3
  <2> QED
    BY <2>1, <2>2
<1>14. Flows(v, n, data, q, lines, s, partial, cr)
  BY <1>3, <1>5, <1>8, <1>11, <1>12, <1>13 DEF Flows
<1> QED
  BY <1>1, <1>14

LEMMA FlowsReads ==
    ASSUME NEW w \in Seq(Chars), NEW inPipe \in Seq(Chars), NEW k \in 0..Len(inPipe),
           NEW n, NEW lines, NEW s, NEW partial, NEW cr, Flows(w, n, <<>>, inPipe, lines, s, partial, cr)
    PROVE  Flows(w, n, SubSeq(inPipe, 1, k), SubSeq(inPipe, k + 1, Len(inPipe)), lines, s, partial, cr)
<1>1. PICK d, q : d = SubSeq(inPipe, 1, k) /\ q = SubSeq(inPipe, k + 1, Len(inPipe))
  OBVIOUS
<1>2. /\ Len(d) = k /\ \A i \in 1..k : d[i] = inPipe[i]
      /\ Len(q) = Len(inPipe) - k /\ \A i \in 1..Len(inPipe) - k : q[i] = inPipe[k + i]
  BY <1>1
<1>3. /\ n \in Nat /\ Len(w) = n + 0 + Len(inPipe)
      /\ \A i \in 1..Len(inPipe) : inPipe[i] = w[n + 0 + i]
      /\ Told(w, n, lines, s) /\ Settled(w, n, partial, cr)
  BY DEF Flows
<1>4. Len(inPipe) \in Nat /\ k \in Nat
  OBVIOUS
<1>5. Len(w) = n + Len(d) + Len(q)
  BY <1>2, <1>3, <1>4
<1>6. ASSUME NEW i \in 1..Len(d) PROVE d[i] = w[n + i]
  <2>1. i \in 1..k /\ i \in 1..Len(inPipe) /\ n + 0 + i = n + i
    BY <1>2, <1>3, <1>4
  <2> QED
    BY <1>2, <1>3, <2>1
<1>7. ASSUME NEW i \in 1..Len(q) PROVE q[i] = w[n + Len(d) + i]
  <2>1. i \in 1..Len(inPipe) - k /\ k + i \in 1..Len(inPipe) /\ n + 0 + (k + i) = n + Len(d) + i
    BY <1>2, <1>3, <1>4
  <2> QED
    BY <1>2, <1>3, <2>1
<1>8. Flows(w, n, d, q, lines, s, partial, cr)
  BY <1>3, <1>5, <1>6, <1>7 DEF Flows
<1> QED
  BY <1>1, <1>8

LEMMA FlowsCount ==
    ASSUME NEW w \in Seq(Chars), NEW data \in Seq(Chars), NEW inPipe \in Seq(Chars),
           NEW n, NEW lines, NEW s, NEW partial, NEW cr, Flows(w, n, data, inPipe, lines, s, partial, cr)
    PROVE  n = Len(w) - Len(inPipe) - Len(data)
<1>1. n \in Nat /\ Len(w) = n + Len(data) + Len(inPipe)
  BY DEF Flows
<1>2. Len(w) \in Nat /\ Len(data) \in Nat /\ Len(inPipe) \in Nat
  OBVIOUS
<1> QED
  BY <1>1, <1>2

LEMMA FlowsAppends ==
    ASSUME NEW w \in Seq(Chars), NEW data \in Seq(Chars), NEW inPipe \in Seq(Chars), NEW n,
           NEW s \in Streams, open[s].partial \in Texts, open[s].cr \in BOOLEAN,
           Flows(w, n, data, inPipe, completed, s, open[s].partial, open[s].cr),
           Kept(buffer, completed), NEW t, t # s, NEW v, NEW k \in Nat, Told(v, k, completed, t)
    PROVE  \E st \in LoopStates :
              /\ AppendData(s, data) = {st}
              /\ Kept(st.buffer, st.lines) /\ Told(v, k, st.lines, t)
              /\ Flows(w, n + Len(data), <<>>, inPipe, st.lines, s, st.partial, st.cr)
<1>1. /\ n \in Nat /\ Len(w) = n + Len(data) + Len(inPipe)
      /\ \A i \in 1..Len(data) : data[i] = w[n + i]
      /\ \A i \in 1..Len(inPipe) : inPipe[i] = w[n + Len(data) + i]
      /\ Told(w, n, completed, s)
      /\ Settled(w, n, open[s].partial, open[s].cr)
  BY DEF Flows
<1>2. Len(w) \in Nat /\ Len(data) \in Nat /\ Len(inPipe) \in Nat
  OBVIOUS
<1>3. PICK m \in Nat : m = n + Len(data)
  BY <1>1, <1>2
<1>4. n \in 0..Len(w) /\ n + Len(data) <= Len(w)
  BY <1>1, <1>2
<1>5. buffer \in Buffers /\ completed \in Seq(Lines)
  BY DEF Kept
<1>6. PICK partial \in Texts, cr \in BOOLEAN : partial = open[s].partial /\ cr = open[s].cr
  OBVIOUS
<1>7. Settled(w, n, partial, cr)
  BY <1>1, <1>6
<1>8. Underway(w, n, partial, cr)
  BY <1>4, <1>7, SettledUnderway
<1>9. Told(w, n, completed, s)
  BY <1>1
<1>10. Going(w, n, m, s, LoopState(buffer, completed, partial, cr))
  BY <1>5, <1>7, <1>8, <1>9, GoingBy
<1>11. Going(w, n, m, s, LoopState(buffer, completed, open[s].partial, open[s].cr))
  BY <1>6, <1>10
<1>12. \A i \in 1..Len(data) : data[i] = w[n + i]
  BY <1>1
<1>13. n \in Nat
  BY <1>1
<1>14. PICK st : AppendData(s, data) = {st} /\ Going(w, m, m, s, st) /\ Told(v, k, st.lines, t)
  <2>1. IsRead(w, n, data, m)
    BY <1>3, <1>4, <1>12, <1>13 DEF IsRead
  <2>2. PICK start : start = LoopState(buffer, completed, open[s].partial, open[s].cr)
    OBVIOUS
  <2>3. Going(w, n, m, s, start)
    BY <1>11, <2>2
  <2> QED
    BY <2>1, <2>2, <2>3, LoopGoes
<1>15. st \in LoopStates /\ Kept(st.buffer, st.lines) /\ Told(w, m, st.lines, s) /\ Settled(w, m, st.partial, st.cr)
  BY <1>14 DEF Going
<1>16. Len(w) = m + 0 + Len(inPipe) /\ \A i \in 1..Len(inPipe) : m + 0 + i = n + Len(data) + i
  BY <1>1, <1>2, <1>3
<1>17. \A i \in 1..Len(inPipe) : inPipe[i] = w[m + 0 + i]
  BY <1>1, <1>16
<1>18. Flows(w, m, <<>>, inPipe, st.lines, s, st.partial, st.cr)
  <2>1. PICK none : none = <<>>
    OBVIOUS
  <2>2. Len(none) = 0
    BY <2>1
  <2>3. \A i \in 1..0 : FALSE
    OBVIOUS
  <2>4. Flows(w, m, none, inPipe, st.lines, s, st.partial, st.cr)
    BY <1>15, <1>16, <1>17, <2>2, <2>3, Zenon DEF Flows
  <2> QED
    BY <2>1, <2>4
<1> QED
  BY <1>3, <1>14, <1>15, <1>18

LEMMA InvInit == Init => Inv
<1> SUFFICES ASSUME Init PROVE Inv
  OBVIOUS
<1>1. TypeOK
  BY LogAssumption DEF Init, TypeOK, Texts, Entries, Lines, Streams
<1>2. Threads
  BY DEF Init, Threads
<1>3. Kept(buffer, completed)
  <2>1. PICK none : none = <<>>
    OBVIOUS
  <2>2. none \in Seq(Lines) /\ none \in Seq(Entries) /\ Len(none) = 0
    BY <2>1
  <2>3. HasTexts(none)
    BY <2>2, SequencesHaveTexts
  <2>4. Sum(none, 0) = 0
    BY <2>3, SumIs
  <2>5. /\ completed = none /\ buffer.entries = none /\ buffer.next = 1 /\ buffer.retained = 0
        /\ buffer.dropped = 0 /\ buffer.droppedBytes = 0
    BY <2>1 DEF Init
  <2>6. buffer \in Buffers
    BY <1>1 DEF TypeOK, Buffers
  <2>7. Within(0, 0)
    BY LogAssumption DEF Within
  <2>8. buffer.retained = Sum(none, 0) - Sum(none, 0)
    BY <2>4, <2>5
  <2> QED
    BY <2>2, <2>4, <2>5, <2>6, <2>7, <2>8 DEF Kept
<1>4. ASSUME NEW s \in Streams PROVE StreamFlows(s)
  <2>1. PICK none : none = <<>>
    OBVIOUS
  <2>2. /\ program.written[s] = none /\ reader[s].data = none /\ pipe[s] = none /\ completed = none
        /\ open[s].partial = none /\ open[s].cr = FALSE
    BY <2>1 DEF Init
  <2>3. Len(none) = 0 /\ DOMAIN none = {} /\ \A i \in 1..0 : FALSE
    BY <2>1
  <2>4. Appended(s) = 0
    BY <2>2, <2>3 DEF Appended
  <2>5. Told(none, 0, none, s)
    <3>1. {i \in 1..0 : none[i] = LF} = {} /\ {k \in DOMAIN none : none[k].stream = s} = {}
      BY <2>3
    <3>2. PICK end : end = [k \in {} |-> k]
      OBVIOUS
    <3>3. end \in [{} -> {}]
      BY <3>2
    <3>4. EndedBy(none, none, {}, {})
      BY <3>3 DEF EndedBy
    <3> QED
      BY <3>1, <3>4 DEF Told
  <2>6. Settled(none, 0, none, FALSE)
    <3>1. LineUpTo(none, 0) = <<>>
      BY <2>1 DEF LineUpTo
    <3>2. LineBefore(none, 0 + 1) = LineUpTo(none, 0)
      BY LineBeforeIs
    <3> QED
      BY <2>1, <3>1, <3>2 DEF Settled
  <2> QED
    <3>1. 0 \in Nat /\ 0 = 0 + 0 + 0
      OBVIOUS
    <3>2. Flows(none, 0, none, none, none, s, none, FALSE)
      BY <2>3, <2>5, <2>6, <3>1, Zenon DEF Flows
    <3> QED
      BY <2>2, <2>4, <3>2 DEF StreamFlows
<1> QED
  BY <1>1, <1>2, <1>3, <1>4 DEF Inv

\* What the type invariant says of one stream.
LEMMA StreamTypes ==
    ASSUME TypeOK, NEW s \in Streams
    PROVE  /\ program.written[s] \in Seq(Chars) /\ pipe[s] \in Seq(Chars) /\ reader[s].data \in Seq(Chars)
           /\ reader[s].alive \in BOOLEAN /\ open[s].partial \in Texts /\ open[s].cr \in BOOLEAN
BY DEF TypeOK

\* A step that leaves the bytes and the buffer alone.
LEMMA InvByStatus ==
    ASSUME Inv, TypeOK', Threads', UNCHANGED <<pipe, buffer, open, completed>>,
           program'.written = program.written, \A s \in Streams : reader'[s].data = reader[s].data
    PROVE  Inv'
<1>1. Kept(buffer, completed)'
  BY DEF Inv
<1>2. ASSUME NEW s \in Streams PROVE StreamFlows(s)'
  <2>1. StreamFlows(s)
    BY DEF Inv
  <2> QED
    BY <2>1 DEF StreamFlows, Appended
<1> QED
  BY <1>1, <1>2 DEF Inv

LEMMA InvWrites == ASSUME Inv, NEW s \in Streams, NEW c \in Chars, ProgramWrites(s, c) PROVE Inv'
<1>0. TypeOK /\ Threads /\ Kept(buffer, completed) /\ \A t \in Streams : StreamFlows(t)
  BY DEF Inv
<1>1. TypeOK'
  <2>1. PICK x \in Seq(Chars), y \in Seq(Chars) : x = Append(program.written[s], c) /\ y = Append(pipe[s], c)
    <3>1. PICK u \in Seq(Chars), v \in Seq(Chars) : u = program.written[s] /\ v = pipe[s]
      BY <1>0, StreamTypes
    <3>2. Append(u, c) \in Seq(Chars) /\ Append(v, c) \in Seq(Chars)
      OBVIOUS
    <3> QED
      BY <3>1, <3>2
  <2>2. program' = [program EXCEPT !.written[s] = x] /\ pipe' = [pipe EXCEPT ![s] = y]
    BY <2>1 DEF ProgramWrites
  <2>3. /\ program' \in [state : {"running", "succeeded", "failed", "reaped"}, helper : BOOLEAN,
                          written : [Streams -> Seq(Chars)]]
        /\ pipe' \in [Streams -> Seq(Chars)] /\ program'.state = program.state
    BY <1>0, <2>2 DEF TypeOK
  <2> QED
    BY <1>0, <2>3 DEF ProgramWrites, TypeOK
<1>2. /\ program'.written[s] = Append(program.written[s], c) /\ pipe'[s] = Append(pipe[s], c)
      /\ \A t \in Streams : t # s => program'.written[t] = program.written[t] /\ pipe'[t] = pipe[t]
      /\ program'.state = program.state /\ program'.helper = program.helper
      /\ reader' = reader /\ buffer' = buffer /\ open' = open /\ session' = session /\ completed' = completed
  BY <1>0 DEF ProgramWrites, TypeOK
<1>3. Threads'
  BY <1>0, <1>2 DEF Threads, ProgramWrites, HasWriter
<1>4. Kept(buffer, completed)'
  BY <1>0, <1>2
<1>5. StreamFlows(s)'
  <2>1. PICK w \in Seq(Chars), d \in Seq(Chars), q \in Seq(Chars) :
          w = program.written[s] /\ d = reader[s].data /\ q = pipe[s]
    BY <1>0, StreamTypes
  <2>2. PICK n, partial, cr : n = Appended(s) /\ partial = open[s].partial /\ cr = open[s].cr
    OBVIOUS
  <2>3. Flows(w, n, d, q, completed, s, partial, cr)
    BY <1>0, <2>1, <2>2 DEF StreamFlows
  <2>4. Flows(Append(w, c), n, d, Append(q, c), completed, s, partial, cr)
    BY <2>3, FlowsWrites
  <2>5. Append(w, c) \in Seq(Chars) /\ Append(q, c) \in Seq(Chars)
    OBVIOUS
  <2>6. n = Len(Append(w, c)) - Len(Append(q, c)) - Len(d)
    BY <2>4, <2>5, FlowsCount
  <2>7. Appended(s)' = n
    BY <1>2, <2>1, <2>6 DEF Appended
  <2> QED
    BY <1>2, <2>1, <2>2, <2>4, <2>7 DEF StreamFlows
<1>6. ASSUME NEW t \in Streams, t # s PROVE StreamFlows(t)'
  BY <1>0, <1>2, <1>6 DEF StreamFlows, Appended
<1> QED
  BY <1>1, <1>3, <1>4, <1>5, <1>6 DEF Inv

LEMMA InvReads == ASSUME Inv, NEW s \in Streams, ReaderReads(s) PROVE Inv'
<1>0. TypeOK /\ Threads /\ Kept(buffer, completed) /\ \A t \in Streams : StreamFlows(t)
  BY DEF Inv
<1>1. PICK w \in Seq(Chars), q \in Seq(Chars) : w = program.written[s] /\ q = pipe[s]
  BY <1>0, StreamTypes
<1>2. PICK k : k = Min({Len(q), MaxRead})
  OBVIOUS
<1>3. k \in 0..Len(q) /\ k <= MaxRead
  <2>1. Len(q) \in Nat /\ MaxRead \in Nat
    BY LogAssumption
  <2>2. k = IF Len(q) <= MaxRead THEN Len(q) ELSE MaxRead
    BY <1>2, <2>1, MinOfTwo
  <2> QED
    BY <2>1, <2>2
<1>4. PICK d \in Seq(Chars), r \in Seq(Chars) :
        d = SubSeq(q, 1, k) /\ r = SubSeq(q, k + 1, Len(q)) /\ Len(d) = k
  <2>1. PICK d, r : d = SubSeq(q, 1, k) /\ r = SubSeq(q, k + 1, Len(q))
    OBVIOUS
  <2>2. d \in Seq(Chars) /\ r \in Seq(Chars) /\ Len(d) = k
    BY <1>3, <2>1
  <2> QED
    BY <2>1, <2>2
<1>5. /\ reader[s].alive /\ reader[s].data = <<>>
      /\ reader' = [reader EXCEPT ![s].data = d] /\ pipe' = [pipe EXCEPT ![s] = r]
      /\ program' = program /\ buffer' = buffer /\ open' = open /\ session' = session /\ completed' = completed
  BY <1>1, <1>2, <1>4 DEF ReaderReads
<1>6. /\ reader'[s].data = d /\ pipe'[s] = r /\ reader'[s].alive = reader[s].alive
      /\ \A t \in Streams : t # s => reader'[t] = reader[t] /\ pipe'[t] = pipe[t]
  BY <1>0, <1>5 DEF TypeOK
<1>7. TypeOK'
  <2>1. reader' \in [Streams -> [alive : BOOLEAN, data : Seq(Chars)]] /\ pipe' \in [Streams -> Seq(Chars)]
    BY <1>0, <1>5, ZenonT(60) DEF TypeOK
  <2>2. \A t \in Streams : Len(reader'[t].data) <= MaxRead
    <3>1. Len(reader'[s].data) <= MaxRead
      BY <1>3, <1>4, <1>6
    <3>2. \A t \in Streams : t # s => Len(reader'[t].data) <= MaxRead
      BY <1>0, <1>6 DEF TypeOK
    <3> QED
      BY <3>1, <3>2
  <2> QED
    BY <1>0, <1>5, <2>1, <2>2 DEF TypeOK
<1>8. Threads'
  BY <1>0, <1>5, <1>6 DEF Threads, HasWriter
<1>9. Kept(buffer, completed)'
  BY <1>0, <1>5
<1>10. StreamFlows(s)'
  <2>1. PICK n, partial, cr : n = Appended(s) /\ partial = open[s].partial /\ cr = open[s].cr
    OBVIOUS
  <2>2. Flows(w, n, <<>>, q, completed, s, partial, cr)
    BY <1>0, <1>1, <1>5, <2>1 DEF StreamFlows
  <2>3. Flows(w, n, d, r, completed, s, partial, cr)
    BY <1>3, <1>4, <2>2, FlowsReads
  <2>4. n = Len(w) - Len(r) - Len(d)
    BY <2>3, FlowsCount
  <2>5. Appended(s)' = n
    BY <1>1, <1>5, <1>6, <2>4 DEF Appended
  <2> QED
    BY <1>1, <1>5, <1>6, <2>1, <2>3, <2>5 DEF StreamFlows
<1>11. ASSUME NEW t \in Streams, t # s PROVE StreamFlows(t)'
  BY <1>0, <1>5, <1>6, <1>11 DEF StreamFlows, Appended
<1> QED
  BY <1>7, <1>8, <1>9, <1>10, <1>11 DEF Inv

LEMMA InvAppends == ASSUME Inv, NEW s \in Streams, ReaderAppends(s) PROVE Inv'
<1>0. TypeOK /\ Threads /\ Kept(buffer, completed) /\ \A t \in Streams : StreamFlows(t)
  BY DEF Inv
<1>1. PICK t \in Streams : t # s /\ \A x \in Streams : x = s \/ x = t
  BY DEF Streams
<1>2. PICK w \in Seq(Chars), d \in Seq(Chars), q \in Seq(Chars), n \in Nat :
        w = program.written[s] /\ d = reader[s].data /\ q = pipe[s] /\ n = Appended(s)
  <2>1. Appended(s) \in Nat
    BY <1>0 DEF StreamFlows, Flows
  <2> QED
    BY <1>0, <2>1, StreamTypes
<1>3. PICK v, k : v = program.written[t] /\ k = Appended(t)
  OBVIOUS
<1>4. Flows(w, n, d, q, completed, s, open[s].partial, open[s].cr)
  BY <1>0, <1>2 DEF StreamFlows
<1>5. Flows(v, k, reader[t].data, pipe[t], completed, t, open[t].partial, open[t].cr)
  BY <1>0, <1>3 DEF StreamFlows
<1>6. k \in Nat /\ Told(v, k, completed, t) /\ n \in Nat
  BY <1>4, <1>5 DEF Flows
<1>7. open[s].partial \in Texts /\ open[s].cr \in BOOLEAN
  BY <1>0, StreamTypes
<1>8. PICK st \in LoopStates :
        /\ AppendData(s, d) = {st}
        /\ Kept(st.buffer, st.lines) /\ Told(v, k, st.lines, t)
        /\ Flows(w, n + Len(d), <<>>, q, st.lines, s, st.partial, st.cr)
  BY <1>0, <1>1, <1>4, <1>6, <1>7, FlowsAppends
<1>9. /\ buffer' = st.buffer /\ completed' = st.lines
      /\ open' = [open EXCEPT ![s] = [partial |-> st.partial, cr |-> st.cr]]
      /\ reader' = [reader EXCEPT ![s].data = <<>>]
      /\ program' = program /\ pipe' = pipe /\ session' = session
  <2>1. PICK x \in AppendData(s, d) :
          /\ buffer' = x.buffer /\ completed' = x.lines
          /\ open' = [open EXCEPT ![s] = [partial |-> x.partial, cr |-> x.cr]]
    BY <1>2 DEF ReaderAppends
  <2>2. x = st
    BY <1>8, <2>1
  <2> QED
    BY <2>1, <2>2 DEF ReaderAppends
<1>10. st.buffer \in Buffers /\ st.lines \in Seq(Lines) /\ st.partial \in Texts /\ st.cr \in BOOLEAN
  BY DEF LoopStates
<1>11. /\ open'[s].partial = st.partial /\ open'[s].cr = st.cr /\ open'[t] = open[t]
       /\ reader'[s].data = <<>> /\ reader'[s].alive = reader[s].alive /\ reader'[t] = reader[t]
  BY <1>0, <1>1, <1>9 DEF TypeOK
<1>12. TypeOK'
  <2>1. open' \in [Streams -> [partial : Texts, cr : BOOLEAN]]
    BY <1>0, <1>9, <1>10 DEF TypeOK
  <2>2. reader' \in [Streams -> [alive : BOOLEAN, data : Seq(Chars)]]
    <3>1. PICK none \in Seq(Chars) : none = <<>>
      <4>1. <<>> \in Seq(Chars)
        OBVIOUS
      <4> QED
        BY <4>1
    <3>2. reader' = [reader EXCEPT ![s].data = none]
      BY <1>9, <3>1
    <3> QED
      BY <1>0, <3>2, ZenonT(60) DEF TypeOK
  <2>3. Len(reader'[s].data) <= MaxRead /\ Len(reader'[t].data) <= MaxRead
    <3>1. Len(reader[t].data) <= MaxRead /\ MaxRead \in Nat
      BY <1>0, LogAssumption DEF TypeOK
    <3> QED
      BY <1>11, <3>1
  <2>4. \A x \in Streams : Len(reader'[x].data) <= MaxRead
    BY <1>1, <2>3
  <2>5. buffer' \in Buffers /\ completed' \in Seq(Lines)
    BY <1>9, <1>10
  <2> QED
    BY <1>0, <1>9, <2>1, <2>2, <2>4, <2>5 DEF TypeOK, Buffers
<1>13. Threads'
  <2>1. \A x \in Streams : (reader'[x].alive <=> reader[x].alive) /\ (reader[x].data = <<>> => reader'[x].data = <<>>)
    BY <1>1, <1>11
  <2> QED
    BY <1>0, <1>9, <2>1 DEF Threads, HasWriter
<1>14. Kept(buffer, completed)'
  BY <1>8, <1>9
<1>15. StreamFlows(s)'
  <2>1. <<>> \in Seq(Chars)
    OBVIOUS
  <2>2. PICK m : m = n + Len(d)
    OBVIOUS
  <2>3. Flows(w, m, <<>>, q, st.lines, s, st.partial, st.cr)
    BY <1>8, <2>2
  <2>4. m = Len(w) - Len(q) - Len(<<>>)
    BY <2>1, <2>3, FlowsCount
  <2>5. Appended(s)' = m
    BY <1>2, <1>9, <1>11, <2>4 DEF Appended
  <2> QED
    BY <1>2, <1>9, <1>11, <2>3, <2>5 DEF StreamFlows
<1>16. StreamFlows(t)'
  <2>1. Appended(t)' = k
    BY <1>3, <1>9, <1>11 DEF Appended
  <2>2. Flows(v, k, reader[t].data, pipe[t], st.lines, t, open[t].partial, open[t].cr)
    BY <1>5, <1>8 DEF Flows
  <2> QED
    BY <1>3, <1>9, <1>11, <2>1, <2>2 DEF StreamFlows
<1> QED
  BY <1>1, <1>12, <1>13, <1>14, <1>15, <1>16 DEF Inv

LEMMA InvNext == Inv /\ [Next]_vars => Inv'
<1> SUFFICES ASSUME Inv, [Next]_vars PROVE Inv'
  OBVIOUS
<1>0. TypeOK /\ Threads
  BY DEF Inv
<1>1. ASSUME NEW s \in Streams, NEW c \in Chars, ProgramWrites(s, c) PROVE Inv'
  BY <1>1, InvWrites
<1>2. ASSUME NEW s \in Streams, ReaderReads(s) PROVE Inv'
  BY <1>2, InvReads
<1>3. ASSUME NEW s \in Streams, ReaderAppends(s) PROVE Inv'
  BY <1>3, InvAppends
<1>4. ASSUME NEW s \in Streams, ReaderEnds(s) PROVE Inv'
  <2>1. /\ reader'[s].alive = FALSE /\ \A t \in Streams : reader'[t].data = reader[t].data
        /\ \A t \in Streams : t # s => reader'[t].alive = reader[t].alive
        /\ reader[s].data = <<>> /\ pipe[s] = <<>> /\ ~HasWriter
        /\ UNCHANGED <<program, pipe, buffer, open, session, completed>>
    BY <1>0, <1>4 DEF ReaderEnds, TypeOK
  <2>2. reader' \in [Streams -> [alive : BOOLEAN, data : Seq(Chars)]]
    BY <1>0, <1>4, ZenonT(60) DEF ReaderEnds, TypeOK
  <2>3. TypeOK'
    BY <1>0, <2>1, <2>2 DEF TypeOK
  <2>4. Threads'
    BY <1>0, <2>1 DEF Threads, HasWriter
  <2> QED
    BY <2>1, <2>3, <2>4, InvByStatus
<1>5. CASE HelperStarts \/ HelperEnds \/ \E how \in {"succeeded", "failed"} : ProgramEnds(how)
  <2>1. /\ program'.written = program.written
        /\ UNCHANGED <<pipe, reader, buffer, open, session, completed>>
    BY <1>0, <1>5 DEF HelperStarts, HelperEnds, ProgramEnds, TypeOK
  <2>2. TypeOK'
    BY <1>0, <1>5, ZenonT(60) DEF HelperStarts, HelperEnds, ProgramEnds, TypeOK
  <2>3. HasWriter' => HasWriter
    BY <1>0, <1>5 DEF HelperStarts, HelperEnds, ProgramEnds, TypeOK, HasWriter
  <2>4. Threads'
    BY <1>0, <2>1, <2>3 DEF Threads
  <2> QED
    BY <2>1, <2>2, <2>4, InvByStatus
<1>6. CASE PollExit \/ Terminate
  <2>1. /\ program'.written = program.written /\ session'.status = session.status
        /\ UNCHANGED <<pipe, reader, buffer, open, completed>>
    BY <1>0, <1>6 DEF PollExit, Terminate, TypeOK
  <2>2. TypeOK'
    BY <1>0, <1>6, ZenonT(60) DEF PollExit, Terminate, TypeOK
  <2>3. HasWriter' => HasWriter
    BY <1>0, <1>6, ZenonT(60) DEF PollExit, Terminate, TypeOK, HasWriter
  <2>4. Threads'
    BY <1>0, <2>1, <2>3 DEF Threads
  <2> QED
    BY <2>1, <2>2, <2>4, InvByStatus
<1>7. CASE JoinReaders
  <2>1. UNCHANGED <<program, pipe, reader, buffer, open, completed>> /\ \A s \in Streams : ~reader[s].alive
    BY <1>7 DEF JoinReaders
  <2>2. TypeOK'
    BY <1>0, <1>7 DEF JoinReaders, TypeOK
  <2>3. Threads'
    BY <1>0, <2>1 DEF Threads, HasWriter
  <2> QED
    BY <2>1, <2>2, <2>3, InvByStatus
<1>8. CASE UNCHANGED vars
  <2>1. UNCHANGED <<program, pipe, reader, buffer, open, session, completed>>
    BY <1>8 DEF vars
  <2>2. TypeOK' /\ Threads'
    BY <1>0, <2>1 DEF TypeOK, Threads, HasWriter
  <2> QED
    BY <2>1, <2>2, InvByStatus
<1> QED
  BY <1>1, <1>2, <1>3, <1>4, <1>5, <1>6, <1>7, <1>8 DEF Next

LEMMA Invariance == Spec => []Inv
BY InvInit, InvNext, PTL DEF Spec
-------------------------------------------------------------------------------
(* The properties *)

\* Type correctness, of every action and for any bounds.
THEOREM TypeCorrect == Spec => []TypeOK
<1>1. Inv => TypeOK
  BY DEF Inv
<1> QED
  BY <1>1, Invariance, PTL

\* When PollSession or StopSession has set the final status, all that the program wrote to
\* both pipes is in the LogBuffer: the join comes after the end of both readers, and a reader
\* ends only at the end of its pipe, with nothing left in its hands.
THEOREM NothingIsLost == Spec => []NothingLost
<1>1. ASSUME Inv PROVE NothingLost
  <2> SUFFICES ASSUME session.status # "Running", NEW s \in Streams PROVE Appended(s) = Len(program.written[s])
    BY DEF NothingLost
  <2>1. pipe[s] = <<>> /\ reader[s].data = <<>>
    BY <1>1 DEF Inv, Threads
  <2>2. program.written[s] \in Seq(Chars)
    BY <1>1, StreamTypes DEF Inv
  <2>3. Len(pipe[s]) = 0 /\ Len(reader[s].data) = 0 /\ Len(program.written[s]) \in Nat
    BY <2>1, <2>2
  <2> QED
    BY <2>3 DEF Appended
<1> QED
  BY <1>1, Invariance, PTL

\* LogBuffer makes the same lines of the bytes of a stream however the reads cut them, at a
\* carriage return before its newline too, and whatever the other stream does in between:
\* for any size of a read, any limits and any number of bytes.
THEOREM LinesAreAsWritten == Spec => []LinesAsWritten
<1>1. ASSUME Inv PROVE LinesAsWritten
  <2>1. ASSUME NEW s \in Streams
        PROVE  /\ Told(program.written[s], Appended(s), completed, s)
               /\ open[s].partial = LineBefore(program.written[s], Appended(s) + 1)
    BY <1>1 DEF Inv, StreamFlows, Flows, Settled
  <2> QED
    BY <2>1, Zenon DEF LinesAsWritten, Told, EndedBy
<1> QED
  BY <1>1, Invariance, PTL

\* EvictIfNeeded drops from the front what does not fit and no more, and the counters,
\* revisions and byte counts of LogBuffer agree with what is there: for any limits.
THEOREM RetentionHolds == Spec => []Retention
<1>1. ASSUME Inv PROVE Retention
  <2>1. Kept(buffer, completed)
    BY <1>1 DEF Inv
  <2>2. PICK es \in Seq(Entries), lines \in Seq(Lines), d \in Nat, k \in Nat, L \in Nat :
          /\ es = buffer.entries /\ lines = completed /\ d = buffer.dropped
          /\ k = Len(es) /\ L = Len(lines) /\ d + k = L
    <3>1. /\ buffer.entries \in Seq(Entries) /\ completed \in Seq(Lines) /\ buffer.dropped \in Nat
          /\ buffer.dropped + Len(buffer.entries) = Len(completed)
      BY <2>1 DEF Kept, Buffers
    <3>2. Len(buffer.entries) \in Nat /\ Len(completed) \in Nat
      BY <3>1
    <3> QED
      BY <3>1, <3>2, Zenon
  <2>3. d + k = L /\ L - k = d
    BY <2>2
  <2>4. /\ buffer.next = L + 1
        /\ \A i \in 1..k : /\ es[i].revision = d + i
                           /\ es[i].stream = lines[d + i].stream /\ es[i].text = lines[d + i].text
        /\ buffer.retained = Sum(lines, L) - Sum(lines, d) /\ buffer.droppedBytes = Sum(lines, d)
        /\ Within(k, buffer.retained)
        /\ d > 0 => ~Within(k + 1, Sum(lines, L) - Sum(lines, d - 1))
    BY <2>1, <2>2 DEF Kept
  <2>5. HasTexts(es) /\ HasTexts(lines)
    BY SequencesHaveTexts
  <2>6. PICK all \in Nat, sd \in Nat : all = Sum(lines, L) /\ sd = Sum(lines, d) /\ TotalBytes(lines) = all
    <3>1. L \in 0..Len(lines) /\ d \in 0..Len(lines) /\ Len(lines) = L
      BY <2>2, <2>3
    <3> QED
      BY <2>5, <3>1, SumIs
  <2>7. TotalBytes(es) = all - sd
    <3>1. k = Len(es) /\ L = Len(lines)
      BY <2>2
    <3>2. d + Len(es) <= Len(lines) /\ d + Len(es) = L
      BY <2>3, <3>1
    <3>3. \A i \in 1..Len(es) : es[i].text = lines[d + i].text
      BY <2>4, <3>1
    <3> QED
      BY <2>5, <2>6, <3>2, <3>3, SumOfPart
  <2>8. buffer.retained = TotalBytes(es) /\ buffer.droppedBytes = TotalBytes(lines) - buffer.retained
    BY <2>4, <2>6, <2>7
  <2>9. Fits(es)
    BY <2>2, <2>4, <2>8 DEF Fits, Within
  <2>10. ASSUME d > 0 PROVE ~Fits(SubSeq(lines, L - (k + 1) + 1, L))
    <3>1. PICK m \in Nat : m = d - 1
      BY <2>10
    <3>2. L - (k + 1) + 1 = m + 1 /\ m <= L /\ L - m = k + 1 /\ m + (k + 1) = L
      BY <2>3, <3>1
    <3>3. PICK part : part = SubSeq(lines, m + 1, L)
      OBVIOUS
    <3>4. L = Len(lines)
      BY <2>2
    <3>5. part \in Seq(Lines) /\ Len(part) = k + 1 /\ \A i \in 1..k + 1 : part[i] = lines[m + i]
      <4>1. PICK n \in Nat : n = k + 1 /\ L = m + n /\ L \in Nat
        BY <3>1, <3>2
      <4>2. L <= Len(lines)
        BY <3>4, <4>1
      <4>3. IsPart(part, Lines, lines, m, n)
        BY <3>3, <4>1, <4>2, PartIs
      <4> QED
        BY <4>1, <4>3 DEF IsPart
    <3>6. HasTexts(part)
      BY <3>5, SequencesHaveTexts
    <3>7. m + Len(part) <= Len(lines) /\ m + Len(part) = L
      BY <3>2, <3>4, <3>5
    <3>8. TotalBytes(part) = Sum(lines, L) - Sum(lines, m)
      BY <2>5, <3>5, <3>6, <3>7, SumOfPart, ZenonT(60)
    <3>9. ~Within(k + 1, Sum(lines, L) - Sum(lines, m))
      BY <2>4, <2>10, <3>1
    <3>10. ~Fits(part)
      BY <3>5, <3>8, <3>9 DEF Fits, Within
    <3> QED
      BY <3>2, <3>3, <3>10
  <2>11. ASSUME NEW i \in DOMAIN es
         PROVE  es[i].revision = d + i /\ [stream |-> es[i].stream, text |-> es[i].text] = lines[d + i]
    <3>1. i \in 1..k
      BY <2>2
    <3>2. d + i \in 1..L /\ L = Len(lines)
      BY <2>2, <2>3, <3>1, SMTT(60)
    <3>3. lines[d + i] \in Lines
      BY <3>2
    <3>4. PICK l \in Lines : l = lines[d + i]
      BY <3>3
    <3>5. l = [stream |-> l.stream, text |-> l.text]
      BY DEF Lines
    <3>6. es[i].revision = d + i /\ es[i].stream = l.stream /\ es[i].text = l.text
      BY <2>4, <3>1, <3>4
    <3> QED
      BY <3>4, <3>5, <3>6
  <2>12. PICK back : back = SubSeq(lines, L - (k + 1) + 1, L)
    OBVIOUS
  <2>13. d > 0 => ~Fits(back)
    BY <2>10, <2>12
  <2>14. /\ Len(buffer.entries) = k /\ Len(completed) = L /\ Len(completed) - Len(buffer.entries) = d
         /\ SubSeq(completed, Len(completed) - (Len(buffer.entries) + 1) + 1, Len(completed)) = back
    BY <2>2, <2>3, <2>12
  <2> QED
    BY <2>2, <2>4, <2>8, <2>9, <2>11, <2>13, <2>14, ZenonT(60) DEF Retention
<1> QED
  BY <1>1, Invariance, PTL
-------------------------------------------------------------------------------
(* Queries *)

\* The first entry is the one after the d that were dropped, and there are k of them.
Numbered(es, d, k) ==
    /\ es \in Seq(Entries) /\ d \in Nat /\ k \in Nat /\ k = Len(es)
    /\ \A i \in 1..k : es[i].revision = d + i

LEMMA EntriesNumbered ==
    ASSUME Kept(buffer, completed), NEW k, k = Len(buffer.entries), NEW d, d = buffer.dropped
    PROVE  /\ Numbered(buffer.entries, d, k) /\ buffer.next = d + k + 1
           /\ OldestRevision = d + 1 /\ LatestRevision = d + k
<1>1. /\ buffer.entries \in Seq(Entries) /\ d \in Nat /\ d + k = Len(completed) /\ buffer.next = Len(completed) + 1
      /\ \A i \in 1..k : buffer.entries[i].revision = d + i
  BY DEF Kept, Buffers
<1>2. PICK es \in Seq(Entries) : es = buffer.entries
  BY <1>1
<1>3. k \in Nat /\ k = Len(es)
  BY <1>2
<1>4. Numbered(buffer.entries, d, k)
  BY <1>1, <1>2, <1>3 DEF Numbered
<1>5. buffer.next = d + k + 1
  BY <1>1
<1>6. OldestRevision = d + 1 /\ LatestRevision = d + k
  <2>1. CASE k = 0
    <3>1. es = <<>>
      BY <1>3, <2>1, EmptySeq
    <3> QED
      BY <1>1, <1>2, <1>3, <1>5, <2>1, <3>1 DEF OldestRevision, LatestRevision
  <2>2. CASE k # 0
    <3>1. es # <<>> /\ Head(es) = es[1] /\ Last(es) = es[k] /\ 1 \in 1..k /\ k \in 1..k
      BY <1>3, <2>2 DEF Last
    <3>2. es[1].revision = d + 1 /\ es[k].revision = d + k
      BY <1>1, <1>2, <3>1
    <3> QED
      BY <1>2, <3>1, <3>2 DEF OldestRevision, LatestRevision
  <2> QED
    BY <2>1, <2>2
<1> QED
  BY <1>4, <1>5, <1>6

\* A part of the entries that is the answer to a query.
LEMMA PartListed ==
    ASSUME NEW d, NEW k, Numbered(buffer.entries, d, k), NEW x \in Nat, NEW y \in Nat, x <= y, y <= k,
           NEW from \in Int, NEW to \in Int, NEW limit \in Nat,
           x < y => from <= d + x + 1 /\ d + y <= to,
           y - x <= limit,
           \A j \in 1..k : from <= d + j /\ d + j <= to /\ j \notin x + 1..y => y - x = limit /\ y < j
    PROVE  Lists(SubSeq(buffer.entries, x + 1, y), from, to, limit)
<1>0. PICK es : es = buffer.entries
  OBVIOUS
<1>1. es \in Seq(Entries) /\ d \in Nat /\ k \in Nat /\ k = Len(es) /\ \A i \in 1..k : es[i].revision = d + i
  BY <1>0 DEF Numbered
<1>2. PICK a : a = SubSeq(es, x + 1, y)
  OBVIOUS
<1>3. a \in Seq(Entries) /\ Len(a) = y - x /\ \A i \in 1..y - x : a[i] = es[x + i]
  BY <1>1, <1>2, PartOf
<1>n. d \in Nat /\ k \in Nat
  BY <1>1
<1>4. DOMAIN a = 1..y - x /\ DOMAIN es = 1..k
  BY <1>1, <1>3
<1>5. ASSUME NEW i \in 1..y - x
      PROVE  /\ x + i \in 1..k /\ a[i] = es[x + i] /\ a[i].revision = d + (x + i)
             /\ from <= d + (x + i) /\ d + (x + i) <= to
  <2>1. x + i \in 1..k /\ x < y
    BY <1>n
  <2>2. from <= d + (x + i) /\ d + (x + i) <= to
    BY <1>n, <2>1
  <2> QED
    BY <1>1, <1>3, <2>1, <2>2
<1> DEFINE wanted == {e \in ToSet(es) : from <= e.revision /\ e.revision <= to}
<1>6. ToSet(a) \subseteq wanted
  BY <1>4, <1>5 DEF ToSet
<1>7. \A i, j \in DOMAIN a : i < j => a[i].revision < a[j].revision
  <2> SUFFICES ASSUME NEW i \in 1..y - x, NEW j \in 1..y - x, i < j PROVE a[i].revision < a[j].revision
    BY <1>4
  <2>1. a[i].revision = d + (x + i) /\ a[j].revision = d + (x + j)
    BY <1>5
  <2> QED
    BY <1>n, <2>1
<1>8. Len(a) <= limit
  BY <1>3
<1>9. ASSUME NEW e \in wanted, e \notin ToSet(a)
      PROVE  Len(a) = limit /\ \A i \in DOMAIN a : a[i].revision < e.revision
  <2>1. PICK j \in 1..k : e = es[j]
    BY <1>4 DEF ToSet
  <2>2. e.revision = d + j /\ from <= d + j /\ d + j <= to
    BY <1>1, <1>9, <2>1
  <2>3. j \notin x + 1..y
    <3> SUFFICES ASSUME j \in x + 1..y PROVE FALSE
      OBVIOUS
    <3>1. j - x \in 1..y - x /\ x + (j - x) = j
      OBVIOUS
    <3>2. a[j - x] = e
      BY <1>5, <2>1, <3>1
    <3> QED
      BY <1>4, <1>9, <3>1, <3>2 DEF ToSet
  <2>4. y - x = limit /\ y < j
    BY <2>2, <2>3
  <2>5. ASSUME NEW i \in 1..y - x PROVE a[i].revision < e.revision
    <3>1. a[i].revision = d + (x + i)
      BY <1>5
    <3> QED
      BY <1>n, <2>2, <2>4, <3>1
  <2> QED
    BY <1>3, <1>4, <2>4, <2>5
<1>10. Lists(a, from, to, limit)
  BY <1>0, <1>6, <1>7, <1>8, <1>9 DEF Lists
<1> QED
  BY <1>0, <1>2, <1>10

LEMMA NothingListed ==
    ASSUME NEW d, NEW k, Numbered(buffer.entries, d, k), NEW from \in Int, NEW to \in Int, NEW limit \in Nat,
           limit = 0 \/ k = 0 \/ to < from \/ to <= d \/ from > d + k
    PROVE  Lists(<<>>, from, to, limit)
<1>1. d \in Nat /\ k \in Nat
  BY DEF Numbered
<1>2. ASSUME NEW j \in 1..k, from <= d + j /\ d + j <= to /\ j \notin 0 + 1..0 PROVE 0 - 0 = limit /\ 0 < j
  BY <1>1, <1>2
<1>3. Lists(SubSeq(buffer.entries, 0 + 1, 0), from, to, limit)
  <2>1. PICK z \in Nat : z = 0
    OBVIOUS
  <2>2. /\ z <= z /\ z <= k /\ ~(z < z) /\ z - z <= limit
        /\ \A j \in 1..k : from <= d + j /\ d + j <= to /\ j \notin z + 1..z => z - z = limit /\ z < j
    BY <1>1, <1>2, <2>1
  <2>3. Lists(SubSeq(buffer.entries, z + 1, z), from, to, limit)
    BY <2>2, PartListed
  <2> QED
    BY <2>1, <2>3
<1>4. SubSeq(buffer.entries, 0 + 1, 0) = <<>>
  BY DEF Numbered
<1> QED
  BY <1>3, <1>4

LEMMA RangeListed ==
    ASSUME Kept(buffer, completed), NEW from \in Nat, NEW to \in Nat, NEW limit \in Nat
    PROVE  Lists(Range_(from, to, limit), from, to, limit)
<1>1. PICK es, d, k : es = buffer.entries /\ d = buffer.dropped /\ k = Len(es)
  OBVIOUS
<1>2. Numbered(buffer.entries, d, k) /\ OldestRevision = d + 1 /\ LatestRevision = d + k
  BY <1>1, EntriesNumbered
<1>3. d \in Nat /\ k \in Nat
  BY <1>2 DEF Numbered
<1>4. es = <<>> <=> k = 0
  BY <1>1, <1>2, EmptySeq DEF Numbered
<1>5. CASE limit = 0 \/ from > to \/ k = 0 \/ to < d + 1 \/ from > d + k
  <2>1. Range_(from, to, limit) = <<>>
    BY <1>1, <1>2, <1>4, <1>5 DEF Range_
  <2>2. limit = 0 \/ k = 0 \/ to < from \/ to <= d \/ from > d + k
    BY <1>3, <1>5
  <2> QED
    BY <1>2, <2>1, <2>2, NothingListed
<1>6. CASE ~(limit = 0 \/ from > to \/ k = 0 \/ to < d + 1 \/ from > d + k)
  <2>1. PICK x \in Nat, z \in Nat, y \in Nat :
          /\ x = Max({from, d + 1}) - (d + 1) /\ z = Min({to, d + k}) - (d + 1)
          /\ y = x + Min({limit, z - x + 1})
          /\ x = IF from >= d + 1 THEN from - (d + 1) ELSE 0
          /\ z = IF to <= d + k THEN to - (d + 1) ELSE k - 1
          /\ y = IF limit <= z - x + 1 THEN x + limit ELSE z + 1
    <3>1. PICK x, z : x = Max({from, d + 1}) - (d + 1) /\ z = Min({to, d + k}) - (d + 1)
      OBVIOUS
    <3>2. Max({from, d + 1}) = IF from >= d + 1 THEN from ELSE d + 1
      BY <1>3, MaxOfTwo
    <3>3. Min({to, d + k}) = IF to <= d + k THEN to ELSE d + k
      BY <1>3, MinOfTwo
    <3>4. /\ x = IF from >= d + 1 THEN from - (d + 1) ELSE 0
          /\ z = IF to <= d + k THEN to - (d + 1) ELSE k - 1
      BY <1>3, <3>1, <3>2, <3>3
    <3>5. x \in Nat /\ z \in Nat /\ x <= z
      BY <1>3, <1>6, <3>4
    <3>6. PICK y : y = x + Min({limit, z - x + 1})
      OBVIOUS
    <3>7. Min({limit, z - x + 1}) = IF limit <= z - x + 1 THEN limit ELSE z - x + 1
      BY <3>5, MinOfTwo
    <3>8. y = IF limit <= z - x + 1 THEN x + limit ELSE z + 1
      BY <3>5, <3>6, <3>7
    <3>9. y \in Nat
      BY <3>5, <3>8
    <3> QED
      BY <3>1, <3>4, <3>5, <3>6, <3>8, <3>9
  <2>2. Range_(from, to, limit) = SubSeq(buffer.entries, x + 1, y)
    BY <1>1, <1>2, <1>4, <1>6, <2>1 DEF Range_
  <2>n. /\ x = IF from >= d + 1 THEN from - (d + 1) ELSE 0
        /\ z = IF to <= d + k THEN to - (d + 1) ELSE k - 1
        /\ y = IF limit <= z - x + 1 THEN x + limit ELSE z + 1
    BY <2>1
  <2>3. x <= y /\ y <= k /\ y - x <= limit
    BY <1>3, <1>6, <2>n
  <2>4. x < y => from <= d + x + 1 /\ d + y <= to
    BY <1>3, <1>6, <2>n
  <2>5. ASSUME NEW j \in 1..k, from <= d + j, d + j <= to, j \notin x + 1..y PROVE y - x = limit /\ y < j
    BY <1>3, <1>6, <2>n, <2>5
  <2> QED
    BY <1>2, <2>2, <2>3, <2>4, <2>5, PartListed, SMTT(60)
<1> QED
  BY <1>5, <1>6

LEMMA ContextListed ==
    ASSUME Kept(buffer, completed), NEW r \in Nat, NEW before \in Nat, NEW after \in Nat
    PROVE  /\ ContextExhausted(r) <=> r \notin (buffer.dropped + 1)..(buffer.next - 1)
           /\ ~ContextExhausted(r) =>
                 Lists(Context(r, before, after), r - before, r + after, Len(buffer.entries))
<1>1. PICK es, d, k : es = buffer.entries /\ d = buffer.dropped /\ k = Len(es)
  OBVIOUS
<1>2. /\ Numbered(buffer.entries, d, k) /\ OldestRevision = d + 1 /\ LatestRevision = d + k
      /\ buffer.next = d + k + 1
  BY <1>1, EntriesNumbered
<1>3. d \in Nat /\ k \in Nat
  BY <1>2 DEF Numbered
<1>4. es = <<>> <=> k = 0
  BY <1>1, <1>2, EmptySeq DEF Numbered
<1>5. ContextExhausted(r) <=> ~(k # 0 /\ d + 1 <= r /\ r <= d + k)
  BY <1>1, <1>2, <1>4 DEF ContextExhausted, ContainsRevision
<1>6. buffer.next - 1 = d + k /\ buffer.dropped = d
  BY <1>1, <1>2, <1>3
<1>7. ContextExhausted(r) <=> r \notin (buffer.dropped + 1)..(buffer.next - 1)
  <2>1. r \in (d + 1)..(d + k) <=> (k # 0 /\ d + 1 <= r /\ r <= d + k)
    BY <1>3
  <2> QED
    BY <1>5, <1>6, <2>1
<1>8. ASSUME ~ContextExhausted(r)
      PROVE  Lists(Context(r, before, after), r - before, r + after, Len(buffer.entries))
  <2>1. d + 1 <= r /\ r <= d + k
    BY <1>5, <1>8
  <2>2. PICK x, y : /\ x = Max({0, (r - (d + 1)) - before}) /\ y = Min({k, (r - (d + 1)) + after + 1})
    OBVIOUS
  <2>3. /\ x = IF 0 >= (r - (d + 1)) - before THEN 0 ELSE (r - (d + 1)) - before
        /\ y = IF k <= (r - (d + 1)) + after + 1 THEN k ELSE (r - (d + 1)) + after + 1
    BY <1>3, <2>2, MinOfTwo, MaxOfTwo
  <2>4. x \in Nat /\ y \in Nat /\ x <= y /\ y <= k /\ y - x <= k
    BY <1>3, <2>1, <2>3
  <2>5. Context(r, before, after) = SubSeq(buffer.entries, x + 1, y)
    BY <1>1, <1>2, <2>2 DEF Context
  <2>6. x < y => r - before <= d + x + 1 /\ d + y <= r + after
    BY <1>3, <2>1, <2>3
  <2>7. ASSUME NEW j \in 1..k, r - before <= d + j, d + j <= r + after, j \notin x + 1..y PROVE y - x = k /\ y < j
    BY <1>3, <2>1, <2>3, <2>4, <2>7
  <2>8. r - before \in Int /\ r + after \in Int
    OBVIOUS
  <2>9. Lists(SubSeq(buffer.entries, x + 1, y), r - before, r + after, k)
    BY <1>2, <1>3, <2>4, <2>6, <2>7, <2>8, PartListed
  <2> QED
    BY <1>1, <2>5, <2>9
<1> QED
  BY <1>7, <1>8

LEMMA ReverseIs ==
    ASSUME NEW S, NEW u \in Seq(S)
    PROVE  /\ Reverse(u) \in Seq(S) /\ Len(Reverse(u)) = Len(u)
           /\ \A i \in 1..Len(u) : Reverse(u)[i] = u[(Len(u) - i) + 1]
<1>0. PICK m \in Nat : m = Len(u)
  OBVIOUS
<1>1. PICK r : r = Reverse(u)
  OBVIOUS
<1>2. r = [i \in 1..m |-> u[(m - i) + 1]]
  BY <1>0, <1>1 DEF Reverse
<1>3. \A i \in 1..m : (m - i) + 1 \in 1..m
  OBVIOUS
<1>4. \A i \in 1..m : u[(m - i) + 1] \in S
  BY <1>0, <1>3, ElementOfSeq
<1>5. \A i \in 1..m : r[i] = u[(m - i) + 1]
  BY <1>2
<1>6. \A i \in 1..m : r[i] \in S
  BY <1>4, <1>5
<1>7. r = [i \in 1..m |-> r[i]]
  BY <1>2, <1>5
<1>8. r \in [1..m -> S]
  BY <1>6, <1>7
<1>9. r \in Seq(S) /\ Len(r) = m
  BY <1>8
<1> QED
  BY <1>0, <1>1, <1>5, <1>9

LEMMA SuffixBy ==
    ASSUME NEW S, NEW u \in Seq(S), NEW v \in Seq(S), Len(u) <= Len(v),
           \A i \in 1..Len(u) : u[i] = v[(Len(v) - Len(u)) + i]
    PROVE  IsSuffix(u, v)
<1>1. PICK m \in Nat, n \in Nat : m = Len(u) /\ n = Len(v) /\ m <= n
  OBVIOUS
<1>0. m <= n
  BY <1>1
<1>2. PICK ru, rv : ru = Reverse(u) /\ rv = Reverse(v)
  OBVIOUS
<1>3. /\ ru \in Seq(S) /\ Len(ru) = m /\ \A i \in 1..m : ru[i] = u[(m - i) + 1]
      /\ rv \in Seq(S) /\ Len(rv) = n /\ \A i \in 1..n : rv[i] = v[(n - i) + 1]
  <2>1. /\ Reverse(u) \in Seq(S) /\ Len(Reverse(u)) = Len(u)
        /\ \A i \in 1..Len(u) : Reverse(u)[i] = u[(Len(u) - i) + 1]
    BY ReverseIs, Zenon
  <2>2. /\ Reverse(v) \in Seq(S) /\ Len(Reverse(v)) = Len(v)
        /\ \A i \in 1..Len(v) : Reverse(v)[i] = v[(Len(v) - i) + 1]
    BY ReverseIs, Zenon
  <2>3. ru \in Seq(S) /\ Len(ru) = m /\ \A i \in 1..m : ru[i] = u[(m - i) + 1]
    BY <1>1, <1>2, <2>1, Zenon
  <2>4. rv \in Seq(S) /\ Len(rv) = n /\ \A i \in 1..n : rv[i] = v[(n - i) + 1]
    BY <1>1, <1>2, <2>2, Zenon
  <2> QED
    BY <2>3, <2>4
<1>4. ASSUME NEW i \in 1..m PROVE ru[i] = rv[i]
  <2>1. i \in 1..n /\ (m - i) + 1 \in 1..m /\ (n - m) + ((m - i) + 1) = (n - i) + 1
    BY <1>0
  <2>2. u[(m - i) + 1] = v[(n - m) + ((m - i) + 1)]
    BY <1>1, <2>1
  <2> QED
    BY <1>3, <2>1, <2>2
<1>5. PICK pu, pv : pu = SubSeq(ru, 1, m) /\ pv = SubSeq(rv, 1, m)
  OBVIOUS
<1>6. pu \in Seq(S) /\ pv \in Seq(S) /\ Len(pu) = m /\ Len(pv) = m /\ \A i \in 1..m : pu[i] = ru[i] /\ pv[i] = rv[i]
  BY <1>1, <1>3, <1>5
<1>7. pu = pv
  <2>1. Len(pu) = Len(pv) /\ \A i \in 1..Len(pu) : pu[i] = pv[i]
    BY <1>4, <1>6
  <2> QED
    BY <1>6, <2>1, SeqEqual
<1> QED
  BY <1>1, <1>2, <1>3, <1>5, <1>7 DEF IsSuffix, IsPrefix

LEMMA PartialsAre ==
    ASSUME Kept(buffer, completed), TypeOK
    PROVE  Partials \in Seq(Entries) /\ Len(Partials) \in 0..2
<1> DEFINE part(s) == IF open[s].partial = <<>> THEN <<>>
                      ELSE <<[revision |-> buffer.next, stream |-> s, text |-> open[s].partial]>>
<1>1. ASSUME NEW s \in Streams PROVE part(s) \in Seq(Entries) /\ Len(part(s)) \in 0..1
  <2>1. open[s].partial \in Texts /\ buffer.next \in Nat \ {0}
    BY StreamTypes DEF TypeOK
  <2>2. PICK e \in Entries : e = [revision |-> buffer.next, stream |-> s, text |-> open[s].partial]
    BY <2>1 DEF Entries
  <2>3. <<e>> \in Seq(Entries) /\ Len(<<e>>) = 1
    OBVIOUS
  <2>4. <<>> \in Seq(Entries) /\ Len(<<>>) = 0
    OBVIOUS
  <2>5. part(s) = <<>> \/ part(s) = <<e>>
    BY <2>2
  <2> QED
    BY <2>3, <2>4, <2>5
<1>2. PICK p, q : p = part("stdout") /\ q = part("stderr")
  OBVIOUS
<1>3. p \in Seq(Entries) /\ q \in Seq(Entries) /\ Len(p) \in 0..1 /\ Len(q) \in 0..1
  BY <1>1, <1>2 DEF Streams
<1>4. p \o q \in Seq(Entries) /\ Len(p \o q) = Len(p) + Len(q)
  BY <1>3
<1>5. Partials = p \o q
  BY <1>2, Zenon DEF Partials
<1> QED
  BY <1>3, <1>4, <1>5

LEMMA TailIs ==
    ASSUME Kept(buffer, completed), TypeOK, NEW n \in 0..2
    PROVE  /\ IsSuffix(Tail_(n), buffer.entries \o Partials) \/ (n = 1 /\ Tail_(n) = SubSeq(Partials, 1, 1))
           /\ Len(Tail_(n)) = Min({n, Len(buffer.entries) + Len(Partials)})
<1>1. PICK es \in Seq(Entries), ps \in Seq(Entries), k \in Nat, p \in 0..2 :
        es = buffer.entries /\ ps = Partials /\ k = Len(es) /\ p = Len(ps)
  <2>1. buffer.entries \in Seq(Entries) /\ Len(buffer.entries) \in Nat
    BY DEF Kept, Buffers
  <2> QED
    BY <2>1, PartialsAre
<1>2. PICK l, h : l = Min({k, Max({0, n - p})}) /\ h = Min({p, n - l})
  OBVIOUS
<1>3. l = IF n <= p THEN 0 ELSE IF k <= n - p THEN k ELSE n - p
  <2>1. Max({0, n - p}) = IF n <= p THEN 0 ELSE n - p
    BY MaxOfTwo
  <2>2. PICK x \in Nat : x = Max({0, n - p}) /\ x = IF n <= p THEN 0 ELSE n - p
    BY <2>1
  <2>3. l = Min({k, x})
    BY <1>2, <2>2
  <2>4. l = IF k <= x THEN k ELSE x
    BY <2>3, MinOfTwo
  <2> QED
    BY <2>2, <2>4
<1>4. h = IF n <= p THEN n ELSE p
  <2>0. l \in Nat
    BY <1>3
  <2>1. PICK y \in Int : y = n - l
    BY <2>0
  <2>2. h = Min({p, y})
    BY <1>2, <2>1
  <2>3. h = IF p <= y THEN p ELSE y
    BY <2>2, MinOfTwo
  <2> QED
    BY <1>3, <2>1, <2>3
<1>5. l \in Nat /\ h \in Nat /\ l <= k /\ h <= p
  BY <1>3, <1>4
<1>6. PICK a, b : a = SubSeq(es, k - l + 1, k) /\ b = SubSeq(ps, 1, h)
  OBVIOUS
<1>7. a \in Seq(Entries) /\ Len(a) = l /\ \A i \in 1..l : a[i] = es[(k - l) + i]
  <2>1. k - l \in Nat /\ k - l <= k /\ k <= Len(es) /\ k - (k - l) = l
    BY <1>1, <1>5
  <2> QED
    BY <1>6, <2>1, PartOf, SMTT(60)
<1>8. b \in Seq(Entries) /\ Len(b) = h /\ \A i \in 1..h : b[i] = ps[i]
  <2>1. h <= Len(ps)
    BY <1>1, <1>5
  <2> QED
    BY <1>5, <1>6, <2>1, SMTT(60)
<1>9. Tail_(n) = a \o b
  BY <1>1, <1>2, <1>6 DEF Tail_
<1>10. PICK t, all : t = a \o b /\ all = es \o ps
  OBVIOUS
<1>11. /\ t \in Seq(Entries) /\ Len(t) = l + h
       /\ \A i \in 1..l + h : t[i] = IF i <= l THEN a[i] ELSE b[i - l]
  <2>1. a \in Seq(Entries) /\ b \in Seq(Entries) /\ Len(a) = l /\ Len(b) = h
    BY <1>7, <1>8
  <2> QED
    BY <1>10, <2>1, ConcatProperties
<1>12. /\ all \in Seq(Entries) /\ Len(all) = k + p
       /\ \A i \in 1..k + p : all[i] = IF i <= k THEN es[i] ELSE ps[i - k]
  BY <1>1, <1>10
<1>13. Len(t) = Min({n, k + p})
  <2>1. Min({n, k + p}) = IF n <= k + p THEN n ELSE k + p
    BY MinOfTwo
  <2> QED
    BY <1>3, <1>4, <1>11, <2>1
<1>14. CASE n >= p
  <2>1. h = p
    BY <1>4, <1>14
  <2>2. ASSUME NEW i \in 1..l + h PROVE t[i] = all[((k + p) - (l + h)) + i]
    <3>1. PICK j \in 1..k + p : j = ((k + p) - (l + h)) + i /\ j = (k - l) + i
      <4>1. ((k + p) - (l + h)) + i \in 1..k + p /\ ((k + p) - (l + h)) + i = (k - l) + i
        BY <1>5, <2>1
      <4> QED
        BY <4>1
    <3>2. CASE i <= l
      <4>1. i \in 1..l /\ j <= k
        BY <1>5, <3>1, <3>2
      <4>2. t[i] = a[i] /\ all[j] = es[j] /\ a[i] = es[(k - l) + i]
        BY <1>7, <1>11, <1>12, <3>2, <4>1
      <4> QED
        BY <3>1, <4>2
    <3>3. CASE ~(i <= l)
      <4>1. i - l \in 1..h /\ ~(j <= k) /\ j - k = i - l
        BY <1>5, <3>1, <3>3
      <4>2. t[i] = b[i - l] /\ all[j] = ps[j - k] /\ b[i - l] = ps[i - l]
        BY <1>8, <1>11, <1>12, <3>3, <4>1
      <4> QED
        BY <3>1, <4>1, <4>2
    <3> QED
      BY <3>2, <3>3
  <2>3. Len(t) = l + h /\ Len(all) = k + p /\ l + h <= k + p
    BY <1>5, <1>11, <1>12
  <2>4. Len(t) <= Len(all) /\ \A i \in 1..Len(t) : t[i] = all[(Len(all) - Len(t)) + i]
    BY <2>2, <2>3
  <2>5. IsSuffix(t, all)
    BY <1>11, <1>12, <2>4, SuffixBy
  <2> QED
    BY <1>1, <1>9, <1>10, <1>13, <2>5
<1>15. CASE ~(n >= p)
  <2>1. l = 0 /\ h = n /\ (n = 0 \/ n = 1)
    BY <1>3, <1>4, <1>15
  <2>2. CASE n = 0
    <3>1. Len(t) = 0 /\ Len(all) = k + p /\ 0 <= k + p /\ \A i \in 1..0 : FALSE
      BY <1>11, <1>12, <2>1, <2>2
    <3>2. Len(t) <= Len(all) /\ \A i \in 1..Len(t) : t[i] = all[(Len(all) - Len(t)) + i]
      BY <3>1
    <3>3. IsSuffix(t, all)
      BY <1>11, <1>12, <3>2, SuffixBy
    <3> QED
      BY <1>1, <1>9, <1>10, <1>13, <3>3
  <2>3. CASE n = 1
    <3>1. b = SubSeq(ps, 1, 1) /\ Len(a) = 0
      BY <1>6, <1>7, <2>1, <2>3
    <3>2. a = <<>>
      BY <1>7, <3>1, EmptySeq
    <3>3. t = b
      BY <1>8, <1>10, <3>2
    <3> QED
      BY <1>1, <1>9, <1>10, <1>13, <2>3, <3>1, <3>3
  <2> QED
    BY <2>1, <2>2, <2>3
<1> QED
  BY <1>14, <1>15

\* The queries of LogBuffer, which compute indices from revisions, answer what they should:
\* whatever has been evicted, for any limits and any program.
THEOREM QueriesAnswer == Spec => []QueriesOK
<1>1. ASSUME Inv PROVE QueriesOK
  <2>0. Kept(buffer, completed) /\ TypeOK
    BY <1>1 DEF Inv
  <2>1. PICK k, d : k = Len(buffer.entries) /\ d = buffer.dropped
    OBVIOUS
  <2>2. /\ Numbered(buffer.entries, d, k) /\ buffer.next = d + k + 1 /\ OldestRevision = d + 1
    BY <2>0, <2>1, EntriesNumbered
  <2>3. d \in Nat /\ k \in Nat
    BY <2>2 DEF Numbered
  <2>4. buffer.next \in Nat /\ 0..2 \subseteq Nat /\ 0..(buffer.next + 1) \subseteq Nat
    BY <2>2, <2>3
  <2> SUFFICES ASSUME NEW n \in 0..2, NEW r \in 0..(buffer.next + 1)
        PROVE  /\ \A to \in 0..(buffer.next + 1) : Lists(Range_(r, to, n), r, to, n)
               /\ ContextExhausted(r) <=> r \notin (buffer.dropped + 1)..(buffer.next - 1)
               /\ ~ContextExhausted(r) =>
                     \A after \in 0..2 : Lists(Context(r, n, after), r - n, r + after, Len(buffer.entries))
               /\ IsSuffix(Tail_(n), buffer.entries \o Partials) \/ (n = 1 /\ Tail_(n) = SubSeq(Partials, 1, 1))
               /\ Len(Tail_(n)) = Min({n, Len(buffer.entries) + Len(Partials)})
               /\ \A to \in r..(buffer.next + 1) :
                     r > 0 => (RangeTruncated(r) <=> \E lost \in r..to : lost <= buffer.dropped)
    BY Zenon DEF QueriesOK
  <2>5. n \in Nat /\ r \in Nat
    BY <2>4
  <2>6. \A to \in 0..(buffer.next + 1) : Lists(Range_(r, to, n), r, to, n)
    BY <2>0, <2>4, <2>5, RangeListed
  <2>7. /\ ContextExhausted(r) <=> r \notin (buffer.dropped + 1)..(buffer.next - 1)
        /\ ~ContextExhausted(r) =>
              \A after \in 0..2 : Lists(Context(r, n, after), r - n, r + after, Len(buffer.entries))
    BY <2>0, <2>4, <2>5, ContextListed
  <2>8. /\ IsSuffix(Tail_(n), buffer.entries \o Partials) \/ (n = 1 /\ Tail_(n) = SubSeq(Partials, 1, 1))
        /\ Len(Tail_(n)) = Min({n, Len(buffer.entries) + Len(Partials)})
    BY <2>0, TailIs
  <2>9. ASSUME NEW to \in r..(buffer.next + 1), r > 0
        PROVE  RangeTruncated(r) <=> \E lost \in r..to : lost <= buffer.dropped
    <3>1. to \in Nat /\ r <= to
      BY <2>2, <2>3, <2>5
    <3>2. RangeTruncated(r) <=> r < d + 1 /\ d > 0
      BY <2>1, <2>2 DEF RangeTruncated
    <3>3. (\E lost \in r..to : lost <= d) <=> r <= d
      BY <2>3, <2>5, <3>1
    <3> QED
      BY <2>1, <2>3, <2>5, <2>9, <3>2, <3>3
  <2> QED
    BY <2>6, <2>7, <2>8, <2>9
<1> QED
  BY <1>1, Invariance, PTL

-------------------------------------------------------------------------------
(* The environment of a session *)

\* The two environments as one function.
LEMMA OverDef ==
    ASSUME NEW upper, NEW lower
    PROVE  Over(upper, lower) =
             [k \in DOMAIN upper \cup DOMAIN lower |-> IF k \in DOMAIN upper THEN upper[k] ELSE lower[k]]
<1>1. PICK f : f = [k \in DOMAIN upper \cup DOMAIN lower |-> IF k \in DOMAIN upper THEN upper[k] ELSE lower[k]]
  OBVIOUS
<1>2. PICK outer : outer = {v \in {upper} : v = v}
  OBVIOUS
<1>3. PICK inner : inner = {v \in {lower} : v = v}
  OBVIOUS
<1>4. outer = {upper} /\ inner = {lower}
  BY <1>2, <1>3
<1>5. Over(upper, lower) =
        CHOOSE y \in {CHOOSE z \in {[k \in DOMAIN u \cup DOMAIN l |-> IF k \in DOMAIN u THEN u[k] ELSE l[k]] : l \in inner} : TRUE :
                        u \in outer} : TRUE
  BY <1>2, <1>3 DEF Over, With
<1>6. \A u \in outer : {[k \in DOMAIN u \cup DOMAIN l |-> IF k \in DOMAIN u THEN u[k] ELSE l[k]] : l \in inner} = {f}
  BY <1>1, <1>4
<1>7. Over(upper, lower) = CHOOSE y \in {CHOOSE z \in {f} : TRUE : u \in {upper}} : TRUE
  BY <1>4, <1>5, <1>6
<1> QED
  BY <1>1, <1>7
-------------------------------------------------------------------------------
(* The lines of .env files *)

\* Line i is an assignment to k.
Sets(lines, k, i) == lines[i].valid /\ lines[i].key = k

\* x is the last of the lines 1..n that is an assignment to k, or 0.
IsLastLine(lines, k, n, x) ==
    /\ x \in 0..n
    /\ x # 0 => Sets(lines, k, x)
    /\ \A i \in 1..n : Sets(lines, k, i) => i <= x

LEMMA LastLineIs ==
    ASSUME NEW lines, NEW k, NEW n \in Nat
    PROVE  IsLastLine(lines, k, n, LastLine(lines, k, n))
<1>1. PICK found : found = {i \in 1..n : lines[i].valid /\ lines[i].key = k}
  OBVIOUS
<1>2. LastLine(lines, k, n) = IF found = {} THEN 0 ELSE Max(found)
  BY <1>1 DEF LastLine
<1>3. \A i \in 1..n : Sets(lines, k, i) <=> i \in found
  BY <1>1 DEF Sets
<1>4. CASE found = {}
  BY <1>2, <1>3, <1>4 DEF IsLastLine
<1>5. CASE found # {}
  <2>1. Max(found) \in found /\ \A y \in found : y <= Max(found)
    <3>1. found \in SUBSET (0..n)
      BY <1>1
    <3> QED
      BY <1>5, <3>1, GreatestNat
  <2>2. found \subseteq 1..n
    BY <1>1
  <2>3. PICK x \in found : x = Max(found) /\ \A y \in found : y <= x
    BY <2>1
  <2>4. x \in 1..n /\ x \in 0..n
    BY <2>2
  <2>5. Sets(lines, k, x) /\ \A i \in 1..n : Sets(lines, k, i) => i <= x
    BY <1>3, <2>3, <2>4
  <2>6. IsLastLine(lines, k, n, x)
    BY <2>4, <2>5 DEF IsLastLine
  <2> QED
    BY <1>2, <1>5, <2>3, <2>6
<1> QED
  BY <1>4, <1>5

LEMMA LastLineUnique ==
    ASSUME NEW lines, NEW k, NEW n \in Nat, NEW x, IsLastLine(lines, k, n, x)
    PROVE  LastLine(lines, k, n) = x
<1>1. PICK y : y = LastLine(lines, k, n)
  OBVIOUS
<1>2. IsLastLine(lines, k, n, y)
  BY <1>1, LastLineIs
<1>3. x \in 0..n /\ y \in 0..n /\ (x # 0 => x <= y) /\ (y # 0 => y <= x)
  BY <1>2 DEF IsLastLine
<1>4. x = y
  BY <1>3
<1> QED
  BY <1>1, <1>4

\* What a line stands for depends on its parts and on what they refer to.
LEMMA LineValueAgrees ==
    ASSUME NEW la, NEW na, NEW va, NEW ca, NEW lb, NEW nb, NEW vb, NEW cb, la[na] = lb[nb],
           \A k : Reference(la, na, va, ca, k) = Reference(lb, nb, vb, cb, k)
    PROVE  LineValue(la, na, va, ca) = LineValue(lb, nb, vb, cb)
<1>1. PICK line : line = la[na] /\ line = lb[nb]
  OBVIOUS
<1>2. PICK parts : parts = [i \in DOMAIN line.parts |->
        CASE ~line.parts[i].ref -> <<line.parts[i].text>>
          [] line.parts[i].ref /\ line.quote = "single" -> <<"$", line.parts[i].text>>
          [] line.parts[i].ref /\ line.quote # "single" -> Reference(la, na, va, ca, line.parts[i].text)]
  OBVIOUS
<1>3. parts = [i \in DOMAIN line.parts |->
        CASE ~line.parts[i].ref -> <<line.parts[i].text>>
          [] line.parts[i].ref /\ line.quote = "single" -> <<"$", line.parts[i].text>>
          [] line.parts[i].ref /\ line.quote # "single" -> Reference(lb, nb, vb, cb, line.parts[i].text)]
  BY <1>2
<1>4. LineValue(la, na, va, ca) = FlattenSeq(parts)
  BY <1>1, <1>2, Zenon DEF LineValue
<1>5. LineValue(lb, nb, vb, cb) = FlattenSeq(parts)
  BY <1>1, <1>3, Zenon DEF LineValue
<1> QED
  BY <1>4, <1>5, Zenon

\* A line refers to the lines before it only.
LEMMA LooksBack ==
    ASSUME NEW lines, NEW current, NEW n \in Nat \ {0}, NEW va, NEW vb, \A m \in 1..n - 1 : va[m] = vb[m]
    PROVE  LineValue(lines, n, va, current) = LineValue(lines, n, vb, current)
<1>1. ASSUME NEW k PROVE Reference(lines, n, va, current, k) = Reference(lines, n, vb, current, k)
  <2>1. PICK x : x = LastLine(lines, k, n - 1)
    OBVIOUS
  <2>2. n - 1 \in Nat
    OBVIOUS
  <2>3. x \in 0..n - 1
    BY <2>1, <2>2, LastLineIs DEF IsLastLine
  <2>4. x # 0 => va[x] = vb[x]
    BY <2>3
  <2> QED
    BY <2>1, <2>4, Zenon DEF Reference
<1>2. \A k : Reference(lines, n, va, current, k) = Reference(lines, n, vb, current, k)
  BY <1>1, Zenon
<1> QED
  BY <1>2, LineValueAgrees

\* The values of the first n lines, one from the other.
Values(value, lines, current, n) == [m \in 1..n |-> LineValue(lines, m, value, current)]

LEMMA ValuesExist ==
    ASSUME NEW lines, NEW current, NEW N \in Nat
    PROVE  \E f : f = Values(f, lines, current, N)
<1> DEFINE T == {n \in 0..N : \E f : f = Values(f, lines, current, n)}
<1>1. 0 \in T
  <2>1. PICK f : f = [m \in 1..0 |-> 0]
    OBVIOUS
  <2>2. f = Values(f, lines, current, 0)
    BY <2>1 DEF Values
  <2> QED
    BY <2>2
<1>2. ASSUME NEW n \in 0..N - 1, n \in T PROVE n + 1 \in T
  <2>1. PICK f : f = Values(f, lines, current, n)
    BY <1>2
  <2>2. PICK g : g = Values(f, lines, current, n + 1)
    OBVIOUS
  <2>3. ASSUME NEW m \in 1..n PROVE g[m] = f[m]
    <3>1. m \in 1..n + 1
      OBVIOUS
    <3>2. g[m] = LineValue(lines, m, f, current)
      BY <2>2, <3>1, Zenon DEF Values
    <3>3. f[m] = LineValue(lines, m, f, current)
      BY <2>1, Zenon DEF Values
    <3> QED
      BY <3>2, <3>3, Zenon
  <2>4. ASSUME NEW m \in 1..n + 1 PROVE LineValue(lines, m, f, current) = LineValue(lines, m, g, current)
    <3>1. m \in Nat \ {0} /\ 1..m - 1 \subseteq 1..n
      OBVIOUS
    <3>2. \A i \in 1..m - 1 : f[i] = g[i]
      BY <2>3, <3>1
    <3> QED
      BY <3>1, <3>2, LooksBack
  <2>5. g = Values(g, lines, current, n + 1)
    BY <2>2, <2>4 DEF Values
  <2>6. n + 1 \in 0..N
    OBVIOUS
  <2> QED
    BY <2>5, <2>6
<1> HIDE DEF T
<1>3. N \in T
  <2>1. \A i \in 0..N : i \in T
    BY <1>1, <1>2, SetInduction
  <2> QED
    BY <2>1
<1> QED
  BY <1>3 DEF T

LEMMA ParseEnvFileIs ==
    ASSUME NEW lines, NEW current, NEW N \in Nat, DOMAIN lines = 1..N, NEW v, v = ParseEnvFile(lines, current)
    PROVE  \A n \in 1..N : v[n] = LineValue(lines, n, v, current)
<1>1. v = CHOOSE f : f = [n \in 1..N |-> LineValue(lines, n, f, current)]
  BY Zenon DEF ParseEnvFile
<1>2. \E f : f = [n \in 1..N |-> LineValue(lines, n, f, current)]
  <2>1. PICK f : f = Values(f, lines, current, N)
    BY ValuesExist
  <2>2. f = [n \in 1..N |-> LineValue(lines, n, f, current)]
    BY <2>1, Zenon DEF Values
  <2> QED
    BY <2>2, Zenon
<1>3. v = [n \in 1..N |-> LineValue(lines, n, v, current)]
  BY <1>1, <1>2, Zenon
<1> QED
  BY <1>3, Zenon

\* The lines of a file of length N.
IsFile(lines, N) == N \in Nat /\ DOMAIN lines = 1..N /\ Len(lines) = N

\* The variables that a file sets are those that have a last line.
LEMMA AssignmentsAre ==
    ASSUME NEW lines, NEW N, IsFile(lines, N), NEW current,
           NEW v, v = ParseEnvFile(lines, current), NEW f, f = Assignments(lines, current)
    PROVE  /\ f = [k \in DOMAIN f |-> f[k]]
           /\ \A k : k \in DOMAIN f <=> LastLine(lines, k, N) # 0
           /\ \A k \in DOMAIN f : f[k] = v[LastLine(lines, k, N)]
<1>0. N \in Nat /\ DOMAIN lines = 1..N /\ Len(lines) = N
  BY DEF IsFile
<1>1. PICK keys : keys = {lines[i].key : i \in {i \in 1..N : lines[i].valid}}
  OBVIOUS
<1>2. f = [k \in keys |-> v[LastLine(lines, k, N)]]
  BY <1>0, <1>1, Zenon DEF Assignments
<1>3. ASSUME NEW k PROVE k \in keys <=> LastLine(lines, k, N) # 0
  <2>1. k \in keys <=> \E i \in 1..N : Sets(lines, k, i)
    BY <1>1 DEF Sets
  <2>2. PICK x : x = LastLine(lines, k, N)
    OBVIOUS
  <2>3. IsLastLine(lines, k, N, x)
    BY <1>0, <2>2, LastLineIs
  <2>4. x # 0 => x \in 1..N /\ Sets(lines, k, x)
    BY <1>0, <2>3 DEF IsLastLine
  <2>5. x = 0 => \A i \in 1..N : ~Sets(lines, k, i)
    BY <1>0, <2>3 DEF IsLastLine
  <2> QED
    BY <2>1, <2>2, <2>4, <2>5
<1>4. DOMAIN f = keys
  BY <1>2
<1> QED
  BY <1>2, <1>3, <1>4, Zenon

\* C is file A followed by file B.
Joined(A, a, B, b, C) ==
    /\ IsFile(A, a) /\ IsFile(B, b) /\ IsFile(C, a + b)
    /\ \A i \in 1..a : C[i] = A[i]
    /\ \A j \in 1..b : C[a + j] = B[j]

LEMMA LastInFirst ==
    ASSUME NEW A, NEW a, NEW B, NEW b, NEW C, Joined(A, a, B, b, C), NEW k, NEW n \in 0..a
    PROVE  LastLine(C, k, n) = LastLine(A, k, n)
<1>1. a \in Nat /\ n \in Nat /\ 1..n \subseteq 1..a
  BY DEF Joined, IsFile
<1>2. PICK x : x = LastLine(A, k, n)
  OBVIOUS
<1>3. IsLastLine(A, k, n, x)
  BY <1>1, <1>2, LastLineIs
<1>4. \A i \in 1..n : Sets(C, k, i) <=> Sets(A, k, i)
  BY <1>1 DEF Joined, Sets
<1>5. x # 0 => x \in 1..n
  BY <1>1, <1>3 DEF IsLastLine
<1>6. IsLastLine(C, k, n, x)
  BY <1>3, <1>4, <1>5 DEF IsLastLine
<1> QED
  BY <1>1, <1>2, <1>6, LastLineUnique

LEMMA LastInSecond ==
    ASSUME NEW A, NEW a, NEW B, NEW b, NEW C, Joined(A, a, B, b, C), NEW k, NEW m \in 0..b
    PROVE  LastLine(C, k, a + m) = IF LastLine(B, k, m) # 0 THEN a + LastLine(B, k, m) ELSE LastLine(A, k, a)
<1>1. a \in Nat /\ b \in Nat /\ m \in Nat /\ a + m \in Nat /\ 1..m \subseteq 1..b
  BY DEF Joined, IsFile
<1>2. PICK x, y : x = LastLine(A, k, a) /\ y = LastLine(B, k, m)
  OBVIOUS
<1>3. IsLastLine(A, k, a, x) /\ IsLastLine(B, k, m, y)
  BY <1>1, <1>2, LastLineIs
<1>4. \A i \in 1..a : Sets(C, k, i) <=> Sets(A, k, i)
  BY DEF Joined, Sets
<1>5. \A j \in 1..m : Sets(C, k, a + j) <=> Sets(B, k, j)
  BY <1>1 DEF Joined, Sets
<1>6. /\ x \in 0..a /\ (x # 0 => Sets(A, k, x)) /\ \A i \in 1..a : Sets(A, k, i) => i <= x
      /\ y \in 0..m /\ (y # 0 => Sets(B, k, y)) /\ \A j \in 1..m : Sets(B, k, j) => j <= y
  BY <1>3 DEF IsLastLine
<1>7. CASE y # 0
  <2>1. y \in 1..m /\ a + y \in 0..a + m /\ a + y # 0
    BY <1>1, <1>6, <1>7
  <2>2. Sets(C, k, a + y)
    BY <1>5, <1>6, <1>7, <2>1
  <2>3. ASSUME NEW i \in 1..a + m, Sets(C, k, i) PROVE i <= a + y
    <3>1. CASE i <= a
      BY <1>1, <2>1, <3>1
    <3>2. CASE i > a
      <4>1. PICK j \in 1..m : i = a + j
        <5>1. i - a \in 1..m /\ i = a + (i - a)
          BY <1>1, <3>2
        <5> QED
          BY <5>1
      <4>2. Sets(B, k, j)
        BY <1>5, <2>3, <4>1
      <4>3. j <= y
        BY <1>6, <4>2
      <4> QED
        BY <1>1, <2>1, <4>1, <4>3
    <3> QED
      BY <1>1, <3>1, <3>2
  <2>4. IsLastLine(C, k, a + m, a + y)
    BY <2>1, <2>2, <2>3 DEF IsLastLine
  <2>5. LastLine(C, k, a + m) = a + y
    BY <1>1, <2>4, LastLineUnique
  <2> QED
    BY <1>2, <1>7, <2>5
<1>8. CASE y = 0
  <2>1. x \in 0..a + m
    BY <1>1, <1>6
  <2>2. x # 0 => Sets(C, k, x)
    BY <1>1, <1>4, <1>6
  <2>3. ASSUME NEW i \in 1..a + m, Sets(C, k, i) PROVE i <= x
    <3>1. CASE i <= a
      <4>1. i \in 1..a
        BY <1>1, <3>1
      <4> QED
        BY <1>4, <1>6, <2>3, <4>1
    <3>2. CASE i > a
      <4>1. PICK j \in 1..m : i = a + j
        <5>1. i - a \in 1..m /\ i = a + (i - a)
          BY <1>1, <3>2
        <5> QED
          BY <5>1
      <4>2. Sets(B, k, j)
        BY <1>5, <2>3, <4>1
      <4>3. j <= 0
        BY <1>6, <1>8, <4>2
      <4> QED
        BY <4>3
    <3> QED
      BY <1>1, <3>1, <3>2
  <2>4. IsLastLine(C, k, a + m, x)
    BY <2>1, <2>2, <2>3 DEF IsLastLine
  <2>5. LastLine(C, k, a + m) = x
    BY <1>1, <2>4, LastLineUnique
  <2> QED
    BY <1>2, <1>8, <2>5
<1> QED
  BY <1>7, <1>8

LEMMA FirstValues ==
    ASSUME NEW A, NEW a, NEW B, NEW b, NEW C, Joined(A, a, B, b, C), NEW current,
           NEW v, v = ParseEnvFile(C, current), NEW va, va = ParseEnvFile(A, current)
    PROVE  \A n \in 1..a : v[n] = va[n]
<1>1. a \in Nat /\ b \in Nat /\ a + b \in Nat /\ DOMAIN A = 1..a /\ DOMAIN C = 1..a + b
  BY DEF Joined, IsFile
<1>2. \A n \in 1..a + b : v[n] = LineValue(C, n, v, current)
  BY <1>1, ParseEnvFileIs
<1>3. \A n \in 1..a : va[n] = LineValue(A, n, va, current)
  BY <1>1, ParseEnvFileIs
<1> DEFINE T == {n \in 0..a : \A i \in 1..n : v[i] = va[i]}
<1>4. 0 \in T
  BY <1>1
<1>5. ASSUME NEW n \in 0..a - 1, n \in T PROVE n + 1 \in T
  <2>1. n + 1 \in 1..a /\ n + 1 \in 1..a + b /\ n \in 0..a /\ (n + 1) - 1 = n /\ n \in Nat
    BY <1>1
  <2>2. \A i \in 1..n : v[i] = va[i]
    BY <1>5
  <2>3. ASSUME NEW k PROVE Reference(C, n + 1, v, current, k) = Reference(A, n + 1, va, current, k)
    <3>1. PICK x : x = LastLine(A, k, n)
      OBVIOUS
    <3>2. LastLine(C, k, n) = x
      BY <2>1, <3>1, LastInFirst
    <3>3. x \in 0..n
      BY <2>1, <3>1, LastLineIs DEF IsLastLine
    <3>4. x # 0 => v[x] = va[x]
      BY <2>1, <2>2, <3>3
    <3> QED
      BY <2>1, <3>1, <3>2, <3>4, Zenon DEF Reference
  <2>4. C[n + 1] = A[n + 1]
    BY <2>1 DEF Joined
  <2>5. \A k : Reference(C, n + 1, v, current, k) = Reference(A, n + 1, va, current, k)
    BY <2>3, Zenon
  <2>6. LineValue(C, n + 1, v, current) = LineValue(A, n + 1, va, current)
    BY <2>4, <2>5, LineValueAgrees
  <2>7. v[n + 1] = va[n + 1]
    BY <1>2, <1>3, <2>1, <2>6
  <2>8. \A i \in 1..n + 1 : v[i] = va[i]
    <3> SUFFICES ASSUME NEW i \in 1..n + 1 PROVE v[i] = va[i]
      OBVIOUS
    <3>1. i \in 1..n \/ i = n + 1
      BY <2>1
    <3> QED
      BY <2>2, <2>7, <3>1
  <2> QED
    BY <1>1, <2>1, <2>8
<1>6. a \in T
  <2> HIDE DEF T
  <2>1. \A i \in 0..a : i \in T
    BY <1>1, <1>4, <1>5, SetInduction
  <2> QED
    BY <1>1, <2>1
<1> QED
  BY <1>6

\* A reference in the second file leads to the first one through the environment that
\* the first one leaves.
LEMMA SecondValues ==
    ASSUME NEW A, NEW a, NEW B, NEW b, NEW C, Joined(A, a, B, b, C), NEW current,
           NEW v, v = ParseEnvFile(C, current), NEW f, f = Assignments(A, current),
           NEW w, w = ParseEnvFile(B, Over(f, current))
    PROVE  \A m \in 1..b : v[a + m] = w[m]
<1>1. a \in Nat /\ b \in Nat /\ a + b \in Nat /\ DOMAIN A = 1..a /\ DOMAIN B = 1..b /\ DOMAIN C = 1..a + b
  BY DEF Joined, IsFile
<1>2. \A n \in 1..a + b : v[n] = LineValue(C, n, v, current)
  BY <1>1, ParseEnvFileIs
<1>3. PICK next : next = Over(f, current)
  OBVIOUS
<1>4. \A n \in 1..b : w[n] = LineValue(B, n, w, next)
  BY <1>1, <1>3, ParseEnvFileIs
<1>5. PICK va : va = ParseEnvFile(A, current)
  OBVIOUS
<1>6. \A n \in 1..a : v[n] = va[n]
  BY <1>5, FirstValues
<1>7. /\ \A k : k \in DOMAIN f <=> LastLine(A, k, a) # 0
      /\ \A k \in DOMAIN f : f[k] = va[LastLine(A, k, a)]
  <2>1. IsFile(A, a)
    BY DEF Joined
  <2> QED
    BY <1>5, <2>1, AssignmentsAre
<1>8. /\ \A k : k \in DOMAIN next <=> k \in DOMAIN f \/ k \in DOMAIN current
      /\ \A k \in DOMAIN next : next[k] = IF k \in DOMAIN f THEN f[k] ELSE current[k]
  BY <1>3, OverDef
<1> DEFINE T == {m \in 0..b : \A i \in 1..m : v[a + i] = w[i]}
<1>9. 0 \in T
  BY <1>1
<1>10. ASSUME NEW m \in 0..b - 1, m \in T PROVE m + 1 \in T
  <2>1. /\ m + 1 \in 1..b /\ a + (m + 1) \in 1..a + b /\ m \in 0..b /\ (m + 1) - 1 = m /\ m \in Nat
        /\ (a + (m + 1)) - 1 = a + m
    BY <1>1
  <2>2. \A i \in 1..m : v[a + i] = w[i]
    BY <1>10
  <2>3. ASSUME NEW k PROVE Reference(C, a + (m + 1), v, current, k) = Reference(B, m + 1, w, next, k)
    <3>1. PICK x, y : x = LastLine(A, k, a) /\ y = LastLine(B, k, m)
      OBVIOUS
    <3>2. LastLine(C, k, a + m) = IF y # 0 THEN a + y ELSE x
      BY <2>1, <3>1, LastInSecond
    <3>3. x \in 0..a /\ y \in 0..m
      BY <1>1, <2>1, <3>1, LastLineIs DEF IsLastLine
    <3>4. PICK r : r = Reference(C, a + (m + 1), v, current, k)
      OBVIOUS
    <3>5. PICK q : q = Reference(B, m + 1, w, next, k)
      OBVIOUS
    <3>6. r = IF LastLine(C, k, a + m) # 0 THEN v[LastLine(C, k, a + m)]
              ELSE IF k \in DOMAIN current THEN current[k] ELSE <<>>
      BY <2>1, <3>4, Zenon DEF Reference
    <3>7. q = IF y # 0 THEN w[y] ELSE IF k \in DOMAIN next THEN next[k] ELSE <<>>
      BY <2>1, <3>1, <3>5, Zenon DEF Reference
    <3>8. CASE y # 0
      <4>0. a \in Nat /\ m \in Nat /\ y \in 0..m
        BY <1>1, <2>1, <3>3
      <4>1. y \in 1..m /\ a + y # 0
        BY <3>8, <4>0
      <4>2. r = v[a + y] /\ q = w[y]
        BY <3>2, <3>6, <3>7, <3>8, <4>1, Zenon
      <4>3. v[a + y] = w[y]
        BY <2>2, <4>1
      <4> QED
        BY <3>4, <3>5, <4>2, <4>3, Zenon
    <3>9. CASE y = 0 /\ x # 0
      <4>1. x \in 1..a
        BY <1>1, <3>3, <3>9
      <4>2. r = v[x]
        BY <3>2, <3>6, <3>9, Zenon
      <4>3. v[x] = va[x]
        BY <1>6, <4>1
      <4>4. k \in DOMAIN f /\ f[k] = va[x]
        BY <1>7, <3>1, <3>9, Zenon
      <4>5. q = f[k]
        BY <1>8, <3>7, <3>9, <4>4, Zenon
      <4> QED
        BY <3>4, <3>5, <4>2, <4>3, <4>4, <4>5, Zenon
    <3>10. CASE y = 0 /\ x = 0
      <4>1. k \notin DOMAIN f
        BY <1>7, <3>1, <3>10, Zenon
      <4>2. k \in DOMAIN next <=> k \in DOMAIN current
        BY <1>8, <4>1, Zenon
      <4>3. k \in DOMAIN current => next[k] = current[k]
        BY <1>8, <4>1, <4>2, Zenon
      <4>4. r = IF k \in DOMAIN current THEN current[k] ELSE <<>>
        BY <3>2, <3>6, <3>10, Zenon
      <4>5. q = IF k \in DOMAIN next THEN next[k] ELSE <<>>
        BY <3>7, <3>10, Zenon
      <4> QED
        BY <3>4, <3>5, <4>2, <4>3, <4>4, <4>5, Zenon
    <3> QED
      BY <3>8, <3>9, <3>10
  <2>4. C[a + (m + 1)] = B[m + 1]
    BY <2>1 DEF Joined
  <2>5. \A k : Reference(C, a + (m + 1), v, current, k) = Reference(B, m + 1, w, next, k)
    BY <2>3, Zenon
  <2>6. LineValue(C, a + (m + 1), v, current) = LineValue(B, m + 1, w, next)
    BY <2>4, <2>5, LineValueAgrees
  <2>7. v[a + (m + 1)] = w[m + 1]
    BY <1>2, <1>4, <2>1, <2>6
  <2>8. \A i \in 1..m + 1 : v[a + i] = w[i]
    <3> SUFFICES ASSUME NEW i \in 1..m + 1 PROVE v[a + i] = w[i]
      OBVIOUS
    <3>1. i \in 1..m \/ i = m + 1
      BY <2>1
    <3> QED
      BY <2>2, <2>7, <3>1
  <2> QED
    BY <1>1, <2>1, <2>8
<1>11. b \in T
  <2> HIDE DEF T
  <2>1. \A i \in 0..b : i \in T
    BY <1>1, <1>9, <1>10, SetInduction
  <2> QED
    BY <1>1, <2>1
<1> QED
  BY <1>11

\* Loading two files in turn is loading them as one.
LEMMA JoinedAssignments ==
    ASSUME NEW A, NEW a, NEW B, NEW b, NEW C, Joined(A, a, B, b, C), NEW current,
           NEW f, f = Assignments(A, current)
    PROVE  Assignments(C, current) = Over(Assignments(B, Over(f, current)), f)
<1>1. PICK g, h : g = Assignments(B, Over(f, current)) /\ h = Assignments(C, current)
  OBVIOUS
<1>2. PICK va, w, v : /\ va = ParseEnvFile(A, current) /\ w = ParseEnvFile(B, Over(f, current))
                      /\ v = ParseEnvFile(C, current)
  OBVIOUS
<1>3. IsFile(A, a) /\ IsFile(B, b) /\ IsFile(C, a + b) /\ a \in Nat /\ b \in Nat
  BY DEF Joined, IsFile
<1>4. /\ \A k : k \in DOMAIN f <=> LastLine(A, k, a) # 0
      /\ \A k \in DOMAIN f : f[k] = va[LastLine(A, k, a)]
  BY <1>2, <1>3, AssignmentsAre
<1>5. /\ \A k : k \in DOMAIN g <=> LastLine(B, k, b) # 0
      /\ \A k \in DOMAIN g : g[k] = w[LastLine(B, k, b)]
  BY <1>1, <1>2, <1>3, AssignmentsAre
<1>6. /\ h = [k \in DOMAIN h |-> h[k]]
      /\ \A k : k \in DOMAIN h <=> LastLine(C, k, a + b) # 0
      /\ \A k \in DOMAIN h : h[k] = v[LastLine(C, k, a + b)]
  BY <1>1, <1>2, <1>3, AssignmentsAre
<1>7. (\A n \in 1..a : v[n] = va[n]) /\ (\A m \in 1..b : v[a + m] = w[m])
  BY <1>2, FirstValues, SecondValues
<1>8. ASSUME NEW k
      PROVE  /\ k \in DOMAIN h <=> k \in DOMAIN g \/ k \in DOMAIN f
             /\ k \in DOMAIN h => h[k] = IF k \in DOMAIN g THEN g[k] ELSE f[k]
  <2>1. PICK x, y, z : x = LastLine(A, k, a) /\ y = LastLine(B, k, b) /\ z = LastLine(C, k, a + b)
    OBVIOUS
  <2>2. z = IF y # 0 THEN a + y ELSE x
    <3>1. b \in 0..b
      BY <1>3
    <3> QED
      BY <2>1, <3>1, LastInSecond
  <2>3. x \in 0..a /\ y \in 0..b
    BY <1>3, <2>1, LastLineIs DEF IsLastLine
  <2>4. CASE y # 0
    <3>1. y \in 1..b /\ a + y # 0
      BY <1>3, <2>3, <2>4
    <3>2. z = a + y /\ z # 0
      BY <2>2, <2>4, <3>1, Zenon
    <3>3. v[z] = w[y]
      BY <1>7, <3>1, <3>2, Zenon
    <3>4. k \in DOMAIN g /\ k \in DOMAIN h
      BY <1>5, <1>6, <2>1, <2>4, <3>2, Zenon
    <3>5. g[k] = w[y] /\ h[k] = v[z]
      BY <1>5, <1>6, <2>1, <3>4, Zenon
    <3> QED
      BY <3>3, <3>4, <3>5, Zenon
  <2>5. CASE y = 0
    <3>1. z = x
      BY <2>2, <2>5, Zenon
    <3>2. k \notin DOMAIN g /\ (k \in DOMAIN h <=> k \in DOMAIN f) /\ (k \in DOMAIN f <=> x # 0)
      BY <1>4, <1>5, <1>6, <2>1, <2>5, <3>1, Zenon
    <3>3. ASSUME k \in DOMAIN h PROVE h[k] = f[k]
      <4>1. x \in 1..a
        BY <1>3, <2>3, <3>2, <3>3
      <4>2. v[x] = va[x]
        BY <1>7, <4>1, Zenon
      <4>3. h[k] = v[x] /\ f[k] = va[x]
        BY <1>4, <1>6, <2>1, <3>1, <3>2, <3>3, Zenon
      <4> QED
        BY <4>2, <4>3, Zenon
    <3> QED
      BY <3>2, <3>3, Zenon
  <2> QED
    BY <2>4, <2>5
<1>9. DOMAIN h = DOMAIN g \cup DOMAIN f
  BY <1>8
<1>10. h = [k \in DOMAIN g \cup DOMAIN f |-> IF k \in DOMAIN g THEN g[k] ELSE f[k]]
  BY <1>6, <1>8, <1>9
<1>11. h = Over(g, f)
  BY <1>10, OverDef, Zenon
<1> QED
  BY <1>1, <1>11, Zenon
-------------------------------------------------------------------------------
(* The layers of an environment *)

IsOver(h, f, g) ==
    /\ h = [k \in DOMAIN h |-> h[k]]
    /\ DOMAIN h = DOMAIN f \cup DOMAIN g
    /\ \A k \in DOMAIN f : h[k] = f[k]
    /\ \A k \in DOMAIN g : k \notin DOMAIN f => h[k] = g[k]

LEMMA OverIs == ASSUME NEW f, NEW g PROVE IsOver(Over(f, g), f, g)
BY OverDef DEF IsOver

IsLayer(l, f, source) ==
    /\ DOMAIN l = DOMAIN f
    /\ \A k \in DOMAIN f : l[k] = [value |-> f[k], source |-> source]

LEMMA LayerIs == ASSUME NEW f, NEW source PROVE IsLayer(Layer(f, source), f, source)
BY DEF Layer, IsLayer

\* Two environments with the same variables and values.
LEMMA SameEnvironment ==
    ASSUME NEW f, NEW g, f = [k \in DOMAIN f |-> f[k]], g = [k \in DOMAIN g |-> g[k]],
           DOMAIN f = DOMAIN g, \A k \in DOMAIN f : f[k] = g[k]
    PROVE  f = g
OBVIOUS

LEMMA OverNothing ==
    ASSUME NEW f, DOMAIN f = {}, NEW g, g = [k \in DOMAIN g |-> g[k]]
    PROVE  Over(f, g) = g
<1>1. PICK h : h = Over(f, g)
  OBVIOUS
<1>2. /\ h = [k \in DOMAIN h |-> h[k]] /\ DOMAIN h = DOMAIN g
      /\ \A k \in DOMAIN g : k \notin DOMAIN f => h[k] = g[k]
  <2>1. IsOver(h, f, g)
    BY <1>1, OverIs, Zenon
  <2> QED
    BY <2>1 DEF IsOver
<1>3. h = g
  BY <1>2, SameEnvironment
<1> QED
  BY <1>1, <1>3

\* What a further layer does to the values.
LEMMA MapOfLayered ==
    ASSUME NEW f, NEW source, NEW es
    PROVE  EntriesToMap(Over(Layer(f, source), es)) = Over(f, EntriesToMap(es))
<1>1. PICK l, o, m, n, r : /\ l = Layer(f, source) /\ o = Over(l, es) /\ m = EntriesToMap(o)
                           /\ n = EntriesToMap(es) /\ r = Over(f, n)
  OBVIOUS
<1>2. DOMAIN l = DOMAIN f /\ \A k \in DOMAIN f : l[k].value = f[k]
  <2>1. IsLayer(l, f, source)
    BY <1>1, LayerIs, Zenon
  <2> QED
    BY <2>1 DEF IsLayer
<1>3. /\ DOMAIN o = DOMAIN l \cup DOMAIN es /\ \A k \in DOMAIN l : o[k] = l[k]
      /\ \A k \in DOMAIN es : k \notin DOMAIN l => o[k] = es[k]
  <2>1. IsOver(o, l, es)
    BY <1>1, OverIs, Zenon
  <2> QED
    BY <2>1 DEF IsOver
<1>4. m = [k \in DOMAIN m |-> m[k]] /\ DOMAIN m = DOMAIN o /\ \A k \in DOMAIN o : m[k] = o[k].value
  BY <1>1 DEF EntriesToMap
<1>5. DOMAIN n = DOMAIN es /\ \A k \in DOMAIN es : n[k] = es[k].value
  BY <1>1 DEF EntriesToMap
<1>6. /\ r = [k \in DOMAIN r |-> r[k]] /\ DOMAIN r = DOMAIN f \cup DOMAIN n
      /\ \A k \in DOMAIN f : r[k] = f[k]
      /\ \A k \in DOMAIN n : k \notin DOMAIN f => r[k] = n[k]
  <2>1. IsOver(r, f, n)
    BY <1>1, OverIs, Zenon
  <2> QED
    BY <2>1 DEF IsOver
<1>7. ASSUME NEW k \in DOMAIN m PROVE m[k] = r[k]
  <2>1. CASE k \in DOMAIN f
    BY <1>2, <1>3, <1>4, <1>6, <2>1
  <2>2. CASE k \notin DOMAIN f
    BY <1>2, <1>3, <1>4, <1>5, <1>6, <2>2
  <2> QED
    BY <2>1, <2>2
<1>8. DOMAIN m = DOMAIN r
  BY <1>2, <1>3, <1>4, <1>5, <1>6
<1>9. m = r
  BY <1>4, <1>6, <1>7, <1>8, SameEnvironment
<1> QED
  BY <1>1, <1>9

\* Two layers from the same source are one.
LEMMA LayeredTwice ==
    ASSUME NEW f, NEW g, NEW source, NEW es
    PROVE  Over(Layer(g, source), Over(Layer(f, source), es)) = Over(Layer(Over(g, f), source), es)
<1>1. PICK lf, lg, o, m, b, lb, r :
        /\ lf = Layer(f, source) /\ lg = Layer(g, source) /\ o = Over(lf, es) /\ m = Over(lg, o)
        /\ b = Over(g, f) /\ lb = Layer(b, source) /\ r = Over(lb, es)
  OBVIOUS
<1>2. /\ DOMAIN lf = DOMAIN f /\ \A k \in DOMAIN f : lf[k] = [value |-> f[k], source |-> source]
      /\ DOMAIN lg = DOMAIN g /\ \A k \in DOMAIN g : lg[k] = [value |-> g[k], source |-> source]
      /\ DOMAIN lb = DOMAIN b /\ \A k \in DOMAIN b : lb[k] = [value |-> b[k], source |-> source]
  <2>1. IsLayer(lf, f, source)
    BY <1>1, LayerIs, Zenon
  <2>2. IsLayer(lg, g, source)
    BY <1>1, LayerIs, Zenon
  <2>3. IsLayer(lb, b, source)
    BY <1>1, LayerIs, Zenon
  <2> QED
    BY <2>1, <2>2, <2>3 DEF IsLayer
<1>3. /\ DOMAIN o = DOMAIN lf \cup DOMAIN es /\ \A k \in DOMAIN lf : o[k] = lf[k]
      /\ \A k \in DOMAIN es : k \notin DOMAIN lf => o[k] = es[k]
  <2>1. IsOver(o, lf, es)
    BY <1>1, OverIs, Zenon
  <2> QED
    BY <2>1 DEF IsOver
<1>4. /\ m = [k \in DOMAIN m |-> m[k]] /\ DOMAIN m = DOMAIN lg \cup DOMAIN o /\ \A k \in DOMAIN lg : m[k] = lg[k]
      /\ \A k \in DOMAIN o : k \notin DOMAIN lg => m[k] = o[k]
  <2>1. IsOver(m, lg, o)
    BY <1>1, OverIs, Zenon
  <2> QED
    BY <2>1 DEF IsOver
<1>5. /\ DOMAIN b = DOMAIN g \cup DOMAIN f /\ \A k \in DOMAIN g : b[k] = g[k]
      /\ \A k \in DOMAIN f : k \notin DOMAIN g => b[k] = f[k]
  <2>1. IsOver(b, g, f)
    BY <1>1, OverIs, Zenon
  <2> QED
    BY <2>1 DEF IsOver
<1>6. /\ r = [k \in DOMAIN r |-> r[k]] /\ DOMAIN r = DOMAIN lb \cup DOMAIN es /\ \A k \in DOMAIN lb : r[k] = lb[k]
      /\ \A k \in DOMAIN es : k \notin DOMAIN lb => r[k] = es[k]
  <2>1. IsOver(r, lb, es)
    BY <1>1, OverIs, Zenon
  <2> QED
    BY <2>1 DEF IsOver
<1>7. DOMAIN m = DOMAIN r
  BY <1>2, <1>3, <1>4, <1>5, <1>6
<1>8. ASSUME NEW k \in DOMAIN m PROVE m[k] = r[k]
  <2>1. CASE k \in DOMAIN g
    BY <1>2, <1>4, <1>5, <1>6, <2>1
  <2>2. CASE k \notin DOMAIN g /\ k \in DOMAIN f
    BY <1>2, <1>3, <1>4, <1>5, <1>6, <2>2
  <2>3. CASE k \notin DOMAIN g /\ k \notin DOMAIN f
    BY <1>2, <1>3, <1>4, <1>5, <1>6, <2>3
  <2> QED
    BY <2>1, <2>2, <2>3
<1>9. m = r
  BY <1>4, <1>6, <1>7, <1>8, SameEnvironment
<1> QED
  BY <1>1, <1>9

LEMMA ApplyEnvFileIs ==
    ASSUME NEW es, NEW path
    PROVE  ApplyEnvFile(es, path) = Over(Layer(Assignments(LinesOf(path), EntriesToMap(es)), "env_file"), es)
<1>1. PICK y : y = Over(Layer(Assignments(LinesOf(path), EntriesToMap(es)), "env_file"), es)
  OBVIOUS
<1>2. ApplyEnvFile(es, path) = CHOOSE z \in {y} : TRUE
  BY <1>1 DEF ApplyEnvFile, With, ApplyOverrides, LoadEnvFile
<1> QED
  BY <1>1, <1>2

\* A request leads to two files at most.
LEMMA ApplyEnvFilesIs ==
    ASSUME NEW es, NEW paths, NEW N \in 0..2, Len(paths) = N
    PROVE  ApplyEnvFiles(es, paths) =
             IF N = 0 THEN es ELSE IF N = 1 THEN ApplyEnvFile(es, paths[1])
             ELSE ApplyEnvFile(ApplyEnvFile(es, paths[1]), paths[2])
<1>1. PICK one, two : one = ApplyEnvFile(es, paths[1]) /\ two = ApplyEnvFile(one, paths[2])
  OBVIOUS
<1>2. PICK g : g = [i \in 0..N |-> IF i = 0 THEN es ELSE IF i = 1 THEN one ELSE two]
  OBVIOUS
<1>3. g = [i \in 0..N |-> IF i = 0 THEN es ELSE ApplyEnvFile(g[i - 1], paths[i])]
  <2>1. ASSUME NEW i \in 0..N PROVE g[i] = IF i = 0 THEN es ELSE ApplyEnvFile(g[i - 1], paths[i])
    <3>1. CASE i = 0
      BY <1>2, <3>1
    <3>2. CASE i = 1
      <4>1. i - 1 = 0 /\ 0 \in 0..N
        BY <3>2
      <4>2. g[i] = one /\ g[i - 1] = es
        BY <1>2, <3>2, <4>1
      <4> QED
        BY <1>1, <3>2, <4>2
    <3>3. CASE i = 2
      <4>1. i - 1 = 1 /\ 1 \in 0..N
        BY <3>3
      <4>2. g[i] = two /\ g[i - 1] = one
        BY <1>2, <3>3, <4>1
      <4> QED
        BY <1>1, <3>3, <4>2
    <3> QED
      BY <3>1, <3>2, <3>3
  <2> QED
    BY <1>2, <2>1
<1>4. PICK f : f = CHOOSE x : x = [i \in 0..N |-> IF i = 0 THEN es ELSE ApplyEnvFile(x[i - 1], paths[i])]
  OBVIOUS
<1>5. f = [i \in 0..N |-> IF i = 0 THEN es ELSE ApplyEnvFile(f[i - 1], paths[i])]
  BY <1>3, <1>4, Zenon
<1>6. ApplyEnvFiles(es, paths) = f[N]
  BY <1>4, Zenon DEF ApplyEnvFiles
<1>7. f[0] = es
  BY <1>5
<1>8. N >= 1 => f[1] = one
  BY <1>1, <1>5, <1>7
<1>9. N = 2 => f[2] = two
  BY <1>1, <1>5, <1>8
<1> QED
  BY <1>1, <1>6, <1>7, <1>8, <1>9

\* A sequence, of whatever elements.
IsSeq(s) == \E S : s \in Seq(S)

LEMMA LinesAreSeq ==
    ASSUME workspace \in Workspaces, NEW path \in DOMAIN workspace
    PROVE  IsSeq(LinesOf(path))
<1>1. \/ workspace[path] = None
      \/ workspace[path][1] \in Seq(ToSet(workspace[path][1]))
  BY WorkspacesAssumption
<1>2. CASE workspace[path] = None
  <2>1. <<>> \in Seq({})
    OBVIOUS
  <2> QED
    BY <1>2, <2>1 DEF LinesOf, IsSeq
<1>3. CASE workspace[path] # None
  BY <1>1, <1>3 DEF LinesOf, IsSeq
<1> QED
  BY <1>2, <1>3

LEMMA SeqIsFile == ASSUME NEW s, IsSeq(s) PROVE IsFile(s, Len(s))
<1>1. PICK S : s \in Seq(S)
  BY DEF IsSeq
<1> QED
  BY <1>1 DEF IsFile

LEMMA JoinIs ==
    ASSUME NEW A, IsSeq(A), NEW B, IsSeq(B)
    PROVE  Joined(A, Len(A), B, Len(B), A \o B)
<1>1. PICK S : A \in Seq(S)
  BY DEF IsSeq
<1>2. PICK R : B \in Seq(R)
  BY DEF IsSeq
<1>3. A \in Seq(S \cup R) /\ B \in Seq(S \cup R)
  <2>1. A \in [1..Len(A) -> S] /\ Len(A) \in Nat
    BY <1>1
  <2>2. B \in [1..Len(B) -> R] /\ Len(B) \in Nat
    BY <1>2
  <2>3. A \in [1..Len(A) -> S \cup R] /\ B \in [1..Len(B) -> S \cup R]
    BY <2>1, <2>2
  <2> QED
    BY <2>1, <2>2, <2>3
<1>4. PICK C : C = A \o B
  OBVIOUS
<1>5. /\ C \in Seq(S \cup R) /\ Len(C) = Len(A) + Len(B) /\ Len(A) \in Nat /\ Len(B) \in Nat
      /\ \A i \in 1..Len(A) : C[i] = A[i]
  BY <1>3, <1>4
<1>6. ASSUME NEW j \in 1..Len(B) PROVE C[Len(A) + j] = B[j]
  BY <1>3, <1>4
<1>7. IsFile(A, Len(A)) /\ IsFile(B, Len(B)) /\ IsFile(C, Len(A) + Len(B))
  <2>1. IsSeq(C)
    BY <1>5 DEF IsSeq
  <2> QED
    BY <1>5, <2>1, SeqIsFile
<1> QED
  BY <1>4, <1>5, <1>6, <1>7 DEF Joined

\* A file that is not there and one without lines change nothing.
LEMMA EmptyFile ==
    ASSUME NEW es, es = [k \in DOMAIN es |-> es[k]], NEW current
    PROVE  Over(Layer(Assignments(<<>>, current), "env_file"), es) = es
<1>1. PICK f, l : f = Assignments(<<>>, current) /\ l = Layer(f, "env_file")
  OBVIOUS
<1>2. IsFile(<<>>, 0)
  BY DEF IsFile
<1>3. \A k : k \in DOMAIN f <=> LastLine(<<>>, k, 0) # 0
  BY <1>1, <1>2, AssignmentsAre
<1>4. \A k : LastLine(<<>>, k, 0) = 0
  BY LastLineIs DEF IsLastLine
<1>5. DOMAIN f = {}
  BY <1>3, <1>4
<1>6. DOMAIN l = {}
  <2>1. IsLayer(l, f, "env_file")
    BY <1>1, LayerIs, Zenon
  <2> QED
    BY <1>5, <2>1 DEF IsLayer
<1> QED
  BY <1>1, <1>6, OverNothing

\* The files of a request, loaded in turn, are a layer with their variables as if
\* they were one file.
LEMMA FilesAreOneLayer ==
    ASSUME workspace \in Workspaces, NEW request \in Requests, NEW es, es = [k \in DOMAIN es |-> es[k]]
    PROVE  ApplyEnvFiles(es, ResolveEnvFilePaths(request.file)) =
             Over(Layer(Assignments(FileLines(request), EntriesToMap(es)), "env_file"), es)
<1>1. PICK c : c = EntriesToMap(es)
  OBVIOUS
<1>2. CASE request.file # None
  <2>1. PICK path \in DOMAIN workspace : request.file = <<path>>
    BY <1>2, WorkspacesAssumption
  <2>2. ResolveEnvFilePaths(request.file) = <<path>>
    BY <1>2, <2>1 DEF ResolveEnvFilePaths
  <2>3. ApplyEnvFiles(es, <<path>>) = ApplyEnvFile(es, path)
    <3>1. Len(<<path>>) = 1 /\ <<path>>[1] = path /\ 1 \in 0..2
      OBVIOUS
    <3>2. PICK paths : paths = <<path>>
      OBVIOUS
    <3>3. ApplyEnvFiles(es, paths) = ApplyEnvFile(es, paths[1])
      BY <3>1, <3>2, ApplyEnvFilesIs
    <3> QED
      BY <3>1, <3>2, <3>3, Zenon
  <2>4. FileLines(request) = LinesOf(path)
    <3>1. request.file[1] = path
      BY <2>1
    <3> QED
      BY <1>2, <3>1, Zenon DEF FileLines
  <2>5. ApplyEnvFile(es, path) = Over(Layer(Assignments(LinesOf(path), c), "env_file"), es)
    BY <1>1, ApplyEnvFileIs, Zenon
  <2> QED
    BY <1>1, <2>2, <2>3, <2>4, <2>5, Zenon
<1>3. CASE request.file = None
  <2>1. PICK p, q : p = ".env.in" /\ q = ".env"
    OBVIOUS
  <2>2. p \in DOMAIN workspace /\ q \in DOMAIN workspace
    BY <2>1, WorkspacesAssumption
  <2>3. PICK A, B : A = LinesOf(p) /\ B = LinesOf(q)
    OBVIOUS
  <2>4. PICK f : f = Assignments(A, c)
    OBVIOUS
  <2>5. PICK one : one = Over(Layer(f, "env_file"), es)
    OBVIOUS
  <2>6. PICK g : g = Assignments(B, Over(f, c))
    OBVIOUS
  <2>7. PICK two : two = Over(Layer(g, "env_file"), one)
    OBVIOUS
  <2>8. EntriesToMap(one) = Over(f, c)
    BY <1>1, <2>5, MapOfLayered, Zenon
  <2>9. ApplyEnvFile(es, p) = one
    BY <1>1, <2>3, <2>4, <2>5, ApplyEnvFileIs, Zenon
  <2>10. ApplyEnvFile(one, q) = two
    BY <2>3, <2>6, <2>7, <2>8, ApplyEnvFileIs, Zenon
  <2>11. workspace[p] = None => one = es
    <3> SUFFICES ASSUME workspace[p] = None PROVE one = es
      OBVIOUS
    <3>1. A = <<>>
      BY <2>3 DEF LinesOf
    <3> QED
      BY <2>4, <2>5, <3>1, EmptyFile, Zenon
  <2>12. workspace[q] = None => two = one
    <3> SUFFICES ASSUME workspace[q] = None PROVE two = one
      OBVIOUS
    <3>1. B = <<>>
      BY <2>3 DEF LinesOf
    <3>2. one = [k \in DOMAIN one |-> one[k]]
      <4>1. IsOver(one, Layer(f, "env_file"), es)
        BY <2>5, OverIs, Zenon
      <4> QED
        BY <4>1 DEF IsOver
    <3> QED
      BY <2>6, <2>7, <3>1, <3>2, EmptyFile, Zenon
  <2>13. ApplyEnvFiles(es, ResolveEnvFilePaths(request.file)) = two
    <3>0. PICK paths : paths = ResolveEnvFilePaths(request.file)
      OBVIOUS
    <3>1. paths = (IF workspace[p] = None THEN <<>> ELSE <<p>>) \o (IF workspace[q] = None THEN <<>> ELSE <<q>>)
      BY <1>3, <2>1, <3>0 DEF ResolveEnvFilePaths
    <3>2. CASE workspace[p] = None /\ workspace[q] = None
      <4>1. Len(paths) = 0 /\ 0 \in 0..2
        BY <3>1, <3>2
      <4>2. ApplyEnvFiles(es, paths) = es
        BY <4>1, ApplyEnvFilesIs
      <4> QED
        BY <2>11, <2>12, <3>0, <3>2, <4>2
    <3>3. CASE workspace[p] # None /\ workspace[q] = None
      <4>1. Len(paths) = 1 /\ paths[1] = p /\ 1 \in 0..2
        BY <3>1, <3>3
      <4>2. ApplyEnvFiles(es, paths) = ApplyEnvFile(es, paths[1])
        BY <4>1, ApplyEnvFilesIs
      <4> QED
        BY <2>9, <2>12, <3>0, <3>3, <4>1, <4>2
    <3>4. CASE workspace[p] = None /\ workspace[q] # None
      <4>1. Len(paths) = 1 /\ paths[1] = q /\ 1 \in 0..2
        BY <3>1, <3>4
      <4>2. ApplyEnvFiles(es, paths) = ApplyEnvFile(es, paths[1])
        BY <4>1, ApplyEnvFilesIs
      <4> QED
        BY <2>10, <2>11, <3>0, <3>4, <4>1, <4>2
    <3>5. CASE workspace[p] # None /\ workspace[q] # None
      <4>1. Len(paths) = 2 /\ paths[1] = p /\ paths[2] = q /\ 2 \in 0..2
        BY <3>1, <3>5
      <4>2. ApplyEnvFiles(es, paths) = ApplyEnvFile(ApplyEnvFile(es, paths[1]), paths[2])
        BY <4>1, ApplyEnvFilesIs
      <4> QED
        BY <2>9, <2>10, <3>0, <4>1, <4>2
    <3> QED
      BY <3>2, <3>3, <3>4, <3>5
  <2>14. two = Over(Layer(Over(g, f), "env_file"), es)
    <3>1. two = Over(Layer(g, "env_file"), Over(Layer(f, "env_file"), es))
      BY <2>5, <2>7, Zenon
    <3>2. Over(Layer(g, "env_file"), Over(Layer(f, "env_file"), es)) = Over(Layer(Over(g, f), "env_file"), es)
      BY LayeredTwice
    <3> QED
      BY <3>1, <3>2, Zenon
  <2>15. Assignments(A \o B, c) = Over(g, f)
    <3>1. IsSeq(A) /\ IsSeq(B)
      BY <2>2, <2>3, LinesAreSeq
    <3>2. Joined(A, Len(A), B, Len(B), A \o B)
      BY <3>1, JoinIs
    <3>3. PICK a, b, C : a = Len(A) /\ b = Len(B) /\ C = A \o B
      OBVIOUS
    <3>4. Joined(A, a, B, b, C)
      BY <3>2, <3>3, Zenon
    <3>5. Assignments(C, c) = Over(Assignments(B, Over(f, c)), f)
      BY <2>4, <3>4, JoinedAssignments
    <3> QED
      BY <2>6, <3>3, <3>5, Zenon
  <2>16. FileLines(request) = A \o B
    BY <1>3, <2>1, <2>3, Zenon DEF FileLines
  <2> QED
    BY <1>1, <2>13, <2>14, <2>15, <2>16, Zenon
<1> QED
  BY <1>2, <1>3

\* Every variable as in the highest layer that has it.
Highest(own, filed, base, imported, below) ==
    LET all == Over(own, Over(filed, base))
    IN  [k \in DOMAIN all |->
           [value |-> all[k],
            source |-> CASE k \in DOMAIN own -> "session_override"
                         [] k \in DOMAIN filed \ DOMAIN own -> "env_file"
                         [] k \in DOMAIN imported \ (DOMAIN filed \cup DOMAIN own) -> "service_manager"
                         [] OTHER -> below]]

\* What the layers come to.
LEMMA LayersAre ==
    ASSUME NEW own, NEW filed, NEW base, NEW imported, NEW below, NEW es,
           DOMAIN es = DOMAIN base, DOMAIN imported \subseteq DOMAIN base,
           \A k \in DOMAIN base :
              es[k] = [value |-> base[k], source |-> IF k \in DOMAIN imported THEN "service_manager" ELSE below]
    PROVE  Over(Layer(own, "session_override"),
                Over(Layer(Nothing, "provider_config"), Over(Layer(filed, "env_file"), es)))
             = Highest(own, filed, base, imported, below)
<1>1. PICK ls, lp, lf : /\ ls = Layer(own, "session_override") /\ lp = Layer(Nothing, "provider_config")
                        /\ lf = Layer(filed, "env_file")
  OBVIOUS
<1>2. PICK o : o = Over(lf, es)
  OBVIOUS
<1>3. Over(lp, o) = o
  <2>1. DOMAIN lp = {}
    <3>1. IsLayer(lp, Nothing, "provider_config")
      BY <1>1, LayerIs, Zenon
    <3> QED
      BY <3>1 DEF IsLayer, Nothing
  <2>2. o = [k \in DOMAIN o |-> o[k]]
    <3>1. IsOver(o, lf, es)
      BY <1>2, OverIs, Zenon
    <3> QED
      BY <3>1 DEF IsOver
  <2> QED
    BY <2>1, <2>2, OverNothing
<1>4. PICK m, t, all : m = Over(ls, o) /\ t = Over(filed, base) /\ all = Over(own, t)
  OBVIOUS
<1>5. /\ DOMAIN ls = DOMAIN own
      /\ \A k \in DOMAIN own : ls[k] = [value |-> own[k], source |-> "session_override"]
  <2>1. IsLayer(ls, own, "session_override")
    BY <1>1, LayerIs, Zenon
  <2> QED
    BY <2>1 DEF IsLayer
<1>6. DOMAIN lf = DOMAIN filed /\ \A k \in DOMAIN filed : lf[k] = [value |-> filed[k], source |-> "env_file"]
  <2>1. IsLayer(lf, filed, "env_file")
    BY <1>1, LayerIs, Zenon
  <2> QED
    BY <2>1 DEF IsLayer
<1>7. /\ DOMAIN o = DOMAIN lf \cup DOMAIN es /\ \A k \in DOMAIN lf : o[k] = lf[k]
      /\ \A k \in DOMAIN es : k \notin DOMAIN lf => o[k] = es[k]
  <2>1. IsOver(o, lf, es)
    BY <1>2, OverIs, Zenon
  <2> QED
    BY <2>1 DEF IsOver
<1>8. /\ m = [k \in DOMAIN m |-> m[k]]
      /\ DOMAIN m = DOMAIN ls \cup DOMAIN o /\ \A k \in DOMAIN ls : m[k] = ls[k]
      /\ \A k \in DOMAIN o : k \notin DOMAIN ls => m[k] = o[k]
  <2>1. IsOver(m, ls, o)
    BY <1>4, OverIs, Zenon
  <2> QED
    BY <2>1 DEF IsOver
<1>9. /\ DOMAIN t = DOMAIN filed \cup DOMAIN base /\ \A k \in DOMAIN filed : t[k] = filed[k]
      /\ \A k \in DOMAIN base : k \notin DOMAIN filed => t[k] = base[k]
  <2>1. IsOver(t, filed, base)
    BY <1>4, OverIs, Zenon
  <2> QED
    BY <2>1 DEF IsOver
<1>10. /\ DOMAIN all = DOMAIN own \cup DOMAIN t /\ \A k \in DOMAIN own : all[k] = own[k]
       /\ \A k \in DOMAIN t : k \notin DOMAIN own => all[k] = t[k]
  <2>1. IsOver(all, own, t)
    BY <1>4, OverIs, Zenon
  <2> QED
    BY <2>1 DEF IsOver
<1>11. DOMAIN m = DOMAIN all
  BY <1>5, <1>6, <1>7, <1>8, <1>9, <1>10
<1>12. ASSUME NEW k \in DOMAIN all
       PROVE  m[k] = [value |-> all[k],
                      source |-> CASE k \in DOMAIN own -> "session_override"
                                   [] k \in DOMAIN filed \ DOMAIN own -> "env_file"
                                   [] k \in DOMAIN imported \ (DOMAIN filed \cup DOMAIN own) -> "service_manager"
                                   [] OTHER -> below]
  <2>1. CASE k \in DOMAIN own
    <3>1. m[k] = [value |-> own[k], source |-> "session_override"] /\ all[k] = own[k]
      BY <1>5, <1>8, <1>10, <2>1
    <3> QED
      BY <2>1, <3>1
  <2>2. CASE k \in DOMAIN filed /\ k \notin DOMAIN own
    <3>1. m[k] = [value |-> filed[k], source |-> "env_file"]
      BY <1>5, <1>6, <1>7, <1>8, <2>2
    <3>2. all[k] = filed[k]
      BY <1>9, <1>10, <2>2
    <3> QED
      BY <2>2, <3>1, <3>2
  <2>3. CASE k \notin DOMAIN filed /\ k \notin DOMAIN own
    <3>0. k \in DOMAIN base /\ k \in DOMAIN es
      BY <1>9, <1>10, <2>3
    <3>1. m[k] = es[k]
      BY <1>5, <1>6, <1>7, <1>8, <2>3, <3>0
    <3>2. all[k] = base[k]
      BY <1>9, <1>10, <2>3, <3>0
    <3>3. es[k] = [value |-> base[k], source |-> IF k \in DOMAIN imported THEN "service_manager" ELSE below]
      BY <3>0
    <3> QED
      BY <2>3, <3>1, <3>2, <3>3
  <2> QED
    BY <2>1, <2>2, <2>3
<1>13. m = [k \in DOMAIN all |->
              [value |-> all[k],
               source |-> CASE k \in DOMAIN own -> "session_override"
                            [] k \in DOMAIN filed \ DOMAIN own -> "env_file"
                            [] k \in DOMAIN imported \ (DOMAIN filed \cup DOMAIN own) -> "service_manager"
                            [] OTHER -> below]]
  BY <1>8, <1>11, <1>12
<1>14. m = Highest(own, filed, base, imported, below)
  BY <1>4, <1>13, Zenon DEF Highest
<1> QED
  BY <1>1, <1>2, <1>3, <1>4, <1>14, Zenon

\* The lowest layers of Expected.
Imported(request) == IF request.mode = "bootstrap" THEN ServiceManagerEnv(host) ELSE Nothing

Base(request, captured) ==
    CASE request.mode = "clean" -> CleanBase
      [] request.mode = "shell" -> Nothing
      [] request.mode = "bootstrap" -> Over(Imported(request), captured)

Below(request) == IF request.mode = "clean" THEN "daemon_inherited" ELSE "bootstrap_shell"

BaseIs(es, base, imported, below) ==
    /\ es = [k \in DOMAIN es |-> es[k]]
    /\ DOMAIN es = DOMAIN base /\ DOMAIN imported \subseteq DOMAIN base
    /\ \A k \in DOMAIN base :
          es[k] = [value |-> base[k], source |-> IF k \in DOMAIN imported THEN "service_manager" ELSE below]
    /\ EntriesToMap(es) = base

LEMMA MapIs ==
    ASSUME NEW es, NEW base, base = [k \in DOMAIN base |-> base[k]], DOMAIN es = DOMAIN base,
           \A k \in DOMAIN base : es[k].value = base[k]
    PROVE  EntriesToMap(es) = base
BY DEF EntriesToMap

LEMMA BaseEntriesAre ==
    ASSUME NEW request \in Requests, NEW captured
    PROVE  BaseIs(BaseEntries(request.mode, captured), Base(request, captured), Imported(request), Below(request))
<1>1. PICK es, base, imported, below :
        /\ es = BaseEntries(request.mode, captured) /\ base = Base(request, captured)
        /\ imported = Imported(request) /\ below = Below(request)
  OBVIOUS
<1>2. request.mode \in {"clean", "shell", "bootstrap"}
  BY RequestsAssumption
<1>3. CASE request.mode = "clean"
  <2>1. imported = Nothing /\ below = "daemon_inherited" /\ base = CleanBase /\ es = Layer(CleanBase, "daemon_inherited")
    BY <1>1, <1>3 DEF Imported, Below, Base, BaseEntries
  <2>2. base = [k \in DOMAIN base |-> base[k]]
    BY <2>1, OverDef DEF CleanBase
  <2>3. DOMAIN imported = {}
    BY <2>1 DEF Nothing
  <2>4. /\ es = [k \in DOMAIN es |-> es[k]] /\ DOMAIN es = DOMAIN base
        /\ \A k \in DOMAIN base : es[k] = [value |-> base[k], source |-> "daemon_inherited"]
    BY <2>1 DEF Layer
  <2>5. EntriesToMap(es) = base
    BY <2>2, <2>4, MapIs
  <2> QED
    BY <1>1, <2>1, <2>3, <2>4, <2>5 DEF BaseIs
<1>4. CASE request.mode = "shell"
  <2>1. base = Nothing /\ es = Nothing /\ imported = Nothing
    BY <1>1, <1>4 DEF Imported, Base, BaseEntries
  <2>2. DOMAIN Nothing = {} /\ Nothing = [k \in DOMAIN Nothing |-> Nothing[k]]
    BY DEF Nothing
  <2>3. EntriesToMap(es) = base
    BY <2>1, <2>2, MapIs
  <2> QED
    BY <1>1, <2>1, <2>2, <2>3 DEF BaseIs
<1>5. CASE request.mode = "bootstrap"
  <2>1. PICK lc, li : lc = Layer(captured, "bootstrap_shell") /\ li = Layer(imported, "service_manager")
    OBVIOUS
  <2>2. below = "bootstrap_shell" /\ base = Over(imported, captured) /\ es = Over(li, lc)
    BY <1>1, <1>5, <2>1 DEF Imported, Below, Base, BaseEntries, ApplyOverrides
  <2>3. /\ DOMAIN lc = DOMAIN captured
        /\ \A k \in DOMAIN captured : lc[k] = [value |-> captured[k], source |-> "bootstrap_shell"]
    <3>1. IsLayer(lc, captured, "bootstrap_shell")
      BY <2>1, LayerIs, Zenon
    <3> QED
      BY <3>1 DEF IsLayer
  <2>4. /\ DOMAIN li = DOMAIN imported
        /\ \A k \in DOMAIN imported : li[k] = [value |-> imported[k], source |-> "service_manager"]
    <3>1. IsLayer(li, imported, "service_manager")
      BY <2>1, LayerIs, Zenon
    <3> QED
      BY <3>1 DEF IsLayer
  <2>5. /\ es = [k \in DOMAIN es |-> es[k]] /\ DOMAIN es = DOMAIN li \cup DOMAIN lc
        /\ \A k \in DOMAIN li : es[k] = li[k]
        /\ \A k \in DOMAIN lc : k \notin DOMAIN li => es[k] = lc[k]
    <3>1. IsOver(es, li, lc)
      BY <2>2, OverIs, Zenon
    <3> QED
      BY <3>1 DEF IsOver
  <2>6. /\ base = [k \in DOMAIN base |-> base[k]] /\ DOMAIN base = DOMAIN imported \cup DOMAIN captured
        /\ \A k \in DOMAIN imported : base[k] = imported[k]
        /\ \A k \in DOMAIN captured : k \notin DOMAIN imported => base[k] = captured[k]
    <3>1. IsOver(base, imported, captured)
      BY <2>2, OverIs, Zenon
    <3> QED
      BY <3>1 DEF IsOver
  <2>7. ASSUME NEW k \in DOMAIN base
        PROVE  es[k] = [value |-> base[k], source |-> IF k \in DOMAIN imported THEN "service_manager" ELSE below]
    <3>1. CASE k \in DOMAIN imported
      BY <2>4, <2>5, <2>6, <3>1
    <3>2. CASE k \notin DOMAIN imported
      BY <2>2, <2>3, <2>4, <2>5, <2>6, <3>2
    <3> QED
      BY <3>1, <3>2
  <2>8. DOMAIN es = DOMAIN base /\ DOMAIN imported \subseteq DOMAIN base
    BY <2>3, <2>4, <2>5, <2>6
  <2>9. ASSUME NEW k \in DOMAIN base PROVE es[k].value = base[k]
    <3>1. PICK source : es[k] = [value |-> base[k], source |-> source]
      BY <2>7, Zenon
    <3> QED
      BY <3>1
  <2>10. EntriesToMap(es) = base
    BY <2>6, <2>8, <2>9, MapIs
  <2> QED
    BY <1>1, <2>5, <2>7, <2>8, <2>10 DEF BaseIs
<1> QED
  BY <1>2, <1>3, <1>4, <1>5

\* ResolveEnvironment computes what is expected of it.
LEMMA ResolvedAsExpected ==
    ASSUME workspace \in Workspaces, NEW request \in Requests, NEW captured
    PROVE  ResolveEnvironment(request, captured) = Expected(request, captured, host)
<1>1. PICK es, base, imported, below, filed, own :
        /\ es = BaseEntries(request.mode, captured) /\ base = Base(request, captured)
        /\ imported = Imported(request) /\ below = Below(request)
        /\ filed = Assignments(FileLines(request), base) /\ own = request.overrides
  OBVIOUS
<1>2. BaseIs(es, base, imported, below)
  BY <1>1, BaseEntriesAre, Zenon
<1>3. es = [k \in DOMAIN es |-> es[k]] /\ EntriesToMap(es) = base
  BY <1>2 DEF BaseIs
<1>4. ApplyEnvFiles(es, ResolveEnvFilePaths(request.file)) = Over(Layer(filed, "env_file"), es)
  BY <1>1, <1>3, FilesAreOneLayer
<1>5. ResolveEnvironment(request, captured) =
        Over(Layer(own, "session_override"),
             Over(Layer(Nothing, "provider_config"), Over(Layer(filed, "env_file"), es)))
  BY <1>1, <1>4, Zenon DEF ResolveEnvironment, ApplyOverrides, DefaultProviderConfig
<1>6. /\ DOMAIN es = DOMAIN base /\ DOMAIN imported \subseteq DOMAIN base
      /\ \A k \in DOMAIN base :
           es[k] = [value |-> base[k], source |-> IF k \in DOMAIN imported THEN "service_manager" ELSE below]
  BY <1>2 DEF BaseIs
<1>7. Expected(request, captured, host) = Highest(own, filed, base, imported, below)
  BY <1>1, Zenon DEF Expected, Imported, Base, Below, Highest
<1>8. Over(Layer(own, "session_override"),
           Over(Layer(Nothing, "provider_config"), Over(Layer(filed, "env_file"), es))) =
        Highest(own, filed, base, imported, below)
  BY <1>6, LayersAre
<1> QED
  BY <1>5, <1>7, <1>8, Zenon
-------------------------------------------------------------------------------
(* The environment that is captured is recent *)

EnvTypes ==
    /\ clock \in Nat
    /\ since \in [Shells -> Seq(Nat)]
    /\ \A sh \in Shells : Len(since[sh]) > 0
    /\ workspace \in Workspaces /\ host \in Hosts
    /\ cache = [sh \in Shells |-> cache[sh]]

\* What shell sh prints, or printed until some moment not before t.
Printed(sh, env, t) ==
    \E v \in DOMAIN since[sh] :
        /\ env = ParseEnvZero(<<ShellEnvs[sh][v]>>)
        /\ v < Len(since[sh]) => since[sh][v + 1] >= t

EntryOK(sh) ==
    cache[sh] # None =>
        /\ cache[sh][1].at \in Nat /\ cache[sh][1].at <= clock
        /\ cache[sh][1].env # Nothing => Printed(sh, cache[sh][1].env, cache[sh][1].at)

\* A bootstrap under way, whose shell has printed nothing or what it prints since it began.
IsJob(j) ==
    j = [step |-> j.step, request |-> j.request, start |-> j.start, out |-> j.out,
         err |-> j.err, child |-> j.child, open |-> j.open, holder |-> j.holder]

JobOK ==
    job # Idle =>
        /\ IsJob(job)
        /\ job.request \in Requests /\ job.start \in Nat /\ job.start <= clock
        /\ job.out # None => Printed(ResolveBootstrapShell, ParseEnvZero(job.out), job.start)

EnvInv ==
    /\ EnvTypes
    /\ \A sh \in Shells : EntryOK(sh)
    /\ JobOK
    /\ EnvironmentAsTold

\* Expected, with the lines of the files.
ExpectedOf(request, captured, h, lines) ==
    LET imported == IF request.mode = "bootstrap" THEN ServiceManagerEnv(h) ELSE Nothing
        base == CASE request.mode = "clean" -> CleanBase
                  [] request.mode = "shell" -> Nothing
                  [] request.mode = "bootstrap" -> Over(imported, captured)
        below == IF request.mode = "clean" THEN "daemon_inherited" ELSE "bootstrap_shell"
    IN  Highest(request.overrides, Assignments(lines, base), base, imported, below)

LEMMA ShellIsThere == ASSUME host \in Hosts PROVE ResolveBootstrapShell \in Shells
BY ShellsAssumption DEF ResolveBootstrapShell

\* The session that was created is told of as long as it is looked at.
LEMMA ToldStays ==
    ASSUME EnvironmentAsTold, UNCHANGED <<given, since, workspace>>
    PROVE  EnvironmentAsTold'
<1>0. given' = given /\ since' = since /\ workspace' = workspace
  OBVIOUS
<1>1. Expected(given.request, given.captured, given.host)' = Expected(given.request, given.captured, given.host)
  <2>1. FileLines(given.request)' = FileLines(given.request)
    BY <1>0, Zenon DEF FileLines, LinesOf
  <2>2. Expected(given.request, given.captured, given.host)' =
          ExpectedOf(given'.request, given'.captured, given'.host, FileLines(given.request)')
    BY Zenon DEF Expected, ExpectedOf, Highest
  <2>3. Expected(given.request, given.captured, given.host) =
          ExpectedOf(given.request, given.captured, given.host, FileLines(given.request))
    BY Zenon DEF Expected, ExpectedOf, Highest
  <2> QED
    BY <1>0, <2>1, <2>2, <2>3, Zenon
<1>2. Recent(given.shell, given.at)' = Recent(given.shell, given.at)
  BY DEF Recent
<1> QED
  BY <1>1, <1>2 DEF EnvironmentAsTold

LEMMA NothingTold ==
    ASSUME NEW request, given' = NoSession \/ given' = Failed(request)
    PROVE  EnvironmentAsTold'
<1>1. given'.outcome # "launched"
  BY DEF NoSession, Failed
<1> QED
  BY <1>1 DEF EnvironmentAsTold

\* What a session gets that is created now.
LEMMA LaunchedAsTold ==
    ASSUME workspace \in Workspaces, NEW request \in Requests, NEW captured, NEW warning, NEW at,
           captured # Nothing => captured \in Recent(ResolveBootstrapShell, at),
           given' = Launched(request, captured, warning, at), UNCHANGED <<since, workspace>>
    PROVE  EnvironmentAsTold'
<1>1. PICK entries : entries = ResolveEnvironment(request, captured)
  OBVIOUS
<1>2. PICK sh, h, got : sh = ResolveBootstrapShell /\ h = host /\ got = BuildEnvp(request, entries)
  OBVIOUS
<1>3. PICK g : g = [outcome |-> "launched", request |-> request, captured |-> captured, entries |-> entries,
                    warning |-> warning, program |-> got, host |-> h, shell |-> sh, at |-> at]
  OBVIOUS
<1>4. given' = g
  <2>1. Launched(request, captured, warning, at) = CHOOSE y \in {g} : TRUE
    BY <1>1, <1>2, <1>3 DEF Launched, With
  <2> QED
    BY <2>1
<1>5. /\ g.request = request /\ g.captured = captured /\ g.entries = entries /\ g.program = got
      /\ g.host = h /\ g.shell = sh /\ g.at = at
  BY <1>3
<1>6. /\ given'.request = request /\ given'.captured = captured /\ given'.entries = entries /\ given'.program = got
      /\ given'.host = h /\ given'.shell = sh /\ given'.at = at
  BY <1>4, <1>5, Zenon
<1>0. workspace' = workspace
  OBVIOUS
<1>7. Expected(given.request, given.captured, given.host)' = Expected(request, captured, h)
  <2>1. FileLines(given.request)' = FileLines(request)
    BY <1>0, <1>6, Zenon DEF FileLines, LinesOf
  <2>2. Expected(given.request, given.captured, given.host)' =
          ExpectedOf(given'.request, given'.captured, given'.host, FileLines(given.request)')
    BY Zenon DEF Expected, ExpectedOf, Highest
  <2>3. Expected(request, captured, h) = ExpectedOf(request, captured, h, FileLines(request))
    BY Zenon DEF Expected, ExpectedOf, Highest
  <2> QED
    BY <1>6, <2>1, <2>2, <2>3, Zenon
<1>8. Recent(given.shell, given.at)' = Recent(sh, at)
  BY <1>6 DEF Recent
<1>9. entries = Expected(request, captured, h)
  BY <1>1, <1>2, ResolvedAsExpected, Zenon
<1>10. \/ request.kind = "log" /\ request.mode = "shell"
       \/ \A k \in DOMAIN entries : got[k] = entries[k].value
  <2>1. \A k \in DOMAIN entries : EntriesToMap(entries)[k] = entries[k].value
    BY DEF EntriesToMap
  <2>2. CASE request.mode # "shell"
    <3>1. got = EntriesToMap(entries)
      BY <1>2, <2>2 DEF BuildEnvp
    <3> QED
      BY <2>1, <3>1, Zenon
  <2>3. CASE request.mode = "shell" /\ request.kind = "pty"
    <3>1. PICK m, l : m = EntriesToMap(entries) /\ l = LoginEnv(ResolveBootstrapShell)
      OBVIOUS
    <3>2. got = Over(m, l)
      BY <1>2, <2>3, <3>1 DEF BuildEnvp, BuildShellModeCommand
    <3>3. IsOver(got, m, l)
      BY <3>2, OverIs, Zenon
    <3>4. DOMAIN m = DOMAIN entries
      BY <3>1 DEF EntriesToMap
    <3> QED
      BY <2>1, <3>1, <3>3, <3>4 DEF IsOver
  <2> QED
    BY <2>2, <2>3, RequestsAssumption
<1> QED
  BY <1>2, <1>6, <1>7, <1>8, <1>9, <1>10 DEF EnvironmentAsTold

LEMMA EnvInvInit == EnvInit => EnvInv
<1> SUFFICES ASSUME EnvInit PROVE EnvInv
  OBVIOUS
<1>1. EnvTypes
  <2>1. clock = 0 /\ since = [sh \in Shells |-> <<0>>] /\ workspace \in Workspaces /\ host \in Hosts
    BY DEF EnvInit
  <2>2. <<0>> \in Seq(Nat) /\ Len(<<0>>) > 0
    OBVIOUS
  <2>3. cache = [sh \in Shells |-> cache[sh]]
    BY DEF EnvInit
  <2> QED
    BY <2>1, <2>2, <2>3 DEF EnvTypes
<1>2. \A sh \in Shells : EntryOK(sh)
  BY DEF EnvInit, EntryOK
<1>3. JobOK
  BY DEF EnvInit, JobOK
<1>4. EnvironmentAsTold
  BY DEF EnvInit, EnvironmentAsTold, NoSession
<1> QED
  BY <1>1, <1>2, <1>3, <1>4 DEF EnvInv

\* Steps that only create a session, and steps of the bootstrap that only read.
LEMMA OnlyGiven ==
    ASSUME EnvInv, UNCHANGED <<clock, since, workspace, host, cache, job>>, EnvironmentAsTold'
    PROVE  EnvInv'
<1>1. EnvTypes'
  BY DEF EnvInv, EnvTypes
<1>2. \A sh \in Shells : EntryOK(sh)'
  BY DEF EnvInv, EntryOK, Printed
<1>3. JobOK'
  BY DEF EnvInv, JobOK, Printed, ResolveBootstrapShell
<1> QED
  BY <1>1, <1>2, <1>3 DEF EnvInv

LEMMA OnlyJob ==
    ASSUME EnvInv, UNCHANGED <<clock, since, workspace, host, cache, given>>, JobOK'
    PROVE  EnvInv'
<1>1. EnvTypes'
  BY DEF EnvInv, EnvTypes
<1>2. \A sh \in Shells : EntryOK(sh)'
  BY DEF EnvInv, EntryOK, Printed
<1>3. EnvironmentAsTold'
  <2>1. EnvironmentAsTold /\ UNCHANGED <<given, since, workspace>>
    BY DEF EnvInv
  <2> QED
    BY <2>1, ToldStays
<1> QED
  BY <1>1, <1>2, <1>3 DEF EnvInv

\* What was printed from t on is recent enough for a request less than Ttl later.
LEMMA PrintedIsRecent ==
    ASSUME EnvTypes, NEW sh \in Shells, NEW env, NEW t \in Nat, NEW at \in Nat, Printed(sh, env, t), at - t < Ttl
    PROVE  env \in Recent(sh, at)
<1>1. PICK v \in DOMAIN since[sh] :
        /\ env = ParseEnvZero(<<ShellEnvs[sh][v]>>)
        /\ v < Len(since[sh]) => since[sh][v + 1] >= t
  BY DEF Printed
<1>2. PICK q \in Seq(Nat) : q = since[sh]
  BY DEF EnvTypes
<1>3. ASSUME v < Len(q) PROVE q[v + 1] + Ttl > at
  <2>0. PICK L \in Nat : L = Len(q) /\ DOMAIN q = 1..L
    OBVIOUS
  <2>1. v + 1 \in DOMAIN q
    <3>1. v \in 1..L /\ v < L
      BY <1>1, <1>2, <1>3, <2>0, Zenon
    <3>2. v + 1 \in 1..L
      BY <3>1
    <3> QED
      BY <2>0, <3>2
  <2>2. q[v + 1] \in Nat /\ Ttl \in Nat
    <3>1. q[v + 1] \in Nat
      BY <2>1
    <3> QED
      BY <3>1, TimesAssumption
  <2>3. q[v + 1] >= t
    BY <1>1, <1>2, <1>3
  <2> QED
    BY <2>2, <2>3
<1> QED
  BY <1>1, <1>2, <1>3 DEF Recent

LEMMA InvCreate ==
    ASSUME EnvInv, NEW request \in Requests, Create(request) PROVE EnvInv'
<1>1. workspace \in Workspaces
  BY DEF EnvInv, EnvTypes
<1>2. UNCHANGED <<clock, since, workspace, host, cache, job>> /\ given' = Launched(request, Nothing, FALSE, clock)
  BY DEF Create
<1>3. EnvironmentAsTold'
  <2>1. PICK captured, no : captured = Nothing /\ no = FALSE
    OBVIOUS
  <2>2. PICK at : at = clock
    OBVIOUS
  <2>3. given' = Launched(request, captured, no, at)
    BY <1>2, <2>1, <2>2, Zenon
  <2>4. UNCHANGED <<since, workspace>>
    BY <1>2
  <2> QED
    BY <1>1, <2>1, <2>3, <2>4, LaunchedAsTold
<1> QED
  BY <1>2, <1>3, OnlyGiven

LEMMA InvCreateFromCache ==
    ASSUME EnvInv, NEW request \in Requests, CreateFromCache(request) PROVE EnvInv'
<1>1. EnvTypes /\ workspace \in Workspaces /\ clock \in Nat /\ \A x \in Shells : EntryOK(x)
  BY DEF EnvInv, EnvTypes
<1>2. PICK sh \in Shells : sh = ResolveBootstrapShell
  BY <1>1, ShellIsThere DEF EnvTypes
<1>3. PICK captured, from, at, no : captured = cache[sh][1].env /\ from = cache[sh][1].at /\ at = clock /\ no = FALSE
  OBVIOUS
<1>4. UNCHANGED <<clock, since, workspace, host, cache, job>> /\ given' = Launched(request, captured, no, at)
  BY <1>2, <1>3 DEF CreateFromCache
<1>5. cache[sh] # None /\ at - from < Ttl
  BY <1>2, <1>3 DEF CreateFromCache, Cached
<1>6. from \in Nat /\ (captured # Nothing => Printed(sh, captured, from))
  BY <1>1, <1>3, <1>5 DEF EntryOK
<1>7. captured # Nothing => captured \in Recent(ResolveBootstrapShell, at)
  <2>1. at \in Nat
    BY <1>1, <1>3
  <2> QED
    BY <1>1, <1>2, <1>5, <1>6, <2>1, PrintedIsRecent
<1>8. EnvironmentAsTold'
  <2>1. UNCHANGED <<since, workspace>>
    BY <1>4
  <2> QED
    BY <1>1, <1>4, <1>7, <2>1, LaunchedAsTold
<1> QED
  BY <1>4, <1>8, OnlyGiven

\* A step of the shell, or of the io thread that reads from it.
LEMMA JobStep ==
    ASSUME EnvInv, job # Idle, UNCHANGED <<clock, since, workspace, host, cache, given>>, NEW j,
           job' = j, IsJob(j), j.request = job.request, j.start = job.start,
           j.out = job.out \/ j.out = <<LoginEnv(ResolveBootstrapShell)>>
    PROVE  EnvInv'
<1>1. EnvTypes /\ JobOK
  BY DEF EnvInv
<1>2. PICK sh \in Shells : sh = ResolveBootstrapShell
  BY <1>1, ShellIsThere DEF EnvTypes
<1>3. /\ clock' = clock /\ since' = since /\ host' = host
  OBVIOUS
<1>4. j.request \in Requests /\ j.start \in Nat /\ j.start <= clock
  BY <1>1 DEF JobOK
<1>5. PICK out, start : out = j.out /\ start = j.start
  OBVIOUS
<1>6. ASSUME out # None PROVE Printed(sh, ParseEnvZero(out), start)
  <2>1. CASE out = job.out
    BY <1>1, <1>2, <1>5, <1>6, <2>1 DEF JobOK
  <2>2. CASE out = <<LoginEnv(ResolveBootstrapShell)>>
    <3>1. PICK q \in Seq(Nat) : q = since[sh] /\ Len(q) > 0
      BY <1>1 DEF EnvTypes
    <3>2. PICK v : v = Len(since[sh])
      OBVIOUS
    <3>3. v \in DOMAIN since[sh] /\ ~(v < Len(since[sh]))
      BY <3>1, <3>2
    <3>4. ParseEnvZero(out) = ParseEnvZero(<<ShellEnvs[sh][v]>>)
      BY <1>2, <2>2, <3>2, Zenon DEF LoginEnv
    <3> QED
      BY <3>3, <3>4 DEF Printed
  <2> QED
    BY <1>5, <2>1, <2>2
<1>7. ResolveBootstrapShell' = sh
  BY <1>2, <1>3, Zenon DEF ResolveBootstrapShell
<1>8. Printed(sh, ParseEnvZero(out), start)' <=> Printed(sh, ParseEnvZero(out), start)
  BY <1>3, Zenon DEF Printed
<1>9. job.out' # None => Printed(ResolveBootstrapShell, ParseEnvZero(job.out), job.start)'
  <2>1. job'.out = out /\ job'.start = start
    BY <1>5
  <2>2. Printed(ResolveBootstrapShell, ParseEnvZero(job.out), job.start)' <=> Printed(sh, ParseEnvZero(out), start)'
    <3>1. PICK env : env = ParseEnvZero(out)
      OBVIOUS
    <3>2. ParseEnvZero(job.out)' = env
      BY <2>1, <3>1, Zenon DEF ParseEnvZero
    <3>3. Printed(ResolveBootstrapShell, ParseEnvZero(job.out), job.start)' <=> Printed(sh, env, start)'
      BY <1>7, <2>1, <3>2, Zenon DEF Printed
    <3>4. Printed(sh, env, start)' <=> Printed(sh, ParseEnvZero(out), start)'
      BY <3>1, Zenon DEF Printed, ParseEnvZero
    <3> QED
      BY <3>3, <3>4
  <2> QED
    BY <1>6, <1>8, <2>1, <2>2, Zenon
<1>10. JobOK'
  BY <1>3, <1>4, <1>9 DEF JobOK
<1> QED
  BY <1>10, OnlyJob

LEMMA InvPipesEnd == ASSUME EnvInv, PipesEnd PROVE EnvInv'
<1>1. job # Idle
  BY DEF PipesEnd, Reading, Idle
<1>2. IsJob(job)
  BY <1>1 DEF EnvInv, JobOK
<1>3. PICK j : j = [job EXCEPT !.step = "waits"]
  OBVIOUS
<1>4. IsJob(j) /\ j.request = job.request /\ j.start = job.start /\ j.out = job.out
  BY <1>2, <1>3 DEF IsJob
<1>5. job' = j /\ UNCHANGED <<clock, since, workspace, host, cache, given>>
  BY <1>3 DEF PipesEnd
<1> QED
  BY <1>1, <1>4, <1>5, JobStep

LEMMA InvShellPrints == ASSUME EnvInv, ShellPrints PROVE EnvInv'
<1>1. job # Idle
  BY DEF ShellPrints, Reading, Idle
<1>2. IsJob(job)
  BY <1>1 DEF EnvInv, JobOK
<1>3. PICK out : out = <<LoginEnv(ResolveBootstrapShell)>>
  OBVIOUS
<1>4. PICK j : j = [job EXCEPT !.out = out]
  OBVIOUS
<1>5. IsJob(j) /\ j.request = job.request /\ j.start = job.start /\ j.out = out
  BY <1>2, <1>4 DEF IsJob
<1>6. job' = j /\ UNCHANGED <<clock, since, workspace, host, cache, given>>
  BY <1>3, <1>4 DEF ShellPrints, ShellDoes
<1> QED
  BY <1>1, <1>3, <1>5, <1>6, JobStep

\* The other steps of the shell and of what it leaves behind.
LEMMA InvShell ==
    ASSUME EnvInv, ShellWarns \/ ShellLeavesProcess \/ ShellCloses \/ (\E how \in {"done", "failed"} : ShellEnds(how)) \/ HolderEnds
    PROVE  EnvInv'
<1>1. job # Idle
  BY DEF ShellWarns, ShellLeavesProcess, ShellCloses, ShellEnds, ShellDoes, HolderEnds
<1>2. IsJob(job)
  BY <1>1 DEF EnvInv, JobOK
<1>3. UNCHANGED <<clock, since, workspace, host, cache, given>>
  BY DEF ShellWarns, ShellLeavesProcess, ShellCloses, ShellEnds, ShellDoes, HolderEnds
<1>4. PICK j : j = job'
  OBVIOUS
<1>5. IsJob(j) /\ j.request = job.request /\ j.start = job.start /\ j.out = job.out
  <2>1. CASE ShellWarns
    <3>1. j = [job EXCEPT !.err = TRUE]
      BY <1>4, <2>1 DEF ShellWarns, ShellDoes
    <3> QED
      BY <1>2, <3>1 DEF IsJob
  <2>2. CASE ShellLeavesProcess
    <3>1. j = [job EXCEPT !.holder = TRUE]
      BY <1>4, <2>2 DEF ShellLeavesProcess, ShellDoes
    <3> QED
      BY <1>2, <3>1 DEF IsJob
  <2>3. CASE ShellCloses
    <3>1. j = [job EXCEPT !.open = FALSE]
      BY <1>4, <2>3 DEF ShellCloses, ShellDoes
    <3> QED
      BY <1>2, <3>1 DEF IsJob
  <2>4. ASSUME NEW how, ShellEnds(how)
        PROVE  IsJob(j) /\ j.request = job.request /\ j.start = job.start /\ j.out = job.out
    <3>1. j = [job EXCEPT !.child = how, !.open = FALSE]
      BY <1>4, <2>4 DEF ShellEnds, ShellDoes
    <3> QED
      BY <1>2, <3>1 DEF IsJob
  <2>5. CASE HolderEnds
    <3>1. j = [job EXCEPT !.holder = FALSE]
      BY <1>4, <2>5 DEF HolderEnds
    <3> QED
      BY <1>2, <3>1 DEF IsJob
  <2> QED
    BY <2>1, <2>2, <2>3, <2>4, <2>5
<1> QED
  BY <1>1, <1>3, <1>4, <1>5, JobStep

LEMMA InvRunBootstrap ==
    ASSUME EnvInv, NEW request \in Requests, RunBootstrap(request) PROVE EnvInv'
<1>1. /\ clock' = clock /\ since' = since /\ workspace' = workspace /\ host' = host
      /\ cache' = [cache EXCEPT ![ResolveBootstrapShell] = None]
  BY DEF RunBootstrap
<1>2. EnvTypes /\ (\A sh \in Shells : EntryOK(sh)) /\ clock \in Nat
  BY DEF EnvInv, EnvTypes
<1>3. EnvTypes'
  <2>1. cache' = [sh \in Shells |-> cache'[sh]]
    BY <1>1, <1>2 DEF EnvTypes
  <2> QED
    BY <1>1, <1>2, <2>1 DEF EnvTypes
<1>4. ASSUME NEW sh \in Shells PROVE EntryOK(sh)'
  <2>1. PICK here : here = ResolveBootstrapShell
    OBVIOUS
  <2>2. cache'[sh] = None \/ cache'[sh] = cache[sh]
    <3>1. cache = [x \in Shells |-> cache[x]] /\ cache' = [cache EXCEPT ![here] = None]
      BY <1>1, <1>2, <2>1 DEF EnvTypes
    <3> QED
      BY <3>1
  <2>3. CASE cache'[sh] = None
    BY <2>3 DEF EntryOK
  <2>4. CASE cache'[sh] = cache[sh]
    BY <1>1, <1>2, <2>4 DEF EntryOK, Printed
  <2> QED
    BY <2>2, <2>3, <2>4
<1>5. JobOK'
  <2>1. CASE job' = job
    <3>1. job' = Idle
      BY <2>1 DEF RunBootstrap
    <3> QED
      BY <3>1 DEF JobOK, Idle
  <2>2. CASE job' # job
    <3>1. PICK start : start = clock
      OBVIOUS
    <3>2. PICK j : j = [step |-> "reads", request |-> request, start |-> start, out |-> None,
                        err |-> FALSE, child |-> "running", open |-> TRUE, holder |-> FALSE]
      OBVIOUS
    <3>3. job' = j
      BY <2>2, <3>1, <3>2 DEF RunBootstrap
    <3>4. IsJob(j) /\ j.request = request /\ j.start = start /\ j.out = None
      BY <3>2 DEF IsJob
    <3> QED
      BY <1>1, <1>2, <3>1, <3>3, <3>4 DEF JobOK
  <2> QED
    BY <2>1, <2>2
<1>6. EnvironmentAsTold'
  <2>1. given' = NoSession \/ given' = Failed(request)
    BY DEF RunBootstrap
  <2> QED
    BY <2>1, NothingTold
<1> QED
  BY <1>3, <1>4, <1>5, <1>6 DEF EnvInv

LEMMA InvBootstrapTimesOut == ASSUME EnvInv, BootstrapTimesOut PROVE EnvInv'
<1>1. /\ clock' = clock /\ since' = since /\ workspace' = workspace /\ host' = host /\ cache' = cache
      /\ job' = Idle
  BY DEF BootstrapTimesOut
<1>2. EnvTypes'
  BY <1>1 DEF EnvInv, EnvTypes
<1>3. \A sh \in Shells : EntryOK(sh)'
  BY <1>1 DEF EnvInv, EntryOK, Printed
<1>4. JobOK'
  BY <1>1 DEF JobOK, Idle
<1>5. EnvironmentAsTold'
  <2>1. PICK request : given' = Failed(request)
    BY DEF BootstrapTimesOut
  <2> QED
    BY <2>1, NothingTold
<1> QED
  BY <1>2, <1>3, <1>4, <1>5 DEF EnvInv

\* The entry is as old as the bootstrap, which is no older than what the shell printed.
LEMMA InvBootstrapEnds == ASSUME EnvInv, BootstrapEndsWithShell PROVE EnvInv'
<1>1. /\ clock' = clock /\ since' = since /\ workspace' = workspace /\ host' = host /\ job' = Idle
      /\ job.step = "waits"
  BY DEF BootstrapEndsWithShell
<1>2. EnvTypes /\ (\A x \in Shells : EntryOK(x)) /\ workspace \in Workspaces /\ clock \in Nat
  BY DEF EnvInv, EnvTypes
<1>3. PICK sh \in Shells : sh = ResolveBootstrapShell
  BY <1>2, ShellIsThere DEF EnvTypes
<1>4. PICK request, env, err, start :
        request = job.request /\ env = ParseEnvZero(job.out) /\ err = job.err /\ start = job.start
  OBVIOUS
<1>5. request \in Requests /\ start \in Nat /\ start <= clock /\ (env # Nothing => Printed(sh, env, start))
  <2>1. job # Idle /\ JobOK
    BY <1>1 DEF EnvInv, Idle
  <2>2. job.out = None => env = Nothing
    BY <1>4 DEF ParseEnvZero
  <2>3. job.out # None => Printed(sh, env, start)
    BY <1>3, <1>4, <2>1 DEF JobOK
  <2> QED
    BY <1>4, <2>1, <2>2, <2>3 DEF JobOK
<1>6. JobOK'
  BY <1>1 DEF JobOK, Idle
<1>7. CASE cache' = cache /\ given' = Failed(request)
  <2>1. EnvTypes'
    BY <1>1, <1>2, <1>7 DEF EnvTypes
  <2>2. \A x \in Shells : EntryOK(x)'
    BY <1>1, <1>2, <1>7 DEF EntryOK, Printed
  <2>3. EnvironmentAsTold'
    BY <1>7, NothingTold
  <2> QED
    BY <1>6, <2>1, <2>2, <2>3 DEF EnvInv
<1>8. CASE /\ cache' = [cache EXCEPT ![sh] = <<[env |-> env, at |-> start]>>]
           /\ given' = Launched(request, env, err, start)
  <2>1. EnvTypes'
    <3>1. cache' = [x \in Shells |-> cache'[x]]
      BY <1>2, <1>8 DEF EnvTypes
    <3> QED
      BY <1>1, <1>2, <3>1 DEF EnvTypes
  <2>2. ASSUME NEW x \in Shells PROVE EntryOK(x)'
    <3>1. PICK entry : entry = [env |-> env, at |-> start]
      OBVIOUS
    <3>2. cache = [y \in Shells |-> cache[y]] /\ cache' = [cache EXCEPT ![sh] = <<entry>>]
      BY <1>2, <1>8, <3>1 DEF EnvTypes
    <3>3. CASE x = sh
      <4>1. cache'[x][1] = entry
        BY <3>2, <3>3
      <4>2. cache'[x][1].at = start /\ cache'[x][1].env = env
        BY <3>1, <4>1
      <4>3. Printed(sh, env, start)' <=> Printed(sh, env, start)
        BY <1>1, Zenon DEF Printed
      <4>4. Printed(x, cache[x][1].env, cache[x][1].at)' <=> Printed(sh, env, start)'
        BY <3>3, <4>2, Zenon DEF Printed
      <4> QED
        BY <1>1, <1>5, <4>2, <4>3, <4>4 DEF EntryOK
    <3>4. CASE x # sh
      <4>1. cache'[x] = cache[x]
        BY <3>2, <3>4
      <4> QED
        BY <1>1, <1>2, <4>1 DEF EntryOK, Printed
    <3> QED
      BY <3>3, <3>4
  <2>3. EnvironmentAsTold'
    <3>1. env # Nothing => env \in Recent(ResolveBootstrapShell, start)
      <4>1. start - start < Ttl
        BY <1>5, TimesAssumption
      <4> QED
        BY <1>2, <1>3, <1>5, <4>1, PrintedIsRecent
    <3>2. UNCHANGED <<since, workspace>>
      BY <1>1
    <3> QED
      BY <1>2, <1>5, <1>8, <3>1, <3>2, LaunchedAsTold
  <2> QED
    BY <1>6, <2>1, <2>2, <2>3 DEF EnvInv
<1> QED
  BY <1>3, <1>4, <1>7, <1>8 DEF BootstrapEndsWithShell

\* What was printed stays so when the profile changes: the new one begins now.
LEMMA PrintedStays ==
    ASSUME EnvTypes, NEW changed \in Shells, since' = [since EXCEPT ![changed] = Append(@, clock)],
           NEW sh \in Shells, NEW env, NEW t \in Nat, t <= clock, Printed(sh, env, t)
    PROVE  Printed(sh, env, t)'
<1>1. PICK v \in DOMAIN since[sh] :
        /\ env = ParseEnvZero(<<ShellEnvs[sh][v]>>)
        /\ v < Len(since[sh]) => since[sh][v + 1] >= t
  BY DEF Printed
<1>2. PICK q \in Seq(Nat) : q = since[sh]
  BY DEF EnvTypes
<1>3. PICK now \in Nat : now = clock
  BY DEF EnvTypes
<1>4. since'[sh] = q \/ since'[sh] = Append(q, now)
  BY <1>2, <1>3 DEF EnvTypes
<1>5. v \in 1..Len(q) /\ v \in Nat
  BY <1>1, <1>2
<1>6. v \in DOMAIN since'[sh] /\ (v < Len(since'[sh]) => since'[sh][v + 1] >= t)
  <2>1. CASE since'[sh] = q
    BY <1>1, <1>2, <2>1
  <2>2. CASE since'[sh] = Append(q, now)
    <3>1. PICK p : p = Append(q, now)
      OBVIOUS
    <3>2. Len(p) = Len(q) + 1 /\ DOMAIN p = 1..Len(q) + 1 /\ p[Len(q) + 1] = now
      BY <3>1
    <3>3. v + 1 \in 1..Len(q) => p[v + 1] = q[v + 1]
      BY <3>1
    <3>4. CASE v < Len(q)
      <4>1. v + 1 \in 1..Len(q) /\ v \in 1..Len(q) + 1
        BY <1>5, <3>4
      <4>2. p[v + 1] >= t
        BY <1>1, <1>2, <3>3, <3>4, <4>1, Zenon
      <4> QED
        BY <2>2, <3>1, <3>2, <4>1, <4>2, Zenon
    <3>5. CASE v = Len(q)
      <4>1. v \in 1..Len(q) + 1
        BY <1>5
      <4>2. p[v + 1] >= t
        BY <1>3, <3>2, <3>5
      <4> QED
        BY <2>2, <3>1, <3>2, <4>1, <4>2, Zenon
    <3>6. v < Len(q) \/ v = Len(q)
      <4>1. PICK L \in Nat : L = Len(q)
        OBVIOUS
      <4>2. v \in 1..L
        BY <1>5, <4>1
      <4>3. v < L \/ v = L
        BY <4>2
      <4> QED
        BY <4>1, <4>3
    <3> QED
      BY <3>4, <3>5, <3>6, Zenon
  <2> QED
    BY <1>4, <2>1, <2>2
<1> QED
  BY <1>1, <1>6 DEF Printed

LEMMA InvProfileChanges ==
    ASSUME EnvInv, NEW changed \in Shells, ProfileChanges(changed) PROVE EnvInv'
<1>1. /\ since' = [since EXCEPT ![changed] = Append(@, clock)] /\ given' = NoSession
      /\ clock' = clock /\ workspace' = workspace /\ host' = host /\ cache' = cache /\ job' = job
  BY DEF ProfileChanges
<1>2. EnvTypes /\ JobOK /\ clock \in Nat /\ \A x \in Shells : EntryOK(x)
  BY DEF EnvInv, EnvTypes
<1>3. EnvTypes'
  <2>1. PICK now \in Nat : now = clock
    BY <1>2
  <2>2. since \in [Shells -> Seq(Nat)] /\ since' = [since EXCEPT ![changed] = Append(since[changed], now)]
    BY <1>1, <1>2, <2>1 DEF EnvTypes
  <2>3. Append(since[changed], now) \in Seq(Nat) /\ Len(Append(since[changed], now)) > 0
    <3>1. PICK q \in Seq(Nat) : q = since[changed]
      BY <2>2
    <3>2. Append(q, now) \in Seq(Nat) /\ Len(Append(q, now)) = Len(q) + 1 /\ Len(q) \in Nat
      OBVIOUS
    <3> QED
      BY <3>1, <3>2
  <2>4. since' \in [Shells -> Seq(Nat)]
    BY <2>2, <2>3
  <2>5. ASSUME NEW sh \in Shells PROVE Len(since'[sh]) > 0
    <3>1. since'[sh] = since[sh] \/ since'[sh] = Append(since[changed], now)
      BY <2>2
    <3> QED
      BY <1>2, <2>3, <3>1 DEF EnvTypes
  <2> QED
    BY <1>1, <1>2, <2>4, <2>5 DEF EnvTypes
<1>4. ASSUME NEW sh \in Shells PROVE EntryOK(sh)'
  <2> SUFFICES ASSUME cache[sh] # None
               PROVE  /\ cache[sh][1].at \in Nat /\ cache[sh][1].at <= clock
                      /\ cache[sh][1].env # Nothing => Printed(sh, cache[sh][1].env, cache[sh][1].at)'
    BY <1>1 DEF EntryOK
  <2>1. PICK env, at : env = cache[sh][1].env /\ at = cache[sh][1].at
    OBVIOUS
  <2>2. at \in Nat /\ at <= clock /\ (env # Nothing => Printed(sh, env, at))
    BY <1>2, <2>1 DEF EntryOK
  <2>3. env # Nothing => Printed(sh, env, at)'
    BY <1>1, <1>2, <2>2, PrintedStays
  <2>4. Printed(sh, cache[sh][1].env, cache[sh][1].at)' <=> Printed(sh, env, at)'
    BY <1>1, <2>1, Zenon DEF Printed
  <2> QED
    BY <2>1, <2>2, <2>3, <2>4, Zenon
<1>5. JobOK'
  <2> SUFFICES ASSUME job # Idle
               PROVE  /\ IsJob(job) /\ job.request \in Requests /\ job.start \in Nat /\ job.start <= clock
                      /\ job.out # None => Printed(ResolveBootstrapShell, ParseEnvZero(job.out), job.start)'
    BY <1>1 DEF JobOK
  <2>1. PICK sh \in Shells : sh = ResolveBootstrapShell
    BY <1>2, ShellIsThere DEF EnvTypes
  <2>2. PICK env, start : env = ParseEnvZero(job.out) /\ start = job.start
    OBVIOUS
  <2>3. /\ IsJob(job) /\ job.request \in Requests /\ start \in Nat /\ start <= clock
        /\ job.out # None => Printed(sh, env, start)
    BY <1>2, <2>1, <2>2 DEF JobOK
  <2>4. job.out # None => Printed(sh, env, start)'
    BY <1>1, <1>2, <2>3, PrintedStays
  <2>5. ResolveBootstrapShell' = sh /\ ParseEnvZero(job.out)' = env /\ job'.start = start
    BY <1>1, <2>1, <2>2, Zenon DEF ResolveBootstrapShell, ParseEnvZero
  <2>6. Printed(ResolveBootstrapShell, ParseEnvZero(job.out), job.start)' <=> Printed(sh, env, start)'
    BY <2>5, Zenon DEF Printed
  <2> QED
    BY <2>2, <2>3, <2>4, <2>6, Zenon
<1>6. EnvironmentAsTold'
  BY <1>1, NothingTold
<1> QED
  BY <1>3, <1>4, <1>5, <1>6 DEF EnvInv

LEMMA InvHostChanges == ASSUME EnvInv, HostChanges PROVE EnvInv'
<1>1. /\ job = Idle /\ host' \in Hosts /\ given' = NoSession
      /\ clock' = clock /\ since' = since /\ workspace' = workspace /\ cache' = cache /\ job' = job
  BY DEF HostChanges
<1>2. EnvTypes'
  BY <1>1 DEF EnvInv, EnvTypes
<1>3. \A sh \in Shells : EntryOK(sh)'
  BY <1>1 DEF EnvInv, EntryOK, Printed
<1>4. JobOK'
  BY <1>1 DEF JobOK, Idle
<1>5. EnvironmentAsTold'
  BY <1>1, NothingTold
<1> QED
  BY <1>2, <1>3, <1>4, <1>5 DEF EnvInv

LEMMA InvTick == ASSUME EnvInv, Tick PROVE EnvInv'
<1>1. /\ clock' = clock + 1 /\ given' = NoSession
      /\ since' = since /\ workspace' = workspace /\ host' = host /\ cache' = cache /\ job' = job
  BY DEF Tick
<1>2. clock \in Nat /\ EnvTypes /\ JobOK /\ \A sh \in Shells : EntryOK(sh)
  BY DEF EnvInv, EnvTypes
<1>3. EnvTypes'
  BY <1>1, <1>2 DEF EnvTypes
<1>4. ASSUME NEW sh \in Shells PROVE EntryOK(sh)'
  BY <1>1, <1>2 DEF EntryOK, Printed
<1>5. JobOK'
  BY <1>1, <1>2 DEF JobOK, Printed, ResolveBootstrapShell
<1>6. EnvironmentAsTold'
  BY <1>1, NothingTold
<1> QED
  BY <1>3, <1>4, <1>5, <1>6 DEF EnvInv

LEMMA EnvInvNext == EnvInv /\ [EnvNext]_envVars => EnvInv'
<1> SUFFICES ASSUME EnvInv, [EnvNext]_envVars PROVE EnvInv'
  OBVIOUS
<1>1. CASE UNCHANGED envVars
  <2>1. UNCHANGED <<clock, since, workspace, host, cache, job>> /\ UNCHANGED <<given, since, workspace>>
    BY <1>1 DEF envVars
  <2>2. EnvironmentAsTold
    BY DEF EnvInv
  <2>3. EnvironmentAsTold'
    BY <2>1, <2>2, ToldStays
  <2> QED
    BY <2>1, <2>3, OnlyGiven
<1>2. CASE \E request \in Requests : Create(request) \/ CreateFromCache(request) \/ RunBootstrap(request)
  BY <1>2, InvCreate, InvCreateFromCache, InvRunBootstrap
<1>3. CASE Parent
  BY <1>3, InvBootstrapTimesOut, InvPipesEnd, InvBootstrapEnds DEF Parent
<1>4. CASE ShellPrints
  BY <1>4, InvShellPrints
<1>5. CASE ShellWarns \/ ShellLeavesProcess \/ ShellCloses \/ (\E how \in {"done", "failed"} : ShellEnds(how)) \/ HolderEnds
  BY <1>5, InvShell
<1>6. CASE HostChanges
  BY <1>6, InvHostChanges
<1>7. CASE Tick
  BY <1>7, InvTick
<1>8. CASE \E sh \in Shells : ProfileChanges(sh)
  BY <1>8, InvProfileChanges
<1> QED
  BY <1>1, <1>2, <1>3, <1>4, <1>5, <1>6, <1>7, <1>8 DEF EnvNext

\* In every session that is created, GET /sessions/{id}/env tells what the layers of
\* ResolveEnvironment come to - the highest one that has a variable gives it and is named as
\* its source, and the .env files count as one file - over what the session's own login shell
\* printed less than Ttl before, cached or not; and its program has that environment, except
\* a log session in shell mode.
THEOREM EnvironmentIsAsTold == EnvSpec => []EnvironmentAsTold
<1>1. EnvInv => EnvironmentAsTold
  BY DEF EnvInv
<1> QED
  BY <1>1, EnvInvInit, EnvInvNext, PTL DEF EnvSpec
===============================================================================
