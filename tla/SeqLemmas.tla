---------------------------- MODULE SeqLemmas ----------------------------
(***************************************************************************)
(* What Append, Tail and RemoveAt do to the elements of a queue, and to a  *)
(* queue that holds no element twice.                                      *)
(***************************************************************************)
EXTENDS Integers, SequencesExt, SequenceTheorems, TLAPS

\* No two entries of the queue s (of records) have the same field tx.
OneEach(s) == \A i, j \in DOMAIN s : s[i].tx = s[j].tx => i = j

LEMMA SeqOne ==
  ASSUME NEW S, NEW a \in S
  PROVE  /\ Append(<< >>, a) = <<a>>
         /\ Head(<<a>>) = a /\ Tail(<<a>>) = << >> /\ <<a>> # << >>
<1>1. Append(<< >>, a) = <<a>>
  OBVIOUS
<1>2. Head(<<a>>) = a /\ <<a>> # << >>
  OBVIOUS
<1>3. Tail(<<a>>) = << >>
  OBVIOUS
<1> QED
  BY <1>1, <1>2, <1>3

LEMMA SeqTwo ==
  ASSUME NEW S, NEW a \in S, NEW b \in S
  PROVE  /\ Append(<<a>>, b) = <<a, b>>
         /\ Head(<<a, b>>) = a /\ Tail(<<a, b>>) = <<b>> /\ <<a, b>> # << >>
<1>1. Append(<<a>>, b) = <<a, b>>
  <2>1. <<a>> \in Seq(S) /\ Len(<<a>>) = 1 /\ <<a>>[1] = a
    OBVIOUS
  <2>2. /\ Append(<<a>>, b) \in Seq(S) /\ Len(Append(<<a>>, b)) = 2
        /\ Append(<<a>>, b)[1] = a /\ Append(<<a>>, b)[2] = b
    BY <2>1, AppendProperties
  <2>3. /\ <<a, b>> \in Seq(S) /\ Len(<<a, b>>) = 2
        /\ <<a, b>>[1] = a /\ <<a, b>>[2] = b
    OBVIOUS
  <2>4. \A i \in 1..2 : i = 1 \/ i = 2
    OBVIOUS
  <2> QED
    BY <2>2, <2>3, <2>4, SeqEqual
<1>2. Head(<<a, b>>) = a /\ <<a, b>> # << >>
  OBVIOUS
<1>3. Tail(<<a, b>>) = <<b>>
  OBVIOUS
<1> QED
  BY <1>1, <1>2, <1>3

LEMMA TailOfOne ==
  ASSUME NEW S, NEW s \in Seq(S), Len(s) = 1
  PROVE  Tail(s) = << >>
<1>1. Tail(s) \in Seq(S) /\ Len(Tail(s)) = 0
  BY HeadTailProperties
<1> QED
  BY <1>1, EmptySeq

LEMMA AppendElements ==
  ASSUME NEW S, NEW s \in Seq(S), NEW e \in S
  PROVE  /\ Append(s, e) \in Seq(S)
         /\ \A j, k \in DOMAIN Append(s, e) : j < k =>
              /\ j \in DOMAIN s /\ Append(s, e)[j] = s[j]
              /\ \/ k \in DOMAIN s /\ Append(s, e)[k] = s[k]
                 \/ Append(s, e)[k] = e
<1>1. Append(s, e) \in Seq(S) /\ DOMAIN Append(s, e) = 1..(Len(s) + 1)
  OBVIOUS
<1>2. /\ \A i \in 1..Len(s) : Append(s, e)[i] = s[i]
      /\ Append(s, e)[Len(s) + 1] = e
      /\ DOMAIN s = 1..Len(s) /\ Len(s) \in Nat
  OBVIOUS
<1> QED
  BY <1>1, <1>2

LEMMA TailElements ==
  ASSUME NEW S, NEW s \in Seq(S), s # << >>
  PROVE  /\ Tail(s) \in Seq(S)
         /\ \A j \in DOMAIN Tail(s) :
              j \in Int /\ j + 1 \in DOMAIN s /\ Tail(s)[j] = s[j + 1]
OBVIOUS

LEMMA RangeAppend ==
  ASSUME NEW S, NEW s \in Seq(S), NEW e \in S
  PROVE  Range(Append(s, e)) = Range(s) \union {e}
<1>1. DOMAIN s = 1..Len(s) /\ Len(s) \in Nat
  OBVIOUS
<1>2. DOMAIN Append(s, e) = 1..(Len(s) + 1)
  OBVIOUS
<1>3. \A i \in 1..Len(s) : Append(s, e)[i] = s[i]
  OBVIOUS
<1>4. Append(s, e)[Len(s) + 1] = e
  OBVIOUS
<1>5. ASSUME NEW d \in Range(Append(s, e)) PROVE d \in Range(s) \union {e}
  BY <1>1, <1>2, <1>3, <1>4 DEF Range
<1>6. ASSUME NEW d \in Range(s) \union {e} PROVE d \in Range(Append(s, e))
  <2>1. CASE d = e
    <3>1. Len(s) + 1 \in DOMAIN Append(s, e)
      BY <1>1, <1>2
    <3> QED
      BY <1>4, <2>1, <3>1 DEF Range
  <2>2. CASE d \in Range(s)
    <3>1. PICK i \in 1..Len(s) : d = s[i]
      BY <1>1, <2>2 DEF Range
    <3>2. i \in DOMAIN Append(s, e)
      BY <1>1, <1>2
    <3> QED
      BY <1>3, <3>1, <3>2 DEF Range
  <2> QED
    BY <2>1, <2>2
<1> QED
  BY <1>5, <1>6

LEMMA RangeTail ==
  ASSUME NEW S, NEW s \in Seq(S), s # << >>
  PROVE  Head(s) \in Range(s) /\ Range(Tail(s)) \subseteq Range(s)
<1>1. /\ DOMAIN s = 1..Len(s) /\ Len(s) \in Nat /\ Len(s) > 0
      /\ Head(s) = s[1]
  OBVIOUS
<1>2. /\ DOMAIN Tail(s) = 1..(Len(s) - 1)
      /\ \A i \in 1..(Len(s) - 1) : Tail(s)[i] = s[i + 1]
  OBVIOUS
<1>3. Head(s) \in Range(s)
  BY <1>1 DEF Range
<1>4. ASSUME NEW d \in Range(Tail(s)) PROVE d \in Range(s)
  <2>1. PICK i \in 1..(Len(s) - 1) : d = s[i + 1]
    BY <1>2 DEF Range
  <2>2. i + 1 \in DOMAIN s
    BY <1>1
  <2> QED
    BY <2>1, <2>2 DEF Range
<1> QED
  BY <1>3, <1>4

LEMMA RangeHeadTail ==
  ASSUME NEW S, NEW s \in Seq(S), s # << >>
  PROVE  \A d \in Range(s) : d = Head(s) \/ d \in Range(Tail(s))
<1>1. /\ DOMAIN s = 1..Len(s) /\ Len(s) \in Nat /\ Len(s) > 0
      /\ Head(s) = s[1]
  OBVIOUS
<1>2. /\ DOMAIN Tail(s) = 1..(Len(s) - 1)
      /\ \A i \in 1..(Len(s) - 1) : Tail(s)[i] = s[i + 1]
  OBVIOUS
<1> SUFFICES ASSUME NEW i \in 1..Len(s), i # 1
             PROVE  s[i] \in Range(Tail(s))
  BY <1>1 DEF Range
<1>3. i - 1 \in 1..(Len(s) - 1) /\ (i - 1) + 1 = i
  BY <1>1
<1> QED
  BY <1>2, <1>3 DEF Range

LEMMA OneEachAppend ==
  ASSUME NEW S, NEW s \in Seq(S), NEW e \in S, OneEach(s),
         \A d \in Range(s) : d.tx # e.tx
  PROVE  OneEach(Append(s, e))
<1>1. DOMAIN s = 1..Len(s) /\ Len(s) \in Nat
  OBVIOUS
<1>2. /\ DOMAIN Append(s, e) = 1..(Len(s) + 1)
      /\ Append(s, e)[Len(s) + 1] = e
      /\ \A i \in 1..Len(s) : Append(s, e)[i] = s[i]
  OBVIOUS
<1>3. \A i \in 1..Len(s) : s[i].tx # e.tx
  BY <1>1 DEF Range
<1>4. \A i \in 1..(Len(s) + 1) : i \in 1..Len(s) \/ i = Len(s) + 1
  BY <1>1
<1> QED
  BY <1>1, <1>2, <1>3, <1>4 DEF OneEach

LEMMA OneEachTail ==
  ASSUME NEW S, NEW s \in Seq(S), s # << >>, OneEach(s)
  PROVE  OneEach(Tail(s)) /\ \A e \in Range(Tail(s)) : e.tx # Head(s).tx
<1>1. /\ DOMAIN s = 1..Len(s) /\ Len(s) \in Nat /\ Len(s) > 0
      /\ Head(s) = s[1]
  OBVIOUS
<1>2. /\ DOMAIN Tail(s) = 1..(Len(s) - 1)
      /\ \A i \in 1..(Len(s) - 1) : Tail(s)[i] = s[i + 1]
  OBVIOUS
<1>3. \A i \in 1..(Len(s) - 1) : i + 1 \in DOMAIN s /\ i + 1 # 1
  BY <1>1
<1>4. OneEach(Tail(s))
  <2> SUFFICES ASSUME NEW i \in 1..(Len(s) - 1), NEW j \in 1..(Len(s) - 1),
                      s[i + 1].tx = s[j + 1].tx
               PROVE  i = j
    BY <1>2 DEF OneEach
  <2>1. i + 1 = j + 1
    BY <1>3 DEF OneEach
  <2> QED
    BY <2>1
<1>5. ASSUME NEW e \in Range(Tail(s)) PROVE e.tx # Head(s).tx
  <2>1. PICK i \in 1..(Len(s) - 1) : e = s[i + 1]
    BY <1>2 DEF Range
  <2>2. 1 \in DOMAIN s
    BY <1>1
  <2> QED
    BY <1>1, <1>3, <2>1, <2>2 DEF OneEach
<1> QED
  BY <1>4, <1>5

LEMMA InjectiveAppend ==
  ASSUME NEW S, NEW s \in Seq(S), NEW e \in S, IsInjective(s), e \notin Range(s)
  PROVE  IsInjective(Append(s, e))
<1>1. DOMAIN s = 1..Len(s) /\ Len(s) \in Nat
  OBVIOUS
<1>2. /\ DOMAIN Append(s, e) = 1..(Len(s) + 1)
      /\ Append(s, e)[Len(s) + 1] = e
      /\ \A i \in 1..Len(s) : Append(s, e)[i] = s[i]
  OBVIOUS
<1>3. \A i \in 1..Len(s) : s[i] # e
  BY <1>1 DEF Range
<1>4. \A i \in 1..(Len(s) + 1) : i \in 1..Len(s) \/ i = Len(s) + 1
  BY <1>1
<1> QED
  BY <1>1, <1>2, <1>3, <1>4 DEF IsInjective

LEMMA InjectiveTail ==
  ASSUME NEW S, NEW s \in Seq(S), s # << >>, IsInjective(s)
  PROVE  IsInjective(Tail(s)) /\ Head(s) \notin Range(Tail(s))
<1>1. /\ DOMAIN s = 1..Len(s) /\ Len(s) \in Nat /\ Len(s) > 0
      /\ Head(s) = s[1]
  OBVIOUS
<1>2. /\ DOMAIN Tail(s) = 1..(Len(s) - 1)
      /\ \A i \in 1..(Len(s) - 1) : Tail(s)[i] = s[i + 1]
  OBVIOUS
<1>3. \A i \in 1..(Len(s) - 1) : i + 1 \in DOMAIN s /\ i + 1 # 1
  BY <1>1
<1>4. IsInjective(Tail(s))
  <2> SUFFICES ASSUME NEW i \in 1..(Len(s) - 1), NEW j \in 1..(Len(s) - 1),
                      s[i + 1] = s[j + 1]
               PROVE  i = j
    BY <1>2 DEF IsInjective
  <2>1. i + 1 = j + 1
    BY <1>3 DEF IsInjective
  <2> QED
    BY <2>1
<1>5. 1 \in DOMAIN s
  BY <1>1
<1> QED
  BY <1>1, <1>2, <1>3, <1>4, <1>5 DEF IsInjective, Range

\* The elements of RemoveAt(s, n) are those of s, without the one at n.
LEMMA RemoveAtElements ==
  ASSUME NEW S, NEW s \in Seq(S), NEW n \in 1..Len(s)
  PROVE  /\ DOMAIN RemoveAt(s, n) = 1..(Len(s) - 1)
         /\ \A i \in 1..(n - 1) : RemoveAt(s, n)[i] = s[i]
         /\ \A i \in n..(Len(s) - 1) : RemoveAt(s, n)[i] = s[i + 1]
<1>1. /\ SubSeq(s, 1, n - 1) \in Seq(S) /\ Len(SubSeq(s, 1, n - 1)) = n - 1
      /\ \A i \in 1..(n - 1) : SubSeq(s, 1, n - 1)[i] = s[i]
  OBVIOUS
<1>2. /\ SubSeq(s, n + 1, Len(s)) \in Seq(S)
      /\ Len(SubSeq(s, n + 1, Len(s))) = Len(s) - n
      /\ \A i \in 1..(Len(s) - n) : SubSeq(s, n + 1, Len(s))[i] = s[n + i]
  OBVIOUS
<1> DEFINE p == SubSeq(s, 1, n - 1)
           q == SubSeq(s, n + 1, Len(s))
           r == RemoveAt(s, n)
<1>3. r = p \o q
  BY DEF RemoveAt
<1> HIDE DEF p, q, r
<1>4. p \in Seq(S) /\ q \in Seq(S) /\ Len(p) = n - 1 /\ Len(q) = Len(s) - n
  BY <1>1, <1>2 DEF p, q
<1>5. /\ r \in Seq(S) /\ Len(r) = Len(p) + Len(q)
      /\ \A i \in 1..(Len(p) + Len(q)) :
           r[i] = IF i <= Len(p) THEN p[i] ELSE q[i - Len(p)]
  BY <1>3, <1>4, ConcatProperties
<1>6. Len(s) \in Nat /\ Len(r) = Len(s) - 1 /\ DOMAIN r = 1..(Len(s) - 1)
  BY <1>4, <1>5
<1>7. \A i \in 1..(n - 1) : r[i] = s[i]
  BY <1>1, <1>4, <1>5, <1>6, SMTT(30) DEF p
<1>8. ASSUME NEW i \in n..(Len(s) - 1) PROVE r[i] = s[i + 1]
  <2>1. i - (n - 1) \in 1..(Len(s) - n) /\ n + (i - (n - 1)) = i + 1
    BY <1>6
  <2>2. i \in 1..(Len(p) + Len(q)) /\ ~(i <= Len(p))
    BY <1>4, <1>6
  <2>3. r[i] = q[i - Len(p)]
    BY <1>5, <2>2
  <2>4. r[i] = q[i - (n - 1)]
    BY <1>4, <2>3
  <2> QED
    BY <1>2, <2>1, <2>4 DEF q
<1> QED
  BY <1>6, <1>7, <1>8 DEF r

LEMMA InjectiveRemoveAt ==
  ASSUME NEW S, NEW s \in Seq(S), NEW n \in 1..Len(s), IsInjective(s)
  PROVE  /\ IsInjective(RemoveAt(s, n))
         /\ Range(RemoveAt(s, n)) \subseteq Range(s) \ {s[n]}
<1> DEFINE r == RemoveAt(s, n)
           old(i) == IF i < n THEN i ELSE i + 1
<1>1. DOMAIN s = 1..Len(s) /\ Len(s) \in Nat
  OBVIOUS
<1>2. /\ DOMAIN r = 1..(Len(s) - 1)
      /\ \A i \in 1..(n - 1) : r[i] = s[i]
      /\ \A i \in n..(Len(s) - 1) : r[i] = s[i + 1]
  BY RemoveAtElements
<1> HIDE DEF r
<1>3. \A i \in DOMAIN r : r[i] = s[old(i)] /\ old(i) \in DOMAIN s /\ old(i) # n
  BY <1>1, <1>2
<1>4. \A i, j \in DOMAIN r : old(i) = old(j) => i = j
  BY <1>1, <1>2
<1> HIDE DEF old
<1>5. IsInjective(r)
  BY <1>3, <1>4 DEF IsInjective
<1>6. ASSUME NEW d \in Range(r) PROVE d \in Range(s) \ {s[n]}
  <2>1. PICK i \in DOMAIN r : d = r[i]
    BY DEF Range
  <2> QED
    BY <1>1, <1>3, <2>1 DEF Range, IsInjective
<1> QED
  BY <1>5, <1>6 DEF r

-----------------------------------------------------------------------------
(* The order of the elements of a queue.                                   *)

\* t is before u in the queue s; s holds transactions, or records with a field tx.
Precedes(s, t, u) == \E i, j \in DOMAIN s : i < j /\ s[i] = t /\ s[j] = u
PrecedesTx(s, t, u) == \E i, j \in DOMAIN s : i < j /\ s[i].tx = t /\ s[j].tx = u

LEMMA PrecedesAppend ==
  ASSUME NEW S, NEW s \in Seq(S), NEW e \in S
  PROVE  /\ \A t, u : Precedes(s, t, u) => Precedes(Append(s, e), t, u)
         /\ \A t \in Range(s) : Precedes(Append(s, e), t, e)
<1>1. DOMAIN s = 1..Len(s) /\ Len(s) \in Nat
  OBVIOUS
<1>2. /\ DOMAIN Append(s, e) = 1..(Len(s) + 1)
      /\ Append(s, e)[Len(s) + 1] = e
      /\ \A i \in 1..Len(s) : Append(s, e)[i] = s[i]
  OBVIOUS
<1>3. ASSUME NEW t, NEW u, Precedes(s, t, u) PROVE Precedes(Append(s, e), t, u)
  <2>1. PICK i \in 1..Len(s), j \in 1..Len(s) : i < j /\ s[i] = t /\ s[j] = u
    BY <1>1, <1>3 DEF Precedes
  <2>2. i \in DOMAIN Append(s, e) /\ j \in DOMAIN Append(s, e)
    BY <1>1, <1>2
  <2> QED
    BY <1>2, <2>1, <2>2 DEF Precedes
<1>4. ASSUME NEW t \in Range(s) PROVE Precedes(Append(s, e), t, e)
  <2>1. PICK i \in 1..Len(s) : s[i] = t
    BY <1>1 DEF Range
  <2>2. /\ i \in DOMAIN Append(s, e) /\ Len(s) + 1 \in DOMAIN Append(s, e)
        /\ i < Len(s) + 1
    BY <1>1, <1>2
  <2> QED
    BY <1>2, <2>1, <2>2 DEF Precedes
<1> QED
  BY <1>3, <1>4

LEMMA PrecedesRemoveAt ==
  ASSUME NEW S, NEW s \in Seq(S), NEW n \in 1..Len(s)
  PROVE  /\ \A t, u : Precedes(s, t, u) /\ t # s[n] /\ u # s[n] =>
              Precedes(RemoveAt(s, n), t, u)
         /\ Range(s) \ {s[n]} \subseteq Range(RemoveAt(s, n))
<1> DEFINE r == RemoveAt(s, n)
           new(i) == IF i < n THEN i ELSE i - 1
<1>1. DOMAIN s = 1..Len(s) /\ Len(s) \in Nat
  OBVIOUS
<1>2. /\ DOMAIN r = 1..(Len(s) - 1)
      /\ \A i \in 1..(n - 1) : r[i] = s[i]
      /\ \A i \in n..(Len(s) - 1) : r[i] = s[i + 1]
  BY RemoveAtElements
<1> HIDE DEF r
<1>3. ASSUME NEW i \in 1..Len(s), i # n
      PROVE  new(i) \in DOMAIN r /\ r[new(i)] = s[i]
  <2>1. CASE i < n
    BY <1>1, <1>2, <2>1
  <2>2. CASE i > n
    <3>1. i - 1 \in n..(Len(s) - 1) /\ (i - 1) + 1 = i /\ i - 1 \in 1..(Len(s) - 1)
      BY <1>1, <2>2
    <3> QED
      BY <1>1, <1>2, <2>2, <3>1
  <2> QED
    BY <1>1, <1>3, <2>1, <2>2
<1>4. \A i, j \in 1..Len(s) : i # n /\ j # n /\ i < j => new(i) < new(j)
  BY <1>1
<1> HIDE DEF new
<1>5. ASSUME NEW t, NEW u, Precedes(s, t, u), t # s[n], u # s[n]
      PROVE  Precedes(r, t, u)
  <2>1. PICK i \in 1..Len(s), j \in 1..Len(s) : i < j /\ s[i] = t /\ s[j] = u
    BY <1>1, <1>5 DEF Precedes
  <2>2. i # n /\ j # n
    BY <1>5, <2>1
  <2> QED
    BY <1>3, <1>4, <2>1, <2>2 DEF Precedes
<1>6. ASSUME NEW d \in Range(s), d # s[n] PROVE d \in Range(r)
  <2>1. PICK i \in 1..Len(s) : s[i] = d
    BY <1>1 DEF Range
  <2> QED
    BY <1>3, <1>6, <2>1 DEF Range
<1> QED
  BY <1>5, <1>6 DEF r

\* Nothing is before the first element.
LEMMA PrecedesFirst ==
  ASSUME NEW S, NEW s \in Seq(S), s # << >>, IsInjective(s)
  PROVE  \A t : ~Precedes(s, t, s[1])
<1>1. DOMAIN s = 1..Len(s) /\ Len(s) \in Nat /\ Len(s) > 0
  OBVIOUS
<1>2. \A i, j \in 1..Len(s) : i < j => j # 1
  BY <1>1
<1> QED
  BY <1>1, <1>2 DEF Precedes, IsInjective

LEMMA PrecedesTxAppend ==
  ASSUME NEW S, NEW s \in Seq(S), NEW e \in S
  PROVE  /\ \A t, u : PrecedesTx(s, t, u) => PrecedesTx(Append(s, e), t, u)
         /\ \A d \in Range(s) : PrecedesTx(Append(s, e), d.tx, e.tx)
<1>1. DOMAIN s = 1..Len(s) /\ Len(s) \in Nat
  OBVIOUS
<1>2. /\ DOMAIN Append(s, e) = 1..(Len(s) + 1)
      /\ Append(s, e)[Len(s) + 1] = e
      /\ \A i \in 1..Len(s) : Append(s, e)[i] = s[i]
  OBVIOUS
<1>3. ASSUME NEW t, NEW u, PrecedesTx(s, t, u)
      PROVE  PrecedesTx(Append(s, e), t, u)
  <2>1. PICK i \in 1..Len(s), j \in 1..Len(s) :
          i < j /\ s[i].tx = t /\ s[j].tx = u
    BY <1>1, <1>3 DEF PrecedesTx
  <2>2. i \in DOMAIN Append(s, e) /\ j \in DOMAIN Append(s, e)
    BY <1>1, <1>2
  <2> QED
    BY <1>2, <2>1, <2>2 DEF PrecedesTx
<1>4. ASSUME NEW d \in Range(s) PROVE PrecedesTx(Append(s, e), d.tx, e.tx)
  <2>1. PICK i \in 1..Len(s) : s[i] = d
    BY <1>1 DEF Range
  <2>2. /\ i \in DOMAIN Append(s, e) /\ Len(s) + 1 \in DOMAIN Append(s, e)
        /\ i < Len(s) + 1
    BY <1>1, <1>2
  <2> QED
    BY <1>2, <2>1, <2>2 DEF PrecedesTx
<1> QED
  BY <1>3, <1>4

LEMMA PrecedesTxTail ==
  ASSUME NEW S, NEW s \in Seq(S), s # << >>
  PROVE  \A t, u : PrecedesTx(s, t, u) /\ t # Head(s).tx => PrecedesTx(Tail(s), t, u)
<1>1. /\ DOMAIN s = 1..Len(s) /\ Len(s) \in Nat /\ Len(s) > 0
      /\ Head(s) = s[1]
  OBVIOUS
<1>2. /\ DOMAIN Tail(s) = 1..(Len(s) - 1)
      /\ \A i \in 1..(Len(s) - 1) : Tail(s)[i] = s[i + 1]
  OBVIOUS
<1> SUFFICES ASSUME NEW t, NEW u, PrecedesTx(s, t, u), t # Head(s).tx
             PROVE  PrecedesTx(Tail(s), t, u)
  OBVIOUS
<1>3. PICK i \in 1..Len(s), j \in 1..Len(s) : i < j /\ s[i].tx = t /\ s[j].tx = u
  BY <1>1 DEF PrecedesTx
<1>4. i # 1
  BY <1>1, <1>3
<1>5. /\ i - 1 \in 1..(Len(s) - 1) /\ j - 1 \in 1..(Len(s) - 1) /\ i - 1 < j - 1
      /\ (i - 1) + 1 = i /\ (j - 1) + 1 = j
  BY <1>1, <1>3, <1>4
<1> QED
  BY <1>2, <1>3, <1>5 DEF PrecedesTx

LEMMA PrecedesTxFirst ==
  ASSUME NEW S, NEW s \in Seq(S), s # << >>, OneEach(s)
  PROVE  \A t : ~PrecedesTx(s, t, Head(s).tx)
<1>1. /\ DOMAIN s = 1..Len(s) /\ Len(s) \in Nat /\ Len(s) > 0
      /\ Head(s) = s[1]
  OBVIOUS
<1>2. \A i, j \in 1..Len(s) : i < j => j # 1
  BY <1>1
<1> QED
  BY <1>1, <1>2 DEF PrecedesTx, OneEach
=============================================================================
