------------------------ MODULE ResponseBuffers_proofs ------------------------
(***************************************************************************)
(* Theorems about ResponseBuffers for any payloads, latencies, limits and  *)
(* recordings: payloads are neither lost nor doubled, responses leave in   *)
(* their order and in their time, and a bandwidth limit holds.             *)
(***************************************************************************)
EXTENDS ResponseBuffers, SeqLemmas, FiniteSetTheorems, WellFoundedInduction

-----------------------------------------------------------------------------
(* Finite sets of numbers.  Induction goes over finite sets, along the     *)
(* strict subset ordering of FiniteSetTheorems.                            *)

LEMMA LeastNumber ==
  ASSUME NEW S \in SUBSET Nat, S # {}
  PROVE  Min(S) \in S /\ \A y \in S : Min(S) <= y
<1> DEFINE T == {0 .. n : n \in S}
<1>1. T \subseteq FiniteSubsetsOf(Nat)
  <2>1. \A n \in Nat : IsFiniteSet(0 .. n)
    BY FS_Interval
  <2> QED
    BY <2>1 DEF FiniteSubsetsOf
<1>2. T # {}
  OBVIOUS
<1>3. \E x \in T : \A y \in T : <<y, x>> \notin StrictSubsetOrdering(Nat)
  <2> HIDE DEF T
  <2> QED
    BY <1>1, <1>2, WFMin, FS_StrictSubsetOrderingWellFounded
<1>4. PICK m \in S :
        \A n \in S : <<0 .. n, 0 .. m>> \notin StrictSubsetOrdering(Nat)
  BY <1>3
<1>5. \A n \in S : n < m => <<0 .. n, 0 .. m>> \in StrictSubsetOrdering(Nat)
  <2> SUFFICES ASSUME NEW n \in S, n < m
               PROVE  0 .. n \subseteq 0 .. m /\ 0 .. n # 0 .. m
    BY DEF StrictSubsetOrdering
  <2>1. m \in 0 .. m /\ m \notin 0 .. n
    OBVIOUS
  <2> QED
    BY <2>1
<1>6. \A n \in S : ~(n < m)
  BY <1>4, <1>5
<1>7. \A n \in S : m <= n
  BY <1>6
<1> QED
  BY <1>7 DEF Min

LEMMA GreatestNumber ==
  ASSUME NEW S \in SUBSET Nat, IsFiniteSet(S), S # {}
  PROVE  Max(S) \in S /\ \A y \in S : y <= Max(S)
<1> DEFINE Good(U) == \E m \in U : \A y \in U : y <= m
           B == {U \in FiniteSubsetsOf(Nat) : U # {} /\ ~Good(U)}
<1>1. SUFFICES B = {}
  BY <1>1 DEF FiniteSubsetsOf, Max
<1>2. SUFFICES ASSUME B # {}
               PROVE  FALSE
  OBVIOUS
<1>3. \E x \in B : \A y \in B : <<y, x>> \notin StrictSubsetOrdering(Nat)
  <2>1. B \subseteq FiniteSubsetsOf(Nat)
    OBVIOUS
  <2> HIDE DEF B
  <2> QED
    BY <1>2, <2>1, WFMin, FS_StrictSubsetOrderingWellFounded
<1>4. PICK U \in B : \A y \in B : <<y, U>> \notin StrictSubsetOrdering(Nat)
  BY <1>3
<1>5. U \in SUBSET Nat /\ IsFiniteSet(U) /\ U # {} /\ ~Good(U)
  BY DEF FiniteSubsetsOf
<1>6. PICK x \in U : TRUE
  BY <1>5
<1> DEFINE V == U \ {x}
<1>7. IsFiniteSet(V) /\ V \in SUBSET Nat
  BY <1>5, FS_RemoveElement
<1>8. V # {}
  <2>1. CASE V = {}
    <3>1. \A y \in U : y = x
      BY <2>1
    <3> QED
      BY <1>5, <1>6, <3>1
  <2> QED
    BY <2>1
<1>9. <<V, U>> \in StrictSubsetOrdering(Nat)
  BY <1>5, <1>6 DEF StrictSubsetOrdering
<1>10. V \notin B
  BY <1>4, <1>9
<1>11. Good(V)
  BY <1>7, <1>8, <1>10 DEF FiniteSubsetsOf
<1>12. PICK m \in V : \A y \in V : y <= m
  BY <1>11
<1>13. CASE m <= x
  BY <1>5, <1>6, <1>7, <1>12, <1>13
<1>14. CASE ~(m <= x)
  BY <1>5, <1>6, <1>7, <1>12, <1>14
<1> QED
  BY <1>13, <1>14

-----------------------------------------------------------------------------
(* The entries at some positions of a sequence.                            *)

LEMMA Ranks ==
  ASSUME NEW n \in Nat, NEW D \in SUBSET (1 .. n)
  PROVE  /\ Cardinality(D) \in Nat
         /\ \A i \in D : Rank(D, i) \in 1 .. Cardinality(D)
         /\ \A i, j \in D : i < j => Rank(D, i) < Rank(D, j)
<1>0. IsFiniteSet(1 .. n)
  BY FS_Interval
<1>1. IsFiniteSet(D)
  BY <1>0, FS_Subset
<1>2. Cardinality(D) \in Nat
  BY <1>1, FS_CardinalityType
<1> DEFINE Low(i) == {j \in D : j <= i}
<1>3. ASSUME NEW i \in D
      PROVE  IsFiniteSet(Low(i)) /\ Cardinality(Low(i)) <= Cardinality(D)
  <2>1. Low(i) \in SUBSET D
    OBVIOUS
  <2> HIDE DEF Low
  <2> QED
    BY <1>1, <2>1, FS_Subset
<1>4. \A i \in D : Cardinality(Low(i)) \in Nat
  BY <1>3, FS_CardinalityType
<1>5. \A i \in D : i \in Low(i) /\ Cardinality(Low(i)) # 0
  <2> TAKE i \in D
  <2>1. i \in Low(i)
    OBVIOUS
  <2> HIDE DEF Low
  <2> QED
    BY <1>3, <2>1, FS_EmptySet
<1>6. ASSUME NEW i \in D, NEW j \in D, i < j
      PROVE  Cardinality(Low(i)) < Cardinality(Low(j))
  <2>1. Low(i) \in SUBSET Low(j) /\ j \in Low(j) /\ j \notin Low(i)
    <3>1. \A k \in D : k \in Nat
      OBVIOUS
    <3>2. i \in Nat /\ j \in Nat
      BY <3>1
    <3>3. \A k \in D : k <= i => k <= j
      BY <1>6, <3>1, <3>2
    <3>4. j <= j /\ ~(j <= i)
      BY <1>6, <3>2
    <3> QED
      BY <3>3, <3>4
  <2> HIDE DEF Low
  <2>2. Cardinality(Low(i)) <= Cardinality(Low(j))
    BY <1>3, <2>1, FS_Subset
  <2>3. Cardinality(Low(i)) # Cardinality(Low(j))
    BY <1>3, <2>1, FS_Subset
  <2> QED
    BY <1>4, <2>2, <2>3
<1> HIDE DEF Low
<1>7. \A i \in D : Rank(D, i) = Cardinality(Low(i))
  BY DEF Rank, Low
<1> QED
  BY <1>2, <1>3, <1>4, <1>5, <1>6, <1>7

\* Places and ranks are inverse to each other.
LEMMA Places ==
  ASSUME NEW n \in Nat, NEW D \in SUBSET (1 .. n)
  PROVE  /\ \A k \in 1 .. Cardinality(D) :
              Place(D, k) \in D /\ Rank(D, Place(D, k)) = k
         /\ \A i \in D : Place(D, Rank(D, i)) = i
         /\ \A k, l \in 1 .. Cardinality(D) :
              k < l => Place(D, k) < Place(D, l)
<1> DEFINE C == Cardinality(D)
           f == [i \in D |-> Rank(D, i)]
<1>0. /\ C \in Nat
      /\ \A i \in D : i \in Nat /\ Rank(D, i) \in 1 .. C
      /\ \A i, j \in D : i < j => Rank(D, i) < Rank(D, j)
  <2>1. \A i \in D : i \in Nat
    OBVIOUS
  <2>2. /\ C \in Nat
        /\ \A i \in D : Rank(D, i) \in 1 .. C
        /\ \A i, j \in D : i < j => Rank(D, i) < Rank(D, j)
    BY Ranks
  <2> QED
    BY <2>1, <2>2
<1>1. /\ C \in Nat
      /\ IsFiniteSet(1 .. C) /\ Cardinality(1 .. C) = C
  BY <1>0, FS_Interval
<1>2. f \in Injection(D, 1 .. C)
  <2>1. f \in [D -> 1 .. C]
    BY <1>0
  <2>2. ASSUME NEW i \in D, NEW j \in D, f[i] = f[j]
        PROVE  i = j
    <3>1. Rank(D, i) = Rank(D, j)
      BY <2>2
    <3> QED
      BY <1>0, <3>1
  <2> QED
    BY <2>1, <2>2 DEF Injection, IsInjective
<1>3. f \in Surjection(D, 1 .. C)
  <2> HIDE DEF f, C
  <2>1. Cardinality(D) = Cardinality(1 .. C)
    BY <1>1 DEF C
  <2> QED
    BY <1>1, <1>2, <2>1, FS_Injection
<1>4. \A k \in 1 .. C : \E i \in D : Rank(D, i) = k
  BY <1>3 DEF Surjection
<1>5. \A k \in 1 .. C : Place(D, k) \in D /\ Rank(D, Place(D, k)) = k
  BY <1>4 DEF Place
<1>6. \A i \in D : Place(D, Rank(D, i)) = i
  <2> TAKE i \in D
  <2>1. Rank(D, i) \in 1 .. C
    BY <1>0
  <2>2. /\ Place(D, Rank(D, i)) \in D
        /\ Rank(D, Place(D, Rank(D, i))) = Rank(D, i)
    BY <1>5, <2>1
  <2> DEFINE p == Place(D, Rank(D, i))
  <2> HIDE DEF p
  <2>3. p \in D /\ Rank(D, p) = Rank(D, i)
    BY <2>2 DEF p
  <2>4. p = i
    BY <2>3, <1>0
  <2> QED
    BY <2>4 DEF p
<1>7. \A k, l \in 1 .. C : k < l => Place(D, k) < Place(D, l)
  <2> TAKE k, l \in 1 .. C
  <2>1. /\ Place(D, k) \in D /\ Rank(D, Place(D, k)) = k
        /\ Place(D, l) \in D /\ Rank(D, Place(D, l)) = l
    BY <1>5
  <2>2. k \in Nat /\ l \in Nat
    BY <1>0
  <2>3. Place(D, k) \in Nat /\ Place(D, l) \in Nat
    BY <1>0, <2>1
  <2>4. Place(D, l) < Place(D, k) => l < k
    BY <1>0, <2>1
  <2>5. Place(D, l) = Place(D, k) => l = k
    BY <2>1
  <2> QED
    BY <2>2, <2>3, <2>4, <2>5
<1> QED
  BY <1>5, <1>6, <1>7

LEMMA PickedProperties ==
  ASSUME NEW S, NEW s \in Seq(S), NEW D \in SUBSET (1 .. Len(s))
  PROVE  /\ Cardinality(D) \in Nat
         /\ Picked(s, D) \in Seq(S) /\ Len(Picked(s, D)) = Cardinality(D)
         /\ \A k \in 1 .. Cardinality(D) :
              Place(D, k) \in D /\ Picked(s, D)[k] = s[Place(D, k)]
         /\ \A i \in D : /\ Rank(D, i) \in 1 .. Cardinality(D)
                         /\ Picked(s, D)[Rank(D, i)] = s[i]
<1>0. Len(s) \in Nat
  OBVIOUS
<1>1. Cardinality(D) \in Nat /\ \A i \in D : Rank(D, i) \in 1 .. Cardinality(D)
  BY <1>0, Ranks
<1>2. /\ \A k \in 1 .. Cardinality(D) : Place(D, k) \in D
      /\ \A i \in D : Place(D, Rank(D, i)) = i
  BY <1>0, Places
<1>3. \A k \in 1 .. Cardinality(D) : Picked(s, D)[k] = s[Place(D, k)]
  BY DEF Picked
<1>4. \A k \in 1 .. Cardinality(D) : s[Place(D, k)] \in S
  <2>1. \A i \in 1 .. Len(s) : s[i] \in S
    OBVIOUS
  <2> QED
    BY <1>2, <2>1
<1>5. Picked(s, D) \in Seq(S) /\ Len(Picked(s, D)) = Cardinality(D)
  BY <1>1, <1>4 DEF Picked
<1> QED
  BY <1>1, <1>2, <1>3, <1>5

\* One more entry is picked, or left aside.
LEMMA PickedAppend ==
  ASSUME NEW S, NEW s \in Seq(S), NEW e \in S, NEW D \in SUBSET (1 .. Len(s))
  PROVE  /\ Picked(Append(s, e), D) = Picked(s, D)
         /\ Picked(Append(s, e), D \union {Len(s) + 1}) = Append(Picked(s, D), e)
<1> DEFINE n == Len(s)
           C == Cardinality(D)
           D1 == D \union {n + 1}
           a == Append(s, e)
<1>1. n \in Nat /\ \A i \in D : i \in 1 .. n
  OBVIOUS
<1>2. IsFiniteSet(D) /\ n + 1 \notin D
  <2>1. IsFiniteSet(1 .. n)
    BY <1>1, FS_Interval
  <2>2. IsFiniteSet(D)
    BY <2>1, FS_Subset
  <2> QED
    BY <1>1, <2>2
<1>3. C \in Nat /\ Cardinality(D1) = C + 1
  BY <1>2, FS_AddElement, FS_CardinalityType
<1>4. D1 \in SUBSET (1 .. n + 1)
  <2>1. \A i \in D1 : i \in 1 .. n + 1
    <3> HIDE DEF n
    <3> QED
      BY <1>1
  <2> QED
    BY <2>1
<1>5. /\ a \in Seq(S) /\ Len(a) = n + 1 /\ a[n + 1] = e
      /\ \A i \in 1 .. n : a[i] = s[i]
  BY AppendProperties
<1>6. \A i \in D : Rank(D1, i) = Rank(D, i)
  <2> TAKE i \in D
  <2>1. {j \in D1 : j <= i} = {j \in D : j <= i}
    <3>1. i \in Nat /\ ~(n + 1 <= i)
      BY <1>1
    <3> HIDE DEF n
    <3> QED
      BY <3>1
  <2> QED
    BY <2>1 DEF Rank
<1>7. Rank(D1, n + 1) = C + 1
  <2>1. \A j \in D1 : j <= n + 1
    <3> HIDE DEF n
    <3> QED
      BY <1>1
  <2>2. {j \in D1 : j <= n + 1} = D1
    BY <2>1
  <2> QED
    BY <1>3, <2>2 DEF Rank
<1>8. /\ \A k \in 1 .. C : Place(D, k) \in D /\ Rank(D, Place(D, k)) = k
      /\ \A i \in D1 : Place(D1, Rank(D1, i)) = i
  <2>1. \A k \in 1 .. C : Place(D, k) \in D /\ Rank(D, Place(D, k)) = k
    BY <1>1, Places
  <2>2. \A i \in D1 : Place(D1, Rank(D1, i)) = i
    <3>1. n + 1 \in Nat
      BY <1>1
    <3> HIDE DEF D1
    <3> QED
      BY <1>4, <3>1, Places
  <2> QED
    BY <2>1, <2>2
<1>9. \A k \in 1 .. C : Place(D1, k) = Place(D, k)
  <2> TAKE k \in 1 .. C
  <2>1. Place(D, k) \in D /\ Rank(D1, Place(D, k)) = k
    BY <1>6, <1>8
  <2> QED
    BY <1>8, <2>1
<1>10. Place(D1, C + 1) = n + 1
  BY <1>7, <1>8
<1>11. Picked(a, D) = Picked(s, D)
  <2>1. \A k \in 1 .. C : a[Place(D, k)] = s[Place(D, k)]
    BY <1>1, <1>5, <1>8
  <2> QED
    BY <2>1 DEF Picked
<1> DEFINE p == Picked(s, D)
<1>12. p \in Seq(S) /\ Len(p) = C /\ \A k \in 1 .. C : p[k] = s[Place(D, k)]
  BY PickedProperties
<1>13. /\ Picked(a, D1) = [k \in 1 .. C + 1 |-> a[Place(D1, k)]]
       /\ \A k \in 1 .. C + 1 :
            a[Place(D1, k)] = IF k = C + 1 THEN e ELSE p[k]
  <2>1. Picked(a, D1) = [k \in 1 .. C + 1 |-> a[Place(D1, k)]]
    BY <1>3 DEF Picked
  <2>2. ASSUME NEW k \in 1 .. C
        PROVE  a[Place(D1, k)] = p[k] /\ k # C + 1
    <3>0. k # C + 1
      BY <1>3
    <3>1. Place(D1, k) \in 1 .. n
      <4>1. Place(D, k) \in D /\ Place(D1, k) = Place(D, k)
        BY <1>8, <1>9
      <4> QED
        BY <1>1, <4>1
    <3>2. a[Place(D1, k)] = s[Place(D1, k)]
      BY <1>5, <3>1
    <3> QED
      BY <1>9, <1>12, <3>0, <3>2
  <2>3. a[Place(D1, C + 1)] = e
    BY <1>5, <1>10
  <2>4. \A k \in 1 .. C + 1 : k = C + 1 \/ k \in 1 .. C
    BY <1>3
  <2> QED
    BY <2>1, <2>2, <2>3, <2>4
<1>14. Append(p, e) = [k \in 1 .. C + 1 |-> IF k = C + 1 THEN e ELSE p[k]]
  <2> DEFINE q == Append(p, e)
  <2> HIDE DEF p, C
  <2>1. /\ q \in Seq(S) /\ Len(q) = C + 1 /\ q[C + 1] = e
        /\ \A k \in 1 .. C : q[k] = p[k]
    BY <1>12, AppendProperties
  <2>2. q = [k \in 1 .. C + 1 |-> q[k]]
    <3> HIDE DEF q
    <3> QED
      BY <2>1
  <2>3. \A k \in 1 .. C + 1 : k = C + 1 \/ k \in 1 .. C
    BY <1>3
  <2> HIDE DEF q
  <2>4. \A k \in 1 .. C + 1 : q[k] = IF k = C + 1 THEN e ELSE p[k]
    BY <2>1, <2>3
  <2> QED
    BY <2>2, <2>4 DEF q
<1> HIDE DEF p, C, D1, a
<1>15. Picked(a, D1) = Append(p, e)
  BY <1>13, <1>14
<1> QED
  BY <1>11, <1>15 DEF a, D1, p

-----------------------------------------------------------------------------
(* The inductive invariant of the fifos and their threads.                 *)

Lists == {0} \union {i + 1 : i \in Ids}

FifoType ==
  /\ kind \in Kinds /\ limit \in Limits \union {NoLimit}
  /\ lat \in [Cmds -> Seq([t : Tx, left : Nat])] /\ resp \in [Cmds -> Seq(Tx)]
  /\ thr \in [Cmds -> {"wait", "arb", "delay", "try", "again"}]
  /\ togo \in [Cmds -> Nat]
  /\ resid \in [Pacers -> 0 .. Den - 1] /\ owed \in [Pacers -> Nat]
  /\ drawn \in [Tx -> -1 .. Horizon - 1] /\ age \in [Tx -> 0 .. Horizon]
  /\ order \in Seq(Tx) /\ done \in SUBSET Tx
  /\ left \in [Cmds -> [Lists -> Seq(Nat \X (0 .. Horizon - 1))]]

\* Where the threads are.
ThreadInv ==
  /\ \A c \in Cmds : /\ thr[c] = "delay" <=> togo[c] > 0
                     /\ thr[c] # "wait" => resp[c] # << >>
  /\ arb \in {<< >>, <<"rd">>, <<"wr">>, <<"rd", "wr">>, <<"wr", "rd">>}
  /\ Time("total") = 0 => arb = << >>
  /\ Time("total") > 0 =>
       \A c \in Cmds : /\ thr[c] \in {"arb", "delay"} <=> c \in Range(arb)
                       /\ thr[c] = "delay" => Head(arb) = c

\* Only a thread with a limit computes a delay.
PaceInv ==
  \A c \in Cmds : thr[c] \in {"arb", "delay"} => Pace(c, WrPace) # "none"

\* Where the payloads are.
PlaceInv ==
  /\ IsInjective(order)
  /\ \A t \in Tx : /\ drawn[t] = -1 <=> t \notin Range(order)
                   /\ drawn[t] = -1 => age[t] = 0
  /\ done \subseteq Range(order)
  /\ \A c \in Cmds :
       /\ \A k \in DOMAIN lat[c] :
            /\ Cmd[lat[c][k].t] = c /\ lat[c][k].t \in Range(order) \ done
            /\ lat[c][k].t \notin Range(resp[c])
       /\ \A k, l \in DOMAIN lat[c] : lat[c][k].t = lat[c][l].t => k = l
       /\ \A k \in DOMAIN resp[c] :
            Cmd[resp[c][k]] = c /\ resp[c][k] \in Range(order) \ done
       /\ IsInjective(resp[c])
  /\ \A t \in Range(order) \ done :
       \/ \E k \in DOMAIN lat[Cmd[t]] : lat[Cmd[t]][k].t = t
       \/ t \in Range(resp[Cmd[t]])

\* The entries of a latency fifo are in the order of the calls, the older
\* ones have waited longer.
CallOrder ==
  \A c \in Cmds : \A k, l \in DOMAIN lat[c] :
    \A i, j \in DOMAIN order :
      order[i] = lat[c][k].t /\ order[j] = lat[c][l].t /\ i < j
        => k < l /\ age[order[i]] >= age[order[j]]

RespOrder ==
  \A i, j \in DOMAIN order :
    LET t == order[i]
        u == order[j]
        s == resp[Cmd[t]]
    IN  i < j /\ Cmd[t] = Cmd[u] /\ drawn[t] <= drawn[u] =>
          /\ u \in done => t \in done
          /\ \A l \in DOMAIN s :
               s[l] = u => t \in done \/ \E k \in 1 .. l - 1 : s[k] = t

\* The time of the response thread c has paid for and not handed over yet.
Cost(c, p) ==
  IF thr[c] \in {"try", "again"} THEN Bytes[Head(resp[c])] * Time(p) ELSE 0

\* The time a thread has still to wait makes up for the bytes that it will
\* hand over: o is owed, g the edges to go, r the residual, b the time of the
\* first response, m the longest such time.
OwnOk(s, o, g, r, b, m) ==
  \/ s \in {"wait", "arb"} /\ o <= m + r
  \/ s = "delay" /\ o < m + Den /\ o - g * Den <= (m - b) + r
  \/ s \in {"try", "again"} /\ o <= (m - b) + r

\* This holds for a thread that obeys the limit of its own command, which the
\* write thread of rate_limiting_buffer does not.
OwnBand(c) ==
  LET p == Pace(c, WrPace) IN
  p = c => OwnOk(thr[c], owed[c], togo[c], resid[c],
                 Bytes[Head(resp[c])] * Time(p), MaxCost(p, {c}))

\* With a total limit one thread at a time waits, and makes up for both.
Paid == owed["total"] + (Cost("rd", "total") + Cost("wr", "total"))
Most == 2 * MaxCost("total", Cmds)

TotalBand ==
  Time("total") > 0 =>
    /\ (\A c \in Cmds : thr[c] # "delay") => Paid <= Most + resid["total"]
    /\ \A c \in Cmds :
         thr[c] = "delay" =>
           /\ Paid < Most + Den
           /\ Paid - togo[c] * Den
                <= (Most + resid["total"])
                     - (Bytes[Head(resp[c])] * Time("total"))

BandInv == (\A c \in Cmds : OwnBand(c)) /\ TotalBand

FifoInv == FifoType /\ ThreadInv /\ PaceInv /\ PlaceInv

-----------------------------------------------------------------------------
(* The limits.                                                             *)

LEMMA PaceProperties ==
  ASSUME FifoType, NEW c \in Cmds
  PROVE  /\ \A p \in Pacers : Time(p) \in Nat
         /\ Pace(c, WrPace) \in Pacers \union {"none"}
         /\ Pace(c, WrPace) = "total" <=> Time("total") > 0
         /\ Pace(c, WrPace) \in Cmds =>
              Time("total") = 0 /\ Time(Pace(c, WrPace)) > 0
         /\ Time("total") = 0 =>
              LET p == IF c = "rd" THEN "rd" ELSE WrPace
              IN  /\ p \in Cmds
                  /\ Time(p) > 0 => Pace(c, WrPace) = p
<1>1. limit \in [total : Nat, rd : Nat, wr : Nat]
  BY RateAssumption DEF FifoType, RateAssumption, NoLimit
<1>2. \A p \in Pacers : limit[p] \in Nat
  BY <1>1 DEF Pacers
<1>3. \A p \in Pacers : Time(p) \in Nat
  BY <1>1, <1>2 DEF Time
<1>4. WrPace \in Cmds
  BY DEF WrPace, Cmds
<1> QED
  BY <1>3, <1>4 DEF Pace, Pacers, Cmds

LEMMA MaxCostBounds ==
  ASSUME NEW p, Time(p) \in Nat, NEW cs
  PROVE  /\ MaxCost(p, cs) \in Nat
         /\ \A t \in Tx : Cmd[t] \in cs => Bytes[t] * Time(p) <= MaxCost(p, cs)
<1> DEFINE U == {t \in Tx : Cmd[t] \in cs}
           B == {Bytes[t] : t \in U}
           C == Costs(p, cs)
           f == [b \in B |-> b * Time(p)]
<1>1. B \in SUBSET {Bytes[t] : t \in Tx} /\ B \in SUBSET Nat
  BY PayloadAssumption DEF PayloadAssumption
<1>2. IsFiniteSet(B)
  <2> HIDE DEF B
  <2> QED
    BY <1>1, PayloadAssumption, FS_Subset DEF PayloadAssumption
<1>3. C = {Bytes[t] * Time(p) : t \in U}
  BY DEF Costs
<1>4. f \in Surjection(B, C)
  <2>1. f \in [B -> C]
    BY <1>3
  <2>2. \A x \in C : \E b \in B : f[b] = x
    BY <1>3
  <2> QED
    BY <2>1, <2>2 DEF Surjection
<1>5. IsFiniteSet(C)
  <2> HIDE DEF B, C, f
  <2> QED
    BY <1>2, <1>4, FS_Surjection
<1>6. C \in SUBSET Nat
  <2> SUFFICES ASSUME NEW t \in U
               PROVE  Bytes[t] * Time(p) \in Nat
    BY <1>3
  <2>1. Bytes[t] \in Nat
    BY PayloadAssumption DEF PayloadAssumption
  <2> QED
    BY <2>1
<1> DEFINE D == {0} \union C
<1> HIDE DEF C
<1>7. IsFiniteSet(D)
  <2>1. D = C \union {0}
    OBVIOUS
  <2> HIDE DEF D
  <2> QED
    BY <1>5, <2>1, FS_AddElement
<1>8. D \in SUBSET Nat /\ D # {}
  BY <1>6
<1>9. Max(D) \in D /\ \A y \in D : y <= Max(D)
  <2> HIDE DEF D
  <2> QED
    BY <1>7, <1>8, GreatestNumber
<1>10. MaxCost(p, cs) = Max(D)
  BY DEF MaxCost, C
<1>11. \A t \in Tx : Cmd[t] \in cs => Bytes[t] * Time(p) \in C
  BY <1>3
<1> QED
  BY <1>8, <1>9, <1>10, <1>11

-----------------------------------------------------------------------------
(* Initial states.                                                         *)

LEMMA InitFifo == Init => FifoInv /\ CallOrder /\ LatencyExact /\ RespOrder
<1> SUFFICES ASSUME Init
             PROVE  FifoInv /\ CallOrder /\ LatencyExact /\ RespOrder
  OBVIOUS
<1> USE DEF Init, RateInit, ReplayInit
<1>1. FifoType
  <2>1. Den - 1 \in Nat /\ 0 \in 0 .. Den - 1 /\ Horizon \in Nat
    BY RateAssumption DEF RateAssumption
  <2>2. /\ kind \in Kinds /\ limit \in Limits \union {NoLimit}
        /\ lat \in [Cmds -> Seq([t : Tx, left : Nat])]
        /\ resp \in [Cmds -> Seq(Tx)]
        /\ thr \in [Cmds -> {"wait", "arb", "delay", "try", "again"}]
        /\ togo \in [Cmds -> Nat]
        /\ order \in Seq(Tx) /\ done \in SUBSET Tx
    OBVIOUS
  <2>3. /\ resid \in [Pacers -> 0 .. Den - 1] /\ owed \in [Pacers -> Nat]
        /\ drawn \in [Tx -> -1 .. Horizon - 1] /\ age \in [Tx -> 0 .. Horizon]
    BY <2>1
  <2>4. left \in [Cmds -> [Lists -> Seq(Nat \X (0 .. Horizon - 1))]]
    BY RecordingAssumption DEF RecordingAssumption, Lists
  <2> QED
    BY <2>2, <2>3, <2>4 DEF FifoType
<1>2. ThreadInv
  BY DEF ThreadInv, Range
<1>6. PaceInv
  BY DEF PaceInv
<1>3. PlaceInv
  BY DEF PlaceInv, IsInjective, Range
<1>4. CallOrder /\ RespOrder
  BY DEF CallOrder, RespOrder
<1>5. LatencyExact
  BY DEF LatencyExact, Range
<1> QED
  BY <1>1, <1>2, <1>3, <1>4, <1>5, <1>6 DEF FifoInv

-----------------------------------------------------------------------------
(* A payload is called.                                                    *)

LEMMA PushType ==
  ASSUME FifoType, NEW t \in Tx, NEW d \in 0 .. Horizon - 1, Push(t, d),
         kind' = kind,
         left' \in [Cmds -> [Lists -> Seq(Nat \X (0 .. Horizon - 1))]]
  PROVE  FifoType'
<1>1. Horizon \in Nat /\ Cmd[t] \in Cmds
  BY RateAssumption, PayloadAssumption
     DEF RateAssumption, PayloadAssumption
<1>2. drawn' \in [Tx -> -1 .. Horizon - 1]
  BY <1>1 DEF Push, FifoType
<1>3. lat' \in [Cmds -> Seq([t : Tx, left : Nat])]
  BY <1>1 DEF Push, FifoType
<1>4. order' \in Seq(Tx)
  BY DEF Push, FifoType
<1> QED
  BY <1>2, <1>3, <1>4 DEF Push, FifoType, paceVars

LEMMA PushThread ==
  ASSUME FifoType, ThreadInv, NEW t \in Tx, NEW d, Push(t, d)
  PROVE  ThreadInv'
BY DEF Push, ThreadInv, paceVars, Time

\* What the call does to the fifo of its command.
LEMMA PushFacts ==
  ASSUME FifoType, PlaceInv, NEW t \in Tx, NEW d \in 0 .. Horizon - 1,
         Push(t, d)
  PROVE  LET c == Cmd[t]
             n == Len(lat[c])
             m == Len(order)
         IN  /\ c \in Cmds /\ n \in Nat /\ m \in Nat
             /\ DOMAIN lat[c] = 1 .. n /\ DOMAIN lat'[c] = 1 .. n + 1
             /\ DOMAIN order = 1 .. m /\ DOMAIN order' = 1 .. m + 1
             /\ lat'[c][n + 1] = [t |-> t, left |-> d]
             /\ \A k \in 1 .. n : lat'[c][k] = lat[c][k]
             /\ \A b \in Cmds : b # c => lat'[b] = lat[b]
             /\ order'[m + 1] = t /\ \A i \in 1 .. m : order'[i] = order[i]
             /\ Range(order') = Range(order) \union {t}
             /\ t \notin Range(order) /\ drawn'[t] = d /\ age[t] = 0
             /\ \A u \in Tx : u # t => drawn'[u] = drawn[u]
             /\ d \in Nat
<1> DEFINE c == Cmd[t]
           n == Len(lat[c])
           m == Len(order)
           e == [t |-> t, left |-> d]
<1>1. c \in Cmds /\ d \in Nat
  BY RateAssumption, PayloadAssumption
     DEF RateAssumption, PayloadAssumption
<1>2. /\ lat[c] \in Seq([t : Tx, left : Nat]) /\ e \in [t : Tx, left : Nat]
      /\ order \in Seq(Tx)
  BY <1>1 DEF FifoType
<1>3. /\ n \in Nat /\ m \in Nat
      /\ DOMAIN lat[c] = 1 .. n /\ DOMAIN order = 1 .. m
  BY <1>2
<1>4. /\ lat'[c] = Append(lat[c], e)
      /\ \A b \in Cmds : b # c => lat'[b] = lat[b]
      /\ order' = Append(order, t)
  BY <1>1 DEF Push, FifoType
<1>5. /\ DOMAIN lat'[c] = 1 .. n + 1 /\ lat'[c][n + 1] = e
      /\ \A k \in 1 .. n : lat'[c][k] = lat[c][k]
  BY <1>2, <1>4
<1>6. /\ DOMAIN order' = 1 .. m + 1 /\ order'[m + 1] = t
      /\ \A i \in 1 .. m : order'[i] = order[i]
  BY <1>2, <1>4
<1>7. Range(order') = Range(order) \union {t}
  BY <1>2, <1>4, RangeAppend
<1>8. t \notin Range(order) /\ age[t] = 0
  BY DEF Push, PlaceInv
<1>9. drawn'[t] = d /\ \A u \in Tx : u # t => drawn'[u] = drawn[u]
  BY DEF Push, FifoType
<1> QED
  BY <1>1, <1>3, <1>4, <1>5, <1>6, <1>7, <1>8, <1>9

LEMMA PushPlace ==
  ASSUME FifoType, PlaceInv, NEW t \in Tx, NEW d \in 0 .. Horizon - 1,
         Push(t, d)
  PROVE  PlaceInv'
<1> DEFINE c == Cmd[t]
           n == Len(lat[c])
           m == Len(order)
<1>1. /\ c \in Cmds /\ n \in Nat /\ m \in Nat
      /\ DOMAIN lat[c] = 1 .. n /\ DOMAIN lat'[c] = 1 .. n + 1
      /\ lat'[c][n + 1] = [t |-> t, left |-> d]
      /\ \A k \in 1 .. n : lat'[c][k] = lat[c][k]
      /\ \A b \in Cmds : b # c => lat'[b] = lat[b]
      /\ Range(order') = Range(order) \union {t}
      /\ t \notin Range(order) /\ drawn'[t] = d /\ d \in Nat
      /\ \A u \in Tx : u # t => drawn'[u] = drawn[u]
  BY PushFacts
<1> HIDE DEF n, m
<1>2. /\ UNCHANGED <<resp, done, age>>
      /\ order' = Append(order, t) /\ order \in Seq(Tx)
  BY DEF Push, FifoType
<1>3. IsInjective(order')
  BY <1>1, <1>2, InjectiveAppend DEF PlaceInv
<1>4. \A u \in Tx : /\ drawn'[u] = -1 <=> u \notin Range(order')
                    /\ drawn'[u] = -1 => age'[u] = 0
  <2> TAKE u \in Tx
  <2>1. CASE u = t
    BY <1>1, <2>1
  <2>2. CASE u # t
    BY <1>1, <1>2, <2>2 DEF PlaceInv
  <2> QED
    BY <2>1, <2>2
<1>5. done' \subseteq Range(order')
  BY <1>1, <1>2 DEF PlaceInv
<1>6. t \notin done /\ \A b \in Cmds : t \notin Range(resp[b])
  <2>1. \A b \in Cmds : \A k \in DOMAIN resp[b] : resp[b][k] # t
    BY <1>1 DEF PlaceInv
  <2> QED
    BY <1>1, <2>1 DEF PlaceInv, Range
<1>7. ASSUME NEW b \in Cmds
      PROVE  \A k \in DOMAIN lat'[b] :
               \/ /\ k \in DOMAIN lat[b] /\ lat'[b][k] = lat[b][k]
                  /\ lat'[b][k].t # t
               \/ /\ b = c /\ k = n + 1 /\ k \notin DOMAIN lat[b]
                  /\ lat'[b][k].t = t
  <2>1. \A k \in DOMAIN lat[b] : lat[b][k].t # t
    BY <1>1 DEF PlaceInv
  <2>2. CASE b # c
    BY <1>1, <2>1, <2>2
  <2>3. CASE b = c
    <3>1. \A k \in 1 .. n + 1 : k \in 1 .. n \/ (k = n + 1 /\ k \notin 1 .. n)
      BY <1>1
    <3>2. lat'[c][n + 1].t = t
      BY <1>1
    <3> QED
      BY <1>1, <2>1, <2>3, <3>1, <3>2
  <2> QED
    BY <2>2, <2>3
<1> HIDE DEF c
<1>8. ASSUME NEW b \in Cmds, NEW k \in DOMAIN lat'[b]
      PROVE  /\ Cmd[lat'[b][k].t] = b /\ lat'[b][k].t \in Range(order') \ done'
             /\ lat'[b][k].t \notin Range(resp'[b])
  <2>1. CASE k \in DOMAIN lat[b] /\ lat'[b][k] = lat[b][k]
    BY <1>1, <1>2, <2>1 DEF PlaceInv
  <2>2. CASE b = c /\ lat'[b][k].t = t
    BY <1>1, <1>2, <1>6, <2>2 DEF c
  <2> QED
    BY <1>7, <2>1, <2>2
<1>9. \A b \in Cmds : \A k, l \in DOMAIN lat'[b] :
        lat'[b][k].t = lat'[b][l].t => k = l
  BY <1>7 DEF PlaceInv
<1>10. \A b \in Cmds : /\ \A k \in DOMAIN resp'[b] :
                            /\ Cmd[resp'[b][k]] = b
                            /\ resp'[b][k] \in Range(order') \ done'
                       /\ IsInjective(resp'[b])
  BY <1>1, <1>2 DEF PlaceInv
<1>11. \A u \in Range(order') \ done' :
         \/ \E k \in DOMAIN lat'[Cmd[u]] : lat'[Cmd[u]][k].t = u
         \/ u \in Range(resp'[Cmd[u]])
  <2> TAKE u \in Range(order') \ done'
  <2>1. CASE u = t
    <3>1. n + 1 \in DOMAIN lat'[c]
      BY <1>1
    <3> QED
      BY <1>1, <2>1, <3>1 DEF c
  <2>2. CASE u # t
    <3>1. u \in Range(order) \ done
      BY <1>1, <1>2, <2>2
    <3>2. CASE u \in Range(resp[Cmd[u]])
      BY <1>2, <3>2
    <3>3. CASE \E k \in DOMAIN lat[Cmd[u]] : lat[Cmd[u]][k].t = u
      <4>1. u \in Tx /\ Cmd[u] \in Cmds
        <5>1. u \in Tx
          BY <1>2, <3>1 DEF Range
        <5> QED
          BY <5>1, PayloadAssumption DEF PayloadAssumption
      <4>2. \A k \in DOMAIN lat[Cmd[u]] :
              /\ k \in DOMAIN lat'[Cmd[u]]
              /\ lat'[Cmd[u]][k] = lat[Cmd[u]][k]
        <5>1. \A k \in 1 .. n : k \in 1 .. n + 1
          BY <1>1
        <5> QED
          BY <1>1, <4>1, <5>1
      <4> QED
        BY <3>3, <4>2
    <3> QED
      BY <3>1, <3>2, <3>3 DEF PlaceInv
  <2> QED
    BY <2>1, <2>2
<1> QED
  BY <1>3, <1>4, <1>5, <1>8, <1>9, <1>10, <1>11 DEF PlaceInv

LEMMA PushOrder ==
  ASSUME FifoType, PlaceInv, CallOrder, LatencyExact, RespOrder,
         NEW t \in Tx, NEW d \in 0 .. Horizon - 1, Push(t, d)
  PROVE  CallOrder' /\ LatencyExact' /\ RespOrder'
<1> DEFINE c == Cmd[t]
           n == Len(lat[c])
           m == Len(order)
<1>1. /\ c \in Cmds /\ n \in Nat /\ m \in Nat
      /\ DOMAIN lat[c] = 1 .. n /\ DOMAIN lat'[c] = 1 .. n + 1
      /\ DOMAIN order = 1 .. m /\ DOMAIN order' = 1 .. m + 1
      /\ lat'[c][n + 1] = [t |-> t, left |-> d]
      /\ \A k \in 1 .. n : lat'[c][k] = lat[c][k]
      /\ \A b \in Cmds : b # c => lat'[b] = lat[b]
      /\ order'[m + 1] = t /\ \A i \in 1 .. m : order'[i] = order[i]
      /\ t \notin Range(order) /\ drawn'[t] = d /\ age[t] = 0
      /\ \A u \in Tx : u # t => drawn'[u] = drawn[u]
      /\ d \in Nat
  BY PushFacts
<1> HIDE DEF n, m
<1>2. UNCHANGED <<resp, done, age>>
  BY DEF Push
<1>3. /\ \A i \in 1 .. m : order[i] \in Tx /\ order[i] # t
      /\ \A b \in Cmds : \A k \in DOMAIN lat[b] :
           lat[b][k].t \in Tx /\ lat[b][k].t # t
      /\ \A b \in Cmds : Range(resp[b]) \subseteq Tx \ {t}
      /\ done \subseteq Tx \ {t}
      /\ \A u \in Tx : age[u] \in Nat
  <2>1. \A i \in 1 .. m : order[i] \in Tx /\ order[i] # t
    <3>1. order \in Seq(Tx)
      BY DEF FifoType
    <3>2. DOMAIN order = 1 .. m /\ t \notin Range(order)
      BY <1>1
    <3>3. \A i \in DOMAIN order : order[i] \in Tx
      BY <3>1
    <3> QED
      BY <3>2, <3>3 DEF Range
  <2>2. Range(order) \subseteq Tx \ {t}
    BY <1>1, <2>1 DEF Range
  <2>3. \A b \in Cmds : \A k \in DOMAIN lat[b] : lat[b][k].t \in Range(order)
    BY DEF PlaceInv
  <2>4. \A b \in Cmds : Range(resp[b]) \subseteq Range(order)
    BY DEF PlaceInv, Range
  <2>5. done \subseteq Range(order)
    BY DEF PlaceInv
  <2>6. \A u \in Tx : age[u] \in Nat
    BY RateAssumption DEF FifoType, RateAssumption
  <2> QED
    BY <2>1, <2>2, <2>3, <2>4, <2>5, <2>6
<1>4. /\ \A k \in 1 .. n + 1 : k \in 1 .. n \/ (k = n + 1 /\ k > n)
      /\ \A i \in 1 .. m + 1 : i \in 1 .. m \/ (i = m + 1 /\ i > m)
  BY <1>1
<1> HIDE DEF c
<1>5. ASSUME NEW b \in Cmds, NEW k \in DOMAIN lat'[b]
      PROVE  \/ k \in DOMAIN lat[b] /\ lat'[b][k] = lat[b][k]
             \/ lat'[b][k].t = t
  <2>1. CASE b # c
    BY <1>1, <2>1
  <2>2. CASE b = c /\ k \in 1 .. n
    BY <1>1, <2>2
  <2>3. CASE b = c /\ k = n + 1
    BY <1>1, <2>3
  <2>4. b = c => k \in 1 .. n + 1
    BY <1>1
  <2> QED
    BY <1>4, <2>1, <2>2, <2>3, <2>4
<1>6. CallOrder'
  <2> SUFFICES ASSUME NEW b \in Cmds, NEW k \in DOMAIN lat'[b],
                      NEW l \in DOMAIN lat'[b],
                      NEW i \in DOMAIN order', NEW j \in DOMAIN order',
                      order'[i] = lat'[b][k].t, order'[j] = lat'[b][l].t, i < j
               PROVE  k < l /\ age[order'[i]] >= age[order'[j]]
    BY <1>2 DEF CallOrder
  <2>1. i \in 1 .. m
    BY <1>1, <1>4
  <2>2. order'[i] = order[i] /\ order[i] # t
    BY <1>1, <1>3, <2>1
  <2>3. k \in DOMAIN lat[b] /\ lat'[b][k] = lat[b][k]
    BY <1>5, <2>2
  <2>4. CASE j \in 1 .. m
    <3>1. order'[j] = order[j] /\ order[j] # t
      BY <1>1, <1>3, <2>4
    <3>2. l \in DOMAIN lat[b] /\ lat'[b][l] = lat[b][l]
      BY <1>5, <3>1
    <3>3. /\ i \in DOMAIN order /\ j \in DOMAIN order
          /\ order[i] = lat[b][k].t /\ order[j] = lat[b][l].t
      BY <1>1, <2>1, <2>2, <2>3, <2>4, <3>1, <3>2
    <3>4. k < l /\ age[order[i]] >= age[order[j]]
      BY <2>3, <3>2, <3>3 DEF CallOrder
    <3> QED
      BY <2>2, <3>1, <3>4
  <2>5. CASE j \notin 1 .. m
    <3>1. order'[j] = t
      BY <1>1, <1>4, <2>5
    <3>2. b = c /\ l = n + 1
      <4>1. lat'[b][l].t = t
        BY <3>1
      <4>2. b = c
        BY <1>1, <1>3, <4>1
      <4>3. ~(l \in 1 .. n)
        BY <1>1, <1>3, <4>1, <4>2
      <4> QED
        BY <1>1, <1>4, <4>2, <4>3
    <3>3. k < l
      BY <1>1, <2>3, <3>2
    <3>4. age[order'[i]] >= age[order'[j]]
      BY <1>1, <1>3, <2>1, <2>2, <3>1
    <3> QED
      BY <3>3, <3>4
  <2> QED
    BY <2>4, <2>5
<1>7. LatencyExact'
  <2> SUFFICES ASSUME NEW b \in Cmds
               PROVE  /\ \A k \in DOMAIN lat'[b] :
                           lat'[b][k].left + age[lat'[b][k].t]
                             = drawn'[lat'[b][k].t]
                      /\ \A u \in Range(resp[b]) \union done :
                           age[u] > drawn'[u]
    BY <1>2 DEF LatencyExact
  <2>1. ASSUME NEW k \in DOMAIN lat'[b]
        PROVE  lat'[b][k].left + age[lat'[b][k].t] = drawn'[lat'[b][k].t]
    <3>1. CASE k \in DOMAIN lat[b] /\ lat'[b][k] = lat[b][k]
      BY <1>1, <1>3, <3>1 DEF LatencyExact
    <3>2. CASE lat'[b][k] = [t |-> t, left |-> d]
      BY <1>1, <3>2
    <3>3. CASE b # c
      BY <1>1, <3>1, <3>3
    <3>4. CASE b = c
      BY <1>1, <1>4, <3>1, <3>2, <3>4
    <3> QED
      BY <3>3, <3>4
  <2>2. \A u \in Range(resp[b]) \union done : age[u] > drawn'[u]
    BY <1>1, <1>3 DEF LatencyExact
  <2> QED
    BY <2>1, <2>2
<1>8. RespOrder'
  <2> SUFFICES ASSUME NEW i \in DOMAIN order', NEW j \in DOMAIN order',
                      i < j, Cmd[order'[i]] = Cmd[order'[j]],
                      drawn'[order'[i]] <= drawn'[order'[j]]
               PROVE  LET s == resp[Cmd[order'[i]]] IN
                      /\ order'[j] \in done => order'[i] \in done
                      /\ \A l \in DOMAIN s :
                           s[l] = order'[j] =>
                             order'[i] \in done \/ \E k \in 1 .. l - 1 :
                               s[k] = order'[i]
    BY <1>2 DEF RespOrder
  <2>1. i \in 1 .. m
    BY <1>1, <1>4
  <2>2. order'[i] = order[i] /\ order[i] # t /\ order[i] \in Tx
    BY <1>1, <1>3, <2>1
  <2>3. CASE j \in 1 .. m
    <3>1. order'[j] = order[j] /\ order[j] # t /\ order[j] \in Tx
      BY <1>1, <1>3, <2>3
    <3>2. drawn[order[i]] <= drawn[order[j]]
      BY <1>1, <2>2, <3>1
    <3>3. i \in DOMAIN order /\ j \in DOMAIN order
      BY <1>1, <2>1, <2>3
    <3>4. Cmd[order[i]] = Cmd[order[j]]
      BY <2>2, <3>1
    <3> QED
      BY <2>2, <3>1, <3>2, <3>3, <3>4 DEF RespOrder
  <2>4. CASE j \notin 1 .. m
    <3>1. order'[j] = t
      BY <1>1, <1>4, <2>4
    <3>2. Cmd[order'[i]] \in Cmds
      BY <2>2, PayloadAssumption DEF PayloadAssumption
    <3>3. t \notin done /\ t \notin Range(resp[Cmd[order'[i]]])
      BY <1>3, <3>2
    <3> QED
      BY <3>1, <3>3 DEF Range
  <2> QED
    BY <2>3, <2>4
<1> QED
  BY <1>6, <1>7, <1>8

-----------------------------------------------------------------------------
(* A clock edge.                                                           *)

\* The positions of the entries that wait on, and of those that are due.
Later(c) == {i \in DOMAIN lat[c] : lat[c][i].left > 0}
Now(c) == {i \in DOMAIN lat[c] : lat[c][i].left = 0}

LEMMA TickLat ==
  ASSUME FifoType, Tick(WrPace), NEW c \in Cmds
  PROVE  LET W == Later(c) IN
         /\ lat'[c] \in Seq([t : Tx, left : Nat])
         /\ Cardinality(W) \in Nat /\ DOMAIN lat'[c] = 1 .. Cardinality(W)
         /\ \A k \in 1 .. Cardinality(W) :
              /\ Place(W, k) \in W
              /\ lat'[c][k].t = lat[c][Place(W, k)].t
              /\ lat'[c][k].left = lat[c][Place(W, k)].left - 1
         /\ \A i \in W : /\ Rank(W, i) \in 1 .. Cardinality(W)
                         /\ Place(W, Rank(W, i)) = i
         /\ \A k, l \in 1 .. Cardinality(W) : k < l => Place(W, k) < Place(W, l)
<1> DEFINE W == Later(c)
           E == [t : Tx, left : Nat]
           C == Cardinality(W)
<1>1. lat[c] \in Seq(E)
  BY DEF FifoType
<1>2. Len(lat[c]) \in Nat /\ W \in SUBSET (1 .. Len(lat[c]))
  BY <1>1 DEF Later
<1>3. /\ C \in Nat
      /\ \A k \in 1 .. C : Place(W, k) \in W
      /\ \A i \in W : Rank(W, i) \in 1 .. C /\ Place(W, Rank(W, i)) = i
      /\ \A k, l \in 1 .. C : k < l => Place(W, k) < Place(W, l)
  <2> HIDE DEF W
  <2>1. C \in Nat /\ \A i \in W : Rank(W, i) \in 1 .. C
    BY <1>2, Ranks
  <2> QED
    BY <1>2, <2>1, Places
<1> DEFINE P == Picked(lat[c], W)
<1>4. /\ P \in Seq(E) /\ Len(P) = C
      /\ \A k \in 1 .. C : P[k] = lat[c][Place(W, k)]
  <2> HIDE DEF W, E
  <2> QED
    BY <1>1, <1>2, PickedProperties
<1>5. lat'[c] = [k \in 1 .. C |-> [P[k] EXCEPT !.left = @ - 1]]
  <2>1. lat'[c] = Counted(P)
    BY DEF Tick, Waiting, Later
  <2> HIDE DEF P, C
  <2> QED
    BY <1>4, <2>1 DEF Counted
<1>6. ASSUME NEW k \in 1 .. C
      PROVE  /\ P[k] = lat[c][Place(W, k)] /\ P[k] \in E /\ P[k].left > 0
             /\ [P[k] EXCEPT !.left = @ - 1] \in E
             /\ [P[k] EXCEPT !.left = @ - 1].t = P[k].t
             /\ [P[k] EXCEPT !.left = @ - 1].left = P[k].left - 1
  <2>1. P[k] = lat[c][Place(W, k)] /\ P[k] \in E
    <3> HIDE DEF P, C, E
    <3> QED
      BY <1>3, <1>4
  <2>2. P[k].left > 0
    <3>1. Place(W, k) \in W
      BY <1>3
    <3> QED
      BY <2>1, <3>1 DEF Later
  <2> HIDE DEF P
  <2> QED
    BY <2>1, <2>2
<1> HIDE DEF P, W, E, C
<1>7. lat'[c] \in Seq(E) /\ DOMAIN lat'[c] = 1 .. C
  BY <1>3, <1>5, <1>6
<1>8. \A k \in 1 .. C : /\ Place(W, k) \in W
                        /\ lat'[c][k].t = lat[c][Place(W, k)].t
                        /\ lat'[c][k].left = lat[c][Place(W, k)].left - 1
  BY <1>3, <1>5, <1>6
<1> QED
  BY <1>3, <1>7, <1>8 DEF W, E, C

LEMMA TickResp ==
  ASSUME FifoType, Tick(WrPace), NEW c \in Cmds
  PROVE  LET D == Now(c)
             m == Len(resp[c])
         IN
         /\ resp'[c] \in Seq(Tx)
         /\ m \in Nat /\ DOMAIN resp[c] = 1 .. m
         /\ Cardinality(D) \in Nat /\ DOMAIN resp'[c] = 1 .. m + Cardinality(D)
         /\ \A k \in 1 .. m : resp'[c][k] = resp[c][k]
         /\ \A k \in 1 .. Cardinality(D) :
              Place(D, k) \in D /\ resp'[c][m + k] = lat[c][Place(D, k)].t
         /\ \A i \in D : /\ Rank(D, i) \in 1 .. Cardinality(D)
                         /\ Place(D, Rank(D, i)) = i
         /\ \A i, j \in D : i < j => Rank(D, i) < Rank(D, j)
<1> DEFINE D == Now(c)
           E == [t : Tx, left : Nat]
           C == Cardinality(D)
           m == Len(resp[c])
<1>1. lat[c] \in Seq(E) /\ resp[c] \in Seq(Tx)
  BY DEF FifoType
<1>2. Len(lat[c]) \in Nat /\ D \in SUBSET (1 .. Len(lat[c]))
  BY <1>1 DEF Now
<1>3. /\ C \in Nat
      /\ \A k \in 1 .. C : Place(D, k) \in D
      /\ \A i \in D : Rank(D, i) \in 1 .. C /\ Place(D, Rank(D, i)) = i
      /\ \A i, j \in D : i < j => Rank(D, i) < Rank(D, j)
  <2> HIDE DEF D
  <2>1. /\ C \in Nat /\ \A i \in D : Rank(D, i) \in 1 .. C
        /\ \A i, j \in D : i < j => Rank(D, i) < Rank(D, j)
    BY <1>2, Ranks
  <2> QED
    BY <1>2, <2>1, Places
<1> DEFINE P == Picked(lat[c], D)
           Q == [k \in 1 .. C |-> P[k].t]
<1>4. /\ P \in Seq(E) /\ Len(P) = C
      /\ \A k \in 1 .. C : P[k] = lat[c][Place(D, k)]
  <2> HIDE DEF D, E
  <2> QED
    BY <1>1, <1>2, PickedProperties
<1>5. resp'[c] = resp[c] \o Q
  <2>1. resp'[c] = resp[c] \o [i \in 1 .. Len(Due(c)) |-> Due(c)[i].t]
    BY DEF Tick
  <2>2. Due(c) = P
    BY DEF Due, Now
  <2> HIDE DEF P, C
  <2> QED
    BY <1>4, <2>1, <2>2
<1>6. /\ Q \in Seq(Tx) /\ Len(Q) = C
      /\ \A k \in 1 .. C : Q[k] = lat[c][Place(D, k)].t
  <2> HIDE DEF P, C
  <2>1. ASSUME NEW k \in 1 .. C
        PROVE  P[k].t \in Tx
    <3>1. P[k] \in E
      <4> HIDE DEF E
      <4> QED
        BY <1>4
    <3> QED
      BY <3>1
  <2> QED
    BY <1>3, <1>4, <2>1
<1> HIDE DEF P, D, E, C, Q
<1>7. /\ resp'[c] \in Seq(Tx) /\ Len(resp'[c]) = m + C
      /\ \A k \in 1 .. m + C :
           resp'[c][k] = IF k <= m THEN resp[c][k] ELSE Q[k - m]
  <2>1. /\ resp[c] \o Q \in Seq(Tx) /\ Len(resp[c] \o Q) = m + Len(Q)
        /\ \A k \in 1 .. m + Len(Q) :
             (resp[c] \o Q)[k] = IF k <= m THEN resp[c][k] ELSE Q[k - m]
    BY <1>1, <1>6, ConcatProperties
  <2> HIDE DEF m
  <2>2. /\ resp[c] \o Q \in Seq(Tx) /\ Len(resp[c] \o Q) = m + C
        /\ \A k \in 1 .. m + C :
             (resp[c] \o Q)[k] = IF k <= m THEN resp[c][k] ELSE Q[k - m]
    BY <1>6, <2>1
  <2> QED
    BY <1>5, <2>2
<1>8. m \in Nat /\ DOMAIN resp[c] = 1 .. m /\ DOMAIN resp'[c] = 1 .. m + C
  <2>1. m \in Nat /\ DOMAIN resp[c] = 1 .. m
    BY <1>1
  <2>2. DOMAIN resp'[c] = 1 .. Len(resp'[c])
    BY <1>7
  <2> QED
    BY <1>7, <2>1, <2>2
<1> HIDE DEF m
<1>9. ASSUME NEW k \in 1 .. m
      PROVE  resp'[c][k] = resp[c][k]
  <2>1. C \in Nat /\ m \in Nat
    BY <1>3, <1>8
  <2>2. k \in 1 .. m + C /\ k <= m
    BY <2>1
  <2> QED
    BY <1>7, <2>2
<1>10. \A k \in 1 .. C : resp'[c][m + k] = lat[c][Place(D, k)].t
  <2> TAKE k \in 1 .. C
  <2>1. C \in Nat /\ m \in Nat
    BY <1>3, <1>8
  <2>2. m + k \in 1 .. m + C /\ ~(m + k <= m) /\ (m + k) - m = k
    BY <2>1
  <2>3. resp'[c][m + k] = Q[(m + k) - m]
    BY <1>7, <2>2
  <2> QED
    BY <1>6, <2>2, <2>3
<1> QED
  BY <1>3, <1>7, <1>8, <1>9, <1>10 DEF D, C, m

\* The contents of total_arb.
LEMMA ArbValues ==
  /\ Range(<< >>) = {}
  /\ \A c \in Cmds : Range(<<c>>) = {c} /\ Head(<<c>>) = c /\ Tail(<<c>>) = << >>
  /\ \A c, d \in Cmds : /\ Range(<<c, d>>) = {c, d} /\ Head(<<c, d>>) = c
                        /\ Tail(<<c, d>>) = <<d>>
  /\ \A c, d \in Cmds : Append(<< >>, c) = <<c>> /\ Append(<<c>>, d) = <<c, d>>
<1>1. Range(<< >>) = {}
  BY DEF Range
<1>2. \A c \in Cmds : Range(<<c>>) = {c}
  <2> TAKE c \in Cmds
  <2>1. DOMAIN <<c>> = {1} /\ <<c>>[1] = c
    OBVIOUS
  <2> QED
    BY <2>1 DEF Range
<1>3. \A c, d \in Cmds : Range(<<c, d>>) = {c, d}
  <2> TAKE c, d \in Cmds
  <2>1. DOMAIN <<c, d>> = {1, 2} /\ <<c, d>>[1] = c /\ <<c, d>>[2] = d
    OBVIOUS
  <2> QED
    BY <2>1 DEF Range
<1>4. ASSUME NEW c \in Cmds, NEW d \in Cmds
      PROVE  /\ Append(<< >>, c) = <<c>> /\ Append(<<c>>, d) = <<c, d>>
             /\ Head(<<c>>) = c /\ Tail(<<c>>) = << >>
             /\ Head(<<c, d>>) = c /\ Tail(<<c, d>>) = <<d>>
  BY SeqOne, SeqTwo
<1> QED
  BY <1>1, <1>2, <1>3, <1>4

LEMMA TickType ==
  ASSUME FifoType, Tick(WrPace), UNCHANGED <<kind, left>>
  PROVE  FifoType'
<1>1. Den \in Nat \ {0} /\ Horizon \in Nat
  BY RateAssumption DEF RateAssumption
<1>2. lat' \in [Cmds -> Seq([t : Tx, left : Nat])] /\ resp' \in [Cmds -> Seq(Tx)]
  <2>1. \A c \in Cmds : /\ lat'[c] \in Seq([t : Tx, left : Nat])
                        /\ resp'[c] \in Seq(Tx)
    BY TickLat, TickResp
  <2>2. /\ lat' = [c \in Cmds |-> lat'[c]] /\ resp' = [c \in Cmds |-> resp'[c]]
    BY DEF Tick
  <2> QED
    BY <2>1, <2>2
<1>3. /\ togo' \in [Cmds -> Nat]
      /\ thr' \in [Cmds -> {"wait", "arb", "delay", "try", "again"}]
  BY DEF Tick, FifoType
<1>4. owed' \in [Pacers -> Nat]
  <2>1. \A p \in Pacers : owed[p] \in Nat
    BY DEF FifoType
  <2>2. \A p \in Pacers : owed[p] > Den => owed[p] - Den \in Nat
    BY <1>1, <2>1
  <2> QED
    BY <2>2 DEF Tick
<1>5. age' \in [Tx -> 0 .. Horizon]
  <2>1. \A t \in Tx : age[t] \in 0 .. Horizon
    BY DEF FifoType
  <2>2. \A t \in Tx : age[t] < Horizon => age[t] + 1 \in 0 .. Horizon
    BY <1>1, <2>1
  <2> QED
    BY <2>1, <2>2 DEF Tick
<1> QED
  BY <1>2, <1>3, <1>4, <1>5 DEF Tick, FifoType

LEMMA TickThread ==
  ASSUME FifoType, ThreadInv, Tick(WrPace), UNCHANGED kind
  PROVE  ThreadInv'
<1>1. Time("total")' = Time("total")
  BY DEF Tick, Time
<1>2. ASSUME NEW c \in Cmds
      PROVE  /\ thr'[c] = IF thr[c] = "again" \/ (thr[c] = "delay" /\ togo[c] = 1)
                          THEN "try" ELSE thr[c]
             /\ togo'[c] = IF togo[c] > 0 THEN togo[c] - 1 ELSE 0
             /\ togo[c] \in Nat /\ (thr[c] = "delay" <=> togo[c] > 0)
             /\ thr'[c] # "wait" => thr[c] # "wait"
  BY DEF Tick, ThreadInv, FifoType
<1>3. ASSUME NEW c \in Cmds
      PROVE  /\ thr'[c] = "delay" <=> togo'[c] > 0
             /\ thr'[c] # "wait" => resp'[c] # << >>
  <2>1. thr'[c] = "delay" <=> togo'[c] > 0
    BY <1>2
  <2>2. resp[c] # << >> => resp'[c] # << >>
    <3>1. /\ resp[c] \in Seq(Tx) /\ resp'[c] \in Seq(Tx)
          /\ \A k \in DOMAIN resp[c] : k \in DOMAIN resp'[c]
      <4>1. /\ resp'[c] \in Seq(Tx)
            /\ Len(resp[c]) \in Nat /\ DOMAIN resp[c] = 1 .. Len(resp[c])
            /\ Cardinality(Now(c)) \in Nat
            /\ DOMAIN resp'[c] = 1 .. Len(resp[c]) + Cardinality(Now(c))
        BY TickResp
      <4> QED
        BY <4>1 DEF FifoType
    <3>2. resp[c] # << >> => 1 \in DOMAIN resp[c]
      BY <3>1
    <3>3. resp'[c] = << >> => 1 \notin DOMAIN resp'[c]
      BY <3>1
    <3> QED
      BY <3>1, <3>2, <3>3
  <2> QED
    BY <1>2, <2>1, <2>2 DEF ThreadInv
<1> DEFINE Free(c) ==
             thr[c] = "delay" /\ togo[c] = 1 /\ Pace(c, WrPace) = "total"
<1>4. \A c \in Cmds : Pace(c, WrPace) = "total" <=> Time("total") > 0
  BY PaceProperties
<1>5. Time("total") \in Nat
  BY PaceProperties DEF Cmds, Pacers
<1>6. CASE \A c \in Cmds : ~Free(c)
  <2>1. arb' = arb
    BY <1>6 DEF Tick
  <2>2. \A c \in Cmds :
          Time("total") > 0 =>
            /\ thr'[c] \in {"arb", "delay"} <=> thr[c] \in {"arb", "delay"}
            /\ thr'[c] = "delay" => thr[c] = "delay"
    BY <1>2, <1>4, <1>6
  <2> QED
    BY <1>1, <1>3, <2>1, <2>2 DEF ThreadInv
<1>7. CASE \E c \in Cmds : Free(c)
  <2>1. PICK c \in Cmds : Free(c)
    BY <1>7
  <2>2. Time("total") > 0 /\ arb' = Tail(arb)
    BY <1>4, <2>1 DEF Tick
  <2>3. Head(arb) = c /\ c \in Range(arb)
    BY <2>1, <2>2 DEF ThreadInv
  <2>4. PICK d \in Cmds : d # c /\ \A b \in Cmds : b = c \/ b = d
    BY DEF Cmds
  <2>5. arb \in {<<c>>, <<c, d>>}
    <3>1. arb # << >>
      BY <2>3, ArbValues
    <3>2. \/ arb = <<c>> \/ arb = <<d>> \/ arb = <<c, d>> \/ arb = <<d, c>>
      BY <2>4, <3>1 DEF ThreadInv, Cmds
    <3> QED
      BY <2>3, <2>4, <3>2, ArbValues
  <2>6. c \notin Range(arb') /\ (d \in Range(arb') <=> d \in Range(arb))
    <3>1. CASE arb = <<c>>
      <4>1. arb' = << >> /\ Range(arb) = {c}
        BY <2>2, <3>1, ArbValues
      <4> QED
        BY <2>4, <4>1, ArbValues
    <3>2. CASE arb = <<c, d>>
      <4>1. arb' = <<d>> /\ Range(arb) = {c, d}
        BY <2>2, <3>2, ArbValues
      <4>2. Range(arb') = {d}
        BY <4>1, ArbValues
      <4> QED
        BY <2>4, <4>1, <4>2
    <3> QED
      BY <2>5, <3>1, <3>2
  <2>7. arb' \in {<< >>, <<"rd">>, <<"wr">>}
    BY <2>2, <2>5, ArbValues DEF Cmds
  <2>8. thr[d] # "delay"
    BY <2>2, <2>3, <2>4 DEF ThreadInv
  <2>9. thr'[c] = "try" /\ (thr'[d] \in {"arb", "delay"} <=> thr[d] = "arb")
        /\ thr'[d] # "delay"
    BY <1>2, <2>1, <2>8
  <2>10. \A b \in Cmds : /\ thr'[b] \in {"arb", "delay"} <=> b \in Range(arb')
                         /\ thr'[b] # "delay"
    <3>1. thr[d] = "arb" <=> d \in Range(arb)
      BY <2>2, <2>8 DEF ThreadInv
    <3> QED
      BY <2>4, <2>6, <2>9, <3>1
  <2> HIDE DEF Free
  <2> QED
    BY <1>1, <1>3, <1>5, <2>2, <2>7, <2>10 DEF ThreadInv
<1> QED
  BY <1>6, <1>7

\* Where an entry of the fifos comes from.
LEMMA TickFrom ==
  ASSUME FifoType, Tick(WrPace), NEW c \in Cmds
  PROVE  /\ \A k \in DOMAIN lat'[c] :
              \E i \in DOMAIN lat[c] : /\ lat[c][i].left > 0
                                       /\ lat'[c][k].t = lat[c][i].t
         /\ \A k \in DOMAIN resp'[c] :
              \/ k \in DOMAIN resp[c] /\ resp'[c][k] = resp[c][k]
              \/ \E i \in DOMAIN lat[c] :
                   /\ lat[c][i].left = 0 /\ resp'[c][k] = lat[c][i].t
                   /\ k = Len(resp[c]) + Rank(Now(c), i)
         /\ \A i \in DOMAIN lat[c] : lat[c][i].left \in Nat
<1> DEFINE W == Later(c)
           D == Now(c)
           m == Len(resp[c])
<1>1. ASSUME NEW k \in DOMAIN lat'[c]
      PROVE  \E i \in DOMAIN lat[c] : /\ lat[c][i].left > 0
                                      /\ lat'[c][k].t = lat[c][i].t
  <2>1. Place(W, k) \in W /\ lat'[c][k].t = lat[c][Place(W, k)].t
    BY TickLat
  <2> QED
    BY <2>1 DEF Later
<1>2. ASSUME NEW k \in DOMAIN resp'[c]
      PROVE  \/ k \in DOMAIN resp[c] /\ resp'[c][k] = resp[c][k]
             \/ \E i \in DOMAIN lat[c] :
                  /\ lat[c][i].left = 0 /\ resp'[c][k] = lat[c][i].t
                  /\ k = m + Rank(D, i)
  <2>1. /\ m \in Nat /\ DOMAIN resp[c] = 1 .. m
        /\ Cardinality(D) \in Nat /\ DOMAIN resp'[c] = 1 .. m + Cardinality(D)
        /\ \A l \in 1 .. m : resp'[c][l] = resp[c][l]
        /\ \A l \in 1 .. Cardinality(D) :
             Place(D, l) \in D /\ resp'[c][m + l] = lat[c][Place(D, l)].t
    BY TickResp
  <2>2. CASE k \in 1 .. m
    BY <2>1, <2>2
  <2>3. CASE k \notin 1 .. m
    <3>1. k - m \in 1 .. Cardinality(D) /\ m + (k - m) = k
      <4> HIDE DEF m, D
      <4> QED
        BY <2>1, <2>3
    <3>2. Place(D, k - m) \in D /\ resp'[c][k] = lat[c][Place(D, k - m)].t
      BY <2>1, <3>1
    <3>3. Rank(D, Place(D, k - m)) = k - m
      <4>1. /\ Len(lat[c]) \in Nat /\ D \in SUBSET (1 .. Len(lat[c]))
        BY DEF Now, FifoType
      <4> HIDE DEF D, m
      <4> QED
        BY <3>1, <4>1, Places
    <3> QED
      BY <3>1, <3>2, <3>3 DEF Now
  <2> QED
    BY <2>2, <2>3
<1>3. \A i \in DOMAIN lat[c] : lat[c][i].left \in Nat
  <2> DEFINE E == [t : Tx, left : Nat]
  <2>1. lat[c] \in Seq(E)
    BY DEF FifoType
  <2>2. \A i \in DOMAIN lat[c] : lat[c][i] \in E
    <3> HIDE DEF E
    <3> QED
      BY <2>1
  <2> QED
    BY <2>2
<1> QED
  BY <1>1, <1>2, <1>3

LEMMA TickPlace ==
  ASSUME FifoType, PlaceInv, Tick(WrPace)
  PROVE  PlaceInv'
<1>1. UNCHANGED <<drawn, order, done>>
  BY DEF Tick
<1>2. \A t \in Tx : drawn[t] = -1 => age'[t] = age[t]
  BY DEF Tick, InFlight, FifoType
<1>3. ASSUME NEW c \in Cmds, NEW k \in DOMAIN lat'[c]
      PROVE  /\ Cmd[lat'[c][k].t] = c /\ lat'[c][k].t \in Range(order) \ done
             /\ lat'[c][k].t \notin Range(resp'[c])
  <2>1. PICK i \in DOMAIN lat[c] :
          lat[c][i].left > 0 /\ lat'[c][k].t = lat[c][i].t
    BY <1>3, TickFrom
  <2>2. /\ Cmd[lat[c][i].t] = c /\ lat[c][i].t \in Range(order) \ done
        /\ lat[c][i].t \notin Range(resp[c])
    BY DEF PlaceInv
  <2>3. ASSUME NEW l \in DOMAIN resp'[c]
        PROVE  resp'[c][l] # lat[c][i].t
    <3>1. CASE l \in DOMAIN resp[c] /\ resp'[c][l] = resp[c][l]
      BY <2>2, <3>1 DEF Range
    <3>2. CASE \E j \in DOMAIN lat[c] :
                 lat[c][j].left = 0 /\ resp'[c][l] = lat[c][j].t
      <4>1. PICK j \in DOMAIN lat[c] :
              lat[c][j].left = 0 /\ resp'[c][l] = lat[c][j].t
        BY <3>2
      <4>2. i # j
        BY <2>1, <4>1
      <4> QED
        BY <4>1, <4>2 DEF PlaceInv
    <3> QED
      BY <3>1, <3>2, TickFrom
  <2> QED
    BY <2>1, <2>2, <2>3 DEF Range
<1>4. ASSUME NEW c \in Cmds, NEW k \in DOMAIN lat'[c], NEW l \in DOMAIN lat'[c],
             lat'[c][k].t = lat'[c][l].t
      PROVE  k = l
  <2> DEFINE W == Later(c)
  <2>1. /\ Cardinality(W) \in Nat
        /\ k \in 1 .. Cardinality(W) /\ l \in 1 .. Cardinality(W)
        /\ Place(W, k) \in W /\ lat'[c][k].t = lat[c][Place(W, k)].t
        /\ Place(W, l) \in W /\ lat'[c][l].t = lat[c][Place(W, l)].t
        /\ k < l => Place(W, k) < Place(W, l)
        /\ l < k => Place(W, l) < Place(W, k)
    BY TickLat
  <2>2. Place(W, k) = Place(W, l)
    <3>1. Place(W, k) \in DOMAIN lat[c] /\ Place(W, l) \in DOMAIN lat[c]
      BY <2>1 DEF Later
    <3>2. lat[c][Place(W, k)].t = lat[c][Place(W, l)].t
      BY <1>4, <2>1
    <3> HIDE DEF W
    <3> QED
      BY <3>1, <3>2 DEF PlaceInv
  <2>3. Place(W, k) \in Nat
    <3>1. DOMAIN lat[c] = 1 .. Len(lat[c])
      BY DEF FifoType
    <3>2. Place(W, k) \in DOMAIN lat[c]
      BY <2>1 DEF Later
    <3> QED
      BY <3>1, <3>2
  <2> HIDE DEF W
  <2> QED
    BY <2>1, <2>2, <2>3
<1>5. ASSUME NEW c \in Cmds, NEW k \in DOMAIN resp'[c]
      PROVE  Cmd[resp'[c][k]] = c /\ resp'[c][k] \in Range(order) \ done
  BY TickFrom DEF PlaceInv
<1>6. ASSUME NEW c \in Cmds, NEW k \in DOMAIN resp'[c], NEW l \in DOMAIN resp'[c],
             resp'[c][k] = resp'[c][l]
      PROVE  k = l
  <2>1. \A n \in DOMAIN resp'[c] :
          \/ n \in DOMAIN resp[c] /\ resp'[c][n] = resp[c][n]
          \/ \E i \in DOMAIN lat[c] :
               /\ lat[c][i].left = 0 /\ resp'[c][n] = lat[c][i].t
               /\ n = Len(resp[c]) + Rank(Now(c), i)
    BY TickFrom
  <2>2. \A i \in DOMAIN lat[c] : \A n \in DOMAIN resp[c] : lat[c][i].t # resp[c][n]
    BY DEF PlaceInv, Range
  <2>3. CASE k \in DOMAIN resp[c] /\ resp'[c][k] = resp[c][k]
    <3>1. l \in DOMAIN resp[c] /\ resp'[c][l] = resp[c][l]
      <4>1. \A i \in DOMAIN lat[c] : lat[c][i].t # resp'[c][l]
        BY <1>6, <2>2, <2>3
      <4> QED
        BY <2>1, <4>1
    <3>2. IsInjective(resp[c])
      BY DEF PlaceInv
    <3> QED
      BY <1>6, <2>3, <3>1, <3>2 DEF IsInjective
  <2>4. CASE \E i \in DOMAIN lat[c] :
               /\ lat[c][i].left = 0 /\ resp'[c][k] = lat[c][i].t
               /\ k = Len(resp[c]) + Rank(Now(c), i)
    <3>1. PICK i \in DOMAIN lat[c] :
               /\ lat[c][i].left = 0 /\ resp'[c][k] = lat[c][i].t
               /\ k = Len(resp[c]) + Rank(Now(c), i)
      BY <2>4
    <3>2. PICK j \in DOMAIN lat[c] :
               /\ lat[c][j].left = 0 /\ resp'[c][l] = lat[c][j].t
               /\ l = Len(resp[c]) + Rank(Now(c), j)
      <4>1. ~(l \in DOMAIN resp[c] /\ resp'[c][l] = resp[c][l])
        BY <1>6, <2>2, <3>1
      <4> QED
        BY <2>1, <4>1
    <3>3. i = j
      <4>1. lat[c][i].t = lat[c][j].t
        BY <1>6, <3>1, <3>2
      <4> QED
        BY <4>1 DEF PlaceInv
    <3> QED
      BY <3>1, <3>2, <3>3
  <2> QED
    BY <2>1, <2>3, <2>4
<1>7. ASSUME NEW t \in Range(order) \ done
      PROVE  \/ \E k \in DOMAIN lat'[Cmd[t]] : lat'[Cmd[t]][k].t = t
             \/ t \in Range(resp'[Cmd[t]])
  <2> DEFINE c == Cmd[t]
  <2>1. t \in Tx /\ c \in Cmds
    <3>1. t \in Tx
      BY DEF FifoType, Range
    <3> QED
      BY <3>1, PayloadAssumption DEF PayloadAssumption
  <2> HIDE DEF c
  <2>2. CASE t \in Range(resp[c])
    <3>1. PICK k \in DOMAIN resp[c] : resp[c][k] = t
      BY <2>2 DEF Range
    <3>2. k \in DOMAIN resp'[c] /\ resp'[c][k] = resp[c][k]
      <4>1. /\ Len(resp[c]) \in Nat /\ DOMAIN resp[c] = 1 .. Len(resp[c])
            /\ Cardinality(Now(c)) \in Nat
            /\ DOMAIN resp'[c] = 1 .. Len(resp[c]) + Cardinality(Now(c))
            /\ \A l \in 1 .. Len(resp[c]) : resp'[c][l] = resp[c][l]
        BY <2>1, TickResp
      <4> QED
        BY <4>1
    <3> QED
      BY <3>1, <3>2 DEF Range, c
  <2>3. CASE \E i \in DOMAIN lat[c] : lat[c][i].t = t
    <3>1. PICK i \in DOMAIN lat[c] : lat[c][i].t = t
      BY <2>3
    <3>2. CASE lat[c][i].left > 0
      <4>1. i \in Later(c)
        BY <3>2 DEF Later
      <4>2. /\ Rank(Later(c), i) \in DOMAIN lat'[c]
            /\ lat'[c][Rank(Later(c), i)].t = lat[c][i].t
        BY <2>1, <4>1, TickLat
      <4> QED
        BY <3>1, <4>2 DEF c
    <3>3. CASE lat[c][i].left = 0
      <4> DEFINE D == Now(c)
                 m == Len(resp[c])
      <4>1. i \in D
        BY <3>3 DEF Now
      <4>2. /\ Rank(D, i) \in 1 .. Cardinality(D)
            /\ resp'[c][m + Rank(D, i)] = lat[c][i].t
            /\ m \in Nat /\ Cardinality(D) \in Nat
            /\ DOMAIN resp'[c] = 1 .. m + Cardinality(D)
        BY <2>1, <4>1, TickResp
      <4>3. m + Rank(D, i) \in DOMAIN resp'[c]
        <5> HIDE DEF D, m
        <5> QED
          BY <4>2
      <4> QED
        BY <3>1, <4>2, <4>3 DEF Range, c
    <3> QED
      BY <2>1, <3>2, <3>3, TickFrom
  <2> QED
    BY <2>2, <2>3 DEF PlaceInv, c
<1> QED
  BY <1>1, <1>2, <1>3, <1>4, <1>5, <1>6, <1>7 DEF PlaceInv, IsInjective

LEMMA TickOrder ==
  ASSUME FifoType, PlaceInv, CallOrder, LatencyExact, RespOrder, Tick(WrPace)
  PROVE  CallOrder' /\ LatencyExact' /\ RespOrder'
<1>1. UNCHANGED <<drawn, order, done>> /\ Horizon \in Nat
  BY RateAssumption DEF Tick, RateAssumption
<1>2. \A t \in Tx : age[t] \in Nat /\ age'[t] \in Nat /\ age'[t] >= age[t]
  <2>1. \A t \in Tx : age[t] \in Nat
    BY <1>1 DEF FifoType
  <2> QED
    BY <2>1 DEF Tick
<1>3. ASSUME NEW c \in Cmds, NEW k \in DOMAIN lat[c]
      PROVE  LET e == lat[c][k] IN
             /\ e.t \in Tx /\ e.t \in Range(order) \ done
             /\ e.left \in Nat /\ drawn[e.t] \in Nat
             /\ age[e.t] = drawn[e.t] - e.left /\ age'[e.t] = age[e.t] + 1
  <2> DEFINE t == lat[c][k].t
  <2>1. lat[c][k].left \in Nat
    BY TickFrom
  <2>2. t \in Range(order) \ done
    BY DEF PlaceInv
  <2>3. t \in Tx
    BY <2>2 DEF FifoType, Range
  <2>4. drawn[t] # -1 /\ drawn[t] \in -1 .. Horizon - 1
    BY <2>2, <2>3 DEF PlaceInv, FifoType
  <2>5. lat[c][k].left + age[t] = drawn[t]
    BY DEF LatencyExact
  <2> HIDE DEF t
  <2>6. age[t] < Horizon /\ age[t] = drawn[t] - lat[c][k].left /\ drawn[t] \in Nat
    BY <1>1, <1>2, <2>1, <2>3, <2>4, <2>5
  <2>7. age'[t] = age[t] + 1
    BY <2>2, <2>3, <2>4, <2>6 DEF Tick, InFlight
  <2> QED
    BY <2>1, <2>2, <2>3, <2>6, <2>7 DEF t
<1>4. CallOrder'
  <2> SUFFICES ASSUME NEW c \in Cmds, NEW k \in DOMAIN lat'[c],
                      NEW l \in DOMAIN lat'[c],
                      NEW i \in DOMAIN order, NEW j \in DOMAIN order,
                      order[i] = lat'[c][k].t, order[j] = lat'[c][l].t, i < j
               PROVE  k < l /\ age'[order[i]] >= age'[order[j]]
    BY <1>1 DEF CallOrder
  <2> DEFINE W == Later(c)
             p == Place(W, k)
             q == Place(W, l)
  <2>1. /\ Cardinality(W) \in Nat
        /\ k \in 1 .. Cardinality(W) /\ l \in 1 .. Cardinality(W)
        /\ p \in W /\ lat'[c][k].t = lat[c][p].t
        /\ q \in W /\ lat'[c][l].t = lat[c][q].t
        /\ l < k => q < p
    BY TickLat
  <2>2. p \in DOMAIN lat[c] /\ q \in DOMAIN lat[c] /\ p \in Nat /\ q \in Nat
    <3>1. DOMAIN lat[c] = 1 .. Len(lat[c])
      BY DEF FifoType
    <3>2. p \in DOMAIN lat[c] /\ q \in DOMAIN lat[c]
      BY <2>1 DEF Later
    <3> QED
      BY <3>1, <3>2
  <2>3. l = k => q = p
    OBVIOUS
  <2> HIDE DEF p, q, W
  <2>4. order[i] = lat[c][p].t /\ order[j] = lat[c][q].t
    BY <2>1
  <2>5. p < q /\ age[order[i]] >= age[order[j]]
    BY <2>2, <2>4 DEF CallOrder
  <2>6. k < l
    <3>1. k \in Nat /\ l \in Nat
      BY <2>1
    <3> QED
      BY <2>1, <2>2, <2>3, <2>5, <3>1
  <2>7. /\ age'[order[i]] = age[order[i]] + 1 /\ age[order[i]] \in Nat
        /\ age'[order[j]] = age[order[j]] + 1 /\ age[order[j]] \in Nat
    BY <1>2, <1>3, <2>2, <2>4
  <2> QED
    BY <2>5, <2>6, <2>7
<1>5. LatencyExact'
  <2> SUFFICES ASSUME NEW c \in Cmds
               PROVE  /\ \A k \in DOMAIN lat'[c] :
                           lat'[c][k].left + age'[lat'[c][k].t]
                             = drawn[lat'[c][k].t]
                      /\ \A u \in Range(resp'[c]) \union done :
                           age'[u] > drawn[u]
    BY <1>1 DEF LatencyExact
  <2>1. ASSUME NEW k \in DOMAIN lat'[c]
        PROVE  lat'[c][k].left + age'[lat'[c][k].t] = drawn[lat'[c][k].t]
    <3> DEFINE p == Place(Later(c), k)
    <3>1. /\ p \in Later(c) /\ lat'[c][k].t = lat[c][p].t
          /\ lat'[c][k].left = lat[c][p].left - 1
      BY TickLat
    <3>2. p \in DOMAIN lat[c]
      BY <3>1 DEF Later
    <3> HIDE DEF p
    <3> DEFINE t == lat[c][p].t
    <3>3. /\ t \in Tx /\ lat[c][p].left \in Nat /\ drawn[t] \in Nat
          /\ age[t] = drawn[t] - lat[c][p].left /\ age'[t] = age[t] + 1
      BY <1>3, <3>2
    <3>4. lat'[c][k].t = t
      BY <3>1
    <3> HIDE DEF t
    <3> QED
      BY <3>1, <3>3, <3>4
  <2>2. ASSUME NEW u \in done
        PROVE  age'[u] > drawn[u]
    <3>1. age[u] > drawn[u]
      BY DEF LatencyExact
    <3>2. u \in Tx /\ drawn[u] \in Int
      BY <1>1 DEF FifoType
    <3> QED
      BY <1>2, <3>1, <3>2
  <2>3. ASSUME NEW k \in DOMAIN resp'[c]
        PROVE  age'[resp'[c][k]] > drawn[resp'[c][k]]
    <3>1. CASE k \in DOMAIN resp[c] /\ resp'[c][k] = resp[c][k]
      <4> DEFINE u == resp[c][k]
      <4>1. u \in Range(resp[c]) /\ u \in Tx
        BY <3>1 DEF FifoType, Range
      <4>2. age[u] > drawn[u] /\ drawn[u] \in Int
        BY <1>1, <4>1 DEF LatencyExact, FifoType
      <4> HIDE DEF u
      <4>3. age'[u] > drawn[u]
        BY <1>2, <4>1, <4>2
      <4> QED
        BY <3>1, <4>3 DEF u
    <3>2. CASE \E i \in DOMAIN lat[c] :
                 lat[c][i].left = 0 /\ resp'[c][k] = lat[c][i].t
      <4>1. PICK i \in DOMAIN lat[c] :
                   lat[c][i].left = 0 /\ resp'[c][k] = lat[c][i].t
        BY <3>2
      <4> DEFINE t == lat[c][i].t
      <4>2. /\ drawn[t] \in Nat
            /\ age[t] = drawn[t] - 0 /\ age'[t] = age[t] + 1
        BY <1>3, <4>1
      <4> HIDE DEF t
      <4>3. age'[t] > drawn[t]
        BY <4>2
      <4> QED
        BY <4>1, <4>3 DEF t
    <3> QED
      BY <3>1, <3>2, TickFrom
  <2> QED
    BY <2>1, <2>2, <2>3 DEF Range
<1>6. RespOrder'
  <2> SUFFICES ASSUME NEW i \in DOMAIN order, NEW j \in DOMAIN order,
                      i < j, Cmd[order[i]] = Cmd[order[j]],
                      drawn[order[i]] <= drawn[order[j]],
                      NEW l \in DOMAIN resp'[Cmd[order[i]]],
                      resp'[Cmd[order[i]]][l] = order[j], order[i] \notin done
               PROVE  \E k \in 1 .. l - 1 : resp'[Cmd[order[i]]][k] = order[i]
    BY <1>1 DEF RespOrder
  <2> DEFINE t == order[i]
             u == order[j]
             c == Cmd[t]
             D == Now(c)
             m == Len(resp[c])
  <2>1. t \in Tx /\ u \in Tx /\ c \in Cmds /\ t \in Range(order) \ done
    BY PayloadAssumption DEF PayloadAssumption, FifoType, Range
  <2>2. /\ m \in Nat /\ DOMAIN resp[c] = 1 .. m
        /\ \A k \in 1 .. m : resp'[c][k] = resp[c][k]
        /\ Cardinality(D) \in Nat
        /\ \A n \in D : /\ Rank(D, n) \in 1 .. Cardinality(D)
                        /\ Place(D, Rank(D, n)) = n
        /\ \A k \in 1 .. Cardinality(D) :
             resp'[c][m + k] = lat[c][Place(D, k)].t
        /\ \A n, o \in D : n < o => Rank(D, n) < Rank(D, o)
    BY <2>1, TickResp
  <2>3. CASE l \in DOMAIN resp[c] /\ resp'[c][l] = resp[c][l]
    <3>1. resp[c][l] = u
      BY <2>3
    <3>2. PICK k \in 1 .. l - 1 : resp[c][k] = t
      BY <2>3, <3>1 DEF RespOrder
    <3>3. k \in 1 .. m
      <4> HIDE DEF m, c
      <4> QED
        BY <2>2, <2>3
    <3> QED
      BY <2>2, <3>2, <3>3
  <2>4. CASE \E b \in DOMAIN lat[c] :
               /\ lat[c][b].left = 0 /\ resp'[c][l] = lat[c][b].t
               /\ l = m + Rank(D, b)
    <3>1. PICK b \in DOMAIN lat[c] :
               /\ lat[c][b].left = 0 /\ lat[c][b].t = u /\ l = m + Rank(D, b)
      BY <2>4
    <3>2. b \in D
      BY <3>1 DEF Now
    <3>3. CASE t \in Range(resp[c])
      <4>1. PICK k \in 1 .. m : resp[c][k] = t
        BY <2>2, <3>3 DEF Range
      <4>2. k \in 1 .. l - 1
        <5>1. Rank(D, b) \in 1 .. Cardinality(D)
          BY <2>2, <3>2
        <5> HIDE DEF m, D
        <5> QED
          BY <2>2, <3>1, <5>1
      <4> QED
        BY <2>2, <4>1, <4>2
    <3>4. CASE \E a \in DOMAIN lat[c] : lat[c][a].t = t
      <4>1. PICK a \in DOMAIN lat[c] : lat[c][a].t = t
        BY <3>4
      <4>2. a < b /\ age[t] >= age[u]
        BY <2>1, <3>1, <4>1 DEF CallOrder
      <4>3. /\ lat[c][a].left \in Nat /\ drawn[t] \in Nat /\ drawn[u] \in Nat
            /\ age[t] = drawn[t] - lat[c][a].left /\ age[u] = drawn[u] - 0
        BY <1>3, <2>1, <3>1, <4>1
      <4>4. drawn[t] <= drawn[u]
        OBVIOUS
      <4>5. lat[c][a].left = 0
        <5> HIDE DEF t, u, c
        <5> QED
          BY <4>2, <4>3, <4>4
      <4>6. a \in D
        BY <4>5 DEF Now
      <4>7. Rank(D, a) < Rank(D, b)
        BY <2>2, <3>2, <4>2, <4>6
      <4>8. /\ Rank(D, a) \in 1 .. Cardinality(D)
            /\ Rank(D, b) \in 1 .. Cardinality(D)
            /\ resp'[c][m + Rank(D, a)] = lat[c][a].t
        BY <2>2, <3>2, <4>6
      <4>9. m + Rank(D, a) \in 1 .. l - 1
        <5> HIDE DEF m, D
        <5> QED
          BY <2>2, <3>1, <4>7, <4>8
      <4> QED
        BY <4>1, <4>8, <4>9
    <3> QED
      BY <2>1, <3>3, <3>4, SMTT(30) DEF PlaceInv
  <2> QED
    BY <2>1, <2>3, <2>4, TickFrom
<1> QED
  BY <1>4, <1>5, <1>6

-----------------------------------------------------------------------------
(* The threads.                                                            *)

\* Steps that leave the payloads where they are.
LEMMA PlaceFrame ==
  ASSUME UNCHANGED <<lat, resp, drawn, age, order, done>>
  PROVE  /\ PlaceInv => PlaceInv'
         /\ CallOrder => CallOrder'
         /\ LatencyExact => LatencyExact'
         /\ RespOrder => RespOrder'
BY DEF PlaceInv, CallOrder, LatencyExact, RespOrder

LEMMA PickStep ==
  ASSUME FifoType, ThreadInv, NEW c \in Cmds, Pick(c, WrPace),
         UNCHANGED <<kind, left>>
  PROVE  FifoType' /\ ThreadInv'
<1>1. FifoType'
  BY DEF Pick, FifoType
<1>2. Time("total")' = Time("total")
  BY DEF Pick, Time
<1>3. /\ thr[c] = "wait" /\ resp[c] # << >> /\ UNCHANGED <<resp, togo>>
      /\ thr'[c] \in {"try", "arb"} /\ \A d \in Cmds : d # c => thr'[d] = thr[d]
  BY DEF Pick, FifoType
<1>4. Pace(c, WrPace) = "total" <=> Time("total") > 0
  BY PaceProperties
<1>5. Time("total") \in Nat
  BY PaceProperties DEF Pacers
<1>6. \A d \in Cmds : /\ thr'[d] = "delay" <=> togo'[d] > 0
                      /\ thr'[d] # "wait" => resp'[d] # << >>
                      /\ thr'[d] = "delay" => thr[d] = "delay"
  BY <1>3 DEF ThreadInv
<1>7. CASE Time("total") = 0
  <2>1. arb' = arb
    BY <1>4, <1>7 DEF Pick
  <2> QED
    BY <1>1, <1>2, <1>6, <1>7, <2>1 DEF ThreadInv
<1>8. CASE Time("total") > 0
  <2>1. arb' = Append(arb, c) /\ thr'[c] = "arb"
    BY <1>4, <1>8 DEF Pick, FifoType
  <2>2. PICK d \in Cmds : d # c /\ \A b \in Cmds : b = c \/ b = d
    BY DEF Cmds
  <2>3. c \notin Range(arb)
    BY <1>3, <1>8 DEF ThreadInv
  <2>4. arb = << >> \/ arb = <<d>>
    <3>1. \/ arb = << >> \/ arb = <<c>> \/ arb = <<d>>
          \/ arb = <<c, d>> \/ arb = <<d, c>>
      BY <2>2 DEF ThreadInv, Cmds
    <3> QED
      BY <2>3, <3>1, ArbValues
  <2>5. /\ arb' = <<c>> \/ arb' = <<d, c>>
        /\ \A b \in Cmds : b \in Range(arb') <=> b = c \/ b \in Range(arb)
        /\ arb # << >> => Head(arb') = Head(arb)
    <3>1. CASE arb = << >>
      <4>1. arb' = <<c>> /\ Range(arb') = {c} /\ Range(arb) = {}
        BY <2>1, <3>1, ArbValues
      <4> QED
        BY <3>1, <4>1
    <3>2. CASE arb = <<d>>
      <4>1. arb' = <<d, c>>
        BY <2>1, <3>2, ArbValues
      <4>2. Range(arb') = {d, c} /\ Range(arb) = {d} /\ Head(arb') = Head(arb)
        BY <3>2, <4>1, ArbValues
      <4> QED
        BY <4>1, <4>2
    <3> QED
      BY <2>4, <3>1, <3>2
  <2>6. arb' \in {<< >>, <<"rd">>, <<"wr">>, <<"rd", "wr">>, <<"wr", "rd">>}
    BY <2>2, <2>5 DEF Cmds
  <2>7. \A b \in Cmds : /\ thr'[b] \in {"arb", "delay"} <=> b \in Range(arb')
                        /\ thr'[b] = "delay" => Head(arb') = b
    <3>1. ASSUME NEW b \in Cmds, b # c
          PROVE  /\ thr'[b] = thr[b]
                 /\ thr[b] \in {"arb", "delay"} <=> b \in Range(arb)
                 /\ thr[b] = "delay" => Head(arb) = b /\ arb # << >>
      BY <1>3, <1>8, <3>1, ArbValues DEF ThreadInv
    <3>2. thr'[c] \in {"arb", "delay"} /\ c \in Range(arb') /\ thr'[c] # "delay"
      BY <2>1, <2>5
    <3> QED
      BY <2>5, <3>1, <3>2
  <2> QED
    BY <1>1, <1>2, <1>5, <1>6, <1>8, <2>6, <2>7 DEF ThreadInv
<1> QED
  BY <1>1, <1>5, <1>7, <1>8

\* What a delay computes.
LEMMA Division ==
  ASSUME NEW n \in Nat, NEW d \in Nat \ {0}
  PROVE  /\ n \div d \in Nat /\ n % d \in 0 .. d - 1
         /\ n = (n \div d) * d + (n % d)
         /\ Edges(n \div d) \in Nat \ {0}
         /\ n - (n % d) <= Edges(n \div d) * d
<1>1. n \div d \in Nat /\ n % d \in 0 .. d - 1
  OBVIOUS
<1>2. n = (n \div d) * d + (n % d)
  OBVIOUS
<1> DEFINE q == n \div d
           r == n % d
<1> HIDE DEF q, r
<1>3. q \in Nat /\ r \in Nat /\ n = q * d + r
  BY <1>1, <1>2 DEF q, r
<1>4. Edges(q) \in Nat \ {0}
  BY <1>3 DEF Edges
<1>5. n - r = q * d /\ q * d \in Nat
  BY <1>3
<1>6. q = 0 => n - r = 0 /\ Edges(q) * d = d
  BY <1>3 DEF Edges
<1>7. n - r <= Edges(q) * d
  <2>1. CASE q = 0
    BY <1>6, <2>1
  <2>2. CASE q # 0
    BY <1>5, <2>2 DEF Edges
  <2> QED
    BY <2>1, <2>2
<1> QED
  BY <1>1, <1>2, <1>4, <1>7 DEF q, r

Spent(c) == IF Pace(c, WrPace) = "total" THEN "total" ELSE c

LEMMA DelayFacts ==
  ASSUME FifoType, ThreadInv, PaceInv, NEW c \in Cmds, Delay(c, WrPace)
  PROVE  LET r == Spent(c)
             b == Bytes[Head(resp[c])] * Time(Pace(c, WrPace))
         IN  /\ r \in Pacers /\ Head(resp[c]) \in Tx
             /\ resid[r] \in Nat
             /\ b \in Nat
             /\ resid' = [resid EXCEPT ![r] = (b + resid[r]) % Den]
             /\ togo' = [togo EXCEPT ![c] = Edges((b + resid[r]) \div Den)]
             /\ resid'[r] \in 0 .. Den - 1 /\ togo'[c] \in Nat \ {0}
             /\ (b + resid[r]) - resid'[r] <= togo'[c] * Den
<1> DEFINE r == Spent(c)
           b == Bytes[Head(resp[c])] * Time(Pace(c, WrPace))
<1>1. r \in Pacers
  BY DEF Spent, Pacers, Cmds
<1>2. resp[c] # << >>
  BY DEF Delay, LetIn, ThreadInv
<1>3. Head(resp[c]) \in Tx
  BY <1>2 DEF FifoType
<1>4. resid[r] \in Nat /\ Den \in Nat \ {0}
  <2>1. resid[r] \in 0 .. Den - 1
    BY <1>1 DEF FifoType
  <2> QED
    BY <2>1, RateAssumption DEF RateAssumption
<1>5. b \in Nat
  <2>0. Pace(c, WrPace) \in Pacers
    BY PaceProperties DEF Delay, LetIn, PaceInv
  <2>1. Time(Pace(c, WrPace)) \in Nat
    BY <2>0, PaceProperties
  <2>2. Bytes[Head(resp[c])] \in Nat
    BY <1>3, PayloadAssumption DEF PayloadAssumption
  <2> QED
    BY <2>1, <2>2
<1>6. /\ resid' = [resid EXCEPT ![r] = (b + resid[r]) % Den]
      /\ togo' = [togo EXCEPT ![c] = Edges((b + resid[r]) \div Den)]
  BY DEF Delay, Resid, Spent
<1> HIDE DEF b, r
<1>7. /\ resid'[r] = (b + resid[r]) % Den
      /\ togo'[c] = Edges((b + resid[r]) \div Den)
  <2>1. r \in DOMAIN resid /\ c \in DOMAIN togo
    BY <1>1 DEF FifoType
  <2> QED
    BY <1>6, <2>1
<1>8. /\ resid'[r] \in 0 .. Den - 1 /\ togo'[c] \in Nat \ {0}
      /\ (b + resid[r]) - resid'[r] <= togo'[c] * Den
  <2>1. b + resid[r] \in Nat
    BY <1>4, <1>5
  <2>2. /\ (b + resid[r]) % Den \in 0 .. Den - 1
        /\ Edges((b + resid[r]) \div Den) \in Nat \ {0}
        /\ (b + resid[r]) - ((b + resid[r]) % Den)
             <= Edges((b + resid[r]) \div Den) * Den
    BY <1>4, <2>1, Division
  <2> QED
    BY <1>7, <2>2
<1> QED
  BY <1>1, <1>3, <1>4, <1>5, <1>6, <1>8 DEF b, r

LEMMA PaceStep ==
  ASSUME PaceInv, UNCHANGED <<kind, limit>>,
         \A c \in Cmds : thr'[c] \in {"arb", "delay"} =>
           thr[c] \in {"arb", "delay"} \/ Pace(c, WrPace) # "none"
  PROVE  PaceInv'
BY DEF PaceInv, Pace, Time, WrPace

LEMMA DelayStep ==
  ASSUME FifoType, ThreadInv, PaceInv, NEW c \in Cmds, Delay(c, WrPace),
         UNCHANGED <<kind, left>>
  PROVE  FifoType' /\ ThreadInv' /\ PaceInv'
<1> DEFINE r == Spent(c)
           b == Bytes[Head(resp[c])] * Time(Pace(c, WrPace))
<1>1. /\ r \in Pacers
      /\ resid' = [resid EXCEPT ![r] = (b + resid[r]) % Den]
      /\ togo' = [togo EXCEPT ![c] = Edges((b + resid[r]) \div Den)]
      /\ resid'[r] \in 0 .. Den - 1 /\ togo'[c] \in Nat \ {0}
  BY DelayFacts
<1> HIDE DEF r, b
<1>2. /\ thr[c] = "arb" /\ thr' = [thr EXCEPT ![c] = "delay"]
      /\ UNCHANGED <<limit, lat, resp, arb, drawn, age, order, done, owed>>
      /\ Pace(c, WrPace) = "total" => Head(arb) = c
  BY DEF Delay, LetIn
<1>3. FifoType'
  <2>1. resid' \in [Pacers -> 0 .. Den - 1]
    BY <1>1 DEF FifoType
  <2>2. togo' \in [Cmds -> Nat]
    BY <1>1 DEF FifoType
  <2>3. thr' \in [Cmds -> {"wait", "arb", "delay", "try", "again"}]
    BY <1>2 DEF FifoType
  <2> QED
    BY <1>2, <2>1, <2>2, <2>3 DEF FifoType
<1>4. /\ thr'[c] = "delay" /\ \A d \in Cmds : d # c => thr'[d] = thr[d]
      /\ togo'[c] > 0 /\ \A d \in Cmds : d # c => togo'[d] = togo[d]
  BY <1>1, <1>2 DEF FifoType
<1>5. ThreadInv'
  <2>1. Time("total")' = Time("total")
    BY <1>2 DEF Time
  <2>2. Pace(c, WrPace) = "total" <=> Time("total") > 0
    BY PaceProperties
  <2>3. \A d \in Cmds : /\ thr'[d] = "delay" <=> togo'[d] > 0
                        /\ thr'[d] # "wait" => resp'[d] # << >>
    BY <1>2, <1>4 DEF ThreadInv
  <2>4. ASSUME Time("total") > 0, NEW d \in Cmds
        PROVE  /\ thr'[d] \in {"arb", "delay"} <=> d \in Range(arb')
               /\ thr'[d] = "delay" => Head(arb') = d
    <3>1. CASE d = c
      BY <1>2, <1>4, <2>2, <2>4, <3>1 DEF ThreadInv
    <3>2. CASE d # c
      BY <1>2, <1>4, <2>4, <3>2 DEF ThreadInv
    <3> QED
      BY <3>1, <3>2
  <2> QED
    BY <1>2, <2>1, <2>3, <2>4 DEF ThreadInv
<1>6. PaceInv'
  BY <1>2, <1>4, PaceStep DEF PaceInv
<1> QED
  BY <1>3, <1>5, <1>6

LEMMA RefuseStep ==
  ASSUME FifoType, ThreadInv, PaceInv, NEW c \in Cmds, Refused(c),
         UNCHANGED <<kind, left>>
  PROVE  FifoType' /\ ThreadInv' /\ PaceInv'
<1>1. FifoType'
  BY DEF Refused, FifoType
<1>2. /\ thr[c] = "try" /\ thr'[c] = "again"
      /\ \A d \in Cmds : d # c => thr'[d] = thr[d]
      /\ UNCHANGED <<limit, resp, arb, togo>>
  BY DEF Refused, FifoType
<1>3. ThreadInv'
  BY <1>2 DEF ThreadInv, Time
<1>4. PaceInv'
  BY <1>2, PaceStep
<1> QED
  BY <1>1, <1>3, <1>4

\* What handing a response over changes.
LEMMA AcceptFacts ==
  ASSUME FifoType, ThreadInv, NEW c \in Cmds, Accepted(c, WrPace)
  PROVE  LET t == Head(resp[c])
             n == Len(resp[c])
         IN  /\ n \in Nat \ {0} /\ DOMAIN resp[c] = 1 .. n
             /\ t \in Tx /\ resp[c][1] = t
             /\ resp'[c] \in Seq(Tx) /\ DOMAIN resp'[c] = 1 .. n - 1
             /\ \A k \in 1 .. n - 1 : resp'[c][k] = resp[c][k + 1]
             /\ \A d \in Cmds : d # c => resp'[d] = resp[d]
             /\ done' = done \union {t}
             /\ thr[c] = "try" /\ thr'[c] = "wait"
             /\ \A d \in Cmds : d # c => thr'[d] = thr[d]
             /\ UNCHANGED <<limit, lat, togo, resid, arb, drawn, age, order>>
<1> DEFINE s == resp[c]
<1>1. s \in Seq(Tx) /\ s # << >>
  BY DEF Accepted, ThreadInv, FifoType
<1>2. /\ Len(s) \in Nat \ {0} /\ DOMAIN s = 1 .. Len(s)
      /\ Head(s) \in Tx /\ s[1] = Head(s)
      /\ Tail(s) \in Seq(Tx) /\ DOMAIN Tail(s) = 1 .. Len(s) - 1
      /\ \A k \in 1 .. Len(s) - 1 : Tail(s)[k] = s[k + 1]
  <2> HIDE DEF s
  <2> QED
    BY <1>1
<1>3. resp'[c] = Tail(s) /\ \A d \in Cmds : d # c => resp'[d] = resp[d]
  BY DEF Accepted, FifoType
<1>4. /\ thr[c] = "try" /\ thr'[c] = "wait"
      /\ \A d \in Cmds : d # c => thr'[d] = thr[d]
      /\ done' = done \union {Head(s)}
      /\ UNCHANGED <<limit, lat, togo, resid, arb, drawn, age, order>>
  BY DEF Accepted, FifoType
<1> QED
  BY <1>2, <1>3, <1>4

LEMMA AcceptType ==
  ASSUME FifoType, ThreadInv, PaceInv, NEW c \in Cmds, Accepted(c, WrPace),
         UNCHANGED <<kind, left>>
  PROVE  FifoType' /\ ThreadInv' /\ PaceInv'
<1>1. /\ Head(resp[c]) \in Tx /\ resp'[c] \in Seq(Tx)
      /\ done' = done \union {Head(resp[c])}
      /\ thr[c] = "try" /\ thr'[c] = "wait"
      /\ \A d \in Cmds : d # c => thr'[d] = thr[d] /\ resp'[d] = resp[d]
      /\ UNCHANGED <<limit, lat, togo, resid, arb, drawn, age, order>>
  BY AcceptFacts
<1>2. FifoType'
  <2>1. resp' \in [Cmds -> Seq(Tx)]
    <3>1. resp' = [resp EXCEPT ![c] = Tail(@)]
      BY DEF Accepted
    <3>2. resp' = [d \in Cmds |-> resp'[d]]
      BY <3>1 DEF FifoType
    <3>3. \A d \in Cmds : resp'[d] \in Seq(Tx)
      BY <1>1 DEF FifoType
    <3> QED
      BY <3>2, <3>3
  <2>2. thr' \in [Cmds -> {"wait", "arb", "delay", "try", "again"}]
    BY DEF Accepted, FifoType
  <2>3. owed' \in [Pacers -> Nat]
    <3>1. owed' = [p \in Pacers |->
             IF p \in {"total", c} THEN owed[p] + Bytes[Head(resp[c])] * Time(p)
             ELSE owed[p]]
      BY DEF Accepted
    <3>2. ASSUME NEW p \in Pacers
          PROVE  owed[p] + Bytes[Head(resp[c])] * Time(p) \in Nat
      <4>1. Bytes[Head(resp[c])] \in Nat
        BY <1>1, PayloadAssumption DEF PayloadAssumption
      <4>2. Time(p) \in Nat /\ owed[p] \in Nat
        BY <3>2, PaceProperties DEF FifoType
      <4> QED
        BY <4>1, <4>2
    <3>3. \A p \in Pacers : owed[p] \in Nat
      BY DEF FifoType
    <3> QED
      BY <3>1, <3>2, <3>3
  <2>4. done' \in SUBSET Tx
    BY <1>1 DEF FifoType
  <2> QED
    BY <1>1, <2>1, <2>2, <2>3, <2>4 DEF FifoType
<1>3. ThreadInv'
  BY <1>1 DEF ThreadInv, Time
<1>4. PaceInv'
  BY <1>1, PaceStep
<1> QED
  BY <1>2, <1>3, <1>4

LEMMA AcceptPlace ==
  ASSUME FifoType, ThreadInv, PlaceInv, NEW c \in Cmds, Accepted(c, WrPace)
  PROVE  PlaceInv'
<1> DEFINE t == Head(resp[c])
           n == Len(resp[c])
<1>1. /\ n \in Nat \ {0} /\ DOMAIN resp[c] = 1 .. n
      /\ t \in Tx /\ resp[c][1] = t
      /\ DOMAIN resp'[c] = 1 .. n - 1
      /\ \A k \in 1 .. n - 1 : resp'[c][k] = resp[c][k + 1]
      /\ \A d \in Cmds : d # c => resp'[d] = resp[d]
      /\ done' = done \union {t}
      /\ UNCHANGED <<lat, drawn, age, order>>
  BY AcceptFacts
<1> HIDE DEF n, t
<1>2. /\ 1 \in 1 .. n
      /\ \A k \in 1 .. n - 1 : k \in Nat /\ k + 1 \in 1 .. n /\ k + 1 # 1
      /\ \A k \in 1 .. n : k # 1 => k - 1 \in 1 .. n - 1 /\ (k - 1) + 1 = k
  BY <1>1
<1>3. Cmd[t] = c /\ t \in Range(order) \ done
  BY <1>1, <1>2 DEF PlaceInv
<1>4. ASSUME NEW d \in Cmds, NEW k \in DOMAIN resp'[d]
      PROVE  /\ resp'[d][k] \in Range(resp[d]) \ {t}
             /\ Cmd[resp'[d][k]] = d /\ resp'[d][k] \in Range(order) \ done'
  <2>1. CASE d # c
    BY <1>1, <1>3, <2>1 DEF PlaceInv, Range
  <2>2. CASE d = c
    <3>1. k \in 1 .. n - 1 /\ resp'[c][k] = resp[c][k + 1]
      BY <1>1, <2>2
    <3>2. k + 1 \in DOMAIN resp[c] /\ 1 \in DOMAIN resp[c] /\ k + 1 # 1
      BY <1>1, <1>2, <3>1
    <3>3. resp[c][k + 1] # t
      <4>1. IsInjective(resp[c])
        BY DEF PlaceInv
      <4> QED
        BY <1>1, <3>2, <4>1 DEF IsInjective
    <3>4. Cmd[resp[c][k + 1]] = c /\ resp[c][k + 1] \in Range(order) \ done
      BY <3>2 DEF PlaceInv
    <3> QED
      BY <1>1, <2>2, <3>1, <3>2, <3>3, <3>4 DEF Range
  <2> QED
    BY <2>1, <2>2
<1>5. ASSUME NEW d \in Cmds
      PROVE  IsInjective(resp'[d])
  <2>1. IsInjective(resp[d])
    BY DEF PlaceInv
  <2>2. CASE d # c
    BY <1>1, <2>1, <2>2
  <2>3. CASE d = c
    <3>1. \A k, l \in 1 .. n - 1 : resp[c][k + 1] = resp[c][l + 1] => k = l
      <4> TAKE k, l \in 1 .. n - 1
      <4>1. k + 1 = l + 1 => k = l
        BY <1>2
      <4> QED
        BY <1>1, <1>2, <2>1, <2>3, <4>1 DEF IsInjective
    <3>2. \A k, l \in DOMAIN resp'[c] : resp'[c][k] = resp'[c][l] => k = l
      BY <1>1, <3>1
    <3> QED
      BY <2>3, <3>2 DEF IsInjective
  <2> QED
    BY <2>2, <2>3
<1>6. ASSUME NEW d \in Cmds, NEW k \in DOMAIN lat[d]
      PROVE  /\ Cmd[lat[d][k].t] = d /\ lat[d][k].t \in Range(order) \ done'
             /\ lat[d][k].t \notin Range(resp'[d])
  <2>1. /\ Cmd[lat[d][k].t] = d /\ lat[d][k].t \in Range(order) \ done
        /\ lat[d][k].t \notin Range(resp[d])
    BY DEF PlaceInv
  <2>2. lat[d][k].t # t
    BY <1>1, <1>2, <1>3, <2>1 DEF Range
  <2>3. Range(resp'[d]) \subseteq Range(resp[d])
    BY <1>4 DEF Range
  <2> QED
    BY <1>1, <2>1, <2>2, <2>3
<1>7. ASSUME NEW u \in Range(order) \ done'
      PROVE  \/ \E k \in DOMAIN lat[Cmd[u]] : lat[Cmd[u]][k].t = u
             \/ u \in Range(resp'[Cmd[u]])
  <2>1. u \in Range(order) \ done /\ u # t /\ u \in Tx
    BY <1>1 DEF FifoType, Range
  <2>2. Cmd[u] \in Cmds
    BY <2>1, PayloadAssumption DEF PayloadAssumption
  <2>3. CASE u \in Range(resp[Cmd[u]])
    <3>1. CASE Cmd[u] # c
      BY <1>1, <2>2, <2>3, <3>1
    <3>2. CASE Cmd[u] = c
      <4>1. PICK k \in 1 .. n : resp[c][k] = u
        BY <1>1, <2>3, <3>2 DEF Range
      <4>2. k # 1
        BY <1>1, <2>1, <4>1
      <4>3. k - 1 \in DOMAIN resp'[c] /\ resp'[c][k - 1] = u
        BY <1>1, <1>2, <4>1, <4>2
      <4> QED
        BY <3>2, <4>3 DEF Range
    <3> QED
      BY <3>1, <3>2
  <2> QED
    BY <2>1, <2>3 DEF PlaceInv
<1>8. done' \subseteq Range(order)
  BY <1>1, <1>3 DEF PlaceInv
<1>9. /\ IsInjective(order)
      /\ \A u \in Tx : /\ drawn[u] = -1 <=> u \notin Range(order)
                       /\ drawn[u] = -1 => age[u] = 0
      /\ \A d \in Cmds : \A k, l \in DOMAIN lat[d] :
           lat[d][k].t = lat[d][l].t => k = l
  BY DEF PlaceInv
<1> QED
  BY <1>1, <1>4, <1>5, <1>6, <1>7, <1>8, <1>9 DEF PlaceInv

LEMMA AcceptOrder ==
  ASSUME FifoType, ThreadInv, PlaceInv, CallOrder, LatencyExact, RespOrder,
         NEW c \in Cmds, Accepted(c, WrPace)
  PROVE  CallOrder' /\ LatencyExact' /\ RespOrder'
<1> DEFINE h == Head(resp[c])
           n == Len(resp[c])
<1>1. /\ n \in Nat \ {0} /\ DOMAIN resp[c] = 1 .. n
      /\ h \in Tx /\ resp[c][1] = h
      /\ DOMAIN resp'[c] = 1 .. n - 1
      /\ \A k \in 1 .. n - 1 : resp'[c][k] = resp[c][k + 1]
      /\ \A d \in Cmds : d # c => resp'[d] = resp[d]
      /\ done' = done \union {h}
      /\ UNCHANGED <<lat, drawn, age, order>>
  BY AcceptFacts
<1> HIDE DEF n, h
<1>2. /\ 1 \in 1 .. n
      /\ \A k \in 1 .. n - 1 : k \in Nat /\ k + 1 \in 1 .. n
      /\ \A k \in 1 .. n : k # 1 => k - 1 \in 1 .. n - 1 /\ (k - 1) + 1 = k
  BY <1>1
<1>3. Cmd[h] = c
  BY <1>1, <1>2 DEF PlaceInv
<1>4. CallOrder'
  BY <1>1 DEF CallOrder
<1>5. LatencyExact'
  <2>1. h \in Range(resp[c])
    BY <1>1, <1>2 DEF Range
  <2>2. \A d \in Cmds : Range(resp'[d]) \subseteq Range(resp[d])
    BY <1>1, <1>2, SMTT(30) DEF Range
  <2> QED
    BY <1>1, <2>1, <2>2 DEF LatencyExact
<1>6. RespOrder'
  <2> SUFFICES ASSUME NEW i \in DOMAIN order, NEW j \in DOMAIN order,
                      i < j, Cmd[order[i]] = Cmd[order[j]],
                      drawn[order[i]] <= drawn[order[j]]
               PROVE  LET s == resp'[Cmd[order[i]]] IN
                      /\ order[j] \in done' => order[i] \in done'
                      /\ \A l \in DOMAIN s :
                           s[l] = order[j] =>
                             order[i] \in done' \/ \E k \in 1 .. l - 1 :
                               s[k] = order[i]
    BY <1>1 DEF RespOrder
  <2> DEFINE t == order[i]
             u == order[j]
  <2>0. /\ u \in done => t \in done
        /\ \A l \in DOMAIN resp[Cmd[t]] :
             resp[Cmd[t]][l] = u =>
               t \in done \/ \E k \in 1 .. l - 1 : resp[Cmd[t]][k] = t
    BY DEF RespOrder
  <2>1. Cmd[t] \in Cmds /\ Cmd[t] = Cmd[u]
    <3>1. t \in Tx
      BY DEF FifoType
    <3> QED
      BY <3>1, PayloadAssumption DEF PayloadAssumption
  <2> HIDE DEF t, u
  <2>2. u \in done' => t \in done'
    <3>1. CASE u = h
      <4>1. 1 .. 1 - 1 = {}
        OBVIOUS
      <4>2. Cmd[t] = c /\ resp[Cmd[t]][1] = u /\ 1 \in DOMAIN resp[Cmd[t]]
        BY <1>1, <1>2, <1>3, <2>1, <3>1
      <4> QED
        BY <1>1, <2>0, <4>1, <4>2
    <3> QED
      BY <1>1, <2>0, <3>1
  <2>3. ASSUME NEW l \in DOMAIN resp'[Cmd[t]], resp'[Cmd[t]][l] = u
        PROVE  t \in done' \/ \E k \in 1 .. l - 1 : resp'[Cmd[t]][k] = t
    <3>1. CASE Cmd[t] # c
      BY <1>1, <2>0, <2>1, <2>3, <3>1
    <3>2. CASE Cmd[t] = c
      <4>1. /\ l \in 1 .. n - 1 /\ resp[c][l + 1] = u /\ l + 1 \in 1 .. n
            /\ (l + 1) - 1 = l
        BY <1>1, <1>2, <2>3, <3>2
      <4>2. t \in done \/ \E k \in 1 .. l : resp[c][k] = t
        BY <1>1, <2>0, <3>2, <4>1
      <4>3. ASSUME NEW k \in 1 .. l, resp[c][k] = t
            PROVE  t \in done' \/ \E m \in 1 .. l - 1 : resp'[c][m] = t
        <5>1. CASE k = 1
          BY <1>1, <4>3, <5>1
        <5>2. CASE k # 1
          <6>0. n \in Nat /\ l \in 1 .. n - 1 /\ k \in 1 .. l
            BY <1>1, <4>1
          <6>1. k - 1 \in 1 .. l - 1 /\ k - 1 \in 1 .. n - 1 /\ (k - 1) + 1 = k
            BY ONLY <5>2, <6>0
          <6>2. resp'[c][k - 1] = t
            BY <1>1, <4>3, <6>1
          <6> QED
            BY <6>1, <6>2
        <5> QED
          BY <5>1, <5>2
      <4> QED
        BY <1>1, <3>2, <4>2, <4>3
    <3> QED
      BY <3>1, <3>2
  <2> QED
    BY <2>2, <2>3 DEF t, u
<1> QED
  BY <1>4, <1>5, <1>6

-----------------------------------------------------------------------------
(* The bandwidth.                                                          *)

LEMMA InitBand == Init => BandInv
<1> SUFFICES ASSUME Init
             PROVE  BandInv
  OBVIOUS
<1>1. FifoType
  BY InitFifo DEF FifoInv
<1>2. ASSUME NEW c \in Cmds
      PROVE  OwnBand(c)
  <2> DEFINE p == Pace(c, WrPace)
  <2>1. thr[c] = "wait" /\ owed[c] = 0 /\ resid[c] = 0
    BY DEF Init, RateInit, Pacers, Cmds
  <2>2. p = c => MaxCost(p, {c}) \in Nat
    <3>1. p = c => Time(p) \in Nat
      BY <1>1, PaceProperties DEF Cmds, Pacers
    <3> HIDE DEF p
    <3> QED
      BY <3>1, MaxCostBounds
  <2> HIDE DEF p
  <2>3. p = c => 0 <= MaxCost(p, {c}) + 0
    BY <2>2
  <2> QED
    BY <2>1, <2>3 DEF OwnBand, OwnOk, p
<1>3. TotalBand
  <2>1. MaxCost("total", Cmds) \in Nat
    <3>1. Time("total") \in Nat
      BY <1>1, PaceProperties DEF Cmds, Pacers
    <3> QED
      BY <3>1, MaxCostBounds
  <2>2. \A c \in Cmds : thr[c] = "wait" /\ Cost(c, "total") = 0
    BY DEF Init, RateInit, Cost
  <2>3. owed["total"] = 0 /\ resid["total"] = 0
    BY DEF Init, RateInit, Pacers
  <2>4. Paid = 0
    BY <2>2, <2>3 DEF Paid, Cmds
  <2>5. Paid <= Most + resid["total"]
    BY <2>1, <2>3, <2>4 DEF Most
  <2> QED
    BY <2>2, <2>5 DEF TotalBand
<1> QED
  BY <1>2, <1>3 DEF BandInv

\* What bounds the time of the first response.
LEMMA CostFacts ==
  ASSUME FifoType, ThreadInv, PlaceInv, NEW c \in Cmds, NEW p \in Pacers
  PROVE  LET b == Bytes[Head(resp[c])] * Time(p) IN
         /\ Time(p) \in Nat /\ MaxCost(p, {c}) \in Nat /\ MaxCost(p, Cmds) \in Nat
         /\ resp[c] # << >> =>
              b \in Nat /\ b <= MaxCost(p, {c}) /\ b <= MaxCost(p, Cmds)
         /\ thr[c] # "wait" => resp[c] # << >>
         /\ Cost(c, p) \in Nat /\ Cost(c, p) <= MaxCost(p, Cmds)
<1> DEFINE b == Bytes[Head(resp[c])] * Time(p)
<1>1. Time(p) \in Nat
  BY PaceProperties
<1>2. /\ MaxCost(p, {c}) \in Nat /\ MaxCost(p, Cmds) \in Nat
      /\ \A t \in Tx : Cmd[t] = c => /\ Bytes[t] * Time(p) <= MaxCost(p, {c})
                                     /\ Bytes[t] * Time(p) <= MaxCost(p, Cmds)
  BY <1>1, MaxCostBounds
<1>3. ASSUME resp[c] # << >>
      PROVE  b \in Nat /\ b <= MaxCost(p, {c}) /\ b <= MaxCost(p, Cmds)
  <2> DEFINE t == Head(resp[c])
  <2>1. t \in Tx /\ Cmd[t] = c
    <3>1. 1 \in DOMAIN resp[c] /\ t = resp[c][1] /\ resp[c] \in Seq(Tx)
      BY <1>3 DEF FifoType
    <3> QED
      BY <3>1 DEF PlaceInv
  <2>2. Bytes[t] \in Nat
    BY <2>1, PayloadAssumption DEF PayloadAssumption
  <2> HIDE DEF t
  <2>3. Bytes[t] * Time(p) \in Nat
    BY <1>1, <2>2
  <2> QED
    BY <1>2, <2>1, <2>3 DEF t
<1>4. thr[c] # "wait" => resp[c] # << >>
  BY DEF ThreadInv
<1>5. Cost(c, p) = 0 \/ (resp[c] # << >> /\ Cost(c, p) = b)
  BY <1>4 DEF Cost
<1> HIDE DEF b
<1>6. Cost(c, p) \in Nat /\ Cost(c, p) <= MaxCost(p, Cmds)
  BY <1>2, <1>3, <1>5
<1> QED
  BY <1>1, <1>2, <1>3, <1>4, <1>6 DEF b

\* The limits do not change.
LEMMA LimitFrame ==
  ASSUME UNCHANGED <<kind, limit>>
  PROVE  /\ \A c \in Cmds : Pace(c, WrPace)' = Pace(c, WrPace)
         /\ \A p : Time(p)' = Time(p)
         /\ \A p, cs : MaxCost(p, cs)' = MaxCost(p, cs)
<1>1. \A p : Time(p)' = Time(p)
  BY DEF Time
<1>2. \A c \in Cmds : Pace(c, WrPace)' = Pace(c, WrPace)
  BY <1>1 DEF Pace, WrPace
<1>3. \A p, cs : MaxCost(p, cs)' = MaxCost(p, cs)
  BY <1>1 DEF MaxCost, Costs
<1> QED
  BY <1>1, <1>2, <1>3

LEMMA OwnFrame ==
  ASSUME NEW c \in Cmds, OwnBand(c), UNCHANGED <<kind, limit>>,
         thr'[c] = thr[c], owed'[c] = owed[c], togo'[c] = togo[c],
         resid'[c] = resid[c], resp'[c] = resp[c]
  PROVE  OwnBand(c)'
<1>1. PICK p : p = Pace(c, WrPace)
  OBVIOUS
<1>2. /\ Pace(c, WrPace)' = p /\ Time(p)' = Time(p)
      /\ MaxCost(p, {c})' = MaxCost(p, {c})
  BY <1>1, LimitFrame
<1> QED
  BY <1>1, <1>2 DEF OwnBand

LEMMA TotalFrame ==
  ASSUME TotalBand, UNCHANGED <<kind, limit>>,
         owed'["total"] = owed["total"], resid'["total"] = resid["total"],
         \A c \in Cmds : /\ thr[c] = "delay" <=> thr'[c] = "delay"
                         /\ thr[c] = "delay" => togo'[c] = togo[c]
                         /\ resp[c] = resp'[c]
                         /\ thr[c] \in {"try", "again"}
                              <=> thr'[c] \in {"try", "again"}
  PROVE  TotalBand'
<1>1. /\ Time("total")' = Time("total") /\ Most' = Most
  BY LimitFrame DEF Most
<1>2. \A c \in Cmds : Cost(c, "total")' = Cost(c, "total")
  BY <1>1 DEF Cost
<1>3. Paid' = Paid
  BY <1>2 DEF Paid, Cmds
<1> QED
  BY <1>1, <1>3 DEF TotalBand

LEMMA PushBand ==
  ASSUME BandInv, NEW t \in Tx, NEW d, Push(t, d), UNCHANGED kind
  PROVE  BandInv'
<1>1. UNCHANGED <<limit, thr, togo, resid, owed, resp>>
  BY DEF Push, paceVars
<1>2. \A c \in Cmds : OwnBand(c)'
  BY <1>1, OwnFrame DEF BandInv
<1>3. TotalBand'
  BY <1>1, TotalFrame DEF BandInv
<1> QED
  BY <1>2, <1>3 DEF BandInv

\* A clock edge pays for Den.
LEMMA TickArith ==
  ASSUME NEW o \in Nat, NEW y \in Nat, NEW g \in Nat \ {0}, NEW x \in Int,
         (o + y) - g * Den <= x, y <= x
  PROVE  LET q == IF o > Den THEN o - Den ELSE 0 IN
         /\ q \in Nat /\ q <= o
         /\ (q + y) - (g - 1) * Den <= x
         /\ g = 1 => q + y <= x
<1> DEFINE q == IF o > Den THEN o - Den ELSE 0
           e == (g - 1) * Den
<1>1. Den \in Nat \ {0} /\ g - 1 \in Nat
  BY RateAssumption DEF RateAssumption
<1>2. e \in Nat /\ g * Den = e + Den
  BY <1>1
<1>3. g = 1 => e = 0
  BY <1>1
<1> HIDE DEF e
<1>4. (q + y) - e <= x
  BY <1>1, <1>2
<1>5. q \in Nat /\ q <= o
  BY <1>1
<1> HIDE DEF q
<1>6. g = 1 => q + y <= x
  BY <1>3, <1>4, <1>5
<1> QED
  BY <1>4, <1>5, <1>6 DEF q, e

\* What a clock edge does to a thread.
LEMMA TickPace ==
  ASSUME FifoType, ThreadInv, Tick(WrPace), NEW c \in Cmds
  PROVE  /\ thr'[c] = IF thr[c] = "again" \/ (thr[c] = "delay" /\ togo[c] = 1)
                      THEN "try" ELSE thr[c]
         /\ thr[c] # "try" /\ UNCHANGED <<limit, resid>>
         /\ thr[c] = "delay" => togo[c] \in Nat \ {0} /\ togo'[c] = togo[c] - 1
         /\ resp[c] # << >> => Head(resp'[c]) = Head(resp[c])
         /\ \A p \in Pacers : owed'[p] = IF owed[p] > Den THEN owed[p] - Den ELSE 0
<1>1. /\ thr'[c] = IF thr[c] = "again" \/ (thr[c] = "delay" /\ togo[c] = 1)
                   THEN "try" ELSE thr[c]
      /\ thr[c] # "try" /\ UNCHANGED <<limit, resid>>
      /\ \A p \in Pacers : owed'[p] = IF owed[p] > Den THEN owed[p] - Den ELSE 0
  BY DEF Tick, Urgent
<1>2. thr[c] = "delay" => togo[c] \in Nat \ {0} /\ togo'[c] = togo[c] - 1
  BY DEF Tick, ThreadInv, FifoType
<1>3. ASSUME resp[c] # << >>
      PROVE  Head(resp'[c]) = Head(resp[c])
  <2> DEFINE n == Len(resp[c])
  <2>1. /\ n \in Nat /\ DOMAIN resp[c] = 1 .. n /\ resp'[c] \in Seq(Tx)
        /\ Cardinality(Now(c)) \in Nat
        /\ DOMAIN resp'[c] = 1 .. n + Cardinality(Now(c))
        /\ \A k \in 1 .. n : resp'[c][k] = resp[c][k]
    BY TickResp
  <2>2. n # 0 /\ Head(resp[c]) = resp[c][1]
    BY <1>3 DEF FifoType
  <2> HIDE DEF n
  <2>3. 1 \in 1 .. n /\ 1 \in DOMAIN resp'[c]
    BY <2>1, <2>2
  <2>4. Head(resp'[c]) = resp'[c][1]
    BY <2>1, <2>3
  <2> QED
    BY <2>1, <2>2, <2>3, <2>4
<1> QED
  BY <1>1, <1>2, <1>3

LEMMA TickOwn ==
  ASSUME FifoType, ThreadInv, PlaceInv, NEW c \in Cmds, OwnBand(c),
         Tick(WrPace), UNCHANGED kind
  PROVE  OwnBand(c)'
<1>1. PICK p : p = Pace(c, WrPace)
  OBVIOUS
<1>2. PICK m : m = MaxCost(p, {c})
  OBVIOUS
<1>3. PICK b : b = Bytes[Head(resp[c])] * Time(p)
  OBVIOUS
<1>4. UNCHANGED <<kind, limit, resid>>
  BY DEF Tick
<1>5. /\ Pace(c, WrPace)' = p /\ MaxCost(p, {c})' = m /\ Time(p)' = Time(p)
  BY <1>1, <1>2, <1>4, LimitFrame
<1> SUFFICES ASSUME p = c
             PROVE  OwnOk(thr'[c], owed'[c], togo'[c], resid'[c],
                          Bytes[Head(resp'[c])] * Time(p), m)
  BY <1>5 DEF OwnBand
<1>6. OwnOk(thr[c], owed[c], togo[c], resid[c], b, m)
  BY <1>1, <1>2, <1>3 DEF OwnBand
<1>7. /\ m \in Nat
      /\ resp[c] # << >> => b \in Nat /\ b <= m
      /\ thr[c] # "wait" => resp[c] # << >>
  <2>1. p \in Pacers
    BY DEF Pacers, Cmds
  <2> QED
    BY <1>2, <1>3, <2>1, CostFacts
<1>8. /\ owed[c] \in Nat /\ resid[c] \in Nat /\ Den \in Nat \ {0}
  BY RateAssumption, SMTT(30) DEF FifoType, RateAssumption, Cmds, Pacers
<1>9. /\ thr'[c] = IF thr[c] = "again" \/ (thr[c] = "delay" /\ togo[c] = 1)
                   THEN "try" ELSE thr[c]
      /\ thr[c] # "try" /\ resid'[c] = resid[c]
      /\ thr[c] = "delay" => togo[c] \in Nat \ {0} /\ togo'[c] = togo[c] - 1
      /\ resp[c] # << >> => Bytes[Head(resp'[c])] * Time(p) = b
      /\ owed'[c] = IF owed[c] > Den THEN owed[c] - Den ELSE 0
  BY <1>3, <1>4, TickPace DEF Cmds, Pacers
<1>10. owed'[c] \in Nat /\ owed'[c] <= owed[c]
  BY <1>8, <1>9
<1>11. CASE thr[c] \in {"wait", "arb"}
  BY <1>6, <1>7, <1>8, <1>9, <1>10, <1>11 DEF OwnOk
<1>12. CASE thr[c] = "again"
  BY <1>6, <1>7, <1>8, <1>9, <1>10, <1>12 DEF OwnOk
<1>13. CASE thr[c] = "delay"
  <2> DEFINE x == (m - b) + resid[c]
  <2>1. /\ x \in Int /\ 0 <= x
        /\ owed[c] < m + Den /\ owed[c] - togo[c] * Den <= x
    BY <1>6, <1>7, <1>8, <1>13 DEF OwnOk
  <2>2. togo[c] \in Nat \ {0} /\ togo'[c] = togo[c] - 1
    BY <1>9, <1>13
  <2> HIDE DEF x
  <2>3. PICK o \in Nat : o = owed[c]
    BY <1>8
  <2>4. PICK g \in Nat \ {0} : g = togo[c]
    BY <2>2
  <2>5. (o + 0) - g * Den <= x
    BY <2>1, <2>3, <2>4
  <2>6. LET q == IF o > Den THEN o - Den ELSE 0 IN
        /\ q \in Nat /\ q <= o
        /\ (q + 0) - (g - 1) * Den <= x /\ (g = 1 => q + 0 <= x)
    BY <2>1, <2>5, TickArith
  <2>7. /\ owed'[c] - (g - 1) * Den <= x
        /\ g = 1 => owed'[c] <= x
    BY <1>9, <1>10, <2>3, <2>6
  <2>8. owed'[c] < m + Den
    BY <1>7, <1>8, <1>10, <2>1
  <2>9. CASE g = 1
    BY <1>7, <1>9, <1>13, <2>4, <2>7, <2>9 DEF OwnOk, x
  <2>10. CASE g # 1
    BY <1>7, <1>9, <1>13, <2>2, <2>4, <2>7, <2>8, <2>10 DEF OwnOk, x
  <2> QED
    BY <2>9, <2>10
<1> QED
  BY <1>6, <1>9, <1>11, <1>12, <1>13 DEF OwnOk

LEMMA TickTotal ==
  ASSUME FifoType, ThreadInv, PlaceInv, TotalBand, Tick(WrPace), UNCHANGED kind
  PROVE  TotalBand'
<1>1. UNCHANGED <<kind, limit, resid>>
  BY DEF Tick
<1>2. Time("total")' = Time("total") /\ Most' = Most
  BY <1>1, LimitFrame DEF Most
<1> SUFFICES ASSUME Time("total") > 0
             PROVE  TotalBand'
  BY <1>2 DEF TotalBand
<1>3. \A c \in Cmds :
        LET b == Bytes[Head(resp[c])] * Time("total")
            m == MaxCost("total", Cmds)
        IN /\ m \in Nat
           /\ resp[c] # << >> => b \in Nat /\ b <= m
           /\ thr[c] # "wait" => resp[c] # << >>
           /\ Cost(c, "total") \in Nat /\ Cost(c, "total") <= m
  BY CostFacts DEF Pacers
<1>4. \A c \in Cmds :
        /\ thr'[c] = IF thr[c] = "again" \/ (thr[c] = "delay" /\ togo[c] = 1)
                     THEN "try" ELSE thr[c]
        /\ thr[c] # "try"
        /\ thr[c] = "delay" => togo[c] \in Nat \ {0} /\ togo'[c] = togo[c] - 1
        /\ resp[c] # << >> => Head(resp'[c]) = Head(resp[c])
        /\ owed'["total"]
             = IF owed["total"] > Den THEN owed["total"] - Den ELSE 0
  BY TickPace DEF Pacers
<1>5. /\ owed["total"] \in Nat /\ resid["total"] \in Nat /\ Den \in Nat \ {0}
      /\ Most \in Nat /\ "rd" \in Cmds
  <2>1. "rd" \in Cmds
    BY DEF Cmds
  <2>2. MaxCost("total", Cmds) \in Nat
    BY <1>3, <2>1
  <2>3. owed["total"] \in Nat /\ resid["total"] \in 0 .. Den - 1
    BY DEF FifoType, Pacers
  <2> QED
    BY <2>1, <2>2, <2>3, RateAssumption DEF RateAssumption, Most
<1>6. owed'["total"] \in Nat /\ owed'["total"] <= owed["total"]
  BY <1>4, <1>5
<1>7. \A c \in Cmds : thr[c] # "delay" =>
        Cost(c, "total")' = Cost(c, "total") /\ thr'[c] # "delay"
  BY <1>2, <1>3, <1>4 DEF Cost
<1>8. CASE \A c \in Cmds : thr[c] # "delay"
  <2>1. Paid <= Most + resid["total"]
    BY <1>8 DEF TotalBand
  <2>2. Paid' <= Paid /\ Paid \in Nat /\ Paid' \in Nat
    BY <1>3, <1>5, <1>6, <1>7, <1>8 DEF Paid, Cmds
  <2>3. Paid' <= Most' + resid'["total"]
    BY <1>1, <1>2, <1>5, <2>1, <2>2
  <2> QED
    BY <1>7, <1>8, <2>3 DEF TotalBand
<1>9. ASSUME NEW c \in Cmds, thr[c] = "delay"
      PROVE  TotalBand'
  <2>1. PICK d \in Cmds : d # c /\ \A a \in Cmds : a = c \/ a = d
    BY DEF Cmds
  <2>2. thr[d] # "delay"
    BY <1>9, <2>1 DEF ThreadInv
  <2>3. PICK y \in Nat : y = Cost(d, "total")
    BY <1>3
  <2>4. PICK b : b = Bytes[Head(resp[c])] * Time("total")
    OBVIOUS
  <2>5. /\ b \in Nat /\ b <= MaxCost("total", Cmds) /\ y <= MaxCost("total", Cmds)
        /\ MaxCost("total", Cmds) \in Nat
    BY <1>3, <1>9, <2>3, <2>4
  <2>6. Cost(c, "total") = 0 /\ Cost(d, "total")' = y /\ thr'[d] # "delay"
    BY <1>7, <1>9, <2>2, <2>3 DEF Cost
  <2>7. /\ Paid = owed["total"] + y
        /\ \A z \in Nat : Cost(c, "total")' = z => Paid' = owed'["total"] + (y + z)
    <3>1. (c = "rd" /\ d = "wr") \/ (c = "wr" /\ d = "rd")
      BY <2>1 DEF Cmds
    <3>2. CASE c = "rd" /\ d = "wr"
      BY <1>5, <1>6, <2>3, <2>6, <3>2 DEF Paid
    <3>3. CASE c = "wr" /\ d = "rd"
      BY <1>5, <1>6, <2>3, <2>6, <3>3 DEF Paid
    <3> QED
      BY <3>1, <3>2, <3>3
  <2> DEFINE x == (Most + resid["total"]) - b
  <2>8. Paid < Most + Den /\ Paid - togo[c] * Den <= x
    BY <1>9, <2>4 DEF TotalBand
  <2>9. x \in Int /\ y <= x
    BY <1>5, <2>5 DEF Most
  <2>10. PICK g \in Nat \ {0} : g = togo[c]
    BY <1>4, <1>9
  <2>11. PICK o \in Nat : o = owed["total"]
    BY <1>5
  <2> HIDE DEF x
  <2>12. (o + y) - g * Den <= x
    BY <2>7, <2>8, <2>10, <2>11
  <2>13. LET q == IF o > Den THEN o - Den ELSE 0 IN
         /\ q \in Nat /\ q <= o
         /\ (q + y) - (g - 1) * Den <= x /\ (g = 1 => q + y <= x)
    BY <2>9, <2>12, TickArith
  <2>14. PICK q \in Nat : q = owed'["total"]
    BY <1>6
  <2>15. /\ q <= o /\ (q + y) - (g - 1) * Den <= x /\ (g = 1 => q + y <= x)
    BY <1>4, <2>11, <2>13, <2>14
  <2>16. Bytes[Head(resp'[c])] * Time("total") = b
    BY <1>3, <1>4, <1>9, <2>4
  <2>17. CASE g = 1
    <3>1. thr'[c] = "try"
      BY <1>4, <1>9, <2>10, <2>17
    <3>2. Cost(c, "total")' = b
      BY <1>2, <2>16, <3>1 DEF Cost
    <3>3. Paid' = q + (y + b)
      BY <2>5, <2>7, <2>14, <3>2
    <3>4. q + (y + b) <= Most + resid["total"]
      BY <1>5, <2>5, <2>15, <2>17 DEF x
    <3>5. \A a \in Cmds : thr'[a] # "delay"
      BY <2>1, <2>6, <3>1
    <3> QED
      BY <1>1, <1>2, <3>3, <3>4, <3>5 DEF TotalBand
  <2>18. CASE g # 1
    <3>1. thr'[c] = "delay" /\ togo'[c] = g - 1
      BY <1>4, <1>9, <2>10, <2>18
    <3>2. Cost(c, "total")' = 0
      BY <3>1 DEF Cost
    <3>3. Paid' = q + (y + 0)
      BY <2>7, <2>14, <3>2
    <3>4. Paid' = q + y
      BY <3>3
    <3>5. Paid' < Most + Den
      BY <1>5, <2>7, <2>8, <2>11, <2>15, <3>4
    <3>6. Paid' - togo'[c] * Den <= x
      BY <2>15, <3>1, <3>4
    <3> QED
      BY <1>1, <1>2, <2>1, <2>6, <2>16, <3>1, <3>5, <3>6 DEF TotalBand, x
  <2> QED
    BY <2>17, <2>18
<1> QED
  BY <1>8, <1>9

LEMMA PickBand ==
  ASSUME FifoType, ThreadInv, BandInv, NEW c \in Cmds, Pick(c, WrPace),
         UNCHANGED kind
  PROVE  BandInv'
<1>1. /\ thr[c] = "wait" /\ UNCHANGED <<limit, resp, togo, resid, owed>>
      /\ thr'[c] = IF Pace(c, WrPace) = "none" THEN "try" ELSE "arb"
      /\ \A d \in Cmds : d # c => thr'[d] = thr[d]
  BY DEF Pick, FifoType
<1>2. ASSUME NEW d \in Cmds
      PROVE  OwnBand(d)'
  <2>1. CASE d # c
    BY <1>1, <2>1, OwnFrame DEF BandInv
  <2>2. CASE d = c
    <3>1. PICK p : p = Pace(c, WrPace)
      OBVIOUS
    <3>2. /\ Pace(c, WrPace)' = p /\ Time(p)' = Time(p)
          /\ MaxCost(p, {c})' = MaxCost(p, {c})
      BY <1>1, <3>1, LimitFrame
    <3>3. p = c => thr'[c] = "arb"
      BY <1>1, <3>1 DEF Cmds
    <3>4. p = c => owed[c] <= MaxCost(p, {c}) + resid[c]
      BY <1>1, <3>1 DEF BandInv, OwnBand, OwnOk
    <3> QED
      BY <1>1, <2>2, <3>2, <3>3, <3>4 DEF OwnBand, OwnOk
  <2> QED
    BY <2>1, <2>2
<1>3. TotalBand'
  <2>1. CASE Time("total") > 0
    <3>1. thr'[c] = "arb"
      BY <1>1, <2>1, PaceProperties
    <3> QED
      BY <1>1, <3>1, TotalFrame DEF BandInv
  <2>2. CASE ~(Time("total") > 0)
    BY <1>1, <2>2, LimitFrame DEF TotalBand
  <2> QED
    BY <2>1, <2>2
<1> QED
  BY <1>2, <1>3 DEF BandInv

LEMMA RefuseBand ==
  ASSUME FifoType, BandInv, NEW c \in Cmds, Refused(c), UNCHANGED kind
  PROVE  BandInv'
<1>1. /\ thr[c] = "try" /\ UNCHANGED <<limit, resp, togo, resid, owed>>
      /\ thr'[c] = "again" /\ \A d \in Cmds : d # c => thr'[d] = thr[d]
  BY DEF Refused, FifoType
<1>2. ASSUME NEW d \in Cmds
      PROVE  OwnBand(d)'
  <2>1. CASE d # c
    BY <1>1, <2>1, OwnFrame DEF BandInv
  <2>2. CASE d = c
    <3>1. PICK p : p = Pace(c, WrPace)
      OBVIOUS
    <3>2. /\ Pace(c, WrPace)' = p /\ Time(p)' = Time(p)
          /\ MaxCost(p, {c})' = MaxCost(p, {c})
      BY <1>1, <3>1, LimitFrame
    <3>3. p = c =>
            owed[c] <= (MaxCost(p, {c}) - (Bytes[Head(resp[c])] * Time(p)))
                         + resid[c]
      BY <1>1, <3>1 DEF BandInv, OwnBand, OwnOk
    <3> QED
      BY <1>1, <2>2, <3>2, <3>3 DEF OwnBand, OwnOk
  <2> QED
    BY <2>1, <2>2
<1>3. TotalBand'
  BY <1>1, TotalFrame DEF BandInv
<1> QED
  BY <1>2, <1>3 DEF BandInv

LEMMA DelayBand ==
  ASSUME FifoType, ThreadInv, PaceInv, PlaceInv, BandInv, NEW c \in Cmds,
         Delay(c, WrPace), UNCHANGED kind
  PROVE  BandInv'
<1>1. PICK p : p = Pace(c, WrPace)
  OBVIOUS
<1>2. PICK r : r = Spent(c)
  OBVIOUS
<1>3. PICK b : b = Bytes[Head(resp[c])] * Time(p)
  OBVIOUS
<1>4. /\ r \in Pacers /\ b \in Nat /\ resid[r] \in Nat
      /\ resid' = [resid EXCEPT ![r] = (b + resid[r]) % Den]
      /\ togo' = [togo EXCEPT ![c] = Edges((b + resid[r]) \div Den)]
      /\ resid'[r] \in 0 .. Den - 1 /\ togo'[c] \in Nat \ {0}
      /\ (b + resid[r]) - resid'[r] <= togo'[c] * Den
  BY <1>1, <1>2, <1>3, DelayFacts, SMTT(30)
<1>5. /\ thr[c] = "arb" /\ UNCHANGED <<limit, resp, owed>>
      /\ thr'[c] = "delay"
      /\ p = "total" => Head(arb) = c
      /\ \A d \in Cmds : d # c => thr'[d] = thr[d] /\ togo'[d] = togo[d]
      /\ \A q \in Pacers : q # r => resid'[q] = resid[q]
  BY <1>1, <1>4 DEF Delay, LetIn, FifoType
<1>6. PICK n \in Int : n = togo'[c] * Den
  <2>1. togo'[c] * Den \in Int
    BY <1>4, RateAssumption DEF RateAssumption
  <2> QED
    BY <2>1
<1>7. /\ \A q \in Pacers : owed[q] \in Nat /\ resid[q] \in Nat
      /\ Den \in Nat \ {0}
      /\ \A q \in Pacers : resid[q] <= Den - 1
  BY RateAssumption DEF FifoType, RateAssumption
<1>8. (b + resid[r]) - resid'[r] <= n /\ resid'[r] \in Nat
  BY <1>4, <1>6, <1>7
<1>9. ASSUME NEW d \in Cmds
      PROVE  OwnBand(d)'
  <2>1. CASE d # c
    <3>1. d # r /\ d \in Pacers
      BY <1>2, <2>1 DEF Spent, Cmds, Pacers
    <3>2. resid'[d] = resid[d]
      BY <1>5, <3>1
    <3> QED
      BY <1>5, <2>1, <3>2, OwnFrame DEF BandInv
  <2>2. CASE d = c
    <3>1. /\ Pace(c, WrPace)' = p /\ Time(p)' = Time(p)
          /\ MaxCost(p, {c})' = MaxCost(p, {c})
      BY <1>1, <1>5, LimitFrame
    <3> SUFFICES ASSUME p = c
                 PROVE  OwnOk("delay", owed[c], togo'[c], resid'[c], b,
                              MaxCost(p, {c}))
      BY <1>3, <1>5, <2>2, <3>1 DEF OwnBand
    <3>2. r = c /\ c \in Pacers /\ p \in Pacers
      BY <1>1, <1>2 DEF Spent, Cmds, Pacers
    <3>3. PICK m \in Nat : m = MaxCost(p, {c})
      BY <3>2, CostFacts
    <3>4. owed[c] <= m + resid[c]
      BY <1>1, <1>5, <3>3 DEF BandInv, OwnBand, OwnOk
    <3>5. owed[c] < m + Den /\ owed[c] - n <= (m - b) + resid'[c]
      BY <1>4, <1>7, <1>8, <3>2, <3>4
    <3> QED
      BY <1>6, <3>3, <3>5 DEF OwnOk
  <2> QED
    BY <2>1, <2>2
<1>10. TotalBand'
  <2>1. /\ Time("total")' = Time("total") /\ Most' = Most
    BY <1>5, LimitFrame DEF Most
  <2> SUFFICES ASSUME Time("total") > 0
               PROVE  TotalBand'
    BY <2>1 DEF TotalBand
  <2>2. p = "total" /\ r = "total" /\ r \in Pacers
    BY <1>1, <1>2, PaceProperties DEF Spent, Pacers
  <2>3. \A d \in Cmds : thr[d] # "delay"
    BY <1>5, <2>2 DEF ThreadInv
  <2>4. \A d \in Cmds : Cost(d, "total")' = Cost(d, "total")
    BY <1>5, <2>1 DEF Cost
  <2>5. Paid' = Paid
    BY <1>5, <2>2, <2>4 DEF Paid, Cmds
  <2>6. Paid <= Most + resid["total"]
    BY <2>3 DEF BandInv, TotalBand
  <2>7. Most \in Nat /\ Paid \in Nat
    <3>1. \A d \in Cmds : /\ Cost(d, "total") \in Nat
                          /\ MaxCost("total", Cmds) \in Nat
      BY <2>2, CostFacts
    <3> QED
      BY <1>7, <2>2, <3>1 DEF Most, Paid, Cmds
  <2>8. Paid < Most + Den /\ Paid - n <= (Most + resid'["total"]) - b
    BY <1>4, <1>7, <1>8, <2>2, <2>6, <2>7
  <2>9. \A d \in Cmds : thr'[d] = "delay" => d = c
    BY <1>5, <2>3
  <2>10. Bytes[Head(resp'[c])] * Time("total") = b
    BY <1>3, <1>5, <2>2
  <2> QED
    BY <1>5, <1>6, <2>1, <2>5, <2>8, <2>9, <2>10 DEF TotalBand
<1> QED
  BY <1>9, <1>10 DEF BandInv

LEMMA AcceptBand ==
  ASSUME FifoType, ThreadInv, PlaceInv, BandInv, NEW c \in Cmds,
         Accepted(c, WrPace), UNCHANGED kind
  PROVE  BandInv'
<1>1. PICK p : p = Pace(c, WrPace)
  OBVIOUS
<1>2. PICK b : b = Bytes[Head(resp[c])] * Time(p)
  OBVIOUS
<1>3. /\ thr[c] = "try" /\ thr'[c] = "wait"
      /\ UNCHANGED <<limit, togo, resid>>
      /\ \A d \in Cmds : d # c => thr'[d] = thr[d] /\ resp'[d] = resp[d]
  BY AcceptFacts
<1>4. owed' = [q \in Pacers |->
         IF q \in {"total", c} THEN owed[q] + Bytes[Head(resp[c])] * Time(q)
         ELSE owed[q]]
  BY DEF Accepted
<1>5. p \in Pacers =>
        /\ b \in Nat /\ b <= MaxCost(p, {c}) /\ MaxCost(p, {c}) \in Nat
  BY <1>2, <1>3, CostFacts
<1>6. \A q \in Pacers : owed[q] \in Nat /\ resid[q] \in Nat
  BY RateAssumption DEF FifoType, RateAssumption
<1>7. \A d \in Cmds : d \in Pacers /\ d # "total"
  BY DEF Cmds, Pacers
<1>8. ASSUME NEW d \in Cmds
      PROVE  OwnBand(d)'
  <2>1. CASE d # c
    <3>1. owed'[d] = owed[d]
      BY <1>4, <1>7, <2>1
    <3> QED
      BY <1>3, <2>1, <3>1, OwnFrame DEF BandInv
  <2>2. CASE d = c
    <3>1. /\ Pace(c, WrPace)' = p /\ Time(p)' = Time(p)
          /\ MaxCost(p, {c})' = MaxCost(p, {c})
      BY <1>1, <1>3, LimitFrame
    <3> SUFFICES ASSUME p = c
                 PROVE  owed'[c] <= MaxCost(p, {c}) + resid[c]
      BY <1>3, <2>2, <3>1 DEF OwnBand, OwnOk
    <3>2. owed'[c] = owed[c] + b
      BY <1>2, <1>4, <1>7
    <3>3. owed[c] <= (MaxCost(p, {c}) - b) + resid[c]
      BY <1>1, <1>2, <1>3 DEF BandInv, OwnBand, OwnOk
    <3> QED
      BY <1>5, <1>6, <1>7, <3>2, <3>3
  <2> QED
    BY <2>1, <2>2
<1>9. TotalBand'
  <2>1. /\ Time("total")' = Time("total") /\ Most' = Most
    BY <1>3, LimitFrame DEF Most
  <2> SUFFICES ASSUME Time("total") > 0
               PROVE  TotalBand'
    BY <2>1 DEF TotalBand
  <2>2. p = "total" /\ p \in Pacers
    BY <1>1, PaceProperties DEF Pacers
  <2>3. PICK d \in Cmds : d # c /\ \A a \in Cmds : a = c \/ a = d
    BY DEF Cmds
  <2>4. Cost(c, "total") = b /\ Cost(c, "total")' = 0
    BY <1>2, <1>3, <2>2 DEF Cost
  <2>5. Cost(d, "total")' = Cost(d, "total") /\ Cost(d, "total") \in Nat
    <3>1. Cost(d, "total") \in Nat
      BY <2>2, CostFacts
    <3> QED
      BY <1>3, <2>1, <2>3, <3>1 DEF Cost
  <2>6. owed'["total"] = owed["total"] + b
    BY <1>2, <1>4, <2>2
  <2>7. Paid' = Paid
    <3>1. (c = "rd" /\ d = "wr") \/ (c = "wr" /\ d = "rd")
      BY <2>3 DEF Cmds
    <3>2. b \in Nat /\ owed["total"] \in Nat
      BY <1>5, <1>6, <2>2
    <3>3. CASE c = "rd" /\ d = "wr"
      BY <2>4, <2>5, <2>6, <3>2, <3>3 DEF Paid
    <3>4. CASE c = "wr" /\ d = "rd"
      BY <2>4, <2>5, <2>6, <3>2, <3>4 DEF Paid
    <3> QED
      BY <3>1, <3>3, <3>4
  <2>8. \A a \in Cmds : thr'[a] = "delay" <=> thr[a] = "delay"
    BY <1>3
  <2>9. \A a \in Cmds : thr[a] = "delay" => resp'[a] = resp[a]
    BY <1>3
  <2> QED
    BY <1>3, <2>1, <2>7, <2>8, <2>9 DEF TotalBand, BandInv
<1> QED
  BY <1>8, <1>9 DEF BandInv

-----------------------------------------------------------------------------
(* A payload is called, with a random or a recorded latency.               *)

LEMMA FindProperties ==
  ASSUME NEW S, NEW s \in Seq(S), NEW a
  PROVE  Find(s, a) \in 0 .. Len(s)
<1> DEFINE I == {i \in 1 .. Len(s) : s[i][1] = a}
<1>1. Find(s, a) = IF I # {} THEN Min(I) ELSE 0
  BY DEF Find, SelectInSeq
<1>2. I \in SUBSET Nat /\ Len(s) \in Nat /\ \A i \in I : i \in 0 .. Len(s)
  OBVIOUS
<1> HIDE DEF I
<1>3. I # {} => Min(I) \in I
  BY <1>2, LeastNumber
<1>4. 0 \in 0 .. Len(s)
  BY <1>2
<1> QED
  BY <1>1, <1>2, <1>3, <1>4

LEMMA RemoveAtType ==
  ASSUME NEW S, NEW s \in Seq(S), NEW n \in 1 .. Len(s)
  PROVE  RemoveAt(s, n) \in Seq(S)
<1>1. SubSeq(s, 1, n - 1) \in Seq(S) /\ SubSeq(s, n + 1, Len(s)) \in Seq(S)
  <2>1. /\ \A i \in 1 .. n - 1 : s[i] \in S
        /\ \A i \in n + 1 .. Len(s) : s[i] \in S
    OBVIOUS
  <2> QED
    BY <2>1, SubSeqProperties
<1> QED
  BY <1>1, ConcatProperties DEF RemoveAt

\* The latency a payload is called with, and the recordings that are left.
LEMMA CallFacts ==
  ASSUME FifoType, kind # "reorder", NEW t \in Tx, Transport(t)
  PROVE  /\ \E d \in 0 .. Horizon - 1 : Push(t, d)
         /\ left' \in [Cmds -> [Lists -> Seq(Nat \X (0 .. Horizon - 1))]]
         /\ UNCHANGED <<kind, reorderVars>>
<1>1. UNCHANGED <<kind, reorderVars>>
  BY DEF Transport, Fifos
<1>2. CASE RateTransport(t) /\ UNCHANGED left
  BY <1>1, <1>2, RateAssumption DEF RateTransport, RateAssumption, FifoType
<1>3. CASE ReplayTransport(t)
  <2> DEFINE E == Nat \X (0 .. Horizon - 1)
             c == Cmd[t]
             i == Id[t] + 1
  <2>1. c \in Cmds /\ i \in Lists /\ 0 \in Lists
    <3>1. c \in Cmds /\ Id[t] \in Ids
      BY PayloadAssumption DEF PayloadAssumption
    <3> QED
      BY <3>1 DEF Lists
  <2>2. left \in [Cmds -> [Lists -> Seq(E)]]
    BY DEF FifoType
  <2>3. ASSUME NEW j \in Lists, NEW n \in Nat, n = Find(left[c][j], Addr[t]),
               n > 0
        PROVE  /\ left[c][j][n][2] \in 0 .. Horizon - 1
               /\ [left EXCEPT ![c][j] = RemoveAt(@, n)]
                    \in [Cmds -> [Lists -> Seq(E)]]
    <3> HIDE DEF E, c, i
    <3>1. left[c][j] \in Seq(E)
      BY <2>1, <2>2
    <3>2. n \in 1 .. Len(left[c][j])
      BY <2>3, <3>1, FindProperties
    <3>3. RemoveAt(left[c][j], n) \in Seq(E)
      BY <3>1, <3>2, RemoveAtType
    <3>4. left[c][j][n] \in E
      BY <3>1, <3>2
    <3>5. left[c][j][n][2] \in 0 .. Horizon - 1
      BY <3>4 DEF E
    <3> QED
      BY <2>1, <2>2, <3>3, <3>5
  <2>4. \A j \in Lists : Find(left[c][j], Addr[t]) \in Nat
    <3> TAKE j \in Lists
    <3> HIDE DEF E, c
    <3>1. left[c][j] \in Seq(E)
      BY <2>1, <2>2
    <3>2. Find(left[c][j], Addr[t]) \in 0 .. Len(left[c][j])
      BY <3>1, FindProperties
    <3> QED
      BY <3>1, <3>2
  <2>5. 0 \in 0 .. Horizon - 1
    BY RateAssumption DEF RateAssumption
  <2>6. CASE Find(left[c][i], Addr[t]) > 0
    <3> DEFINE n == Find(left[c][i], Addr[t])
    <3>1. /\ Push(t, left[c][i][n][2])
          /\ left' = [left EXCEPT ![c][i] = RemoveAt(@, n)]
      BY <1>3, <2>1, <2>4, <2>6 DEF ReplayTransport, Erase
    <3>2. n \in Nat /\ n > 0
      BY <2>1, <2>4, <2>6
    <3> HIDE DEF n, c, i, E
    <3> QED
      BY <1>1, <2>1, <2>3, <3>1, <3>2 DEF n, E
  <2>7. CASE ~(Find(left[c][i], Addr[t]) > 0) /\ Find(left[c][0], Addr[t]) > 0
    <3> DEFINE n == Find(left[c][0], Addr[t])
    <3>1. /\ Push(t, left[c][0][n][2])
          /\ left' = [left EXCEPT ![c][0] = RemoveAt(@, n)]
      BY <1>3, <2>1, <2>4, <2>7 DEF ReplayTransport, Erase
    <3>2. n \in Nat /\ n > 0
      BY <2>1, <2>4, <2>7
    <3> HIDE DEF n, c, i, E
    <3> QED
      BY <1>1, <2>1, <2>3, <3>1, <3>2 DEF n, E
  <2>8. CASE /\ ~(Find(left[c][i], Addr[t]) > 0)
             /\ ~(Find(left[c][0], Addr[t]) > 0)
    <3>1. Push(t, 0) /\ left' = left
      BY <1>3, <2>8 DEF ReplayTransport
    <3> QED
      BY <1>1, <2>2, <2>5, <3>1
  <2> QED
    BY <2>6, <2>7, <2>8
<1> QED
  BY <1>2, <1>3 DEF Transport

-----------------------------------------------------------------------------
(* The invariant of the fifos, and what follows from it.                   *)

FifoIInv == FifoInv /\ CallOrder /\ LatencyExact /\ RespOrder /\ BandInv

LEMMA FifoFrame ==
  ASSUME FifoIInv, UNCHANGED <<kind, rateVars, left>>
  PROVE  FifoIInv'
<1> USE DEF FifoIInv, FifoInv
<1>0. UNCHANGED <<kind, left, limit, lat, resp, thr, togo, resid, arb, drawn, age,
                  order, done, owed>>
  BY DEF rateVars, paceVars
<1>1. FifoType'
  BY <1>0 DEF FifoType
<1>2. ThreadInv'
  BY <1>0 DEF ThreadInv, Time
<1>3. PaceInv'
  BY <1>0, PaceStep
<1>4. PlaceInv' /\ CallOrder' /\ LatencyExact' /\ RespOrder'
  BY <1>0, PlaceFrame
<1>5. BandInv'
  BY <1>0, OwnFrame, TotalFrame DEF BandInv
<1> QED
  BY <1>1, <1>2, <1>3, <1>4, <1>5

LEMMA FifoStep == FifoIInv /\ [Next]_vars => FifoIInv'
<1> SUFFICES ASSUME FifoIInv, [Next]_vars
             PROVE  FifoIInv'
  OBVIOUS
<1> USE DEF FifoIInv, FifoInv
<1>1. CASE UNCHANGED vars
  BY <1>1, FifoFrame DEF vars
<1>2. ASSUME NEW t \in Tx, Transport(t)
      PROVE  FifoIInv'
  <2>1. CASE kind = "reorder"
    BY <1>2, <2>1, FifoFrame DEF Transport, Fifos
  <2>2. CASE kind # "reorder"
    <3>1. PICK d \in 0 .. Horizon - 1 : Push(t, d)
      BY <1>2, <2>2, CallFacts
    <3>2. /\ left' \in [Cmds -> [Lists -> Seq(Nat \X (0 .. Horizon - 1))]]
          /\ UNCHANGED <<kind, reorderVars>>
      BY <1>2, <2>2, CallFacts
    <3>3. FifoType' /\ ThreadInv' /\ PlaceInv'
      BY <3>1, <3>2, PushType, PushThread, PushPlace
    <3>4. PaceInv'
      <4>1. UNCHANGED <<limit, thr>>
        BY <3>1 DEF Push, paceVars
      <4> QED
        BY <3>2, <4>1, PaceStep
    <3>5. CallOrder' /\ LatencyExact' /\ RespOrder'
      BY <3>1, PushOrder
    <3>6. BandInv'
      BY <3>1, <3>2, PushBand
    <3> QED
      BY <3>3, <3>4, <3>5, <3>6
  <2> QED
    BY <2>1, <2>2
<1>3. CASE Clock
  <2>1. Tick(WrPace) /\ UNCHANGED <<kind, left>>
    BY <1>3 DEF Clock, Fifos
  <2>2. FifoType' /\ ThreadInv' /\ PlaceInv'
    BY <2>1, TickType, TickThread, TickPlace
  <2>3. PaceInv'
    <3>1. \A c \in Cmds : thr'[c] \in {"arb", "delay"} => thr[c] \in {"arb", "delay"}
      BY <2>1, TickPace
    <3>2. UNCHANGED limit
      BY <2>1 DEF Tick
    <3> QED
      BY <2>1, <3>1, <3>2, PaceStep
  <2>4. CallOrder' /\ LatencyExact' /\ RespOrder'
    BY <2>1, TickOrder
  <2>5. BandInv'
    BY <2>1, TickOwn, TickTotal DEF BandInv
  <2> QED
    BY <2>2, <2>3, <2>4, <2>5
<1>4. ASSUME NEW c \in Cmds, PickResponse(c)
      PROVE  FifoIInv'
  <2>1. Pick(c, WrPace) /\ UNCHANGED <<kind, left>>
    BY <1>4 DEF PickResponse, Fifos
  <2>2. FifoType' /\ ThreadInv'
    BY <2>1, PickStep
  <2>3. PaceInv'
    <3>1. /\ UNCHANGED limit
          /\ thr'[c] = IF Pace(c, WrPace) = "none" THEN "try" ELSE "arb"
          /\ \A d \in Cmds : d # c => thr'[d] = thr[d]
      BY <2>1 DEF Pick, FifoType
    <3> QED
      BY <2>1, <3>1, PaceStep
  <2>4. PlaceInv' /\ CallOrder' /\ LatencyExact' /\ RespOrder'
    BY <2>1, PlaceFrame DEF Pick
  <2>5. BandInv'
    BY <2>1, PickBand
  <2> QED
    BY <2>2, <2>3, <2>4, <2>5
<1>5. ASSUME NEW c \in Cmds, DelayResponse(c)
      PROVE  FifoIInv'
  <2>1. Delay(c, WrPace) /\ UNCHANGED <<kind, left>>
    BY <1>5 DEF DelayResponse, Fifos
  <2>2. FifoType' /\ ThreadInv' /\ PaceInv'
    BY <2>1, DelayStep
  <2>3. PlaceInv' /\ CallOrder' /\ LatencyExact' /\ RespOrder'
    BY <2>1, PlaceFrame DEF Delay
  <2>4. BandInv'
    BY <2>1, DelayBand
  <2> QED
    BY <2>2, <2>3, <2>4
<1>6. ASSUME NEW c \in Cmds, AcceptResponse(c)
      PROVE  FifoIInv'
  <2>1. Accepted(c, WrPace) /\ UNCHANGED <<kind, left>>
    BY <1>6 DEF AcceptResponse, Fifos
  <2>2. FifoType' /\ ThreadInv' /\ PaceInv'
    BY <2>1, AcceptType
  <2>3. PlaceInv' /\ CallOrder' /\ LatencyExact' /\ RespOrder'
    BY <2>1, AcceptPlace, AcceptOrder
  <2>4. BandInv'
    BY <2>1, AcceptBand
  <2> QED
    BY <2>2, <2>3, <2>4
<1>7. ASSUME NEW c \in Cmds, RefuseResponse(c)
      PROVE  FifoIInv'
  <2>1. Refused(c) /\ UNCHANGED <<kind, left>>
    BY <1>7 DEF RefuseResponse, Fifos
  <2>2. FifoType' /\ ThreadInv' /\ PaceInv'
    BY <2>1, RefuseStep
  <2>3. PlaceInv' /\ CallOrder' /\ LatencyExact' /\ RespOrder'
    BY <2>1, PlaceFrame DEF Refused
  <2>4. BandInv'
    BY <2>1, RefuseBand
  <2> QED
    BY <2>2, <2>3, <2>4
<1>8. CASE Reorder
  BY <1>8, FifoFrame DEF Reorder
<1> QED
  BY <1>1, <1>2, <1>3, <1>4, <1>5, <1>6, <1>7, <1>8 DEF Next

\* The fifos and the threads keep their invariant, whatever is called, drawn,
\* accepted or refused.
THEOREM FifoInvariant == Spec => []FifoIInv
<1>1. Init => FifoIInv
  BY InitFifo, InitBand DEF FifoIInv
<1> QED
  BY <1>1, FifoStep, PTL DEF Spec

\* The two response threads and the clocked method hand a payload on without
\* losing or doubling it (each called payload is in one fifo or answered), and
\* only one of them is inside the section of total_arb.
THEOREM BuffersConsistentHolds == Spec => []BuffersConsistent
<1>1. FifoIInv => BuffersConsistent
  <2> SUFFICES ASSUME FifoInv
               PROVE  BuffersConsistent
    BY DEF FifoIInv
  <2> USE DEF FifoInv
  <2>1. TypeOK
    <3>1. ASSUME NEW c \in Cmds, NEW i \in DOMAIN lat[c]
          PROVE  lat[c][i] \in [t : {t \in Tx : Cmd[t] = c}, left : Nat]
      <4> DEFINE E == [t : Tx, left : Nat]
      <4>1. lat[c] \in Seq(E) /\ Cmd[lat[c][i].t] = c
        BY DEF FifoType, PlaceInv
      <4>2. lat[c][i] \in E
        <5> HIDE DEF E
        <5> QED
          BY <4>1
      <4> QED
        BY <4>1, <4>2
    <3> QED
      BY <3>1 DEF TypeOK, FifoType, ThreadInv
  <2>2. InOnePlace
    <3> SUFFICES ASSUME NEW c \in Cmds
                 PROVE  LET waits == [k \in DOMAIN lat[c] |-> lat[c][k].t]
                            called == {t \in Range(order) : Cmd[t] = c}
                        IN  /\ IsInjective(waits) /\ IsInjective(resp[c])
                            /\ Range(waits) \intersect Range(resp[c]) = {}
                            /\ Range(waits) \union Range(resp[c]) = called \ done
      BY DEF InOnePlace
    <3> DEFINE waits == [k \in DOMAIN lat[c] |-> lat[c][k].t]
               called == {t \in Range(order) : Cmd[t] = c}
    <3>1. IsInjective(waits) /\ IsInjective(resp[c])
      BY DEF PlaceInv, IsInjective
    <3>2. /\ Range(waits) \intersect Range(resp[c]) = {}
          /\ Range(waits) \subseteq called \ done
          /\ Range(resp[c]) \subseteq called \ done
      <4>1. \A k \in DOMAIN lat[c] :
              /\ Cmd[lat[c][k].t] = c /\ lat[c][k].t \in Range(order) \ done
              /\ lat[c][k].t \notin Range(resp[c])
        BY DEF PlaceInv
      <4>2. \A k \in DOMAIN resp[c] :
              Cmd[resp[c][k]] = c /\ resp[c][k] \in Range(order) \ done
        BY DEF PlaceInv
      <4>3. /\ \A t \in Range(waits) : \E k \in DOMAIN lat[c] : t = lat[c][k].t
            /\ \A t \in Range(resp[c]) : \E k \in DOMAIN resp[c] : t = resp[c][k]
        BY DEF Range
      <4> QED
        BY <4>1, <4>2, <4>3
    <3>3. ASSUME NEW t \in called \ done
          PROVE  t \in Range(waits) \union Range(resp[c])
      <4>1. t \in Range(order) \ done /\ Cmd[t] = c
        OBVIOUS
      <4>2. (\E k \in DOMAIN lat[c] : lat[c][k].t = t) \/ t \in Range(resp[c])
        BY <4>1 DEF PlaceInv
      <4> QED
        BY <4>2 DEF Range
    <3> QED
      BY <3>1, <3>2, <3>3
  <2>3. OneInArbitration
    BY DEF OneInArbitration, ThreadInv, Cmds
  <2> QED
    BY <2>1, <2>2, <2>3 DEF BuffersConsistent
<1> QED
  BY <1>1, FifoInvariant, PTL

\* However the responses arrive and are refused, the reads are not ahead of
\* their limit, nor are both commands together ahead of a total limit, by more
\* than one response per thread and a clock period.
THEOREM BandwidthKeptHolds == Spec => []BandwidthKept
<1>1. FifoIInv => BandwidthKept
  <2> SUFFICES ASSUME FifoInv, BandInv
               PROVE  BandwidthKept
    BY DEF FifoIInv
  <2> USE DEF FifoInv
  <2>1. /\ Den \in Nat \ {0}
        /\ \A q \in Pacers :
             owed[q] \in Nat /\ resid[q] \in Nat /\ resid[q] <= Den - 1
    BY RateAssumption DEF FifoType, RateAssumption
  <2>2. ASSUME Time("total") > 0
        PROVE  owed["total"] < 2 * MaxCost("total", Cmds) + Den
    <3>1. /\ Cost("rd", "total") \in Nat /\ Cost("wr", "total") \in Nat
          /\ MaxCost("total", Cmds) \in Nat
      BY CostFacts DEF Cmds, Pacers
    <3>2. Paid \in Nat /\ owed["total"] <= Paid /\ Most \in Nat
      BY <2>1, <3>1 DEF Paid, Most, Pacers
    <3>3. Paid < Most + Den
      <4>1. CASE \A c \in Cmds : thr[c] # "delay"
        <5>1. Paid <= Most + resid["total"]
          BY <2>2, <4>1 DEF BandInv, TotalBand
        <5>2. resid["total"] \in Nat /\ resid["total"] <= Den - 1
          BY <2>1 DEF Pacers
        <5> QED
          BY <2>1, <3>2, <5>1, <5>2
      <4>2. CASE \E c \in Cmds : thr[c] = "delay"
        BY <2>2, <4>2 DEF BandInv, TotalBand
      <4> QED
        BY <4>1, <4>2
    <3>4. owed["total"] < Most + Den
      BY <2>1, <3>2, <3>3 DEF Pacers
    <3> QED
      BY <3>4 DEF Most
  <2>3. ASSUME NEW p \in Cmds, NEW c \in Cmds, c = "rd", p = c, Time(p) > 0
        PROVE  owed[c] < MaxCost(p, {c}) + Den
    <3>1. p \in Pacers /\ c \in Pacers
      BY <2>3 DEF Pacers
    <3>2. Time("total") = 0
      <4>1. Time("total") \in Nat
        BY CostFacts DEF Pacers
      <4>2. Time("total") > 0 => Time(p) = 0
        BY <3>1 DEF Time, Cmds
      <4> QED
        BY <2>3, <4>1, <4>2
    <3>3. Pace(c, WrPace) = p
      BY <2>3, <3>2, PaceProperties
    <3> DEFINE b == Bytes[Head(resp[c])] * Time(p)
    <3>4. OwnOk(thr[c], owed[c], togo[c], resid[c], b, MaxCost(p, {c}))
      BY <2>3, <3>3 DEF BandInv, OwnBand
    <3>5. /\ MaxCost(p, {c}) \in Nat /\ (thr[c] # "wait" => b \in Nat)
      BY <3>1, CostFacts
    <3>6. /\ owed[c] \in Nat /\ resid[c] \in Nat /\ resid[c] <= Den - 1
      BY <2>1, <3>1
    <3> HIDE DEF b
    <3>7. CASE thr[c] \in {"wait", "arb", "delay"}
      BY <2>1, <3>4, <3>5, <3>6, <3>7 DEF OwnOk
    <3>8. CASE thr[c] \in {"try", "again"}
      BY <2>1, <3>4, <3>5, <3>6, <3>8 DEF OwnOk
    <3> QED
      BY <3>7, <3>8 DEF FifoType
  <2> QED
    BY <2>2, <2>3 DEF BandwidthKept, Cmds
<1> QED
  BY <1>1, FifoInvariant, PTL

-----------------------------------------------------------------------------
(* The reorder buffer.                                                     *)

Entry == [t : Tx, age : Nat, held : Nat]

InTime(e) == e.held <= e.age /\ e.held <= MaxLatency

ReorderType ==
  /\ prio \in [qos : BOOLEAN, latency : BOOLEAN]
  /\ buf \in [Cmds -> [Ids -> Seq(Entry)]] /\ gone \in [Cmds -> [Ids -> Seq(Entry)]]
  /\ came \in Seq(Tx)
  /\ \A c \in Cmds, i \in Ids : \A k \in DOMAIN buf[c][i] :
       /\ Id[buf[c][i][k].t] = i
       /\ NoPriority => InTime(buf[c][i][k])

ReorderInv == ReorderType /\ MinKept /\ PerIdOrder

\* What a clock edge does to the entries of a command and an id: the first is
\* accepted, or none and the first is older.
Moved(b, g, b1, g1) ==
  \/ /\ b # << >> /\ b1 = Tail(b)
     /\ \E x \in Entry : /\ x.t = b[1].t /\ x.age > Min({MinLatency, MaxLatency})
                         /\ g1 = Append(g, x)
  \/ /\ g1 = g /\ b1 \in Seq(Entry) /\ DOMAIN b1 = DOMAIN b
     /\ \A k \in DOMAIN b :
          b1[k].t = b[k].t /\ (NoPriority /\ InTime(b[k]) => InTime(b1[k]))

LEMMA CappedProperties ==
  ASSUME NEW n \in Nat
  PROVE  /\ Capped(n + 1) \in Nat \ {0} /\ Capped(n + 1) <= n + 1
         /\ \A m \in Nat : m <= n => Capped(m + 1) <= Capped(n + 1)
         /\ n <= MaxLatency => Capped(n + 1) = n + 1
         /\ Capped(n + 1) <= MaxLatency => Capped(n + 1) = n + 1
BY ReorderAssumption DEF Capped, Cap, ReorderAssumption

\* The first entry of an id at a clock edge.
LEMMA HeldProperties ==
  ASSUME NEW b \in [Ids -> Seq(Entry)], NEW i \in Ids
  PROVE  LET h == Held(b)[i]
             e == b[i][1]
         IN  /\ Held(b) \in [Ids -> Seq(Entry)] /\ DOMAIN h = DOMAIN b[i]
             /\ \A k \in DOMAIN b[i] : k # 1 => h[k] = b[i][k]
             /\ 1 \in DOMAIN b[i] =>
                  h[1] = [t |-> e.t, age |-> e.age, held |-> Capped(e.held + 1)]
<1> DEFINE Next1(j, k) == IF k = 1 THEN [b[j][1] EXCEPT !.held = Capped(@ + 1)]
                                   ELSE b[j][k]
<1>1. Held(b) = [j \in Ids |-> [k \in DOMAIN b[j] |-> Next1(j, k)]]
  BY DEF Held, MapFirst
<1>2. ASSUME NEW j \in Ids, NEW k \in DOMAIN b[j]
      PROVE  Next1(j, k) \in Entry
  <2>1. b[j] \in Seq(Entry)
    OBVIOUS
  <2>2. b[j][k] \in Entry
    BY <2>1
  <2>3. CASE k = 1
    <3>1. b[j][1] \in Entry
      BY <2>2, <2>3
    <3>2. b[j][1].held \in Nat
      BY <3>1 DEF Entry
    <3>3. Capped(b[j][1].held + 1) \in Nat
      BY <3>2, CappedProperties
    <3> QED
      BY <2>3, <3>1, <3>3 DEF Entry
  <2> QED
    BY <2>2, <2>3
<1>3. ASSUME NEW j \in Ids
      PROVE  [k \in DOMAIN b[j] |-> Next1(j, k)] \in Seq(Entry)
  <2>1. DOMAIN b[j] = 1 .. Len(b[j]) /\ Len(b[j]) \in Nat
    OBVIOUS
  <2> HIDE DEF Next1
  <2> QED
    BY <1>2, <2>1
<1>4. 1 \in DOMAIN b[i] => b[i][1] \in Entry
  <2>1. b[i] \in Seq(Entry)
    OBVIOUS
  <2> QED
    BY <2>1
<1>5. 1 \in DOMAIN b[i] =>
        Next1(i, 1) = [t |-> b[i][1].t, age |-> b[i][1].age,
                       held |-> Capped(b[i][1].held + 1)]
  BY <1>4 DEF Entry
<1>6. \A k \in DOMAIN b[i] : k # 1 => Next1(i, k) = b[i][k]
  OBVIOUS
<1> HIDE DEF Next1
<1> QED
  BY <1>1, <1>3, <1>5, <1>6

LEMMA OlderProperties ==
  ASSUME NEW b \in [Ids -> Seq(Entry)], NEW i \in Ids
  PROVE  LET h == Older(b)[i]
             e == b[i][1]
         IN  /\ Older(b) \in [Ids -> Seq(Entry)] /\ DOMAIN h = DOMAIN b[i]
             /\ \A k \in DOMAIN b[i] : k # 1 => h[k] = b[i][k]
             /\ 1 \in DOMAIN b[i] =>
                  h[1] = [t |-> e.t, age |-> Capped(e.age + 1), held |-> e.held]
<1> DEFINE Next1(j, k) == IF k = 1 THEN [b[j][1] EXCEPT !.age = Capped(@ + 1)]
                                   ELSE b[j][k]
<1>1. Older(b) = [j \in Ids |-> [k \in DOMAIN b[j] |-> Next1(j, k)]]
  BY DEF Older, MapFirst
<1>2. ASSUME NEW j \in Ids, NEW k \in DOMAIN b[j]
      PROVE  Next1(j, k) \in Entry
  <2>1. b[j] \in Seq(Entry)
    OBVIOUS
  <2>2. b[j][k] \in Entry
    BY <2>1
  <2>3. CASE k = 1
    <3>1. b[j][1] \in Entry
      BY <2>2, <2>3
    <3>2. b[j][1].age \in Nat
      BY <3>1 DEF Entry
    <3>3. Capped(b[j][1].age + 1) \in Nat
      BY <3>2, CappedProperties
    <3> QED
      BY <2>3, <3>1, <3>3 DEF Entry
  <2> QED
    BY <2>2, <2>3
<1>3. ASSUME NEW j \in Ids
      PROVE  [k \in DOMAIN b[j] |-> Next1(j, k)] \in Seq(Entry)
  <2>1. DOMAIN b[j] = 1 .. Len(b[j]) /\ Len(b[j]) \in Nat
    OBVIOUS
  <2> HIDE DEF Next1
  <2> QED
    BY <1>2, <2>1
<1>4. 1 \in DOMAIN b[i] => b[i][1] \in Entry
  <2>1. b[i] \in Seq(Entry)
    OBVIOUS
  <2> QED
    BY <2>1
<1>5. 1 \in DOMAIN b[i] =>
        Next1(i, 1) = [t |-> b[i][1].t, age |-> Capped(b[i][1].age + 1),
                       held |-> b[i][1].held]
  BY <1>4 DEF Entry
<1>6. \A k \in DOMAIN b[i] : k # 1 => Next1(i, k) = b[i][k]
  OBVIOUS
<1> HIDE DEF Next1
<1> QED
  BY <1>1, <1>3, <1>5, <1>6

\* What can be handed over.
LEMMA PicksProperties ==
  ASSUME prio \in [qos : BOOLEAN, latency : BOOLEAN], NEW b, NEW p \in Picks(b)
  PROVE  /\ p.ids \subseteq Overdue(b) \union Ready(b)
         /\ Overdue(b) \subseteq p.ids
         /\ NoPriority => ~p.return
         /\ p.return \in BOOLEAN
<1> DEFINE choices == IF prio.qos THEN Best(b) ELSE Ready(b)
<1>1. choices \subseteq Ready(b)
  BY DEF Best
<1>2. CASE Overdue(b) # {}
  <2>1. p = [ids |-> Overdue(b), return |-> FALSE]
    BY <1>2 DEF Picks
  <2> QED
    BY <2>1
<1>3. CASE Overdue(b) = {}
  <2> DEFINE returns == prio.latency \/ (prio.qos /\ Cardinality(choices) = 1)
  <2>1. \/ p = [ids |-> {}, return |-> FALSE]
        \/ \E i \in choices : p = [ids |-> {i}, return |-> returns]
    <3> HIDE DEF choices
    <3> QED
      BY <1>3 DEF Picks, choices
  <2>2. returns \in BOOLEAN /\ (NoPriority => ~returns)
    BY DEF NoPriority
  <2> HIDE DEF returns, choices
  <2>3. CASE p = [ids |-> {}, return |-> FALSE]
    BY <1>3, <2>3
  <2>4. ASSUME NEW i \in choices, p = [ids |-> {i}, return |-> returns]
        PROVE  /\ p.ids \subseteq Ready(b) /\ p.return = returns
    BY <1>1, <2>4
  <2> QED
    BY <1>3, <2>1, <2>2, <2>3, <2>4
<1> QED
  BY <1>2, <1>3

LEMMA ClockMoved ==
  ASSUME prio \in [qos : BOOLEAN, latency : BOOLEAN],
         NEW b \in [Ids -> Seq(Entry)], NEW g \in [Ids -> Seq(Entry)],
         \A i \in Ids : \A k \in DOMAIN b[i] : Id[b[i][k].t] = i,
         NEW a, a = Older(Held(b)), NEW p, p \in Picks(a),
         NEW ok, ok \in SUBSET p.ids, NEW i \in Ids
  PROVE  Moved(b[i], g[i], Handed(a, p, ok)[i], Out(g, a, ok)[i])
<1>2. /\ p.ids \subseteq Overdue(a) \union Ready(a) /\ Overdue(a) \subseteq p.ids
      /\ Overdue(a) \subseteq Ids /\ Ready(a) \subseteq Ids
  BY PicksProperties DEF Overdue, Ready, NonEmpty
<1>3. PICK s \in Seq(Entry) : s = b[i]
  OBVIOUS
<1>4. /\ a \in [Ids -> Seq(Entry)] /\ DOMAIN a[i] = DOMAIN s
      /\ \A k \in DOMAIN s : k # 1 => a[i][k] = s[k]
      /\ 1 \in DOMAIN s =>
           a[i][1] = [t |-> s[1].t, age |-> Capped(s[1].age + 1),
                      held |-> Capped(s[1].held + 1)]
  <2> DEFINE h == Held(b)
  <2>1. /\ h \in [Ids -> Seq(Entry)] /\ DOMAIN h[i] = DOMAIN s
        /\ \A k \in DOMAIN s : k # 1 => h[i][k] = s[k]
        /\ 1 \in DOMAIN s =>
             h[i][1] = [t |-> s[1].t, age |-> s[1].age,
                        held |-> Capped(s[1].held + 1)]
    BY <1>3, HeldProperties, SMTT(30)
  <2>2. a = Older(h)
    OBVIOUS
  <2> HIDE DEF h
  <2> DEFINE o == Older(h)
  <2>3. /\ o \in [Ids -> Seq(Entry)] /\ DOMAIN o[i] = DOMAIN h[i]
        /\ \A k \in DOMAIN h[i] : k # 1 => o[i][k] = h[i][k]
        /\ 1 \in DOMAIN h[i] =>
             o[i][1] = [t |-> h[i][1].t, age |-> Capped(h[i][1].age + 1),
                        held |-> h[i][1].held]
    BY <2>1, OlderProperties, ZenonT(40)
  <2> HIDE DEF o
  <2>4. a = o
    BY <2>2 DEF o
  <2> QED
    BY <2>1, <2>3, <2>4
<1>5. PICK u \in Seq(Entry) : u = a[i]
  BY <1>4
<1>6. /\ Len(s) \in Nat /\ DOMAIN s = 1 .. Len(s)
      /\ \A k \in DOMAIN s : s[k] \in Entry /\ Id[s[k].t] = i
      /\ Len(u) = Len(s) /\ DOMAIN u = DOMAIN s
      /\ \A k \in DOMAIN s : k # 1 => u[k] = s[k]
      /\ 1 \in DOMAIN s =>
           /\ u[1] \in Entry /\ u[1].t = s[1].t
           /\ u[1].age = Capped(s[1].age + 1) /\ u[1].held = Capped(s[1].held + 1)
  <2>1. Len(s) \in Nat /\ DOMAIN s = 1 .. Len(s) /\ \A k \in DOMAIN s : s[k] \in Entry
    OBVIOUS
  <2>2. /\ DOMAIN u = DOMAIN s
        /\ \A k \in DOMAIN s : u[k] \in Entry
    BY <1>4, <1>5
  <2>3. Len(u) = Len(s)
    BY <2>1, <2>2
  <2>4. 1 \in DOMAIN s =>
          /\ u[1].t = s[1].t
          /\ u[1].age = Capped(s[1].age + 1) /\ u[1].held = Capped(s[1].held + 1)
    BY <1>4, <1>5
  <2> QED
    BY <1>3, <1>4, <1>5, <2>1, <2>2, <2>3, <2>4
<1> DEFINE First(e) == IF Id[e.t] \in p.ids \ ok THEN [e EXCEPT !.held = @ - 1]
                       ELSE e
<1>7. CASE i \in ok
  <2>1. i \in Overdue(a) \/ i \in Ready(a)
    BY <1>2, <1>7
  <2>2. u # << >> /\ (u[1].age > MaxLatency \/ u[1].age > MinLatency)
    BY <1>5, <2>1 DEF Overdue, Ready, NonEmpty
  <2>3. s # << >> /\ 1 \in DOMAIN s
    BY <1>6, <2>2
  <2>4. u[1] \in Entry /\ u[1].t = s[1].t /\ u[1].age \in Nat
    BY <1>6, <2>3 DEF Entry
  <2>5. u[1].age > Min({MinLatency, MaxLatency})
    <3>1. {MinLatency, MaxLatency} \in SUBSET Nat
      BY ReorderAssumption DEF ReorderAssumption
    <3>2. /\ Min({MinLatency, MaxLatency}) \in {MinLatency, MaxLatency}
          /\ \A y \in {MinLatency, MaxLatency} : Min({MinLatency, MaxLatency}) <= y
      BY <3>1, LeastNumber
    <3> DEFINE m == Min({MinLatency, MaxLatency})
    <3> HIDE DEF m
    <3>3. m \in Nat /\ m <= MinLatency /\ m <= MaxLatency
      BY <3>1, <3>2 DEF m
    <3>4. u[1].age > m
      BY <2>2, <2>4, <3>3, ReorderAssumption DEF ReorderAssumption
    <3> QED
      BY <3>4 DEF m
  <2>6. Out(g, a, ok)[i] = Append(g[i], u[1])
    BY <1>5, <1>7 DEF Out
  <2> DEFINE v == Tail(s)
  <2>7. /\ v \in Seq(Entry) /\ DOMAIN v = 1 .. Len(s) - 1
        /\ \A k \in 1 .. Len(s) - 1 : v[k] = s[k + 1] /\ k + 1 \in DOMAIN s
    BY <1>6, <2>3
  <2>8. Tail(u) = v
    <3>1. /\ DOMAIN Tail(u) = 1 .. Len(s) - 1
          /\ \A k \in 1 .. Len(s) - 1 : Tail(u)[k] = u[k + 1]
          /\ Tail(u) \in Seq(Entry)
      BY <1>6, <2>2
    <3>2. \A k \in 1 .. Len(s) - 1 : k + 1 # 1 /\ Tail(u)[k] = v[k]
      BY <1>6, <2>7, <3>1, SMTT(30)
    <3> QED
      BY <2>7, <3>1, <3>2
  <2> HIDE DEF v
  <2>9. Handed(a, p, ok)[i]
          = [k \in DOMAIN v |-> IF k = 1 THEN First(v[1]) ELSE v[k]]
    <3>1. Leave(a, ok)[i] = v
      BY <1>5, <1>7, <2>8 DEF Leave
    <3> QED
      BY <3>1 DEF Handed, MapFirst
  <2>10. \A k \in DOMAIN v : First(v[k]) = v[k]
    <3> TAKE k \in DOMAIN v
    <3>1. v[k] = s[k + 1] /\ k + 1 \in DOMAIN s
      BY <2>7
    <3>2. Id[v[k].t] = i
      BY <1>6, <3>1
    <3> QED
      BY <1>7, <3>2
  <2> HIDE DEF First
  <2>11. Handed(a, p, ok)[i] = v
    BY <2>7, <2>9, <2>10
  <2> QED
    BY <1>3, <2>3, <2>4, <2>5, <2>6, <2>11 DEF Moved, v
<1>8. CASE i \notin ok
  <2>1. Out(g, a, ok)[i] = g[i] /\ Leave(a, ok)[i] = u
    BY <1>5, <1>8 DEF Out, Leave
  <2>2. Handed(a, p, ok)[i]
          = [k \in DOMAIN s |-> IF k = 1 THEN First(u[1]) ELSE u[k]]
    BY <1>6, <2>1 DEF Handed, MapFirst
  <2>3. ASSUME 1 \in DOMAIN s
        PROVE  /\ First(u[1]) \in Entry /\ First(u[1]).t = s[1].t
               /\ InTime(s[1]) => InTime(First(u[1]))
    <3>1. /\ Id[u[1].t] = i /\ u[1] \in Entry /\ u[1].t = s[1].t /\ s[1] \in Entry
          /\ u[1].age = Capped(s[1].age + 1) /\ u[1].held = Capped(s[1].held + 1)
      BY <1>6, <2>3
    <3>2. PICK h \in Nat : h = s[1].held
      BY <3>1 DEF Entry
    <3>3. PICK n \in Nat : n = s[1].age
      BY <3>1 DEF Entry
    <3>4. /\ Capped(h + 1) \in Nat \ {0} /\ Capped(n + 1) \in Nat \ {0}
          /\ h <= n => Capped(h + 1) <= Capped(n + 1)
          /\ h <= MaxLatency => Capped(h + 1) = h + 1
          /\ MaxLatency \in Nat
      BY CappedProperties, ReorderAssumption DEF ReorderAssumption
    <3>5. CASE i \in p.ids
      <4>1. First(u[1]) = [t |-> s[1].t, age |-> Capped(n + 1),
                           held |-> Capped(h + 1) - 1]
        BY <1>8, <3>1, <3>2, <3>3, <3>5 DEF Entry
      <4>2. Capped(h + 1) - 1 \in Nat
        BY <3>4
      <4>3. h <= n /\ h <= MaxLatency =>
              Capped(h + 1) - 1 <= Capped(n + 1) /\ Capped(h + 1) - 1 <= MaxLatency
        BY <3>4
      <4> HIDE DEF First
      <4> QED
        BY <3>1, <3>2, <3>3, <3>4, <4>1, <4>2, <4>3 DEF InTime, Entry
    <3>6. CASE i \notin p.ids
      <4>1. First(u[1]) = u[1]
        BY <3>1, <3>6
      <4>2. u # << >> /\ i \notin Overdue(a)
        BY <1>2, <1>6, <2>3, <3>6
      <4>3. ~(Capped(n + 1) > MaxLatency)
        BY <1>5, <3>1, <3>3, <4>2 DEF Overdue, NonEmpty
      <4>4. h <= n =>
              Capped(h + 1) <= Capped(n + 1) /\ Capped(h + 1) <= MaxLatency
        BY <3>4, <4>3
      <4> HIDE DEF First
      <4> QED
        BY <3>1, <3>2, <3>3, <4>1, <4>4 DEF InTime
    <3> QED
      BY <3>5, <3>6
  <2> DEFINE w == [k \in DOMAIN s |-> IF k = 1 THEN First(u[1]) ELSE u[k]]
  <2> HIDE DEF First
  <2>4. \A k \in DOMAIN s :
          /\ w[k] \in Entry /\ w[k].t = s[k].t /\ (InTime(s[k]) => InTime(w[k]))
    BY <1>6, <2>3
  <2>5. DOMAIN w = DOMAIN s
    OBVIOUS
  <2> HIDE DEF w
  <2>6. w \in Seq(Entry)
    <3>1. w = [k \in 1 .. Len(s) |-> w[k]]
      BY <1>6, <2>5 DEF w
    <3> QED
      BY <1>6, <2>4, <3>1
  <2>7. Handed(a, p, ok)[i] = w
    BY <2>2 DEF w
  <2> QED
    BY <1>3, <2>1, <2>4, <2>5, <2>6, <2>7 DEF Moved
<1> QED
  BY <1>7, <1>8

\* The payloads of a sequence of entries.
Names(s) == [k \in DOMAIN s |-> s[k].t]

LEMMA ConcatEntries ==
  ASSUME NEW s \in Seq(Entry), NEW u \in Seq(Entry),
         NEW n, NEW m, Len(s) = n, Len(u) = m
  PROVE  /\ s \o u \in Seq(Entry) /\ Len(s \o u) = n + m
         /\ \A k \in 1 .. n + m : (s \o u)[k] = IF k <= n THEN s[k] ELSE u[k - n]
<1>1. /\ s \o u \in Seq(Entry) /\ Len(s \o u) = Len(s) + Len(u)
      /\ \A k \in 1 .. Len(s) + Len(u) :
           (s \o u)[k] = IF k <= Len(s) THEN s[k] ELSE u[k - Len(s)]
  BY ConcatProperties
<1> QED
  BY <1>1

LEMMA NamesMove ==
  ASSUME NEW g \in Seq(Entry), NEW b \in Seq(Entry), b # << >>,
         NEW x \in Entry, x.t = b[1].t
  PROVE  Names(Append(g, x) \o Tail(b)) = Names(g \o b)
<1> DEFINE n == Len(g)
           m == Len(b)
           v == Tail(b)
           a == Append(g, x)
           o == g \o b
           w == a \o v
<1>1. n \in Nat /\ m \in Nat \ {0}
  OBVIOUS
<1>2. /\ v \in Seq(Entry) /\ Len(v) = m - 1
      /\ \A k \in 1 .. m - 1 : v[k] = b[k + 1]
  OBVIOUS
<1>3. /\ a \in Seq(Entry) /\ Len(a) = n + 1 /\ a[n + 1] = x
      /\ \A k \in 1 .. n : a[k] = g[k]
  BY AppendProperties
<1>4. /\ o \in Seq(Entry) /\ Len(o) = n + m
      /\ \A k \in 1 .. n + m : o[k] = IF k <= n THEN g[k] ELSE b[k - n]
  BY ConcatEntries
<1> HIDE DEF a, v, n, m
<1>5. /\ w \in Seq(Entry) /\ Len(w) = (n + 1) + (m - 1)
      /\ \A k \in 1 .. (n + 1) + (m - 1) :
           w[k] = IF k <= n + 1 THEN a[k] ELSE v[k - (n + 1)]
  BY <1>2, <1>3, ConcatEntries
<1> HIDE DEF o, w
<1>6. DOMAIN o = 1 .. n + m /\ DOMAIN w = 1 .. n + m
  <2>1. (n + 1) + (m - 1) = n + m
    BY <1>1
  <2> QED
    BY <1>4, <1>5, <2>1
<1>7. ASSUME NEW k \in 1 .. n + m
      PROVE  w[k].t = o[k].t
  <2>1. k \in 1 .. (n + 1) + (m - 1)
    BY <1>1
  <2>2. CASE k <= n
    <3>1. k \in 1 .. n /\ k <= n + 1
      BY <1>1, <2>2
    <3> QED
      BY <1>3, <1>4, <1>5, <2>1, <2>2, <3>1
  <2>3. CASE k = n + 1
    <3>1. k <= n + 1 /\ ~(k <= n) /\ k - n = 1
      BY <1>1, <2>3
    <3> QED
      BY <1>3, <1>4, <1>5, <2>1, <2>3, <3>1
  <2>4. CASE k > n + 1
    <3>1. /\ ~(k <= n + 1) /\ ~(k <= n)
          /\ k - (n + 1) \in 1 .. m - 1 /\ (k - (n + 1)) + 1 = k - n
      BY <1>1, <2>4
    <3> QED
      BY <1>2, <1>4, <1>5, <2>1, <3>1
  <2> QED
    BY <1>1, <2>2, <2>3, <2>4
<1>8. Names(w) = Names(o)
  BY <1>6, <1>7 DEF Names
<1> QED
  BY <1>8 DEF w, o, a, v

LEMMA NamesSame ==
  ASSUME NEW g \in Seq(Entry), NEW b \in Seq(Entry), NEW v \in Seq(Entry),
         DOMAIN v = DOMAIN b, \A k \in DOMAIN b : v[k].t = b[k].t
  PROVE  Names(g \o v) = Names(g \o b)
<1> DEFINE n == Len(g)
           m == Len(b)
           o == g \o b
           w == g \o v
<1>1. n \in Nat /\ m \in Nat /\ DOMAIN b = 1 .. m /\ Len(v) = m /\ Len(g) = n
  OBVIOUS
<1>2. /\ o \in Seq(Entry) /\ Len(o) = n + m
      /\ \A k \in 1 .. n + m : o[k] = IF k <= n THEN g[k] ELSE b[k - n]
  BY ConcatEntries
<1> HIDE DEF n, m
<1>3. /\ w \in Seq(Entry) /\ Len(w) = n + m
      /\ \A k \in 1 .. n + m : w[k] = IF k <= n THEN g[k] ELSE v[k - n]
  <2>1. /\ w \in Seq(Entry) /\ Len(w) = Len(g) + Len(v)
        /\ \A k \in 1 .. Len(g) + Len(v) :
             w[k] = IF k <= Len(g) THEN g[k] ELSE v[k - Len(g)]
    BY ConcatProperties
  <2> HIDE DEF w
  <2> QED
    BY <1>1, <2>1
<1> HIDE DEF o, w
<1>4. ASSUME NEW k \in 1 .. n + m
      PROVE  w[k].t = o[k].t
  <2>1. CASE k <= n
    BY <1>2, <1>3, <2>1
  <2>2. CASE ~(k <= n)
    <3>1. k - n \in 1 .. m
      BY <1>1, <2>2
    <3> QED
      BY <1>1, <1>2, <1>3, <2>2, <3>1
  <2> QED
    BY <2>1, <2>2
<1>5. Names(w) = Names(o)
  BY <1>2, <1>3, <1>4 DEF Names
<1> QED
  BY <1>5 DEF w, o

LEMMA NamesAppend ==
  ASSUME NEW g \in Seq(Entry), NEW b \in Seq(Entry), NEW x \in Entry
  PROVE  /\ Names(g \o b) \in Seq(Tx)
         /\ Names(g \o Append(b, x)) = Append(Names(g \o b), x.t)
<1> DEFINE n == Len(g)
           m == Len(b)
           a == Append(b, x)
           o == g \o b
           w == g \o a
           q == Append(Names(o), x.t)
<1>1. n \in Nat /\ m \in Nat /\ x.t \in Tx
  BY DEF Entry
<1>2. /\ a \in Seq(Entry) /\ Len(a) = m + 1 /\ a[m + 1] = x
      /\ \A k \in 1 .. m : a[k] = b[k]
  BY AppendProperties
<1>3. /\ o \in Seq(Entry) /\ Len(o) = n + m
      /\ \A k \in 1 .. n + m : o[k] = IF k <= n THEN g[k] ELSE b[k - n]
  BY ConcatEntries
<1> HIDE DEF a, n, m
<1>4. /\ w \in Seq(Entry) /\ Len(w) = n + (m + 1)
      /\ \A k \in 1 .. n + (m + 1) : w[k] = IF k <= n THEN g[k] ELSE a[k - n]
  BY <1>2, ConcatEntries DEF n
<1> HIDE DEF o, w
<1>5. /\ Names(o) \in Seq(Tx) /\ Len(Names(o)) = n + m
      /\ \A k \in 1 .. n + m : Names(o)[k] = o[k].t
  <2>1. \A k \in 1 .. n + m : o[k] \in Entry
    BY <1>3
  <2>2. \A k \in 1 .. n + m : o[k].t \in Tx
    BY <2>1 DEF Entry
  <2>3. Names(o) = [k \in 1 .. n + m |-> o[k].t]
    BY <1>3 DEF Names
  <2>4. n + m \in Nat
    BY <1>1
  <2> QED
    BY <2>2, <2>3, <2>4
<1>6. /\ q \in Seq(Tx) /\ Len(q) = (n + m) + 1 /\ q[(n + m) + 1] = x.t
      /\ \A k \in 1 .. n + m : q[k] = o[k].t
  BY <1>1, <1>5, AppendProperties
<1> HIDE DEF q
<1>7. DOMAIN w = 1 .. (n + m) + 1 /\ DOMAIN q = 1 .. (n + m) + 1
  <2>1. n + (m + 1) = (n + m) + 1
    BY <1>1
  <2> QED
    BY <1>4, <1>6, <2>1
<1>8. ASSUME NEW k \in 1 .. (n + m) + 1
      PROVE  w[k].t = q[k]
  <2>1. k \in 1 .. n + (m + 1)
    BY <1>1
  <2>2. CASE k <= n
    <3>1. k \in 1 .. n + m
      BY <1>1, <2>2
    <3> QED
      BY <1>3, <1>4, <1>6, <2>1, <2>2, <3>1
  <2>3. CASE k = (n + m) + 1
    <3>1. ~(k <= n) /\ k - n = m + 1
      BY <1>1, <2>3
    <3> QED
      BY <1>2, <1>4, <1>6, <2>1, <2>3, <3>1
  <2>4. CASE ~(k <= n) /\ k # (n + m) + 1
    <3>1. k - n \in 1 .. m /\ k \in 1 .. n + m
      BY <1>1, <2>4
    <3> QED
      BY <1>2, <1>3, <1>4, <1>6, <2>1, <2>4, <3>1
  <2> QED
    BY <2>2, <2>3, <2>4
<1>9. Names(w) = q
  <2>1. Names(w) = [k \in 1 .. (n + m) + 1 |-> w[k].t]
    BY <1>7 DEF Names
  <2>2. q = [k \in 1 .. (n + m) + 1 |-> q[k]]
    BY <1>6, <1>7
  <2> QED
    BY <1>8, <2>1, <2>2
<1> QED
  BY <1>5, <1>9 DEF w, q, o, a

\* What follows for the entries of a command and an id.
LEMMA MovedFacts ==
  ASSUME NEW b \in Seq(Entry), NEW g \in Seq(Entry), NEW v, NEW h,
         Moved(b, g, v, h)
  PROVE  /\ v \in Seq(Entry) /\ h \in Seq(Entry)
         /\ \A l \in DOMAIN v : \E k \in DOMAIN b :
              v[l].t = b[k].t /\ (NoPriority /\ InTime(b[k]) => InTime(v[l]))
         /\ (\A k \in DOMAIN g : g[k].age > Min({MinLatency, MaxLatency}))
              => \A k \in DOMAIN h : h[k].age > Min({MinLatency, MaxLatency})
         /\ Names(h \o v) = Names(g \o b)
<1>1. CASE b # << >> /\ v = Tail(b)
  <2>1. PICK x \in Entry : /\ x.t = b[1].t
                           /\ x.age > Min({MinLatency, MaxLatency})
                           /\ h = Append(g, x)
    <3>1. DOMAIN Tail(b) # DOMAIN b
      <4>1. Len(b) \in Nat /\ DOMAIN b = 1 .. Len(b) /\ Len(b) \in 1 .. Len(b)
        BY <1>1
      <4>2. DOMAIN Tail(b) = 1 .. Len(b) - 1
        BY <1>1
      <4>3. Len(b) \notin 1 .. Len(b) - 1
        BY <4>1
      <4> QED
        BY <4>1, <4>2, <4>3
    <3> QED
      BY <1>1, <3>1 DEF Moved
  <2>2. /\ v \in Seq(Entry)
        /\ \A l \in DOMAIN v : l + 1 \in DOMAIN b /\ v[l] = b[l + 1]
    BY <1>1
  <2>3. /\ h \in Seq(Entry) /\ DOMAIN h = 1 .. Len(g) + 1 /\ h[Len(g) + 1] = x
        /\ \A k \in 1 .. Len(g) : h[k] = g[k]
        /\ Len(g) \in Nat /\ DOMAIN g = 1 .. Len(g)
    BY <2>1, AppendProperties
  <2>4. \A k \in DOMAIN h : k \in DOMAIN g \/ k = Len(g) + 1
    BY <2>3
  <2>5. Names(h \o v) = Names(g \o b)
    BY <1>1, <2>1, NamesMove
  <2> QED
    BY <2>1, <2>2, <2>3, <2>4, <2>5
<1>2. CASE h = g /\ v \in Seq(Entry) /\ DOMAIN v = DOMAIN b
           /\ \A k \in DOMAIN b :
                v[k].t = b[k].t /\ (NoPriority /\ InTime(b[k]) => InTime(v[k]))
  <2>1. Names(h \o v) = Names(g \o b)
    BY <1>2, NamesSame
  <2> QED
    BY <1>2, <2>1
<1> QED
  BY <1>1, <1>2 DEF Moved

-----------------------------------------------------------------------------
(* The steps of the reorder buffer.                                        *)

Came(c, i) == {k \in DOMAIN came : Cmd[came[k]] = c /\ Id[came[k]] = i}

LEMMA PerIdNames ==
  PerIdOrder <=> \A c \in Cmds, i \in Ids :
                   Names(gone[c][i] \o buf[c][i]) = Picked(came, Came(c, i))
BY DEF PerIdOrder, Names, Came

LEMMA InitReorder == Init => ReorderInv
<1> SUFFICES ASSUME Init
             PROVE  ReorderInv
  OBVIOUS
<1>1. /\ prio \in [qos : BOOLEAN, latency : BOOLEAN]
      /\ came = << >>
      /\ \A c \in Cmds, i \in Ids : buf[c][i] = << >> /\ gone[c][i] = << >>
      /\ buf \in [Cmds -> [Ids -> Seq(Entry)]]
      /\ gone \in [Cmds -> [Ids -> Seq(Entry)]]
  BY ReorderAssumption DEF Init, ReorderInit, ReorderAssumption
<1>2. ReorderType
  BY <1>1 DEF ReorderType
<1>3. MinKept
  BY <1>1 DEF MinKept
<1>4. PerIdOrder
  <2> SUFFICES ASSUME NEW c \in Cmds, NEW i \in Ids
               PROVE  Names(gone[c][i] \o buf[c][i]) = Picked(came, Came(c, i))
    BY PerIdNames
  <2>1. Came(c, i) = {}
    BY <1>1 DEF Came
  <2>2. Cardinality({}) = 0
    BY FS_EmptySet
  <2>3. Picked(came, {}) = << >>
    BY <2>2 DEF Picked
  <2>4. gone[c][i] \o buf[c][i] = << >>
    BY <1>1
  <2>5. Names(<< >>) = << >>
    BY DEF Names
  <2> QED
    BY <2>1, <2>3, <2>4, <2>5
<1> QED
  BY <1>2, <1>3, <1>4 DEF ReorderInv

LEMMA ReorderFrame ==
  ASSUME ReorderInv, UNCHANGED reorderVars
  PROVE  ReorderInv'
<1>1. UNCHANGED <<prio, buf, came, gone>>
  BY DEF reorderVars
<1>2. ReorderType'
  BY <1>1 DEF ReorderInv, ReorderType, NoPriority
<1>3. MinKept'
  BY <1>1 DEF ReorderInv, MinKept
<1>4. PerIdOrder'
  <2>1. \A c \in Cmds, i \in Ids :
          Names(gone[c][i] \o buf[c][i]) = Picked(came, Came(c, i))
    BY PerIdNames DEF ReorderInv
  <2>2. ASSUME NEW c \in Cmds, NEW i \in Ids
        PROVE  Names(gone'[c][i] \o buf'[c][i]) = Picked(came', Came(c, i)')
    <3>1. Came(c, i)' = Came(c, i)
      BY <1>1 DEF Came
    <3> QED
      BY <1>1, <2>1, <3>1
  <2> QED
    BY <2>2 DEF PerIdOrder, Names, Came
<1> QED
  BY <1>2, <1>3, <1>4 DEF ReorderInv

LEMMA CallReorder ==
  ASSUME ReorderInv, NEW t \in Tx, ReorderTransport(t)
  PROVE  ReorderInv'
<1> USE DEF ReorderInv
<1> DEFINE x == [t |-> t, age |-> 0, held |-> 0]
<1>1. /\ x \in Entry /\ x.t = t /\ InTime(x)
      /\ Cmd[t] \in Cmds /\ Id[t] \in Ids
  BY PayloadAssumption, ReorderAssumption
     DEF PayloadAssumption, ReorderAssumption, Entry, InTime
<1>2. /\ buf' = [buf EXCEPT ![Cmd[t]][Id[t]] = Append(@, x)]
      /\ came' = Append(came, t) /\ UNCHANGED <<prio, gone>>
  BY DEF ReorderTransport
<1> HIDE DEF x
<1>3. /\ buf \in [Cmds -> [Ids -> Seq(Entry)]] /\ came \in Seq(Tx)
      /\ gone \in [Cmds -> [Ids -> Seq(Entry)]]
  BY DEF ReorderType
<1>4. /\ buf'[Cmd[t]][Id[t]] = Append(buf[Cmd[t]][Id[t]], x)
      /\ \A c \in Cmds, i \in Ids :
           ~(c = Cmd[t] /\ i = Id[t]) => buf'[c][i] = buf[c][i]
  BY <1>1, <1>2, <1>3
<1>5. ReorderType'
  <2>1. Append(buf[Cmd[t]][Id[t]], x) \in Seq(Entry)
    BY <1>1, <1>3
  <2>2. buf' \in [Cmds -> [Ids -> Seq(Entry)]]
    BY <1>1, <1>2, <1>3, <2>1
  <2>3. came' \in Seq(Tx)
    BY <1>2, <1>3
  <2>4. ASSUME NEW c \in Cmds, NEW i \in Ids, NEW k \in DOMAIN buf'[c][i]
        PROVE  /\ Id[buf'[c][i][k].t] = i
               /\ NoPriority => InTime(buf'[c][i][k])
    <3>1. CASE c = Cmd[t] /\ i = Id[t]
      <4> DEFINE s == buf[c][i]
      <4>1. s \in Seq(Entry) /\ buf'[c][i] = Append(s, x)
        BY <1>3, <1>4, <3>1
      <4>2. /\ DOMAIN Append(s, x) = 1 .. Len(s) + 1 /\ Append(s, x)[Len(s) + 1] = x
            /\ \A l \in 1 .. Len(s) : Append(s, x)[l] = s[l]
            /\ Len(s) \in Nat /\ DOMAIN s = 1 .. Len(s)
        BY <1>1, <4>1, AppendProperties
      <4>3. k \in DOMAIN s \/ k = Len(s) + 1
        <5> HIDE DEF s
        <5> QED
          BY <4>1, <4>2
      <4>4. CASE k \in DOMAIN s
        <5>1. buf'[c][i][k] = buf[c][i][k]
          BY <4>1, <4>2, <4>4
        <5> QED
          BY <4>4, <5>1 DEF ReorderType
      <4>5. CASE k = Len(s) + 1
        <5>1. buf'[c][i][k] = x
          BY <4>1, <4>2, <4>5
        <5> QED
          BY <1>1, <3>1, <5>1
      <4> QED
        BY <4>3, <4>4, <4>5
    <3>2. CASE ~(c = Cmd[t] /\ i = Id[t])
      BY <1>4, <3>2 DEF ReorderType
    <3> QED
      BY <3>1, <3>2
  <2>5. NoPriority' <=> NoPriority
    BY <1>2 DEF NoPriority
  <2>6. prio' \in [qos : BOOLEAN, latency : BOOLEAN]
    BY <1>2 DEF ReorderType
  <2>7. gone' \in [Cmds -> [Ids -> Seq(Entry)]]
    BY <1>2, <1>3
  <2> QED
    BY <2>2, <2>3, <2>4, <2>5, <2>6, <2>7 DEF ReorderType
<1>6. MinKept'
  BY <1>2 DEF MinKept
<1>7. ASSUME NEW c \in Cmds, NEW i \in Ids
      PROVE  Names(gone[c][i] \o buf'[c][i]) = Picked(came', Came(c, i)')
  <2> DEFINE D == Came(c, i)
             n == Len(came)
  <2>1. n \in Nat /\ DOMAIN came = 1 .. n /\ D \in SUBSET (1 .. n)
    BY <1>3 DEF Came
  <2>2. /\ DOMAIN came' = 1 .. n + 1 /\ came'[n + 1] = t
        /\ \A k \in 1 .. n : came'[k] = came[k]
    BY <1>2, <1>3
  <2>3. Names(gone[c][i] \o buf[c][i]) = Picked(came, D)
    BY PerIdNames
  <2> HIDE DEF n
  <2>4. \A k \in 1 .. n + 1 : k \in 1 .. n \/ k = n + 1
    BY <2>1
  <2>5. \A k \in 1 .. n : k \in 1 .. n + 1 /\ k # n + 1
    BY <2>1
  <2>6. n + 1 \in 1 .. n + 1
    BY <2>1, SMTT(30)
  <2>7. CASE c = Cmd[t] /\ i = Id[t]
    <3>1. Came(c, i)' = D \union {n + 1}
      BY <2>1, <2>2, <2>4, <2>5, <2>6, <2>7 DEF Came
    <3>2. Picked(came', D \union {n + 1}) = Append(Picked(came, D), t)
      <4> HIDE DEF D
      <4>1. D \in SUBSET (1 .. Len(came))
        BY <2>1 DEF n
      <4>2. PICK s \in Seq(Tx) : s = came
        BY <1>3
      <4>3. PICK d \in SUBSET (1 .. Len(s)) : d = D
        BY <4>1, <4>2
      <4>4. Picked(Append(s, t), d \union {Len(s) + 1}) = Append(Picked(s, d), t)
        BY PickedAppend
      <4> QED
        BY <1>2, <4>2, <4>3, <4>4 DEF n
    <3>3. Names(gone[c][i] \o Append(buf[c][i], x))
            = Append(Names(gone[c][i] \o buf[c][i]), x.t)
      <4>1. gone[c][i] \in Seq(Entry) /\ buf[c][i] \in Seq(Entry)
        BY <1>3
      <4> QED
        BY <1>1, <4>1, NamesAppend
    <3> QED
      BY <1>1, <1>4, <2>3, <2>7, <3>1, <3>2, <3>3
  <2>8. CASE ~(c = Cmd[t] /\ i = Id[t])
    <3>1. Came(c, i)' = D
      BY <2>1, <2>2, <2>4, <2>5, <2>6, <2>8 DEF Came
    <3>2. Picked(came', D) = Picked(came, D)
      <4> HIDE DEF D
      <4>1. D \in SUBSET (1 .. Len(came))
        BY <2>1 DEF n
      <4>2. PICK s \in Seq(Tx) : s = came
        BY <1>3
      <4>3. PICK d \in SUBSET (1 .. Len(s)) : d = D
        BY <4>1, <4>2
      <4>4. Picked(Append(s, t), d) = Picked(s, d)
        BY PickedAppend, ZenonT(40)
      <4> QED
        BY <1>2, <4>2, <4>3, <4>4
    <3> QED
      BY <1>4, <2>3, <2>8, <3>1, <3>2
  <2> QED
    BY <2>7, <2>8
<1>8. PerIdOrder'
  <2>1. \A c \in Cmds, i \in Ids :
          Names(gone'[c][i] \o buf'[c][i]) = Picked(came', Came(c, i)')
    BY <1>2, <1>7
  <2> QED
    BY <2>1 DEF PerIdOrder, Names, Came
<1> QED
  BY <1>5, <1>6, <1>8

\* A command that is not looked at keeps its entries; only a priority has that.
LEMMA HeldMoved ==
  ASSUME NEW b \in [Ids -> Seq(Entry)], NEW g, NEW i \in Ids, ~NoPriority
  PROVE  Moved(b[i], g, Held(b)[i], g)
<1> DEFINE h == Held(b)[i]
<1>1. /\ Held(b) \in [Ids -> Seq(Entry)] /\ DOMAIN h = DOMAIN b[i]
      /\ \A k \in DOMAIN b[i] : k # 1 => h[k] = b[i][k]
      /\ 1 \in DOMAIN b[i] =>
           h[1] = [t |-> b[i][1].t, age |-> b[i][1].age,
                   held |-> Capped(b[i][1].held + 1)]
  BY HeldProperties
<1>2. h \in Seq(Entry)
  BY <1>1
<1> HIDE DEF h
<1>3. ASSUME NEW k \in DOMAIN b[i]
      PROVE  h[k].t = b[i][k].t
  <2>1. CASE k = 1
    <3>1. h[1].t = b[i][1].t
      BY <1>1, <2>1
    <3> QED
      BY <2>1, <3>1
  <2>2. CASE k # 1
    BY <1>1, <2>2
  <2> QED
    BY <2>1, <2>2
<1> QED
  BY <1>1, <1>2, <1>3 DEF Moved, h

LEMMA ClockReorder ==
  ASSUME ReorderInv, ReorderClock
  PROVE  ReorderInv'
<1> USE DEF ReorderInv
<1> DEFINE rd == Older(Held(buf["rd"]))
           wr == Older(Held(buf["wr"]))
<1>1. /\ prio \in [qos : BOOLEAN, latency : BOOLEAN] /\ came \in Seq(Tx)
      /\ buf \in [Cmds -> [Ids -> Seq(Entry)]]
      /\ gone \in [Cmds -> [Ids -> Seq(Entry)]]
      /\ \A c \in Cmds, i \in Ids : \A k \in DOMAIN buf[c][i] :
           /\ Id[buf[c][i][k].t] = i
           /\ NoPriority => InTime(buf[c][i][k])
  BY DEF ReorderType
<1>2. /\ "rd" \in Cmds /\ "wr" \in Cmds /\ \A c \in Cmds : c = "rd" \/ c = "wr"
      /\ buf["rd"] \in [Ids -> Seq(Entry)] /\ buf["wr"] \in [Ids -> Seq(Entry)]
      /\ gone["rd"] \in [Ids -> Seq(Entry)] /\ gone["wr"] \in [Ids -> Seq(Entry)]
  BY <1>1 DEF Cmds
<1>3. UNCHANGED <<prio, came>>
  BY DEF ReorderClock
<1> DEFINE M(c) == /\ buf'[c] = [i \in Ids |-> buf'[c][i]]
                   /\ gone'[c] = [i \in Ids |-> gone'[c][i]]
                   /\ \A i \in Ids :
                        Moved(buf[c][i], gone[c][i], buf'[c][i], gone'[c][i])
<1> DEFINE H(c, p, ok) == Handed(Older(Held(buf[c])), p, ok)
           O(c, ok) == Out(gone[c], Older(Held(buf[c])), ok)
<1>10. ASSUME NEW c \in Cmds, NEW p \in Picks(Older(Held(buf[c]))),
              NEW ok \in SUBSET p.ids
       PROVE  /\ \A i \in Ids :
                   Moved(buf[c][i], gone[c][i], H(c, p, ok)[i], O(c, ok)[i])
              /\ H(c, p, ok) = [i \in Ids |-> H(c, p, ok)[i]]
              /\ O(c, ok) = [i \in Ids |-> O(c, ok)[i]]
  <2>1. PICK b \in [Ids -> Seq(Entry)] : b = buf[c]
    BY <1>1
  <2>2. PICK g \in [Ids -> Seq(Entry)] : g = gone[c]
    BY <1>1
  <2>3. PICK a : a = Older(Held(b))
    OBVIOUS
  <2>4. /\ \A i \in Ids : \A k \in DOMAIN b[i] : Id[b[i][k].t] = i
        /\ p \in Picks(a)
    BY <1>1, <2>1, <2>3
  <2>5. ASSUME NEW i \in Ids
        PROVE  Moved(b[i], g[i], Handed(a, p, ok)[i], Out(g, a, ok)[i])
    <3>1. prio \in [qos : BOOLEAN, latency : BOOLEAN] /\ ok \in SUBSET p.ids
      BY <1>1
    <3> QED
      BY <2>3, <2>4, <3>1, ClockMoved
  <2>6. /\ Handed(a, p, ok) = [i \in Ids |-> Handed(a, p, ok)[i]]
        /\ Out(g, a, ok) = [i \in Ids |-> Out(g, a, ok)[i]]
    BY DEF Handed, MapFirst, Out
  <2> QED
    BY <2>1, <2>2, <2>3, <2>5, <2>6
<1>4. /\ M("rd") /\ M("wr")
      /\ buf' = [c \in Cmds |-> buf'[c]] /\ gone' = [c \in Cmds |-> gone'[c]]
  <2> DEFINE S(p, ok) ==
          \/ /\ p.return
             /\ buf' = [rd |-> Handed(rd, p, ok), wr |-> Held(buf["wr"])]
             /\ gone' = [gone EXCEPT !["rd"] = Out(@, rd, ok)]
          \/ /\ ~p.return
             /\ \E q \in Picks(wr) : \E okw \in SUBSET q.ids :
                  /\ buf' = [rd |-> Handed(rd, p, ok), wr |-> Handed(wr, q, okw)]
                  /\ gone' = [rd |-> Out(gone["rd"], rd, ok),
                              wr |-> Out(gone["wr"], wr, okw)]
  <2>0. PICK p \in Picks(rd) : \E ok \in SUBSET p.ids : S(p, ok)
    BY DEF ReorderClock
  <2>1. PICK ok \in SUBSET p.ids : S(p, ok)
    BY <2>0
  <2>2. /\ \A i \in Ids : Moved(buf["rd"][i], gone["rd"][i], Handed(rd, p, ok)[i],
                                Out(gone["rd"], rd, ok)[i])
        /\ Handed(rd, p, ok) = [i \in Ids |-> Handed(rd, p, ok)[i]]
        /\ Out(gone["rd"], rd, ok) = [i \in Ids |-> Out(gone["rd"], rd, ok)[i]]
    BY <1>2, <1>10
  <2>3. CASE p.return
    <3>1. /\ buf' = [rd |-> Handed(rd, p, ok), wr |-> Held(buf["wr"])]
          /\ gone' = [gone EXCEPT !["rd"] = Out(@, rd, ok)]
      BY <2>1, <2>3
    <3>2. ~NoPriority
      BY <1>1, <2>3, PicksProperties
    <3> HIDE DEF rd
    <3>3. /\ buf'["rd"] = Handed(rd, p, ok) /\ buf'["wr"] = Held(buf["wr"])
          /\ gone'["rd"] = Out(gone["rd"], rd, ok) /\ gone'["wr"] = gone["wr"]
          /\ buf' = [c \in Cmds |-> buf'[c]] /\ gone' = [c \in Cmds |-> gone'[c]]
      BY <1>1, <1>2, <3>1, ZenonT(40) DEF Cmds
    <3>4. M("rd")
      BY <2>2, <3>3
    <3>5. \A i \in Ids :
            Moved(buf["wr"][i], gone["wr"][i], Held(buf["wr"])[i], gone["wr"][i])
      BY <1>2, <3>2, HeldMoved
    <3>6. /\ Held(buf["wr"]) = [i \in Ids |-> Held(buf["wr"])[i]]
          /\ gone["wr"] = [i \in Ids |-> gone["wr"][i]]
      BY <1>2 DEF Held, MapFirst
    <3>7. M("wr")
      BY <3>3, <3>5, <3>6
    <3> QED
      BY <3>3, <3>4, <3>7
  <2>4. CASE ~p.return
    <3>0. PICK q \in Picks(wr) : \E okw \in SUBSET q.ids :
            /\ buf' = [rd |-> Handed(rd, p, ok), wr |-> Handed(wr, q, okw)]
            /\ gone' = [rd |-> Out(gone["rd"], rd, ok),
                        wr |-> Out(gone["wr"], wr, okw)]
      BY <2>1, <2>4
    <3>1. PICK okw \in SUBSET q.ids :
            /\ buf' = [rd |-> Handed(rd, p, ok), wr |-> Handed(wr, q, okw)]
            /\ gone' = [rd |-> Out(gone["rd"], rd, ok),
                        wr |-> Out(gone["wr"], wr, okw)]
      BY <3>0
    <3>2. /\ \A i \in Ids :
               Moved(buf["wr"][i], gone["wr"][i], Handed(wr, q, okw)[i],
                     Out(gone["wr"], wr, okw)[i])
          /\ Handed(wr, q, okw) = [i \in Ids |-> Handed(wr, q, okw)[i]]
          /\ Out(gone["wr"], wr, okw) = [i \in Ids |-> Out(gone["wr"], wr, okw)[i]]
      BY <1>2, <1>10
    <3> HIDE DEF rd, wr
    <3>3. /\ buf'["rd"] = Handed(rd, p, ok) /\ buf'["wr"] = Handed(wr, q, okw)
          /\ gone'["rd"] = Out(gone["rd"], rd, ok)
          /\ gone'["wr"] = Out(gone["wr"], wr, okw)
          /\ buf' = [c \in Cmds |-> buf'[c]] /\ gone' = [c \in Cmds |-> gone'[c]]
      BY <3>1 DEF Cmds
    <3>4. M("rd")
      BY <2>2, <3>3
    <3>5. M("wr")
      BY <3>2, <3>3
    <3> QED
      BY <3>3, <3>4, <3>5
  <2> QED
    BY <2>1, <2>3, <2>4
<1>5. ASSUME NEW c \in Cmds, NEW i \in Ids
      PROVE  LET b == buf[c][i]
                 g == gone[c][i]
                 v == buf'[c][i]
                 h == gone'[c][i]
             IN  /\ v \in Seq(Entry) /\ h \in Seq(Entry)
                 /\ \A l \in DOMAIN v : \E k \in DOMAIN b :
                      /\ v[l].t = b[k].t
                      /\ NoPriority /\ InTime(b[k]) => InTime(v[l])
                 /\ (\A k \in DOMAIN g : g[k].age > Min({MinLatency, MaxLatency}))
                      => \A k \in DOMAIN h :
                           h[k].age > Min({MinLatency, MaxLatency})
                 /\ Names(h \o v) = Names(g \o b)
  <2>1. Moved(buf[c][i], gone[c][i], buf'[c][i], gone'[c][i])
    BY <1>2, <1>4
  <2>2. buf[c][i] \in Seq(Entry) /\ gone[c][i] \in Seq(Entry)
    BY <1>1
  <2>3. PICK b \in Seq(Entry), g \in Seq(Entry) : b = buf[c][i] /\ g = gone[c][i]
    BY <2>2
  <2>4. PICK v, h : v = buf'[c][i] /\ h = gone'[c][i]
    OBVIOUS
  <2>5. Moved(b, g, v, h)
    BY <2>1, <2>3, <2>4
  <2>6. /\ v \in Seq(Entry) /\ h \in Seq(Entry)
        /\ \A l \in DOMAIN v : \E k \in DOMAIN b :
             v[l].t = b[k].t /\ (NoPriority /\ InTime(b[k]) => InTime(v[l]))
        /\ (\A k \in DOMAIN g : g[k].age > Min({MinLatency, MaxLatency}))
             => \A k \in DOMAIN h : h[k].age > Min({MinLatency, MaxLatency})
        /\ Names(h \o v) = Names(g \o b)
    BY <2>5, MovedFacts
  <2> QED
    BY <2>3, <2>4, <2>6
<1>6. ReorderType'
  <2>2. ASSUME NEW c \in Cmds, NEW i \in Ids, NEW l \in DOMAIN buf'[c][i]
        PROVE  Id[buf'[c][i][l].t] = i /\ (NoPriority => InTime(buf'[c][i][l]))
    <3>1. PICK k \in DOMAIN buf[c][i] :
            /\ buf'[c][i][l].t = buf[c][i][k].t
            /\ NoPriority /\ InTime(buf[c][i][k]) => InTime(buf'[c][i][l])
      BY <1>5
    <3> QED
      BY <1>1, <3>1
  <2>3. NoPriority' <=> NoPriority
    BY <1>3 DEF NoPriority
  <2>4. /\ prio' \in [qos : BOOLEAN, latency : BOOLEAN] /\ came' \in Seq(Tx)
    BY <1>1, <1>3
  <2>5. \A c \in Cmds, i \in Ids :
          buf'[c][i] \in Seq(Entry) /\ gone'[c][i] \in Seq(Entry)
    BY <1>5
  <2>6. /\ \A c \in Cmds : buf'[c] = [i \in Ids |-> buf'[c][i]]
        /\ \A c \in Cmds : gone'[c] = [i \in Ids |-> gone'[c][i]]
    BY <1>2, <1>4
  <2>7. /\ \A c \in Cmds : buf'[c] \in [Ids -> Seq(Entry)]
        /\ \A c \in Cmds : gone'[c] \in [Ids -> Seq(Entry)]
    BY <2>5, <2>6
  <2>8. /\ buf' \in [Cmds -> [Ids -> Seq(Entry)]]
        /\ gone' \in [Cmds -> [Ids -> Seq(Entry)]]
    BY <1>4, <2>7
  <2> QED
    BY <2>2, <2>3, <2>4, <2>8 DEF ReorderType
<1>7. MinKept'
  <2>1. ASSUME NEW c \in Cmds, NEW i \in Ids, NEW k \in DOMAIN gone'[c][i]
        PROVE  gone'[c][i][k].age > Min({MinLatency, MaxLatency})
    <3>1. \A l \in DOMAIN gone[c][i] :
            gone[c][i][l].age > Min({MinLatency, MaxLatency})
      BY DEF MinKept
    <3> QED
      BY <1>5, <3>1
  <2> QED
    BY <2>1 DEF MinKept
<1>8. PerIdOrder'
  <2>1. ASSUME NEW c \in Cmds, NEW i \in Ids
        PROVE  Names(gone'[c][i] \o buf'[c][i]) = Picked(came', Came(c, i)')
    <3>1. Names(gone[c][i] \o buf[c][i]) = Picked(came, Came(c, i))
      BY PerIdNames
    <3>2. Came(c, i)' = Came(c, i)
      BY <1>3 DEF Came
    <3>3. Names(gone'[c][i] \o buf'[c][i]) = Names(gone[c][i] \o buf[c][i])
      BY <1>5
    <3> QED
      BY <1>3, <3>1, <3>2, <3>3
  <2> QED
    BY <2>1 DEF PerIdOrder, Names, Came
<1> QED
  BY <1>6, <1>7, <1>8

LEMMA ReorderStep ==
  ASSUME ReorderInv, [Next]_vars
  PROVE  ReorderInv'
<1>1. CASE UNCHANGED vars
  BY <1>1, ReorderFrame DEF vars
<1>2. ASSUME NEW t \in Tx, Transport(t)
      PROVE  ReorderInv'
  <2>1. ReorderTransport(t) \/ UNCHANGED reorderVars
    BY <1>2 DEF Transport, Fifos
  <2> QED
    BY <2>1, CallReorder, ReorderFrame
<1>3. CASE Clock
  BY <1>3, ReorderFrame DEF Clock, Fifos
<1>4. ASSUME NEW c \in Cmds, \/ PickResponse(c) \/ DelayResponse(c)
                             \/ AcceptResponse(c) \/ RefuseResponse(c)
      PROVE  ReorderInv'
  <2>1. UNCHANGED reorderVars
    BY <1>4 DEF PickResponse, DelayResponse, AcceptResponse, RefuseResponse, Fifos
  <2> QED
    BY <2>1, ReorderFrame
<1>5. CASE Reorder
  BY <1>5, ClockReorder DEF Reorder
<1> QED
  BY <1>1, <1>2, <1>3, <1>4, <1>5 DEF Next

\* The reorder buffer keeps its invariant, whatever it draws and the target PE
\* accepts.
THEOREM ReorderInvariant == Spec => []ReorderInv
<1>1. Init => ReorderInv
  BY InitReorder
<1>2. ReorderInv /\ [Next]_vars => ReorderInv'
  BY ReorderStep
<1> QED
  BY <1>1, <1>2, PTL DEF Spec

\* A response leaves neither before nor after its time: the latency drawn for
\* it, or the minimum and the maximum of the reorder buffer.
THEOREM LatencyKeptHolds == Spec => []LatencyKept
<1>1. ReorderInv => OfferedInTime
  <2> SUFFICES ASSUME ReorderInv, NoPriority, NEW c \in Cmds,
                      NEW i \in NonEmpty(buf[c])
               PROVE  buf[c][i][1].held <= MaxLatency
    BY DEF OfferedInTime
  <2>1. i \in Ids /\ buf[c][i] \in Seq(Entry) /\ buf[c][i] # << >>
    BY DEF NonEmpty, ReorderInv, ReorderType
  <2>2. 1 \in DOMAIN buf[c][i]
    <3> DEFINE s == buf[c][i]
    <3>1. s \in Seq(Entry) /\ s # << >>
      BY <2>1
    <3> HIDE DEF s
    <3>2. 1 \in DOMAIN s
      BY <3>1
    <3> QED
      BY <3>2 DEF s
  <2> QED
    BY <2>1, <2>2 DEF ReorderInv, ReorderType, InTime
<1>2. FifoIInv => LatencyExact
  BY DEF FifoIInv, FifoInv
<1>3. ReorderInv => MinKept
  BY DEF ReorderInv
<1>4. FifoIInv /\ ReorderInv => LatencyKept
  BY <1>1, <1>2, <1>3 DEF LatencyKept
<1> QED
  BY <1>4, FifoInvariant, ReorderInvariant, PTL

\* A response leaves in the order of its command (rate limiting, by latency)
\* or of its id (reordering).
THEOREM OrderKeptHolds == Spec => []OrderKept
<1>1. FifoIInv => OvertakesByLatency
  BY DEF FifoIInv, FifoInv, RespOrder, OvertakesByLatency
<1>2. FifoIInv /\ ReorderInv => OrderKept
  BY <1>1 DEF OrderKept, ReorderInv
<1> QED
  BY <1>2, FifoInvariant, ReorderInvariant, PTL
=============================================================================
