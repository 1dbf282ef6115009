----------------------- MODULE RollingSummary_proofs -----------------------
(***************************************************************************)
(* Proofs about RollingSummary. What a merge keeps is computed by loops    *)
(* over lines, recursive functions here; the first part shows how to reason*)
(* about those by the least number a set of numbers has.                   *)
(***************************************************************************)
EXTENDS RollingSummary, FiniteSets, FiniteSetTheorems, SequenceTheorems, TLAPS

-----------------------------------------------------------------------------
(* Counting up.                                                            *)

LEMMA LeastNat ==
  ASSUME NEW S, S \subseteq Nat, S # {}
  PROVE  \E n \in S : \A m \in S : n <= m
<1> DEFINE T == {0 .. (n - 1) : n \in S}
<1>1. T \subseteq FiniteSubsetsOf(Nat)
  <2>1. ASSUME NEW n \in S PROVE 0 .. (n - 1) \in FiniteSubsetsOf(Nat)
    <3>1. IsFiniteSet(0 .. (n - 1))
      <4>1. 0 \in Int /\ n - 1 \in Int
        OBVIOUS
      <4> QED BY <4>1, FS_Interval
    <3>2. 0 .. (n - 1) \subseteq Nat
      OBVIOUS
    <3> QED BY <3>1, <3>2 DEF FiniteSubsetsOf
  <2> QED BY <2>1
<1>2. T # {}
  OBVIOUS
<1>3. PICK x \in T : \A y \in T : ~ (<<y, x>> \in StrictSubsetOrdering(Nat))
  BY <1>1, <1>2, FS_StrictSubsetOrderingWellFounded, WFMin
<1>4. PICK n \in S : x = 0 .. (n - 1)
  OBVIOUS
<1>5. ASSUME NEW m \in S PROVE n <= m
  <2> SUFFICES ASSUME m < n PROVE FALSE
    OBVIOUS
  <2>1. /\ (0 .. (m - 1)) \in T /\ (0 .. (m - 1)) \subseteq x
        /\ m \in x /\ m \notin 0 .. (m - 1)
    BY <1>4
  <2>2. <<0 .. (m - 1), x>> \in StrictSubsetOrdering(Nat)
    BY <2>1, <1>4 DEF StrictSubsetOrdering
  <2> QED BY <2>1, <2>2, <1>3
<1>6. n \in S /\ \A m \in S : n <= m
  BY <1>4, <1>5
<1> QED BY <1>6

\* A set with a number and the successor of each of its numbers below n has all
\* from there to n.
LEMMA UpTo ==
  ASSUME NEW lo \in Nat, NEW n \in Nat, NEW S,
         lo \in S,
         \A i \in Nat : lo <= i /\ i < n /\ i \in S => i + 1 \in S
  PROVE  lo .. n \subseteq S
<1> DEFINE Out == (lo .. n) \ S
<1> SUFFICES ASSUME Out # {} PROVE FALSE
  OBVIOUS
<1>1. PICK k \in Out : \A m \in Out : k <= m
  <2>1. Out \subseteq Nat
    OBVIOUS
  <2> HIDE DEF Out
  <2> QED BY <2>1, LeastNat
<1>2. k # lo /\ k \in Nat /\ lo <= k /\ k <= n
  OBVIOUS
<1>3. k - 1 \in Nat /\ lo <= k - 1 /\ k - 1 < n /\ (k - 1) + 1 = k /\ k - 1 \notin Out
  BY <1>2, <1>1
<1>4. k - 1 \in S
  BY <1>3
<1>5. k \in S
  BY <1>3, <1>4
<1> QED BY <1>5

\* A loop from lo to n that starts with b: what g says of the state after each
\* round, and that no round leaves S.
Loops(g, lo, n, b, step) ==
    \A i \in lo .. n : g[i] = IF i = lo THEN b ELSE step[i][g[i - 1]]
Closed(step, lo, n, S) ==
    \A i \in lo .. n : \A s \in S : step[i][s] \in S

\* There is a function that gives the state after each round.
LEMMA Rounds ==
  ASSUME NEW lo \in Nat, NEW n \in Nat, NEW S, NEW b \in S,
         NEW step, Closed(step, lo, n, S)
  PROVE  \E g \in [lo .. n -> S] : Loops(g, lo, n, b, step)
<1> USE DEF Loops, Closed
<1> DEFINE Loop(g, k) == \A i \in lo .. k : g[i] = IF i = lo THEN b ELSE step[i][g[i - 1]]
           Has == {k \in Nat : k <= n => \E g \in [lo .. k -> S] : Loop(g, k)}
<1>1. CASE n < lo
  <2>1. lo .. n = {}
    BY <1>1
  <2> WITNESS [i \in lo .. n |-> b] \in [lo .. n -> S]
  <2> QED BY <2>1
<1>2. CASE lo <= n
  <2>1. lo \in Has
    <3> DEFINE g == [i \in lo .. lo |-> b]
    <3>1. g \in [lo .. lo -> S] /\ Loop(g, lo)
      OBVIOUS
    <3> QED BY <3>1
  <2>2. ASSUME NEW k \in Nat, lo <= k, k < n, k \in Has PROVE k + 1 \in Has
    <3>1. PICK g \in [lo .. k -> S] : Loop(g, k)
      BY <2>2
    <3> DEFINE h == [i \in lo .. k + 1 |-> IF i = k + 1 THEN step[k + 1][g[k]] ELSE g[i]]
    <3>2. k + 1 \in lo .. n /\ g[k] \in S /\ step[k + 1][g[k]] \in S
      BY <2>2, <3>1
    <3>3. h \in [lo .. k + 1 -> S]
      BY <3>2
    <3>4. ASSUME NEW i \in lo .. k + 1
          PROVE  h[i] = IF i = lo THEN b ELSE step[i][h[i - 1]]
      <4>1. CASE i = k + 1
        BY <4>1, <2>2
      <4>2. CASE i # k + 1
        <5>1. i \in lo .. k /\ h[i] = g[i]
          BY <4>2
        <5>2. i # lo => i - 1 \in lo .. k /\ h[i - 1] = g[i - 1]
          BY <5>1
        <5> QED BY <5>1, <5>2, <3>1
      <4> QED BY <4>1, <4>2
    <3>5. Loop(h, k + 1)
      BY <3>4
    <3>6. \E f \in [lo .. k + 1 -> S] : Loop(f, k + 1)
      BY <3>3, <3>5
    <3> HIDE DEF Loop
    <3> QED BY <3>6
  <2>3. n \in Has
    <3> HIDE DEF Has
    <3>1. lo .. n \subseteq Has
      BY <2>1, <2>2, UpTo
    <3>2. n \in lo .. n
      BY <1>2
    <3> QED BY <3>1, <3>2
  <2> QED BY <2>3
<1> QED BY <1>1, <1>2
-----------------------------------------------------------------------------
(* What each loop of a merge computes, round by round.                     *)

LEMMA ChosenRounds ==
  ASSUME NEW T, NEW all \in Seq(T), NEW places
  PROVE  \E kept \in [0 .. Len(all) -> Seq(T)] :
            /\ Chosen(all, places) = kept[Len(all)]
            /\ kept[0] = <<>>
            /\ \A i \in 1 .. Len(all) :
                  kept[i] = IF i \in places THEN Append(kept[i - 1], all[i])
                                            ELSE kept[i - 1]
<1> DEFINE n == Len(all)
           Loop(g) == g = [i \in 0 .. n |->
                             IF i = 0 THEN <<>>
                             ELSE IF i \in places THEN Append(g[i - 1], all[i]) ELSE g[i - 1]]
           step == [i \in 0 .. n |-> [s \in Seq(T) |->
                      IF i \in places /\ i # 0 THEN Append(s, all[i]) ELSE s]]
<1>1. n \in Nat /\ <<>> \in Seq(T)
  OBVIOUS
<1>2. Closed(step, 0, n, Seq(T))
  BY DEF Closed
<1>3. PICK g \in [0 .. n -> Seq(T)] : Loops(g, 0, n, <<>>, step)
  <2> HIDE DEF step, n, Loop
  <2> QED BY <1>1, <1>2, Rounds
<1>4. Loop(g)
  <2> HIDE DEF n
  <2>1. ASSUME NEW i \in 0 .. n, i # 0
        PROVE  step[i][g[i - 1]] = IF i \in places THEN Append(g[i - 1], all[i]) ELSE g[i - 1]
    <3>1. i - 1 \in 0 .. n
      BY <2>1, <1>1
    <3>2. g[i - 1] \in Seq(T)
      BY <3>1
    <3> QED BY <3>2, <2>1
  <2> HIDE DEF step
  <2> QED BY <2>1, <1>3 DEF Loops
<1> DEFINE kept == CHOOSE f : Loop(f)
<1>5. Loop(kept)
  <2> HIDE DEF Loop
  <2> QED BY <1>4
<1>6. Chosen(all, places) = kept[n]
  BY DEF Chosen
<1> HIDE DEF kept
<1> HIDE DEF n, step
<1>7. kept[0] = <<>>
  BY <1>5, <1>1
<1>8. ASSUME NEW i \in 1 .. n
      PROVE  kept[i] = IF i \in places THEN Append(kept[i - 1], all[i]) ELSE kept[i - 1]
  <2>1. i \in 0 .. n /\ i # 0
    BY <1>1
  <2> QED BY <1>5, <2>1
<1>9. kept \in [0 .. n -> Seq(T)]
  <2> DEFINE Fine == {i \in Nat : i <= n => kept[i] \in Seq(T)}
  <2>1. 0 \in Fine
    BY <1>7, <1>1
  <2>2. ASSUME NEW i \in Nat, 0 <= i, i < n, i \in Fine PROVE i + 1 \in Fine
    <3>1. i + 1 \in 1 .. n /\ (i + 1) - 1 = i /\ kept[i] \in Seq(T) /\ all[i + 1] \in T
      BY <2>2, <1>1 DEF n
    <3>2. kept[i + 1] \in {kept[i], Append(kept[i], all[i + 1])}
      BY <3>1, <1>8
    <3>3. \A s \in Seq(T), t \in T : Append(s, t) \in Seq(T)
      OBVIOUS
    <3>4. kept[i + 1] \in Seq(T)
      BY <3>1, <3>2, <3>3, Zenon
    <3> QED BY <3>4
  <2>3. 0 .. n \subseteq Fine
    <3> HIDE DEF Fine
    <3> QED BY <2>1, <2>2, <1>1, UpTo
  <2>4. \A i \in 0 .. n : kept[i] \in Seq(T)
    BY <2>3
  <2> QED BY <2>4, <1>5
<1> QED BY <1>6, <1>7, <1>8, <1>9 DEF n

LEMMA TotalRounds ==
  ASSUME NEW widths \in Seq(Nat)
  PROVE  \E upto \in [0 .. Len(widths) -> Nat] :
            /\ Total(widths) = upto[Len(widths)]
            /\ upto[0] = 0
            /\ \A i \in 1 .. Len(widths) : upto[i] = upto[i - 1] + widths[i]
<1> DEFINE n == Len(widths)
           Loop(g) == g = [i \in 0 .. n |-> IF i = 0 THEN 0 ELSE g[i - 1] + widths[i]]
           step == [i \in 0 .. n |-> [s \in Nat |-> IF i = 0 THEN s ELSE s + widths[i]]]
<1>1. n \in Nat /\ 0 \in Nat
  OBVIOUS
<1>2. Closed(step, 0, n, Nat)
  BY DEF Closed
<1>3. PICK g \in [0 .. n -> Nat] : Loops(g, 0, n, 0, step)
  <2> HIDE DEF step, n, Loop
  <2> QED BY <1>1, <1>2, Rounds
<1>4. Loop(g)
  <2> HIDE DEF n
  <2>1. ASSUME NEW i \in 0 .. n, i # 0
        PROVE  step[i][g[i - 1]] = g[i - 1] + widths[i]
    <3>1. i - 1 \in 0 .. n
      BY <2>1, <1>1
    <3>2. g[i - 1] \in Nat
      BY <3>1
    <3> QED BY <3>2, <2>1
  <2> HIDE DEF step
  <2> QED BY <2>1, <1>3 DEF Loops
<1> DEFINE upto == CHOOSE f : Loop(f)
<1>5. Loop(upto)
  <2> HIDE DEF Loop
  <2> QED BY <1>4
<1>6. Total(widths) = upto[n]
  BY DEF Total
<1> HIDE DEF upto
<1> HIDE DEF n, step
<1>7. upto[0] = 0
  BY <1>5, <1>1
<1>8. ASSUME NEW i \in 1 .. n PROVE upto[i] = upto[i - 1] + widths[i]
  BY <1>5, <1>1
<1>9. upto \in [0 .. n -> Nat]
  <2> DEFINE Fine == {i \in Nat : i <= n => upto[i] \in Nat}
  <2>1. 0 \in Fine
    BY <1>7
  <2>2. ASSUME NEW i \in Nat, 0 <= i, i < n, i \in Fine PROVE i + 1 \in Fine
    <3>1. i + 1 \in 1 .. n /\ (i + 1) - 1 = i /\ upto[i] \in Nat /\ widths[i + 1] \in Nat
      BY <2>2, <1>1 DEF n
    <3> QED BY <3>1, <1>8
  <2>3. 0 .. n \subseteq Fine
    <3> HIDE DEF Fine
    <3> QED BY <2>1, <2>2, <1>1, UpTo
  <2>4. \A i \in 0 .. n : upto[i] \in Nat
    BY <2>3
  <2> QED BY <2>4, <1>5
<1> QED BY <1>6, <1>7, <1>8, <1>9 DEF n
-----------------------------------------------------------------------------
(* What a choice of lines keeps.                                           *)

LEMMA ChosenEnds ==
  ASSUME NEW T, NEW all \in Seq(T), all # <<>>, NEW places
  PROVE  LET text == Chosen(all, places) IN
            /\ text \in Seq(T)
            /\ 1 \in places => text # <<>> /\ text[1] = all[1]
            /\ Len(all) \in places => text # <<>> /\ Last(text) = all[Len(all)]
<1> DEFINE n == Len(all)
<1>1. PICK kept \in [0 .. n -> Seq(T)] :
         /\ Chosen(all, places) = kept[n]
         /\ kept[0] = <<>>
         /\ \A i \in 1 .. n : kept[i] = IF i \in places THEN Append(kept[i - 1], all[i])
                                                        ELSE kept[i - 1]
  BY ChosenRounds
<1>2. n \in Nat /\ 1 <= n /\ all[1] \in T /\ all[n] \in T
  OBVIOUS
<1> HIDE DEF n
<1>3. ASSUME 1 \in places PROVE kept[n] # <<>> /\ kept[n][1] = all[1]
  <2> DEFINE Fine == {i \in Nat : i <= n => Len(kept[i]) >= 1 /\ kept[i][1] = all[1]}
  <2>1. 1 \in Fine
    <3> 1 \in 1 .. n /\ 1 - 1 = 0
      BY <1>2
    <3>1. kept[1] = Append(kept[0], all[1])
      BY <1>1, <1>3
    <3> QED BY <3>1, <1>1, <1>2
  <2>2. ASSUME NEW i \in Nat, 1 <= i, i < n, i \in Fine PROVE i + 1 \in Fine
    <3>1. i + 1 \in 1 .. n /\ (i + 1) - 1 = i /\ i \in 0 .. n
      BY <2>2, <1>2
    <3>2. all[i + 1] \in T
      BY <3>1 DEF n
    <3>3. kept[i] \in Seq(T) /\ Len(kept[i]) >= 1 /\ kept[i][1] = all[1]
      BY <2>2, <3>1
    <3>4. Len(Append(kept[i], all[i + 1])) >= 1 /\ Append(kept[i], all[i + 1])[1] = kept[i][1]
      BY <3>2, <3>3
    <3>5. kept[i + 1] \in {kept[i], Append(kept[i], all[i + 1])}
      BY <3>1, <1>1
    <3> QED BY <3>3, <3>4, <3>5
  <2>3. 1 .. n \subseteq Fine
    <3> HIDE DEF Fine
    <3> QED BY <2>1, <2>2, <1>2, UpTo
  <2>4. n \in Fine
    BY <2>3, <1>2
  <2> QED BY <2>4, <1>1
<1>4. ASSUME n \in places PROVE kept[n] # <<>> /\ Last(kept[n]) = all[n]
  <2>1. n \in 1 .. n /\ n - 1 \in 0 .. n
    BY <1>2
  <2>2. kept[n] = Append(kept[n - 1], all[n]) /\ kept[n - 1] \in Seq(T)
    BY <1>1, <1>4, <2>1
  <2> QED BY <2>2, <1>2 DEF Last
<1>5. kept[n] \in Seq(T)
  BY <1>1, <1>2
<1> QED BY <1>1, <1>3, <1>4, <1>5 DEF n

LEMMA ChosenIsNoLonger ==
  ASSUME NEW T, NEW all \in Seq(T), NEW places, IsFiniteSet(places)
  PROVE  Len(Chosen(all, places)) <= Cardinality(places)
<1> DEFINE n == Len(all)
           Taken(i) == places \cap (1 .. i)
<1>1. PICK kept \in [0 .. n -> Seq(T)] :
         /\ Chosen(all, places) = kept[n]
         /\ kept[0] = <<>>
         /\ \A i \in 1 .. n : kept[i] = IF i \in places THEN Append(kept[i - 1], all[i])
                                                        ELSE kept[i - 1]
  BY ChosenRounds
<1>2. n \in Nat
  OBVIOUS
<1>3. ASSUME NEW i \in Nat
      PROVE  /\ IsFiniteSet(Taken(i)) /\ Cardinality(Taken(i)) \in Nat
             /\ Cardinality(Taken(i)) <= Cardinality(places)
             /\ Cardinality(places) \in Nat
  <2>1. Taken(i) \subseteq places
    OBVIOUS
  <2> HIDE DEF Taken
  <2> QED BY <2>1, FS_Subset, FS_CardinalityType
<1>4. ASSUME NEW i \in Nat
      PROVE  Cardinality(Taken(i + 1)) = IF i + 1 \in places THEN Cardinality(Taken(i)) + 1
                                                             ELSE Cardinality(Taken(i))
  <2>1. CASE i + 1 \in places
    <3>1. Taken(i + 1) = Taken(i) \cup {i + 1} /\ i + 1 \notin Taken(i)
      BY <2>1
    <3> HIDE DEF Taken
    <3>2. Cardinality(Taken(i) \cup {i + 1}) = Cardinality(Taken(i)) + 1
      BY <3>1, <1>3, FS_AddElement
    <3> QED BY <3>1, <3>2, <2>1
  <2>2. CASE i + 1 \notin places
    <3>1. Taken(i + 1) = Taken(i)
      BY <2>2
    <3> QED BY <3>1, <2>2
  <2> QED BY <2>1, <2>2
<1> DEFINE Fine == {i \in Nat : i <= n => Len(kept[i]) <= Cardinality(Taken(i))}
<1> HIDE DEF n
<1>5. 0 \in Fine
  <2>1. Cardinality(Taken(0)) \in Nat /\ Len(kept[0]) = 0
    <3> HIDE DEF Taken
    <3> QED BY <1>3, <1>1
  <2> HIDE DEF Taken
  <2> QED BY <2>1
<1> HIDE DEF Taken
<1>6. ASSUME NEW i \in Nat, 0 <= i, i < n, i \in Fine PROVE i + 1 \in Fine
  <2>1. i + 1 \in 1 .. n /\ (i + 1) - 1 = i /\ i \in 0 .. n
    BY <1>6, <1>2
  <2>2. all[i + 1] \in T /\ kept[i] \in Seq(T)
    BY <2>1 DEF n
  <2>3. Len(Append(kept[i], all[i + 1])) = Len(kept[i]) + 1 /\ Len(kept[i]) \in Nat
    BY <2>2
  <2>4. Len(kept[i + 1]) = IF i + 1 \in places THEN Len(kept[i]) + 1 ELSE Len(kept[i])
    BY <2>1, <2>3, <1>1
  <2>5. Len(kept[i]) <= Cardinality(Taken(i))
    BY <1>6, <1>2
  <2>6. Cardinality(Taken(i)) \in Nat
    BY <1>3
  <2>7. CASE i + 1 \in places
    <3>1. Cardinality(Taken(i + 1)) = Cardinality(Taken(i)) + 1
      BY <2>7, <1>4
    <3>2. Len(kept[i + 1]) = Len(kept[i]) + 1
      BY <2>7, <2>4
    <3> QED BY <3>1, <3>2, <2>3, <2>5, <2>6
  <2>8. CASE i + 1 \notin places
    <3>1. Cardinality(Taken(i + 1)) = Cardinality(Taken(i))
      BY <2>8, <1>4
    <3>2. Len(kept[i + 1]) = Len(kept[i])
      BY <2>8, <2>4
    <3> QED BY <3>1, <3>2, <2>5
  <2> QED BY <2>7, <2>8
<1>7. 0 .. n \subseteq Fine
  <2> HIDE DEF Fine
  <2> QED BY <1>5, <1>6, <1>2, UpTo
<1>8. Len(kept[n]) <= Cardinality(Taken(n))
  BY <1>7, <1>2
<1>9. n \in 0 .. n /\ Len(kept[n]) \in Nat
  BY <1>2
<1> QED BY <1>8, <1>9, <1>1, <1>2, <1>3
\* No line after one that comes later in the session, and none twice.
LinesInOrder(text) ==
    \A i, j \in DOMAIN text : i < j => Before(text[i], text[j])

\* The lines of a choice are lines of what was chosen from, in their order.
LEMMA ChosenInOrder ==
  ASSUME NEW T, NEW all \in Seq(T), NEW places, LinesInOrder(all)
  PROVE  LinesInOrder(Chosen(all, places))
<1> DEFINE n == Len(all)
           From(text, i) == \A k \in DOMAIN text : \E j \in 1 .. i : text[k] = all[j]
           Good(text, i) == From(text, i) /\ LinesInOrder(text)
<1>1. PICK kept \in [0 .. n -> Seq(T)] :
         /\ Chosen(all, places) = kept[n]
         /\ kept[0] = <<>>
         /\ \A i \in 1 .. n : kept[i] = IF i \in places THEN Append(kept[i - 1], all[i])
                                                        ELSE kept[i - 1]
  BY ChosenRounds
<1>2. n \in Nat /\ DOMAIN all = 1 .. n
  OBVIOUS
<1> HIDE DEF n
<1>3. ASSUME NEW i \in Nat, i < n, NEW text \in Seq(T), Good(text, i)
      PROVE  Good(text, i + 1)
  BY <1>3
<1>4. ASSUME NEW i \in Nat, i < n, NEW text \in Seq(T), Good(text, i)
      PROVE  Good(Append(text, all[i + 1]), i + 1)
  <2> DEFINE more == Append(text, all[i + 1])
             m    == Len(text)
  <2>1. i + 1 \in 1 .. n /\ all[i + 1] \in T
    BY <1>4, <1>2 DEF n
  <2>2. /\ m \in Nat /\ DOMAIN text = 1 .. m /\ DOMAIN more = 1 .. m + 1
        /\ \A k \in 1 .. m : more[k] = text[k]
        /\ more[m + 1] = all[i + 1]
    BY <2>1
  <2> HIDE DEF more, m
  <2>3. From(more, i + 1)
    <3>1. ASSUME NEW k \in 1 .. m + 1 PROVE \E j \in 1 .. i + 1 : more[k] = all[j]
      <4>1. CASE k = m + 1
        BY <4>1, <2>2
      <4>2. CASE k # m + 1
        <5>1. k \in 1 .. m
          BY <4>2, <2>2
        <5>2. PICK j \in 1 .. i : text[k] = all[j]
          BY <5>1, <2>2, <1>4
        <5> QED BY <5>1, <5>2, <2>2
      <4> QED BY <4>1, <4>2
    <3> QED BY <3>1, <2>2
  <2>4. ASSUME NEW k \in 1 .. m + 1, NEW l \in 1 .. m + 1, k < l
        PROVE  Before(more[k], more[l])
    <3>1. CASE l = m + 1
      <4>1. k \in 1 .. m
        BY <2>4, <3>1, <2>2
      <4>2. PICK j \in 1 .. i : text[k] = all[j]
        BY <4>1, <2>2, <1>4
      <4>3. j \in 1 .. n /\ i + 1 \in 1 .. n /\ j < i + 1
        BY <2>1, <1>2
      <4>4. Before(all[j], all[i + 1])
        BY <4>3, <1>2 DEF LinesInOrder
      <4> QED BY <4>1, <4>2, <4>4, <3>1, <2>2
    <3>2. CASE l # m + 1
      <4>1. k \in 1 .. m /\ l \in 1 .. m
        BY <2>4, <3>2, <2>2
      <4>2. Before(text[k], text[l])
        BY <4>1, <2>2, <2>4, <1>4 DEF LinesInOrder
      <4> QED BY <4>1, <4>2, <2>2
    <3> QED BY <3>1, <3>2
  <2>5. LinesInOrder(more)
    BY <2>4, <2>2 DEF LinesInOrder
  <2> QED BY <2>3, <2>5 DEF more
<1> DEFINE Fine == {i \in Nat : i <= n => Good(kept[i], i)}
<1>5. 0 \in Fine
  <2>1. Good(<<>>, 0)
    BY DEF LinesInOrder
  <2> HIDE DEF Good
  <2> QED BY <2>1, <1>1, <1>2
<1> HIDE DEF Good
<1>6. ASSUME NEW i \in Nat, 0 <= i, i < n, i \in Fine PROVE i + 1 \in Fine
  <2>1. i + 1 \in 1 .. n /\ (i + 1) - 1 = i /\ i \in 0 .. n
    BY <1>6, <1>2
  <2>2. kept[i] \in Seq(T) /\ Good(kept[i], i)
    BY <2>1, <1>6, <1>2
  <2>3. Good(kept[i], i + 1) /\ Good(Append(kept[i], all[i + 1]), i + 1)
    BY <2>2, <1>3, <1>4, <1>6
  <2>4. kept[i + 1] \in {kept[i], Append(kept[i], all[i + 1])}
    BY <2>1, <1>1
  <2>5. Good(kept[i + 1], i + 1)
    BY <2>3, <2>4
  <2> QED BY <2>5
<1>7. 0 .. n \subseteq Fine
  <2> HIDE DEF Fine
  <2> QED BY <1>5, <1>6, <1>2, UpTo
<1>8. Good(kept[n], n)
  BY <1>7, <1>2
<1> QED BY <1>8, <1>1 DEF Good
-----------------------------------------------------------------------------
(* What a merge keeps.                                                     *)

LEMMA OptionalPlaces ==
  ASSUME NEW T, NEW old \in Seq(T), NEW new \in Seq(T)
  PROVE  Optional(old, new) \in Seq(Nat)
<1> DEFINE a == Len(old)
           b == Len(new)
           k == IF new = <<>> THEN 0 ELSE b - 1
           l == IF a < 2 THEN 0 ELSE a - 2
<1>1. a \in Nat /\ b \in Nat /\ (new # <<>> => b >= 1)
  OBVIOUS
<1> HIDE DEF a, b
<1>2. k \in Nat /\ k <= b /\ l \in Nat /\ l <= a
  BY <1>1
<1> HIDE DEF k, l
<1>3. [i \in 1 .. k |-> a + b - i] \in Seq(Nat)
  <2>1. \A i \in 1 .. k : a + b - i \in Nat
    BY <1>1, <1>2
  <2> QED BY <2>1, <1>2, IsASeq
<1>4. [i \in 1 .. l |-> a - i] \in Seq(Nat)
  <2>1. \A i \in 1 .. l : a - i \in Nat
    BY <1>1, <1>2
  <2> QED BY <2>1, <1>2, IsASeq
<1>5. [i \in 1 .. k |-> a + b - i] \o [i \in 1 .. l |-> a - i] \in Seq(Nat)
  BY <1>3, <1>4, ConcatProperties
<1> QED BY <1>5 DEF Optional, a, b, k, l

\* A merge is a choice that has the mandatory lines, and fits if these alone do.
LEMMA MergeIsAChoice ==
  ASSUME NEW T, NEW old \in Seq(T), NEW new \in Seq(T)
  PROVE  \E places :
            /\ Merge(old, new) = Chosen(old \o new, places)
            /\ Mandatory(old, new) \subseteq places
            /\ Chars(Chosen(old \o new, Mandatory(old, new))) > Limit
               \/ ~ (Chars(Chosen(old \o new, places)) > Limit)
<1> DEFINE all   == old \o new
           tries == Optional(old, new)
           n     == Len(tries)
           must  == Mandatory(old, new)
           Fits(p) == \/ Chars(Chosen(all, must)) > Limit
                      \/ ~ (Chars(Chosen(all, p)) > Limit)
           S     == {p \in SUBSET (must \cup Nat) : must \subseteq p /\ Fits(p)}
           step  == [i \in 0 .. n |-> [p \in S |-> IF i = 0 THEN p
                                                    ELSE TryLine(all, p, tries[i])]]
           Loop(g) == g = [i \in 0 .. n |-> IF i = 0 THEN must
                                            ELSE TryLine(all, g[i - 1], tries[i])]
           Wanted(p) == Merge(old, new) = Chosen(all, p) /\ must \subseteq p /\ Fits(p)
<1>1. tries \in Seq(Nat)
  BY OptionalPlaces
<1>2. n \in Nat /\ \A i \in 1 .. n : tries[i] \in Nat
  <2> HIDE DEF tries
  <2> QED BY <1>1
<1> HIDE DEF all, must
<1>3. must \in S
  OBVIOUS
<1>4. ASSUME NEW i \in 1 .. n, NEW p \in S PROVE TryLine(all, p, tries[i]) \in S
  <2> DEFINE q == p \cup {tries[i]}
  <2>1. q \in SUBSET (must \cup Nat) /\ must \subseteq q
    BY <1>2
  <2>2. CASE Chars(Chosen(all, q)) > Limit
    <3>1. TryLine(all, p, tries[i]) = p
      BY <2>2 DEF TryLine
    <3> QED BY <3>1
  <2>3. CASE ~ (Chars(Chosen(all, q)) > Limit)
    <3>1. TryLine(all, p, tries[i]) = q
      BY <2>3 DEF TryLine
    <3>2. q \in S
      <4> HIDE DEF q
      <4> QED BY <2>1, <2>3
    <3> QED BY <3>1, <3>2
  <2> QED BY <2>2, <2>3
<1> HIDE DEF Fits
<1>5. Closed(step, 0, n, S)
  <2> SUFFICES ASSUME NEW i \in 0 .. n, NEW p \in S PROVE step[i][p] \in S
    BY DEF Closed
  <2>1. CASE i = 0
    <3> HIDE DEF S
    <3> QED BY <2>1
  <2>2. CASE i # 0
    <3>1. i \in 1 .. n
      BY <2>2, <1>2
    <3>2. step[i][p] = TryLine(all, p, tries[i])
      <4> HIDE DEF S
      <4> QED BY <2>2
    <3> QED BY <3>1, <3>2, <1>4
  <2> QED BY <2>1, <2>2
<1> HIDE DEF S, n
<1>6. PICK g \in [0 .. n -> S] : Loops(g, 0, n, must, step)
  <2> HIDE DEF step, Loop
  <2> QED BY <1>2, <1>3, <1>5, Rounds
<1>7. Loop(g)
  <2>1. ASSUME NEW i \in 0 .. n, i # 0
        PROVE  step[i][g[i - 1]] = TryLine(all, g[i - 1], tries[i])
    <3>1. i - 1 \in 0 .. n
      BY <2>1, <1>2
    <3>2. g[i - 1] \in S
      BY <3>1
    <3> QED BY <3>2, <2>1
  <2> HIDE DEF step
  <2> QED BY <2>1, <1>6 DEF Loops
<1> DEFINE places == CHOOSE f : Loop(f)
<1>8. Loop(places)
  <2> HIDE DEF Loop
  <2> QED BY <1>7
<1>9. Merge(old, new) = Chosen(all, places[n])
  BY DEF Merge, all, must, n
<1> HIDE DEF places
<1>10. places[n] \in S
  <2> DEFINE Fine == {i \in Nat : i <= n => places[i] \in S}
  <2>1. 0 \in Fine
    BY <1>8, <1>3, <1>2
  <2>2. ASSUME NEW i \in Nat, 0 <= i, i < n, i \in Fine PROVE i + 1 \in Fine
    <3>1. i + 1 \in 1 .. n /\ i + 1 \in 0 .. n /\ i + 1 # 0 /\ (i + 1) - 1 = i
      BY <2>2, <1>2
    <3>2. places[i] \in S
      BY <2>2, <1>2
    <3>3. places[i + 1] = TryLine(all, places[i], tries[i + 1])
      BY <3>1, <1>8
    <3>4. places[i + 1] \in S
      BY <3>1, <3>2, <3>3, <1>4
    <3> QED BY <3>4
  <2>3. 0 .. n \subseteq Fine
    <3> HIDE DEF Fine
    <3> QED BY <2>1, <2>2, <1>2, UpTo
  <2> QED BY <2>3, <1>2
<1>11. Wanted(places[n])
  BY <1>9, <1>10 DEF S
<1> QED BY <1>11 DEF Fits, all, must
\* Three lines and the breaks between them have room, whatever their widths.
LEMMA TotalOfThree ==
  ASSUME NEW w \in Nat, NEW widths \in Seq(0 .. w), Len(widths) <= 3
  PROVE  Total(widths) <= 3 * w
<1>1. widths \in Seq(Nat)
  OBVIOUS
<1>2. PICK upto \in [0 .. Len(widths) -> Nat] :
            /\ Total(widths) = upto[Len(widths)]
            /\ upto[0] = 0
            /\ \A i \in 1 .. Len(widths) : upto[i] = upto[i - 1] + widths[i]
  BY <1>1, TotalRounds
<1>3. ASSUME NEW i \in 1 .. Len(widths)
      PROVE  upto[i] \in Nat /\ upto[i - 1] \in Nat /\ upto[i] <= upto[i - 1] + w
  <2>1. widths[i] \in 0 .. w /\ i - 1 \in 0 .. Len(widths) /\ i \in 0 .. Len(widths)
    OBVIOUS
  <2>2. upto[i] \in Nat /\ upto[i - 1] \in Nat
    BY <2>1
  <2> QED BY <2>1, <2>2, <1>2
<1>4. Len(widths) \in 0 .. 3
  OBVIOUS
<1>5. CASE Len(widths) = 0
  BY <1>5, <1>2
<1>6. CASE Len(widths) = 1
  <2>1. upto[1] <= upto[0] + w
    BY <1>3, <1>6
  <2> QED BY <2>1, <1>6, <1>2
<1>7. CASE Len(widths) = 2
  <2>1. upto[1] <= upto[0] + w /\ upto[2] <= upto[1] + w /\ upto[1] \in Nat /\ upto[2] \in Nat
    BY <1>3, <1>7
  <2> QED BY <2>1, <1>7, <1>2
<1>8. CASE Len(widths) = 3
  <2>1. /\ upto[1] <= upto[0] + w /\ upto[2] <= upto[1] + w /\ upto[3] <= upto[2] + w
        /\ upto[1] \in Nat /\ upto[2] \in Nat /\ upto[3] \in Nat
    BY <1>3, <1>8
  <2> QED BY <2>1, <1>8, <1>2
<1> QED BY <1>4, <1>5, <1>6, <1>7, <1>8

LEMMA TotalType ==
  ASSUME NEW widths \in Seq(Nat)
  PROVE  Total(widths) \in Nat
<1>1. PICK upto \in [0 .. Len(widths) -> Nat] : Total(widths) = upto[Len(widths)]
  BY TotalRounds
<1>2. Len(widths) \in 0 .. Len(widths)
  OBVIOUS
<1> QED BY <1>1, <1>2

\* The first and the last old line and the last new one are three at most.
LEMMA MandatoryAreThree ==
  ASSUME NEW T, NEW old \in Seq(T), NEW new \in Seq(T)
  PROVE  /\ IsFiniteSet(Mandatory(old, new))
         /\ Cardinality(Mandatory(old, new)) <= 3
<1> DEFINE ends == {1, Len(old), Len(old) + Len(new)}
<1>1. IsFiniteSet({1}) /\ Cardinality({1}) = 1
  BY FS_Singleton
<1>2. ASSUME NEW S, NEW x, IsFiniteSet(S)
      PROVE  /\ IsFiniteSet(S \cup {x})
             /\ Cardinality(S \cup {x}) = Cardinality(S)
                \/ Cardinality(S \cup {x}) = Cardinality(S) + 1
  BY <1>2, FS_AddElement
<1>3. /\ IsFiniteSet(({1} \cup {Len(old)}) \cup {Len(old) + Len(new)})
      /\ Cardinality(({1} \cup {Len(old)}) \cup {Len(old) + Len(new)}) \in {1, 2, 3}
  <2> DEFINE two   == {1} \cup {Len(old)}
             three == two \cup {Len(old) + Len(new)}
  <2>1. /\ IsFiniteSet(two)
        /\ Cardinality(two) = Cardinality({1}) \/ Cardinality(two) = Cardinality({1}) + 1
    BY <1>1, <1>2, Zenon
  <2> HIDE DEF two
  <2>2. Cardinality(two) \in {1, 2}
    BY <2>1, <1>1
  <2>3. /\ IsFiniteSet(three)
        /\ Cardinality(three) = Cardinality(two) \/ Cardinality(three) = Cardinality(two) + 1
    BY <2>1, <1>2, Zenon
  <2> HIDE DEF three
  <2>4. IsFiniteSet(three) /\ Cardinality(three) \in {1, 2, 3}
    BY <2>2, <2>3
  <2> QED BY <2>4 DEF two, three
<1>4. ({1} \cup {Len(old)}) \cup {Len(old) + Len(new)} = ends
  OBVIOUS
<1>5. IsFiniteSet(ends) /\ Cardinality(ends) \in {1, 2, 3}
  BY <1>3, <1>4
<1>6. Mandatory(old, new) \subseteq ends
  BY DEF Mandatory
<1> HIDE DEF ends
<1>7. /\ IsFiniteSet(Mandatory(old, new))
      /\ Cardinality(Mandatory(old, new)) <= Cardinality(ends)
      /\ Cardinality(Mandatory(old, new)) \in Nat
  BY <1>5, <1>6, FS_Subset, FS_CardinalityType
<1> QED BY <1>5, <1>7

\* The lines there are: of a message that was written, and one of its lines.
Written == {line \in Lines : /\ line[1] <= Len(messages)
                             /\ line[2] <= Len(messages[line[1]])}

LEMMA WidthOfLine ==
  ASSUME messages \in Seq(Cuts), NEW line \in Written
  PROVE  Width(line) \in 1 .. LineLimit
<1>1. /\ line \in (1 .. MaxMessages) \X (Nat \ {0})
      /\ line[1] <= Len(messages) /\ line[2] <= Len(messages[line[1]])
  BY DEF Written, Lines
<1>2. line[1] \in Nat \ {0} /\ line[2] \in Nat \ {0}
  BY <1>1, SummaryAssumption
<1>3. messages[line[1]] \in Cuts
  <2>1. line[1] \in 1 .. Len(messages)
    BY <1>1, <1>2
  <2> QED BY <2>1
<1>4. messages[line[1]] \in Seq(1 .. LineLimit)
  BY <1>3, SummaryAssumption
<1>5. line[2] \in 1 .. Len(messages[line[1]])
  BY <1>1, <1>2, <1>4
<1>6. messages[line[1]][line[2]] \in 1 .. LineLimit
  BY <1>4, <1>5, ElementOfSeq, Zenon
<1> QED BY <1>6 DEF Width

LEMMA CharsOfText ==
  ASSUME messages \in Seq(Cuts), NEW text \in Seq(Written)
  PROVE  /\ Chars(text) \in Nat
         /\ Len(text) <= 3 => Chars(text) <= Limit
<1> DEFINE widths == [i \in DOMAIN text |-> Width(text[i])]
<1>0. LineLimit \in Nat /\ Limit \in Nat /\ Limit >= 3 * LineLimit + 2
  BY SummaryAssumption
<1>1. \A i \in 1 .. Len(text) : Width(text[i]) \in 1 .. LineLimit
  <2>1. \A i \in 1 .. Len(text) : text[i] \in Written
    OBVIOUS
  <2> QED BY <2>1, WidthOfLine
<1>2. widths \in Seq(0 .. LineLimit) /\ widths \in Seq(Nat) /\ Len(widths) = Len(text)
  <2>1. \A i \in 1 .. Len(text) : Width(text[i]) \in 0 .. LineLimit /\ Width(text[i]) \in Nat
    BY <1>1, <1>0
  <2>2. DOMAIN text = 1 .. Len(text) /\ Len(text) \in Nat
    OBVIOUS
  <2> QED BY <2>1, <2>2
<1> HIDE DEF widths
<1>3. Total(widths) \in Nat
  BY <1>2, TotalType
<1>4. CASE text = <<>>
  BY <1>4, <1>0 DEF Chars
<1>5. CASE text # <<>>
  <2>1. Chars(text) = Total(widths) + Len(text) - 1
    BY <1>5 DEF Chars, widths
  <2>2. Len(text) \in Nat /\ Len(text) >= 1
    BY <1>5
  <2>3. Chars(text) \in Nat
    BY <2>1, <2>2, <1>3
  <2>4. ASSUME Len(text) <= 3 PROVE Chars(text) <= Limit
    <3>1. Total(widths) <= 3 * LineLimit
      BY <2>4, <1>0, <1>2, TotalOfThree
    <3> QED BY <3>1, <2>1, <2>2, <2>4, <1>3, <1>0
  <2> QED BY <2>3, <2>4
<1> QED BY <1>4, <1>5
-----------------------------------------------------------------------------
(* What messages become.                                                   *)

LEMMA FlattenRounds ==
  ASSUME NEW T, NEW seqs \in Seq(Seq(T)), seqs # <<>>
  PROVE  \E flat \in [1 .. Len(seqs) -> Seq(T)] :
            /\ FlattenSeq(seqs) = flat[Len(seqs)]
            /\ flat[1] = seqs[1]
            /\ \A i \in 2 .. Len(seqs) : flat[i] = flat[i - 1] \o seqs[i]
<1> DEFINE n == Len(seqs)
           Loop(g) == g = [i \in 1 .. n |-> IF i = 1 THEN seqs[i] ELSE g[i - 1] \o seqs[i]]
           step == [i \in 1 .. n |-> [s \in Seq(T) |-> s \o seqs[i]]]
<1>1. n \in Nat /\ 1 <= n
  OBVIOUS
<1>2. \A i \in 1 .. n : seqs[i] \in Seq(T)
  OBVIOUS
<1> HIDE DEF n
<1>3. Closed(step, 1, n, Seq(T))
  <2> SUFFICES ASSUME NEW i \in 1 .. n, NEW s \in Seq(T) PROVE s \o seqs[i] \in Seq(T)
    BY DEF Closed
  <2> QED BY <1>2, ConcatProperties
<1>4. PICK g \in [1 .. n -> Seq(T)] : Loops(g, 1, n, seqs[1], step)
  <2>1. 1 \in Nat /\ seqs[1] \in Seq(T)
    BY <1>1, <1>2
  <2> HIDE DEF step, Loop
  <2> QED BY <1>1, <1>3, <2>1, Rounds
<1>5. Loop(g)
  <2>1. ASSUME NEW i \in 1 .. n, i # 1
        PROVE  step[i][g[i - 1]] = g[i - 1] \o seqs[i]
    <3>1. i - 1 \in 1 .. n
      BY <2>1, <1>1
    <3>2. g[i - 1] \in Seq(T)
      BY <3>1
    <3> QED BY <3>2, <2>1
  <2> HIDE DEF step
  <2> QED BY <2>1, <1>4 DEF Loops
<1> DEFINE flat == CHOOSE f : Loop(f)
<1>6. Loop(flat)
  <2> HIDE DEF Loop
  <2> QED BY <1>5
<1>7. FlattenSeq(seqs) = flat[n]
  BY <1>1 DEF FlattenSeq, n
<1> HIDE DEF flat, step
<1>8. flat[1] = seqs[1]
  BY <1>6, <1>1
<1>9. ASSUME NEW i \in 2 .. n PROVE flat[i] = flat[i - 1] \o seqs[i]
  <2>1. i \in 1 .. n /\ i # 1
    BY <1>1
  <2> QED BY <1>6, <2>1
<1>10. flat \in [1 .. n -> Seq(T)]
  <2> DEFINE Fine == {i \in Nat : i <= n => flat[i] \in Seq(T)}
  <2>1. 1 \in Fine
    BY <1>8, <1>1, <1>2
  <2>2. ASSUME NEW i \in Nat, 1 <= i, i < n, i \in Fine PROVE i + 1 \in Fine
    <3>1. i + 1 \in 2 .. n /\ i + 1 \in 1 .. n /\ (i + 1) - 1 = i
      BY <2>2, <1>1
    <3>2. flat[i] \in Seq(T) /\ seqs[i + 1] \in Seq(T)
      BY <2>2, <1>1, <1>2, <3>1
    <3>3. flat[i] \o seqs[i + 1] \in Seq(T)
      BY <3>2, ConcatProperties
    <3>4. flat[i + 1] = flat[i] \o seqs[i + 1]
      BY <3>1, <1>9
    <3>5. flat[i + 1] \in Seq(T)
      BY <3>3, <3>4, Zenon
    <3> QED BY <3>5
  <2>3. 1 .. n \subseteq Fine
    <3> HIDE DEF Fine
    <3> QED BY <2>1, <2>2, <1>1, UpTo
  <2>4. \A i \in 1 .. n : flat[i] \in Seq(T)
    BY <2>3
  <2> QED BY <2>4, <1>6
<1> QED BY <1>7, <1>8, <1>9, <1>10 DEF n

LEMMA ConcatInOrder ==
  ASSUME NEW a \in Seq(Written), NEW b \in Seq(Written), LinesInOrder(a), LinesInOrder(b),
         \A i \in DOMAIN a : \A j \in DOMAIN b : a[i][1] < b[j][1]
  PROVE  LinesInOrder(a \o b)
<1> DEFINE m == Len(a)
           c == a \o b
<1>1. /\ m \in Nat /\ DOMAIN a = 1 .. m /\ DOMAIN b = 1 .. Len(b) /\ Len(b) \in Nat
      /\ DOMAIN c = 1 .. m + Len(b)
      /\ \A i \in 1 .. m : c[i] = a[i]
      /\ \A i \in m + 1 .. m + Len(b) : c[i] = b[i - m]
  OBVIOUS
<1> HIDE DEF m, c
<1> SUFFICES ASSUME NEW i \in DOMAIN c, NEW j \in DOMAIN c, i < j
             PROVE  Before(c[i], c[j])
  BY DEF LinesInOrder, c
<1>2. CASE j <= m
  <2>1. i \in DOMAIN a /\ j \in DOMAIN a /\ c[i] = a[i] /\ c[j] = a[j]
    BY <1>1, <1>2
  <2> QED BY <2>1 DEF LinesInOrder
<1>3. CASE i <= m /\ j > m
  <2>1. i \in DOMAIN a /\ j - m \in DOMAIN b /\ c[i] = a[i] /\ c[j] = b[j - m]
    BY <1>1, <1>3
  <2> QED BY <2>1 DEF Before
<1>4. CASE i > m
  <2>1. /\ i - m \in DOMAIN b /\ j - m \in DOMAIN b /\ i - m < j - m
        /\ c[i] = b[i - m] /\ c[j] = b[j - m]
    BY <1>1, <1>4
  <2> QED BY <2>1 DEF LinesInOrder
<1> QED BY <1>1, <1>2, <1>3, <1>4

\* The lines of a message.
Part(m) == [n \in DOMAIN messages[m] |-> <<m, n>>]

LEMMA PartFacts ==
  ASSUME messages \in Seq(Cuts), Len(messages) <= MaxMessages, NEW m \in 1 .. Len(messages)
  PROVE  /\ Part(m) \in Seq(Written) /\ Part(m) # <<>>
         /\ \A n \in DOMAIN Part(m) : Part(m)[n][1] = m
         /\ LinesInOrder(Part(m))
<1> DEFINE k == Len(messages[m])
<1>0. MaxMessages \in Nat /\ Len(messages) \in Nat
  BY SummaryAssumption
<1>1. messages[m] \in Seq(1 .. LineLimit) /\ messages[m] # <<>>
  BY SummaryAssumption
<1>2. k \in Nat /\ k >= 1 /\ DOMAIN messages[m] = 1 .. k
  BY <1>1
<1>3. \A n \in 1 .. k : <<m, n>> \in Written
  <2> SUFFICES ASSUME NEW n \in 1 .. k PROVE <<m, n>> \in Written
    OBVIOUS
  <2>1. m \in 1 .. MaxMessages /\ n \in Nat \ {0}
    BY <1>0, <1>2
  <2> HIDE DEF k
  <2>2. n <= k /\ m <= Len(messages)
    BY <1>0, <1>2
  <2> QED BY <2>1, <2>2 DEF Written, Lines, k
<1> HIDE DEF k
<1>4. Part(m) = [n \in 1 .. k |-> <<m, n>>]
  BY <1>2 DEF Part
<1>5. Part(m) \in Seq(Written) /\ DOMAIN Part(m) = 1 .. k
  BY <1>2, <1>3, <1>4, IsASeq
<1>6. Part(m) # <<>>
  BY <1>5, <1>2
<1>7. \A n \in 1 .. k : Part(m)[n] = <<m, n>>
  BY <1>4
<1>8. LinesInOrder(Part(m))
  BY <1>5, <1>7 DEF LinesInOrder, Before
<1> QED BY <1>5, <1>6, <1>7, <1>8

\* Extracted lines come in the order of the messages and end with the last one.
LEMMA ExtractedFacts ==
  ASSUME messages \in Seq(Cuts), Len(messages) <= MaxMessages,
         NEW new \in Seq(1 .. Len(messages)), new # <<>>,
         \A i, j \in DOMAIN new : i < j => new[i] < new[j]
  PROVE  /\ Extracted(new) \in Seq(Written) /\ Extracted(new) # <<>>
         /\ Last(Extracted(new))[1] = Last(new)
         /\ \A k \in DOMAIN Extracted(new) : Extracted(new)[k][1] >= Head(new)
         /\ LinesInOrder(Extracted(new))
<1> DEFINE n     == Len(new)
           parts == [i \in DOMAIN new |-> Part(new[i])]
           Good(text, i) == /\ text \in Seq(Written) /\ text # <<>>
                            /\ text[Len(text)][1] = new[i]
                            /\ \A k \in DOMAIN text : new[1] <= text[k][1] /\ text[k][1] <= new[i]
                            /\ LinesInOrder(text)
<1>1. /\ n \in Nat /\ 1 <= n /\ DOMAIN new = 1 .. n
      /\ \A i \in 1 .. n : new[i] \in 1 .. Len(messages) /\ new[i] \in Nat
  OBVIOUS
<1> HIDE DEF n
<1>2. \A i \in 1 .. n : /\ Part(new[i]) \in Seq(Written) /\ Part(new[i]) # <<>>
                        /\ \A k \in DOMAIN Part(new[i]) : Part(new[i])[k][1] = new[i]
                        /\ LinesInOrder(Part(new[i]))
  BY <1>1, PartFacts
<1>3. /\ parts \in Seq(Seq(Written)) /\ parts # <<>> /\ Len(parts) = n
      /\ \A i \in 1 .. n : parts[i] = Part(new[i])
  <2>1. parts = [i \in 1 .. n |-> Part(new[i])]
    BY <1>1
  <2>2. \A i \in 1 .. n : Part(new[i]) \in Seq(Written)
    BY <1>2
  <2> HIDE DEF parts
  <2>3. parts \in Seq(Seq(Written))
    BY <2>1, <2>2, <1>1, IsASeq
  <2>4. Len(parts) = n
    BY <2>1, <2>3, <1>1
  <2>5. parts # <<>>
    BY <2>3, <2>4, <1>1
  <2>6. \A i \in 1 .. n : parts[i] = Part(new[i])
    BY <2>1
  <2> QED BY <2>3, <2>4, <2>5, <2>6
<1>4. Extracted(new) = FlattenSeq(parts)
  BY DEF Extracted, Part
<1> HIDE DEF parts
<1>5. PICK flat \in [1 .. n -> Seq(Written)] :
            /\ FlattenSeq(parts) = flat[n]
            /\ flat[1] = parts[1]
            /\ \A i \in 2 .. n : flat[i] = flat[i - 1] \o parts[i]
  BY <1>3, FlattenRounds
<1>6. Good(Part(new[1]), 1)
  <2>1. 1 \in 1 .. n
    BY <1>1
  <2>2. DOMAIN Part(new[1]) = 1 .. Len(Part(new[1])) /\ Len(Part(new[1])) \in DOMAIN Part(new[1])
    BY <2>1, <1>2
  <2> QED BY <2>1, <2>2, <1>1, <1>2
<1>7. ASSUME NEW i \in 1 .. n, i < n, NEW text, Good(text, i)
      PROVE  Good(text \o Part(new[i + 1]), i + 1)
  <2> DEFINE p == Part(new[i + 1])
             c == text \o p
  <2>1. i + 1 \in 1 .. n /\ 1 \in 1 .. n /\ 1 < i + 1
    BY <1>7, <1>1
  <2>2. new[i] < new[i + 1] /\ new[1] < new[i + 1]
    <3>1. i \in DOMAIN new /\ 1 \in DOMAIN new /\ i + 1 \in DOMAIN new /\ i < i + 1
      BY <2>1, <1>1
    <3> QED BY <3>1, <2>1
  <2>3. new[1] \in Nat /\ new[i] \in Nat /\ new[i + 1] \in Nat
    BY <2>1, <1>1
  <2>4. /\ p \in Seq(Written) /\ p # <<>> /\ LinesInOrder(p)
        /\ \A k \in DOMAIN p : p[k][1] = new[i + 1]
    BY <2>1, <1>2
  <2> HIDE DEF p
  <2>5. /\ text \in Seq(Written) /\ text # <<>> /\ LinesInOrder(text)
        /\ \A k \in DOMAIN text : new[1] <= text[k][1] /\ text[k][1] <= new[i]
    BY <1>7
  <2>6. /\ c \in Seq(Written) /\ Len(c) = Len(text) + Len(p)
        /\ Len(text) \in Nat /\ Len(p) \in Nat /\ Len(p) >= 1
        /\ DOMAIN text = 1 .. Len(text) /\ DOMAIN p = 1 .. Len(p) /\ DOMAIN c = 1 .. Len(c)
        /\ \A k \in 1 .. Len(text) : c[k] = text[k]
        /\ \A k \in Len(text) + 1 .. Len(text) + Len(p) : c[k] = p[k - Len(text)]
    BY <2>4, <2>5
  <2>7. \A k \in DOMAIN text : text[k][1] \in Nat
    <3>1. \A k \in DOMAIN text : text[k] \in Written
      BY <2>5
    <3> QED BY <3>1, SummaryAssumption DEF Written, Lines
  <2>8. LinesInOrder(c)
    <3>1. \A k \in DOMAIN text : \A l \in DOMAIN p : text[k][1] < p[l][1]
      <4>1. ASSUME NEW k \in DOMAIN text, NEW l \in DOMAIN p PROVE text[k][1] < p[l][1]
        <5>1. text[k][1] <= new[i] /\ text[k][1] \in Nat
          BY <2>5, <2>7
        <5>2. p[l][1] = new[i + 1]
          BY <2>4
        <5> QED BY <5>1, <5>2, <2>2, <2>3
      <4> QED BY <4>1
    <3>2. p \in Seq(Written) /\ LinesInOrder(p) /\ text \in Seq(Written) /\ LinesInOrder(text)
      BY <2>4, <2>5
    <3> QED BY <3>1, <3>2, ConcatInOrder
  <2> HIDE DEF c
  <2>9. c # <<>> /\ c[Len(c)][1] = new[i + 1]
    <3>1. Len(c) \in Len(text) + 1 .. Len(text) + Len(p) /\ Len(c) - Len(text) = Len(p)
      BY <2>6
    <3>2. Len(p) \in DOMAIN p
      BY <2>6
    <3>4. c[Len(c)] = p[Len(c) - Len(text)]
      BY <3>1, <2>6
    <3>5. c[Len(c)] = p[Len(p)]
      BY <3>1, <3>4
    <3>3. c # <<>>
      BY <3>1, <2>6
    <3> QED BY <3>2, <3>3, <3>5, <2>4
  <2>10. ASSUME NEW k \in DOMAIN c PROVE new[1] <= c[k][1] /\ c[k][1] <= new[i + 1]
    <3>1. CASE k <= Len(text)
      <4>1. k \in DOMAIN text /\ c[k] = text[k]
        BY <3>1, <2>6
      <4> QED BY <4>1, <2>2, <2>3, <2>5, <2>7
    <3>2. CASE k > Len(text)
      <4>1. k \in Len(text) + 1 .. Len(text) + Len(p) /\ k - Len(text) \in DOMAIN p
        BY <3>2, <2>6
      <4>2. c[k][1] = new[i + 1]
        BY <4>1, <2>4, <2>6
      <4> QED BY <4>2, <2>2, <2>3
    <3> QED BY <3>1, <3>2, <2>6
  <2>11. Good(c, i + 1)
    BY <2>6, <2>8, <2>9, <2>10
  <2> QED BY <2>11 DEF c, p
<1> DEFINE Fine == {i \in Nat : i <= n => Good(flat[i], i)}
<1>8. 1 \in Fine
  <2>1. flat[1] = Part(new[1])
    BY <1>1, <1>3, <1>5
  <2> HIDE DEF Good
  <2> QED BY <1>6, <2>1
<1> HIDE DEF Good
<1>9. ASSUME NEW i \in Nat, 1 <= i, i < n, i \in Fine PROVE i + 1 \in Fine
  <2>1. i \in 1 .. n /\ i + 1 \in 2 .. n /\ i + 1 \in 1 .. n /\ (i + 1) - 1 = i
    BY <1>9, <1>1
  <2>2. Good(flat[i], i)
    BY <1>9, <1>1
  <2>3. flat[i + 1] = flat[i] \o Part(new[i + 1])
    BY <2>1, <1>3, <1>5
  <2>4. Good(flat[i] \o Part(new[i + 1]), i + 1)
    BY <2>1, <2>2, <1>7, <1>9
  <2>5. Good(flat[i + 1], i + 1)
    BY <2>3, <2>4
  <2> QED BY <2>5
<1>10. 1 .. n \subseteq Fine
  <2> HIDE DEF Fine
  <2> QED BY <1>8, <1>9, <1>1, UpTo
<1>11. Good(Extracted(new), n)
  <2>1. n \in Fine
    BY <1>10, <1>1
  <2> QED BY <2>1, <1>1, <1>4, <1>5
<1>12. Last(new) = new[n] /\ Head(new) = new[1]
  BY <1>1 DEF Last, n
<1>13. new[1] \in Nat /\ \A k \in DOMAIN Extracted(new) : Extracted(new)[k][1] \in Nat
  <2>1. \A k \in DOMAIN Extracted(new) : Extracted(new)[k] \in Written
    BY <1>11 DEF Good
  <2> QED BY <2>1, <1>1, SummaryAssumption DEF Written, Lines
<1> QED BY <1>11, <1>12, <1>13 DEF Good, Last
-----------------------------------------------------------------------------
(* The whole merge, and the messages it is fed.                            *)

LEMMA MergeFacts ==
  ASSUME messages \in Seq(Cuts),
         NEW old \in Seq(Written), NEW new \in Seq(Written), new # <<>>
  PROVE  LET text == Merge(old, new) IN
            /\ text \in Seq(Written) /\ text # <<>>
            /\ Last(text) = Last(new)
            /\ Chars(text) <= Limit
            /\ old # <<>> => text[1] = old[1]
            /\ LinesInOrder(old \o new) => LinesInOrder(text)
<1> DEFINE all  == old \o new
           must == Mandatory(old, new)
<1>1. PICK places : /\ Merge(old, new) = Chosen(all, places)
                    /\ must \subseteq places
                    /\ Chars(Chosen(all, must)) > Limit \/ ~ (Chars(Chosen(all, places)) > Limit)
  BY MergeIsAChoice
<1>2. /\ all \in Seq(Written) /\ all # <<>>
      /\ Len(all) = Len(old) + Len(new)
      /\ all[Len(all)] = new[Len(new)]
      /\ old # <<>> => all[1] = old[1]
  OBVIOUS
<1>3. Len(all) \in must /\ (old # <<>> => 1 \in must)
  BY <1>2 DEF Mandatory
<1>4. IsFiniteSet(must) /\ Cardinality(must) <= 3 /\ Cardinality(must) \in Nat
  BY MandatoryAreThree, FS_CardinalityType
<1> HIDE DEF all, must
<1>5. /\ Chosen(all, must) \in Seq(Written)
      /\ Chosen(all, places) \in Seq(Written) /\ Chosen(all, places) # <<>>
      /\ Last(Chosen(all, places)) = all[Len(all)]
      /\ old # <<>> => Chosen(all, places)[1] = all[1]
  BY <1>1, <1>2, <1>3, ChosenEnds
<1>6. Chars(Chosen(all, must)) <= Limit
  <2>1. Len(Chosen(all, must)) <= 3
    <3>1. Len(Chosen(all, must)) <= Cardinality(must)
      BY <1>2, <1>4, ChosenIsNoLonger
    <3>2. Len(Chosen(all, must)) \in Nat
      BY <1>5
    <3> QED BY <3>1, <3>2, <1>4
  <2> QED BY <2>1, <1>5, CharsOfText
<1>7. Chars(Chosen(all, places)) <= Limit
  <2>1. Chars(Chosen(all, must)) \in Nat /\ Chars(Chosen(all, places)) \in Nat /\ Limit \in Nat
    BY <1>5, CharsOfText, SummaryAssumption
  <2> QED BY <2>1, <1>1, <1>6
<1>8. LinesInOrder(all) => LinesInOrder(Chosen(all, places))
  BY <1>2, ChosenInOrder
<1>9. Last(new) = all[Len(all)]
  BY <1>2 DEF Last
<1> QED BY <1>1, <1>2, <1>5, <1>7, <1>8, <1>9 DEF all

\* What is known of a version.
Sound(v) ==
    /\ summaries[v].text \in Seq(Written) /\ summaries[v].text # <<>>
    /\ Last(summaries[v].text)[1] = summaries[v].last
    /\ summaries[v].last \in 1 .. Len(messages)
    /\ summaries[v].first .. summaries[v].last \subseteq summaries[v].merged
    /\ Chars(summaries[v].text) <= Limit

LEMMA NewMessagesFacts ==
  ASSUME NEW n \in Nat, NEW v \in 0 .. Len(summaries), summaries \in Seq(Summary),
         n <= Len(messages), Len(messages) <= MaxMessages, Len(messages) \in Nat
  PROVE  LET s == StartAt(n, v)
             new == NewMessages(n, v)
         IN  /\ s \in Nat /\ 1 <= s
             /\ new = <<>> <=> n - Keep < s
             /\ new # <<>> =>
                   /\ new \in Seq(1 .. Len(messages))
                   /\ \A i, j \in DOMAIN new : i < j => new[i] < new[j]
                   /\ Head(new) = s /\ Last(new) = n - Keep
                   /\ Range(new) = s .. n - Keep
                   /\ s <= n - Keep /\ n - Keep \in 1 .. Len(messages)
<1> DEFINE s   == StartAt(n, v)
           new == NewMessages(n, v)
           k   == IF n - Keep < s THEN 0 ELSE n - Keep - s + 1
<1>0. Keep \in Nat /\ Keep >= 1 /\ MaxMessages \in Nat
  BY SummaryAssumption
<1>1. s \in Nat /\ 1 <= s
  <2>1. CASE v = 0 \/ summaries[v].last > n
    BY <2>1 DEF StartAt
  <2>2. CASE ~ (v = 0 \/ summaries[v].last > n)
    <3>1. summaries[v] \in Summary
      BY <2>2
    <3>2. summaries[v].last \in 1 .. MaxMessages
      BY <3>1 DEF Summary
    <3> QED BY <3>2, <2>2, <1>0 DEF StartAt
  <2> QED BY <2>1, <2>2
<1>2. new = [i \in 1 .. k |-> s + i - 1]
  BY DEF NewMessages
<1> HIDE DEF s, new
<1>3. k \in Nat
  BY <1>0, <1>1
<1>4. \A i \in 1 .. k : s + i - 1 \in 1 .. Len(messages)
  BY <1>0, <1>1
<1>5. new \in Seq(1 .. Len(messages)) /\ DOMAIN new = 1 .. k /\ Len(new) = k
  <2>1. new \in Seq(1 .. Len(messages))
    BY <1>2, <1>3, <1>4, IsASeq
  <2>2. DOMAIN new = 1 .. k
    BY <1>2
  <2> QED BY <2>1, <2>2, <1>3
<1>6. new = <<>> <=> n - Keep < s
  BY <1>0, <1>1, <1>5
<1>7. ASSUME new # <<>>
      PROVE  /\ \A i, j \in DOMAIN new : i < j => new[i] < new[j]
             /\ Head(new) = s /\ Last(new) = n - Keep
             /\ Range(new) = s .. n - Keep
             /\ s <= n - Keep /\ n - Keep \in 1 .. Len(messages)
  <2>1. k = n - Keep - s + 1 /\ s <= n - Keep /\ k >= 1
    BY <1>0, <1>1, <1>6, <1>7
  <2>2. \A i \in 1 .. k : new[i] = s + i - 1
    BY <1>2
  <2> HIDE DEF k
  <2>3. \A i, j \in DOMAIN new : i < j => new[i] < new[j]
    BY <2>2, <1>1, <1>3, <1>5
  <2>4. Head(new) = s
    <3>1. Head(new) = new[1]
      BY <1>5, <1>7
    <3> QED BY <3>1, <2>1, <2>2, <1>1, <1>3
  <2>5. Last(new) = n - Keep
    BY <2>1, <2>2, <1>0, <1>1, <1>3, <1>5 DEF Last
  <2>6. Range(new) = s .. n - Keep
    <3>1. ASSUME NEW x \in s .. n - Keep PROVE x \in Range(new)
      <4>1. x - s + 1 \in 1 .. k /\ s + (x - s + 1) - 1 = x
        BY <2>1, <1>0, <1>1, <1>3
      <4>2. new[x - s + 1] = x
        BY <4>1, <2>2
      <4> QED BY <4>1, <4>2, <1>5 DEF Range
    <3>2. ASSUME NEW i \in DOMAIN new PROVE new[i] \in s .. n - Keep
      BY <2>1, <2>2, <1>0, <1>1, <1>3, <1>5
    <3> QED BY <3>1, <3>2 DEF Range
  <2>7. n - Keep \in 1 .. Len(messages)
    BY <2>1, <1>0, <1>1
  <2> QED BY <2>1, <2>3, <2>4, <2>5, <2>6, <2>7
<1> QED BY <1>1, <1>5, <1>6, <1>7 DEF s, new
-----------------------------------------------------------------------------
(* The inductive invariant.                                                *)

\* As long as no refresh overtook another, every version begins with the line
\* the first one began with, and has its lines in the order of the session.
Straight ==
    ~overlap => \A v \in SummaryVersions :
                    /\ summaries[v].text[1] = summaries[1].text[1]
                    /\ LinesInOrder(summaries[v].text)

\* A refresher knows messages and versions there are; one that goes on has seen
\* enough messages, one about to save has messages to add.
Informed(r) ==
    /\ seen[r] <= Len(messages) /\ latest[r] <= Len(summaries)
    /\ pc[r] \in {"read", "save"} => seen[r] > Threshold
    /\ pc[r] = "save" => NewMessages(seen[r], latest[r]) # <<>>

SummaryInv ==
    /\ SummaryTypeOK
    /\ Len(messages) <= MaxMessages
    /\ \A v \in SummaryVersions : Sound(v)
    /\ Straight
    /\ \A r \in Refreshers : Informed(r)
    /\ RefreshClosesTheGap

LEMMA InitHolds == SummaryInit => SummaryInv
<1> SUFFICES ASSUME SummaryInit PROVE SummaryInv
  OBVIOUS
<1> USE SummaryAssumption
<1>1. SummaryTypeOK
  <2>1. <<>> \in Seq(Cuts) /\ <<>> \in Seq(Summary)
    OBVIOUS
  <2>2. /\ [r \in Refreshers |-> "idle"] \in [Refreshers -> Steps]
        /\ [r \in Refreshers |-> 0] \in [Refreshers -> Nat]
    BY DEF Steps
  <2> QED BY <2>1, <2>2 DEF SummaryInit, SummaryTypeOK
<1>2. Len(messages) <= MaxMessages /\ \A r \in Refreshers : Informed(r)
  BY DEF SummaryInit, Informed
<1>3. Straight /\ \A v \in SummaryVersions : Sound(v)
  BY DEF SummaryInit, Straight, SummaryVersions
<1>4. RefreshClosesTheGap
  BY DEF SummaryInit, RefreshClosesTheGap
<1> QED BY <1>1, <1>2, <1>3, <1>4 DEF SummaryInv

\* The version a refresher appends, whatever was saved since it read.
LEMMA NewVersion ==
  ASSUME SummaryInv, NEW r \in Refreshers, SaveSummary(r)
  PROVE  \E rec \in Summary :
            /\ summaries' = Append(summaries, rec)
            /\ rec.text \in Seq(Written) /\ rec.text # <<>>
            /\ Last(rec.text)[1] = rec.last
            /\ rec.last = seen[r] - Keep /\ rec.last \in 1 .. Len(messages)
            /\ rec.first .. rec.last \subseteq rec.merged
            /\ Chars(rec.text) <= Limit
            /\ ~overlap' =>
                  /\ ~overlap
                  /\ LinesInOrder(rec.text)
                  /\ summaries # <<>> => /\ rec.text[1] = summaries[1].text[1]
                                         /\ rec.last >= Last(summaries).last
<1> DEFINE n     == seen[r]
           v     == latest[r]
           new   == NewMessages(n, v)
           s     == StartAt(n, v)
           old   == IF v = 0 THEN <<>> ELSE summaries[v].text
           extra == Extracted(new)
           rec   == [text   |-> Merge(old, extra),
                     first  |-> IF v = 0 THEN Head(new) ELSE summaries[v].first,
                     last   |-> Last(new),
                     merged |-> Range(new) \cup (IF v = 0 THEN {} ELSE summaries[v].merged)]
<1>1. /\ messages \in Seq(Cuts) /\ summaries \in Seq(Summary)
      /\ n \in Nat /\ v \in Nat /\ overlap \in BOOLEAN
      /\ Len(messages) \in Nat /\ Len(messages) <= MaxMessages /\ MaxMessages \in Nat
      /\ n <= Len(messages) /\ v \in 0 .. Len(summaries) /\ Len(summaries) \in Nat
      /\ Keep \in Nat /\ Keep >= 1
  BY SummaryAssumption DEF SummaryInv, SummaryTypeOK, Informed
<1>2. new # <<>>
  BY DEF SaveSummary, SummaryInv, Informed
<1>3. summaries' = Append(summaries, rec)
  BY DEF SaveSummary
<1>4. ~overlap' => /\ ~overlap /\ v = Len(summaries)
                   /\ v = 0 \/ ~ (summaries[v].last > n)
  <2>1. overlap' = (overlap \/ Overtaken(r))
    BY DEF SaveSummary
  <2> QED BY <2>1 DEF Overtaken
<1>5. /\ s \in Nat /\ 1 <= s /\ s <= n - Keep /\ n - Keep \in 1 .. Len(messages)
      /\ new \in Seq(1 .. Len(messages))
      /\ \A i, j \in DOMAIN new : i < j => new[i] < new[j]
      /\ Head(new) = s /\ Last(new) = n - Keep
      /\ Range(new) = s .. n - Keep
  BY <1>1, <1>2, NewMessagesFacts
<1>6. v # 0 => /\ summaries[v] \in Summary /\ Sound(v)
               /\ summaries[v].last \in Nat /\ summaries[v].first \in 1 .. MaxMessages
               /\ summaries[v].merged \in SUBSET (1 .. MaxMessages)
               /\ v \in 1 .. Len(summaries)
  <2> SUFFICES ASSUME v # 0
               PROVE  /\ summaries[v] \in Summary /\ Sound(v) /\ v \in 1 .. Len(summaries)
                      /\ summaries[v].last \in Nat /\ summaries[v].first \in 1 .. MaxMessages
                      /\ summaries[v].merged \in SUBSET (1 .. MaxMessages)
    OBVIOUS
  <2>1. v \in 1 .. Len(summaries)
    BY <1>1
  <2>2. summaries[v] \in Summary
    BY <1>1, <2>1
  <2>3. Sound(v)
    BY <1>1, <2>1 DEF SummaryInv, SummaryVersions
  <2>4. /\ summaries[v].last \in 1 .. MaxMessages /\ summaries[v].first \in 1 .. MaxMessages
        /\ summaries[v].merged \in SUBSET (1 .. MaxMessages)
    BY <2>2 DEF Summary
  <2> QED BY <2>1, <2>2, <2>3, <2>4, <1>1
<1>7. s = IF v = 0 \/ summaries[v].last > n THEN 1 ELSE summaries[v].last + 1
  BY DEF StartAt
<1> HIDE DEF n, v, new, s
<1>8. /\ extra \in Seq(Written) /\ extra # <<>>
      /\ Last(extra)[1] = n - Keep
      /\ \A k \in DOMAIN extra : extra[k][1] >= s
      /\ LinesInOrder(extra)
  BY <1>1, <1>2, <1>5, ExtractedFacts
<1>9. old \in Seq(Written) /\ (v # 0 => old # <<>>)
  BY <1>6 DEF Sound
<1> DEFINE text == Merge(old, extra)
<1> HIDE DEF extra
<1>10. /\ text \in Seq(Written) /\ text # <<>>
       /\ Last(text) = Last(extra)
       /\ Chars(text) <= Limit
       /\ old # <<>> => text[1] = old[1]
       /\ LinesInOrder(old \o extra) => LinesInOrder(text)
  BY <1>1, <1>8, <1>9, MergeFacts
<1>11. rec \in Summary
  <2>1. text \in Seq(Lines)
    <3>1. Written \subseteq Lines
      BY DEF Written
    <3> QED BY <3>1, <1>10, SeqMonotonic
  <2>2. rec.first \in 1 .. MaxMessages /\ rec.last \in 1 .. MaxMessages
    BY <1>1, <1>5, <1>6
  <2>3. rec.merged \in SUBSET (1 .. MaxMessages)
    BY <1>1, <1>5, <1>6
  <2> HIDE DEF text
  <2> QED BY <2>1, <2>2, <2>3 DEF Summary, text
<1>12. rec.first .. rec.last \subseteq rec.merged
  <2>1. CASE v = 0
    BY <2>1, <1>5
  <2>2. CASE v # 0 /\ summaries[v].last > n
    <3>1. s = 1 /\ rec.merged = (1 .. n - Keep) \cup summaries[v].merged /\ rec.last = n - Keep
      BY <2>2, <1>5, <1>7
    <3>2. rec.first \in 1 .. MaxMessages
      BY <2>2, <1>6
    <3> HIDE DEF rec
    <3> QED BY <3>1, <3>2, <1>1
  <2>3. CASE v # 0 /\ ~ (summaries[v].last > n)
    <3>1. /\ s = summaries[v].last + 1 /\ summaries[v].last \in Nat
          /\ rec.merged = (s .. n - Keep) \cup summaries[v].merged /\ rec.last = n - Keep
          /\ rec.first = summaries[v].first /\ rec.first \in Nat
          /\ summaries[v].first .. summaries[v].last \subseteq summaries[v].merged
      BY <2>3, <1>5, <1>6, <1>7 DEF Sound
    <3> HIDE DEF rec
    <3> QED BY <3>1, <1>1
  <2> QED BY <2>1, <2>2, <2>3
<1>13. ASSUME ~overlap' PROVE LinesInOrder(text)
  <2>1. CASE v = 0
    <3>1. old \o extra = extra
      BY <2>1, <1>8, ConcatEmptySeq
    <3> QED BY <3>1, <1>8, <1>10
  <2>2. CASE v # 0
    <3>1. LinesInOrder(old) /\ old # <<>> /\ Last(old)[1] = summaries[v].last
      BY <2>2, <1>4, <1>6, <1>13 DEF SummaryInv, Straight, SummaryVersions, Sound
    <3>2. s = summaries[v].last + 1 /\ summaries[v].last \in Nat
      BY <2>2, <1>4, <1>6, <1>7, <1>13
    <3> HIDE DEF old
    <3>3. \A i \in DOMAIN old : old[i][1] \in Nat
      <4>1. \A i \in DOMAIN old : old[i] \in Written
        BY <1>9
      <4> QED BY <4>1, <1>1 DEF Written, Lines
    <3>4. \A i \in DOMAIN extra : extra[i][1] \in Nat
      <4>1. \A i \in DOMAIN extra : extra[i] \in Written
        BY <1>8
      <4> QED BY <4>1, <1>1 DEF Written, Lines
    <3>5. ASSUME NEW i \in DOMAIN old PROVE old[i][1] <= summaries[v].last
      <4>1. /\ i \in 1 .. Len(old) /\ Len(old) \in Nat /\ Len(old) \in DOMAIN old
            /\ old[Len(old)][1] = summaries[v].last
        BY <3>1, <1>9 DEF Last
      <4>2. CASE i = Len(old)
        BY <4>1, <4>2, <3>3
      <4>3. CASE i < Len(old)
        <5>1. Before(old[i], old[Len(old)])
          BY <4>1, <4>3, <3>1 DEF LinesInOrder
        <5> QED BY <5>1, <4>1, <3>3 DEF Before
      <4> QED BY <4>1, <4>2, <4>3
    <3>6. \A i \in DOMAIN old : \A j \in DOMAIN extra : old[i][1] < extra[j][1]
      BY <3>2, <3>3, <3>4, <3>5, <1>8
    <3>7. LinesInOrder(old \o extra)
      BY <3>1, <3>6, <1>8, <1>9, ConcatInOrder
    <3> QED BY <3>7, <1>10
  <2> QED BY <2>1, <2>2
<1>14. ASSUME ~overlap', summaries # <<>>
       PROVE  text[1] = summaries[1].text[1] /\ rec.last >= Last(summaries).last
  <2>1. v # 0 /\ v = Len(summaries)
    BY <1>1, <1>4, <1>14
  <2>2. text[1] = summaries[v].text[1]
    BY <2>1, <1>9, <1>10
  <2>3. summaries[v].text[1] = summaries[1].text[1]
    BY <2>1, <1>4, <1>6, <1>14 DEF SummaryInv, Straight, SummaryVersions
  <2>4. summaries[v].last + 1 <= n - Keep /\ summaries[v].last \in Nat
    BY <2>1, <1>4, <1>5, <1>6, <1>7, <1>14
  <2>5. rec.last = n - Keep /\ Last(summaries) = summaries[v]
    BY <2>1, <1>5 DEF Last
  <2> QED BY <2>2, <2>3, <2>4, <2>5, <1>1
<1>15. /\ rec.text = text /\ rec.last = n - Keep
       /\ Last(rec.text)[1] = rec.last
  BY <1>5, <1>8, <1>10
<1> HIDE DEF text, rec
<1> QED BY <1>3, <1>4, <1>5, <1>10, <1>11, <1>12, <1>13, <1>14, <1>15 DEF n
\* A new message leaves every line and its width as they are.
LEMMA TextOutlivesMessages ==
  ASSUME messages \in Seq(Cuts), NEW cut \in Cuts, messages' = Append(messages, cut),
         NEW text \in Seq(Written)
  PROVE  text \in Seq(Written') /\ Chars(text)' = Chars(text)
<1>1. /\ Len(messages') = Len(messages) + 1 /\ Len(messages) \in Nat
      /\ \A m \in 1 .. Len(messages) : messages'[m] = messages[m]
  OBVIOUS
<1>2. ASSUME NEW line \in Written PROVE line \in Written' /\ Width(line)' = Width(line)
  <2>1. line \in Lines /\ line[1] <= Len(messages) /\ line[2] <= Len(messages[line[1]])
    BY DEF Written
  <2>2. line[1] \in 1 .. Len(messages)
    BY <2>1, <1>1, SummaryAssumption DEF Lines
  <2>3. messages'[line[1]] = messages[line[1]] /\ line[1] <= Len(messages')
    BY <2>2, <1>1
  <2> QED BY <2>1, <2>3 DEF Written, Width
<1>3. text \in Seq(Written')
  <2>1. Written \subseteq Written'
    BY <1>2
  <2> QED BY <2>1, SeqMonotonic
<1>4. [i \in DOMAIN text |-> Width(text[i])'] = [i \in DOMAIN text |-> Width(text[i])]
  <2>1. \A i \in DOMAIN text : text[i] \in Written
    OBVIOUS
  <2> QED BY <2>1, <1>2
<1>5. Chars(text)' = Chars(text)
  BY <1>4 DEF Chars
<1> QED BY <1>3, <1>5

LEMMA AppendMessageHolds ==
  ASSUME SummaryInv, NEW cut \in Cuts, AppendMessage(cut)
  PROVE  SummaryInv'
<1>1. /\ messages' = Append(messages, cut) /\ messages \in Seq(Cuts)
      /\ Len(messages) < MaxMessages /\ Len(messages) \in Nat /\ MaxMessages \in Nat
      /\ UNCHANGED <<summaries, pc, seen, latest, overlap>>
  BY SummaryAssumption DEF SummaryInv, SummaryTypeOK, AppendMessage, LinesOf
<1>2. messages' \in Seq(Cuts) /\ Len(messages') = Len(messages) + 1
  BY <1>1
<1>3. SummaryTypeOK'
  BY <1>1, <1>2 DEF SummaryInv, SummaryTypeOK
<1>4. Len(messages)' <= MaxMessages
  BY <1>1, <1>2
<1>5. \A v \in SummaryVersions' : Sound(v)'
  <2> SUFFICES ASSUME NEW v \in SummaryVersions PROVE Sound(v)'
    BY <1>1 DEF SummaryVersions
  <2>1. Sound(v)
    BY DEF SummaryInv
  <2>2. /\ summaries[v].text \in Seq(Written')
        /\ Chars(summaries[v].text)' = Chars(summaries[v].text)
    <3> DEFINE text == summaries[v].text
    <3>1. text \in Seq(Written)
      BY <2>1 DEF Sound
    <3>2. PICK t \in Seq(Written) : t = summaries[v].text
      BY <3>1
    <3>3. t \in Seq(Written') /\ Chars(t)' = Chars(t)
      BY <1>1, <3>2, TextOutlivesMessages
    <3>4. Chars(summaries[v].text)' = Chars(t)'
      BY <1>1, <3>2 DEF Chars, Width
    <3> QED BY <3>2, <3>3, <3>4
  <2>3. summaries[v].last \in 1 .. Len(messages')
    BY <2>1, <1>1, <1>2 DEF Sound
  <2> QED BY <2>1, <2>2, <2>3, <1>1 DEF Sound
<1>6. Straight'
  BY <1>1 DEF SummaryInv, Straight, SummaryVersions, LinesInOrder
<1>7. \A r \in Refreshers : Informed(r)'
  BY <1>1, <1>2 DEF SummaryInv, SummaryTypeOK, Informed, NewMessages, StartAt
<1>8. RefreshClosesTheGap'
  BY <1>1 DEF SummaryInv, RefreshClosesTheGap
<1> QED BY <1>3, <1>4, <1>5, <1>6, <1>7, <1>8 DEF SummaryInv

\* The steps of a refresher that change no table.
LEMMA TablesStay ==
  ASSUME SummaryInv, UNCHANGED <<messages, summaries, overlap>>
  PROVE  /\ messages' \in Seq(Cuts) /\ summaries' \in Seq(Summary) /\ overlap' \in BOOLEAN
         /\ Len(messages') <= MaxMessages
         /\ \A v \in SummaryVersions' : Sound(v)'
         /\ Straight'
<1>1. \A v \in SummaryVersions : Sound(v)'
  BY DEF SummaryInv, Sound, Written, Chars, Width
<1> QED BY <1>1 DEF SummaryInv, SummaryTypeOK, SummaryVersions, Straight, LinesInOrder

LEMMA ReadMessagesHolds ==
  ASSUME SummaryInv, NEW r \in Refreshers, ReadMessages(r)
  PROVE  SummaryInv'
<1>1. /\ pc \in [Refreshers -> Steps] /\ seen \in [Refreshers -> Nat]
      /\ latest \in [Refreshers -> Nat] /\ pc[r] = "idle"
      /\ seen' = [seen EXCEPT ![r] = Len(messages)]
      /\ pc' = [pc EXCEPT ![r] = IF Len(messages) <= Threshold THEN "done" ELSE "read"]
      /\ UNCHANGED <<messages, summaries, latest, overlap>>
      /\ Len(messages) \in Nat /\ Threshold \in Nat
  BY SummaryAssumption DEF SummaryInv, SummaryTypeOK, ReadMessages
<1>2. SummaryTypeOK'
  BY <1>1, TablesStay DEF SummaryTypeOK, Steps
<1>3. \A a \in Refreshers : Informed(a)'
  <2> SUFFICES ASSUME NEW a \in Refreshers PROVE Informed(a)'
    OBVIOUS
  <2>1. Informed(a)
    BY DEF SummaryInv
  <2>2. CASE a = r
    BY <2>1, <2>2, <1>1 DEF Informed
  <2>3. CASE a # r
    <3>1. pc'[a] = pc[a] /\ seen'[a] = seen[a]
      BY <2>3, <1>1
    <3> QED BY <2>1, <3>1, <1>1 DEF Informed, NewMessages, StartAt
  <2> QED BY <2>2, <2>3
<1>4. RefreshClosesTheGap'
  <2> SUFFICES ASSUME NEW a \in Refreshers, ~overlap, pc'[a] = "done", seen'[a] > Threshold
               PROVE  summaries # <<>> /\ Last(summaries).last >= seen'[a] - Keep
    BY <1>1 DEF RefreshClosesTheGap
  <2>1. a # r
    BY <1>1
  <2>2. pc'[a] = pc[a] /\ seen'[a] = seen[a]
    BY <2>1, <1>1
  <2> QED BY <2>2 DEF SummaryInv, RefreshClosesTheGap
<1> QED BY <1>1, <1>2, <1>3, <1>4, TablesStay DEF SummaryInv

LEMMA ReadLatestHolds ==
  ASSUME SummaryInv, NEW r \in Refreshers, ReadLatest(r)
  PROVE  SummaryInv'
<1> DEFINE new == NewMessages(seen[r], Len(summaries))
<1>1. /\ pc \in [Refreshers -> Steps] /\ seen \in [Refreshers -> Nat]
      /\ latest \in [Refreshers -> Nat] /\ pc[r] = "read"
      /\ latest' = [latest EXCEPT ![r] = Len(summaries)]
      /\ pc' = [pc EXCEPT ![r] = IF new = <<>> THEN "done" ELSE "save"]
      /\ UNCHANGED <<messages, summaries, seen, overlap>>
      /\ Len(messages) \in Nat /\ Len(summaries) \in Nat /\ summaries \in Seq(Summary)
      /\ Len(messages) <= MaxMessages
      /\ Threshold \in Nat /\ Keep \in Nat /\ Threshold >= Keep
  BY SummaryAssumption DEF SummaryInv, SummaryTypeOK, ReadLatest
<1>2. seen[r] > Threshold /\ seen[r] <= Len(messages) /\ seen[r] \in Nat
  BY <1>1 DEF SummaryInv, Informed
<1>3. new = <<>> <=> seen[r] - Keep < StartAt(seen[r], Len(summaries))
  BY <1>1, <1>2, NewMessagesFacts
<1> HIDE DEF new
<1>4. SummaryTypeOK'
  BY <1>1, TablesStay DEF SummaryTypeOK, Steps
<1>5. \A a \in Refreshers : Informed(a)'
  <2> SUFFICES ASSUME NEW a \in Refreshers PROVE Informed(a)'
    OBVIOUS
  <2>1. Informed(a)
    BY DEF SummaryInv
  <2>2. CASE a = r
    <3>1. NewMessages(seen[r], Len(summaries))' = new
      BY <1>1 DEF new, NewMessages, StartAt
    <3>2. latest'[r] = Len(summaries) /\ (pc'[r] = "save" => new # <<>>) /\ pc'[r] # "read"
      BY <1>1
    <3>3. pc'[r] = "save" => NewMessages(seen[r], latest[r])' # <<>>
      BY <3>1, <3>2, <1>1 DEF NewMessages, StartAt
    <3> QED BY <3>2, <3>3, <2>2, <1>1, <1>2 DEF Informed
  <2>3. CASE a # r
    <3>1. pc'[a] = pc[a] /\ latest'[a] = latest[a]
      BY <2>3, <1>1
    <3> QED BY <2>1, <3>1, <1>1 DEF Informed, NewMessages, StartAt
  <2> QED BY <2>2, <2>3
<1>6. RefreshClosesTheGap'
  <2> SUFFICES ASSUME NEW a \in Refreshers, ~overlap, pc'[a] = "done", seen[a] > Threshold
               PROVE  summaries # <<>> /\ Last(summaries).last >= seen[a] - Keep
    BY <1>1 DEF RefreshClosesTheGap
  <2>1. CASE a # r
    <3>1. pc'[a] = pc[a]
      BY <2>1, <1>1
    <3> QED BY <3>1 DEF SummaryInv, RefreshClosesTheGap
  <2>2. CASE a = r
    <3>1. new = <<>>
      BY <2>2, <1>1
    <3>2. seen[r] - Keep < StartAt(seen[r], Len(summaries)) /\ seen[r] - Keep >= 1
      BY <3>1, <1>1, <1>2, <1>3
    <3>3. CASE Len(summaries) = 0
      BY <3>2, <3>3, <1>1, <1>2 DEF StartAt
    <3>4. CASE Len(summaries) # 0
      <4> DEFINE last == summaries[Len(summaries)].last
      <4>1. summaries # <<>> /\ Last(summaries).last = last /\ last \in Nat
        <5>1. Len(summaries) \in 1 .. Len(summaries)
          BY <3>4, <1>1
        <5>2. summaries[Len(summaries)] \in Summary
          BY <5>1, <1>1
        <5> QED BY <5>1, <5>2, SummaryAssumption DEF Summary, Last
      <4>2. StartAt(seen[r], Len(summaries)) = IF last > seen[r] THEN 1 ELSE last + 1
        BY <3>4 DEF StartAt
      <4> HIDE DEF last
      <4> QED BY <4>1, <4>2, <3>2, <1>1, <1>2, <2>2
    <3> QED BY <3>3, <3>4
  <2> QED BY <2>1, <2>2
<1> QED BY <1>1, <1>4, <1>5, <1>6, TablesStay DEF SummaryInv
LEMMA SaveSummaryHolds ==
  ASSUME SummaryInv, NEW r \in Refreshers, SaveSummary(r)
  PROVE  SummaryInv'
<1>1. PICK rec \in Summary :
            /\ summaries' = Append(summaries, rec)
            /\ rec.text \in Seq(Written) /\ rec.text # <<>>
            /\ Last(rec.text)[1] = rec.last
            /\ rec.last = seen[r] - Keep /\ rec.last \in 1 .. Len(messages)
            /\ rec.first .. rec.last \subseteq rec.merged
            /\ Chars(rec.text) <= Limit
            /\ ~overlap' =>
                  /\ ~overlap
                  /\ LinesInOrder(rec.text)
                  /\ summaries # <<>> => /\ rec.text[1] = summaries[1].text[1]
                                         /\ rec.last >= Last(summaries).last
  BY NewVersion
<1>2. /\ pc \in [Refreshers -> Steps] /\ seen \in [Refreshers -> Nat]
      /\ latest \in [Refreshers -> Nat] /\ overlap' \in BOOLEAN
      /\ pc[r] = "save" /\ pc' = [pc EXCEPT ![r] = "done"]
      /\ UNCHANGED <<messages, seen, latest>>
      /\ summaries \in Seq(Summary)
  BY DEF SummaryInv, SummaryTypeOK, SaveSummary
<1> DEFINE k == Len(summaries)
<1>3. /\ k \in Nat /\ Len(summaries') = k + 1
      /\ summaries' \in Seq(Summary)
      /\ SummaryVersions = 1 .. k /\ SummaryVersions' = 1 .. k + 1
      /\ \A v \in 1 .. k : summaries'[v] = summaries[v]
      /\ summaries'[k + 1] = rec
      /\ summaries' # <<>> /\ Last(summaries') = rec
  <2>1. /\ k \in Nat /\ DOMAIN summaries = 1 .. k
    BY <1>2
  <2>2. /\ Append(summaries, rec) \in Seq(Summary)
        /\ Len(Append(summaries, rec)) = k + 1
        /\ \A v \in 1 .. k : Append(summaries, rec)[v] = summaries[v]
        /\ Append(summaries, rec)[k + 1] = rec
        /\ Append(summaries, rec) # <<>>
    BY <1>2, AppendProperties
  <2>4. DOMAIN Append(summaries, rec) = 1 .. k + 1
    BY <2>2
  <2>3. Last(summaries') = summaries'[Len(summaries')]
    BY DEF Last
  <2> QED BY <2>1, <2>2, <2>3, <2>4, <1>1 DEF SummaryVersions
<1> HIDE DEF k
<1>4. SummaryTypeOK'
  BY <1>2, <1>3 DEF SummaryInv, SummaryTypeOK, Steps
<1>5. ASSUME NEW text PROVE Chars(text)' = Chars(text)
  BY <1>2 DEF Chars, Width
<1>6. Written' = Written
  BY <1>2 DEF Written
<1>7. \A v \in SummaryVersions' : Sound(v)'
  <2> SUFFICES ASSUME NEW v \in 1 .. k + 1 PROVE Sound(v)'
    BY <1>3
  <2>1. CASE v = k + 1
    <3>1. summaries'[v] = rec
      BY <2>1, <1>3
    <3>2. Chars(summaries[v].text)' = Chars(rec.text)
      BY <3>1, <1>2 DEF Chars, Width
    <3> QED BY <3>1, <3>2, <1>1, <1>2, <1>6 DEF Sound
  <2>2. CASE v # k + 1
    <3>1. v \in 1 .. k /\ summaries'[v] = summaries[v]
      BY <2>2, <1>3
    <3>2. Sound(v)
      BY <3>1, <1>3 DEF SummaryInv
    <3>3. Chars(summaries[v].text)' = Chars(summaries[v].text)
      BY <3>1, <1>2 DEF Chars, Width
    <3> QED BY <3>1, <3>2, <3>3, <1>2, <1>6 DEF Sound
  <2> QED BY <2>1, <2>2
<1>8. Straight'
  <2> SUFFICES ASSUME ~overlap', NEW v \in 1 .. k + 1
               PROVE  /\ summaries'[v].text[1] = summaries'[1].text[1]
                      /\ LinesInOrder(summaries'[v].text)
    BY <1>3 DEF Straight, LinesInOrder
  <2>1. CASE v = k + 1
    <3>1. summaries'[v] = rec /\ LinesInOrder(rec.text)
      BY <2>1, <1>1, <1>3
    <3>2. CASE k = 0
      BY <3>1, <3>2, <2>1
    <3>3. CASE k # 0
      <4>1. summaries # <<>> /\ 1 \in 1 .. k
        BY <3>3, <1>3 DEF k
      <4>2. rec.text[1] = summaries[1].text[1] /\ summaries'[1] = summaries[1]
        BY <4>1, <1>1, <1>3
      <4> QED BY <4>2, <3>1
    <3> QED BY <3>2, <3>3
  <2>2. CASE v # k + 1
    <3>1. v \in 1 .. k /\ 1 \in 1 .. k
      BY <2>2, <1>3
    <3>2. summaries'[v] = summaries[v] /\ summaries'[1] = summaries[1]
      BY <3>1, <1>3
    <3>3. summaries[v].text[1] = summaries[1].text[1] /\ LinesInOrder(summaries[v].text)
      BY <3>1, <1>1, <1>3 DEF SummaryInv, Straight
    <3> QED BY <3>2, <3>3
  <2> QED BY <2>1, <2>2
<1>9. \A a \in Refreshers : Informed(a)'
  <2> SUFFICES ASSUME NEW a \in Refreshers PROVE Informed(a)'
    OBVIOUS
  <2>1. Informed(a) /\ latest[a] \in Nat /\ (pc'[a] \in {"read", "save"} => pc'[a] = pc[a])
    BY <1>2 DEF SummaryInv
  <2>2. latest[a] <= k
    BY <2>1 DEF Informed, k
  <2>3. NewMessages(seen[a], latest[a])' = NewMessages(seen[a], latest[a])
    <3>1. StartAt(seen[a], latest[a])' = StartAt(seen[a], latest[a])
      <4>1. latest[a] = 0 \/ latest[a] \in 1 .. k
        BY <2>1, <2>2, <1>3
      <4>2. latest[a] = 0 \/ summaries'[latest[a]] = summaries[latest[a]]
        BY <4>1, <1>3
      <4> QED BY <4>2, <1>2 DEF StartAt
    <3> QED BY <3>1, <1>2 DEF NewMessages
  <2>4. latest'[a] <= Len(summaries')
    BY <2>1, <2>2, <1>2, <1>3
  <2>5. seen'[a] <= Len(messages') /\ (pc'[a] \in {"read", "save"} => seen'[a] > Threshold)
    BY <2>1, <1>2 DEF Informed
  <2>6. pc'[a] = "save" => NewMessages(seen[a], latest[a])' # <<>>
    BY <2>1, <2>3 DEF Informed
  <2> QED BY <2>4, <2>5, <2>6 DEF Informed
<1>10. RefreshClosesTheGap'
  <2> SUFFICES ASSUME NEW a \in Refreshers, ~overlap', pc'[a] = "done", seen[a] > Threshold
               PROVE  rec.last >= seen[a] - Keep
    BY <1>2, <1>3 DEF RefreshClosesTheGap
  <2>1. CASE a = r
    BY <2>1, <1>1, <1>2, SummaryAssumption
  <2>2. CASE a # r
    <3>1. pc[a] = "done" /\ ~overlap
      BY <2>2, <1>1, <1>2
    <3>2. summaries # <<>> /\ Last(summaries).last >= seen[a] - Keep
      BY <3>1 DEF SummaryInv, RefreshClosesTheGap
    <3>3. rec.last >= Last(summaries).last
      BY <3>2, <1>1
    <3>4. Last(summaries).last \in Nat
      <4>1. Last(summaries) \in Summary
        BY <3>2, <1>2 DEF Last
      <4> QED BY <4>1, SummaryAssumption DEF Summary
    <3>5. rec.last \in Nat /\ seen[a] \in Nat /\ Keep \in Nat
      BY <1>1, <1>2, SummaryAssumption DEF Summary
    <3> QED BY <3>2, <3>3, <3>4, <3>5
  <2> QED BY <2>1, <2>2
<1>11. Len(messages)' <= MaxMessages
  BY <1>2 DEF SummaryInv
<1> QED BY <1>4, <1>7, <1>8, <1>9, <1>10, <1>11 DEF SummaryInv

\* Return and Abandon: the thread forgets what it read.
LEMMA FreeAgainHolds ==
  ASSUME SummaryInv, NEW r \in Refreshers, Return(r) \/ Abandon(r)
  PROVE  SummaryInv'
<1>1. /\ pc \in [Refreshers -> Steps] /\ seen \in [Refreshers -> Nat]
      /\ latest \in [Refreshers -> Nat]
      /\ pc' = [pc EXCEPT ![r] = "idle"]
      /\ seen' = [seen EXCEPT ![r] = 0] /\ latest' = [latest EXCEPT ![r] = 0]
      /\ UNCHANGED <<messages, summaries, overlap>>
      /\ Len(messages) \in Nat /\ Len(summaries) \in Nat
  BY DEF SummaryInv, SummaryTypeOK, Return, Abandon
<1>2. SummaryTypeOK'
  BY <1>1, TablesStay DEF SummaryTypeOK, Steps
<1>3. \A a \in Refreshers : Informed(a)'
  <2> SUFFICES ASSUME NEW a \in Refreshers PROVE Informed(a)'
    OBVIOUS
  <2>1. Informed(a)
    BY DEF SummaryInv
  <2>2. CASE a = r
    BY <2>2, <1>1 DEF Informed
  <2>3. CASE a # r
    <3>1. pc'[a] = pc[a] /\ seen'[a] = seen[a] /\ latest'[a] = latest[a]
      BY <2>3, <1>1
    <3> QED BY <2>1, <3>1, <1>1 DEF Informed, NewMessages, StartAt
  <2> QED BY <2>2, <2>3
<1>4. RefreshClosesTheGap'
  <2> SUFFICES ASSUME NEW a \in Refreshers, ~overlap, pc'[a] = "done", seen'[a] > Threshold
               PROVE  summaries # <<>> /\ Last(summaries).last >= seen'[a] - Keep
    BY <1>1 DEF RefreshClosesTheGap
  <2>1. a # r
    BY <1>1
  <2>2. pc'[a] = pc[a] /\ seen'[a] = seen[a]
    BY <2>1, <1>1
  <2> QED BY <2>2 DEF SummaryInv, RefreshClosesTheGap
<1> QED BY <1>1, <1>2, <1>3, <1>4, TablesStay DEF SummaryInv

LEMMA StutterHolds == SummaryInv /\ UNCHANGED summaryVars => SummaryInv'
<1> SUFFICES ASSUME SummaryInv, UNCHANGED summaryVars PROVE SummaryInv'
  OBVIOUS
<1>1. SummaryTypeOK' /\ \A r \in Refreshers : Informed(r)'
  BY DEF summaryVars, SummaryInv, SummaryTypeOK, Informed, NewMessages, StartAt
<1>2. RefreshClosesTheGap'
  BY DEF summaryVars, SummaryInv, RefreshClosesTheGap
<1>3. UNCHANGED <<messages, summaries, overlap>>
  BY DEF summaryVars
<1> QED BY <1>1, <1>2, <1>3, TablesStay DEF SummaryInv

LEMMA SummaryInvHolds == SummarySpec => []SummaryInv
<1>1. SummaryInv /\ [SummaryNext]_summaryVars => SummaryInv'
  BY AppendMessageHolds, ReadMessagesHolds, ReadLatestHolds, SaveSummaryHolds,
     FreeAgainHolds, StutterHolds DEF SummaryNext
<1> QED BY InitHolds, <1>1, PTL DEF SummarySpec

-----------------------------------------------------------------------------
(* The theorems.                                                           *)

\* Every message is cut into the lines it may have, and every version is made of
\* lines of messages of the session (_merge_summary, save_summary).
THEOREM SummaryTypeCorrect == SummarySpec => []SummaryTypeOK
<1>1. SummaryInv => SummaryTypeOK
  BY DEF SummaryInv
<1> QED BY SummaryInvHolds, <1>1, PTL

\* A summary ends with the last message it says it covers, and has seen every
\* one of its range merged, however refreshes overlapped (_refresh_summary).
THEOREM RangesHold == SummarySpec => []CoversWhatItSays
<1>1. SummaryInv => CoversWhatItSays
  BY DEF SummaryInv, Sound, CoversWhatItSays, SummaryVersions
<1> QED BY SummaryInvHolds, <1>1, PTL

\* Whatever the widths of lines, a merge fits the limit; and while no refresh
\* overtakes another the oldest line stays and the order holds (_merge_summary).
THEOREM BeginningStays == SummarySpec => []KeepsTheBeginning
<1>1. SummaryInv => KeepsTheBeginning
  BY DEF SummaryInv, Sound, Straight, LinesInOrder, KeepsTheBeginning, SummaryVersions
<1> QED BY SummaryInvHolds, <1>1, PTL

\* While no refresh overtakes another, a prompt's summary and the messages kept
\* whole leave no message out (_refresh_summary).
THEOREM NoGap == SummarySpec => []RefreshClosesTheGap
<1>1. SummaryInv => RefreshClosesTheGap
  BY DEF SummaryInv
<1> QED BY SummaryInvHolds, <1>1, PTL


=============================================================================
