--------------------------- MODULE Listing_proofs ---------------------------
(***************************************************************************)
(* What Listing computes, whatever is listed: a sorted list has every      *)
(* element once and in order, of a filtered sequence the entries that are  *)
(* left are in their old order, a joined one has the entries of all. Then  *)
(* sums and highest numbers of finite sets. The sums of the libraries are  *)
(* folds over sets, and what a fold returns is shown for the steps a sum   *)
(* takes.                                                                  *)
(***************************************************************************)
EXTENDS Listing, Integers, Functions, FiniteSetsExt, FiniteSetTheorems, SequenceTheorems,
        WellFoundedInduction, TLAPS

-----------------------------------------------------------------------------
(* Filtering, joining and sorting.                                         *)

\* A strict order of all elements of S.
Sorts(order, S) ==
    /\ \A x, y \in S : x # y => <<x, y>> \in order \/ <<y, x>> \in order
    /\ \A x \in S : <<x, x>> \notin order
    /\ \A x, y, z \in S : <<x, y>> \in order /\ <<y, z>> \in order => <<x, z>> \in order

\* p lists the elements of S in that order, each of them once.
Lists(p, S, order) ==
    /\ p \in [1 .. Cardinality(S) -> S]
    /\ \A x \in S : \E n \in 1 .. Cardinality(S) : p[n] = x
    /\ \A m, n \in 1 .. Cardinality(S) : p[m] = p[n] => m = n
    /\ \A m, n \in 1 .. Cardinality(S) : m < n => <<p[m], p[n]>> \in order

Earlier(x, S, order) == {y \in S : <<y, x>> \in order}

LEMMA EarlierIsCounted ==
  ASSUME NEW S, IsFiniteSet(S), NEW order, Sorts(order, S), NEW x \in S
  PROVE  /\ IsFiniteSet(Earlier(x, S, order))
         /\ Cardinality(Earlier(x, S, order)) \in 0 .. Cardinality(S) - 1
<1>1. Cardinality(S) \in Nat
  BY FS_CardinalityType
<1>2. IsFiniteSet(S \ {x}) /\ Cardinality(S \ {x}) = Cardinality(S) - 1
  BY FS_RemoveElement
<1>3. Earlier(x, S, order) \subseteq S \ {x}
  BY DEF Earlier, Sorts
<1>4. /\ IsFiniteSet(Earlier(x, S, order)) /\ Cardinality(Earlier(x, S, order)) \in Nat
      /\ Cardinality(Earlier(x, S, order)) <= Cardinality(S \ {x})
  BY <1>2, <1>3, FS_Subset, FS_CardinalityType
<1> QED BY <1>1, <1>2, <1>4

\* Of two elements the one that comes first has fewer before it.
LEMMA FirstHasFewer ==
  ASSUME NEW S, IsFiniteSet(S), NEW order, Sorts(order, S), NEW x \in S, NEW y \in S,
         <<x, y>> \in order
  PROVE  Cardinality(Earlier(x, S, order)) < Cardinality(Earlier(y, S, order))
<1> DEFINE a == Earlier(x, S, order)
           b == Earlier(y, S, order)
<1>1. a \cup {x} \subseteq b /\ x \notin a
  BY DEF Earlier, Sorts
<1>2. /\ IsFiniteSet(a) /\ Cardinality(a) \in Nat
      /\ IsFiniteSet(b) /\ Cardinality(b) \in Nat
  BY EarlierIsCounted, FS_CardinalityType
<1> HIDE DEF a, b
<1>3. Cardinality(a \cup {x}) = Cardinality(a) + 1
  BY <1>1, <1>2, FS_AddElement
<1>4. Cardinality(a \cup {x}) <= Cardinality(b)
  BY <1>1, <1>2, FS_Subset
<1>5. Cardinality(a) < Cardinality(b)
  BY <1>2, <1>3, <1>4
<1> QED BY <1>5 DEF a, b

LEMMA EveryPlaceIsTaken ==
  ASSUME NEW S, IsFiniteSet(S), NEW order, Sorts(order, S), NEW n \in 1 .. Cardinality(S)
  PROVE  \E x \in S : Cardinality(Earlier(x, S, order)) = n - 1
<1> DEFINE places == 0 .. Cardinality(S) - 1
           f      == [x \in S |-> Cardinality(Earlier(x, S, order))]
<1>1. Cardinality(S) \in Nat
  BY FS_CardinalityType
<1>2. f \in [S -> places]
  BY EarlierIsCounted
<1>3. \A x, y \in S : x # y => f[x] # f[y]
  <2> SUFFICES ASSUME NEW x \in S, NEW y \in S, <<x, y>> \in order PROVE f[x] # f[y]
    <3>1. \A x, y \in S : x # y => <<x, y>> \in order \/ <<y, x>> \in order
      BY DEF Sorts
    <3> QED BY <3>1
  <2>1. f[x] < f[y]
    BY FirstHasFewer
  <2>2. f[x] \in Int /\ f[y] \in Int
    BY <1>1, <1>2
  <2> QED BY <2>1, <2>2
<1>4. f \in Injection(S, places)
  BY <1>2, <1>3 DEF Injection, IsInjective
<1>5. IsFiniteSet(places) /\ Cardinality(places) = Cardinality(S)
  <2>1. 0 \in Int /\ Cardinality(S) - 1 \in Int
    BY <1>1
  <2>2. /\ IsFiniteSet(places)
        /\ Cardinality(places) = IF 0 > Cardinality(S) - 1 THEN 0
                                 ELSE (Cardinality(S) - 1) - 0 + 1
    BY <2>1, FS_Interval
  <2> HIDE DEF places
  <2> QED BY <2>2, <1>1
<1> HIDE DEF f, places
<1>6. f \in Surjection(S, places)
  BY <1>4, <1>5, FS_Injection
<1>7. n - 1 \in places
  BY <1>1 DEF places
<1>8. PICK x \in S : f[x] = n - 1
  BY <1>6, <1>7 DEF Surjection
<1> QED BY <1>8 DEF f

\* Listed sorts: its entries are the values of the function in the given order of
\* its arguments, one for each.
LEMMA ListedFacts ==
  ASSUME NEW f, NEW S, S = DOMAIN f, IsFiniteSet(S), NEW order, Sorts(order, S)
  PROVE  \E p : /\ Lists(p, S, order)
                /\ Listed(f, order) = [n \in 1 .. Cardinality(S) |-> f[p[n]]]
<1> DEFINE N    == Cardinality(S)
           p[n \in 1 .. N] == CHOOSE x \in S : Cardinality(Earlier(x, S, order)) = n - 1
<1>1. N \in Nat
  BY FS_CardinalityType
<1>2. ASSUME NEW n \in 1 .. N
      PROVE  p[n] \in S /\ Cardinality(Earlier(p[n], S, order)) = n - 1
  <2>1. \E x \in S : Cardinality(Earlier(x, S, order)) = n - 1
    BY EveryPlaceIsTaken
  <2> QED BY <2>1
<1>3. Listed(f, order) = [n \in 1 .. N |-> f[p[n]]]
  BY DEF Listed, Earlier
<1> SUFFICES Lists(p, S, order)
  BY <1>3
<1>4. p \in [1 .. N -> S]
  BY <1>2
<1> HIDE DEF p
<1>5. \A m, n \in 1 .. N : p[m] = p[n] => m = n
  <2> SUFFICES ASSUME NEW m \in 1 .. N, NEW n \in 1 .. N, p[m] = p[n] PROVE m = n
    OBVIOUS
  <2>1. m - 1 = n - 1
    BY <1>2
  <2> QED BY <2>1, <1>1
<1>6. ASSUME NEW m \in 1 .. N, NEW n \in 1 .. N, m < n PROVE <<p[m], p[n]>> \in order
  <2> SUFFICES ASSUME <<p[n], p[m]>> \in order PROVE FALSE
    <3>1. p[m] # p[n] /\ p[m] \in S /\ p[n] \in S
      BY <1>2, <1>5, <1>6, <1>1
    <3> QED BY <3>1 DEF Sorts
  <2>1. p[m] \in S /\ p[n] \in S
    BY <1>2
  <2>2. Cardinality(Earlier(p[n], S, order)) < Cardinality(Earlier(p[m], S, order))
    BY <2>1, FirstHasFewer
  <2>3. n - 1 < m - 1
    BY <2>2, <1>2
  <2> QED BY <2>3, <1>6, <1>1
<1>7. ASSUME NEW x \in S PROVE \E n \in 1 .. N : p[n] = x
  <2> DEFINE k == Cardinality(Earlier(x, S, order))
  <2>1. k \in 0 .. N - 1
    BY EarlierIsCounted
  <2>2. k + 1 \in 1 .. N
    BY <2>1, <1>1
  <2>3. p[k + 1] \in S /\ Cardinality(Earlier(p[k + 1], S, order)) = (k + 1) - 1
    BY <2>2, <1>2
  <2>4. Cardinality(Earlier(p[k + 1], S, order)) = k /\ k \in Int
    BY <2>1, <2>3, <1>1
  <2>5. ASSUME p[k + 1] # x PROVE FALSE
    <3>1. <<p[k + 1], x>> \in order \/ <<x, p[k + 1]>> \in order
      BY <2>3, <2>5 DEF Sorts
    <3>2. k < k
      BY <3>1, <2>3, <2>4, FirstHasFewer
    <3> QED BY <3>2, <2>4
  <2> QED BY <2>2, <2>5
<1> QED BY <1>4, <1>5, <1>6, <1>7 DEF Lists
LEMMA IndicesFinite ==
  ASSUME NEW T, NEW s \in Seq(T), NEW indices, indices \subseteq DOMAIN s
  PROVE  /\ IsFiniteSet(indices) /\ Cardinality(indices) \in Nat
         /\ Cardinality(indices) <= Len(s)
         /\ Cardinality(indices) = Len(s) => indices = DOMAIN s
<1>1. Len(s) \in Nat /\ DOMAIN s = 1 .. Len(s) /\ 1 \in Int /\ Len(s) \in Int
  OBVIOUS
<1>2. /\ IsFiniteSet(1 .. Len(s))
      /\ Cardinality(1 .. Len(s)) = IF 1 > Len(s) THEN 0 ELSE Len(s) - 1 + 1
  BY <1>1, FS_Interval
<1>3. IsFiniteSet(DOMAIN s) /\ Cardinality(DOMAIN s) = Len(s)
  BY <1>1, <1>2
<1>4. /\ IsFiniteSet(indices) /\ Cardinality(indices) <= Cardinality(DOMAIN s)
      /\ Cardinality(DOMAIN s) = Cardinality(indices) => DOMAIN s = indices
  BY <1>3, FS_Subset
<1>5. Cardinality(indices) \in Nat
  BY <1>4, FS_CardinalityType
<1> QED BY <1>3, <1>4, <1>5

\* t is what is left of s: its entries are those of s at the indices, in their order.
IsLeft(p, t, s, indices) ==
    /\ p \in [DOMAIN t -> indices]
    /\ \A i \in indices : \E n \in DOMAIN t : p[n] = i
    /\ \A m, n \in DOMAIN t : m < n => p[m] < p[n]
    /\ \A m, n \in DOMAIN t : p[m] = p[n] => m = n
    /\ \A n \in DOMAIN t : t[n] = s[p[n]]

LEMMA ThoseFacts ==
  ASSUME NEW T, NEW s \in Seq(T), NEW indices, indices \subseteq DOMAIN s
  PROVE  /\ Those(s, indices) \in Seq(T)
         /\ Len(Those(s, indices)) = Cardinality(indices)
         /\ \E p : IsLeft(p, Those(s, indices), s, indices)
<1> DEFINE f     == [i \in indices |-> s[i]]
           order == {p \in indices \X indices : p[1] < p[2]}
           t     == Those(s, indices)
           N     == Cardinality(indices)
<1>1. IsFiniteSet(indices) /\ N \in Nat
  BY IndicesFinite
<1>2. \A i \in indices : i \in Nat /\ s[i] \in T
  OBVIOUS
<1>3. Sorts(order, indices)
  BY <1>2 DEF Sorts
<1>4. \A i, j \in indices : <<i, j>> \in order <=> i < j
  OBVIOUS
<1>5. t = Listed(f, order) /\ DOMAIN f = indices /\ \A i \in indices : f[i] = s[i]
  BY DEF Those
<1> HIDE DEF f, order, t
<1>6. PICK p : Lists(p, indices, order) /\ Listed(f, order) = [n \in 1 .. N |-> f[p[n]]]
  BY <1>1, <1>3, <1>5, ListedFacts
<1>7. /\ p \in [1 .. N -> indices]
      /\ \A i \in indices : \E n \in 1 .. N : p[n] = i
      /\ \A m, n \in 1 .. N : p[m] = p[n] => m = n
      /\ \A m, n \in 1 .. N : m < n => p[m] < p[n]
  BY <1>4, <1>6 DEF Lists
<1>8. t = [n \in 1 .. N |-> s[p[n]]]
  BY <1>5, <1>6, <1>7
<1>9. \A n \in 1 .. N : p[n] \in indices /\ s[p[n]] \in T
  BY <1>2, <1>7
<1>10. t \in Seq(T)
  BY <1>1, <1>8, <1>9, IsASeq
<1>11. Len(t) = N /\ DOMAIN t = 1 .. N
  BY <1>1, <1>8, <1>10
<1>12. IsLeft(p, t, s, indices)
  BY <1>7, <1>8, <1>11 DEF IsLeft
<1> QED BY <1>10, <1>11, <1>12 DEF t

LEMMA ThoseEntries ==
  ASSUME NEW T, NEW s \in Seq(T), NEW indices, indices \subseteq DOMAIN s
  PROVE  /\ \A n \in DOMAIN Those(s, indices) : \E i \in indices : Those(s, indices)[n] = s[i]
         /\ \A i \in indices : \E n \in DOMAIN Those(s, indices) : Those(s, indices)[n] = s[i]
<1> DEFINE t == Those(s, indices)
<1>1. PICK p : IsLeft(p, t, s, indices)
  BY ThoseFacts
<1> HIDE DEF t
<1> QED BY <1>1 DEF IsLeft, t

LEMMA PlacesFinite ==
  ASSUME NEW T, NEW ss \in Seq(Seq(T))
  PROVE  /\ IsFiniteSet(Places(ss))
         /\ \A p \in Places(ss) :
                /\ p = <<p[1], p[2]>>
                /\ p[1] \in DOMAIN ss /\ p[2] \in DOMAIN ss[p[1]]
                /\ p[1] \in Nat /\ p[2] \in Nat /\ ss[p[1]][p[2]] \in T
         /\ \A k \in DOMAIN ss : \A j \in DOMAIN ss[k] : <<k, j>> \in Places(ss)
<1> DEFINE Of(k) == {k} \X (DOMAIN ss[k])
           parts == {Of(k) : k \in DOMAIN ss}
           g     == [k \in DOMAIN ss |-> Of(k)]
<1>1. \A k \in DOMAIN ss : ss[k] \in Seq(T) /\ k \in Nat
  OBVIOUS
<1>2. \A k \in DOMAIN ss : IsFiniteSet(DOMAIN ss[k])
  BY <1>1, IndicesFinite
<1>3. \A k \in DOMAIN ss : IsFiniteSet(Of(k))
  BY <1>2, FS_Singleton, FS_Product
<1>4. g \in Surjection(DOMAIN ss, parts)
  BY DEF Surjection
<1>5. IsFiniteSet(DOMAIN ss)
  BY IndicesFinite
<1>6. IsFiniteSet(parts)
  BY <1>4, <1>5, FS_Surjection
<1>7. \A s \in parts : IsFiniteSet(s)
  BY <1>3
<1>8. Places(ss) = UNION parts
  BY DEF Places
<1>9. IsFiniteSet(UNION parts)
  <2> HIDE DEF parts
  <2> QED BY <1>6, <1>7, FS_UNION
<1>10. ASSUME NEW p \in Places(ss)
       PROVE  /\ p = <<p[1], p[2]>>
              /\ p[1] \in DOMAIN ss /\ p[2] \in DOMAIN ss[p[1]]
  BY DEF Places
<1>11. ASSUME NEW p \in Places(ss)
       PROVE  p[1] \in Nat /\ p[2] \in Nat /\ ss[p[1]][p[2]] \in T
  <2>1. ss[p[1]] \in Seq(T) /\ p[1] \in Nat /\ p[2] \in DOMAIN ss[p[1]]
    BY <1>1, <1>10
  <2> QED BY <2>1
<1>12. \A k \in DOMAIN ss : \A j \in DOMAIN ss[k] : <<k, j>> \in Places(ss)
  BY DEF Places
<1> QED BY <1>8, <1>9, <1>10, <1>11, <1>12

\* t has every entry of every sequence of ss once.
IsJoined(p, t, ss) ==
    /\ \A n \in DOMAIN t : /\ p[n] = <<p[n][1], p[n][2]>>
                           /\ p[n][1] \in DOMAIN ss /\ p[n][2] \in DOMAIN ss[p[n][1]]
                           /\ t[n] = ss[p[n][1]][p[n][2]]
    /\ \A k \in DOMAIN ss : \A j \in DOMAIN ss[k] : \E n \in DOMAIN t : p[n] = <<k, j>>
    /\ \A m, n \in DOMAIN t : p[m] = p[n] => m = n

LEMMA JoinedFacts ==
  ASSUME NEW T, NEW ss \in Seq(Seq(T))
  PROVE  /\ Joined(ss) \in Seq(T)
         /\ \E p : IsJoined(p, Joined(ss), ss)
<1> DEFINE all   == Places(ss)
           f     == [p \in all |-> ss[p[1]][p[2]]]
           order == {pq \in all \X all : Sooner(pq[1], pq[2])}
           t     == Joined(ss)
           N     == Cardinality(all)
<1>1. IsFiniteSet(all) /\ N \in Nat
  BY PlacesFinite, FS_CardinalityType
<1>2. \A p \in all : /\ p = <<p[1], p[2]>>
                     /\ p[1] \in DOMAIN ss /\ p[2] \in DOMAIN ss[p[1]]
                     /\ p[1] \in Nat /\ p[2] \in Nat /\ ss[p[1]][p[2]] \in T
  BY PlacesFinite
<1>3. \A p, q \in all : <<p, q>> \in order <=> Sooner(p, q)
  OBVIOUS
<1>4. t = Listed(f, order) /\ DOMAIN f = all /\ \A p \in all : f[p] = ss[p[1]][p[2]]
  BY DEF Joined
<1>12. \A k \in DOMAIN ss : \A j \in DOMAIN ss[k] : <<k, j>> \in all
  BY PlacesFinite
<1> HIDE DEF f, order, t, all
<1>5. Sorts(order, all)
  <2>1. ASSUME NEW p \in all, NEW q \in all, p # q PROVE Sooner(p, q) \/ Sooner(q, p)
    <3>1. p[1] # q[1] \/ p[2] # q[2]
      BY <1>2, <2>1
    <3> QED BY <3>1, <1>2 DEF Sooner
  <2>2. \A p \in all : ~ Sooner(p, p)
    BY <1>2 DEF Sooner
  <2>3. \A p, q, r \in all : Sooner(p, q) /\ Sooner(q, r) => Sooner(p, r)
    BY <1>2 DEF Sooner
  <2> QED BY <1>3, <2>1, <2>2, <2>3 DEF Sorts
<1>6. PICK p : Lists(p, all, order) /\ Listed(f, order) = [n \in 1 .. N |-> f[p[n]]]
  BY <1>1, <1>4, <1>5, ListedFacts
<1>7. /\ p \in [1 .. N -> all]
      /\ \A x \in all : \E n \in 1 .. N : p[n] = x
      /\ \A m, n \in 1 .. N : p[m] = p[n] => m = n
  BY <1>6 DEF Lists
<1>8. \A n \in 1 .. N : /\ p[n] \in all /\ f[p[n]] = ss[p[n][1]][p[n][2]]
                        /\ f[p[n]] \in T /\ p[n][1] \in DOMAIN ss
                        /\ p[n][2] \in DOMAIN ss[p[n][1]]
                        /\ p[n] = <<p[n][1], p[n][2]>>
  BY <1>2, <1>4, <1>7
<1>9. t = [n \in 1 .. N |-> f[p[n]]]
  BY <1>4, <1>6
<1>10. t \in Seq(T)
  <2>1. \A n \in 1 .. N : f[p[n]] \in T
    BY <1>8
  <2> QED BY <1>1, <1>9, <2>1, IsASeq
<1>11. DOMAIN t = 1 .. N /\ \A n \in 1 .. N : t[n] = f[p[n]]
  BY <1>9
<1>13. \A k \in DOMAIN ss : \A j \in DOMAIN ss[k] : \E n \in DOMAIN t : p[n] = <<k, j>>
  BY <1>7, <1>11, <1>12
<1>14. IsJoined(p, t, ss)
  BY <1>7, <1>8, <1>11, <1>13 DEF IsJoined
<1> QED BY <1>10, <1>14 DEF t
-----------------------------------------------------------------------------
(* Adding.                                                                 *)

Some(s) == CHOOSE x \in s : TRUE
Sums(g, counts, L) ==
    g = [s \in SUBSET L |-> IF s = {} THEN 0 ELSE counts[Some(s)] + g[s \ {Some(s)}]]

\* SumFunction is a function of the sets of indices.
LEMMA SumIsAFold ==
  ASSUME NEW counts, NEW L, DOMAIN counts = L
  PROVE  SumFunction(counts) = (CHOOSE g : Sums(g, counts, L))[L]
BY DEF SumFunction, SumFunctionOnSet, FoldFunctionOnSet, MapThenFoldSet, Sums, Some

\* What the numbers of the elements with each value add up to.
LEMMA SumOfCounts ==
  ASSUME NEW L, IsFiniteSet(L), NEW S, IsFiniteSet(S), NEW f, \A i \in S : f[i] \in L
  PROVE  SumFunction([l \in L |-> Cardinality({i \in S : f[i] = l})]) = Cardinality(S)
<1> DEFINE With(s) == {i \in S : f[i] \in s}
           counts  == [l \in L |-> Cardinality({i \in S : f[i] = l})]
           G       == [s \in SUBSET L |-> Cardinality(With(s))]
<1>1. With(L) = S /\ With({}) = {}
  OBVIOUS
<1>2. \A s : IsFiniteSet(With(s)) /\ Cardinality(With(s)) \in Nat
  <2>1. \A s : With(s) \subseteq S
    OBVIOUS
  <2> QED BY <2>1, FS_Subset, FS_CardinalityType
<1>3. \A s : s # {} => Some(s) \in s
  BY DEF Some
<1>4. ASSUME NEW s \in SUBSET L, NEW l \in s
      PROVE  Cardinality(With(s)) = counts[l] + Cardinality(With(s \ {l}))
  <2> DEFINE here == {i \in S : f[i] = l}
             rest == With(s \ {l})
  <2>1. With(s) = here \cup rest /\ here \cap rest = {} /\ here \subseteq S
    OBVIOUS
  <2>2. IsFiniteSet(here) /\ IsFiniteSet(rest)
    BY <1>2, <2>1, FS_Subset
  <2>3. counts[l] = Cardinality(here)
    OBVIOUS
  <2> HIDE DEF here, rest, counts, With
  <2>4. /\ Cardinality(here \cup rest) = Cardinality(here) + Cardinality(rest) - Cardinality({})
        /\ Cardinality(here) \in Nat /\ Cardinality(rest) \in Nat
    BY <2>1, <2>2, FS_Union, FS_CardinalityType
  <2>5. Cardinality({}) = 0
    BY FS_EmptySet
  <2>6. Cardinality(With(s)) = Cardinality(here) + Cardinality(rest)
    BY <2>1, <2>4, <2>5
  <2> QED BY <2>3, <2>6 DEF rest
<1> HIDE DEF counts, With
<1>5. Sums(G, counts, L)
  <2>1. ASSUME NEW s \in SUBSET L
        PROVE  G[s] = IF s = {} THEN 0 ELSE counts[Some(s)] + G[s \ {Some(s)}]
    <3>1. CASE s = {}
      BY <3>1, <1>1, FS_EmptySet
    <3>2. CASE s # {}
      <4>1. Some(s) \in s /\ s \ {Some(s)} \in SUBSET L
        BY <3>2, <1>3
      <4> QED BY <3>2, <4>1, <1>4
    <3> QED BY <3>1, <3>2
  <2> QED BY <2>1 DEF Sums
<1> DEFINE g == CHOOSE h : Sums(h, counts, L)
<1> HIDE DEF G
<1>6. Sums(g, counts, L)
  BY <1>5
<1> HIDE DEF g
<1>7. \A s \in SUBSET L : g[s] = G[s]
  <2> DEFINE Off == {s \in SUBSET L : g[s] # G[s]}
  <2> SUFFICES ASSUME Off # {} PROVE FALSE
    OBVIOUS
  <2>1. Off \subseteq FiniteSubsetsOf(L)
    BY FS_FiniteSubsetsOfFinite
  <2>2. PICK s \in Off : \A t \in Off : ~ (<<t, s>> \in StrictSubsetOrdering(L))
    <3> HIDE DEF Off
    <3> QED BY <2>1, FS_StrictSubsetOrderingWellFounded, WFMin
  <2>3. /\ g[s] = IF s = {} THEN 0 ELSE counts[Some(s)] + g[s \ {Some(s)}]
        /\ G[s] = IF s = {} THEN 0 ELSE counts[Some(s)] + G[s \ {Some(s)}]
    BY <1>5, <1>6 DEF Sums
  <2>4. CASE s = {}
    BY <2>3, <2>4
  <2>5. CASE s # {}
    <3> DEFINE t == s \ {Some(s)}
    <3>1. t \in SUBSET L /\ t \subseteq s /\ t # s
      BY <2>5, <1>3
    <3>2. <<t, s>> \in StrictSubsetOrdering(L)
      BY <3>1 DEF StrictSubsetOrdering
    <3>3. g[t] = G[t]
      BY <3>1, <3>2, <2>2
    <3> QED BY <3>3, <2>3, <2>5
  <2> QED BY <2>4, <2>5
<1>8. G[L] = Cardinality(S)
  BY <1>1 DEF G
<1>9. SumFunction(counts) = g[L]
  <2>1. DOMAIN counts = L
    BY DEF counts
  <2> QED BY <2>1, SumIsAFold DEF g
<1>10. L \in SUBSET L
  OBVIOUS
<1>11. SumFunction(counts) = Cardinality(S)
  BY <1>7, <1>8, <1>9, <1>10
<1> QED BY <1>11 DEF counts

Pairs(w) == UNION {{l} \X (1 .. w[l]) : l \in DOMAIN w}

\* The sum of finitely many numbers is the number of pairs of an index and one of
\* as many numbers as it has.
LEMMA SumCountsPairs ==
  ASSUME NEW L, IsFiniteSet(L), NEW w \in [L -> Nat]
  PROVE  /\ IsFiniteSet(Pairs(w)) /\ SumFunction(w) = Cardinality(Pairs(w))
         /\ \A l : L = {l} => SumFunction(w) = w[l]
<1> DEFINE Of(l) == {l} \X (1 .. w[l])
           S     == UNION {Of(l) : l \in L}
           f     == [x \in S |-> x[1]]
<1>1. \A l \in L : IsFiniteSet(Of(l)) /\ Cardinality(Of(l)) = w[l]
  <2> SUFFICES ASSUME NEW l \in L PROVE IsFiniteSet(Of(l)) /\ Cardinality(Of(l)) = w[l]
    OBVIOUS
  <2>1. 1 \in Int /\ w[l] \in Int /\ w[l] \in Nat
    OBVIOUS
  <2>2. /\ IsFiniteSet(1 .. w[l])
        /\ Cardinality(1 .. w[l]) = IF 1 > w[l] THEN 0 ELSE w[l] - 1 + 1
    BY <2>1, FS_Interval
  <2>3. Cardinality(1 .. w[l]) = w[l]
    BY <2>1, <2>2
  <2>4. IsFiniteSet({l}) /\ Cardinality({l}) = 1
    BY FS_Singleton
  <2>5. IsFiniteSet(Of(l)) /\ Cardinality(Of(l)) = 1 * w[l]
    BY <2>2, <2>3, <2>4, FS_Product
  <2> QED BY <2>1, <2>5
<1>2. IsFiniteSet(S)
  <2> DEFINE T == {Of(l) : l \in L}
             g == [l \in L |-> Of(l)]
  <2>1. g \in Surjection(L, T)
    BY DEF Surjection
  <2>2. IsFiniteSet(T)
    BY <2>1, FS_Surjection
  <2>3. \A s \in T : IsFiniteSet(s)
    BY <1>1
  <2> HIDE DEF T
  <2>4. IsFiniteSet(UNION T)
    BY <2>2, <2>3, FS_UNION
  <2> QED BY <2>4 DEF T
<1>3. \A x \in S : f[x] \in L
  OBVIOUS
<1>4. \A l \in L : {x \in S : f[x] = l} = Of(l)
  OBVIOUS
<1>5. w = [l \in L |-> Cardinality({x \in S : f[x] = l})]
  BY <1>1, <1>4
<1>6. SumFunction(w) = Cardinality(S)
  <2> HIDE DEF f, S
  <2>1. SumFunction([l \in L |-> Cardinality({x \in S : f[x] = l})]) = Cardinality(S)
    BY <1>2, <1>3, SumOfCounts
  <2> QED BY <2>1, <1>5
<1>7. ASSUME NEW l, L = {l} PROVE Cardinality(S) = w[l]
  <2>1. S = Of(l)
    BY <1>7
  <2> QED BY <2>1, <1>1, <1>7
<1>8. S = Pairs(w)
  BY DEF Pairs
<1> QED BY <1>2, <1>6, <1>7, <1>8

\* More numbers, and greater ones, add up to no less.
LEMMA SumIsMonotone ==
  ASSUME NEW K, NEW L, IsFiniteSet(L), K \subseteq L,
         NEW v \in [K -> Nat], NEW w \in [L -> Nat], \A k \in K : v[k] <= w[k]
  PROVE  SumFunction(v) \in Nat /\ SumFunction(w) \in Nat /\ SumFunction(v) <= SumFunction(w)
<1>1. IsFiniteSet(K)
  BY FS_Subset
<1>2. /\ IsFiniteSet(Pairs(v)) /\ SumFunction(v) = Cardinality(Pairs(v))
      /\ IsFiniteSet(Pairs(w)) /\ SumFunction(w) = Cardinality(Pairs(w))
  BY <1>1, SumCountsPairs
<1>3. Pairs(v) \subseteq Pairs(w)
  <2> SUFFICES ASSUME NEW k \in K, NEW n \in 1 .. v[k] PROVE <<k, n>> \in Pairs(w)
    BY DEF Pairs
  <2>1. k \in L /\ v[k] \in Nat /\ w[k] \in Nat /\ v[k] <= w[k]
    OBVIOUS
  <2>2. n \in 1 .. w[k]
    BY <2>1
  <2> QED BY <2>1, <2>2 DEF Pairs
<1>4. Cardinality(Pairs(v)) <= Cardinality(Pairs(w))
  BY <1>2, <1>3, FS_Subset
<1>5. Cardinality(Pairs(v)) \in Nat /\ Cardinality(Pairs(w)) \in Nat
  BY <1>2, FS_CardinalityType
<1> QED BY <1>2, <1>4, <1>5

LEMMA SumOfNone ==
  ASSUME NEW w \in [{} -> Nat]
  PROVE  SumFunction(w) = 0
<1>1. Pairs(w) = {}
  BY DEF Pairs
<1> QED BY <1>1, SumCountsPairs, FS_EmptySet

\* The sum of finitely many numbers is the number of pairs of an index and one of
\* as many numbers as it has.
LEMMA SumIsANumber ==
  ASSUME NEW L, IsFiniteSet(L), NEW w \in [L -> Nat]
  PROVE  /\ SumFunction(w) \in Nat
         /\ L = {} => SumFunction(w) = 0
         /\ \A l : L = {l} => SumFunction(w) = w[l]
<1> DEFINE Of(l) == {l} \X (1 .. w[l])
           S     == UNION {Of(l) : l \in L}
           f     == [x \in S |-> x[1]]
<1>1. \A l \in L : IsFiniteSet(Of(l)) /\ Cardinality(Of(l)) = w[l]
  <2> SUFFICES ASSUME NEW l \in L PROVE IsFiniteSet(Of(l)) /\ Cardinality(Of(l)) = w[l]
    OBVIOUS
  <2>1. 1 \in Int /\ w[l] \in Int /\ w[l] \in Nat
    OBVIOUS
  <2>2. /\ IsFiniteSet(1 .. w[l])
        /\ Cardinality(1 .. w[l]) = IF 1 > w[l] THEN 0 ELSE w[l] - 1 + 1
    BY <2>1, FS_Interval
  <2>3. Cardinality(1 .. w[l]) = w[l]
    BY <2>1, <2>2
  <2>4. IsFiniteSet({l}) /\ Cardinality({l}) = 1
    BY FS_Singleton
  <2>5. IsFiniteSet(Of(l)) /\ Cardinality(Of(l)) = 1 * w[l]
    BY <2>2, <2>3, <2>4, FS_Product
  <2> QED BY <2>1, <2>5
<1>2. IsFiniteSet(S)
  <2> DEFINE T == {Of(l) : l \in L}
             g == [l \in L |-> Of(l)]
  <2>1. g \in Surjection(L, T)
    BY DEF Surjection
  <2>2. IsFiniteSet(T)
    BY <2>1, FS_Surjection
  <2>3. \A s \in T : IsFiniteSet(s)
    BY <1>1
  <2> HIDE DEF T
  <2>4. IsFiniteSet(UNION T)
    BY <2>2, <2>3, FS_UNION
  <2> QED BY <2>4 DEF T
<1>3. \A x \in S : f[x] \in L
  OBVIOUS
<1>4. \A l \in L : {x \in S : f[x] = l} = Of(l)
  OBVIOUS
<1>5. w = [l \in L |-> Cardinality({x \in S : f[x] = l})]
  BY <1>1, <1>4
<1>6. SumFunction(w) = Cardinality(S)
  <2> HIDE DEF f, S
  <2>1. SumFunction([l \in L |-> Cardinality({x \in S : f[x] = l})]) = Cardinality(S)
    BY <1>2, <1>3, SumOfCounts
  <2> QED BY <2>1, <1>5
<1>7. Cardinality(S) \in Nat
  BY <1>2, FS_CardinalityType
<1>8. L = {} => Cardinality(S) = 0
  <2>1. L = {} => S = {}
    OBVIOUS
  <2> QED BY <2>1, FS_EmptySet
<1>9. ASSUME NEW l, L = {l} PROVE Cardinality(S) = w[l]
  <2>1. S = Of(l)
    BY <1>9
  <2> QED BY <2>1, <1>1, <1>9
<1> QED BY <1>6, <1>7, <1>8, <1>9

-----------------------------------------------------------------------------
(* Counting.                                                               *)

\* A finite set of numbers has a highest one.
LEMMA HighestExists ==
  ASSUME NEW S, IsFiniteSet(S), S \subseteq Nat, S # {}
  PROVE  Max(S) \in S /\ \A n \in S : n <= Max(S)
<1> DEFINE Beyond(n) == {m \in S : m > n}
           sets == {Beyond(n) : n \in S}
<1>1. sets \subseteq FiniteSubsetsOf(S) /\ sets # {}
  <2>1. \A n \in S : Beyond(n) \in SUBSET S
    OBVIOUS
  <2> HIDE DEF Beyond
  <2>2. \A n \in S : IsFiniteSet(Beyond(n))
    BY <2>1, FS_Subset
  <2> QED BY <2>1, <2>2 DEF FiniteSubsetsOf
<1>2. PICK x \in sets : \A y \in sets : ~ (<<y, x>> \in StrictSubsetOrdering(S))
  BY <1>1, FS_StrictSubsetOrderingWellFounded, WFMin
<1>3. PICK n \in S : x = Beyond(n)
  OBVIOUS
<1>4. ASSUME NEW m \in S PROVE n >= m
  <2> SUFFICES ASSUME m > n PROVE FALSE
    OBVIOUS
  <2>1. Beyond(m) \in sets
    OBVIOUS
  <2>2. m \in Beyond(n) /\ m \notin Beyond(m) /\ \A k \in Beyond(m) : k \in Beyond(n)
    OBVIOUS
  <2>3. Beyond(n) \subseteq S /\ Beyond(m) \subseteq S
    OBVIOUS
  <2> HIDE DEF Beyond
  <2>4. <<Beyond(m), x>> \in StrictSubsetOrdering(S)
    BY <2>2, <2>3, <1>3 DEF StrictSubsetOrdering
  <2> QED BY <2>1, <2>4, <1>2
<1>5. Max(S) \in S /\ \A m \in S : Max(S) >= m
  BY <1>4 DEF Max
<1>6. \A m \in S : Max(S) \in Nat /\ m \in Nat
  BY <1>5
<1> QED BY <1>5, <1>6

\* The highest number of those up to n that have a property, 0 if none has it.
LEMMA HighestUpTo ==
  ASSUME NEW n \in Nat, NEW P, P \subseteq 1 .. n
  PROVE  /\ Max({0} \cup P) \in 0 .. n
         /\ Max({0} \cup P) \in P \/ (P = {} /\ Max({0} \cup P) = 0)
         /\ n \in P => Max({0} \cup P) = n
<1> DEFINE S == {0} \cup P
<1>1. IsFiniteSet(S) /\ S \subseteq 0 .. n /\ S \subseteq Nat /\ S # {}
  <2>1. 0 \in Int /\ n \in Int
    OBVIOUS
  <2>2. IsFiniteSet(0 .. n)
    BY <2>1, FS_Interval
  <2>3. S \subseteq 0 .. n
    OBVIOUS
  <2>4. IsFiniteSet(S)
    BY <2>2, <2>3, FS_Subset
  <2> QED BY <2>3, <2>4
<1> HIDE DEF S
<1>2. Max(S) \in S /\ \A m \in S : m <= Max(S)
  BY <1>1, HighestExists
<1>3. Max(S) \in 0 .. n
  BY <1>1, <1>2
<1>4. Max(S) \in P \/ Max(S) = 0
  BY <1>2 DEF S
<1>5. \A m \in P : m <= Max(S) /\ m \in 1 .. n
  BY <1>2 DEF S
<1>6. Max(S) \in P \/ (P = {} /\ Max(S) = 0)
  BY <1>3, <1>4, <1>5
<1>7. n \in P => Max(S) = n
  BY <1>3, <1>5
<1> QED BY <1>3, <1>6, <1>7 DEF S

LEMMA DomainCounted ==
  ASSUME NEW T, NEW s \in Seq(T)
  PROVE  /\ DOMAIN s = 1 .. Len(s) /\ Len(s) \in Nat
         /\ IsFiniteSet(DOMAIN s) /\ Cardinality(DOMAIN s) = Len(s)
<1>1. DOMAIN s = 1 .. Len(s) /\ Len(s) \in Nat /\ 1 \in Int /\ Len(s) \in Int
  OBVIOUS
<1>2. /\ IsFiniteSet(1 .. Len(s))
      /\ Cardinality(1 .. Len(s)) = IF 1 > Len(s) THEN 0 ELSE Len(s) - 1 + 1
  BY <1>1, FS_Interval
<1> QED BY <1>1, <1>2

=============================================================================
