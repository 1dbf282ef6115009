-------------------------- MODULE Contracts_proofs --------------------------
(***************************************************************************)
(* What holds of ContractChat for all contracts, documents, selections and *)
(* ceilings, and of ContractLedger for all tables, budgets and days; and   *)
(* of the contract side as a whole, with what Attachments_proofs shows of  *)
(* the other two parts.                                                    *)
(***************************************************************************)
EXTENDS Contracts, Attachments_proofs, Listing_proofs

-----------------------------------------------------------------------------
(* The clauses of a contract.                                              *)

Provision == [Contracts -> Documents]
Numbered == [contract : Contracts, index : Nat, clause : Clause]

\* The documents with text are sequences of clauses, and so is what they hold.
LEMMA TextFacts ==
  ASSUME docs \in Provision, NEW c \in Contracts
  PROVE  Texts(c) \in Seq(Seq(Clause)) /\ TextOf(c) \in Seq(Clause)
<1> DEFINE read == {d \in DOMAIN docs[c] : docs[c][d] # Unreadable}
<1>1. docs[c] \in Seq(Seq(Clause) \cup {Unreadable})
  BY ChatAssumption DEF Provision
<1>2. read \subseteq DOMAIN docs[c]
  OBVIOUS
<1>3. \A d \in read : docs[c][d] \in Seq(Clause)
  BY <1>1
<1>4. Texts(c) = Those(docs[c], read)
  BY DEF Texts
<1> HIDE DEF read
<1>5. Texts(c) \in Seq(Seq(Clause) \cup {Unreadable})
  BY <1>1, <1>2, <1>4, ThoseFacts
<1>6. ASSUME NEW n \in DOMAIN Texts(c) PROVE Texts(c)[n] \in Seq(Clause)
  <2>1. \E d \in read : Texts(c)[n] = docs[c][d]
    BY <1>1, <1>2, <1>4, ThoseEntries
  <2> QED BY <1>3, <2>1
<1>7. Texts(c) \in Seq(Seq(Clause))
  <2>1. Len(Texts(c)) \in Nat /\ DOMAIN Texts(c) = 1 .. Len(Texts(c))
        /\ Texts(c) = [n \in 1 .. Len(Texts(c)) |-> Texts(c)[n]]
    BY <1>5
  <2> QED BY <1>6, <2>1, IsASeq
<1>8. TextOf(c) \in Seq(Clause)
  BY <1>7, JoinedFacts DEF TextOf
<1> QED BY <1>7, <1>8

LEMMA ClausesFacts ==
  ASSUME docs \in Provision, NEW c \in Contracts
  PROVE  /\ ClausesOf(c) \in Seq(Numbered) /\ Len(ClausesOf(c)) = Len(TextOf(c))
         /\ \A i \in DOMAIN ClausesOf(c) :
                /\ i \in DOMAIN TextOf(c)
                /\ ClausesOf(c)[i] = [contract |-> c, index |-> i, clause |-> TextOf(c)[i]]
<1>1. TextOf(c) \in Seq(Clause)
  BY TextFacts
<1>2. ClausesOf(c) = [i \in 1 .. Len(TextOf(c)) |->
                        [contract |-> c, index |-> i, clause |-> TextOf(c)[i]]]
  BY <1>1 DEF ClausesOf, WithNumbers, TextOf
<1>3. \A i \in 1 .. Len(TextOf(c)) : TextOf(c)[i] \in Clause /\ i \in Nat
  BY <1>1
<1>4. \A i \in 1 .. Len(TextOf(c)) : ClausesOf(c)[i] \in Numbered
  BY <1>2, <1>3 DEF Numbered
<1>5. ClausesOf(c) \in Seq(Numbered)
  BY <1>1, <1>2, <1>4, IsASeq
<1>6. Len(ClausesOf(c)) = Len(TextOf(c))
  BY <1>1, <1>2, <1>5
<1> QED BY <1>1, <1>2, <1>5, <1>6

LEMMA AtMostFacts ==
  ASSUME NEW T, NEW s \in Seq(T), NEW k \in Nat
  PROVE  /\ AtMost(k, s) \in Seq(T)
         /\ Len(AtMost(k, s)) = IF Len(s) > k THEN k ELSE Len(s)
         /\ \A i \in DOMAIN AtMost(k, s) : i \in DOMAIN s /\ AtMost(k, s)[i] = s[i]
         /\ Len(s) <= k => AtMost(k, s) = s
<1>1. CASE Len(s) > k
  <2> DEFINE t == SubSeq(s, 1, k)
  <2>1. t = [i \in 1 .. k |-> s[i]] /\ AtMost(k, s) = t
    BY <1>1 DEF AtMost
  <2>2. \A i \in 1 .. k : i \in DOMAIN s /\ s[i] \in T
    BY <1>1
  <2> HIDE DEF t
  <2>3. t \in Seq(T)
    BY <2>1, <2>2, IsASeq
  <2>4. Len(t) = k /\ DOMAIN t = 1 .. k
    BY <2>1, <2>3
  <2> QED BY <1>1, <2>1, <2>2, <2>3, <2>4
<1>2. CASE ~ (Len(s) > k)
  BY <1>2 DEF AtMost
<1> QED BY <1>1, <1>2
\* What matches in the documents of a contract, and what is chosen of it.
Matching(topical, c) == {i \in DOMAIN TextOf(c) : Matches(topical, TextOf(c)[i])}
FoundIn(topical, c) == Scored(topical, ClausesOf(c))
Chosen(topical, c) == AtMost(PerContract, Best(topical, FoundIn(topical, c)))

LEMMA MatchingIsFinite ==
  ASSUME docs \in Provision, NEW c \in Contracts, NEW topical \in BOOLEAN
  PROVE  /\ Matching(topical, c) \subseteq DOMAIN TextOf(c)
         /\ IsFiniteSet(Matching(topical, c)) /\ Cardinality(Matching(topical, c)) \in Nat
<1>1. TextOf(c) \in Seq(Clause)
  BY TextFacts
<1>2. Matching(topical, c) \subseteq DOMAIN TextOf(c)
  BY DEF Matching
<1> QED BY <1>1, <1>2, IndicesFinite

LEMMA FoundFacts ==
  ASSUME docs \in Provision, NEW c \in Contracts, NEW topical \in BOOLEAN
  PROVE  /\ FoundIn(topical, c) \in Seq(Numbered)
         /\ Len(FoundIn(topical, c)) = Cardinality(Matching(topical, c))
         /\ \A n \in DOMAIN FoundIn(topical, c) :
                /\ FoundIn(topical, c)[n].index \in Matching(topical, c)
                /\ FoundIn(topical, c)[n].contract = c
                /\ FoundIn(topical, c)[n].clause = TextOf(c)[FoundIn(topical, c)[n].index]
         /\ \A m, n \in DOMAIN FoundIn(topical, c) :
                FoundIn(topical, c)[m].index = FoundIn(topical, c)[n].index => m = n
         /\ \A i \in Matching(topical, c) : \E n \in DOMAIN FoundIn(topical, c) :
                FoundIn(topical, c)[n].index = i
<1> DEFINE s == ClausesOf(c)
           t == FoundIn(topical, c)
           I == Matching(topical, c)
<1>1. /\ s \in Seq(Numbered) /\ Len(s) = Len(TextOf(c)) /\ TextOf(c) \in Seq(Clause)
      /\ \A i \in DOMAIN s :
                /\ i \in DOMAIN TextOf(c)
                /\ s[i] = [contract |-> c, index |-> i, clause |-> TextOf(c)[i]]
  BY ClausesFacts, TextFacts
<1>2. DOMAIN s = DOMAIN TextOf(c)
  BY <1>1
<1>3. \A i \in DOMAIN s : s[i].contract = c /\ s[i].index = i /\ s[i].clause = TextOf(c)[i]
  BY <1>1
<1> HIDE DEF s
<1>4. t = Those(s, I)
  <2>1. CASE topical
    <3>1. {i \in DOMAIN s : Hits(topical, s[i]) > 0} = I
      BY <1>2, <1>3, <2>1 DEF Hits, Matching, Matches
    <3> QED BY <2>1, <3>1 DEF FoundIn, Scored, Hit, s
  <2>2. CASE ~ topical
    <3>1. {i \in DOMAIN s : s[i].clause.behind} = I
      BY <1>2, <1>3, <2>2 DEF Matching, Matches
    <3> QED BY <2>2, <3>1 DEF FoundIn, Scored, Behind, s
  <2> QED BY <2>1, <2>2
<1>5. I \subseteq DOMAIN s
  BY <1>2 DEF Matching
<1> HIDE DEF I, t
<1>6. t \in Seq(Numbered) /\ Len(t) = Cardinality(I)
  BY <1>1, <1>4, <1>5, ThoseFacts
<1>7. PICK p : IsLeft(p, t, s, I)
  BY <1>1, <1>4, <1>5, ThoseFacts
<1>8. \A n \in DOMAIN t : p[n] \in I /\ t[n] = s[p[n]]
  BY <1>7 DEF IsLeft
<1>9. \A n \in DOMAIN t : /\ t[n].index = p[n] /\ t[n].contract = c
                          /\ t[n].clause = TextOf(c)[p[n]] /\ p[n] \in I
  BY <1>3, <1>5, <1>8
<1>10. \A m, n \in DOMAIN t : t[m].index = t[n].index => m = n
  BY <1>7, <1>9 DEF IsLeft
<1>11. \A i \in I : \E n \in DOMAIN t : t[n].index = i
  BY <1>7, <1>9 DEF IsLeft
<1> QED BY <1>6, <1>9, <1>10, <1>11 DEF I, t

\* t has the entries of s in some order.
IsPermuted(p, t, s) ==
    /\ \A n \in DOMAIN t : p[n] \in DOMAIN s /\ t[n] = s[p[n]]
    /\ \A i \in DOMAIN s : \E n \in DOMAIN t : p[n] = i
    /\ \A m, n \in DOMAIN t : p[m] = p[n] => m = n

\* What comes first is better.
BestFirst(topical, t) == \A m, n \in DOMAIN t : m < n => Better(topical, t[m], t[n])

LEMMA BestFacts ==
  ASSUME NEW s \in Seq(Numbered), \A i, j \in DOMAIN s : s[i].index = s[j].index => i = j,
         NEW topical \in BOOLEAN
  PROVE  /\ Best(topical, s) \in Seq(Numbered) /\ Len(Best(topical, s)) = Len(s)
         /\ \E p : IsPermuted(p, Best(topical, s), s)
         /\ BestFirst(topical, Best(topical, s))
<1> DEFINE S     == DOMAIN s
           order == {p \in S \X S : Better(topical, s[p[1]], s[p[2]])}
           t     == Best(topical, s)
           N     == Cardinality(S)
<1>1. IsFiniteSet(S) /\ N \in Nat
  BY IndicesFinite
<1>2. N = Len(s)
  <2>1. Len(s) \in Nat /\ DOMAIN s = 1 .. Len(s) /\ 1 \in Int /\ Len(s) \in Int
    OBVIOUS
  <2>2. Cardinality(1 .. Len(s)) = IF 1 > Len(s) THEN 0 ELSE Len(s) - 1 + 1
    BY <2>1, FS_Interval
  <2> QED BY <2>1, <2>2
<1>3. \A i \in S : /\ s[i] \in Numbered
                   /\ s[i].index \in Nat /\ Hits(topical, s[i]) \in Nat
  <2>1. \A i \in S : s[i] \in Numbered
    OBVIOUS
  <2>2. \A m \in Numbered : m.index \in Nat /\ m.clause.hits \in Nat
    BY DEF Numbered, Clause
  <2> QED BY <2>1, <2>2 DEF Hits
<1>4. \A i, j \in S : <<i, j>> \in order <=> Better(topical, s[i], s[j])
  OBVIOUS
<1>5. t = Listed(s, order)
  BY DEF Best
<1> HIDE DEF S, order, t
<1>6. Sorts(order, S)
  <2>1. \A i, j \in S : s[i].index = s[j].index => i = j
    BY DEF S
  <2>2. \A i, j \in S : i # j => Better(topical, s[i], s[j]) \/ Better(topical, s[j], s[i])
    BY <1>3, <2>1 DEF Better
  <2>3. \A i \in S : ~ Better(topical, s[i], s[i])
    BY <1>3 DEF Better
  <2>4. \A i, j, k \in S : Better(topical, s[i], s[j]) /\ Better(topical, s[j], s[k])
                            => Better(topical, s[i], s[k])
    BY <1>3 DEF Better
  <2> QED BY <1>4, <2>2, <2>3, <2>4 DEF Sorts
<1>7. PICK p : Lists(p, S, order) /\ Listed(s, order) = [n \in 1 .. N |-> s[p[n]]]
  BY <1>1, <1>6, ListedFacts DEF S
<1>8. \A n \in 1 .. N : p[n] \in S
  BY <1>7 DEF Lists
<1>9. t = [n \in 1 .. N |-> s[p[n]]]
  BY <1>5, <1>7
<1>10. \A n \in 1 .. N : s[p[n]] \in Numbered
  BY <1>3, <1>8
<1>11. t \in Seq(Numbered)
  BY <1>1, <1>9, <1>10, IsASeq
<1>12. Len(t) = N /\ DOMAIN t = 1 .. N
  BY <1>1, <1>9, <1>11
<1>13. IsPermuted(p, t, s)
  BY <1>7, <1>8, <1>9, <1>12 DEF IsPermuted, Lists, S
<1>14. BestFirst(topical, t)
  <2> SUFFICES ASSUME NEW m \in 1 .. N, NEW n \in 1 .. N, m < n
               PROVE  Better(topical, t[m], t[n])
    BY <1>12 DEF BestFirst
  <2>1. <<p[m], p[n]>> \in order
    BY <1>7 DEF Lists
  <2> QED BY <1>4, <1>8, <1>9, <2>1
<1> QED BY <1>2, <1>11, <1>12, <1>13, <1>14 DEF t

\* Places in the documents whose clauses are taken before the one at place i.
Ahead(topical, c, i) ==
    {j \in Matching(topical, c) : Better(topical, ClausesOf(c)[j], ClausesOf(c)[i])}

\* The first k places of a sequence without repetitions are k places.
LEMMA PlacesBefore ==
  ASSUME NEW b, NEW k \in Nat, NEW A, IsFiniteSet(A),
         \A n \in 1 .. k : b[n].index \in A,
         \A m, n \in 1 .. k : b[m].index = b[n].index => m = n
  PROVE  Cardinality(A) >= k
<1> DEFINE g == [n \in 1 .. k |-> b[n].index]
<1>1. g \in Injection(1 .. k, A)
  BY DEF Injection, IsInjective
<1>2. 1 \in Int /\ k \in Int
  OBVIOUS
<1>3. IsFiniteSet(1 .. k) /\ Cardinality(1 .. k) = IF 1 > k THEN 0 ELSE k - 1 + 1
  BY <1>2, FS_Interval
<1> HIDE DEF g
<1>4. Cardinality(1 .. k) <= Cardinality(A)
  BY <1>1, FS_Injection
<1>5. Cardinality(A) \in Nat
  BY FS_CardinalityType
<1> QED BY <1>3, <1>4, <1>5

\* A contract sends its matching clauses, as many as it may.
LEMMA ChosenFacts ==
  ASSUME docs \in Provision, NEW c \in Contracts, NEW topical \in BOOLEAN
  PROVE  /\ Chosen(topical, c) \in Seq(Numbered) /\ Len(Chosen(topical, c)) <= PerContract
         /\ \A n \in DOMAIN Chosen(topical, c) :
                /\ Chosen(topical, c)[n].index \in Matching(topical, c)
                /\ Chosen(topical, c)[n].contract = c
                /\ Chosen(topical, c)[n].clause = TextOf(c)[Chosen(topical, c)[n].index]
         /\ \A m, n \in DOMAIN Chosen(topical, c) :
                Chosen(topical, c)[m].index = Chosen(topical, c)[n].index => m = n
         /\ \A i \in Matching(topical, c) :
                Cardinality(Ahead(topical, c, i)) < PerContract =>
                \E n \in DOMAIN Chosen(topical, c) : Chosen(topical, c)[n].index = i
         /\ Matching(topical, c) # {} => Len(Chosen(topical, c)) > 0
<1> DEFINE s == FoundIn(topical, c)
           b == Best(topical, s)
           t == Chosen(topical, c)
           I == Matching(topical, c)
<1>1. /\ s \in Seq(Numbered) /\ Len(s) = Cardinality(I)
      /\ \A n \in DOMAIN s : /\ s[n].index \in I /\ s[n].contract = c
                             /\ s[n].clause = TextOf(c)[s[n].index]
      /\ \A m, n \in DOMAIN s : s[m].index = s[n].index => m = n
      /\ \A i \in I : \E n \in DOMAIN s : s[n].index = i
  BY FoundFacts
<1>2. IsFiniteSet(I) /\ Cardinality(I) \in Nat
  BY MatchingIsFinite
<1>3. PerContract \in Nat /\ PerContract > 0
  BY ChatAssumption
<1>4. t = AtMost(PerContract, b)
  BY DEF Chosen
<1> HIDE DEF s, t, I
<1>5. /\ b \in Seq(Numbered) /\ Len(b) = Len(s)
      /\ \E p : IsPermuted(p, b, s)
      /\ BestFirst(topical, b)
  BY <1>1, BestFacts
<1>6. PICK p : IsPermuted(p, b, s)
  BY <1>5
<1> HIDE DEF b
<1>7. \A n \in DOMAIN b : p[n] \in DOMAIN s /\ b[n] = s[p[n]]
  BY <1>6 DEF IsPermuted
<1>8. \A n \in DOMAIN b : /\ b[n].index \in I /\ b[n].contract = c
                          /\ b[n].clause = TextOf(c)[b[n].index]
  BY <1>1, <1>7
<1>9. \A m, n \in DOMAIN b : b[m].index = b[n].index => m = n
  BY <1>1, <1>6, <1>7 DEF IsPermuted
<1>10. \A i \in I : \E n \in DOMAIN b : b[n].index = i
  BY <1>1, <1>6, <1>7 DEF IsPermuted
<1>11. /\ t \in Seq(Numbered)
       /\ Len(t) = IF Len(b) > PerContract THEN PerContract ELSE Len(b)
       /\ \A i \in DOMAIN t : i \in DOMAIN b /\ t[i] = b[i]
       /\ Len(b) <= PerContract => t = b
  BY <1>3, <1>4, <1>5, AtMostFacts
<1>12. Len(t) <= PerContract
  BY <1>3, <1>5, <1>11
<1>13. \A n \in DOMAIN t : /\ t[n].index \in I /\ t[n].contract = c
                           /\ t[n].clause = TextOf(c)[t[n].index]
  BY <1>8, <1>11
<1>14. \A m, n \in DOMAIN t : t[m].index = t[n].index => m = n
  BY <1>9, <1>11
<1>15. ASSUME NEW i \in I, Cardinality(Ahead(topical, c, i)) < PerContract
       PROVE  \E n \in DOMAIN t : t[n].index = i
  <2>1. PICK n \in DOMAIN b : b[n].index = i
    BY <1>10
  <2>2. DOMAIN b = 1 .. Len(b) /\ Len(b) \in Nat /\ DOMAIN t = 1 .. Len(t)
    BY <1>5, <1>11
  <2>3. CASE n <= PerContract
    <3>1. n \in DOMAIN t
      BY <1>3, <1>11, <2>2, <2>3
    <3> QED BY <1>11, <2>1, <3>1
  <2>4. CASE n > PerContract
    <3> DEFINE A == Ahead(topical, c, i)
    <3>1. \A m \in DOMAIN b : b[m] = ClausesOf(c)[b[m].index]
      <4> SUFFICES ASSUME NEW m \in DOMAIN b PROVE b[m] = ClausesOf(c)[b[m].index]
        OBVIOUS
      <4>1. b[m] \in Numbered /\ b[m].index \in I /\ b[m].contract = c
            /\ b[m].clause = TextOf(c)[b[m].index]
        BY <1>5, <1>8
      <4>2. b[m] = [contract |-> c, index |-> b[m].index, clause |-> TextOf(c)[b[m].index]]
        BY <4>1 DEF Numbered
      <4>3. DOMAIN ClausesOf(c) = DOMAIN TextOf(c)
        BY ClausesFacts, TextFacts
      <4>4. b[m].index \in DOMAIN ClausesOf(c)
        BY <4>1, <4>3 DEF I, Matching
      <4> QED BY <4>2, <4>4, ClausesFacts
    <3>2. \A m \in 1 .. PerContract : m \in DOMAIN b /\ m < n
      BY <1>3, <2>2, <2>4
    <3>3. \A m \in 1 .. PerContract : Better(topical, b[m], b[n])
      BY <1>5, <3>2 DEF BestFirst
    <3>4. \A m \in 1 .. PerContract : b[m].index \in A
      BY <1>8, <2>1, <3>1, <3>2, <3>3 DEF Ahead, I
    <3>5. IsFiniteSet(A) /\ Cardinality(A) \in Nat
      <4>1. A \subseteq I
        BY DEF Ahead, I
      <4> HIDE DEF A
      <4> QED BY <1>2, <4>1, FS_Subset, FS_CardinalityType
    <3>6. \A l, m \in 1 .. PerContract : b[l].index = b[m].index => l = m
      BY <1>9, <3>2
    <3> HIDE DEF A
    <3>7. Cardinality(A) >= PerContract
      BY <1>3, <3>4, <3>5, <3>6, PlacesBefore
    <3>8. Cardinality(A) < PerContract
      BY <1>15 DEF A
    <3> QED BY <1>3, <3>5, <3>7, <3>8
  <2> QED BY <1>3, <2>2, <2>3, <2>4
<1>16. I # {} => Len(t) > 0
  <2>1. I # {} => Cardinality(I) > 0
    BY <1>2, FS_EmptySet
  <2> QED BY <1>1, <1>2, <1>3, <1>5, <1>11, <2>1
<1> QED BY <1>11, <1>12, <1>13, <1>14, <1>15, <1>16 DEF t, I
-----------------------------------------------------------------------------
(* What is selected, what the gate leaves of it, and what fits.            *)

\* The clauses of s are matching ones of the contracts asked about, as their documents
\* have them, none of them twice, and of no contract more than its share.
FromDocuments(s, topical, asked) ==
    /\ s \in Seq(Numbered)
    /\ \A n \in DOMAIN s : /\ s[n].contract \in asked
                           /\ s[n].index \in Matching(topical, s[n].contract)
                           /\ s[n].clause = TextOf(s[n].contract)[s[n].index]
    /\ \A m, n \in DOMAIN s :
            s[m].contract = s[n].contract /\ s[m].index = s[n].index => m = n
    /\ \A c \in Contracts : Cardinality({n \in DOMAIN s : s[n].contract = c}) <= PerContract

\* What a request has read.
Read(r) ==
    /\ r.topical \in BOOLEAN /\ r.rows \in Seq(Contracts) /\ IsInjective(r.rows)
    /\ r.loaded \subseteq ToSet(r.rows)

LEMMA InSequence ==
  ASSUME NEW T, NEW s \in Seq(T)
  PROVE  /\ ToSet(s) \subseteq T
         /\ \A x : x \in ToSet(s) <=> \E n \in DOMAIN s : s[n] = x
BY DEF ToSet

LEMMA SelectedFacts ==
  ASSUME docs \in Provision, NEW r, Read(r)
  PROVE  /\ FromDocuments(Selected(r), r.topical, r.loaded)
         /\ \A c \in r.loaded : \A i \in Matching(r.topical, c) :
                Cardinality(Ahead(r.topical, c, i)) < PerContract =>
                \E n \in DOMAIN Selected(r) :
                    Selected(r)[n].contract = c /\ Selected(r)[n].index = i
         /\ \A c \in r.loaded : Matching(r.topical, c) # {} => Len(Selected(r)) > 0
<1> DEFINE topical == r.topical
           K    == {k \in DOMAIN r.rows : r.rows[k] \in r.loaded}
           rows == Those(r.rows, K)
           ss   == [k \in DOMAIN rows |-> Chosen(topical, rows[k])]
           s    == Selected(r)
<1>1. topical \in BOOLEAN /\ r.rows \in Seq(Contracts) /\ IsInjective(r.rows)
  BY DEF Read
<1>2. K \subseteq DOMAIN r.rows /\ \A k \in K : r.rows[k] \in r.loaded
  OBVIOUS
<1>3. r.loaded \subseteq Contracts /\ \A c \in r.loaded : \E k \in K : r.rows[k] = c
  BY <1>1, InSequence DEF Read
<1>4. s = Joined(ss)
  BY DEF Selected, Chosen, FoundIn
<1> HIDE DEF topical, K
<1>5. rows \in Seq(Contracts)
  BY <1>1, <1>2, ThoseFacts
<1>6. PICK q : IsLeft(q, rows, r.rows, K)
  BY <1>1, <1>2, ThoseFacts
<1>7. \A k \in DOMAIN rows : q[k] \in K /\ rows[k] = r.rows[q[k]]
  BY <1>6 DEF IsLeft
<1>8. \A k \in DOMAIN rows : rows[k] \in r.loaded /\ rows[k] \in Contracts
  BY <1>2, <1>3, <1>7
<1>9. \A k, l \in DOMAIN rows : rows[k] = rows[l] => k = l
  <2>1. \A k, l \in K : r.rows[k] = r.rows[l] => k = l
    BY <1>1, <1>2 DEF IsInjective
  <2> QED BY <1>6, <1>7, <2>1 DEF IsLeft
<1>10. \A c \in r.loaded : \E k \in DOMAIN rows : rows[k] = c
  <2> SUFFICES ASSUME NEW c \in r.loaded PROVE \E k \in DOMAIN rows : rows[k] = c
    OBVIOUS
  <2>1. PICK i \in K : r.rows[i] = c
    BY <1>3
  <2>2. PICK k \in DOMAIN rows : q[k] = i
    BY <1>6 DEF IsLeft
  <2> QED BY <1>7, <2>1, <2>2
<1> HIDE DEF rows
<1>11. ss \in Seq(Seq(Numbered))
  <2>1. Len(rows) \in Nat /\ DOMAIN rows = 1 .. Len(rows)
    BY <1>5
  <2>2. \A k \in 1 .. Len(rows) : Chosen(topical, rows[k]) \in Seq(Numbered)
    BY <1>1, <1>8, <2>1, ChosenFacts
  <2>3. ss = [k \in 1 .. Len(rows) |-> Chosen(topical, rows[k])]
    BY <2>1
  <2> QED BY <2>1, <2>2, <2>3, IsASeq
<1>12. \A k \in DOMAIN rows : ss[k] = Chosen(topical, rows[k])
  OBVIOUS
<1>13. DOMAIN ss = DOMAIN rows
  OBVIOUS
<1> HIDE DEF ss, s
<1>14. s \in Seq(Numbered)
  BY <1>4, <1>11, JoinedFacts
<1>15. PICK p : IsJoined(p, s, ss)
  BY <1>4, <1>11, JoinedFacts
<1>16. \A n \in DOMAIN s :
            /\ p[n] = <<p[n][1], p[n][2]>>
            /\ p[n][1] \in DOMAIN rows /\ rows[p[n][1]] \in Contracts
            /\ rows[p[n][1]] \in r.loaded
            /\ p[n][2] \in DOMAIN Chosen(topical, rows[p[n][1]])
            /\ s[n] = Chosen(topical, rows[p[n][1]])[p[n][2]]
  BY <1>8, <1>12, <1>13, <1>15 DEF IsJoined
<1>17. \A n \in DOMAIN s :
            /\ s[n].contract = rows[p[n][1]]
            /\ s[n].index \in Matching(topical, s[n].contract)
            /\ s[n].clause = TextOf(s[n].contract)[s[n].index]
  BY <1>1, <1>16, ChosenFacts
<1>18. ASSUME NEW m \in DOMAIN s, NEW n \in DOMAIN s,
              s[m].contract = s[n].contract, s[m].index = s[n].index
       PROVE  m = n
  <2>1. p[m][1] = p[n][1]
    BY <1>9, <1>16, <1>17, <1>18
  <2>2. p[m][2] = p[n][2]
    BY <1>1, <1>16, <1>18, <2>1, ChosenFacts
  <2>3. p[m] = p[n]
    BY <1>16, <2>1, <2>2
  <2> QED BY <1>15, <2>3 DEF IsJoined
<1>19. ASSUME NEW c \in Contracts
       PROVE  Cardinality({n \in DOMAIN s : s[n].contract = c}) <= PerContract
  <2> DEFINE P == {n \in DOMAIN s : s[n].contract = c}
             B == DOMAIN Chosen(topical, c)
             g == [n \in P |-> p[n][2]]
  <2>1. Chosen(topical, c) \in Seq(Numbered) /\ Len(Chosen(topical, c)) <= PerContract
    BY <1>1, ChosenFacts
  <2>2. B \subseteq DOMAIN Chosen(topical, c)
    OBVIOUS
  <2>3. IsFiniteSet(B) /\ Cardinality(B) \in Nat /\ Cardinality(B) <= Len(Chosen(topical, c))
    BY <2>1, <2>2, IndicesFinite
  <2>4. \A n \in P : p[n][2] \in B
    BY <1>16, <1>17
  <2>5. ASSUME NEW m \in P, NEW n \in P, p[m][2] = p[n][2] PROVE m = n
    <3>1. p[m][1] = p[n][1]
      BY <1>9, <1>16, <1>17
    <3>2. p[m] = p[n]
      BY <1>16, <2>5, <3>1
    <3> QED BY <1>15, <3>2 DEF IsJoined
  <2>6. g \in Injection(P, B)
    BY <2>4, <2>5 DEF Injection, IsInjective
  <2> HIDE DEF P, B, g
  <2>7. IsFiniteSet(P) /\ Cardinality(P) <= Cardinality(B)
    BY <2>3, <2>6, FS_Injection
  <2>8. Cardinality(P) \in Nat /\ Len(Chosen(topical, c)) \in Nat /\ PerContract \in Nat
    BY <2>1, <2>7, FS_CardinalityType, ChatAssumption
  <2>9. Cardinality(P) <= PerContract
    BY <2>1, <2>3, <2>7, <2>8
  <2> QED BY <2>9 DEF P
<1>20. FromDocuments(s, topical, r.loaded)
  BY <1>14, <1>16, <1>17, <1>18, <1>19 DEF FromDocuments
<1>21. ASSUME NEW c \in r.loaded, NEW j \in DOMAIN Chosen(topical, c)
       PROVE  \E n \in DOMAIN s : s[n] = Chosen(topical, c)[j]
  <2>1. PICK k \in DOMAIN rows : rows[k] = c
    BY <1>10
  <2>2. k \in DOMAIN ss /\ j \in DOMAIN ss[k]
    BY <1>12, <1>13, <1>21, <2>1
  <2>3. PICK n \in DOMAIN s : p[n] = <<k, j>>
    BY <1>15, <2>2 DEF IsJoined
  <2>4. p[n][1] = k /\ p[n][2] = j
    BY <2>3
  <2> QED BY <1>16, <2>1, <2>4
<1>22. ASSUME NEW c \in r.loaded, NEW i \in Matching(topical, c),
              Cardinality(Ahead(topical, c, i)) < PerContract
       PROVE  \E n \in DOMAIN s : s[n].contract = c /\ s[n].index = i
  <2>1. c \in Contracts
    BY <1>3
  <2>2. PICK j \in DOMAIN Chosen(topical, c) : Chosen(topical, c)[j].index = i
    BY <1>1, <1>22, <2>1, ChosenFacts
  <2>3. Chosen(topical, c)[j].contract = c
    BY <1>1, <2>1, ChosenFacts
  <2> QED BY <1>21, <2>2, <2>3
<1>23. ASSUME NEW c \in r.loaded, Matching(topical, c) # {} PROVE Len(s) > 0
  <2>1. c \in Contracts
    BY <1>3
  <2>2. Chosen(topical, c) \in Seq(Numbered) /\ Len(Chosen(topical, c)) > 0
    BY <1>1, <1>23, <2>1, ChosenFacts
  <2>3. 1 \in DOMAIN Chosen(topical, c)
    BY <2>2
  <2>4. PICK n \in DOMAIN s : s[n] = Chosen(topical, c)[1]
    BY <1>21, <2>3
  <2>5. Len(s) \in Nat /\ DOMAIN s = 1 .. Len(s)
    BY <1>14
  <2> QED BY <2>4, <2>5
<1> QED BY <1>20, <1>22, <1>23 DEF s, topical
\* What is not sensitive of s is in t.
LetsThrough(s, t) ==
    \A n \in DOMAIN s : s[n].clause.sensitive \/ \E m \in DOMAIN t : t[m] = s[n]

\* The gate keeps what is not sensitive.
LEMMA GateFacts ==
  ASSUME NEW topical, NEW asked, asked \subseteq Contracts,
         NEW s, FromDocuments(s, topical, asked)
  PROVE  /\ FromDocuments(Gate(s), topical, asked) /\ Len(Gate(s)) <= Len(s)
         /\ \A n \in DOMAIN Gate(s) : ~ Gate(s)[n].clause.sensitive
         /\ \A n \in DOMAIN s : s[n].clause.sensitive => Len(Gate(s)) < Len(s)
         /\ LetsThrough(s, Gate(s))
<1> DEFINE I == {i \in DOMAIN s : ~ s[i].clause.sensitive}
           t == Gate(s)
<1>1. s \in Seq(Numbered)
  BY DEF FromDocuments
<1>2. I \subseteq DOMAIN s
  OBVIOUS
<1>3. t = Those(s, I)
  BY DEF Gate
<1>4. \A i \in DOMAIN s : i \in I <=> ~ s[i].clause.sensitive
  OBVIOUS
<1> HIDE DEF I, t
<1>5. t \in Seq(Numbered) /\ Len(t) = Cardinality(I)
  BY <1>1, <1>2, <1>3, ThoseFacts
<1>6. PICK p : IsLeft(p, t, s, I)
  BY <1>1, <1>2, <1>3, ThoseFacts
<1>7. \A n \in DOMAIN t : p[n] \in DOMAIN s /\ p[n] \in I /\ t[n] = s[p[n]]
  BY <1>2, <1>6 DEF IsLeft
<1>8. /\ Cardinality(I) \in Nat /\ Cardinality(I) <= Len(s)
      /\ Cardinality(I) = Len(s) => I = DOMAIN s
  BY <1>1, <1>2, IndicesFinite
<1>9. /\ \A n \in DOMAIN s : s[n].clause.sensitive => Len(t) < Len(s)
      /\ LetsThrough(s, t)
  <2>1. \A n \in DOMAIN s : s[n].clause.sensitive => Len(t) < Len(s)
    <3>1. Len(s) \in Nat
      BY <1>1
    <3> QED BY <1>4, <1>5, <1>8, <3>1
  <2>2. ASSUME NEW n \in DOMAIN s, ~ s[n].clause.sensitive
        PROVE  \E m \in DOMAIN t : t[m] = s[n]
    <3>1. PICK m \in DOMAIN t : p[m] = n
      BY <1>4, <1>6, <2>2 DEF IsLeft
    <3> QED BY <1>7, <3>1
  <2> QED BY <2>1, <2>2 DEF LetsThrough
<1>10. \A m, n \in DOMAIN t : t[m].contract = t[n].contract /\ t[m].index = t[n].index => m = n
  BY <1>6, <1>7 DEF IsLeft, FromDocuments
<1>11. ASSUME NEW c \in Contracts
       PROVE  Cardinality({n \in DOMAIN t : t[n].contract = c}) <= PerContract
  <2> DEFINE P == {n \in DOMAIN t : t[n].contract = c}
             B == {n \in DOMAIN s : s[n].contract = c}
             g == [n \in P |-> p[n]]
  <2>1. B \subseteq DOMAIN s
    OBVIOUS
  <2>2. IsFiniteSet(B) /\ Cardinality(B) \in Nat
    BY <1>1, <2>1, IndicesFinite
  <2>3. \A n \in P : p[n] \in B
    BY <1>7
  <2>4. \A m, n \in P : p[m] = p[n] => m = n
    BY <1>6 DEF IsLeft
  <2>5. g \in Injection(P, B)
    BY <2>3, <2>4 DEF Injection, IsInjective
  <2>6. Cardinality(B) <= PerContract /\ PerContract \in Nat
    BY ChatAssumption DEF FromDocuments
  <2> HIDE DEF P, B, g
  <2>7. IsFiniteSet(P) /\ Cardinality(P) <= Cardinality(B)
    BY <2>2, <2>5, FS_Injection
  <2>8. Cardinality(P) \in Nat
    BY <2>7, FS_CardinalityType
  <2>9. Cardinality(P) <= PerContract
    BY <2>2, <2>6, <2>7, <2>8
  <2> QED BY <2>9 DEF P
<1>12. \A n \in DOMAIN t : /\ t[n].contract \in asked
                           /\ t[n].index \in Matching(topical, t[n].contract)
                           /\ t[n].clause = TextOf(t[n].contract)[t[n].index]
  BY <1>7 DEF FromDocuments
<1>13. FromDocuments(t, topical, asked)
  BY <1>5, <1>10, <1>11, <1>12 DEF FromDocuments
<1>14. \A n \in DOMAIN t : ~ t[n].clause.sensitive
  BY <1>4, <1>7
<1> QED BY <1>5, <1>8, <1>9, <1>13, <1>14 DEF t

LEMMA CutFacts ==
  ASSUME NEW s \in Seq(Numbered), NEW i \in DOMAIN s
  PROVE  /\ Cut(s[i]) \in 1 .. ClauseCap /\ Cut(s[i]) \in Nat /\ Cut(s[i]) <= TotalCap
         /\ s[i].clause.size > ClauseCap \/ Cut(s[i]) = s[i].clause.size
<1>1. s[i] \in Numbered
  OBVIOUS
<1>2. s[i].clause.size \in Nat \ {0}
  BY <1>1 DEF Numbered, Clause
<1> QED BY <1>2, ChatAssumption DEF Cut

LEMMA UsedFacts ==
  ASSUME NEW s \in Seq(Numbered), NEW l \in 0 .. Len(s), NEW k \in 0 .. l
  PROVE  /\ Used(s, k) \in Nat /\ Used(s, l) \in Nat /\ Used(s, k) <= Used(s, l)
         /\ Used(s, 0) = 0
         /\ l = 1 => Used(s, l) <= TotalCap
<1> DEFINE v == [i \in 1 .. k |-> Cut(s[i])]
           w == [i \in 1 .. l |-> Cut(s[i])]
           e == [i \in 1 .. 0 |-> Cut(s[i])]
<1>1. l \in Nat /\ k \in Nat /\ k <= l /\ 1 \in Int /\ l \in Int
  OBVIOUS
<1>2. \A i \in 1 .. l : i \in DOMAIN s /\ Cut(s[i]) \in Nat /\ Cut(s[i]) <= TotalCap
  BY CutFacts
<1>3. 1 .. k \subseteq 1 .. l /\ 1 .. 0 = {}
  BY <1>1
<1>4. v \in [1 .. k -> Nat] /\ w \in [1 .. l -> Nat] /\ \A i \in 1 .. k : v[i] <= w[i]
  BY <1>2, <1>3
<1>5. IsFiniteSet(1 .. l)
  BY <1>1, FS_Interval
<1>6. Used(s, k) = SumFunction(v) /\ Used(s, l) = SumFunction(w) /\ Used(s, 0) = SumFunction(e)
  BY DEF Used
<1>7. e \in [{} -> Nat]
  BY <1>3
<1>8. l = 1 => 1 .. l = {1} /\ w[1] <= TotalCap
  BY <1>2
<1> HIDE DEF v, w, e
<1>9. SumFunction(v) \in Nat /\ SumFunction(w) \in Nat /\ SumFunction(v) <= SumFunction(w)
  BY <1>3, <1>4, <1>5, SumIsMonotone
<1>10. SumFunction(e) = 0
  BY <1>7, SumOfNone
<1>11. l = 1 => SumFunction(w) = w[1]
  BY <1>4, <1>5, <1>8, SumCountsPairs
<1> QED BY <1>6, <1>8, <1>9, <1>10, <1>11

\* What fits keeps the ceiling, and the first clause always fits.
LEMMA FittingFacts ==
  ASSUME NEW s \in Seq(Numbered)
  PROVE  /\ Fitting(s) \in 0 .. Len(s) /\ Used(s, Fitting(s)) <= TotalCap
         /\ Len(s) > 0 => Fitting(s) > 0
<1> DEFINE F == {k \in DOMAIN s : Used(s, k) <= TotalCap}
           n == Cardinality(F)
<1>1. F \subseteq DOMAIN s /\ n = Fitting(s)
  BY DEF Fitting
<1>2. IsFiniteSet(F) /\ n \in Nat /\ n <= Len(s)
  BY <1>1, IndicesFinite
<1>3. TotalCap \in Nat /\ Len(s) \in Nat
  BY ChatAssumption
<1>4. Used(s, n) <= TotalCap
  <2>1. CASE n = 0
    <3>1. 0 \in 0 .. Len(s) /\ 0 \in 0 .. 0
      BY <1>3
    <3>2. Used(s, 0) = 0
      BY <3>1, UsedFacts
    <3> QED BY <1>3, <2>1, <3>2
  <2>2. CASE n > 0
    <3>1. PICK k \in F : k >= n
      <4>0. F \subseteq 1 .. Len(s)
        OBVIOUS
      <4> HIDE DEF n, F
      <4> SUFFICES ASSUME \A k \in F : k < n PROVE FALSE
        BY <1>2, <4>0
      <4>1. F \subseteq 1 .. n - 1
        BY <1>2, <4>0
      <4>2. 1 \in Int /\ n - 1 \in Int
        BY <1>2
      <4>3. IsFiniteSet(1 .. n - 1) /\ Cardinality(1 .. n - 1) = IF 1 > n - 1 THEN 0 ELSE n - 1 - 1 + 1
        BY <4>2, FS_Interval
      <4>4. n <= Cardinality(1 .. n - 1)
        BY <4>1, <4>3, FS_Subset DEF n
      <4> QED BY <1>2, <2>2, <4>3, <4>4
    <3>2. k \in 0 .. Len(s) /\ n \in 0 .. k /\ Used(s, k) <= TotalCap
      BY <1>1, <1>2, <1>3, <3>1
    <3> HIDE DEF F, n
    <3>3. Used(s, n) \in Nat /\ Used(s, k) \in Nat /\ Used(s, n) <= Used(s, k)
      BY <3>2, UsedFacts
    <3> QED BY <1>3, <3>2, <3>3
  <2> QED BY <1>2, <2>1, <2>2
<1>5. Len(s) > 0 => n > 0
  <2> SUFFICES ASSUME Len(s) > 0 PROVE n > 0
    OBVIOUS
  <2>1. 1 \in 0 .. Len(s) /\ 0 \in 0 .. 1
    BY <1>3
  <2>2. Used(s, 1) <= TotalCap
    BY <2>1, UsedFacts
  <2>3. F # {}
    BY <1>3, <2>2
  <2> HIDE DEF F
  <2>4. n # 0
    BY <1>2, <2>3, FS_EmptySet
  <2> QED BY <1>2, <2>4
<1> HIDE DEF n
<1>6. n \in 0 .. Len(s)
  BY <1>2, <1>3
<1> QED BY <1>1, <1>4, <1>5, <1>6

LEMMA PayloadFacts ==
  ASSUME NEW s \in Seq(Numbered)
  PROVE  /\ Payload(s) \in Seq(Fitted) /\ Len(Payload(s)) = Fitting(s)
         /\ \A i \in 1 .. Fitting(s) :
                /\ i \in DOMAIN s
                /\ Payload(s)[i] = [contract |-> s[i].contract, index |-> s[i].index,
                                    clause |-> s[i].clause, size |-> Cut(s[i])]
         /\ SumFunction([i \in DOMAIN Payload(s) |-> Payload(s)[i].size]) <= TotalCap
<1> DEFINE t == Payload(s)
           n == Fitting(s)
<1>1. n \in 0 .. Len(s) /\ Used(s, n) <= TotalCap /\ n \in Nat
  BY FittingFacts
<1>2. t = [i \in 1 .. n |-> [contract |-> s[i].contract, index |-> s[i].index,
                             clause |-> s[i].clause, size |-> Cut(s[i])]]
  BY DEF Payload
<1>3. \A i \in 1 .. n : i \in DOMAIN s
  BY <1>1
<1> HIDE DEF t, n
<1>4. \A i \in 1 .. n : t[i] \in Fitted
  <2> SUFFICES ASSUME NEW i \in 1 .. n PROVE t[i] \in Fitted
    OBVIOUS
  <2>1. s[i] \in Numbered
    BY <1>3
  <2>2. Cut(s[i]) \in 1 .. ClauseCap
    BY <1>3, CutFacts
  <2> QED BY <1>2, <2>1, <2>2 DEF Fitted, Numbered
<1>5. t \in Seq(Fitted)
  BY <1>1, <1>2, <1>4, IsASeq
<1>6. Len(t) = n /\ DOMAIN t = 1 .. n
  BY <1>1, <1>2, <1>5
<1>7. [i \in DOMAIN t |-> t[i].size] = [i \in 1 .. n |-> Cut(s[i])]
  BY <1>2, <1>6
<1>8. SumFunction([i \in DOMAIN t |-> t[i].size]) <= TotalCap
  BY <1>1, <1>7 DEF Used
<1> QED BY <1>2, <1>3, <1>5, <1>6, <1>8 DEF t, n
-----------------------------------------------------------------------------
(* What holds of a request.                                                *)

\* The documents are a parameter here: they stay as they are.
TextsIn(d, c) == Those(d[c], {i \in DOMAIN d[c] : d[c][i] # Unreadable})
ClausesIn(d, c) == WithNumbers(c, Joined(TextsIn(d, c)))
UnreadIn(d, c) == \E i \in DOMAIN d[c] : d[c][i] = Unreadable
SelectedIn(d, r) ==
    LET rows == Those(r.rows, {k \in DOMAIN r.rows : r.rows[k] \in r.loaded})
        BestOf(c) == Best(r.topical, Scored(r.topical, ClausesIn(d, c)))
    IN  Joined([k \in DOMAIN rows |-> AtMost(PerContract, BestOf(rows[k]))])
KeptIn(d, r) == Gate(SelectedIn(d, r))
SomeText(d, r) == \E c \in r.loaded : ClausesIn(d, c) # <<>>

BuiltStages == {"built", "answered", "verified"}

Route(r) ==
    /\ r.stage = "sent" => r.rows = <<>> /\ r.todo = <<>> /\ r.loaded = {} /\ r.signals = {}
    /\ r.stage \in BuiltStages => r.todo = <<>>
    /\ IsInjective(r.rows) /\ ToSet(r.rows) \subseteq ToSet(r.refs)
    /\ r.loaded \subseteq ToSet(r.rows) /\ ToSet(r.todo) \subseteq ToSet(r.rows)

\* With a provider, a document that was not read is told.
AllTold(p, d, r) == p => \A c \in ToSet(r.rows) :
    c \in ToSet(r.todo) \/ (c \in r.loaded /\ ~ UnreadIn(d, c)) \/ "unreadable" \in r.signals

\* What the pipeline has sent and told, which nobody adds to or takes from later.
Piped(d, r) ==
    /\ r.stage = "loading" => r.signals \subseteq {"unreadable"}
    /\ r.stage \in BuiltStages =>
        LET selected == SelectedIn(d, r)
            kept == KeptIn(d, r)
            dropped == Len(kept) < Len(selected)
        IN  /\ r.clauses = Payload(kept)
            /\ "some_dropped" \in r.signals <=> dropped /\ kept # <<>>
            /\ "all_dropped" \in r.signals <=> dropped /\ kept = <<>>
            /\ "truncated" \in r.signals <=> Truncated(kept)
            /\ "no_topic" \in r.signals <=>
                    Payload(kept) = <<>> /\ ~ dropped /\ SomeText(d, r)
            /\ "no_clauses" \in r.signals <=>
                    Payload(kept) = <<>> /\ ~ (~ dropped /\ SomeText(d, r))

ChatInv ==
    /\ ChatTypeOK
    /\ req # Nothing => Route(req) /\ AllTold(provider, docs, req) /\ Piped(docs, req)

LEMMA WithDocuments ==
  /\ \A c : Texts(c) = TextsIn(docs, c) /\ ClausesOf(c) = ClausesIn(docs, c)
  /\ \A c : Unread(c) <=> UnreadIn(docs, c)
  /\ \A r : Selected(r) = SelectedIn(docs, r) /\ (AnyText(r) <=> SomeText(docs, r))
<1>1. \A c : Texts(c) = TextsIn(docs, c)
  BY DEF Texts, TextsIn
<1>2. \A c : ClausesOf(c) = ClausesIn(docs, c)
  BY <1>1 DEF ClausesOf, ClausesIn
<1>3. \A r : Selected(r) = SelectedIn(docs, r)
  BY <1>2 DEF Selected, SelectedIn
<1>4. \A r : AnyText(r) <=> SomeText(docs, r)
  BY <1>2 DEF AnyText, SomeText
<1>5. \A c : Unread(c) <=> UnreadIn(docs, c)
  BY DEF Unread, UnreadIn
<1> QED BY <1>1, <1>2, <1>3, <1>4, <1>5

\* What the pipeline does depends on the topic, the rows and what was loaded.
LEMMA SameRequest ==
  ASSUME NEW d, NEW r, NEW q, q.topical = r.topical, q.rows = r.rows, q.loaded = r.loaded
  PROVE  /\ SelectedIn(d, q) = SelectedIn(d, r) /\ KeptIn(d, q) = KeptIn(d, r)
         /\ SomeText(d, q) <=> SomeText(d, r)
<1>1. SelectedIn(d, q) = SelectedIn(d, r)
  BY DEF SelectedIn
<1> QED BY <1>1 DEF KeptIn, SomeText

LEMMA ChatBegins == ChatInit => ChatInv
<1> SUFFICES ASSUME ChatInit PROVE ChatInv
  OBVIOUS
<1>1. docs \in Provision /\ log \in Seq({"question", "answer", "failure"})
  BY DEF ChatInit, Provision
<1> QED BY <1>1 DEF ChatInit, ChatInv, ChatTypeOK, Provision

LEMMA LogGrows ==
  ASSUME ChatTypeOK, NEW b \in {"question", "answer", "failure"}
  PROVE  Append(log, b) \in Seq({"question", "answer", "failure"})
<1> DEFINE B == {"question", "answer", "failure"}
<1>1. log \in Seq(B) /\ b \in B
  BY DEF ChatTypeOK
<1> HIDE DEF B
<1>2. Append(log, b) \in Seq(B)
  BY <1>1, AppendProperties
<1> QED BY <1>2 DEF B

LEMMA SendKeeps ==
  ASSUME ChatInv, NEW topical \in BOOLEAN, NEW refs \in Selections,
         Send(topical, refs)
  PROVE  ChatInv'
<1>1. /\ ChatTypeOK /\ docs' = docs /\ provider' = provider
      /\ sending' = TRUE /\ log' = Append(log, "question")
  BY DEF ChatInv, Send, library
<1>2. refs \in Seq(Contracts)
  <2>1. PICK S \in SUBSET Contracts : refs \in SetToSeqs(S)
    BY DEF Selections
  <2>2. IsFiniteSet(S)
    <3> DEFINE g == [i \in DOMAIN Order |-> Order[i]]
    <3>1. Order \in Seq(Contracts) /\ DOMAIN Order \subseteq DOMAIN Order
      BY ChatAssumption
    <3>2. IsFiniteSet(DOMAIN Order)
      BY <3>1, IndicesFinite
    <3>3. g \in Surjection(DOMAIN Order, Contracts)
      BY <3>1 DEF Surjection, Contracts, ToSet
    <3>4. IsFiniteSet(Contracts)
      BY <3>2, <3>3, FS_Surjection
    <3> QED BY <3>4, FS_Subset
  <2>3. Cardinality(S) \in Nat
    BY <2>2, FS_CardinalityType
  <2>4. refs \in [1 .. Cardinality(S) -> S]
    BY <2>1 DEF SetToSeqs
  <2>5. \A i \in 1 .. Cardinality(S) : refs[i] \in Contracts
    BY <2>4
  <2>6. refs = [i \in 1 .. Cardinality(S) |-> refs[i]]
    BY <2>4
  <2> QED BY <2>3, <2>5, <2>6, IsASeq
<1>3. MaxRefs \in Nat
  BY ChatAssumption
<1>4. AtMost(MaxRefs, refs) \in Seq(Contracts)
  BY <1>2, <1>3, AtMostFacts
<1> DEFINE r == [stage |-> "sent", topical |-> topical, refs |-> AtMost(MaxRefs, refs),
                 rows |-> <<>>, todo |-> <<>>, loaded |-> {}, clauses |-> <<>>,
                 sent |-> <<>>, mention |-> Nothing, signals |-> {}]
<1>5. req' = r
  BY DEF Send
<1>6. r \in Request
  <2> HIDE DEF Contracts, Fitted
  <2>1. <<>> \in Seq(Contracts) /\ <<>> \in Seq(Fitted)
    OBVIOUS
  <2> QED BY <1>4, <2>1 DEF Request, Stages, Reference
<1>7. ToSet(<<>>) = {} /\ IsInjective(<<>>)
  BY DEF ToSet, IsInjective
<1>8. Route(r) /\ AllTold(provider, docs, r) /\ Piped(docs, r)
  BY <1>7 DEF Route, AllTold, Piped, BuiltStages
<1>9. ChatTypeOK'
  BY <1>1, <1>5, <1>6, LogGrows DEF ChatTypeOK
<1> QED BY <1>1, <1>5, <1>8, <1>9 DEF ChatInv

LEMMA ReceiveKeeps ==
  ASSUME ChatInv, NEW ledger \in SUBSET Contracts, Receive(ledger)
  PROVE  ChatInv'
<1> DEFINE I    == {i \in DOMAIN Order : Order[i] \in ledger \cap ToSet(req.refs)}
           rows == Those(Order, I)
           r    == [req EXCEPT !.stage = "loading", !.rows = rows, !.todo = rows]
<1>1. ChatTypeOK /\ req # Nothing /\ req.stage = "sent" /\ Route(req) /\ req \in Request
  BY DEF ChatInv, Receive, ChatTypeOK
<1>2. req' = r /\ UNCHANGED <<docs, provider, log, sending>>
  BY DEF Receive, library
<1>3. Order \in Seq(Contracts) /\ IsInjective(Order)
  BY ChatAssumption
<1>4. I \subseteq DOMAIN Order /\ \A i \in I : Order[i] \in ToSet(req.refs)
  OBVIOUS
<1> HIDE DEF I
<1>5. rows \in Seq(Contracts)
  BY <1>3, <1>4, ThoseFacts
<1>6. PICK p : IsLeft(p, rows, Order, I)
  BY <1>3, <1>4, ThoseFacts
<1> HIDE DEF rows
<1>7. \A k \in DOMAIN rows : p[k] \in I /\ rows[k] = Order[p[k]]
  BY <1>6 DEF IsLeft
<1>8. IsInjective(rows)
  <2>1. \A i, j \in I : Order[i] = Order[j] => i = j
    BY <1>3, <1>4 DEF IsInjective
  <2>2. \A k, l \in DOMAIN rows : rows[k] = rows[l] => k = l
    BY <1>6, <1>7, <2>1 DEF IsLeft
  <2> QED BY <2>2 DEF IsInjective
<1>9. ToSet(rows) \subseteq ToSet(req.refs)
  BY <1>4, <1>5, <1>7, InSequence
<1>10. r \in Request
  BY <1>1, <1>5 DEF Request, Stages
<1>11. /\ r.stage = "loading" /\ r.rows = rows /\ r.todo = rows /\ r.refs = req.refs
       /\ r.loaded = {} /\ r.signals = {}
  BY <1>1 DEF Request, Route
<1> HIDE DEF r
<1>12. Route(r) /\ AllTold(provider, docs, r) /\ Piped(docs, r)
  BY <1>8, <1>9, <1>11 DEF Route, AllTold, Piped, BuiltStages
<1>13. ChatTypeOK'
  BY <1>1, <1>2, <1>10 DEF ChatTypeOK
<1> QED BY <1>2, <1>12, <1>13 DEF ChatInv
LEMMA TailEntries ==
  ASSUME NEW T, NEW s \in Seq(T), s # <<>>
  PROVE  ToSet(s) = {Head(s)} \cup ToSet(Tail(s))
<1> DEFINE t == Tail(s)
<1>1. /\ t \in Seq(T) /\ Len(t) = Len(s) - 1 /\ Len(s) \in Nat /\ Len(s) > 0
      /\ \A i \in 1 .. Len(s) - 1 : t[i] = s[i + 1]
      /\ Head(s) = s[1]
  OBVIOUS
<1> HIDE DEF t
<1>2. DOMAIN s = 1 .. Len(s) /\ DOMAIN t = 1 .. Len(s) - 1
  BY <1>1
<1>3. ASSUME NEW x \in ToSet(t) PROVE x \in ToSet(s)
  <2>1. PICK i \in DOMAIN t : t[i] = x
    BY <1>1, <1>3, InSequence
  <2>2. i + 1 \in DOMAIN s /\ s[i + 1] = x
    BY <1>1, <1>2, <2>1
  <2> QED BY <2>2, InSequence
<1>4. ASSUME NEW x \in ToSet(s), x # s[1] PROVE x \in ToSet(t)
  <2>1. PICK i \in DOMAIN s : s[i] = x
    BY <1>4, InSequence
  <2>2. i - 1 \in 1 .. Len(s) - 1 /\ (i - 1) + 1 = i
    BY <1>1, <1>2, <1>4, <2>1
  <2>3. t[i - 1] = x /\ i - 1 \in DOMAIN t
    BY <1>1, <1>2, <2>1, <2>2
  <2> QED BY <1>1, <2>3, InSequence
<1>5. s[1] \in ToSet(s)
  <2>1. 1 \in DOMAIN s
    BY <1>1, <1>2
  <2> QED BY <2>1, InSequence
<1>6. ToSet(s) = {s[1]} \cup ToSet(t)
  BY <1>3, <1>4, <1>5
<1> QED BY <1>1, <1>6 DEF t

LEMMA LoadNothingKeeps ==
  ASSUME ChatInv, LoadNothing
  PROVE  ChatInv'
<1> DEFINE r == [req EXCEPT !.todo = <<>>]
<1>1. /\ ChatTypeOK /\ req # Nothing /\ req.stage = "loading" /\ req \in Request
      /\ Route(req) /\ Piped(docs, req) /\ ~ provider
  BY DEF ChatInv, LoadNothing, ChatTypeOK
<1>2. req' = r /\ UNCHANGED <<docs, provider, log, sending>>
  BY DEF LoadNothing, library
<1>3. r \in Request
  <2>1. <<>> \in Seq(Contracts)
    OBVIOUS
  <2> QED BY <1>1, <2>1 DEF Request
<1>4. /\ r.stage = "loading" /\ r.rows = req.rows /\ r.refs = req.refs /\ r.todo = <<>>
      /\ r.signals = req.signals /\ r.loaded = req.loaded
  BY <1>1 DEF Request
<1> HIDE DEF r
<1>5. ToSet(<<>>) = {}
  BY DEF ToSet
<1>6. Route(r)
  BY <1>1, <1>4, <1>5 DEF Route, BuiltStages
<1>7. AllTold(provider, docs, r)
  BY <1>1 DEF AllTold
<1>8. Piped(docs, r)
  BY <1>1, <1>4 DEF Piped, BuiltStages
<1>9. ChatTypeOK'
  BY <1>1, <1>2, <1>3 DEF ChatTypeOK
<1> QED BY <1>2, <1>6, <1>7, <1>8, <1>9 DEF ChatInv

LEMMA LoadKeeps ==
  ASSUME ChatInv, NEW provided \in BOOLEAN, LoadDocuments(provided)
  PROVE  ChatInv'
<1> DEFINE c    == Head(req.todo)
           told == IF provided /\ ~ Unread(c) THEN {} ELSE {"unreadable"}
           r    == [req EXCEPT !.todo = Tail(@), !.signals = @ \cup told,
                               !.loaded = IF provided THEN @ \cup {c} ELSE @]
<1>1. /\ ChatTypeOK /\ req # Nothing /\ req.stage = "loading" /\ req.todo # <<>> /\ req \in Request
      /\ Route(req) /\ AllTold(provider, docs, req) /\ Piped(docs, req)
  BY DEF ChatInv, LoadDocuments, ChatTypeOK
<1>2. req' = r /\ UNCHANGED <<docs, provider, log, sending>>
  BY DEF LoadDocuments, library
<1>3. req.todo \in Seq(Contracts) /\ req.rows \in Seq(Contracts)
  BY <1>1 DEF Request
<1>4. c \in ToSet(req.todo) /\ Tail(req.todo) \in Seq(Contracts)
  BY <1>1, <1>3 DEF ToSet
<1>5. ToSet(req.todo) = {c} \cup ToSet(Tail(req.todo))
  BY <1>1, <1>3, TailEntries
<1>6. c \in ToSet(req.rows) /\ c \in Contracts
  BY <1>1, <1>3, <1>4, InSequence DEF Route
<1>7. (provided /\ ~ UnreadIn(docs, c)) \/ "unreadable" \in told
  BY WithDocuments
<1>8. told \subseteq {"unreadable"}
  OBVIOUS
<1> HIDE DEF c, told
<1>9. r \in Request
  BY <1>1, <1>4, <1>6, <1>8 DEF Request, ChatSignals
<1>10. /\ r.stage = "loading" /\ r.rows = req.rows /\ r.refs = req.refs
       /\ r.todo = Tail(req.todo) /\ r.signals = req.signals \cup told
       /\ r.loaded = IF provided THEN req.loaded \cup {c} ELSE req.loaded
  BY <1>1 DEF Request
<1> HIDE DEF r
<1>11. Route(r)
  BY <1>1, <1>5, <1>6, <1>10 DEF Route, BuiltStages
<1>12. AllTold(provider, docs, r)
  BY <1>1, <1>5, <1>7, <1>10 DEF AllTold
<1>13. Piped(docs, r)
  BY <1>1, <1>8, <1>10 DEF Piped, BuiltStages
<1>14. ChatTypeOK'
  BY <1>1, <1>2, <1>9 DEF ChatTypeOK
<1> QED BY <1>2, <1>11, <1>12, <1>13, <1>14 DEF ChatInv

LEMMA RequestReads ==
  ASSUME NEW r \in Request, Route(r) PROVE Read(r)
BY DEF Request, Route, Read

LEMMA BuildKeeps == ASSUME ChatInv, Build PROVE ChatInv'
<1> DEFINE selected == Selected(req)
           kept     == Gate(selected)
           told     == PipelineSignals(req, selected, kept)
           r        == [req EXCEPT !.stage = "built", !.clauses = Payload(kept),
                                   !.signals = @ \cup told]
<1>1. /\ ChatTypeOK /\ req # Nothing /\ req.stage = "loading" /\ req.todo = <<>> /\ req \in Request
      /\ Route(req) /\ AllTold(provider, docs, req) /\ Piped(docs, req)
  BY DEF ChatInv, Build, ChatTypeOK
<1>2. req' = r /\ UNCHANGED <<docs, provider, log, sending>>
  BY DEF Build, library
<1>3. docs \in Provision /\ req.loaded \subseteq Contracts
  BY <1>1 DEF ChatTypeOK, Provision, Request
<1>4. FromDocuments(selected, req.topical, req.loaded)
  BY <1>1, <1>3, RequestReads, SelectedFacts
<1>5. FromDocuments(kept, req.topical, req.loaded)
  BY <1>3, <1>4, GateFacts
<1>6. selected \in Seq(Numbered) /\ kept \in Seq(Numbered)
  BY <1>4, <1>5 DEF FromDocuments
<1>7. selected = SelectedIn(docs, req) /\ kept = KeptIn(docs, req)
      /\ (AnyText(req) <=> SomeText(docs, req))
  BY WithDocuments DEF KeptIn
<1>8. Payload(kept) \in Seq(Fitted)
  BY <1>6, PayloadFacts
<1>9. told \subseteq ChatSignals
      /\ "unreadable" \notin told
      /\ ("some_dropped" \in told <=> Len(kept) < Len(selected) /\ kept # <<>>)
      /\ ("all_dropped" \in told <=> Len(kept) < Len(selected) /\ kept = <<>>)
      /\ ("truncated" \in told <=> Truncated(kept))
      /\ ("no_topic" \in told <=> Payload(kept) = <<>> /\ ~ (Len(kept) < Len(selected))
                                   /\ AnyText(req))
      /\ ("no_clauses" \in told <=> Payload(kept) = <<>>
                                   /\ ~ (~ (Len(kept) < Len(selected)) /\ AnyText(req)))
  <2> HIDE DEF selected, kept
  <2> QED BY DEF PipelineSignals, NothingMatched, ChatSignals
<1> HIDE DEF selected, kept, told
<1>10. r \in Request
  BY <1>1, <1>8, <1>9 DEF Request, Stages
<1>11. /\ r.stage = "built" /\ r.rows = req.rows /\ r.refs = req.refs /\ r.todo = <<>>
       /\ r.signals = req.signals \cup told /\ r.loaded = req.loaded
       /\ r.topical = req.topical /\ r.clauses = Payload(kept)
  BY <1>1 DEF Request
<1> HIDE DEF r
<1>12. /\ SelectedIn(docs, r) = selected /\ KeptIn(docs, r) = kept
       /\ (SomeText(docs, r) <=> AnyText(req))
  BY <1>7, <1>11, SameRequest
<1>13. Route(r)
  BY <1>1, <1>11 DEF Route, BuiltStages
<1>14. AllTold(provider, docs, r)
  BY <1>1, <1>11 DEF AllTold
<1>15. req.signals \subseteq {"unreadable"}
  BY <1>1 DEF Piped
<1>16. Piped(docs, r)
  BY <1>9, <1>11, <1>12, <1>15 DEF Piped, BuiltStages
<1>17. ChatTypeOK'
  BY <1>1, <1>2, <1>10 DEF ChatTypeOK
<1> QED BY <1>2, <1>13, <1>14, <1>16, <1>17 DEF ChatInv

\* What comes after the pipeline tells more, and changes nothing it has made.
Later == {"llm_unavailable", "llm_failed", "unverified"}

LEMMA LaterKeeps ==
  ASSUME ChatInv, req # Nothing, req.stage \in BuiltStages,
         UNCHANGED <<docs, provider, log, sending>>, NEW r \in Request, req' = r,
         r.stage \in BuiltStages, NEW told \in SUBSET Later, r.signals = req.signals \cup told,
         r.topical = req.topical, r.rows = req.rows, r.refs = req.refs, r.todo = req.todo,
         r.loaded = req.loaded, r.clauses = req.clauses
  PROVE  ChatInv'
<1>1. ChatTypeOK /\ Route(req) /\ AllTold(provider, docs, req) /\ Piped(docs, req)
  BY DEF ChatInv
<1>2. /\ SelectedIn(docs, r) = SelectedIn(docs, req) /\ KeptIn(docs, r) = KeptIn(docs, req)
      /\ (SomeText(docs, r) <=> SomeText(docs, req))
  BY SameRequest
<1>3. \A s \in {"some_dropped", "all_dropped", "truncated", "no_topic", "no_clauses"} :
            s \in r.signals <=> s \in req.signals
  BY DEF Later
<1>4. Route(r)
  BY <1>1 DEF Route, BuiltStages
<1>5. AllTold(provider, docs, r)
  BY <1>1 DEF AllTold
<1>6. Piped(docs, r)
  BY <1>1, <1>2, <1>3 DEF Piped, BuiltStages
<1>7. ChatTypeOK'
  BY <1>1 DEF ChatTypeOK
<1> QED BY <1>4, <1>5, <1>6, <1>7 DEF ChatInv

LEMMA InBodyType == ASSUME NEW s \in Seq(Fitted) PROVE InBody(s) \in Seq(Fitted)
<1> DEFINE B == {k \in DOMAIN s : Used(s, k - 1) < BodyCap}
<1>1. B \subseteq DOMAIN s
  OBVIOUS
<1>2. InBody(s) = AtMost(Cardinality(B), s)
  BY DEF InBody
<1> HIDE DEF B
<1>3. Cardinality(B) \in Nat
  BY <1>1, IndicesFinite
<1> QED BY <1>2, <1>3, AtMostFacts

LEMMA AnswerKeeps ==
  ASSUME ChatInv, NEW mention \in Reference, Answer(mention)
  PROVE  ChatInv'
<1> DEFINE r == [req EXCEPT !.stage = "answered", !.sent = InBody(req.clauses),
                            !.mention = mention]
<1>1. req \in Request /\ req # Nothing /\ req.stage = "built"
  BY DEF ChatInv, ChatTypeOK, Answer
<1>2. InBody(req.clauses) \in Seq(Fitted)
  BY <1>1, InBodyType DEF Request
<1>3. r \in Request
  BY <1>1, <1>2 DEF Request, Stages
<1>4. /\ r.stage = "answered" /\ r.signals = req.signals \cup {} /\ r.topical = req.topical
      /\ r.rows = req.rows /\ r.refs = req.refs /\ r.todo = req.todo
      /\ r.loaded = req.loaded /\ r.clauses = req.clauses
  BY <1>1 DEF Request
<1>5. req' = r /\ UNCHANGED <<docs, provider, log, sending>>
  BY DEF Answer, library
<1> HIDE DEF r
<1>6. {} \in SUBSET Later /\ r.stage \in BuiltStages /\ req.stage \in BuiltStages
  BY <1>1, <1>4 DEF BuiltStages
<1> QED BY <1>1, <1>3, <1>4, <1>5, <1>6, LaterKeeps

LEMMA DegradeKeeps ==
  ASSUME ChatInv, NEW why \in {"llm_unavailable", "llm_failed"}, Degrade(why)
  PROVE  ChatInv'
<1> DEFINE r == [req EXCEPT !.stage = "answered", !.signals = @ \cup {why}]
<1>1. req \in Request /\ req # Nothing /\ req.stage = "built"
  BY DEF ChatInv, ChatTypeOK, Degrade
<1>2. r \in Request
  BY <1>1 DEF Request, Stages, ChatSignals
<1>3. /\ r.stage = "answered" /\ r.signals = req.signals \cup {why} /\ r.topical = req.topical
      /\ r.rows = req.rows /\ r.refs = req.refs /\ r.todo = req.todo
      /\ r.loaded = req.loaded /\ r.clauses = req.clauses
  BY <1>1 DEF Request
<1>4. req' = r /\ UNCHANGED <<docs, provider, log, sending>>
  BY DEF Degrade, library
<1> HIDE DEF r
<1>5. {why} \in SUBSET Later /\ r.stage \in BuiltStages /\ req.stage \in BuiltStages
  BY <1>1, <1>3 DEF BuiltStages, Later
<1> QED BY <1>1, <1>2, <1>3, <1>4, <1>5, LaterKeeps

LEMMA VerifyKeeps ==
  ASSUME ChatInv, Verify
  PROVE  ChatInv'
<1> DEFINE told == IF req.mention \in Known(req) \cup {Nothing} THEN {} ELSE {"unverified"}
           r    == [req EXCEPT !.stage = "verified", !.signals = @ \cup told]
<1>1. req \in Request /\ req # Nothing /\ req.stage = "answered"
  BY DEF ChatInv, ChatTypeOK, Verify
<1>2. told \in SUBSET Later /\ told \subseteq ChatSignals
  BY DEF Later, ChatSignals
<1>3. req' = r /\ UNCHANGED <<docs, provider, log, sending>>
  BY DEF Verify, library
<1> HIDE DEF told
<1>4. r \in Request
  BY <1>1, <1>2 DEF Request, Stages
<1>5. /\ r.stage = "verified" /\ r.signals = req.signals \cup told /\ r.topical = req.topical
      /\ r.rows = req.rows /\ r.refs = req.refs /\ r.todo = req.todo
      /\ r.loaded = req.loaded /\ r.clauses = req.clauses
  BY <1>1 DEF Request
<1> HIDE DEF r
<1>6. r.stage \in BuiltStages /\ req.stage \in BuiltStages
  BY <1>1, <1>5 DEF BuiltStages
<1> QED BY <1>1, <1>2, <1>3, <1>4, <1>5, <1>6, LaterKeeps

LEMMA EndKeeps == ASSUME ChatInv, Reply \/ Fails PROVE ChatInv'
<1>1. PICK b \in {"answer", "failure"} : Ends(b)
  BY DEF Reply, Fails
<1>2. ChatTypeOK
  BY DEF ChatInv
<1>3. Append(log, b) \in Seq({"question", "answer", "failure"})
  BY <1>1, <1>2, LogGrows
<1> QED BY <1>1, <1>2, <1>3 DEF Ends, ChatInv, ChatTypeOK, library

LEMMA ChatStep == ChatInv /\ [ChatNext]_chatVars => ChatInv'
<1> SUFFICES ASSUME ChatInv, [ChatNext]_chatVars PROVE ChatInv'
  OBVIOUS
<1>1. ASSUME NEW topical \in BOOLEAN, NEW refs \in Selections, Send(topical, refs) PROVE ChatInv'
  BY <1>1, SendKeeps
<1>2. ASSUME NEW ledger \in SUBSET Contracts, Receive(ledger) PROVE ChatInv'
  BY <1>2, ReceiveKeeps
<1>3. ASSUME NEW provided \in BOOLEAN, LoadDocuments(provided) PROVE ChatInv'
  BY <1>3, LoadKeeps
<1>10. CASE LoadNothing
  BY <1>10, LoadNothingKeeps
<1>4. CASE Build
  BY <1>4, BuildKeeps
<1>5. ASSUME NEW mention \in Reference, Answer(mention) PROVE ChatInv'
  BY <1>5, AnswerKeeps
<1>6. ASSUME NEW why \in {"llm_unavailable", "llm_failed"}, Degrade(why) PROVE ChatInv'
  BY <1>6, DegradeKeeps
<1>7. CASE Verify
  BY <1>7, VerifyKeeps
<1>8. CASE Reply \/ Fails
  BY <1>8, EndKeeps
<1>9. CASE UNCHANGED chatVars
  BY <1>9 DEF chatVars, ChatInv, ChatTypeOK
<1> QED BY <1>1, <1>2, <1>3, <1>4, <1>5, <1>6, <1>7, <1>8, <1>9, <1>10 DEF ChatNext

LEMMA ChatInvHolds == ChatSpec => []ChatInv
<1>1. ChatInit => ChatInv
  BY ChatBegins
<1>2. ChatInv /\ [ChatNext]_chatVars => ChatInv'
  BY ChatStep
<1> QED BY <1>1, <1>2, PTL DEF ChatSpec

\* A question, its request and the page keep their shape.
THEOREM ChatTypeCorrect == ChatSpec => []ChatTypeOK
<1>1. ChatInv => ChatTypeOK
  BY DEF ChatInv
<1> QED BY <1>1, ChatInvHolds, PTL
-----------------------------------------------------------------------------
(* What leaves, what is told, and where references lead.                   *)

\* The clauses of a request are those of the pipeline that fit, under one number each.
LEMMA BuiltFacts ==
  ASSUME ChatInv, Built
  PROVE  /\ docs \in Provision /\ Read(req) /\ req \in Request
         /\ Route(req) /\ AllTold(provider, docs, req) /\ Piped(docs, req) /\ req.stage \in BuiltStages
         /\ FromDocuments(SelectedIn(docs, req), req.topical, req.loaded)
         /\ FromDocuments(KeptIn(docs, req), req.topical, req.loaded)
         /\ KeptIn(docs, req) \in Seq(Numbered)
         /\ req.loaded \subseteq Contracts
         /\ req.clauses = Payload(KeptIn(docs, req))
         /\ Len(req.clauses) = Fitting(KeptIn(docs, req))
         /\ \A i \in DOMAIN req.clauses :
                /\ i \in DOMAIN KeptIn(docs, req)
                /\ req.clauses[i].contract = KeptIn(docs, req)[i].contract
                /\ req.clauses[i].index = KeptIn(docs, req)[i].index
                /\ req.clauses[i].clause = KeptIn(docs, req)[i].clause
                /\ req.clauses[i].size = Cut(KeptIn(docs, req)[i])
<1> DEFINE kept == KeptIn(docs, req)
<1>1. /\ ChatTypeOK /\ req # Nothing /\ req.stage \in BuiltStages /\ req \in Request
      /\ Route(req) /\ AllTold(provider, docs, req) /\ Piped(docs, req)
  BY DEF ChatInv, Built, BuiltStages, ChatTypeOK
<1>2. docs \in Provision /\ Read(req) /\ req.loaded \subseteq Contracts
  BY <1>1, RequestReads DEF ChatTypeOK, Provision, Request
<1>3. FromDocuments(SelectedIn(docs, req), req.topical, req.loaded)
  BY <1>2, SelectedFacts, WithDocuments
<1>4. FromDocuments(kept, req.topical, req.loaded)
  BY <1>2, <1>3, GateFacts DEF KeptIn
<1>5. kept \in Seq(Numbered)
  BY <1>4 DEF FromDocuments
<1>6. req.clauses = Payload(kept)
  BY <1>1 DEF Piped
<1> HIDE DEF kept
<1>7. /\ Payload(kept) \in Seq(Fitted) /\ Len(Payload(kept)) = Fitting(kept)
      /\ \A i \in 1 .. Fitting(kept) :
                /\ i \in DOMAIN kept
                /\ Payload(kept)[i] = [contract |-> kept[i].contract, index |-> kept[i].index,
                                       clause |-> kept[i].clause, size |-> Cut(kept[i])]
  BY <1>5, PayloadFacts
<1>8. DOMAIN req.clauses = 1 .. Fitting(kept)
  BY <1>6, <1>7
<1>9. \A i \in DOMAIN req.clauses :
                /\ i \in DOMAIN kept
                /\ req.clauses[i].contract = kept[i].contract
                /\ req.clauses[i].index = kept[i].index
                /\ req.clauses[i].clause = kept[i].clause
                /\ req.clauses[i].size = Cut(kept[i])
  BY <1>6, <1>7, <1>8
<1> QED BY <1>1, <1>2, <1>3, <1>4, <1>5, <1>6, <1>7, <1>9 DEF kept

LEMMA OnlyMatching == ASSUME ChatInv PROVE OnlyMatchingFragmentsLeave
<1> SUFFICES ASSUME Built PROVE
        /\ \A n \in ToSet(req.clauses) :
                /\ n.contract \in ToSet(req.refs)
                /\ Matches(req.topical, n.clause) /\ ~ n.clause.sensitive
        /\ \A c \in Contracts : Cardinality(SentIn(c)) <= PerContract
        /\ SumFunction([i \in DOMAIN req.clauses |-> req.clauses[i].size]) <= TotalCap
  BY DEF OnlyMatchingFragmentsLeave
<1> DEFINE kept == KeptIn(docs, req)
<1>1. /\ docs \in Provision /\ req \in Request /\ Route(req) /\ req.loaded \subseteq Contracts
      /\ FromDocuments(SelectedIn(docs, req), req.topical, req.loaded)
      /\ FromDocuments(kept, req.topical, req.loaded) /\ kept \in Seq(Numbered)
      /\ req.clauses = Payload(kept)
      /\ \A i \in DOMAIN req.clauses :
                /\ i \in DOMAIN kept
                /\ req.clauses[i].contract = kept[i].contract
                /\ req.clauses[i].clause = kept[i].clause
  BY BuiltFacts
<1>2. \A n \in DOMAIN kept : ~ kept[n].clause.sensitive
  BY <1>1, GateFacts DEF KeptIn
<1>3. \A n \in DOMAIN kept : /\ kept[n].contract \in req.loaded
                             /\ Matches(req.topical, kept[n].clause)
  BY <1>1 DEF FromDocuments, Matching
<1> HIDE DEF kept
<1>4. req.clauses \in Seq(Fitted)
  BY <1>1 DEF Request
<1>5. ASSUME NEW n \in ToSet(req.clauses)
      PROVE  /\ n.contract \in ToSet(req.refs)
             /\ Matches(req.topical, n.clause) /\ ~ n.clause.sensitive
  <2>1. PICK i \in DOMAIN req.clauses : req.clauses[i] = n
    BY <1>4, InSequence
  <2>2. n.contract \in req.loaded
    BY <1>1, <1>3, <2>1
  <2>3. n.contract \in ToSet(req.refs)
    BY <1>1, <2>2 DEF Route
  <2> QED BY <1>1, <1>2, <1>3, <2>1, <2>3
<1>6. ASSUME NEW c \in Contracts PROVE Cardinality(SentIn(c)) <= PerContract
  <2> DEFINE P == {i \in DOMAIN kept : kept[i].contract = c}
             Q == {i \in DOMAIN req.clauses : req.clauses[i].contract = c}
             g == [i \in Q |-> req.clauses[i]]
  <2>1. P \subseteq DOMAIN kept
    OBVIOUS
  <2>2. IsFiniteSet(P) /\ Cardinality(P) \in Nat
    BY <1>1, <2>1, IndicesFinite
  <2>3. Cardinality(P) <= PerContract /\ PerContract \in Nat
    BY <1>1, ChatAssumption DEF FromDocuments
  <2>4. Q \subseteq P
    BY <1>1
  <2>5. g \in Surjection(Q, SentIn(c))
    <3>1. \A n \in SentIn(c) : \E i \in Q : req.clauses[i] = n
      BY <1>4, InSequence DEF SentIn
    <3>2. \A i \in Q : req.clauses[i] \in SentIn(c)
      BY <1>4, InSequence DEF SentIn
    <3> QED BY <3>1, <3>2 DEF Surjection
  <2> HIDE DEF P, Q, g
  <2>6. IsFiniteSet(Q) /\ Cardinality(Q) <= Cardinality(P)
    BY <2>2, <2>4, FS_Subset
  <2>7. IsFiniteSet(SentIn(c)) /\ Cardinality(SentIn(c)) <= Cardinality(Q)
    BY <2>5, <2>6, FS_Surjection
  <2>8. Cardinality(Q) \in Nat /\ Cardinality(SentIn(c)) \in Nat
    BY <2>6, <2>7, FS_CardinalityType
  <2> QED BY <2>2, <2>3, <2>6, <2>7, <2>8
<1>7. SumFunction([i \in DOMAIN req.clauses |-> req.clauses[i].size]) <= TotalCap
  BY <1>1, PayloadFacts
<1> QED BY <1>5, <1>6, <1>7

\* What is sent to the model belongs to contracts that were asked about, matches the
\* question, has passed the gate, and keeps each of the ceilings, whatever the
\* documents hold and however long they are (OnlyMatchingFragmentsLeave).
THEOREM FragmentsOnly == ChatSpec => []OnlyMatchingFragmentsLeave
<1>1. ChatInv => OnlyMatchingFragmentsLeave
  BY OnlyMatching
<1> QED BY <1>1, ChatInvHolds, PTL

LEMMA MatchingIs ==
  \A c : MatchingIn(c) = Matching(req.topical, c)
BY DEF MatchingIn, Matching

\* Nothing is selected exactly if nothing matches in what was loaded, and nothing is
\* sent exactly if the gate left nothing.
LEMMA EmptyMeans ==
  ASSUME ChatInv, Built
  PROVE  /\ SelectedIn(docs, req) \in Seq(Numbered)
         /\ Len(SelectedIn(docs, req)) > 0 <=> \E c \in req.loaded : MatchingIn(c) # {}
         /\ req.clauses = <<>> <=> KeptIn(docs, req) = <<>>
         /\ SomeText(docs, req) <=> \E c \in req.loaded : TextOf(c) # <<>>
<1> DEFINE selected == SelectedIn(docs, req)
           kept == KeptIn(docs, req)
<1>1. /\ docs \in Provision /\ Read(req) /\ req.loaded \subseteq Contracts
      /\ FromDocuments(selected, req.topical, req.loaded) /\ kept \in Seq(Numbered)
      /\ req.clauses = Payload(kept) /\ Len(req.clauses) = Fitting(kept)
      /\ req \in Request
  BY BuiltFacts
<1>2. selected \in Seq(Numbered)
  BY <1>1 DEF FromDocuments
<1>3. ASSUME NEW c \in req.loaded, MatchingIn(c) # {} PROVE Len(selected) > 0
  BY <1>1, <1>3, SelectedFacts, WithDocuments, MatchingIs
<1>4. ASSUME Len(selected) > 0 PROVE \E c \in req.loaded : MatchingIn(c) # {}
  <2>1. 1 \in DOMAIN selected
    BY <1>2, <1>4
  <2>2. /\ selected[1].contract \in req.loaded
        /\ selected[1].index \in Matching(req.topical, selected[1].contract)
    BY <1>1, <2>1 DEF FromDocuments
  <2> QED BY <2>2, MatchingIs
<1> HIDE DEF selected, kept
<1>5. req.clauses \in Seq(Fitted)
  BY <1>1 DEF Request
<1>6. req.clauses = <<>> <=> kept = <<>>
  <2>1. Fitting(kept) \in 0 .. Len(kept) /\ (Len(kept) > 0 => Fitting(kept) > 0)
    BY <1>1, FittingFacts
  <2>2. (kept = <<>> <=> Len(kept) = 0) /\ Len(kept) \in Nat
    BY <1>1, EmptySeq
  <2>3. (req.clauses = <<>> <=> Len(req.clauses) = 0)
    BY <1>5, EmptySeq
  <2> QED BY <1>1, <2>1, <2>2, <2>3
<1>7. SomeText(docs, req) <=> \E c \in req.loaded : TextOf(c) # <<>>
  <2> SUFFICES ASSUME NEW c \in req.loaded
               PROVE  ClausesIn(docs, c) # <<>> <=> TextOf(c) # <<>>
    BY DEF SomeText
  <2>1. c \in Contracts
    BY <1>1
  <2>2. /\ ClausesOf(c) \in Seq(Numbered) /\ Len(ClausesOf(c)) = Len(TextOf(c))
        /\ TextOf(c) \in Seq(Clause)
    BY <1>1, <2>1, ClausesFacts, TextFacts
  <2>3. ClausesOf(c) = <<>> <=> Len(ClausesOf(c)) = 0
    BY <2>2, EmptySeq
  <2>4. TextOf(c) = <<>> <=> Len(TextOf(c)) = 0
    BY <2>2, EmptySeq
  <2> QED BY <2>2, <2>3, <2>4, WithDocuments
<1> QED BY <1>2, <1>3, <1>4, <1>6, <1>7 DEF selected, kept

LEMMA Explained == ASSUME ChatInv, Built PROVE EmptyIsExplained
<1> DEFINE selected == SelectedIn(docs, req)
           kept     == KeptIn(docs, req)
           text     == \E c \in req.loaded : TextOf(c) # <<>>
           matched  == \E c \in req.loaded : MatchingIn(c) # {}
<1> SUFFICES ASSUME req.clauses = <<>>
             PROVE  /\ "no_topic" \in req.signals <=> text /\ ~ matched
                    /\ "all_dropped" \in req.signals <=> matched
                    /\ "no_clauses" \in req.signals <=> ~ text \/ matched
  BY DEF EmptyIsExplained
<1>1. /\ Piped(docs, req) /\ req.stage \in BuiltStages /\ kept \in Seq(Numbered)
      /\ req.clauses = Payload(kept)
  BY BuiltFacts
<1>2. /\ selected \in Seq(Numbered) /\ (Len(selected) > 0 <=> matched)
      /\ kept = <<>> /\ (SomeText(docs, req) <=> text)
  BY EmptyMeans
<1>3. /\ "all_dropped" \in req.signals <=> Len(kept) < Len(selected) /\ kept = <<>>
      /\ "no_topic" \in req.signals <=>
              Payload(kept) = <<>> /\ ~ (Len(kept) < Len(selected)) /\ SomeText(docs, req)
      /\ "no_clauses" \in req.signals <=>
              Payload(kept) = <<>> /\ ~ (~ (Len(kept) < Len(selected)) /\ SomeText(docs, req))
  BY <1>1 DEF Piped
<1>4. Payload(kept) = <<>>
  BY <1>1
<1> HIDE DEF selected, kept, text, matched
<1>5. Len(kept) < Len(selected) <=> matched
  <2>1. Len(kept) = 0 /\ Len(selected) \in Nat
    BY <1>2
  <2> QED BY <1>2, <2>1
<1> QED BY <1>2, <1>3, <1>4, <1>5

\* A matching clause among the best of its contract was selected; then it is sent, or was dropped by the gate, or cut off.
LEMMA MissingIsTold ==
  ASSUME ChatInv, Built, NEW c \in req.loaded, NEW i \in MatchingIn(c),
         ~ (Cardinality(Before(c, i)) >= PerContract)
  PROVE  \/ \E n \in SentIn(c) : n.index = i /\ n.size = TextOf(c)[i].size
         \/ IF TextOf(c)[i].sensitive
            THEN req.signals \cap {"some_dropped", "all_dropped"} # {}
            ELSE "truncated" \in req.signals
<1> DEFINE selected == SelectedIn(docs, req)
           kept     == KeptIn(docs, req)
<1>1. /\ docs \in Provision /\ Read(req) /\ req \in Request /\ req.loaded \subseteq Contracts
      /\ Piped(docs, req) /\ req.stage \in BuiltStages
      /\ FromDocuments(selected, req.topical, req.loaded) /\ kept \in Seq(Numbered)
      /\ FromDocuments(kept, req.topical, req.loaded)
      /\ Len(req.clauses) = Fitting(kept)
      /\ \A k \in DOMAIN req.clauses :
                /\ k \in DOMAIN kept
                /\ req.clauses[k].contract = kept[k].contract
                /\ req.clauses[k].index = kept[k].index
                /\ req.clauses[k].size = Cut(kept[k])
  BY BuiltFacts
<1>2. kept = Gate(selected)
  BY DEF KeptIn
<1>3. i \in Matching(req.topical, c) /\ c \in Contracts
  BY <1>1, MatchingIs
<1>4. Cardinality(Ahead(req.topical, c, i)) < PerContract
  <2>1. Before(c, i) = Ahead(req.topical, c, i)
    BY MatchingIs DEF Before, Ahead
  <2>2. IsFiniteSet(Matching(req.topical, c)) /\ PerContract \in Nat
    BY <1>1, <1>3, MatchingIsFinite, ChatAssumption DEF Read
  <2>3. Ahead(req.topical, c, i) \subseteq Matching(req.topical, c)
    BY DEF Ahead
  <2>4. Cardinality(Ahead(req.topical, c, i)) \in Nat
    BY <2>2, <2>3, FS_Subset, FS_CardinalityType
  <2> QED BY <2>1, <2>2, <2>4
<1>5. PICK n \in DOMAIN selected : selected[n].contract = c /\ selected[n].index = i
  BY <1>1, <1>3, <1>4, SelectedFacts, WithDocuments
<1>6. selected[n].clause = TextOf(c)[i]
  BY <1>1, <1>5 DEF FromDocuments
<1>7. /\ "some_dropped" \in req.signals <=> Len(kept) < Len(selected) /\ kept # <<>>
      /\ "all_dropped" \in req.signals <=> Len(kept) < Len(selected) /\ kept = <<>>
      /\ "truncated" \in req.signals <=> Truncated(kept)
  BY <1>1 DEF Piped
<1> HIDE DEF selected, kept
<1>8. CASE TextOf(c)[i].sensitive
  <2>1. Len(kept) < Len(selected)
    BY <1>1, <1>2, <1>5, <1>6, <1>8, GateFacts
  <2> QED BY <1>7, <1>8, <2>1
<1>9. CASE ~ TextOf(c)[i].sensitive
  <2>1. PICK k \in DOMAIN kept : kept[k] = selected[n]
    <3>1. \A j \in DOMAIN selected : selected[j].clause.sensitive
                                     \/ \E m \in DOMAIN kept : kept[m] = selected[j]
      <4>1. req.loaded \subseteq Contracts /\ FromDocuments(selected, req.topical, req.loaded)
        BY <1>1
      <4>2. LetsThrough(selected, Gate(selected))
        BY <4>1, GateFacts
      <4> QED BY <4>2, <1>2 DEF LetsThrough
    <3>2. n \in DOMAIN selected /\ ~ selected[n].clause.sensitive
      BY <1>5, <1>6, <1>9
    <3> QED BY <3>1, <3>2
  <2>2. Len(kept) \in Nat /\ k \in 1 .. Len(kept) /\ Fitting(kept) \in 0 .. Len(kept)
    BY <1>1, FittingFacts
  <2>3. CASE Fitting(kept) < Len(kept) \/ kept[k].clause.size > ClauseCap
    BY <1>7, <1>9, <2>3 DEF Truncated
  <2>4. CASE ~ (Fitting(kept) < Len(kept)) /\ ~ (kept[k].clause.size > ClauseCap)
    <3>1. Cut(kept[k]) = kept[k].clause.size
      BY <2>4 DEF Cut
    <3>2. req.clauses \in Seq(Fitted)
      BY <1>1 DEF Request
    <3>3. k \in DOMAIN req.clauses
      BY <1>1, <2>2, <2>4, <3>2
    <3>4. req.clauses[k] \in SentIn(c)
      BY <1>1, <1>5, <2>1, <3>2, <3>3, InSequence DEF SentIn
    <3>5. req.clauses[k].index = i /\ req.clauses[k].size = TextOf(c)[i].size
      BY <1>1, <1>5, <1>6, <2>1, <3>1, <3>3
    <3> QED BY <3>4, <3>5
  <2> QED BY <2>3, <2>4
<1> QED BY <1>8, <1>9

\* A matching clause that is not whole in the payload either has as many better ones
\* of its contract before it as the contract's share, or is told; with a provider, a
\* document that was not read is told; and so is the reason when the payload has no
\* clause (LossIsTold).
THEOREM LossStaysTold == ChatSpec => []LossIsTold
<1>1. ASSUME ChatInv PROVE LossIsTold
  <2> SUFFICES ASSUME Built PROVE
        /\ EmptyIsExplained
        /\ \A c \in req.loaded : \A i \in MatchingIn(c) :
            \/ Cardinality(Before(c, i)) >= PerContract
            \/ \E n \in SentIn(c) : n.index = i /\ n.size = TextOf(c)[i].size
            \/ IF TextOf(c)[i].sensitive
               THEN req.signals \cap {"some_dropped", "all_dropped"} # {}
               ELSE "truncated" \in req.signals
        /\ provider => \A c \in ToSet(req.rows) :
            c \notin req.loaded \/ Unread(c) => "unreadable" \in req.signals
    BY DEF LossIsTold
  <2>1. EmptyIsExplained
    BY <1>1, Explained
  <2>2. provider => \A c \in ToSet(req.rows) :
            c \notin req.loaded \/ Unread(c) => "unreadable" \in req.signals
    <3>1. Route(req) /\ AllTold(provider, docs, req) /\ req.stage \in BuiltStages
      BY <1>1, BuiltFacts
    <3>2. req.todo = <<>> /\ ToSet(<<>>) = {}
      BY <3>1 DEF Route, ToSet
    <3> QED BY <3>1, <3>2, WithDocuments DEF AllTold
  <2> QED BY <1>1, <2>1, <2>2, MissingIsTold
<1>2. ChatInv => LossIsTold
  BY <1>1
<1> QED BY <1>2, ChatInvHolds, PTL
\* Nobody refers to anything before there is an answer; what is not flagged is known.
AnswerInv == req # Nothing =>
    /\ req.stage \in {"sent", "loading", "built"} => req.mention = Nothing
    /\ req.stage = "verified" =>
            "unverified" \in req.signals \/ req.mention \in Known(req) \cup {Nothing}

LEMMA AnswerStep ==
  ChatInv /\ AnswerInv /\ [ChatNext]_chatVars => AnswerInv'
<1> SUFFICES ASSUME ChatInv, AnswerInv, [ChatNext]_chatVars PROVE AnswerInv'
  OBVIOUS
<1>1. req # Nothing => req \in Request
  BY DEF ChatInv, ChatTypeOK
<1>2. ASSUME NEW topical \in BOOLEAN, NEW refs \in Selections, Send(topical, refs)
      PROVE  AnswerInv'
  BY <1>2 DEF Send, AnswerInv
<1>3. ASSUME NEW ledger \in SUBSET Contracts, Receive(ledger) PROVE AnswerInv'
  <2>1. req # Nothing /\ req.stage = "sent" /\ req.mention = Nothing
    BY <1>3 DEF Receive, AnswerInv
  <2>2. req'.stage = "loading" /\ req'.mention = Nothing
    BY <1>1, <1>3, <2>1 DEF Receive, Request
  <2> QED BY <2>2 DEF AnswerInv
<1>4. ASSUME NEW provided \in BOOLEAN, LoadDocuments(provided) PROVE AnswerInv'
  <2>1. req # Nothing /\ req.stage = "loading" /\ req.mention = Nothing
    BY <1>4 DEF LoadDocuments, AnswerInv
  <2>2. req'.stage = "loading" /\ req'.mention = Nothing
    BY <1>1, <1>4, <2>1 DEF LoadDocuments, Request
  <2> QED BY <2>2 DEF AnswerInv
<1>11. CASE LoadNothing
  <2>1. req # Nothing /\ req.stage = "loading" /\ req.mention = Nothing
    BY <1>11 DEF LoadNothing, AnswerInv
  <2>2. req'.stage = "loading" /\ req'.mention = Nothing
    BY <1>1, <1>11, <2>1 DEF LoadNothing, Request
  <2> QED BY <2>2 DEF AnswerInv
<1>5. CASE Build
  <2>1. req # Nothing /\ req.stage = "loading" /\ req.mention = Nothing
    BY <1>5 DEF Build, AnswerInv
  <2>2. req'.stage = "built" /\ req'.mention = Nothing
    BY <1>1, <1>5, <2>1 DEF Build, Request
  <2> QED BY <2>2 DEF AnswerInv
<1>6. ASSUME NEW mention \in Reference, Answer(mention) PROVE AnswerInv'
  <2>1. req # Nothing /\ req.stage = "built"
    BY <1>6 DEF Answer
  <2>2. req'.stage = "answered"
    BY <1>1, <1>6, <2>1 DEF Answer, Request
  <2> QED BY <2>2 DEF AnswerInv
<1>7. ASSUME NEW why \in {"llm_unavailable", "llm_failed"}, Degrade(why) PROVE AnswerInv'
  <2>1. req # Nothing /\ req.stage = "built" /\ req.mention = Nothing
    BY <1>7 DEF Degrade, AnswerInv
  <2>2. req'.stage = "answered"
    BY <1>1, <1>7, <2>1 DEF Degrade, Request
  <2> QED BY <2>2 DEF AnswerInv
<1>8. CASE Verify
  <2> DEFINE told == IF req.mention \in Known(req) \cup {Nothing} THEN {} ELSE {"unverified"}
             r    == [req EXCEPT !.stage = "verified", !.signals = @ \cup told]
  <2>1. req # Nothing /\ req.stage = "answered"
    BY <1>8 DEF Verify
  <2>2. req' = r
    BY <1>8 DEF Verify
  <2>3. /\ r.stage = "verified" /\ r.mention = req.mention
        /\ r.clauses = req.clauses /\ r.rows = req.rows /\ r.signals = req.signals \cup told
    BY <1>1, <2>1 DEF Request
  <2>4. "unverified" \in told \/ req.mention \in Known(req) \cup {Nothing}
    OBVIOUS
  <2> HIDE DEF told, r
  <2>5. Known(r) = Known(req)
    BY <2>3 DEF Known
  <2>6. "unverified" \in r.signals \/ r.mention \in Known(r) \cup {Nothing}
    BY <2>3, <2>4, <2>5
  <2>7. \A q : Known(q) = ToSet(q.rows) \cup UNION {{n.contract, n.clause.mark} : n \in ToSet(q.clauses)}
    BY DEF Known
  <2> QED BY <2>2, <2>3, <2>6 DEF AnswerInv, Known
<1>9. CASE Reply \/ Fails
  BY <1>9 DEF Reply, Fails, Ends, AnswerInv
<1>10. CASE UNCHANGED chatVars
  BY <1>10 DEF chatVars, AnswerInv, Known
<1> QED BY <1>2, <1>3, <1>4, <1>5, <1>6, <1>7, <1>8, <1>9, <1>10, <1>11 DEF ChatNext

LEMMA CitationsLead ==
  ASSUME ChatInv, Built
  PROVE  \A i, j \in DOMAIN req.clauses :
            LET m == req.clauses[i]
                n == req.clauses[j]
            IN  /\ m.contract = n.contract /\ m.index = n.index => i = j
                /\ TextOf(m.contract)[m.index] = m.clause
<1> DEFINE kept == KeptIn(docs, req)
<1>1. /\ FromDocuments(kept, req.topical, req.loaded)
      /\ \A i \in DOMAIN req.clauses :
                /\ i \in DOMAIN kept
                /\ req.clauses[i].contract = kept[i].contract
                /\ req.clauses[i].index = kept[i].index
                /\ req.clauses[i].clause = kept[i].clause
  BY BuiltFacts
<1> HIDE DEF kept
<1> QED BY <1>1 DEF FromDocuments

LEMMA MentionsLead ==
  ASSUME ChatInv, AnswerInv, req # Nothing, req.stage = "verified"
  PROVE  \/ "unverified" \in req.signals
         \/ req.mention \in {Nothing} \cup ToSet(req.refs)
         \/ \E n \in ToSet(req.clauses) :
               LET text == TextOf(n.contract)[n.index]
               IN  text.mark = req.mention /\ ~text.sensitive
<1> DEFINE kept == KeptIn(docs, req)
<1>1. Built /\ req \in Request
  BY DEF Built, ChatInv, ChatTypeOK
<1>2. /\ FromDocuments(SelectedIn(docs, req), req.topical, req.loaded) /\ Route(req)
      /\ FromDocuments(kept, req.topical, req.loaded) /\ req.loaded \subseteq Contracts
      /\ \A i \in DOMAIN req.clauses :
                /\ i \in DOMAIN kept
                /\ req.clauses[i].contract = kept[i].contract
                /\ req.clauses[i].index = kept[i].index
                /\ req.clauses[i].clause = kept[i].clause
  BY <1>1, BuiltFacts
<1>3. \A i \in DOMAIN kept : ~ kept[i].clause.sensitive
  BY <1>2, GateFacts DEF KeptIn
<1> HIDE DEF kept
<1>4. \A i \in DOMAIN req.clauses :
            /\ req.clauses[i].contract \in ToSet(req.rows)
            /\ ~ req.clauses[i].clause.sensitive
            /\ TextOf(req.clauses[i].contract)[req.clauses[i].index] = req.clauses[i].clause
  BY <1>2, <1>3 DEF FromDocuments, Route
<1>5. req.clauses \in Seq(Fitted)
  BY <1>1 DEF Request
<1>6. \A n \in ToSet(req.clauses) :
            /\ n.contract \in ToSet(req.rows) /\ ~ n.clause.sensitive
            /\ TextOf(n.contract)[n.index] = n.clause
  BY <1>4, <1>5, InSequence
<1>7. ToSet(req.rows) \subseteq ToSet(req.refs)
  BY <1>2 DEF Route
<1>8. "unverified" \in req.signals \/ req.mention \in Known(req) \cup {Nothing}
  BY DEF AnswerInv
<1>9. \A x \in Known(req) : x \in ToSet(req.rows) \/ \E n \in ToSet(req.clauses) : x = n.clause.mark
  BY <1>6 DEF Known
<1> QED BY <1>6, <1>7, <1>8, <1>9

\* No two citations are the same and each leads to the clause of the payload under
\* it; an answer that refers to anything but a contract asked for, or an article that
\* a citation leads to and the gate let through, is flagged (ReferencesLeadToClauses).
THEOREM ReferencesLead == ChatSpec => []ReferencesLeadToClauses
<1>1. ChatInit => AnswerInv
  BY DEF ChatInit, AnswerInv
<1>2. ChatInv /\ AnswerInv /\ [ChatNext]_chatVars => AnswerInv'
  BY AnswerStep
<1>3. ChatInv /\ AnswerInv => ReferencesLeadToClauses
  BY CitationsLead, MentionsLead DEF ReferencesLeadToClauses
<1>4. ChatSpec => []ChatInv
  BY ChatInvHolds
<1> QED BY <1>1, <1>2, <1>3, <1>4, PTL DEF ChatSpec

-----------------------------------------------------------------------------
(* The ledger: the rules on one contract.                                  *)
Severities == 0 .. 85

LEMMA RulesAre ==
  ToSet(Rules) = {"contract_expired_not_closed", "contract_expiring_soon",
                      "executing_without_approval", "rejected_but_not_closed",
                      "date_range_inverted", "missing_total_amount", "missing_sign_date",
                      "missing_end_date", "still_draft"}
BY DEF ToSet, Rules

\* The look-ahead window a contract is in, by the days it has left.
LEMMA TiersAre ==
  ToSet(Tiers) = {[days |-> 30, severity |-> 65], [days |-> 60, severity |-> 50],
                    [days |-> 90, severity |-> 35]}
BY DEF ToSet, Tiers

LEMMA UrgencyIs ==
  ASSUME NEW c \in Contract, day \in Nat, WithinTiers(c) # {}
  PROVE  /\ c.end >= day /\ c.end - day <= 90
         /\ Urgency(c) = IF c.end - day <= 30 THEN 65
                           ELSE IF c.end - day <= 60 THEN 50 ELSE 35
<1>1. c.end \in Int
  BY DEF Contract
<1> DEFINE W == WithinTiers(c)
<1>2. W = {t \in {[days |-> 30, severity |-> 65], [days |-> 60, severity |-> 50],
                  [days |-> 90, severity |-> 35]} : c.end >= day /\ c.end - day <= t.days}
  BY TiersAre DEF WithinTiers
<1>3. c.end >= day /\ c.end - day <= 90
  BY <1>1, <1>2
<1>4. PICK d \in Int : d = c.end - day
  BY <1>1
<1> DEFINE best == IF d <= 30 THEN [days |-> 30, severity |-> 65]
                   ELSE IF d <= 60 THEN [days |-> 60, severity |-> 50]
                   ELSE [days |-> 90, severity |-> 35]
<1>5. W = {t \in {[days |-> 30, severity |-> 65], [days |-> 60, severity |-> 50],
                  [days |-> 90, severity |-> 35]} : d <= t.days}
  BY <1>2, <1>3, <1>4
<1> HIDE DEF W
<1>6. best \in W /\ \A u \in W : best.days <= u.days
  BY <1>3, <1>4, <1>5
<1>7. \A t \in W : (\A u \in W : t.days <= u.days) => t = best
  <2>1. \A t \in W : t.days = best.days => t = best
    BY <1>5
  <2>2. \A t \in W : t.days \in Int /\ best.days \in Int
    BY <1>5
  <2> HIDE DEF best
  <2> QED BY <1>6, <2>1, <2>2
<1> HIDE DEF best
<1>8. (CHOOSE t \in W : \A u \in W : t.days <= u.days) = best
  BY <1>6, <1>7
<1>9. Urgency(c) = best.severity
  BY <1>8 DEF Urgency, W
<1> QED BY <1>3, <1>4, <1>9 DEF best

\* What a rule that fires on a contract finds.
SeverityOf(rule, c) == IF rule = "contract_expiring_soon" THEN Urgency(c) ELSE Fixed[rule]

LEMMA SeveritiesAre ==
  ASSUME NEW c \in Contract, day \in Nat, NEW rule \in ToSet(Rules), Fires(rule, c)
  PROVE  SeverityOf(rule, c) \in Severities
<1>1. CASE rule = "contract_expiring_soon"
  <2>1. WithinTiers(c) # {}
    BY <1>1 DEF Fires
  <2>2. Urgency(c) \in {65, 50, 35}
    BY <2>1, UrgencyIs
  <2> QED BY <1>1, <2>2 DEF SeverityOf, Severities
<1>2. CASE rule # "contract_expiring_soon"
  BY <1>2, RulesAre DEF SeverityOf, Severities, Fixed
<1> QED BY <1>1, <1>2

\* The score is that of a rule that fires, or 0, and no rule that fires exceeds it.
LEMMA ScoreIs ==
  ASSUME NEW c \in Contract, day \in Nat
  PROVE  /\ Score(c) \in Severities
         /\ \A rule \in ToSet(Rules) : Fires(rule, c) =>
                SeverityOf(rule, c) \in Severities /\ SeverityOf(rule, c) <= Score(c)
         /\ \/ Score(c) = 0
            \/ \E rule \in ToSet(Rules) : Fires(rule, c) /\ Score(c) = SeverityOf(rule, c)
<1> DEFINE found == {f.severity : f \in Findings(c)}
           S     == {0} \cup found
<1>1. Findings(c) = {[rule |-> rule, severity |-> SeverityOf(rule, c)] :
                        rule \in {r \in ToSet(Rules) : Fires(r, c)}}
  BY DEF Findings, SeverityOf
<1>2. \A n : n \in found <=>
                \E rule \in ToSet(Rules) : Fires(rule, c) /\ n = SeverityOf(rule, c)
  <2>1. ASSUME NEW n \in found
        PROVE  \E rule \in ToSet(Rules) : Fires(rule, c) /\ n = SeverityOf(rule, c)
    <3>1. PICK f \in Findings(c) : n = f.severity
      BY <2>1
    <3>2. PICK rule \in ToSet(Rules) :
              Fires(rule, c) /\ f = [rule |-> rule, severity |-> SeverityOf(rule, c)]
      BY <1>1, <3>1
    <3> QED BY <3>1, <3>2
  <2>2. ASSUME NEW rule \in ToSet(Rules), Fires(rule, c)
        PROVE  SeverityOf(rule, c) \in found
    <3>1. PICK f : f = [rule |-> rule, severity |-> SeverityOf(rule, c)]
      OBVIOUS
    <3>2. f \in Findings(c)
      BY <1>1, <2>2, <3>1
    <3>3. f.severity = SeverityOf(rule, c)
      BY <3>1
    <3> QED BY <3>2, <3>3
  <2> HIDE DEF found
  <2> QED BY <2>1, <2>2
<1> HIDE DEF found
<1>3. S \subseteq Severities
  BY <1>2, SeveritiesAre DEF Severities
<1>4. IsFiniteSet(S) /\ S \subseteq Nat /\ S # {}
  <2>1. IsFiniteSet(Severities)
    <3>1. 0 \in Int /\ 85 \in Int
      OBVIOUS
    <3> QED BY <3>1, FS_Interval DEF Severities
  <2>2. IsFiniteSet(S)
    BY <1>3, <2>1, FS_Subset
  <2> QED BY <2>2, <1>3 DEF Severities
<1>5. Score(c) = Max(S)
  BY DEF Score, Worst, found
<1> HIDE DEF S
<1>6. Max(S) \in S /\ \A n \in S : n <= Max(S)
  BY <1>4, HighestExists
<1>7. Score(c) \in Severities
  BY <1>3, <1>5, <1>6
<1>8. \A rule \in ToSet(Rules) : Fires(rule, c) => SeverityOf(rule, c) \in S
  BY <1>2 DEF S
<1>9. \/ Score(c) = 0
      \/ \E rule \in ToSet(Rules) : Fires(rule, c) /\ Score(c) = SeverityOf(rule, c)
  BY <1>2, <1>5, <1>6 DEF S
<1>10. \A rule \in ToSet(Rules) : Fires(rule, c) => SeverityOf(rule, c) \in Severities
  BY SeveritiesAre
<1> QED BY <1>5, <1>6, <1>7, <1>8, <1>9, <1>10
-----------------------------------------------------------------------------
(* The days go by.                                                         *)

\* What a day's scores are, of each contract of the table.
UrgencyKnown(c) == WithinTiers(c) # {} =>
    /\ c.end >= day /\ c.end - day <= 90
    /\ Urgency(c) = IF c.end - day <= 30 THEN 65 ELSE IF c.end - day <= 60 THEN 50 ELSE 35
ScoreKnown(c) ==
    /\ Score(c) \in Severities
    /\ \A rule \in ToSet(Rules) : Fires(rule, c) =>
                SeverityOf(rule, c) \in Severities /\ SeverityOf(rule, c) <= Score(c)
    /\ \/ Score(c) = 0
       \/ \E rule \in ToSet(Rules) : Fires(rule, c) /\ Score(c) = SeverityOf(rule, c)
ScoreInv == LedgerTypeOK /\ day \in Nat
            /\ \A n \in DOMAIN contracts : UrgencyKnown(contracts[n]) /\ ScoreKnown(contracts[n])

LEMMA ScoresAreKnown ==
  ASSUME LedgerTypeOK
  PROVE  ScoreInv
<1>1. day \in Nat
  BY LedgerAssumption DEF LedgerTypeOK
<1>2. ASSUME NEW n \in DOMAIN contracts
      PROVE  UrgencyKnown(contracts[n]) /\ ScoreKnown(contracts[n])
  <2>1. PICK c \in Contract : c = contracts[n]
    BY DEF LedgerTypeOK
  <2>2. UrgencyKnown(c)
    BY <1>1, UrgencyIs DEF UrgencyKnown
  <2>3. ScoreKnown(c)
    BY <1>1, ScoreIs DEF ScoreKnown
  <2> QED BY <2>1, <2>2, <2>3
<1> QED BY <1>1, <1>2 DEF ScoreInv

\* A rule that fires still does on a later day, or the overdue rule, which is worse
\* than any look-ahead window, has taken its place.
LEMMA FindingsWorsen ==
  ASSUME NEW c \in Contract, day \in Nat, day' \in Nat, day' >= day,
         UrgencyKnown(c), UrgencyKnown(c)',
         NEW rule \in ToSet(Rules), Fires(rule, c)
  PROVE  \E worse \in ToSet(Rules) : /\ Fires(worse, c)'
                                     /\ SeverityOf(worse, c)' >= SeverityOf(rule, c)
<1>1. c.end \in Int
  BY DEF Contract
<1>2. CASE rule = "contract_expired_not_closed"
  <2>1. Fires(rule, c)'
    BY <1>1, <1>2 DEF Fires, Overdue, Open, Dated
  <2>2. SeverityOf(rule, c)' = 80 /\ SeverityOf(rule, c) = 80
    BY <1>2 DEF SeverityOf, Fixed
  <2> QED BY <2>1, <2>2
<1>3. CASE rule = "contract_expiring_soon"
  <2>1. Open(c) /\ Dated(c.end) /\ WithinTiers(c) # {}
    BY <1>3 DEF Fires
  <2>2. /\ SeverityOf(rule, c) = Urgency(c)
        /\ Urgency(c) = IF c.end - day <= 30 THEN 65 ELSE IF c.end - day <= 60 THEN 50 ELSE 35
        /\ c.end >= day /\ c.end - day <= 90
    BY <1>3, <2>1 DEF SeverityOf, UrgencyKnown
  <2>3. CASE c.end < day'
    <3> DEFINE overdue == "contract_expired_not_closed"
    <3>1. overdue \in ToSet(Rules) /\ Fires(overdue, c)'
      BY <2>1, <2>3, RulesAre DEF Fires, Overdue, Open, Dated
    <3>2. SeverityOf(overdue, c)' = 80
      BY DEF SeverityOf, Fixed
    <3>3. 80 >= SeverityOf(rule, c)
      BY <2>2
    <3> QED BY <3>1, <3>2, <3>3
  <2>4. CASE ~ (c.end < day')
    <3>1. c.end >= day' /\ c.end - day' <= c.end - day /\ c.end - day' <= 90
      BY <1>1, <2>2, <2>4
    <3>2. (WithinTiers(c) # {})'
      <4>1. \E t \in ToSet(Tiers) : c.end >= day' /\ c.end - day' <= t.days
        BY <3>1, TiersAre
      <4>2. WithinTiers(c)' = {t \in ToSet(Tiers) : c.end >= day' /\ c.end - day' <= t.days}
        BY DEF WithinTiers, Tiers, ToSet
      <4> QED BY <4>1, <4>2
    <3>3. Urgency(c)' = IF c.end - day' <= 30 THEN 65 ELSE IF c.end - day' <= 60 THEN 50 ELSE 35
      BY <3>2 DEF UrgencyKnown
    <3>4. SeverityOf(rule, c)' = Urgency(c)'
      BY <1>3 DEF SeverityOf
    <3>5. SeverityOf(rule, c)' >= SeverityOf(rule, c)
      BY <1>1, <2>2, <3>1, <3>3, <3>4
    <3>6. Fires(rule, c)'
      BY <1>3, <2>1, <3>2 DEF Fires, Open, Dated
    <3> QED BY <3>5, <3>6
  <2> QED BY <2>3, <2>4
<1>4. CASE rule \notin {"contract_expired_not_closed", "contract_expiring_soon"}
  <2>1. Fires(rule, c)'
    BY <1>4 DEF Fires, Dated
  <2>2. SeverityOf(rule, c)' = Fixed[rule] /\ SeverityOf(rule, c) = Fixed[rule]
    BY <1>4 DEF SeverityOf
  <2>3. Fixed[rule] \in Nat
    BY <1>4, RulesAre DEF Fixed
  <2> QED BY <2>1, <2>2, <2>3
<1> QED BY <1>2, <1>3, <1>4

LEMMA ScoresWorsen ==
  ASSUME ScoreInv, ScoreInv', [LedgerNext]_ledgerVars, contracts' = contracts
  PROVE  \A n \in DOMAIN contracts : Score(contracts[n])' >= Score(contracts[n])
<1> SUFFICES ASSUME NEW n \in DOMAIN contracts
             PROVE  Score(contracts[n])' >= Score(contracts[n])
  OBVIOUS
<1>1. day \in Nat /\ day' \in Nat /\ day' >= day
  <2>1. day \in Nat /\ day' \in Nat
    BY DEF ScoreInv
  <2> QED BY <2>1 DEF LedgerNext, Wait, ledgerVars
<1>2. PICK c \in Contract : c = contracts[n]
  BY DEF ScoreInv, LedgerTypeOK
<1>3. c = contracts'[n] /\ n \in DOMAIN contracts'
  BY <1>2
<1>4. UrgencyKnown(c) /\ ScoreKnown(c)
  BY <1>2 DEF ScoreInv
<1>5. UrgencyKnown(c)' /\ ScoreKnown(c)'
  <2>1. (UrgencyKnown(contracts[n]) /\ ScoreKnown(contracts[n]))'
    BY <1>3 DEF ScoreInv
  <2> QED BY <1>3, <2>1
<1>6. Score(c)' \in Severities /\ Score(c) \in Severities
  BY <1>4, <1>5 DEF ScoreKnown, Severities
<1>7. Score(c)' >= Score(c)
  <2>1. CASE Score(c) = 0
    BY <1>6, <2>1 DEF Severities
  <2>2. CASE \E rule \in ToSet(Rules) : Fires(rule, c) /\ Score(c) = SeverityOf(rule, c)
    <3>1. PICK rule \in ToSet(Rules) : Fires(rule, c) /\ Score(c) = SeverityOf(rule, c)
      BY <2>2
    <3>2. PICK worse \in ToSet(Rules) : /\ Fires(worse, c)'
                                            /\ SeverityOf(worse, c)' >= SeverityOf(rule, c)
      BY <1>1, <1>4, <1>5, <3>1, FindingsWorsen
    <3>3. SeverityOf(worse, c)' \in Severities /\ SeverityOf(worse, c)' <= Score(c)'
      BY <1>5, <3>2 DEF ScoreKnown, Rules, ToSet
    <3> QED BY <3>1, <3>2, <3>3, <1>6 DEF Severities
  <2> QED BY <1>4, <2>1, <2>2 DEF ScoreKnown
<1> QED BY <1>2, <1>3, <1>7

LEMMA LedgerStepTypes ==
  ASSUME LedgerTypeOK, [LedgerNext]_ledgerVars
  PROVE  LedgerTypeOK'
BY LedgerAssumption DEF LedgerTypeOK, LedgerNext, Wait, ledgerVars

\* Contracts and day keep their types.
THEOREM LedgerTypeCorrect == LedgerSpec => []LedgerTypeOK
<1>1. LedgerInit => LedgerTypeOK
  BY LedgerAssumption DEF LedgerInit, LedgerTypeOK
<1>2. LedgerTypeOK /\ [LedgerNext]_ledgerVars => LedgerTypeOK'
  BY LedgerStepTypes
<1> QED BY <1>1, <1>2, PTL DEF LedgerSpec

\* No contract gets better by waiting: from one day to a later one, across every
\* look-ahead window and past the last day of the contract, no score goes down.
THEOREM WaitingDoesNotHelp == LedgerSpec => WaitingNeverHelps
<1>1. LedgerTypeOK => ScoreInv
  BY ScoresAreKnown
<1>2. ScoreInv /\ ScoreInv' /\ [LedgerNext]_ledgerVars =>
        [contracts' = contracts =>
            \A n \in DOMAIN contracts : Score(contracts[n])' >= Score(contracts[n])]_ledgerVars
  BY ScoresWorsen
<1>3. LedgerSpec => []LedgerTypeOK
  BY LedgerTypeCorrect
<1> QED BY <1>1, <1>2, <1>3, PTL DEF LedgerSpec, WaitingNeverHelps
-----------------------------------------------------------------------------
(* The rows that are kept.                                                 *)

\* All scores of the table on this day.
HasScores == contracts \in Seq(Contract) /\ \A n \in DOMAIN contracts : Score(contracts[n]) \in Nat

Floors(score) == {floor \in {26, 51, 76} : score >= floor}

LEMMA FloorsAreFew ==
  ASSUME NEW score
  PROVE  Cardinality(Floors(score)) \in 0 .. 3
<1>1. IsFiniteSet({}) /\ Cardinality({}) = 0
  BY FS_EmptySet
<1>2. {} \cup {26} = {26} /\ {26} \cup {51} = {26, 51} /\ {26, 51} \cup {76} = {26, 51, 76}
  OBVIOUS
<1>3. IsFiniteSet({26}) /\ Cardinality({26}) = 1
  BY FS_Singleton
<1>4. IsFiniteSet({26, 51}) /\ Cardinality({26, 51}) \in 1 .. 2
  BY <1>2, <1>3, FS_AddElement
<1>5. IsFiniteSet({26, 51, 76}) /\ Cardinality({26, 51, 76}) \in 1 .. 3
  BY <1>2, <1>4, FS_AddElement
<1>6. Floors(score) \subseteq {26, 51, 76}
  BY DEF Floors
<1>7. /\ IsFiniteSet(Floors(score))
      /\ Cardinality(Floors(score)) <= Cardinality({26, 51, 76})
  BY <1>5, <1>6, FS_Subset
<1>8. Cardinality(Floors(score)) \in Nat
  BY <1>7, FS_CardinalityType
<1> QED BY <1>5, <1>7, <1>8

LEMMA ContractsAreNumbered == \A c \in Contract : c.ref \in Nat /\ c.org \in Nat
BY DEF Contract

Kept == IF Len(contracts) < MaxItems THEN Len(contracts) ELSE MaxItems

\* The rows are the first of all contracts in the order of the ledger, each of them
\* once.
LEMMA RowsFacts ==
  ASSUME HasScores
  PROVE  /\ Rows \in Seq(DOMAIN contracts) /\ Len(Rows) = Kept
         /\ \A k, l \in DOMAIN Rows : Rows[k] = Rows[l] => k = l
         /\ \A n \in ToSet(Rows), m \in (DOMAIN contracts) \ ToSet(Rows) :
                Score(contracts[n]) >= Score(contracts[m])
<1> DEFINE S     == DOMAIN contracts
           f     == [n \in S |-> n]
           order == {p \in S \X S : RowBefore(p[1], p[2])}
           N     == Len(contracts)
           all   == InOrder(S)
<1>1. contracts \in Seq(Contract) /\ N \in Nat /\ S = 1 .. N
  BY DEF HasScores
<1>2. IsFiniteSet(S) /\ Cardinality(S) = N
  BY <1>1, DomainCounted
<1>3. MaxItems \in Nat /\ MaxItems > 0
  BY LedgerAssumption
<1>4. \A n \in S : Score(contracts[n]) \in Nat /\ contracts[n].ref \in Nat /\ n \in Nat
  <2>1. \A n \in S : contracts[n] \in Contract
    BY <1>1
  <2>2. \A n \in S : contracts[n].ref \in Nat /\ n \in Nat
    BY <1>1, <2>1, ContractsAreNumbered
  <2>3. \A n \in S : Score(contracts[n]) \in Nat
    BY DEF HasScores
  <2> QED BY <2>2, <2>3
<1>5. \A m, n \in S : <<m, n>> \in order <=> RowBefore(m, n)
  OBVIOUS
<1>6. all = Listed(f, order) /\ S = DOMAIN f /\ \A n \in S : f[n] = n
  BY DEF InOrder
<1>7. Rows = SubSeq(all, 1, IF Len(all) < MaxItems THEN Len(all) ELSE MaxItems)
  BY DEF Rows
<1> HIDE DEF S, order, all, N, f
<1>8. Sorts(order, S)
  <2>1. \A m, n \in S : m # n => RowBefore(m, n) \/ RowBefore(n, m)
    BY <1>4 DEF RowBefore
  <2>2. \A m \in S : ~ RowBefore(m, m)
    BY <1>4 DEF RowBefore
  <2>3. \A l, m, n \in S : RowBefore(l, m) /\ RowBefore(m, n) => RowBefore(l, n)
    BY <1>4 DEF RowBefore
  <2> QED BY <1>5, <2>1, <2>2, <2>3 DEF Sorts
<1>9. PICK p : Lists(p, S, order) /\ Listed(f, order) = [k \in 1 .. N |-> f[p[k]]]
  BY <1>2, <1>6, <1>8, ListedFacts
<1>10. /\ \A k \in 1 .. N : p[k] \in S
       /\ \A n \in S : \E k \in 1 .. N : p[k] = n
       /\ \A k, l \in 1 .. N : p[k] = p[l] => k = l
       /\ \A k, l \in 1 .. N : k < l => <<p[k], p[l]>> \in order
  BY <1>2, <1>9 DEF Lists
<1>11. all = [k \in 1 .. N |-> p[k]]
  <2>1. \A k \in 1 .. N : f[p[k]] = p[k]
    BY <1>6, <1>10
  <2> QED BY <1>6, <1>9, <2>1
<1>12. all \in Seq(S) /\ Len(all) = N
  <2>1. all \in Seq(S)
    BY <1>1, <1>10, <1>11, IsASeq
  <2>2. DOMAIN all = 1 .. N
    BY <1>11
  <2> QED BY <1>1, <2>1, <2>2
<1>13. Kept \in 0 .. N /\ Kept = IF N < MaxItems THEN N ELSE MaxItems
  BY <1>1, <1>3 DEF Kept, N
<1>14. Rows = [k \in 1 .. Kept |-> p[k]]
  <2>1. Rows = SubSeq(all, 1, Kept)
    BY <1>7, <1>12, <1>13
  <2>2. SubSeq(all, 1, Kept) = [k \in 1 .. Kept |-> all[k]]
    BY <1>12, <1>13
  <2>3. \A k \in 1 .. Kept : all[k] = p[k]
    BY <1>11, <1>13
  <2> QED BY <2>1, <2>2, <2>3
<1>15. \A k \in 1 .. Kept : k \in 1 .. N
  BY <1>13
<1>16. Rows \in Seq(S) /\ Len(Rows) = Kept
  <2>1. \A k \in 1 .. Kept : p[k] \in S
    BY <1>10, <1>15
  <2>2. Rows \in Seq(S)
    BY <1>13, <1>14, <2>1, IsASeq
  <2>3. DOMAIN Rows = 1 .. Kept
    BY <1>14
  <2> QED BY <1>13, <2>2, <2>3
<1>17. \A k, l \in DOMAIN Rows : Rows[k] = Rows[l] => k = l
  BY <1>10, <1>14, <1>15
<1>18. ASSUME NEW n \in ToSet(Rows), NEW m \in S \ ToSet(Rows)
       PROVE  Score(contracts[n]) >= Score(contracts[m])
  <2>1. PICK k \in 1 .. Kept : p[k] = n
    BY <1>14, <1>18 DEF ToSet
  <2>2. PICK l \in 1 .. N : p[l] = m
    BY <1>10, <1>18
  <2>3. l \notin 1 .. Kept
    BY <1>14, <1>18, <2>2 DEF ToSet
  <2>4. k < l /\ k \in 1 .. N
    BY <1>1, <1>13, <1>15, <2>3
  <2>5. n \in S /\ RowBefore(n, m)
    BY <1>5, <1>10, <1>18, <2>1, <2>2, <2>4
  <2> QED BY <1>4, <1>18, <2>5 DEF RowBefore
<1> QED BY <1>16, <1>17, <1>18 DEF S

LEMMA RowsCounted ==
  ASSUME HasScores
  PROVE  /\ IsFiniteSet(ToSet(Rows)) /\ Cardinality(ToSet(Rows)) = Len(Rows)
         /\ ToSet(Rows) \subseteq DOMAIN contracts
<1> DEFINE g == [k \in DOMAIN Rows |-> Rows[k]]
<1>1. Rows \in Seq(DOMAIN contracts) /\ \A k, l \in DOMAIN Rows : Rows[k] = Rows[l] => k = l
  BY RowsFacts
<1>2. IsFiniteSet(DOMAIN Rows) /\ Cardinality(DOMAIN Rows) = Len(Rows)
  BY <1>1, DomainCounted
<1>3. g \in Surjection(DOMAIN Rows, ToSet(Rows)) /\ g \in Injection(DOMAIN Rows, ToSet(Rows))
  BY <1>1 DEF Surjection, Injection, IsInjective, ToSet
<1> HIDE DEF g
<1>4. IsFiniteSet(ToSet(Rows)) /\ Cardinality(ToSet(Rows)) = Cardinality(DOMAIN Rows)
  BY <1>2, <1>3, FS_Surjection
<1>5. ToSet(Rows) \subseteq DOMAIN contracts
  BY <1>1 DEF ToSet
<1> QED BY <1>2, <1>4, <1>5
-----------------------------------------------------------------------------
(* The worklist counts the rows that are kept.                             *)

LEMMA TierIsLevel ==
  ASSUME HasScores, NEW n \in DOMAIN contracts
  PROVE  Tier(n) = RiskLevel(Score(contracts[n])) /\ Tier(n) \in 0 .. 3
<1> DEFINE c == contracts[n]
<1>1. RiskLevel(Score(c)) = Cardinality(Floors(Score(c)))
  BY DEF RiskLevel, Floors
<1>2. RiskLevel(Score(c)) \in 0 .. 3
  BY <1>1, FloorsAreFew
<1>3. CASE Findings(c) = {}
  <2>1. {0} \cup {f.severity : f \in Findings(c)} = {0}
    BY <1>3
  <2>a. IsFiniteSet({0})
    BY FS_Singleton, Zenon
  <2>2. IsFiniteSet({0}) /\ {0} \subseteq Nat /\ {0} # {}
    BY <2>a
  <2>3. Max({0}) = 0
    BY <2>2, HighestExists
  <2>4. Score(c) = 0
    BY <2>1, <2>3 DEF Score, Worst
  <2>5. Floors(Score(c)) = {}
    BY <2>4 DEF Floors
  <2>6. RiskLevel(Score(c)) = 0
    BY <1>1, <2>5, FS_EmptySet
  <2> QED BY <1>3, <2>6 DEF Tier
<1>4. CASE Findings(c) # {}
  <2>1. Tier(n) = RiskLevel(Score(c))
    BY <1>4 DEF Tier, RiskLevel
  <2> QED BY <1>2, <2>1
<1> QED BY <1>3, <1>4

LEMMA TiersAddUp ==
  ASSUME HasScores
  PROVE  SumFunction(ByTier) = Len(Rows)
<1> DEFINE kept == ToSet(Rows)
           T    == 0 .. 3
           f    == [n \in kept |-> Tier(n)]
<1>1. IsFiniteSet(kept) /\ Cardinality(kept) = Len(Rows) /\ kept \subseteq DOMAIN contracts
  BY RowsCounted
<1>2. \A n \in kept : f[n] \in T
  BY <1>1, TierIsLevel
<1>3. IsFiniteSet(T)
  <2>1. 0 \in Int /\ 3 \in Int
    OBVIOUS
  <2> QED BY <2>1, FS_Interval
<1>4. \A t \in T : {n \in kept : Tier(n) = t} = {n \in kept : f[n] = t}
  OBVIOUS
<1>5. ByTier = [t \in T |-> Cardinality({n \in kept : Tier(n) = t})]
  BY DEF ByTier
<1>6. ByTier = [t \in T |-> Cardinality({n \in kept : f[n] = t})]
  BY <1>4, <1>5
<1> HIDE DEF kept, T, f
<1>7. SumFunction([t \in T |-> Cardinality({n \in kept : f[n] = t})]) = Cardinality(kept)
  BY <1>1, <1>2, <1>3, SumOfCounts
<1> QED BY <1>1, <1>6, <1>7

\* The rows of an organisation.
Of(o) == {n \in ToSet(Rows) : OrgOf(n) = o}
ActNow(o) == Cardinality({n \in Of(o) : Tier(n) = 3})
Organisations == {OrgOf(n) : n \in ToSet(Rows)}

LEMMA OrganisationFacts ==
  ASSUME HasScores
  PROVE  /\ DOMAIN ByOrganisation = Organisations /\ IsFiniteSet(Organisations)
         /\ \A o \in Organisations :
                /\ o \in Nat
                /\ ByOrganisation[o].contracts = Cardinality(Of(o))
                /\ ByOrganisation[o].act_now = ActNow(o) /\ ActNow(o) \in Nat
                /\ ByOrganisation[o].worst \in Nat
<1> DEFINE kept == ToSet(Rows)
<1>1. IsFiniteSet(kept) /\ kept \subseteq DOMAIN contracts
  BY RowsCounted
<1>2. DOMAIN ByOrganisation = Organisations
  BY DEF ByOrganisation, Organisations
<1>3. IsFiniteSet(Organisations)
  <2> DEFINE g == [n \in kept |-> OrgOf(n)]
  <2>1. g \in Surjection(kept, Organisations)
    BY DEF Surjection, Organisations
  <2> HIDE DEF kept, g
  <2> QED BY <1>1, <2>1, FS_Surjection
<1>4. ASSUME NEW o \in Organisations PROVE o \in Nat
  <2>1. PICK n \in kept : o = OrgOf(n)
    BY <1>4 DEF Organisations
  <2> DEFINE same == {m \in DOMAIN contracts : contracts[m].ref = contracts[n].ref}
  <2>2. n \in DOMAIN contracts /\ contracts \in Seq(Contract)
    BY <1>1, <2>1 DEF HasScores
  <2>3. same \subseteq DOMAIN contracts /\ n \in same
    BY <2>2
  <2>4. DOMAIN contracts = 1 .. Len(contracts) /\ IsFiniteSet(DOMAIN contracts)
    BY <2>2, DomainCounted
  <2>5. IsFiniteSet(same) /\ same \subseteq Nat /\ same # {}
    BY <2>3, <2>4, FS_Subset
  <2>6. Max(same) \in same
    BY <2>5, HighestExists
  <2>7. Max(same) \in DOMAIN contracts
    BY <2>6
  <2>8. \A m \in DOMAIN contracts : contracts[m].org \in Nat
    <3>1. \A m \in DOMAIN contracts : contracts[m] \in Contract
      BY <2>2
    <3> QED BY <3>1, ContractsAreNumbered
  <2>9. OrgOf(n) = IF contracts[Max(same)].org # 0 THEN contracts[Max(same)].org
                   ELSE contracts[n].org
    BY DEF OrgOf
  <2> HIDE DEF same
  <2> QED BY <2>1, <2>2, <2>7, <2>8, <2>9
<1>5. ASSUME NEW o \in Organisations
      PROVE  /\ ByOrganisation[o].contracts = Cardinality(Of(o))
             /\ ByOrganisation[o].act_now = ActNow(o)
             /\ ByOrganisation[o].worst = Max({Score(contracts[n]) : n \in Of(o)})
  BY <1>5 DEF ByOrganisation, Organisations, Of, ActNow
<1>6. ASSUME NEW o \in Organisations
      PROVE  ActNow(o) \in Nat /\ Max({Score(contracts[n]) : n \in Of(o)}) \in Nat
  <2> DEFINE scores == {Score(contracts[n]) : n \in Of(o)}
             g      == [n \in Of(o) |-> Score(contracts[n])]
             now    == {n \in Of(o) : Tier(n) = 3}
  <2>1. Of(o) \subseteq kept /\ Of(o) # {}
    BY <1>6 DEF Of, Organisations
  <2>2. IsFiniteSet(Of(o))
    BY <1>1, <2>1, FS_Subset
  <2>3. now \subseteq Of(o)
    OBVIOUS
  <2>4. ActNow(o) \in Nat
    BY <2>2, <2>3, FS_Subset, FS_CardinalityType DEF ActNow
  <2>5. g \in Surjection(Of(o), scores)
    BY DEF Surjection
  <2>6. scores \subseteq Nat /\ scores # {}
    BY <1>1, <2>1 DEF HasScores
  <2> HIDE DEF g, scores
  <2>7. IsFiniteSet(scores)
    BY <2>2, <2>5, FS_Surjection
  <2>8. Max(scores) \in Nat
    BY <2>6, <2>7, HighestExists
  <2> QED BY <2>4, <2>8 DEF scores
<1> QED BY <1>2, <1>3, <1>4, <1>5, <1>6

\* The organisations of the worklist are those of the rows, and the first of them has
\* as much to do as any.
LEMMA OrganisationsFacts ==
  ASSUME HasScores
  PROVE  /\ SumFunction([k \in DOMAIN OrganisationsInOrder |->
                ByOrganisation[OrganisationsInOrder[k]].contracts]) = Len(Rows)
         /\ ByTier[3] > 0 => ByOrganisation[Head(OrganisationsInOrder)].act_now > 0
<1> DEFINE kept  == ToSet(Rows)
           S     == Organisations
           by    == ByOrganisation
           f     == [o \in S |-> o]
           order == {p \in S \X S : BusierThan(by[p[1]], by[p[2]], p[1], p[2])}
           N     == Cardinality(S)
           all   == OrganisationsInOrder
<1>1. IsFiniteSet(kept) /\ Cardinality(kept) = Len(Rows) /\ kept \subseteq DOMAIN contracts
  BY RowsCounted
<1>2. /\ DOMAIN by = S /\ IsFiniteSet(S)
      /\ \A o \in S : /\ o \in Nat /\ by[o].contracts = Cardinality(Of(o))
                      /\ by[o].act_now = ActNow(o) /\ ActNow(o) \in Nat
                      /\ by[o].worst \in Nat
  BY OrganisationFacts
<1>3. N \in Nat
  BY <1>2, FS_CardinalityType
<1>4. \A o, p \in S : <<o, p>> \in order <=> BusierThan(by[o], by[p], o, p)
  OBVIOUS
<1>5. all = Listed(f, order) /\ DOMAIN f = S /\ \A o \in S : f[o] = o
  BY <1>2 DEF OrganisationsInOrder
<1>6. \A n \in kept : OrgOf(n) \in S
  BY DEF Organisations
<1> HIDE DEF S, order, all, by, f
<1>7. Sorts(order, S)
  <2>1. \A o, p \in S : o # p => BusierThan(by[o], by[p], o, p) \/ BusierThan(by[p], by[o], p, o)
    BY <1>2 DEF BusierThan
  <2>2. \A o \in S : ~ BusierThan(by[o], by[o], o, o)
    BY <1>2 DEF BusierThan
  <2>3. \A o, p, q \in S : BusierThan(by[o], by[p], o, p) /\ BusierThan(by[p], by[q], p, q)
                            => BusierThan(by[o], by[q], o, q)
    BY <1>2 DEF BusierThan
  <2> QED BY <1>4, <2>1, <2>2, <2>3 DEF Sorts
<1>8. PICK p : Lists(p, S, order) /\ Listed(f, order) = [k \in 1 .. N |-> f[p[k]]]
  BY <1>2, <1>5, <1>7, ListedFacts
<1> HIDE DEF N
<1>9. /\ \A k \in 1 .. N : p[k] \in S
      /\ \A o \in S : \E k \in 1 .. N : p[k] = o
      /\ \A k, l \in 1 .. N : p[k] = p[l] => k = l
      /\ \A k, l \in 1 .. N : k < l => <<p[k], p[l]>> \in order
  BY <1>8 DEF Lists, N
<1>10. all = [k \in 1 .. N |-> p[k]]
  <2>1. \A k \in 1 .. N : f[p[k]] = p[k]
    BY <1>5, <1>9
  <2> QED BY <1>5, <1>8, <2>1
<1>11. DOMAIN all = 1 .. N /\ \A k \in 1 .. N : all[k] = p[k]
  BY <1>10
<1>12. SumFunction([k \in DOMAIN all |-> by[all[k]].contracts]) = Len(Rows)
  <2> DEFINE K == 1 .. N
             g == [n \in kept |-> CHOOSE k \in K : p[k] = OrgOf(n)]
  <2>1. \A n \in kept : g[n] \in K /\ p[g[n]] = OrgOf(n)
    BY <1>6, <1>9
  <2>2. IsFiniteSet(K)
    <3>1. 1 \in Int /\ N \in Int
      BY <1>3
    <3> QED BY <3>1, FS_Interval
  <2> HIDE DEF g
  <2>3. ASSUME NEW k \in K PROVE by[all[k]].contracts = Cardinality({n \in kept : g[n] = k})
    <3>1. all[k] = p[k] /\ p[k] \in S
      BY <1>9, <1>11
    <3>2. {n \in kept : g[n] = k} = {n \in kept : OrgOf(n) = p[k]}
      BY <1>9, <2>1
    <3> QED BY <1>2, <3>1, <3>2 DEF Of
  <2>4. [k \in DOMAIN all |-> by[all[k]].contracts] = [k \in K |-> Cardinality({n \in kept : g[n] = k})]
    BY <1>11, <2>3
  <2> HIDE DEF K, kept
  <2>5. SumFunction([k \in K |-> Cardinality({n \in kept : g[n] = k})]) = Cardinality(kept)
    BY <1>1, <2>1, <2>2, SumOfCounts
  <2> QED BY <1>1, <2>4, <2>5
<1>13. ASSUME ByTier[3] > 0 PROVE by[Head(all)].act_now > 0
  <2> DEFINE now == {n \in kept : Tier(n) = 3}
  <2>1. ByTier[3] = Cardinality(now)
    BY DEF ByTier
  <2>2. now # {}
    BY <1>13, <2>1, FS_EmptySet
  <2>3. PICK n \in kept : Tier(n) = 3
    BY <2>2
  <2> DEFINE o == OrgOf(n)
  <2>4. o \in S
    BY <1>6
  <2>5. ActNow(o) > 0
    <3> DEFINE its == {m \in Of(o) : Tier(m) = 3}
    <3>1. n \in its /\ its \subseteq kept
      BY <2>3 DEF Of
    <3> HIDE DEF its, kept
    <3>2. IsFiniteSet(its) /\ its # {}
      BY <1>1, <3>1, FS_Subset
    <3>3. Cardinality(its) # 0 /\ Cardinality(its) \in Nat
      BY <3>2, FS_EmptySet, FS_CardinalityType
    <3> QED BY <3>3 DEF ActNow, its
  <2> HIDE DEF o, now
  <2>6. PICK k \in 1 .. N : p[k] = o
    BY <1>9, <2>4
  <2>7. 1 \in 1 .. N /\ (k = 1 \/ 1 < k)
    BY <1>3, <2>6
  <2>8. Head(all) = p[1]
    <3>1. \A k2 \in 1 .. N : p[k2] \in S
      BY <1>9
    <3>2. all \in Seq(S)
      BY <1>3, <1>10, <3>1, IsASeq
    <3>3. Head(all) = all[1]
      OBVIOUS
    <3> QED BY <1>11, <2>7, <3>3
  <2>9. by[p[1]].act_now >= by[o].act_now
    <3>1. p[1] \in S
      BY <1>9, <2>7
    <3>2. CASE k = 1
      BY <1>2, <2>6, <3>1, <3>2
    <3>3. CASE 1 < k
      <4>1. BusierThan(by[p[1]], by[o], p[1], o)
        BY <1>4, <1>9, <2>4, <2>6, <2>7, <3>1, <3>3
      <4> QED BY <1>2, <2>4, <3>1, <4>1 DEF BusierThan
    <3> QED BY <2>7, <3>2, <3>3
  <2>10. p[1] \in S
    BY <1>9, <2>7
  <2> QED BY <1>2, <2>4, <2>5, <2>8, <2>9, <2>10
<1> QED BY <1>12, <1>13 DEF by, all
-----------------------------------------------------------------------------
(* The path of the project: all findings of its contracts together.        *)

\* What may be found: by one of the rules, and never of severity 0.
Found(s) == \A f \in s : f.rule \in ToSet(AllRules) /\ f.severity \in 1 .. 85

LEMMA NothingIsFound == Worst({}) = 0
<1>1. {0} \cup {f.severity : f \in {}} = {0}
  OBVIOUS
<1>2. IsFiniteSet({0})
  BY FS_Singleton, Zenon
<1>3. {0} \subseteq Nat /\ {0} # {}
  OBVIOUS
<1>4. Max({0}) \in {0}
  BY <1>2, <1>3, HighestExists
<1> QED BY <1>1, <1>4 DEF Worst

LEMMA AllRulesAre ==
  /\ DOMAIN AllRules = 1 .. 10 /\ AllRules[10] = "contract_total_exceeds_budget"
  /\ DOMAIN Rules = 1 .. 9 /\ \A k \in 1 .. 9 : AllRules[k] = Rules[k]
<1> DEFINE T == {Rules[k] : k \in 1 .. 9}
           U == T \cup {"contract_total_exceeds_budget"}
<1>1. Rules = [k \in 1 .. 9 |-> Rules[k]]
  BY DEF Rules
<1>2. \A k \in 1 .. 9 : Rules[k] \in T
  OBVIOUS
<1> HIDE DEF T
<1>3. [k \in 1 .. 9 |-> Rules[k]] \in Seq(T)
  BY <1>2, IsASeq
<1>4. Rules \in Seq(T) /\ Len(Rules) = 9 /\ DOMAIN Rules = 1 .. 9
  BY <1>1, <1>3
<1>5. T \subseteq U /\ "contract_total_exceeds_budget" \in U
  OBVIOUS
<1> HIDE DEF U
<1>6. Rules \in Seq(U)
  BY <1>4, <1>5, SeqMonotonic
<1>7. /\ AllRules \in Seq(U) /\ Len(AllRules) = Len(Rules) + 1
      /\ \A k \in 1 .. Len(Rules) : AllRules[k] = Rules[k]
      /\ AllRules[Len(Rules) + 1] = "contract_total_exceeds_budget"
  BY <1>5, <1>6, AppendProperties DEF AllRules
<1> QED BY <1>4, <1>7

LEMMA WorstIs ==
  ASSUME NEW s, Found(s)
  PROVE  /\ Worst(s) \in Severities
         /\ \A f \in s : f.severity <= Worst(s)
         /\ s # {} => Worst(s) > 0 /\ \E f \in s : f.severity = Worst(s)
<1> DEFINE S == {0} \cup {f.severity : f \in s}
<1>1. Worst(s) = Max(S)
  BY DEF Worst
<1>2. \A n \in S : n = 0 \/ \E f \in s : n = f.severity
  OBVIOUS
<1>3. 0 \in S /\ \A f \in s : f.severity \in S
  OBVIOUS
<1>4. \A f \in s : f.severity \in 1 .. 85
  BY DEF Found
<1> HIDE DEF S
<1>5. S \subseteq Severities
  BY <1>2, <1>4 DEF Severities
<1>6. IsFiniteSet(Severities)
  <2>1. 0 \in Int /\ 85 \in Int
    OBVIOUS
  <2> QED BY <2>1, FS_Interval DEF Severities
<1>7. IsFiniteSet(S)
  BY <1>5, <1>6, FS_Subset
<1>8. S \subseteq Nat /\ S # {}
  BY <1>3, <1>5 DEF Severities
<1>9. Max(S) \in S /\ \A n \in S : n <= Max(S)
  BY <1>7, <1>8, HighestExists
<1>10. Max(S) \in 0 .. 85
  BY <1>5, <1>9 DEF Severities
<1>11. ASSUME s # {} PROVE Max(S) > 0 /\ \E f \in s : f.severity = Max(S)
  <2>1. PICK f \in s : TRUE
    BY <1>11
  <2>2. f.severity \in 1 .. 85 /\ f.severity <= Max(S)
    BY <1>3, <1>4, <1>9
  <2>3. Max(S) > 0
    BY <2>2, <1>10
  <2> QED BY <2>3, <1>2, <1>9
<1> QED BY <1>1, <1>3, <1>9, <1>10, <1>11 DEF Severities

\* The worst finding of a rule.
WorstOf(s, k) == Worst({f \in s : f.rule = AllRules[k]})

LEMMA WorstOfARule ==
  ASSUME NEW s, Found(s), NEW k \in DOMAIN AllRules
  PROVE  /\ WorstOf(s, k) \in Severities /\ WorstOf(s, k) <= Worst(s)
         /\ \A f \in s : f.rule = AllRules[k] => f.severity <= WorstOf(s, k)
<1> DEFINE some == {f \in s : f.rule = AllRules[k]}
<1>1. Found(some) /\ some \subseteq s
  BY DEF Found
<1>2. WorstOf(s, k) = Worst(some)
  BY DEF WorstOf
<1>3. \A f \in s : f.rule = AllRules[k] => f \in some
  OBVIOUS
<1> HIDE DEF some
<1>4. /\ Worst(some) \in Severities /\ \A f \in some : f.severity <= Worst(some)
      /\ some # {} => \E f \in some : f.severity = Worst(some)
  BY <1>1, WorstIs
<1>5. Worst(s) \in Severities /\ \A f \in s : f.severity <= Worst(s)
  BY WorstIs
<1>6. Worst(some) <= Worst(s)
  <2>1. CASE some = {}
    <3>1. Worst(some) = 0
      BY <2>1, NothingIsFound
    <3> QED BY <3>1, <1>5 DEF Severities
  <2>2. CASE some # {}
    BY <2>2, <1>1, <1>4, <1>5
  <2> QED BY <2>1, <2>2
<1> QED BY <1>2, <1>3, <1>4, <1>6

\* An order by three keys, the first falling, the others rising.
KeysInOrder(a, b) ==
    \/ a[1] > b[1]
    \/ a[1] = b[1] /\ a[2] < b[2]
    \/ a[1] = b[1] /\ a[2] = b[2] /\ a[3] < b[3]

LEMMA KeysAreOrdered ==
  ASSUME NEW a1 \in Nat, NEW a2 \in Nat, NEW a3 \in Nat,
         NEW b1 \in Nat, NEW b2 \in Nat, NEW b3 \in Nat,
         NEW c1 \in Nat, NEW c2 \in Nat, NEW c3 \in Nat,
         KeysInOrder(<<a1, a2, a3>>, <<b1, b2, b3>>),
         KeysInOrder(<<b1, b2, b3>>, <<c1, c2, c3>>)
  PROVE  KeysInOrder(<<a1, a2, a3>>, <<c1, c2, c3>>)
<1>1. \/ a1 > b1
      \/ a1 = b1 /\ a2 < b2
      \/ a1 = b1 /\ a2 = b2 /\ a3 < b3
  BY DEF KeysInOrder
<1>2. \/ b1 > c1
      \/ b1 = c1 /\ b2 < c2
      \/ b1 = c1 /\ b2 = c2 /\ b3 < c3
  BY DEF KeysInOrder
<1>3. \/ a1 > c1
      \/ a1 = c1 /\ a2 < c2
      \/ a1 = c1 /\ a2 = c2 /\ a3 < c3
  BY <1>1, <1>2
<1> QED BY <1>3 DEF KeysInOrder

\* The summary leads with the finding that made the score.
LEMMA TopFacts ==
  ASSUME NEW cs \in Seq(Contract), NEW budget, NEW s, s = Assessment(cs, budget), Found(s), s # {}
  PROVE  Head(TopFindings(cs, budget)).severity = Worst(s)
<1> DEFINE K     == DOMAIN AllRules
           found == {k \in K : WorstOf(s, k) > 0}
           f     == [k \in found |-> [rule |-> AllRules[k], severity |-> WorstOf(s, k)]]
           lead  == [k \in K |-> ContractsBefore(cs, AllRules[k], WorstOf(s, k))]
           order == {p \in found \X found :
                        \/ WorstOf(s, p[1]) > WorstOf(s, p[2])
                        \/ WorstOf(s, p[1]) = WorstOf(s, p[2]) /\ lead[p[1]] < lead[p[2]]
                        \/ /\ WorstOf(s, p[1]) = WorstOf(s, p[2])
                           /\ lead[p[1]] = lead[p[2]] /\ p[1] < p[2]}
           all   == Listed(f, order)
           N     == Cardinality(found)
<1>1. TopFindings(cs, budget) = SubSeq(all, 1, IF Len(all) < 3 THEN Len(all) ELSE 3)
  <2>1. order = {p \in found \X found :
                    \/ WorstOf(s, p[1]) > WorstOf(s, p[2])
                    \/ /\ WorstOf(s, p[1]) = WorstOf(s, p[2])
                       /\ ContractsBefore(cs, AllRules[p[1]], WorstOf(s, p[1]))
                            < ContractsBefore(cs, AllRules[p[2]], WorstOf(s, p[2]))
                    \/ /\ WorstOf(s, p[1]) = WorstOf(s, p[2])
                       /\ ContractsBefore(cs, AllRules[p[1]], WorstOf(s, p[1]))
                            = ContractsBefore(cs, AllRules[p[2]], WorstOf(s, p[2]))
                       /\ p[1] < p[2]}
    OBVIOUS
  <2> HIDE DEF order
  <2> QED BY <2>1 DEF TopFindings, WorstOf
<1>2. IsFiniteSet(K) /\ K \subseteq Nat
  <2>1. K = 1 .. 10 /\ 1 \in Int /\ 10 \in Int
    BY AllRulesAre
  <2> HIDE DEF K
  <2>2. IsFiniteSet(K)
    BY <2>1, FS_Interval
  <2> QED BY <2>1, <2>2
<1>3. IsFiniteSet(found) /\ N \in Nat /\ found \subseteq K
  <2>1. found \subseteq K
    OBVIOUS
  <2> HIDE DEF found, K
  <2> QED BY <1>2, <2>1, FS_Subset, FS_CardinalityType
<1>4. \A k \in K : WorstOf(s, k) \in Severities /\ WorstOf(s, k) <= Worst(s)
  BY WorstOfARule
<1>5. \A j, k \in found : <<j, k>> \in order <=>
        \/ WorstOf(s, j) > WorstOf(s, k)
        \/ WorstOf(s, j) = WorstOf(s, k) /\ lead[j] < lead[k]
        \/ WorstOf(s, j) = WorstOf(s, k) /\ lead[j] = lead[k] /\ j < k
  <2> HIDE DEF lead, K
  <2> QED OBVIOUS
<1>6. DOMAIN f = found /\ \A k \in found : f[k].severity = WorstOf(s, k)
  OBVIOUS
<1>7. Worst(s) \in Severities /\ Worst(s) > 0
  BY WorstIs
<1>8. PICK first \in found : WorstOf(s, first) = Worst(s)
  <2> HIDE DEF lead, order, f, all, N
  <2>1. PICK g \in s : g.severity = Worst(s)
    BY WorstIs
  <2>2. g.rule \in ToSet(AllRules)
    BY DEF Found
  <2>3. PICK k \in K : AllRules[k] = g.rule
    BY <2>2 DEF ToSet
  <2>4. Worst(s) <= WorstOf(s, k)
    BY <2>1, <2>3, WorstOfARule
  <2>5. WorstOf(s, k) = Worst(s)
    <3>1. WorstOf(s, k) \in Severities /\ WorstOf(s, k) <= Worst(s)
      BY <1>4
    <3>2. \A a, b \in Severities : a <= b /\ b <= a => a = b
      BY DEF Severities
    <3> QED BY <3>1, <3>2, <2>4, <1>7
  <2> QED BY <2>3, <2>5, <1>7
<1> HIDE DEF found, order, f, N, all
<1>9. \A k \in K : lead[k] \in Nat
  <2> SUFFICES ASSUME NEW k \in K
               PROVE  ContractsBefore(cs, AllRules[k], WorstOf(s, k)) \in Nat
    OBVIOUS
  <2> DEFINE before == {n \in DOMAIN cs : \A m \in 1 .. n :
                            [rule |-> AllRules[k], severity |-> WorstOf(s, k)] \notin Findings(cs[m])}
  <2>1. before \subseteq 1 .. Len(cs) /\ Len(cs) \in Nat
    OBVIOUS
  <2>2. ContractsBefore(cs, AllRules[k], WorstOf(s, k)) = Cardinality(before)
    BY DEF ContractsBefore
  <2> HIDE DEF before
  <2>3. IsFiniteSet(1 .. Len(cs))
    BY <2>1, FS_Interval
  <2>4. Cardinality(before) \in Nat
    BY <2>1, <2>3, FS_Subset, FS_CardinalityType
  <2> QED BY <2>2, <2>4
<1> HIDE DEF K, lead
<1>10. \A k \in found : /\ WorstOf(s, k) \in Nat /\ k \in Nat /\ lead[k] \in Nat
                       /\ WorstOf(s, k) <= Worst(s)
  <2>1. \A score \in Severities : score \in Nat
    BY DEF Severities
  <2> QED BY <2>1, <1>2, <1>3, <1>4, <1>9
<1> DEFINE key(k) == <<WorstOf(s, k), lead[k], k>>
<1>11. \A j, k \in found : <<j, k>> \in order <=> KeysInOrder(key(j), key(k))
  BY <1>5 DEF KeysInOrder
<1>12. Sorts(order, found)
  <2>1. ASSUME NEW j \in found, NEW k \in found, j # k
        PROVE  <<j, k>> \in order \/ <<k, j>> \in order
    <3>1. /\ WorstOf(s, j) \in Nat /\ j \in Nat /\ lead[j] \in Nat
          /\ WorstOf(s, k) \in Nat /\ k \in Nat /\ lead[k] \in Nat
      BY <1>10
    <3> QED BY <1>5, <2>1, <3>1
  <2>2. ASSUME NEW k \in found PROVE <<k, k>> \notin order
    <3>1. WorstOf(s, k) \in Nat /\ k \in Nat /\ lead[k] \in Nat
      BY <1>10
    <3> QED BY <1>5, <3>1
  <2>3. ASSUME NEW i \in found, NEW j \in found, NEW k \in found,
               <<i, j>> \in order, <<j, k>> \in order
        PROVE  <<i, k>> \in order
    <3>1. KeysInOrder(key(i), key(j)) /\ KeysInOrder(key(j), key(k))
      BY <1>11, <2>3
    <3>2. KeysInOrder(key(i), key(k))
      BY <1>10, <3>1, KeysAreOrdered
    <3> HIDE DEF key
    <3> QED BY <1>11, <3>2
  <2> QED BY <2>1, <2>2, <2>3 DEF Sorts
<1>13. PICK p : Lists(p, found, order) /\ Listed(f, order) = [n \in 1 .. N |-> f[p[n]]]
  BY <1>3, <1>6, <1>12, ListedFacts DEF N
<1>14. /\ p \in [1 .. N -> found] /\ \A k \in found : \E n \in 1 .. N : p[n] = k
       /\ \A m, n \in 1 .. N : m < n => <<p[m], p[n]>> \in order
  BY <1>13 DEF Lists, N
<1>15. PICK n \in 1 .. N : p[n] = first
  BY <1>8, <1>14
<1>16. 1 \in 1 .. N /\ (n = 1 \/ 1 < n) /\ p[1] \in found
  BY <1>3, <1>14, <1>15
<1>17. WorstOf(s, p[1]) = Worst(s)
  <2>1. CASE n = 1
    BY <1>8, <1>15, <2>1
  <2>2. CASE 1 < n
    <3>1. <<p[1], first>> \in order
      BY <1>14, <1>15, <1>16, <2>2
    <3>2. WorstOf(s, p[1]) >= WorstOf(s, first)
      BY <1>5, <1>8, <1>10, <1>16, <3>1
    <3> QED BY <3>2, <1>7, <1>8, <1>10, <1>16 DEF Severities
  <2> QED BY <1>16, <2>1, <2>2
<1>18. all = [m \in 1 .. N |-> f[p[m]]]
  BY <1>13 DEF all
<1>19. DOMAIN all = 1 .. N /\ all[1] = f[p[1]]
  BY <1>16, <1>18
<1>20. all \in Seq({f[k] : k \in found}) /\ Len(all) = N
  <2>1. \A m \in 1 .. N : f[p[m]] \in {f[k] : k \in found}
    BY <1>14
  <2> QED BY <1>3, <1>18, <2>1, IsASeq
<1>21. Head(TopFindings(cs, budget)) = all[1]
  <2> DEFINE m == IF Len(all) < 3 THEN Len(all) ELSE 3
  <2>1. m \in 1 .. Len(all) /\ m \in Nat
    BY <1>3, <1>16, <1>20
  <2>2. TopFindings(cs, budget) = SubSeq(all, 1, m)
    BY <1>1
  <2> HIDE DEF m
  <2>3. /\ SubSeq(all, 1, m)[1] = all[1] /\ Len(SubSeq(all, 1, m)) = m
        /\ SubSeq(all, 1, m) \in Seq({f[k] : k \in found})
    BY <1>20, <2>1
  <2>4. PICK t : t = SubSeq(all, 1, m)
    OBVIOUS
  <2>5. t \in Seq({f[k] : k \in found}) /\ t[1] = all[1] /\ TopFindings(cs, budget) = t
    BY <2>2, <2>3, <2>4
  <2>6. Head(t) = t[1]
    BY <2>5
  <2> QED BY <2>5, <2>6
<1> QED BY <1>6, <1>16, <1>17, <1>19, <1>21

\* Everything an assessment finds is found by one of the rules.
LEMMA FindingsAre ==
  ASSUME NEW c \in Contract, day \in Nat
  PROVE  Found(Findings(c))
<1>1. ToSet(Rules) \subseteq ToSet(AllRules)
  <2>1. \A k \in 1 .. 9 : k \in DOMAIN AllRules /\ AllRules[k] = Rules[k]
    BY AllRulesAre
  <2>2. DOMAIN Rules = 1 .. 9
    BY AllRulesAre
  <2> QED BY <2>1, <2>2 DEF ToSet
<1>2. ASSUME NEW rule \in ToSet(Rules), Fires(rule, c)
      PROVE  SeverityOf(rule, c) \in 1 .. 85
  <2>1. CASE rule = "contract_expiring_soon"
    <3>1. WithinTiers(c) # {}
      BY <2>1, <1>2 DEF Fires
    <3>2. Urgency(c) \in {65, 50, 35}
      BY <3>1, UrgencyIs
    <3> QED BY <2>1, <3>2 DEF SeverityOf
  <2>2. CASE rule # "contract_expiring_soon"
    BY <2>2, <1>2, RulesAre DEF SeverityOf, Fixed
  <2> QED BY <2>1, <2>2
<1>3. Findings(c) = {[rule |-> rule, severity |-> SeverityOf(rule, c)] :
                        rule \in {r \in ToSet(Rules) : Fires(r, c)}}
  BY DEF Findings, SeverityOf
<1>4. ASSUME NEW f \in Findings(c)
      PROVE  f.rule \in ToSet(AllRules) /\ f.severity \in 1 .. 85
  <2>1. PICK rule \in ToSet(Rules) :
            Fires(rule, c) /\ f = [rule |-> rule, severity |-> SeverityOf(rule, c)]
    BY <1>3, <1>4
  <2>2. f.rule = rule /\ f.severity = SeverityOf(rule, c)
    BY <2>1
  <2> QED BY <1>1, <1>2, <2>1, <2>2
<1> QED BY <1>4 DEF Found

LEMMA AssessmentIs ==
  ASSUME contracts \in Seq(Contract), day \in Nat, NEW budget
  PROVE  /\ Found(Assessment(contracts, budget))
         /\ \A n \in DOMAIN contracts : Findings(contracts[n]) \subseteq Assessment(contracts, budget)
<1> DEFINE over == BudgetFindings(contracts, budget)
           each == UNION {Findings(contracts[n]) : n \in DOMAIN contracts}
<1>1. \A n \in DOMAIN contracts : Found(Findings(contracts[n]))
  <2>1. \A n \in DOMAIN contracts : contracts[n] \in Contract
    OBVIOUS
  <2> QED BY <2>1, FindingsAre
<1>2. \A f \in over : f.rule \in ToSet(AllRules) /\ f.severity \in 1 .. 85
  <2>1. "contract_total_exceeds_budget" \in ToSet(AllRules)
    <3>1. 10 \in DOMAIN AllRules /\ AllRules[10] = "contract_total_exceeds_budget"
      BY AllRulesAre
    <3> QED BY <3>1 DEF ToSet
  <2>2. \A f \in over : f = [rule |-> "contract_total_exceeds_budget", severity |-> 80]
    BY DEF BudgetFindings
  <2> HIDE DEF over
  <2>3. \A f \in over : f.rule = "contract_total_exceeds_budget" /\ f.severity = 80
    BY <2>2
  <2> QED BY <2>1, <2>3
<1>3. \A f \in each : f.rule \in ToSet(AllRules) /\ f.severity \in 1 .. 85
  BY <1>1 DEF Found
<1>5. \A n \in DOMAIN contracts : Findings(contracts[n]) \subseteq each
  OBVIOUS
<1> HIDE DEF each, over
<1>4. Assessment(contracts, budget) = each \cup over
  BY DEF Assessment, each, over
<1> QED BY <1>2, <1>3, <1>4, <1>5 DEF Found

\* The project is never rated lower than one of its contracts.
LEMMA AssessmentFacts ==
  ASSUME contracts \in Seq(Contract), day \in Nat, NEW budget
  PROVE  LET found == Assessment(contracts, budget)
         IN  /\ \A n \in DOMAIN contracts : Score(contracts[n]) <= Worst(found)
             /\ found # {} => Head(TopFindings(contracts, budget)).severity = Worst(found)
<1> DEFINE found == Assessment(contracts, budget)
<1>1. Found(found) /\ \A n \in DOMAIN contracts : Findings(contracts[n]) \subseteq found
  BY AssessmentIs
<1> HIDE DEF found
<1>2. Worst(found) \in Severities /\ \A f \in found : f.severity <= Worst(found)
  BY <1>1, WorstIs
<1>3. ASSUME NEW n \in DOMAIN contracts PROVE Score(contracts[n]) <= Worst(found)
  <2> DEFINE its == Findings(contracts[n])
  <2>1. its \subseteq found /\ Found(its)
    BY <1>1 DEF Found
  <2>2. Score(contracts[n]) = Worst(its)
    BY DEF Score
  <2> HIDE DEF its
  <2>3. Worst(its) \in Severities /\ (its # {} => \E f \in its : f.severity = Worst(its))
    BY <2>1, WorstIs
  <2>4. CASE its = {}
    <3>1. Worst(its) = 0
      BY <2>4, NothingIsFound
    <3>2. Score(contracts[n]) = 0
      BY <2>2, <3>1
    <3>3. \A score \in Severities : 0 <= score
      BY DEF Severities
    <3>4. Worst(found) \in Severities
      BY <1>2
    <3> QED BY <3>2, <3>3, <3>4
  <2>5. CASE its # {}
    BY <2>1, <2>2, <2>3, <2>5, <1>2
  <2> QED BY <2>4, <2>5
<1>4. found # {} => Head(TopFindings(contracts, budget)).severity = Worst(found)
  <2>1. found = Assessment(contracts, budget)
    BY DEF found
  <2> QED BY <2>1, <1>1, TopFacts
<1> QED BY <1>3, <1>4 DEF found

-----------------------------------------------------------------------------
(* Worst first.                                                            *)

LEMMA WorstFirstHolds ==
  ASSUME LedgerTypeOK
  PROVE  WorstFirst
<1>1. HasScores /\ day \in Nat
  <2>1. day \in Nat /\ \A n \in DOMAIN contracts : Score(contracts[n]) \in Severities
    BY ScoresAreKnown DEF ScoreInv, ScoreKnown
  <2>2. \A score \in Severities : score \in Nat
    BY DEF Severities
  <2>3. contracts \in Seq(Contract)
    BY DEF LedgerTypeOK
  <2> QED BY <2>1, <2>2, <2>3 DEF HasScores
<1>2. LedgerTruncated = (Len(Rows) < Len(contracts))
  <2>1. Len(contracts) \in Nat /\ MaxItems \in Nat
    BY <1>1, LedgerAssumption DEF HasScores
  <2>2. Len(Rows) = IF Len(contracts) < MaxItems THEN Len(contracts) ELSE MaxItems
    BY <1>1, RowsFacts DEF Kept
  <2> QED BY <2>1, <2>2 DEF LedgerTruncated
<1>3. \A n \in ToSet(Rows), m \in (DOMAIN contracts) \ ToSet(Rows) :
          Score(contracts[n]) >= Score(contracts[m])
  BY <1>1, RowsFacts
<1>4. SumFunction(ByTier) = Len(Rows)
  BY <1>1, TiersAddUp
<1>5. /\ SumFunction([k \in DOMAIN OrganisationsInOrder |->
                ByOrganisation[OrganisationsInOrder[k]].contracts]) = Len(Rows)
      /\ ByTier[3] > 0 => ByOrganisation[Head(OrganisationsInOrder)].act_now > 0
  BY <1>1, OrganisationsFacts
<1>6. \A n \in DOMAIN contracts : Tier(n) = RiskLevel(Score(contracts[n]))
  BY <1>1, TierIsLevel
<1>7. \A budget \in Budgets :
            LET found == Assessment(contracts, budget)
            IN  /\ \A n \in DOMAIN contracts : Score(contracts[n]) <= Worst(found)
                /\ found # {} => Head(TopFindings(contracts, budget)).severity = Worst(found)
  BY <1>1, AssessmentFacts DEF HasScores
<1> QED BY <1>2, <1>3, <1>4, <1>5, <1>6, <1>7 DEF WorstFirst

\* What is cut from a long ledger is never worse than what stays and the cut is told,
\* the counts by tier and by organisation both count the rows that stay, whatever the
\* contracts, and the summary of a project leads with the finding that made its score.
THEOREM WorstIsFirst == LedgerSpec => []WorstFirst
<1>1. LedgerTypeOK => WorstFirst
  BY WorstFirstHolds
<1>2. LedgerSpec => []LedgerTypeOK
  BY LedgerTypeCorrect
<1> QED BY <1>1, <1>2, PTL

-----------------------------------------------------------------------------
(* The four side by side.                                                  *)

\* Each part of the contract side keeps its tables, runs, requests and calls in shape,
\* however its steps fall between those of the others.
THEOREM TypesCorrect == Spec => []AllTypesOK
<1>1. /\ Init => DocumentsInit /\ ChatInit /\ AuthorizationInit /\ LedgerInit
      /\ [Next]_vars => /\ [DocumentsNext]_documentsVars /\ [ChatNext]_chatVars
                        /\ [AuthorizationNext]_authorizationVars /\ [LedgerNext]_ledgerVars
  BY DEF Init, Next, vars
<1>2. Spec => DocumentsSpec /\ ChatSpec /\ AuthorizationSpec /\ LedgerSpec
  BY <1>1, PTL DEF Spec, DocumentsSpec, ChatSpec, AuthorizationSpec, LedgerSpec
<1>3. DocumentsTypeOK /\ ChatTypeOK /\ AuthorizationTypeOK /\ LedgerTypeOK => AllTypesOK
  BY DEF AllTypesOK
<1> QED
  BY <1>2, <1>3, DocumentsTypeCorrect, ChatTypeCorrect, AuthorizationTypeCorrect,
     LedgerTypeCorrect, PTL

=============================================================================
