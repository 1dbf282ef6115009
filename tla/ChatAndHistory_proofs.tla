----------------------- MODULE ChatAndHistory_proofs ------------------------
(***************************************************************************)
(* What holds of ChatContext for every memory table, conversation, limit   *)
(* and budget, whatever the reads of a recall return; of RiskHistory for   *)
(* every set of projects, savers, versions and results, any finite set of  *)
(* levels and any number of rows; and of the two beside RollingSummary,    *)
(* with what RollingSummary_proofs shows of it.                            *)
(***************************************************************************)
EXTENDS ChatAndHistory, RollingSummary_proofs, Listing_proofs

-----------------------------------------------------------------------------
(* The order of memories.                                                  *)

LEMMA MemoriesFinite ==
  ASSUME item \in Seq(Item), NEW ids, ids \subseteq Memories
  PROVE  IsFiniteSet(ids) /\ Cardinality(ids) \in Nat /\ ids \subseteq Nat
<1>1. Len(item) \in Nat /\ Memories = 1 .. Len(item)
  BY DEF Memories
<1>2. IsFiniteSet(Memories)
  BY <1>1, FS_Interval
<1>3. IsFiniteSet(ids)
  BY <1>2, FS_Subset
<1>4. Memories \subseteq Nat
  BY <1>1
<1> QED BY <1>3, <1>4, FS_CardinalityType

LEMMA ItemOf ==
  ASSUME item \in Seq(Item), NEW m \in Memories
  PROVE  m \in Nat /\ item[m] \in Item /\ item[m].authority \in Nat /\ item[m].width \in Nat
<1>1. Len(item) \in Nat /\ Memories = 1 .. Len(item)
  BY DEF Memories
<1>2. m \in Nat /\ item[m] \in Item
  BY <1>1
<1> QED BY <1>2 DEF Item

LEMMA OutranksIsAnOrder ==
  ASSUME item \in Seq(Item)
  PROVE  /\ \A m, n \in Memories : m # n => Outranks(m, n) \/ Outranks(n, m)
         /\ \A m, n \in Memories : ~ (Outranks(m, n) /\ Outranks(n, m))
         /\ \A l, m, n \in Memories : Outranks(l, m) /\ Outranks(m, n) => Outranks(l, n)
<1>1. \A m \in Memories : m \in Nat /\ item[m].authority \in Nat
  BY ItemOf
<1> QED BY <1>1 DEF Outranks

Above(ids, m) == {l \in ids \ {m} : Outranks(l, m)}

LEMMA AboveIsCounted ==
  ASSUME item \in Seq(Item), NEW ids, ids \subseteq Memories, NEW m \in ids
  PROVE  /\ IsFiniteSet(Above(ids, m))
         /\ Cardinality(Above(ids, m)) \in 0 .. Cardinality(ids) - 1
<1>1. IsFiniteSet(ids) /\ Cardinality(ids) \in Nat
  BY MemoriesFinite
<1>2. IsFiniteSet(ids \ {m}) /\ Cardinality(ids \ {m}) = Cardinality(ids) - 1
  BY <1>1, FS_RemoveElement
<1>3. Above(ids, m) \subseteq ids \ {m}
  BY DEF Above
<1>4. /\ IsFiniteSet(Above(ids, m)) /\ Cardinality(Above(ids, m)) \in Nat
      /\ Cardinality(Above(ids, m)) <= Cardinality(ids \ {m})
  BY <1>2, <1>3, FS_Subset, FS_CardinalityType
<1> QED BY <1>1, <1>2, <1>4

\* Of two memories the one that outranks the other has fewer above it.
LEMMA HigherHasFewer ==
  ASSUME item \in Seq(Item), NEW ids, ids \subseteq Memories, NEW l \in ids, NEW m \in ids,
         Outranks(l, m)
  PROVE  Cardinality(Above(ids, l)) < Cardinality(Above(ids, m))
<1> DEFINE a == Above(ids, l)
           b == Above(ids, m)
<1>1. l # m /\ ~ Outranks(m, l)
  BY OutranksIsAnOrder
<1>2. a \cup {l} \subseteq b /\ l \notin a
  BY <1>1, OutranksIsAnOrder DEF Above
<1>3. /\ IsFiniteSet(a) /\ Cardinality(a) \in Nat
      /\ IsFiniteSet(b) /\ Cardinality(b) \in Nat
  BY AboveIsCounted, FS_CardinalityType
<1> HIDE DEF a, b
<1>4. Cardinality(a \cup {l}) = Cardinality(a) + 1
  BY <1>2, <1>3, FS_AddElement
<1>5. Cardinality(a \cup {l}) <= Cardinality(b)
  BY <1>2, <1>3, FS_Subset
<1>6. Cardinality(a) < Cardinality(b)
  BY <1>3, <1>4, <1>5
<1> QED BY <1>6 DEF a, b

LEMMA EveryRankIsTaken ==
  ASSUME item \in Seq(Item), NEW ids, ids \subseteq Memories, NEW n \in 1 .. Cardinality(ids)
  PROVE  \E m \in ids : Cardinality(Above(ids, m)) = n - 1
<1> DEFINE places == 0 .. Cardinality(ids) - 1
           f      == [m \in ids |-> Cardinality(Above(ids, m))]
<1>1. IsFiniteSet(ids) /\ Cardinality(ids) \in Nat
  BY MemoriesFinite
<1>2. f \in [ids -> places]
  BY AboveIsCounted
<1>3. \A l, m \in ids : l # m => f[l] # f[m]
  <2> SUFFICES ASSUME NEW l \in ids, NEW m \in ids, Outranks(l, m) PROVE f[l] # f[m]
    <3>1. \A l, m \in ids : l # m => Outranks(l, m) \/ Outranks(m, l)
      BY OutranksIsAnOrder
    <3> QED BY <3>1
  <2>1. f[l] < f[m]
    BY HigherHasFewer
  <2>2. f[l] \in Int /\ f[m] \in Int
    BY <1>1, <1>2
  <2> QED BY <2>1, <2>2
<1>4. f \in Injection(ids, places)
  BY <1>2, <1>3 DEF Injection, IsInjective
<1>5. IsFiniteSet(places) /\ Cardinality(places) = Cardinality(ids)
  <2>1. 0 \in Int /\ Cardinality(ids) - 1 \in Int
    BY <1>1
  <2>2. /\ IsFiniteSet(places)
        /\ Cardinality(places) = IF 0 > Cardinality(ids) - 1 THEN 0
                                 ELSE (Cardinality(ids) - 1) - 0 + 1
    BY <2>1, FS_Interval
  <2> HIDE DEF places
  <2> QED BY <2>2, <1>1
<1> HIDE DEF f, places
<1>6. f \in Surjection(ids, places)
  BY <1>4, <1>5, FS_Injection
<1>7. n - 1 \in places
  BY <1>1 DEF places
<1>8. PICK m \in ids : f[m] = n - 1
  BY <1>6, <1>7 DEF Surjection
<1> QED BY <1>8 DEF f

\* Memories in the order of their rank are those memories.
LEMMA InOrderFacts ==
  ASSUME item \in Seq(Item), NEW ids, ids \subseteq Memories
  PROVE  /\ InOrder(ids, Outranks) \in Seq(ids)
         /\ Len(InOrder(ids, Outranks)) = Cardinality(ids)
<1> DEFINE n   == Cardinality(ids)
           all == InOrder(ids, Outranks)
<1>1. n \in Nat
  BY MemoriesFinite
<1>2. all = [k \in 1 .. n |-> CHOOSE m \in ids : Cardinality(Above(ids, m)) = k - 1]
  BY DEF InOrder, Above
<1> HIDE DEF n, all
<1>3. ASSUME NEW k \in 1 .. n PROVE all[k] \in ids
  <2>1. \E m \in ids : Cardinality(Above(ids, m)) = k - 1
    BY EveryRankIsTaken DEF n
  <2>2. all[k] = CHOOSE m \in ids : Cardinality(Above(ids, m)) = k - 1
    BY <1>2
  <2> QED BY <2>1, <2>2
<1>4. all \in Seq(ids)
  BY <1>1, <1>2, <1>3, IsASeq
<1>5. Len(all) = n
  BY <1>4, <1>1, <1>2
<1> QED BY <1>4, <1>5 DEF all, n

\* The first entries of a sequence are entries of it.
LEMMA FirstEntries ==
  ASSUME NEW T, NEW s \in Seq(T), NEW n \in 0 .. Len(s)
  PROVE  /\ SubSeq(s, 1, n) \in Seq(T) /\ Len(SubSeq(s, 1, n)) = n
         /\ n = 0 => SubSeq(s, 1, n) = <<>>
         /\ n = Len(s) => SubSeq(s, 1, n) = s
<1>1. /\ SubSeq(s, 1, n) = [k \in 1 .. n |-> s[k]]
      /\ \A k \in 1 .. n : k \in 1 .. Len(s) /\ s[k] \in T
  OBVIOUS
<1>2. n \in Nat
  OBVIOUS
<1> DEFINE t == SubSeq(s, 1, n)
<1>3. t \in Seq(T)
  BY <1>1, <1>2, IsASeq
<1> HIDE DEF t
<1>4. Len(t) = n
  BY <1>1, <1>2, <1>3 DEF t
<1>5. n = 0 => t = <<>>
  BY <1>3, <1>4, EmptySeq
<1>6. n = Len(s) => t = s
  <2>1. ASSUME n = Len(s) PROVE \A k \in 1 .. Len(t) : t[k] = s[k]
    BY <1>1, <1>4 DEF t
  <2> QED BY <1>3, <1>4, <2>1, SeqEqual
<1> QED BY <1>3, <1>4, <1>5, <1>6 DEF t

\* What is ranked is one memory per text, of those that were found.
LEMMA RankedFacts ==
  ASSUME item \in Seq(Item), NEW found, found \subseteq Memories
  PROVE  Ranked(found) \in Seq(Distinct(found)) /\ Distinct(found) \subseteq found
<1>1. Distinct(found) \subseteq found
  BY DEF Distinct
<1> DEFINE all == InOrder(Distinct(found), Outranks)
           n   == Least(Len(all), RetrievalLimit)
<1>2. all \in Seq(Distinct(found))
  BY <1>1, InOrderFacts
<1>3. Ranked(found) = SubSeq(all, 1, n)
  BY DEF Ranked
<1> HIDE DEF all
<1>4. n \in 0 .. Len(all)
  BY <1>2, ContextAssumption DEF Least
<1> HIDE DEF n
<1> QED BY <1>1, <1>2, <1>3, <1>4, FirstEntries

-----------------------------------------------------------------------------
(* What things weigh.                                                      *)

LEMMA TotalIsANumber ==
  ASSUME NEW s \in Seq(Message)
  PROVE  /\ TotalWidth(s) \in Nat
         /\ s = <<>> => TotalWidth(s) = 0
         /\ Len(s) = 1 => TotalWidth(s) = s[1].width
<1> DEFINE w == [n \in DOMAIN s |-> s[n].width]
<1>1. DOMAIN s = 1 .. Len(s) /\ Len(s) \in Nat
  OBVIOUS
<1>2. IsFiniteSet(DOMAIN s)
  <2>1. 1 \in Int /\ Len(s) \in Int
    BY <1>1
  <2> QED BY <1>1, <2>1, FS_Interval
<1>3. w \in [DOMAIN s -> Nat]
  <2>1. \A n \in DOMAIN s : s[n] \in Message
    BY <1>1
  <2> QED BY <2>1 DEF Message
<1>4. s = <<>> => DOMAIN s = {}
  OBVIOUS
<1>5. Len(s) = 1 => DOMAIN s = {1} /\ w[1] = s[1].width
  BY <1>1
<1>6. TotalWidth(s) = SumFunction(w)
  BY DEF TotalWidth
<1> HIDE DEF w
<1>7. /\ SumFunction(w) \in Nat
      /\ DOMAIN s = {} => SumFunction(w) = 0
      /\ \A l : DOMAIN s = {l} => SumFunction(w) = w[l]
  BY <1>2, <1>3, SumIsANumber
<1> QED BY <1>4, <1>5, <1>6, <1>7

LEMMA CostIsANumber ==
  ASSUME item \in Seq(Item), NEW ms \in Seq(Memories)
  PROVE  Cost(ms) \in Nat /\ (ms = <<>> => Cost(ms) = 0)
<1> DEFINE w == [n \in DOMAIN ms |-> item[ms[n]].width]
<1>1. DOMAIN ms = 1 .. Len(ms) /\ Len(ms) \in Nat
  OBVIOUS
<1>2. IsFiniteSet(DOMAIN ms)
  <2>1. 1 \in Int /\ Len(ms) \in Int
    BY <1>1
  <2> QED BY <1>1, <2>1, FS_Interval
<1>3. w \in [DOMAIN ms -> Nat]
  <2>1. \A n \in DOMAIN ms : ms[n] \in Memories
    BY <1>1
  <2> QED BY <2>1, ItemOf
<1>4. ms = <<>> => DOMAIN ms = {}
  OBVIOUS
<1>5. Cost(ms) = SumFunction(w)
  BY DEF Cost
<1> HIDE DEF w
<1>6. SumFunction(w) \in Nat /\ (DOMAIN ms = {} => SumFunction(w) = 0)
  BY <1>2, <1>3, SumIsANumber
<1> QED BY <1>4, <1>5, <1>6

\* The payloads that carry some of the given memories.
Carrying(ids) ==
    [question : Nat, summary : Nat, recent : Seq(Message), memories : Seq(ids), risk : Nat]

LEMMA SizeIsANumber ==
  ASSUME item \in Seq(Item), NEW p \in Carrying(Memories)
  PROVE  /\ Size(p) \in Nat
         /\ (p.question = 0 /\ p.summary = 0 /\ p.recent = <<>> /\ p.memories = <<>> /\ p.risk = 0)
                => Size(p) = Base
<1> DEFINE ms == p.memories
           w  == [n \in DOMAIN ms |-> Least(item[ms[n]].width, MemoryClip) + Frame]
<1>1. ms \in Seq(Memories) /\ p.recent \in Seq(Message)
      /\ p.question \in Nat /\ p.summary \in Nat /\ p.risk \in Nat
  BY DEF Carrying
<1>2. IsFiniteSet(DOMAIN ms)
  <2>1. 1 \in Int /\ Len(ms) \in Int /\ DOMAIN ms = 1 .. Len(ms)
    BY <1>1
  <2> QED BY <2>1, FS_Interval
<1>3. w \in [DOMAIN ms -> Nat]
  <2>1. \A n \in DOMAIN ms : ms[n] \in Memories
    BY <1>1
  <2>2. \A n \in DOMAIN ms : item[ms[n]].width \in Nat
    BY <2>1, ItemOf
  <2> QED BY <2>2, ContextAssumption DEF Least
<1>4. ms = <<>> => DOMAIN ms = {}
  OBVIOUS
<1>5. Size(p) = Base + p.question + p.summary + Frame * p.risk
                + TotalWidth(p.recent) + Frame * Len(p.recent) + SumFunction(w)
  BY DEF Size
<1> HIDE DEF w
<1>6. SumFunction(w) \in Nat /\ (DOMAIN ms = {} => SumFunction(w) = 0)
  BY <1>2, <1>3, SumIsANumber
<1> HIDE DEF ms
<1>7. TotalWidth(p.recent) \in Nat /\ (p.recent = <<>> => TotalWidth(p.recent) = 0 /\ Len(p.recent) = 0)
  BY <1>1, TotalIsANumber
<1>8. Base \in Nat /\ Frame \in Nat /\ Frame * p.risk \in Nat /\ Frame * Len(p.recent) \in Nat
  BY <1>1, ContextAssumption
<1>9. (p.risk = 0 => Frame * p.risk = 0) /\ (Len(p.recent) = 0 => Frame * Len(p.recent) = 0)
  BY <1>8
<1>10. Size(p) \in Nat
  <2> DEFINE q == p.question
             d == p.summary
             r == Frame * p.risk
             t == TotalWidth(p.recent)
             l == Frame * Len(p.recent)
             m == SumFunction(w)
  <2>1. Size(p) = Base + q + d + r + t + l + m
    BY <1>5
  <2>2. q \in Nat /\ d \in Nat /\ r \in Nat /\ t \in Nat /\ l \in Nat /\ m \in Nat
    BY <1>1, <1>6, <1>7, <1>8
  <2> HIDE DEF q, d, r, t, l, m
  <2> QED BY <2>1, <2>2, <1>8
<1>11. ASSUME p.question = 0, p.summary = 0, p.recent = <<>>, p.memories = <<>>, p.risk = 0
       PROVE  Size(p) = Base
  <2>1. SumFunction(w) = 0
    BY <1>4, <1>6, <1>11 DEF ms
  <2> QED BY <2>1, <1>5, <1>7, <1>8, <1>9, <1>11
<1> QED BY <1>10, <1>11

-----------------------------------------------------------------------------
(* The character budget.                                                   *)

\* The lowest number from 1 to n that has a property, n if none has it.
LEMMA LowestUpTo ==
  ASSUME NEW n \in Nat \ {0}, NEW P, P \subseteq 1 .. n
  PROVE  /\ Min({n} \cup P) \in 1 .. n
         /\ Min({n} \cup P) \in P \/ Min({n} \cup P) = n
<1> DEFINE S == {n} \cup P
           R == {n - m : m \in S}
<1>1. S \subseteq 1 .. n /\ n \in Int
  OBVIOUS
<1>2. R \subseteq 0 .. n
  BY <1>1
<1>3. IsFiniteSet(0 .. n)
  <2>1. 0 \in Int
    OBVIOUS
  <2> QED BY <1>1, <2>1, FS_Interval
<1>4. IsFiniteSet(R)
  BY <1>2, <1>3, FS_Subset
<1>5. R # {} /\ R \subseteq Nat
  <2>1. n - n \in R
    BY <1>1
  <2>2. \A r \in 0 .. n : r \in Nat
    OBVIOUS
  <2> QED BY <1>2, <2>1, <2>2
<1>6. Max(R) \in R /\ \A r \in R : r <= Max(R)
  <2> HIDE DEF R
  <2> QED BY <1>4, <1>5, HighestExists
<1>7. PICK m \in S : Max(R) = n - m
  BY <1>6
<1>8. ASSUME NEW k \in S PROVE m <= k
  <2>1. n - k <= n - m
    BY <1>6, <1>7
  <2> QED BY <2>1, <1>1
<1>9. Min(S) \in S
  BY <1>8 DEF Min
<1>10. Min(S) \in 1 .. n /\ (Min(S) \in P \/ Min(S) = n)
  BY <1>1, <1>9
<1> QED BY <1>10

\* The last entries of a sequence end as it does.
LEMMA LastEntries ==
  ASSUME NEW T, NEW s \in Seq(T), NEW n \in 1 .. Len(s)
  PROVE  /\ SubSeq(s, n, Len(s)) \in Seq(T)
         /\ Len(SubSeq(s, n, Len(s))) = Len(s) - n + 1
         /\ SubSeq(s, n, Len(s)) # <<>>
         /\ Last(SubSeq(s, n, Len(s))) = Last(s)
<1> DEFINE t == SubSeq(s, n, Len(s))
           k == Len(s) - n + 1
<1>1. Len(s) \in Nat /\ n \in Nat /\ k \in Nat \ {0}
  OBVIOUS
<1>2. t = [i \in 1 .. k |-> s[n + i - 1]]
  BY <1>1
<1>3. \A i \in 1 .. k : n + i - 1 \in 1 .. Len(s) /\ s[n + i - 1] \in T
  BY <1>1
<1>4. n + k - 1 = Len(s)
  BY <1>1
<1> HIDE DEF k, t
<1>5. t \in Seq(T)
  BY <1>1, <1>2, <1>3, IsASeq
<1>6. Len(t) = k
  BY <1>1, <1>2, <1>5
<1>7. t # <<>>
  BY <1>1, <1>5, <1>6
<1>8. t[k] = s[Len(s)]
  BY <1>1, <1>2, <1>4
<1>9. Last(t) = Last(s)
  BY <1>6, <1>8 DEF Last
<1> QED BY <1>5, <1>6, <1>7, <1>9 DEF t, k

\* What fits the budget, and what is kept of it.
LEMMA FitBudgetFacts ==
  ASSUME item \in Seq(Item), NEW ids, ids \subseteq Memories,
         NEW summary \in Nat, NEW recent \in Seq(Message), recent # <<>>, NEW memories \in Seq(ids)
  PROVE  LET fit == FitBudget(summary, recent, memories)
         IN  /\ fit.summary \in Nat /\ fit.recent \in Seq(Message) /\ fit.memories \in Seq(ids)
             /\ fit.recent # <<>> /\ Last(fit.recent).no = Last(recent).no
             /\ fit.summary + TotalWidth(fit.recent) + Cost(fit.memories) <= Budget
<1> DEFINE Fit(ms)  == summary + TotalWidth(recent) + Cost(ms) <= Budget
           N        == {n \in 1 .. Len(memories) : Fit(SubSeq(memories, 1, n))}
           top      == Max({0} \cup N)
           kept     == SubSeq(memories, 1, top)
           Talks(s) == summary + TotalWidth(s) + Cost(kept) <= Budget
           M        == {n \in 1 .. Len(recent) : Talks(SubSeq(recent, n, Len(recent)))}
           start    == Min({Len(recent)} \cup M)
           talk     == SubSeq(recent, start, Len(recent))
           digest   == Least(summary, Minus(Budget, TotalWidth(talk) + Cost(kept)))
           rest     == Minus(Budget, digest + Cost(kept))
           cut      == IF talk # <<>> /\ digest + TotalWidth(talk) + Cost(kept) > Budget
                       THEN WithLast(talk, Least(Last(talk).width, rest)) ELSE talk
<1>1. FitBudget(summary, recent, memories)
        = [summary |-> digest, memories |-> kept, recent |-> cut]
  BY DEF FitBudget, FirstOnes, LastOnes
<1>2. top \in 0 .. Len(memories) /\ (top \in N \/ top = 0)
  <2>1. N \subseteq 1 .. Len(memories) /\ Len(memories) \in Nat
    OBVIOUS
  <2> HIDE DEF N
  <2> QED BY <2>1, HighestUpTo
<1>3. kept \in Seq(ids) /\ (Fit(kept) \/ kept = <<>>)
  <2> HIDE DEF top
  <2>1. SubSeq(memories, 1, top) \in Seq(ids) /\ (top = 0 => SubSeq(memories, 1, top) = <<>>)
    BY <1>2, FirstEntries
  <2> QED BY <1>2, <2>1
<1> HIDE DEF N, top, kept, M, start, talk, digest, rest, cut
<1>4. Cost(kept) \in Nat /\ TotalWidth(recent) \in Nat /\ Budget \in Nat /\ Cost(kept) <= Budget
  <2>1. kept \in Seq(Memories)
    BY <1>3, SeqMonotonic
  <2>2. Cost(kept) \in Nat /\ (kept = <<>> => Cost(kept) = 0) /\ TotalWidth(recent) \in Nat
    BY <2>1, CostIsANumber, TotalIsANumber
  <2> QED BY <2>2, <1>3, ContextAssumption
<1>5. start \in 1 .. Len(recent) /\ (start \in M \/ start = Len(recent))
  <2>1. M \subseteq 1 .. Len(recent) /\ Len(recent) \in Nat \ {0}
    BY DEF M
  <2> QED BY <2>1, LowestUpTo DEF start
<1>6. /\ talk \in Seq(Message) /\ talk # <<>> /\ Last(talk) = Last(recent)
      /\ Len(talk) = Len(recent) - start + 1
  BY <1>5, LastEntries DEF talk
<1>7. Talks(talk) \/ Len(talk) = 1
  <2>1. start \in M => Talks(talk)
    BY DEF M, talk
  <2>2. start = Len(recent) => Len(talk) = 1
    BY <1>6
  <2> QED BY <1>5, <2>1, <2>2
<1>8. TotalWidth(talk) \in Nat /\ (Len(talk) = 1 => TotalWidth(talk) = talk[1].width)
  BY <1>6, TotalIsANumber
<1>9. digest \in Nat /\ rest \in Nat
  <2>1. \A a, b \in Nat : Minus(a, b) \in Nat /\ Least(a, b) \in Nat
    BY DEF Minus, Least
  <2>2. TotalWidth(talk) + Cost(kept) \in Nat
    BY <1>4, <1>8
  <2>3. digest \in Nat
    BY <1>4, <2>1, <2>2 DEF digest
  <2>4. digest + Cost(kept) \in Nat
    BY <1>4, <2>3
  <2> QED BY <1>4, <2>1, <2>3, <2>4 DEF rest
<1>10. CASE digest + TotalWidth(talk) + Cost(kept) > Budget
  <2>1. digest = 0 /\ ~ Talks(talk) /\ rest = Budget - Cost(kept)
    BY <1>4, <1>8, <1>9, <1>10 DEF digest, rest, Least, Minus
  <2>2. Len(talk) = 1
    BY <1>7, <2>1
  <2> DEFINE width == Least(Last(talk).width, rest)
  <2>3. talk[1] \in Message /\ Last(talk) = talk[1] /\ talk = [n \in 1 .. 1 |-> talk[n]]
    <3>1. talk[1] \in Message
      BY <1>6, <2>2
    <3>2. talk = [n \in 1 .. 1 |-> talk[n]]
      <4>1. talk \in [1 .. Len(talk) -> Message]
        BY <1>6, LenProperties
      <4> QED BY <4>1, <2>2
    <3> QED BY <3>1, <3>2, <2>2 DEF Last
  <2>4. width \in Nat /\ width <= rest
    BY <1>9, <2>3 DEF Message, Least
  <2> HIDE DEF width
  <2>5. cut = [n \in 1 .. 1 |-> [talk[1] EXCEPT !.width = width]]
    BY <1>6, <1>10, <2>2, <2>3 DEF cut, WithLast, width
  <2>6. [talk[1] EXCEPT !.width = width] \in Message
    BY <2>3, <2>4 DEF Message
  <2>7. cut \in Seq(Message) /\ Len(cut) = 1
    <3>1. cut \in Seq(Message)
      BY <2>5, <2>6, IsASeq
    <3> QED BY <3>1, <2>5
  <2>8. cut[1].width = width /\ cut[1].no = talk[1].no
    BY <2>3, <2>5 DEF Message
  <2>9. cut # <<>> /\ Last(cut).no = Last(recent).no
    <3>1. Last(cut) = cut[1]
      BY <2>7 DEF Last
    <3>2. Last(cut).no = Last(recent).no
      BY <3>1, <1>6, <2>3, <2>8
    <3>3. cut # <<>>
      <4>1. Len(<<>>) = 0 /\ 0 # 1
        BY EmptySeq
      <4> QED BY <2>7, <4>1, Zenon
    <3> QED BY <3>2, <3>3
  <2>10. TotalWidth(cut) = width
    BY <2>7, <2>8, TotalIsANumber
  <2>11. digest + TotalWidth(cut) + Cost(kept) <= Budget
    BY <1>4, <2>1, <2>4, <2>10
  <2> QED BY <1>1, <1>3, <1>9, <2>7, <2>9, <2>11
<1>11. CASE ~ (digest + TotalWidth(talk) + Cost(kept) > Budget)
  <2>1. cut = talk
    BY <1>11 DEF cut
  <2>2. digest + TotalWidth(cut) + Cost(kept) <= Budget
    BY <1>4, <1>8, <1>9, <1>11, <2>1
  <2> QED BY <1>1, <1>3, <1>6, <1>9, <2>1, <2>2
<1> QED BY <1>10, <1>11

-----------------------------------------------------------------------------
(* The limit of the prompt. A stage that has nothing to do does nothing;   *)
(* one that cannot make the payload fit leaves nothing of its part.        *)

Fitting(p) == Size(p) <= JsonLimit

LEMMA FewerMessagesFacts ==
  ASSUME NEW ids, NEW p \in Carrying(ids)
  PROVE  /\ FewerMessages(p) \in Carrying(ids)
         /\ FewerMessages(p).question = p.question
         /\ Fitting(p) => FewerMessages(p) = p
         /\ Fitting(FewerMessages(p)) \/ FewerMessages(p).recent = <<>>
<1> DEFINE s == p.recent
           N == {n \in 1 .. Len(s) : Size([p EXCEPT !.recent = SubSeq(s, 1, n)]) <= JsonLimit}
           top == Max({0} \cup N)
           t == SubSeq(s, 1, top)
<1>1. FewerMessages(p) = [p EXCEPT !.recent = t]
  BY DEF FewerMessages, FirstOnes
<1>2. s \in Seq(Message) /\ Len(s) \in Nat
  BY DEF Carrying
<1>3. N \subseteq 1 .. Len(s)
  OBVIOUS
<1>4. Len(s) # 0 /\ Fitting([p EXCEPT !.recent = SubSeq(s, 1, Len(s))]) => Len(s) \in N
  <2> DEFINE Fit(n) == Size([p EXCEPT !.recent = SubSeq(s, 1, n)]) <= JsonLimit
  <2>1. Len(s) # 0 => Len(s) \in 1 .. Len(s)
    BY <1>2
  <2>2. N = {n \in 1 .. Len(s) : Fit(n)}
    OBVIOUS
  <2>3. Fitting([p EXCEPT !.recent = SubSeq(s, 1, Len(s))]) <=> Fit(Len(s))
    BY DEF Fitting
  <2> HIDE DEF Fit, s, N
  <2> QED BY <2>1, <2>2, <2>3
<1>5. top \in N => Fitting([p EXCEPT !.recent = t])
  BY DEF Fitting
<1> HIDE DEF s, N
<1>6. /\ top \in 0 .. Len(s)
      /\ top \in N \/ top = 0
      /\ Len(s) \in N => top = Len(s)
  BY <1>2, <1>3, HighestUpTo
<1> HIDE DEF top
<1>7. t \in Seq(Message) /\ (top = 0 => t = <<>>) /\ (top = Len(s) => t = s)
  BY <1>2, <1>6, FirstEntries
<1>8. SubSeq(s, 1, Len(s)) = s
  BY <1>2, FirstEntries
<1> HIDE DEF t
<1>9. [p EXCEPT !.recent = s] = p
  BY DEF Carrying, s
<1>10. /\ [p EXCEPT !.recent = t] \in Carrying(ids)
       /\ [p EXCEPT !.recent = t].recent = t
       /\ [p EXCEPT !.recent = t].question = p.question
  BY <1>7 DEF Carrying
<1>11. ASSUME Fitting(p) PROVE t = s
  <2>1. Len(s) # 0 => Len(s) \in N
    BY <1>4, <1>8, <1>9, <1>11
  <2>2. top = Len(s)
    BY <1>2, <1>6, <2>1
  <2> QED BY <1>7, <2>2
<1> QED BY <1>1, <1>5, <1>6, <1>7, <1>9, <1>10, <1>11

LEMMA FewerMemoriesFacts ==
  ASSUME NEW ids, NEW p \in Carrying(ids)
  PROVE  /\ FewerMemories(p) \in Carrying(ids)
         /\ FewerMemories(p).question = p.question
         /\ FewerMemories(p).recent = p.recent
         /\ Fitting(p) => FewerMemories(p) = p
         /\ Fitting(FewerMemories(p)) \/ FewerMemories(p).memories = <<>>
<1> DEFINE s == p.memories
           N == {n \in 1 .. Len(s) : Size([p EXCEPT !.memories = SubSeq(s, 1, n)]) <= JsonLimit}
           top == Max({0} \cup N)
           t == SubSeq(s, 1, top)
<1>1. FewerMemories(p) = [p EXCEPT !.memories = t]
  BY DEF FewerMemories, FirstOnes
<1>2. s \in Seq(ids) /\ Len(s) \in Nat
  BY DEF Carrying
<1>3. N \subseteq 1 .. Len(s)
  OBVIOUS
<1>4. Len(s) # 0 /\ Fitting([p EXCEPT !.memories = SubSeq(s, 1, Len(s))]) => Len(s) \in N
  <2> DEFINE Fit(n) == Size([p EXCEPT !.memories = SubSeq(s, 1, n)]) <= JsonLimit
  <2>1. Len(s) # 0 => Len(s) \in 1 .. Len(s)
    BY <1>2
  <2>2. N = {n \in 1 .. Len(s) : Fit(n)}
    OBVIOUS
  <2>3. Fitting([p EXCEPT !.memories = SubSeq(s, 1, Len(s))]) <=> Fit(Len(s))
    BY DEF Fitting
  <2> HIDE DEF Fit, s, N
  <2> QED BY <2>1, <2>2, <2>3
<1>5. top \in N => Fitting([p EXCEPT !.memories = t])
  BY DEF Fitting
<1> HIDE DEF s, N
<1>6. /\ top \in 0 .. Len(s)
      /\ top \in N \/ top = 0
      /\ Len(s) \in N => top = Len(s)
  BY <1>2, <1>3, HighestUpTo
<1> HIDE DEF top
<1>7. t \in Seq(ids) /\ (top = 0 => t = <<>>) /\ (top = Len(s) => t = s)
  BY <1>2, <1>6, FirstEntries
<1>8. SubSeq(s, 1, Len(s)) = s
  BY <1>2, FirstEntries
<1> HIDE DEF t
<1>9. [p EXCEPT !.memories = s] = p
  BY DEF Carrying, s
<1>10. /\ [p EXCEPT !.memories = t] \in Carrying(ids)
       /\ [p EXCEPT !.memories = t].memories = t
       /\ [p EXCEPT !.memories = t].question = p.question
       /\ [p EXCEPT !.memories = t].recent = p.recent
  BY <1>7 DEF Carrying
<1>11. ASSUME Fitting(p) PROVE t = s
  <2>1. Len(s) # 0 => Len(s) \in N
    BY <1>4, <1>8, <1>9, <1>11
  <2>2. top = Len(s)
    BY <1>2, <1>6, <2>1
  <2> QED BY <1>7, <2>2
<1> QED BY <1>1, <1>5, <1>6, <1>7, <1>9, <1>10, <1>11

LEMMA ShorterSummaryFacts ==
  ASSUME NEW ids, NEW p \in Carrying(ids)
  PROVE  /\ ShorterSummary(p) \in Carrying(ids)
         /\ ShorterSummary(p).question = p.question
         /\ ShorterSummary(p).recent = p.recent
         /\ ShorterSummary(p).memories = p.memories
         /\ Fitting(p) => ShorterSummary(p) = p
         /\ Fitting(ShorterSummary(p)) \/ ShorterSummary(p).summary = 0
<1> DEFINE w == p.summary
           Fit(v) == Size([p EXCEPT !.summary = v]) <= JsonLimit
           halves == {w} \cup {v \in 0 .. w : \E k \in 1 .. w : v = w \div 2^k}
           N == {v \in halves : Fit(v)}
           v == Max({0} \cup N)
<1>1. ShorterSummary(p) = [p EXCEPT !.summary = v]
  BY DEF ShorterSummary, Halved
<1>2. w \in Nat
  BY DEF Carrying
<1>3. N \subseteq 0 .. w /\ (Fit(w) => w \in N)
  <2>1. halves \subseteq 0 .. w /\ w \in halves
    BY <1>2
  <2> HIDE DEF halves, w, Fit
  <2> QED BY <2>1
<1>4. v \in N => Fit(v)
  <2> HIDE DEF Fit, halves
  <2> QED OBVIOUS
<1> HIDE DEF w, N
<1>5. v \in 0 .. w /\ (v \in N \/ v = 0) /\ (w \in N => v = w)
  <2> DEFINE P == N \ {0}
  <2>1. P \subseteq 1 .. w /\ {0} \cup P = {0} \cup N
    BY <1>2, <1>3
  <2> HIDE DEF P
  <2>2. /\ Max({0} \cup P) \in 0 .. w
        /\ Max({0} \cup P) \in P \/ (P = {} /\ Max({0} \cup P) = 0)
        /\ w \in P => Max({0} \cup P) = w
    BY <1>2, <2>1, HighestUpTo
  <2>3. v = Max({0} \cup P)
    BY <2>1
  <2>4. w \in N /\ w # 0 => w \in P
    BY DEF P
  <2>5. w = 0 => v = w
    BY <2>2, <2>3
  <2> HIDE DEF v
  <2>6. v \in P => v \in N
    BY DEF P
  <2> QED BY <2>2, <2>3, <2>4, <2>5, <2>6
<1>6. [p EXCEPT !.summary = w] = p
  BY DEF Carrying, w
<1>7. Fitting(p) => v = w
  BY <1>3, <1>5, <1>6 DEF Fitting
<1>8. v \in Nat
  BY <1>2, <1>5
<1>9. Fitting([p EXCEPT !.summary = v]) \/ v = 0
  BY <1>4, <1>5 DEF Fitting
<1> HIDE DEF v
<1>10. /\ [p EXCEPT !.summary = v] \in Carrying(ids)
      /\ [p EXCEPT !.summary = v].summary = v
      /\ [p EXCEPT !.summary = v].question = p.question
      /\ [p EXCEPT !.summary = v].recent = p.recent
      /\ [p EXCEPT !.summary = v].memories = p.memories
  BY <1>8 DEF Carrying
<1> QED BY <1>1, <1>6, <1>7, <1>9, <1>10

LEMMA ShorterQuestionFacts ==
  ASSUME NEW ids, NEW p \in Carrying(ids)
  PROVE  /\ ShorterQuestion(p) \in Carrying(ids)
         /\ ShorterQuestion(p).recent = p.recent
         /\ ShorterQuestion(p).memories = p.memories
         /\ ShorterQuestion(p).summary = p.summary
         /\ Fitting(p) => ShorterQuestion(p) = p
         /\ Fitting(ShorterQuestion(p)) \/ ShorterQuestion(p).question = 0
<1> DEFINE w == p.question
           Fit(v) == Size([p EXCEPT !.question = v]) <= JsonLimit
           halves == {w} \cup {v \in 0 .. w : \E k \in 1 .. w : v = w \div 2^k}
           N == {v \in halves : Fit(v)}
           v == Max({0} \cup N)
<1>1. ShorterQuestion(p) = [p EXCEPT !.question = v]
  BY DEF ShorterQuestion, Halved
<1>2. w \in Nat
  BY DEF Carrying
<1>3. N \subseteq 0 .. w /\ (Fit(w) => w \in N)
  <2>1. halves \subseteq 0 .. w /\ w \in halves
    BY <1>2
  <2> HIDE DEF halves, w, Fit
  <2> QED BY <2>1
<1>4. v \in N => Fit(v)
  <2> HIDE DEF Fit, halves
  <2> QED OBVIOUS
<1> HIDE DEF w, N
<1>5. v \in 0 .. w /\ (v \in N \/ v = 0) /\ (w \in N => v = w)
  <2> DEFINE P == N \ {0}
  <2>1. P \subseteq 1 .. w /\ {0} \cup P = {0} \cup N
    BY <1>2, <1>3
  <2> HIDE DEF P
  <2>2. /\ Max({0} \cup P) \in 0 .. w
        /\ Max({0} \cup P) \in P \/ (P = {} /\ Max({0} \cup P) = 0)
        /\ w \in P => Max({0} \cup P) = w
    BY <1>2, <2>1, HighestUpTo
  <2>3. v = Max({0} \cup P)
    BY <2>1
  <2>4. w \in N /\ w # 0 => w \in P
    BY DEF P
  <2>5. w = 0 => v = w
    BY <2>2, <2>3
  <2> HIDE DEF v
  <2>6. v \in P => v \in N
    BY DEF P
  <2> QED BY <2>2, <2>3, <2>4, <2>5, <2>6
<1>6. [p EXCEPT !.question = w] = p
  BY DEF Carrying, w
<1>7. Fitting(p) => v = w
  BY <1>3, <1>5, <1>6 DEF Fitting
<1>8. v \in Nat
  BY <1>2, <1>5
<1>9. Fitting([p EXCEPT !.question = v]) \/ v = 0
  BY <1>4, <1>5 DEF Fitting
<1> HIDE DEF v
<1>10. /\ [p EXCEPT !.question = v] \in Carrying(ids)
      /\ [p EXCEPT !.question = v].question = v
      /\ [p EXCEPT !.question = v].recent = p.recent
      /\ [p EXCEPT !.question = v].memories = p.memories
      /\ [p EXCEPT !.question = v].summary = p.summary
  BY <1>8 DEF Carrying
<1> QED BY <1>1, <1>6, <1>7, <1>9, <1>10

LEMMA FewerDetailsFacts ==
  ASSUME NEW ids, NEW p \in Carrying(ids)
  PROVE  /\ FewerDetails(p) \in Carrying(ids)
         /\ FewerDetails(p).question = p.question
         /\ FewerDetails(p).recent = p.recent
         /\ FewerDetails(p).memories = p.memories
         /\ FewerDetails(p).summary = p.summary
         /\ Fitting(p) => FewerDetails(p) = p
         /\ Fitting(FewerDetails(p)) \/ FewerDetails(p).risk = 0
<1> DEFINE Fit(n) == Size([p EXCEPT !.risk = n]) <= JsonLimit
           N == {n \in 1 .. p.risk : Fit(n)}
           top == Max({0} \cup N)
<1>1. FewerDetails(p) = [p EXCEPT !.risk = top]
  BY DEF FewerDetails
<1>2. p.risk \in Nat
  BY DEF Carrying
<1>3. top \in 0 .. p.risk /\ (top \in N \/ top = 0) /\ (p.risk \in N => top = p.risk)
  <2>1. N \subseteq 1 .. p.risk
    OBVIOUS
  <2> HIDE DEF N
  <2> QED BY <1>2, <2>1, HighestUpTo
<1>4. top \in Nat
  BY <1>2, <1>3
<1>5. Fitting([p EXCEPT !.risk = top]) \/ top = 0
  <2>1. top \in N => Fit(top)
    <3> HIDE DEF Fit
    <3> QED OBVIOUS
  <2> QED BY <1>3, <2>1 DEF Fitting
<1>6. p.risk # 0 /\ Fitting([p EXCEPT !.risk = p.risk]) => p.risk \in N
  <2>1. p.risk # 0 => p.risk \in 1 .. p.risk
    BY <1>2
  <2>2. Fitting([p EXCEPT !.risk = p.risk]) <=> Fit(p.risk)
    BY DEF Fitting
  <2> HIDE DEF Fit
  <2> QED BY <2>1, <2>2
<1> HIDE DEF top, N
<1>7. [p EXCEPT !.risk = p.risk] = p
  BY DEF Carrying
<1>8. Fitting(p) => top = p.risk
  BY <1>2, <1>3, <1>6, <1>7
<1>9. /\ [p EXCEPT !.risk = top] \in Carrying(ids)
      /\ [p EXCEPT !.risk = top].risk = top
      /\ [p EXCEPT !.risk = top].question = p.question
      /\ [p EXCEPT !.risk = top].recent = p.recent
      /\ [p EXCEPT !.risk = top].memories = p.memories
      /\ [p EXCEPT !.risk = top].summary = p.summary
  BY <1>4 DEF Carrying
<1> QED BY <1>1, <1>5, <1>7, <1>8, <1>9

\* The payload respects the limit, and the question is the last thing but the
\* risk details that gives way.
LEMMA BoundedFacts ==
  ASSUME item \in Seq(Item), NEW ids, ids \subseteq Memories,
         NEW p \in Carrying(ids)
  PROVE  /\ Bounded(p) \in Carrying(ids)
         /\ Fitting(Bounded(p))
         /\ Bounded(p).question # p.question =>
                /\ Bounded(p).recent = <<>>
                /\ Bounded(p).memories = <<>>
                /\ Bounded(p).summary = 0
<1> DEFINE a == FewerMessages(p)
           b == FewerMemories(a)
           c == ShorterSummary(b)
           d == ShorterQuestion(c)
           e == FewerDetails(d)
<1>1. Bounded(p) = e
  BY DEF Bounded
<1>2. /\ a \in Carrying(ids) /\ a.question = p.question
      /\ Fitting(a) \/ a.recent = <<>>
  BY FewerMessagesFacts
<1> HIDE DEF a
<1>3. /\ b \in Carrying(ids) /\ b.question = a.question /\ b.recent = a.recent
      /\ Fitting(a) => b = a
      /\ Fitting(b) \/ b.memories = <<>>
  BY <1>2, FewerMemoriesFacts
<1> HIDE DEF b
<1>4. /\ c \in Carrying(ids) /\ c.question = b.question
      /\ c.recent = b.recent /\ c.memories = b.memories
      /\ Fitting(b) => c = b
      /\ Fitting(c) \/ c.summary = 0
  BY <1>3, ShorterSummaryFacts
<1> HIDE DEF c
<1>5. /\ d \in Carrying(ids) /\ d.recent = c.recent
      /\ d.memories = c.memories /\ d.summary = c.summary
      /\ Fitting(c) => d = c
      /\ Fitting(d) \/ d.question = 0
  BY <1>4, ShorterQuestionFacts
<1> HIDE DEF d
<1>6. /\ e \in Carrying(ids) /\ e.question = d.question /\ e.recent = d.recent
      /\ e.memories = d.memories /\ e.summary = d.summary
      /\ Fitting(d) => e = d
      /\ Fitting(e) \/ e.risk = 0
  BY <1>5, FewerDetailsFacts
<1> HIDE DEF e
<1>7. ~ Fitting(c) => c.recent = <<>> /\ c.memories = <<>> /\ c.summary = 0
  <2> SUFFICES ASSUME ~ Fitting(c) PROVE c.recent = <<>> /\ c.memories = <<>> /\ c.summary = 0
    OBVIOUS
  <2>1. ~ Fitting(b)
    BY <1>4
  <2>2. ~ Fitting(a)
    BY <1>3, <2>1
  <2> QED BY <1>2, <1>3, <1>4, <2>1, <2>2
<1>8. Fitting(e)
  <2> SUFFICES ASSUME ~ Fitting(e) PROVE FALSE
    OBVIOUS
  <2>1. e.risk = 0
    BY <1>6
  <2>2. ~ Fitting(d)
    BY <1>6
  <2>3. d.question = 0 /\ ~ Fitting(c)
    BY <1>5, <2>2
  <2>4. e.question = 0 /\ e.recent = <<>> /\ e.memories = <<>> /\ e.summary = 0
    BY <1>5, <1>6, <1>7, <2>3
  <2>5. e \in Carrying(Memories)
    <3>1. e.memories \in Seq(Memories)
      BY <1>6, SeqMonotonic DEF Carrying
    <3> QED BY <3>1, <1>6 DEF Carrying
  <2>6. Size(e) = Base
    BY <2>1, <2>4, <2>5, SizeIsANumber
  <2> QED BY <2>6, ContextAssumption DEF Fitting
<1>9. ASSUME e.question # p.question
      PROVE  e.recent = <<>> /\ e.memories = <<>> /\ e.summary = 0
  <2>1. ~ Fitting(c)
    BY <1>2, <1>3, <1>4, <1>5, <1>6, <1>9
  <2> QED BY <1>5, <1>6, <1>7, <2>1
<1> QED BY <1>1, <1>6, <1>8, <1>9

-----------------------------------------------------------------------------
(* The recall.                                                             *)

CostIn(it, memories) == SumFunction([n \in DOMAIN memories |-> it[memories[n]].width])
SizeIn(it, p) ==
    Base + p.question + p.summary + Frame * p.risk
    + TotalWidth(p.recent) + Frame * Len(p.recent)
    + SumFunction([n \in DOMAIN p.memories |->
                      Least(it[p.memories[n]].width, MemoryClip) + Frame])

\* What QuestionIsCutLast says of a prompt.
CutLast(it, c, p, r) ==
    /\ r.reason # "context" =>
            c.summary + TotalWidth(c.recent) + CostIn(it, c.memories) <= Budget
    /\ Last(c.recent).no = Last(r.recent).no
    /\ SizeIn(it, p) <= JsonLimit
    /\ p.question < Least(r.question, QuestionClip)
        => p.recent = <<>> /\ p.memories = <<>> /\ p.summary = 0

\* What is found is live at some moment: while memories can still be withdrawn,
\* those that are live are among those that were.
RecallInv ==
    /\ RecallTypeOK
    /\ step # "idle" => /\ read.recent # <<>>
                      /\ read.found \subseteq read.held \cap Own
                      /\ read.hits \subseteq Own
    /\ step \in {"exact", "search", "check"} => \A m \in Memories : Live(m) => m \in read.held
    /\ step # "done" => cited = {}
    /\ Built => /\ sent.offered \subseteq read.held \cap Own
                /\ \A m \in sent.offered : ~ item[m].local
                /\ ToSet(sent.payload.memories) \subseteq sent.offered
                /\ cited \subseteq sent.offered
                /\ OneVoicePerText
                /\ CutLast(item, sent.context, sent.payload, read)

LEMMA ItemsOfSequences ==
  ASSUME NEW T, NEW s \in Seq(T)
  PROVE  ToSet(s) \subseteq T /\ s \in Seq(ToSet(s))
<1>1. Len(s) \in Nat /\ DOMAIN s = 1 .. Len(s) /\ s \in [1 .. Len(s) -> T]
  BY LenProperties
<1>2. ToSet(s) = {s[n] : n \in 1 .. Len(s)}
  BY <1>1 DEF ToSet
<1>3. s = [n \in 1 .. Len(s) |-> s[n]] /\ \A n \in 1 .. Len(s) : s[n] \in ToSet(s)
  BY <1>1, <1>2
<1>4. s \in Seq(ToSet(s))
  <2> DEFINE k == Len(s)
             e(n) == s[n]
  <2>1. [n \in 1 .. k |-> e(n)] \in Seq(ToSet(s))
    <3>1. k \in Nat /\ \A n \in 1 .. k : e(n) \in ToSet(s)
      BY <1>1, <1>3
    <3> HIDE DEF k, e
    <3> QED BY <3>1, IsASeq
  <2> QED BY <2>1, <1>3
<1> QED BY <1>1, <1>2, <1>4

LEMMA ClippedIsATalk ==
  ASSUME NEW s \in Seq(Message)
  PROVE  Clipped(s) \in Seq(Message)
<1> DEFINE e(n) == [s[n] EXCEPT !.width = Least(@, MessageClip)]
           k == Len(s)
<1>1. k \in Nat /\ DOMAIN s = 1 .. k /\ \A n \in 1 .. k : s[n] \in Message
  BY LenProperties
<1>2. Clipped(s) = [n \in 1 .. k |-> e(n)]
  BY <1>1 DEF Clipped
<1>3. ASSUME NEW n \in 1 .. k PROVE e(n) \in Message
  <2>1. s[n] \in Message
    BY <1>1
  <2> QED BY <2>1, ContextAssumption DEF Message, Least
<1> HIDE DEF e, k
<1> QED BY <1>1, <1>2, <1>3, IsASeq

\* The prompt that is built.
LEMMA PromptFacts ==
  ASSUME RecallInv, NEW risk \in RiskItems, BuildPrompt(risk)
  PROVE  /\ sent'.payload \in Payload
         /\ sent'.offered \subseteq read.held \cap Own
         /\ \A m \in sent'.offered : ~ item[m].local
         /\ ToSet(sent'.payload.memories) \subseteq sent'.offered
         /\ ToSet(sent'.context.memories) \subseteq Distinct(read.found)
         /\ CutLast(item, sent'.context, sent'.payload, read)
<1> DEFINE ids     == Distinct(read.found)
           fit     == Recalled
           leaving == {m \in ToSet(fit.memories) : MayLeave(m)}
           off     == InOrder(leaving, Outranks)
           given   == [question |-> Least(read.question, QuestionClip),
                       summary  |-> Least(fit.summary, SummaryClip),
                       recent   |-> Clipped(fit.recent),
                       memories |-> off,
                       risk     |-> Compacted(risk)]
           p       == Bounded(given)
<1>1. sent' = [context |-> fit, offered |-> ToSet(off), payload |-> p]
  BY DEF BuildPrompt
<1>2. /\ item \in Seq(Item) /\ read \in Read /\ read.recent # <<>>
      /\ read.found \subseteq read.held \cap Own
  BY DEF BuildPrompt, RecallInv, RecallTypeOK
<1>3. /\ read.found \subseteq Memories /\ read.summary \in Nat
      /\ read.question \in Nat /\ read.recent \in Seq(Message)
  BY <1>2 DEF Own, Read
<1>4. Ranked(read.found) \in Seq(ids) /\ ids \subseteq read.found /\ ids \subseteq Memories
  BY <1>2, <1>3, RankedFacts
<1> HIDE DEF ids
<1>5. /\ fit.summary \in Nat /\ fit.recent \in Seq(Message) /\ fit.memories \in Seq(ids)
      /\ Last(fit.recent).no = Last(read.recent).no
      /\ read.reason # "context" =>
              fit.summary + TotalWidth(fit.recent) + Cost(fit.memories) <= Budget
  <2>1. CASE read.reason = "context"
    <3>1. fit = [summary |-> read.summary, recent |-> read.recent, memories |-> <<>>]
      BY <2>1 DEF Recalled
    <3> QED BY <2>1, <3>1, <1>3
  <2>2. CASE read.reason # "context"
    <3>1. fit = FitBudget(read.summary, read.recent, Ranked(read.found))
      BY <2>2 DEF Recalled
    <3> HIDE DEF fit
    <3> QED BY <3>1, <1>2, <1>3, <1>4, FitBudgetFacts
  <2> QED BY <2>1, <2>2
<1> HIDE DEF fit
<1>6. ToSet(fit.memories) \subseteq ids
  BY <1>5, ItemsOfSequences
<1>7. leaving \subseteq ids /\ \A m \in leaving : ~ item[m].local
  BY <1>6 DEF MayLeave
<1> HIDE DEF leaving
<1>8. off \in Seq(leaving)
  <2>1. leaving \subseteq Memories
    BY <1>4, <1>7
  <2> QED BY <1>2, <2>1, InOrderFacts
<1> HIDE DEF off
<1>9. ToSet(off) \subseteq leaving /\ off \in Seq(ToSet(off))
  BY <1>8, ItemsOfSequences
<1>10. given \in Carrying(ToSet(off)) /\ given.question = Least(read.question, QuestionClip)
  <2>1. \A a, b \in Nat : Least(a, b) \in Nat
    BY DEF Least
  <2>2. Least(read.question, QuestionClip) \in Nat /\ Least(fit.summary, SummaryClip) \in Nat
    BY <2>1, <1>3, <1>5, ContextAssumption
  <2>3. Compacted(risk) \in Nat
    <3>1. risk \in Details /\ RiskCaps \in Details
      BY ContextAssumption
    <3>2. /\ Least(risk.hits, RiskCaps.hits) \in Nat
          /\ Least(risk.suggestions, RiskCaps.suggestions) \in Nat
          /\ Least(risk.dimensions, RiskCaps.dimensions) \in Nat
      BY <2>1, <3>1 DEF Details
    <3> QED BY <3>2 DEF Compacted
  <2>4. Clipped(fit.recent) \in Seq(Message)
    BY <1>5, ClippedIsATalk
  <2> QED BY <2>2, <2>3, <2>4, <1>9 DEF Carrying
<1> HIDE DEF given
<1>11. /\ p \in Carrying(ToSet(off)) /\ Fitting(p)
       /\ p.question # given.question =>
              p.recent = <<>> /\ p.memories = <<>> /\ p.summary = 0
  <2>1. ToSet(off) \subseteq Memories
    BY <1>4, <1>7, <1>9
  <2> QED BY <1>2, <1>10, <2>1, BoundedFacts
<1> HIDE DEF p
<1>12. ToSet(p.memories) \subseteq ToSet(off)
  <2>1. p.memories \in Seq(ToSet(off))
    BY <1>11 DEF Carrying
  <2> QED BY <2>1, ItemsOfSequences
<1>13. p \in Payload
  <2>1. ToSet(off) \subseteq Nat
    BY <1>2, <1>4, <1>7, <1>9, MemoriesFinite
  <2>2. p.memories \in Seq(Nat)
    BY <1>11, <2>1, SeqMonotonic DEF Carrying
  <2> QED BY <2>2, <1>11 DEF Carrying, Payload
<1>14. CutLast(item, fit, p, read)
  <2>1. Cost(fit.memories) = CostIn(item, fit.memories)
    BY DEF Cost, CostIn
  <2>2. Size(p) = SizeIn(item, p)
    BY DEF Size, SizeIn
  <2>3. p.question < given.question => p.question # given.question
    BY <1>10, <1>11 DEF Carrying
  <2> QED BY <2>1, <2>2, <2>3, <1>5, <1>10, <1>11 DEF CutLast, Fitting
<1>15. sent'.payload = p /\ sent'.offered = ToSet(off) /\ sent'.context = fit
  BY <1>1
<1>16. ToSet(off) \subseteq read.held \cap Own /\ \A m \in ToSet(off) : ~ item[m].local
  BY <1>2, <1>4, <1>7, <1>9
<1> QED BY <1>6, <1>12, <1>13, <1>14, <1>15, <1>16 DEF ids

LEMMA RecallBegins ==
  RecallInit => RecallInv
BY ContextAssumption DEF RecallInit, RecallInv, RecallTypeOK, RecallSteps, Built

LEMMA AskKeepsRecall ==
  ASSUME RecallInv,
         NEW width \in Questions, NEW terms \in BOOLEAN, NEW before \in Conversations,
         NEW summary \in Summaries, Ask(width, terms, before, summary)
  PROVE  RecallInv'
<1> DEFINE w(n) == [no |-> n, width |-> IF n <= Len(before) THEN before[n] ELSE width]
           k    == Len(before) + 1
           talk == [n \in 1 .. k |-> w(n)]
           from == IF Len(talk) > RecentMessageLimit THEN Len(talk) - RecentMessageLimit + 1 ELSE 1
           last == SubSeq(talk, from, Len(talk))
           held == {m \in Memories : Live(m)}
<1>1. /\ width \in Nat /\ summary \in Nat /\ before \in Seq(Nat)
      /\ RecentMessageLimit \in Nat \ {0}
  BY ContextAssumption
<1>2. k \in Nat \ {0} /\ \A n \in 1 .. k : w(n) \in Message
  BY <1>1 DEF Message
<1>3. read' = [terms |-> terms, question |-> width, summary |-> summary, recent |-> last,
               found |-> {}, hits |-> {}, reason |-> "none", held |-> held]
  BY DEF Ask
<1> HIDE DEF w, k
<1>4. talk \in Seq(Message)
  BY <1>2, IsASeq
<1>5. Len(talk) = k
  BY <1>2, <1>4
<1> HIDE DEF talk
<1>6. from \in 1 .. Len(talk)
  BY <1>1, <1>2, <1>5
<1> HIDE DEF from
<1>7. last \in Seq(Message) /\ last # <<>>
  BY <1>4, <1>6, LastEntries
<1> HIDE DEF last
<1>8. item \in Seq(Item) /\ cited = {} /\ item' = item /\ status' = status
      /\ cited' = cited /\ step' = "exact" /\ status \in [Memories -> Statuses]
  BY DEF Ask, RecallInv, RecallTypeOK
<1>9. held \subseteq Nat
  BY <1>8, MemoriesFinite
<1>10. read' \in Read
  BY <1>1, <1>3, <1>7, <1>9 DEF Read, Reasons
<1>11. Memories' = Memories
  BY <1>8 DEF Memories
<1>12. RecallTypeOK'
  BY <1>8, <1>10, <1>11 DEF RecallTypeOK, RecallSteps
<1>13. \A m \in Memories' : Live(m)' => m \in read'.held
  BY <1>3, <1>8, <1>11 DEF Live
<1>14. read'.recent # <<>> /\ read'.found = {} /\ read'.hits = {}
  BY <1>3, <1>7
<1> QED BY <1>8, <1>12, <1>13, <1>14 DEF RecallInv, Built

\* The steps that read, and those that take memories away.
LEMMA ReadingKeepsRecall ==
  ASSUME RecallInv,
         \/ FindExact \/ SearchFails \/ Search \/ HitsChecked
         \/ \E m \in Memories : CheckHit(m) \/ SkipHit(m)
  PROVE  RecallInv'
<1>1. /\ item \in Seq(Item) /\ status \in [Memories -> Statuses] /\ read \in Read
      /\ step \in {"exact", "search", "check"} /\ cited = {}
      /\ read.recent # <<>> /\ read.found \subseteq read.held \cap Own /\ read.hits \subseteq Own
      /\ \A m \in Memories : Live(m) => m \in read.held
  BY DEF RecallInv, RecallTypeOK, FindExact, SearchFails, Search, HitsChecked, CheckHit, SkipHit
<1>2. /\ item' = item /\ status' = status /\ sent' = sent /\ cited' = cited
      /\ step' \in {"exact", "search", "check", "prompt"}
  BY DEF FindExact, SearchFails, Search, HitsChecked, CheckHit, SkipHit, RecallInv
<1>3. Memories' = Memories /\ Own' = Own /\ Own \subseteq Memories /\ Memories \subseteq Nat
  BY <1>1, <1>2, MemoriesFinite DEF Memories, Own
<1> DEFINE MoreRead == /\ read' \in Read /\ read'.recent = read.recent /\ read'.held = read.held
                       /\ read'.found \subseteq read.held \cap Own /\ read'.hits \subseteq Own
<1>4. MoreRead
  <2>1. CASE FindExact
    <3>1. PICK found \in SUBSET {m \in Own : Live(m)} : read' = [read EXCEPT !.found = found]
      BY <2>1 DEF FindExact
    <3>2. found \subseteq read.held \cap Own
      BY <1>1, <1>3
    <3> QED BY <1>1, <1>3, <3>1, <3>2 DEF Read
  <2>2. CASE SearchFails
    BY <1>1, <2>2 DEF SearchFails, Read, Reasons
  <2>3. CASE Search
    <3>1. PICK hits \in SUBSET Own : read' = [read EXCEPT !.hits = hits]
      BY <2>3 DEF Search
    <3> QED BY <1>1, <1>3, <3>1 DEF Read
  <2>4. CASE HitsChecked
    BY <1>1, <2>4 DEF HitsChecked
  <2>5. ASSUME NEW m \in Memories, CheckHit(m) PROVE MoreRead
    <3>1. /\ m \in read.hits
          /\ read' = [read EXCEPT !.hits = @ \ {m},
                                  !.found = IF StillActive(m) THEN @ \cup {m} ELSE @]
      BY <2>5 DEF CheckHit
    <3>2. StillActive(m) => m \in read.held \cap Own
      BY <1>1, <3>1 DEF StillActive
    <3> QED BY <1>1, <1>3, <3>1, <3>2 DEF Read
  <2>6. ASSUME NEW m \in Memories, SkipHit(m) PROVE MoreRead
    BY <1>1, <2>6 DEF SkipHit, Read
  <2> QED BY <2>1, <2>2, <2>3, <2>4, <2>5, <2>6
<1>5. RecallTypeOK'
  BY <1>1, <1>2, <1>3, <1>4 DEF RecallTypeOK, RecallSteps
<1>6. \A m \in Memories' : Live(m)' => m \in read'.held
  BY <1>1, <1>2, <1>3, <1>4 DEF Live
<1> QED BY <1>1, <1>2, <1>3, <1>4, <1>5, <1>6 DEF RecallInv, Built

LEMMA FailureKeepsRecall ==
  ASSUME RecallInv, RecallFails
  PROVE  RecallInv'
<1>1. /\ item \in Seq(Item) /\ status \in [Memories -> Statuses] /\ read \in Read
      /\ cited = {} /\ read.recent # <<>> /\ read.hits \subseteq Own
  BY DEF RecallInv, RecallTypeOK, RecallFails
<1>2. /\ item' = item /\ status' = status /\ cited' = cited /\ step' = "prompt"
      /\ read' = [read EXCEPT !.summary = 0, !.found = {}, !.reason = "context",
                              !.recent = <<[no |-> Last(read.recent).no,
                                            width |-> read.question]>>]
  BY DEF RecallFails
<1>3. Memories' = Memories /\ Own' = Own
  BY <1>2 DEF Memories, Own
<1> DEFINE alone == [no |-> Last(read.recent).no, width |-> read.question]
<1>4. alone \in Message
  <2>1. read.recent \in Seq(Message) /\ read.question \in Nat
    BY <1>1 DEF Read
  <2>2. Len(read.recent) \in 1 .. Len(read.recent)
    BY <1>1, <2>1, EmptySeq
  <2>3. Last(read.recent) \in Message
    BY <2>1, <2>2 DEF Last
  <2> QED BY <2>1, <2>3 DEF Message
<1> HIDE DEF alone
<1>5. <<alone>> \in Seq(Message) /\ <<alone>> # <<>>
  BY <1>4
<1>6. read' = [read EXCEPT !.summary = 0, !.found = {}, !.reason = "context", !.recent = <<alone>>]
  BY <1>2 DEF alone
<1>7. /\ read' \in Read /\ read'.recent # <<>> /\ read'.found = {} /\ read'.hits = read.hits
  BY <1>1, <1>5, <1>6 DEF Read, Reasons
<1>8. RecallTypeOK'
  BY <1>1, <1>2, <1>3, <1>7 DEF RecallTypeOK, RecallSteps
<1> QED BY <1>1, <1>2, <1>3, <1>7, <1>8 DEF RecallInv, Built

LEMMA WithdrawKeepsRecall ==
  ASSUME RecallInv, NEW m \in Memories, NEW how \in Statuses \ {"active"}, Withdraw(m, how)
  PROVE  RecallInv'
<1>1. /\ status \in [Memories -> Statuses] /\ cited = {} /\ step \in {"exact", "search", "check"}
      /\ \A n \in Memories : Live(n) => n \in read.held
  BY DEF RecallInv, RecallTypeOK, Withdraw
<1>2. /\ item' = item /\ step' = step /\ read' = read /\ sent' = sent /\ cited' = cited
      /\ status' = [status EXCEPT ![m] = how]
  BY DEF Withdraw
<1>3. Memories' = Memories /\ Own' = Own
  BY <1>2 DEF Memories, Own
<1>4. status' \in [Memories -> Statuses] /\ \A n \in Memories : Live(n)' => Live(n)
  BY <1>1, <1>2 DEF Live
<1>5. RecallTypeOK'
  BY <1>1, <1>2, <1>3, <1>4 DEF RecallTypeOK, RecallInv
<1>6. read.recent # <<>> /\ read.found \subseteq read.held \cap Own /\ read.hits \subseteq Own
  BY <1>1 DEF RecallInv
<1> QED BY <1>1, <1>2, <1>3, <1>4, <1>5, <1>6 DEF RecallInv, Built

LEMMA BuildPromptKeepsRecall ==
  ASSUME RecallInv, NEW risk \in RiskItems, BuildPrompt(risk)
  PROVE  RecallInv'
<1>1. /\ item \in Seq(Item) /\ status \in [Memories -> Statuses] /\ read \in Read /\ cited = {}
      /\ read.recent # <<>> /\ read.found \subseteq read.held \cap Own /\ read.hits \subseteq Own
  BY DEF RecallInv, RecallTypeOK, BuildPrompt
<1>2. /\ item' = item /\ status' = status /\ read' = read /\ cited' = cited /\ step' = "answer"
  BY DEF BuildPrompt
<1>3. Memories' = Memories /\ Own' = Own
  BY <1>2 DEF Memories, Own
<1>4. /\ sent'.payload \in Payload
      /\ sent'.offered \subseteq read.held \cap Own
      /\ \A m \in sent'.offered : ~ item[m].local
      /\ ToSet(sent'.payload.memories) \subseteq sent'.offered
      /\ ToSet(sent'.context.memories) \subseteq Distinct(read.found)
      /\ CutLast(item, sent'.context, sent'.payload, read)
  BY PromptFacts
<1>5. OneVoicePerText'
  BY <1>2, <1>4 DEF OneVoicePerText, Distinct, Outranks
<1>6. RecallTypeOK'
  BY <1>1, <1>2, <1>3, <1>4 DEF RecallTypeOK, RecallSteps
<1>7. Built'
  BY <1>2 DEF Built
<1> QED BY <1>1, <1>2, <1>3, <1>4, <1>5, <1>6, <1>7 DEF RecallInv

LEMMA AnswerKeepsRecall ==
  ASSUME RecallInv, NEW named \in SUBSET Memories, Answer(named)
  PROVE  RecallInv'
<1>1. Built /\ step = "answer"
  BY DEF Answer, Built
<1>2. /\ item' = item /\ status' = status /\ read' = read /\ sent' = sent /\ step' = "done"
      /\ cited' \subseteq named /\ cited' \subseteq sent.offered
  BY DEF Answer, Allowed
<1>3. Memories' = Memories /\ Own' = Own
  BY <1>2 DEF Memories, Own
<1>4. RecallTypeOK'
  BY <1>1, <1>2, <1>3 DEF RecallInv, RecallTypeOK, RecallSteps
<1>5. OneVoicePerText'
  BY <1>1, <1>2 DEF RecallInv, OneVoicePerText, Outranks
<1>6. /\ read.recent # <<>> /\ read.found \subseteq read.held \cap Own /\ read.hits \subseteq Own
      /\ sent.offered \subseteq read.held \cap Own
      /\ \A m \in sent.offered : ~ item[m].local
      /\ ToSet(sent.payload.memories) \subseteq sent.offered
      /\ CutLast(item, sent.context, sent.payload, read)
  BY <1>1 DEF RecallInv
<1> QED BY <1>2, <1>3, <1>4, <1>5, <1>6 DEF RecallInv, Built

LEMMA RecallStep == RecallInv /\ [RecallNext]_recallVars => RecallInv'
<1> SUFFICES ASSUME RecallInv, [RecallNext]_recallVars PROVE RecallInv'
  OBVIOUS
<1>1. CASE UNCHANGED recallVars
  <2>1. /\ item' = item /\ status' = status /\ step' = step /\ read' = read /\ sent' = sent
        /\ cited' = cited
    BY <1>1 DEF recallVars
  <2>2. Memories' = Memories /\ Own' = Own /\ (Built' <=> Built)
    BY <2>1 DEF Memories, Own, Built
  <2>3. RecallTypeOK'
    BY <2>1, <2>2 DEF RecallInv, RecallTypeOK
  <2>4. OneVoicePerText' <=> OneVoicePerText
    BY <2>1, <2>2 DEF OneVoicePerText, Outranks
  <2>5. \A m \in Memories : Live(m)' <=> Live(m)
    BY <2>1 DEF Live
  <2> QED BY <2>1, <2>2, <2>3, <2>4, <2>5 DEF RecallInv
<1>2. CASE RecallNext
  BY <1>2, AskKeepsRecall, ReadingKeepsRecall, FailureKeepsRecall, WithdrawKeepsRecall,
     BuildPromptKeepsRecall, AnswerKeepsRecall DEF RecallNext
<1> QED BY <1>1, <1>2

LEMMA RecallIsInvariant == RecallSpec => []RecallInv
<1>1. RecallInit => RecallInv
  BY RecallBegins
<1>2. RecallInv /\ [RecallNext]_recallVars => RecallInv'
  BY RecallStep
<1> QED BY <1>1, <1>2, PTL DEF RecallSpec

-----------------------------------------------------------------------------
(* The theorems.                                                           *)

\* The table, the reads of a recall and the prompt keep their types.
THEOREM RecallTypeCorrect == RecallSpec => []RecallTypeOK
<1>1. RecallInv => RecallTypeOK
  BY DEF RecallInv
<1> QED BY <1>1, RecallIsInvariant, PTL

\* Whatever the reads return and whichever memories are withdrawn between them:
\* what is sent or cited belongs to the asker, may leave, and was live at some
\* moment since the question (build_context, _prompt_memories, _allowed_citations).
THEOREM LiveMemoriesOnly == RecallSpec => []OnlyLiveMemoriesLeave
<1>1. RecallInv => OnlyLiveMemoriesLeave
  BY DEF RecallInv, OnlyLiveMemoriesLeave
<1> QED BY <1>1, RecallIsInvariant, PTL

\* Of the memories that carry a text, the one with the most authority, the newest
\* of equals, is recalled (_rank_and_deduplicate).
THEOREM OneVoice == RecallSpec => []OneVoicePerText
<1>1. RecallInv => OneVoicePerText
  <2>1. ~ Built => OneVoicePerText
    BY DEF OneVoicePerText
  <2> QED BY <2>1 DEF RecallInv
<1> QED BY <1>1, RecallIsInvariant, PTL

\* For every budget, clip and limit, a budget below the question included: a
\* recall that was read fits the budget, every prompt fits its limit, the last
\* message survives the budget, and the question is shortened only when messages,
\* memories and the summary are gone (_fit_budget, _bounded_json). The context of a
\* recall that failed is held to the second limit only, as in the code.
THEOREM QuestionComesLast == RecallSpec => []QuestionIsCutLast
<1>1. RecallInv => QuestionIsCutLast
  <2>1. CostIn(item, sent.context.memories) = Cost(sent.context.memories)
    BY DEF CostIn, Cost
  <2>2. SizeIn(item, sent.payload) = Size(sent.payload)
    BY DEF SizeIn, Size
  <2> QED BY <2>1, <2>2 DEF RecallInv, CutLast, QuestionIsCutLast
<1> QED BY <1>1, RecallIsInvariant, PTL

-----------------------------------------------------------------------------
(* The two orders of rows.                                                 *)

LEMMA RowsFinite ==
  ASSUME rows \in Seq(Row), NEW ids, ids \subseteq Ids
  PROVE  IsFiniteSet(ids) /\ Cardinality(ids) \in Nat /\ ids \subseteq Nat
<1>1. Len(rows) \in Nat /\ Ids = 1 .. Len(rows)
  BY DEF Ids
<1>2. IsFiniteSet(Ids)
  BY <1>1, FS_Interval
<1>3. IsFiniteSet(ids)
  BY <1>2, FS_Subset
<1>4. Ids \subseteq Nat
  BY <1>1
<1> QED BY <1>3, <1>4, FS_CardinalityType

LEMMA StampsAreNumbers ==
  ASSUME rows \in Seq(Row), NEW i \in Ids
  PROVE  i \in Nat /\ rows[i].at \in Nat
<1>1. Len(rows) \in Nat /\ Ids = 1 .. Len(rows)
  BY DEF Ids
<1>2. i \in Nat /\ i \in 1 .. Len(rows)
  BY <1>1
<1>3. rows[i] \in Row
  BY <1>2
<1> QED BY <1>2, <1>3 DEF Row

LEMMA AfterIsAnOrder ==
  ASSUME rows \in Seq(Row)
  PROVE  /\ \A i, j \in Ids : i # j => After(i, j) \/ After(j, i)
         /\ \A i, j \in Ids : ~ (After(i, j) /\ After(j, i))
         /\ \A i, j, k \in Ids : After(i, j) /\ After(j, k) => After(i, k)
<1>1. \A i \in Ids : i \in Nat /\ rows[i].at \in Nat
  BY StampsAreNumbers
<1> QED BY <1>1 DEF After

Newer(ids, i) == {j \in ids \ {i} : After(j, i)}

LEMMA NewerIsCounted ==
  ASSUME rows \in Seq(Row), NEW ids, ids \subseteq Ids, NEW i \in ids
  PROVE  /\ IsFiniteSet(Newer(ids, i))
         /\ Cardinality(Newer(ids, i)) \in 0 .. Cardinality(ids) - 1
<1>1. IsFiniteSet(ids) /\ Cardinality(ids) \in Nat
  BY RowsFinite
<1>2. IsFiniteSet(ids \ {i}) /\ Cardinality(ids \ {i}) = Cardinality(ids) - 1
  BY <1>1, FS_RemoveElement
<1>3. Newer(ids, i) \subseteq ids \ {i}
  BY DEF Newer
<1>4. /\ IsFiniteSet(Newer(ids, i)) /\ Cardinality(Newer(ids, i)) \in Nat
      /\ Cardinality(Newer(ids, i)) <= Cardinality(ids \ {i})
  BY <1>2, <1>3, FS_Subset, FS_CardinalityType
<1> QED BY <1>1, <1>2, <1>4

\* Of two rows the newer one has fewer before it.
LEMMA NewerHasFewer ==
  ASSUME rows \in Seq(Row), NEW ids, ids \subseteq Ids, NEW i \in ids, NEW j \in ids,
         After(i, j)
  PROVE  Cardinality(Newer(ids, i)) < Cardinality(Newer(ids, j))
<1> DEFINE a == Newer(ids, i)
           b == Newer(ids, j)
<1>1. i # j /\ ~ After(j, i)
  BY AfterIsAnOrder
<1>2. a \cup {i} \subseteq b /\ i \notin a
  BY <1>1, AfterIsAnOrder DEF Newer
<1>3. /\ IsFiniteSet(a) /\ Cardinality(a) \in Nat
      /\ IsFiniteSet(b) /\ Cardinality(b) \in Nat
  BY NewerIsCounted, FS_CardinalityType
<1> HIDE DEF a, b
<1>4. Cardinality(a \cup {i}) = Cardinality(a) + 1
  BY <1>2, <1>3, FS_AddElement
<1>5. Cardinality(a \cup {i}) <= Cardinality(b)
  BY <1>2, <1>3, FS_Subset
<1>6. Cardinality(a) < Cardinality(b)
  BY <1>3, <1>4, <1>5
<1> QED BY <1>6 DEF a, b

\* ORDER BY created_at DESC, id DESC has a row for every place.
LEMMA EveryAgeIsTaken ==
  ASSUME rows \in Seq(Row), NEW ids, ids \subseteq Ids, NEW n \in 1 .. Cardinality(ids)
  PROVE  \E i \in ids : Cardinality(Newer(ids, i)) = n - 1
<1> DEFINE places == 0 .. Cardinality(ids) - 1
           f      == [i \in ids |-> Cardinality(Newer(ids, i))]
<1>1. IsFiniteSet(ids) /\ Cardinality(ids) \in Nat
  BY RowsFinite
<1>2. f \in [ids -> places]
  BY NewerIsCounted
<1>3. \A i, j \in ids : i # j => f[i] # f[j]
  <2> SUFFICES ASSUME NEW i \in ids, NEW j \in ids, After(i, j) PROVE f[i] # f[j]
    <3>1. \A i, j \in ids : i # j => After(i, j) \/ After(j, i)
      BY AfterIsAnOrder
    <3> QED BY <3>1
  <2>1. f[i] < f[j]
    BY NewerHasFewer
  <2>2. f[i] \in Int /\ f[j] \in Int
    BY <1>1, <1>2
  <2> QED BY <2>1, <2>2
<1>4. f \in Injection(ids, places)
  BY <1>2, <1>3 DEF Injection, IsInjective
<1>5. IsFiniteSet(places) /\ Cardinality(places) = Cardinality(ids)
  <2>1. 0 \in Int /\ Cardinality(ids) - 1 \in Int
    BY <1>1
  <2>2. /\ IsFiniteSet(places)
        /\ Cardinality(places) = IF 0 > Cardinality(ids) - 1 THEN 0
                                 ELSE (Cardinality(ids) - 1) - 0 + 1
    BY <2>1, FS_Interval
  <2> HIDE DEF places
  <2> QED BY <2>2, <1>1
<1> HIDE DEF f, places
<1>6. f \in Surjection(ids, places)
  BY <1>4, <1>5, FS_Injection
<1>7. n - 1 \in places
  BY <1>1 DEF places
<1>8. PICK i \in ids : f[i] = n - 1
  BY <1>6, <1>7 DEF Surjection
<1> QED BY <1>8 DEF f

\* list_history returns rows of those it was asked for.
LEMMA HistoryIsOfTheRows ==
  ASSUME rows \in Seq(Row), NEW ids, ids \subseteq Ids, NEW limit \in Nat
  PROVE  LET history == ListHistory(ids, limit) IN
            /\ history \in Seq(Nat) /\ ToSet(history) \subseteq ids
            /\ ids # {} /\ limit # 0 => history # <<>>
            /\ history # <<>> => Newer(ids, Head(history)) = {}
<1> DEFINE n   == Cardinality(ids)
           all == IdsInOrder(ids, After)
           cut == IF Len(all) < limit THEN Len(all) ELSE limit
<1>1. IsFiniteSet(ids) /\ n \in Nat /\ ids \subseteq Nat /\ (ids # {} => n # 0)
  BY RowsFinite, FS_EmptySet
<1>2. all = [k \in 1 .. n |-> CHOOSE i \in ids : Cardinality(Newer(ids, i)) = k - 1]
  BY DEF IdsInOrder, Newer
<1> HIDE DEF n, all
<1>3. ASSUME NEW k \in 1 .. n PROVE all[k] \in ids /\ Cardinality(Newer(ids, all[k])) = k - 1
  <2>1. \E i \in ids : Cardinality(Newer(ids, i)) = k - 1
    BY EveryAgeIsTaken DEF n
  <2>2. all[k] = CHOOSE i \in ids : Cardinality(Newer(ids, i)) = k - 1
    BY <1>2
  <2> QED BY <2>1, <2>2
<1>4. all \in Seq(ids) /\ Len(all) = n
  <2>1. all \in Seq(ids)
    BY <1>1, <1>2, <1>3, IsASeq
  <2> QED BY <2>1, <1>1, <1>2
<1>5. cut \in 0 .. n
  BY <1>1, <1>4
<1>6. SubSeq(all, 1, cut) = [k \in 1 .. cut |-> all[k]]
  BY <1>4, <1>5
<1>7. ListHistory(ids, limit) = SubSeq(all, 1, cut)
  BY DEF ListHistory, all
<1> DEFINE history == ListHistory(ids, limit)
<1>8. history = [k \in 1 .. cut |-> all[k]]
  BY <1>6, <1>7
<1> HIDE DEF history
<1>c. cut \in Nat /\ \A k \in 1 .. cut : k \in 1 .. n
  BY <1>5, <1>1
<1>d. n # 0 /\ limit # 0 => cut # 0
  BY <1>4, <1>1
<1> HIDE DEF cut
<1>9. history \in Seq(ids) /\ Len(history) = cut
  <2>1. \A k \in 1 .. cut : all[k] \in ids
    BY <1>3, <1>c
  <2>2. history \in Seq(ids)
    BY <2>1, <1>c, <1>8, IsASeq
  <2> QED BY <2>2, <1>c, <1>8
<1>10. ToSet(history) \subseteq ids /\ history \in Seq(Nat)
  <2>1. \A k \in 1 .. Len(history) : history[k] \in ids
    BY <1>9
  <2>2. ToSet(history) \subseteq ids
    BY <2>1, <1>9 DEF ToSet
  <2>3. history \in Seq(Nat)
    BY <1>1, <1>9, SeqMonotonic
  <2> QED BY <2>2, <2>3
<1>11. ids # {} /\ limit # 0 => history # <<>>
  BY <1>1, <1>9, <1>d
<1>12. ASSUME history # <<>> PROVE Newer(ids, Head(history)) = {}
  <2>0. cut # 0
    BY <1>9, <1>12
  <2>1. 1 \in 1 .. cut /\ 1 \in 1 .. n
    BY <1>c, <2>0
  <2>2. Head(history) = all[1]
    BY <2>1, <1>8, <1>9, <1>12
  <2>3. Cardinality(Newer(ids, all[1])) = 0 /\ all[1] \in ids
    BY <2>1, <1>3
  <2> QED BY <2>2, <2>3, NewerIsCounted, FS_EmptySet
<1> QED BY <1>10, <1>11, <1>12 DEF history

\* There is a newest row by number.
LEMMA NewestByIdFacts ==
  ASSUME rows \in Seq(Row), NEW ids, ids \subseteq Ids, ids # {}
  PROVE  Max(ids) \in ids /\ \A i \in ids : i <= Max(ids)
<1> DEFINE Beyond(i) == {j \in ids : j > i}
           sets == {Beyond(i) : i \in ids}
<1>1. IsFiniteSet(ids) /\ ids \subseteq Nat
  BY RowsFinite
<1>2. sets \subseteq FiniteSubsetsOf(ids) /\ sets # {}
  <2>1. \A i \in ids : Beyond(i) \in SUBSET ids
    OBVIOUS
  <2> HIDE DEF Beyond
  <2>2. \A i \in ids : IsFiniteSet(Beyond(i))
    BY <2>1, <1>1, FS_Subset
  <2> QED BY <2>1, <2>2 DEF FiniteSubsetsOf
<1>3. PICK x \in sets : \A y \in sets : ~ (<<y, x>> \in StrictSubsetOrdering(ids))
  BY <1>2, FS_StrictSubsetOrderingWellFounded, WFMin
<1>4. PICK i \in ids : x = Beyond(i)
  OBVIOUS
<1>5. ASSUME NEW j \in ids PROVE i >= j
  <2> SUFFICES ASSUME j > i PROVE FALSE
    BY <1>1
  <2>1. Beyond(j) \in sets
    OBVIOUS
  <2>2. j \in Beyond(i) /\ j \notin Beyond(j) /\ \A k \in Beyond(j) : k \in Beyond(i)
    BY <1>1
  <2>3. Beyond(i) \subseteq ids /\ Beyond(j) \subseteq ids
    OBVIOUS
  <2> HIDE DEF Beyond
  <2>4. <<Beyond(j), x>> \in StrictSubsetOrdering(ids)
    BY <2>2, <2>3, <1>4 DEF StrictSubsetOrdering
  <2> QED BY <2>1, <2>4, <1>3
<1>6. \E k \in ids : \A j \in ids : k >= j
  BY <1>5
<1>7. Max(ids) \in ids /\ \A j \in ids : Max(ids) >= j
  BY <1>6 DEF Max
<1> QED BY <1>1, <1>7
-----------------------------------------------------------------------------
(* Types.                                                                  *)

LEMMA InitTypes ==
  ASSUME HistoryInit
  PROVE  HistoryTypeOK
<1>1. rows \in Seq(Row) /\ clock \in Nat
  BY DEF HistoryInit
<1>2. saver \in [Savers -> Row \cup {None}]
  BY DEF HistoryInit
<1> QED BY <1>1, <1>2 DEF HistoryInit, HistoryTypeOK

LEMMA BlankIsABoard ==
  ASSUME NEW version \in Versions
  PROVE  Blank(version) \in Boards
<1>1. [l \in Levels |-> 0] \in [Levels -> Nat] /\ <<>> \in Seq(Nat)
  OBVIOUS
<1> QED BY <1>1 DEF Blank, Boards

\* A step of a saver keeps the types.
LEMMA SaveTypes ==
  ASSUME HistoryTypeOK, NEW s \in Savers,
         (\E result \in Results : Stamp(s, result)) \/ Insert(s) \/ SaveFails(s)
  PROVE  HistoryTypeOK'
<1> USE DEF HistoryTypeOK
<1>1. CASE \E result \in Results : Stamp(s, result)
  <2>1. PICK result \in Results : Stamp(s, result)
    BY <1>1
  <2>2. [of |-> result, at |-> clock] \in Row
    BY RiskAssumption DEF Row
  <2>3. saver' \in [Savers -> Row \cup {None}]
    BY <2>1, <2>2 DEF Stamp
  <2>4. UNCHANGED <<rows, clock, board, raced>>
    BY <2>1 DEF Stamp
  <2> QED BY <2>3, <2>4 DEF Boards, Row
<1>2. CASE Insert(s)
  <2>1. saver[s] \in Row /\ saver[s].of.project \in Projects
    BY <1>2 DEF Insert, Row, Result
  <2>2. rows' \in Seq(Row)
    BY <1>2, <2>1, AppendProperties DEF Insert
  <2>3. saver' \in [Savers -> Row \cup {None}]
    BY <1>2 DEF Insert
  <2>4. board' = None \/ board' \in Boards
    <3>1. board # None => board' = [board EXCEPT !.moved = @ \cup {saver[s].of.project}]
      BY <1>2 DEF Insert
    <3>2. board = None => board' = None
      BY <1>2 DEF Insert
    <3>3. board # None => board \in Boards
      OBVIOUS
    <3>4. ASSUME board # None PROVE board' \in Boards
      <4> DEFINE more == board.moved \cup {saver[s].of.project}
      <4>1. board' = [board EXCEPT !.moved = more] /\ board \in Boards
        BY <3>4, <3>1, <3>3
      <4>2. more \in SUBSET Projects
        BY <4>1, <2>1 DEF Boards
      <4> HIDE DEF more
      <4> QED BY <4>1, <4>2 DEF Boards
    <3> QED BY <3>2, <3>4
  <2>5. raced' \subseteq Projects /\ clock' = clock
    BY <1>2, <2>1 DEF Insert
  <2> QED BY <2>2, <2>3, <2>4, <2>5 DEF Boards, Row
<1>3. CASE SaveFails(s)
  <2>1. saver' \in [Savers -> Row \cup {None}]
    BY <1>3 DEF SaveFails
  <2> QED BY <2>1, <1>3 DEF SaveFails, Boards, Row
<1> QED BY <1>1, <1>2, <1>3

\* A read of the dashboard keeps the types.
LEMMA ReadTypes ==
  ASSUME HistoryTypeOK,
         \/ \E version \in Versions : CountRows(version)
         \/ CountLevels \/ ReadRecent \/ ReadNewest \/ CountStale
  PROVE  HistoryTypeOK' /\ board' \in Boards
<1> USE DEF HistoryTypeOK
<1>1. ASSUME NEW version
      PROVE  InScope(version) \subseteq Nat /\ Cardinality(InScope(version)) \in Nat
  <2>1. InScope(version) \subseteq Ids
    BY DEF InScope
  <2> QED BY <2>1, RowsFinite
<1>2. CASE \E version \in Versions : CountRows(version)
  <2>1. PICK version \in Versions : CountRows(version)
    BY <1>2
  <2>2. board' = [Blank(version) EXCEPT !.counted = Cardinality(InScope(version))]
    BY <2>1 DEF CountRows
  <2>3. board' \in Boards
    <3>1. PICK b \in Boards, n \in Nat : board' = [b EXCEPT !.counted = n]
      BY <2>2, <1>1, BlankIsABoard
    <3> QED BY <3>1 DEF Boards
  <2> QED BY <2>1, <2>3 DEF CountRows, Row
<1>3. ASSUME board.step # "none" PROVE board \in Boards
  BY <1>3 DEF None
<1>4. CASE CountLevels
  <2>1. board \in Boards
    BY <1>3, <1>4 DEF CountLevels
  <2> DEFINE found == [l \in Levels |->
                 Cardinality({i \in InScope(board.version) : rows[i].of.level = l})]
  <2>2. found \in [Levels -> Nat]
    <3>1. \A l : {i \in InScope(board.version) : rows[i].of.level = l} \subseteq Ids
      BY DEF InScope
    <3> QED BY <3>1, RowsFinite
  <2>3. board' = [board EXCEPT !.step = "levels", !.levels = found]
    BY <1>4 DEF CountLevels
  <2> HIDE DEF found
  <2>4. board' \in Boards
    BY <2>1, <2>2, <2>3 DEF Boards
  <2> QED BY <1>4, <2>4 DEF CountLevels, Row
<1>5. CASE ReadRecent
  <2>1. board \in Boards
    BY <1>3, <1>5 DEF ReadRecent
  <2>2. ListHistory(Ids, RecentLimit) \in Seq(Nat)
    BY HistoryIsOfTheRows, RiskAssumption
  <2>3. board' = [board EXCEPT !.step = "recent", !.recent = ListHistory(Ids, RecentLimit)]
    BY <1>5 DEF ReadRecent
  <2>4. board' \in Boards
    BY <2>1, <2>2, <2>3 DEF Boards
  <2> QED BY <1>5, <2>4 DEF ReadRecent, Row
<1>6. CASE ReadNewest
  <2>1. board \in Boards
    BY <1>3, <1>6 DEF ReadNewest
  <2>2. LatestRows(board.version) \subseteq Nat
    BY <1>1 DEF LatestRows
  <2>3. board' = [board EXCEPT !.step = "latest", !.latest = LatestRows(board.version)]
    BY <1>6 DEF ReadNewest
  <2>4. board' \in Boards
    BY <2>1, <2>2, <2>3 DEF Boards
  <2> QED BY <1>6, <2>4 DEF ReadNewest, Row
<1>7. CASE CountStale
  <2>1. board \in Boards
    BY <1>3, <1>7 DEF CountStale
  <2> DEFINE old == {p \in Evaluated : rows[NewestById(p)].of.version # board.version}
  <2>2. old \subseteq Projects
    BY DEF Evaluated
  <2>3. board' = [board EXCEPT !.step = "done", !.stale = old]
    BY <1>7 DEF CountStale
  <2> HIDE DEF old
  <2>4. board' \in Boards
    BY <2>1, <2>2, <2>3 DEF Boards
  <2> QED BY <1>7, <2>4 DEF CountStale, Row
<1> QED BY <1>2, <1>4, <1>5, <1>6, <1>7

Saves == \E s \in Savers : (\E result \in Results : Stamp(s, result)) \/ Insert(s) \/ SaveFails(s)
Reads == \/ \E version \in Versions : CountRows(version)
         \/ CountLevels \/ ReadRecent \/ ReadNewest \/ CountStale

LEMMA StepTypes ==
  ASSUME HistoryTypeOK, [HistoryNext]_historyVars
  PROVE  HistoryTypeOK'
<1>1. CASE Tick
  BY <1>1 DEF Tick, HistoryTypeOK, Boards, Row
<1>2. CASE Saves
  BY <1>2, SaveTypes DEF Saves
<1>3. CASE Reads
  BY <1>3, ReadTypes DEF Reads
<1>4. CASE UNCHANGED historyVars
  BY <1>4 DEF historyVars, HistoryTypeOK, Boards, Row
<1> QED BY <1>1, <1>2, <1>3, <1>4 DEF HistoryNext, Saves, Reads

\* The rows, the stamped rows and the numbers of a dashboard request are what the
\* columns say: in particular a history is a sequence of row numbers.
THEOREM HistoryTypeCorrect == HistorySpec => []HistoryTypeOK
<1>1. HistoryInit => HistoryTypeOK
  BY InitTypes
<1>2. HistoryTypeOK /\ [HistoryNext]_historyVars => HistoryTypeOK'
  BY StepTypes
<1> QED BY <1>1, <1>2, PTL DEF HistorySpec
-----------------------------------------------------------------------------
(* Which row is the newest.                                                *)

\* The row that no row of the project is newer than is the one the latest result is
\* read from.
LEMMA NewestIsUnique ==
  ASSUME rows \in Seq(Row), NEW p, NEW i \in RowsOf(p),
         \A j \in RowsOf(p) \ {i} : After(i, j)
  PROVE  NewestByTime(p) = i
<1>1. RowsOf(p) \subseteq Ids
  BY DEF RowsOf
<1> DEFINE n == NewestByTime(p)
<1>2. n \in RowsOf(p) /\ \A j \in RowsOf(p) \ {n} : After(n, j)
  BY DEF NewestByTime
<1> HIDE DEF n
<1>3. \A j, k \in Ids : ~ (After(j, k) /\ After(k, j))
  BY AfterIsAnOrder
<1>4. n = i
  BY <1>1, <1>2, <1>3
<1> QED BY <1>4 DEF n

\* The head of the history of a project is its newest row.
LEMMA HeadIsNewest ==
  ASSUME rows \in Seq(Row), NEW p, RowsOf(p) # {}, NEW limit \in Nat, limit # 0
  PROVE  LET history == ListHistory(RowsOf(p), limit) IN
            /\ history \in Seq(Nat) /\ history # <<>>
            /\ ToSet(history) \subseteq RowsOf(p) /\ Head(history) \in ToSet(history)
            /\ Head(history) = NewestByTime(p)
<1> DEFINE history == ListHistory(RowsOf(p), limit)
<1>1. RowsOf(p) \subseteq Ids
  BY DEF RowsOf
<1>2. /\ history \in Seq(Nat) /\ history # <<>> /\ ToSet(history) \subseteq RowsOf(p)
      /\ Newer(RowsOf(p), Head(history)) = {}
  BY <1>1, HistoryIsOfTheRows
<1> HIDE DEF history
<1>3. Head(history) \in ToSet(history)
  <2>1. 1 \in DOMAIN history /\ Head(history) = history[1]
    BY <1>2
  <2> QED BY <2>1 DEF ToSet
<1>4. ASSUME NEW j \in RowsOf(p) \ {Head(history)} PROVE After(Head(history), j)
  <2>1. ~ After(j, Head(history))
    BY <1>2 DEF Newer
  <2>2. Head(history) \in Ids /\ j \in Ids /\ Head(history) # j
    BY <1>1, <1>2, <1>3
  <2> QED BY <2>1, <2>2, AfterIsAnOrder
<1>5. Head(history) = NewestByTime(p)
  BY <1>2, <1>3, <1>4, NewestIsUnique
<1> QED BY <1>2, <1>3, <1>5 DEF history

\* Of rows in the order of the chart the last one is newer than the others.
LEMMA LastOfChart ==
  ASSUME rows \in Seq(Row), NEW ids, ids \subseteq Ids, NEW i \in ids,
         \A j \in ids \ {i} : After(i, j)
  PROVE  Last(IdsInOrder(ids, LAMBDA j, k : After(k, j))) = i
<1> DEFINE n     == Cardinality(ids)
           Older(k) == {j \in ids \ {k} : After(k, j)}
           chart == IdsInOrder(ids, LAMBDA j, k : After(k, j))
<1>1. IsFiniteSet(ids) /\ n \in Nat /\ n # 0
  BY RowsFinite, FS_EmptySet
<1>2. chart = [m \in 1 .. n |-> CHOOSE k \in ids : Cardinality(Older(k)) = m - 1]
  BY DEF IdsInOrder
<1>3. \A k \in ids : IsFiniteSet(ids \ {k}) /\ Cardinality(ids \ {k}) = n - 1
  BY <1>1, FS_RemoveElement
<1>4. Older(i) = ids \ {i} /\ Cardinality(Older(i)) = n - 1
  <2>1. Older(i) = ids \ {i}
    OBVIOUS
  <2> QED BY <2>1, <1>3
<1>5. ASSUME NEW k \in ids, Cardinality(Older(k)) = n - 1 PROVE k = i
  <2>1. Older(k) \subseteq ids \ {k}
    OBVIOUS
  <2>2. Older(k) = ids \ {k}
    BY <2>1, <1>3, <1>5, FS_Subset
  <2>3. i # k => After(k, i) /\ After(i, k)
    BY <2>2
  <2>4. i \in Ids /\ k \in Ids
    OBVIOUS
  <2> QED BY <2>3, <2>4, AfterIsAnOrder
<1> HIDE DEF Older, chart, n
<1>6. chart[n] = CHOOSE k \in ids : Cardinality(Older(k)) = n - 1
  BY <1>1, <1>2
<1>7. chart[n] = i
  BY <1>4, <1>5, <1>6
<1>8. Len(chart) = n
  BY <1>1, <1>2
<1> QED BY <1>7, <1>8 DEF Last, chart

\* The stamps of saved rows and of pending ones follow the clock, and as long as
\* no row of a project overtook another, the order in which they were stamped.
Stamped == /\ \A i \in Ids : rows[i].at <= clock
           /\ \A s \in Savers : saver[s] # None => saver[s].at <= clock
InTheirOrder ==
    \A p \in Projects \ raced :
        /\ \A i, j \in RowsOf(p) : i <= j => rows[i].at <= rows[j].at
        /\ \A s \in Savers : saver[s] # None /\ saver[s].of.project = p =>
                \A i \in RowsOf(p) : rows[i].at <= saver[s].at
ReadersInv == HistoryTypeOK /\ Stamped /\ InTheirOrder

\* What an insert adds to the table.
LEMMA Inserted ==
  ASSUME HistoryTypeOK, NEW s \in Savers, Insert(s)
  PROVE  LET new == Len(rows) + 1
             p   == saver[s].of.project IN
            /\ Ids' = Ids \cup {new} /\ Ids \subseteq Nat /\ new \in Nat
            /\ \A i \in Ids : rows'[i] = rows[i] /\ i < new
            /\ rows'[new] = saver[s] /\ saver[s] \in Row /\ p \in Projects
            /\ \A q : RowsOf(q)' = IF q = p THEN RowsOf(q) \cup {new} ELSE RowsOf(q)
            /\ \A q : RowsOf(q) \subseteq Ids
<1> DEFINE new == Len(rows) + 1
           p   == saver[s].of.project
<1>1. saver[s] \in Row /\ p \in Projects
  BY DEF Insert, HistoryTypeOK, Row, Result
<1>2. rows \in Seq(Row) /\ rows' = Append(rows, saver[s]) /\ Len(rows) \in Nat
  BY DEF Insert, HistoryTypeOK
<1>3. /\ Len(rows') = new /\ rows'[new] = saver[s]
      /\ \A i \in 1 .. Len(rows) : rows'[i] = rows[i]
  BY <1>1, <1>2, AppendProperties
<1>4. Ids = 1 .. Len(rows) /\ Ids' = 1 .. Len(rows')
  BY DEF Ids
<1>5. /\ Ids' = Ids \cup {new} /\ new \notin Ids /\ Ids \subseteq Nat /\ new \in Nat
      /\ \A i \in Ids : i < new
  BY <1>2, <1>3, <1>4
<1>6. \A i \in Ids : rows'[i] = rows[i]
  BY <1>3, <1>4
<1> HIDE DEF new, p
<1>7. ASSUME NEW q
      PROVE  RowsOf(q)' = IF q = p THEN RowsOf(q) \cup {new} ELSE RowsOf(q)
  <2>1. RowsOf(q)' = {i \in Ids' : rows'[i].of.project = q}
    BY DEF RowsOf
  <2>2. RowsOf(q) = {i \in Ids : rows[i].of.project = q}
    BY DEF RowsOf
  <2>3. rows'[new].of.project = p
    BY <1>3 DEF p, new
  <2> QED BY <1>5, <1>6, <2>1, <2>2, <2>3
<1>8. \A q : RowsOf(q) \subseteq Ids
  BY DEF RowsOf
<1>9. rows'[new] = saver[s]
  BY <1>3 DEF new
<1> QED BY <1>1, <1>5, <1>6, <1>7, <1>8, <1>9 DEF new, p

\* Nothing else changes the table.
LEMMA TableKept ==
  ASSUME UNCHANGED rows
  PROVE  Ids' = Ids /\ \A p : RowsOf(p)' = RowsOf(p)
BY DEF Ids, RowsOf

LEMMA InsertKeepsTheOrder ==
  ASSUME ReadersInv, NEW s \in Savers, Insert(s)
  PROVE  (Stamped /\ InTheirOrder)'
<1> DEFINE new == Len(rows) + 1
           p   == saver[s].of.project
<1>1. /\ Ids' = Ids \cup {new} /\ Ids \subseteq Nat /\ new \in Nat
      /\ \A i \in Ids : rows'[i] = rows[i] /\ i < new
      /\ rows'[new] = saver[s] /\ saver[s] \in Row /\ p \in Projects
      /\ \A q : RowsOf(q)' = IF q = p THEN RowsOf(q) \cup {new} ELSE RowsOf(q)
      /\ \A q : RowsOf(q) \subseteq Ids
  BY Inserted DEF ReadersInv
<1>2. PICK n, q : n = new /\ q = p
  OBVIOUS
<1>3. /\ saver[s] # None /\ clock' = clock
      /\ saver' = [saver EXCEPT ![s] = None] /\ DOMAIN saver = Savers
      /\ raced' = raced \cup {r \in {q} : \E t \in Savers \ {s} :
                                 saver[t] # None /\ saver[t].of.project = q}
  BY <1>2 DEF Insert, ReadersInv, HistoryTypeOK
<1>4. /\ Ids' = Ids \cup {n} /\ Ids \subseteq Nat /\ n \in Nat
      /\ \A i \in Ids : rows'[i] = rows[i] /\ i < n
      /\ rows'[n] = saver[s] /\ saver[s] \in Row /\ q \in Projects
      /\ saver[s].of.project = q
      /\ \A r : RowsOf(r)' = IF r = q THEN RowsOf(r) \cup {n} ELSE RowsOf(r)
      /\ \A r : RowsOf(r) \subseteq Ids
  BY <1>1, <1>2
<1> HIDE DEF new, p
<1>5. \A t \in Savers : saver'[t] = IF t = s THEN None ELSE saver[t]
  BY <1>3
<1>6. Stamped'
  <2>1. \A i \in Ids' : rows'[i].at <= clock'
    BY <1>3, <1>4 DEF ReadersInv, Stamped
  <2>2. \A t \in Savers : saver'[t] # None => saver'[t].at <= clock'
    BY <1>3, <1>5 DEF ReadersInv, Stamped
  <2> QED BY <2>1, <2>2 DEF Stamped
<1>7. ASSUME NEW r \in Projects \ raced'
      PROVE  /\ \A i, j \in RowsOf(r)' : i <= j => rows'[i].at <= rows'[j].at
             /\ \A t \in Savers : saver'[t] # None /\ saver'[t].of.project = r =>
                    \A i \in RowsOf(r)' : rows'[i].at <= saver'[t].at
  <2>1. /\ r \in Projects \ raced
        /\ r = q => \A t \in Savers \ {s} : saver[t] = None \/ saver[t].of.project # q
    BY <1>3, <1>7
  <2>2. /\ \A i, j \in RowsOf(r) : i <= j => rows[i].at <= rows[j].at
        /\ \A t \in Savers : saver[t] # None /\ saver[t].of.project = r =>
                \A i \in RowsOf(r) : rows[i].at <= saver[t].at
    BY <2>1 DEF ReadersInv, InTheirOrder
  <2>3. \A i \in RowsOf(r) : rows'[i] = rows[i] /\ i \in Nat /\ i < n
    BY <1>4
  <2>4. CASE r = q
    <3>1. \A i \in RowsOf(r) : rows[i].at <= saver[s].at
      BY <2>2, <2>4, <1>3, <1>4
    <3>2. RowsOf(r)' = RowsOf(r) \cup {n}
      BY <1>4, <2>4
    <3>3. saver[s].at \in Nat
      BY <1>4 DEF Row
    <3>4. ASSUME NEW i \in RowsOf(r)', NEW j \in RowsOf(r)', i <= j
          PROVE  rows'[i].at <= rows'[j].at
      <4>1. CASE j \in RowsOf(r)
        <5>1. i \in RowsOf(r)
          BY <3>2, <3>4, <4>1, <2>3, <1>4
        <5> QED BY <5>1, <4>1, <3>4, <2>2, <2>3
      <4>2. CASE j = n
        <5>1. CASE i = n
          BY <5>1, <4>2, <3>3, <1>4
        <5>2. CASE i \in RowsOf(r)
          BY <5>2, <4>2, <3>1, <2>3, <1>4
        <5> QED BY <5>1, <5>2, <3>2
      <4> QED BY <4>1, <4>2, <3>2
    <3>5. \A t \in Savers : saver'[t] = None \/ saver'[t].of.project # r
      BY <2>1, <2>4, <1>5
    <3> QED BY <3>4, <3>5
  <2>5. CASE r # q
    <3>1. RowsOf(r)' = RowsOf(r)
      BY <1>4, <2>5
    <3> QED BY <3>1, <2>2, <2>3, <1>5
  <2> QED BY <2>4, <2>5
<1> QED BY <1>6, <1>7 DEF InTheirOrder

LEMMA StepKeepsTheOrder ==
  ASSUME ReadersInv, [HistoryNext]_historyVars
  PROVE  ReadersInv'
<1>1. HistoryTypeOK'
  BY StepTypes DEF ReadersInv
<1>2. CASE Tick
  <2>1. UNCHANGED <<rows, saver, raced>> /\ clock' = clock + 1
    BY <1>2 DEF Tick
  <2>2. Ids' = Ids /\ \A p : RowsOf(p)' = RowsOf(p)
    BY <2>1, TableKept
  <2>3. /\ \A i \in Ids : rows[i].at <= clock + 1
        /\ \A s \in Savers : saver[s] # None => saver[s].at <= clock + 1
    <3>1. \A i \in Ids : rows[i].at \in Nat
      BY StampsAreNumbers DEF ReadersInv, HistoryTypeOK
    <3>2. \A s \in Savers : saver[s] # None => saver[s].at \in Nat
      BY DEF ReadersInv, HistoryTypeOK, Row
    <3>3. clock \in Nat
      BY DEF ReadersInv, HistoryTypeOK
    <3> QED BY <3>1, <3>2, <3>3 DEF ReadersInv, Stamped
  <2>4. Stamped'
    BY <2>1, <2>2, <2>3 DEF Stamped
  <2>5. InTheirOrder'
    BY <2>1, <2>2 DEF ReadersInv, InTheirOrder
  <2> QED BY <1>1, <2>4, <2>5 DEF ReadersInv
<1>3. ASSUME NEW s \in Savers, NEW result \in Results, Stamp(s, result) PROVE ReadersInv'
  <2>1. /\ UNCHANGED <<rows, clock, raced>> /\ DOMAIN saver = Savers
        /\ saver' = [saver EXCEPT ![s] = [of |-> result, at |-> clock]]
    BY <1>3 DEF Stamp, ReadersInv, HistoryTypeOK
  <2>2. Ids' = Ids /\ \A p : RowsOf(p)' = RowsOf(p)
    BY <2>1, TableKept
  <2>3. \A t \in Savers : /\ t # s => saver'[t] = saver[t]
                          /\ t = s => saver'[t].at = clock
    BY <2>1
  <2>4. clock \in Nat /\ clock <= clock
    BY DEF ReadersInv, HistoryTypeOK
  <2>5. Stamped'
    BY <2>1, <2>2, <2>3, <2>4 DEF ReadersInv, Stamped
  <2>6. \A p : RowsOf(p) \subseteq Ids
    BY DEF RowsOf
  <2>7. InTheirOrder'
    <3> SUFFICES ASSUME NEW p \in Projects \ raced
                 PROVE  /\ \A i, j \in RowsOf(p) : i <= j => rows[i].at <= rows[j].at
                        /\ \A t \in Savers : saver'[t] # None /\ saver'[t].of.project = p =>
                              \A i \in RowsOf(p) : rows[i].at <= saver'[t].at
      BY <2>1, <2>2 DEF InTheirOrder
    <3>1. \A i \in RowsOf(p) : rows[i].at <= clock
      BY <2>6 DEF ReadersInv, Stamped
    <3> QED BY <3>1, <2>3 DEF ReadersInv, InTheirOrder
  <2> QED BY <1>1, <2>5, <2>7 DEF ReadersInv
<1>4. ASSUME NEW s \in Savers, Insert(s) PROVE ReadersInv'
  BY <1>1, <1>4, InsertKeepsTheOrder DEF ReadersInv
<1>5. ASSUME NEW s \in Savers, SaveFails(s) PROVE ReadersInv'
  <2>1. /\ UNCHANGED <<rows, clock, raced>>
        /\ \A t \in Savers : saver'[t] = saver[t] \/ saver'[t] = None
    BY <1>5 DEF SaveFails, ReadersInv, HistoryTypeOK
  <2>2. Ids' = Ids /\ \A p : RowsOf(p)' = RowsOf(p)
    BY <2>1, TableKept
  <2>3. Stamped'
    BY <2>1, <2>2 DEF ReadersInv, Stamped
  <2>4. InTheirOrder'
    BY <2>1, <2>2 DEF ReadersInv, InTheirOrder
  <2> QED BY <1>1, <2>3, <2>4 DEF ReadersInv
<1>6. CASE Reads \/ UNCHANGED historyVars
  <2>1. UNCHANGED <<rows, clock, saver, raced>>
    BY <1>6 DEF Reads, CountRows, CountLevels, ReadRecent, ReadNewest, CountStale, historyVars
  <2>2. Ids' = Ids /\ \A p : RowsOf(p)' = RowsOf(p)
    BY <2>1, TableKept
  <2>3. Stamped'
    BY <2>1, <2>2 DEF ReadersInv, Stamped
  <2>4. InTheirOrder'
    BY <2>1, <2>2 DEF ReadersInv, InTheirOrder
  <2> QED BY <1>1, <2>3, <2>4 DEF ReadersInv
<1> QED BY <1>2, <1>3, <1>4, <1>5, <1>6 DEF HistoryNext, Reads

\* Unless rows of a project overtook each other, the highest number is the newest.
LEMMA NewestByIdIsNewest ==
  ASSUME ReadersInv, NEW p \in Evaluated, p \notin raced
  PROVE  NewestById(p) = NewestByTime(p)
<1>1. RowsOf(p) \subseteq Ids /\ RowsOf(p) # {} /\ p \in Projects /\ rows \in Seq(Row)
  BY DEF Evaluated, RowsOf, ReadersInv, HistoryTypeOK
<1>2. /\ NewestById(p) \in RowsOf(p)
      /\ \A i \in RowsOf(p) : i <= NewestById(p)
  BY <1>1, NewestByIdFacts DEF NewestById
<1>3. \A i \in RowsOf(p) : rows[i].at <= rows[NewestById(p)].at
  BY <1>1, <1>2 DEF ReadersInv, InTheirOrder
<1>4. \A i \in RowsOf(p) : i \in Nat /\ rows[i].at \in Nat
  BY <1>1, StampsAreNumbers
<1>5. \A i \in RowsOf(p) \ {NewestById(p)} : After(NewestById(p), i)
  <2> HIDE DEF NewestById
  <2> QED BY <1>2, <1>3, <1>4 DEF After
<1> QED BY <1>1, <1>2, <1>5, NewestIsUnique

\* The latest result, the end of the chart and, unless two saves of the project
\* overtook each other, the row the dashboard counts are one row, whatever the limit.
THEOREM OneNewestRow == HistorySpec => []ReadersAgree
<1>1. HistoryInit => ReadersInv
  <2> SUFFICES ASSUME HistoryInit PROVE ReadersInv
    OBVIOUS
  <2>1. Ids = {} /\ \A s \in Savers : saver[s] = None
    BY DEF HistoryInit, Ids
  <2>2. Stamped /\ InTheirOrder
    BY <2>1 DEF Stamped, InTheirOrder, RowsOf
  <2> QED BY <2>2, InitTypes DEF ReadersInv
<1>2. ReadersInv /\ [HistoryNext]_historyVars => ReadersInv'
  BY StepKeepsTheOrder
<1>3. ReadersInv => ReadersAgree
  <2> SUFFICES ASSUME ReadersInv, NEW p \in Evaluated, NEW limit \in 1 .. MaxRows
               PROVE  /\ RiskSummary(p, limit).latest = NewestByTime(p)
                      /\ Last(RiskSummary(p, limit).points) = NewestByTime(p)
                      /\ p \notin raced => NewestById(p) = NewestByTime(p)
    BY DEF ReadersAgree
  <2> DEFINE history == ListHistory(RowsOf(p), limit)
             chart   == IdsInOrder(ToSet(history), LAMBDA i, j : After(j, i))
             new     == NewestByTime(p)
  <2>1. RowsOf(p) # {} /\ RowsOf(p) \subseteq Ids /\ rows \in Seq(Row)
    BY DEF Evaluated, RowsOf, ReadersInv, HistoryTypeOK
  <2>2. limit \in Nat /\ limit # 0
    BY RiskAssumption
  <2>3. /\ ToSet(history) \subseteq RowsOf(p) /\ Head(history) \in ToSet(history)
        /\ Head(history) = new
    BY <2>1, <2>2, HeadIsNewest
  <2>4. RiskSummary(p, limit) = [latest |-> Head(history), points |-> chart]
    BY DEF RiskSummary
  <2> HIDE DEF history
  <2>5. \A j \in RowsOf(p) \ {new} : After(new, j)
    <3>1. \E i \in RowsOf(p) : \A j \in RowsOf(p) \ {i} : After(i, j)
      <4>1. \A i, j \in Ids : i # j => After(i, j) \/ After(j, i)
        BY <2>1, AfterIsAnOrder
      <4>2. PICK i \in RowsOf(p) : Cardinality(Newer(RowsOf(p), i)) = 0
        <5>1. Cardinality(RowsOf(p)) \in Nat /\ Cardinality(RowsOf(p)) # 0
          BY <2>1, RowsFinite, FS_EmptySet
        <5>2. 1 \in 1 .. Cardinality(RowsOf(p)) /\ 1 - 1 = 0
          BY <5>1
        <5> QED BY <5>2, <2>1, EveryAgeIsTaken
      <4>3. Newer(RowsOf(p), i) = {}
        BY <4>2, <2>1, NewerIsCounted, FS_EmptySet
      <4> QED BY <4>1, <4>3, <2>1 DEF Newer
    <3> QED BY <3>1 DEF NewestByTime
  <2> HIDE DEF new
  <2>6. Last(chart) = new
    <3>1. ToSet(history) \subseteq Ids /\ new \in ToSet(history)
      BY <2>1, <2>3
    <3>2. \A j \in ToSet(history) \ {new} : After(new, j)
      BY <2>3, <2>5
    <3> QED BY <3>1, <3>2, <2>1, LastOfChart
  <2>7. p \notin raced => NewestById(p) = NewestByTime(p)
    BY NewestByIdIsNewest
  <2> HIDE DEF chart
  <2>8. /\ RiskSummary(p, limit).latest = new
        /\ Last(RiskSummary(p, limit).points) = new
    BY <2>3, <2>4, <2>6
  <2> QED BY <2>7, <2>8 DEF new
<1> QED BY <1>1, <1>2, <1>3, PTL DEF HistorySpec
-----------------------------------------------------------------------------
(* What the dashboard has read so far.                                     *)

OfLevel(version, l) == {i \in InScope(version) : rows[i].of.level = l}
Superseded(p, version) == rows[NewestById(p)].of.version # version

\* Up to where the request has come, its numbers are those of the table now: of
\* each project that was left alone, and all of them if every one was.
Counted == board.step # "none" /\ board.moved = {} =>
    board.counted = Cardinality(InScope(board.version))
LevelsCounted == board.step \in {"levels", "recent", "latest", "done"} /\ board.moved = {} =>
    board.levels = [l \in Levels |-> Cardinality(OfLevel(board.version, l))]
LatestRead == board.step \in {"latest", "done"} =>
    /\ \A p \in Evaluated \ board.moved :
            (RowsOf(p) \cap board.latest = {}) = Superseded(p, board.version)
    /\ board.moved = {} => board.latest = LatestRows(board.version)
StaleCounted == board.step = "done" =>
    /\ \A p \in Evaluated \ board.moved : (p \in board.stale) = Superseded(p, board.version)
    /\ board.moved = {} => board.stale = {p \in Evaluated : Superseded(p, board.version)}
BoardInv == HistoryTypeOK /\ Counted /\ LevelsCounted /\ LatestRead /\ StaleCounted

\* Every evaluated project has its newest row, and no two have the same.
LEMMA EachHasItsNewest ==
  ASSUME rows \in Seq(Row), NEW p \in Evaluated
  PROVE  /\ NewestById(p) \in RowsOf(p) /\ NewestById(p) \in Ids
         /\ rows[NewestById(p)].of.project = p
<1>1. RowsOf(p) \subseteq Ids /\ RowsOf(p) # {}
  BY DEF Evaluated, RowsOf
<1>2. NewestById(p) \in RowsOf(p)
  BY <1>1, NewestByIdFacts DEF NewestById
<1> QED BY <1>1, <1>2 DEF RowsOf

\* A project has a row among the latest ones of a version unless its newest row is
\* of another.
LEMMA OneOfTwoCounts ==
  ASSUME rows \in Seq(Row), NEW version, NEW p \in Evaluated
  PROVE  (RowsOf(p) \cap LatestRows(version) = {}) = Superseded(p, version)
<1>1. LatestRows(version) = {i \in {NewestById(q) : q \in Evaluated} :
                                i \in Ids /\ rows[i].of.version = version}
  BY DEF LatestRows, InScope
<1>2. /\ NewestById(p) \in RowsOf(p) /\ NewestById(p) \in Ids
  BY EachHasItsNewest
<1>3. ASSUME NEW i \in RowsOf(p) \cap LatestRows(version) PROVE i = NewestById(p)
  <2>1. PICK q \in Evaluated : i = NewestById(q)
    BY <1>1, <1>3
  <2>2. rows[i].of.project = q
    BY <2>1, EachHasItsNewest
  <2>3. rows[i].of.project = p
    BY <1>3 DEF RowsOf
  <2> QED BY <2>1, <2>2, <2>3
<1>4. CASE rows[NewestById(p)].of.version = version
  <2>1. NewestById(p) \in RowsOf(p) \cap LatestRows(version)
    BY <1>1, <1>2, <1>4
  <2>2. ~ Superseded(p, version) /\ Superseded(p, version) \in BOOLEAN
    BY <1>4 DEF Superseded
  <2> QED BY <2>1, <2>2
<1>5. CASE rows[NewestById(p)].of.version # version
  <2>1. RowsOf(p) \cap LatestRows(version) = {}
    BY <1>1, <1>3, <1>5
  <2>2. Superseded(p, version)
    BY <1>5 DEF Superseded
  <2> QED BY <2>1, <2>2, <1>5 DEF Superseded
<1> QED BY <1>4, <1>5

LEMMA EvaluatedFinite ==
  ASSUME rows \in Seq(Row)
  PROVE  IsFiniteSet(Evaluated)
<1> DEFINE f == [i \in Ids |-> rows[i].of.project]
<1>1. IsFiniteSet(Ids)
  BY RowsFinite
<1>2. f \in Surjection(Ids, {f[i] : i \in Ids})
  BY DEF Surjection
<1>3. IsFiniteSet({f[i] : i \in Ids})
  BY <1>1, <1>2, FS_Surjection
<1>4. Evaluated \subseteq {f[i] : i \in Ids}
  <2> SUFFICES ASSUME NEW p \in Evaluated PROVE \E i \in Ids : f[i] = p
    OBVIOUS
  <2> QED BY EachHasItsNewest
<1> QED BY <1>3, <1>4, FS_Subset

\* The latest rows of a version and the superseded projects are as many as there are
\* evaluated projects.
LEMMA CountsAddUp ==
  ASSUME rows \in Seq(Row), NEW version
  PROVE  Cardinality(LatestRows(version)) + Cardinality({p \in Evaluated : Superseded(p, version)})
            = Cardinality(Evaluated)
<1> DEFINE stale   == {p \in Evaluated : Superseded(p, version)}
           current == Evaluated \ stale
           f       == [p \in current |-> NewestById(p)]
           newest  == LatestRows(version)
<1>1. f \in Bijection(current, newest)
  <2>1. \A p \in current : f[p] = NewestById(p) /\ rows[f[p]].of.project = p
    BY EachHasItsNewest
  <2>2. \A p \in current : f[p] \in newest
    BY EachHasItsNewest DEF LatestRows, InScope, Superseded
  <2>3. ASSUME NEW i \in newest PROVE \E p \in current : f[p] = i
    <3>1. PICK p \in Evaluated : i = NewestById(p) /\ i \in InScope(version)
      BY <2>3 DEF LatestRows
    <3>2. p \in current
      BY <3>1 DEF InScope, Superseded
    <3> QED BY <3>1, <3>2
  <2> HIDE DEF current, newest
  <2>4. f \in [current -> newest]
    BY <2>2
  <2>5. f \in Injection(current, newest)
    <3>1. \A p, q \in current : f[p] = f[q] => p = q
      BY <2>1
    <3> HIDE DEF f
    <3> QED BY <3>1, <2>4 DEF Injection, IsInjective
  <2>6. f \in Surjection(current, newest)
    BY <2>3, <2>4 DEF Surjection
  <2> QED BY <2>5, <2>6 DEF Bijection
<1>2. IsFiniteSet(Evaluated)
  BY EvaluatedFinite
<1>3. /\ IsFiniteSet(current) /\ Evaluated \cap stale = stale /\ stale \subseteq Evaluated
      /\ Cardinality(current) = Cardinality(Evaluated) - Cardinality(stale)
  <2>1. Evaluated \cap stale = stale /\ stale \subseteq Evaluated
    OBVIOUS
  <2> HIDE DEF stale
  <2>2. /\ IsFiniteSet(Evaluated \ stale)
        /\ Cardinality(Evaluated \ stale) = Cardinality(Evaluated) - Cardinality(Evaluated \cap stale)
    BY <1>2, FS_Difference
  <2> QED BY <2>1, <2>2
<1> HIDE DEF stale, current, f, newest
<1>4. Cardinality(newest) = Cardinality(current)
  <2>1. ExistsBijection(current, newest)
    BY <1>1 DEF ExistsBijection
  <2> QED BY <2>1, <1>3, FS_Bijection
<1>5. Cardinality(Evaluated) \in Nat /\ Cardinality(stale) \in Nat
  BY <1>2, <1>3, FS_Subset, FS_CardinalityType
<1>6. Cardinality(newest) + Cardinality(stale) = Cardinality(Evaluated)
  BY <1>3, <1>4, <1>5
<1> QED BY <1>6 DEF newest, stale

\* The levels of the rows of a version add up to the rows.
LEMMA LevelsAddUp ==
  ASSUME rows \in Seq(Row), NEW version
  PROVE  SumFunction([l \in Levels |-> Cardinality(OfLevel(version, l))])
            = Cardinality(InScope(version))
<1> DEFINE S == InScope(version)
           f == [i \in S |-> rows[i].of.level]
<1>1. S \subseteq Ids
  BY DEF InScope
<1>2. IsFiniteSet(S) /\ IsFiniteSet(Levels)
  BY <1>1, RowsFinite, RiskAssumption
<1>3. \A i \in S : f[i] \in Levels
  <2> SUFFICES ASSUME NEW i \in S PROVE rows[i].of.level \in Levels
    OBVIOUS
  <2>1. rows[i] \in Row
    BY <1>1 DEF Ids
  <2> QED BY <2>1 DEF Row, Result
<1>4. \A l \in Levels : OfLevel(version, l) = {i \in S : f[i] = l}
  BY DEF OfLevel
<1>5. [l \in Levels |-> Cardinality(OfLevel(version, l))]
        = [l \in Levels |-> Cardinality({i \in S : f[i] = l})]
  BY <1>4
<1> HIDE DEF f, S
<1>6. SumFunction([l \in Levels |-> Cardinality({i \in S : f[i] = l})]) = Cardinality(S)
  BY <1>2, <1>3, SumOfCounts
<1> QED BY <1>5, <1>6 DEF S

LEMMA InsertKeepsTheBoard ==
  ASSUME BoardInv, NEW s \in Savers, Insert(s)
  PROVE  (Counted /\ LevelsCounted /\ LatestRead /\ StaleCounted)'
<1>1. CASE board = None
  <2>1. board' = None /\ None.step = "none"
    BY <1>1 DEF Insert, None
  <2> QED BY <2>1 DEF Counted, LevelsCounted, LatestRead, StaleCounted
<1>2. CASE board # None
  <2>1. PICK n, p : n = Len(rows) + 1 /\ p = saver[s].of.project
    OBVIOUS
  <2>2. /\ Ids' = Ids \cup {n}
        /\ \A i \in Ids : rows'[i] = rows[i]
        /\ \A q : RowsOf(q)' = IF q = p THEN RowsOf(q) \cup {n} ELSE RowsOf(q)
        /\ \A q : RowsOf(q) \subseteq Ids
    BY <2>1, Inserted DEF BoardInv
  <2>3. board \in Boards /\ board' = [board EXCEPT !.moved = @ \cup {p}] /\ rows \in Seq(Row)
    BY <1>2, <2>1 DEF Insert, BoardInv, HistoryTypeOK
  <2>4. /\ board'.moved = board.moved \cup {p} /\ board'.step = board.step
        /\ board'.version = board.version /\ board'.latest = board.latest
        /\ board'.stale = board.stale
    BY <2>3 DEF Boards
  <2>5. ASSUME NEW q \in Evaluated' \ board'.moved
        PROVE  /\ q \in Evaluated \ board.moved /\ RowsOf(q)' = RowsOf(q)
               /\ Superseded(q, board.version)' = Superseded(q, board.version)
    <3>1. q # p /\ q \notin board.moved
      BY <2>4, <2>5
    <3>2. RowsOf(q)' = RowsOf(q)
      BY <2>2, <3>1
    <3>3. q \in Evaluated
      BY <2>5, <3>2 DEF Evaluated
    <3>4. NewestById(q) \in Ids
      BY <2>3, <3>3, EachHasItsNewest
    <3>5. NewestById(q)' = NewestById(q)
      BY <3>2 DEF NewestById
    <3>6. rows'[NewestById(q)] = rows[NewestById(q)]
      BY <2>2, <3>4
    <3> QED BY <2>4, <3>1, <3>2, <3>3, <3>5, <3>6 DEF Superseded
  <2>6. board'.moved # {}
    BY <2>4
  <2>7. (Counted /\ LevelsCounted)'
    BY <2>6 DEF Counted, LevelsCounted
  <2>8. ASSUME board'.step \in {"latest", "done"}, NEW q \in Evaluated' \ board'.moved
        PROVE  (RowsOf(q)' \cap board'.latest = {}) = Superseded(q, board.version)'
    BY <2>4, <2>5, <2>8 DEF BoardInv, LatestRead
  <2>9. ASSUME board'.step = "done", NEW q \in Evaluated' \ board'.moved
        PROVE  (q \in board'.stale) = Superseded(q, board.version)'
    BY <2>4, <2>5, <2>9 DEF BoardInv, StaleCounted
  <2>10. LatestRead'
    BY <2>6, <2>8 DEF LatestRead
  <2>11. StaleCounted'
    BY <2>6, <2>9 DEF StaleCounted
  <2> QED BY <2>7, <2>10, <2>11
<1> QED BY <1>1, <1>2

\* What is said of the table stays as long as the table does.
LEMMA TableSaysTheSame ==
  ASSUME UNCHANGED rows
  PROVE  /\ Evaluated' = Evaluated
         /\ \A p : RowsOf(p)' = RowsOf(p)
         /\ \A v : /\ InScope(v)' = InScope(v)
                   /\ LatestRows(v)' = LatestRows(v)
                   /\ \A l : OfLevel(v, l)' = OfLevel(v, l)
                   /\ \A p : Superseded(p, v)' = Superseded(p, v)
<1>1. Ids' = Ids /\ \A p : RowsOf(p)' = RowsOf(p)
  BY TableKept
<1>2. Evaluated' = Evaluated
  BY <1>1 DEF Evaluated
<1>3. \A p : NewestById(p)' = NewestById(p)
  BY <1>1 DEF NewestById
<1>4. \A v : InScope(v)' = InScope(v)
  BY <1>1 DEF InScope
<1>5. \A v : LatestRows(v)' = LatestRows(v)
  BY <1>2, <1>3, <1>4 DEF LatestRows
<1>6. \A v, l : OfLevel(v, l)' = OfLevel(v, l)
  BY <1>4 DEF OfLevel
<1>7. \A v, p : Superseded(p, v)' = Superseded(p, v)
  BY <1>3 DEF Superseded
<1> QED BY <1>1, <1>2, <1>4, <1>5, <1>6, <1>7

LEMMA ReadsKeepTheBoard ==
  ASSUME BoardInv, Reads
  PROVE  BoardInv'
<1>1. HistoryTypeOK' /\ board' \in Boards
  BY ReadTypes DEF BoardInv, Reads
<1>2. rows \in Seq(Row) /\ UNCHANGED rows /\ (board.step # "none" => board \in Boards)
  BY DEF BoardInv, HistoryTypeOK, None, Reads, CountRows, CountLevels, ReadRecent, ReadNewest, CountStale
<1>3. /\ Evaluated' = Evaluated
      /\ \A p : RowsOf(p)' = RowsOf(p)
      /\ \A v : /\ InScope(v)' = InScope(v)
                /\ LatestRows(v)' = LatestRows(v)
                /\ \A l : OfLevel(v, l)' = OfLevel(v, l)
                /\ \A p : Superseded(p, v)' = Superseded(p, v)
  BY <1>2, TableSaysTheSame
<1>4. ASSUME NEW v \in Versions, CountRows(v) PROVE BoardInv'
  <2>1. PICK b : b = Blank(v)
    OBVIOUS
  <2>2. b.step = "counted" /\ b.version = v /\ b \in Boards
    BY <2>1, BlankIsABoard DEF Blank
  <2>3. board' = [b EXCEPT !.counted = Cardinality(InScope(v))]
    BY <2>1, <1>4 DEF CountRows
  <2>4. /\ board'.step = "counted" /\ board'.version = v
        /\ board'.counted = Cardinality(InScope(v))
    BY <2>2, <2>3 DEF Boards
  <2> QED BY <2>4, <1>1, <1>3 DEF BoardInv, Counted, LevelsCounted, LatestRead, StaleCounted
<1>5. CASE CountLevels
  <2>1. PICK found : found = [l \in Levels |-> Cardinality(OfLevel(board.version, l))]
    OBVIOUS
  <2>2. board.step = "counted" /\ board' = [board EXCEPT !.step = "levels", !.levels = found]
    BY <1>5, <2>1 DEF CountLevels, OfLevel
  <2>3. /\ board'.step = "levels" /\ board'.levels = found /\ board'.moved = board.moved
        /\ board'.version = board.version /\ board'.counted = board.counted
    BY <1>2, <2>2 DEF Boards
  <2>4. Counted'
    BY <2>2, <2>3, <1>3 DEF BoardInv, Counted
  <2>5. LevelsCounted'
    BY <2>1, <2>3, <1>3 DEF LevelsCounted
  <2> QED BY <2>3, <2>4, <2>5, <1>1 DEF BoardInv, LatestRead, StaleCounted
<1>6. CASE ReadRecent
  <2>1. /\ board.step = "levels"
        /\ board' = [board EXCEPT !.step = "recent", !.recent = ListHistory(Ids, RecentLimit)]
    BY <1>6 DEF ReadRecent
  <2>2. /\ board'.step = "recent" /\ board'.levels = board.levels
        /\ board'.moved = board.moved /\ board'.version = board.version
        /\ board'.counted = board.counted
    BY <1>2, <2>1 DEF Boards
  <2>3. Counted' /\ LevelsCounted'
    BY <2>1, <2>2, <1>3 DEF BoardInv, Counted, LevelsCounted
  <2> QED BY <2>2, <2>3, <1>1 DEF BoardInv, LatestRead, StaleCounted
<1>7. CASE ReadNewest
  <2>1. /\ board.step = "recent"
        /\ board' = [board EXCEPT !.step = "latest", !.latest = LatestRows(board.version)]
    BY <1>7 DEF ReadNewest
  <2>2. /\ board'.step = "latest" /\ board'.levels = board.levels
        /\ board'.moved = board.moved /\ board'.version = board.version
        /\ board'.counted = board.counted /\ board'.latest = LatestRows(board.version)
    BY <1>2, <2>1 DEF Boards
  <2>3. Counted' /\ LevelsCounted'
    BY <2>1, <2>2, <1>3 DEF BoardInv, Counted, LevelsCounted
  <2>4. \A p \in Evaluated :
            (RowsOf(p) \cap LatestRows(board.version) = {}) = Superseded(p, board.version)
    BY <1>2, OneOfTwoCounts
  <2>5. LatestRead'
    BY <2>2, <2>4, <1>3 DEF LatestRead
  <2> QED BY <2>2, <2>3, <2>5, <1>1 DEF BoardInv, StaleCounted
<1>8. CASE CountStale
  <2>1. PICK stale : stale = {p \in Evaluated : Superseded(p, board.version)}
    OBVIOUS
  <2>2. board.step = "latest" /\ board' = [board EXCEPT !.step = "done", !.stale = stale]
    BY <1>8, <2>1 DEF CountStale, Superseded
  <2>3. /\ board'.step = "done" /\ board'.levels = board.levels
        /\ board'.moved = board.moved /\ board'.version = board.version
        /\ board'.counted = board.counted /\ board'.latest = board.latest
        /\ board'.stale = stale
    BY <1>2, <2>2 DEF Boards
  <2>4. Counted' /\ LevelsCounted'
    BY <2>2, <2>3, <1>3 DEF BoardInv, Counted, LevelsCounted
  <2>5. LatestRead'
    BY <2>2, <2>3, <1>3 DEF BoardInv, LatestRead
  <2>6. ASSUME NEW p \in Evaluated PROVE (p \in stale) = Superseded(p, board.version)
    BY <2>1 DEF Superseded
  <2>7. StaleCounted'
    BY <2>1, <2>3, <2>6, <1>3 DEF StaleCounted
  <2> QED BY <2>4, <2>5, <2>7, <1>1 DEF BoardInv
<1> QED BY <1>4, <1>5, <1>6, <1>7, <1>8 DEF Reads

LEMMA StepKeepsTheBoard ==
  ASSUME BoardInv, [HistoryNext]_historyVars
  PROVE  BoardInv'
<1>1. HistoryTypeOK'
  BY StepTypes DEF BoardInv
<1>2. CASE UNCHANGED <<rows, board>>
  <2>1. /\ Evaluated' = Evaluated
        /\ \A p : RowsOf(p)' = RowsOf(p)
        /\ \A v : /\ InScope(v)' = InScope(v)
                  /\ LatestRows(v)' = LatestRows(v)
                  /\ \A l : OfLevel(v, l)' = OfLevel(v, l)
                  /\ \A p : Superseded(p, v)' = Superseded(p, v)
    BY <1>2, TableSaysTheSame
  <2>2. Counted' /\ LevelsCounted'
    BY <1>2, <2>1 DEF BoardInv, Counted, LevelsCounted
  <2>3. LatestRead' /\ StaleCounted'
    BY <1>2, <2>1 DEF BoardInv, LatestRead, StaleCounted
  <2> QED BY <1>1, <2>2, <2>3 DEF BoardInv
<1>3. ASSUME NEW s \in Savers, Insert(s) PROVE BoardInv'
  BY <1>1, <1>3, InsertKeepsTheBoard DEF BoardInv
<1>4. CASE Reads
  BY <1>4, ReadsKeepTheBoard
<1>5. Tick \/ UNCHANGED historyVars => UNCHANGED <<rows, board>>
  BY DEF Tick, historyVars
<1>6. \A s \in Savers : (\E result \in Results : Stamp(s, result)) \/ SaveFails(s)
                            => UNCHANGED <<rows, board>>
  BY DEF Stamp, SaveFails
<1> QED BY <1>2, <1>3, <1>4, <1>5, <1>6 DEF HistoryNext, Reads

\* The dashboard's numbers, read one after the other while rows are added: each
\* project left alone meanwhile is in exactly one of the two counts, and if all were,
\* the levels and the two counts add up.
THEOREM NumbersAddUp == HistorySpec => []DashboardAddsUp
<1>1. HistoryInit => BoardInv
  <2> SUFFICES ASSUME HistoryInit PROVE BoardInv
    OBVIOUS
  <2>1. board.step = "none"
    BY DEF HistoryInit, None
  <2> QED BY <2>1, InitTypes DEF BoardInv, Counted, LevelsCounted, LatestRead, StaleCounted
<1>2. BoardInv /\ [HistoryNext]_historyVars => BoardInv'
  BY StepKeepsTheBoard
<1>3. BoardInv => DashboardAddsUp
  <2> SUFFICES ASSUME BoardInv, board.step = "done" PROVE DashboardAddsUp
    BY DEF DashboardAddsUp
  <2>1. rows \in Seq(Row)
    BY DEF BoardInv, HistoryTypeOK
  <2>2. \A p \in Evaluated \ board.moved :
            (RowsOf(p) \cap board.latest = {}) = (p \in board.stale)
    BY DEF BoardInv, LatestRead, StaleCounted
  <2>3. ASSUME board.moved = {}
        PROVE  /\ board.counted = SumFunction(board.levels)
               /\ Cardinality(board.latest) + Cardinality(board.stale) = Cardinality(Evaluated)
    <3>1. /\ board.counted = Cardinality(InScope(board.version))
          /\ board.levels = [l \in Levels |-> Cardinality(OfLevel(board.version, l))]
          /\ board.latest = LatestRows(board.version)
          /\ board.stale = {p \in Evaluated : Superseded(p, board.version)}
      BY <2>3 DEF BoardInv, Counted, LevelsCounted, LatestRead, StaleCounted
    <3>2. board.counted = SumFunction(board.levels)
      BY <2>1, <3>1, LevelsAddUp
    <3>3. Cardinality(board.latest) + Cardinality(board.stale) = Cardinality(Evaluated)
      BY <2>1, <3>1, CountsAddUp
    <3> QED BY <3>2, <3>3
  <2> QED BY <2>2, <2>3 DEF DashboardAddsUp
<1> QED BY <1>1, <1>2, <1>3, PTL DEF HistorySpec

-----------------------------------------------------------------------------
(* The comparison.                                                         *)

\* Unless a comparison says that a side has no dimensions, what it calls new and
\* resolved is what the two results say.
THEOREM DiffIsWhole == HistorySpec => []DiffTellsWhatIsMissing
<1>1. HistoryInit => HistoryTypeOK
  BY InitTypes
<1>2. HistoryTypeOK /\ [HistoryNext]_historyVars => HistoryTypeOK'
  BY StepTypes
<1>3. HistoryTypeOK => DiffTellsWhatIsMissing
  <2> SUFFICES ASSUME NEW i \in Ids, NEW j \in Ids
               PROVE  LET d == Compare(i, j) IN
                        /\ "missing_dimensions" \notin d.signals =>
                              /\ d.new = rows[j].of.hits \ rows[i].of.hits
                              /\ d.resolved = rows[i].of.hits \ rows[j].of.hits
                        /\ d.comparable = ("version_changed" \notin d.signals)
                        /\ i = j => d.new \cup d.resolved = {}
    BY DEF DiffTellsWhatIsMissing
  <2> DEFINE d == Compare(i, j)
  <2>1. /\ d.signals = Signals(i, j) /\ d.comparable = (rows[i].of.version = rows[j].of.version)
        /\ d.new = HitsIn(j) \ HitsIn(i) /\ d.resolved = HitsIn(i) \ HitsIn(j)
    BY DEF Compare
  <2> HIDE DEF d
  <2>2. /\ ("missing_dimensions" \in Signals(i, j)) = DimensionsMissing(i, j)
        /\ ("version_changed" \in Signals(i, j)) = (rows[i].of.version # rows[j].of.version)
    BY DEF Signals, DimensionsMissing
  <2>3. ~ DimensionsMissing(i, j) => /\ HitsIn(i) = rows[i].of.hits
                                     /\ HitsIn(j) = rows[j].of.hits
    BY DEF DimensionsMissing, HasDimensions, HitsIn
  <2>4. "missing_dimensions" \notin d.signals =>
            /\ d.new = rows[j].of.hits \ rows[i].of.hits
            /\ d.resolved = rows[i].of.hits \ rows[j].of.hits
    BY <2>1, <2>2, <2>3
  <2>5. d.comparable = ("version_changed" \notin d.signals)
    BY <2>1, <2>2
  <2>6. i = j => d.new \cup d.resolved = {}
    BY <2>1
  <2> QED BY <2>4, <2>5, <2>6 DEF d
<1> QED BY <1>1, <1>2, <1>3, PTL DEF HistorySpec

-----------------------------------------------------------------------------
(* The three side by side.                                                 *)

\* Summaries, recalls and risk results keep their shape, however the steps of one part
\* fall between those of the others.
THEOREM TypesCorrect == Spec => []AllTypesOK
<1>1. /\ Init => SummaryInit /\ RecallInit /\ HistoryInit
      /\ [Next]_vars => /\ [SummaryNext]_summaryVars /\ [RecallNext]_recallVars
                        /\ [HistoryNext]_historyVars
  BY DEF Init, Next, vars
<1>2. Spec => SummarySpec /\ RecallSpec /\ HistorySpec
  BY <1>1, PTL DEF Spec, SummarySpec, RecallSpec, HistorySpec
<1>3. SummaryTypeOK /\ RecallTypeOK /\ HistoryTypeOK => AllTypesOK
  BY DEF AllTypesOK
<1> QED BY <1>2, <1>3, SummaryTypeCorrect, RecallTypeCorrect, HistoryTypeCorrect, PTL

=============================================================================
