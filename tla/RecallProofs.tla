----------------------------- MODULE RecallProofs -----------------------------
(***************************************************************************)
(* Proofs about Recall and the arithmetic it rests on.                     *)
(*                                                                         *)
(* First the operators of RankFusion: a ranking of a finite set by a       *)
(* strict order lists each member once, in that order; a cut keeps the     *)
(* first of a list; the tokens of a list and of its cut agree.  Then one   *)
(* inductive invariant, CInv, with a clause for each place where a call    *)
(* can stand, and one lemma for each action.                               *)
(***************************************************************************)
EXTENDS Recall, FiniteSetTheorems, SequenceTheorems, TLAPS

-----------------------------------------------------------------------------
(* Numbers *)

\* A set of natural numbers has a least one.  What a recursive definition
\* computes is proved with it: by the least number where it would go wrong.
LEMMA LeastNatural ==
    ASSUME NEW S \in SUBSET Nat, S # {}
    PROVE  \E m \in S : \A n \in S : m <= n
  <1> DEFINE R == {de \in Nat \X Nat : de[1] < de[2]}
  <1>1. R = OpToRel(<, Nat)
    BY DEF OpToRel
  <1>2. IsWellFoundedOn(R, Nat)
    BY <1>1, NatLessThanWellFounded
  <1>3. \A m, n \in Nat : <<n, m>> \in R <=> n < m
    OBVIOUS
  <1> HIDE DEF R
  <1>4. PICK m \in S : \A n \in S : <<n, m>> \notin R
    BY <1>2, WFMin
  <1>5. \A n \in S : ~(n < m)
    BY <1>3, <1>4
  <1> QED
    BY <1>4, <1>5

LEMMA Extremes ==
    ASSUME NEW a \in Int, NEW b \in Int
    PROVE  /\ AtMost(a, b) \in Int /\ AtLeast(a, b) \in Int
           /\ AtMost(a, b) <= a /\ AtMost(a, b) <= b /\ AtMost(a, b) \in {a, b}
           /\ AtLeast(a, b) >= a /\ AtLeast(a, b) >= b /\ AtLeast(a, b) \in {a, b}
  BY DEF AtMost, AtLeast

\* The larger divisor gives the smaller quotient.
LEMMA Quotients ==
    ASSUME NEW a \in Nat, NEW m \in Nat \ {0}, NEW n \in Nat, m < n
    PROVE  /\ a \div m \in Nat /\ a \div n \in Nat
           /\ a \div n <= a \div m
  <1> DEFINE q == a \div n
             s == a \div m
  <1>1. q \in Int /\ n * q <= a /\ a < n * (q + 1)
    OBVIOUS
  <1>2. s \in Int /\ m * s <= a /\ a < m * (s + 1)
    OBVIOUS
  <1> QED
    OBVIOUS

LEMMA Products ==
    ASSUME NEW a \in Nat, NEW b \in Nat, NEW w \in Nat, a <= b
    PROVE  w * a \in Nat /\ w * b \in Nat /\ w * a <= w * b
  OBVIOUS

-----------------------------------------------------------------------------
(* Lists *)

LEMMA ListBasics ==
    ASSUME NEW S, NEW l \in Seq(S)
    PROVE  /\ Len(l) \in Nat /\ DOMAIN l = 1..Len(l)
           /\ \A p \in DOMAIN l : l[p] \in S /\ l[p] \in Ranked(l)
           /\ Ranked(l) \subseteq S
           /\ l = <<>> <=> Len(l) = 0
  <1>1. Len(l) \in Nat /\ DOMAIN l = 1..Len(l) /\ l \in [1..Len(l) -> S]
    BY LenProperties
  <1>2. l = <<>> <=> Len(l) = 0
    BY EmptySeq
  <1> QED
    BY <1>1, <1>2 DEF Ranked

\* Where a document stands in a list that has it once.
LEMMA RankFacts ==
    ASSUME NEW S, NEW l \in Seq(S), NoRepeats(l)
    PROVE  /\ \A p \in DOMAIN l : RankOf(l, l[p]) = p
           /\ \A d \in Ranked(l) : RankOf(l, d) \in 1..Len(l) /\ l[RankOf(l, d)] = d
  <1>1. DOMAIN l = 1..Len(l)
    BY LenProperties
  <1>2. \A d \in Ranked(l) : RankOf(l, d) \in DOMAIN l /\ l[RankOf(l, d)] = d
    BY DEF RankOf, Ranked
  <1>3. \A p \in DOMAIN l : RankOf(l, l[p]) = p
    BY <1>2 DEF NoRepeats, Ranked
  <1> QED
    BY <1>1, <1>2, <1>3

LEMMA RankedSize ==
    ASSUME NEW S, NEW l \in Seq(S), NoRepeats(l)
    PROVE  IsFiniteSet(Ranked(l)) /\ Cardinality(Ranked(l)) = Len(l)
  <1>1. Len(l) \in Nat /\ DOMAIN l = 1..Len(l) /\ l \in [1..Len(l) -> S]
    BY LenProperties
  <1>2. l \in Bijection(1..Len(l), Ranked(l))
    BY <1>1 DEF Bijection, Injection, Surjection, NoRepeats, Ranked, IsInjective
  <1>3. IsFiniteSet(1..Len(l)) /\ Cardinality(1..Len(l)) = Len(l)
    BY <1>1, FS_Interval
  <1>4. ExistsBijection(1..Len(l), Ranked(l))
    BY <1>2 DEF ExistsBijection
  <1> QED
    BY <1>3, <1>4, FS_Bijection

LEMMA CutFacts ==
    ASSUME NEW S, NEW l \in Seq(S), NEW n \in Nat
    PROVE  /\ Cut(l, n) \in Seq(S)
           /\ Len(Cut(l, n)) = AtMost(n, Len(l))
           /\ DOMAIN Cut(l, n) = 1..AtMost(n, Len(l))
           /\ 1..AtMost(n, Len(l)) \subseteq DOMAIN l
           /\ \A i \in 1..AtMost(n, Len(l)) : Cut(l, n)[i] = l[i]
           /\ Ranked(Cut(l, n)) \subseteq Ranked(l)
           /\ NoRepeats(l) => NoRepeats(Cut(l, n))
  <1> DEFINE m == AtMost(n, Len(l))
             k == Cut(l, n)
  <1>1. Len(l) \in Nat /\ DOMAIN l = 1..Len(l) /\ \A p \in 1..Len(l) : l[p] \in S
    BY ListBasics
  <1>2. m \in 0..Len(l)
    BY <1>1 DEF AtMost
  <1>3. 1..m \subseteq 1..Len(l)
    BY <1>1, <1>2
  <1> HIDE DEF m
  <1>4. k = SubSeq(l, 1, m)
    BY DEF Cut, m
  <1>5. k \in Seq(S) /\ Len(k) = m /\ \A i \in 1..m : k[i] = l[i]
    <2>1. \A i \in 1..m : l[i] \in S
      BY <1>1, <1>3
    <2>2. m \in Int /\ m - 1 + 1 = m /\ (\A i \in Int : 1 + i - 1 = i) /\ (1 <= m <=> m # 0) /\ 1 \in Int
      BY <1>2
    <2>3. SubSeq(l, 1, m) \in Seq(S)
           /\ Len(SubSeq(l, 1, m)) = (IF 1 <= m THEN m - 1 + 1 ELSE 0)
           /\ (\A i \in 1..m - 1 + 1 : SubSeq(l, 1, m)[i] = l[1 + i - 1])
      BY <2>1, <2>2, SubSeqProperties
    <2> QED
      BY <1>4, <2>2, <2>3
  <1>6. DOMAIN k = 1..m
    BY <1>5, LenProperties
  <1> HIDE DEF k
  <1>7. Ranked(k) \subseteq Ranked(l)
    BY <1>1, <1>3, <1>5, <1>6 DEF Ranked
  <1>8. NoRepeats(l) => NoRepeats(k)
    BY <1>1, <1>3, <1>5, <1>6 DEF NoRepeats
  <1> QED
    BY <1>1, <1>3, <1>5, <1>6, <1>7, <1>8 DEF k, m

\* The cut of a cut is a cut.
LEMMA CutOfCut ==
    ASSUME NEW S, NEW l \in Seq(S), NEW m \in Nat, NEW n \in Nat, n <= AtMost(m, Len(l))
    PROVE  /\ Cut(Cut(l, m), n) = Cut(l, n)
           /\ Len(Cut(l, n)) = n
  <1> DEFINE k == Cut(l, m)
  <1>0. Len(l) \in Nat /\ AtMost(m, Len(l)) \in Nat /\ AtMost(m, Len(l)) <= Len(l)
    BY LenProperties DEF AtMost
  <1>1. k \in Seq(S) /\ Len(k) = AtMost(m, Len(l)) /\ \A i \in 1..Len(k) : k[i] = l[i]
    BY CutFacts
  <1>2. AtMost(n, Len(l)) = n /\ AtMost(n, Len(k)) = n /\ 1..n \subseteq 1..Len(k)
    BY <1>0, <1>1 DEF AtMost
  <1> HIDE DEF k
  <1>3. Cut(k, n) \in Seq(S) /\ Len(Cut(k, n)) = n /\ \A i \in 1..n : Cut(k, n)[i] = k[i]
    BY <1>1, <1>2, CutFacts
  <1>4. Cut(l, n) \in Seq(S) /\ Len(Cut(l, n)) = n /\ \A i \in 1..n : Cut(l, n)[i] = l[i]
    BY <1>2, CutFacts
  <1>5. \A i \in 1..n : Cut(k, n)[i] = Cut(l, n)[i]
    BY <1>1, <1>2, <1>3, <1>4
  <1>6. Cut(k, n) = Cut(l, n)
    BY <1>3, <1>4, <1>5, SeqEqual
  <1> QED
    BY <1>4, <1>6 DEF k

-----------------------------------------------------------------------------
(* Rankings *)

Precedes(R, S, d) == {e \in S : <<e, d>> \in R}

\* R orders S strictly, and any two members.
Orders(R, S) ==
    /\ \A d \in S : <<d, d>> \notin R
    /\ \A d, e, f \in S : <<d, e>> \in R /\ <<e, f>> \in R => <<d, f>> \in R
    /\ \A d, e \in S : d # e => \/ <<d, e>> \in R
                               \/ <<e, d>> \in R

\* Every place is taken by exactly one member: what precedes a member is counted
\* by an injection of S into the places, hence by a bijection.
LEMMA EveryPlaceTaken ==
    ASSUME NEW S, IsFiniteSet(S), NEW R, Orders(R, S)
    PROVE  /\ Cardinality(S) \in Nat
           /\ \A d \in S : Cardinality(Precedes(R, S, d)) \in 0..Cardinality(S) - 1
           /\ \A d, e \in S : <<d, e>> \in R =>
                  Cardinality(Precedes(R, S, d)) < Cardinality(Precedes(R, S, e))
           /\ \A p \in 1..Cardinality(S) : \E d \in S : Cardinality(Precedes(R, S, d)) = p - 1
  <1> DEFINE n == Cardinality(S)
             rank == [d \in S |-> Cardinality(Precedes(R, S, d))]
  <1>1. n \in Nat
    BY FS_CardinalityType
  <1>2. \A d \in S : IsFiniteSet(Precedes(R, S, d)) /\ Cardinality(Precedes(R, S, d)) \in Nat
    <2> TAKE d \in S
    <2>1. Precedes(R, S, d) \in SUBSET S
      BY DEF Precedes
    <2> QED
      BY <2>1, FS_Subset, FS_CardinalityType
  <1>3. \A d \in S : Cardinality(Precedes(R, S, d)) < n
    <2> TAKE d \in S
    <2>1. Precedes(R, S, d) \in SUBSET S /\ Precedes(R, S, d) # S
      BY DEF Precedes, Orders
    <2>2. Cardinality(Precedes(R, S, d)) <= n /\ Cardinality(Precedes(R, S, d)) # n
      BY <2>1, FS_Subset
    <2> QED
      BY <1>1, <1>2, <2>2
  <1>4. \A d, e \in S : <<d, e>> \in R =>
            Cardinality(Precedes(R, S, d)) < Cardinality(Precedes(R, S, e))
    <2> SUFFICES ASSUME NEW d \in S, NEW e \in S, <<d, e>> \in R
                 PROVE  Cardinality(Precedes(R, S, d)) < Cardinality(Precedes(R, S, e))
      OBVIOUS
    <2>1. Precedes(R, S, d) \in SUBSET Precedes(R, S, e)
      BY DEF Precedes, Orders
    <2>2. d \in Precedes(R, S, e) /\ d \notin Precedes(R, S, d)
      BY DEF Precedes, Orders
    <2>3. /\ Cardinality(Precedes(R, S, d)) <= Cardinality(Precedes(R, S, e))
          /\ Cardinality(Precedes(R, S, d)) # Cardinality(Precedes(R, S, e))
      BY <1>2, <2>1, <2>2, FS_Subset
    <2> QED
      BY <1>2, <2>3
  <1>5. rank \in [S -> 0..n - 1]
    BY <1>1, <1>2, <1>3
  <1>6. \A d, e \in S : rank[d] = rank[e] => d = e
    <2>1. \A d, e \in S : <<d, e>> \in R => rank[d] < rank[e]
      BY <1>4
    <2>2. \A d, e \in S : d # e => <<d, e>> \in R \/ <<e, d>> \in R
      BY DEF Orders
    <2>3. \A d, e \in S : <<d, e>> \in R => rank[d] # rank[e]
      BY <1>5, <2>1
    <2> QED
      BY <2>2, <2>3
  <1>7. rank \in Injection(S, 0..n - 1)
    BY <1>5, <1>6 DEF Injection, IsInjective
  <1>8. IsFiniteSet(0..n - 1) /\ Cardinality(0..n - 1) = n
    <2>1. 0 \in Int /\ n - 1 \in Int /\ (IF 0 > n - 1 THEN 0 ELSE n - 1 - 0 + 1) = n
      BY <1>1
    <2> QED
      BY <2>1, FS_Interval
  <1>9. rank \in Surjection(S, 0..n - 1)
    BY <1>7, <1>8, FS_Injection
  <1>10. \A q \in 0..n - 1 : \E d \in S : rank[d] = q
    BY <1>9 DEF Surjection
  <1>11. \A p \in 1..n : p - 1 \in 0..n - 1
    BY <1>1
  <1>12. \A p \in 1..n : \E d \in S : Cardinality(Precedes(R, S, d)) = p - 1
    BY <1>10, <1>11
  <1> QED
    BY <1>1, <1>2, <1>3, <1>4, <1>12

\* The list with, at each place, the member that as many precede as the place says.
Lists(l, R, S) ==
    /\ l = [p \in 1..Cardinality(S) |-> l[p]]
    /\ \A p \in 1..Cardinality(S) :
          (\E d \in S : Cardinality(Precedes(R, S, d)) = p - 1)
              => l[p] \in S /\ Cardinality(Precedes(R, S, l[p])) = p - 1

LEMMA Enumeration ==
    ASSUME NEW S, IsFiniteSet(S), NEW R, Orders(R, S), NEW l, Lists(l, R, S)
    PROVE  /\ l \in Seq(S) /\ Len(l) = Cardinality(S)
           /\ Ranked(l) = S /\ NoRepeats(l)
           /\ \A p, q \in DOMAIN l : p < q => <<l[p], l[q]>> \in R
  <1> DEFINE n == Cardinality(S)
             C(d) == Cardinality(Precedes(R, S, d))
  <1>1. n \in Nat
    BY FS_CardinalityType
  <1>2. \A d \in S : C(d) \in 0..n - 1
    BY EveryPlaceTaken
  <1>3. \A d, e \in S : <<d, e>> \in R => C(d) < C(e)
    BY EveryPlaceTaken
  <1>4. \A p \in 1..n : \E d \in S : C(d) = p - 1
    BY EveryPlaceTaken
  <1>5. /\ l = [p \in 1..n |-> l[p]] /\ DOMAIN l = 1..n
        /\ \A p \in 1..n : (\E d \in S : C(d) = p - 1) => l[p] \in S /\ C(l[p]) = p - 1
    BY DEF Lists
  <1> HIDE DEF C, n
  <1>6. \A p \in 1..n : l[p] \in S /\ C(l[p]) = p - 1
    BY <1>4, <1>5
  <1>7. \A d, e \in S : C(d) = C(e) => d = e
    <2>1. \A d, e \in S : d # e => <<d, e>> \in R \/ <<e, d>> \in R
      BY DEF Orders
    <2>2. \A d, e \in S : <<d, e>> \in R => C(d) # C(e)
      BY <1>2, <1>3
    <2> QED
      BY <2>1, <2>2
  <1>8. l \in [1..n -> S]
    BY <1>5, <1>6
  <1>9. l \in Seq(S) /\ Len(l) = n
    BY <1>1, <1>8, SeqDef
  <1>10. \A d \in S : C(d) + 1 \in 1..n /\ l[C(d) + 1] = d
    <2> TAKE d \in S
    <2> DEFINE p == C(d) + 1
    <2>1. p \in 1..n /\ p - 1 = C(d)
      BY <1>1, <1>2
    <2> HIDE DEF p
    <2>2. l[p] \in S /\ C(l[p]) = p - 1
      BY <1>6, <2>1
    <2>3. l[p] = d
      BY <1>7, <2>1, <2>2
    <2> QED
      BY <2>1, <2>3 DEF p
  <1>11. Ranked(l) = S
    BY <1>5, <1>6, <1>10 DEF Ranked
  <1>12. NoRepeats(l)
    <2>1. \A p, q \in 1..n : p - 1 = q - 1 => p = q
      BY <1>1
    <2> QED
      BY <1>5, <1>6, <2>1 DEF NoRepeats
  <1>13. \A p, q \in DOMAIN l : p < q => <<l[p], l[q]>> \in R
    <2> SUFFICES ASSUME NEW p \in 1..n, NEW q \in 1..n, p < q
                 PROVE  <<l[p], l[q]>> \in R
      BY <1>5
    <2>1. ~(q - 1 < p - 1) /\ p # q
      BY <1>1
    <2>2. ~(<<l[q], l[p]>> \in R)
      BY <1>3, <1>6, <2>1
    <2>3. l[p] # l[q]
      BY <1>5, <1>12, <2>1 DEF NoRepeats
    <2> QED
      BY <1>6, <2>2, <2>3 DEF Orders
  <1> QED
    BY <1>9, <1>11, <1>12, <1>13 DEF n

LEMMA OrderFacts ==
    ASSUME NEW order, IsOrder(order)
    PROVE  /\ IsFiniteSet(Documents)
           /\ \A d \in Documents : RankOf(order, d) \in Nat
           /\ \A d, e \in Documents : RankOf(order, d) = RankOf(order, e) => d = e
  <1>1. order \in Seq(Documents) /\ NoRepeats(order) /\ Ranked(order) = Documents
    BY DEF IsOrder
  <1>2. IsFiniteSet(Documents)
    BY <1>1, RankedSize
  <1>3. \A d \in Documents : RankOf(order, d) \in 1..Len(order) /\ order[RankOf(order, d)] = d
    BY <1>1, RankFacts
  <1> QED
    BY <1>2, <1>3

\* An index lists what it holds, each document once.
LEMMA InOrderFacts ==
    ASSUME NEW order, IsOrder(order), NEW S \in SUBSET Documents
    PROVE  /\ InOrder(S, order) \in Seq(Documents)
           /\ Ranked(InOrder(S, order)) = S /\ NoRepeats(InOrder(S, order))
  <1> DEFINE R == {de \in S \X S : RankOf(order, de[1]) < RankOf(order, de[2])}
             l == InOrder(S, order)
             B(d) == {e \in S : RankOf(order, e) < RankOf(order, d)}
  <1>1. IsFiniteSet(S)
    BY OrderFacts, FS_Subset
  <1>2. /\ \A d \in S : RankOf(order, d) \in Nat
        /\ \A d, e \in S : RankOf(order, d) = RankOf(order, e) => d = e
    BY OrderFacts
  <1>3. \A d, e \in S : <<d, e>> \in R <=> RankOf(order, d) < RankOf(order, e)
    OBVIOUS
  <1> HIDE DEF R
  <1>4. Orders(R, S)
    <2>1. \A d \in S : <<d, d>> \notin R
      BY <1>2, <1>3
    <2>2. \A d, e, f \in S : <<d, e>> \in R /\ <<e, f>> \in R => <<d, f>> \in R
      BY <1>2, <1>3
    <2>3. \A d, e \in S : d # e => <<d, e>> \in R \/ <<e, d>> \in R
      BY <1>2, <1>3
    <2> QED
      BY <2>1, <2>2, <2>3 DEF Orders
  <1>5. \A d \in S : Precedes(R, S, d) = B(d)
    BY <1>3 DEF Precedes
  <1>6. l = [p \in 1..Cardinality(S) |-> CHOOSE d \in S : Cardinality(B(d)) = p - 1]
    BY DEF InOrder
  <1> HIDE DEF l, B
  <1>7. \A p \in 1..Cardinality(S) : l[p] = CHOOSE d \in S : Cardinality(B(d)) = p - 1
    BY <1>6
  <1>8. Lists(l, R, S)
    <2>1. l = [p \in 1..Cardinality(S) |-> l[p]]
      BY <1>6
    <2>2. ASSUME NEW p \in 1..Cardinality(S),
                 NEW d \in S, Cardinality(Precedes(R, S, d)) = p - 1
          PROVE  l[p] \in S /\ Cardinality(Precedes(R, S, l[p])) = p - 1
      <3>1. Cardinality(B(d)) = p - 1
        BY <1>5, <2>2
      <3>2. l[p] \in S /\ Cardinality(B(l[p])) = p - 1
        BY <1>7, <3>1
      <3> QED
        BY <1>5, <3>2
    <2> QED
      BY <2>1, <2>2 DEF Lists
  <1>9. l \in Seq(S) /\ Ranked(l) = S /\ NoRepeats(l)
    BY <1>1, <1>4, <1>8, Enumeration
  <1>10. l \in Seq(Documents)
    BY <1>9, SeqMonotonic
  <1> QED
    BY <1>9, <1>10 DEF l

\* What a query returns: documents of its index, each once, and all of them unless
\* the limit is reached.
LEMMA QueryFacts ==
    ASSUME NEW order, IsOrder(order), NEW S \in SUBSET Documents, NEW n \in Nat,
           NEW l, l = Cut(InOrder(S, order), n)
    PROVE  /\ l \in Seq(Documents) /\ NoRepeats(l)
           /\ Ranked(l) \subseteq S
           /\ S \subseteq Ranked(l) \/ Len(l) = n
  <1> DEFINE o == InOrder(S, order)
  <1>1. o \in Seq(Documents) /\ Ranked(o) = S /\ NoRepeats(o)
    BY InOrderFacts
  <1> HIDE DEF o
  <1>2. l = Cut(o, n)
    BY DEF o
  <1>3. /\ l \in Seq(Documents) /\ NoRepeats(l) /\ Ranked(l) \subseteq S
        /\ Len(l) = AtMost(n, Len(o)) /\ DOMAIN l = 1..AtMost(n, Len(o))
        /\ \A i \in 1..AtMost(n, Len(o)) : l[i] = o[i]
    <2>1. /\ Cut(o, n) \in Seq(Documents) /\ NoRepeats(Cut(o, n))
          /\ Ranked(Cut(o, n)) \subseteq Ranked(o) /\ Len(Cut(o, n)) = AtMost(n, Len(o))
          /\ DOMAIN Cut(o, n) = 1..AtMost(n, Len(o))
          /\ \A i \in 1..AtMost(n, Len(o)) : Cut(o, n)[i] = o[i]
      BY <1>1, CutFacts
    <2> QED
      BY <1>1, <1>2, <2>1
  <1>4. Len(l) # n => S \subseteq Ranked(l)
    <2>1. Len(o) \in Nat /\ DOMAIN o = 1..Len(o)
      BY <1>1, ListBasics
    <2>2. Len(l) # n => AtMost(n, Len(o)) = Len(o)
      BY <1>3, <2>1 DEF AtMost
    <2> QED
      BY <1>1, <1>3, <2>1, <2>2 DEF Ranked
  <1> QED
    BY <1>3, <1>4

-----------------------------------------------------------------------------
(* The fusion of two lists *)

\* The merged order: by score, and equal scores by insertion.
LEMMA BeforeFacts ==
    ASSUME NEW v \in Seq(Documents), NoRepeats(v), NEW f \in Seq(Documents), NoRepeats(f),
           NEW w \in Weights
    PROVE  LET S == Ranked(v) \cup Ranked(f) IN
           /\ \A d \in S : Score(v, f, w, d) \in Nat /\ Inserted(v, f, d) \in Nat
           /\ \A d, e \in S : Inserted(v, f, d) = Inserted(v, f, e) => d = e
  <1> DEFINE S == Ranked(v) \cup Ranked(f)
  <1>1. /\ Len(v) \in Nat
        /\ \A d \in Ranked(v) : RankOf(v, d) \in 1..Len(v) /\ v[RankOf(v, d)] = d
    BY ListBasics, RankFacts
  <1>2. /\ Len(f) \in Nat
        /\ \A d \in Ranked(f) : RankOf(f, d) \in 1..Len(f) /\ f[RankOf(f, d)] = d
    BY ListBasics, RankFacts
  <1>3. w["VECTOR"] \in Nat /\ w["FULL_TEXT"] \in Nat /\ Common \in Nat
    BY FusionAssumption DEF Weights, Indexes
  <1>4. \A r \in Nat : Common \div (60 + r) \in Nat
    BY <1>3
  <1>5. \A d \in S : Share(v, w["VECTOR"], d) \in Nat
    BY <1>1, <1>3, <1>4 DEF Share
  <1>6. \A d \in S : Share(f, w["FULL_TEXT"], d) \in Nat
    BY <1>2, <1>3, <1>4 DEF Share
  <1>7. \A d \in S : Score(v, f, w, d) \in Nat
    BY <1>5, <1>6 DEF Score
  <1>8. \A d \in S : Inserted(v, f, d) \in Nat
    BY <1>1, <1>2 DEF Inserted
  <1>9. ASSUME NEW d \in S, NEW e \in S, Inserted(v, f, d) = Inserted(v, f, e)
        PROVE  d = e
    <2>1. CASE d \in Ranked(v) /\ e \in Ranked(v)
      BY <1>1, <1>9, <2>1 DEF Inserted
    <2>2. CASE d \notin Ranked(v) /\ e \notin Ranked(v)
      BY <1>1, <1>2, <1>9, <2>2 DEF Inserted
    <2>3. CASE d \in Ranked(v) /\ e \notin Ranked(v)
      BY <1>1, <1>2, <1>9, <2>3 DEF Inserted
    <2>4. CASE d \notin Ranked(v) /\ e \in Ranked(v)
      BY <1>1, <1>2, <1>9, <2>4 DEF Inserted
    <2> QED
      BY <2>1, <2>2, <2>3, <2>4
  <1> QED
    BY <1>7, <1>8, <1>9

\* The fusion has each document of either list once, in the merged order.
LEMMA FusionFacts ==
    ASSUME NEW v \in Seq(Documents), NoRepeats(v), NEW f \in Seq(Documents), NoRepeats(f),
           NEW w \in Weights, NEW l, l = Fusion(v, f, w)
    PROVE  /\ l \in Seq(Documents) /\ NoRepeats(l)
           /\ Ranked(l) = Ranked(v) \cup Ranked(f)
           /\ \A p, q \in DOMAIN l : p < q => Before(v, f, w, l[p], l[q])
  <1> DEFINE S == Ranked(v) \cup Ranked(f)
             R == {de \in S \X S : Before(v, f, w, de[1], de[2])}
             B(d) == {e \in S : Before(v, f, w, e, d)}
  <1>1. IsFiniteSet(S) /\ S \subseteq Documents
    BY RankedSize, FS_Union, ListBasics
  <1>2. /\ \A d \in S : Score(v, f, w, d) \in Nat /\ Inserted(v, f, d) \in Nat
        /\ \A d, e \in S : Inserted(v, f, d) = Inserted(v, f, e) => d = e
    BY BeforeFacts
  <1>3. \A d, e \in S : <<d, e>> \in R <=> Before(v, f, w, d, e)
    OBVIOUS
  <1>4. l = [p \in 1..Cardinality(S) |-> CHOOSE d \in S : Cardinality(B(d)) = p - 1]
    BY DEF Fusion
  <1>5. \A d : B(d) = {e \in S : Before(v, f, w, e, d)}
    OBVIOUS
  <1>6. S = Ranked(v) \cup Ranked(f)
    OBVIOUS
  <1> HIDE DEF R, S, B
  <1>7. Orders(R, S)
    <2>1. \A d \in S : <<d, d>> \notin R
      BY <1>2, <1>3 DEF Before
    <2>2. \A d, e, g \in S : <<d, e>> \in R /\ <<e, g>> \in R => <<d, g>> \in R
      BY <1>2, <1>3 DEF Before
    <2>3. \A d, e \in S : d # e => <<d, e>> \in R \/ <<e, d>> \in R
      BY <1>2, <1>3 DEF Before
    <2> QED
      BY <2>1, <2>2, <2>3 DEF Orders
  <1>8. \A d \in S : Precedes(R, S, d) = B(d)
    BY <1>3, <1>5 DEF Precedes
  <1>9. \A p \in 1..Cardinality(S) : l[p] = CHOOSE d \in S : Cardinality(B(d)) = p - 1
    BY <1>4
  <1>10. Lists(l, R, S)
    <2>1. l = [p \in 1..Cardinality(S) |-> l[p]]
      BY <1>4
    <2>2. ASSUME NEW p \in 1..Cardinality(S),
                 NEW d \in S, Cardinality(Precedes(R, S, d)) = p - 1
          PROVE  l[p] \in S /\ Cardinality(Precedes(R, S, l[p])) = p - 1
      <3>1. Cardinality(B(d)) = p - 1
        BY <1>8, <2>2
      <3>2. l[p] \in S /\ Cardinality(B(l[p])) = p - 1
        BY <1>9, <3>1
      <3> QED
        BY <1>8, <3>2
    <2> QED
      BY <2>1, <2>2 DEF Lists
  <1>11. /\ l \in Seq(S) /\ Ranked(l) = S /\ NoRepeats(l)
        /\ \A p, q \in DOMAIN l : p < q => <<l[p], l[q]>> \in R
    BY <1>1, <1>7, <1>10, Enumeration
  <1>12. l \in Seq(Documents)
    BY <1>1, <1>11, SeqMonotonic
  <1>13. \A p \in DOMAIN l : l[p] \in S
    BY <1>11 DEF Ranked
  <1>14. \A p, q \in DOMAIN l : p < q => Before(v, f, w, l[p], l[q])
    BY <1>3, <1>11, <1>13
  <1> QED
    BY <1>6, <1>11, <1>12, <1>14

\* What both lists rank higher scores at least as much and comes first among equals.
LEMMA AheadComesFirst ==
    ASSUME NEW v \in Seq(Documents), NoRepeats(v), NEW f \in Seq(Documents), NoRepeats(f),
           NEW w \in Weights,
           NEW d, NEW e, e \in Ranked(v) \cup Ranked(f),
           e \in Ranked(v) => d \in Ranked(v) /\ RankOf(v, d) < RankOf(v, e),
           e \in Ranked(f) => d \in Ranked(f) /\ RankOf(f, d) < RankOf(f, e)
    PROVE  ~Before(v, f, w, e, d)
  <1>1. /\ Len(v) \in Nat
        /\ \A x \in Ranked(v) : RankOf(v, x) \in 1..Len(v)
    BY ListBasics, RankFacts
  <1>2. /\ Len(f) \in Nat
        /\ \A x \in Ranked(f) : RankOf(f, x) \in 1..Len(f)
    BY ListBasics, RankFacts
  <1>3. w["VECTOR"] \in Nat /\ w["FULL_TEXT"] \in Nat /\ Common \in Nat
    BY FusionAssumption DEF Weights, Indexes
  <1>4. ASSUME NEW l, NEW n \in Nat, \A x \in Ranked(l) : RankOf(l, x) \in Nat,
               e \in Ranked(l) => d \in Ranked(l) /\ RankOf(l, d) < RankOf(l, e)
        PROVE  /\ Share(l, n, d) \in Nat /\ Share(l, n, e) \in Nat
               /\ Share(l, n, d) >= Share(l, n, e)
    <2>1. CASE e \in Ranked(l)
      <3> DEFINE i == 60 + RankOf(l, d)
                 j == 60 + RankOf(l, e)
      <3>1. i \in Nat \ {0} /\ j \in Nat /\ i < j
        BY <1>4, <2>1
      <3>2. Share(l, n, d) = n * (Common \div i) /\ Share(l, n, e) = n * (Common \div j)
        BY <1>4, <2>1 DEF Share
      <3> HIDE DEF i, j
      <3>3. Common \div i \in Nat /\ Common \div j \in Nat /\ Common \div j <= Common \div i
        BY <1>3, <3>1, Quotients
      <3>4. /\ n * (Common \div i) \in Nat /\ n * (Common \div j) \in Nat
            /\ n * (Common \div j) <= n * (Common \div i)
        BY <3>3, Products
      <3> QED
        BY <3>2, <3>4
    <2>2. CASE e \notin Ranked(l)
      <3>1. Share(l, n, e) = 0
        BY <2>2 DEF Share
      <3>2. CASE d \in Ranked(l)
        <4>1. Common \div (60 + RankOf(l, d)) \in Nat
          <5>1. \A r \in Nat : Common \div (60 + r) \in Nat
            BY <1>3
          <5> QED
            BY <1>4, <3>2, <5>1
        <4>2. n * (Common \div (60 + RankOf(l, d))) \in Nat
          BY <4>1
        <4> QED
          BY <3>1, <3>2, <4>2 DEF Share
      <3>3. CASE d \notin Ranked(l)
        BY <3>1, <3>3 DEF Share
      <3> QED
        BY <3>2, <3>3
    <2> QED
      BY <2>1, <2>2
  <1>5. /\ Share(v, w["VECTOR"], d) \in Nat /\ Share(v, w["VECTOR"], e) \in Nat
        /\ Share(v, w["VECTOR"], d) >= Share(v, w["VECTOR"], e)
    BY <1>1, <1>3, <1>4
  <1>6. /\ Share(f, w["FULL_TEXT"], d) \in Nat /\ Share(f, w["FULL_TEXT"], e) \in Nat
        /\ Share(f, w["FULL_TEXT"], d) >= Share(f, w["FULL_TEXT"], e)
    BY <1>2, <1>3, <1>4
  <1>7. ~(Score(v, f, w, e) > Score(v, f, w, d))
    BY <1>5, <1>6 DEF Score
  <1>8. ~(Inserted(v, f, e) < Inserted(v, f, d))
    <2>1. CASE e \in Ranked(v)
      BY <1>1, <2>1 DEF Inserted
    <2>2. CASE e \notin Ranked(v) /\ d \in Ranked(v)
      BY <1>1, <1>2, <2>2 DEF Inserted
    <2>3. CASE e \notin Ranked(v) /\ d \notin Ranked(v)
      BY <1>1, <1>2, <2>3 DEF Inserted
    <2> QED
      BY <2>1, <2>2, <2>3
  <1> QED
    BY <1>7, <1>8 DEF Before

\* d is ahead of e in each list a mode waits for, as far as the list has e.
Ahead(mode, lists, d, e) ==
    \A x \in Awaited(mode) :
        e \in Ranked(lists[x]) => /\ d \in Ranked(lists[x])
                                  /\ RankOf(lists[x], d) < RankOf(lists[x], e)

\* The part of EvidenceRules for one result.
Evident(mode, lists, l) ==
    \A p, q \in DOMAIN l : p < q => ~Ahead(mode, lists, l[q], l[p])

LEMMA ModeFacts ==
    ASSUME NEW mode \in Modes, "GRAPH" \notin Targets(mode)
    PROVE  /\ Fetched(mode) \in {{"VECTOR"}, {"FULL_TEXT"}, {"VECTOR", "FULL_TEXT"}}
           /\ "VECTOR" \in Targets(mode) <=> "VECTOR" \in Fetched(mode)
  BY DEF Modes, Targets, Fetched

LEMMA AwaitedFacts ==
    ASSUME NEW mode \in Modes
    PROVE  Awaited(mode) \subseteq {"VECTOR", "FULL_TEXT"}
  BY DEF Awaited, Fetched

\* The merged list: every document of the lists awaited, each once, best first.
LEMMA MergedFacts ==
    ASSUME NEW mode \in Modes, "GRAPH" \notin Targets(mode),
           NEW lists \in [Indexes -> Seq(Documents)],
           \A x \in Awaited(mode) : NoRepeats(lists[x]),
           NEW w \in Weights,
           NEW l, l = Merged(mode, lists["VECTOR"], lists["FULL_TEXT"], w)
    PROVE  /\ l \in Seq(Documents) /\ NoRepeats(l)
           /\ \A x \in Awaited(mode) : Ranked(lists[x]) \subseteq Ranked(l)
           /\ \A d \in Ranked(l) : \E x \in Awaited(mode) : d \in Ranked(lists[x])
           /\ Evident(mode, lists, l)
  <1> DEFINE v == lists["VECTOR"]
             f == lists["FULL_TEXT"]
  <1>1. v \in Seq(Documents) /\ f \in Seq(Documents)
    BY DEF Indexes
  <1>2. ASSUME NEW x \in Indexes, Awaited(mode) = {x}, l = lists[x]
        PROVE  /\ l \in Seq(Documents) /\ NoRepeats(l)
               /\ \A y \in Awaited(mode) : Ranked(lists[y]) \subseteq Ranked(l)
               /\ \A d \in Ranked(l) : \E y \in Awaited(mode) : d \in Ranked(lists[y])
               /\ Evident(mode, lists, l)
    <2>1. l \in Seq(Documents) /\ NoRepeats(l)
      BY <1>2
    <2>2. /\ DOMAIN l = 1..Len(l) /\ Len(l) \in Nat
          /\ \A p \in DOMAIN l : l[p] \in Ranked(l) /\ RankOf(l, l[p]) = p
      BY <2>1, ListBasics, RankFacts
    <2>3. Evident(mode, lists, l)
      <3> SUFFICES ASSUME NEW p \in DOMAIN l, NEW q \in DOMAIN l, p < q,
                          Ahead(mode, lists, l[q], l[p])
                   PROVE  FALSE
        BY DEF Evident
      <3>1. RankOf(l, l[q]) < RankOf(l, l[p])
        BY <1>2, <2>2 DEF Ahead
      <3> QED
        BY <2>2, <3>1
    <2> QED
      BY <1>2, <2>1, <2>3
  <1>3. CASE Fetched(mode) = {"VECTOR"}
    <2>1. l = v
      BY <1>3 DEF Merged
    <2> QED
      BY <1>2, <1>3, <2>1 DEF Awaited, Indexes
  <1>4. CASE Fetched(mode) = {"FULL_TEXT"}
    <2>1. l = f
      BY <1>4 DEF Merged
    <2> QED
      BY <1>2, <1>4, <2>1 DEF Awaited, Indexes
  <1>5. CASE Fetched(mode) = {"VECTOR", "FULL_TEXT"}
    <2>1. l = Fusion(v, f, w)
      <3>1. "VECTOR" # "FULL_TEXT"
        OBVIOUS
      <3>2. Fetched(mode) # {"VECTOR"} /\ Fetched(mode) # {"FULL_TEXT"}
        BY <1>5, <3>1, Zenon
      <3> QED
        BY <3>2 DEF Merged
    <2>2. NoRepeats(v) /\ NoRepeats(f) /\ Awaited(mode) = {"VECTOR", "FULL_TEXT"}
      BY <1>5 DEF Awaited
    <2> HIDE DEF v, f
    <2>3. /\ l \in Seq(Documents) /\ NoRepeats(l) /\ Ranked(l) = Ranked(v) \cup Ranked(f)
          /\ \A p, q \in DOMAIN l : p < q => Before(v, f, w, l[p], l[q])
      BY <1>1, <2>1, <2>2, FusionFacts
    <2>4. Evident(mode, lists, l)
      <3> SUFFICES ASSUME NEW p \in DOMAIN l, NEW q \in DOMAIN l, p < q,
                          Ahead(mode, lists, l[q], l[p])
                   PROVE  FALSE
        BY DEF Evident
      <3> DEFINE d == l[q]
                 e == l[p]
      <3>1. e \in Ranked(v) \cup Ranked(f)
        BY <2>3, ListBasics
      <3>2. /\ e \in Ranked(v) => d \in Ranked(v) /\ RankOf(v, d) < RankOf(v, e)
            /\ e \in Ranked(f) => d \in Ranked(f) /\ RankOf(f, d) < RankOf(f, e)
        BY <2>2 DEF Ahead, v, f
      <3>3. Before(v, f, w, e, d)
        BY <2>3
      <3> HIDE DEF d, e
      <3> QED
        BY <1>1, <2>2, <3>1, <3>2, <3>3, AheadComesFirst
    <2> QED
      BY <2>2, <2>3, <2>4 DEF v, f
  <1> QED
    BY <1>3, <1>4, <1>5, ModeFacts

-----------------------------------------------------------------------------
(* Tokens *)

LEMMA EstimateType == \A d \in Documents : Estimate(d) \in Nat
  <1> TAKE d \in Documents
  <1>1. Tokens[d] \in Nat
    BY FusionAssumption
  <1> QED
    BY <1>1 DEF Estimate, AtLeast

\* s adds up the first n of l.
Sums(s, l, n) ==
    /\ s \in [0..n -> Nat]
    /\ s[0] = 0
    /\ \A i \in 1..n : s[i] = s[i - 1] + Estimate(l[i])

LEMMA SumsExist ==
    ASSUME NEW l \in Seq(Documents)
    PROVE  \E s : Sums(s, l, Len(l))
  <1>1. Len(l) \in Nat /\ \A i \in 1..Len(l) : Estimate(l[i]) \in Nat
    BY ListBasics, EstimateType
  <1> DEFINE Wrong == {n \in 0..Len(l) : ~\E s : Sums(s, l, n)}
  <1> SUFFICES ASSUME Wrong # {}
               PROVE  FALSE
    BY <1>1
  <1>2. Wrong \in SUBSET Nat /\ Wrong \subseteq 0..Len(l)
    BY <1>1
  <1>3. PICK m \in Wrong : \A n \in Wrong : m <= n
    <2> HIDE DEF Wrong
    <2> QED
      BY <1>2, LeastNatural
  <1>4. CASE m = 0
    <2>1. Sums([i \in 0..0 |-> 0], l, 0)
      BY DEF Sums
    <2> QED
      BY <1>4, <2>1
  <1>5. CASE m # 0
    <2>1. m - 1 \in 0..Len(l) /\ m \in 1..Len(l) /\ m - 1 \notin Wrong
      <3>1. m - 1 \in 0..Len(l) /\ m \in 1..Len(l) /\ ~(m <= m - 1)
        BY <1>1, <1>2, <1>5
      <3> HIDE DEF Wrong
      <3> QED
        BY <1>3, <3>1
    <2>2. PICK s : Sums(s, l, m - 1)
      BY <2>1
    <2> DEFINE g == [i \in 0..m |-> IF i = m THEN s[m - 1] + Estimate(l[m]) ELSE s[i]]
    <2>3. /\ \A i \in 0..m - 1 : s[i] \in Nat
          /\ s[0] = 0
          /\ \A i \in 1..m - 1 : s[i] = s[i - 1] + Estimate(l[i])
      BY <2>2 DEF Sums
    <2>4. g[m] = s[m - 1] + Estimate(l[m]) /\ g[m] \in Nat
      BY <1>1, <2>1, <2>3
    <2>5. \A i \in 0..m - 1 : g[i] = s[i]
      BY <2>1
    <2>6. g \in [0..m -> Nat]
      BY <1>1, <2>1, <2>3
    <2>7. g[0] = 0
      BY <2>1, <2>3, <2>5
    <2> HIDE DEF g
    <2>8. \A i \in 1..m : g[i] = g[i - 1] + Estimate(l[i])
      <3> TAKE i \in 1..m
      <3>1. i - 1 \in 0..m - 1 /\ g[i - 1] = s[i - 1]
        BY <2>1, <2>5
      <3>2. CASE i = m
        BY <2>4, <3>1, <3>2
      <3>3. CASE i # m
        <4>1. i \in 1..m - 1 /\ i \in 0..m - 1
          BY <2>1, <3>3
        <4> QED
          BY <2>3, <2>5, <3>1, <4>1
      <3> QED
        BY <3>2, <3>3
    <2>9. Sums(g, l, m)
      BY <2>6, <2>7, <2>8 DEF Sums
    <2> QED
      BY <2>9
  <1> QED
    BY <1>4, <1>5

\* Total is what its recursive definition says.
LEMMA TotalDef ==
    ASSUME NEW l \in Seq(Documents)
    PROVE  Total(l) = [n \in 0..Len(l) |->
                          IF n = 0 THEN 0 ELSE Total(l)[n - 1] + Estimate(l[n])]
  <1> DEFINE D(t) == t = [n \in 0..Len(l) |->
                             IF n = 0 THEN 0 ELSE t[n - 1] + Estimate(l[n])]
  <1>1. Len(l) \in Nat
    BY LenProperties
  <1>2. PICK s : Sums(s, l, Len(l))
    BY SumsExist
  <1>3. D(s)
    <2>1. s = [n \in 0..Len(l) |-> s[n]]
      BY <1>2 DEF Sums
    <2>2. \A n \in 0..Len(l) : s[n] = IF n = 0 THEN 0 ELSE s[n - 1] + Estimate(l[n])
      BY <1>1, <1>2 DEF Sums
    <2> QED
      BY <2>1, <2>2
  <1>4. Total(l) = CHOOSE t : D(t)
    BY DEF Total
  <1> HIDE DEF D
  <1>5. D(Total(l))
    BY <1>3, <1>4
  <1> QED
    BY <1>5 DEF D

LEMMA TotalFacts ==
    ASSUME NEW l \in Seq(Documents)
    PROVE  Sums(Total(l), l, Len(l))
  <1> DEFINE t == Total(l)
             Wrong == {n \in 0..Len(l) : t[n] \notin Nat}
  <1>1. Len(l) \in Nat /\ \A i \in 1..Len(l) : Estimate(l[i]) \in Nat
    BY ListBasics, EstimateType
  <1>2. t = [n \in 0..Len(l) |-> IF n = 0 THEN 0 ELSE t[n - 1] + Estimate(l[n])]
    BY TotalDef
  <1> HIDE DEF t
  <1>3. /\ DOMAIN t = 0..Len(l) /\ t = [n \in 0..Len(l) |-> t[n]]
        /\ \A n \in 0..Len(l) : t[n] = IF n = 0 THEN 0 ELSE t[n - 1] + Estimate(l[n])
    BY <1>2
  <1>4. t[0] = 0 /\ \A n \in 1..Len(l) : t[n] = t[n - 1] + Estimate(l[n])
    BY <1>1, <1>3
  <1>5. Wrong = {}
    <2> SUFFICES ASSUME Wrong # {}
                 PROVE  FALSE
      OBVIOUS
    <2>1. Wrong \in SUBSET Nat /\ Wrong \subseteq 0..Len(l)
      BY <1>1
    <2>2. PICK m \in Wrong : \A n \in Wrong : m <= n
      <3> HIDE DEF Wrong
      <3> QED
        BY <2>1, LeastNatural
    <2>3. m # 0
      BY <1>4
    <2>4. m - 1 \in 0..Len(l) /\ m \in 1..Len(l) /\ ~(m <= m - 1)
      BY <1>1, <2>1, <2>3
    <2>5. t[m - 1] \in Nat
      BY <2>2, <2>4
    <2>6. t[m] \in Nat
      BY <1>1, <1>4, <2>4, <2>5
    <2> QED
      BY <2>6
  <1>6. t \in [0..Len(l) -> Nat]
    BY <1>3, <1>5
  <1>7. Sums(t, l, Len(l))
    BY <1>4, <1>6 DEF Sums
  <1> QED
    BY <1>7 DEF t

\* What the first of a list add up to does not depend on what comes after.
LEMMA TotalOfPrefix ==
    ASSUME NEW l \in Seq(Documents), NEW k \in Seq(Documents), Len(k) <= Len(l),
           \A i \in 1..Len(k) : k[i] = l[i]
    PROVE  \A n \in 0..Len(k) : Total(k)[n] = Total(l)[n]
  <1> DEFINE t == Total(k)
             u == Total(l)
             Wrong == {n \in 0..Len(k) : t[n] # u[n]}
  <1>1. Len(l) \in Nat /\ Len(k) \in Nat
    BY LenProperties
  <1>2. Sums(t, k, Len(k)) /\ Sums(u, l, Len(l))
    BY TotalFacts
  <1> HIDE DEF t, u
  <1>3. /\ t[0] = 0 /\ u[0] = 0
        /\ \A n \in 1..Len(k) : t[n] = t[n - 1] + Estimate(k[n]) /\ u[n] = u[n - 1] + Estimate(l[n])
    BY <1>1, <1>2 DEF Sums
  <1>4. Wrong = {}
    <2> SUFFICES ASSUME Wrong # {}
                 PROVE  FALSE
      OBVIOUS
    <2>1. Wrong \in SUBSET Nat /\ Wrong \subseteq 0..Len(k)
      BY <1>1
    <2>2. PICK m \in Wrong : \A n \in Wrong : m <= n
      <3> HIDE DEF Wrong
      <3> QED
        BY <2>1, LeastNatural
    <2>3. m # 0
      BY <1>3
    <2>4. m - 1 \in 0..Len(k) /\ m \in 1..Len(k) /\ ~(m <= m - 1)
      BY <1>1, <2>1, <2>3
    <2>5. t[m - 1] = u[m - 1]
      BY <2>2, <2>4
    <2>6. t[m] = u[m]
      BY <1>3, <2>4, <2>5
    <2> QED
      BY <2>6
  <1> QED
    BY <1>4 DEF t, u

\* Some number of items fits, and Fitting names one.
LEMMA FittingFacts ==
    ASSUME NEW l \in Seq(Documents), NEW budget \in Nat, NEW n, n = Fitting(l, budget)
    PROVE  /\ n \in 0..Len(l)
           /\ Total(l)[n] <= budget
           /\ n < Len(l) => Total(l)[n + 1] > budget
  <1> DEFINE t == Total(l)
             Full == {m \in 0..Len(l) : m < Len(l) => t[m + 1] > budget}
             Fits(m) == t[m] <= budget /\ (m < Len(l) => t[m + 1] > budget)
  <1>1. Len(l) \in Nat
    BY LenProperties
  <1>2. Sums(t, l, Len(l))
    BY TotalFacts
  <1>3. n = CHOOSE m \in 0..Len(l) : Fits(m)
    BY DEF Fitting
  <1> HIDE DEF t
  <1>4. t[0] = 0 /\ \A m \in 0..Len(l) : t[m] \in Nat
    BY <1>2 DEF Sums
  <1>5. Full \in SUBSET Nat /\ Len(l) \in Full /\ Full \subseteq 0..Len(l)
    BY <1>1
  <1>6. PICK m \in Full : \A i \in Full : m <= i
    <2> HIDE DEF Full
    <2> QED
      BY <1>5, LeastNatural
  <1>7. t[m] <= budget
    <2>1. CASE m = 0
      BY <1>4, <2>1
    <2>2. CASE m # 0
      <3>1. m - 1 \in 0..Len(l) /\ m - 1 < Len(l) /\ m - 1 + 1 = m /\ ~(m <= m - 1)
        BY <1>1, <1>5, <2>2
      <3>2. m - 1 \notin Full
        BY <1>6, <3>1
      <3>3. ~(t[m] > budget)
        BY <3>1, <3>2
      <3> QED
        BY <1>4, <1>5, <3>3
    <2> QED
      BY <2>1, <2>2
  <1>8. m \in 0..Len(l) /\ Fits(m)
    BY <1>5, <1>7
  <1> HIDE DEF Fits
  <1>9. n \in 0..Len(l) /\ Fits(n)
    BY <1>3, <1>8
  <1> QED
    BY <1>9 DEF Fits, t

-----------------------------------------------------------------------------
(* The inductive invariant.  What holds of one call is stated with          *)
(* operators of its values, so that the steps of the others leave it alone. *)

\* The part of NothingLost for one result.
Complete(r, l, had, kept) ==
    /\ Ranked(l) \subseteq had
    /\ Cardinality(Ranked(l)) = Len(l)
    /\ "VECTOR" \in Targets(r.mode) /\ ~(kept \subseteq Ranked(l)) => Len(l) = FinalK(r.k)

\* The part of BudgetHonest for one result.
Honest(r, l, taken, word) ==
    LET n == Len(taken)
        m == AtMost(r.k, Len(l))
    IN
    /\ taken = Cut(l, n) /\ n <= m
    /\ r.limited => Total(taken)[n] <= r.budget
    /\ n < m => Total(l)[n + 1] > r.budget
    /\ word = "MATCH" <=> n = m /\ n > 0
    /\ word = "NO_MATCH" <=> n = 0

\* The list that came from index x.
Came(x, l, k, had, kept) ==
    /\ NoRepeats(l)
    /\ Ranked(l) \subseteq had
    /\ x = "VECTOR" => \/ kept \subseteq Ranked(l)
                       \/ Len(l) = Candidates(k)

\* What an explanation has said so far.
Truthful(said, steps, had, kept) ==
    \A n \in DOMAIN said :
        /\ said[n] => steps[n] \in had
        /\ steps[n] \in kept => said[n]

\* A search or recall that has its result.
HasResult(c) == \/ pc[c] \in {"recalled", "no match"}
                \/ Answered(c, "search")
                \/ Answered(c, "recall")

AtRest(c) == pc[c] = "idle" => heard[c] = Silent /\ shown[c] = <<>>

BeforeResult(c) ==
    /\ pc[c] \in {"policy", "embed", "fetch"} => req[c].kind # "explain" /\ heard[c] = Silent
    /\ pc[c] \in {"embed", "fetch"} =>
          /\ "GRAPH" \notin Targets(req[c].mode)
          /\ pending[c] \subseteq Awaited(req[c].mode)
          /\ \A x \in Awaited(req[c].mode) \ pending[c] :
                Came(x, fetched[c][x], req[c].k, seen[c], steady[c])
    /\ pc[c] = "refused" => heard[c] = Silent

AfterResult(c) ==
    /\ HasResult(c) =>
          /\ Evident(req[c].mode, fetched[c], found[c])
          /\ Complete(req[c], found[c], seen[c], steady[c])
          /\ heard[c].recalled = Len(found[c])
    /\ pc[c] = "recalled" => req[c].kind = "recall" /\ heard[c].noMatch = FALSE
    /\ pc[c] = "no match" => req[c].kind = "recall" /\ items[c] = <<>>
    /\ pc[c] = "no match" \/ Answered(c, "recall") =>
          Honest(req[c], found[c], items[c], status[c])
    /\ Answered(c, "recall") => (heard[c].noMatch <=> items[c] = <<>>)

Explaining(c) ==
    /\ pc[c] \in {"trace", "record"} =>
          /\ req[c].kind = "explain" /\ trace[c] \in TraceIds
          /\ steady[c] \subseteq records /\ records \subseteq seen[c]
    /\ pc[c] = "trace" => shown[c] = <<>>
    /\ pc[c] = "record" \/ Answered(c, "explain") =>
          /\ trace[c] \in TraceIds
          /\ traces[trace[c]].tenant = TenantOf[c]
          /\ items[c] = traces[trace[c]].steps
          /\ Truthful(shown[c], items[c], seen[c], steady[c])
    /\ pc[c] = "record" => Len(shown[c]) < Len(items[c])
    /\ Answered(c, "explain") => Len(shown[c]) = Len(items[c])

\* The histories are true of the indexes.
Watching(c) ==
    OfIndexes(c) => /\ steady[c] \subseteq index["VECTOR"]
                    /\ index["VECTOR"] \cup index["FULL_TEXT"] \subseteq seen[c]

CInv(c) == AtRest(c) /\ BeforeResult(c) /\ AfterResult(c) /\ Explaining(c) /\ Watching(c)

\* Only recalls with items leave a row.
RowsHaveSteps == \A t \in TraceIds : traces[t].tenant \in Tenants => traces[t].steps # <<>>

\* Each search under way mints one trace id, each recall another.
Early == {c \in Callers : pc[c] \in {"policy", "embed", "fetch"}}
Minting == {c \in Callers : pc[c] \in {"policy", "embed", "fetch", "recalled"}}
Enough == minted + Cardinality(Early) + Cardinality(Minting) <= MaxTraces

RInv == TypeOK /\ (\A c \in Callers : CInv(c)) /\ RowsHaveSteps /\ Enough

-----------------------------------------------------------------------------
(* Results *)

LEMMA LimitFacts ==
    ASSUME NEW k \in Nat
    PROVE  /\ FinalK(k) \in Nat \ {0}
           /\ Candidates(k) \in Nat /\ Candidates(k) > FinalK(k)
  <1>1. FinalK(k) \in Nat \ {0} /\ MinCandidates \in Nat
    BY FusionAssumption DEF FinalK
  <1>2. 3 * FinalK(k) \in Nat /\ 3 * FinalK(k) > FinalK(k)
    BY <1>1
  <1>3. Candidates(k) \in Nat /\ Candidates(k) >= 3 * FinalK(k)
    BY <1>1, <1>2 DEF Candidates, AtLeast
  <1> QED
    BY <1>1, <1>2, <1>3

\* A document that was always there is in the result, unless the result is full:
\* a vector list that reached its limit has more documents than a result may.
LEMMA SearchResult ==
    ASSUME NEW r \in Request, "GRAPH" \notin Targets(r.mode),
           NEW lists \in [Indexes -> Seq(Documents)], NEW w \in Weights,
           NEW had, NEW kept,
           \A x \in Awaited(r.mode) : Came(x, lists[x], r.k, had, kept),
           NEW top,
           top = Cut(Merged(r.mode, lists["VECTOR"], lists["FULL_TEXT"], w), FinalK(r.k))
    PROVE  /\ top \in Seq(Documents)
           /\ Evident(r.mode, lists, top)
           /\ Complete(r, top, had, kept)
  <1> DEFINE l == Merged(r.mode, lists["VECTOR"], lists["FULL_TEXT"], w)
             k == FinalK(r.k)
             v == lists["VECTOR"]
  <1>1. r.mode \in Modes /\ r.k \in Nat
    BY DEF Request
  <1>2. k \in Nat \ {0} /\ Candidates(r.k) \in Nat /\ Candidates(r.k) > k
    BY <1>1, LimitFacts
  <1>3. \A x \in Awaited(r.mode) : NoRepeats(lists[x]) /\ Ranked(lists[x]) \subseteq had
    BY DEF Came
  <1>4. /\ l \in Seq(Documents) /\ NoRepeats(l)
        /\ \A x \in Awaited(r.mode) : Ranked(lists[x]) \subseteq Ranked(l)
        /\ \A d \in Ranked(l) : \E x \in Awaited(r.mode) : d \in Ranked(lists[x])
        /\ Evident(r.mode, lists, l)
    BY <1>1, <1>3, MergedFacts
  <1>5. top = Cut(l, k)
    OBVIOUS
  <1>v. v = lists["VECTOR"]
    OBVIOUS
  <1>k. k = FinalK(r.k)
    OBVIOUS
  <1> HIDE DEF l, k, v
  <1>6. /\ top \in Seq(Documents) /\ Len(top) = AtMost(k, Len(l)) /\ Len(l) \in Nat
        /\ DOMAIN top = 1..AtMost(k, Len(l)) /\ DOMAIN top \subseteq DOMAIN l
        /\ \A i \in DOMAIN top : top[i] = l[i]
        /\ Ranked(top) \subseteq Ranked(l) /\ NoRepeats(top)
    <2>1. /\ Cut(l, k) \in Seq(Documents) /\ Len(Cut(l, k)) = AtMost(k, Len(l))
          /\ DOMAIN Cut(l, k) = 1..AtMost(k, Len(l))
          /\ 1..AtMost(k, Len(l)) \subseteq DOMAIN l
          /\ \A i \in 1..AtMost(k, Len(l)) : Cut(l, k)[i] = l[i]
          /\ Ranked(Cut(l, k)) \subseteq Ranked(l)
          /\ NoRepeats(l) => NoRepeats(Cut(l, k))
      BY <1>2, <1>4, CutFacts
    <2>2. Len(l) \in Nat
      BY <1>4, LenProperties
    <2> QED
      BY <1>4, <1>5, <2>1, <2>2
  <1>7. Evident(r.mode, lists, top)
    BY <1>4, <1>6 DEF Evident
  <1>8. Ranked(top) \subseteq had
    BY <1>3, <1>4, <1>6
  <1>9. Cardinality(Ranked(top)) = Len(top)
    BY <1>6, RankedSize
  <1>10. ASSUME "VECTOR" \in Targets(r.mode), Len(top) # k
         PROVE  kept \subseteq Ranked(top)
    <2>1. "VECTOR" \in Awaited(r.mode)
      BY <1>1, <1>10, ModeFacts DEF Awaited
    <2>2. Came("VECTOR", v, r.k, had, kept) /\ v \in Seq(Documents) /\ Ranked(v) \subseteq Ranked(l)
      BY <1>4, <2>1, <1>v DEF Indexes
    <2>3. Len(top) = Len(l) /\ Len(l) < k
      BY <1>2, <1>6, <1>10 DEF AtMost
    <2>4. Ranked(top) = Ranked(l)
      <3>1. DOMAIN l = 1..Len(l) /\ DOMAIN top = 1..Len(l)
        BY <1>4, <1>6, <2>3, ListBasics
      <3> QED
        BY <1>6, <3>1 DEF Ranked
    <2>5. /\ Cardinality(Ranked(l)) = Len(l) /\ IsFiniteSet(Ranked(l))
          /\ Cardinality(Ranked(v)) = Len(v)
      BY <1>4, <2>2, RankedSize DEF Came
    <2>6. Len(v) <= Len(l) /\ Len(v) \in Nat
      BY <2>2, <2>5, FS_Subset, LenProperties
    <2>7. Len(v) # Candidates(r.k)
      BY <1>2, <1>6, <2>3, <2>6
    <2>8. kept \subseteq Ranked(v)
      BY <2>2, <2>7 DEF Came
    <2> QED
      BY <2>2, <2>4, <2>8
  <1>11. Complete(r, top, had, kept)
    BY <1>8, <1>9, <1>10, <1>k DEF Complete
  <1> QED
    BY <1>6, <1>7, <1>11

LEMMA CutItems ==
    ASSUME NEW S, NEW l \in Seq(S), NEW n \in Nat, n <= Len(l)
    PROVE  \A i \in 1..n : Cut(l, n)[i] = l[i]
  <1>1. AtMost(n, Len(l)) = n
    BY LenProperties DEF AtMost
  <1> QED
    BY <1>1, CutFacts

\* Taking items until one does not fit.
LEMMA RecallResult ==
    ASSUME NEW r \in Request, NEW l \in Seq(Documents),
           NEW short, short = Cut(l, r.k),
           NEW n, n = IF r.limited THEN Fitting(short, r.budget) ELSE Len(short)
    PROVE  /\ Cut(short, n) \in Seq(Documents)
           /\ n \in Nat /\ Len(Cut(short, n)) = n
           /\ Outcome(n, short) \in {"MATCH", "PARTIAL_MATCH", "NO_MATCH"}
           /\ Honest(r, l, Cut(short, n), Outcome(n, short))
  <1> DEFINE m == AtMost(r.k, Len(l))
             taken == Cut(short, n)
  <1>1. r.k \in Nat /\ r.budget \in Nat /\ r.limited \in BOOLEAN
    BY DEF Request
  <1>2. Len(l) \in Nat /\ m \in Nat /\ m <= Len(l)
    BY <1>1, LenProperties DEF AtMost
  <1>3. short \in Seq(Documents) /\ Len(short) = m /\ \A i \in 1..m : short[i] = l[i]
    <2>1. /\ Cut(l, r.k) \in Seq(Documents) /\ Len(Cut(l, r.k)) = m
          /\ \A i \in 1..m : Cut(l, r.k)[i] = l[i]
      BY <1>1, CutFacts
    <2> QED
      BY <2>1
  <1>4. n \in 0..m
    <2>1. CASE r.limited
      BY <1>1, <1>3, <2>1, FittingFacts
    <2>2. CASE ~r.limited
      BY <1>2, <1>3, <2>2
    <2> QED
      BY <2>1, <2>2
  <1>5. n \in Nat /\ n <= m
    BY <1>2, <1>4
  <1>6. taken = Cut(l, n) /\ Len(taken) = n
    <2>1. Cut(Cut(l, r.k), n) = Cut(l, n) /\ Len(Cut(l, n)) = n
      BY <1>1, <1>5, CutOfCut
    <2> QED
      BY <2>1
  <1>7. taken \in Seq(Documents)
    BY <1>3, <1>5, CutFacts
  <1>m. m = AtMost(r.k, Len(l))
    OBVIOUS
  <1> HIDE DEF m, taken
  <1>8. r.limited => Total(taken)[n] <= r.budget
    <2> SUFFICES ASSUME r.limited
                 PROVE  Total(taken)[n] <= r.budget
      OBVIOUS
    <2>1. Total(short)[n] <= r.budget
      BY <1>1, <1>3, FittingFacts
    <2>2. \A i \in 1..n : taken[i] = short[i]
      <3>1. short \in Seq(Documents) /\ n \in Nat /\ n <= Len(short)
        BY <1>3, <1>5
      <3> QED
        BY <3>1, CutItems DEF taken
    <2>3. Len(taken) = n /\ Len(taken) <= Len(short) /\ n \in 0..Len(taken)
      BY <1>3, <1>5, <1>6
    <2>4. Total(taken)[n] = Total(short)[n]
      BY <1>3, <1>7, <2>2, <2>3, TotalOfPrefix
    <2> QED
      BY <2>1, <2>4
  <1>9. n < m => Total(l)[n + 1] > r.budget
    <2> SUFFICES ASSUME n < m
                 PROVE  Total(l)[n + 1] > r.budget
      OBVIOUS
    <2>1. r.limited
      BY <1>1, <1>2, <1>3, <1>5
    <2>2. Total(short)[n + 1] > r.budget
      BY <1>1, <1>3, <2>1, FittingFacts
    <2>3. n + 1 \in 0..Len(short) /\ Len(short) <= Len(l)
      BY <1>2, <1>3, <1>5
    <2>4. Total(short)[n + 1] = Total(l)[n + 1]
      BY <1>3, <2>3, TotalOfPrefix
    <2> QED
      BY <2>2, <2>4
  <1>10. /\ n = 0 => Outcome(n, short) = "NO_MATCH"
         /\ n > 0 /\ n < m => Outcome(n, short) = "PARTIAL_MATCH"
         /\ n > 0 /\ n = m => Outcome(n, short) = "MATCH"
    <2>1. CASE n = 0
      BY <2>1 DEF Outcome
    <2>2. CASE n > 0 /\ n < m
      BY <1>2, <1>3, <1>5, <2>2 DEF Outcome
    <2>3. CASE n > 0 /\ n = m
      BY <1>2, <1>3, <1>5, <2>3 DEF Outcome
    <2> QED
      BY <1>2, <1>5, <2>1, <2>2, <2>3
  <1>11. \/ n = 0
         \/ n > 0 /\ n < m
         \/ n > 0 /\ n = m
    BY <1>2, <1>5
  <1>12. Honest(r, l, taken, Outcome(n, short))
    <2>1. Outcome(n, short) = "MATCH" <=> n = m /\ n > 0
      BY <1>2, <1>5, <1>10, <1>11
    <2>2. Outcome(n, short) = "NO_MATCH" <=> n = 0
      BY <1>2, <1>5, <1>10, <1>11
    <2> QED
      BY <1>5, <1>6, <1>8, <1>9, <1>m, <2>1, <2>2 DEF Honest
  <1> QED
    BY <1>5, <1>6, <1>7, <1>10, <1>11, <1>12 DEF taken

\* More seen and less kept leaves true what was.
LEMMA MoreSeen ==
    ASSUME NEW had, NEW more, had \subseteq more, NEW kept, NEW less, less \subseteq kept
    PROVE  /\ \A r, l : Complete(r, l, had, kept) => Complete(r, l, more, less)
           /\ \A x, l, k : Came(x, l, k, had, kept) => Came(x, l, k, more, less)
           /\ \A said, steps : Truthful(said, steps, had, kept) => Truthful(said, steps, more, less)
  <1>1. \A r, l : Complete(r, l, had, kept) => Complete(r, l, more, less)
    BY DEF Complete
  <1>2. \A x, l, k : Came(x, l, k, had, kept) => Came(x, l, k, more, less)
    BY DEF Came
  <1>3. \A said, steps : Truthful(said, steps, had, kept) => Truthful(said, steps, more, less)
    BY DEF Truthful
  <1> QED
    BY <1>1, <1>2, <1>3

-----------------------------------------------------------------------------
(* Types *)

LEMMA InitTypeOK == Init => TypeOK
  <1> SUFFICES ASSUME Init
               PROVE  TypeOK
    OBVIOUS
  <1>1. \A S : <<>> \in Seq(S)
    BY EmptySeq
  <1>2. NoRow \in [tenant: Tenants \cup {"none"}, steps: Seq(Documents)]
    BY <1>1 DEF NoRow
  <1>3. policy \in Weights
    BY RecallAssumption DEF Init
  <1>4. Idle \in Request /\ Silent \in [recalled: Nat \cup {-1}, noMatch: BOOLEAN]
    BY DEF Idle, Request, Kinds, Modes, Silent
  <1>5. NoLists \in [Indexes -> Seq(Documents)] /\ [x \in Indexes |-> 0] \in Weights
    BY <1>1 DEF NoLists, Weights
  <1>6. MaxTraces \in Nat /\ MaxUpsets \in Nat
    BY RecallAssumption
  <1> QED
    BY <1>1, <1>2, <1>3, <1>4, <1>5, <1>6 DEF Init, TypeOK, Phase

\* A call that is forgotten is typed as a new one.
LEMMA ForgetType ==
    ASSUME TypeOK, NEW c \in Callers, Forget(c), UNCHANGED <<stores, minted>>,
           upsets' \in 0..MaxUpsets
    PROVE  TypeOK'
  <1>1. \A S : <<>> \in Seq(S)
    BY EmptySeq
  <1>4. Idle \in Request /\ Silent \in [recalled: Nat \cup {-1}, noMatch: BOOLEAN]
    BY DEF Idle, Request, Kinds, Modes, Silent
  <1>5. NoLists \in [Indexes -> Seq(Documents)] /\ [x \in Indexes |-> 0] \in Weights
    BY <1>1 DEF NoLists, Weights
  <1>6. MaxTraces \in Nat /\ MaxUpsets \in Nat
    BY RecallAssumption
  <1>7. /\ index' \in [{"VECTOR", "FULL_TEXT"} -> SUBSET Documents] /\ textOrder' \in TextOrders
        /\ policy' \in Weights /\ records' \subseteq Documents /\ minted' \in 0..MaxTraces
        /\ traces' \in [TraceIds -> [tenant: Tenants \cup {"none"}, steps: Seq(Documents)]]
    BY DEF stores, TypeOK
  <1>8. /\ pc' \in [Callers -> Phase] /\ req' \in [Callers -> Request]
        /\ weights' \in [Callers -> Weights] /\ pending' \in [Callers -> SUBSET Indexes]
    BY <1>4, <1>5 DEF Forget, To, TypeOK, Phase
  <1>9. /\ fetched' \in [Callers -> [Indexes -> Seq(Documents)]]
        /\ found' \in [Callers -> Seq(Documents)] /\ items' \in [Callers -> Seq(Documents)]
        /\ status' \in [Callers -> {"none", "MATCH", "PARTIAL_MATCH", "NO_MATCH"}]
    BY <1>1, <1>5 DEF Forget, To, TypeOK
  <1>10. /\ trace' \in [Callers -> 0..MaxTraces] /\ shown' \in [Callers -> Seq(BOOLEAN)]
         /\ heard' \in [Callers -> [recalled: Nat \cup {-1}, noMatch: BOOLEAN]]
         /\ seen' \in [Callers -> SUBSET Documents] /\ steady' \in [Callers -> SUBSET Documents]
    BY <1>1, <1>4, <1>6 DEF Forget, To, TypeOK
  <1> QED
    BY <1>7, <1>8, <1>9, <1>10 DEF TypeOK

-----------------------------------------------------------------------------
(* Trace ids *)

LEMMA Counting ==
    /\ IsFiniteSet(Early) /\ IsFiniteSet(Minting)
    /\ Cardinality(Early) \in Nat /\ Cardinality(Minting) \in Nat
    /\ \A E \in SUBSET Early : Cardinality(E) \in Nat /\ Cardinality(E) <= Cardinality(Early)
    /\ \A M \in SUBSET Minting : Cardinality(M) \in Nat /\ Cardinality(M) <= Cardinality(Minting)
  <1>1. Early \in SUBSET Callers /\ Minting \in SUBSET Callers /\ IsFiniteSet(Callers)
    BY RecallAssumption DEF Early, Minting
  <1>2. IsFiniteSet(Early) /\ IsFiniteSet(Minting)
    BY <1>1, FS_Subset
  <1>3. \A E \in SUBSET Early : Cardinality(E) \in Nat /\ Cardinality(E) <= Cardinality(Early)
    BY <1>2, FS_Subset, FS_CardinalityType
  <1>4. \A M \in SUBSET Minting : Cardinality(M) \in Nat /\ Cardinality(M) <= Cardinality(Minting)
    BY <1>2, FS_Subset, FS_CardinalityType
  <1> QED
    BY <1>2, <1>3, <1>4

LEMMA EnoughStays ==
    ASSUME minted \in Nat, Enough, minted' = minted,
           Early' \subseteq Early, Minting' \subseteq Minting
    PROVE  Enough'
  <1> DEFINE E == Early'
             M == Minting'
  <1>1. E \in SUBSET Early /\ M \in SUBSET Minting
    OBVIOUS
  <1> HIDE DEF E, M
  <1>2. /\ Cardinality(E) \in Nat /\ Cardinality(E) <= Cardinality(Early)
        /\ Cardinality(M) \in Nat /\ Cardinality(M) <= Cardinality(Minting)
        /\ Cardinality(Early) \in Nat /\ Cardinality(Minting) \in Nat
    BY <1>1, Counting
  <1>3. minted + Cardinality(E) + Cardinality(M) <= MaxTraces
    BY <1>2, RecallAssumption DEF Enough
  <1> QED
    BY <1>3 DEF Enough, E, M

\* A search that mints its id owes one less.
LEMMA EnoughAfterSearch ==
    ASSUME minted \in Nat, Enough, minted' = minted + 1, NEW c \in Early,
           Early' = Early \ {c}, Minting' \subseteq Minting
    PROVE  Enough' /\ minted + 1 <= MaxTraces
  <1> DEFINE E == Early'
             M == Minting'
  <1>1. M \in SUBSET Minting /\ E = Early \ {c}
    OBVIOUS
  <1> HIDE DEF E, M
  <1>2. /\ Cardinality(M) \in Nat /\ Cardinality(M) <= Cardinality(Minting)
        /\ Cardinality(Early) \in Nat /\ Cardinality(Minting) \in Nat /\ IsFiniteSet(Early)
    BY <1>1, Counting
  <1>3. Cardinality(E) = Cardinality(Early) - 1
    BY <1>1, <1>2, FS_RemoveElement
  <1>4. Cardinality(E) \in Nat
    BY <1>1, Counting
  <1>5. /\ minted + 1 + Cardinality(E) + Cardinality(M) <= MaxTraces
        /\ minted + 1 <= MaxTraces
    BY <1>2, <1>3, <1>4, RecallAssumption DEF Enough
  <1> QED
    BY <1>5 DEF Enough, E, M

LEMMA EnoughAfterRecall ==
    ASSUME minted \in Nat, Enough, minted' \in {minted, minted + 1}, NEW c \in Minting,
           Early' \subseteq Early, Minting' = Minting \ {c}
    PROVE  Enough' /\ minted + 1 <= MaxTraces
  <1> DEFINE E == Early'
             M == Minting'
  <1>1. E \in SUBSET Early /\ M = Minting \ {c}
    OBVIOUS
  <1> HIDE DEF E, M
  <1>2. /\ Cardinality(E) \in Nat /\ Cardinality(E) <= Cardinality(Early)
        /\ Cardinality(Early) \in Nat /\ Cardinality(Minting) \in Nat /\ IsFiniteSet(Minting)
    BY <1>1, Counting
  <1>3. Cardinality(M) = Cardinality(Minting) - 1
    BY <1>1, <1>2, FS_RemoveElement
  <1>4. Cardinality(M) \in Nat
    BY <1>1, Counting
  <1>5. /\ minted' + Cardinality(E) + Cardinality(M) <= MaxTraces
        /\ minted + 1 <= MaxTraces
    BY <1>2, <1>3, <1>4, RecallAssumption DEF Enough
  <1> QED
    BY <1>5 DEF Enough, E, M

\* A call begins only while its two ids are left.
LEMMA EnoughAfterCall ==
    ASSUME minted \in Nat, IdsLeft, minted' = minted, NEW c \in Callers,
           \A d \in Early \cup Minting : OfIndexes(d),
           Early' = Early \cup {c}, Minting' = Minting \cup {c}
    PROVE  Enough'
  <1> DEFINE E == Early'
             M == Minting'
             O == {d \in Callers : OfIndexes(d)}
  <1>1. E = Early \cup {c} /\ M = Minting \cup {c} /\ Early \in SUBSET O /\ Minting \in SUBSET O
    BY DEF Early, Minting
  <1>2. O \in SUBSET Callers /\ minted + 2 * Cardinality(O) + 2 <= MaxTraces
    BY DEF IdsLeft
  <1> HIDE DEF E, M, O
  <1>3. IsFiniteSet(O) /\ Cardinality(O) \in Nat
    BY <1>2, RecallAssumption, FS_Subset, FS_CardinalityType
  <1>4. Cardinality(Early) <= Cardinality(O) /\ Cardinality(Minting) <= Cardinality(O)
    BY <1>1, <1>3, FS_Subset
  <1>5. /\ Cardinality(E) \in Int /\ Cardinality(E) <= Cardinality(Early) + 1
        /\ Cardinality(M) \in Int /\ Cardinality(M) <= Cardinality(Minting) + 1
        /\ Cardinality(Early) \in Nat /\ Cardinality(Minting) \in Nat
    <2>1. /\ Cardinality(Early) \in Nat /\ Cardinality(Minting) \in Nat
          /\ IsFiniteSet(Early) /\ IsFiniteSet(Minting)
      BY Counting
    <2>2. /\ Cardinality(Early \cup {c}) = IF c \in Early THEN Cardinality(Early) ELSE Cardinality(Early) + 1
          /\ Cardinality(Minting \cup {c}) =
                IF c \in Minting THEN Cardinality(Minting) ELSE Cardinality(Minting) + 1
      BY <2>1, FS_AddElement
    <2> QED
      BY <1>1, <2>1, <2>2
  <1>6. minted + Cardinality(E) + Cardinality(M) <= MaxTraces
    BY <1>2, <1>3, <1>4, <1>5, RecallAssumption
  <1> QED
    BY <1>6 DEF Enough, E, M

-----------------------------------------------------------------------------
(* The steps of one call leave the others alone. *)

Same(d) ==
    /\ pc'[d] = pc[d] /\ req'[d] = req[d] /\ pending'[d] = pending[d] /\ fetched'[d] = fetched[d]
    /\ found'[d] = found[d] /\ items'[d] = items[d] /\ status'[d] = status[d]
    /\ trace'[d] = trace[d] /\ shown'[d] = shown[d] /\ heard'[d] = heard[d]
    /\ seen'[d] = seen[d] /\ steady'[d] = steady[d]

LEMMA OthersStay ==
    ASSUME NEW d, CInv(d), Same(d), UNCHANGED <<index, records, traces>>
    PROVE  CInv(d)'
  <1>1. /\ pc'[d] = pc[d] /\ req'[d] = req[d] /\ pending'[d] = pending[d]
        /\ fetched'[d] = fetched[d] /\ found'[d] = found[d] /\ items'[d] = items[d]
        /\ status'[d] = status[d] /\ trace'[d] = trace[d] /\ shown'[d] = shown[d]
        /\ heard'[d] = heard[d] /\ seen'[d] = seen[d] /\ steady'[d] = steady[d]
    BY DEF Same
  <1>2. index' = index /\ records' = records /\ traces' = traces
    OBVIOUS
  <1>3. AtRest(d)'
    BY <1>1 DEF CInv, AtRest
  <1>4. BeforeResult(d)'
    BY <1>1 DEF CInv, BeforeResult
  <1>5. AfterResult(d)'
    BY <1>1 DEF CInv, AfterResult, HasResult, Answered
  <1>6. Explaining(d)'
    BY <1>1, <1>2 DEF CInv, Explaining, Answered
  <1>7. Watching(d)'
    BY <1>1, <1>2 DEF CInv, Watching, OfIndexes, Running
  <1> QED
    BY <1>3, <1>4, <1>5, <1>6, <1>7 DEF CInv

-----------------------------------------------------------------------------
(* The actions of one call *)

\* What a step of c leaves to show.
Kept(c) == CInv(c)' /\ (\A d \in Callers \ {c} : Same(d))

LEMMA OneStep ==
    ASSUME NEW c \in Callers, \A d \in Callers : CInv(d), Kept(c),
           UNCHANGED <<index, records, traces>>
    PROVE  \A d \in Callers : CInv(d)'
  <1> TAKE d \in Callers
  <1>1. CASE d = c
    BY <1>1 DEF Kept
  <1>2. CASE d # c
    <2>1. CInv(d) /\ Same(d)
      BY <1>2 DEF Kept
    <2> QED
      BY <2>1, OthersStay
  <1> QED
    BY <1>1, <1>2

\* Forgetting a call.
LEMMA ForgetKeeps ==
    ASSUME RInv, NEW c \in Callers, Forget(c), UNCHANGED <<stores, minted>>
    PROVE  Kept(c) /\ RowsHaveSteps' /\ Enough'
  <1>1. TypeOK /\ Enough /\ RowsHaveSteps
    BY DEF RInv
  <1>2. \A d \in Callers \ {c} : Same(d)
    BY <1>1 DEF Forget, To, Same, TypeOK
  <1>3. /\ pc'[c] = "idle" /\ heard'[c] = Silent /\ shown'[c] = <<>>
        /\ pc' = [pc EXCEPT ![c] = "idle"]
    BY <1>1 DEF Forget, To, TypeOK
  <1>4. CInv(c)'
    <2>1. AtRest(c)' /\ BeforeResult(c)'
      BY <1>3 DEF AtRest, BeforeResult
    <2>2. AfterResult(c)' /\ Explaining(c)' /\ Watching(c)'
      BY <1>3 DEF AfterResult, HasResult, Answered, Explaining, Watching, OfIndexes, Running
    <2> QED
      BY <2>1, <2>2 DEF CInv
  <1>5. RowsHaveSteps'
    BY <1>1 DEF RowsHaveSteps, stores
  <1>6. Early' \subseteq Early /\ Minting' \subseteq Minting
    BY <1>1, <1>3 DEF Early, Minting, TypeOK
  <1>7. minted \in Nat /\ minted' = minted
    BY <1>1, RecallAssumption DEF TypeOK
  <1>8. Enough'
    BY <1>1, <1>6, <1>7, EnoughStays
  <1> QED
    BY <1>2, <1>4, <1>5, <1>8 DEF Kept

LEMMA ForgetStep ==
    ASSUME RInv, NEW c \in Callers, Forget(c), UNCHANGED <<stores, minted>>,
           upsets' \in 0..MaxUpsets
    PROVE  RInv'
  <1>1. TypeOK /\ \A d \in Callers : CInv(d)
    BY DEF RInv
  <1>2. TypeOK'
    BY <1>1, ForgetType
  <1>3. Kept(c) /\ RowsHaveSteps' /\ Enough'
    BY ForgetKeeps
  <1>4. \A d \in Callers : CInv(d)'
    BY <1>1, <1>3, OneStep DEF stores
  <1> QED
    BY <1>2, <1>3, <1>4 DEF RInv

LEMMA LeaveStep ==
    ASSUME RInv, NEW c \in Callers, Leave(c)
    PROVE  RInv'
  <1>1. upsets' \in 0..MaxUpsets
    BY DEF RInv, TypeOK, Leave
  <1> QED
    BY <1>1, ForgetStep DEF Leave

LEMMA FailsStep ==
    ASSUME RInv, NEW c \in Callers, Fails(c)
    PROVE  RInv'
  <1>1. upsets' \in 0..MaxUpsets
    BY RecallAssumption DEF RInv, TypeOK, Fails, Upset
  <1> QED
    BY <1>1, ForgetStep DEF Fails

LEMMA CallStep ==
    ASSUME RInv, NEW c \in Callers, NEW r \in Requests, Call(c, r)
    PROVE  RInv'
  <1>1. TypeOK /\ Enough /\ RowsHaveSteps /\ (\A d \in Callers : CInv(d))
    BY DEF RInv
  <1>2. r \in Request /\ r.kind # "explain"
    BY RecallAssumption
  <1>3. TypeOK'
    BY <1>1, <1>2 DEF Call, To, TypeOK, Phase, stores, result, explaining
  <1>4. \A d \in Callers \ {c} : Same(d)
    BY <1>1 DEF Call, To, Same, TypeOK, result, explaining
  <1>5. /\ pc[c] = "idle" /\ pc'[c] = "policy" /\ req'[c] = r
        /\ seen'[c] = index["VECTOR"] \cup index["FULL_TEXT"] /\ steady'[c] = index["VECTOR"]
        /\ heard'[c] = heard[c] /\ index' = index
    BY <1>1 DEF Call, To, TypeOK, stores
  <1>6. CInv(c)'
    <2>1. heard[c] = Silent
      BY <1>1, <1>5 DEF CInv, AtRest
    <2>2. AtRest(c)' /\ BeforeResult(c)'
      BY <1>2, <1>5, <2>1 DEF AtRest, BeforeResult
    <2>3. AfterResult(c)' /\ Explaining(c)'
      BY <1>5 DEF AfterResult, HasResult, Answered, Explaining
    <2>4. Watching(c)'
      BY <1>5 DEF Watching
    <2> QED
      BY <2>2, <2>3, <2>4 DEF CInv
  <1>7. \A d \in Callers : CInv(d)'
    BY <1>1, <1>4, <1>6, OneStep DEF Kept, Call, stores
  <1>8. RowsHaveSteps'
    BY <1>1 DEF RowsHaveSteps, Call, stores
  <1>9. Enough'
    <2>1. Early' = Early \cup {c} /\ Minting' = Minting \cup {c}
      BY <1>1 DEF Early, Minting, Call, To, TypeOK
    <2>2. \A d \in Early \cup Minting : OfIndexes(d)
      BY <1>1 DEF Early, Minting, OfIndexes, Running, CInv, BeforeResult, AfterResult
    <2>3. minted \in Nat /\ minted' = minted /\ IdsLeft
      BY <1>1, RecallAssumption DEF TypeOK, Call
    <2> QED
      BY <2>1, <2>2, <2>3, EnoughAfterCall
  <1> QED
    BY <1>3, <1>7, <1>8, <1>9 DEF RInv

LEMMA PlanStep ==
    ASSUME RInv, NEW c \in Callers, Plan(c)
    PROVE  RInv'
  <1> DEFINE mode == req[c].mode
             next == IF "VECTOR" \in Targets(mode) THEN "embed" ELSE "fetch"
  <1>1. TypeOK /\ Enough /\ RowsHaveSteps /\ (\A d \in Callers : CInv(d))
    BY DEF RInv
  <1>2. mode \in Modes /\ Awaited(mode) \in SUBSET Indexes
    BY <1>1, AwaitedFacts DEF TypeOK, Request, Indexes
  <1>3. /\ pc[c] = "policy"
        /\ \/ "GRAPH" \in Targets(mode) /\ To(c, "refused") /\ UNCHANGED pending
           \/ /\ "GRAPH" \notin Targets(mode) /\ To(c, next)
              /\ pending' = [pending EXCEPT ![c] = Awaited(mode)]
    BY DEF Plan
  <1>4. weights' \in [Callers -> Weights]
    BY <1>1 DEF Plan, TypeOK
  <1>5. /\ UNCHANGED <<stores, minted, req, fetched, result, explaining, heard, history, upsets>>
        /\ UNCHANGED <<index, records, traces, found, items, status, trace, shown, seen, steady>>
    BY DEF Plan, stores, result, explaining, history
  <1>6. pending' \in [Callers -> SUBSET Indexes] /\ pc' \in [Callers -> Phase]
    <2>1. next \in Phase /\ "refused" \in Phase
      BY DEF Phase
    <2> HIDE DEF next, mode
    <2>2. CASE To(c, "refused") /\ UNCHANGED pending
      BY <1>1, <2>1, <2>2 DEF TypeOK, To
    <2>3. CASE To(c, next) /\ pending' = [pending EXCEPT ![c] = Awaited(mode)]
      BY <1>1, <1>2, <2>1, <2>3 DEF TypeOK, To
    <2> QED
      BY <1>3, <2>2, <2>3
  <1>7. TypeOK'
    BY <1>1, <1>4, <1>5, <1>6 DEF TypeOK, stores
  <1>8. \A d \in Callers \ {c} : Same(d)
    BY <1>1, <1>3, <1>5 DEF To, Same, TypeOK
  <1>9. CInv(c)'
    <2>1. req[c].kind # "explain" /\ heard[c] = Silent
      BY <1>1, <1>3 DEF CInv, BeforeResult
    <2>2. \/ "GRAPH" \in Targets(mode) /\ pc'[c] = "refused"
          \/ /\ "GRAPH" \notin Targets(mode) /\ pc'[c] \in {"embed", "fetch"}
             /\ pending'[c] = Awaited(mode)
      BY <1>1, <1>3 DEF To, TypeOK
    <2>3. AtRest(c)' /\ AfterResult(c)' /\ Explaining(c)'
      BY <2>2 DEF AtRest, AfterResult, HasResult, Answered, Explaining
    <2>4. BeforeResult(c)'
      <3>1. req'[c] = req[c] /\ heard'[c] = heard[c]
        BY <1>5
      <3> QED
        BY <2>1, <2>2, <3>1 DEF BeforeResult
    <2>5. Watching(c)'
      BY <1>1, <1>3, <1>5, <2>1, <2>2 DEF CInv, Watching, OfIndexes, Running
    <2> QED
      BY <2>3, <2>4, <2>5 DEF CInv
  <1>10. \A d \in Callers : CInv(d)'
    BY <1>1, <1>5, <1>8, <1>9, OneStep DEF Kept
  <1>11. RowsHaveSteps'
    BY <1>1, <1>5 DEF RowsHaveSteps
  <1>12. Enough'
    <2>1. Early' \subseteq Early /\ Minting' \subseteq Minting
      BY <1>1, <1>3 DEF Early, Minting, To, TypeOK
    <2>2. minted \in Nat /\ minted' = minted
      BY <1>1, <1>5, RecallAssumption DEF TypeOK
    <2> QED
      BY <1>1, <2>1, <2>2, EnoughStays
  <1> QED
    BY <1>7, <1>10, <1>11, <1>12 DEF RInv

LEMMA EmbedStep ==
    ASSUME RInv, NEW c \in Callers, Embed(c)
    PROVE  RInv'
  <1>1. TypeOK /\ Enough /\ RowsHaveSteps /\ (\A d \in Callers : CInv(d))
    BY DEF RInv
  <1>2. pc[c] = "embed" /\ pc' = [pc EXCEPT ![c] = "fetch"]
    BY DEF Embed, To
  <1>3. /\ UNCHANGED <<stores, minted, plan, pending, fetched, result, explaining, heard, history,
                       upsets>>
        /\ UNCHANGED <<index, records, traces, req, weights, found, items, status, trace, shown,
                       seen, steady>>
    BY DEF Embed, stores, plan, result, explaining, history
  <1>4. TypeOK'
    BY <1>1, <1>2, <1>3 DEF TypeOK, stores, Phase
  <1>5. \A d \in Callers \ {c} : Same(d)
    BY <1>1, <1>2, <1>3 DEF Same, TypeOK
  <1>6. CInv(c)'
    <2>1. pc'[c] = "fetch"
      BY <1>1, <1>2 DEF TypeOK
    <2>2. AtRest(c)' /\ AfterResult(c)' /\ Explaining(c)'
      BY <2>1 DEF AtRest, AfterResult, HasResult, Answered, Explaining
    <2>3. BeforeResult(c)'
      BY <1>1, <1>2, <1>3, <2>1 DEF CInv, BeforeResult
    <2>4. Watching(c)'
      BY <1>1, <1>2, <1>3, <2>1 DEF CInv, Watching, OfIndexes, Running
    <2> QED
      BY <2>2, <2>3, <2>4 DEF CInv
  <1>7. \A d \in Callers : CInv(d)'
    BY <1>1, <1>3, <1>5, <1>6, OneStep DEF Kept
  <1>8. RowsHaveSteps'
    BY <1>1, <1>3 DEF RowsHaveSteps
  <1>9. Enough'
    <2>1. Early' \subseteq Early /\ Minting' \subseteq Minting
      BY <1>1, <1>2 DEF Early, Minting, TypeOK
    <2>2. minted \in Nat /\ minted' = minted
      BY <1>1, <1>3, RecallAssumption DEF TypeOK
    <2> QED
      BY <1>1, <2>1, <2>2, EnoughStays
  <1> QED
    BY <1>4, <1>7, <1>8, <1>9 DEF RInv

LEMMA QueryStep ==
    ASSUME RInv, NEW c \in Callers, NEW x \in Indexes, Query(c, x)
    PROVE  RInv'
  <1> DEFINE order == IF x = "VECTOR" THEN VectorOrder ELSE textOrder
             l == Cut(InOrder(index[x], order), Candidates(req[c].k))
  <1>1. TypeOK /\ Enough /\ RowsHaveSteps /\ (\A d \in Callers : CInv(d))
    BY DEF RInv
  <1>2. pc[c] = "fetch" /\ x \in pending[c] /\ x \in {"VECTOR", "FULL_TEXT"}
    BY <1>1 DEF Query, TypeOK
  <1>3. fetched' = [fetched EXCEPT ![c][x] = l] /\ pending' = [pending EXCEPT ![c] = @ \ {x}]
    BY DEF Query
  <1>4. /\ UNCHANGED <<stores, minted, pc, plan, result, explaining, heard, history, upsets>>
        /\ UNCHANGED <<index, records, traces, req, weights, found, items, status, trace, shown,
                       seen, steady>>
    BY DEF Query, stores, plan, result, explaining, history
  <1>5. /\ IsOrder(order) /\ index[x] \in SUBSET Documents
        /\ req[c].k \in Nat /\ Candidates(req[c].k) \in Nat
    <2>1. IsOrder(order) /\ index[x] \in SUBSET Documents
      BY <1>1, <1>2, RecallAssumption DEF TypeOK
    <2>2. req[c].k \in Nat
      BY <1>1 DEF TypeOK, Request
    <2> QED
      BY <2>1, <2>2, LimitFacts
  <1>l. l = Cut(InOrder(index[x], order), Candidates(req[c].k))
    OBVIOUS
  <1> HIDE DEF l, order
  <1>6. /\ l \in Seq(Documents) /\ NoRepeats(l) /\ Ranked(l) \subseteq index[x]
        /\ index[x] \subseteq Ranked(l) \/ Len(l) = Candidates(req[c].k)
    BY <1>5, <1>l, QueryFacts
  <1>7. TypeOK'
    <2>1. pending' \in [Callers -> SUBSET Indexes]
      BY <1>1, <1>3 DEF TypeOK
    <2>2. fetched' \in [Callers -> [Indexes -> Seq(Documents)]]
      BY <1>1, <1>3, <1>6 DEF TypeOK
    <2> QED
      BY <1>1, <1>4, <2>1, <2>2 DEF TypeOK, stores
  <1>8. \A d \in Callers \ {c} : Same(d)
    BY <1>1, <1>3, <1>4 DEF Same, TypeOK
  <1>9. CInv(c)'
    <2>1. /\ req[c].kind # "explain" /\ heard[c] = Silent
          /\ "GRAPH" \notin Targets(req[c].mode)
          /\ pending[c] \subseteq Awaited(req[c].mode)
          /\ \A y \in Awaited(req[c].mode) \ pending[c] :
                Came(y, fetched[c][y], req[c].k, seen[c], steady[c])
      BY <1>1, <1>2 DEF CInv, BeforeResult
    <2>2. /\ pending'[c] = pending[c] \ {x} /\ fetched'[c][x] = l
          /\ \A y \in Indexes \ {x} : fetched'[c][y] = fetched[c][y]
      BY <1>1, <1>3 DEF TypeOK
    <2>3. steady[c] \subseteq index["VECTOR"] /\ index[x] \subseteq seen[c]
      BY <1>1, <1>2, <2>1 DEF CInv, Watching, OfIndexes, Running
    <2>4. Came(x, l, req[c].k, seen[c], steady[c])
      BY <1>6, <2>3 DEF Came
    <2>5. Awaited(req[c].mode) \subseteq Indexes
      BY <1>1, AwaitedFacts DEF TypeOK, Request, Indexes
    <2>6. BeforeResult(c)'
      <3>1. ASSUME NEW y \in Awaited(req[c].mode) \ pending'[c]
            PROVE  Came(y, fetched'[c][y], req[c].k, seen[c], steady[c])
        <4>1. CASE y = x
          BY <2>2, <2>4, <4>1
        <4>2. CASE y # x
          BY <2>1, <2>2, <2>5, <4>2
        <4> QED
          BY <4>1, <4>2
      <3>2. pending'[c] \subseteq Awaited(req[c].mode)
        BY <2>1, <2>2
      <3>3. pc'[c] = pc[c] /\ req'[c] = req[c] /\ heard'[c] = heard[c] /\ seen'[c] = seen[c]
             /\ steady'[c] = steady[c]
        BY <1>4
      <3> QED
        BY <1>2, <2>1, <3>1, <3>2, <3>3 DEF BeforeResult
    <2>7. AtRest(c)' /\ AfterResult(c)' /\ Explaining(c)'
      BY <1>2, <1>4 DEF AtRest, AfterResult, HasResult, Answered, Explaining
    <2>8. Watching(c)'
      BY <1>1, <1>4 DEF CInv, Watching, OfIndexes, Running
    <2> QED
      BY <2>6, <2>7, <2>8 DEF CInv
  <1>10. \A d \in Callers : CInv(d)'
    BY <1>1, <1>4, <1>8, <1>9, OneStep DEF Kept
  <1>11. RowsHaveSteps'
    BY <1>1, <1>4 DEF RowsHaveSteps
  <1>12. Enough'
    BY <1>1, <1>4 DEF Enough, Early, Minting
  <1> QED
    BY <1>7, <1>10, <1>11, <1>12 DEF RInv

LEMMA SearchStep ==
    ASSUME RInv, NEW c \in Callers, Search(c)
    PROVE  RInv'
  <1> DEFINE top == Cut(Ranking(c), FinalK(req[c].k))
             next == IF req[c].kind = "search" THEN "answered" ELSE "recalled"
  <1>1. TypeOK /\ Enough /\ RowsHaveSteps /\ (\A d \in Callers : CInv(d))
    BY DEF RInv
  <1>2. pc[c] = "fetch" /\ pending[c] = {}
    BY DEF Search
  <1>3. /\ found' = [found EXCEPT ![c] = top]
        /\ heard' = [heard EXCEPT ![c].recalled = Len(top)]
        /\ minted' = minted + 1 /\ pc' = [pc EXCEPT ![c] = next]
    BY DEF Search, To
  <1>4. /\ UNCHANGED <<stores, plan, pending, fetched, items, status, explaining, history, upsets>>
        /\ UNCHANGED <<index, records, traces, req, weights, trace, shown, seen, steady>>
    BY DEF Search, stores, plan, explaining, history
  <1>5. /\ req[c].kind # "explain" /\ heard[c] = Silent
        /\ "GRAPH" \notin Targets(req[c].mode)
        /\ \A x \in Awaited(req[c].mode) :
              Came(x, fetched[c][x], req[c].k, seen[c], steady[c])
    BY <1>1, <1>2 DEF CInv, BeforeResult
  <1>6. /\ req[c] \in Request /\ weights[c] \in Weights
        /\ fetched[c] \in [Indexes -> Seq(Documents)]
    BY <1>1 DEF TypeOK
  <1>7. /\ top \in Seq(Documents)
        /\ Evident(req[c].mode, fetched[c], top)
        /\ Complete(req[c], top, seen[c], steady[c])
    <2>1. top = Cut(Merged(req[c].mode, fetched[c]["VECTOR"], fetched[c]["FULL_TEXT"], weights[c]),
                    FinalK(req[c].k))
      BY DEF Ranking
    <2> HIDE DEF top
    <2> QED
      BY <1>5, <1>6, <2>1, SearchResult
  <1>8. next \in {"answered", "recalled"} /\ (next = "answered" <=> req[c].kind = "search")
    OBVIOUS
  <1> HIDE DEF top, next
  <1>9. Len(top) \in Nat
    BY <1>7, LenProperties
  <1>10. Enough' /\ minted + 1 <= MaxTraces
    <2>1. Early' = Early \ {c} /\ Minting' \subseteq Minting /\ c \in Early
      BY <1>1, <1>2, <1>3, <1>8 DEF Early, Minting, TypeOK
    <2>2. minted \in Nat
      BY <1>1, RecallAssumption DEF TypeOK
    <2> QED
      BY <1>1, <1>3, <2>1, <2>2, EnoughAfterSearch
  <1>11. TypeOK'
    <2>1. minted' \in 0..MaxTraces
      BY <1>1, <1>3, <1>10, RecallAssumption DEF TypeOK
    <2>2. pc' \in [Callers -> Phase] /\ found' \in [Callers -> Seq(Documents)]
      <3>1. pc \in [Callers -> Phase] /\ found \in [Callers -> Seq(Documents)]
        BY <1>1 DEF TypeOK
      <3>2. next \in Phase /\ top \in Seq(Documents)
        BY <1>7, <1>8 DEF Phase
      <3> QED BY <1>3, <3>1, <3>2
    <2>3. heard' \in [Callers -> [recalled: Nat \cup {-1}, noMatch: BOOLEAN]]
      <3> DEFINE Heard == [recalled: Nat \cup {-1}, noMatch: BOOLEAN]
      <3>1. heard \in [Callers -> Heard]
        BY <1>1 DEF TypeOK
      <3>2. [heard[c] EXCEPT !.recalled = Len(top)] \in Heard
        BY <1>9, <3>1
      <3>3. heard' = [heard EXCEPT ![c] = [heard[c] EXCEPT !.recalled = Len(top)]]
        BY <1>3
      <3> HIDE DEF Heard
      <3>4. heard' \in [Callers -> Heard]
        BY <3>1, <3>2, <3>3
      <3> QED BY <3>4 DEF Heard
    <2> QED
      BY <1>1, <1>4, <2>1, <2>2, <2>3 DEF TypeOK, stores
  <1>12. \A d \in Callers \ {c} : Same(d)
    BY <1>1, <1>3, <1>4 DEF Same, TypeOK
  <1>13. CInv(c)'
    <2>1. /\ pc'[c] = next /\ found'[c] = top
          /\ heard'[c].recalled = Len(top) /\ heard'[c].noMatch = heard[c].noMatch
      BY <1>1, <1>3 DEF TypeOK
    <2>2. heard[c].noMatch = FALSE
      BY <1>5 DEF Silent
    <2>3. req[c].kind \in {"search", "recall"} /\ req'[c] = req[c]
      BY <1>4, <1>5, <1>6 DEF Request, Kinds
    <2>4. AtRest(c)' /\ BeforeResult(c)' /\ Explaining(c)'
      BY <1>8, <2>1, <2>3 DEF AtRest, BeforeResult, Explaining, Answered
    <2>5. AfterResult(c)'
      BY <1>4, <1>7, <1>8, <2>1, <2>2, <2>3 DEF AfterResult, HasResult, Answered
    <2>6. Watching(c)'
      BY <1>1, <1>2, <1>4, <1>5 DEF CInv, Watching, OfIndexes, Running
    <2> QED
      BY <2>4, <2>5, <2>6 DEF CInv
  <1>14. \A d \in Callers : CInv(d)'
    BY <1>1, <1>4, <1>12, <1>13, OneStep DEF Kept
  <1>15. RowsHaveSteps'
    BY <1>1, <1>4 DEF RowsHaveSteps
  <1> QED
    BY <1>10, <1>11, <1>14, <1>15 DEF RInv

LEMMA RecollectStep ==
    ASSUME RInv, NEW c \in Callers, Recollect(c)
    PROVE  RInv'
  <1> DEFINE short == Cut(found[c], req[c].k)
             n == IF req[c].limited THEN Fitting(short, req[c].budget) ELSE Len(short)
             taken == Cut(short, n)
             word == Outcome(n, short)
             next == IF TellsNoMatch(c, n) THEN "no match" ELSE "answered"
  <1>1. TypeOK /\ Enough /\ RowsHaveSteps /\ (\A d \in Callers : CInv(d))
    BY DEF RInv
  <1>2. pc[c] = "recalled"
    BY DEF Recollect
  <1>3. /\ items' = [items EXCEPT ![c] = taken] /\ status' = [status EXCEPT ![c] = word]
        /\ pc' = [pc EXCEPT ![c] = next]
    BY DEF Recollect, To
  <1>4. \/ UNCHANGED <<minted, trace>>
        \/ minted' = minted + 1 /\ trace' = [trace EXCEPT ![c] = minted + 1]
    BY DEF Recollect
  <1>5. /\ UNCHANGED <<stores, plan, pending, fetched, found, shown, heard, history, upsets>>
        /\ UNCHANGED <<index, records, traces, req, weights, seen, steady>>
    BY DEF Recollect, stores, plan, history
  <1>6. /\ req[c].kind = "recall" /\ heard[c].noMatch = FALSE /\ heard[c].recalled = Len(found[c])
        /\ Evident(req[c].mode, fetched[c], found[c])
        /\ Complete(req[c], found[c], seen[c], steady[c])
    BY <1>1, <1>2 DEF CInv, AfterResult, HasResult
  <1>7. req[c] \in Request /\ found[c] \in Seq(Documents)
    BY <1>1 DEF TypeOK
  <1>n. n = (IF req[c].limited THEN Fitting(short, req[c].budget) ELSE Len(short))
        /\ taken = Cut(short, n) /\ word = Outcome(n, short)
    OBVIOUS
  <1>s. short = Cut(found[c], req[c].k)
    OBVIOUS
  <1>8. next = "no match" <=> n = 0
    BY DEF TellsNoMatch
  <1>9. next \in {"no match", "answered"}
    OBVIOUS
  <1> HIDE DEF n, short, taken, word, next
  <1>10. /\ taken \in Seq(Documents) /\ n \in Nat /\ Len(taken) = n
         /\ word \in {"MATCH", "PARTIAL_MATCH", "NO_MATCH"}
         /\ Honest(req[c], found[c], taken, word)
    <2>1. /\ Cut(short, n) \in Seq(Documents)
          /\ n \in Nat /\ Len(Cut(short, n)) = n
          /\ Outcome(n, short) \in {"MATCH", "PARTIAL_MATCH", "NO_MATCH"}
          /\ Honest(req[c], found[c], Cut(short, n), Outcome(n, short))
      BY <1>7, <1>n, <1>s, RecallResult
    <2> QED
      BY <1>n, <2>1
  <1>11. taken = <<>> <=> n = 0
    BY <1>10, ListBasics
  <1>12. Enough' /\ minted + 1 <= MaxTraces
    <2>1. Early' \subseteq Early /\ Minting' = Minting \ {c} /\ c \in Minting
      BY <1>1, <1>2, <1>3, <1>9 DEF Early, Minting, TypeOK
    <2>2. minted \in Nat /\ minted' \in {minted, minted + 1}
      BY <1>1, <1>4, RecallAssumption DEF TypeOK
    <2> QED
      BY <1>1, <2>1, <2>2, EnoughAfterRecall
  <1>13. TypeOK'
    <2>1. minted + 1 \in 0..MaxTraces
      BY <1>1, <1>12, RecallAssumption DEF TypeOK
    <2>2. minted' \in 0..MaxTraces /\ trace' \in [Callers -> 0..MaxTraces]
      <3>1. CASE UNCHANGED <<minted, trace>>
        BY <1>1, <3>1 DEF TypeOK
      <3>2. CASE minted' = minted + 1 /\ trace' = [trace EXCEPT ![c] = minted + 1]
        BY <1>1, <2>1, <3>2 DEF TypeOK
      <3> QED
        BY <1>4, <3>1, <3>2
    <2>3. pc' \in [Callers -> Phase] /\ items' \in [Callers -> Seq(Documents)]
      BY <1>1, <1>3, <1>9, <1>10 DEF TypeOK, Phase
    <2>4. status' \in [Callers -> {"none", "MATCH", "PARTIAL_MATCH", "NO_MATCH"}]
      BY <1>1, <1>3, <1>10 DEF TypeOK
    <2> QED
      BY <1>1, <1>5, <2>2, <2>3, <2>4 DEF TypeOK, stores
  <1>14. \A d \in Callers \ {c} : Same(d)
    BY <1>1, <1>3, <1>4, <1>5 DEF Same, TypeOK
  <1>15. CInv(c)'
    <2>1. pc'[c] = next /\ items'[c] = taken /\ status'[c] = word
      BY <1>1, <1>3 DEF TypeOK
    <2>2. /\ req'[c] = req[c] /\ found'[c] = found[c] /\ fetched'[c] = fetched[c]
          /\ heard'[c] = heard[c] /\ seen'[c] = seen[c] /\ steady'[c] = steady[c]
      BY <1>5
    <2>3. AtRest(c)' /\ BeforeResult(c)' /\ Explaining(c)'
      BY <1>6, <1>9, <2>1, <2>2 DEF AtRest, BeforeResult, Explaining, Answered
    <2>4. AfterResult(c)'
      BY <1>6, <1>8, <1>9, <1>10, <1>11, <2>1, <2>2 DEF AfterResult, HasResult, Answered
    <2>5. Watching(c)'
      BY <1>1, <1>2, <1>5, <1>6 DEF CInv, Watching, OfIndexes, Running
    <2> QED
      BY <2>3, <2>4, <2>5 DEF CInv
  <1>16. \A d \in Callers : CInv(d)'
    BY <1>1, <1>5, <1>14, <1>15, OneStep DEF Kept
  <1>17. RowsHaveSteps'
    BY <1>1, <1>5 DEF RowsHaveSteps
  <1> QED
    BY <1>12, <1>13, <1>16, <1>17 DEF RInv

LEMMA EmitNoMatchStep ==
    ASSUME RInv, NEW c \in Callers, EmitNoMatch(c)
    PROVE  RInv'
  <1>1. TypeOK /\ Enough /\ RowsHaveSteps /\ (\A d \in Callers : CInv(d))
    BY DEF RInv
  <1>2. /\ pc[c] = "no match" /\ pc' = [pc EXCEPT ![c] = "answered"]
        /\ heard' = [heard EXCEPT ![c].noMatch = TRUE]
    BY DEF EmitNoMatch, To
  <1>3. /\ UNCHANGED <<stores, minted, plan, pending, fetched, result, explaining, history, upsets>>
        /\ UNCHANGED <<index, records, traces, req, weights, found, items, status, trace, shown,
                       seen, steady>>
    BY DEF EmitNoMatch, stores, plan, result, explaining, history
  <1>4. TypeOK'
    BY <1>1, <1>2, <1>3 DEF TypeOK, stores, Phase
  <1>5. \A d \in Callers \ {c} : Same(d)
    BY <1>1, <1>2, <1>3 DEF Same, TypeOK
  <1>6. CInv(c)'
    <2>1. /\ pc'[c] = "answered" /\ heard'[c].noMatch = TRUE
          /\ heard'[c].recalled = heard[c].recalled
      BY <1>1, <1>2 DEF TypeOK
    <2>2. /\ req[c].kind = "recall" /\ items[c] = <<>> /\ heard[c].recalled = Len(found[c])
          /\ Evident(req[c].mode, fetched[c], found[c])
          /\ Complete(req[c], found[c], seen[c], steady[c])
          /\ Honest(req[c], found[c], items[c], status[c])
      BY <1>1, <1>2 DEF CInv, AfterResult, HasResult
    <2>3. AtRest(c)' /\ BeforeResult(c)' /\ Explaining(c)' /\ Watching(c)'
      BY <1>3, <2>1, <2>2 DEF AtRest, BeforeResult, Explaining, Answered, Watching, OfIndexes,
                              Running
    <2>4. AfterResult(c)'
      BY <1>3, <2>1, <2>2 DEF AfterResult, HasResult, Answered
    <2> QED
      BY <2>3, <2>4 DEF CInv
  <1>7. \A d \in Callers : CInv(d)'
    BY <1>1, <1>3, <1>5, <1>6, OneStep DEF Kept
  <1>8. RowsHaveSteps'
    BY <1>1, <1>3 DEF RowsHaveSteps
  <1>9. Enough'
    <2>1. Early' \subseteq Early /\ Minting' \subseteq Minting
      BY <1>1, <1>2 DEF Early, Minting, TypeOK
    <2>2. minted \in Nat /\ minted' = minted
      BY <1>1, <1>3, RecallAssumption DEF TypeOK
    <2> QED
      BY <1>1, <2>1, <2>2, EnoughStays
  <1> QED
    BY <1>4, <1>7, <1>8, <1>9 DEF RInv

LEMMA ExplainStep ==
    ASSUME RInv, NEW c \in Callers, NEW t \in TraceIds, Explain(c, t)
    PROVE  RInv'
  <1>1. TypeOK /\ Enough /\ RowsHaveSteps /\ (\A d \in Callers : CInv(d))
    BY DEF RInv
  <1>2. /\ pc[c] = "idle" /\ pc' = [pc EXCEPT ![c] = "trace"]
        /\ req' = [req EXCEPT ![c].kind = "explain"] /\ trace' = [trace EXCEPT ![c] = t]
        /\ seen' = [seen EXCEPT ![c] = records] /\ steady' = [steady EXCEPT ![c] = records]
    BY DEF Explain, To
  <1>3. /\ UNCHANGED <<stores, minted, weights, pending, fetched, result, shown, heard, upsets>>
        /\ UNCHANGED <<index, records, traces, found, items, status>>
    BY DEF Explain, stores, result
  <1>4. TypeOK'
    <2>1. t \in 0..MaxTraces
      BY RecallAssumption DEF TraceIds
    <2>2. req' \in [Callers -> Request]
      <3>1. req \in [Callers -> Request]
        BY <1>1 DEF TypeOK
      <3>2. [req[c] EXCEPT !.kind = "explain"] \in Request
        BY <3>1 DEF Request, Kinds
      <3>3. req' = [req EXCEPT ![c] = [req[c] EXCEPT !.kind = "explain"]]
        BY <1>2
      <3> HIDE DEF Request
      <3> QED BY <3>1, <3>2, <3>3
    <2>3. /\ trace' \in [Callers -> 0..MaxTraces] /\ pc' \in [Callers -> Phase]
          /\ seen' \in [Callers -> SUBSET Documents] /\ steady' \in [Callers -> SUBSET Documents]
      BY <1>1, <1>2, <2>1 DEF TypeOK, Phase
    <2> QED
      BY <1>1, <1>3, <2>2, <2>3 DEF TypeOK, stores
  <1>5. \A d \in Callers \ {c} : Same(d)
    BY <1>1, <1>2, <1>3 DEF Same, TypeOK
  <1>6. CInv(c)'
    <2>1. /\ pc'[c] = "trace" /\ req'[c].kind = "explain" /\ trace'[c] = t
          /\ seen'[c] = records /\ steady'[c] = records
      BY <1>1, <1>2 DEF TypeOK, Request
    <2>2. shown[c] = <<>>
      BY <1>1, <1>2 DEF CInv, AtRest
    <2>3. AtRest(c)' /\ BeforeResult(c)' /\ AfterResult(c)' /\ Watching(c)'
      BY <2>1 DEF AtRest, BeforeResult, AfterResult, HasResult, Answered, Watching, OfIndexes
    <2>4. Explaining(c)'
      BY <1>3, <2>1, <2>2 DEF Explaining, Answered
    <2> QED
      BY <2>3, <2>4 DEF CInv
  <1>7. \A d \in Callers : CInv(d)'
    BY <1>1, <1>3, <1>5, <1>6, OneStep DEF Kept
  <1>8. RowsHaveSteps'
    BY <1>1, <1>3 DEF RowsHaveSteps
  <1>9. Enough'
    <2>1. Early' \subseteq Early /\ Minting' \subseteq Minting
      BY <1>1, <1>2 DEF Early, Minting, TypeOK
    <2>2. minted \in Nat /\ minted' = minted
      BY <1>1, <1>3, RecallAssumption DEF TypeOK
    <2> QED
      BY <1>1, <2>1, <2>2, EnoughStays
  <1> QED
    BY <1>4, <1>7, <1>8, <1>9 DEF RInv

LEMMA LoadTraceStep ==
    ASSUME RInv, NEW c \in Callers, LoadTrace(c)
    PROVE  RInv'
  <1> DEFINE row == traces[trace[c]]
  <1>1. TypeOK /\ Enough /\ RowsHaveSteps /\ (\A d \in Callers : CInv(d))
    BY DEF RInv
  <1>2. /\ pc[c] = "trace"
        /\ \/ To(c, "missing") /\ UNCHANGED items
           \/ /\ row.tenant = TenantOf[c] /\ To(c, "record")
              /\ items' = [items EXCEPT ![c] = row.steps]
    BY DEF LoadTrace, RowVisible
  <1>3. /\ UNCHANGED <<stores, minted, plan, pending, fetched, found, status, explaining, heard,
                       history, upsets>>
        /\ UNCHANGED <<index, records, traces, req, weights, trace, shown, seen, steady>>
    BY DEF LoadTrace, stores, plan, explaining, history
  <1>4. /\ req[c].kind = "explain" /\ trace[c] \in TraceIds /\ steady[c] \subseteq records
        /\ records \subseteq seen[c] /\ shown[c] = <<>>
    BY <1>1, <1>2 DEF CInv, Explaining
  <1>5. row.steps \in Seq(Documents) /\ (row.tenant = TenantOf[c] => row.steps # <<>>)
    BY <1>1, <1>4, RecallAssumption DEF TypeOK, RowsHaveSteps
  <1>6. TypeOK'
    <2>1. pc' \in [Callers -> Phase] /\ items' \in [Callers -> Seq(Documents)]
      <3>1. CASE To(c, "missing") /\ UNCHANGED items
        BY <1>1, <3>1 DEF TypeOK, To, Phase
      <3>2. CASE To(c, "record") /\ items' = [items EXCEPT ![c] = row.steps]
        BY <1>1, <1>5, <3>2 DEF TypeOK, To, Phase
      <3> QED
        BY <1>2, <3>1, <3>2
    <2> QED
      BY <1>1, <1>3, <2>1 DEF TypeOK, stores
  <1>7. \A d \in Callers \ {c} : Same(d)
    BY <1>1, <1>2, <1>3 DEF Same, TypeOK, To
  <1>8. CInv(c)'
    <2>1. \/ pc'[c] = "missing"
          \/ pc'[c] = "record" /\ items'[c] = row.steps /\ row.tenant = TenantOf[c]
      BY <1>1, <1>2 DEF To, TypeOK
    <2>2. AtRest(c)' /\ BeforeResult(c)' /\ AfterResult(c)'
      BY <2>1 DEF AtRest, BeforeResult, AfterResult, HasResult, Answered
    <2>3. Watching(c)'
      BY <1>3, <1>4 DEF Watching, OfIndexes
    <2>4. Explaining(c)'
      <3>1. Truthful(<<>>, row.steps, seen[c], steady[c])
        BY DEF Truthful
      <3>2. row.steps # <<>> => Len(<<>>) < Len(row.steps)
        BY <1>5, EmptySeq
      <3>3. /\ shown'[c] = <<>> /\ trace'[c] = trace[c] /\ traces' = traces /\ req'[c] = req[c]
            /\ seen'[c] = seen[c] /\ steady'[c] = steady[c] /\ records' = records
        BY <1>3, <1>4
      <3> QED
        BY <1>4, <1>5, <2>1, <3>1, <3>2, <3>3 DEF Explaining, Answered
    <2> QED
      BY <2>2, <2>3, <2>4 DEF CInv
  <1>9. \A d \in Callers : CInv(d)'
    BY <1>1, <1>3, <1>7, <1>8, OneStep DEF Kept
  <1>10. RowsHaveSteps'
    BY <1>1, <1>3 DEF RowsHaveSteps
  <1>11. Enough'
    <2>1. Early' \subseteq Early /\ Minting' \subseteq Minting
      BY <1>1, <1>2 DEF Early, Minting, TypeOK, To
    <2>2. minted \in Nat /\ minted' = minted
      BY <1>1, <1>3, RecallAssumption DEF TypeOK
    <2> QED
      BY <1>1, <2>1, <2>2, EnoughStays
  <1> QED
    BY <1>6, <1>9, <1>10, <1>11 DEF RInv

LEMMA LoadRecordStep ==
    ASSUME RInv, NEW c \in Callers, LoadRecord(c)
    PROVE  RInv'
  <1> DEFINE n == Len(shown[c]) + 1
             there == items[c][n] \in records
             next == IF n = Len(items[c]) THEN "answered" ELSE "record"
  <1>1. TypeOK /\ Enough /\ RowsHaveSteps /\ (\A d \in Callers : CInv(d))
    BY DEF RInv
  <1>2. /\ pc[c] = "record" /\ pc' = [pc EXCEPT ![c] = next]
        /\ shown' = [shown EXCEPT ![c] = Append(@, there)]
    BY DEF LoadRecord, To
  <1>3. /\ UNCHANGED <<stores, minted, plan, pending, fetched, result, trace, heard, history, upsets>>
        /\ UNCHANGED <<index, records, traces, req, weights, found, items, status, seen, steady>>
    BY DEF LoadRecord, stores, plan, result, history
  <1>4. /\ req[c].kind = "explain" /\ trace[c] \in TraceIds /\ steady[c] \subseteq records
        /\ records \subseteq seen[c]
        /\ traces[trace[c]].tenant = TenantOf[c] /\ items[c] = traces[trace[c]].steps
        /\ Truthful(shown[c], items[c], seen[c], steady[c])
        /\ Len(shown[c]) < Len(items[c])
    BY <1>1, <1>2 DEF CInv, Explaining
  <1>5. /\ shown[c] \in Seq(BOOLEAN) /\ items[c] \in Seq(Documents)
        /\ Len(shown[c]) \in Nat /\ DOMAIN shown[c] = 1..Len(shown[c]) /\ Len(items[c]) \in Nat
    BY <1>1, ListBasics DEF TypeOK
  <1>6. there \in BOOLEAN /\ (there <=> items[c][n] \in records) /\ n = Len(shown[c]) + 1
    OBVIOUS
  <1>7. next \in {"answered", "record"} /\ (next = "answered" <=> n = Len(items[c]))
    OBVIOUS
  <1> HIDE DEF there, next, n
  <1> DEFINE said == Append(shown[c], there)
  <1>8. /\ said \in Seq(BOOLEAN) /\ Len(said) = n /\ DOMAIN said = 1..n
        /\ said[n] = there /\ \A i \in 1..Len(shown[c]) : said[i] = shown[c][i]
    BY <1>5, <1>6
  <1>9. Truthful(said, items[c], seen[c], steady[c])
    <2>1. \A i \in 1..n : i = n \/ i \in 1..Len(shown[c])
      BY <1>5, <1>6
    <2>2. /\ said[n] => items[c][n] \in seen[c]
          /\ items[c][n] \in steady[c] => said[n]
      BY <1>4, <1>6, <1>8
    <2>3. \A i \in 1..Len(shown[c]) : /\ said[i] => items[c][i] \in seen[c]
                                      /\ items[c][i] \in steady[c] => said[i]
      BY <1>4, <1>5, <1>8 DEF Truthful
    <2> HIDE DEF said
    <2> QED
      BY <1>8, <2>1, <2>2, <2>3 DEF Truthful
  <1>10. shown' = [shown EXCEPT ![c] = said]
    BY <1>1, <1>2 DEF TypeOK
  <1> HIDE DEF said
  <1>11. TypeOK'
    <2>1. pc' \in [Callers -> Phase]
      BY <1>1, <1>2, <1>7 DEF TypeOK, Phase
    <2>2. shown' \in [Callers -> Seq(BOOLEAN)]
      BY <1>1, <1>8, <1>10 DEF TypeOK
    <2> QED
      BY <1>1, <1>3, <2>1, <2>2 DEF TypeOK, stores
  <1>12. \A d \in Callers \ {c} : Same(d)
    BY <1>1, <1>2, <1>3, <1>10 DEF Same, TypeOK
  <1>13. CInv(c)'
    <2>1. pc'[c] = next /\ shown'[c] = said
      BY <1>1, <1>2, <1>10 DEF TypeOK
    <2>2. AtRest(c)' /\ BeforeResult(c)' /\ AfterResult(c)' /\ Watching(c)'
      BY <1>3, <1>4, <1>7, <2>1 DEF AtRest, BeforeResult, AfterResult, HasResult, Answered,
                                    Watching, OfIndexes
    <2>3. Explaining(c)'
      <3>1. /\ trace'[c] = trace[c] /\ traces' = traces /\ req'[c] = req[c] /\ items'[c] = items[c]
            /\ seen'[c] = seen[c] /\ steady'[c] = steady[c] /\ records' = records
        BY <1>3
      <3>2. next = "record" => Len(said) < Len(items[c])
        BY <1>4, <1>5, <1>6, <1>7, <1>8
      <3>3. next = "answered" => Len(said) = Len(items[c])
        BY <1>7, <1>8
      <3> QED
        BY <1>4, <1>7, <1>9, <2>1, <3>1, <3>2, <3>3 DEF Explaining, Answered
    <2> QED
      BY <2>2, <2>3 DEF CInv
  <1>14. \A d \in Callers : CInv(d)'
    BY <1>1, <1>3, <1>12, <1>13, OneStep DEF Kept
  <1>15. RowsHaveSteps'
    BY <1>1, <1>3 DEF RowsHaveSteps
  <1>16. Enough'
    <2>1. Early' \subseteq Early /\ Minting' \subseteq Minting
      BY <1>1, <1>2, <1>7 DEF Early, Minting, TypeOK
    <2>2. minted \in Nat /\ minted' = minted
      BY <1>1, <1>3, RecallAssumption DEF TypeOK
    <2> QED
      BY <1>1, <2>1, <2>2, EnoughStays
  <1> QED
    BY <1>11, <1>14, <1>15, <1>16 DEF RInv

-----------------------------------------------------------------------------
(* The rows of the traces, and what happens from outside *)

\* A row that is there stays as it is, so an explanation under way is not touched.
LEMMA SaveTraceStep ==
    ASSUME RInv, NEW c \in Callers, SaveTrace(c)
    PROVE  RInv'
  <1> DEFINE t == trace[c]
             row == [tenant |-> Owner, steps |-> items[c]]
  <1>1. TypeOK /\ Enough /\ RowsHaveSteps /\ (\A d \in Callers : CInv(d))
    BY DEF RInv
  <1>2. /\ items[c] # <<>> /\ traces[t] = NoRow
        /\ traces' = [traces EXCEPT ![t] = row]
    BY DEF SaveTrace
  <1>3. UNCHANGED <<index, textOrder, policy, records, minted, pc, req, weights, pending, fetched,
                    found, items, status, trace, shown, heard, seen, steady, upsets>>
    BY DEF SaveTrace, plan, result, explaining, history
  <1>4. row \in [tenant: Tenants \cup {"none"}, steps: Seq(Documents)]
    BY <1>1, RecallAssumption DEF TypeOK
  <1>5. TypeOK'
    <2>1. traces' \in [TraceIds -> [tenant: Tenants \cup {"none"}, steps: Seq(Documents)]]
      BY <1>1, <1>2, <1>4 DEF TypeOK
    <2> QED
      BY <1>1, <1>3, <2>1 DEF TypeOK
  <1>6. RowsHaveSteps'
    BY <1>1, <1>2 DEF RowsHaveSteps, TypeOK
  <1>7. \A u \in TraceIds : traces[u].tenant \in Tenants => traces'[u] = traces[u]
    BY <1>1, <1>2, RecallAssumption DEF TypeOK, NoRow
  <1>8. \A d \in Callers : CInv(d)'
    <2> TAKE d \in Callers
    <2>1. CInv(d) /\ TenantOf[d] \in Tenants
      BY <1>1, RecallAssumption
    <2>2. AtRest(d)' /\ BeforeResult(d)' /\ AfterResult(d)' /\ Watching(d)'
      BY <1>3, <2>1 DEF CInv, AtRest, BeforeResult, AfterResult, HasResult, Answered, Watching,
                        OfIndexes, Running
    <2>3. Explaining(d)'
      BY <1>3, <1>7, <2>1 DEF CInv, Explaining, Answered
    <2> QED
      BY <2>2, <2>3 DEF CInv
  <1>9. Enough'
    BY <1>1, <1>3 DEF Enough, Early, Minting
  <1> QED
    BY <1>5, <1>6, <1>8, <1>9 DEF RInv

LEMMA IndexChangesStep ==
    ASSUME RInv, NEW x \in DOMAIN index, NEW d \in Documents, IndexChanges(x, d)
    PROVE  RInv'
  <1>1. TypeOK /\ Enough /\ RowsHaveSteps /\ (\A c \in Callers : CInv(c))
    BY DEF RInv
  <1>2. x \in {"VECTOR", "FULL_TEXT"}
    BY <1>1 DEF TypeOK
  <1>3. /\ UNCHANGED <<textOrder, policy, records, traces, minted, pc, req, weights, pending,
                       fetched, found, items, status, trace, shown, heard>>
        /\ upsets' \in 0..MaxUpsets
    BY <1>1, RecallAssumption DEF IndexChanges, Upset, TypeOK, plan, result, explaining
  <1>4. \/ /\ index' = [index EXCEPT ![x] = @ \cup {d}]
           /\ seen' = [c \in Callers |-> IF OfIndexes(c) THEN seen[c] \cup {d} ELSE seen[c]]
           /\ steady' = steady
        \/ /\ index' = [index EXCEPT ![x] = @ \ {d}]
           /\ steady' = [c \in Callers |-> IF OfIndexes(c) /\ x = "VECTOR" THEN steady[c] \ {d}
                                          ELSE steady[c]]
           /\ seen' = seen
    BY DEF IndexChanges
  <1>5. /\ index' \in [{"VECTOR", "FULL_TEXT"} -> SUBSET Documents]
        /\ seen' \in [Callers -> SUBSET Documents] /\ steady' \in [Callers -> SUBSET Documents]
    <2>1. index' \in [{"VECTOR", "FULL_TEXT"} -> SUBSET Documents]
      BY <1>1, <1>2, <1>4 DEF TypeOK
    <2>2. seen' \in [Callers -> SUBSET Documents]
      <3>1. /\ seen \in [Callers -> SUBSET Documents]
            /\ \/ seen' = [c \in Callers |-> IF OfIndexes(c) THEN seen[c] \cup {d} ELSE seen[c]]
               \/ seen' = seen
        BY <1>1, <1>4 DEF TypeOK
      <3>2. \A c \in Callers : seen[c] \in SUBSET Documents /\ seen[c] \cup {d} \in SUBSET Documents
        BY <3>1
      <3> QED
        BY <3>1, <3>2
    <2>3. steady' \in [Callers -> SUBSET Documents]
      <3>1. /\ steady \in [Callers -> SUBSET Documents]
            /\ \/ steady' = [c \in Callers |-> IF OfIndexes(c) /\ x = "VECTOR"
                                               THEN steady[c] \ {d} ELSE steady[c]]
               \/ steady' = steady
        BY <1>1, <1>4 DEF TypeOK
      <3>2. \A c \in Callers : steady[c] \in SUBSET Documents /\ steady[c] \ {d} \in SUBSET Documents
        BY <3>1
      <3> QED
        BY <3>1, <3>2
    <2> QED
      BY <2>1, <2>2, <2>3
  <1>6. TypeOK'
    BY <1>1, <1>3, <1>5 DEF TypeOK
  <1>7. ASSUME NEW c \in Callers
        PROVE  CInv(c)'
    <2>1. CInv(c)
      BY <1>1
    <2>2. /\ seen[c] \subseteq seen'[c] /\ steady'[c] \subseteq steady[c]
          /\ ~OfIndexes(c) => seen'[c] = seen[c] /\ steady'[c] = steady[c]
      BY <1>1, <1>4 DEF TypeOK
    <2>3. /\ \A r, l : Complete(r, l, seen[c], steady[c]) => Complete(r, l, seen'[c], steady'[c])
          /\ \A y, l, k : Came(y, l, k, seen[c], steady[c]) => Came(y, l, k, seen'[c], steady'[c])
      BY <2>2, MoreSeen
    <2>4. AtRest(c)'
      BY <1>3, <2>1 DEF CInv, AtRest
    <2>5. BeforeResult(c)'
      BY <1>3, <2>1, <2>3 DEF CInv, BeforeResult
    <2>6. AfterResult(c)'
      BY <1>3, <2>1, <2>3 DEF CInv, AfterResult, HasResult, Answered
    <2>7. Explaining(c)'
      <3>1. pc[c] \in {"trace", "record"} \/ Answered(c, "explain") => ~OfIndexes(c)
        BY <2>1 DEF CInv, Explaining, OfIndexes, Running, Answered
      <3> QED
        BY <1>3, <2>1, <2>2, <3>1 DEF CInv, Explaining, Answered
    <2>8. Watching(c)'
      <3>1. OfIndexes(c)' <=> OfIndexes(c)
        BY <1>3 DEF OfIndexes, Running
      <3> SUFFICES ASSUME OfIndexes(c)
                   PROVE  /\ steady'[c] \subseteq index'["VECTOR"]
                          /\ index'["VECTOR"] \cup index'["FULL_TEXT"] \subseteq seen'[c]
        BY <3>1 DEF Watching
      <3>2. /\ steady[c] \subseteq index["VECTOR"]
            /\ index["VECTOR"] \cup index["FULL_TEXT"] \subseteq seen[c]
        BY <2>1 DEF CInv, Watching
      <3>3. CASE /\ index' = [index EXCEPT ![x] = @ \cup {d}]
                 /\ seen' = [e \in Callers |-> IF OfIndexes(e) THEN seen[e] \cup {d} ELSE seen[e]]
                 /\ steady' = steady
        BY <1>1, <1>2, <3>2, <3>3 DEF TypeOK
      <3>4. CASE /\ index' = [index EXCEPT ![x] = @ \ {d}]
                 /\ steady' = [e \in Callers |-> IF OfIndexes(e) /\ x = "VECTOR"
                                                 THEN steady[e] \ {d} ELSE steady[e]]
                 /\ seen' = seen
        BY <1>1, <1>2, <3>2, <3>4 DEF TypeOK
      <3> QED
        BY <1>4, <3>3, <3>4
    <2> QED
      BY <2>4, <2>5, <2>6, <2>7, <2>8 DEF CInv
  <1>8. RowsHaveSteps' /\ Enough'
    BY <1>1, <1>3 DEF RowsHaveSteps, Enough, Early, Minting
  <1> QED
    BY <1>6, <1>7, <1>8 DEF RInv

LEMMA RecordGoneStep ==
    ASSUME RInv, NEW d \in Documents, RecordGone(d)
    PROVE  RInv'
  <1>1. TypeOK /\ Enough /\ RowsHaveSteps /\ (\A c \in Callers : CInv(c))
    BY DEF RInv
  <1>2. /\ UNCHANGED <<index, textOrder, policy, traces, minted, pc, req, weights, pending,
                       fetched, found, items, status, trace, shown, heard, seen>>
        /\ upsets' \in 0..MaxUpsets
    BY <1>1, RecallAssumption DEF RecordGone, Upset, TypeOK, plan, result, explaining
  <1>3. /\ records' = records \ {d}
        /\ steady' = [c \in Callers |-> IF pc[c] \in {"trace", "record"} THEN steady[c] \ {d}
                                       ELSE steady[c]]
    BY DEF RecordGone
  <1>4. TypeOK'
    BY <1>1, <1>2, <1>3 DEF TypeOK
  <1>5. ASSUME NEW c \in Callers
        PROVE  CInv(c)'
    <2>1. CInv(c)
      BY <1>1
    <2>2. /\ steady'[c] \subseteq steady[c]
          /\ pc[c] \in {"trace", "record"} => steady'[c] = steady[c] \ {d}
          /\ pc[c] \notin {"trace", "record"} => steady'[c] = steady[c]
      BY <1>1, <1>3 DEF TypeOK
    <2>3. \A said, steps : Truthful(said, steps, seen[c], steady[c])
                               => Truthful(said, steps, seen[c], steady'[c])
      BY <2>2, MoreSeen
    <2>4. AtRest(c)'
      BY <1>2, <2>1 DEF CInv, AtRest
    <2>5. BeforeResult(c)'
      BY <1>2, <2>1, <2>2 DEF CInv, BeforeResult
    <2>6. AfterResult(c)'
      BY <1>2, <2>1, <2>2 DEF CInv, AfterResult, HasResult, Answered
    <2>7. Explaining(c)'
      BY <1>2, <1>3, <2>1, <2>2, <2>3 DEF CInv, Explaining, Answered
    <2>8. Watching(c)'
      BY <1>2, <2>1, <2>2 DEF CInv, Watching, OfIndexes, Running
    <2> QED
      BY <2>4, <2>5, <2>6, <2>7, <2>8 DEF CInv
  <1>6. RowsHaveSteps' /\ Enough'
    BY <1>1, <1>2 DEF RowsHaveSteps, Enough, Early, Minting
  <1> QED
    BY <1>4, <1>5, <1>6 DEF RInv

LEMMA UntouchedStep ==
    ASSUME RInv, policy' \in Weights, upsets' \in 0..MaxUpsets,
           UNCHANGED <<index, textOrder, records, traces, minted, pc, plan, pending, fetched,
                       result, explaining, heard, history>>
    PROVE  RInv'
  <1>1. TypeOK /\ Enough /\ RowsHaveSteps /\ (\A c \in Callers : CInv(c))
    BY DEF RInv
  <1>2. UNCHANGED <<req, weights, found, items, status, trace, shown, seen, steady>>
    BY DEF plan, result, explaining, history
  <1>3. TypeOK'
    BY <1>1, <1>2 DEF TypeOK
  <1>4. \A c \in Callers : CInv(c)'
    <2> TAKE c \in Callers
    <2>1. CInv(c) /\ Same(c)
      BY <1>1, <1>2 DEF Same
    <2> QED
      BY <2>1, OthersStay
  <1>5. RowsHaveSteps' /\ Enough'
    BY <1>1 DEF RowsHaveSteps, Enough, Early, Minting
  <1> QED
    BY <1>3, <1>4, <1>5 DEF RInv

LEMMA SavePolicyStep ==
    ASSUME RInv, SavePolicy
    PROVE  RInv'
  <1>1. policy' \in Weights /\ upsets' \in 0..MaxUpsets
    BY RecallAssumption DEF RInv, TypeOK, SavePolicy, Upset
  <1> QED
    BY <1>1, UntouchedStep DEF SavePolicy

-----------------------------------------------------------------------------
(* Theorems *)

LEMMA InitInv == Init => RInv
  <1> SUFFICES ASSUME Init
               PROVE  RInv
    OBVIOUS
  <1>1. TypeOK
    BY InitTypeOK
  <1>2. \A c \in Callers : pc[c] = "idle" /\ heard[c] = Silent /\ shown[c] = <<>>
    BY DEF Init
  <1>3. \A c \in Callers : CInv(c)
    <2> TAKE c \in Callers
    <2>1. AtRest(c) /\ BeforeResult(c)
      BY <1>2 DEF AtRest, BeforeResult
    <2>2. AfterResult(c) /\ Explaining(c) /\ Watching(c)
      BY <1>2 DEF AfterResult, HasResult, Answered, Explaining, Watching, OfIndexes, Running
    <2> QED
      BY <2>1, <2>2 DEF CInv
  <1>4. RowsHaveSteps
    BY RecallAssumption DEF Init, RowsHaveSteps, NoRow
  <1>5. Enough
    <2>1. Early = {} /\ Minting = {}
      BY <1>2 DEF Early, Minting
    <2>2. minted = 0 /\ Cardinality({}) = 0
      BY FS_EmptySet DEF Init
    <2>3. 0 + 0 + 0 <= MaxTraces
      BY RecallAssumption
    <2> QED
      BY <2>1, <2>2, <2>3 DEF Enough
  <1> QED
    BY <1>1, <1>3, <1>4, <1>5 DEF RInv

LEMMA NextInv == RInv /\ [Next]_vars => RInv'
  <1> SUFFICES ASSUME RInv, [Next]_vars
               PROVE  RInv'
    OBVIOUS
  <1>1. ASSUME NEW c \in Callers, Step(c)
        PROVE  RInv'
    <2>1. CASE Plan(c)
      BY <2>1, PlanStep
    <2>2. CASE Embed(c)
      BY <2>2, EmbedStep
    <2>3. CASE Search(c)
      BY <2>3, SearchStep
    <2>4. CASE Recollect(c)
      BY <2>4, RecollectStep
    <2>5. CASE EmitNoMatch(c)
      BY <2>5, EmitNoMatchStep
    <2>6. CASE \E x \in Indexes : Query(c, x)
      BY <2>6, QueryStep
    <2>7. CASE LoadTrace(c)
      BY <2>7, LoadTraceStep
    <2>8. CASE LoadRecord(c)
      BY <2>8, LoadRecordStep
    <2> QED
      BY <1>1, <2>1, <2>2, <2>3, <2>4, <2>5, <2>6, <2>7, <2>8 DEF Step
  <1>2. ASSUME NEW c \in Callers, NEW r \in Requests, Call(c, r)
        PROVE  RInv'
    BY <1>2, CallStep
  <1>3. ASSUME NEW c \in Callers, NEW t \in TraceIds, Explain(c, t)
        PROVE  RInv'
    BY <1>3, ExplainStep
  <1>4. ASSUME NEW c \in Callers, Leave(c) \/ SaveTrace(c) \/ Fails(c)
        PROVE  RInv'
    BY <1>4, LeaveStep, SaveTraceStep, FailsStep
  <1>5. ASSUME NEW d \in Documents, NEW x \in DOMAIN index, IndexChanges(x, d)
        PROVE  RInv'
    BY <1>5, IndexChangesStep
  <1>6. ASSUME NEW d \in Documents, RecordGone(d)
        PROVE  RInv'
    BY <1>6, RecordGoneStep
  <1>7. CASE SavePolicy
    BY <1>7, SavePolicyStep
  <1>8. CASE UNCHANGED vars
    <2>1. /\ policy' = policy /\ upsets' = upsets
          /\ UNCHANGED <<index, textOrder, records, traces, minted, pc, plan, pending, fetched,
                         result, explaining, heard, history>>
      BY <1>8 DEF vars, stores
    <2>2. policy' \in Weights /\ upsets' \in 0..MaxUpsets
      BY <2>1 DEF RInv, TypeOK
    <2> QED
      BY <2>1, <2>2, UntouchedStep
  <1>9. CASE Next
    BY <1>1, <1>2, <1>3, <1>4, <1>5, <1>6, <1>7, <1>9 DEF Next
  <1> QED
    BY <1>8, <1>9

LEMMA RecallInvariant == Spec => []RInv
  <1> QED
    BY InitInv, NextInv, PTL DEF Spec

\* Every reachable state is well typed; in particular no more trace ids are given
\* out than there are, and an explanation never reads past the steps of its trace.
THEOREM RecallTypeCorrect == Spec => []TypeOK
  <1>1. RInv => TypeOK
    BY DEF RInv
  <1> QED
    BY <1>1, RecallInvariant, PTL

\* No result, of any lists under any weights, has a document behind one that each
\* list it came from ranks lower: reciprocal_rank_fusion respects its evidence.
THEOREM RankingSound == Spec => []EvidenceRules
  <1>1. RInv => EvidenceRules
    <2> SUFFICES ASSUME RInv, NEW c \in Searches,
                        NEW p \in DOMAIN found[c], NEW q \in DOMAIN found[c], p < q,
                        \A l \in {fetched[c][x] : x \in Awaited(req[c].mode)} :
                            found[c][p] \in Ranked(l) =>
                                /\ found[c][q] \in Ranked(l)
                                /\ RankOf(l, found[c][q]) < RankOf(l, found[c][p])
                 PROVE  FALSE
      BY DEF EvidenceRules
    <2>1. c \in Callers /\ HasResult(c)
      BY DEF Searches, Recalls, HasResult
    <2>2. Evident(req[c].mode, fetched[c], found[c])
      BY <2>1 DEF RInv, CInv, AfterResult
    <2>3. Ahead(req[c].mode, fetched[c], found[c][q], found[c][p])
      BY DEF Ahead
    <2> QED
      BY <2>2, <2>3 DEF Evident
  <1> QED
    BY <1>1, RecallInvariant, PTL

\* However the indexes change between the queries of a search, a document that was
\* in the vector index all the time is returned, or the result is full.
THEOREM NothingLostEver == Spec => []NothingLost
  <1>1. RInv => NothingLost
    <2> SUFFICES ASSUME RInv, NEW c \in Searches
                 PROVE  Complete(req[c], found[c], seen[c], steady[c])
      BY DEF NothingLost, Complete
    <2>1. c \in Callers /\ HasResult(c)
      BY DEF Searches, Recalls, HasResult
    <2> QED
      BY <2>1 DEF RInv, CInv, AfterResult
  <1> QED
    BY <1>1, RecallInvariant, PTL

\* A recall takes the longest run of its best items that its k and its budget
\* allow, and its status tells whether the budget left something out.
THEOREM BudgetKept == Spec => []BudgetHonest
  <1>1. RInv => BudgetHonest
    <2> SUFFICES ASSUME RInv, NEW c \in Recalls
                 PROVE  Honest(req[c], found[c], items[c], status[c])
      BY DEF BudgetHonest, Honest
    <2>1. c \in Callers /\ Answered(c, "recall")
      BY DEF Recalls
    <2> QED
      BY <2>1 DEF RInv, CInv, AfterResult
  <1> QED
    BY <1>1, RecallInvariant, PTL

\* Of every search and recall that returns results observers are told how much was
\* found, of every recall that found nothing that it did, and never of one that has
\* items that it has none; of a refused call they are told nothing.
THEOREM ObserversInformed == Spec => []ObserversKnow
  <1>1. RInv => ObserversKnow
    <2> SUFFICES ASSUME RInv, NEW c \in Callers
                 PROVE  /\ c \in Searches => heard[c].recalled = Len(found[c])
                        /\ c \in Recalls /\ found[c] = <<>> => heard[c].noMatch
                        /\ c \in Recalls /\ heard[c].noMatch => items[c] = <<>>
                        /\ pc[c] = "refused" => heard[c] = Silent
      BY DEF ObserversKnow
    <2>1. c \in Searches => HasResult(c)
      BY DEF Searches, Recalls, HasResult
    <2>2. c \in Recalls => Answered(c, "recall")
      BY DEF Recalls
    <2>3. c \in Recalls => (heard[c].noMatch <=> items[c] = <<>>)
      BY <2>2 DEF RInv, CInv, AfterResult, BeforeResult
    <2>4. ASSUME c \in Recalls, found[c] = <<>> PROVE items[c] = <<>>
      <3>1. Honest(req[c], found[c], items[c], status[c])
        BY <2>2, <2>4 DEF RInv, CInv, AfterResult
      <3>2. items[c] \in Seq(Documents) /\ req[c].k \in Nat /\ Len(found[c]) = 0
        BY <2>4 DEF RInv, TypeOK, Request
      <3>3. Len(items[c]) \in Nat /\ Len(items[c]) <= 0
        BY <3>1, <3>2 DEF Honest, AtMost
      <3> QED
        BY <3>2, <3>3
    <2> QED
      BY <2>1, <2>2, <2>3, <2>4 DEF RInv, CInv, AfterResult, BeforeResult
  <1> QED
    BY <1>1, RecallInvariant, PTL

\* An explanation belongs to its caller's tenant, has the steps of the trace and
\* says of each record truthfully whether it was there while it was answered.
THEOREM ExplanationsTrue == Spec => []ExplanationTrue
  <1>1. RInv => ExplanationTrue
    <2> SUFFICES ASSUME RInv, NEW c \in Callers, Answered(c, "explain")
                 PROVE  /\ TenantOf[c] = traces[trace[c]].tenant
                        /\ items[c] = traces[trace[c]].steps
                        /\ Len(shown[c]) = Len(items[c])
                        /\ \A n \in DOMAIN items[c] :
                              /\ shown[c][n] => items[c][n] \in seen[c]
                              /\ items[c][n] \in steady[c] => shown[c][n]
      BY DEF ExplanationTrue
    <2>1. /\ traces[trace[c]].tenant = TenantOf[c] /\ items[c] = traces[trace[c]].steps
          /\ Truthful(shown[c], items[c], seen[c], steady[c])
          /\ Len(shown[c]) = Len(items[c])
      BY DEF RInv, CInv, Explaining
    <2>2. DOMAIN items[c] = DOMAIN shown[c]
      BY <2>1, ListBasics DEF RInv, TypeOK
    <2> QED
      BY <2>1, <2>2 DEF Truthful
  <1> QED
    BY <1>1, RecallInvariant, PTL
=============================================================================
