--------------------------- MODULE VenueListsProofs ---------------------------
(***************************************************************************)
(* Proofs about the lists of venues, for all values of the constants: the  *)
(* public pages, their caches and sections (VenuePages), and the searches  *)
(* (AiSearch, an instance whose properties are AiSearchPromise's).         *)
(***************************************************************************)
EXTENDS VenuePages, AiSearchPromise, FiniteSetTheorems, SequenceTheorems, TLAPS

CONSTANTS CityOf, WardOf, RegionOf, Wards, Capital, CurrentCities, Bogus, TooFew
VARIABLE hidden

A == INSTANCE AiSearch

-----------------------------------------------------------------------------
(* Places in an order, and what stands there.                              *)

\* The place of v in the order R, how many are not behind it.
Place(v, S, R) == Cardinality({x \in S : <<x, v>> \in R})

Orders(R, S) ==
    /\ IsFiniteSet(S)
    /\ \A v \in S : <<v, v>> \in R
    /\ \A v, w \in S : <<v, w>> \in R \/ <<w, v>> \in R
    /\ \A v, w \in S : <<v, w>> \in R /\ <<w, v>> \in R => v = w
    /\ \A u, v, w \in S : <<u, v>> \in R /\ <<v, w>> \in R => <<u, w>> \in R

LEMMA PlaceMoves ==
    ASSUME NEW S, NEW R, Orders(R, S), NEW v \in S, NEW w \in S, <<v, w>> \in R, v # w
    PROVE  Place(v, S, R) < Place(w, S, R)
<1> DEFINE I == {x \in S : <<x, v>> \in R}
           J == {x \in S : <<x, w>> \in R}
<1>1. J \in SUBSET S /\ I \in SUBSET J /\ w \in J /\ w \notin I
  BY DEF Orders
<1>2. IsFiniteSet(J)
  BY <1>1, FS_Subset DEF Orders
<1>3. IsFiniteSet(I) /\ Cardinality(I) <= Cardinality(J) /\ Cardinality(I) # Cardinality(J)
  <2> HIDE DEF I, J
  <2>. QED
    BY <1>1, <1>2, FS_Subset
<1>4. Cardinality(I) \in Nat /\ Cardinality(J) \in Nat
  BY <1>2, <1>3, FS_CardinalityType
<1>. QED
  BY <1>3, <1>4 DEF Place

LEMMA PlaceRange ==
    ASSUME NEW S, NEW R, Orders(R, S), NEW v \in S
    PROVE  Place(v, S, R) \in 1..Cardinality(S)
<1> DEFINE I == {x \in S : <<x, v>> \in R}
<1>1. I \in SUBSET S /\ v \in I
  BY DEF Orders
<1>2. IsFiniteSet(I) /\ Cardinality(I) <= Cardinality(S)
  <2> HIDE DEF I
  <2>. QED
    BY <1>1, FS_Subset DEF Orders
<1>3. Cardinality(I) \in Nat /\ Cardinality(I) # 0 /\ Cardinality(S) \in Nat
  BY <1>1, <1>2, FS_CardinalityType, FS_EmptySet DEF Orders
<1>. QED
  BY <1>2, <1>3 DEF Place

LEMMA PlaceInjective ==
    ASSUME NEW S, NEW R, Orders(R, S), NEW v \in S, NEW w \in S, Place(v, S, R) = Place(w, S, R)
    PROVE  v = w
<1>1. ~(Place(v, S, R) < Place(w, S, R)) /\ ~(Place(w, S, R) < Place(v, S, R))
  BY PlaceRange
<1>2. <<v, w>> \in R \/ <<w, v>> \in R
  BY DEF Orders
<1>. QED
  BY <1>1, <1>2, PlaceMoves

\* Every place is someone's.
LEMMA PlaceOnto ==
    ASSUME NEW S, NEW R, Orders(R, S), NEW n \in 1..Cardinality(S)
    PROVE  \E v \in S : Place(v, S, R) = n
<1> DEFINE T == 1..Cardinality(S)
           f == [v \in S |-> Place(v, S, R)]
<1>1. Cardinality(S) \in Nat /\ IsFiniteSet(T) /\ Cardinality(T) = Cardinality(S)
  <2>1. Cardinality(S) \in Nat
    BY FS_CardinalityType DEF Orders
  <2>. QED
    BY <2>1, FS_Interval
<1>2. f \in Injection(S, T)
  <2>1. f \in [S -> T]
    BY PlaceRange
  <2>2. IsInjective(f)
    BY PlaceInjective DEF IsInjective
  <2>. QED
    BY <2>1, <2>2 DEF Injection
<1>3. f \in Surjection(S, T)
  <2> HIDE DEF f, T
  <2>. QED
    BY <1>1, <1>2, FS_Injection DEF Orders
<1>. QED
  BY <1>3 DEF Surjection

\* The n-th of a set of numbers.
Nth(at, n) == CHOOSE i \in at : Rank(i, at) = n

LEMMA NthIs ==
    ASSUME NEW at \in SUBSET Nat, IsFiniteSet(at)
    PROVE  /\ Cardinality(at) \in Nat
           /\ \A n \in 1..Cardinality(at) : Nth(at, n) \in at /\ Rank(Nth(at, n), at) = n
           /\ \A i \in at : Rank(i, at) \in 1..Cardinality(at) /\ Nth(at, Rank(i, at)) = i
           /\ \A m, n \in 1..Cardinality(at) : Nth(at, m) = Nth(at, n) => m = n
<1> DEFINE R == {p \in at \X at : p[1] <= p[2]}
<1>0. \A i, j \in at : i \in Nat /\ (<<i, j>> \in R <=> i <= j)
  OBVIOUS
<1>1. Orders(R, at)
  <2> HIDE DEF R
  <2>. QED
    BY <1>0 DEF Orders
<1> HIDE DEF R
<1>2. \A i \in at : Rank(i, at) = Place(i, at, R)
  <2> TAKE i \in at
  <2>1. {j \in at : j <= i} = {x \in at : <<x, i>> \in R}
    BY <1>0
  <2>. QED
    BY <2>1 DEF Rank, Place
<1>3. Cardinality(at) \in Nat
  BY FS_CardinalityType
<1>4. \A n \in 1..Cardinality(at) : Nth(at, n) \in at /\ Rank(Nth(at, n), at) = n
  <2> TAKE n \in 1..Cardinality(at)
  <2>1. \E i \in at : Place(i, at, R) = n
    BY <1>1, PlaceOnto
  <2>2. \E i \in at : Rank(i, at) = n
    BY <1>2, <2>1
  <2>. QED
    BY <2>2 DEF Nth
<1>5. \A i \in at : Rank(i, at) \in 1..Cardinality(at) /\ Nth(at, Rank(i, at)) = i
  <2> TAKE i \in at
  <2>1. Rank(i, at) \in 1..Cardinality(at)
    BY <1>1, <1>2, PlaceRange
  <2>2. Nth(at, Rank(i, at)) \in at /\ Rank(Nth(at, Rank(i, at)), at) = Rank(i, at)
    BY <1>4, <2>1
  <2>3. Place(Nth(at, Rank(i, at)), at, R) = Place(i, at, R)
    BY <1>2, <2>2
  <2>. QED
    BY <1>1, <2>1, <2>2, <2>3, PlaceInjective
<1>. QED
  BY <1>3, <1>4, <1>5

\* What is picked stands at the places, each once, and the rest does not.
LEMMA PickIs ==
    ASSUME NEW S, NEW seq \in Seq(S), NEW at \in SUBSET (DOMAIN seq)
    PROVE  /\ Pick(seq, at) \in Seq(S) /\ Cardinality(at) \in Nat
           /\ Len(Pick(seq, at)) = Cardinality(at) /\ Cardinality(at) <= Len(seq)
           /\ ToSet(Pick(seq, at)) = {seq[i] : i \in at}
           /\ (\A i, j \in at : seq[i] = seq[j] => i = j) => IsInjective(Pick(seq, at))
<1>1. Len(seq) \in Nat /\ DOMAIN seq = 1..Len(seq) /\ \A i \in DOMAIN seq : seq[i] \in S
  BY LenProperties, ElementOfSeq
<1>2. IsFiniteSet(1..Len(seq)) /\ Cardinality(1..Len(seq)) = Len(seq)
  <2> DEFINE n == Len(seq)
  <2>1. n \in Nat
    BY <1>1
  <2> HIDE DEF n
  <2>2. IsFiniteSet(1..n) /\ Cardinality(1..n) = n
    BY <2>1, FS_Interval
  <2>. QED
    BY <2>2 DEF n
<1>3. IsFiniteSet(at) /\ Cardinality(at) <= Len(seq) /\ at \in SUBSET Nat
  BY <1>1, <1>2, FS_Subset
<1>4. /\ Cardinality(at) \in Nat
      /\ \A n \in 1..Cardinality(at) : Nth(at, n) \in at
      /\ \A i \in at : Rank(i, at) \in 1..Cardinality(at) /\ Nth(at, Rank(i, at)) = i
      /\ \A m, n \in 1..Cardinality(at) : Nth(at, m) = Nth(at, n) => m = n
  BY <1>3, NthIs
<1>5. Pick(seq, at) = [n \in 1..Cardinality(at) |-> seq[Nth(at, n)]]
  BY DEF Pick, Nth
<1>6. Pick(seq, at) \in [1..Cardinality(at) -> S]
  BY <1>1, <1>4, <1>5
<1>7. Pick(seq, at) \in Seq(S) /\ Len(Pick(seq, at)) = Cardinality(at)
  BY <1>4, <1>6, SeqDef, LenProperties
<1>8. ToSet(Pick(seq, at)) = {seq[i] : i \in at}
  BY <1>4, <1>5 DEF ToSet
<1>9. (\A i, j \in at : seq[i] = seq[j] => i = j) => IsInjective(Pick(seq, at))
  BY <1>4, <1>5 DEF IsInjective
<1>. QED
  BY <1>3, <1>4, <1>7, <1>8, <1>9

LEMMA PickOfInjective ==
    ASSUME NEW S, NEW seq \in Seq(S), NEW at \in SUBSET (DOMAIN seq), IsInjective(seq)
    PROVE  IsInjective(Pick(seq, at))
BY PickIs DEF IsInjective

LEMMA SelectIs ==
    ASSUME NEW S, NEW seq \in Seq(S), NEW set
    PROVE  /\ Select(seq, set) \in Seq(S)
           /\ ToSet(Select(seq, set)) = ToSet(seq) \cap set
           /\ Len(Select(seq, set)) <= Len(seq)
           /\ IsInjective(seq) => IsInjective(Select(seq, set))
<1> DEFINE at == {i \in DOMAIN seq : seq[i] \in set}
<1>1. at \in SUBSET (DOMAIN seq) /\ Select(seq, set) = Pick(seq, at)
  BY DEF Select
<1>2. {seq[i] : i \in at} = ToSet(seq) \cap set
  BY DEF ToSet
<1> HIDE DEF at
<1>3. /\ Pick(seq, at) \in Seq(S) /\ ToSet(Pick(seq, at)) = {seq[i] : i \in at}
      /\ Len(Pick(seq, at)) <= Len(seq)
  BY <1>1, PickIs
<1>. QED
  BY <1>1, <1>2, <1>3, PickOfInjective

\* A page of a sequence, of the first or of further ones.
LEMMA PageIs ==
    ASSUME NEW S, NEW seq \in Seq(S), NEW offset \in Nat, NEW n \in Nat
    PROVE  /\ Page(seq, offset, n) \in Seq(S)
           /\ Len(Page(seq, 0, n)) = Fewer(n, Len(seq))
           /\ ToSet(Page(seq, offset, n)) \subseteq ToSet(seq)
           /\ IsInjective(seq) => IsInjective(Page(seq, offset, n))
<1> DEFINE a == offset + 1
           b == Fewer(offset + n, Len(seq))
<1>1. Len(seq) \in Nat /\ DOMAIN seq = 1..Len(seq) /\ a \in Nat /\ b \in Nat /\ b <= Len(seq) /\ a >= 1
  BY LenProperties DEF Fewer
<1>2. Page(seq, offset, n) = SubSeq(seq, a, b)
  BY DEF Page
<1> HIDE DEF a, b
<1>3. a \in Int /\ b \in Int /\ \A i \in a..b : i \in DOMAIN seq /\ seq[i] \in S
  BY <1>1, ElementOfSeq
<1> DEFINE page == SubSeq(seq, a, b)
<1>4. /\ page \in Seq(S) /\ Len(page) = (IF a <= b THEN b - a + 1 ELSE 0)
      /\ \A i \in 1..(b - a + 1) : page[i] = seq[a + i - 1]
  BY <1>3, SubSeqProperties
<1> HIDE DEF page
<1>5. \A i \in DOMAIN page : a + i - 1 \in DOMAIN seq /\ page[i] = seq[a + i - 1] /\ i \in Nat
  <2>1. DOMAIN page = 1..Len(page)
    BY <1>4, LenProperties
  <2>. QED
    BY <1>1, <1>3, <1>4, <2>1
<1>6. ToSet(page) \subseteq ToSet(seq)
  BY <1>5 DEF ToSet
<1>7. ASSUME IsInjective(seq) PROVE IsInjective(page)
  <2>1. \A i, j \in DOMAIN page : page[i] = page[j] => a + i - 1 = a + j - 1
    BY <1>5, <1>7 DEF IsInjective
  <2>2. \A i, j \in DOMAIN page : page[i] = page[j] => i = j
    BY <1>1, <1>5, <2>1
  <2>. QED
    BY <2>2 DEF IsInjective
<1>8. Len(Page(seq, 0, n)) = Fewer(n, Len(seq))
  <2> DEFINE m == Fewer(n, Len(seq))
  <2>1. m \in Nat /\ m <= Len(seq) /\ Page(seq, 0, n) = SubSeq(seq, 1, m)
    BY <1>1 DEF Page, Fewer
  <2> HIDE DEF m
  <2>2. \A i \in 1..m : seq[i] \in S
    BY <1>1, <2>1, ElementOfSeq
  <2>3. Len(SubSeq(seq, 1, m)) = m
    BY <2>1, <2>2, SubSeqProperties
  <2>. QED
    BY <2>1, <2>3 DEF m
<1>. QED
  BY <1>2, <1>4, <1>6, <1>7, <1>8 DEF page

\* The length of a sequence of different things is how many they are.
LEMMA LengthIs ==
    ASSUME NEW S, NEW seq \in Seq(S), IsInjective(seq)
    PROVE  IsFiniteSet(ToSet(seq)) /\ Cardinality(ToSet(seq)) = Len(seq)
<1> DEFINE n == Len(seq)
           T == ToSet(seq)
<1>1. n \in Nat /\ DOMAIN seq = 1..n /\ seq = [i \in 1..n |-> seq[i]]
  BY LenProperties
<1>2. seq \in Bijection(1..n, T)
  <2>1. seq \in [1..n -> T]
    BY <1>1 DEF ToSet
  <2>2. \A v \in T : \E i \in 1..n : seq[i] = v
    BY <1>1 DEF ToSet
  <2> HIDE DEF n, T
  <2>. QED
    BY <1>1, <2>1, <2>2 DEF Bijection, Injection, Surjection, IsInjective
<1> HIDE DEF n, T
<1>a. n \in Nat
  BY <1>1
<1>3. IsFiniteSet(1..n) /\ Cardinality(1..n) = n
  <2>1. IsFiniteSet(1..n) /\ Cardinality(1..n) = IF 1 > n THEN 0 ELSE n - 1 + 1
    BY <1>a, FS_Interval
  <2>. QED
    BY <1>a, <2>1
<1>4. IsFiniteSet(T) /\ Cardinality(T) = n
  <2> DEFINE D == 1..n
  <2>1. IsFiniteSet(D) /\ Cardinality(D) = n /\ seq \in Bijection(D, T)
    BY <1>2, <1>3
  <2> HIDE DEF D
  <2>. QED
    BY <2>1, FS_Bijection DEF ExistsBijection
<1>. QED
  BY <1>4 DEF n, T

LEMMA ConcatIs ==
    ASSUME NEW S, NEW s \in Seq(S), NEW t \in Seq(S)
    PROVE  /\ s \o t \in Seq(S)
           /\ ToSet(s \o t) = ToSet(s) \cup ToSet(t)
           /\ IsInjective(s) /\ IsInjective(t) /\ ToSet(s) \cap ToSet(t) = {} => IsInjective(s \o t)
<1>1. /\ s \o t \in Seq(S) /\ DOMAIN (s \o t) = 1..(Len(s) + Len(t))
      /\ Len(s) \in Nat /\ Len(t) \in Nat
      /\ DOMAIN s = 1..Len(s) /\ DOMAIN t = 1..Len(t)
      /\ \A i \in 1..(Len(s) + Len(t)) :
           (s \o t)[i] = IF i <= Len(s) THEN s[i] ELSE t[i - Len(s)]
  BY ConcatProperties, LenProperties
<1>2. \A i \in DOMAIN s : i \in DOMAIN (s \o t) /\ (s \o t)[i] = s[i]
  BY <1>1
<1>3. \A i \in DOMAIN t : i + Len(s) \in DOMAIN (s \o t) /\ (s \o t)[i + Len(s)] = t[i]
  BY <1>1
<1>4. \A i \in DOMAIN (s \o t) :
         \/ i \in DOMAIN s /\ (s \o t)[i] = s[i]
         \/ i > Len(s) /\ i - Len(s) \in DOMAIN t /\ (s \o t)[i] = t[i - Len(s)]
  BY <1>1
<1>5. ToSet(s \o t) = ToSet(s) \cup ToSet(t)
  <2>1. ToSet(s) \subseteq ToSet(s \o t)
    BY <1>2 DEF ToSet
  <2>2. ToSet(t) \subseteq ToSet(s \o t)
    BY <1>3 DEF ToSet
  <2>3. ToSet(s \o t) \subseteq ToSet(s) \cup ToSet(t)
    BY <1>4 DEF ToSet
  <2>. QED
    BY <2>1, <2>2, <2>3
<1>6. ASSUME IsInjective(s), IsInjective(t), ToSet(s) \cap ToSet(t) = {},
             NEW i \in DOMAIN (s \o t), NEW j \in DOMAIN (s \o t), (s \o t)[i] = (s \o t)[j]
      PROVE  i = j
  <2>1. CASE i \in DOMAIN s /\ (s \o t)[i] = s[i] /\ j \in DOMAIN s /\ (s \o t)[j] = s[j]
    BY <1>6, <2>1 DEF IsInjective
  <2>2. CASE /\ i > Len(s) /\ i - Len(s) \in DOMAIN t /\ (s \o t)[i] = t[i - Len(s)]
             /\ j > Len(s) /\ j - Len(s) \in DOMAIN t /\ (s \o t)[j] = t[j - Len(s)]
    <3>1. i - Len(s) = j - Len(s)
      BY <1>6, <2>2 DEF IsInjective
    <3>. QED
      BY <1>1, <3>1
  <2>. QED
    BY <1>4, <1>6, <2>1, <2>2 DEF ToSet
<1>. QED
  BY <1>1, <1>5, <1>6 DEF IsInjective

-----------------------------------------------------------------------------
(* The queries of the pages.                                               *)

\* ORDER BY: whatever the numbers are, ids make it an order.
LEMMA AheadOrders ==
    ASSUME NEW S \in SUBSET Venues, NEW num \in [Venues -> Int], NEW next \in [Venues -> Int]
    PROVE  /\ IsFiniteSet(S)
           /\ Orders({p \in S \X S : Ahead(p[1], p[2], num, next)}, S)
<1> DEFINE R == {p \in S \X S : Ahead(p[1], p[2], num, next)}
<1>1. IsFiniteSet(S)
  BY VenuesAssumption, FS_Subset
<1>2. \A v \in S : num[v] \in Int /\ next[v] \in Int /\ Data[v].id \in Int
  BY VenuesAssumption DEF Numbers
<1>3. \A v, w \in S : Data[v].id = Data[w].id => v = w
  BY VenuesAssumption
<1>4. \A v, w \in S : <<v, w>> \in R <=> Ahead(v, w, num, next)
  OBVIOUS
<1> HIDE DEF R
<1>5. \A v \in S : <<v, v>> \in R
  BY <1>2, <1>4 DEF Ahead
<1>6. \A v, w \in S : <<v, w>> \in R \/ <<w, v>> \in R
  <2> TAKE v, w \in S
  <2>1. /\ num[v] \in Int /\ next[v] \in Int /\ Data[v].id \in Int
        /\ num[w] \in Int /\ next[w] \in Int /\ Data[w].id \in Int
    BY <1>2
  <2>2. Ahead(v, w, num, next) \/ Ahead(w, v, num, next)
    BY <2>1 DEF Ahead
  <2>. QED
    BY <1>4, <2>2
<1>7. \A v, w \in S : <<v, w>> \in R /\ <<w, v>> \in R => v = w
  BY <1>2, <1>3, <1>4 DEF Ahead
<1>8. \A u, v, w \in S : <<u, v>> \in R /\ <<v, w>> \in R => <<u, w>> \in R
  BY <1>2, <1>4 DEF Ahead
<1>. QED
  BY <1>1, <1>5, <1>6, <1>7, <1>8 DEF Orders, R

\* ORDER BY and LIMIT: so many of a set, each once.
LEMMA TopIs ==
    ASSUME NEW S \in SUBSET Venues, NEW n \in Nat,
           NEW num \in [Venues -> Int], NEW next \in [Venues -> Int]
    PROVE  /\ Top(S, n, num, next) \in Seq(S) /\ IsInjective(Top(S, n, num, next))
           /\ Cardinality(S) \in Nat /\ IsFiniteSet(S)
           /\ Len(Top(S, n, num, next)) = Fewer(n, Cardinality(S))
           /\ ToSet(Top(S, n, num, next)) \subseteq S
           /\ Cardinality(S) <= n => ToSet(Top(S, n, num, next)) = S
<1> DEFINE R == {p \in S \X S : Ahead(p[1], p[2], num, next)}
           At(i) == CHOOSE v \in S : Cardinality({x \in S : Ahead(x, v, num, next)}) = i
           m == Fewer(n, Cardinality(S))
           t == Top(S, n, num, next)
<1>1. IsFiniteSet(S) /\ Orders(R, S)
  BY AheadOrders
<1>2. \A v \in S : Cardinality({x \in S : Ahead(x, v, num, next)}) = Place(v, S, R)
  <2> TAKE v \in S
  <2>1. {x \in S : Ahead(x, v, num, next)} = {x \in S : <<x, v>> \in R}
    OBVIOUS
  <2>. QED
    BY <2>1 DEF Place
<1> HIDE DEF R
<1>3. Cardinality(S) \in Nat
  BY <1>1, FS_CardinalityType
<1>4. m \in Nat /\ m <= Cardinality(S) /\ (Cardinality(S) <= n => m = Cardinality(S))
  BY <1>3 DEF Fewer
<1>5. t = [i \in 1..m |-> At(i)]
  BY DEF Top
<1>6. \A i \in 1..Cardinality(S) : At(i) \in S /\ Place(At(i), S, R) = i
  <2> TAKE i \in 1..Cardinality(S)
  <2>1. \E v \in S : Place(v, S, R) = i
    BY <1>1, PlaceOnto
  <2>2. \E v \in S : Cardinality({x \in S : Ahead(x, v, num, next)}) = i
    BY <1>2, <2>1
  <2>3. At(i) \in S /\ Cardinality({x \in S : Ahead(x, At(i), num, next)}) = i
    BY <2>2
  <2>. QED
    BY <1>2, <2>3
<1>a. \A i \in 1..m : i \in 1..Cardinality(S)
  BY <1>3, <1>4
<1> HIDE DEF At, m, t
<1>b. \A i \in 1..m : At(i) \in S /\ Place(At(i), S, R) = i
  BY <1>6, <1>a
<1>7. t \in [1..m -> S]
  BY <1>5, <1>b
<1>8. t \in Seq(S) /\ Len(t) = m
  BY <1>4, <1>7, SeqDef, LenProperties
<1>9. IsInjective(t)
  BY <1>5, <1>b DEF IsInjective
<1>10. ToSet(t) \subseteq S
  BY <1>7 DEF ToSet
<1>11. ASSUME Cardinality(S) <= n PROVE ToSet(t) = S
  <2>1. \A v \in S : Place(v, S, R) \in 1..m /\ t[Place(v, S, R)] = v
    <3> TAKE v \in S
    <3>1. Place(v, S, R) \in 1..Cardinality(S)
      BY <1>1, PlaceRange
    <3>2. At(Place(v, S, R)) \in S /\ Place(At(Place(v, S, R)), S, R) = Place(v, S, R)
      BY <1>6, <3>1
    <3>3. At(Place(v, S, R)) = v
      BY <1>1, <3>2, PlaceInjective
    <3>. QED
      BY <1>4, <1>5, <1>11, <3>1, <3>3
  <2>. QED
    BY <1>7, <1>10, <2>1 DEF ToSet
<1>. QED
  BY <1>1, <1>3, <1>8, <1>9, <1>10, <1>11 DEF m, t

\* What filter leaves of s before t when it takes all of s and none of t.
LEMMA SelectFirst ==
    ASSUME NEW S, NEW s \in Seq(S), NEW t \in Seq(S), NEW set,
           ToSet(s) \subseteq set, ToSet(t) \cap set = {}
    PROVE  Select(s \o t, set) = s
<1> DEFINE u == s \o t
           m == Len(s)
           at == {i \in DOMAIN u : u[i] \in set}
<1>1. /\ m \in Nat /\ DOMAIN s = 1..m /\ s = [i \in 1..m |-> s[i]]
      /\ \A i \in 1..m : i \in DOMAIN u /\ u[i] = s[i]
      /\ \A i \in DOMAIN u : i \notin 1..m => i - m \in DOMAIN t /\ u[i] = t[i - m]
  <2>1. /\ DOMAIN u = 1..(Len(s) + Len(t)) /\ Len(s) \in Nat /\ Len(t) \in Nat
        /\ DOMAIN s = 1..Len(s) /\ DOMAIN t = 1..Len(t) /\ s = [i \in 1..Len(s) |-> s[i]]
        /\ \A i \in 1..(Len(s) + Len(t)) : u[i] = IF i <= Len(s) THEN s[i] ELSE t[i - Len(s)]
    BY ConcatProperties, LenProperties
  <2>. QED
    BY <2>1
<1> HIDE DEF u, m
<1>2. at = 1..m
  BY <1>1 DEF ToSet
<1>3. \A i \in 1..m : {j \in 1..m : j <= i} = 1..i /\ i \in Nat
  BY <1>1
<1>4. \A i \in Nat : IsFiniteSet(1..i) /\ Cardinality(1..i) = i
  <2> TAKE i \in Nat
  <2>1. IsFiniteSet(1..i) /\ Cardinality(1..i) = IF 1 > i THEN 0 ELSE i - 1 + 1
    BY FS_Interval
  <2>. QED
    BY <2>1
<1>5. \A i \in 1..m : Rank(i, 1..m) = i
  BY <1>3, <1>4 DEF Rank
<1>6. \A i \in 1..m : Nth(1..m, i) = i
  <2>1. 1..m \in SUBSET Nat /\ IsFiniteSet(1..m)
    BY <1>1, <1>4
  <2>2. \A i \in 1..m : Nth(1..m, Rank(i, 1..m)) = i
    BY <2>1, NthIs
  <2>. QED
    BY <1>5, <2>2
<1>7. Pick(u, 1..m) = [n \in 1..m |-> u[Nth(1..m, n)]]
  BY <1>1, <1>4 DEF Pick, Nth
<1>8. Pick(u, 1..m) = s
  BY <1>1, <1>6, <1>7
<1>. QED
  BY <1>2, <1>8 DEF Select, u

LEMMA SelectAll ==
    ASSUME NEW S, NEW s \in Seq(S), NEW set, ToSet(s) \subseteq set
    PROVE  Select(s, set) = s
<1>1. s \o <<>> = s /\ <<>> \in Seq(S) /\ ToSet(<<>>) = {}
  BY ConcatEmptySeq DEF ToSet
<1>2. Select(s \o <<>>, set) = s
  BY <1>1, SelectFirst
<1>. QED
  BY <1>1, <1>2

LEMMA NumberIs ==
    /\ \A name \in Numbers : Number(name) \in [Venues -> Int]
    /\ \A kind : Counted(kind) \in [Venues -> Int]
    /\ Bayesian \in [Venues -> Int]
<1>1. \A v \in Venues, name \in Numbers : Data[v][name] \in Nat
  BY VenuesAssumption
<1>2. \A name \in Numbers : Number(name) \in [Venues -> Int]
  BY <1>1 DEF Number
<1>3. \A kind : Counted(kind) \in [Venues -> Int]
  BY <1>2 DEF Counted, Numbers
<1>4. \A v \in Venues : Bayesian[v] \in Int
  <2> TAKE v \in Venues
  <2> DEFINE a == 1000 * (Data[v].reviews * Data[v].rating + 100 * 380)
             b == Data[v].reviews + 100
  <2>1. Data[v].reviews \in Nat /\ Data[v].rating \in Nat
    BY <1>1 DEF Numbers
  <2>2. a \in Int /\ b \in Int /\ b > 0
    BY <2>1
  <2>3. Bayesian[v] = a \div b
    BY DEF Bayesian
  <2> HIDE DEF a, b
  <2>. QED
    BY <2>2, <2>3
<1>5. Bayesian \in [Venues -> Int]
  BY <1>4 DEF Bayesian
<1>. QED
  BY <1>2, <1>3, <1>5

\* A ranked section and what fills it: so many venues as there are, each once
\* and public; what was ranked is what anyone has counted.
LEMMA FilledIs ==
    ASSUME NEW d, NEW city, NEW kind
    PROVE  LET ranked == Ranked(d, kind, city)
               filled == Fill(d, ranked, city)
           IN  /\ filled \in Seq(Venues) /\ IsInjective(filled) /\ ToSet(filled) \subseteq In(d, city)
               /\ Len(filled) = Fewer(Limit, VenueCount(d, city))
               /\ Select(filled, {v \in Venues : Counted(kind)[v] > 0}) = ranked
               /\ FetchInOrder(d, filled) = filled
<1> DEFINE all == In(d, city)
           counted == {v \in Venues : Counted(kind)[v] > 0}
           up == {v \in all : Counted(kind)[v] > 0}
           ranked == Ranked(d, kind, city)
           rest == all \ ToSet(ranked)
           m == Limit - Len(ranked)
           extra == Top(rest, m, Number("upvotes"), Number("rating"))
           filled == Fill(d, ranked, city)
<1>1. /\ all \in SUBSET Venues /\ all \subseteq Public(d) /\ up = all \cap counted /\ up \in SUBSET Venues
      /\ rest \in SUBSET Venues /\ rest \in SUBSET all
  BY DEF In, Public
<1>2. ranked = Top(up, Limit, Counted(kind), Counted(kind)) /\ filled = ranked \o extra
  BY DEF Ranked, Fill
<1>3. /\ Number("upvotes") \in [Venues -> Int] /\ Number("rating") \in [Venues -> Int]
      /\ Counted(kind) \in [Venues -> Int] /\ Limit \in Nat
  BY NumberIs, TimesAssumption DEF Numbers
<1> HIDE DEF all, counted, up, ranked, filled
<1>4. /\ ranked \in Seq(up) /\ IsInjective(ranked) /\ Cardinality(up) \in Nat /\ IsFiniteSet(up)
      /\ Len(ranked) = Fewer(Limit, Cardinality(up)) /\ ToSet(ranked) \subseteq up
      /\ Cardinality(up) <= Limit => ToSet(ranked) = up
  BY <1>1, <1>2, <1>3, TopIs
<1>5. IsFiniteSet(all) /\ Cardinality(all) \in Nat /\ Cardinality(up) <= Cardinality(all)
  BY <1>1, VenuesAssumption, FS_Subset, FS_CardinalityType
<1>6. m \in Nat
  BY <1>3, <1>4 DEF Fewer
<1> HIDE DEF rest, m
<1>7. /\ extra \in Seq(rest) /\ IsInjective(extra) /\ Cardinality(rest) \in Nat
      /\ Len(extra) = Fewer(m, Cardinality(rest)) /\ ToSet(extra) \subseteq rest
  BY <1>1, <1>3, <1>6, TopIs
<1> HIDE DEF extra
<1>8. ranked \in Seq(Venues) /\ extra \in Seq(Venues)
  <2>1. \A S \in SUBSET Venues : Seq(S) \subseteq Seq(Venues)
    OBVIOUS
  <2>. QED
    BY <1>1, <1>4, <1>7, <2>1
<1>9. ToSet(ranked) \cap ToSet(extra) = {}
  BY <1>7 DEF rest
<1>10. filled \in Seq(Venues) /\ ToSet(filled) = ToSet(ranked) \cup ToSet(extra) /\ IsInjective(filled)
  <2>1. filled \in Seq(Venues) /\ ToSet(filled) = ToSet(ranked) \cup ToSet(extra)
    BY <1>2, <1>8, ConcatIs
  <2>2. IsInjective(filled)
    BY <1>2, <1>4, <1>7, <1>8, <1>9, ConcatIs
  <2>. QED
    BY <2>1, <2>2
<1>11. ToSet(filled) \subseteq all
  BY <1>1, <1>4, <1>7, <1>10
<1>12. Len(filled) = Len(ranked) + Len(extra)
  BY <1>2, <1>8, ConcatProperties
<1>13. Len(filled) = Fewer(Limit, Cardinality(all)) /\ ToSet(extra) \cap counted = {}
  <2>1. CASE Cardinality(up) <= Limit
    <3>1. rest = all \ up /\ Len(ranked) = Cardinality(up) /\ m = Limit - Cardinality(up)
      BY <1>3, <1>4, <2>1 DEF rest, m, Fewer
    <3>2. Cardinality(rest) = Cardinality(all) - Cardinality(up)
      <4>1. all \cap up = up
        BY <1>1
      <4>2. Cardinality(all \ up) = Cardinality(all) - Cardinality(all \cap up)
        BY <1>5, FS_Difference
      <4>. QED
        BY <3>1, <4>1, <4>2
    <3>3. Len(extra) = Fewer(Limit - Cardinality(up), Cardinality(all) - Cardinality(up))
      BY <1>7, <3>1, <3>2
    <3>4. Len(filled) = Fewer(Limit, Cardinality(all))
      BY <1>3, <1>4, <1>5, <1>12, <3>1, <3>3 DEF Fewer
    <3>5. rest \cap counted = {}
      BY <1>1, <3>1
    <3>. QED
      BY <1>7, <3>4, <3>5
  <2>2. CASE ~(Cardinality(up) <= Limit)
    <3>1. Len(ranked) = Limit /\ m = 0
      BY <1>3, <1>4, <2>2 DEF Fewer, m
    <3>2. Len(extra) = 0
      BY <1>7, <3>1 DEF Fewer
    <3>3. Len(filled) = Fewer(Limit, Cardinality(all))
      BY <1>3, <1>4, <1>5, <1>12, <2>2, <3>1, <3>2 DEF Fewer
    <3>4. ToSet(extra) = {}
      <4>1. DOMAIN extra = 1..0
        BY <1>7, <3>2, LenProperties
      <4>. QED
        BY <4>1 DEF ToSet
    <3>. QED
      BY <3>3, <3>4
  <2>. QED
    BY <2>1, <2>2
<1>14. Select(filled, counted) = ranked
  <2>1. ToSet(ranked) \subseteq counted
    BY <1>1, <1>4
  <2>2. Select(ranked \o extra, counted) = ranked
    BY <1>8, <1>13, <2>1, SelectFirst
  <2>. QED
    BY <1>2, <2>2
<1>15. FetchInOrder(d, filled) = filled
  BY <1>1, <1>10, <1>11, SelectAll DEF FetchInOrder
<1>16. VenueCount(d, city) = Cardinality(all)
  BY DEF VenueCount, all
<1>. QED
  BY <1>10, <1>11, <1>13, <1>14, <1>15, <1>16 DEF all, counted, ranked, filled

-----------------------------------------------------------------------------
(* The loads of a page: Got(d, k, i) is what the first i statements get.   *)

PageKeys == Kinds \X (Cities \cup {AllCities})

Got(d, k, i) ==
    IF i = 0 THEN <<>>
    ELSE IF i = 1 THEN Statement(d, k, 1, <<>>)
    ELSE IF i = 2 THEN Statement(d, k, 2, Statement(d, k, 1, <<>>))
    ELSE Statement(d, k, 3, Statement(d, k, 2, Statement(d, k, 1, <<>>)))

LEMMA GotIs ==
    ASSUME NEW d, NEW k
    PROVE  /\ Got(d, k, 0) = <<>> /\ Got(d, k, 1) = Statement(d, k, 1, <<>>)
           /\ Got(d, k, 2) = Statement(d, k, 2, Got(d, k, 1))
           /\ Got(d, k, 3) = Statement(d, k, 3, Got(d, k, 2))
BY DEF Got

LEMMA StatementsAre ==
    ASSUME NEW k \in PageKeys
    PROVE  /\ k[1] \in {"list", "slug"} => Statements(k[1]) = 2
           /\ k[1] \in {"trending", "favorites"} => Statements(k[1]) = 3
           /\ k[1] \in {"picks", "gems"} => Statements(k[1]) = 1
           /\ Statements(k[1]) \in 1..3
<1>1. k[1] \in {"list", "slug", "trending", "favorites", "picks", "gems"}
  BY DEF PageKeys, Kinds
<1>. QED
  BY <1>1 DEF Statements

LEMMA StatementIs ==
    ASSUME NEW d, NEW k \in PageKeys, NEW got
    PROVE  /\ k[1] = "list" =>
                 /\ Statement(d, k, 1, got) = <<d.text>>
                 /\ Statement(d, k, 2, got) = Append(got, [c \in Cities |-> VenueCount(d, c)])
           /\ k[1] = "slug" =>
                 /\ Statement(d, k, 1, got) = <<d.text[k[2]]>>
                 /\ Statement(d, k, 2, got) = Append(got, VenueCount(d, k[2]))
           /\ k[1] \in {"trending", "favorites"} =>
                 /\ Statement(d, k, 1, got) = Ranked(d, k[1], k[2])
                 /\ Statement(d, k, 2, got) = Fill(d, got, k[2])
                 /\ Statement(d, k, 3, got) = FetchInOrder(d, got)
BY DEF Statement

LEMMA GotGrows ==
    ASSUME NEW d, NEW k \in PageKeys, NEW i \in 1..Statements(k[1])
    PROVE  Got(d, k, i) = Statement(d, k, i, Got(d, k, i - 1))
<1>1. i \in 1..3
  BY StatementsAre
<1>. QED
  BY <1>1 DEF Got

LEMMA AnswerIs ==
    ASSUME NEW d, NEW k \in PageKeys
    PROVE  Answer(d, k) = Got(d, k, Statements(k[1]))
<1>1. Statements(k[1]) \in 1..3
  BY StatementsAre
<1>2. CASE Statements(k[1]) = 1
  BY <1>2 DEF Answer, Got
<1>3. CASE Statements(k[1]) = 2
  BY <1>3 DEF Answer, Got
<1>4. CASE Statements(k[1]) = 3
  BY <1>4 DEF Answer, Got
<1>. QED
  BY <1>1, <1>2, <1>3, <1>4

\* What a section's statements get, and that its answer tells all of it.
LEMMA SectionIs ==
    ASSUME NEW d, NEW k \in PageKeys, k[1] \in {"trending", "favorites"}
    PROVE  /\ Got(d, k, 3) = Answer(d, k) /\ Got(d, k, 2) = Answer(d, k)
           /\ Got(d, k, 1) = Select(Answer(d, k), {v \in Venues : Counted(k[1])[v] > 0})
           /\ IsInjective(Answer(d, k)) /\ ToSet(Answer(d, k)) \subseteq In(d, k[2])
           /\ Len(Answer(d, k)) = Fewer(Limit, VenueCount(d, k[2]))
<1> DEFINE ranked == Ranked(d, k[1], k[2])
           filled == Fill(d, ranked, k[2])
<1>1. /\ IsInjective(filled) /\ ToSet(filled) \subseteq In(d, k[2])
      /\ Len(filled) = Fewer(Limit, VenueCount(d, k[2]))
      /\ Select(filled, {v \in Venues : Counted(k[1])[v] > 0}) = ranked
      /\ FetchInOrder(d, filled) = filled
  BY FilledIs
<1>2. Got(d, k, 1) = ranked
  BY GotIs DEF Statement
<1>3. Got(d, k, 2) = filled
  <2>1. Statement(d, k, 2, ranked) = filled
    BY DEF Statement
  <2> HIDE DEF ranked, filled
  <2>. QED
    BY <1>2, <2>1, GotIs
<1> HIDE DEF ranked, filled
<1>4. Got(d, k, 3) = Statement(d, k, 3, Got(d, k, 2))
  BY GotIs
<1>5. Got(d, k, 3) = filled
  BY <1>1, <1>3, <1>4, StatementIs
<1>6. Answer(d, k) = filled
  BY <1>5, AnswerIs, StatementsAre
<1>. QED
  BY <1>1, <1>2, <1>3, <1>5, <1>6

\* The page of a city, or of them all, is a text and a count.
LEMMA PageAndCount ==
    ASSUME NEW d, NEW k \in PageKeys, k[1] \in {"list", "slug"}
    PROVE  \E a, b : Got(d, k, 1) = <<a>> /\ Got(d, k, 2) = Append(<<a>>, b)
<1>1. CASE k[1] = "list"
  <2>1. /\ Statement(d, k, 1, <<>>) = <<d.text>>
        /\ \A got : Statement(d, k, 2, got) = Append(got, [c \in Cities |-> VenueCount(d, c)])
    BY <1>1 DEF Statement
  <2>. QED
    BY <2>1, GotIs
<1>2. CASE k[1] = "slug"
  <2>1. /\ Statement(d, k, 1, <<>>) = <<d.text[k[2]]>>
        /\ \A got : Statement(d, k, 2, got) = Append(got, VenueCount(d, k[2]))
    BY <1>2 DEF Statement
  <2>. QED
    BY <2>1, GotIs
<1>. QED
  BY <1>1, <1>2

\* Rows that give a page one answer give its statements the same, too.
LEMMA SameGot ==
    ASSUME NEW d, NEW e, NEW k \in PageKeys, Answer(d, k) = Answer(e, k)
    PROVE  \A i \in 0..Statements(k[1]) : Got(d, k, i) = Got(e, k, i)
<1>1. k[1] \in {"list", "slug", "trending", "favorites", "picks", "gems"}
  BY DEF PageKeys, Kinds
<1>2. Got(d, k, 0) = Got(e, k, 0)
  BY DEF Got
<1>3. CASE k[1] \in {"picks", "gems"}
  <2>1. Statements(k[1]) = 1 /\ Got(d, k, 1) = Answer(d, k) /\ Got(e, k, 1) = Answer(e, k)
    BY <1>3, StatementsAre, AnswerIs
  <2>. QED
    BY <1>2, <2>1
<1>4. CASE k[1] \in {"trending", "favorites"}
  <2>1. /\ Got(d, k, 3) = Answer(d, k) /\ Got(d, k, 2) = Answer(d, k)
        /\ Got(d, k, 1) = Select(Answer(d, k), {v \in Venues : Counted(k[1])[v] > 0})
    BY <1>4, SectionIs
  <2>2. /\ Got(e, k, 3) = Answer(e, k) /\ Got(e, k, 2) = Answer(e, k)
        /\ Got(e, k, 1) = Select(Answer(e, k), {v \in Venues : Counted(k[1])[v] > 0})
    BY <1>4, SectionIs
  <2>3. Statements(k[1]) = 3
    BY <1>4, StatementsAre
  <2>. QED
    BY <1>2, <2>1, <2>2, <2>3
<1>5. CASE k[1] \in {"list", "slug"}
  <2>1. Statements(k[1]) = 2 /\ Got(d, k, 2) = Answer(d, k) /\ Got(e, k, 2) = Answer(e, k)
    BY <1>5, StatementsAre, AnswerIs
  <2>2. \E a, b : Got(d, k, 1) = <<a>> /\ Got(d, k, 2) = Append(<<a>>, b)
    BY <1>5, PageAndCount
  <2>a. \E a, b : Got(e, k, 1) = <<a>> /\ Got(e, k, 2) = Append(<<a>>, b)
    BY <1>5, PageAndCount
  <2>b. PICK a, b : Got(d, k, 1) = <<a>> /\ Got(d, k, 2) = Append(<<a>>, b)
    BY <2>2
  <2>3. PICK f, g : Got(e, k, 1) = <<f>> /\ Got(e, k, 2) = Append(<<f>>, g)
    BY <2>a
  <2>4. Append(<<a>>, b)[1] = a /\ Append(<<f>>, g)[1] = f
    OBVIOUS
  <2>5. Got(d, k, 1) = Got(e, k, 1)
    BY <2>1, <2>b, <2>3, <2>4
  <2>. QED
    BY <1>2, <2>1, <2>5
<1>. QED
  BY <1>1, <1>3, <1>4, <1>5

-----------------------------------------------------------------------------
(* The caches, the CDN and the loads under way.  d is a state of the rows, *)
(* ks, ch and cl the pages looked at and the histories.                    *)

Right(n, d) == n.got = Got(d, n.key, n.step - 1)
Late(n) == IF n.ticked THEN 1 ELSE 0

CacheFits(w, k, e, d, ch, cl) == e # None =>
    /\ DOMAIN e = {"value", "age"} /\ e.age \in 0..Ttl
    /\ e.value = Answer(d, k) \/ ch[k] <= e.age + 1
    /\ k \in cl[w] => e.value = Answer(d, k)

EdgeFits(k, e, d, ch) == e # None =>
    /\ DOMAIN e = {"value", "age"} /\ e.age \in 0..(SMaxAge + Swr)
    /\ e.value = Answer(d, k) \/ ch[k] <= e.age + Ttl + 1

ReqFits(n, ks, d, ch, cl) ==
    /\ DOMAIN n = DOMAIN Free /\ n.ticked \in BOOLEAN /\ n.calm \in BOOLEAN
    /\ n.op \in EditOps => n.w \in Workers
    /\ n.op = "read" =>
          /\ n.w \in Workers /\ n.key \in ks /\ n.step \in 1..(Statements(n.key[1]) + 1)
          /\ Right(n, d) \/ ch[n.key] <= Late(n)
          /\ n.calm \/ n.key \in cl[n.w] => Right(n, d)

PagesTyped ==
    /\ keys \in Pages
    /\ DOMAIN changed = keys /\ \A k \in keys : changed[k] \in 0..MaxAge
    /\ DOMAIN clean = Workers /\ \A w \in Workers : clean[w] \subseteq keys
CachesFit == DOMAIN cache = Workers /\ \A w \in Workers :
    DOMAIN cache[w] = keys /\ \A k \in keys : CacheFits(w, k, cache[w][k], db, changed, clean)
EdgesFit == DOMAIN edge = keys /\ \A k \in keys : EdgeFits(k, edge[k], db, changed)
ReqsFit == DOMAIN req = Requests /\ \A r \in Requests : ReqFits(req[r], keys, db, changed, clean)

PagesInv == PagesTyped /\ CachesFit /\ EdgesFit /\ ReqsFit

LEMMA KeysAre == PagesTyped => \A k \in keys : k \in PageKeys /\ Statements(k[1]) \in 1..3
BY PagesAssumption, StatementsAre DEF PagesTyped, PageKeys

LEMMA TimesAre == /\ Ttl \in Nat /\ SMaxAge \in Nat /\ Swr \in Nat
                  /\ MaxAge \in Nat /\ MaxAge > Ttl + SMaxAge + Swr + 1
BY TimesAssumption DEF MaxAge

LEMMA FreeFits ==
    /\ DOMAIN Free = {"op", "step", "w", "key", "arg", "got", "ticked", "calm"}
    /\ \A ks, d, ch, cl : ReqFits(Free, ks, d, ch, cl)
<1>1. /\ DOMAIN Free = {"op", "step", "w", "key", "arg", "got", "ticked", "calm"}
      /\ Free.op = "idle" /\ Free.ticked = FALSE /\ Free.calm = TRUE
  BY DEF Free
<1>. QED
  BY <1>1 DEF ReqFits, EditOps

\* A load that begins has got nothing yet.
LEMMA NewRead ==
    ASSUME PagesInv, NEW w \in Workers, NEW k \in keys, NEW n, DOMAIN n = DOMAIN Free,
           n.op = "read", n.step = 1, n.w = w, n.key = k, n.got = <<>>, n.ticked = FALSE, n.calm = TRUE
    PROVE  ReqFits(n, keys, db, changed, clean)
<1>1. Statements(k[1]) \in 1..3
  BY KeysAre DEF PagesInv
<1>2. Right(n, db)
  BY GotIs DEF Right
<1>3. n.step \in 1..(Statements(n.key[1]) + 1)
  <2>1. 1 \in 1..(Statements(k[1]) + 1)
    BY <1>1
  <2>. QED
    BY <2>1
<1>. QED
  BY <1>2, <1>3 DEF ReqFits

\* A request that takes a step leaves the others as they were.
LEMMA ReqMoves ==
    ASSUME ReqsFit, NEW r \in Requests, NEW n, req' = [req EXCEPT ![r] = n],
           UNCHANGED <<keys, db, changed, clean>>, ReqFits(n, keys, db, changed, clean)
    PROVE  ReqsFit'
<1>1. /\ DOMAIN req' = Requests /\ \A q \in Requests : req'[q] = IF q = r THEN n ELSE req[q]
  BY DEF ReqsFit
<1>2. \A q \in Requests : ReqFits(req'[q], keys, db, changed, clean)
  BY <1>1 DEF ReqsFit
<1>. QED
  BY <1>1, <1>2 DEF ReqsFit

LEMMA OnlyReqMoves ==
    ASSUME PagesInv, NEW r \in Requests, NEW n, req' = [req EXCEPT ![r] = n],
           UNCHANGED <<keys, db, cache, edge, changed, clean>>, ReqFits(n, keys, db, changed, clean)
    PROVE  PagesInv'
<1>1. ReqsFit'
  BY ReqMoves DEF PagesInv
<1>. QED
  BY <1>1 DEF PagesInv, PagesTyped, CachesFit, EdgesFit

\* What answers a reader, unless it is for one user, is kept by the CDN.
LEMMA RespondKeeps ==
    ASSUME PagesInv, NEW r \in Requests, req[r].key \in keys, NEW value, Respond(r, value), CachesFit',
           value = Answer(db, req[r].key) \/ changed[req[r].key] <= Ttl + 1
    PROVE  PagesInv'
<1> DEFINE k == req[r].key
           e == [value |-> value, age |-> 0]
<1>1. /\ edge' = edge \/ edge' = [edge EXCEPT ![k] = e]
      /\ req' = [req EXCEPT ![r] = Free] /\ UNCHANGED <<keys, db, changed, clean>>
  BY DEF Respond, Same
<1>2. ReqsFit'
  BY <1>1, ReqMoves, FreeFits DEF PagesInv
<1>3. EdgeFits(k, e, db, changed)
  <2>1. DOMAIN e = {"value", "age"} /\ e.age = 0 /\ e.value = value
    OBVIOUS
  <2>2. 0 \in 0..(SMaxAge + Swr) /\ 0 + Ttl + 1 = Ttl + 1
    BY TimesAre
  <2> HIDE DEF e
  <2>. QED
    BY <2>1, <2>2 DEF EdgeFits
<1> HIDE DEF e, k
<1>4. DOMAIN edge' = keys /\ \A j \in keys : edge'[j] = edge[j] \/ (j = k /\ edge'[j] = e)
  BY <1>1 DEF PagesInv, EdgesFit
<1>5. \A j \in keys : EdgeFits(j, edge'[j], db, changed)
  BY <1>3, <1>4 DEF PagesInv, EdgesFit
<1>6. EdgesFit'
  BY <1>1, <1>4, <1>5 DEF EdgesFit
<1>7. PagesTyped'
  BY <1>1 DEF PagesInv, PagesTyped
<1>. QED
  BY <1>2, <1>6, <1>7 DEF PagesInv

LEMMA BeginReadKeeps ==
    ASSUME PagesInv, NEW r \in Requests, NEW w \in Workers, NEW k \in keys, BeginRead(r, w, k)
    PROVE  PagesInv'
<1> DEFINE n == [Free EXCEPT !.op = "read", !.step = 1, !.w = w, !.key = k]
<1>1. req' = [req EXCEPT ![r] = n] /\ UNCHANGED <<keys, db, cache, edge, changed, clean>>
  BY DEF BeginRead, Same
<1>2. /\ DOMAIN n = DOMAIN Free /\ n.op = "read" /\ n.step = 1 /\ n.w = w /\ n.key = k
      /\ n.got = <<>> /\ n.ticked = FALSE /\ n.calm = TRUE
  BY FreeFits DEF Free
<1> HIDE DEF n
<1>. QED
  BY <1>1, <1>2, NewRead, OnlyReqMoves

\* What a request that reads a page knows.
LEMMA LoadingIs ==
    ASSUME PagesInv, NEW r \in Requests, Loading(r)
    PROVE  /\ DOMAIN req[r] = DOMAIN Free /\ req[r].w \in Workers /\ req[r].key \in keys
           /\ req[r].key \in PageKeys /\ Statements(req[r].key[1]) \in 1..3
           /\ req[r].step \in 1..(Statements(req[r].key[1]) + 1)
           /\ req[r].ticked \in BOOLEAN /\ req[r].calm \in BOOLEAN
           /\ changed[req[r].key] \in Nat
           /\ Right(req[r], db) \/ changed[req[r].key] <= Late(req[r])
           /\ req[r].calm \/ req[r].key \in clean[req[r].w] => Right(req[r], db)
<1>1. ReqFits(req[r], keys, db, changed, clean) /\ req[r].op = "read"
  BY DEF PagesInv, ReqsFit, Loading
<1>2. req[r].key \in keys
  BY <1>1 DEF ReqFits
<1>3. req[r].key \in PageKeys /\ Statements(req[r].key[1]) \in 1..3
  BY <1>2, KeysAre DEF PagesInv
<1>4. changed[req[r].key] \in Nat
  BY <1>2, TimesAre DEF PagesInv, PagesTyped
<1>. QED
  BY <1>1, <1>2, <1>3, <1>4 DEF ReqFits

LEMMA CacheHitKeeps ==
    ASSUME PagesInv, NEW r \in Requests, CacheHit(r)
    PROVE  PagesInv'
<1> DEFINE w == req[r].w
           k == req[r].key
           e == cache[w][k]
<1>1. Loading(r) /\ e # None /\ Respond(r, e.value) /\ UNCHANGED cache
  BY DEF CacheHit
<1>2. w \in Workers /\ k \in keys /\ changed[k] \in Nat
  BY <1>1, LoadingIs
<1>3. CacheFits(w, k, e, db, changed, clean)
  BY <1>2 DEF PagesInv, CachesFit
<1>4. e.value = Answer(db, k) \/ changed[k] <= Ttl + 1
  <2>1. e.age \in 0..Ttl /\ (e.value = Answer(db, k) \/ changed[k] <= e.age + 1)
    BY <1>1, <1>3 DEF CacheFits
  <2> HIDE DEF e, k
  <2>. QED
    BY <1>2, <2>1, TimesAre
<1>5. CachesFit'
  BY <1>1 DEF PagesInv, CachesFit, Respond, Same
<1>. QED
  BY <1>1, <1>2, <1>4, <1>5, RespondKeeps

LEMMA LoadKeeps ==
    ASSUME PagesInv, NEW r \in Requests, Load(r)
    PROVE  PagesInv'
<1> DEFINE k == req[r].key
           i == req[r].step
           got == Statement(db, k, i, req[r].got)
           n == [req[r] EXCEPT !.got = got, !.step = i + 1]
<1>1. /\ Loading(r) /\ i <= Statements(k[1])
      /\ UNCHANGED <<keys, db, cache, edge, changed, clean>>
  BY DEF Load, Same
<1>2. req' = [req EXCEPT ![r] = n]
  <2>1. req' = [req EXCEPT ![r].got = got, ![r].step = i + 1]
    BY DEF Load
  <2>2. DOMAIN req = Requests
    BY DEF PagesInv, ReqsFit
  <2>. QED
    BY <2>1, <2>2
<1>3. /\ DOMAIN req[r] = DOMAIN Free /\ req[r].w \in Workers /\ k \in keys /\ k \in PageKeys
      /\ Statements(k[1]) \in 1..3 /\ i \in 1..(Statements(k[1]) + 1)
      /\ req[r].ticked \in BOOLEAN /\ req[r].calm \in BOOLEAN
      /\ Right(req[r], db) \/ changed[k] <= Late(req[r])
      /\ req[r].calm \/ k \in clean[req[r].w] => Right(req[r], db)
  BY <1>1, LoadingIs
<1>4. /\ DOMAIN n = DOMAIN Free /\ n.op = "read" /\ n.w = req[r].w /\ n.key = k /\ n.step = i + 1
      /\ n.got = got /\ n.ticked = req[r].ticked /\ n.calm = req[r].calm
  BY <1>1, <1>3, FreeFits DEF Loading
<1>5. i \in 1..Statements(k[1]) /\ i + 1 \in 1..(Statements(k[1]) + 1) /\ (i + 1) - 1 = i
  BY <1>1, <1>3
<1>6. Right(req[r], db) => Right(n, db)
  <2>1. Got(db, k, i) = Statement(db, k, i, Got(db, k, i - 1))
    BY <1>3, <1>5, GotGrows
  <2>2. Right(req[r], db) => got = Got(db, k, i)
    BY <2>1 DEF Right
  <2> HIDE DEF n, got
  <2>. QED
    BY <1>4, <1>5, <2>2 DEF Right
<1> HIDE DEF n, got
<1>7. ReqFits(n, keys, db, changed, clean)
  BY <1>3, <1>4, <1>5, <1>6 DEF ReqFits, EditOps, Late
<1>. QED
  BY <1>1, <1>2, <1>7, OnlyReqMoves

LEMMA CacheSetKeeps ==
    ASSUME PagesInv, NEW r \in Requests, CacheSet(r)
    PROVE  PagesInv'
<1> DEFINE w == req[r].w
           k == req[r].key
           got == req[r].got
           e == [value |-> got, age |-> 0]
<1>1. /\ Loading(r) /\ req[r].step = Statements(k[1]) + 1 /\ Respond(r, got)
      /\ cache' = [cache EXCEPT ![w][k] = e]
  BY DEF CacheSet
<1>2. /\ w \in Workers /\ k \in keys /\ k \in PageKeys /\ Statements(k[1]) \in 1..3
      /\ changed[k] \in Nat
      /\ Right(req[r], db) \/ changed[k] <= Late(req[r])
      /\ k \in clean[w] => Right(req[r], db)
  BY <1>1, LoadingIs
<1>3. Right(req[r], db) => got = Answer(db, k)
  <2>1. req[r].step - 1 = Statements(k[1])
    BY <1>1, <1>2
  <2>. QED
    BY <1>2, <2>1, AnswerIs DEF Right
<1>4. changed[k] <= Late(req[r]) => changed[k] <= 1
  BY <1>2 DEF Late
<1>5. /\ got = Answer(db, k) \/ changed[k] <= 1
      /\ k \in clean[w] => got = Answer(db, k)
  BY <1>2, <1>3, <1>4
<1>6. CacheFits(w, k, e, db, changed, clean)
  <2>1. DOMAIN e = {"value", "age"} /\ e.age = 0 /\ e.value = got
    OBVIOUS
  <2>2. 0 \in 0..Ttl /\ 0 + 1 = 1
    BY TimesAre
  <2> HIDE DEF e, got
  <2>. QED
    BY <1>5, <2>1, <2>2 DEF CacheFits
<1> HIDE DEF e
<1>7. /\ DOMAIN cache' = Workers /\ \A v \in Workers : DOMAIN cache'[v] = keys
      /\ \A v \in Workers, j \in keys : cache'[v][j] = IF v = w /\ j = k THEN e ELSE cache[v][j]
  BY <1>1, <1>2 DEF PagesInv, CachesFit
<1>8. UNCHANGED <<keys, db, changed, clean>>
  BY <1>1 DEF Respond, Same
<1>9. \A v \in Workers, j \in keys : CacheFits(v, j, cache'[v][j], db, changed, clean)
  BY <1>6, <1>7 DEF PagesInv, CachesFit
<1>10. CachesFit'
  BY <1>7, <1>8, <1>9 DEF CachesFit
<1>11. got = Answer(db, k) \/ changed[k] <= Ttl + 1
  <2> HIDE DEF got, k
  <2>. QED
    BY <1>2, <1>5, TimesAre
<1>. QED
  BY <1>1, <1>2, <1>10, <1>11, RespondKeeps

-----------------------------------------------------------------------------
(* The requests of editors, recommendations, and time.                     *)

LEMMA EditIs ==
    ASSUME PagesInv, NEW r \in Requests, req[r].op \in EditOps
    PROVE  /\ DOMAIN req[r] = DOMAIN Free /\ req[r].w \in Workers
           /\ req[r].ticked \in BOOLEAN /\ req[r].calm \in BOOLEAN /\ ~Loading(r)
BY DEF PagesInv, ReqsFit, ReqFits, EditOps, Loading

\* A request that reads no page is not told anything.
LEMMA OtherFits ==
    ASSUME NEW n, DOMAIN n = DOMAIN Free, n.ticked \in BOOLEAN, n.calm \in BOOLEAN,
           n.op # "read", n.op \in EditOps => n.w \in Workers
    PROVE  \A ks, d, ch, cl : ReqFits(n, ks, d, ch, cl)
BY DEF ReqFits

LEMMA BeginEditKeeps ==
    ASSUME PagesInv, NEW r \in Requests, NEW w \in Workers, NEW op, NEW arg, BeginEdit(r, w, op, arg)
    PROVE  PagesInv'
<1> DEFINE got == IF op = "city" THEN <<db.text[arg]>> ELSE <<db.venue[arg]>>
           n == [Free EXCEPT !.op = op, !.step = 1, !.w = w, !.arg = arg, !.got = got]
<1>1. /\ op \in EditOps /\ req' = [req EXCEPT ![r] = n]
      /\ UNCHANGED <<keys, db, cache, edge, changed, clean>>
  BY DEF BeginEdit, Same
<1> HIDE DEF got
<1>2. /\ DOMAIN n = DOMAIN Free /\ n.op = op /\ n.w = w /\ n.ticked = FALSE /\ n.calm = TRUE
  BY FreeFits DEF Free
<1> HIDE DEF n
<1>3. op # "read"
  BY <1>1 DEF EditOps
<1>4. ReqFits(n, keys, db, changed, clean)
  BY <1>2, <1>3, OtherFits
<1>. QED
  BY <1>1, <1>4, OnlyReqMoves

LEMMA ReloadKeeps ==
    ASSUME PagesInv, NEW r \in Requests, Reload(r)
    PROVE  PagesInv'
<1> DEFINE got == <<Edited(req[r].op, req[r].got[1]), db.venue[req[r].arg]>>
           n == [req[r] EXCEPT !.got = got, !.step = 2]
<1>1. /\ req[r].op \in {"publish", "unpublish"}
      /\ UNCHANGED <<keys, db, cache, edge, changed, clean>>
  BY DEF Reload, Same
<1>2. /\ DOMAIN req[r] = DOMAIN Free /\ req[r].w \in Workers
      /\ req[r].ticked \in BOOLEAN /\ req[r].calm \in BOOLEAN
  BY <1>1, EditIs DEF EditOps
<1>3. req' = [req EXCEPT ![r] = n]
  <2>1. req' = [req EXCEPT ![r].got = <<Edited(req[r].op, @[1]), db.venue[req[r].arg]>>, ![r].step = 2]
    BY DEF Reload
  <2>2. DOMAIN req = Requests
    BY DEF PagesInv, ReqsFit
  <2>. QED
    BY <2>1, <2>2
<1> HIDE DEF got
<1>4. /\ DOMAIN n = DOMAIN Free /\ n.op = req[r].op /\ n.w = req[r].w
      /\ n.ticked = req[r].ticked /\ n.calm = req[r].calm
  BY <1>2, FreeFits
<1> HIDE DEF n
<1>5. ReqFits(n, keys, db, changed, clean)
  BY <1>1, <1>2, <1>4, OtherFits
<1>. QED
  BY <1>1, <1>3, <1>5, OnlyReqMoves

\* Rows change: a page whose answer does has just changed, for the caches, the
\* CDN and the loads; for the other pages nothing that was right is wrong.
LEMMA ChangesKeep ==
    ASSUME PagesInv, NEW r \in Requests, req[r].op \in EditOps,
           NEW step, Changes([req EXCEPT ![r].step = step]), UNCHANGED <<keys, cache, edge>>
    PROVE  PagesInv'
<1> DEFINE hit == {k \in keys : Answer(db, k) # Answer(db', k)}
           next == [req EXCEPT ![r].step = step]
<1>1. /\ changed' = [k \in keys |-> IF k \in hit THEN 0 ELSE changed[k]]
      /\ clean' = [w \in Workers |-> clean[w] \ hit]
      /\ req' = [q \in Requests |->
                    IF next[q].op \in {"read", "pages"} THEN [next[q] EXCEPT !.calm = FALSE]
                    ELSE next[q]]
  BY DEF Changes
<1>2. \A k \in keys : k \notin hit => Answer(db', k) = Answer(db, k)
  OBVIOUS
<1>3. /\ DOMAIN req = Requests /\ \A q \in Requests : q # r => next[q] = req[q]
      /\ DOMAIN next[r] = DOMAIN Free /\ next[r].op = req[r].op /\ next[r].w = req[r].w
      /\ next[r].ticked = req[r].ticked /\ next[r].calm = req[r].calm
  BY EditIs, FreeFits DEF PagesInv, ReqsFit
<1> HIDE DEF hit, next
<1>4. PagesTyped'
  <2>1. \A k \in keys : changed'[k] \in 0..MaxAge
    BY <1>1, TimesAre DEF PagesInv, PagesTyped
  <2>2. DOMAIN changed' = keys /\ DOMAIN clean' = Workers /\ \A w \in Workers : clean'[w] \subseteq keys
    BY <1>1 DEF PagesInv, PagesTyped
  <2>. QED
    BY <2>1, <2>2 DEF PagesInv, PagesTyped
<1>5. ASSUME NEW k \in keys
      PROVE  /\ k \in hit => changed'[k] = 0 /\ \A w \in Workers : k \notin clean'[w]
             /\ k \notin hit => /\ changed'[k] = changed[k] /\ Answer(db', k) = Answer(db, k)
                                /\ \A w \in Workers : k \in clean'[w] => k \in clean[w]
  BY <1>1, <1>2
<1>6. CachesFit'
  <2>1. \A w \in Workers, k \in keys : CacheFits(w, k, cache[w][k], db', changed', clean')
    <3> TAKE w \in Workers, k \in keys
    <3>1. CacheFits(w, k, cache[w][k], db, changed, clean)
      BY DEF PagesInv, CachesFit
    <3>2. cache[w][k] # None => cache[w][k].age \in 0..Ttl /\ 0 <= cache[w][k].age + 1
      BY <3>1, TimesAre DEF CacheFits
    <3>. QED
      BY <1>5, <3>1, <3>2 DEF CacheFits
  <2>. QED
    BY <2>1 DEF PagesInv, CachesFit
<1>7. EdgesFit'
  <2>1. \A k \in keys : EdgeFits(k, edge[k], db', changed')
    <3> TAKE k \in keys
    <3>1. EdgeFits(k, edge[k], db, changed)
      BY DEF PagesInv, EdgesFit
    <3>2. edge[k] # None => edge[k].age \in 0..(SMaxAge + Swr) /\ 0 <= edge[k].age + Ttl + 1
      BY <3>1, TimesAre DEF EdgeFits
    <3>. QED
      BY <1>5, <3>1, <3>2 DEF EdgeFits
  <2>. QED
    BY <2>1 DEF PagesInv, EdgesFit
<1>8. ASSUME NEW q \in Requests PROVE ReqFits(req'[q], keys, db', changed', clean')
  <2>1. CASE q = r
    <3>1. req'[q] = next[r] /\ next[r].op # "read"
      BY <1>1, <1>3, <2>1 DEF EditOps
    <3>. QED
      BY <1>3, <2>1, <3>1, EditIs, OtherFits
  <2>2. CASE q # r /\ req[q].op # "read"
    <3>1. req'[q] = req[q] \/ (req[q].op = "pages" /\ req'[q] = [req[q] EXCEPT !.calm = FALSE])
      BY <1>1, <1>3, <2>2
    <3>2. ReqFits(req[q], keys, db, changed, clean)
      BY DEF PagesInv, ReqsFit
    <3>3. CASE req'[q] = req[q]
      BY <2>2, <3>2, <3>3 DEF ReqFits
    <3>4. CASE req[q].op = "pages" /\ req'[q] = [req[q] EXCEPT !.calm = FALSE]
      <4>1. /\ DOMAIN req'[q] = DOMAIN Free /\ req'[q].op = "pages"
            /\ req'[q].ticked \in BOOLEAN /\ req'[q].calm = FALSE
        BY <3>2, <3>4, FreeFits DEF ReqFits
      <4>. QED
        BY <4>1, OtherFits DEF EditOps
    <3>. QED
      BY <3>1, <3>3, <3>4
  <2>3. CASE q # r /\ req[q].op = "read"
    <3> DEFINE n == [req[q] EXCEPT !.calm = FALSE]
               k == req[q].key
    <3>1. req'[q] = n
      BY <1>1, <1>3, <2>3
    <3>2. /\ DOMAIN req[q] = DOMAIN Free /\ req[q].w \in Workers /\ k \in keys /\ k \in PageKeys
          /\ Statements(k[1]) \in 1..3 /\ req[q].step \in 1..(Statements(k[1]) + 1)
          /\ req[q].ticked \in BOOLEAN
          /\ Right(req[q], db) \/ changed[k] <= Late(req[q])
          /\ k \in clean[req[q].w] => Right(req[q], db)
      BY <2>3, LoadingIs DEF Loading
    <3>3. /\ DOMAIN n = DOMAIN Free /\ n.op = "read" /\ n.w = req[q].w /\ n.key = k
          /\ n.step = req[q].step /\ n.got = req[q].got /\ n.ticked = req[q].ticked /\ n.calm = FALSE
      BY <2>3, <3>2, FreeFits
    <3> HIDE DEF n
    <3>4. k \notin hit => (Right(req[q], db) => Right(n, db'))
      <4> SUFFICES ASSUME k \notin hit PROVE Right(req[q], db) => Right(n, db')
        OBVIOUS
      <4>1. Answer(db, k) = Answer(db', k)
        BY <1>5, <3>2
      <4>2. req[q].step - 1 \in 0..Statements(k[1])
        BY <3>2
      <4>3. Got(db, k, req[q].step - 1) = Got(db', k, req[q].step - 1)
        BY <3>2, <4>1, <4>2, SameGot
      <4>. QED
        BY <3>3, <4>3 DEF Right
    <3>5. Late(n) = Late(req[q]) /\ 0 <= Late(n)
      BY <3>3 DEF Late
    <3>6. Right(n, db') \/ changed'[k] <= Late(n)
      BY <1>5, <3>2, <3>4, <3>5
    <3>7. k \in clean'[n.w] => Right(n, db')
      BY <1>5, <3>2, <3>3, <3>4
    <3>8. ReqFits(n, keys, db', changed', clean')
      BY <3>2, <3>3, <3>6, <3>7 DEF ReqFits, EditOps
    <3>. QED
      BY <3>1, <3>8
  <2>. QED
    BY <2>1, <2>2, <2>3
<1>9. ReqsFit'
  BY <1>1, <1>8 DEF ReqsFit
<1>. QED
  BY <1>4, <1>6, <1>7, <1>9 DEF PagesInv

\* invalidateBySlug: afterwards its pages are in no cache of the worker.
LEMMA InvalidateKeeps ==
    ASSUME PagesInv, NEW r \in Requests, Invalidate(r)
    PROVE  PagesInv'
<1> DEFINE w == req[r].w
           loaded == {req[q].key : q \in {q \in Requests : Loading(q) /\ req[q].w = w}}
           own == PagesOf(r)
<1>1. /\ req[r].op \in EditOps /\ UNCHANGED <<keys, db, edge, changed>>
      /\ cache' = [cache EXCEPT ![w] = [k \in keys |-> IF k \in own THEN None ELSE cache[w][k]]]
      /\ clean' = [clean EXCEPT ![w] = clean[w] \cup ((keys \cap own) \ loaded)]
      /\ req' = [req EXCEPT ![r] = Free]
  BY DEF Invalidate, Invalidated
<1>2. w \in Workers
  BY <1>1, EditIs
<1>3. \A q \in Requests : Loading(q) /\ req[q].w = w => req[q].key \in loaded
  OBVIOUS
<1> HIDE DEF loaded, own, w
<1>4. /\ DOMAIN cache' = Workers /\ \A v \in Workers : DOMAIN cache'[v] = keys
      /\ \A v \in Workers, k \in keys : cache'[v][k] = IF v = w /\ k \in own THEN None ELSE cache[v][k]
  BY <1>1, <1>2 DEF PagesInv, CachesFit
<1>5. /\ DOMAIN clean' = Workers /\ \A v \in Workers : clean'[v] \subseteq keys
      /\ \A v \in Workers : \A k \in clean'[v] : k \in clean[v] \/ (v = w /\ k \in own /\ k \notin loaded)
  BY <1>1, <1>2 DEF PagesInv, PagesTyped
<1>6. PagesTyped'
  BY <1>1, <1>5 DEF PagesInv, PagesTyped
<1>7. EdgesFit'
  BY <1>1 DEF PagesInv, EdgesFit
<1>8. \A v \in Workers, k \in keys : CacheFits(v, k, cache'[v][k], db, changed, clean')
  <2> TAKE v \in Workers, k \in keys
  <2>1. CacheFits(v, k, cache[v][k], db, changed, clean)
    BY DEF PagesInv, CachesFit
  <2>. QED
    BY <1>4, <1>5, <2>1 DEF CacheFits
<1>9. CachesFit'
  BY <1>1, <1>4, <1>8 DEF CachesFit
<1>10. ASSUME NEW q \in Requests PROVE ReqFits(req'[q], keys, db, changed, clean')
  <2>1. CASE q = r
    BY <1>1, <2>1, FreeFits DEF PagesInv, ReqsFit
  <2>2. CASE q # r
    <3>1. req'[q] = req[q] /\ ReqFits(req[q], keys, db, changed, clean)
      BY <1>1, <2>2 DEF PagesInv, ReqsFit
    <3>2. ASSUME req[q].op = "read", req[q].key \in clean'[req[q].w] PROVE req[q].key \in clean[req[q].w]
      <4>1. Loading(q) /\ req[q].w \in Workers
        BY <3>1, <3>2 DEF Loading, ReqFits
      <4>. QED
        BY <1>3, <1>5, <3>2, <4>1
    <3>. QED
      BY <3>1, <3>2 DEF ReqFits
  <2>. QED
    BY <2>1, <2>2
<1>11. ReqsFit'
  BY <1>1, <1>10 DEF PagesInv, ReqsFit
<1>. QED
  BY <1>6, <1>7, <1>9, <1>11 DEF PagesInv

LEMMA BeginForMeKeeps ==
    ASSUME PagesInv, NEW r \in Requests, NEW w \in Workers, NEW seen, BeginForMe(r, w, seen)
    PROVE  PagesInv'
<1>1. Picks \in keys /\ UNCHANGED <<keys, db, cache, edge, changed, clean>>
  BY DEF BeginForMe, Same
<1>2. CASE seen = {}
  <2> DEFINE n == [Free EXCEPT !.op = "read", !.step = 1, !.w = w, !.key = Picks, !.arg = "forMe"]
  <2>1. req' = [req EXCEPT ![r] = n]
    BY <1>2 DEF BeginForMe
  <2>2. /\ DOMAIN n = DOMAIN Free /\ n.op = "read" /\ n.step = 1 /\ n.w = w /\ n.key = Picks
        /\ n.got = <<>> /\ n.ticked = FALSE /\ n.calm = TRUE
    BY FreeFits DEF Free
  <2> HIDE DEF n
  <2>. QED
    BY <1>1, <2>1, <2>2, NewRead, OnlyReqMoves
<1>3. CASE seen # {}
  <2> DEFINE n == [Free EXCEPT !.op = "forMe", !.step = 1, !.arg = seen]
  <2>1. req' = [req EXCEPT ![r] = n]
    BY <1>3 DEF BeginForMe
  <2>2. DOMAIN n = DOMAIN Free /\ n.op = "forMe" /\ n.ticked = FALSE /\ n.calm = TRUE
    BY FreeFits DEF Free
  <2> HIDE DEF n
  <2>3. ReqFits(n, keys, db, changed, clean)
    BY <2>2, OtherFits DEF EditOps
  <2>. QED
    BY <1>1, <2>1, <2>3, OnlyReqMoves
<1>. QED
  BY <1>2, <1>3

LEMMA TickKeepsPages ==
    ASSUME PagesInv, Tick
    PROVE  PagesInv'
<1>1. /\ \A r \in Requests : ~req[r].ticked
      /\ req' = [r \in Requests |-> [req[r] EXCEPT !.ticked = Loading(r)]]
      /\ cache' = [w \in Workers |-> [k \in keys |-> Older(cache[w][k], Ttl)]]
      /\ edge' = [k \in keys |-> Older(edge[k], SMaxAge + Swr)]
      /\ changed' = [k \in keys |-> Fewer(MaxAge, changed[k] + 1)]
      /\ UNCHANGED <<keys, db, clean>>
  BY DEF Tick
<1>2. \A k \in keys : changed[k] \in 0..MaxAge
  BY DEF PagesInv, PagesTyped
<1>3. \A k \in keys : /\ changed'[k] \in 0..MaxAge /\ changed'[k] <= changed[k] + 1
                      /\ changed[k] \in Nat /\ changed'[k] \in Nat
  BY <1>1, <1>2, TimesAre DEF Fewer
<1>4. PagesTyped'
  BY <1>1, <1>3 DEF PagesInv, PagesTyped
<1>5. \A last \in Nat : \A e : (e # None => DOMAIN e = {"value", "age"} /\ e.age \in 0..last) =>
         (Older(e, last) # None => /\ e # None /\ DOMAIN Older(e, last) = {"value", "age"}
                                   /\ Older(e, last).age = e.age + 1 /\ Older(e, last).age \in 0..last
                                   /\ Older(e, last).value = e.value)
  BY DEF Older
<1>6. \A w \in Workers, k \in keys : CacheFits(w, k, cache'[w][k], db, changed', clean)
  <2> TAKE w \in Workers, k \in keys
  <2> DEFINE e == cache[w][k]
             o == Older(e, Ttl)
  <2>1. CacheFits(w, k, e, db, changed, clean) /\ cache'[w][k] = o
    BY <1>1 DEF PagesInv, CachesFit
  <2>2. o # None => /\ e # None /\ DOMAIN o = {"value", "age"} /\ o.age = e.age + 1
                    /\ o.age \in 0..Ttl /\ o.value = e.value
    BY <1>5, <2>1, TimesAre DEF CacheFits
  <2> HIDE DEF e, o
  <2>3. e # None => e.age \in 0..Ttl /\ e.age \in Int
    BY <2>1, TimesAre DEF CacheFits
  <2>4. CacheFits(w, k, o, db, changed', clean)
    BY <1>3, <2>1, <2>2, <2>3 DEF CacheFits
  <2>. QED
    BY <2>1, <2>4
<1>7. \A k \in keys : EdgeFits(k, edge'[k], db, changed')
  <2> TAKE k \in keys
  <2> DEFINE e == edge[k]
             last == SMaxAge + Swr
             o == Older(e, last)
  <2>1. EdgeFits(k, e, db, changed) /\ edge'[k] = o /\ last \in Nat
    BY <1>1, TimesAre DEF PagesInv, EdgesFit
  <2>2. o # None => /\ e # None /\ DOMAIN o = {"value", "age"} /\ o.age = e.age + 1
                    /\ o.age \in 0..last /\ o.value = e.value
    BY <1>5, <2>1 DEF EdgeFits
  <2> HIDE DEF e, o
  <2>3. e # None => e.age \in Int
    BY <2>1 DEF EdgeFits
  <2>4. EdgeFits(k, o, db, changed')
    BY <1>3, <2>1, <2>2, <2>3, TimesAre DEF EdgeFits
  <2>. QED
    BY <2>1, <2>4
<1>8. ASSUME NEW r \in Requests PROVE ReqFits(req'[r], keys, db, changed', clean)
  <2> DEFINE n == [req[r] EXCEPT !.ticked = Loading(r)]
  <2>1. req'[r] = n /\ ReqFits(req[r], keys, db, changed, clean) /\ ~req[r].ticked
    BY <1>1 DEF PagesInv, ReqsFit
  <2>2. /\ DOMAIN n = DOMAIN Free /\ n.op = req[r].op /\ n.w = req[r].w /\ n.key = req[r].key
        /\ n.step = req[r].step /\ n.got = req[r].got /\ n.calm = req[r].calm
        /\ n.ticked = Loading(r)
    BY <2>1, FreeFits DEF ReqFits
  <2> HIDE DEF n
  <2>3. CASE ~Loading(r)
    BY <2>1, <2>2, <2>3, OtherFits DEF Loading, ReqFits
  <2>4. CASE Loading(r)
    <3>1. /\ req[r].w \in Workers /\ req[r].key \in keys
          /\ req[r].step \in 1..(Statements(req[r].key[1]) + 1) /\ req[r].calm \in BOOLEAN
          /\ Right(req[r], db) \/ changed[req[r].key] <= Late(req[r])
          /\ req[r].calm \/ req[r].key \in clean[req[r].w] => Right(req[r], db)
      BY <2>4, LoadingIs
    <3>2. Late(req[r]) = 0 /\ Late(n) = 1
      BY <2>1, <2>2, <2>4 DEF Late
    <3>3. Right(req[r], db) => Right(n, db)
      BY <2>2 DEF Right
    <3>4. changed[req[r].key] <= 0 => changed'[req[r].key] <= 1
      BY <1>3, <3>1
    <3>5. n.op = "read" /\ n.ticked \in BOOLEAN
      BY <2>2, <2>4 DEF Loading
    <3>. QED
      BY <2>1, <2>2, <3>1, <3>2, <3>3, <3>4, <3>5 DEF ReqFits, EditOps
  <2>. QED
    BY <2>3, <2>4
<1>9. CachesFit' /\ EdgesFit' /\ ReqsFit'
  BY <1>1, <1>6, <1>7, <1>8 DEF CachesFit, EdgesFit, ReqsFit
<1>. QED
  BY <1>4, <1>9 DEF PagesInv

\* A creation that the unique index refuses, an answer to a user, and a last page.
LEMMA EndKeeps ==
    ASSUME PagesInv, NEW r \in Requests, RefuseSlug(r) \/ AnswerForMe(r) \/ EndPages(r)
    PROVE  PagesInv'
<1>1. req' = [req EXCEPT ![r] = Free] /\ UNCHANGED <<keys, db, cache, edge, changed, clean>>
  BY DEF RefuseSlug, AnswerForMe, EndPages, Same
<1>. QED
  BY <1>1, FreeFits, OnlyReqMoves

\* The request of a list's first page.
FirstPage(q) == [Free EXCEPT !.op = "pages", !.step = 1, !.arg = q,
                             !.got = [page |-> 1, ids |-> <<>>, shown |-> <<>>]]

LEMMA FirstPageIs ==
    ASSUME NEW q
    PROVE  /\ DOMAIN FirstPage(q) = DOMAIN Free
           /\ FirstPage(q).op = "pages" /\ FirstPage(q).step = 1 /\ FirstPage(q).arg = q
           /\ FirstPage(q).got = [page |-> 1, ids |-> <<>>, shown |-> <<>>]
           /\ FirstPage(q).ticked = FALSE /\ FirstPage(q).calm = TRUE
BY FreeFits DEF Free, FirstPage

LEMMA BeginPagesKeeps ==
    ASSUME PagesInv, NEW r \in Requests, NEW q, BeginPages(r, q)
    PROVE  PagesInv'
<1>1. req' = [req EXCEPT ![r] = FirstPage(q)] /\ UNCHANGED <<keys, db, cache, edge, changed, clean>>
  BY DEF BeginPages, FirstPage, Same
<1>2. ReqFits(FirstPage(q), keys, db, changed, clean)
  BY FirstPageIs, OtherFits DEF EditOps
<1>. QED
  BY <1>1, <1>2, OnlyReqMoves

\* A request for pages that goes on.
Paging(r, step, got) == [req[r] EXCEPT !.step = step, !.got = got]

LEMMA PagingIs ==
    ASSUME PagesInv, NEW r \in Requests, req[r].op = "pages", NEW step, NEW got, Goes(r, step, got)
    PROVE  /\ req' = [req EXCEPT ![r] = Paging(r, step, got)]
           /\ UNCHANGED <<keys, db, cache, edge, changed, clean>>
           /\ DOMAIN Paging(r, step, got) = DOMAIN Free /\ Paging(r, step, got).op = "pages"
           /\ Paging(r, step, got).step = step /\ Paging(r, step, got).got = got
           /\ Paging(r, step, got).arg = req[r].arg
           /\ Paging(r, step, got).calm = req[r].calm /\ Paging(r, step, got).calm \in BOOLEAN
           /\ Paging(r, step, got).ticked \in BOOLEAN
<1>1. /\ DOMAIN req = Requests /\ DOMAIN req[r] = DOMAIN Free
      /\ req[r].calm \in BOOLEAN /\ req[r].ticked \in BOOLEAN
  BY DEF PagesInv, ReqsFit, ReqFits
<1>2. /\ req' = [req EXCEPT ![r].step = step, ![r].got = got]
      /\ UNCHANGED <<keys, db, cache, edge, changed, clean>>
  BY DEF Goes, Same
<1>. QED
  BY <1>1, <1>2, FreeFits DEF Paging

\* The three statements of a page.
PageGoes(r) == \E step, got : step \in 1..4 /\ Goes(r, step, got)

LEMMA PagesGo ==
    ASSUME NEW r, PageIds(r) \/ PageRows(r) \/ PageCount(r)
    PROVE  req[r].op = "pages" /\ PageGoes(r)
<1>1. ASSUME NEW step \in 1..4, NEW got, Goes(r, step, got) PROVE PageGoes(r)
  BY <1>1 DEF PageGoes
<1>2. 1 \in 1..4 /\ 2 \in 1..4 /\ 3 \in 1..4 /\ 4 \in 1..4
  OBVIOUS
<1>3. CASE PageIds(r)
  <2>1. req[r].op = "pages" /\ \E got : Goes(r, 2, got)
    BY <1>3 DEF PageIds
  <2>. QED
    BY <1>1, <1>2, <2>1
<1>4. CASE PageRows(r)
  <2>1. req[r].op = "pages" /\ \E got : Goes(r, 3, got)
    BY <1>4 DEF PageRows
  <2>. QED
    BY <1>1, <1>2, <2>1
<1>5. CASE PageCount(r)
  <2>1. req[r].op = "pages" /\ \E got : Goes(r, 1, got) \/ Goes(r, 4, got)
    BY <1>5 DEF PageCount
  <2>. QED
    BY <1>1, <1>2, <2>1
<1>. QED
  BY <1>3, <1>4, <1>5

LEMMA PageGoesKeeps ==
    ASSUME PagesInv, NEW r \in Requests, req[r].op = "pages", PageGoes(r)
    PROVE  PagesInv'
<1>1. PICK step, got : step \in 1..4 /\ Goes(r, step, got)
  BY DEF PageGoes
<1>2. ReqFits(Paging(r, step, got), keys, db, changed, clean)
  BY <1>1, PagingIs, OtherFits DEF EditOps
<1>. QED
  BY <1>1, <1>2, PagingIs, OnlyReqMoves

LEMMA SaveRowKeeps ==
    ASSUME PagesInv, NEW r \in Requests, SaveVenue(r) \/ SaveCity(r)
    PROVE  PagesInv'
<1>1. /\ req[r].op \in EditOps /\ Changes([req EXCEPT ![r].step = 3])
      /\ UNCHANGED <<keys, cache, edge>>
  BY DEF SaveVenue, SaveCity, EditOps
<1>. QED
  BY <1>1, ChangesKeep

LEMMA PagesInit == Init => PagesInv
<1> SUFFICES ASSUME Init PROVE PagesInv
  OBVIOUS
<1>1. /\ keys \in Pages /\ cache = [w \in Workers |-> [k \in keys |-> None]]
      /\ edge = [k \in keys |-> None] /\ req = [r \in Requests |-> Free]
      /\ changed = [k \in keys |-> MaxAge] /\ clean = [w \in Workers |-> {}]
  BY DEF Init
<1>2. PagesTyped
  BY <1>1, TimesAre DEF PagesTyped
<1>3. CachesFit /\ EdgesFit
  BY <1>1 DEF CachesFit, EdgesFit, CacheFits, EdgeFits
<1>4. ReqsFit
  BY <1>1, FreeFits DEF ReqsFit
<1>. QED
  BY <1>2, <1>3, <1>4 DEF PagesInv

LEMMA PagesNext == PagesInv /\ [Next]_vars => PagesInv'
<1> SUFFICES ASSUME PagesInv, [Next]_vars PROVE PagesInv'
  OBVIOUS
<1>1. ASSUME NEW r \in Requests, NEW w \in Workers, NEW k \in keys, BeginRead(r, w, k) PROVE PagesInv'
  BY <1>1, BeginReadKeeps
<1>2. ASSUME NEW r \in Requests, NEW w \in Workers, NEW op \in EditOps, NEW arg \in Venues \cup Cities,
             BeginEdit(r, w, op, arg)
      PROVE  PagesInv'
  BY <1>2, BeginEditKeeps
<1>3. ASSUME NEW r \in Requests, NEW w \in Workers, NEW seen \in SUBSET Venues, BeginForMe(r, w, seen)
      PROVE  PagesInv'
  BY <1>3, BeginForMeKeeps
<1>4. ASSUME NEW r \in Requests, CacheHit(r) \/ Load(r) \/ CacheSet(r) PROVE PagesInv'
  BY <1>4, CacheHitKeeps, LoadKeeps, CacheSetKeeps
<1>5. ASSUME NEW r \in Requests, Reload(r) \/ Invalidate(r) PROVE PagesInv'
  BY <1>5, ReloadKeeps, InvalidateKeeps
<1>6. ASSUME NEW r \in Requests,
             RefuseSlug(r) \/ AnswerForMe(r) \/ EndPages(r) \/ SaveVenue(r) \/ SaveCity(r)
      PROVE  PagesInv'
  BY <1>6, EndKeeps, SaveRowKeeps
<1>9. ASSUME NEW r \in Requests, NEW q \in Listings, BeginPages(r, q) PROVE PagesInv'
  BY <1>9, BeginPagesKeeps
<1>10. ASSUME NEW r \in Requests, PageIds(r) \/ PageRows(r) \/ PageCount(r) PROVE PagesInv'
  BY <1>10, PagesGo, PageGoesKeeps
<1>7. CASE Tick
  BY <1>7, TickKeepsPages
<1>8. CASE UNCHANGED vars
  BY <1>8 DEF vars, PagesInv, PagesTyped, CachesFit, EdgesFit, ReqsFit
<1>. QED
  BY <1>1, <1>2, <1>3, <1>4, <1>5, <1>6, <1>7, <1>8, <1>9, <1>10 DEF Next

\* What is cached, what the CDN keeps and what a load under way has got is what
\* the rows give, or the page has changed lately: for a cache, within the entry's
\* age and the tick that its load may have taken (discover.service.ts,
\* cities.service.ts, public-cache.interceptor.ts).
THEOREM PagesAreSound == Spec => []PagesInv
<1>. QED
  BY PagesInit, PagesNext, PTL DEF Spec

\* No worker's cache and no CDN answers with a page that changed longer ago than
\* the time to live (and the CDN's two periods) and one load.
THEOREM StalenessIsBounded == Spec => []StaleBounded
<1>1. PagesInv => StaleBounded
  <2> SUFFICES ASSUME PagesInv, NEW k \in keys
               PROVE  /\ \A w \in Workers : cache[w][k] # None =>
                            cache[w][k].value = Answer(db, k) \/ changed[k] <= Ttl + 1
                      /\ edge[k] # None =>
                            edge[k].value = Answer(db, k) \/ changed[k] <= Ttl + SMaxAge + Swr + 1
    BY DEF StaleBounded
  <2>1. changed[k] \in Int
    BY TimesAre DEF PagesInv, PagesTyped
  <2>2. \A w \in Workers : cache[w][k] # None =>
           cache[w][k].value = Answer(db, k) \/ changed[k] <= Ttl + 1
    <3> TAKE w \in Workers
    <3>1. CacheFits(w, k, cache[w][k], db, changed, clean)
      BY DEF PagesInv, CachesFit
    <3>2. ASSUME cache[w][k].age \in 0..Ttl, changed[k] <= cache[w][k].age + 1
          PROVE  changed[k] <= Ttl + 1
      BY <2>1, <3>2, TimesAre
    <3>. QED
      BY <3>1, <3>2 DEF CacheFits
  <2>3. edge[k] # None => edge[k].value = Answer(db, k) \/ changed[k] <= Ttl + SMaxAge + Swr + 1
    <3>1. EdgeFits(k, edge[k], db, changed)
      BY DEF PagesInv, EdgesFit
    <3>2. ASSUME edge[k].age \in 0..(SMaxAge + Swr), changed[k] <= edge[k].age + Ttl + 1
          PROVE  changed[k] <= Ttl + SMaxAge + Swr + 1
      BY <2>1, <3>2, TimesAre
    <3>. QED
      BY <3>1, <3>2 DEF EdgeFits
  <2>. QED
    BY <2>2, <2>3
<1>. QED
  BY <1>1, PagesAreSound, PTL

\* An editor's worker shows the edit once it has invalidated the page, unless a
\* load was under way or another worker's editor has changed the page since.
THEOREM EditorsSeeTheirEdits == Spec => []EditorSeesEdit
<1>1. PagesInv => EditorSeesEdit
  <2> SUFFICES ASSUME PagesInv, NEW w \in Workers, NEW k \in clean[w], cache[w][k] # None
               PROVE  cache[w][k].value = Answer(db, k)
    BY DEF EditorSeesEdit
  <2>1. k \in keys
    BY DEF PagesInv, PagesTyped
  <2>2. CacheFits(w, k, cache[w][k], db, changed, clean)
    BY <2>1 DEF PagesInv, CachesFit
  <2>. QED
    BY <2>2 DEF CacheFits
<1>. QED
  BY <1>1, PagesAreSound, PTL

\* A section that no edit overlapped is as long as its venues allow, shows each
\* once and none that is hidden; recommendations show public venues that are new
\* to the user (recommendForUser).
THEOREM SectionsAreFull == Spec => []SectionFull
<1>1. PagesInv => SectionFull
  <2>1. ASSUME PagesInv, NEW r \in Requests, Loading(r), req[r].calm,
               req[r].key[1] \in {"trending", "favorites"}, req[r].step = 4
        PROVE  /\ IsInjective(req[r].got) /\ ToSet(req[r].got) \subseteq In(db, req[r].key[2])
               /\ Len(req[r].got) = Fewer(Limit, VenueCount(db, req[r].key[2]))
    <3>1. req[r].key \in PageKeys /\ Right(req[r], db)
      BY <2>1, LoadingIs
    <3>2. req[r].got = Got(db, req[r].key, 3)
      BY <2>1, <3>1 DEF Right
    <3> DEFINE k == req[r].key
    <3>3. k \in PageKeys /\ k[1] \in {"trending", "favorites"}
      BY <2>1, <3>1
    <3> HIDE DEF k
    <3>4. /\ Got(db, k, 3) = Answer(db, k)
          /\ IsInjective(Answer(db, k)) /\ ToSet(Answer(db, k)) \subseteq In(db, k[2])
          /\ Len(Answer(db, k)) = Fewer(Limit, VenueCount(db, k[2]))
      BY <3>3, SectionIs
    <3>. QED
      BY <3>2, <3>4 DEF k
  <2>2. ASSUME NEW seen, NEW s \in Recommended(Candidates(seen), seen, Limit)
        PROVE  ToSet(s) \cap seen = {} /\ ToSet(s) \subseteq Public(db)
    <3> DEFINE pool == Candidates(seen)
               new == Public(db) \ seen
    <3>1. new \in SUBSET Venues /\ 6 * Limit \in Nat /\ Number("rating") \in [Venues -> Int]
      BY NumberIs, TimesAssumption DEF Public, Numbers
    <3>2. pool = ToSet(Top(new, 6 * Limit, Number("rating"), Number("rating")))
      BY DEF Candidates
    <3>3. s \in [1..Fewer(Limit, Cardinality(pool)) -> pool]
      BY <2>2 DEF Recommended
    <3> HIDE DEF pool, new
    <3>4. pool \subseteq new
      BY <3>1, <3>2, TopIs
    <3>5. ToSet(s) \subseteq pool
      BY <3>3 DEF ToSet
    <3>. QED
      BY <3>4, <3>5 DEF new
  <2>. QED
    BY <2>1, <2>2 DEF SectionFull
<1>. QED
  BY <1>1, PagesAreSound, PTL

-----------------------------------------------------------------------------
(* The rows, and what the requests of editors carry.                       *)

VenueRow == [state : {"none", "live", "deleted"}, published : BOOLEAN]

TablesTyped == /\ DOMAIN db = {"venue", "text"}
               /\ db.venue \in [Venues -> VenueRow]
               /\ db.text \in [Cities -> 0..1]

\* An update carries the row it has loaded and, once it is about to save, the one it
\* has read again.
EditFits(n) ==
    /\ n.step \in 0..4
    /\ n.op = "city" => n.arg \in Cities /\ (n.step = 1 => n.got[1] \in 0..1)
    /\ n.op \in EditOps \ {"city"} => n.arg \in Venues
    /\ n.op \in {"publish", "unpublish"} =>
          /\ n.step \in {1, 2} => n.got[1] \in VenueRow
          /\ n.step = 2 => n.got[2] \in VenueRow

EditsFit == \A r \in Requests : EditFits(req[r])

LEMMA FreeEdits == EditFits(Free) /\ Free.op = "idle" /\ Free.step = 0
BY DEF Free, EditFits, EditOps

LEMMA OneEditMoves ==
    ASSUME PagesInv, TablesTyped, EditsFit, NEW r \in Requests, NEW n, EditFits(n),
           req' = [req EXCEPT ![r] = n], UNCHANGED db
    PROVE  TablesTyped' /\ EditsFit'
<1>1. \A q \in Requests : req'[q] = n \/ req'[q] = req[q]
  BY DEF PagesInv, ReqsFit
<1>. QED
  BY <1>1 DEF TablesTyped, EditsFit

LEMMA OthersFit ==
    ASSUME PagesInv, TablesTyped, EditsFit, NEW r \in Requests, NEW n, DOMAIN n = DOMAIN Free,
           n.op \in {"read", "forMe", "pages"}, n.step \in 1..4, req' = [req EXCEPT ![r] = n], UNCHANGED db
    PROVE  TablesTyped' /\ EditsFit'
<1>1. EditFits(n)
  BY DEF EditFits, EditOps
<1>. QED
  BY <1>1, OneEditMoves

LEMMA BeginReadFits ==
    ASSUME PagesInv, TablesTyped, EditsFit, NEW r \in Requests, NEW w \in Workers, NEW k \in keys,
           BeginRead(r, w, k)
    PROVE  TablesTyped' /\ EditsFit'
<1> DEFINE n == [Free EXCEPT !.op = "read", !.step = 1, !.w = w, !.key = k]
<1>1. req' = [req EXCEPT ![r] = n] /\ UNCHANGED db
  BY DEF BeginRead
<1>2. DOMAIN n = DOMAIN Free /\ n.op \in {"read", "forMe", "pages"} /\ n.step \in 1..4
  BY DEF Free
<1> HIDE DEF n
<1>. QED
  BY <1>1, <1>2, OthersFit

LEMMA BeginForMeFits ==
    ASSUME PagesInv, TablesTyped, EditsFit, NEW r \in Requests, NEW w \in Workers,
           NEW seen \in SUBSET Venues, BeginForMe(r, w, seen)
    PROVE  TablesTyped' /\ EditsFit'
<1> DEFINE all == [Free EXCEPT !.op = "read", !.step = 1, !.w = w, !.key = Picks, !.arg = "forMe"]
           own == [Free EXCEPT !.op = "forMe", !.step = 1, !.arg = seen]
<1>1. /\ IF seen = {} THEN req' = [req EXCEPT ![r] = all] ELSE req' = [req EXCEPT ![r] = own]
      /\ UNCHANGED db
  BY DEF BeginForMe
<1>2. /\ DOMAIN all = DOMAIN Free /\ all.op \in {"read", "forMe", "pages"} /\ all.step \in 1..4
      /\ DOMAIN own = DOMAIN Free /\ own.op \in {"read", "forMe", "pages"} /\ own.step \in 1..4
  BY DEF Free
<1> HIDE DEF all, own
<1>. QED
  BY <1>1, <1>2, OthersFit

LEMMA BeginPagesFits ==
    ASSUME PagesInv, TablesTyped, EditsFit, NEW r \in Requests, NEW q, BeginPages(r, q)
    PROVE  TablesTyped' /\ EditsFit'
<1>1. req' = [req EXCEPT ![r] = FirstPage(q)] /\ UNCHANGED db
  BY DEF BeginPages, FirstPage
<1>2. /\ DOMAIN FirstPage(q) = DOMAIN Free /\ FirstPage(q).op \in {"read", "forMe", "pages"}
      /\ FirstPage(q).step \in 1..4
  <2> DEFINE n == FirstPage(q)
  <2>1. DOMAIN n = DOMAIN Free /\ n.op = "pages" /\ n.step = 1
    BY FirstPageIs
  <2> HIDE DEF n
  <2>2. n.op \in {"read", "forMe", "pages"} /\ n.step \in 1..4
    BY <2>1
  <2>. QED
    BY <2>1, <2>2 DEF n
<1>. QED
  BY <1>1, <1>2, OthersFit

LEMMA PageGoesFits ==
    ASSUME PagesInv, TablesTyped, EditsFit, NEW r \in Requests, req[r].op = "pages", PageGoes(r)
    PROVE  TablesTyped' /\ EditsFit'
<1>1. PICK step, got : step \in 1..4 /\ Goes(r, step, got)
  BY DEF PageGoes
<1> DEFINE n == Paging(r, step, got)
<1>2. /\ req' = [req EXCEPT ![r] = n] /\ UNCHANGED db
      /\ DOMAIN n = DOMAIN Free /\ n.op = "pages" /\ n.step = step
  BY <1>1, PagingIs
<1> HIDE DEF n
<1>3. n.op \in {"read", "forMe", "pages"} /\ n.step \in 1..4
  BY <1>1, <1>2
<1>. QED
  BY <1>2, <1>3, OthersFit

LEMMA BeginEditFits ==
    ASSUME PagesInv, TablesTyped, EditsFit, NEW r \in Requests, NEW w \in Workers,
           NEW op \in EditOps, NEW arg, BeginEdit(r, w, op, arg)
    PROVE  TablesTyped' /\ EditsFit'
<1> DEFINE got == IF op = "city" THEN <<db.text[arg]>> ELSE <<db.venue[arg]>>
           n == [Free EXCEPT !.op = op, !.step = 1, !.w = w, !.arg = arg, !.got = got]
<1>1. /\ IF op = "city" THEN arg \in Cities ELSE arg \in Venues
      /\ req' = [req EXCEPT ![r] = n] /\ UNCHANGED db
  BY DEF BeginEdit
<1>2. IF op = "city" THEN got[1] \in 0..1 ELSE got[1] \in VenueRow
  BY <1>1 DEF TablesTyped
<1> HIDE DEF got
<1>3. n.op = op /\ n.step = 1 /\ n.arg = arg /\ n.got = got
  BY DEF Free
<1> HIDE DEF n
<1>4. EditFits(n)
  BY <1>1, <1>2, <1>3 DEF EditFits, EditOps
<1>. QED
  BY <1>1, <1>4, OneEditMoves

LEMMA LoadFits ==
    ASSUME PagesInv, TablesTyped, EditsFit, NEW r \in Requests, Load(r)
    PROVE  TablesTyped' /\ EditsFit'
<1> DEFINE got == Statement(db, req[r].key, req[r].step, req[r].got)
           n == [req[r] EXCEPT !.got = got, !.step = req[r].step + 1]
<1>1. /\ req[r].op = "read" /\ req[r].step <= Statements(req[r].key[1]) /\ UNCHANGED db
      /\ req' = [req EXCEPT ![r].got = got, ![r].step = req[r].step + 1]
  BY DEF Load, Loading
<1>2. /\ DOMAIN req = Requests /\ DOMAIN req[r] = DOMAIN Free
      /\ req[r].step \in 1..4 /\ Statements(req[r].key[1]) \in 1..3
  BY <1>1, LoadingIs DEF Loading, PagesInv, ReqsFit
<1> HIDE DEF got
<1>3. req' = [req EXCEPT ![r] = n]
  BY <1>1, <1>2
<1>4. n.op = "read" /\ n.step = req[r].step + 1
  BY <1>1, <1>2, FreeFits
<1> HIDE DEF n
<1>5. EditFits(n)
  BY <1>1, <1>2, <1>4 DEF EditFits, EditOps
<1>. QED
  BY <1>1, <1>3, <1>5, OneEditMoves

LEMMA ReloadFits ==
    ASSUME PagesInv, TablesTyped, EditsFit, NEW r \in Requests, Reload(r)
    PROVE  TablesTyped' /\ EditsFit'
<1> DEFINE mine == Edited(req[r].op, req[r].got[1])
           got == <<mine, db.venue[req[r].arg]>>
           n == [req[r] EXCEPT !.got = got, !.step = 2]
<1>1. /\ req[r].op \in {"publish", "unpublish"} /\ req[r].step = 1 /\ UNCHANGED db
      /\ req' = [req EXCEPT ![r].got = <<Edited(req[r].op, @[1]), db.venue[req[r].arg]>>, ![r].step = 2]
  BY DEF Reload
<1>2. DOMAIN req = Requests /\ DOMAIN req[r] = DOMAIN Free
  BY DEF PagesInv, ReqsFit, ReqFits
<1>3. req[r].arg \in Venues /\ req[r].got[1] \in VenueRow
  BY <1>1 DEF EditsFit, EditFits, EditOps
<1>4. mine \in VenueRow /\ db.venue[req[r].arg] \in VenueRow
  <2>1. db.venue[req[r].arg] \in VenueRow
    BY <1>3 DEF TablesTyped
  <2>. QED
    BY <1>3, <2>1 DEF Edited, VenueRow
<1> HIDE DEF mine
<1>5. got[1] \in VenueRow /\ got[2] \in VenueRow
  BY <1>4
<1>6. req' = [req EXCEPT ![r] = n]
  BY <1>1, <1>2 DEF mine
<1> HIDE DEF got
<1>7. n.op = req[r].op /\ n.step = 2 /\ n.got = got /\ n.arg = req[r].arg
  BY <1>2, FreeFits
<1> HIDE DEF n
<1>8. EditFits(n)
  BY <1>1, <1>3, <1>5, <1>7 DEF EditFits, EditOps
<1>. QED
  BY <1>1, <1>6, <1>8, OneEditMoves

\* The history of the pages is all that a saved row changes of the other requests.
LEMMA ChangesFit ==
    ASSUME PagesInv, EditsFit, NEW r \in Requests, req[r].op \in EditOps,
           Changes([req EXCEPT ![r].step = 3])
    PROVE  EditsFit'
<1> DEFINE next == [req EXCEPT ![r].step = 3]
<1>1. req' = [q \in Requests |-> IF next[q].op \in {"read", "pages"}
                                 THEN [next[q] EXCEPT !.calm = FALSE] ELSE next[q]]
  BY DEF Changes
<1>2. /\ DOMAIN req = Requests /\ \A q \in Requests : DOMAIN req[q] = DOMAIN Free
  BY DEF PagesInv, ReqsFit, ReqFits
<1>3. /\ next[r] = [req[r] EXCEPT !.step = 3]
      /\ \A q \in Requests : q # r => next[q] = req[q]
  BY <1>2
<1>4. next[r].op = req[r].op /\ next[r].step = 3 /\ next[r].arg = req[r].arg
  BY <1>2, <1>3, FreeFits
<1> HIDE DEF next
<1>5. req[r].op \notin {"read", "pages"}
  BY DEF EditOps
<1>6. EditFits(req'[r])
  <2>1. req'[r] = next[r]
    BY <1>1, <1>4, <1>5
  <2>2. EditFits(req[r])
    BY DEF EditsFit
  <2>. QED
    BY <1>4, <2>1, <2>2 DEF EditFits
<1>7. ASSUME NEW q \in Requests, q # r PROVE EditFits(req'[q])
  <2>1. EditFits(req[q]) /\ next[q] = req[q] /\ DOMAIN req[q] = DOMAIN Free
    BY <1>2, <1>3, <1>7 DEF EditsFit
  <2>2. CASE req[q].op \in {"read", "pages"}
    <3>1. req'[q] = [req[q] EXCEPT !.calm = FALSE]
      BY <1>1, <2>1, <2>2
    <3>2. req'[q].op \in {"read", "pages"} /\ req'[q].step = req[q].step
      BY <2>1, <2>2, <3>1, FreeFits
    <3>. QED
      BY <2>1, <3>2 DEF EditFits, EditOps
  <2>3. CASE req[q].op \notin {"read", "pages"}
    BY <1>1, <2>1, <2>3
  <2>. QED
    BY <2>2, <2>3
<1>. QED
  BY <1>6, <1>7 DEF EditsFit

\* TypeORM writes of each column the value that was loaded or the one that was there.
LEMMA SavesFit ==
    ASSUME PagesInv, TablesTyped, EditsFit, NEW r \in Requests, SaveVenue(r)
    PROVE  TablesTyped' /\ EditsFit'
<1>1. /\ req[r].op \in EditOps \ {"city"}
      /\ req[r].step = IF req[r].op \in {"create", "delete"} THEN 1 ELSE 2
      /\ Changes([req EXCEPT ![r].step = 3])
  BY DEF SaveVenue
<1>2. PICK after \in Saved(r) : db' = [db EXCEPT !.venue[req[r].arg] = after]
  BY DEF SaveVenue
<1>3. req[r].arg \in Venues /\ db.venue[req[r].arg] \in VenueRow
  BY <1>1 DEF EditsFit, EditFits, TablesTyped
<1>4. after \in VenueRow
  <2>1. CASE req[r].op = "create"
    <3>1. after \in {[state |-> "live", published |-> p] : p \in BOOLEAN}
      BY <2>1 DEF Saved
    <3>. QED
      BY <3>1 DEF VenueRow
  <2>2. CASE req[r].op = "delete"
    <3>1. after = [db.venue[req[r].arg] EXCEPT !.state = "deleted"]
      BY <2>2 DEF Saved
    <3>. QED
      BY <1>3, <3>1 DEF VenueRow
  <2>3. CASE req[r].op \in {"publish", "unpublish"}
    <3> DEFINE old == db.venue[req[r].arg]
               a == req[r].got[1]
               b == req[r].got[2]
    <3>1. after = [c \in DOMAIN old |-> IF a[c] # b[c] THEN a[c] ELSE old[c]]
      BY <2>3 DEF Saved
    <3>2. a \in VenueRow /\ old \in VenueRow
      BY <1>1, <1>3, <2>3 DEF EditsFit, EditFits
    <3> HIDE DEF old, a, b
    <3>3. DOMAIN old = {"state", "published"}
      BY <3>2 DEF VenueRow
    <3>4. /\ old.state \in {"none", "live", "deleted"} /\ a.state \in {"none", "live", "deleted"}
          /\ old.published \in BOOLEAN /\ a.published \in BOOLEAN
      BY <3>2 DEF VenueRow
    <3>5. /\ after.state \in {"none", "live", "deleted"} /\ after.published \in BOOLEAN
          /\ after = [state |-> after.state, published |-> after.published]
      BY <3>1, <3>3, <3>4
    <3>. QED
      BY <3>5 DEF VenueRow
  <2>. QED
    BY <1>1, <2>1, <2>2, <2>3 DEF EditOps
<1>5. TablesTyped'
  BY <1>2, <1>3, <1>4 DEF TablesTyped
<1>. QED
  BY <1>1, <1>5, ChangesFit

LEMMA SaveCityFits ==
    ASSUME PagesInv, TablesTyped, EditsFit, NEW r \in Requests, SaveCity(r)
    PROVE  TablesTyped' /\ EditsFit'
<1>1. /\ req[r].op = "city" /\ req[r].step = 1
      /\ db' = [db EXCEPT !.text[req[r].arg] = 1 - req[r].got[1]]
      /\ Changes([req EXCEPT ![r].step = 3])
  BY DEF SaveCity
<1>2. req[r].arg \in Cities /\ req[r].got[1] \in 0..1 /\ req[r].op \in EditOps
  BY <1>1 DEF EditsFit, EditFits, EditOps
<1>3. 1 - req[r].got[1] \in 0..1
  BY <1>2
<1>4. TablesTyped'
  BY <1>1, <1>2, <1>3 DEF TablesTyped
<1>. QED
  BY <1>1, <1>2, <1>4, ChangesFit

LEMMA TickFits ==
    ASSUME PagesInv, TablesTyped, EditsFit, Tick
    PROVE  TablesTyped' /\ EditsFit'
<1>1. req' = [r \in Requests |-> [req[r] EXCEPT !.ticked = Loading(r)]] /\ UNCHANGED db
  BY DEF Tick
<1>2. ASSUME NEW r \in Requests PROVE EditFits(req'[r])
  <2>1. EditFits(req[r]) /\ DOMAIN req[r] = DOMAIN Free
    BY DEF EditsFit, PagesInv, ReqsFit, ReqFits
  <2>2. /\ req'[r].op = req[r].op /\ req'[r].step = req[r].step
        /\ req'[r].arg = req[r].arg /\ req'[r].got = req[r].got
    BY <1>1, <2>1, FreeFits
  <2>. QED
    BY <2>1, <2>2 DEF EditFits
<1>. QED
  BY <1>1, <1>2 DEF TablesTyped, EditsFit

LEMMA RowsInit == Init => TablesTyped /\ EditsFit
<1> SUFFICES ASSUME Init PROVE TablesTyped /\ EditsFit
  OBVIOUS
<1>1. EditsFit
  BY FreeEdits DEF Init, EditsFit
<1>2. TablesTyped
  BY DEF Init, TablesTyped, VenueRow
<1>. QED
  BY <1>1, <1>2

LEMMA RowsNext == PagesInv /\ TablesTyped /\ EditsFit /\ [Next]_vars => TablesTyped' /\ EditsFit'
<1> SUFFICES ASSUME PagesInv, TablesTyped, EditsFit, [Next]_vars PROVE TablesTyped' /\ EditsFit'
  OBVIOUS
<1>1. ASSUME NEW r \in Requests, NEW w \in Workers,
             \/ \E k \in keys : BeginRead(r, w, k)
             \/ \E op \in EditOps, arg \in Venues \cup Cities : BeginEdit(r, w, op, arg)
             \/ \E seen \in SUBSET Venues : BeginForMe(r, w, seen)
      PROVE  TablesTyped' /\ EditsFit'
  BY <1>1, BeginReadFits, BeginEditFits, BeginForMeFits
<1>2. ASSUME NEW r \in Requests,
             \/ CacheHit(r) \/ CacheSet(r) \/ RefuseSlug(r) \/ Invalidate(r) \/ AnswerForMe(r)
             \/ EndPages(r)
      PROVE  TablesTyped' /\ EditsFit'
  <2>1. req' = [req EXCEPT ![r] = Free] /\ UNCHANGED db
    BY <1>2 DEF CacheHit, CacheSet, Respond, RefuseSlug, Invalidate, AnswerForMe, EndPages
  <2>. QED
    BY <2>1, FreeEdits, OneEditMoves
<1>3. ASSUME NEW r \in Requests, Load(r) \/ Reload(r) PROVE TablesTyped' /\ EditsFit'
  BY <1>3, LoadFits, ReloadFits
<1>4. ASSUME NEW r \in Requests, SaveVenue(r) \/ SaveCity(r) PROVE TablesTyped' /\ EditsFit'
  BY <1>4, SavesFit, SaveCityFits
<1>5. CASE Tick
  BY <1>5, TickFits
<1>6. CASE UNCHANGED vars
  BY <1>6 DEF vars, TablesTyped, EditsFit
<1>7. ASSUME NEW r \in Requests, NEW q \in Listings, BeginPages(r, q) PROVE TablesTyped' /\ EditsFit'
  BY <1>7, BeginPagesFits
<1>8. ASSUME NEW r \in Requests, PageIds(r) \/ PageRows(r) \/ PageCount(r)
      PROVE  TablesTyped' /\ EditsFit'
  BY <1>8, PagesGo, PageGoesFits
<1>. QED
  BY <1>1, <1>2, <1>3, <1>4, <1>5, <1>6, <1>7, <1>8 DEF Next

\* However editors save over each other, a row has a state and a publication that one
\* of them loaded or read again, every request ends within its statements, and no
\* entry of a worker's cache outlives its time to live (updateVenue, setPublished,
\* CacheService.set).
THEOREM PageTypes == Spec => []TypeOK
<1>1. PagesInv /\ TablesTyped /\ EditsFit => TypeOK
  <2> SUFFICES ASSUME PagesInv, TablesTyped, EditsFit PROVE TypeOK
    OBVIOUS
  <2>1. \A r \in Requests : DOMAIN req[r] = DOMAIN Free /\ req[r].step \in 0..4
    BY DEF PagesInv, ReqsFit, ReqFits, EditsFit, EditFits
  <2>2. \A w \in Workers, k \in keys : cache[w][k] # None => cache[w][k].age \in 0..Ttl
    BY DEF PagesInv, CachesFit, CacheFits
  <2>. QED
    BY <2>1, <2>2 DEF TypeOK, TablesTyped, VenueRow
<1>. QED
  BY <1>1, RowsInit, RowsNext, PagesInit, PagesNext, PTL DEF Spec

-----------------------------------------------------------------------------
(* The pages of a list.                                                    *)

LEMMA Grows == \A a, b, n \in Nat : a <= b => a * n <= b * n
<1> SUFFICES ASSUME NEW a \in Nat, NEW b \in Nat, NEW n \in Nat, a <= b PROVE a * n <= b * n
  OBVIOUS
<1> DEFINE c == b - a
<1>1. c \in Nat /\ b = a + c
  OBVIOUS
<1> HIDE DEF c
<1>2. b * n = a * n + c * n /\ c * n >= 0 /\ a * n \in Int /\ c * n \in Int
  BY <1>1
<1>. QED
  BY <1>2

\* PaginatedResponse: the last page ends where the list does.
LEMMA LastPage ==
    ASSUME NEW len \in Nat, NEW n \in Nat, n > 0
    PROVE  /\ TotalPages(len, n) \in Nat /\ TotalPages(len, n) >= 1
           /\ len <= TotalPages(len, n) * n /\ (TotalPages(len, n) - 1) * n <= len
<1>1. CASE len = 0
  <2>1. TotalPages(len, n) = 1
    BY <1>1 DEF TotalPages
  <2>. QED
    BY <1>1, <2>1
<1>2. CASE len # 0
  <2> DEFINE q == (len + n - 1) \div n
  <2>1. TotalPages(len, n) = q
    BY <1>2 DEF TotalPages
  <2>2. q \in Int /\ n * q <= len + n - 1 /\ len + n - 1 < n * q + n
    <3>1. len + n - 1 \in Int /\ n \in Int /\ n > 0
      OBVIOUS
    <3> HIDE DEF q
    <3>2. \A x, y \in Int : y > 0 => /\ x \div y \in Int /\ y * (x \div y) <= x
                                     /\ x < y * (x \div y) + y
      OBVIOUS
    <3>. QED
      BY <3>1, <3>2 DEF q
  <2> HIDE DEF q
  <2>3. q >= 1
    <3>1. n * q > 0
      BY <1>2, <2>2
    <3>2. ~(q <= 0)
      <4>1. \A z \in Nat : n * (0 - z) <= 0
        OBVIOUS
      <4>. QED
        BY <2>2, <3>1, <4>1
    <3>. QED
      BY <2>2, <3>2
  <2>4. q * n = n * q /\ (q - 1) * n = n * q - n /\ n * q \in Int
    BY <2>2
  <2>. QED
    BY <2>1, <2>2, <2>3, <2>4
<1>. QED
  BY <1>1, <1>2

\* What the pages before place n show.
Upto(seq, n) == SubSeq(seq, 1, Fewer(n, Len(seq)))

LEMMA PageFollows ==
    ASSUME NEW S, NEW seq \in Seq(S), NEW n \in Nat, n > 0, NEW p \in 1..TotalPages(Len(seq), n)
    PROVE  /\ Upto(seq, 0) = <<>>
           /\ Upto(seq, (p - 1) * n) \o Page(seq, (p - 1) * n, n) = Upto(seq, p * n)
           /\ p = TotalPages(Len(seq), n) => Upto(seq, p * n) = seq
<1> DEFINE len == Len(seq)
           last == TotalPages(Len(seq), n)
           a == (p - 1) * n
           b == Fewer(p * n, len)
<1>1. len \in Nat /\ last \in Nat /\ len <= last * n /\ (last - 1) * n <= len
  BY LenProperties, LastPage
<1>2. p \in 1..last
  OBVIOUS
<1> HIDE DEF last
<1>3. p \in Nat /\ p - 1 \in Nat /\ last - 1 \in Nat /\ p - 1 <= last - 1
  BY <1>1, <1>2
<1>4. (p - 1) * n <= (last - 1) * n /\ (p - 1) * n \in Nat /\ (last - 1) * n \in Nat
  BY <1>3, Grows
<1>5. p * n = (p - 1) * n + n /\ p * n \in Nat
  BY <1>3
<1>6. a \in Nat /\ a <= len /\ b \in Nat /\ a <= b /\ b <= len /\ p * n = a + n
  BY <1>1, <1>4, <1>5 DEF Fewer
<1>7. Upto(seq, a) = SubSeq(seq, 1, a) /\ Page(seq, a, n) = SubSeq(seq, a + 1, b)
  <2>1. Fewer(a, len) = a
    BY <1>1, <1>6 DEF Fewer
  <2>2. Fewer(a + n, len) = b
    BY <1>6
  <2> HIDE DEF a, b
  <2>3. Upto(seq, a) = SubSeq(seq, 1, Fewer(a, len)) /\ Page(seq, a, n) = SubSeq(seq, a + 1, Fewer(a + n, len))
    BY DEF Upto, Page
  <2>. QED
    BY <2>1, <2>2, <2>3
<1>8. Upto(seq, p * n) = SubSeq(seq, 1, b)
  BY DEF Upto
<1>9. p = last => b = len
  BY <1>1, <1>6 DEF Fewer
<1>10. Fewer(0, len) = 0
  BY <1>1 DEF Fewer
<1> HIDE DEF a, b
<1>11. SubSeq(seq, 1, a) \o SubSeq(seq, a + 1, b) = SubSeq(seq, 1, b)
  <2>1. 1 \in 1..(len + 1) /\ a \in (1 - 1)..len /\ b \in a..len
    BY <1>1, <1>6
  <2>. QED
    BY <2>1, ConcatAdjacentSubSeq
<1>12. Upto(seq, 0) = <<>>
  BY <1>10, SubSeqEmpty DEF Upto
<1>13. p = last => Upto(seq, p * n) = seq
  BY <1>8, <1>9, SubSeqFull
<1>14. Upto(seq, a) \o Page(seq, a, n) = Upto(seq, p * n)
  BY <1>7, <1>8, <1>11
<1>. QED
  BY <1>12, <1>13, <1>14 DEF a, last

\* ORDER BY a number and the id allows one order.
LEMMA OneSorting ==
    ASSUME NEW S \in SUBSET Venues, NEW num \in [Venues -> Int], NEW s \in Sortings(S, num)
    PROVE  /\ s \in Seq(S) /\ Len(s) = Cardinality(S) /\ IsInjective(s) /\ ToSet(s) = S
           /\ \A t \in Sortings(S, num) : t = s
<1> DEFINE n == Cardinality(S)
           R == {p \in S \X S : Ahead(p[1], p[2], num, num)}
<1>1. IsFiniteSet(S) /\ Orders(R, S)
  BY AheadOrders
<1>2. \A x, v \in S : <<x, v>> \in R <=> Before(x, v, num)
  <2> TAKE x, v \in S
  <2>1. <<x, v>> \in R <=> Ahead(x, v, num, num)
    OBVIOUS
  <2>2. num[x] \in Int /\ num[v] \in Int
    OBVIOUS
  <2>. QED
    BY <2>1, <2>2 DEF Ahead, Before
<1> HIDE DEF R
<1>3. n \in Nat
  BY <1>1, FS_CardinalityType
<1>4. ASSUME NEW t \in Sortings(S, num)
      PROVE  /\ t \in Seq(S) /\ DOMAIN t = 1..n /\ Len(t) = n /\ IsInjective(t) /\ ToSet(t) = S
             /\ \A i \in 1..n : t[i] \in S /\ Place(t[i], S, R) = i
  <2>1. t \in [1..n -> S] /\ IsInjective(t) /\ \A i, j \in 1..n : i < j => Before(t[i], t[j], num)
    BY DEF Sortings
  <2> HIDE DEF n
  <2>2. t \in Seq(S) /\ DOMAIN t = 1..n /\ Len(t) = n /\ \A i \in 1..n : t[i] \in S
    BY <1>3, <2>1, SeqDef, LenProperties
  <2>3. ToSet(t) = S
    <3>1. ToSet(t) \in SUBSET S /\ Cardinality(ToSet(t)) = Cardinality(S)
      BY <2>1, <2>2, LengthIs DEF ToSet, n
    <3>. QED
      BY <1>1, <3>1, FS_Subset
  <2>4. ASSUME NEW i \in 1..n PROVE Place(t[i], S, R) = i
    <3> DEFINE u == [j \in 1..i |-> t[j]]
    <3>1. i \in Nat /\ \A j \in 1..i : j \in 1..n
      BY <1>3
    <3>2. u \in [1..i -> S]
      BY <2>2, <3>1
    <3>3. u \in Seq(S) /\ Len(u) = i
      BY <3>1, <3>2, SeqDef, LenProperties
    <3>4. IsInjective(u)
      BY <2>1, <2>2, <3>1 DEF IsInjective
    <3>5. {x \in S : <<x, t[i]>> \in R} = ToSet(u)
      <4>1. \A j \in 1..i : t[j] \in S /\ <<t[j], t[i]>> \in R
        <5> TAKE j \in 1..i
        <5>1. j \in 1..n /\ (j < i \/ j = i) /\ t[j] \in S /\ t[i] \in S
          BY <2>2, <3>1
        <5>. QED
          BY <1>1, <1>2, <2>1, <5>1 DEF Orders
      <4>2. \A j \in 1..n : <<t[j], t[i]>> \in R => j \in 1..i
        <5> SUFFICES ASSUME NEW j \in 1..n, <<t[j], t[i]>> \in R, ~(j \in 1..i) PROVE FALSE
          OBVIOUS
        <5>1. i < j /\ t[i] \in S /\ t[j] \in S
          BY <1>3, <2>2
        <5>2. <<t[i], t[j]>> \in R
          BY <1>2, <2>1, <5>1
        <5>3. t[i] = t[j]
          BY <1>1, <5>1, <5>2 DEF Orders
        <5>. QED
          BY <2>1, <2>2, <5>1, <5>3 DEF IsInjective
      <4>3. \A x \in S : \E j \in 1..n : x = t[j]
        BY <2>2, <2>3 DEF ToSet
      <4>4. ToSet(u) = {t[j] : j \in 1..i}
        BY DEF ToSet
      <4> HIDE DEF u
      <4>. QED
        BY <4>1, <4>2, <4>3, <4>4
    <3> HIDE DEF u
    <3>. QED
      BY <3>3, <3>4, <3>5, LengthIs DEF Place
  <2>. QED
    BY <2>1, <2>2, <2>3, <2>4
<1>5. ASSUME NEW t \in Sortings(S, num) PROVE t = s
  <2>1. /\ t \in Seq(S) /\ DOMAIN t = 1..n /\ \A i \in 1..n : t[i] \in S /\ Place(t[i], S, R) = i
        /\ s \in Seq(S) /\ DOMAIN s = 1..n /\ \A i \in 1..n : s[i] \in S /\ Place(s[i], S, R) = i
    BY <1>4
  <2>2. \A i \in 1..n : t[i] = s[i]
    BY <1>1, <2>1, PlaceInjective
  <2> HIDE DEF n
  <2>3. t = [i \in 1..n |-> t[i]] /\ s = [i \in 1..n |-> s[i]]
    BY <2>1, LenProperties
  <2>. QED
    BY <2>2, <2>3
<1>. QED
  BY <1>4, <1>5

\* What a client that no edit overlapped has been shown, in the order all.
Shown(n, all) ==
    LET limit == n.arg.limit
        at == (n.got.page - 1) * limit
    IN  /\ n.got.page <= TotalPages(Len(all), limit)
        /\ n.step \in {1, 2} => n.got.shown = Upto(all, at)
        /\ n.step = 2 => n.got.ids = Page(all, at, limit)
        /\ n.step = 3 => n.got.shown = Upto(all, n.got.page * limit)
        /\ n.step = 4 => n.got.shown = all

ListFits(n, d) == n.op = "pages" =>
    /\ n.arg \in Listings /\ n.step \in 1..4
    /\ n.got = [page |-> n.got.page, ids |-> n.got.ids, shown |-> n.got.shown]
    /\ n.got.page \in Nat \ {0}
    /\ n.calm => \/ n.step = 1 /\ n.got.page = 1 /\ n.got.shown = <<>>
                 \/ \E all \in Sortings(Found(d, n.arg), By(n.arg.sort)) : Shown(n, all)

ListsFit == \A r \in Requests : ListFits(req[r], db)

LEMMA FoundIs ==
    ASSUME NEW d, NEW q \in Listings
    PROVE  /\ Found(d, q) \in SUBSET Venues /\ By(q.sort) \in [Venues -> Int]
           /\ q.limit \in Nat /\ q.limit > 0
<1>1. q.sort \in {"upvotes", "rating", "newest"} /\ q.limit \in Nat \ {0}
  BY ListingsAssumption
<1>2. By(q.sort) \in [Venues -> Int]
  BY <1>1, NumberIs DEF By, Numbers
<1>. QED
  BY <1>1, <1>2 DEF Found, In, Public

\* A request that takes a step leaves the others as they were.
LEMMA OneListMoves ==
    ASSUME PagesInv, ListsFit, NEW r \in Requests, NEW n, req' = [req EXCEPT ![r] = n],
           UNCHANGED db, ListFits(n, db)
    PROVE  ListsFit'
<1>1. \A q \in Requests : req'[q] = n \/ req'[q] = req[q]
  BY DEF PagesInv, ReqsFit
<1>. QED
  BY <1>1 DEF ListsFit

LEMMA BeginPagesLists ==
    ASSUME PagesInv, ListsFit, NEW r \in Requests, NEW q \in Listings, BeginPages(r, q)
    PROVE  ListsFit'
<1> DEFINE n == FirstPage(q)
<1>1. req' = [req EXCEPT ![r] = n] /\ UNCHANGED db
  BY DEF BeginPages, FirstPage
<1>2. /\ n.op = "pages" /\ n.step = 1 /\ n.arg = q
      /\ n.got = [page |-> 1, ids |-> <<>>, shown |-> <<>>]
  BY FirstPageIs
<1> HIDE DEF n
<1>3. ListFits(n, db)
  BY <1>2 DEF ListFits
<1>. QED
  BY <1>1, <1>3, OneListMoves

LEMMA PageIdsLists ==
    ASSUME PagesInv, ListsFit, NEW r \in Requests, PageIds(r)
    PROVE  ListsFit'
<1> DEFINE q == req[r].arg
           old == req[r].got
           at == (old.page - 1) * q.limit
<1>1. req[r].op = "pages" /\ req[r].step = 1
  BY DEF PageIds
<1>2. PICK all \in Sortings(Found(db, q), By(q.sort)) :
         Goes(r, 2, [old EXCEPT !.ids = Page(all, at, q.limit)])
  BY DEF PageIds
<1>3. ListFits(req[r], db)
  BY DEF ListsFit
<1>4. /\ q \in Listings /\ old = [page |-> old.page, ids |-> old.ids, shown |-> old.shown]
      /\ old.page \in Nat \ {0}
  BY <1>1, <1>3 DEF ListFits
<1> DEFINE got == [old EXCEPT !.ids = Page(all, at, q.limit)]
           n == Paging(r, 2, got)
<1>5. /\ req' = [req EXCEPT ![r] = n] /\ UNCHANGED db
      /\ n.op = "pages" /\ n.step = 2 /\ n.got = got /\ n.arg = q /\ n.calm = req[r].calm
  BY <1>1, <1>2, PagingIs
<1>6. /\ got.page = old.page /\ got.ids = Page(all, at, q.limit) /\ got.shown = old.shown
      /\ got = [page |-> got.page, ids |-> got.ids, shown |-> got.shown]
  BY <1>4
<1>7. ASSUME req[r].calm PROVE old.shown = Upto(all, at) /\ old.page <= TotalPages(Len(all), q.limit)
  <2>1. /\ Found(db, q) \in SUBSET Venues /\ By(q.sort) \in [Venues -> Int]
        /\ q.limit \in Nat /\ q.limit > 0
    BY <1>4, FoundIs
  <2>2. CASE old.page = 1 /\ old.shown = <<>>
    <3>1. all \in Seq(Found(db, q))
      BY <2>1, OneSorting
    <3>2. Len(all) \in Nat
      BY <3>1, LenProperties
    <3>3. TotalPages(Len(all), q.limit) \in Nat /\ TotalPages(Len(all), q.limit) >= 1
      BY <2>1, <3>2, LastPage
    <3>4. at = 0
      BY <2>1, <2>2
    <3>5. 1 \in 1..TotalPages(Len(all), q.limit)
      BY <3>3
    <3>6. Upto(all, 0) = <<>>
      BY <2>1, <3>1, <3>5, PageFollows
    <3>. QED
      BY <2>2, <3>3, <3>4, <3>6
  <2>3. CASE \E any \in Sortings(Found(db, q), By(q.sort)) : Shown(req[r], any)
    <3>1. PICK any \in Sortings(Found(db, q), By(q.sort)) : Shown(req[r], any)
      BY <2>3
    <3>2. any = all
      <4> HIDE DEF q
      <4>. QED
        BY <2>1, OneSorting
    <3>. QED
      BY <1>1, <3>1, <3>2 DEF Shown
  <2>. QED
    BY <1>1, <1>3, <1>7, <2>2, <2>3 DEF ListFits
<1> HIDE DEF got, n, old, q
<1>8. req[r].calm => Shown(n, all)
  BY <1>5, <1>6, <1>7 DEF Shown
<1>9. ListFits(n, db)
  BY <1>2, <1>4, <1>5, <1>6, <1>8 DEF ListFits
<1>. QED
  BY <1>5, <1>9, OneListMoves

LEMMA PageRowsLists ==
    ASSUME PagesInv, ListsFit, NEW r \in Requests, PageRows(r)
    PROVE  ListsFit'
<1> DEFINE q == req[r].arg
           old == req[r].got
           at == (old.page - 1) * q.limit
           more == old.shown \o Select(old.ids, Found(db, q))
           got == [old EXCEPT !.shown = more]
           n == Paging(r, 3, got)
<1>1. req[r].op = "pages" /\ req[r].step = 2 /\ Goes(r, 3, got)
  BY DEF PageRows
<1>2. ListFits(req[r], db)
  BY DEF ListsFit
<1>3. /\ q \in Listings /\ old = [page |-> old.page, ids |-> old.ids, shown |-> old.shown]
      /\ old.page \in Nat \ {0}
  BY <1>1, <1>2 DEF ListFits
<1>4. /\ req' = [req EXCEPT ![r] = n] /\ UNCHANGED db
      /\ n.op = "pages" /\ n.step = 3 /\ n.got = got /\ n.arg = q /\ n.calm = req[r].calm
  BY <1>1, PagingIs
<1> HIDE DEF more
<1>5. /\ got.page = old.page /\ got.ids = old.ids /\ got.shown = more
      /\ got = [page |-> got.page, ids |-> got.ids, shown |-> got.shown]
  BY <1>3
<1>a. more = old.shown \o Select(old.ids, Found(db, q))
  BY DEF more
<1> HIDE DEF got, n
<1>6. ASSUME req[r].calm
      PROVE  \E all \in Sortings(Found(db, q), By(q.sort)) : Shown(n, all)
  <2>1. PICK all \in Sortings(Found(db, q), By(q.sort)) : Shown(req[r], all)
    BY <1>1, <1>2, <1>6 DEF ListFits
  <2>2. /\ old.page <= TotalPages(Len(all), q.limit) /\ old.shown = Upto(all, at)
        /\ old.ids = Page(all, at, q.limit)
    BY <1>1, <2>1 DEF Shown
  <2>3. /\ Found(db, q) \in SUBSET Venues /\ By(q.sort) \in [Venues -> Int]
        /\ q.limit \in Nat /\ q.limit > 0
    BY <1>3, FoundIs
  <2>4. all \in Seq(Found(db, q)) /\ ToSet(all) = Found(db, q)
    BY <2>3, OneSorting
  <2> HIDE DEF old, q
  <2>5. old.page - 1 \in Nat /\ at \in Nat
    BY <1>3, <2>3
  <2>6. Select(old.ids, Found(db, q)) = old.ids
    <3>1. Page(all, at, q.limit) \in Seq(Found(db, q)) /\ ToSet(Page(all, at, q.limit)) \subseteq ToSet(all)
      BY <2>3, <2>4, <2>5, PageIs
    <3>. QED
      BY <2>2, <2>4, <3>1, SelectAll
  <2>7. old.page \in 1..TotalPages(Len(all), q.limit)
    <3>1. Len(all) \in Nat
      BY <2>4, LenProperties
    <3>2. TotalPages(Len(all), q.limit) \in Nat
      BY <2>3, <3>1, LastPage
    <3>. QED
      BY <1>3, <2>2, <3>2
  <2>8. got.shown = Upto(all, old.page * q.limit)
    <3>1. Upto(all, at) \o Page(all, at, q.limit) = Upto(all, old.page * q.limit)
      BY <2>3, <2>4, <2>7, PageFollows
    <3>. QED
      BY <1>5, <1>a, <2>2, <2>6, <3>1
  <2>9. Shown(n, all)
    BY <1>4, <1>5, <2>2, <2>8 DEF Shown
  <2>. QED
    BY <2>1, <2>9
<1> HIDE DEF old, q
<1>7. ListFits(n, db)
  BY <1>3, <1>4, <1>5, <1>6 DEF ListFits
<1>. QED
  BY <1>4, <1>7, OneListMoves

LEMMA PageCountLists ==
    ASSUME PagesInv, ListsFit, NEW r \in Requests, PageCount(r)
    PROVE  ListsFit'
<1> DEFINE q == req[r].arg
           old == req[r].got
           last == TotalPages(Cardinality(Found(db, q)), q.limit)
           next == [old EXCEPT !.page = old.page + 1]
<1>1. /\ req[r].op = "pages" /\ req[r].step = 3
      /\ IF old.page < last THEN Goes(r, 1, next) ELSE Goes(r, 4, old)
  BY DEF PageCount
<1>2. ListFits(req[r], db)
  BY DEF ListsFit
<1>3. /\ q \in Listings /\ old = [page |-> old.page, ids |-> old.ids, shown |-> old.shown]
      /\ old.page \in Nat \ {0}
  BY <1>1, <1>2 DEF ListFits
<1>4. /\ next = [page |-> next.page, ids |-> next.ids, shown |-> next.shown]
      /\ next.page = old.page + 1 /\ next.ids = old.ids /\ next.shown = old.shown
  BY <1>3
<1>5. ASSUME req[r].calm
      PROVE  \E all \in Sortings(Found(db, q), By(q.sort)) :
                /\ old.shown = Upto(all, old.page * q.limit)
                /\ last = TotalPages(Len(all), q.limit) /\ last \in Nat /\ old.page <= last
                /\ old.page = last => old.shown = all
  <2>1. PICK all \in Sortings(Found(db, q), By(q.sort)) : Shown(req[r], all)
    BY <1>1, <1>2, <1>5 DEF ListFits
  <2>2. old.page <= TotalPages(Len(all), q.limit) /\ old.shown = Upto(all, old.page * q.limit)
    BY <1>1, <2>1 DEF Shown
  <2>3. /\ Found(db, q) \in SUBSET Venues /\ By(q.sort) \in [Venues -> Int]
        /\ q.limit \in Nat /\ q.limit > 0
    BY <1>3, FoundIs
  <2>4. all \in Seq(Found(db, q)) /\ Len(all) = Cardinality(Found(db, q))
    BY <2>3, OneSorting
  <2>5. Len(all) \in Nat /\ last = TotalPages(Len(all), q.limit)
    BY <2>4, LenProperties
  <2>6. last \in Nat
    BY <2>3, <2>5, LastPage
  <2> HIDE DEF old, q, last
  <2>7. old.page \in 1..TotalPages(Len(all), q.limit)
    BY <1>3, <2>2, <2>5, <2>6
  <2>8. old.page = last => Upto(all, old.page * q.limit) = all
    BY <2>3, <2>4, <2>5, <2>7, PageFollows
  <2>. QED
    BY <2>1, <2>2, <2>5, <2>6, <2>8
<1> HIDE DEF next
<1>6. CASE old.page < last
  <2> DEFINE n == Paging(r, 1, next)
  <2>1. /\ req' = [req EXCEPT ![r] = n] /\ UNCHANGED db
        /\ n.op = "pages" /\ n.step = 1 /\ n.got = next /\ n.arg = q /\ n.calm = req[r].calm
    BY <1>1, <1>6, PagingIs
  <2> HIDE DEF n
  <2>2. ASSUME req[r].calm PROVE \E all \in Sortings(Found(db, q), By(q.sort)) : Shown(n, all)
    <3>1. PICK all \in Sortings(Found(db, q), By(q.sort)) :
                /\ old.shown = Upto(all, old.page * q.limit)
                /\ last = TotalPages(Len(all), q.limit) /\ last \in Nat
      BY <1>5, <2>2
    <3> HIDE DEF old, q, last
    <3>2. old.page + 1 <= last /\ (old.page + 1) - 1 = old.page
      BY <1>3, <1>6, <3>1
    <3>3. Shown(n, all)
      BY <1>4, <2>1, <3>1, <3>2 DEF Shown
    <3>. QED
      BY <3>1, <3>3
  <2>3. next.page \in Nat \ {0}
    BY <1>3, <1>4
  <2> HIDE DEF old, q, last
  <2>4. ListFits(n, db)
    BY <1>3, <1>4, <2>1, <2>2, <2>3 DEF ListFits
  <2>. QED
    BY <2>1, <2>4, OneListMoves
<1>7. CASE ~(old.page < last)
  <2> DEFINE n == Paging(r, 4, old)
  <2>1. /\ req' = [req EXCEPT ![r] = n] /\ UNCHANGED db
        /\ n.op = "pages" /\ n.step = 4 /\ n.got = old /\ n.arg = q /\ n.calm = req[r].calm
    BY <1>1, <1>7, PagingIs
  <2> HIDE DEF n
  <2>2. ASSUME req[r].calm PROVE \E all \in Sortings(Found(db, q), By(q.sort)) : Shown(n, all)
    <3>1. PICK all \in Sortings(Found(db, q), By(q.sort)) :
                /\ last = TotalPages(Len(all), q.limit) /\ last \in Nat /\ old.page <= last
                /\ old.page = last => old.shown = all
      BY <1>5, <2>2
    <3> HIDE DEF old, q, last
    <3>2. old.page = last
      BY <1>3, <1>7, <3>1
    <3>3. Shown(n, all)
      BY <2>1, <3>1, <3>2 DEF Shown
    <3>. QED
      BY <3>1, <3>3
  <2> HIDE DEF old, q, last
  <2>3. ListFits(n, db)
    BY <1>3, <2>1, <2>2 DEF ListFits
  <2>. QED
    BY <2>1, <2>3, OneListMoves
<1>. QED
  BY <1>6, <1>7

\* The requests that page through no list.
LEMMA OthersPage ==
    ASSUME PagesInv, ListsFit, NEW r \in Requests, NEW n, n.op # "pages",
           req' = [req EXCEPT ![r] = n], UNCHANGED db
    PROVE  ListsFit'
<1>1. ListFits(n, db)
  BY DEF ListFits
<1>. QED
  BY <1>1, OneListMoves

LEMMA OtherStepsList ==
    ASSUME PagesInv, ListsFit, NEW r \in Requests,
           \/ \E w \in Workers :
                 \/ \E k \in keys : BeginRead(r, w, k)
                 \/ \E op \in EditOps, arg \in Venues \cup Cities : BeginEdit(r, w, op, arg)
                 \/ \E seen \in SUBSET Venues : BeginForMe(r, w, seen)
           \/ CacheHit(r) \/ Load(r) \/ CacheSet(r) \/ Reload(r) \/ RefuseSlug(r) \/ Invalidate(r)
           \/ AnswerForMe(r) \/ EndPages(r)
    PROVE  ListsFit'
<1>1. ASSUME NEW w \in Workers, NEW k \in keys, BeginRead(r, w, k) PROVE ListsFit'
  <2> DEFINE n == [Free EXCEPT !.op = "read", !.step = 1, !.w = w, !.key = k]
  <2>1. req' = [req EXCEPT ![r] = n] /\ UNCHANGED db
    BY <1>1 DEF BeginRead
  <2>2. n.op = "read"
    BY DEF Free
  <2> HIDE DEF n
  <2>. QED
    BY <2>1, <2>2, OthersPage
<1>2. ASSUME NEW w \in Workers, NEW op \in EditOps, NEW arg, BeginEdit(r, w, op, arg) PROVE ListsFit'
  <2> DEFINE n == [Free EXCEPT !.op = op, !.step = 1, !.w = w, !.arg = arg,
                               !.got = IF op = "city" THEN <<db.text[arg]>> ELSE <<db.venue[arg]>>]
  <2>1. req' = [req EXCEPT ![r] = n] /\ UNCHANGED db
    BY <1>2 DEF BeginEdit
  <2>2. n.op = op
    BY DEF Free
  <2> HIDE DEF n
  <2>. QED
    BY <2>1, <2>2, OthersPage DEF EditOps
<1>3. ASSUME NEW w \in Workers, NEW seen \in SUBSET Venues, BeginForMe(r, w, seen) PROVE ListsFit'
  <2> DEFINE all == [Free EXCEPT !.op = "read", !.step = 1, !.w = w, !.key = Picks, !.arg = "forMe"]
             own == [Free EXCEPT !.op = "forMe", !.step = 1, !.arg = seen]
  <2>1. /\ IF seen = {} THEN req' = [req EXCEPT ![r] = all] ELSE req' = [req EXCEPT ![r] = own]
        /\ UNCHANGED db
    BY <1>3 DEF BeginForMe
  <2>2. all.op = "read" /\ own.op = "forMe"
    BY DEF Free
  <2> HIDE DEF all, own
  <2>. QED
    BY <2>1, <2>2, OthersPage
<1>4. ASSUME \/ CacheHit(r) \/ CacheSet(r) \/ RefuseSlug(r) \/ Invalidate(r) \/ AnswerForMe(r)
             \/ EndPages(r)
      PROVE  ListsFit'
  <2>1. req' = [req EXCEPT ![r] = Free] /\ UNCHANGED db
    BY <1>4 DEF CacheHit, CacheSet, Respond, RefuseSlug, Invalidate, AnswerForMe, EndPages
  <2>2. Free.op # "pages"
    BY DEF Free
  <2>. QED
    BY <2>1, <2>2, OthersPage
<1>5. ASSUME Load(r) \/ Reload(r) PROVE ListsFit'
  <2>1. DOMAIN req = Requests /\ DOMAIN req[r] = DOMAIN Free
    BY DEF PagesInv, ReqsFit, ReqFits
  <2>2. /\ req[r].op # "pages" /\ UNCHANGED db
        /\ \E got, step : req' = [req EXCEPT ![r].got = got, ![r].step = step]
    <3>1. CASE Load(r)
      BY <3>1 DEF Load, Loading
    <3>2. CASE Reload(r)
      <4>1. req' = [req EXCEPT ![r].got = <<Edited(req[r].op, req[r].got[1]), db.venue[req[r].arg]>>,
                               ![r].step = 2]
        BY <3>2 DEF Reload
      <4>. QED
        BY <3>2, <4>1 DEF Reload
    <3>. QED
      BY <1>5, <3>1, <3>2
  <2>3. PICK got, step : req' = [req EXCEPT ![r].got = got, ![r].step = step]
    BY <2>2
  <2> DEFINE n == [req[r] EXCEPT !.got = got, !.step = step]
  <2>4. req' = [req EXCEPT ![r] = n] /\ n.op = req[r].op
    BY <2>1, <2>3, FreeFits
  <2> HIDE DEF n
  <2>. QED
    BY <2>2, <2>4, OthersPage
<1>. QED
  BY <1>1, <1>2, <1>3, <1>4, <1>5

\* A row that is saved ends the calm of every client.
LEMMA SavesList ==
    ASSUME PagesInv, ListsFit, NEW r \in Requests, SaveVenue(r) \/ SaveCity(r)
    PROVE  ListsFit'
<1> DEFINE next == [req EXCEPT ![r].step = 3]
<1>1. /\ req[r].op \in EditOps
      /\ req' = [q \in Requests |-> IF next[q].op \in {"read", "pages"}
                                    THEN [next[q] EXCEPT !.calm = FALSE] ELSE next[q]]
  BY DEF SaveVenue, SaveCity, Changes, EditOps
<1>2. /\ DOMAIN req = Requests /\ \A q \in Requests : DOMAIN req[q] = DOMAIN Free
  BY DEF PagesInv, ReqsFit, ReqFits
<1>3. /\ next[r] = [req[r] EXCEPT !.step = 3]
      /\ \A q \in Requests : q # r => next[q] = req[q]
  BY <1>2
<1>4. next[r].op = req[r].op
  BY <1>2, <1>3, FreeFits
<1> HIDE DEF next
<1>5. ASSUME NEW q \in Requests PROVE ListFits(req'[q], db')
  <2>1. CASE q = r
    <3>1. req'[q] = next[r] /\ req'[q].op # "pages"
      BY <1>1, <1>4, <2>1 DEF EditOps
    <3>. QED
      BY <3>1 DEF ListFits
  <2>2. CASE q # r /\ req[q].op # "pages"
    <3>1. req'[q] = req[q] \/ (req[q].op = "read" /\ req'[q] = [req[q] EXCEPT !.calm = FALSE])
      BY <1>1, <1>3, <2>2
    <3>2. req'[q].op # "pages"
      BY <1>2, <2>2, <3>1, FreeFits
    <3>. QED
      BY <3>2 DEF ListFits
  <2>3. CASE q # r /\ req[q].op = "pages"
    <3>1. req'[q] = [req[q] EXCEPT !.calm = FALSE]
      BY <1>1, <1>3, <2>3
    <3>2. DOMAIN req[q] = DOMAIN Free
      BY <1>2
    <3>3. /\ req'[q].calm = FALSE /\ req'[q].arg = req[q].arg /\ req'[q].step = req[q].step
          /\ req'[q].got = req[q].got
      BY <3>1, <3>2, FreeFits
    <3>4. ListFits(req[q], db)
      BY DEF ListsFit
    <3>. QED
      BY <2>3, <3>3, <3>4 DEF ListFits
  <2>. QED
    BY <2>1, <2>2, <2>3
<1>. QED
  BY <1>5 DEF ListsFit

LEMMA TickList ==
    ASSUME PagesInv, ListsFit, Tick
    PROVE  ListsFit'
<1>1. req' = [r \in Requests |-> [req[r] EXCEPT !.ticked = Loading(r)]] /\ UNCHANGED db
  BY DEF Tick
<1>2. ASSUME NEW r \in Requests PROVE ListFits(req'[r], db)
  <2>1. ListFits(req[r], db) /\ DOMAIN req[r] = DOMAIN Free
    BY DEF ListsFit, PagesInv, ReqsFit, ReqFits
  <2>2. /\ req'[r].op = req[r].op /\ req'[r].step = req[r].step /\ req'[r].calm = req[r].calm
        /\ req'[r].arg = req[r].arg /\ req'[r].got = req[r].got
    BY <1>1, <2>1, FreeFits
  <2>. QED
    BY <2>1, <2>2 DEF ListFits, Shown
<1>. QED
  BY <1>1, <1>2 DEF ListsFit

\* A client that follows a list to its last page while no row is saved is shown
\* each of its venues once, in the one order that the number and the id allow,
\* however long the pages (findPaged, PaginatedResponse).
THEOREM ListsShowAll == Spec => []PagesShowAll
<1>1. Init => ListsFit
  BY DEF Init, ListsFit, ListFits, Free
<1>2. PagesInv /\ ListsFit /\ [Next]_vars => ListsFit'
  <2> SUFFICES ASSUME PagesInv, ListsFit, [Next]_vars PROVE ListsFit'
    OBVIOUS
  <2>1. ASSUME NEW r \in Requests, NEW q \in Listings, BeginPages(r, q) PROVE ListsFit'
    BY <2>1, BeginPagesLists
  <2>2. ASSUME NEW r \in Requests, PageIds(r) \/ PageRows(r) \/ PageCount(r) PROVE ListsFit'
    BY <2>2, PageIdsLists, PageRowsLists, PageCountLists
  <2>3. ASSUME NEW r \in Requests, SaveVenue(r) \/ SaveCity(r) PROVE ListsFit'
    BY <2>3, SavesList
  <2>4. CASE Tick
    BY <2>4, TickList
  <2>5. CASE UNCHANGED vars
    BY <2>5 DEF vars, ListsFit
  <2>6. ASSUME NEW r \in Requests, NEW w \in Workers,
               \/ \E k \in keys : BeginRead(r, w, k)
               \/ \E op \in EditOps, arg \in Venues \cup Cities : BeginEdit(r, w, op, arg)
               \/ \E seen \in SUBSET Venues : BeginForMe(r, w, seen)
        PROVE  ListsFit'
    BY <2>6, OtherStepsList
  <2>7. ASSUME NEW r \in Requests,
               \/ CacheHit(r) \/ Load(r) \/ CacheSet(r) \/ Reload(r) \/ RefuseSlug(r) \/ Invalidate(r)
               \/ AnswerForMe(r) \/ EndPages(r)
        PROVE  ListsFit'
    BY <2>7, OtherStepsList
  <2>. QED
    BY <2>1, <2>2, <2>3, <2>4, <2>5, <2>6, <2>7 DEF Next
<1>3. ListsFit => PagesShowAll
  <2> SUFFICES ASSUME ListsFit, NEW r \in Requests, req[r].op = "pages", req[r].step = 4, req[r].calm
               PROVE  req[r].got.shown \in Sortings(Found(db, req[r].arg), By(req[r].arg.sort))
    BY DEF PagesShowAll
  <2>1. ListFits(req[r], db)
    BY DEF ListsFit
  <2>2. \E all \in Sortings(Found(db, req[r].arg), By(req[r].arg.sort)) : Shown(req[r], all)
    BY <2>1 DEF ListFits
  <2>. QED
    BY <2>2 DEF Shown
<1>. QED
  BY <1>1, <1>2, <1>3, PagesInit, PagesNext, PTL DEF Spec

-----------------------------------------------------------------------------
(* The searches, an instance: what it selects is selected as above.        *)

LEMMA SelectionSame ==
    /\ \A S : A!Cardinality(S) = Cardinality(S)
    /\ \A m, n : A!Fewer(m, n) = Fewer(m, n)
    /\ \A s, at : A!Pick(s, at) = Pick(s, at)
    /\ \A s, set : A!Select(s, set) = Select(s, set)
    /\ \A s, offset, n : A!Page(s, offset, n) = Page(s, offset, n)
    /\ \A s : A!ToSet(s) = ToSet(s)
    /\ \A n : A!Asks(n) <=> Asks(n)
    /\ A!V = ToSet(Listed)
<1>0. \A S : A!Cardinality(S) = Cardinality(S)
  BY DEF A!Cardinality, Cardinality
<1>1. \A m, n : A!Fewer(m, n) = Fewer(m, n)
  BY DEF A!Fewer, Fewer
<1>2. \A s, at : A!Pick(s, at) = Pick(s, at)
  <2>1. \A i, at : A!Rank(i, at) = Rank(i, at)
    BY <1>0 DEF A!Rank, Rank
  <2> TAKE s, at
  <2> DEFINE ANth(n) == CHOOSE i \in at : A!Rank(i, at) = n
  <2>2. \A n : ANth(n) = Nth(at, n)
    <3> TAKE n
    <3>1. \A i : (i \in at /\ A!Rank(i, at) = n) <=> (i \in at /\ Rank(i, at) = n)
      BY <2>1
    <3>. QED
      BY <3>1 DEF Nth
  <2>3. A!Pick(s, at) = [n \in 1..A!Cardinality(at) |-> s[ANth(n)]]
    BY DEF A!Pick
  <2>4. Pick(s, at) = [n \in 1..Cardinality(at) |-> s[Nth(at, n)]]
    BY DEF Pick, Nth
  <2> HIDE DEF ANth
  <2>5. [n \in 1..Cardinality(at) |-> s[ANth(n)]] = [n \in 1..Cardinality(at) |-> s[Nth(at, n)]]
    BY <2>2
  <2>. QED
    BY <1>0, <2>3, <2>4, <2>5
<1>3. \A s, set : A!Select(s, set) = Select(s, set)
  BY <1>2 DEF A!Select, Select
<1>4. \A s, offset, n : A!Page(s, offset, n) = Page(s, offset, n)
  BY <1>1 DEF A!Page, Page
<1>5. \A s : A!ToSet(s) = ToSet(s)
  BY DEF A!ToSet, ToSet
<1>6. \A n : A!Asks(n) <=> Asks(n)
  BY DEF A!Asks, Asks
<1>. QED
  BY <1>0, <1>1, <1>2, <1>3, <1>4, <1>5, <1>6 DEF A!V

-----------------------------------------------------------------------------
(* What the pipeline makes of a query.                                     *)

IsIntent(i) == /\ i = [f \in DOMAIN i |-> i[f]] /\ {"cities", "count", "fits"} \subseteq DOMAIN i
               /\ i.count \in Nat \cup {NoCount}

\* The candidates fit the intent, each once, and are no more than the pool takes.
Pooled(cand, intent) == /\ cand \in Seq(A!V) /\ IsInjective(cand) /\ Len(cand) <= PoolCap
                        /\ ToSet(cand) \subseteq intent.fits

Complete(ids, cand, intent) ==
    /\ IsInjective(ids) /\ ToSet(ids) \subseteq ToSet(cand)
    /\ ~Asks(intent.count) => ToSet(ids) = ToSet(cand)
    /\ Asks(intent.count) => Len(ids) = Fewer(intent.count, Len(cand))

LEMMA ScopedIs ==
    ASSUME NEW i, IsIntent(i), NEW city
    PROVE  IsIntent(A!Scoped(i, city))
<1>1. \A cities : IsIntent([i EXCEPT !.cities = cities])
  BY DEF IsIntent
<1>. QED
  BY <1>1 DEF A!Scoped

LEMMA PublishedIs ==
    ASSUME NEW seq \in Seq(A!V)
    PROVE  /\ A!Published(seq) \in Seq(A!V) /\ ToSet(A!Published(seq)) = ToSet(seq) \ hidden
           /\ IsInjective(seq) => IsInjective(A!Published(seq))
<1> DEFINE at == {i \in DOMAIN seq : seq[i] \notin hidden}
<1>1. at \in SUBSET (DOMAIN seq) /\ A!Published(seq) = Pick(seq, at)
  BY SelectionSame DEF A!Published
<1>2. {seq[i] : i \in at} = ToSet(seq) \ hidden
  BY DEF ToSet
<1> HIDE DEF at
<1>. QED
  BY <1>1, <1>2, PickIs, PickOfInjective

LEMMA FetchedIs ==
    ASSUME NEW intent
    PROVE  Pooled(A!FetchByIntent(intent), intent)
<1>1. PICK fit \in SUBSET intent.fits :
          A!FetchByIntent(intent) = Page(A!Published(Select(Listed, fit)), 0, PoolCap)
  <2> DEFINE InCity(v) == IF intent.cities # {} THEN CityOf[v] \in intent.cities
                          ELSE intent.region = None \/ RegionOf[CityOf[v]] = intent.region
             wards == UNION {Wards[c][intent.ward] : c \in intent.cities}
             InWard(v) == intent.ward = None \/ Cardinality(intent.cities) # 1 \/ wards = {}
                          \/ WardOf[v] \in wards
             fit == {v \in intent.fits : InCity(v) /\ InWard(v)}
  <2>1. A!FetchByIntent(intent) = Page(A!Published(Select(Listed, fit)), 0, PoolCap)
    BY SelectionSame DEF A!FetchByIntent
  <2>2. fit \in SUBSET intent.fits
    OBVIOUS
  <2> HIDE DEF fit
  <2>. QED
    BY <2>1, <2>2
<1> DEFINE all == Select(Listed, fit)
           shown == A!Published(all)
<1>2. all \in Seq(A!V) /\ IsInjective(all) /\ ToSet(all) \subseteq intent.fits
  BY SelectionSame, SelectIs, ListedAssumption DEF A!V
<1> HIDE DEF all
<1>3. shown \in Seq(A!V) /\ IsInjective(shown) /\ ToSet(shown) \subseteq intent.fits
  BY <1>2, PublishedIs
<1> HIDE DEF shown
<1>4. PoolCap \in Nat
  BY CountsAssumption
<1>5. /\ Page(shown, 0, PoolCap) \in Seq(A!V) /\ Len(Page(shown, 0, PoolCap)) = Fewer(PoolCap, Len(shown))
      /\ ToSet(Page(shown, 0, PoolCap)) \subseteq ToSet(shown)
      /\ IsInjective(Page(shown, 0, PoolCap))
  BY <1>3, <1>4, PageIs
<1>6. Fewer(PoolCap, Len(shown)) <= PoolCap
  BY <1>3, <1>4, LenProperties DEF Fewer
<1>. QED
  BY <1>1, <1>3, <1>5, <1>6 DEF Pooled, shown, all

\* The picks that count are candidates, each once.
LEMMA PicksAre ==
    ASSUME NEW S, NEW picks \in Seq(S), NEW window
    PROVE  LET valid == A!ValidPicks(picks, window)
           IN  valid \in Seq(S) /\ IsInjective(valid) /\ ToSet(valid) \subseteq ToSet(window)
<1> DEFINE at == {i \in DOMAIN picks : /\ picks[i] \in ToSet(window)
                                      /\ \A j \in 1..(i - 1) : picks[j] # picks[i]}
<1>1. at \in SUBSET (DOMAIN picks) /\ A!ValidPicks(picks, window) = Pick(picks, at)
  BY SelectionSame DEF A!ValidPicks
<1>2. {picks[i] : i \in at} \subseteq ToSet(window)
  OBVIOUS
<1>3. \A i, j \in at : picks[i] = picks[j] => i = j
  <2> SUFFICES ASSUME NEW i \in at, NEW j \in at, picks[i] = picks[j], i < j PROVE FALSE
    BY LenProperties
  <2>1. i \in 1..(j - 1)
    BY LenProperties
  <2>. QED
    BY <2>1
<1> HIDE DEF at
<1>. QED
  BY <1>1, <1>2, <1>3, PickIs

\* With the rest behind them they are all the candidates.
LEMMA OrderedIs ==
    ASSUME NEW intent, NEW cand, Pooled(cand, intent),
           NEW picks, IsInjective(picks), ToSet(picks) \subseteq ToSet(cand), picks \in Seq(A!V)
    PROVE  /\ A!Ordered(picks, cand) \in Seq(A!V) /\ IsInjective(A!Ordered(picks, cand))
           /\ ToSet(A!Ordered(picks, cand)) = ToSet(cand)
<1> DEFINE rest == Select(cand, ToSet(cand) \ ToSet(picks))
<1>1. rest \in Seq(A!V) /\ IsInjective(rest) /\ ToSet(rest) = ToSet(cand) \ ToSet(picks)
  BY SelectIs DEF Pooled
<1>2. A!Ordered(picks, cand) = picks \o rest
  BY SelectionSame DEF A!Ordered
<1> HIDE DEF rest
<1>3. ToSet(picks) \cap ToSet(rest) = {} /\ ToSet(picks) \cup ToSet(rest) = ToSet(cand)
  BY <1>1
<1>4. /\ picks \o rest \in Seq(A!V) /\ IsInjective(picks \o rest)
      /\ ToSet(picks \o rest) = ToSet(picks) \cup ToSet(rest)
  <2>1. picks \o rest \in Seq(A!V) /\ ToSet(picks \o rest) = ToSet(picks) \cup ToSet(rest)
    BY <1>1, ConcatIs
  <2>2. IsInjective(picks \o rest)
    BY <1>1, <1>3, ConcatIs
  <2>. QED
    BY <2>1, <2>2
<1>. QED
  BY <1>2, <1>3, <1>4

LEMMA CappedIs ==
    ASSUME NEW intent, IsIntent(intent), NEW cand, Pooled(cand, intent),
           NEW ids \in Seq(A!V), IsInjective(ids), ToSet(ids) = ToSet(cand)
    PROVE  A!Capped(ids, intent.count) \in Seq(A!V)
           /\ Complete(A!Capped(ids, intent.count), cand, intent)
<1>1. Len(ids) = Len(cand) /\ Len(cand) \in Nat
  BY LengthIs, LenProperties DEF Pooled
<1>2. CASE ~Asks(intent.count)
  BY <1>2, SelectionSame DEF A!Capped, Complete
<1>3. CASE Asks(intent.count)
  <2>1. intent.count \in Nat /\ Len(cand) <= 4 * MaxCount /\ MaxCount \in Nat
    <3>1. /\ PoolCap \in Nat /\ MaxCount \in Nat /\ PoolCap <= 4 * MaxCount /\ Len(cand) <= PoolCap
      BY CountsAssumption DEF Pooled
    <3>. QED
      BY <1>1, <1>3, <3>1 DEF IsIntent, Asks
  <2> DEFINE n == Fewer(intent.count, 4 * MaxCount)
  <2>2. n \in Nat /\ Fewer(n, Len(ids)) = Fewer(intent.count, Len(cand))
    BY <1>1, <2>1 DEF Fewer
  <2>3. A!Capped(ids, intent.count) = Page(ids, 0, n)
    BY SelectionSame, <1>3 DEF A!Capped
  <2> HIDE DEF n
  <2>4. /\ Page(ids, 0, n) \in Seq(A!V) /\ Len(Page(ids, 0, n)) = Fewer(n, Len(ids))
        /\ ToSet(Page(ids, 0, n)) \subseteq ToSet(ids) /\ IsInjective(Page(ids, 0, n))
    BY <2>2, PageIs
  <2>. QED
    BY <1>3, <2>2, <2>3, <2>4 DEF Complete
<1>. QED
  BY <1>2, <1>3

-----------------------------------------------------------------------------
(* Each request.                                                           *)

Steps == {"idle", "get", "parse", "fallback", "fetch", "rerank", "unranked", "cacheFind",
          "insert", "reload", "save", "hydrate", "answered"}
Writes == {"insert", "reload", "save"}

OneSearch(intent, ids) == /\ Asks(intent.count) => Len(ids) <= intent.count
                          /\ ToSet(ids) \subseteq intent.fits

\* A request when h are the hidden venues.
IsRequest(n, h) ==
    /\ DOMAIN n = DOMAIN A!Free
    /\ n.step \in Steps /\ n.gone \subseteq h
    /\ n.step \notin {"idle", "hydrate", "answered"} => n.city \in CurrentCities /\ n.offset \in Nat
    /\ n.ids \in Seq(A!V) /\ n.shown \in Seq(A!V)
    /\ n.step = "answered" => ToSet(n.shown) \cap n.gone = {}
    /\ n.step \in {"fetch", "rerank", "unranked", "cacheFind"} \cup Writes => IsIntent(n.intent)
    /\ n.step \in {"rerank", "unranked", "cacheFind"} => Pooled(n.cand, n.intent)
    /\ n.step = "cacheFind" => Complete(n.ids, n.cand, n.intent)
    /\ n.step \in Writes => OneSearch(n.intent, n.ids)

AreRequests == DOMAIN search = Searches /\ \A r \in Searches : IsRequest(search[r], hidden)

IsRow(e) == /\ DOMAIN e = {"intent", "ids", "age"} /\ e.age \in 0..(RowTtl + 1)
            /\ IsIntent(e.intent) /\ e.ids \in Seq(A!V)
AreRows == DOMAIN row \subseteq CurrentCities /\ \A c \in DOMAIN row : IsRow(row[c])

TypeInv == hidden \subseteq A!V /\ raced \subseteq CurrentCities /\ AreRequests /\ AreRows

LEMMA FreeIs ==
    /\ DOMAIN A!Free = {"op", "step", "city", "intent", "cand", "ids", "cols", "offset", "gone", "shown"}
    /\ A!Free.ids = <<>> /\ A!Free.shown = <<>> /\ A!Free.gone = {} /\ A!Free.step = "idle"
    /\ <<>> \in Seq(A!V) /\ ToSet(<<>>) = {}
BY DEF A!Free, ToSet

LEMMA HydratingIs ==
    ASSUME NEW n, NEW h, n.gone \subseteq h, NEW ids \in Seq(A!V)
    PROVE  IsRequest(A!Hydrating(n, ids), h) /\ A!Hydrating(n, ids).step = "hydrate"
<1> DEFINE m == A!Hydrating(n, ids)
<1>1. /\ DOMAIN m = DOMAIN A!Free /\ m.step = "hydrate" /\ m.gone = n.gone
      /\ m.ids = ids /\ m.shown = <<>>
  BY FreeIs DEF A!Hydrating
<1> HIDE DEF m
<1>2. IsRequest(m, h)
  BY <1>1, FreeIs DEF IsRequest, Steps, Writes
<1>. QED
  BY <1>1, <1>2 DEF m

LEMMA AnsweredIs ==
    ASSUME NEW n, NEW h, n.gone \subseteq h, NEW shown \in Seq(A!V), ToSet(shown) \cap n.gone = {}
    PROVE  IsRequest(A!Answered(n, shown), h) /\ A!Answered(n, shown).step = "answered"
<1> DEFINE m == A!Answered(n, shown)
<1>1. /\ DOMAIN m = DOMAIN A!Free /\ m.step = "answered" /\ m.gone = n.gone
      /\ m.ids = <<>> /\ m.shown = shown
  BY FreeIs DEF A!Answered
<1> HIDE DEF m
<1>2. IsRequest(m, h)
  BY <1>1, FreeIs DEF IsRequest, Steps, Writes
<1>. QED
  BY <1>1, <1>2 DEF m

\* A request that takes a step leaves the others requests.
LEMMA RequestMoves ==
    ASSUME AreRequests, NEW r \in Searches, NEW n, A!Set(r, n), hidden' = hidden, IsRequest(n, hidden)
    PROVE  AreRequests'
<1>1. /\ DOMAIN search = Searches /\ DOMAIN search' = Searches
      /\ \A q \in Searches : search'[q] = IF q = r THEN n ELSE search[q]
  BY DEF AreRequests, A!Set
<1>2. \A q \in Searches : IsRequest(search'[q], hidden)
  BY <1>1 DEF AreRequests
<1>. QED
  BY <1>1, <1>2 DEF AreRequests

LEMMA ClampIs ==
    ASSUME NEW count \in Nat \cup {NoCount}
    PROVE  A!ClampResultCount(count) \in Nat
BY SelectionSame, CountsAssumption DEF A!ClampResultCount, Fewer, Asks

\* What the list in the cache answers.
LEMMA RowPageIs ==
    ASSUME NEW e, IsRow(e), NEW offset \in Nat
    PROVE  /\ Page(e.ids, offset, PageSize) \in Seq(A!V)
           /\ Page(e.ids, 0, A!ClampResultCount(e.intent.count)) \in Seq(A!V)
<1>1. PageSize \in Nat /\ 0 \in Nat /\ A!ClampResultCount(e.intent.count) \in Nat
  BY CountsAssumption, ClampIs DEF IsRow, IsIntent
<1>. QED
  BY <1>1, PageIs DEF IsRow

-----------------------------------------------------------------------------
(* The steps that leave the rows alone, and the searches that write them.  *)

Aside(r) == /\ search[r].step \notin Writes /\ UNCHANGED <<hidden, row, raced>>
            /\ \E n : A!Set(r, n) /\ IsRequest(n, hidden) /\ n.step \notin Writes

LEMMA Known ==
    ASSUME TypeInv, NEW r \in Searches
    PROVE  /\ DOMAIN search[r] = DOMAIN A!Free /\ search[r].gone \subseteq hidden
           /\ search[r].step \notin {"idle", "hydrate", "answered"} =>
                  search[r].city \in CurrentCities /\ search[r].offset \in Nat
           /\ search[r].ids \in Seq(A!V) /\ search[r].shown \in Seq(A!V)
           /\ IsRequest(search[r], hidden)
BY DEF TypeInv, AreRequests, IsRequest

LEMMA BeginMoves ==
    ASSUME TypeInv, NEW r \in Searches, NEW op, NEW city \in CurrentCities, NEW offset \in Nat,
           A!Begin(r, op, city, offset)
    PROVE  Aside(r)
<1> DEFINE n == [A!Free EXCEPT !.op = op, !.step = "get", !.city = city, !.offset = offset, !.gone = hidden]
<1>1. /\ DOMAIN n = DOMAIN A!Free /\ n.step = "get" /\ n.city = city /\ n.offset = offset
      /\ n.gone = hidden /\ n.ids = <<>> /\ n.shown = <<>>
  BY FreeIs
<1>2. A!Set(r, n) /\ UNCHANGED <<hidden, row, raced>> /\ search[r].step \notin Writes
  BY DEF A!Begin, A!Busy, Writes
<1> HIDE DEF n
<1>3. IsRequest(n, hidden) /\ n.step \notin Writes
  BY <1>1, FreeIs DEF IsRequest, Steps, Writes
<1>. QED
  BY <1>2, <1>3 DEF Aside

LEMMA CacheHitMoves ==
    ASSUME TypeInv, NEW r \in Searches, A!CacheHit(r)
    PROVE  Aside(r)
<1> DEFINE e == row[search[r].city]
           page == IF search[r].op = "more" THEN Page(e.ids, search[r].offset, PageSize)
                   ELSE Page(e.ids, 0, A!ClampResultCount(e.intent.count))
<1>1. /\ search[r].step = "get" /\ search[r].city \in DOMAIN row
      /\ A!Set(r, A!Hydrating(search[r], page)) /\ UNCHANGED <<hidden, row, raced>>
  BY SelectionSame DEF A!CacheHit, A!Valid
<1>2. IsRow(e) /\ search[r].offset \in Nat
  BY <1>1, Known DEF TypeInv, AreRows
<1> HIDE DEF e
<1>3. page \in Seq(A!V)
  BY <1>2, RowPageIs
<1> HIDE DEF page
<1>4. IsRequest(A!Hydrating(search[r], page), hidden) /\ A!Hydrating(search[r], page).step = "hydrate"
  BY <1>3, Known, HydratingIs
<1>. QED
  BY <1>1, <1>4 DEF Aside, Writes

\* The same request at another step that asks nothing of it.
LEMMA RestepIs ==
    ASSUME NEW n, NEW h, IsRequest(n, h), n.step \notin {"idle", "hydrate", "answered"},
           NEW step \in {"parse", "fallback"}
    PROVE  IsRequest([n EXCEPT !.step = step], h) /\ [n EXCEPT !.step = step].step = step
<1> DEFINE m == [n EXCEPT !.step = step]
<1>0. DOMAIN n = DOMAIN A!Free
  BY DEF IsRequest
<1>1. /\ DOMAIN m = DOMAIN A!Free /\ m.step = step /\ m.gone = n.gone /\ m.city = n.city
      /\ m.offset = n.offset /\ m.ids = n.ids /\ m.shown = n.shown
  BY <1>0, FreeIs
<1> HIDE DEF m
<1>2. IsRequest(m, h)
  BY <1>1 DEF IsRequest, Steps, Writes
<1>. QED
  BY <1>1, <1>2 DEF m

LEMMA CacheMissMoves ==
    ASSUME TypeInv, NEW r \in Searches, A!CacheMiss(r)
    PROVE  Aside(r)
<1>1. search[r].step = "get" /\ UNCHANGED <<hidden, row, raced>>
  BY DEF A!CacheMiss
<1>2. CASE search[r].op = "more"
  <2>1. A!Set(r, A!Answered(search[r], <<>>))
    BY <1>2 DEF A!CacheMiss
  <2>2. IsRequest(A!Answered(search[r], <<>>), hidden) /\ A!Answered(search[r], <<>>).step = "answered"
    BY Known, FreeIs, AnsweredIs
  <2>. QED
    BY <1>1, <2>1, <2>2 DEF Aside, Writes
<1>3. CASE search[r].op # "more"
  <2>1. A!Set(r, [search[r] EXCEPT !.step = "parse"])
    BY <1>3 DEF A!CacheMiss
  <2>2. /\ IsRequest([search[r] EXCEPT !.step = "parse"], hidden)
        /\ [search[r] EXCEPT !.step = "parse"].step = "parse"
    BY <1>1, Known, RestepIs
  <2>. QED
    BY <1>1, <2>1, <2>2 DEF Aside, Writes
<1>. QED
  BY <1>2, <1>3

LEMMA ParseFailsMoves ==
    ASSUME TypeInv, NEW r \in Searches, A!ParseFails(r)
    PROVE  Aside(r)
<1>1. /\ search[r].step = "parse" /\ UNCHANGED <<hidden, row, raced>>
      /\ A!Set(r, [search[r] EXCEPT !.step = "fallback"])
  BY DEF A!ParseFails
<1>2. /\ IsRequest([search[r] EXCEPT !.step = "fallback"], hidden)
      /\ [search[r] EXCEPT !.step = "fallback"].step = "fallback"
  BY <1>1, Known, RestepIs
<1>. QED
  BY <1>1, <1>2 DEF Aside, Writes

LEMMA ParseMoves ==
    ASSUME TypeInv, NEW r \in Searches, A!Parse(r)
    PROVE  Aside(r)
<1>1. search[r].step = "parse" /\ UNCHANGED <<hidden, row, raced>>
  BY DEF A!Parse
<1>2. PICK intent \in Intents :
         A!Set(r, IF A!BuildShortcutUrl(A!Scoped(intent, search[r].city)) THEN A!Answered(search[r], <<>>)
                ELSE [search[r] EXCEPT !.intent = A!Scoped(intent, search[r].city), !.step = "fetch"])
  BY DEF A!Parse
<1> DEFINE scoped == A!Scoped(intent, search[r].city)
           m == [search[r] EXCEPT !.intent = scoped, !.step = "fetch"]
<1>3. IsIntent(scoped)
  BY IntentsAssumption, ScopedIs DEF IsIntent
<1> HIDE DEF scoped
<1>4. CASE A!BuildShortcutUrl(scoped)
  <2>1. A!Set(r, A!Answered(search[r], <<>>))
    BY <1>2, <1>4 DEF scoped
  <2>2. IsRequest(A!Answered(search[r], <<>>), hidden) /\ A!Answered(search[r], <<>>).step = "answered"
    BY Known, FreeIs, AnsweredIs
  <2>. QED
    BY <1>1, <2>1, <2>2 DEF Aside, Writes
<1>5. CASE ~A!BuildShortcutUrl(scoped)
  <2>1. A!Set(r, m)
    BY <1>2, <1>5 DEF scoped
  <2>2. /\ DOMAIN m = DOMAIN A!Free /\ m.step = "fetch" /\ m.gone = search[r].gone
        /\ m.city = search[r].city /\ m.offset = search[r].offset /\ m.ids = search[r].ids
        /\ m.shown = search[r].shown /\ m.intent = scoped
    BY Known, FreeIs
  <2> HIDE DEF m
  <2>3. IsRequest(m, hidden)
    BY <1>1, <1>3, <2>2, Known DEF IsRequest, Steps, Writes
  <2>. QED
    BY <1>1, <2>1, <2>2, <2>3 DEF Aside, Writes
<1>. QED
  BY <1>4, <1>5

LEMMA FetchMoves ==
    ASSUME TypeInv, NEW r \in Searches, A!Fetch(r)
    PROVE  Aside(r)
<1> DEFINE cand == A!FetchByIntent(search[r].intent)
           step == IF cand = <<>> THEN "fallback"
                   ELSE IF Len(cand) <= TooFew THEN "unranked" ELSE "rerank"
           m == [search[r] EXCEPT !.cand = cand, !.step = step]
<1>1. search[r].step = "fetch" /\ UNCHANGED <<hidden, row, raced>> /\ A!Set(r, m)
  BY DEF A!Fetch
<1>2. Pooled(cand, search[r].intent) /\ step \in {"fallback", "unranked", "rerank"}
  BY FetchedIs
<1> HIDE DEF cand, step
<1>3. /\ DOMAIN m = DOMAIN A!Free /\ m.step = step /\ m.gone = search[r].gone
      /\ m.city = search[r].city /\ m.offset = search[r].offset /\ m.ids = search[r].ids
      /\ m.shown = search[r].shown /\ m.intent = search[r].intent /\ m.cand = cand
  BY Known, FreeIs
<1> HIDE DEF m
<1>4. IsIntent(search[r].intent)
  BY <1>1, Known DEF IsRequest
<1>5. IsRequest(m, hidden)
  BY <1>1, <1>2, <1>3, <1>4, Known DEF IsRequest, Steps, Writes
<1>. QED
  BY <1>1, <1>2, <1>3, <1>5 DEF Aside, Writes

LEMMA KeywordFallbackMoves ==
    ASSUME TypeInv, NEW r \in Searches, A!KeywordFallback(r)
    PROVE  Aside(r)
<1>1. search[r].step = "fallback" /\ UNCHANGED <<hidden, row, raced>>
  BY DEF A!KeywordFallback
<1>2. PICK words :
         A!Set(r, A!Answered(search[r], Page(A!Published(Select(Listed, words)), 0, DefaultCount)))
  BY SelectionSame DEF A!KeywordFallback
<1> DEFINE all == Select(Listed, words)
           some == A!Published(all)
           shown == Page(some, 0, DefaultCount)
<1>3. all \in Seq(A!V)
  BY SelectionSame, SelectIs, ListedAssumption DEF A!V
<1> HIDE DEF all
<1>4. some \in Seq(A!V) /\ ToSet(some) \cap hidden = {}
  BY <1>3, PublishedIs
<1> HIDE DEF some
<1>5. DefaultCount \in Nat /\ 0 \in Nat
  BY CountsAssumption
<1>6. shown \in Seq(A!V) /\ ToSet(shown) \subseteq ToSet(some)
  BY <1>4, <1>5, PageIs
<1>7. A!Set(r, A!Answered(search[r], shown))
  BY <1>2 DEF all, some
<1> HIDE DEF shown
<1>8. search[r].gone \subseteq hidden /\ ToSet(shown) \cap search[r].gone = {}
  BY <1>4, <1>6, Known
<1>9. IsRequest(A!Answered(search[r], shown), hidden) /\ A!Answered(search[r], shown).step = "answered"
  BY <1>6, <1>8, AnsweredIs
<1>. QED
  BY <1>1, <1>7, <1>9 DEF Aside, Writes

LEMMA RankedMoves ==
    ASSUME TypeInv, NEW r \in Searches, search[r].step \in {"rerank", "unranked"},
           NEW ids \in Seq(A!V), IsInjective(ids), ToSet(ids) = ToSet(search[r].cand), A!Ranked(r, ids)
    PROVE  Aside(r)
<1> DEFINE capped == A!Capped(ids, search[r].intent.count)
           m == [search[r] EXCEPT !.step = "cacheFind", !.ids = capped]
<1>1. UNCHANGED <<hidden, row, raced>> /\ A!Set(r, m)
  BY DEF A!Ranked
<1>2. IsIntent(search[r].intent) /\ Pooled(search[r].cand, search[r].intent)
  BY Known DEF IsRequest
<1>3. capped \in Seq(A!V) /\ Complete(capped, search[r].cand, search[r].intent)
  BY <1>2, CappedIs
<1> HIDE DEF capped
<1>4. /\ DOMAIN m = DOMAIN A!Free /\ m.step = "cacheFind" /\ m.gone = search[r].gone
      /\ m.city = search[r].city /\ m.offset = search[r].offset /\ m.ids = capped
      /\ m.shown = search[r].shown /\ m.intent = search[r].intent /\ m.cand = search[r].cand
  BY Known, FreeIs
<1> HIDE DEF m
<1>5. IsRequest(m, hidden)
  BY <1>2, <1>3, <1>4, Known DEF IsRequest, Steps, Writes
<1>. QED
  BY <1>1, <1>4, <1>5 DEF Aside, Writes

LEMMA UnrankedMoves ==
    ASSUME TypeInv, NEW r \in Searches, A!Unranked(r)
    PROVE  Aside(r)
<1>1. search[r].step \in {"rerank", "unranked"} /\ A!Ranked(r, search[r].cand)
  BY DEF A!Unranked
<1>2. Pooled(search[r].cand, search[r].intent)
  BY <1>1, Known DEF IsRequest
<1>. QED
  BY <1>1, <1>2, RankedMoves DEF Pooled

LEMMA RerankMoves ==
    ASSUME TypeInv, NEW r \in Searches, A!Rerank(r)
    PROVE  Aside(r)
<1> DEFINE window == Page(search[r].cand, 0, Window)
<1>1. search[r].step = "rerank"
  BY DEF A!Rerank
<1>2. PICK picks \in [1..2 -> A!V \cup {Bogus}] :
         A!Ranked(r, A!Ordered(A!ValidPicks(picks, window), search[r].cand))
  BY SelectionSame DEF A!Rerank
<1>3. Pooled(search[r].cand, search[r].intent)
  BY <1>1, Known DEF IsRequest
<1>4. Window \in Nat /\ 0 \in Nat
  BY CountsAssumption
<1>5. ToSet(window) \subseteq ToSet(search[r].cand)
  BY <1>3, <1>4, PageIs DEF Pooled
<1> HIDE DEF window
<1> DEFINE valid == A!ValidPicks(picks, window)
<1>6. picks \in Seq(A!V \cup {Bogus})
  BY SeqDef
<1>7. valid \in Seq(A!V \cup {Bogus}) /\ IsInjective(valid) /\ ToSet(valid) \subseteq ToSet(window)
  BY <1>6, PicksAre
<1> HIDE DEF valid
<1>8. ToSet(search[r].cand) \subseteq A!V
  BY <1>3, ElementOfSeq DEF Pooled, ToSet
<1>9. valid \in Seq(A!V)
  <2>1. DOMAIN valid = 1..Len(valid) /\ Len(valid) \in Nat /\ valid = [i \in 1..Len(valid) |-> valid[i]]
    BY <1>7, LenProperties
  <2>2. \A i \in 1..Len(valid) : valid[i] \in A!V
    BY <1>5, <1>7, <1>8, <2>1 DEF ToSet
  <2>. QED
    BY <2>1, <2>2, SeqDef
<1> DEFINE ids == A!Ordered(valid, search[r].cand)
<1>10. ids \in Seq(A!V) /\ IsInjective(ids) /\ ToSet(ids) = ToSet(search[r].cand)
  BY <1>3, <1>5, <1>7, <1>9, OrderedIs
<1>11. A!Ranked(r, ids)
  BY <1>2 DEF valid
<1> HIDE DEF ids
<1>. QED
  BY <1>1, <1>10, <1>11, RankedMoves

LEMMA HydrateMoves ==
    ASSUME TypeInv, NEW r \in Searches, A!Hydrate(r)
    PROVE  Aside(r)
<1> DEFINE shown == A!Published(search[r].ids)
<1>1. /\ search[r].step = "hydrate" /\ UNCHANGED <<hidden, row, raced>>
      /\ A!Set(r, A!Answered(search[r], shown))
  BY DEF A!Hydrate
<1>2. shown \in Seq(A!V) /\ ToSet(shown) \cap hidden = {}
  BY Known, PublishedIs
<1> HIDE DEF shown
<1>3. search[r].gone \subseteq hidden /\ ToSet(shown) \cap search[r].gone = {}
  BY <1>2, Known
<1>4. IsRequest(A!Answered(search[r], shown), hidden) /\ A!Answered(search[r], shown).step = "answered"
  BY <1>2, <1>3, AnsweredIs
<1>. QED
  BY <1>1, <1>4 DEF Aside, Writes

-----------------------------------------------------------------------------
(* The rows and the searches that write them.                              *)

WritesRow(r, c) == search[r].step \in Writes /\ search[r].city = c

\* What save() writes over the row e makes it the search's.
Carries(n, e) == /\ "intent" \in n.cols \/ n.intent = e.intent
                 /\ "ids" \in n.cols \/ n.ids = e.ids

RowInv ==
    /\ \A r \in Searches : search[r].step \in {"reload", "save"} => search[r].city \in DOMAIN row
    /\ \A c \in CurrentCities \ raced :
          /\ \A q, r \in Searches : WritesRow(q, c) /\ WritesRow(r, c) => q = r
          /\ \A r \in Searches : WritesRow(r, c) =>
                /\ search[r].step = "insert" => c \notin DOMAIN row
                /\ search[r].step = "save" => Carries(search[r], row[c])
          /\ c \in DOMAIN row /\ (\A r \in Searches : ~WritesRow(r, c)) =>
                OneSearch(row[c].intent, row[c].ids)

Inv == TypeInv /\ RowInv

\* The rest of RowInv when its writers are as they were.
LEMMA SameWriters ==
    ASSUME RowInv, UNCHANGED <<row, raced>>,
           \A r \in Searches :
              \/ search[r].step \notin Writes /\ search'[r].step \notin Writes
              \/ /\ search'[r].step = search[r].step /\ search'[r].city = search[r].city
                 /\ search'[r].intent = search[r].intent /\ search'[r].ids = search[r].ids
                 /\ search'[r].cols = search[r].cols
    PROVE  RowInv'
<1>2. \A r \in Searches : \A c : (search'[r].step \in Writes /\ search'[r].city = c) <=> WritesRow(r, c)
  BY DEF WritesRow
<1>3. \A r \in Searches : search'[r].step \in Writes \/ search[r].step \in Writes =>
         /\ search'[r].step = search[r].step /\ search'[r].city = search[r].city
         /\ search'[r].intent = search[r].intent /\ search'[r].ids = search[r].ids
         /\ search'[r].cols = search[r].cols
  OBVIOUS
<1>4. ASSUME NEW r \in Searches PROVE
             search'[r].step \in {"reload", "save"} => search'[r].city \in DOMAIN row'
  BY <1>3 DEF RowInv, Writes
<1>. QED
  BY <1>2, <1>3, <1>4 DEF RowInv, WritesRow, Carries, OneSearch, Writes

LEMMA AsideKeeps ==
    ASSUME Inv, NEW r \in Searches, Aside(r)
    PROVE  Inv'
<1>1. PICK n : A!Set(r, n) /\ IsRequest(n, hidden) /\ n.step \notin Writes
  BY DEF Aside
<1>2. search[r].step \notin Writes /\ UNCHANGED <<hidden, row, raced>>
  BY DEF Aside
<1>3. AreRequests'
  BY <1>1, <1>2, RequestMoves DEF Inv, TypeInv
<1>4. TypeInv'
  BY <1>2, <1>3 DEF Inv, TypeInv, AreRows
<1>5. \A q \in Searches : search'[q] = IF q = r THEN n ELSE search[q]
  BY <1>1 DEF A!Set, Inv, TypeInv, AreRequests
<1>6. RowInv'
  BY <1>1, <1>2, <1>5, SameWriters DEF Inv
<1>. QED
  BY <1>4, <1>6 DEF Inv

LEMMA SetPublishedKeeps ==
    ASSUME Inv, NEW v \in Hideable, A!SetPublished(v)
    PROVE  Inv'
<1>1. /\ hidden' = IF v \in hidden THEN hidden \ {v} ELSE hidden \cup {v}
      /\ search' = [r \in Searches |-> [search[r] EXCEPT !.gone = @ \cap hidden']]
      /\ UNCHANGED <<row, raced>>
  BY DEF A!SetPublished
<1>2. hidden' \subseteq A!V
  BY SelectionSame, <1>1, ListedAssumption DEF Inv, TypeInv, A!V
<1>3. \A r \in Searches :
         LET n == search[r]
             m == search'[r]
         IN  /\ DOMAIN m = DOMAIN A!Free /\ m.step = n.step /\ m.city = n.city /\ m.intent = n.intent
             /\ m.cand = n.cand /\ m.ids = n.ids /\ m.cols = n.cols /\ m.offset = n.offset
             /\ m.shown = n.shown /\ m.gone = n.gone \cap hidden'
  BY <1>1, Known, FreeIs DEF Inv
<1>4. \A r \in Searches : IsRequest(search'[r], hidden')
  <2> TAKE r \in Searches
  <2> DEFINE m == search'[r]
  <2>1. IsRequest(search[r], hidden)
    BY Known DEF Inv
  <2>2. /\ DOMAIN m = DOMAIN A!Free /\ m.step = search[r].step /\ m.city = search[r].city
        /\ m.intent = search[r].intent /\ m.cand = search[r].cand /\ m.ids = search[r].ids
        /\ m.offset = search[r].offset /\ m.shown = search[r].shown
        /\ m.gone = search[r].gone \cap hidden'
    BY <1>3
  <2> HIDE DEF m
  <2>3. m.gone \subseteq hidden' /\ m.gone \subseteq search[r].gone
    BY <2>2
  <2>4. IsRequest(m, hidden')
    BY <2>1, <2>2, <2>3 DEF IsRequest
  <2>. QED
    BY <2>4 DEF m
<1>5. TypeInv'
  BY <1>1, <1>2, <1>4 DEF Inv, TypeInv, AreRequests, AreRows
<1>6. RowInv'
  BY <1>1, <1>3, SameWriters DEF Inv
<1>. QED
  BY <1>5, <1>6 DEF Inv

LEMMA TickKeeps ==
    ASSUME Inv, A!Tick
    PROVE  Inv'
<1>1. /\ row' = [c \in DOMAIN row |-> [row[c] EXCEPT !.age = Fewer(RowTtl + 1, @ + 1)]]
      /\ UNCHANGED <<hidden, search, raced>>
  BY SelectionSame DEF A!Tick
<1>2. DOMAIN row' = DOMAIN row /\ \A c \in DOMAIN row : IsRow(row[c])
  BY <1>1 DEF Inv, TypeInv, AreRows
<1>3. \A c \in DOMAIN row :
         /\ DOMAIN row'[c] = {"intent", "ids", "age"} /\ row'[c].intent = row[c].intent
         /\ row'[c].ids = row[c].ids /\ row'[c].age = Fewer(RowTtl + 1, row[c].age + 1)
  BY <1>1, <1>2 DEF IsRow
<1>4. RowTtl \in Nat
  BY CountsAssumption
<1>5. \A c \in DOMAIN row : row[c].age \in 0..(RowTtl + 1)
  BY <1>2 DEF IsRow
<1>6. \A c \in DOMAIN row : Fewer(RowTtl + 1, row[c].age + 1) \in 0..(RowTtl + 1)
  BY <1>4, <1>5 DEF Fewer
<1>7. \A c \in DOMAIN row' : IsRow(row'[c])
  BY <1>2, <1>3, <1>6 DEF IsRow
<1>8. TypeInv'
  BY <1>1, <1>2, <1>7 DEF Inv, TypeInv, AreRequests, AreRows
<1>9. RowInv'
  BY <1>1, <1>2, <1>3 DEF Inv, RowInv, WritesRow, Carries, TypeInv, AreRows
<1>. QED
  BY <1>8, <1>9 DEF Inv

\* CacheFind: from here on the search will write its row.
LEMMA CacheFindKeeps ==
    ASSUME Inv, NEW r \in Searches, A!CacheFind(r)
    PROVE  Inv'
<1> DEFINE city == search[r].city
           step == IF city \in DOMAIN row THEN "reload" ELSE "insert"
           n == [search[r] EXCEPT !.cand = <<>>, !.step = step]
<1>1. /\ search[r].step = "cacheFind" /\ A!Set(r, n) /\ UNCHANGED <<hidden, row>>
      /\ raced' = IF A!Writing(r) THEN raced \cup {city} ELSE raced \ {city}
  BY DEF A!CacheFind
<1>2. step \in {"reload", "insert"} /\ (step = "insert" <=> city \notin DOMAIN row)
  OBVIOUS
<1> HIDE DEF step
<1>3. /\ DOMAIN n = DOMAIN A!Free /\ n.step = step /\ n.gone = search[r].gone
      /\ n.city = city /\ n.offset = search[r].offset /\ n.ids = search[r].ids
      /\ n.shown = search[r].shown /\ n.intent = search[r].intent
  BY Known, FreeIs DEF Inv
<1> HIDE DEF n
<1>4. IsRequest(search[r], hidden) /\ city \in CurrentCities
  BY <1>1, Known DEF Inv
<1>5. OneSearch(n.intent, n.ids)
  <2>1. /\ IsIntent(search[r].intent) /\ Pooled(search[r].cand, search[r].intent)
        /\ Complete(search[r].ids, search[r].cand, search[r].intent)
    BY <1>1, <1>4 DEF IsRequest
  <2>2. Len(search[r].cand) \in Nat
    BY <2>1, LenProperties DEF Pooled
  <2>. QED
    BY <1>3, <2>1, <2>2 DEF OneSearch, Complete, Pooled, Fewer, IsIntent, Asks
<1>6. IsRequest(n, hidden)
  BY <1>1, <1>2, <1>3, <1>4, <1>5 DEF IsRequest, Steps, Writes
<1>7. AreRequests'
  BY <1>1, <1>6, RequestMoves DEF Inv, TypeInv
<1>8. TypeInv'
  BY <1>1, <1>4, <1>7 DEF Inv, TypeInv, AreRows
<1>9. \A q \in Searches : search'[q] = IF q = r THEN n ELSE search[q]
  BY <1>1 DEF A!Set, Inv, TypeInv, AreRequests
<1> HIDE DEF city
<1>10. city \notin raced' => \A q \in Searches \ {r} : ~WritesRow(q, city)
  BY <1>1 DEF A!Writing, WritesRow, Writes, city
<1>11. \A q \in Searches : \A c : WritesRow(q, c)' <=> (IF q = r THEN c = city ELSE WritesRow(q, c))
  BY <1>2, <1>3, <1>9 DEF WritesRow, Writes
<1>12. RowInv'
  <2>1. \A q \in Searches : search'[q].step \in {"reload", "save"} => search'[q].city \in DOMAIN row'
    BY <1>1, <1>2, <1>3, <1>9 DEF Inv, RowInv
  <2>2. ASSUME NEW c \in CurrentCities \ raced'
        PROVE  /\ \A p, q \in Searches : WritesRow(p, c)' /\ WritesRow(q, c)' => p = q
               /\ \A q \in Searches : WritesRow(q, c)' =>
                     /\ search'[q].step = "insert" => c \notin DOMAIN row'
                     /\ search'[q].step = "save" => Carries(search'[q], row'[c])
               /\ c \in DOMAIN row' /\ (\A q \in Searches : ~WritesRow(q, c)') =>
                     OneSearch(row'[c].intent, row'[c].ids)
    <3>1. CASE c = city
      BY <1>1, <1>2, <1>3, <1>9, <1>10, <1>11, <2>2, <3>1
    <3>2. CASE c # city
      <4>1. c \in CurrentCities \ raced
        BY <1>1, <2>2, <3>2
      <4>2. \A q \in Searches : WritesRow(q, c)' <=> (q # r /\ WritesRow(q, c))
        BY <1>11, <3>2
      <4>3. ~WritesRow(r, c)
        BY <1>1 DEF WritesRow, Writes
      <4>. QED
        BY <1>1, <1>9, <4>1, <4>2, <4>3 DEF Inv, RowInv
    <3>. QED
      BY <3>1, <3>2
  <2>. QED
    BY <2>1, <2>2 DEF RowInv
<1>. QED
  BY <1>8, <1>12 DEF Inv

\* CacheReload: what the search does not carry, the row has.
LEMMA CacheReloadKeeps ==
    ASSUME Inv, NEW r \in Searches, A!CacheReload(r)
    PROVE  Inv'
<1> DEFINE city == search[r].city
           e == row[city]
           cols == A!Diff(A!Entry(search[r]), e)
           n == [search[r] EXCEPT !.step = "save", !.cols = cols]
<1>1. search[r].step = "reload" /\ A!Set(r, n) /\ UNCHANGED <<hidden, row, raced>>
  BY DEF A!CacheReload
<1>2. /\ DOMAIN n = DOMAIN A!Free /\ n.step = "save" /\ n.gone = search[r].gone
      /\ n.city = city /\ n.offset = search[r].offset /\ n.ids = search[r].ids
      /\ n.shown = search[r].shown /\ n.intent = search[r].intent /\ n.cols = cols
  BY Known, FreeIs DEF Inv
<1>3. city \in DOMAIN row
  BY <1>1 DEF Inv, RowInv
<1>4. Carries(n, e)
  BY <1>2 DEF Carries, A!Diff, A!Entry
<1> HIDE DEF n, cols, e
<1>5. IsRequest(search[r], hidden)
  BY Known DEF Inv
<1>6. IsRequest(n, hidden)
  BY <1>1, <1>2, <1>5 DEF IsRequest, Steps, Writes
<1>7. AreRequests'
  BY <1>1, <1>6, RequestMoves DEF Inv, TypeInv
<1>8. TypeInv'
  BY <1>1, <1>7 DEF Inv, TypeInv, AreRows
<1>9. \A q \in Searches : search'[q] = IF q = r THEN n ELSE search[q]
  BY <1>1 DEF A!Set, Inv, TypeInv, AreRequests
<1>10. \A q \in Searches : \A c : WritesRow(q, c)' <=> WritesRow(q, c)
  BY <1>1, <1>2, <1>9 DEF WritesRow, Writes
<1>11. RowInv'
  <2>1. \A q \in Searches : search'[q].step \in {"reload", "save"} => search'[q].city \in DOMAIN row'
    BY <1>1, <1>2, <1>3, <1>9 DEF Inv, RowInv
  <2>2. \A c \in CurrentCities \ raced, q \in Searches : WritesRow(q, c)' =>
           /\ search'[q].step = "insert" => c \notin DOMAIN row
           /\ search'[q].step = "save" => Carries(search'[q], row[c])
    <3> TAKE c \in CurrentCities \ raced, q \in Searches
    <3>1. CASE q = r
      <4>1. WritesRow(q, c)' => c = city /\ row[c] = e
        BY <1>2, <1>9, <3>1 DEF WritesRow, e
      <4>. QED
        BY <1>2, <1>4, <1>9, <3>1, <4>1
    <3>2. CASE q # r
      BY <1>9, <1>10, <3>2 DEF Inv, RowInv
    <3>. QED
      BY <3>1, <3>2
  <2>. QED
    BY <1>1, <1>10, <2>1, <2>2 DEF Inv, RowInv
<1>. QED
  BY <1>8, <1>11 DEF Inv

\* What a search that is saved answers.
LEMMA SavedIs ==
    ASSUME Inv, NEW r \in Searches, search[r].step \in Writes, A!Saved(r), hidden' = hidden
    PROVE  /\ AreRequests'
           /\ \A q \in Searches : \A c : WritesRow(q, c)' <=> (q # r /\ WritesRow(q, c))
           /\ \A q \in Searches \ {r} : search'[q] = search[q]
           /\ search'[r].step = "hydrate"
<1> DEFINE page == Page(search[r].ids, 0, A!ClampResultCount(search[r].intent.count))
           n == A!Hydrating(search[r], page)
<1>1. A!Set(r, n)
  BY SelectionSame DEF A!Saved
<1>2. IsIntent(search[r].intent) /\ search[r].ids \in Seq(A!V) /\ search[r].gone \subseteq hidden
  BY Known DEF Inv, IsRequest
<1>3. A!ClampResultCount(search[r].intent.count) \in Nat /\ 0 \in Nat
  BY <1>2, ClampIs DEF IsIntent
<1>4. page \in Seq(A!V)
  BY <1>2, <1>3, PageIs
<1> HIDE DEF page
<1>5. IsRequest(n, hidden) /\ n.step = "hydrate"
  BY <1>2, <1>4, HydratingIs
<1> HIDE DEF n
<1>6. AreRequests'
  BY <1>1, <1>5, RequestMoves DEF Inv, TypeInv
<1>7. \A q \in Searches : search'[q] = IF q = r THEN n ELSE search[q]
  BY <1>1 DEF A!Set, Inv, TypeInv, AreRequests
<1>8. \A q \in Searches : \A c : WritesRow(q, c)' <=> (q # r /\ WritesRow(q, c))
  BY <1>5, <1>7 DEF WritesRow, Writes
<1>. QED
  BY <1>5, <1>6, <1>7, <1>8

\* What both kinds of write leave: the row of a search that ran alone is its own.
LEMMA WrittenKeeps ==
    ASSUME Inv, NEW r \in Searches, search[r].step \in Writes, A!Saved(r), UNCHANGED <<hidden, raced>>,
           NEW e, IsRow(e), search[r].city \in CurrentCities,
           DOMAIN row' = DOMAIN row \cup {search[r].city},
           \A c \in DOMAIN row \ {search[r].city} : row'[c] = row[c],
           row'[search[r].city] = e,
           search[r].city \notin raced => e.intent = search[r].intent /\ e.ids = search[r].ids
    PROVE  Inv'
<1> DEFINE city == search[r].city
<1>1. /\ AreRequests' /\ \A q \in Searches : \A c : WritesRow(q, c)' <=> (q # r /\ WritesRow(q, c))
      /\ \A q \in Searches \ {r} : search'[q] = search[q]
      /\ search'[r].step = "hydrate"
  BY SavedIs
<1>2. AreRows'
  BY DEF Inv, TypeInv, AreRows
<1>3. TypeInv'
  BY <1>1, <1>2 DEF Inv, TypeInv
<1>4. WritesRow(r, city)
  BY DEF WritesRow
<1>5. OneSearch(search[r].intent, search[r].ids)
  BY Known DEF Inv, IsRequest
<1>6. \A q \in Searches : search'[q].step \in {"reload", "save"} => search'[q].city \in DOMAIN row'
  BY <1>1 DEF Inv, RowInv
<1>7. ASSUME NEW c \in CurrentCities \ raced
      PROVE  /\ \A p, q \in Searches : WritesRow(p, c)' /\ WritesRow(q, c)' => p = q
             /\ \A q \in Searches : WritesRow(q, c)' =>
                   /\ search'[q].step = "insert" => c \notin DOMAIN row'
                   /\ search'[q].step = "save" => Carries(search'[q], row'[c])
             /\ c \in DOMAIN row' /\ (\A q \in Searches : ~WritesRow(q, c)') =>
                   OneSearch(row'[c].intent, row'[c].ids)
  <2>1. CASE c = city
    <3>1. \A q \in Searches : ~WritesRow(q, c)'
      BY <1>1, <1>4, <2>1 DEF Inv, RowInv
    <3>2. OneSearch(row'[c].intent, row'[c].ids)
      BY <1>5, <1>7, <2>1
    <3>. QED
      BY <3>1, <3>2
  <2>2. CASE c # city
    <3>1. ~WritesRow(r, c)
      BY <2>2 DEF WritesRow
    <3>2. \A q \in Searches : WritesRow(q, c)' <=> WritesRow(q, c)
      BY <1>1, <3>1
    <3>3. \A q \in Searches : WritesRow(q, c) => q # r /\ search'[q] = search[q]
      BY <1>1, <3>1
    <3>4. (c \in DOMAIN row' <=> c \in DOMAIN row) /\ (c \in DOMAIN row => row'[c] = row[c])
      BY <2>2
    <3>5. \A q \in Searches : WritesRow(q, c) /\ search[q].step = "save" => c \in DOMAIN row
      BY DEF WritesRow, Inv, RowInv
    <3>. QED
      BY <1>7, <3>2, <3>3, <3>4, <3>5 DEF Inv, RowInv
  <2>. QED
    BY <2>1, <2>2
<1>8. RowInv'
  BY <1>6, <1>7 DEF RowInv
<1>. QED
  BY <1>3, <1>8 DEF Inv

LEMMA CacheSaveKeeps ==
    ASSUME Inv, NEW r \in Searches, A!CacheSave(r)
    PROVE  Inv'
<1> DEFINE city == search[r].city
           n == search[r]
           old == row[city]
           e == [intent |-> IF "intent" \in n.cols THEN n.intent ELSE old.intent,
                 ids |-> IF "ids" \in n.cols THEN n.ids ELSE old.ids,
                 age |-> 0]
<1>1. /\ n.step = "save" /\ row' = [row EXCEPT ![city] = e] /\ A!Saved(r)
      /\ UNCHANGED <<hidden, raced>>
  BY DEF A!CacheSave
<1>2. n.step \in Writes /\ city \in DOMAIN row /\ city \in CurrentCities
  BY <1>1 DEF Inv, RowInv, Writes, TypeInv, AreRows
<1>3. IsRow(old)
  BY <1>2 DEF Inv, TypeInv, AreRows
<1>4. IsIntent(n.intent) /\ n.ids \in Seq(A!V)
  BY <1>2, Known DEF Inv, IsRequest
<1>5. RowTtl \in Nat
  BY CountsAssumption
<1>6. IsRow(e)
  BY <1>3, <1>4, <1>5 DEF IsRow
<1>7. city \notin raced => e.intent = n.intent /\ e.ids = n.ids
  <2>1. city \notin raced => Carries(n, old)
    BY <1>1, <1>2 DEF Inv, RowInv, WritesRow
  <2>. QED
    BY <2>1 DEF Carries
<1> HIDE DEF e
<1>8. /\ DOMAIN row' = DOMAIN row \cup {city} /\ row'[city] = e
      /\ \A c \in DOMAIN row \ {city} : row'[c] = row[c]
  BY <1>1, <1>2
<1>. QED
  BY <1>1, <1>2, <1>6, <1>7, <1>8, WrittenKeeps

LEMMA CacheInsertKeeps ==
    ASSUME Inv, NEW r \in Searches, A!CacheInsert(r)
    PROVE  Inv'
<1> DEFINE city == search[r].city
           n == search[r]
           new == [intent |-> n.intent, ids |-> n.ids, age |-> 0]
           e == IF city \in DOMAIN row THEN row[city] ELSE new
<1>1. /\ n.step = "insert" /\ A!Saved(r) /\ UNCHANGED <<hidden, raced>>
      /\ row' = [c \in DOMAIN row \cup {city} |-> IF c \in DOMAIN row THEN row[c] ELSE new]
  BY DEF A!CacheInsert
<1>2. n.step \in Writes /\ city \in CurrentCities
  BY <1>1, Known DEF Inv, Writes
<1>3. IsIntent(n.intent) /\ n.ids \in Seq(A!V) /\ RowTtl \in Nat
  BY <1>2, Known, CountsAssumption DEF Inv, IsRequest
<1>4. IsRow(new)
  BY <1>3 DEF IsRow
<1>5. new.intent = n.intent /\ new.ids = n.ids
  OBVIOUS
<1> HIDE DEF new
<1>6. IsRow(e)
  BY <1>4 DEF Inv, TypeInv, AreRows
<1>7. city \notin raced => e.intent = n.intent /\ e.ids = n.ids
  BY <1>1, <1>2, <1>5 DEF Inv, RowInv, WritesRow
<1>8. /\ DOMAIN row' = DOMAIN row \cup {city} /\ row'[city] = e
      /\ \A c \in DOMAIN row \ {city} : row'[c] = row[c]
  BY <1>1
<1> HIDE DEF e
<1>. QED
  BY <1>1, <1>2, <1>6, <1>7, <1>8, WrittenKeeps

-----------------------------------------------------------------------------
(* The theorems.                                                           *)

LEMMA InvInit == A!Init => Inv
<1> SUFFICES ASSUME A!Init PROVE Inv
  OBVIOUS
<1>1. hidden = {} /\ row = <<>> /\ search = [r \in Searches |-> A!Free] /\ raced = {}
  BY DEF A!Init
<1>2. IsRequest(A!Free, {})
  BY FreeIs DEF IsRequest, Steps, Writes
<1>3. TypeInv
  BY <1>1, <1>2 DEF TypeInv, AreRequests, AreRows
<1>4. RowInv
  BY <1>1, FreeIs DEF RowInv, WritesRow, Writes
<1>. QED
  BY <1>3, <1>4 DEF Inv

LEMMA InvNext == Inv /\ [A!Next]_(A!vars) => Inv'
<1> SUFFICES ASSUME Inv, [A!Next]_(A!vars) PROVE Inv'
  OBVIOUS
<1>0. TypeInv
  BY DEF Inv
<1>1. ASSUME NEW r \in Searches, NEW city \in CurrentCities, A!Begin(r, "search", city, 0) PROVE Inv'
  <2>1. 0 \in Nat
    OBVIOUS
  <2>. QED
    BY <1>0, <1>1, <2>1, BeginMoves, AsideKeeps
<1>2. ASSUME NEW r \in Searches, NEW city \in CurrentCities, NEW offset \in Offsets,
             A!Begin(r, "more", city, offset)
      PROVE  Inv'
  <2>1. offset \in Nat
    BY CountsAssumption
  <2>. QED
    BY <1>0, <1>2, <2>1, BeginMoves, AsideKeeps
<1>3. ASSUME NEW r \in Searches, A!Step(r) PROVE Inv'
  <2>1. CASE A!CacheHit(r)
    BY <1>0, <2>1, CacheHitMoves, AsideKeeps
  <2>2. CASE A!CacheMiss(r)
    BY <1>0, <2>2, CacheMissMoves, AsideKeeps
  <2>3. CASE A!ParseFails(r)
    BY <1>0, <2>3, ParseFailsMoves, AsideKeeps
  <2>4. CASE A!Parse(r)
    BY <1>0, <2>4, ParseMoves, AsideKeeps
  <2>5. CASE A!Fetch(r)
    BY <1>0, <2>5, FetchMoves, AsideKeeps
  <2>6. CASE A!KeywordFallback(r)
    BY <1>0, <2>6, KeywordFallbackMoves, AsideKeeps
  <2>7. CASE A!Rerank(r)
    BY <1>0, <2>7, RerankMoves, AsideKeeps
  <2>8. CASE A!Unranked(r)
    BY <1>0, <2>8, UnrankedMoves, AsideKeeps
  <2>9. CASE A!CacheFind(r)
    BY <2>9, CacheFindKeeps
  <2>10. CASE A!CacheReload(r)
    BY <2>10, CacheReloadKeeps
  <2>11. CASE A!CacheSave(r)
    BY <2>11, CacheSaveKeeps
  <2>12. CASE A!CacheInsert(r)
    BY <2>12, CacheInsertKeeps
  <2>13. CASE A!Hydrate(r)
    BY <1>0, <2>13, HydrateMoves, AsideKeeps
  <2>. QED
    BY <1>3, <2>1, <2>2, <2>3, <2>4, <2>5, <2>6, <2>7, <2>8, <2>9, <2>10, <2>11, <2>12, <2>13 DEF A!Step
<1>4. ASSUME NEW v \in Hideable, A!SetPublished(v) PROVE Inv'
  BY <1>4, SetPublishedKeeps
<1>5. ASSUME A!Tick PROVE Inv'
  BY <1>5, TickKeeps
<1>6. ASSUME UNCHANGED A!vars PROVE Inv'
  BY <1>6 DEF A!vars, Inv, TypeInv, AreRequests, AreRows, RowInv, WritesRow
<1>. QED
  BY <1>1, <1>2, <1>3, <1>4, <1>5, <1>6 DEF A!Next

\* Every request of a search holds what its step says, rows hold a list of venues
\* and an intent, and a row outside raced has at most one search about to write it
\* (ai-search.service.ts, ai-cache.service.ts).
THEOREM SearchesAreSound == A!Spec => []Inv
<1>1. A!Init => Inv
  BY InvInit
<1>2. Inv /\ [A!Next]_(A!vars) => Inv'
  BY InvNext
<1>. QED
  BY <1>1, <1>2, PTL DEF A!Spec

\* Requests and rows of the cache are typed in every reachable state.
THEOREM SearchTypes == A!Spec => []A!TypeOK
<1>1. Inv => A!TypeOK
  <2> SUFFICES ASSUME Inv PROVE A!TypeOK
    OBVIOUS
  <2>1. hidden \subseteq A!V /\ raced \subseteq CurrentCities /\ DOMAIN row \subseteq CurrentCities
    BY DEF Inv, TypeInv, AreRows
  <2>2. \A s \in Seq(A!V) : A!ToSet(s) \subseteq A!V
    <3>1. \A s \in Seq(A!V) : ToSet(s) \subseteq A!V
      BY DEF ToSet
    <3>. QED
      BY <3>1, SelectionSame
  <2>3. \A c \in DOMAIN row : DOMAIN row[c] = {"intent", "ids", "age"} /\ A!ToSet(row[c].ids) \subseteq A!V
                              /\ row[c].age \in 0..(RowTtl + 1)
    BY <2>2 DEF Inv, TypeInv, AreRows, IsRow
  <2>4. \A r \in Searches : DOMAIN search[r] = DOMAIN A!Free /\ A!ToSet(search[r].shown) \subseteq A!V
    BY <2>2 DEF Inv, TypeInv, AreRequests, IsRequest
  <2>. QED
    BY <2>1, <2>3, <2>4 DEF A!TypeOK
<1>. QED
  BY <1>1, SearchesAreSound, PTL

\* Whatever the model picks, repeats or invents, the list that is cached holds every
\* candidate once; only a count the user asked for shortens it.
THEOREM ListsAreComplete == A!Spec => []ListComplete
<1>1. Inv => ListComplete
  BY DEF Inv, TypeInv, AreRequests, IsRequest, Complete, ListComplete
<1>. QED
  BY <1>1, SearchesAreSound, PTL

\* What was hidden before a request began is in no answer, from the cache or not
\* (hydrateByIds).
THEOREM HiddenIsNotShown == A!Spec => []HiddenNotShown
<1>1. Inv => HiddenNotShown
  BY DEF Inv, TypeInv, AreRequests, IsRequest, HiddenNotShown
<1>. QED
  BY <1>1, SearchesAreSound, PTL

\* The count by which a row is paged is the count by which its list was cut, unless
\* searches of the query overlapped (AiCacheService.set).
THEOREM RowsAreOneSearch == A!Spec => []RowIsOneSearch
<1>1. Inv => RowIsOneSearch
  BY DEF Inv, TypeInv, AreRows, RowInv, WritesRow, Writes, OneSearch, RowIsOneSearch
<1>. QED
  BY <1>1, SearchesAreSound, PTL
================================================================================
