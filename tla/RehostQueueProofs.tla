-------------------------- MODULE RehostQueueProofs --------------------------
(***************************************************************************)
(* Proofs about RehostQueue, for any number of venues, processes, workers, *)
(* requests and faults: what a queue and its workers have is had once, no  *)
(* image is forgotten, and edits survive.                                  *)
(***************************************************************************)
EXTENDS RehostQueue, FiniteSetTheorems, SequenceTheorems, WellFoundedInduction, TLAPS

-----------------------------------------------------------------------------
(* Ranks, and what they select.                                            *)

LEMMA RankMoves ==
    ASSUME NEW S \in SUBSET Nat, IsFiniteSet(S), NEW i \in S, NEW j \in S, i < j
    PROVE  Rank(i, S) < Rank(j, S)
<1> DEFINE I == {k \in S : k <= i}
           J == {k \in S : k <= j}
<1>1. IsFiniteSet(J) /\ I \in SUBSET J /\ j \in J /\ j \notin I
  <2>1. J \in SUBSET S
    OBVIOUS
  <2>2. \A k \in S : k <= i => k <= j
    OBVIOUS
  <2>3. I \in SUBSET J
    BY <2>2
  <2>4. j \in J /\ j \notin I
    OBVIOUS
  <2>. QED
    BY <2>1, <2>3, <2>4, FS_Subset
<1>2. IsFiniteSet(I) /\ Cardinality(I) <= Cardinality(J) /\ Cardinality(I) # Cardinality(J)
  <2> HIDE DEF I, J
  <2>. QED
    BY <1>1, FS_Subset
<1>3. Cardinality(I) \in Nat /\ Cardinality(J) \in Nat
  BY <1>1, <1>2, FS_CardinalityType
<1>. QED
  BY <1>2, <1>3 DEF Rank

LEMMA RankRange ==
    ASSUME NEW S \in SUBSET Nat, IsFiniteSet(S), NEW i \in S
    PROVE  Rank(i, S) \in 1..Cardinality(S)
<1> DEFINE I == {k \in S : k <= i}
<1>1. IsFiniteSet(I) /\ Cardinality(I) <= Cardinality(S) /\ i \in I
  BY FS_Subset
<1>2. Cardinality(I) \in Nat /\ Cardinality(I) # 0 /\ Cardinality(S) \in Nat
  BY <1>1, FS_CardinalityType, FS_EmptySet
<1>. QED
  BY <1>1, <1>2 DEF Rank

LEMMA RankInjective ==
    ASSUME NEW S \in SUBSET Nat, IsFiniteSet(S), NEW i \in S, NEW j \in S,
           Rank(i, S) = Rank(j, S)
    PROVE  i = j
<1>1. ~(i < j) /\ ~(j < i)
  BY RankMoves, RankRange
<1>. QED
  BY <1>1

\* The numbers of a finite set are counted through, from the first to the last.
LEMMA RankOnto ==
    ASSUME NEW S \in SUBSET Nat, IsFiniteSet(S), NEW n \in 1..Cardinality(S)
    PROVE  \E i \in S : Rank(i, S) = n
<1> DEFINE T == 1..Cardinality(S)
           f == [i \in S |-> Rank(i, S)]
<1>1. Cardinality(S) \in Nat /\ IsFiniteSet(T) /\ Cardinality(T) = Cardinality(S)
  <2>1. Cardinality(S) \in Nat
    BY FS_CardinalityType
  <2>. QED
    BY <2>1, FS_Interval
<1>2. f \in Injection(S, T)
  <2>1. f \in [S -> T]
    BY RankRange
  <2>2. IsInjective(f)
    BY RankInjective DEF IsInjective
  <2>. QED
    BY <2>1, <2>2 DEF Injection
<1>3. f \in Surjection(S, T)
  <2> HIDE DEF f, T
  <2>. QED
    BY <1>1, <1>2, FS_Injection
<1>. QED
  BY <1>3 DEF Surjection

At(seq, set) == {i \in DOMAIN seq : seq[i] \in set}

LEMMA Places ==
    ASSUME NEW S, NEW seq \in Seq(S), NEW set
    PROVE  /\ At(seq, set) \in SUBSET Nat /\ IsFiniteSet(At(seq, set))
           /\ Cardinality(At(seq, set)) \in Nat
<1>1. Len(seq) \in Nat /\ DOMAIN seq = 1..Len(seq)
  BY LenProperties
<1>2. IsFiniteSet(1..Len(seq))
  BY <1>1, FS_Interval
<1>3. At(seq, set) \in SUBSET (1..Len(seq))
  BY <1>1 DEF At
<1>4. IsFiniteSet(At(seq, set))
  BY <1>2, <1>3, FS_Subset
<1>. QED
  BY <1>1, <1>3, <1>4, FS_CardinalityType

\* What Select takes at a place is of the sequence, and no place is taken twice.
Taken(seq, set, n) == CHOOSE i \in At(seq, set) : Rank(i, At(seq, set)) = n

LEMMA TakenIs ==
    ASSUME NEW S, NEW seq \in Seq(S), NEW set, NEW n \in 1..Cardinality(At(seq, set))
    PROVE  /\ Taken(seq, set, n) \in At(seq, set)
           /\ Rank(Taken(seq, set, n), At(seq, set)) = n
<1>1. \E i \in At(seq, set) : Rank(i, At(seq, set)) = n
  BY Places, RankOnto
<1>. QED
  BY <1>1 DEF Taken

LEMMA SelectIs ==
    ASSUME NEW S, NEW seq \in Seq(S), NEW set
    PROVE  /\ DOMAIN Select(seq, set) = 1..Cardinality(At(seq, set))
           /\ \A n \in DOMAIN Select(seq, set) :
                /\ Taken(seq, set, n) \in DOMAIN seq
                /\ Select(seq, set)[n] = seq[Taken(seq, set, n)]
                /\ Select(seq, set)[n] \in set
           /\ Select(seq, set) \in Seq(S)
<1>1. /\ DOMAIN Select(seq, set) = 1..Cardinality(At(seq, set))
      /\ \A n \in DOMAIN Select(seq, set) : Select(seq, set)[n] = seq[Taken(seq, set, n)]
  BY DEF Select, Pick, Taken, At
<1>2. \A n \in 1..Cardinality(At(seq, set)) :
        Taken(seq, set, n) \in DOMAIN seq /\ seq[Taken(seq, set, n)] \in set
  BY TakenIs DEF At
<1>3. \A n \in 1..Cardinality(At(seq, set)) : seq[Taken(seq, set, n)] \in S
  BY <1>2, LenProperties, ElementOfSeq
<1>4. Cardinality(At(seq, set)) \in Nat
  BY Places
<1>5. Select(seq, set) \in [1..Cardinality(At(seq, set)) -> S]
  BY <1>3 DEF Select, Pick, Taken, At
<1>. QED
  BY <1>1, <1>2, <1>4, <1>5, SeqDef

\* Select drops what is not of the set, and nothing else.
LEMMA SelectLists ==
    ASSUME NEW S, NEW seq \in Seq(S), NEW set, NEW u
    PROVE  Listed(Select(seq, set), u) <=> Listed(seq, u) /\ u \in set
<1>1. ASSUME Listed(Select(seq, set), u) PROVE Listed(seq, u) /\ u \in set
  BY <1>1, SelectIs DEF Listed
<1>2. ASSUME NEW i \in DOMAIN seq, seq[i] = u, u \in set PROVE Listed(Select(seq, set), u)
  <2> DEFINE at == At(seq, set)
             n == Rank(i, at)
  <2>1. i \in at
    BY <1>2 DEF At
  <2>2. at \in SUBSET Nat /\ IsFiniteSet(at)
    BY Places
  <2>3. n \in 1..Cardinality(at)
    BY <2>1, <2>2, RankRange
  <2>4. Taken(seq, set, n) \in at /\ Rank(Taken(seq, set, n), at) = n
    BY <2>3, TakenIs
  <2>5. Taken(seq, set, n) = i
    BY <2>1, <2>2, <2>4, RankInjective
  <2>6. n \in DOMAIN Select(seq, set) /\ Select(seq, set)[n] = u
    <3> HIDE DEF n, at
    <3>1. n \in DOMAIN Select(seq, set)
      BY <2>3, SelectIs DEF at
    <3>. QED
      BY <1>2, <2>5, <3>1, SelectIs
  <2>. QED
    BY <2>6 DEF Listed
<1>. QED
  BY <1>1, <1>2 DEF Listed

LEMMA SelectInjective ==
    ASSUME NEW S, NEW seq \in Seq(S), NEW set, IsInjective(seq)
    PROVE  IsInjective(Select(seq, set))
<1>1. SUFFICES ASSUME NEW m \in DOMAIN Select(seq, set), NEW n \in DOMAIN Select(seq, set),
                      Select(seq, set)[m] = Select(seq, set)[n]
               PROVE  m = n
  BY DEF IsInjective
<1>2. Taken(seq, set, m) = Taken(seq, set, n)
  BY <1>1, SelectIs DEF IsInjective
<1>3. m \in 1..Cardinality(At(seq, set)) /\ n \in 1..Cardinality(At(seq, set))
  BY SelectIs
<1>4. Rank(Taken(seq, set, m), At(seq, set)) = m /\ Rank(Taken(seq, set, n), At(seq, set)) = n
  BY <1>3, TakenIs
<1>. QED
  BY <1>2, <1>4

\* Of two sequences of different things, the one after the other lists each once.
LEMMA ConcatLists ==
    ASSUME NEW S, NEW s \in Seq(S), NEW t \in Seq(S)
    PROVE  /\ s \o t \in Seq(S)
           /\ \A u : Listed(s \o t, u) <=> Listed(s, u) \/ Listed(t, u)
           /\ IsInjective(s) /\ IsInjective(t) /\ (\A u : ~(Listed(s, u) /\ Listed(t, u)))
              => IsInjective(s \o t)
<1>1. /\ s \o t \in Seq(S) /\ DOMAIN (s \o t) = 1..(Len(s) + Len(t))
      /\ Len(s) \in Nat /\ Len(t) \in Nat
      /\ DOMAIN s = 1..Len(s) /\ DOMAIN t = 1..Len(t)
      /\ \A i \in 1..(Len(s) + Len(t)) :
           (s \o t)[i] = IF i <= Len(s) THEN s[i] ELSE t[i - Len(s)]
  BY ConcatProperties, LenProperties
<1>2. \A u : Listed(s, u) => Listed(s \o t, u)
  BY <1>1 DEF Listed
<1>3. ASSUME NEW i \in DOMAIN t PROVE Listed(s \o t, t[i])
  <2>1. i + Len(s) \in DOMAIN (s \o t) /\ (s \o t)[i + Len(s)] = t[i]
    BY <1>1
  <2>. QED
    BY <2>1 DEF Listed
<1>4. \A i \in DOMAIN (s \o t) : \/ i \in DOMAIN s /\ (s \o t)[i] = s[i]
                                 \/ i > Len(s) /\ i - Len(s) \in DOMAIN t /\ (s \o t)[i] = t[i - Len(s)]
  BY <1>1
<1>5. \A u : Listed(s \o t, u) <=> Listed(s, u) \/ Listed(t, u)
  BY <1>2, <1>3, <1>4 DEF Listed
<1>6. ASSUME IsInjective(s), IsInjective(t), \A u : ~(Listed(s, u) /\ Listed(t, u)),
             NEW i \in DOMAIN (s \o t), NEW j \in DOMAIN (s \o t), (s \o t)[i] = (s \o t)[j]
      PROVE  i = j
  <2>1. CASE i \in DOMAIN s /\ (s \o t)[i] = s[i] /\ j \in DOMAIN s /\ (s \o t)[j] = s[j]
    BY <1>6, <2>1 DEF IsInjective
  <2>2. CASE /\ i > Len(s) /\ i - Len(s) \in DOMAIN t /\ (s \o t)[i] = t[i - Len(s)]
             /\ j > Len(s) /\ j - Len(s) \in DOMAIN t /\ (s \o t)[j] = t[j - Len(s)]
    <3>1. i - Len(s) = j - Len(s)
      BY <1>6, <2>2 DEF IsInjective
    <3>. QED
      BY <1>1, <3>1
  <2>. QED
    BY <1>4, <1>6, <2>1, <2>2 DEF Listed
<1>. QED
  BY <1>1, <1>5, <1>6 DEF IsInjective

-----------------------------------------------------------------------------
(* Types.                                                                  *)

\* A worker with a venue, and a request on its way.
AtWork ==
    {w \in [pc : {"read", "ingest", "reload", "save", "done"}, venue : Venues, row : Row,
            url : Urls \cup {None}, copied : BOOLEAN] :
       w.pc \in {"ingest", "reload", "save"} => w.url \in Urls}

Asked == [pc : {"loaded", "saved"}, kind : {"create", "update", "other", "retry", "delete"},
          venue : Venues, row : Row, proc : Procs, feeds : BOOLEAN,
          list : Edits \cup {<<>>}]

Typed ==
    /\ rows \in [Venues -> Row \cup {None}]
    /\ queue \in [Procs -> Seq(Venues)]
    /\ worker \in [Procs -> [Slots -> AtWork \cup {Resting}]]
    /\ request \in [Requests -> Asked \cup {NoRequest}]
    /\ wanted \in [Venues -> Edits \cup {<<>>}]

LEMMA RestingIs == Resting \notin AtWork /\ Resting.venue = None /\ Resting.pc = "idle"
BY DEF Resting, AtWork

LEMMA NoRequestIs == NoRequest \notin Asked /\ NoRequest.pc = "idle"
BY DEF NoRequest, Asked

LEMMA NoRowIs == NoRow \in Row
<1>1. <<>> \in Seq(Image) /\ <<>> \in Seq(Urls)
  BY EmptySeq
<1>. QED
  BY <1>1 DEF NoRow, Row

LEMMA StartIs ==
    ASSUME NEW v \in Venues
    PROVE  Start(v) \in AtWork /\ Start(v).venue = v /\ Start(v).pc = "read"
BY NoRowIs DEF Start, Resting, AtWork

LEMMA EditIs == \A list \in Edits \cup {<<>>} : list \in Seq(Urls)
BY EmptySeq, RehostAssumption DEF RehostAssumption

LEMMA RowIs ==
    ASSUME NEW row \in Row
    PROVE  /\ row.images \in Seq(Image) /\ row.pending \in Seq(Urls)
           /\ row.failed \in Seq(Urls) /\ row.deleted \in BOOLEAN
BY DEF Row

LEMMA LiveRow == ASSUME Typed, NEW v \in Venues, Live(v) PROVE rows[v] \in Row
BY DEF Typed, Live

LEMMA ImageIs == \A u \in Urls : External(u) \in Image /\ Copy(u) \in Image
BY DEF External, Copy, Image

-----------------------------------------------------------------------------
(* What the steps of a worker make of a row.                               *)

UrlsOf(images) == [i \in DOMAIN images |-> images[i].url]

LEMMA NatMin == ASSUME NEW T \in SUBSET Nat, T # {} PROVE \E m \in T : \A n \in T : m <= n
<1> DEFINE Below(n) == {k \in Nat : k < n}
           F == {Below(n) : n \in T}
<1>1. \A n \in Nat : IsFiniteSet(Below(n))
  <2> TAKE n \in Nat
  <2>1. Below(n) \in SUBSET Nat /\ \A k \in Below(n) : k <= n
    OBVIOUS
  <2>. QED
    BY <2>1, FS_BoundedSetOfNaturals
<1>2. F \subseteq FiniteSubsetsOf(Nat) /\ F # {}
  BY <1>1 DEF FiniteSubsetsOf
<1>3. PICK x \in F : \A y \in F : ~(<<y, x>> \in StrictSubsetOrdering(Nat))
  BY <1>2, FS_StrictSubsetOrderingWellFounded, WFMin
<1>4. PICK m \in T : x = Below(m)
  BY <1>3
<1>5. ASSUME NEW n \in T, n < m PROVE FALSE
  <2>1. Below(n) \in F /\ Below(n) \in SUBSET Nat /\ Below(m) \in SUBSET Nat
    OBVIOUS
  <2>2. Below(n) \subseteq Below(m) /\ n \in Below(m) /\ n \notin Below(n)
    BY <1>5
  <2>. QED
    BY <2>1, <2>2, <1>3, <1>4 DEF StrictSubsetOrdering
<1>. QED
  BY <1>5

LEMMA FirstIs ==
    ASSUME NEW images \in Seq(Image), NEW image, Listed(images, image)
    PROVE  LET i == SelectInSeq(images, LAMBDA x : x = image)
           IN i \in DOMAIN images /\ images[i] = image
<1> DEFINE I == {i \in 1..Len(images) : images[i] = image}
<1>1. DOMAIN images = 1..Len(images)
  BY LenProperties
<1>2. I \in SUBSET Nat /\ I # {}
  BY <1>1 DEF Listed
<1>3. \E m \in I : \A n \in I : m <= n
  BY <1>2, NatMin
<1>4. Min(I) \in I
  BY <1>3 DEF Min
<1>. QED
  BY <1>1, <1>2, <1>4 DEF SelectInSeq

\* A swap leaves every url at its place, and no more external images than there were.
LEMMA SwappedIs ==
    ASSUME NEW images \in Seq(Image), NEW u \in Urls
    PROVE  /\ Swapped(images, u) \in Seq(Image)
           /\ UrlsOf(Swapped(images, u)) = UrlsOf(images)
           /\ \A x \in Urls : Listed(Swapped(images, u), External(x)) =>
                Listed(images, External(x)) /\ (IsInjective(UrlsOf(images)) => x # u)
<1>1. CASE ~Listed(images, External(u))
  BY <1>1 DEF Swapped
<1>2. CASE Listed(images, External(u))
  <2> DEFINE i == SelectInSeq(images, LAMBDA x : x = External(u))
             new == [images EXCEPT ![i] = Copy(u)]
  <2>1. Swapped(images, u) = new
    BY <1>2 DEF Swapped
  <2>2. i \in DOMAIN images /\ images[i] = External(u)
    BY <1>2, FirstIs
  <2> HIDE DEF i
  <2>3. DOMAIN images = 1..Len(images) /\ Copy(u) \in Image
    BY LenProperties, ImageIs
  <2>4. new \in Seq(Image)
    BY <2>2, <2>3, ExceptSeq
  <2>5. /\ DOMAIN new = DOMAIN images /\ new[i] = Copy(u)
        /\ \A j \in DOMAIN images : j # i => new[j] = images[j]
    BY <2>2
  <2> HIDE DEF new
  <2>6. External(u).url = u /\ Copy(u).url = u /\ \A x : Copy(u) # External(x)
    BY DEF External, Copy
  <2>7. UrlsOf(new) = UrlsOf(images)
    BY <2>2, <2>5, <2>6 DEF UrlsOf
  <2>8. ASSUME NEW x \in Urls, NEW j \in DOMAIN new, new[j] = External(x)
        PROVE  Listed(images, External(x)) /\ (IsInjective(UrlsOf(images)) => x # u)
    <3>1. j # i /\ images[j] = External(x)
      BY <2>5, <2>6, <2>8
    <3>2. UrlsOf(images)[j] = x /\ UrlsOf(images)[i] = u
      BY <2>2, <2>5, <3>1 DEF UrlsOf, External
    <3>3. DOMAIN UrlsOf(images) = DOMAIN images
      BY DEF UrlsOf
    <3>. QED
      BY <2>2, <2>5, <3>1, <3>2, <3>3 DEF Listed, IsInjective
  <2>. QED
    BY <2>1, <2>4, <2>7, <2>8 DEF Listed
<1>. QED
  BY <1>1, <1>2

Tracked(row) ==
    \A u \in Urls :
        /\ Listed(row.images, External(u)) => Listed(row.pending, u) \/ Listed(row.failed, u)
        /\ ~(Listed(row.pending, u) /\ Listed(row.failed, u))

\* A row of which no url is forgotten; that takes an image of each url at most.
Good(row) == Tracked(row) /\ IsInjective(UrlsOf(row.images))

LEMMA AppendLists ==
    ASSUME NEW seq \in Seq(Urls), NEW u \in Urls
    PROVE  /\ Append(seq, u) \in Seq(Urls)
           /\ \A x : Listed(Append(seq, u), x) <=> Listed(seq, x) \/ x = u
<1> DEFINE new == Append(seq, u)
<1>1. /\ new \in Seq(Urls) /\ Len(new) = Len(seq) + 1 /\ Len(seq) \in Nat
      /\ \A i \in 1..Len(seq) : new[i] = seq[i]
      /\ new[Len(seq) + 1] = u
  BY AppendProperties, LenProperties
<1>2. DOMAIN new = 1..(Len(seq) + 1) /\ DOMAIN seq = 1..Len(seq)
  BY <1>1, LenProperties
<1> HIDE DEF new
<1>3. \A x : Listed(new, x) <=> Listed(seq, x) \/ x = u
  BY <1>1, <1>2 DEF Listed
<1>. QED
  BY <1>1, <1>3 DEF new

LEMMA AdvancedIs ==
    ASSUME NEW row \in Row, NEW u \in Urls, NEW copied \in BOOLEAN
    PROVE  /\ Advanced(row, u, copied) \in Row
           /\ UrlsOf(Advanced(row, u, copied).images) = UrlsOf(row.images)
           /\ Good(row) => Good(Advanced(row, u, copied))
<1> DEFINE pending == Select(row.pending, Urls \ {u})
           failed == IF Listed(row.failed, u) THEN row.failed ELSE Append(row.failed, u)
<1>1. /\ pending \in Seq(Urls)
      /\ \A x \in Urls : Listed(pending, x) <=> Listed(row.pending, x) /\ x # u
  BY RowIs, SelectIs, SelectLists
<1>2. /\ failed \in Seq(Urls)
      /\ \A x \in Urls : Listed(failed, x) <=> Listed(row.failed, x) \/ x = u
  BY RowIs, AppendLists
<1>3. /\ Swapped(row.images, u) \in Seq(Image)
      /\ UrlsOf(Swapped(row.images, u)) = UrlsOf(row.images)
      /\ \A x \in Urls : Listed(Swapped(row.images, u), External(x)) =>
           Listed(row.images, External(x)) /\ (IsInjective(UrlsOf(row.images)) => x # u)
  BY RowIs, SwappedIs
<1>4. CASE copied
  <2>1. Advanced(row, u, copied) = [row EXCEPT !.pending = pending,
                                               !.images = Swapped(row.images, u)]
    BY <1>4 DEF Advanced
  <2> HIDE DEF pending, failed
  <2>2. /\ Advanced(row, u, copied) \in Row
        /\ Advanced(row, u, copied).pending = pending
        /\ Advanced(row, u, copied).failed = row.failed
        /\ Advanced(row, u, copied).images = Swapped(row.images, u)
    BY <1>1, <1>3, <2>1 DEF Row
  <2>. QED
    BY <1>1, <1>3, <2>2 DEF Good, Tracked
<1>5. CASE ~copied
  <2>1. Advanced(row, u, copied) = [row EXCEPT !.pending = pending, !.failed = failed]
    BY <1>5 DEF Advanced
  <2> HIDE DEF pending, failed
  <2>2. /\ Advanced(row, u, copied) \in Row
        /\ Advanced(row, u, copied).pending = pending
        /\ Advanced(row, u, copied).failed = failed
        /\ Advanced(row, u, copied).images = row.images
    BY <1>1, <1>2, <2>1 DEF Row
  <2>. QED
    BY <1>1, <1>2, <2>2 DEF Good, Tracked
<1>. QED
  BY <1>4, <1>5

-----------------------------------------------------------------------------
(* What a request makes of a row.                                          *)

LEMMA ListedToSet == \A seq, u : u \in ToSet(seq) <=> Listed(seq, u)
BY DEF ToSet, Listed

LEMMA FilteredIs ==
    ASSUME NEW seq \in Seq(Urls), NEW other
    PROVE  /\ Kept(seq, other) \in Seq(Urls) /\ Fresh(seq, other) \in Seq(Urls)
           /\ \A u \in Urls : Listed(Kept(seq, other), u) <=> Listed(seq, u) /\ Listed(other, u)
           /\ \A u \in Urls : Listed(Fresh(seq, other), u) <=> Listed(seq, u) /\ ~Listed(other, u)
<1>1. /\ Select(seq, ToSet(other)) \in Seq(Urls)
      /\ \A u : Listed(Select(seq, ToSet(other)), u) <=> Listed(seq, u) /\ u \in ToSet(other)
  BY SelectIs, SelectLists
<1>2. /\ Select(seq, Urls \ ToSet(other)) \in Seq(Urls)
      /\ \A u : Listed(Select(seq, Urls \ ToSet(other)), u)
                <=> Listed(seq, u) /\ u \in Urls \ ToSet(other)
  BY SelectIs, SelectLists
<1>. QED
  BY <1>1, <1>2, ListedToSet DEF Kept, Fresh

NewRow(list) ==
    [NoRow EXCEPT !.images = [i \in DOMAIN list |-> External(list[i])], !.pending = list]

LEMMA NewRowIs ==
    ASSUME NEW list \in Seq(Urls)
    PROVE  /\ NewRow(list) \in Row /\ UrlsOf(NewRow(list).images) = list
           /\ IsInjective(list) => Good(NewRow(list))
<1> DEFINE images == [i \in DOMAIN list |-> External(list[i])]
<1>1. Len(list) \in Nat /\ DOMAIN list = 1..Len(list) /\ list \in [1..Len(list) -> Urls]
  BY LenProperties
<1>2. images \in Seq(Image)
  <2>1. images \in [1..Len(list) -> Image]
    BY <1>1, ImageIs
  <2>. QED
    BY <1>1, <2>1, SeqDef
<1>3. \A u : External(u).url = u
  BY DEF External
<1>4. UrlsOf(images) = list
  BY <1>1, <1>3 DEF UrlsOf
<1>5. \A u \in Urls : Listed(images, External(u)) => Listed(list, u)
  BY <1>3 DEF Listed
<1> HIDE DEF images
<1>6. /\ NewRow(list) \in Row /\ NewRow(list).images = images
      /\ NewRow(list).pending = list /\ NewRow(list).failed = <<>>
  BY <1>2, NoRowIs DEF NewRow, images, Row, NoRow
<1>7. \A u : ~Listed(<<>>, u)
  BY DEF Listed
<1>. QED
  BY <1>4, <1>5, <1>6, <1>7 DEF Good, Tracked

Edited(row, list, kept) ==
    EditedStatus([row EXCEPT !.images = [i \in DOMAIN list |->
                                          [url |-> list[i], own |-> list[i] \in kept]]],
                 Select(list, Urls \ kept))

LEMMA EditedIs ==
    ASSUME NEW row \in Row, NEW list \in Seq(Urls), NEW kept
    PROVE  /\ Edited(row, list, kept) \in Row
           /\ UrlsOf(Edited(row, list, kept).images) = list
           /\ Tracked(row) /\ IsInjective(list) => Good(Edited(row, list, kept))
<1> DEFINE images == [i \in DOMAIN list |-> [url |-> list[i], own |-> list[i] \in kept]]
           external == Select(list, Urls \ kept)
           pending == Kept(row.pending, external)
           failed == Kept(row.failed, external)
           fresh == Fresh(Fresh(external, pending), failed)
<1>1. Len(list) \in Nat /\ DOMAIN list = 1..Len(list) /\ list \in [1..Len(list) -> Urls]
  BY LenProperties
<1>2. images \in Seq(Image)
  <2>1. images \in [1..Len(list) -> Image]
    BY <1>1 DEF Image
  <2>. QED
    BY <1>1, <2>1, SeqDef
<1>3. UrlsOf(images) = list
  BY <1>1 DEF UrlsOf
<1>4. /\ external \in Seq(Urls)
      /\ \A u \in Urls : Listed(external, u) <=> Listed(list, u) /\ u \notin kept
  BY SelectIs, SelectLists
<1>5. ASSUME NEW u \in Urls, Listed(images, External(u)) PROVE Listed(external, u)
  <2>1. PICK i \in DOMAIN list : images[i] = External(u)
    BY <1>5 DEF Listed
  <2>2. list[i] = u /\ u \notin kept
    BY <2>1 DEF External
  <2>. QED
    BY <1>4, <2>2 DEF Listed
<1> HIDE DEF images, external
<1>6. /\ pending \in Seq(Urls) /\ failed \in Seq(Urls)
      /\ \A u \in Urls : Listed(pending, u) <=> Listed(row.pending, u) /\ Listed(external, u)
      /\ \A u \in Urls : Listed(failed, u) <=> Listed(row.failed, u) /\ Listed(external, u)
  BY FilteredIs, RowIs
<1> HIDE DEF pending, failed
<1>7. /\ fresh \in Seq(Urls)
      /\ \A u \in Urls : Listed(fresh, u) <=>
           Listed(external, u) /\ ~Listed(pending, u) /\ ~Listed(failed, u)
  BY <1>4, FilteredIs
<1> HIDE DEF fresh
<1>8. /\ pending \o fresh \in Seq(Urls)
      /\ \A u : Listed(pending \o fresh, u) <=> Listed(pending, u) \/ Listed(fresh, u)
  BY <1>6, <1>7, ConcatLists
<1>9. Edited(row, list, kept) = [row EXCEPT !.images = images, !.pending = pending \o fresh,
                                            !.failed = failed]
  BY DEF Edited, EditedStatus, Row, images, external, pending, failed, fresh
<1>10. /\ Edited(row, list, kept) \in Row /\ Edited(row, list, kept).images = images
       /\ Edited(row, list, kept).pending = pending \o fresh
       /\ Edited(row, list, kept).failed = failed
  BY <1>2, <1>6, <1>8, <1>9 DEF Row
<1>. QED
  BY <1>3, <1>5, <1>6, <1>7, <1>8, <1>10 DEF Good, Tracked

Retried(row) == [row EXCEPT !.pending = @ \o Fresh(row.failed, @), !.failed = <<>>]

LEMMA RetriedIs ==
    ASSUME NEW row \in Row
    PROVE  /\ Retried(row) \in Row /\ Retried(row).images = row.images
           /\ Good(row) => Good(Retried(row))
<1> DEFINE fresh == Fresh(row.failed, row.pending)
<1>1. /\ row.pending \in Seq(Urls) /\ row.failed \in Seq(Urls) /\ <<>> \in Seq(Urls)
      /\ \A u : ~Listed(<<>>, u)
  BY RowIs, EmptySeq DEF Listed
<1>2. /\ fresh \in Seq(Urls)
      /\ \A u \in Urls : Listed(fresh, u) <=> Listed(row.failed, u) /\ ~Listed(row.pending, u)
  BY <1>1, FilteredIs
<1> HIDE DEF fresh
<1>3. /\ row.pending \o fresh \in Seq(Urls)
      /\ \A u : Listed(row.pending \o fresh, u) <=> Listed(row.pending, u) \/ Listed(fresh, u)
  BY <1>1, <1>2, ConcatLists
<1>4. /\ Retried(row) \in Row /\ Retried(row).images = row.images
      /\ Retried(row).pending = row.pending \o fresh /\ Retried(row).failed = <<>>
  BY <1>1, <1>3 DEF Retried, Row, fresh
<1>. QED
  BY <1>1, <1>2, <1>3, <1>4 DEF Good, Tracked

-----------------------------------------------------------------------------
(* The queue of a process.                                                 *)

\* Every venue waits once, or one worker has it.
Once(waiting, workers) ==
    /\ IsInjective(waiting)
    /\ \A k \in Slots : workers[k] # Resting => ~Listed(waiting, workers[k].venue)
    /\ \A j, k \in Slots :
         workers[j] # Resting /\ workers[j].venue = workers[k].venue => j = k

LEMMA SlotsFinite == Slots \in SUBSET Nat /\ IsFiniteSet(Slots)
<1>1. Concurrency \in Int
  BY RehostAssumption DEF RehostAssumption
<1>2. IsFiniteSet(1..Concurrency)
  BY <1>1, FS_Interval
<1>. QED
  BY <1>1, <1>2 DEF Slots

\* The venues that are started are the first of those that wait, each by one worker.
LEMMA PumpIs ==
    ASSUME Typed, NEW p \in Procs, NEW waiting \in Seq(Venues),
           NEW workers \in [Slots -> AtWork \cup {Resting}], Pump(p, waiting, workers)
    PROVE  /\ queue' \in [Procs -> Seq(Venues)]
           /\ worker' \in [Procs -> [Slots -> AtWork \cup {Resting}]]
           /\ \A q \in Procs : q # p => queue'[q] = queue[q] /\ worker'[q] = worker[q]
           /\ \A k \in Slots : \/ worker'[p][k] = workers[k]
                               \/ \E v \in Venues : worker'[p][k] = Start(v)
           /\ Once(waiting, workers) => Once(queue'[p], worker'[p])
<1> DEFINE free == {k \in Slots : workers[k] = Resting /\ up[p] # "stopping"}
           n == Cardinality(free)
           rest == SubSeq(waiting, n + 1, Len(waiting))
           next == [k \in Slots |-> IF k \in free /\ Rank(k, free) <= Len(waiting)
                                    THEN Start(waiting[Rank(k, free)]) ELSE workers[k]]
<1>1. free \in SUBSET Nat /\ IsFiniteSet(free) /\ free \subseteq Slots
  <2>1. free \in SUBSET Slots
    OBVIOUS
  <2>. QED
    BY <2>1, SlotsFinite, FS_Subset
<1>2. n \in Nat
  BY <1>1, FS_CardinalityType
<1>3. queue' = [queue EXCEPT ![p] = rest] /\ worker' = [worker EXCEPT ![p] = next]
  BY DEF Pump
<1>4. Len(waiting) \in Nat /\ DOMAIN waiting = 1..Len(waiting)
      /\ waiting \in [1..Len(waiting) -> Venues]
  BY LenProperties
<1>5. /\ rest \in Seq(Venues) /\ Len(rest) = (IF n + 1 <= Len(waiting) THEN Len(waiting) - n ELSE 0)
      /\ \A i \in 1..(Len(waiting) - n) : rest[i] = waiting[n + i]
  <2>1. \A i \in (n + 1)..Len(waiting) : waiting[i] \in Venues
    BY <1>2, <1>4
  <2>2. n + 1 \in Int /\ Len(waiting) \in Int
    BY <1>2, <1>4
  <2> HIDE DEF n
  <2>3. /\ rest \in Seq(Venues)
        /\ Len(rest) = IF n + 1 <= Len(waiting) THEN Len(waiting) - (n + 1) + 1 ELSE 0
        /\ \A i \in 1..(Len(waiting) - (n + 1) + 1) : rest[i] = waiting[(n + 1) + i - 1]
    BY <2>1, <2>2, SubSeqProperties
  <2>4. n \in Nat
    BY <1>2 DEF n
  <2> HIDE DEF rest
  <2>. QED
    <3> DEFINE len == Len(waiting)
    <3>1. len \in Nat
      BY <1>4
    <3> HIDE DEF len
    <3>2. Len(rest) = IF n + 1 <= len THEN len - n ELSE 0
      BY <2>3, <2>4, <3>1 DEF len
    <3>3. ASSUME NEW i \in 1..(len - n) PROVE rest[i] = waiting[n + i]
      <4>1. i \in 1..(len - (n + 1) + 1) /\ (n + 1) + i - 1 = n + i
        BY <2>4, <3>1
      <4>. QED
        BY <2>3, <4>1 DEF len
    <3>. QED
      BY <2>3, <3>2, <3>3 DEF len
<1>6. \A i \in DOMAIN rest : /\ n + i \in DOMAIN waiting /\ rest[i] = waiting[n + i]
                             /\ n + i > n /\ i \in Nat
  <2>1. DOMAIN rest = 1..Len(rest)
    BY <1>5, LenProperties
  <2> HIDE DEF n, rest
  <2>2. n \in Nat
    BY <1>2 DEF n
  <2>. QED
    <3>1. ASSUME NEW i \in DOMAIN rest
          PROVE  i \in Nat /\ i >= 1 /\ i <= Len(waiting) - n /\ n + i > n /\ n + i \in 1..Len(waiting)
      <4> DEFINE len == Len(waiting)
      <4>1. len \in Nat /\ i \in 1..Len(rest) /\ Len(rest) = IF n + 1 <= len THEN len - n ELSE 0
        BY <1>4, <1>5, <2>1
      <4> HIDE DEF len
      <4>2. i \in 1..(len - n)
        BY <2>2, <4>1
      <4>3. i \in Nat /\ i >= 1 /\ i <= len - n /\ n + i > n /\ n + i \in 1..len
        BY <2>2, <4>1, <4>2
      <4>. QED
        BY <4>3 DEF len
    <3>2. ASSUME NEW i \in DOMAIN rest PROVE rest[i] = waiting[n + i]
      <4>1. i \in 1..(Len(waiting) - n)
        BY <1>4, <2>2, <3>1
      <4>. QED
        BY <1>5, <4>1
    <3>. QED
      BY <1>4, <3>1, <3>2
<1>7. \A k \in free : Rank(k, free) \in 1..n
  BY <1>1, RankRange
<1>8. \A j, k \in free : Rank(j, free) = Rank(k, free) => j = k
  BY <1>1, RankInjective
<1> HIDE DEF n, rest
<1>9. ASSUME NEW k \in Slots
      PROVE  \/ /\ k \in free /\ Rank(k, free) \in DOMAIN waiting /\ Rank(k, free) \in 1..n
                /\ next[k] = Start(waiting[Rank(k, free)])
             \/ next[k] = workers[k]
  <2>1. CASE k \in free /\ Rank(k, free) <= Len(waiting)
    <3>1. Rank(k, free) \in DOMAIN waiting
      BY <1>2, <1>4, <1>7, <2>1
    <3>. QED
      BY <1>7, <2>1, <3>1
  <2>2. CASE ~(k \in free /\ Rank(k, free) <= Len(waiting))
    BY <2>2
  <2>. QED
    BY <2>1, <2>2
<1>10. \A k \in Slots : next[k] = workers[k] \/ \E v \in Venues : next[k] = Start(v)
  BY <1>4, <1>9
<1>11. next \in [Slots -> AtWork \cup {Resting}]
  <2>1. \A k \in Slots : next[k] \in AtWork \cup {Resting}
    BY <1>10, StartIs
  <2>. QED
    BY <2>1
<1>12. ASSUME Once(waiting, workers) PROVE Once(rest, next)
  <2>1. IsInjective(rest)
    BY <1>2, <1>6, <1>12 DEF Once, IsInjective
  <2>2. \A u : Listed(rest, u) => Listed(waiting, u)
    BY <1>6 DEF Listed
  <2>3. ASSUME NEW k \in Slots, next[k] # Resting PROVE ~Listed(rest, next[k].venue)
    <3>1. CASE next[k] = workers[k]
      BY <1>12, <2>2, <2>3, <3>1 DEF Once
    <3>2. CASE /\ k \in free /\ Rank(k, free) \in DOMAIN waiting /\ Rank(k, free) \in 1..n
               /\ next[k] = Start(waiting[Rank(k, free)])
      <4>1. next[k].venue = waiting[Rank(k, free)]
        BY <1>4, <3>2, StartIs
      <4>2. ASSUME NEW i \in DOMAIN rest, rest[i] = next[k].venue PROVE FALSE
        <5>1. n + i = Rank(k, free)
          BY <1>6, <1>12, <3>2, <4>1, <4>2 DEF Once, IsInjective
        <5>. QED
          BY <1>2, <1>6, <3>2, <5>1
      <4>. QED
        BY <4>2 DEF Listed
    <3>. QED
      BY <1>9, <3>1, <3>2
  <2>4. ASSUME NEW j \in Slots, NEW k \in Slots, next[j] # Resting, next[j].venue = next[k].venue
        PROVE  j = k
    <3>1. workers[j] \in AtWork \cup {Resting} /\ workers[k] \in AtWork \cup {Resting}
      OBVIOUS
    <3>2. next[j] \in AtWork
      BY <1>11, <2>4
    <3>3. next[k] # Resting
      BY <2>4, <3>2, RehostAssumption, RestingIs DEF RehostAssumption, AtWork
    <3>4. CASE next[j] = workers[j] /\ next[k] = workers[k]
      BY <1>12, <2>4, <3>4 DEF Once
    <3>5. CASE /\ j \in free /\ Rank(j, free) \in DOMAIN waiting
               /\ next[j] = Start(waiting[Rank(j, free)]) /\ next[k] = workers[k]
      <4>1. next[j].venue = waiting[Rank(j, free)]
        BY <1>4, <3>5, StartIs
      <4>2. Listed(waiting, workers[k].venue)
        BY <2>4, <3>5, <4>1 DEF Listed
      <4>. QED
        BY <1>12, <3>3, <3>5, <4>2 DEF Once
    <3>6. CASE /\ k \in free /\ Rank(k, free) \in DOMAIN waiting
               /\ next[k] = Start(waiting[Rank(k, free)]) /\ next[j] = workers[j]
      <4>1. next[k].venue = waiting[Rank(k, free)]
        BY <1>4, <3>6, StartIs
      <4>2. Listed(waiting, workers[j].venue)
        BY <2>4, <3>6, <4>1 DEF Listed
      <4>. QED
        BY <1>12, <2>4, <3>6, <4>2 DEF Once
    <3>7. CASE /\ j \in free /\ Rank(j, free) \in DOMAIN waiting
               /\ next[j] = Start(waiting[Rank(j, free)])
               /\ k \in free /\ Rank(k, free) \in DOMAIN waiting
               /\ next[k] = Start(waiting[Rank(k, free)])
      <4>1. waiting[Rank(j, free)] = waiting[Rank(k, free)]
        BY <1>4, <2>4, <3>7, StartIs
      <4>2. Rank(j, free) = Rank(k, free)
        BY <1>12, <3>7, <4>1 DEF Once, IsInjective
      <4>. QED
        BY <1>8, <3>7, <4>2
    <3>. QED
      BY <1>9, <3>4, <3>5, <3>6, <3>7
  <2>. QED
    BY <2>1, <2>3, <2>4 DEF Once
<1> HIDE DEF next
<1>13. /\ queue' \in [Procs -> Seq(Venues)] /\ queue'[p] = rest
       /\ worker' \in [Procs -> [Slots -> AtWork \cup {Resting}]] /\ worker'[p] = next
       /\ \A q \in Procs : q # p => queue'[q] = queue[q] /\ worker'[q] = worker[q]
  BY <1>3, <1>5, <1>11 DEF Typed
<1>. QED
  BY <1>10, <1>12, <1>13

LEMMA EnqueueIs ==
    ASSUME Typed, NEW p \in Procs, NEW arrivals \in Seq(Venues), IsInjective(arrivals),
           Enqueue(p, arrivals)
    PROVE  /\ queue' \in [Procs -> Seq(Venues)]
           /\ worker' \in [Procs -> [Slots -> AtWork \cup {Resting}]]
           /\ \A q \in Procs : q # p => queue'[q] = queue[q] /\ worker'[q] = worker[q]
           /\ \A k \in Slots : \/ worker'[p][k] = worker[p][k]
                               \/ \E v \in Venues : worker'[p][k] = Start(v)
           /\ Once(queue[p], worker[p]) => Once(queue'[p], worker'[p])
<1> DEFINE set == {v \in Venues : ~Listed(queue[p], v) /\ ~Working(p, v)}
           new == Select(arrivals, set)
           waiting == queue[p] \o new
<1>1. /\ new \in Seq(Venues) /\ IsInjective(new)
      /\ \A v : Listed(new, v) => v \in set
  BY SelectIs, SelectLists, SelectInjective
<1>2. queue[p] \in Seq(Venues) /\ worker[p] \in [Slots -> AtWork \cup {Resting}]
  BY DEF Typed
<1>3. Pump(p, waiting, worker[p])
  BY DEF Enqueue
<1> HIDE DEF new
<1>4. /\ waiting \in Seq(Venues)
      /\ \A u : Listed(waiting, u) <=> Listed(queue[p], u) \/ Listed(new, u)
      /\ IsInjective(queue[p]) => IsInjective(waiting)
  BY <1>1, <1>2, ConcatLists
<1> HIDE DEF waiting
<1>5. Once(queue[p], worker[p]) => Once(waiting, worker[p])
  <2>1. \A k \in Slots : ~Listed(new, worker[p][k].venue)
    BY <1>1 DEF Working
  <2>. QED
    BY <1>4, <2>1 DEF Once
<1>. QED
  BY <1>2, <1>3, <1>4, <1>5, PumpIs

-----------------------------------------------------------------------------
(* What each step does.                                                    *)

\* A request that changes a row has found it.
FoundIt == \A r \in Requests :
    request[r].pc = "loaded" /\ request[r].kind # "create" => rows[request[r].venue] \in Row

\* A worker goes on with its venue.
Onward(p, k, next) ==
    /\ worker[p][k] \in AtWork /\ next \in AtWork /\ next.venue = worker[p][k].venue
    /\ worker' \in [Procs -> [Slots -> AtWork \cup {Resting}]]
    /\ worker'[p][k] = next
    /\ \A j \in Slots : j # k => worker'[p][j] = worker[p][j]
    /\ \A q \in Procs : q # p => worker'[q] = worker[q]

LEMMA OnwardIs ==
    ASSUME Typed, NEW p \in Procs, NEW k \in Slots, NEW next \in AtWork,
           worker[p][k] \in AtWork, next.venue = worker[p][k].venue,
           worker' = [worker EXCEPT ![p][k] = next]
    PROVE  Onward(p, k, next)
<1>1. worker \in [Procs -> [Slots -> AtWork \cup {Resting}]]
  BY DEF Typed
<1>. QED
  BY <1>1 DEF Onward

LEMMA OnwardOnce ==
    ASSUME Typed, NEW p \in Procs, NEW k \in Slots, NEW next, Onward(p, k, next), queue' = queue,
           WorkedOnce
    PROVE  WorkedOnce'
<1>1. ASSUME NEW q \in Procs PROVE Once(queue'[q], worker'[q])
  <2>1. CASE q # p
    BY <2>1 DEF Onward, WorkedOnce, Once
  <2>2. CASE q = p
    <3>1. next # Resting /\ worker[p][k] # Resting
      BY RestingIs DEF Onward
    <3>. QED
      BY <2>2, <3>1 DEF Onward, WorkedOnce, Once
  <2>. QED
    BY <2>1, <2>2
<1>. QED
  BY <1>1 DEF WorkedOnce, Once

LEMMA AtWorkIs ==
    ASSUME Typed, NEW p \in Procs, NEW k \in Slots, worker[p][k].pc # "idle"
    PROVE  /\ worker[p][k] \in AtWork
           /\ worker[p][k].pc \in {"ingest", "reload", "save"} => worker[p][k].url \in Urls
           /\ worker[p][k].venue \in Venues /\ worker[p][k].row \in Row
           /\ worker[p][k].copied \in BOOLEAN
BY RestingIs DEF Typed, AtWork

LEMMA ReadMoves ==
    ASSUME Typed, NEW p \in Procs, NEW k \in Slots, WorkerRead(p, k)
    PROVE  \E next \in AtWork : /\ Onward(p, k, next) /\ next.row = worker[p][k].row
                                /\ next.pc # "save"
                                /\ UNCHANGED <<rows, queue, up, dropped, request, wanted>>
<1> DEFINE ends == [worker[p][k] EXCEPT !.pc = "done"]
           goes == [worker[p][k] EXCEPT !.pc = "ingest",
                                        !.url = Head(rows[worker[p][k].venue].pending)]
           v == worker[p][k].venue
<1>1. worker[p][k] \in AtWork /\ v \in Venues
  BY AtWorkIs DEF WorkerRead
<1>2. ends \in AtWork /\ ends.row = worker[p][k].row /\ ends.venue = v /\ ends.pc = "done"
  BY <1>1 DEF AtWork
<1>3. CASE worker' = [worker EXCEPT ![p][k] = ends]
  <2> HIDE DEF ends
  <2>. QED
    BY <1>1, <1>2, <1>3, OnwardIs DEF WorkerRead, Work, bounds
<1>4. CASE Live(v) /\ rows[v].pending # <<>> /\ worker' = [worker EXCEPT ![p][k] = goes]
  <2>1. rows[v].pending \in Seq(Urls)
    BY <1>1, <1>4, LiveRow, RowIs
  <2>2. Head(rows[v].pending) \in Urls
    BY <1>4, <2>1, HeadTailProperties
  <2>3. goes \in AtWork /\ goes.row = worker[p][k].row /\ goes.venue = v /\ goes.pc = "ingest"
    BY <1>1, <2>2 DEF AtWork
  <2> HIDE DEF goes
  <2>. QED
    BY <1>1, <1>4, <2>3, OnwardIs DEF WorkerRead, Work
<1>. QED
  BY <1>3, <1>4 DEF WorkerRead, Work

LEMMA IngestMoves ==
    ASSUME Typed, NEW p \in Procs, NEW k \in Slots, WorkerIngest(p, k)
    PROVE  \E next \in AtWork : /\ Onward(p, k, next) /\ next.row = worker[p][k].row
                                /\ next.pc # "save"
                                /\ UNCHANGED <<rows, queue, up, dropped, request, wanted>>
<1>1. PICK copied \in BOOLEAN :
        Work(p, k, [worker[p][k] EXCEPT !.pc = "reload", !.copied = copied])
  BY DEF WorkerIngest
<1> DEFINE next == [worker[p][k] EXCEPT !.pc = "reload", !.copied = copied]
<1>2. worker[p][k] \in AtWork /\ worker[p][k].url \in Urls
  BY AtWorkIs DEF WorkerIngest
<1>3. /\ next \in AtWork /\ next.row = worker[p][k].row /\ next.pc = "reload"
      /\ next.venue = worker[p][k].venue
  BY <1>2 DEF AtWork
<1>4. worker' = [worker EXCEPT ![p][k] = next]
  BY <1>1 DEF Work
<1> HIDE DEF next
<1>. QED
  BY <1>1, <1>2, <1>3, <1>4, OnwardIs DEF Work

LEMMA ReloadMoves ==
    ASSUME Typed, NEW p \in Procs, NEW k \in Slots, WorkerReload(p, k)
    PROVE  \E next \in AtWork :
             /\ Onward(p, k, next)
             /\ \/ next.row = worker[p][k].row /\ next.pc # "save"
                \/ /\ next.row = rows[next.venue] /\ next.pc = "save"
                   /\ rows[next.venue] \in Row /\ rows[next.venue] # None
                   /\ Races \/ ~EditorHas(next.venue)
             /\ UNCHANGED <<rows, queue, up, dropped, request, wanted>>
<1> DEFINE v == worker[p][k].venue
           over == [worker[p][k] EXCEPT !.pc = "read"]
           goes == [worker[p][k] EXCEPT !.pc = "save", !.row = rows[v]]
<1>1. worker[p][k] \in AtWork /\ worker[p][k].url \in Urls /\ v \in Venues
  BY AtWorkIs DEF WorkerReload
<1>2. over \in AtWork /\ over.row = worker[p][k].row /\ over.venue = v /\ over.pc = "read"
  BY <1>1 DEF AtWork
<1>3. CASE worker' = [worker EXCEPT ![p][k] = over]
  <2> HIDE DEF over
  <2>. QED
    BY <1>1, <1>2, <1>3, OnwardIs DEF WorkerReload, Work
<1>4. CASE Live(v) /\ worker' = [worker EXCEPT ![p][k] = goes]
  <2>1. rows[v] \in Row /\ rows[v] # None
    BY <1>1, <1>4, LiveRow DEF Live
  <2>2. goes \in AtWork /\ goes.row = rows[v] /\ goes.venue = v /\ goes.pc = "save"
    BY <1>1, <2>1 DEF AtWork
  <2>3. Races \/ ~EditorHas(v)
    BY DEF WorkerReload
  <2> HIDE DEF goes
  <2>. QED
    BY <1>1, <1>4, <2>1, <2>2, <2>3, OnwardIs DEF WorkerReload, Work
<1>. QED
  BY <1>3, <1>4 DEF WorkerReload, Work

LEMMA FailMoves ==
    ASSUME Typed, NEW p \in Procs, NEW k \in Slots, WorkerFail(p, k)
    PROVE  \E next \in AtWork : /\ Onward(p, k, next) /\ next.row = worker[p][k].row
                                /\ next.pc # "save"
                                /\ UNCHANGED <<rows, queue, up, request, wanted>>
<1> DEFINE next == [worker[p][k] EXCEPT !.pc = "done"]
<1>1. worker[p][k] \in AtWork
  BY AtWorkIs DEF WorkerFail
<1>2. /\ next \in AtWork /\ next.row = worker[p][k].row /\ next.pc = "done"
      /\ next.venue = worker[p][k].venue
  BY <1>1 DEF AtWork
<1>3. worker' = [worker EXCEPT ![p][k] = next]
  BY DEF WorkerFail
<1> HIDE DEF next
<1>. QED
  BY <1>1, <1>2, <1>3, OnwardIs DEF WorkerFail

LEMMA SaveMoves ==
    ASSUME Typed, NEW p \in Procs, NEW k \in Slots, WorkerSave(p, k)
    PROVE  LET w == worker[p][k]
               new == Advanced(w.row, w.url, w.copied)
           IN /\ w.venue \in Venues /\ w.row \in Row /\ w.url \in Urls /\ w.pc = "save"
              /\ Onward(p, k, Start(w.venue))
              /\ new \in Row /\ UrlsOf(new.images) = UrlsOf(w.row.images)
              /\ Good(w.row) => Good(new)
              /\ rows' \in [Venues -> Row \cup {None}] /\ rows'[w.venue] = new
              /\ \A v \in Venues : v # w.venue => rows'[v] = rows[v]
              /\ UNCHANGED <<queue, up, dropped, request, wanted>>
<1> DEFINE w == worker[p][k]
           new == Advanced(w.row, w.url, w.copied)
<1>1. /\ w \in AtWork /\ w.url \in Urls /\ w.venue \in Venues /\ w.row \in Row
      /\ w.copied \in BOOLEAN /\ w.pc = "save"
  BY AtWorkIs DEF WorkerSave
<1>2. new \in Row /\ UrlsOf(new.images) = UrlsOf(w.row.images) /\ (Good(w.row) => Good(new))
  BY <1>1, AdvancedIs
<1>3. /\ rows' = [rows EXCEPT ![w.venue] = new]
      /\ worker' = [worker EXCEPT ![p][k] = Start(w.venue)]
      /\ UNCHANGED <<queue, up, dropped, request, wanted>>
  BY DEF WorkerSave
<1> HIDE DEF new
<1>4. Onward(p, k, Start(w.venue))
  BY <1>1, <1>3, StartIs, OnwardIs
<1>5. /\ rows' \in [Venues -> Row \cup {None}] /\ rows'[w.venue] = new
      /\ \A v \in Venues : v # w.venue => rows'[v] = rows[v]
  BY <1>1, <1>2, <1>3 DEF Typed
<1>. QED
  BY <1>1, <1>2, <1>3, <1>4, <1>5 DEF new

\* Venues are started in one process; the rows of the other workers stay.
Started(p) ==
    /\ queue' \in [Procs -> Seq(Venues)]
    /\ worker' \in [Procs -> [Slots -> AtWork \cup {Resting}]]
    /\ \A q \in Procs : q # p => queue'[q] = queue[q] /\ worker'[q] = worker[q]
    /\ \A k \in Slots : \/ worker'[p][k] = worker[p][k]
                        \/ worker'[p][k] = Resting
                        \/ \E v \in Venues : worker'[p][k] = Start(v)
    /\ WorkedOnce => WorkedOnce'

LEMMA OnceOthers ==
    ASSUME NEW p \in Procs, \A q \in Procs : q # p => queue'[q] = queue[q] /\ worker'[q] = worker[q],
           Once(queue[p], worker[p]) => Once(queue'[p], worker'[p]), WorkedOnce
    PROVE  WorkedOnce'
<1>1. \A q \in Procs : Once(queue[q], worker[q])
  BY DEF WorkedOnce, Once
<1>2. \A q \in Procs : Once(queue'[q], worker'[q])
  BY <1>1
<1>. QED
  BY <1>2 DEF WorkedOnce, Once

LEMMA DoneMoves ==
    ASSUME Typed, NEW p \in Procs, NEW k \in Slots, WorkerDone(p, k)
    PROVE  Started(p) /\ UNCHANGED <<rows, up, dropped, request, wanted>>
<1> DEFINE workers == [worker[p] EXCEPT ![k] = Resting]
<1>1. /\ worker[p] \in [Slots -> AtWork \cup {Resting}] /\ queue[p] \in Seq(Venues)
      /\ workers \in [Slots -> AtWork \cup {Resting}]
      /\ Pump(p, queue[p], workers)
  BY DEF Typed, WorkerDone
<1>2. workers[k] = Resting /\ \A j \in Slots : j # k => workers[j] = worker[p][j]
  BY <1>1
<1> HIDE DEF workers
<1>3. /\ queue' \in [Procs -> Seq(Venues)]
      /\ worker' \in [Procs -> [Slots -> AtWork \cup {Resting}]]
      /\ \A q \in Procs : q # p => queue'[q] = queue[q] /\ worker'[q] = worker[q]
      /\ \A j \in Slots : \/ worker'[p][j] = workers[j]
                          \/ \E v \in Venues : worker'[p][j] = Start(v)
      /\ Once(queue[p], workers) => Once(queue'[p], worker'[p])
  BY <1>1, PumpIs
<1>4. Once(queue[p], worker[p]) => Once(queue[p], workers)
  <2>1. \A j \in Slots : worker[p][j] # Resting => worker[p][j].venue # None
    BY <1>1, RehostAssumption DEF RehostAssumption, AtWork
  <2>. QED
    BY <1>2, <2>1, RestingIs DEF Once
<1>5. WorkedOnce => WorkedOnce'
  BY <1>3, <1>4, OnceOthers
<1>. QED
  BY <1>2, <1>3, <1>5 DEF Started, WorkerDone, bounds

LEMMA EnqueueMoves ==
    ASSUME Typed, NEW p \in Procs, NEW arrivals \in Seq(Venues), IsInjective(arrivals),
           Enqueue(p, arrivals)
    PROVE  Started(p)
BY EnqueueIs, OnceOthers DEF Started

LEMMA ResumeMoves ==
    ASSUME Typed, NEW p \in Procs, Resume(p)
    PROVE  Started(p) /\ UNCHANGED <<rows, request, wanted>>
<1> DEFINE waits == {v \in Venues : Live(v) /\ rows[v].pending # <<>>}
<1>1. PICK found \in SetToSeqs(waits) : Enqueue(p, found)
  BY DEF Resume
<1>2. IsFiniteSet(waits) /\ waits \subseteq Venues
  <2>1. waits \in SUBSET Venues
    OBVIOUS
  <2>. QED
    BY <2>1, FS_Subset, RehostAssumption DEF RehostAssumption
<1> HIDE DEF waits
<1>3. Cardinality(waits) \in Nat
  BY <1>2, FS_CardinalityType
<1>4. /\ found \in [1..Cardinality(waits) -> waits]
      /\ \A i, j \in 1..Cardinality(waits) : i # j => found[i] # found[j]
  BY DEF SetToSeqs
<1>5. found \in [1..Cardinality(waits) -> Venues]
  BY <1>2, <1>4
<1>6. found \in Seq(Venues)
  BY <1>3, <1>5, SeqDef
<1>7. IsInjective(found)
  BY <1>4 DEF IsInjective
<1>. QED
  BY <1>1, <1>6, <1>7, EnqueueMoves DEF Resume

LEMMA GoneMoves ==
    ASSUME Typed, NEW p \in Procs, Gone(p)
    PROVE  /\ Started(p) /\ UNCHANGED <<rows, wanted>>
           /\ request' \in [Requests -> Asked \cup {NoRequest}]
           /\ \A r \in Requests : request'[r] \in {request[r], NoRequest}
<1>1. /\ queue' = [queue EXCEPT ![p] = <<>>]
      /\ worker' = [worker EXCEPT ![p] = [k \in Slots |-> Resting]]
      /\ request' = [r \in Requests |-> IF request[r].proc = p THEN NoRequest ELSE request[r]]
  BY DEF Gone
<1>2. <<>> \in Seq(Venues)
  BY EmptySeq
<1>3. /\ queue' \in [Procs -> Seq(Venues)] /\ queue'[p] = <<>>
      /\ \A q \in Procs : q # p => queue'[q] = queue[q]
  BY <1>1, <1>2 DEF Typed
<1>4. /\ worker' \in [Procs -> [Slots -> AtWork \cup {Resting}]]
      /\ worker'[p] = [k \in Slots |-> Resting]
      /\ \A q \in Procs : q # p => worker'[q] = worker[q]
  BY <1>1 DEF Typed
<1>5. Once(queue'[p], worker'[p])
  BY <1>3, <1>4 DEF Once, IsInjective
<1>6. Started(p)
  BY <1>3, <1>4, <1>5, OnceOthers DEF Started
<1>7. /\ request' \in [Requests -> Asked \cup {NoRequest}]
      /\ \A r \in Requests : request'[r] \in {request[r], NoRequest}
  BY <1>1 DEF Typed
<1>. QED
  BY <1>6, <1>7 DEF Gone

\* What a request asks for, by its kind.
Fits(kind, v, row, list) ==
    /\ kind # "create" => Live(v)
    /\ kind \in {"create", "update"} => UrlsOf(row.images) = list /\ list \in Edits
    /\ kind \in {"other", "retry", "delete"} => row.images = rows[v].images
    /\ IF kind \in {"create", "update"}
       THEN IsInjective(list) /\ (kind = "update" => Good(rows[v])) => Good(row)
       ELSE Good(rows[v]) => Good(row)

Kinds == {"create", "update", "other", "retry", "delete"}

LEMMA BeginMoves ==
    ASSUME Typed, NEW r \in Requests, RequestBegin(r)
    PROVE  \E p \in Procs, v \in Venues, kind \in Kinds, row \in Row, feeds \in BOOLEAN,
              list \in Edits \cup {<<>>} :
             Begin(r, p, v, kind, row, feeds, list) /\ Fits(kind, v, row, list)
<1>1. PICK p \in Procs, v \in Venues :
        \/ \E list \in Edits : Create(r, p, v, list) \/ UpdateImages(r, p, v, list)
        \/ UpdateOther(r, p, v) \/ RetryFailed(r, p, v) \/ Delete(r, p, v)
  BY DEF RequestBegin
<1> DEFINE Goal == \E q \in Procs, u \in Venues, kind \in Kinds, row \in Row, feeds \in BOOLEAN,
                      list \in Edits \cup {<<>>} :
                     Begin(r, q, u, kind, row, feeds, list) /\ Fits(kind, u, row, list)
<1>2. ASSUME NEW list \in Edits, Create(r, p, v, list) PROVE Goal
  <2>1. Begin(r, p, v, "create", NewRow(list), list # <<>>, list)
    BY <1>2 DEF Create, NewRow
  <2>2. NewRow(list) \in Row /\ Fits("create", v, NewRow(list), list)
    BY EditIs, NewRowIs DEF Fits
  <2>3. (list # <<>>) \in BOOLEAN /\ "create" \in Kinds
    BY DEF Kinds
  <2>. QED
    BY <2>1, <2>2, <2>3
<1>3. ASSUME NEW list \in Edits, UpdateImages(r, p, v, list) PROVE Goal
  <2>1. PICK kept \in SUBSET Urls :
          Begin(r, p, v, "update", Edited(rows[v], list, kept), Select(list, Urls \ kept) # <<>>, list)
    BY <1>3 DEF UpdateImages, Edited
  <2>2. Live(v) /\ rows[v] \in Row
    BY <1>3, LiveRow DEF UpdateImages
  <2> DEFINE row == Edited(rows[v], list, kept)
             feeds == Select(list, Urls \ kept) # <<>>
  <2>3. /\ row \in Row /\ UrlsOf(row.images) = list
        /\ Tracked(rows[v]) /\ IsInjective(list) => Good(row)
    BY <2>2, EditIs, EditedIs
  <2>4. feeds \in BOOLEAN /\ "update" \in Kinds
    BY DEF Kinds
  <2> HIDE DEF row, feeds
  <2>5. Fits("update", v, row, list)
    BY <2>2, <2>3 DEF Fits, Good
  <2>. QED
    BY <2>1, <2>3, <2>4, <2>5 DEF row, feeds
<1>4. ASSUME UpdateOther(r, p, v) PROVE Goal
  <2>1. Live(v) /\ rows[v] \in Row /\ Begin(r, p, v, "other", rows[v], FALSE, <<>>)
    BY <1>4, LiveRow DEF UpdateOther
  <2>2. Fits("other", v, rows[v], <<>>) /\ "other" \in Kinds
    BY <2>1 DEF Fits, Kinds
  <2>. QED
    BY <2>1, <2>2
<1>5. ASSUME Delete(r, p, v) PROVE Goal
  <2>1. Live(v) /\ rows[v] \in Row /\ Begin(r, p, v, "delete", rows[v], FALSE, <<>>)
    BY <1>5, LiveRow DEF Delete
  <2>2. Fits("delete", v, rows[v], <<>>) /\ "delete" \in Kinds
    BY <2>1 DEF Fits, Kinds
  <2>. QED
    BY <2>1, <2>2
<1>6. ASSUME RetryFailed(r, p, v) PROVE Goal
  <2>1. Live(v) /\ rows[v] \in Row /\ Begin(r, p, v, "retry", Retried(rows[v]), TRUE, <<>>)
    BY <1>6, LiveRow DEF RetryFailed, Retried
  <2>2. Retried(rows[v]) \in Row /\ Fits("retry", v, Retried(rows[v]), <<>>) /\ "retry" \in Kinds
    BY <2>1, RetriedIs DEF Fits, Kinds
  <2>. QED
    BY <2>1, <2>2
<1>. QED
  BY <1>1, <1>2, <1>3, <1>4, <1>5, <1>6

LEMMA BeginIs ==
    ASSUME Typed, NEW r \in Requests, NEW p \in Procs, NEW v \in Venues, NEW kind \in Kinds,
           NEW row \in Row, NEW feeds \in BOOLEAN, NEW list \in Edits \cup {<<>>},
           Begin(r, p, v, kind, row, feeds, list)
    PROVE  /\ request' \in [Requests -> Asked \cup {NoRequest}]
           /\ \A q \in Requests : q # r => request'[q] = request[q]
           /\ request'[r].pc = "loaded" /\ request'[r].kind = kind /\ request'[r].venue = v
           /\ request'[r].row = row /\ request'[r].list = list
           /\ UNCHANGED <<rows, process, wanted>>
           /\ Races \/ ~(EditorHas(v) \/ WorkerHas(v))
<1> DEFINE new == [pc |-> "loaded", kind |-> kind, venue |-> v, row |-> row,
                   proc |-> p, feeds |-> feeds, list |-> list]
<1>1. new \in Asked
  BY DEF Asked, Kinds
<1>2. /\ new.pc = "loaded" /\ new.kind = kind /\ new.venue = v /\ new.row = row
      /\ new.list = list
  OBVIOUS
<1>3. request' = [request EXCEPT ![r] = new]
  BY DEF Begin
<1> HIDE DEF new
<1>4. /\ request' \in [Requests -> Asked \cup {NoRequest}] /\ request'[r] = new
      /\ \A q \in Requests : q # r => request'[q] = request[q]
  BY <1>1, <1>3 DEF Typed
<1>. QED
  BY <1>2, <1>4 DEF Begin

\* The row a request saves, and what is left of the request.
LEMMA RequestSaveMoves ==
    ASSUME Typed, FoundIt, NEW r \in Requests, RequestSave(r)
    PROVE  LET q == request[r]
               v == q.venue
           IN /\ q \in Asked /\ q.pc = "loaded" /\ v \in Venues
              /\ rows' \in [Venues -> Row \cup {None}] /\ rows'[v] \in Row
              /\ \A u \in Venues : u # v => rows'[u] = rows[u] /\ wanted'[u] = wanted[u]
              /\ IF q.kind = "delete"
                 THEN /\ rows[v] \in Row /\ rows'[v].images = rows[v].images
                      /\ Good(rows[v]) => Good(rows'[v])
                 ELSE rows'[v] = q.row
              /\ wanted' \in [Venues -> Edits \cup {<<>>}]
              /\ wanted'[v] = (IF q.kind \in {"create", "update"} THEN q.list ELSE wanted[v])
              /\ request' \in [Requests -> Asked \cup {NoRequest}]
              /\ request'[r].pc # "loaded" /\ request'[r].row \in {q.row, NoRow}
              /\ \A s \in Requests : s # r => request'[s] = request[s]
              /\ UNCHANGED process
<1> DEFINE q == request[r]
           v == q.venue
           gone == [rows[v] EXCEPT !.deleted = TRUE]
           new == IF q.kind = "delete" THEN gone ELSE q.row
           saved == [q EXCEPT !.pc = "saved"]
           rest == IF q.feeds THEN saved ELSE NoRequest
<1>1. q \in Asked /\ q.pc = "loaded" /\ v \in Venues /\ q.row \in Row
  BY NoRequestIs DEF RequestSave, Typed, Asked
<1>2. q.kind # "create" => rows[v] \in Row
  BY <1>1 DEF FoundIt
<1>3. q.kind = "delete" => /\ gone \in Row /\ gone.images = rows[v].images
                           /\ gone.pending = rows[v].pending /\ gone.failed = rows[v].failed
  BY <1>2 DEF Row
<1>4. new \in Row
  BY <1>1, <1>3
<1>5. rest \in Asked \cup {NoRequest} /\ rest.pc # "loaded" /\ rest.row \in {q.row, NoRow}
  <2>1. saved \in Asked /\ saved.pc = "saved" /\ saved.row = q.row
    BY <1>1 DEF Asked
  <2>2. NoRequest.row = NoRow
    BY DEF NoRequest
  <2>. QED
    BY <2>1, <2>2, NoRequestIs
<1>6. /\ rows' = [rows EXCEPT ![v] = new]
      /\ request' = [request EXCEPT ![r] = rest]
      /\ wanted' = [wanted EXCEPT ![v] = IF q.kind \in {"create", "update"} THEN q.list ELSE @]
      /\ UNCHANGED process
  BY DEF RequestSave
<1>7. q.list \in Edits \cup {<<>>}
  BY <1>1 DEF Asked
<1>8. q.kind = "delete" /\ Good(rows[v]) => Good(gone)
  BY <1>3 DEF Good, Tracked
<1>9. q.kind = "delete" => new = gone
  OBVIOUS
<1>10. q.kind # "delete" => new = q.row
  OBVIOUS
<1> HIDE DEF new, rest, gone
<1>11. /\ rows' \in [Venues -> Row \cup {None}] /\ rows'[v] = new
       /\ \A u \in Venues : u # v => rows'[u] = rows[u]
  BY <1>1, <1>4, <1>6 DEF Typed
<1>12. /\ wanted' \in [Venues -> Edits \cup {<<>>}]
       /\ \A u \in Venues : u # v => wanted'[u] = wanted[u]
       /\ wanted'[v] = (IF q.kind \in {"create", "update"} THEN q.list ELSE wanted[v])
  BY <1>1, <1>6, <1>7 DEF Typed
<1>13. /\ request' \in [Requests -> Asked \cup {NoRequest}] /\ request'[r] = rest
       /\ \A s \in Requests : s # r => request'[s] = request[s]
  BY <1>5, <1>6 DEF Typed
<1>. QED
  BY <1>1, <1>2, <1>3, <1>4, <1>5, <1>6, <1>8, <1>9, <1>10, <1>11, <1>12, <1>13

LEMMA RequestEnqueueMoves ==
    ASSUME Typed, NEW r \in Requests, RequestEnqueue(r)
    PROVE  /\ \E p \in Procs : Started(p)
           /\ UNCHANGED <<rows, wanted>>
           /\ request' \in [Requests -> Asked \cup {NoRequest}]
           /\ \A s \in Requests : request'[s] \in {request[s], NoRequest}
<1> DEFINE q == request[r]
<1>1. q.proc \in Procs /\ q.venue \in Venues
  BY NoRequestIs DEF RequestEnqueue, Typed, Asked
<1>2. <<q.venue>> \in Seq(Venues) /\ IsInjective(<<q.venue>>)
  BY <1>1 DEF IsInjective
<1>3. Started(q.proc)
  BY <1>1, <1>2, EnqueueMoves DEF RequestEnqueue
<1>4. request' = [request EXCEPT ![r] = NoRequest] /\ UNCHANGED <<rows, wanted>>
  BY DEF RequestEnqueue
<1>. QED
  BY <1>1, <1>3, <1>4 DEF Typed

-----------------------------------------------------------------------------
(* The three invariants hold of the first state, and every step keeps them. *)

\* Whatever a venue's row says, in the database, in a worker or in a request, is Good.
RowsGood ==
    /\ \A v \in Venues : rows[v] # None => Good(rows[v])
    /\ \A p \in Procs, k \in Slots : Good(worker[p][k].row)
    /\ \A r \in Requests : Good(request[r].row)

\* No list of an editor has an image twice.
DistinctImages == \A list \in Edits : IsInjective(list)

\* What a request has loaded is of the list its editor wants, or of the last one.
Shows(q) ==
    CASE q.kind \in {"create", "update"} -> UrlsOf(q.row.images) = q.list
      [] q.kind \in {"other", "retry"} -> UrlsOf(q.row.images) = wanted[q.venue]
      [] OTHER -> TRUE

\* One at a time has the row of a venue, and it is the last one.
OneHas ==
    /\ \A r, s \in Requests :
         request[r].pc = "loaded" /\ request[s].pc = "loaded"
         /\ request[r].venue = request[s].venue => r = s
    /\ \A p \in Procs, k \in Slots : worker[p][k].pc = "save" =>
         /\ ~EditorHas(worker[p][k].venue)
         /\ UrlsOf(worker[p][k].row.images) = wanted[worker[p][k].venue]
    /\ \A r \in Requests : request[r].pc = "loaded" => Shows(request[r])
    /\ EditsKept

LEMMA NoRowGood == Good(NoRow)
BY DEF NoRow, Good, Tracked, Listed, UrlsOf, IsInjective

LEMMA InitHolds == Init => Typed /\ FoundIt /\ WorkedOnce /\ RowsGood /\ OneHas
<1> SUFFICES ASSUME Init PROVE Typed /\ FoundIt /\ WorkedOnce /\ RowsGood /\ OneHas
  OBVIOUS
<1>1. <<>> \in Seq(Venues)
  BY EmptySeq
<1>2. Typed
  BY <1>1 DEF Init, Typed
<1>3. FoundIt
  BY NoRequestIs DEF Init, FoundIt
<1>4. WorkedOnce
  BY DEF Init, WorkedOnce, IsInjective
<1>5. RowsGood
  <2>1. Resting.row = NoRow /\ NoRequest.row = NoRow
    BY DEF Resting, NoRequest
  <2>. QED
    BY <2>1, NoRowGood DEF Init, RowsGood
<1>6. OneHas
  BY RestingIs, NoRequestIs DEF Init, OneHas, EditsKept
<1>. QED
  BY <1>2, <1>3, <1>4, <1>5, <1>6

\* A worker that goes on saves nothing that it did not have.
Dull(p, k, next) ==
    /\ Onward(p, k, next) /\ next.row = worker[p][k].row /\ next.pc # "save"
    /\ UNCHANGED <<rows, queue, request, wanted>>

LEMMA StepCases ==
    ASSUME Typed, FoundIt, [Next]_vars
    PROVE  \/ \E r \in Requests : RequestBegin(r) \/ RequestSave(r) \/ RequestEnqueue(r)
           \/ \E p \in Procs, k \in Slots : WorkerSave(p, k) \/ WorkerReload(p, k)
           \/ \E p \in Procs, k \in Slots : \E next \in AtWork : Dull(p, k, next)
           \/ \E p \in Procs : Started(p) /\ UNCHANGED <<rows, request, wanted>>
           \/ \E p \in Procs : Gone(p)
           \/ UNCHANGED <<rows, queue, worker, request, wanted>>
<1> DEFINE Goal ==
      \/ \E r \in Requests : RequestBegin(r) \/ RequestSave(r) \/ RequestEnqueue(r)
      \/ \E p \in Procs, k \in Slots : WorkerSave(p, k) \/ WorkerReload(p, k)
      \/ \E p \in Procs, k \in Slots : \E next \in AtWork : Dull(p, k, next)
      \/ \E p \in Procs : Started(p) /\ UNCHANGED <<rows, request, wanted>>
      \/ \E p \in Procs : Gone(p)
      \/ UNCHANGED <<rows, queue, worker, request, wanted>>
<1>1. ASSUME NEW r \in Requests, RequestBegin(r) \/ RequestStep(r) PROVE Goal
  BY <1>1 DEF RequestStep
<1>2. ASSUME NEW p \in Procs, NEW k \in Slots, WorkerStep(p, k) \/ WorkerFail(p, k) PROVE Goal
  <2>1. CASE WorkerRead(p, k) \/ WorkerIngest(p, k) \/ WorkerFail(p, k)
    <3>1. \E next \in AtWork : Dull(p, k, next)
      BY <2>1, ReadMoves, IngestMoves, FailMoves DEF Dull
    <3>. QED
      BY <3>1
  <2>2. CASE WorkerDone(p, k)
    BY <2>2, DoneMoves
  <2>3. CASE WorkerSave(p, k) \/ WorkerReload(p, k)
    BY <2>3
  <2>. QED
    BY <1>2, <2>1, <2>2, <2>3 DEF WorkerStep
<1>3. ASSUME NEW p \in Procs, Restart(p) \/ Stop(p) \/ Crash(p) PROVE Goal
  <2>1. CASE Boot(p) \/ Stop(p)
    BY <2>1 DEF Boot, Stop
  <2>2. CASE Resume(p)
    BY <2>2, ResumeMoves
  <2>3. CASE Exit(p) \/ Crash(p)
    BY <2>3 DEF Exit, Crash
  <2>. QED
    BY <1>3, <2>1, <2>2, <2>3 DEF Restart
<1>4. CASE UNCHANGED vars
  BY <1>4 DEF vars, process
<1>. QED
  BY <1>1, <1>2, <1>3, <1>4 DEF Next

-----------------------------------------------------------------------------
LEMMA TypedStep == Typed /\ FoundIt /\ [Next]_vars => Typed' /\ FoundIt'
<1> SUFFICES ASSUME Typed, FoundIt, [Next]_vars PROVE Typed' /\ FoundIt'
  OBVIOUS
<1>1. ASSUME NEW r \in Requests, RequestBegin(r) PROVE Typed' /\ FoundIt'
  <2>1. PICK p \in Procs, v \in Venues, kind \in Kinds, row \in Row, feeds \in BOOLEAN,
             list \in Edits \cup {<<>>} :
          Begin(r, p, v, kind, row, feeds, list) /\ Fits(kind, v, row, list)
    BY <1>1, BeginMoves
  <2>2. /\ request' \in [Requests -> Asked \cup {NoRequest}]
        /\ \A q \in Requests : q # r => request'[q] = request[q]
        /\ request'[r].kind = kind /\ request'[r].venue = v
        /\ UNCHANGED <<rows, process, wanted>>
    BY <2>1, BeginIs
  <2>3. kind # "create" => rows[v] \in Row
    BY <2>1, LiveRow DEF Fits
  <2>. QED
    BY <2>2, <2>3 DEF Typed, FoundIt, process
<1>2. ASSUME NEW r \in Requests, RequestSave(r) PROVE Typed' /\ FoundIt'
  <2>1. /\ rows' \in [Venues -> Row \cup {None}] /\ rows'[request[r].venue] \in Row
        /\ \A u \in Venues : u # request[r].venue => rows'[u] = rows[u]
        /\ wanted' \in [Venues -> Edits \cup {<<>>}]
        /\ request' \in [Requests -> Asked \cup {NoRequest}]
        /\ request'[r].pc # "loaded"
        /\ \A s \in Requests : s # r => request'[s] = request[s]
        /\ UNCHANGED process
    BY <1>2, RequestSaveMoves
  <2>2. \A s \in Requests : request[s].pc = "loaded" => request[s].venue \in Venues
    BY NoRequestIs DEF Typed, Asked
  <2>. QED
    BY <2>1, <2>2 DEF Typed, FoundIt, process
<1>3. ASSUME NEW r \in Requests, RequestEnqueue(r) PROVE Typed' /\ FoundIt'
  BY <1>3, RequestEnqueueMoves, NoRequestIs DEF Started, Typed, FoundIt
<1>4. ASSUME NEW p \in Procs, NEW k \in Slots, WorkerSave(p, k) PROVE Typed' /\ FoundIt'
  <2>1. /\ worker' \in [Procs -> [Slots -> AtWork \cup {Resting}]]
        /\ rows' \in [Venues -> Row \cup {None}] /\ rows'[worker[p][k].venue] \in Row
        /\ \A v \in Venues : v # worker[p][k].venue => rows'[v] = rows[v]
        /\ UNCHANGED <<queue, up, dropped, request, wanted>>
    BY <1>4, SaveMoves DEF Onward
  <2>2. \A s \in Requests : request[s].pc = "loaded" => request[s].venue \in Venues
    BY NoRequestIs DEF Typed, Asked
  <2>. QED
    BY <2>1, <2>2 DEF Typed, FoundIt
<1>5. ASSUME NEW p \in Procs, NEW k \in Slots, WorkerReload(p, k) PROVE Typed' /\ FoundIt'
  BY <1>5, ReloadMoves DEF Onward, Typed, FoundIt
<1>6. ASSUME NEW p \in Procs, NEW k \in Slots, NEW next, Dull(p, k, next) PROVE Typed' /\ FoundIt'
  BY <1>6 DEF Dull, Onward, Typed, FoundIt
<1>7. ASSUME NEW p \in Procs, Started(p), UNCHANGED <<rows, request, wanted>>
      PROVE  Typed' /\ FoundIt'
  BY <1>7 DEF Started, Typed, FoundIt
<1>8. ASSUME NEW p \in Procs, Gone(p) PROVE Typed' /\ FoundIt'
  BY <1>8, GoneMoves, NoRequestIs DEF Started, Typed, FoundIt
<1>9. CASE UNCHANGED <<rows, queue, worker, request, wanted>>
  BY <1>9 DEF Typed, FoundIt
<1>. QED
  BY <1>1, <1>2, <1>3, <1>4, <1>5, <1>6, <1>7, <1>8, <1>9, StepCases

LEMMA OnceStep == Typed /\ FoundIt /\ WorkedOnce /\ [Next]_vars => WorkedOnce'
<1> SUFFICES ASSUME Typed, FoundIt, WorkedOnce, [Next]_vars PROVE WorkedOnce'
  OBVIOUS
<1>1. ASSUME UNCHANGED <<queue, worker>> PROVE WorkedOnce'
  BY <1>1 DEF WorkedOnce
<1>2. ASSUME NEW r \in Requests, RequestBegin(r) PROVE WorkedOnce'
  BY <1>1, <1>2, BeginMoves, BeginIs DEF process
<1>3. ASSUME NEW r \in Requests, RequestSave(r) PROVE WorkedOnce'
  BY <1>1, <1>3 DEF RequestSave, process
<1>4. ASSUME NEW r \in Requests, RequestEnqueue(r) PROVE WorkedOnce'
  BY <1>4, RequestEnqueueMoves DEF Started
<1>5. ASSUME NEW p \in Procs, NEW k \in Slots, WorkerSave(p, k) PROVE WorkedOnce'
  BY <1>5, SaveMoves, OnwardOnce
<1>6. ASSUME NEW p \in Procs, NEW k \in Slots, WorkerReload(p, k) PROVE WorkedOnce'
  BY <1>6, ReloadMoves, OnwardOnce
<1>7. ASSUME NEW p \in Procs, NEW k \in Slots, NEW next, Dull(p, k, next) PROVE WorkedOnce'
  BY <1>7, OnwardOnce DEF Dull
<1>8. ASSUME NEW p \in Procs, Started(p) PROVE WorkedOnce'
  BY <1>8 DEF Started
<1>9. ASSUME NEW p \in Procs, Gone(p) PROVE WorkedOnce'
  BY <1>9, GoneMoves DEF Started
<1>. QED
  BY <1>1, <1>2, <1>3, <1>4, <1>5, <1>6, <1>7, <1>8, <1>9, StepCases

LEMMA StartRow == \A v : Start(v).row = NoRow /\ Start(v).pc = "read"
BY DEF Start, Resting

LEMMA StartedRows ==
    ASSUME NEW p \in Procs, Started(p)
    PROVE  \A q \in Procs, k \in Slots :
             \/ worker'[q][k] = worker[q][k]
             \/ worker'[q][k].row = NoRow /\ worker'[q][k].pc # "save"
<1>1. Resting.row = NoRow /\ Resting.pc = "idle"
  BY DEF Resting
<1>. QED
  BY <1>1, StartRow DEF Started

LEMMA GoodStep ==
    ASSUME DistinctImages
    PROVE  Typed /\ FoundIt /\ RowsGood /\ [Next]_vars => RowsGood'
<1> SUFFICES ASSUME Typed, FoundIt, RowsGood, [Next]_vars PROVE RowsGood'
  OBVIOUS
<1>1. ASSUME NEW r \in Requests, RequestBegin(r) PROVE RowsGood'
  <2>1. PICK p \in Procs, v \in Venues, kind \in Kinds, row \in Row, feeds \in BOOLEAN,
             list \in Edits \cup {<<>>} :
          Begin(r, p, v, kind, row, feeds, list) /\ Fits(kind, v, row, list)
    BY <1>1, BeginMoves
  <2>2. /\ \A q \in Requests : q # r => request'[q] = request[q]
        /\ request'[r].row = row
        /\ UNCHANGED <<rows, worker>>
    BY <2>1, BeginIs DEF process
  <2>3. Good(row)
    <3>1. kind # "create" => Good(rows[v])
      BY <2>1 DEF Fits, Live, RowsGood
    <3>. QED
      BY <2>1, <3>1 DEF Fits, DistinctImages
  <2>. QED
    BY <2>2, <2>3 DEF RowsGood
<1>2. ASSUME NEW r \in Requests, RequestSave(r) PROVE RowsGood'
  <2> DEFINE q == request[r]
             v == q.venue
  <2>1. /\ v \in Venues
        /\ \A u \in Venues : u # v => rows'[u] = rows[u]
        /\ IF q.kind = "delete"
           THEN rows[v] \in Row /\ (Good(rows[v]) => Good(rows'[v]))
           ELSE rows'[v] = q.row
        /\ request'[r].row \in {q.row, NoRow}
        /\ \A s \in Requests : s # r => request'[s] = request[s]
        /\ worker' = worker
    BY <1>2, RequestSaveMoves DEF process
  <2>2. Good(rows'[v])
    BY <2>1, RowAssumption DEF RowsGood, RowAssumption
  <2>. QED
    BY <2>1, <2>2, NoRowGood DEF RowsGood
<1>3. ASSUME NEW r \in Requests, RequestEnqueue(r) PROVE RowsGood'
  <2>1. NoRequest.row = NoRow
    BY DEF NoRequest
  <2>. QED
    BY <1>3, <2>1, RequestEnqueueMoves, StartedRows, NoRowGood DEF RowsGood
<1>4. ASSUME NEW p \in Procs, NEW k \in Slots, WorkerSave(p, k) PROVE RowsGood'
  <2>1. /\ Onward(p, k, Start(worker[p][k].venue))
        /\ Good(worker[p][k].row) => Good(rows'[worker[p][k].venue])
        /\ \A v \in Venues : v # worker[p][k].venue => rows'[v] = rows[v]
        /\ request' = request
    BY <1>4, SaveMoves
  <2>. QED
    BY <2>1, StartRow, NoRowGood DEF RowsGood, Onward
<1>5. ASSUME NEW p \in Procs, NEW k \in Slots, WorkerReload(p, k) PROVE RowsGood'
  <2>1. PICK next \in AtWork :
          /\ Onward(p, k, next)
          /\ next.row = worker[p][k].row \/ (next.row = rows[next.venue] /\ rows[next.venue] # None)
          /\ UNCHANGED <<rows, request>>
    BY <1>5, ReloadMoves
  <2>2. next.venue \in Venues
    BY DEF AtWork
  <2>. QED
    BY <2>1, <2>2 DEF RowsGood, Onward
<1>6. ASSUME NEW p \in Procs, NEW k \in Slots, NEW next, Dull(p, k, next) PROVE RowsGood'
  BY <1>6 DEF Dull, Onward, RowsGood
<1>7. ASSUME NEW p \in Procs, Started(p), UNCHANGED <<rows, request, wanted>> PROVE RowsGood'
  BY <1>7, StartedRows, NoRowGood DEF RowsGood
<1>8. ASSUME NEW p \in Procs, Gone(p) PROVE RowsGood'
  <2>1. NoRequest.row = NoRow
    BY DEF NoRequest
  <2>. QED
    BY <1>8, <2>1, GoneMoves, StartedRows, NoRowGood DEF RowsGood
<1>9. CASE UNCHANGED <<rows, queue, worker, request, wanted>>
  BY <1>9 DEF RowsGood
<1>. QED
  BY <1>1, <1>2, <1>3, <1>4, <1>5, <1>6, <1>7, <1>8, <1>9, StepCases

LEMMA OneHasStep ==
    ASSUME Races = FALSE
    PROVE  Typed /\ FoundIt /\ OneHas /\ [Next]_vars => OneHas'
<1> SUFFICES ASSUME Typed, FoundIt, OneHas, [Next]_vars PROVE OneHas'
  OBVIOUS
\* Requests leave and workers give up; nothing else moves.
<1>0. ASSUME UNCHANGED <<rows, wanted>>,
             \A s \in Requests : request'[s] = request[s] \/ request'[s].pc # "loaded",
             \A q \in Procs, j \in Slots : worker'[q][j] = worker[q][j] \/ worker'[q][j].pc # "save"
      PROVE  OneHas'
  BY <1>0 DEF OneHas, EditorHas, Shows, EditsKept
<1>1. ASSUME NEW r \in Requests, RequestBegin(r) PROVE OneHas'
  <2>1. PICK p \in Procs, v \in Venues, kind \in Kinds, row \in Row, feeds \in BOOLEAN,
             list \in Edits \cup {<<>>} :
          Begin(r, p, v, kind, row, feeds, list) /\ Fits(kind, v, row, list)
    BY <1>1, BeginMoves
  <2>2. /\ \A q \in Requests : q # r => request'[q] = request[q]
        /\ request'[r].kind = kind /\ request'[r].venue = v
        /\ request'[r].row = row /\ request'[r].list = list
        /\ UNCHANGED <<rows, worker, wanted>>
        /\ ~EditorHas(v) /\ ~WorkerHas(v)
    BY <2>1, BeginIs DEF process
  <2>3. Shows(request[r])'
    <3>1. kind \notin {"create", "update"} => UrlsOf(row.images) = wanted[v]
      BY <2>1 DEF Fits, Kinds, Live, OneHas, EditsKept, UrlsOf
    <3>. QED
      BY <2>1, <2>2, <3>1 DEF Fits, Shows
  <2>4. EditsKept'
    BY <2>2 DEF OneHas, EditsKept
  <2>5. ASSUME NEW q \in Procs, NEW k \in Slots, worker'[q][k].pc = "save"
        PROVE  /\ ~EditorHas(worker[q][k].venue)'
               /\ UrlsOf(worker'[q][k].row.images) = wanted'[worker'[q][k].venue]
    <3>1. worker[q][k].venue # v /\ ~EditorHas(worker[q][k].venue)
      BY <2>2, <2>5 DEF WorkerHas, OneHas
    <3>. QED
      BY <2>2, <2>5, <3>1 DEF OneHas, EditorHas
  <2>6. \A s \in Requests : request[s].pc = "loaded" => request[s].venue # v
    BY <2>2 DEF EditorHas
  <2>7. \A s, t \in Requests :
          request'[s].pc = "loaded" /\ request'[t].pc = "loaded"
          /\ request'[s].venue = request'[t].venue => s = t
    BY <2>2, <2>6 DEF OneHas
  <2>8. \A s \in Requests : request'[s].pc = "loaded" => Shows(request[s])'
    BY <2>2, <2>3 DEF OneHas, Shows
  <2>. QED
    BY <2>4, <2>5, <2>7, <2>8 DEF OneHas
<1>2. ASSUME NEW r \in Requests, RequestSave(r) PROVE OneHas'
  <2> DEFINE q == request[r]
  <2>1. PICK v \in Venues : v = q.venue
    BY <1>2, RequestSaveMoves
  <2>2. /\ q \in Asked /\ q.pc = "loaded"
        /\ rows'[v] \in Row
        /\ \A u \in Venues : u # v => rows'[u] = rows[u] /\ wanted'[u] = wanted[u]
        /\ IF q.kind = "delete" THEN rows[v] \in Row /\ rows'[v].images = rows[v].images
           ELSE rows'[v] = q.row
        /\ wanted'[v] = (IF q.kind \in {"create", "update"} THEN q.list ELSE wanted[v])
        /\ request'[r].pc # "loaded"
        /\ \A s \in Requests : s # r => request'[s] = request[s]
        /\ worker' = worker
    BY <1>2, <2>1, RequestSaveMoves DEF process
  <2>3. q.kind \in {"create", "update", "other", "retry", "delete"}
    BY <2>2 DEF Asked
  <2>4. UrlsOf(rows'[v].images) = wanted'[v]
    <3>1. Shows(q)
      BY <2>2 DEF OneHas
    <3>2. CASE q.kind = "delete"
      <4>1. rows[v] # None
        BY <2>2, <3>2, RowAssumption DEF RowAssumption
      <4>. QED
        BY <2>2, <3>2, <4>1 DEF OneHas, EditsKept, UrlsOf
    <3>3. CASE q.kind \in {"create", "update"}
      BY <2>2, <3>1, <3>3 DEF Shows
    <3>4. CASE q.kind \in {"other", "retry"}
      BY <2>1, <2>2, <3>1, <3>4 DEF Shows
    <3>. QED
      BY <2>3, <3>2, <3>3, <3>4
  <2>5. EditsKept'
    BY <2>2, <2>4 DEF OneHas, EditsKept, UrlsOf
  <2>6. \A s \in Requests : s # r /\ request[s].pc = "loaded" =>
          request[s].venue # v /\ request[s].venue \in Venues
    BY <2>1, <2>2, NoRequestIs DEF OneHas, Typed, Asked
  <2>7. \A s \in Requests : request'[s].pc = "loaded" => Shows(request[s])'
    BY <2>2, <2>6 DEF OneHas, Shows
  <2>8. EditorHas(v)
    BY <2>1, <2>2 DEF EditorHas
  <2>9. ASSUME NEW p \in Procs, NEW k \in Slots, worker[p][k].pc = "save"
        PROVE  /\ worker[p][k].venue # v /\ worker[p][k].venue \in Venues
               /\ ~EditorHas(worker[p][k].venue)'
    <3>1. ~EditorHas(worker[p][k].venue)
      BY <2>9 DEF OneHas
    <3>. QED
      BY <2>2, <2>8, <2>9, <3>1, AtWorkIs DEF EditorHas
  <2>10. \A s, t \in Requests :
          request'[s].pc = "loaded" /\ request'[t].pc = "loaded"
          /\ request'[s].venue = request'[t].venue => s = t
    BY <2>2 DEF OneHas
  <2>. QED
    BY <2>2, <2>5, <2>7, <2>9, <2>10 DEF OneHas
<1>3. ASSUME NEW r \in Requests, RequestEnqueue(r) PROVE OneHas'
  BY <1>0, <1>3, RequestEnqueueMoves, StartedRows, NoRequestIs
<1>4. ASSUME NEW p \in Procs, NEW k \in Slots, WorkerSave(p, k) PROVE OneHas'
  <2>1. PICK v \in Venues : v = worker[p][k].venue
    BY <1>4, SaveMoves
  <2>2. /\ worker[p][k].pc = "save"
        /\ Onward(p, k, Start(v))
        /\ UrlsOf(rows'[v].images) = UrlsOf(worker[p][k].row.images)
        /\ \A u \in Venues : u # v => rows'[u] = rows[u]
        /\ UNCHANGED <<request, wanted>>
    BY <1>4, <2>1, SaveMoves
  <2>3. UrlsOf(rows'[v].images) = wanted[v]
    BY <2>1, <2>2 DEF OneHas
  <2>4. EditsKept'
    BY <2>2, <2>3 DEF OneHas, EditsKept, UrlsOf
  <2>5. \A q \in Procs, j \in Slots : worker'[q][j] = worker[q][j] \/ worker'[q][j].pc # "save"
    BY <2>2, StartRow DEF Onward
  <2>. QED
    BY <2>2, <2>4, <2>5 DEF OneHas, EditorHas, Shows
<1>5. ASSUME NEW p \in Procs, NEW k \in Slots, WorkerReload(p, k) PROVE OneHas'
  <2>1. PICK next \in AtWork :
          /\ Onward(p, k, next)
          /\ \/ next.pc # "save"
             \/ /\ next.row = rows[next.venue] /\ rows[next.venue] # None
                /\ Races \/ ~EditorHas(next.venue)
          /\ UNCHANGED <<rows, request, wanted>>
    BY <1>5, ReloadMoves
  <2>2. next.venue \in Venues
    BY DEF AtWork
  <2>3. next.pc = "save" => /\ ~EditorHas(next.venue)
                            /\ UrlsOf(next.row.images) = wanted[next.venue]
    BY <2>1, <2>2 DEF OneHas, EditsKept, UrlsOf
  <2>4. EditsKept'
    BY <2>1 DEF OneHas, EditsKept
  <2>5. \A s \in Requests : request'[s].pc = "loaded" => Shows(request[s])'
    BY <2>1 DEF OneHas, Shows
  <2>6. \A q \in Procs, j \in Slots : worker'[q][j].pc = "save" =>
          /\ ~EditorHas(worker'[q][j].venue)
          /\ UrlsOf(worker'[q][j].row.images) = wanted[worker'[q][j].venue]
    BY <2>1, <2>3 DEF OneHas, Onward
  <2>7. \A u : EditorHas(u)' <=> EditorHas(u)
    BY <2>1 DEF EditorHas
  <2>8. \A q \in Procs, j \in Slots : worker'[q][j].pc = "save" => ~EditorHas(worker[q][j].venue)'
    BY <2>1, <2>6, <2>7 DEF EditorHas
  <2>. QED
    BY <2>1, <2>4, <2>5, <2>6, <2>8 DEF OneHas
<1>6. ASSUME NEW p \in Procs, NEW k \in Slots, NEW next, Dull(p, k, next) PROVE OneHas'
  BY <1>0, <1>6 DEF Dull, Onward
<1>7. ASSUME NEW p \in Procs, Started(p), UNCHANGED <<rows, request, wanted>> PROVE OneHas'
  BY <1>0, <1>7, StartedRows
<1>8. ASSUME NEW p \in Procs, Gone(p) PROVE OneHas'
  BY <1>0, <1>8, GoneMoves, StartedRows, NoRequestIs
<1>9. CASE UNCHANGED <<rows, queue, worker, request, wanted>>
  BY <1>0, <1>9
<1>. QED
  BY <1>1, <1>2, <1>3, <1>4, <1>5, <1>6, <1>7, <1>8, <1>9, StepCases

-----------------------------------------------------------------------------
(* The rest of the types.                                                  *)

\* A process is in one of its states, what the database failed are venues, and the
\* bounds hold.
Bounded ==
    /\ up \in [Procs -> {"resuming", "up", "stopping", "down"}]
    /\ dropped \subseteq Venues
    /\ edits \in 0..MaxEdits /\ faults \in 0..MaxFaults

LEMMA BoundsAre == MaxEdits \in Nat /\ MaxFaults \in Nat
BY RehostAssumption DEF RehostAssumption

LEMMA BoundedStep == Typed /\ Bounded /\ [Next]_vars => Bounded'
<1> SUFFICES ASSUME Typed, Bounded, [Next]_vars PROVE Bounded'
  OBVIOUS
<1> USE BoundsAre
<1>1. ASSUME NEW r \in Requests, RequestBegin(r) PROVE Bounded'
  <2>1. /\ edits < MaxEdits /\ edits' = edits + 1
        /\ UNCHANGED <<process, faults>>
    BY <1>1, BeginMoves DEF Begin
  <2>. QED
    BY <2>1 DEF Bounded, process
<1>2. ASSUME NEW r \in Requests, RequestSave(r) PROVE Bounded'
  BY <1>2 DEF RequestSave, Bounded, process, bounds
<1>3. ASSUME NEW r \in Requests, RequestEnqueue(r) PROVE Bounded'
  <2>1. dropped' \subseteq dropped /\ UNCHANGED <<up, bounds>>
    BY <1>3 DEF RequestEnqueue, Enqueue
  <2>. QED
    BY <2>1 DEF Bounded, bounds
<1>4. ASSUME NEW p \in Procs, NEW k \in Slots, WorkerStep(p, k) PROVE Bounded'
  <2>1. UNCHANGED <<up, dropped, bounds>>
    <3>1. CASE WorkerRead(p, k)
      BY <3>1 DEF WorkerRead, Work
    <3>2. CASE WorkerIngest(p, k)
      BY <3>2 DEF WorkerIngest, Work
    <3>3. CASE WorkerReload(p, k)
      BY <3>3 DEF WorkerReload, Work
    <3>4. CASE WorkerSave(p, k) \/ WorkerDone(p, k)
      BY <3>4 DEF WorkerSave, WorkerDone
    <3>. QED
      BY <1>4, <3>1, <3>2, <3>3, <3>4 DEF WorkerStep
  <2>. QED
    BY <2>1 DEF Bounded, bounds
<1>5. ASSUME NEW p \in Procs, NEW k \in Slots, WorkerFail(p, k) PROVE Bounded'
  <2>1. worker[p][k] \in AtWork
    BY <1>5, RestingIs DEF WorkerFail, Typed
  <2>2. worker[p][k].venue \in Venues
    BY <2>1 DEF AtWork
  <2>3. /\ dropped' = dropped \cup {worker[p][k].venue}
        /\ faults < MaxFaults /\ faults' = faults + 1 /\ UNCHANGED <<up, edits>>
    BY <1>5 DEF WorkerFail
  <2>. QED
    BY <2>2, <2>3 DEF Bounded
<1>6. ASSUME NEW p \in Procs, Exit(p) \/ Crash(p) PROVE Bounded'
  <2>1. /\ up' = [up EXCEPT ![p] = "down"] /\ UNCHANGED <<dropped, edits>>
        /\ \/ UNCHANGED faults
           \/ faults < MaxFaults /\ faults' = faults + 1
    BY <1>6 DEF Exit, Crash, Gone
  <2>. QED
    BY <2>1 DEF Bounded
<1>7. ASSUME NEW p \in Procs, Boot(p) PROVE Bounded'
  BY <1>7 DEF Boot, Bounded, bounds
<1>8. ASSUME NEW p \in Procs, Resume(p) PROVE Bounded'
  <2>1. /\ up' = [up EXCEPT ![p] = "up"] /\ dropped' \subseteq dropped
        /\ UNCHANGED bounds
    BY <1>8 DEF Resume, Enqueue
  <2>. QED
    BY <2>1 DEF Bounded, bounds
<1>9. ASSUME NEW p \in Procs, Stop(p) PROVE Bounded'
  BY <1>9 DEF Stop, Bounded
<1>10. CASE UNCHANGED vars
  BY <1>10 DEF Bounded, vars, process, bounds
<1>. QED
  BY <1>1, <1>2, <1>3, <1>4, <1>5, <1>6, <1>7, <1>8, <1>9, <1>10
     DEF Next, RequestStep, Restart

\* TypeOK forgets that a worker that ingests has a url, and what is told apart of the
\* fields of a worker or a request that rests.
LEMMA TypesAre == Typed /\ Bounded => TypeOK
<1> SUFFICES ASSUME Typed, Bounded PROVE TypeOK
  OBVIOUS
<1>1. \A w \in AtWork \cup {Resting} :
        /\ w \in [pc : {"idle", "read", "ingest", "reload", "save", "done"},
                  venue : Venues \cup {None}, row : Row,
                  url : Urls \cup {None}, copied : BOOLEAN]
        /\ w.pc = "idle" <=> w.venue = None
  <2>1. None \notin Venues
    BY RehostAssumption DEF RehostAssumption
  <2>2. ASSUME NEW w \in AtWork
        PROVE  /\ w \in [pc : {"idle", "read", "ingest", "reload", "save", "done"},
                         venue : Venues \cup {None}, row : Row,
                         url : Urls \cup {None}, copied : BOOLEAN]
               /\ w.pc # "idle" /\ w.venue \in Venues
    BY DEF AtWork
  <2>3. Resting \in [pc : {"idle", "read", "ingest", "reload", "save", "done"},
                     venue : Venues \cup {None}, row : Row,
                     url : Urls \cup {None}, copied : BOOLEAN]
    BY NoRowIs DEF Resting
  <2>. QED
    BY <2>1, <2>2, <2>3, RestingIs
<1>2. \A q \in Asked \cup {NoRequest} :
        q \in [pc : {"idle", "loaded", "saved"},
               kind : {None, "create", "update", "other", "retry", "delete"},
               venue : Venues \cup {None}, row : Row,
               proc : Procs \cup {None}, feeds : BOOLEAN, list : Edits \cup {<<>>}]
  <2>1. ASSUME NEW q \in Asked
        PROVE  q \in [pc : {"idle", "loaded", "saved"},
                      kind : {None, "create", "update", "other", "retry", "delete"},
                      venue : Venues \cup {None}, row : Row,
                      proc : Procs \cup {None}, feeds : BOOLEAN, list : Edits \cup {<<>>}]
    BY DEF Asked
  <2>2. NoRequest \in [pc : {"idle", "loaded", "saved"},
                       kind : {None, "create", "update", "other", "retry", "delete"},
                       venue : Venues \cup {None}, row : Row,
                       proc : Procs \cup {None}, feeds : BOOLEAN, list : Edits \cup {<<>>}]
    BY NoRowIs DEF NoRequest
  <2>. QED
    BY <2>1, <2>2
<1>3. \A p \in Procs, k \in Slots : worker[p][k] \in AtWork \cup {Resting}
  BY DEF Typed
<1>4. \A r \in Requests : request[r] \in Asked \cup {NoRequest}
  BY DEF Typed
<1>. QED
  BY <1>1, <1>2, <1>3, <1>4 DEF Typed, Bounded, TypeOK

-----------------------------------------------------------------------------
(* What the runs check, for any number of everything.                      *)

\* Rows, queues, workers and requests are what TypeOK says they are.
LEMMA TypesAlways == Spec => [](Typed /\ FoundIt)
BY InitHolds, TypedStep, PTL DEF Spec

\* A worker has a venue just when it does not rest, and a request on its way the row it
\* is to save: whatever processes start, stop or crash in between (pump, processVenue).
THEOREM RehostTypes == Spec => []TypeOK
<1>1. Init => Bounded
  BY BoundsAre DEF Init, Bounded
<1>. QED
  BY <1>1, InitHolds, BoundedStep, TypesAre, TypesAlways, PTL DEF Spec

\* No process ever works on a venue twice at once, or keeps it waiting twice or waiting
\* while it works on it (enqueue, pump): whatever editors and other processes do.
THEOREM VenuesWorkedOnce == Spec => []WorkedOnce
BY InitHolds, OnceStep, TypesAlways, PTL DEF Spec

\* No external image is ever forgotten, nor waited for and given up on at once, even
\* when workers and editors save over each other (advance, updateVenue): every save
\* writes a row that is consistent by itself.  It takes lists without duplicates:
\* advance swaps one image of a url and takes the url off pending.
THEOREM ImagesAreTracked == DistinctImages => (Spec => []ImagesTracked)
<1> SUFFICES ASSUME DistinctImages PROVE Spec => []ImagesTracked
  OBVIOUS
<1>1. RowsGood => ImagesTracked
  BY DEF RowsGood, Good, Tracked, ImagesTracked, Live
<1>. QED
  BY <1>1, InitHolds, GoodStep, TypesAlways, PTL DEF Spec

\* A venue shows the images its editor saved last, in that order, whatever workers of
\* however many processes do, as long as a venue is not saved while another has it
\* loaded (processVenue, advance).
THEOREM EditsAreKept == Races = FALSE => (Spec => []EditsKept)
<1> SUFFICES ASSUME Races = FALSE PROVE Spec => []EditsKept
  OBVIOUS
<1>1. OneHas => EditsKept
  BY DEF OneHas
<1>. QED
  BY <1>1, InitHolds, OneHasStep, TypesAlways, PTL DEF Spec
=============================================================================
