------------------------------- MODULE Reviews -------------------------------
(***************************************************************************)
(* ReviewsService: upsert and remove are transactions (READ COMMITTED) that*)
(* change a review, read the aggregate of the venue's reviews and write it *)
(* to the venue's row, whose lock they take only then.  An editor's save   *)
(* of the venue, which writes the columns in which the entity it loaded    *)
(* differs from the row, and the deletion of an account, whose reviews     *)
(* cascade, touch the same data.  Ratings are in hundredths of a star.     *)
(***************************************************************************)
EXTENDS Integers, FiniteSets, FiniteSetsExt, Functions

CONSTANTS Users, Venues, Sessions,
          Stars,                    \* the ratings a review may give
          ExternalRating, ExternalCount,   \* external_rating, external_review_count
          Deletable                 \* the users whose account may be deleted

ASSUME UsersAssumption == IsFiniteSet(Users)

\* UpsertReviewDto admits ratings from 1 to 5; no external source gives more.
ASSUME RatingsAssumption == /\ Stars \subseteq 100..500
                            /\ ExternalRating \in 0..500 /\ ExternalCount \in Nat

VARIABLES review,      \* review[u, v]: the committed rating, Unrated without one
          venue,       \* the rows of venues: rating and count
          accounts,    \* the users who have an account
          sess,        \* the requests and their transactions
          raced        \* history: venues whose last aggregate may have missed a review

vars == <<review, venue, accounts, sess, raced>>

Unrated == 0
Free == [op |-> "idle", step |-> "idle", u |-> Unrated, v |-> Unrated, star |-> Unrated,
         entity |-> "none", changed |-> FALSE, row |-> Unrated, alone |-> TRUE]
Keys == Users \X Venues
----------------------------------------------------------------------------
\* blendRating: the mean of the reviews and of the external ones, rounded to
\* hundredths, halves up.
Blend(sum, count) ==
    LET n == count + ExternalCount
        x == sum + ExternalRating * ExternalCount
    IN  [rating |-> IF n > 0 THEN (2 * x + n) \div (2 * n) ELSE 0, count |-> n]

\* AVG and COUNT over the reviews of v that a snapshot of the table holds.
Given(table, v) == [u \in {w \in Users : table[<<w, v>>] # Unrated} |-> table[<<u, v>>]]
Average(given) == Blend(FoldFunction(+, 0, given), Cardinality(DOMAIN given))
Aggregate(table, v) == Average(Given(table, v))

Live(s) == sess[s].step \notin {"idle", "done"}
On(v) == {s \in Sessions : Live(s) /\ sess[s].v = v}
Key(s) == <<sess[s].u, sess[s].v>>
Holds(s, key) == Live(s) /\ sess[s].changed /\ Key(s) = key
KeyFree(s) == \A t \in Sessions \ {s} : ~Holds(t, Key(s))
RowFree(s) == \A t \in Sessions \ {s} : sess[t].v = sess[s].v => sess[t].step # "commit"

\* What the transaction of s sees: what is committed, and its own change.
Seen(s) == IF sess[s].changed THEN [review EXCEPT ![Key(s)] = sess[s].star] ELSE review

To(s, step) == sess' = [sess EXCEPT ![s].step = step]
Done == [Free EXCEPT !.step = "done"]
End(s) == sess' = [sess EXCEPT ![s] = Done]

\* A request, when the reviews are those of table: the row it has found may be gone.
After(table, r) == IF r.entity \in {"row", "same"} /\ table[<<r.u, r.v>>] = Unrated
                   THEN [r EXCEPT !.entity = "gone"] ELSE r

Init ==
    /\ review = [k \in Keys |-> Unrated]
    /\ venue = [v \in Venues |-> Aggregate(review, v)]
    /\ accounts = Users
    /\ sess = [s \in Sessions |-> Free]
    /\ raced = {}

Begin(s, op, u, v, star) ==
    /\ sess[s].step = "idle"
    /\ op = "remove" <=> star = Unrated
    /\ sess' = [t \in Sessions |->
          IF t = s THEN [Free EXCEPT !.op = op, !.u = u, !.v = v, !.star = star,
                            !.step = "find", !.alone = On(v) = {}]
          ELSE IF t \in On(v) THEN [sess[t] EXCEPT !.alone = FALSE] ELSE sess[t]]
    /\ raced' = IF On(v) = {} THEN raced ELSE raced \cup {v}
    /\ UNCHANGED <<review, venue, accounts>>

FindReview(s) ==
    /\ sess[s].step = "find" /\ sess[s].op = "upsert"
    /\ LET found == review[Key(s)] # Unrated
       IN  sess' = [sess EXCEPT ![s].entity = IF found THEN "row" ELSE "new",
                                ![s].step = IF found THEN "reread" ELSE "save"]
    /\ UNCHANGED <<review, venue, accounts, raced>>

\* The save of a review that was found reads it again: one that is gone will be
\* inserted, of another the columns that differ are written.
RereadReview(s) ==
    /\ sess[s].step = "reread"
    /\ sess' = [sess EXCEPT
          ![s].entity = IF @ = "gone" THEN "new"
                        ELSE IF review[Key(s)] = sess[s].star THEN "same" ELSE "row",
          ![s].step = "save"]
    /\ UNCHANGED <<review, venue, accounts, raced>>

Change(s, star) == sess' = [sess EXCEPT ![s].changed = TRUE, ![s].star = star, ![s].step = "aggregate"]

\* The write waits for whoever has changed the review.  A second insert, and one
\* without the account, violate a constraint.  An update may be of the text
\* alone, or of nothing; of a row that is gone meanwhile it changes nothing.
SaveReview(s) ==
    /\ sess[s].step = "save"
    /\ \/ /\ sess[s].entity = "new" /\ KeyFree(s)
          /\ IF review[Key(s)] # Unrated \/ sess[s].u \notin accounts
             THEN End(s) ELSE Change(s, sess[s].star)
       \/ sess[s].entity = "row" /\ KeyFree(s) /\ Change(s, sess[s].star)
       \/ sess[s].entity = "same" /\ KeyFree(s) /\ Change(s, review[Key(s)])
       \/ sess[s].entity \in {"same", "gone"} /\ To(s, "aggregate")
    /\ UNCHANGED <<review, venue, accounts, raced>>

\* Nothing to delete: the transaction ends.  An insert not yet committed is not seen.
DeleteReview(s) ==
    /\ sess[s].step = "find" /\ sess[s].op = "remove"
    /\ IF review[Key(s)] = Unrated
       THEN End(s)
       ELSE KeyFree(s) /\ Change(s, Unrated)
    /\ UNCHANGED <<review, venue, accounts, raced>>

ReadAggregateBefore(s) ==
    /\ sess[s].step = "aggregate"
    /\ sess' = [sess EXCEPT ![s].row = Aggregate(review, sess[s].v), ![s].step = "update"]
    /\ UNCHANGED <<review, venue, accounts, raced>>
ReadAggregateZero(s) ==
    /\ sess[s].step = "aggregate"
    /\ sess' = [sess EXCEPT ![s].row = LET a == Aggregate(Seen(s), sess[s].v)
                                       IN  IF a.count = ExternalCount THEN [a EXCEPT !.rating = 0] ELSE a,
                            ![s].step = "update"]
    /\ UNCHANGED <<review, venue, accounts, raced>>
ReadAggregate(s) ==
    /\ sess[s].step = "aggregate"
    /\ sess' = [sess EXCEPT ![s].row = Aggregate(Seen(s), sess[s].v), ![s].step = "update"]
    /\ UNCHANGED <<review, venue, accounts, raced>>

UpdateVenue(s) ==
    /\ sess[s].step = "update" /\ RowFree(s)
    /\ To(s, "commit")
    /\ UNCHANGED <<review, venue, accounts, raced>>

Commit(s) ==
    /\ sess[s].step = "commit"
    /\ review' = Seen(s)
    /\ venue' = [venue EXCEPT ![sess[s].v] = sess[s].row]
    /\ raced' = IF sess[s].alone THEN raced \ {sess[s].v} ELSE raced
    /\ sess' = [t \in Sessions |-> IF t = s THEN Done ELSE After(review', sess[t])]
    /\ UNCHANGED accounts

\* A transaction that fails, or is cut by statement_timeout, leaves nothing.
Abort(s) ==
    /\ Live(s) /\ End(s)
    /\ UNCHANGED <<review, venue, accounts, raced>>
----------------------------------------------------------------------------
\* AdminCitiesVenuesService.updateVenue: load, reload and write of the row.
EditBegin(s, v) ==
    /\ sess[s].step = "idle"
    /\ sess' = [t \in Sessions |->
          IF t = s THEN [Free EXCEPT !.op = "edit", !.v = v, !.step = "reload",
                            !.row = <<venue[v], venue[v]>>, !.alone = FALSE]
          ELSE IF t \in On(v) THEN [sess[t] EXCEPT !.alone = FALSE] ELSE sess[t]]
    /\ raced' = IF On(v) = {} THEN raced ELSE raced \cup {v}
    /\ UNCHANGED <<review, venue, accounts>>

EditReload(s) ==
    /\ sess[s].step = "reload"
    /\ sess' = [sess EXCEPT ![s].row = <<@[1], venue[sess[s].v]>>, ![s].step = "write"]
    /\ UNCHANGED <<review, venue, accounts, raced>>

EditWrite(s) ==
    /\ sess[s].step = "write" /\ RowFree(s)
    /\ LET entity == sess[s].row[1]
           seen == sess[s].row[2]
       IN  venue' = [venue EXCEPT ![sess[s].v] =
              [c \in {"rating", "count"} |-> IF entity[c] # seen[c] THEN entity[c] ELSE @[c]]]
    /\ End(s)
    /\ UNCHANGED <<review, accounts, raced>>

\* The reviews of a deleted account go with it, as soon as no transaction holds
\* one; no aggregate is read again.
DeleteAccount(u) ==
    /\ u \in Deletable \cap accounts
    /\ \A s \in Sessions : Live(s) /\ sess[s].changed => sess[s].u # u
    /\ accounts' = accounts \ {u}
    /\ review' = [k \in Keys |-> IF k[1] = u THEN Unrated ELSE review[k]]
    /\ raced' = raced \cup {v \in Venues : review[<<u, v>>] # Unrated}
    /\ sess' = [s \in Sessions |->
          LET r == After(review', sess[s])
          IN  IF Live(s) /\ review[<<u, r.v>>] # Unrated THEN [r EXCEPT !.alone = FALSE] ELSE r]
    /\ UNCHANGED venue

Step(s) == \/ FindReview(s) \/ RereadReview(s) \/ SaveReview(s) \/ DeleteReview(s)
           \/ ReadAggregate(s) \/ UpdateVenue(s) \/ Commit(s) \/ EditReload(s) \/ EditWrite(s)

Next ==
    \/ \E s \in Sessions, u \in Users, v \in Venues :
          \/ \E star \in Stars : Begin(s, "upsert", u, v, star)
          \/ Begin(s, "remove", u, v, Unrated)
    \/ \E s \in Sessions, v \in Venues : EditBegin(s, v)
    \/ \E s \in Sessions : Step(s) \/ Abort(s)
    \/ \E u \in Users : DeleteAccount(u)

Spec == Init /\ [][Next]_vars
----------------------------------------------------------------------------
\* Rows and requests are of their types.
TypeOK ==
    /\ review \in [Keys -> Stars \cup {Unrated}]
    /\ venue \in [Venues -> [rating: 0..500, count: Nat]]
    /\ \A s \in Sessions : /\ DOMAIN sess[s] = DOMAIN Free
                           /\ sess[s].changed => Key(s) \in Keys
    /\ raced \subseteq Venues /\ accounts \subseteq Users

\* The rating and the count of a venue are those of its committed reviews and
\* the external ones, unless requests on it overlapped or an account with a
\* review of it was deleted; the next review that runs alone puts them right.
RatingExact == \A v \in Venues \ raced : venue[v] = Aggregate(review, v)

\* Whatever overlaps, the rating stays between the extremes of what it averages
\* and the count never falls below the external one.
RatingBounded ==
    \A v \in Venues :
        /\ venue[v].count \in ExternalCount..(ExternalCount + Cardinality(Users))
        /\ ExternalCount > 0 =>
              LET all == Stars \cup {ExternalRating}
              IN  venue[v].rating \in Min(all)..Max(all)
=============================================================================
