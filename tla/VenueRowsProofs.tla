---------------------------- MODULE VenueRowsProofs ----------------------------
(***************************************************************************)
(* Proofs about the parts of MCVenueRows, for all values of the constants: *)
(* reviews and ratings, the import scripts, the wards, a user's journey and*)
(* saved venues.  Each part is proved by itself, the last four as instances*)
(* whose properties are those of the promise modules.  For the exactness of*)
(* ratings it does not matter what Average of the function Given is; their *)
(* bounds follow from how its fold adds up and from the rounding.          *)
(***************************************************************************)
EXTENDS Reviews, ImportsPromise, WardsPromise, JourneyPromise, SavedPromise,
        FiniteSetTheorems, WellFoundedInduction, TLAPS

CONSTANTS Places, Data, Curated, MinRating, MinReviews, Bars, ReviewLimit, Count,
          MaxUploads, Touched,
          Editors, Seeds,
          JourneyVenues, JourneySessions, Workers, MaxVisits, Months

VARIABLES users, script, uploads,
          index, wardScript, edits, versions,
          healed, req, finding

I == INSTANCE Imports
W == INSTANCE Wards WITH script <- wardScript
J == INSTANCE Journey WITH Venues <- JourneyVenues, Sessions <- JourneySessions
S == INSTANCE SavedVenues WITH Sessions <- JourneySessions

\* What a part promises as an instance is what the promise modules say of the
\* composition: the definitions have the same bodies.
LEMMA ImportsSame ==
    /\ I!FilesKept => FilesKept
    /\ I!SavedIsThere => SavedIsThere
BY DEF FilesKept, I!FilesKept, SavedIsThere, I!SavedIsThere,
       Shown, I!Shown, Has, I!Has, Stock, I!Stock

LEMMA JourneySame == (J!JourneyComplete => JourneyComplete) /\ (J!FailsOnce => FailsOnce)
BY DEF JourneyComplete, J!JourneyComplete, Visited, J!Visited, FailsOnce, J!FailsOnce

LEMMA WardsSame == W!VenuesSettled => VenuesSettled
<1>1. \A t, ws : W!Hits(t, ws) = Hits(t, ws)
  BY DEF W!Hits, Hits
<1>2. \A hits : W!FirstHit(hits) = FirstHit(hits)
  BY DEF W!FirstHit, FirstHit
<1>3. \A t, ws : W!ResolveText(t, ws) = ResolveText(t, ws)
  BY <1>1, <1>2 DEF W!ResolveText, ResolveText
<1>4. \A a : W!Segments(a) = Segments(a)
  BY DEF W!Segments, Segments
<1>5. \A d, a, ws : W!ResolveVenue(d, a, ws) = ResolveVenue(d, a, ws)
  BY <1>2, <1>3, <1>4 DEF W!ResolveVenue, ResolveVenue
<1>6. \A a, b : W!Distance(a, b) = Distance(a, b)
  BY DEF W!Distance, Distance
<1>7. \A at, c, d : W!ByAnchor(at, c, d) = ByAnchor(at, c, d)
  BY <1>6 DEF W!ByAnchor, ByAnchor, W!Unresolved, Unresolved
<1>8. W!Published = Published /\ W!Coordinates = Coordinates /\ W!Unresolved = Unresolved
  BY DEF W!Published, Published, W!Coordinates, Coordinates, W!Unresolved, Unresolved
<1>9. \A hits, v : W!Or(hits) = Or(hits) /\ W!Ward(v) = Ward(v)
  BY <1>8 DEF W!Or, Or, W!Ward, Ward
<1>. QED
  BY <1>5, <1>7, <1>8, <1>9 DEF VenuesSettled, W!VenuesSettled

-----------------------------------------------------------------------------
(*  IMPORTS                                                                *)

ScriptFields == {"kind", "step", "apply", "cleanup", "bar", "todo", "cur", "match", "upload",
                 "cache", "queue", "imported"}
RowFields == {"ext", "source", "rating", "count", "images", "reviews", "blended", "deleted"}

IsScript(r) == r = [f \in ScriptFields |-> r[f]]
IsRow(row) == row = [f \in RowFields |-> row[f]]

ScriptTyped ==
    /\ venues = [s \in DOMAIN venues |-> venues[s]]
    /\ \A s \in DOMAIN venues : IsRow(venues[s])
    /\ uploads \in Nat
    /\ IsScript(script)

\* No upload is the photographs of two venues.
Photos ==
    /\ \A s \in DOMAIN venues : venues[s].images \in 0..uploads
    /\ \A s, t \in DOMAIN venues :
          venues[s].images = venues[t].images /\ venues[s].images # I!Stock => s = t

\* What a script has uploaded and not yet written is on the volume and nobody's.
Fresh ==
    script.step \in {"insert", "update"} =>
        /\ script.upload \in disk \cap 1..uploads
        /\ script.upload \notin script.queue
        /\ \A s \in DOMAIN venues : venues[s].images # script.upload
        /\ script.kind = "verify" => \A v \in script.todo : v.images # script.upload

\* The copies an audit works on: if their photographs are still a venue's, they
\* are that venue's whose copy it is.
Copies ==
    script.kind = "verify" =>
        /\ \A v \in script.todo :
              /\ v.slug \in DOMAIN venues /\ v.images \in 0..uploads
              /\ \A t \in DOMAIN venues :
                    v.images # I!Stock /\ venues[t].images = v.images => t = v.slug
        /\ script.step \in {"refresh", "upload", "update"} => script.cur \in script.todo

\* What is queued to be unlinked is shown by no venue.
Queued ==
    /\ script.queue \subseteq 1..uploads
    /\ \A s \in DOMAIN venues : I!Shown(s) => venues[s].images \notin script.queue

Kept == ScriptTyped /\ Photos /\ Fresh /\ Copies /\ Queued /\ I!FilesKept

-----------------------------------------------------------------------------
(* What the steps do to the script.                                        *)

LEMMA IdleIs ==
    /\ IsScript(I!Idle) /\ I!Idle.kind = "none" /\ I!Idle.step = "idle"
    /\ I!Idle.todo = {} /\ I!Idle.queue = {}
BY DEF I!Idle, IsScript, ScriptFields

LEMMA GoesIs ==
    ASSUME IsScript(script), NEW step, I!Goes(step)
    PROVE  /\ IsScript(script') /\ script'.step = step /\ script'.kind = script.kind
           /\ script'.todo = script.todo /\ script'.queue = script.queue
           /\ script'.cur = script.cur /\ script'.upload = script.upload
BY DEF I!Goes, IsScript, ScriptFields

LEMMA OnwardIs ==
    ASSUME NEW s, IsScript(s), I!Onward(s)
    PROVE  /\ IsScript(script') /\ script'.step = "next" /\ script'.kind = s.kind
           /\ script'.todo = s.todo \ {s.cur} /\ script'.queue = s.queue
BY DEF I!Onward, IsScript, ScriptFields

\* A script works on its list, and forgets of it.
Continues ==
    /\ IsScript(script')
    /\ script'.kind = "verify" =>
          /\ script.kind = "verify" /\ script'.todo \subseteq script.todo
          /\ script'.step \in {"refresh", "upload", "update"} => script'.cur \in script'.todo

\* One that moves on forgets of its queue, too, holds no upload and is not about
\* to mark anything.
Settles ==
    /\ Continues /\ script'.queue \subseteq script.queue
    /\ script'.step \notin {"insert", "update", "mark"}

LEMMA OnwardSettles ==
    ASSUME NEW s, IsScript(s), I!Onward(s), s.queue \subseteq script.queue, s.kind = script.kind,
           s.todo = script.todo
    PROVE  Settles
<1>1. /\ IsScript(script') /\ script'.step = "next" /\ script'.kind = s.kind
      /\ script'.todo = s.todo \ {s.cur} /\ script'.queue = s.queue
  BY OnwardIs
<1>. QED
  BY <1>1 DEF Settles, Continues

LEMMA IdleSettles == script' = I!Idle => Settles
<1>1. I!Idle.queue \subseteq script.queue
  BY IdleIs
<1>. QED
  BY <1>1, IdleIs DEF Settles, Continues

LEMMA SettlesKeeps ==
    ASSUME Kept, Settles, venues' = venues, disk \subseteq disk',
           uploads' \in Nat, uploads <= uploads'
    PROVE  Kept'
<1>1. uploads \in Nat
  BY DEF Kept, ScriptTyped
<1>2. \A n : n \in 0..uploads => n \in 0..uploads'
  BY <1>1
<1>3. \A n : n \in 1..uploads => n \in 1..uploads'
  BY <1>1
<1>4. ScriptTyped'
  BY DEF Kept, ScriptTyped, Settles, Continues
<1>5. Photos'
  BY <1>2 DEF Kept, Photos
<1>6. Fresh'
  BY DEF Fresh, Settles
<1>7. Copies'
  BY <1>2 DEF Kept, Copies, Settles, Continues
<1>8. Queued'
  BY <1>3 DEF Kept, Queued, Settles, I!Shown, I!Has
<1>9. I!FilesKept'
  BY DEF Kept, I!FilesKept, I!Shown, I!Has
<1>. QED
  BY <1>4, <1>5, <1>6, <1>7, <1>8, <1>9 DEF Kept

-----------------------------------------------------------------------------
(* Deletions and uploads of an audit.                                      *)

LEMMA DeleteRow ==
    ASSUME ScriptTyped, NEW s \in DOMAIN venues,
           venues' = [venues EXCEPT ![s].deleted = TRUE]
    PROVE  /\ DOMAIN venues' = DOMAIN venues
           /\ venues' = [t \in DOMAIN venues' |-> venues'[t]]
           /\ \A t \in DOMAIN venues :
                 /\ IsRow(venues'[t]) /\ venues'[t].images = venues[t].images
           /\ venues'[s].deleted = TRUE
           /\ \A t \in DOMAIN venues : t # s => venues'[t] = venues[t]
<1> DEFINE new == [venues[s] EXCEPT !.deleted = TRUE]
<1>1. IsRow(venues[s])
  BY DEF ScriptTyped
<1>2. IsRow(new) /\ new.images = venues[s].images /\ new.deleted = TRUE
  BY <1>1 DEF IsRow, RowFields
<1>3. venues' = [venues EXCEPT ![s] = new]
  OBVIOUS
<1> HIDE DEF new
<1>4. /\ DOMAIN venues' = DOMAIN venues /\ venues'[s] = new
      /\ venues' = [t \in DOMAIN venues' |-> venues'[t]]
      /\ \A t \in DOMAIN venues : t # s => venues'[t] = venues[t]
  BY <1>3 DEF ScriptTyped
<1>. QED
  BY <1>2, <1>4 DEF ScriptTyped

\* Deleting the copy v, with s the script's memory.
LEMMA DeleteKeeps ==
    ASSUME Kept, NEW v \in script.todo, NEW s, IsScript(s), I!Delete(v, s),
           script.kind = "verify", s.kind = "verify", s.todo = script.todo,
           s.queue = script.queue, disk \subseteq disk', uploads' \in Nat, uploads <= uploads'
    PROVE  Kept'
<1>1. CASE ~script.apply
  <2>1. I!Onward(s) /\ venues' = venues
    BY <1>1 DEF I!Delete
  <2>. QED
    BY <2>1, OnwardSettles, SettlesKeeps
<1>2. CASE script.apply
  <2> DEFINE queue == IF s.cleanup THEN s.queue \cup ({v.images} \ {I!Stock}) ELSE s.queue
             q == [s EXCEPT !.queue = queue]
  <2>1. I!Onward(q) /\ venues' = [venues EXCEPT ![v.slug].deleted = TRUE]
    BY <1>2 DEF I!Delete
  <2>2. IsScript(q) /\ q.kind = s.kind /\ q.todo = s.todo /\ q.queue = queue
    BY DEF IsScript, ScriptFields
  <2> HIDE DEF q
  <2>3. /\ IsScript(script') /\ script'.step = "next" /\ script'.kind = "verify"
        /\ script'.todo \subseteq script.todo /\ script'.queue = queue
    BY <2>1, <2>2, OnwardIs
  <2>4. /\ v.slug \in DOMAIN venues /\ v.images \in 0..uploads /\ uploads \in Nat
        /\ \A t \in DOMAIN venues : v.images # I!Stock /\ venues[t].images = v.images =>
                                       t = v.slug
    BY DEF Kept, Copies, ScriptTyped
  <2>5. /\ DOMAIN venues' = DOMAIN venues
        /\ venues' = [t \in DOMAIN venues' |-> venues'[t]]
        /\ \A t \in DOMAIN venues : IsRow(venues'[t]) /\ venues'[t].images = venues[t].images
        /\ venues'[v.slug].deleted = TRUE
        /\ \A t \in DOMAIN venues : t # v.slug => venues'[t] = venues[t]
    BY <2>1, <2>4, DeleteRow DEF Kept
  <2>6. ASSUME NEW t \in DOMAIN venues, I!Shown(t)' PROVE I!Shown(t) /\ t # v.slug
    BY <2>5, <2>6 DEF I!Shown, I!Has
  <2>7. ScriptTyped'
    BY <2>3, <2>5 DEF ScriptTyped
  <2>8. Photos'
    <3>1. \A n : n \in 0..uploads => n \in 0..uploads'
      BY <2>4
    <3>. QED
      BY <2>5, <3>1 DEF Kept, Photos
  <2>9. Fresh'
    BY <2>3 DEF Fresh
  <2>10. Copies'
    <3>1. \A n : n \in 0..uploads => n \in 0..uploads'
      BY <2>4
    <3>. QED
      BY <2>3, <2>5, <3>1 DEF Kept, Copies
  <2>11. Queued'
    <3>1. \A n : n \in 1..uploads => n \in 1..uploads'
      BY <2>4
    <3>2. v.images # I!Stock => v.images \in 1..uploads
      BY <2>4 DEF I!Stock
    <3>3. script'.queue \subseteq 1..uploads'
      BY <2>3, <3>1, <3>2 DEF Kept, Queued
    <3>4. ASSUME NEW t \in DOMAIN venues, I!Shown(t)' PROVE venues'[t].images \notin script'.queue
      BY <2>3, <2>4, <2>5, <2>6, <3>4 DEF Kept, Queued
    <3>. QED
      BY <2>5, <3>3, <3>4 DEF Queued
  <2>12. I!FilesKept'
    BY <2>5, <2>6 DEF Kept, I!FilesKept
  <2>. QED
    BY <2>7, <2>8, <2>9, <2>10, <2>11, <2>12 DEF Kept
<1>. QED
  BY <1>1, <1>2

LEMMA KeepOrDeleteKeeps ==
    ASSUME Kept, script.cur \in script.todo, NEW keep, I!KeepOrDelete(script.cur, keep),
           script.kind = "verify", disk \subseteq disk', uploads' \in Nat, uploads <= uploads'
    PROVE  Kept'
<1>1. IsScript(script)
  BY DEF Kept, ScriptTyped
<1>2. CASE keep
  <2>1. I!Onward(script) /\ venues' = venues
    BY <1>2 DEF I!KeepOrDelete
  <2>. QED
    BY <1>1, <2>1, OnwardSettles, SettlesKeeps
<1>3. CASE ~keep
  <2>1. I!Delete(script.cur, script)
    BY <1>3 DEF I!KeepOrDelete
  <2>. QED
    BY <1>1, <2>1, DeleteKeeps
<1>. QED
  BY <1>2, <1>3

\* An upload that the script goes on with.
LEMMA UploadKeeps ==
    ASSUME Kept, I!Uploaded, venues' = venues, NEW step \in {"insert", "update"},
           script' = [script EXCEPT !.step = step, !.upload = uploads + 1],
           script.kind = "verify" => script.cur \in script.todo
    PROVE  Kept'
<1>1. /\ uploads \in Nat /\ uploads' = uploads + 1 /\ disk' = disk \cup {uploads'}
      /\ \A n : n \in 0..uploads => n \in 0..uploads' /\ n # uploads'
      /\ \A n : n \in 1..uploads => n \in 1..uploads' /\ n # uploads'
      /\ uploads' \in 1..uploads'
  BY DEF Kept, ScriptTyped, I!Uploaded
<1>2. /\ IsScript(script') /\ script'.step = step /\ script'.kind = script.kind
      /\ script'.todo = script.todo /\ script'.queue = script.queue
      /\ script'.cur = script.cur /\ script'.upload = uploads'
  BY <1>1 DEF Kept, ScriptTyped, IsScript, ScriptFields
<1>3. ScriptTyped'
  BY <1>1, <1>2 DEF Kept, ScriptTyped
<1>4. Photos'
  BY <1>1 DEF Kept, Photos
<1>5. Fresh'
  <2>1. uploads' \in disk' /\ uploads' \notin script.queue
    BY <1>1 DEF Kept, Queued
  <2>2. \A s \in DOMAIN venues : venues[s].images # uploads'
    BY <1>1 DEF Kept, Photos
  <2>3. script.kind = "verify" => \A v \in script.todo : v.images # uploads'
    BY <1>1 DEF Kept, Copies
  <2>. QED
    BY <1>1, <1>2, <2>1, <2>2, <2>3 DEF Fresh
<1>6. Copies'
  BY <1>1, <1>2 DEF Kept, Copies
<1>7. Queued'
  BY <1>1, <1>2 DEF Kept, Queued, I!Shown, I!Has
<1>8. I!FilesKept'
  BY <1>1 DEF Kept, I!FilesKept, I!Shown, I!Has
<1>. QED
  BY <1>3, <1>4, <1>5, <1>6, <1>7, <1>8 DEF Kept

-----------------------------------------------------------------------------
(* Rows written.                                                           *)

\* The table has another row for s, or a row more.
Wrote(s, row) ==
    /\ DOMAIN venues' = DOMAIN venues \cup {s}
    /\ venues' = [t \in DOMAIN venues' |-> venues'[t]]
    /\ venues'[s] = row /\ IsRow(row)
    /\ \A t \in DOMAIN venues : t # s => venues'[t] = venues[t]

LEMMA Added ==
    ASSUME ScriptTyped, NEW s, s \notin DOMAIN venues, NEW row, IsRow(row), venues' = I!With(s,
           row)
    PROVE  Wrote(s, row)
BY DEF ScriptTyped, I!With, Wrote

LEMMA Changed ==
    ASSUME ScriptTyped, NEW s \in DOMAIN venues, NEW row, IsRow(row),
           venues' = [venues EXCEPT ![s] = row]
    PROVE  Wrote(s, row)
BY DEF ScriptTyped, Wrote

LEMMA InsertWrites ==
    ASSUME Kept, I!InsertVenue
    PROVE  \E row : Wrote(I!Slug, row) /\ row.images = script.upload
<1> DEFINE p == script.cur
           row == I!Row(p, "google", Data[p].rating, Data[p].count, script.upload, I!Written[p])
<1>1. I!Slug \notin DOMAIN venues /\ venues' = I!With(I!Slug, row)
  BY DEF I!InsertVenue, I!Has
<1> HIDE DEF row
<1>2. IsRow(row) /\ row.images = script.upload
  BY DEF row, I!Row, IsRow, RowFields
<1>. QED
  BY <1>1, <1>2, Added DEF Kept

LEMMA SeedWrites ==
    ASSUME Kept, NEW s, I!SeedCurated(s)
    PROVE  \E row : Wrote(s, row) /\ row.images = I!Stock
<1> DEFINE row == I!Row(None, "curated", 450, 0, I!Stock, {})
<1>1. s \notin DOMAIN venues /\ venues' = I!With(s, row)
  BY DEF I!SeedCurated, I!Has
<1> HIDE DEF row
<1>2. IsRow(row) /\ row.images = I!Stock
  BY DEF row, I!Row, IsRow, RowFields
<1>. QED
  BY <1>1, <1>2, Added DEF Kept

LEMMA UpdateWrites ==
    ASSUME Kept, I!UpdateVenue
    PROVE  \E row : /\ Wrote(script.cur.slug, row) /\ row.images = script.upload
                    /\ row.deleted = venues[script.cur.slug].deleted
<1> DEFINE p == script.match
           s == script.cur.slug
           local == {r \in venues[s].reviews : r.who \notin users}
           first == I!Row(p, "google", Data[p].rating, Data[p].count, script.upload, I!Written[p])
           row == [first EXCEPT !.reviews = @ \cup local, !.deleted = venues[s].deleted]
<1>1. venues' = [venues EXCEPT ![s] = row]
  BY DEF I!UpdateVenue
<1>2. s \in DOMAIN venues
  BY DEF Kept, Copies, I!UpdateVenue, I!Running
<1> HIDE DEF first, local, s
<1>3. IsRow(first) /\ first.images = script.upload
  BY DEF first, I!Row, IsRow, RowFields
<1>4. IsRow(row) /\ row.images = script.upload /\ row.deleted = venues[s].deleted
  BY <1>3 DEF IsRow, RowFields
<1> HIDE DEF row
<1>5. Wrote(s, row)
  BY <1>1, <1>2, <1>4, Changed DEF Kept
<1>. QED
  BY <1>4, <1>5 DEF s

LEMMA EditWrites ==
    ASSUME Kept, NEW s, I!EditPhotos(s)
    PROVE  \E row : /\ Wrote(s, row) /\ row.images = uploads + 1
                    /\ row.deleted = venues[s].deleted
<1> DEFINE row == [venues[s] EXCEPT !.images = uploads + 1]
<1>1. s \in DOMAIN venues /\ venues' = [venues EXCEPT ![s] = row]
  BY DEF I!EditPhotos, I!Shown, I!Has
<1>2. IsRow(venues[s])
  BY <1>1 DEF Kept, ScriptTyped
<1>3. /\ IsRow(row) /\ row.images = uploads + 1
      /\ row.deleted = venues[s].deleted
  BY <1>2 DEF IsRow, RowFields
<1> HIDE DEF row
<1>. QED
  BY <1>1, <1>3, Changed DEF Kept

LEMMA ReviewWrites ==
    ASSUME Kept, NEW s, I!LocalReview(s)
    PROVE  \E row : /\ Wrote(s, row) /\ row.images = venues[s].images
                    /\ row.deleted = venues[s].deleted
<1> DEFINE reviews == venues[s].reviews \cup {[who |-> "local", stars |-> 5]}
<1>1. /\ s \in DOMAIN venues
      /\ venues' = [venues EXCEPT ![s].reviews = reviews, ![s].blended = reviews]
  BY DEF I!LocalReview, I!Shown, I!Has
<1>2. IsRow(venues[s])
  BY <1>1 DEF Kept, ScriptTyped
<1> HIDE DEF reviews
<1> DEFINE row == [venues[s] EXCEPT !.reviews = reviews, !.blended = reviews]
<1>3. /\ IsRow(row) /\ row.images = venues[s].images
      /\ row.deleted = venues[s].deleted
  BY <1>2 DEF IsRow, RowFields
<1>4. venues' = [venues EXCEPT ![s] = row]
  BY <1>1 DEF Kept, ScriptTyped
<1> HIDE DEF row
<1>. QED
  BY <1>1, <1>3, <1>4, Changed DEF Kept

\* The row of s is new or another, with photographs that nobody else has.
LEMMA WriteKeeps ==
    ASSUME Kept, NEW s, NEW row, Wrote(s, row), Continues, Fresh',
           uploads' \in Nat, uploads <= uploads',
           row.images \in 0..uploads',
           row.images # I!Stock =>
              /\ \A t \in DOMAIN venues \ {s} : venues[t].images # row.images
              /\ script'.kind = "verify" =>
                    \A v \in script'.todo : v.images = row.images => v.slug = s,
           ~row.deleted => /\ row.images \notin script'.queue
                           /\ row.images # I!Stock => row.images \in disk',
           \A t \in DOMAIN venues \ {s} :
              I!Shown(t) /\ venues[t].images # I!Stock => venues[t].images \in disk',
           script'.queue \subseteq 1..uploads,
           \A t \in DOMAIN venues \ {s} : I!Shown(t) => venues[t].images \notin script'.queue
    PROVE  Kept'
<1>1. /\ uploads \in Nat
      /\ \A n : n \in 0..uploads => n \in 0..uploads'
      /\ \A n : n \in 1..uploads => n \in 1..uploads'
  BY DEF Kept, ScriptTyped
<1>2. ScriptTyped'
  BY DEF Kept, ScriptTyped, Wrote, Continues
<1>3. Photos'
  <2>1. \A t \in DOMAIN venues' : venues'[t].images \in 0..uploads'
    BY <1>1 DEF Kept, Photos, Wrote
  <2>2. ASSUME NEW t \in DOMAIN venues', NEW x \in DOMAIN venues',
               venues'[t].images = venues'[x].images, venues'[t].images # I!Stock
        PROVE  t = x
    <3>1. CASE t = s \/ x = s
      BY <2>2, <3>1 DEF Wrote
    <3>2. CASE t # s /\ x # s
      BY <2>2, <3>2 DEF Kept, Photos, Wrote
    <3>. QED
      BY <3>1, <3>2
  <2>. QED
    BY <2>1, <2>2 DEF Photos
<1>5. Copies'
  <2>1. ASSUME script'.kind = "verify"
        PROVE  /\ script.kind = "verify" /\ script'.todo \subseteq script.todo
               /\ script'.step \in {"refresh", "upload", "update"} => script'.cur \in script'.todo
    BY <2>1 DEF Continues
  <2>2. ASSUME script'.kind = "verify", NEW v \in script'.todo, NEW t \in DOMAIN venues',
               v.images # I!Stock, venues'[t].images = v.images
        PROVE  t = v.slug
    <3>1. CASE t = s
      BY <2>2, <3>1 DEF Wrote
    <3>2. CASE t # s
      BY <2>1, <2>2, <3>2 DEF Kept, Copies, Wrote
    <3>. QED
      BY <3>1, <3>2
  <2>3. ASSUME script'.kind = "verify", NEW v \in script'.todo
        PROVE  v.slug \in DOMAIN venues' /\ v.images \in 0..uploads'
    BY <1>1, <2>1, <2>3 DEF Kept, Copies, Wrote
  <2>. QED
    BY <2>1, <2>2, <2>3 DEF Copies
<1>6. Queued'
  <2>1. ASSUME NEW t \in DOMAIN venues', I!Shown(t)' PROVE venues'[t].images \notin script'.queue
    <3>1. CASE t # s
      BY <2>1, <3>1 DEF I!Shown, I!Has, Wrote
    <3>2. CASE t = s
      BY <2>1, <3>2 DEF I!Shown, Wrote
    <3>. QED
      BY <3>1, <3>2
  <2>. QED
    BY <1>1, <2>1 DEF Queued
<1>7. I!FilesKept'
  <2>1. ASSUME NEW t \in DOMAIN venues', I!Shown(t)', venues'[t].images # I!Stock
        PROVE  venues'[t].images \in disk'
    <3>1. CASE t # s
      BY <2>1, <3>1 DEF I!Shown, I!Has, Wrote
    <3>2. CASE t = s
      BY <2>1, <3>2 DEF I!Shown, Wrote
    <3>. QED
      BY <3>1, <3>2
  <2>. QED
    BY <2>1 DEF I!FilesKept
<1>. QED
  BY <1>2, <1>3, <1>5, <1>6, <1>7 DEF Kept

LEMMA InsertKeeps == ASSUME Kept, I!InsertVenue PROVE Kept'
<1>1. PICK row : Wrote(I!Slug, row) /\ row.images = script.upload
  BY InsertWrites
<1>2. /\ script.kind = "import" /\ script.step = "insert"
      /\ script' = [script EXCEPT !.step = "mark", !.cache = @ \cup I!Handles[script.cur]]
      /\ disk' = disk /\ uploads' = uploads
  BY DEF I!InsertVenue, I!Running
<1>3. /\ IsScript(script') /\ script'.step = "mark" /\ script'.kind = "import"
      /\ script'.queue = script.queue
  BY <1>2 DEF Kept, ScriptTyped, IsScript, ScriptFields
<1>4. /\ script.upload \in disk /\ script.upload \in 1..uploads
      /\ script.upload \notin script.queue
      /\ \A t \in DOMAIN venues : venues[t].images # script.upload
  BY <1>2 DEF Kept, Fresh
<1>5. uploads \in Nat /\ script.upload \in 0..uploads
  BY <1>4 DEF Kept, ScriptTyped
<1>6. Continues /\ Fresh'
  BY <1>3 DEF Continues, Fresh
<1>7. \A t \in DOMAIN venues :
         I!Shown(t) => /\ venues[t].images # I!Stock => venues[t].images \in disk'
                     /\ venues[t].images \notin script'.queue
  BY <1>2, <1>3 DEF Kept, I!FilesKept, Queued
<1>8. script'.queue \subseteq 1..uploads
  BY <1>3 DEF Kept, Queued
<1>. QED
  BY <1>1, <1>2, <1>3, <1>4, <1>5, <1>6, <1>7, <1>8, WriteKeeps

LEMMA UpdateKeeps == ASSUME Kept, I!UpdateVenue PROVE Kept'
<1> DEFINE v == script.cur
           queue == IF script.cleanup THEN script.queue \cup ({v.images} \ {I!Stock}) ELSE script.queue
           q == [script EXCEPT !.cache = @ \cup I!Handles[script.match], !.queue = queue]
<1>1. PICK row : /\ Wrote(v.slug, row) /\ row.images = script.upload
                 /\ row.deleted = venues[v.slug].deleted
  BY UpdateWrites
<1>2. /\ script.kind = "verify" /\ script.step = "update"
      /\ I!Onward(q) /\ disk' = disk /\ uploads' = uploads
  BY DEF I!UpdateVenue, I!Running
<1>3. /\ IsScript(q) /\ q.kind = "verify" /\ q.todo = script.todo /\ q.queue = queue
  BY <1>2 DEF Kept, ScriptTyped, IsScript, ScriptFields
<1> HIDE DEF q
<1>4. /\ IsScript(script') /\ script'.step = "next" /\ script'.kind = "verify"
      /\ script'.todo \subseteq script.todo /\ script'.queue = queue
  BY <1>2, <1>3, OnwardIs
<1>5. /\ script.upload \in disk /\ script.upload \in 1..uploads
      /\ script.upload \notin script.queue
      /\ \A t \in DOMAIN venues : venues[t].images # script.upload
      /\ \A w \in script.todo : w.images # script.upload
  BY <1>2 DEF Kept, Fresh
<1>6. uploads \in Nat /\ script.upload \in 0..uploads
  BY <1>5 DEF Kept, ScriptTyped
<1>7. Continues /\ Fresh'
  BY <1>2, <1>4 DEF Continues, Fresh
<1>8. /\ v \in script.todo /\ v.images \in 0..uploads /\ v.images # script.upload
      /\ \A t \in DOMAIN venues : v.images # I!Stock /\ venues[t].images = v.images => t = v.slug
  BY <1>2, <1>5 DEF Kept, Copies
<1>9. \A t \in DOMAIN venues \ {v.slug} :
         I!Shown(t) => /\ venues[t].images # I!Stock => venues[t].images \in disk'
                     /\ venues[t].images \notin script'.queue
  BY <1>2, <1>4, <1>8 DEF Kept, I!FilesKept, Queued
<1>10. script'.queue \subseteq 1..uploads
  <2>1. v.images # I!Stock => v.images \in 1..uploads
    BY <1>6, <1>8 DEF I!Stock
  <2>. QED
    BY <1>4, <2>1 DEF Kept, Queued
<1>11. script.upload \notin script'.queue
  BY <1>4, <1>5, <1>8
<1>12. \A w \in script'.todo : w.images # row.images
  BY <1>1, <1>4, <1>5
<1> HIDE DEF v
<1>. QED
  BY <1>1, <1>2, <1>5, <1>6, <1>7, <1>9, <1>10, <1>11, <1>12, WriteKeeps

LEMMA SeedKeeps == ASSUME Kept, NEW s, I!SeedCurated(s) PROVE Kept'
<1>1. PICK row : Wrote(s, row) /\ row.images = I!Stock
  BY SeedWrites
<1>2. script' = I!Idle /\ disk' = disk /\ uploads' = uploads
  BY DEF I!SeedCurated
<1>4. Continues /\ Fresh'
  BY <1>2, IdleIs DEF Continues, Fresh
<1>5. uploads \in Nat /\ row.images \in 0..uploads
  BY <1>1 DEF Kept, ScriptTyped, I!Stock
<1>6. /\ \A t \in DOMAIN venues : I!Shown(t) /\ venues[t].images # I!Stock =>
                                     venues[t].images \in disk'
      /\ script'.queue = {}
  BY <1>2, IdleIs DEF Kept, I!FilesKept
<1>. QED
  BY <1>1, <1>2, <1>4, <1>5, <1>6, WriteKeeps

LEMMA EditKeeps == ASSUME Kept, NEW s, I!EditPhotos(s) PROVE Kept'
<1>1. PICK row : /\ Wrote(s, row) /\ row.images = uploads + 1
                 /\ row.deleted = venues[s].deleted
  BY EditWrites
<1>2. /\ script' = script /\ uploads' = uploads + 1 /\ s \in DOMAIN venues
      /\ disk' = (disk \cup {uploads + 1}) \ {venues[s].images}
  BY DEF I!EditPhotos, I!Shown, I!Has
<1>3. /\ uploads \in Nat
      /\ \A n : n \in 0..uploads => n # uploads + 1 /\ n \in 0..uploads'
      /\ \A n : n \in 1..uploads => n # uploads + 1 /\ n \in 1..uploads'
  BY <1>2 DEF Kept, ScriptTyped
<1>4. Continues
  BY <1>2 DEF Kept, ScriptTyped, Copies, Continues
<1>5. /\ venues[s].images \in 0..uploads
      /\ \A t \in DOMAIN venues \ {s} :
            venues[t].images \in 0..uploads
            /\ (venues[t].images # I!Stock => venues[t].images # venues[s].images)
  BY <1>2 DEF Kept, Photos
<1>6. Fresh'
  <2> SUFFICES ASSUME script.step \in {"insert", "update"}
      PROVE  /\ script.upload \in disk' \cap 1..uploads'
             /\ script.upload \notin script.queue
             /\ \A t \in DOMAIN venues' : venues'[t].images # script.upload
             /\ script.kind = "verify" => \A v \in script.todo : v.images # script.upload
    BY <1>2 DEF Fresh
  <2>1. /\ script.upload \in disk /\ script.upload \in 1..uploads
        /\ script.upload \notin script.queue
        /\ \A t \in DOMAIN venues : venues[t].images # script.upload
        /\ script.kind = "verify" => \A v \in script.todo : v.images # script.upload
    BY DEF Kept, Fresh
  <2>2. script.upload \in disk' /\ script.upload \in 1..uploads'
    BY <1>2, <1>3, <2>1
  <2>3. \A t \in DOMAIN venues' : venues'[t].images # script.upload
    BY <1>1, <1>3, <2>1 DEF Wrote
  <2>. QED
    BY <2>1, <2>2, <2>3
<1>7. \A t \in DOMAIN venues \ {s} :
         I!Shown(t) => /\ venues[t].images # I!Stock => venues[t].images \in disk'
                     /\ venues[t].images \notin script'.queue
  BY <1>2, <1>5 DEF Kept, I!FilesKept, Queued
<1>8. script'.queue \subseteq 1..uploads /\ row.images \notin script'.queue
  BY <1>1, <1>2, <1>3 DEF Kept, Queued
<1>9. row.images \in disk' /\ row.images \in 0..uploads'
  BY <1>1, <1>2, <1>3, <1>5
<1>10. /\ \A t \in DOMAIN venues \ {s} : venues[t].images # row.images
       /\ script'.kind = "verify" => \A v \in script'.todo : v.images # row.images
  BY <1>1, <1>2, <1>3, <1>5 DEF Kept, Copies
<1>11. uploads' \in Nat /\ uploads <= uploads'
  BY <1>2, <1>3
<1>. QED
  BY <1>1, <1>4, <1>6, <1>7, <1>8, <1>9, <1>10, <1>11, WriteKeeps

LEMMA ReviewKeeps == ASSUME Kept, NEW s, I!LocalReview(s) PROVE Kept'
<1>1. PICK row : /\ Wrote(s, row) /\ row.images = venues[s].images
                 /\ row.deleted = venues[s].deleted
  BY ReviewWrites
<1>2. /\ script' = script /\ uploads' = uploads /\ disk' = disk
      /\ s \in DOMAIN venues /\ I!Shown(s)
  BY DEF I!LocalReview, I!Shown, I!Has
<1>3. Continues /\ uploads \in Nat
  BY <1>2 DEF Kept, ScriptTyped, Copies, Continues
<1>4. /\ row.images \in 0..uploads
      /\ row.images # I!Stock => \A t \in DOMAIN venues \ {s} : venues[t].images # row.images
  BY <1>1, <1>2 DEF Kept, Photos
<1>5. Fresh'
  BY <1>1, <1>2 DEF Kept, Fresh, Wrote
<1>6. \A t \in DOMAIN venues :
         I!Shown(t) => /\ venues[t].images # I!Stock => venues[t].images \in disk'
                     /\ venues[t].images \notin script'.queue
  BY <1>2 DEF Kept, I!FilesKept, Queued
<1>7. script'.queue \subseteq 1..uploads
  BY <1>2 DEF Kept, Queued
<1>8. row.images # I!Stock /\ script'.kind = "verify" =>
         \A v \in script'.todo : v.images = row.images => v.slug = s
  BY <1>1, <1>2 DEF Kept, Copies
<1>. QED
  BY <1>1, <1>2, <1>3, <1>4, <1>5, <1>6, <1>7, <1>8, WriteKeeps

-----------------------------------------------------------------------------
(* The other steps.                                                        *)

LEMMA ImportKeeps ==
    ASSUME Kept,
           \/ \E apply \in BOOLEAN : I!StartImport(apply)
           \/ \E p \in Places : I!TakePlace(p)
           \/ \E answer \in I!Answers : I!FetchPlace(answer)
           \/ \E enough \in BOOLEAN : I!UploadPlace(enough)
           \/ I!MarkSaved \/ I!EndImport \/ I!Crash
           \/ \E outage \in BOOLEAN : I!InsertFails(outage)
    PROVE  Kept'
<1>0. IsScript(script) /\ uploads \in Nat /\ IsScript(I!Idle)
  BY IdleIs DEF Kept, ScriptTyped
<1>1. ASSUME NEW apply \in BOOLEAN, I!StartImport(apply) PROVE Kept'
  <2>1. PICK todo : script' = [I!Idle EXCEPT !.kind = "import", !.step = "next",
                                           !.apply = apply, !.todo = todo]
    BY <1>1 DEF I!StartImport
  <2>2. /\ IsScript(script') /\ script'.kind = "import" /\ script'.step = "next"
        /\ script'.queue = {}
    BY <1>0, <2>1, IdleIs DEF IsScript, ScriptFields
  <2>3. Settles
    BY <2>2 DEF Settles, Continues
  <2>4. venues' = venues /\ disk' = disk /\ uploads' = uploads
    BY <1>1 DEF I!StartImport
  <2>. QED
    BY <1>0, <2>3, <2>4, SettlesKeeps
<1>2. ASSUME NEW p \in Places, I!TakePlace(p) PROVE Kept'
  <2>1. /\ script.kind = "import" /\ script.step = "next"
        /\ \/ script' = [script EXCEPT !.todo = @ \ {p}]
           \/ script' = [script EXCEPT !.cur = p, !.step = "place"]
    BY <1>2 DEF I!TakePlace, I!Running
  <2>2. /\ IsScript(script') /\ script'.kind = "import" /\ script'.step \in {"next", "place"}
        /\ script'.queue = script.queue
    BY <1>0, <2>1 DEF IsScript, ScriptFields
  <2>3. Settles
    BY <2>2 DEF Settles, Continues
  <2>4. venues' = venues /\ disk' = disk /\ uploads' = uploads
    BY <1>2 DEF I!TakePlace
  <2>. QED
    BY <1>0, <2>3, <2>4, SettlesKeeps
<1>3. ASSUME NEW answer \in I!Answers, I!FetchPlace(answer) PROVE Kept'
  <2> DEFINE more == [script EXCEPT !.imported = @ + 1]
  <2>1. script.kind = "import" /\ (I!Goes("upload") \/ I!Onward(more) \/ I!Onward(script))
    BY <1>3 DEF I!FetchPlace, I!Running
  <2>2. /\ IsScript(more) /\ more.kind = script.kind /\ more.todo = script.todo
        /\ more.queue = script.queue
    BY <1>0 DEF IsScript, ScriptFields
  <2> HIDE DEF more
  <2>3. CASE I!Goes("upload")
    <3>1. /\ IsScript(script') /\ script'.step = "upload" /\ script'.kind = "import"
          /\ script'.queue = script.queue
      BY <1>0, <2>1, <2>3, GoesIs
    <3>2. Settles
      BY <3>1 DEF Settles, Continues
    <3>. QED
      BY <1>0, <1>3, <3>2, SettlesKeeps DEF I!FetchPlace
  <2>4. CASE I!Onward(more) \/ I!Onward(script)
    <3>1. Settles
      BY <1>0, <2>2, <2>4, OnwardSettles
    <3>. QED
      BY <1>0, <1>3, <3>1, SettlesKeeps DEF I!FetchPlace
  <2>. QED
    BY <2>1, <2>3, <2>4
<1>4. ASSUME NEW enough \in BOOLEAN, I!UploadPlace(enough) PROVE Kept'
  <2>1. I!Uploaded /\ venues' = venues /\ script.kind = "import"
    BY <1>4 DEF I!UploadPlace, I!Running
  <2>2. CASE enough
    <3>1. script' = [script EXCEPT !.step = "insert", !.upload = uploads + 1]
      BY <1>4, <2>2 DEF I!UploadPlace
    <3>. QED
      BY <2>1, <3>1, UploadKeeps
  <2>3. CASE ~enough
    <3>1. I!Onward(script)
      BY <1>4, <2>3 DEF I!UploadPlace
    <3>2. Settles
      BY <1>0, <3>1, OnwardSettles
    <3>3. disk \subseteq disk' /\ uploads' \in Nat /\ uploads <= uploads'
      BY <1>0, <2>1 DEF I!Uploaded
    <3>. QED
      BY <2>1, <3>2, <3>3, SettlesKeeps
  <2>. QED
    BY <2>2, <2>3
<1>5. ASSUME I!MarkSaved PROVE Kept'
  <2> DEFINE more == [script EXCEPT !.imported = @ + 1]
  <2>1. I!Onward(more)
    BY <1>5 DEF I!MarkSaved
  <2>2. /\ IsScript(more) /\ more.kind = script.kind /\ more.todo = script.todo
        /\ more.queue = script.queue
    BY <1>0 DEF IsScript, ScriptFields
  <2> HIDE DEF more
  <2>3. Settles
    BY <2>1, <2>2, OnwardSettles
  <2>. QED
    BY <1>0, <1>5, <2>3, SettlesKeeps DEF I!MarkSaved
<1>6. ASSUME I!EndImport \/ I!Crash PROVE Kept'
  <2>1. Settles
    BY <1>6, IdleSettles DEF I!EndImport, I!Crash
  <2>. QED
    BY <1>0, <1>6, <2>1, SettlesKeeps DEF I!EndImport, I!Crash
<1>7. ASSUME NEW outage \in BOOLEAN, I!InsertFails(outage) PROVE Kept'
  <2>1. PICK seen : I!Onward([script EXCEPT !.cache = @ \cup seen])
    BY <1>7 DEF I!InsertFails
  <2> DEFINE more == [script EXCEPT !.cache = @ \cup seen]
  <2>2. /\ IsScript(more) /\ more.kind = script.kind /\ more.todo = script.todo
        /\ more.queue = script.queue
    BY <1>0 DEF IsScript, ScriptFields
  <2>3. I!Onward(more)
    BY <2>1
  <2> HIDE DEF more
  <2>4. Settles
    BY <2>2, <2>3, OnwardSettles
  <2>. QED
    BY <1>0, <1>7, <2>4, SettlesKeeps DEF I!InsertFails
<1>. QED
  BY <1>1, <1>2, <1>3, <1>4, <1>5, <1>6, <1>7

\* The copies of the rows below the bar are those of the rows as they are.
LEMMA StartVerifyKeeps ==
    ASSUME Kept, NEW bar, NEW apply, NEW cleanup, I!StartVerify(bar, apply, cleanup)
    PROVE  Kept'
<1>0. PICK some \in SUBSET {r \in I!Slugs : I!Has(r) /\ I!Failing(venues[r], bar)} :
         LET todo == {I!Copy(s) : s \in some}
         IN  /\ todo # {}
             /\ script' = [I!Idle EXCEPT !.kind = "verify", !.step = "next", !.apply = apply,
                                        !.cleanup = cleanup, !.bar = bar, !.todo = todo]
  BY DEF I!StartVerify
<1> DEFINE todo == {I!Copy(s) : s \in some}
           new == [I!Idle EXCEPT !.kind = "verify", !.step = "next", !.apply = apply,
                               !.cleanup = cleanup, !.bar = bar, !.todo = todo]
<1>1. script' = new /\ venues' = venues /\ disk' = disk /\ uploads' = uploads
  BY <1>0 DEF I!StartVerify
<1>2. ASSUME NEW v \in todo
      PROVE  v.slug \in DOMAIN venues /\ v.images = venues[v.slug].images
  <2>1. PICK s \in DOMAIN venues : v = I!Copy(s)
    BY <1>0 DEF I!Has
  <2>. QED
    BY <2>1 DEF I!Copy
<1> HIDE DEF todo
<1>3. /\ IsScript(new) /\ new.kind = "verify" /\ new.step = "next"
      /\ new.todo = todo /\ new.queue = {}
  BY IdleIs DEF IsScript, ScriptFields
<1> HIDE DEF new
<1>4. ScriptTyped' /\ Photos' /\ I!FilesKept'
  BY <1>1, <1>3 DEF Kept, ScriptTyped, Photos, I!FilesKept, I!Shown, I!Has
<1>5. Fresh' /\ Queued'
  BY <1>1, <1>3 DEF Fresh, Queued
<1>6. Copies'
  BY <1>1, <1>2, <1>3 DEF Kept, Photos, Copies
<1>. QED
  BY <1>4, <1>5, <1>6 DEF Kept

LEMMA AuditKeeps == ASSUME Kept, NEW v \in script.todo, I!Audit(v) PROVE Kept'
<1> DEFINE s == [script EXCEPT !.cur = v]
<1>1. /\ script.kind = "verify" /\ disk' = disk /\ uploads' = uploads /\ uploads \in Nat
      /\ IsScript(script)
  BY DEF Kept, ScriptTyped, I!Audit, I!Running
<1>2. CASE v.images # I!Stock /\ ~v.fake
  <2>1. I!Delete(v, s)
    BY <1>2 DEF I!Audit
  <2>2. IsScript(s) /\ s.kind = "verify" /\ s.todo = script.todo /\ s.queue = script.queue
    BY <1>1 DEF IsScript, ScriptFields
  <2> HIDE DEF s
  <2>. QED
    BY <1>1, <2>1, <2>2, DeleteKeeps
<1>3. CASE ~(v.images # I!Stock /\ ~v.fake)
  <2>1. script' = [script EXCEPT !.step = "refresh", !.cur = v] /\ venues' = venues
    BY <1>3 DEF I!Audit
  <2>2. /\ IsScript(script') /\ script'.kind = "verify" /\ script'.step = "refresh"
        /\ script'.todo = script.todo /\ script'.queue = script.queue /\ script'.cur = v
    BY <1>1, <2>1 DEF IsScript, ScriptFields
  <2>3. Settles
    BY <1>1, <2>2 DEF Settles, Continues
  <2>. QED
    BY <1>1, <2>1, <2>3, SettlesKeeps
<1>. QED
  BY <1>2, <1>3

\* An audit has a row in hand.
LEMMA InHand ==
    ASSUME Kept, NEW step \in {"refresh", "upload", "update"}, I!Running("verify", step)
    PROVE  /\ script.kind = "verify" /\ script.cur \in script.todo /\ IsScript(script)
           /\ uploads \in Nat
BY DEF Kept, ScriptTyped, Copies, I!Running

LEMMA WithoutKeeps == ASSUME Kept, NEW answer, I!RefreshWithout(answer) PROVE Kept'
<1>1. /\ script.kind = "verify" /\ script.cur \in script.todo /\ IsScript(script)
      /\ uploads \in Nat /\ disk' = disk /\ uploads' = uploads
  BY InHand DEF I!RefreshWithout
<1>2. CASE answer = "error"
  <2>1. I!Onward(script) /\ venues' = venues
    BY <1>2 DEF I!RefreshWithout
  <2>2. Settles
    BY <1>1, <2>1, OnwardSettles
  <2>. QED
    BY <1>1, <2>1, <2>2, SettlesKeeps
<1>3. CASE answer # "error"
  <2>1. I!KeepOrDelete(script.cur, script.cur.source = "curated" /\ answer = "none")
    BY <1>3 DEF I!RefreshWithout
  <2>. QED
    BY <1>1, <2>1, KeepOrDeleteKeeps
<1>. QED
  BY <1>2, <1>3

LEMMA RefreshKeeps == ASSUME Kept, NEW p, NEW photos, I!Refresh(p, photos) PROVE Kept'
<1>1. /\ script.kind = "verify" /\ script.cur \in script.todo /\ IsScript(script)
      /\ uploads \in Nat /\ disk' = disk /\ uploads' = uploads
  BY InHand DEF I!Refresh
<1>2. \/ I!Delete(script.cur, script)
      \/ I!KeepOrDelete(script.cur, script.cur.source = "curated")
      \/ script' = [script EXCEPT !.match = p, !.step = "upload"] /\ venues' = venues
      \/ I!Onward(script) /\ venues' = venues
  BY DEF I!Refresh
<1>3. CASE I!Delete(script.cur, script)
  BY <1>1, <1>3, DeleteKeeps
<1>4. CASE I!KeepOrDelete(script.cur, script.cur.source = "curated")
  BY <1>1, <1>4, KeepOrDeleteKeeps
<1>5. CASE script' = [script EXCEPT !.match = p, !.step = "upload"] /\ venues' = venues
  <2>1. /\ IsScript(script') /\ script'.kind = "verify" /\ script'.step = "upload"
        /\ script'.todo = script.todo /\ script'.queue = script.queue
        /\ script'.cur = script.cur
    BY <1>1, <1>5 DEF IsScript, ScriptFields
  <2>2. Settles
    BY <1>1, <2>1 DEF Settles, Continues
  <2>. QED
    BY <1>1, <1>5, <2>2, SettlesKeeps
<1>6. CASE I!Onward(script) /\ venues' = venues
  <2>1. Settles
    BY <1>1, <1>6, OnwardSettles
  <2>. QED
    BY <1>1, <1>6, <2>1, SettlesKeeps
<1>. QED
  BY <1>2, <1>3, <1>4, <1>5, <1>6

LEMMA MatchKeeps == ASSUME Kept, NEW enough, I!UploadMatch(enough) PROVE Kept'
<1>1. /\ script.kind = "verify" /\ script.cur \in script.todo /\ IsScript(script)
      /\ uploads \in Nat /\ I!Uploaded
  BY InHand DEF I!UploadMatch
<1>2. CASE enough
  <2>1. script' = [script EXCEPT !.step = "update", !.upload = uploads + 1] /\ venues' = venues
    BY <1>2 DEF I!UploadMatch
  <2>. QED
    BY <1>1, <2>1, UploadKeeps
<1>3. CASE ~enough
  <2>1. I!KeepOrDelete(script.cur, script.cur.source = "curated")
    BY <1>3 DEF I!UploadMatch
  <2>2. disk \subseteq disk' /\ uploads' \in Nat /\ uploads <= uploads'
    BY <1>1 DEF I!Uploaded
  <2>. QED
    BY <1>1, <2>1, <2>2, KeepOrDeleteKeeps
<1>. QED
  BY <1>2, <1>3

LEMMA UpdateFailsKeeps == ASSUME Kept, NEW outage, I!UpdateFails(outage) PROVE Kept'
<1>1. PICK seen : I!Onward([script EXCEPT !.cache = @ \cup seen])
  BY DEF I!UpdateFails
<1> DEFINE more == [script EXCEPT !.cache = @ \cup seen]
<1>2. /\ IsScript(more) /\ more.kind = script.kind /\ more.todo = script.todo
      /\ more.queue = script.queue /\ uploads \in Nat
  BY DEF Kept, ScriptTyped, IsScript, ScriptFields
<1>3. I!Onward(more)
  BY <1>1
<1> HIDE DEF more
<1>4. Settles
  BY <1>2, <1>3, OnwardSettles
<1>. QED
  BY <1>2, <1>4, SettlesKeeps DEF I!UpdateFails

\* What is unlinked was queued, and nothing that is queued is shown.
LEMMA EndVerifyKeeps == ASSUME Kept, NEW removed, I!EndVerify(removed) PROVE Kept'
<1>1. /\ script' = I!Idle /\ venues' = venues /\ uploads' = uploads
      /\ removed \subseteq script.queue /\ disk' = disk \ removed
  BY DEF I!EndVerify
<1>2. ScriptTyped' /\ Photos'
  BY <1>1, IdleIs DEF Kept, ScriptTyped, Photos
<1>3. Fresh' /\ Copies' /\ Queued'
  BY <1>1, IdleIs DEF Fresh, Copies, Queued
<1>4. I!FilesKept'
  BY <1>1 DEF Kept, I!FilesKept, Queued, I!Shown, I!Has
<1>. QED
  BY <1>2, <1>3, <1>4 DEF Kept

LEMMA EmptyKeeps ==
    ASSUME venues' = <<>>, script' = I!Idle, uploads' \in Nat
    PROVE  Kept'
<1>1. DOMAIN venues' = {} /\ venues' = [s \in DOMAIN venues' |-> venues'[s]]
  OBVIOUS
<1>2. ScriptTyped'
  BY <1>1, IdleIs DEF ScriptTyped
<1>3. Photos' /\ I!FilesKept'
  BY <1>1 DEF Photos, I!FilesKept
<1>4. Fresh' /\ Copies'
  BY IdleIs DEF Fresh, Copies
<1>5. Queued'
  BY <1>1, IdleIs DEF Queued
<1>. QED
  BY <1>2, <1>3, <1>4, <1>5 DEF Kept

LEMMA NextKeeps == ASSUME Kept, [I!Next]_(I!vars) PROVE Kept'
<1>1. CASE \/ \E apply \in BOOLEAN : I!StartImport(apply)
           \/ \E p \in Places : I!TakePlace(p)
           \/ \E answer \in I!Answers : I!FetchPlace(answer)
           \/ \E enough \in BOOLEAN : I!UploadPlace(enough)
           \/ I!MarkSaved \/ I!EndImport \/ I!Crash
           \/ \E outage \in BOOLEAN : I!InsertFails(outage)
  BY <1>1, ImportKeeps
<1>2. CASE I!InsertVenue
  BY <1>2, InsertKeeps
<1>3. CASE I!UpdateVenue
  BY <1>3, UpdateKeeps
<1>4. CASE I!Reset
  <2>1. venues' = <<>> /\ script' = I!Idle /\ uploads' = uploads /\ uploads \in Nat
    BY <1>4 DEF I!Reset, Kept, ScriptTyped
  <2>. QED
    BY <2>1, EmptyKeeps
<1>5. CASE \E bar \in Bars, apply, cleanup \in BOOLEAN : I!StartVerify(bar, apply, cleanup)
  BY <1>5, StartVerifyKeeps
<1>6. CASE \E v \in script.todo : I!Audit(v)
  BY <1>6, AuditKeeps
<1>7. CASE \E answer \in {"error", "none", "gone"} : I!RefreshWithout(answer)
  BY <1>7, WithoutKeeps
<1>8. CASE \E p \in Places, photos \in BOOLEAN : I!Refresh(p, photos)
  BY <1>8, RefreshKeeps
<1>9. CASE \E enough \in BOOLEAN : I!UploadMatch(enough)
  BY <1>9, MatchKeeps
<1>10. CASE \E outage \in BOOLEAN : I!UpdateFails(outage)
  BY <1>10, UpdateFailsKeeps
<1>11. CASE \E removed \in SUBSET script.queue : I!EndVerify(removed)
  BY <1>11, EndVerifyKeeps
<1>12. CASE \E s \in Curated : I!SeedCurated(s)
  BY <1>12, SeedKeeps
<1>13. CASE \E s \in Touched : I!EditPhotos(s) \/ I!LocalReview(s)
  BY <1>13, EditKeeps, ReviewKeeps
<1>14. CASE UNCHANGED I!vars
  BY <1>14 DEF I!vars, Kept, ScriptTyped, Photos, Fresh, Copies, Queued, I!FilesKept, I!Shown,
     I!Has
<1>. QED
  BY <1>1, <1>2, <1>3, <1>4, <1>5, <1>6, <1>7, <1>8, <1>9, <1>10, <1>11, <1>12, <1>13,
     <1>14 DEF I!Next

LEMMA InitKept == I!Init => Kept
<1> SUFFICES ASSUME I!Init PROVE Kept
  OBVIOUS
<1>1. venues = <<>> /\ script = I!Idle /\ uploads = 0
  BY DEF I!Init
<1>2. DOMAIN venues = {} /\ venues = [s \in DOMAIN venues |-> venues[s]]
  BY <1>1
<1>3. ScriptTyped
  BY <1>1, <1>2, IdleIs DEF ScriptTyped
<1>4. Photos /\ I!FilesKept
  BY <1>2 DEF Photos, I!FilesKept
<1>5. Fresh /\ Copies
  BY <1>1, IdleIs DEF Fresh, Copies
<1>6. Queued
  BY <1>1, <1>2, IdleIs DEF Queued
<1>. QED
  BY <1>3, <1>4, <1>5, <1>6 DEF Kept

\* A venue that is shown has the files of its photographs, whatever imports and
\* audits do and wherever they fail or are killed.
THEOREM FilesAreKept == I!Spec => []FilesKept
<1>1. I!Init => Kept
  BY InitKept
<1>2. Kept /\ [I!Next]_(I!vars) => Kept'
  BY NextKeeps
<1>3. Kept => I!FilesKept
  BY DEF Kept
<1>4. I!FilesKept => FilesKept
  BY ImportsSame
<1>. QED
  BY <1>1, <1>2, <1>3, <1>4, PTL DEF I!Spec

-----------------------------------------------------------------------------
(* The rows that are written, and the progress file.                       *)

Writes == \E s, row : Wrote(s, row)

LEMMA DeleteWrites ==
    ASSUME Kept, NEW v \in script.todo, NEW s, I!Delete(v, s), script.kind = "verify"
    PROVE  venues' = venues \/ Writes
<1>1. CASE ~script.apply
  BY <1>1 DEF I!Delete
<1>2. CASE script.apply
  <2>1. venues' = [venues EXCEPT ![v.slug].deleted = TRUE] /\ v.slug \in DOMAIN venues
    BY <1>2 DEF I!Delete, Kept, Copies
  <2> DEFINE x == v.slug
             row == venues'[x]
  <2> HIDE DEF x
  <2>2. /\ DOMAIN venues' = DOMAIN venues
        /\ venues' = [t \in DOMAIN venues' |-> venues'[t]]
        /\ IsRow(row)
        /\ \A t \in DOMAIN venues : t # x => venues'[t] = venues[t]
    BY <2>1, DeleteRow DEF Kept, x
  <2>3. x \in DOMAIN venues
    BY <2>1 DEF x
  <2>4. Wrote(x, row)
    BY <2>2, <2>3 DEF Wrote
  <2>. QED
    BY <2>4 DEF Writes
<1>. QED
  BY <1>1, <1>2

LEMMA KeepOrDeleteWrites ==
    ASSUME Kept, NEW v \in script.todo, NEW keep, I!KeepOrDelete(v, keep), script.kind = "verify"
    PROVE  venues' = venues \/ Writes
BY DeleteWrites DEF I!KeepOrDelete

LEMMA RowsWritten ==
    ASSUME Kept, [I!Next]_(I!vars)
    PROVE  venues' = venues \/ Writes \/ I!Reset
<1>1. CASE \/ \E apply \in BOOLEAN : I!StartImport(apply)
           \/ \E p \in Places : I!TakePlace(p)
           \/ \E answer \in I!Answers : I!FetchPlace(answer)
           \/ \E enough \in BOOLEAN : I!UploadPlace(enough)
           \/ I!MarkSaved \/ I!EndImport \/ I!Crash
           \/ \E outage \in BOOLEAN : I!InsertFails(outage)
  BY <1>1 DEF I!StartImport, I!TakePlace, I!FetchPlace, I!UploadPlace, I!MarkSaved, I!EndImport,
     I!Crash,
              I!InsertFails
<1>2. CASE I!InsertVenue
  BY <1>2, InsertWrites DEF Writes
<1>3. CASE I!UpdateVenue
  BY <1>3, UpdateWrites DEF Writes
<1>4. CASE I!Reset
  BY <1>4
<1>5. CASE \/ \E bar \in Bars, apply, cleanup \in BOOLEAN : I!StartVerify(bar, apply, cleanup)
           \/ \E outage \in BOOLEAN : I!UpdateFails(outage)
           \/ \E removed \in SUBSET script.queue : I!EndVerify(removed)
  BY <1>5 DEF I!StartVerify, I!UpdateFails, I!EndVerify
<1>6. CASE \E v \in script.todo : I!Audit(v)
  <2>1. PICK v \in script.todo : I!Audit(v)
    BY <1>6
  <2>2. \/ I!Delete(v, [script EXCEPT !.cur = v])
        \/ venues' = venues
    BY <2>1 DEF I!Audit
  <2>3. script.kind = "verify"
    BY <2>1 DEF I!Audit, I!Running
  <2>. QED
    BY <2>2, <2>3, DeleteWrites
<1>7. CASE \E answer \in {"error", "none", "gone"} : I!RefreshWithout(answer)
  <2>1. PICK answer \in {"error", "none", "gone"} : I!RefreshWithout(answer)
    BY <1>7
  <2>2. /\ script.kind = "verify" /\ script.cur \in script.todo
        /\ \/ I!KeepOrDelete(script.cur, script.cur.source = "curated" /\ answer = "none")
           \/ venues' = venues
    BY <2>1, InHand DEF I!RefreshWithout
  <2>. QED
    BY <2>2, KeepOrDeleteWrites
<1>8. CASE \E p \in Places, photos \in BOOLEAN : I!Refresh(p, photos)
  <2>1. PICK p \in Places, photos \in BOOLEAN : I!Refresh(p, photos)
    BY <1>8
  <2>2. /\ script.kind = "verify" /\ script.cur \in script.todo
        /\ \/ I!Delete(script.cur, script)
           \/ I!KeepOrDelete(script.cur, script.cur.source = "curated")
           \/ venues' = venues
    BY <2>1, InHand DEF I!Refresh
  <2>. QED
    BY <2>2, KeepOrDeleteWrites, DeleteWrites
<1>9. CASE \E enough \in BOOLEAN : I!UploadMatch(enough)
  <2>1. PICK enough \in BOOLEAN : I!UploadMatch(enough)
    BY <1>9
  <2>2. /\ script.kind = "verify" /\ script.cur \in script.todo
        /\ \/ I!KeepOrDelete(script.cur, script.cur.source = "curated")
           \/ venues' = venues
    BY <2>1, InHand DEF I!UploadMatch
  <2>. QED
    BY <2>2, KeepOrDeleteWrites
<1>10. CASE \E s \in Curated : I!SeedCurated(s)
  BY <1>10, SeedWrites DEF Writes
<1>11. CASE \E s \in Touched : I!EditPhotos(s) \/ I!LocalReview(s)
  <2>1. PICK s : I!EditPhotos(s) \/ I!LocalReview(s)
    BY <1>11
  <2>2. CASE I!EditPhotos(s)
    <3>1. s \in DOMAIN venues
      BY <2>2 DEF I!EditPhotos, I!Shown, I!Has
    <3>. QED
      BY <2>2, <3>1, EditWrites DEF Writes
  <2>3. CASE I!LocalReview(s)
    BY <2>3, ReviewWrites DEF Writes
  <2>. QED
    BY <2>1, <2>2, <2>3
<1>12. CASE UNCHANGED I!vars
  BY <1>12 DEF I!vars
<1>. QED
  BY <1>1, <1>2, <1>3, <1>4, <1>5, <1>6, <1>7, <1>8, <1>9, <1>10, <1>11, <1>12 DEF I!Next

-----------------------------------------------------------------------------
\* The row that is about to be marked is in the table, and so is what is marked.
Marked == ~reset => /\ \A s \in DOMAIN progress : progress[s] = "saved" => I!Has(s)
                    /\ script.step = "mark" => I!Has(I!Slug)

\* Only the insertion of a row leads to its mark.
LEMMA OnlyInsertMarks ==
    ASSUME Kept, I!Next, script'.step = "mark"
    PROVE  I!InsertVenue \/ script' = script
<1>0. IsScript(script) /\ I!Idle.step = "idle"
  BY IdleIs DEF Kept, ScriptTyped
<1>1. \A s : IsScript(s) /\ I!Onward(s) => FALSE
  BY OnwardIs
<1>2. ASSUME NEW v, NEW s, IsScript(s), I!Delete(v, s) PROVE FALSE
  <2> DEFINE q == [s EXCEPT !.queue = IF s.cleanup THEN @ \cup ({v.images} \ {I!Stock}) ELSE @]
  <2>1. I!Onward(q) \/ I!Onward(s)
    BY <1>2 DEF I!Delete
  <2>2. IsScript(q)
    BY <1>2 DEF IsScript, ScriptFields
  <2> HIDE DEF q
  <2>. QED
    BY <1>1, <1>2, <2>1, <2>2
<1>3. ASSUME NEW v, NEW keep, I!KeepOrDelete(v, keep) PROVE FALSE
  BY <1>0, <1>1, <1>2, <1>3 DEF I!KeepOrDelete
<1>4. ASSUME NEW cache, NEW n, NEW queue PROVE
        /\ IsScript([script EXCEPT !.imported = n])
        /\ IsScript([script EXCEPT !.cache = cache])
        /\ IsScript([script EXCEPT !.cache = cache, !.queue = queue])
        /\ IsScript([script EXCEPT !.cur = n])
  BY <1>0 DEF IsScript, ScriptFields
<1>5. ASSUME NEW apply \in BOOLEAN, I!StartImport(apply) PROVE FALSE
  <2>1. PICK todo : script' = [I!Idle EXCEPT !.kind = "import", !.step = "next",
                                           !.apply = apply, !.todo = todo]
    BY <1>5 DEF I!StartImport
  <2>2. script'.step = "next"
    BY <2>1, IdleIs DEF IsScript, ScriptFields
  <2>. QED
    BY <2>2
<1>6. ASSUME NEW p \in Places, I!TakePlace(p) PROVE FALSE
  <2>1. /\ script.step = "next"
        /\ \/ script' = [script EXCEPT !.todo = @ \ {p}]
           \/ script' = [script EXCEPT !.cur = p, !.step = "place"]
    BY <1>6 DEF I!TakePlace, I!Running
  <2>2. script'.step \in {"next", "place"}
    BY <1>0, <2>1 DEF IsScript, ScriptFields
  <2>. QED
    BY <2>2
<1>7. ASSUME NEW answer \in I!Answers, I!FetchPlace(answer) PROVE FALSE
  <2>1. I!Goes("upload") \/ I!Onward([script EXCEPT !.imported = script.imported + 1]) \/ I!Onward(script)
    BY <1>7 DEF I!FetchPlace
  <2>2. ~I!Goes("upload")
    BY <1>0, GoesIs
  <2>. QED
    BY <1>0, <1>1, <1>4, <2>1, <2>2
<1>8. ASSUME NEW enough \in BOOLEAN, I!UploadPlace(enough) \/ I!UploadMatch(enough) PROVE FALSE
  <2>1. \/ script' = [script EXCEPT !.step = "insert", !.upload = uploads + 1]
        \/ script' = [script EXCEPT !.step = "update", !.upload = uploads + 1]
        \/ I!Onward(script) \/ I!KeepOrDelete(script.cur, script.cur.source = "curated")
    BY <1>8 DEF I!UploadPlace, I!UploadMatch
  <2>2. ~(\/ script' = [script EXCEPT !.step = "insert", !.upload = uploads + 1]
          \/ script' = [script EXCEPT !.step = "update", !.upload = uploads + 1])
    BY <1>0 DEF IsScript, ScriptFields
  <2>. QED
    BY <1>0, <1>1, <1>3, <2>1, <2>2
<1>9. ASSUME I!MarkSaved PROVE FALSE
  BY <1>0, <1>1, <1>4, <1>9 DEF I!MarkSaved
<1>10. ASSUME I!EndImport \/ I!Crash PROVE FALSE
  BY <1>0, <1>10 DEF I!EndImport, I!Crash
<1>11. ASSUME I!UpdateVenue PROVE FALSE
  BY <1>1, <1>4, <1>11 DEF I!UpdateVenue
<1>12. ASSUME NEW outage \in BOOLEAN, I!InsertFails(outage) \/ I!UpdateFails(outage) PROVE FALSE
  <2>1. PICK seen : I!Onward([script EXCEPT !.cache = @ \cup seen])
    BY <1>12 DEF I!InsertFails, I!UpdateFails
  <2>. QED
    BY <1>1, <1>4, <2>1
<1>13. ASSUME NEW bar, NEW apply, NEW cleanup, I!StartVerify(bar, apply, cleanup) PROVE FALSE
  <2>1. PICK todo : script' = [I!Idle EXCEPT !.kind = "verify", !.step = "next", !.apply = apply,
                                           !.cleanup = cleanup, !.bar = bar, !.todo = todo]
    BY <1>13 DEF I!StartVerify
  <2>2. script'.step = "next"
    BY <2>1, IdleIs DEF IsScript, ScriptFields
  <2>. QED
    BY <2>2
<1>14. ASSUME NEW v, I!Audit(v) PROVE FALSE
  <2>1. \/ I!Delete(v, [script EXCEPT !.cur = v])
        \/ script' = [script EXCEPT !.step = "refresh", !.cur = v]
    BY <1>14 DEF I!Audit
  <2>2. script' # [script EXCEPT !.step = "refresh", !.cur = v]
    BY <1>0 DEF IsScript, ScriptFields
  <2>. QED
    BY <1>2, <1>4, <2>1, <2>2
<1>15. ASSUME NEW answer, I!RefreshWithout(answer) PROVE FALSE
  BY <1>0, <1>1, <1>3, <1>15 DEF I!RefreshWithout
<1>16. ASSUME NEW p, NEW photos, I!Refresh(p, photos) PROVE FALSE
  <2>1. \/ I!Delete(script.cur, script)
        \/ I!KeepOrDelete(script.cur, script.cur.source = "curated")
        \/ script' = [script EXCEPT !.match = p, !.step = "upload"]
        \/ I!Onward(script)
    BY <1>16 DEF I!Refresh
  <2>2. script' # [script EXCEPT !.match = p, !.step = "upload"]
    BY <1>0 DEF IsScript, ScriptFields
  <2>. QED
    BY <1>0, <1>1, <1>2, <1>3, <2>1, <2>2
<1>17. ASSUME NEW removed, I!EndVerify(removed) PROVE FALSE
  BY <1>0, <1>17 DEF I!EndVerify
<1>18. ASSUME NEW s, I!SeedCurated(s) \/ I!EditPhotos(s) \/ I!LocalReview(s) \/ I!Reset
       PROVE  script' = script
  BY <1>18 DEF I!SeedCurated, I!EditPhotos, I!LocalReview, I!Reset
<1>. QED
  BY <1>5, <1>6, <1>7, <1>8, <1>9, <1>10, <1>11, <1>12, <1>13, <1>14, <1>15, <1>16, <1>17,
     <1>18 DEF I!Next

\* Only a mark adds to what is saved.
LEMMA OnlyMarkSaves ==
    ASSUME I!Next
    PROVE  /\ DOMAIN progress' = DOMAIN progress
           /\ I!MarkSaved \/ \A s \in DOMAIN progress : progress'[s] = "saved" =>
                 progress[s] = "saved"
<1>1. \/ progress' = progress
      \/ I!MarkSaved
      \/ \E x, y : y # "saved" /\ progress' = [progress EXCEPT ![x] = y]
  <2>1. ASSUME NEW p, I!TakePlace(p)
        PROVE  progress' = progress \/ \E x : progress' = [progress EXCEPT ![x] = "skipped"]
    BY <2>1 DEF I!TakePlace
  <2>2. ASSUME NEW answer, I!FetchPlace(answer)
        PROVE  \/ progress' = progress
               \/ \E x, y : y # "saved" /\ progress' = [progress EXCEPT ![x] = y]
    <3>1. CASE answer = "ok"
      BY <2>2, <3>1 DEF I!FetchPlace
    <3>2. CASE answer = "skipped"
      BY <2>2, <3>2 DEF I!FetchPlace
    <3>3. CASE answer # "ok" /\ answer # "skipped"
      BY <2>2, <3>3 DEF I!FetchPlace
    <3>. QED
      BY <3>1, <3>2, <3>3
  <2>3. ASSUME NEW enough, I!UploadPlace(enough)
        PROVE  progress' = progress \/ \E x : progress' = [progress EXCEPT ![x] = "again"]
    BY <2>3 DEF I!UploadPlace
  <2>4. ASSUME NEW outage, I!InsertFails(outage)
        PROVE  \E x : progress' = [progress EXCEPT ![x] = "again"]
    BY <2>4 DEF I!InsertFails
  <2>. QED
    BY <2>1, <2>2, <2>3, <2>4 DEF I!Next, I!StartImport, I!UploadMatch, I!InsertVenue,
       I!EndImport,
       I!UpdateVenue, I!Crash, I!Reset, I!UpdateFails, I!StartVerify, I!Audit, I!RefreshWithout,
       I!Refresh,
       I!EndVerify, I!SeedCurated, I!EditPhotos, I!LocalReview
<1>. QED
  BY <1>1 DEF I!MarkSaved

LEMMA MarkKeeps == ASSUME Kept, Marked, [I!Next]_(I!vars) PROVE Marked'
<1>1. CASE UNCHANGED I!vars
  BY <1>1 DEF I!vars, Marked, I!Has, I!Slug
<1>2. CASE I!Reset
  BY <1>2 DEF I!Reset, Marked
<1>3. CASE I!Next /\ ~I!Reset
  <2> SUFFICES ASSUME ~reset'
      PROVE  /\ \A s \in DOMAIN progress' : progress'[s] = "saved" => I!Has(s)'
             /\ script'.step = "mark" => I!Has(I!Slug)'
    BY DEF Marked
  <2>1. ~reset
    BY <1>3 DEF I!Next, I!StartImport, I!TakePlace, I!FetchPlace, I!UploadPlace, I!UploadMatch,
       I!InsertVenue,
       I!MarkSaved, I!EndImport, I!UpdateVenue, I!Crash, I!InsertFails, I!UpdateFails,
       I!StartVerify, I!Audit,
       I!RefreshWithout, I!Refresh, I!EndVerify, I!SeedCurated, I!EditPhotos, I!LocalReview
  <2>2. \A s : I!Has(s) => I!Has(s)'
    BY <1>3, RowsWritten DEF I!Has, Writes, Wrote
  <2>3. ASSUME NEW s \in DOMAIN progress', progress'[s] = "saved" PROVE I!Has(s)'
    <3>1. CASE I!MarkSaved
      <4>1. script.step = "mark" /\ progress' = [progress EXCEPT ![I!Slug] = "saved"]
        BY <3>1 DEF I!MarkSaved, I!Running
      <4>2. CASE s = I!Slug
        BY <2>1, <2>2, <4>1, <4>2 DEF Marked
      <4>3. CASE s # I!Slug
        BY <2>1, <2>2, <2>3, <4>1, <4>3 DEF Marked
      <4>. QED
        BY <4>2, <4>3
    <3>2. CASE ~I!MarkSaved
      BY <1>3, <2>1, <2>2, <2>3, <3>2, OnlyMarkSaves DEF Marked
    <3>. QED
      BY <3>1, <3>2
  <2>4. ASSUME script'.step = "mark" PROVE I!Has(I!Slug)'
    <3>1. CASE I!InsertVenue
      <4>1. PICK row : Wrote(I!Slug, row)
        BY <3>1, InsertWrites
      <4>2. script'.cur = script.cur
        <5>1. script' = [script EXCEPT !.step = "mark", !.cache = @ \cup I!Handles[script.cur]]
          BY <3>1 DEF I!InsertVenue
        <5>. QED
          BY <5>1 DEF Kept, ScriptTyped, IsScript, ScriptFields
      <4>. QED
        BY <4>1, <4>2 DEF Wrote, I!Has, I!Slug
    <3>2. CASE script' = script
      BY <2>1, <2>2, <2>4, <3>2 DEF Marked, I!Slug
    <3>. QED
      BY <1>3, <2>4, <3>1, <3>2, OnlyInsertMarks
  <2>. QED
    BY <2>3, <2>4
<1>. QED
  BY <1>1, <1>2, <1>3

\* What the progress file calls saved, and no re-run imports again, is in the table.
THEOREM SavedIsInTheTable == I!Spec => []SavedIsThere
<1>1. I!Init => Kept /\ Marked
  <2> SUFFICES ASSUME I!Init PROVE Marked
    BY InitKept
  <2>1. progress = [s \in I!Slugs |-> "again"] /\ script.step = "idle"
    BY IdleIs DEF I!Init
  <2>. QED
    BY <2>1 DEF Marked
<1>2. Kept /\ Marked /\ [I!Next]_(I!vars) => Kept' /\ Marked'
  BY NextKeeps, MarkKeeps
<1>3. Marked => I!SavedIsThere
  BY DEF Marked, I!SavedIsThere
<1>4. I!SavedIsThere => SavedIsThere
  BY ImportsSame
<1>. QED
  BY <1>1, <1>2, <1>3, <1>4, PTL DEF I!Spec

-----------------------------------------------------------------------------
(*  WARDS                                                                  *)

WorkFields == {"step", "seen", "todo", "chosen", "clean"}
IsWork(r) == r = [f \in WorkFields |-> r[f]]
IsVenue(row) == row = [f \in VenueFields |-> row[f]]

RowsTyped ==
    /\ file \in SeedFiles /\ wards = [n \in DOMAIN wards |-> wards[n]]
    /\ located = [v \in DOMAIN located |-> located[v]]
    /\ \A v \in DOMAIN located : IsVenue(located[v])
    /\ IsWork(wardScript) /\ tidy = [f \in {"table", "venues"} |-> tidy[f]]

\* The table is the file's, or a seed has still to save or delete what is not.
TableInv ==
    /\ tidy.table => wards = file
    /\ wardScript.step = "seed" =>
          /\ ~tidy.table
          /\ \A n \in DOMAIN file \ wardScript.todo : n \in DOMAIN wards /\ wards[n] = file[n]
          /\ DOMAIN wards \subseteq DOMAIN file \cup wardScript.todo

\* chosen is a decision over the rows as they are: texts is what the first pass found.
Resolves(texts, chosen) ==
    /\ texts = [v \in W!Published |-> texts[v]]
    /\ \A v \in W!Published :
          /\ texts[v] \in W!Or(W!ResolveVenue(located[v].district, located[v].address, wards))
          /\ chosen[v] \in (IF texts[v] # W!Unresolved THEN {texts[v]}
                            ELSE W!Or(W!ByAnchor(located[v].at, W!Coordinates, texts)))

Written(todo, chosen) == \A v \in W!Published \ todo : W!Ward(located[v]) = chosen[v]

BackfillInv ==
    /\ wardScript.step \in {"seed", "write"} => ~tidy.venues
    /\ wardScript.step = "write" /\ wardScript.clean =>
          /\ wardScript.todo \subseteq W!Published /\ Written(wardScript.todo, wardScript.chosen)
          /\ \E texts : Resolves(texts, wardScript.chosen)
    /\ tidy.venues => \E texts, chosen : Resolves(texts, chosen) /\ Written({}, chosen)

WardsInv == RowsTyped /\ TableInv /\ BackfillInv

-----------------------------------------------------------------------------
(* What the resolvers yield.                                               *)

IsHit(h) == h = [ward |-> h.ward, method |-> h.method]

LEMMA HitsAre ==
    ASSUME NEW text, NEW ws, NEW h \in W!Hits(text, ws)
    PROVE  IsHit(h) /\ h.method \in {"exact", "alias"} /\ h.ward \in DOMAIN ws
BY DEF W!Hits, IsHit

LEMMA FirstIsOne ==
    ASSUME NEW hits, NEW h \in W!FirstHit(hits)
    PROVE  \E i \in DOMAIN hits : h \in hits[i]
BY DEF W!FirstHit

LEMMA TextHitsAre ==
    ASSUME NEW text, NEW ws, NEW h \in W!ResolveText(text, ws)
    PROVE  IsHit(h) /\ h.method \in {"exact", "alias"} /\ h.ward \in DOMAIN ws
<1>1. CASE h \in W!Hits(text, ws)
  BY <1>1, HitsAre
<1>2. CASE h \notin W!Hits(text, ws)
  <2> DEFINE hits == [i \in DOMAIN text |-> W!Hits(<<text[i]>>, ws)]
  <2>1. h \in W!FirstHit(hits)
    BY <1>2 DEF W!ResolveText
  <2> HIDE DEF hits
  <2>2. PICK i \in DOMAIN hits : h \in hits[i]
    BY <2>1, FirstIsOne
  <2>3. h \in W!Hits(<<text[i]>>, ws)
    BY <2>2 DEF hits
  <2>. QED
    BY <2>3, HitsAre
<1>. QED
  BY <1>1, <1>2

LEMMA VenueHitsAre ==
    ASSUME NEW district, NEW address, NEW ws, NEW h \in W!ResolveVenue(district, address, ws)
    PROVE  IsHit(h) /\ h.method \in {"exact", "alias"} /\ h.ward \in DOMAIN ws
<1>1. CASE h \in W!ResolveText(district, ws)
  BY <1>1, TextHitsAre
<1>2. CASE h \notin W!ResolveText(district, ws)
  <2> DEFINE segments == W!Segments(address)
             hits == [i \in DOMAIN segments |-> W!ResolveText(segments[i], ws)]
  <2>1. h \in W!FirstHit(hits)
    BY <1>2 DEF W!ResolveVenue
  <2> HIDE DEF hits
  <2>2. PICK i \in DOMAIN hits : h \in hits[i]
    BY <2>1, FirstIsOne
  <2>3. h \in W!ResolveText(segments[i], ws)
    BY <2>2 DEF hits
  <2>. QED
    BY <2>3, TextHitsAre
<1>. QED
  BY <1>1, <1>2

LEMMA AnchorsAre ==
    ASSUME NEW at, NEW coordinates, NEW decided, NEW h \in W!ByAnchor(at, coordinates, decided)
    PROVE  /\ IsHit(h) /\ h.method = "geo"
           /\ \E u \in DOMAIN coordinates : decided[u] # W!Unresolved /\ h.ward = decided[u].ward
BY DEF W!ByAnchor, IsHit

LEMMA UnresolvedIs == IsHit(W!Unresolved) /\ W!Unresolved.method = None
BY DEF W!Unresolved, IsHit

\* A row settled by a decision has the ward its texts, or the anchors, give it.
LEMMA ResolvedIsSettled ==
    ASSUME NEW texts, NEW chosen, Resolves(texts, chosen), Written({}, chosen),
           tidy.table => wards = file
    PROVE  W!VenuesSettled
<1> DEFINE Texts(v) == W!ResolveVenue(located[v].district, located[v].address, wards)
           found == [v \in W!Published |->
                        IF located[v].method = "geo" THEN W!Unresolved ELSE W!Ward(located[v])]
<1>1. ASSUME NEW v \in W!Published
      PROVE  /\ texts[v] # W!Unresolved => /\ texts[v] \in Texts(v) /\ IsHit(texts[v])
                                         /\ texts[v].method \in {"exact", "alias"}
                                         /\ W!Ward(located[v]) = texts[v]
             /\ texts[v] = W!Unresolved =>
                   /\ Texts(v) = {}
                   /\ W!Ward(located[v]) \in W!Or(W!ByAnchor(located[v].at, W!Coordinates, texts))
  <2>1. /\ texts[v] \in W!Or(Texts(v)) /\ W!Ward(located[v]) = chosen[v]
        /\ chosen[v] \in (IF texts[v] # W!Unresolved THEN {texts[v]}
                          ELSE W!Or(W!ByAnchor(located[v].at, W!Coordinates, texts)))
    BY DEF Resolves, Written
  <2>2. ASSUME texts[v] \in Texts(v)
        PROVE  IsHit(texts[v]) /\ texts[v].method \in {"exact", "alias"}
    BY <2>2, VenueHitsAre
  <2>3. Texts(v) # {} => texts[v] \in Texts(v)
    BY <2>1 DEF W!Or
  <2>4. Texts(v) = {} => texts[v] = W!Unresolved
    BY <2>1 DEF W!Or
  <2> HIDE DEF Texts
  <2>5. texts[v] = W!Unresolved => Texts(v) = {}
    BY <2>2, <2>3, UnresolvedIs, MethodAssumption
  <2>. QED
    BY <2>1, <2>2, <2>3, <2>4, <2>5
<1>2. ASSUME NEW v \in W!Published PROVE found[v] = texts[v]
  <2>1. W!Ward(located[v]).method = located[v].method
    BY DEF W!Ward
  <2>2. CASE texts[v] # W!Unresolved
    BY <1>1, <2>1, <2>2
  <2>3. CASE texts[v] = W!Unresolved
    <3>1. W!Ward(located[v]) \in W!Or(W!ByAnchor(located[v].at, W!Coordinates, texts))
      BY <1>1, <2>3
    <3>2. CASE W!Ward(located[v]) = W!Unresolved
      BY <2>3, <3>2
    <3>3. CASE W!Ward(located[v]) # W!Unresolved
      <4>1. W!Ward(located[v]) \in W!ByAnchor(located[v].at, W!Coordinates, texts)
        BY <3>1, <3>3 DEF W!Or
      <4>2. W!Ward(located[v]).method = "geo"
        BY <4>1, AnchorsAre
      <4>. QED
        BY <2>1, <2>3, <4>2
    <3>. QED
      BY <3>2, <3>3
  <2>. QED
    BY <2>2, <2>3
<1>3. found = texts
  <2>1. texts = [v \in W!Published |-> texts[v]]
    BY DEF Resolves
  <2>. QED
    BY <1>2, <2>1
<1>4. ASSUME NEW v \in W!Published
      PROVE  W!Ward(located[v]) \in (IF Texts(v) # {} THEN Texts(v)
                                   ELSE W!Or(W!ByAnchor(located[v].at, W!Coordinates, found)))
  BY <1>1, <1>3
<1>5. (IF tidy.table THEN file ELSE wards) = wards
  OBVIOUS
<1>. QED
  BY <1>4, <1>5 DEF W!VenuesSettled

-----------------------------------------------------------------------------
(* The decisions of a backfill.                                            *)

LEMMA DecisionsResolve ==
    ASSUME NEW chosen \in W!Decisions
    PROVE  \E texts : Resolves(texts, chosen)
<1>1. PICK texts \in W!Choices(W!ByText) : chosen \in W!Choices(W!ThenByAnchor(texts))
  BY DEF W!Decisions
<1>2. DOMAIN W!ByText = W!Published /\ DOMAIN W!ThenByAnchor(texts) = W!Published
  BY DEF W!ByText, W!ThenByAnchor
<1>3. /\ texts = [v \in W!Published |-> texts[v]]
      /\ \A v \in W!Published : texts[v] \in W!ByText[v]
      /\ \A v \in W!Published : chosen[v] \in W!ThenByAnchor(texts)[v]
  BY <1>1, <1>2 DEF W!Choices
<1>4. ASSUME NEW v \in W!Published
      PROVE  /\ texts[v] \in W!Or(W!ResolveVenue(located[v].district, located[v].address, wards))
             /\ chosen[v] \in (IF texts[v] # W!Unresolved THEN {texts[v]}
                               ELSE W!Or(W!ByAnchor(located[v].at, W!Coordinates, texts)))
  BY <1>3 DEF W!ByText, W!ThenByAnchor
<1>. QED
  BY <1>3, <1>4 DEF Resolves

LEMMA ChosenIsHit ==
    ASSUME NEW texts, NEW chosen, Resolves(texts, chosen), NEW v \in W!Published
    PROVE  IsHit(chosen[v])
<1>1. /\ texts[v] \in W!Or(W!ResolveVenue(located[v].district, located[v].address, wards))
      /\ chosen[v] \in (IF texts[v] # W!Unresolved THEN {texts[v]}
                        ELSE W!Or(W!ByAnchor(located[v].at, W!Coordinates, texts)))
  BY DEF Resolves
<1>2. CASE texts[v] # W!Unresolved
  <2>1. texts[v] \in W!ResolveVenue(located[v].district, located[v].address, wards)
    BY <1>1, <1>2 DEF W!Or
  <2>. QED
    BY <1>1, <1>2, <2>1, VenueHitsAre
<1>3. CASE texts[v] = W!Unresolved
  <2>1. \/ chosen[v] = W!Unresolved
        \/ chosen[v] \in W!ByAnchor(located[v].at, W!Coordinates, texts)
    BY <1>1, <1>3 DEF W!Or
  <2>. QED
    BY <2>1, AnchorsAre, UnresolvedIs
<1>. QED
  BY <1>2, <1>3

\* Rows and wards stay as they are, and what is settled with them.
LEMMA SameRows ==
    ASSUME located' = located, wards' = wards
    PROVE  /\ W!Published' = W!Published
           /\ \A texts, chosen : Resolves(texts, chosen) => Resolves(texts, chosen)'
           /\ \A todo, chosen : Written(todo, chosen) => Written(todo, chosen)'
BY DEF W!Published, Resolves, Written, W!Coordinates

-----------------------------------------------------------------------------
(* What the steps do.                                                      *)

LEMMA IdleWork ==
    /\ IsWork(W!Idle) /\ W!Idle.step = "idle" /\ W!Idle.todo = {}
BY DEF W!Idle, IsWork, WorkFields

LEMMA WardsInit == W!Init => WardsInv
<1> SUFFICES ASSUME W!Init PROVE WardsInv
  OBVIOUS
<1>1. wards = <<>> /\ located = Venue0 /\ wardScript = W!Idle /\ file \in SeedFiles
      /\ tidy = [table |-> FALSE, venues |-> FALSE]
  BY DEF W!Init
<1>2. wards = [n \in DOMAIN wards |-> wards[n]]
  BY <1>1
<1>3. tidy = [f \in {"table", "venues"} |-> tidy[f]] /\ ~tidy.table /\ ~tidy.venues
  BY <1>1
<1>4. RowsTyped
  BY <1>1, <1>2, <1>3, IdleWork, Venue0Assumption DEF RowsTyped, IsVenue
<1>5. TableInv /\ BackfillInv
  BY <1>1, <1>3, IdleWork DEF TableInv, BackfillInv
<1>. QED
  BY <1>4, <1>5 DEF WardsInv

\* A wardScript that ends, or is killed, leaves what has been settled.
LEMMA EndKeeps ==
    ASSUME WardsInv, wardScript' = W!Idle, UNCHANGED <<file, wards, located, tidy>>
    PROVE  WardsInv'
<1>1. RowsTyped'
  BY IdleWork DEF WardsInv, RowsTyped
<1>2. TableInv'
  BY IdleWork DEF WardsInv, TableInv
<1>3. BackfillInv'
  BY IdleWork, SameRows DEF WardsInv, BackfillInv
<1>. QED
  BY <1>1, <1>2, <1>3 DEF WardsInv

LEMMA SeedSteps ==
    ASSUME WardsInv,
           \/ \E f \in SeedFiles : W!EditFile(f)
           \/ W!SeedStart \/ W!SeedEnd
           \/ \E n : W!SaveWard(n) \/ W!DeleteWard(n)
    PROVE  WardsInv'
<1>0. /\ file \in SeedFiles /\ wards = [n \in DOMAIN wards |-> wards[n]]
      /\ located = [v \in DOMAIN located |-> located[v]]
      /\ \A v \in DOMAIN located : IsVenue(located[v])
      /\ IsWork(wardScript) /\ tidy = [f \in {"table", "venues"} |-> tidy[f]]
      /\ file = [n \in DOMAIN file |-> file[n]]
  BY SeedFilesAssumption DEF WardsInv, RowsTyped
<1>1. ASSUME NEW f \in SeedFiles, W!EditFile(f) PROVE WardsInv'
  <2>1. /\ file' = f /\ wardScript' = wardScript /\ wardScript = W!Idle /\ wards' = wards
        /\ located' = located
        /\ tidy' = [tidy EXCEPT !.table = FALSE]
    BY <1>1 DEF W!EditFile
  <2>2. /\ tidy' = [g \in {"table", "venues"} |-> tidy'[g]]
        /\ ~tidy'.table /\ tidy'.venues = tidy.venues
    BY <1>0, <2>1
  <2>3. RowsTyped'
    BY <1>0, <2>1, <2>2 DEF RowsTyped
  <2>4. TableInv'
    BY <2>1, <2>2, IdleWork DEF TableInv
  <2>5. BackfillInv'
    BY <2>1, <2>2, IdleWork, SameRows DEF WardsInv, BackfillInv
  <2>. QED
    BY <2>3, <2>4, <2>5 DEF WardsInv
<1>2. ASSUME W!SeedStart PROVE WardsInv'
  <2>1. /\ wardScript' = [W!Idle EXCEPT !.step = "seed", !.seen = DOMAIN wards,
                                  !.todo = DOMAIN wards \cup DOMAIN file]
        /\ ~tidy.table /\ tidy' = [tidy EXCEPT !.venues = FALSE]
        /\ UNCHANGED <<file, wards, located>>
    BY <1>2 DEF W!SeedStart
  <2>2. /\ IsWork(wardScript') /\ wardScript'.step = "seed"
        /\ wardScript'.todo = DOMAIN wards \cup DOMAIN file
    BY <2>1, IdleWork DEF IsWork, WorkFields
  <2>3. /\ tidy' = [g \in {"table", "venues"} |-> tidy'[g]]
        /\ ~tidy'.table /\ ~tidy'.venues
    BY <1>0, <2>1
  <2>4. RowsTyped'
    BY <1>0, <2>1, <2>2, <2>3 DEF RowsTyped
  <2>5. TableInv'
    BY <2>1, <2>2, <2>3 DEF TableInv
  <2>6. BackfillInv'
    BY <2>2, <2>3 DEF BackfillInv
  <2>. QED
    BY <2>4, <2>5, <2>6 DEF WardsInv
<1>3. ASSUME W!SeedEnd PROVE WardsInv'
  <2>1. /\ wardScript.step = "seed" /\ wardScript.todo = {} /\ wardScript' = W!Idle
        /\ tidy' = [tidy EXCEPT !.table = TRUE]
        /\ UNCHANGED <<file, wards, located>>
    BY <1>3 DEF W!SeedEnd
  <2>2. /\ tidy' = [g \in {"table", "venues"} |-> tidy'[g]]
        /\ tidy'.table /\ tidy'.venues = tidy.venues
    BY <1>0, <2>1
  <2>3. DOMAIN wards = DOMAIN file /\ \A n \in DOMAIN file : wards[n] = file[n]
    BY <2>1 DEF WardsInv, TableInv
  <2>4. wards = file
    BY <1>0, <2>3
  <2>5. RowsTyped'
    BY <1>0, <2>1, <2>2, IdleWork DEF RowsTyped
  <2>6. TableInv'
    BY <2>1, <2>4, IdleWork DEF TableInv
  <2>7. BackfillInv'
    BY <2>1, <2>2, IdleWork, SameRows DEF WardsInv, BackfillInv
  <2>. QED
    BY <2>5, <2>6, <2>7 DEF WardsInv
<1>4. ASSUME NEW n, W!SaveWard(n) \/ W!DeleteWard(n) PROVE WardsInv'
  <2>1. /\ wardScript.step = "seed" /\ n \in wardScript.todo
        /\ wardScript' = [wardScript EXCEPT !.todo = @ \ {n}]
        /\ UNCHANGED <<file, located, tidy>>
    BY <1>4 DEF W!SaveWard, W!DeleteWard
  <2>2. /\ IsWork(wardScript') /\ wardScript'.step = "seed"
        /\ wardScript'.todo = wardScript.todo \ {n}
    BY <1>0, <2>1 DEF IsWork, WorkFields
  <2>3. /\ ~tidy.table /\ ~tidy.venues
        /\ \A m \in DOMAIN file \ wardScript.todo : m \in DOMAIN wards /\ wards[m] = file[m]
        /\ DOMAIN wards \subseteq DOMAIN file \cup wardScript.todo
    BY <2>1 DEF WardsInv, TableInv, BackfillInv
  <2>4. CASE W!SaveWard(n)
    <3>1. n \in DOMAIN file
          /\ wards' = [m \in DOMAIN wards \cup {n} |-> IF m = n THEN file[n] ELSE wards[m]]
      BY <2>4 DEF W!SaveWard
    <3>2. /\ DOMAIN wards' = DOMAIN wards \cup {n} /\ wards'[n] = file[n]
          /\ wards' = [m \in DOMAIN wards' |-> wards'[m]]
          /\ \A m \in DOMAIN wards : m # n => wards'[m] = wards[m]
      BY <3>1
    <3>3. RowsTyped'
      BY <1>0, <2>1, <2>2, <3>2 DEF RowsTyped
    <3>4. TableInv'
      BY <2>1, <2>2, <2>3, <3>1, <3>2 DEF TableInv
    <3>5. BackfillInv'
      BY <2>1, <2>2, <2>3 DEF BackfillInv
    <3>. QED
      BY <3>3, <3>4, <3>5 DEF WardsInv
  <2>5. CASE W!DeleteWard(n)
    <3>1. n \notin DOMAIN file
          /\ wards' = [m \in DOMAIN wards \ {n} |-> wards[m]]
      BY <2>5 DEF W!DeleteWard
    <3>2. /\ DOMAIN wards' = DOMAIN wards \ {n}
          /\ wards' = [m \in DOMAIN wards' |-> wards'[m]]
          /\ \A m \in DOMAIN wards : m # n => wards'[m] = wards[m]
      BY <3>1
    <3>3. RowsTyped'
      BY <1>0, <2>1, <2>2, <3>2 DEF RowsTyped
    <3>4. TableInv'
      BY <2>1, <2>2, <2>3, <3>1, <3>2 DEF TableInv
    <3>5. BackfillInv'
      BY <2>1, <2>2, <2>3 DEF BackfillInv
    <3>. QED
      BY <3>3, <3>4, <3>5 DEF WardsInv
  <2>. QED
    BY <1>4, <2>4, <2>5
<1>. QED
  BY <1>1, <1>2, <1>3, <1>4

LEMMA StartKeeps == ASSUME WardsInv, W!BackfillStart PROVE WardsInv'
<1>1. PICK chosen \in W!Decisions :
         wardScript' = [W!Idle EXCEPT !.step = "write", !.chosen = chosen,
                        !.todo = {v \in W!Published : chosen[v] # W!Ward(located[v])}]
  BY DEF W!BackfillStart
<1>2. /\ tidy' = [tidy EXCEPT !.venues = FALSE] /\ wardScript = W!Idle
      /\ UNCHANGED <<file, wards, located>>
  BY DEF W!BackfillStart
<1> DEFINE todo == {v \in W!Published : chosen[v] # W!Ward(located[v])}
<1> HIDE DEF todo
<1>3. /\ IsWork(wardScript') /\ wardScript'.step = "write" /\ wardScript'.chosen = chosen
      /\ wardScript'.todo = todo
  BY <1>1, IdleWork DEF IsWork, WorkFields, todo
<1>4. /\ tidy' = [g \in {"table", "venues"} |-> tidy'[g]]
      /\ tidy'.table = tidy.table /\ ~tidy'.venues
  BY <1>2 DEF WardsInv, RowsTyped
<1>5. RowsTyped'
  BY <1>2, <1>3, <1>4 DEF WardsInv, RowsTyped
<1>6. TableInv'
  BY <1>2, <1>3, <1>4 DEF WardsInv, TableInv
<1>7. todo \subseteq W!Published /\ Written(todo, chosen)
  BY DEF todo, Written
<1>8. \E texts : Resolves(texts, chosen)
  BY DecisionsResolve
<1>9. BackfillInv'
  BY <1>2, <1>3, <1>4, <1>7, <1>8, SameRows DEF BackfillInv
<1>. QED
  BY <1>5, <1>6, <1>9 DEF WardsInv

\* An update of the ward moves no row that the decisions were made from.
LEMMA BackfillWriteKeeps == ASSUME WardsInv, NEW v, W!BackfillWrite(v) PROVE WardsInv'
<1> DEFINE c == wardScript.chosen[v]
           row == [located[v] EXCEPT !.ward = c.ward, !.method = c.method]
<1>1. /\ wardScript.step = "write" /\ v \in wardScript.todo
      /\ located' = [located EXCEPT ![v].ward = wardScript.chosen[v].ward,
                                    ![v].method = wardScript.chosen[v].method]
      /\ wardScript' = [wardScript EXCEPT !.todo = @ \ {v}]
      /\ UNCHANGED <<file, wards, tidy>>
  BY DEF W!BackfillWrite
<1>2. /\ IsWork(wardScript') /\ wardScript'.step = "write"
      /\ wardScript'.todo = wardScript.todo \ {v}
      /\ wardScript'.chosen = wardScript.chosen /\ wardScript'.clean = wardScript.clean
  BY <1>1 DEF WardsInv, RowsTyped, IsWork, WorkFields
<1>3. located = [u \in DOMAIN located |-> located[u]]
  BY DEF WardsInv, RowsTyped
<1>4. located' = [located EXCEPT ![v] = row]
  BY <1>1, <1>3
<1>5. ASSUME v \in DOMAIN located
      PROVE  /\ IsVenue(row) /\ row.ward = c.ward /\ row.method = c.method
             /\ row.at = located[v].at /\ row.published = located[v].published
             /\ row.district = located[v].district /\ row.address = located[v].address
  <2>1. IsVenue(located[v])
    BY <1>5 DEF WardsInv, RowsTyped
  <2> HIDE DEF c
  <2>. QED
    BY <2>1 DEF IsVenue, VenueFields
<1> HIDE DEF row
<1>6. /\ DOMAIN located' = DOMAIN located
      /\ located' = [u \in DOMAIN located' |-> located'[u]]
      /\ \A u \in DOMAIN located : u # v => located'[u] = located[u]
      /\ v \in DOMAIN located => located'[v] = row
  BY <1>3, <1>4
<1>7. \A u \in DOMAIN located :
         /\ IsVenue(located'[u]) /\ located'[u].at = located[u].at
         /\ located'[u].published = located[u].published
         /\ located'[u].district = located[u].district
         /\ located'[u].address = located[u].address
  BY <1>5, <1>6 DEF WardsInv, RowsTyped
<1>8. RowsTyped'
  BY <1>1, <1>2, <1>6, <1>7 DEF WardsInv, RowsTyped
<1>9. TableInv'
  BY <1>1, <1>2 DEF WardsInv, TableInv
<1>10. W!Published' = W!Published /\ W!Published \subseteq DOMAIN located
  BY <1>6, <1>7 DEF W!Published
<1>11. W!Coordinates' = W!Coordinates
  BY <1>7, <1>10 DEF W!Coordinates
<1>12. ASSUME NEW texts, NEW chosen, Resolves(texts, chosen) PROVE Resolves(texts, chosen)'
  BY <1>1, <1>7, <1>10, <1>11, <1>12 DEF Resolves
<1>13. ~tidy.venues
  BY <1>1 DEF WardsInv, BackfillInv
<1>14. PICK chosen, todo : chosen = wardScript.chosen /\ todo = wardScript'.todo
  OBVIOUS
<1>15. ASSUME wardScript.clean
       PROVE  /\ todo \subseteq W!Published' /\ Written(todo, chosen)'
              /\ \E texts : Resolves(texts, chosen)'
  <2>1. PICK texts : Resolves(texts, chosen)
    BY <1>1, <1>14, <1>15 DEF WardsInv, BackfillInv
  <2>2. wardScript.todo \subseteq W!Published /\ Written(wardScript.todo, chosen)
    BY <1>1, <1>14, <1>15 DEF WardsInv, BackfillInv
  <2>3. v \in W!Published /\ IsHit(chosen[v])
    BY <1>1, <2>1, <2>2, ChosenIsHit
  <2>4. W!Ward(located'[v]) = chosen[v]
    BY <1>5, <1>6, <1>10, <1>14, <2>3 DEF W!Ward, IsHit
  <2>5. ASSUME NEW u \in W!Published' \ todo PROVE W!Ward(located'[u]) = chosen[u]
    <3>1. CASE u = v
      BY <2>4, <3>1
    <3>2. CASE u # v
      BY <1>2, <1>6, <1>10, <1>14, <2>2, <2>5, <3>2 DEF Written
    <3>. QED
      BY <3>1, <3>2
  <2>6. Written(todo, chosen)'
    BY <2>5 DEF Written
  <2>7. Resolves(texts, chosen)'
    BY <1>12, <2>1
  <2>8. todo \subseteq W!Published'
    BY <1>2, <1>10, <1>14, <2>2
  <2>. QED
    BY <2>6, <2>7, <2>8
<1>16. wardScript'.chosen = chosen /\ wardScript'.todo = todo /\ wardScript'.step = "write"
       /\ wardScript'.clean = wardScript.clean /\ ~tidy'.venues
  BY <1>1, <1>2, <1>13, <1>14
<1>17. BackfillInv'
  BY <1>15, <1>16 DEF BackfillInv
<1>. QED
  BY <1>8, <1>9, <1>17 DEF WardsInv

LEMMA BackfillEndKeeps == ASSUME WardsInv, W!BackfillEnd PROVE WardsInv'
<1>1. /\ wardScript.step = "write" /\ wardScript.todo = {} /\ wardScript' = W!Idle
      /\ tidy' = [tidy EXCEPT !.venues = wardScript.clean]
      /\ UNCHANGED <<file, wards, located>>
  BY DEF W!BackfillEnd
<1>2. /\ tidy' = [g \in {"table", "venues"} |-> tidy'[g]]
      /\ tidy'.table = tidy.table /\ tidy'.venues = wardScript.clean
  BY <1>1 DEF WardsInv, RowsTyped
<1>3. RowsTyped'
  BY <1>1, <1>2, IdleWork DEF WardsInv, RowsTyped
<1>4. TableInv'
  BY <1>1, <1>2, IdleWork DEF WardsInv, TableInv
<1>5. ASSUME wardScript.clean
      PROVE  \E texts, chosen : Resolves(texts, chosen) /\ Written({}, chosen)
  BY <1>1, <1>5 DEF WardsInv, BackfillInv
<1>6. BackfillInv'
  BY <1>1, <1>2, <1>5, IdleWork, SameRows DEF BackfillInv
<1>. QED
  BY <1>3, <1>4, <1>6 DEF WardsInv

\* Whatever concerns neither rows nor wards.
LEMMA StayKeeps ==
    ASSUME WardsInv, UNCHANGED <<file, wards, located, wardScript, tidy>>
    PROVE  WardsInv'
<1>1. RowsTyped' /\ TableInv'
  BY DEF WardsInv, RowsTyped, TableInv
<1>2. BackfillInv'
  BY SameRows DEF WardsInv, BackfillInv
<1>. QED
  BY <1>1, <1>2 DEF WardsInv

\* An editor's save: nothing is settled any more.
LEMMA DisturbKeeps ==
    ASSUME WardsInv, W!Disturbs, UNCHANGED <<file, wards>>,
           located' = [v \in DOMAIN located' |-> located'[v]],
           \A v \in DOMAIN located' : IsVenue(located'[v])
    PROVE  WardsInv'
<1>1. /\ tidy' = [tidy EXCEPT !.venues = FALSE]
      /\ wardScript' = IF wardScript = W!Idle THEN W!Idle ELSE [wardScript EXCEPT !.clean = FALSE]
  BY DEF W!Disturbs
<1>2. /\ tidy' = [g \in {"table", "venues"} |-> tidy'[g]]
      /\ tidy'.table = tidy.table /\ ~tidy'.venues
  BY <1>1 DEF WardsInv, RowsTyped
<1>3. /\ IsWork(wardScript') /\ wardScript'.step = wardScript.step
      /\ wardScript'.todo = wardScript.todo
      /\ wardScript.step = "write" => wardScript'.clean = FALSE
  <2>1. CASE wardScript = W!Idle
    BY <1>1, <2>1, IdleWork
  <2>2. CASE wardScript # W!Idle
    <3>1. wardScript' = [wardScript EXCEPT !.clean = FALSE]
      BY <1>1, <2>2
    <3>. QED
      BY <3>1 DEF WardsInv, RowsTyped, IsWork, WorkFields
  <2>. QED
    BY <2>1, <2>2
<1>4. RowsTyped'
  BY <1>2, <1>3 DEF WardsInv, RowsTyped
<1>5. TableInv'
  BY <1>2, <1>3 DEF WardsInv, TableInv
<1>6. BackfillInv'
  BY <1>2, <1>3 DEF BackfillInv
<1>. QED
  BY <1>4, <1>5, <1>6 DEF WardsInv

\* What a save writes, column by column, and what a creation adds, are rows.
Renewed(v, row) ==
    /\ located' = [u \in DOMAIN located' |-> located'[u]]
    /\ \A u \in DOMAIN located' : u # v => u \in DOMAIN located /\ located'[u] = located[u]
    /\ v \in DOMAIN located' => located'[v] = row /\ IsVenue(row)

LEMMA EditRenews ==
    ASSUME RowsTyped, NEW e, W!EditWrite(e)
    PROVE  \E v, row, written :
              /\ Renewed(v, row) /\ DOMAIN located' = DOMAIN located
              /\ v = edits[e].v /\ written = edits[e].entity
              /\ \A f \in VenueFields :
                    row[f] = IF f \in DOMAIN written THEN written[f] ELSE located[v][f]
<1> DEFINE v == edits[e].v
           written == edits[e].entity
           row == [f \in VenueFields |-> IF f \in DOMAIN written THEN written[f] ELSE located[v][f]]
<1>1. located' = [located EXCEPT ![v] = row]
  BY DEF W!EditWrite, W!VenueFields, VenueFields
<1>2. located = [u \in DOMAIN located |-> located[u]] /\ IsVenue(row)
  BY DEF RowsTyped, IsVenue
<1>3. \A f \in VenueFields : row[f] = IF f \in DOMAIN written THEN written[f] ELSE located[v][f]
  OBVIOUS
<1> HIDE DEF row
<1>4. /\ DOMAIN located' = DOMAIN located
      /\ located' = [u \in DOMAIN located' |-> located'[u]]
      /\ \A u \in DOMAIN located : u # v => located'[u] = located[u]
      /\ v \in DOMAIN located => located'[v] = row
  BY <1>1, <1>2
<1>5. Renewed(v, row)
  BY <1>2, <1>4 DEF Renewed
<1>. QED
  BY <1>3, <1>4, <1>5

LEMMA CreateRenews ==
    ASSUME RowsTyped, NEW w, NEW v, W!Create(w, v)
    PROVE  \E r \in W!Or(W!ResolveText(NewVenues[v].district, index[w])) : \E row :
              /\ Renewed(v, row) /\ row.ward = r.ward /\ row.method = r.method
<1>1. PICK r \in W!Or(W!ResolveText(NewVenues[v].district, index[w])) :
         located' = [u \in DOMAIN located \cup {v} |->
            IF u = v THEN [NewVenues[v] EXCEPT !.ward = r.ward, !.method = r.method] ELSE located[u]]
  BY DEF W!Create
<1> DEFINE row == [NewVenues[v] EXCEPT !.ward = r.ward, !.method = r.method]
<1>2. NewVenues[v] = [f \in VenueFields |-> NewVenues[v][f]]
  BY NewVenuesAssumption DEF W!Create
<1>3. IsVenue(row) /\ row.ward = r.ward /\ row.method = r.method
  BY <1>2 DEF IsVenue, VenueFields
<1> HIDE DEF row
<1>4. located' = [u \in DOMAIN located \cup {v} |-> IF u = v THEN row ELSE located[u]]
  BY <1>1 DEF row
<1>5. Renewed(v, row)
  BY <1>3, <1>4 DEF Renewed
<1>. QED
  BY <1>3, <1>5

LEMMA EditsKeep ==
    ASSUME WardsInv, (\E e : W!EditWrite(e)) \/ (\E w, v : W!Create(w, v))
    PROVE  WardsInv'
<1>1. PICK v, row : Renewed(v, row)
  BY EditRenews, CreateRenews DEF WardsInv
<1>2. /\ located' = [u \in DOMAIN located' |-> located'[u]]
      /\ \A u \in DOMAIN located' : IsVenue(located'[u])
  BY <1>1 DEF Renewed, WardsInv, RowsTyped
<1>3. UNCHANGED <<file, wards>>
  BY DEF W!EditWrite, W!Create
<1>4. CASE W!Disturbs
  BY <1>2, <1>3, <1>4, DisturbKeeps
<1>5. CASE UNCHANGED <<located, wardScript, tidy>>
  BY <1>3, <1>5, StayKeeps
<1>. QED
  BY <1>4, <1>5 DEF W!EditWrite, W!Create

LEMMA WardsStep == ASSUME WardsInv, [W!Next]_(W!vars) PROVE WardsInv'
<1>1. CASE \/ \E f \in SeedFiles : W!EditFile(f)
           \/ W!SeedStart \/ W!SeedEnd
           \/ \E n : W!SaveWard(n) \/ W!DeleteWard(n)
  BY <1>1, SeedSteps
<1>2. CASE W!BackfillStart
  BY <1>2, StartKeeps
<1>3. CASE W!BackfillEnd
  BY <1>3, BackfillEndKeeps
<1>4. CASE \E v : W!BackfillWrite(v)
  BY <1>4, BackfillWriteKeeps
<1>5. CASE W!Crash
  BY <1>5, EndKeeps DEF W!Crash
<1>6. CASE (\E e : W!EditWrite(e)) \/ (\E w, v : W!Create(w, v))
  BY <1>6, EditsKeep
<1>7. CASE \/ UNCHANGED W!vars \/ \E w : W!Boot(w)
           \/ \E e, w, v, change : W!EditLoad(e, w, v, change)
           \/ \E e : W!EditReload(e)
  BY <1>7, StayKeeps DEF W!vars, W!Boot, W!EditLoad, W!EditReload
<1>. QED
  BY <1>1, <1>2, <1>3, <1>4, <1>5, <1>6, <1>7 DEF W!Next

\* A backfill that ran to its end over rows no one edited settled each published
\* venue by its own texts, else by the nearest that texts resolved, with the
\* wards of the file once a seed ran to its end, after runs killed anywhere.
THEOREM VenuesAreSettled == W!Spec => []VenuesSettled
<1>1. WardsInv => W!VenuesSettled
  <2> SUFFICES ASSUME WardsInv PROVE W!VenuesSettled
    OBVIOUS
  <2>1. CASE tidy.venues
    <3>1. PICK texts, chosen : Resolves(texts, chosen) /\ Written({}, chosen)
      BY <2>1 DEF WardsInv, BackfillInv
    <3>. QED
      BY <3>1, ResolvedIsSettled DEF WardsInv, TableInv
  <2>2. CASE ~tidy.venues
    BY <2>2 DEF W!VenuesSettled
  <2>. QED
    BY <2>1, <2>2
<1>2. W!VenuesSettled => VenuesSettled
  BY WardsSame
<1>. QED
  BY <1>1, WardsInit, WardsStep, <1>2, PTL DEF W!Spec

-----------------------------------------------------------------------------
(* Types of the wards.                                                     *)

LEMMA SameDecisions == W!WardNames = WardNames /\ \A h : W!IsDecision(h) <=> IsDecision(h)
BY DEF W!WardNames, WardNames, W!IsDecision, IsDecision

LEMMA HitIsDecision ==
    ASSUME NEW h, h.ward \in WardNames, h.method \in {"exact", "alias", "geo"}
    PROVE  IsDecision(h)
BY DEF IsDecision

LEMMA UnresolvedIsDecision == IsDecision(W!Unresolved)
BY DEF IsDecision, W!Unresolved

LEMMA TextDecided ==
    ASSUME NEW text, NEW ws, DOMAIN ws \subseteq WardNames, NEW r \in W!Or(W!ResolveText(text, ws))
    PROVE  IsDecision(r)
BY TextHitsAre, HitIsDecision, UnresolvedIsDecision DEF W!Or

LEMMA ChosenIsDecision ==
    ASSUME DOMAIN wards \subseteq WardNames,
           NEW texts, NEW chosen, Resolves(texts, chosen), NEW v \in W!Published
    PROVE  IsDecision(chosen[v])
<1>1. ASSUME NEW u \in W!Published, texts[u] # W!Unresolved
      PROVE  texts[u].ward \in WardNames /\ texts[u].method \in {"exact", "alias"}
  <2>1. texts[u] \in W!ResolveVenue(located[u].district, located[u].address, wards)
    BY <1>1 DEF Resolves, W!Or
  <2>. QED
    BY <2>1, VenueHitsAre
<1>2. CASE texts[v] # W!Unresolved
  BY <1>1, <1>2, HitIsDecision DEF Resolves
<1>3. CASE texts[v] = W!Unresolved
  <2>1. \/ chosen[v] = W!Unresolved
        \/ chosen[v] \in W!ByAnchor(located[v].at, W!Coordinates, texts)
    BY <1>3 DEF Resolves, W!Or
  <2>2. ASSUME chosen[v] \in W!ByAnchor(located[v].at, W!Coordinates, texts)
        PROVE  IsDecision(chosen[v])
    <3>1. PICK u \in W!Published : texts[u] # W!Unresolved /\ chosen[v].ward = texts[u].ward
      BY <2>2, AnchorsAre DEF W!Coordinates
    <3>2. chosen[v].method = "geo"
      BY <2>2, AnchorsAre
    <3>. QED
      BY <1>1, <3>1, <3>2, HitIsDecision
  <2>. QED
    BY <2>1, <2>2, UnresolvedIsDecision
<1>. QED
  BY <1>2, <1>3

\* An edit has a ward and a method among what it writes, and the row is loaded.
EditFields == {"step", "v", "entity"}
EditTyped(edit) ==
    /\ edit = [f \in EditFields |-> edit[f]]
    /\ edit.step = "loaded" => /\ DOMAIN edit.entity = VenueFields /\ IsDecision(edit.entity)
    /\ edit.step = "reloaded" =>
          /\ "ward" \in DOMAIN edit.entity => edit.entity["ward"] \in WardNames \cup {None}
          /\ "method" \in DOMAIN edit.entity =>
                edit.entity["method"] \in {"exact", "alias", "geo", None}

\* Every ward that is decided, indexed or about to be written is one of a seed file.
WardTypes ==
    /\ \A v \in DOMAIN located : IsDecision(located[v])
    /\ DOMAIN wards \subseteq WardNames /\ DOMAIN index = Workers
    /\ \A w \in Workers : DOMAIN index[w] \subseteq WardNames
    /\ wardScript.step \in {"idle", "seed", "write"}
    /\ wardScript.step = "write" =>
          \A v \in wardScript.todo : IsDecision(wardScript.chosen[v])
    /\ edits = [e \in Editors |-> edits[e]]
    /\ \A e \in Editors : EditTyped(edits[e])

LEMMA WardTypesInit == W!Init => WardTypes
<1> SUFFICES ASSUME W!Init PROVE WardTypes
  OBVIOUS
<1>1. /\ wardScript.step = "idle" /\ wards = <<>> /\ located = Venue0
      /\ index = [w \in Workers |-> <<>>] /\ edits = [e \in Editors |-> W!NoEdit]
  BY DEF W!Init, W!Idle
<1>2. DOMAIN <<>> = {}
  OBVIOUS
<1>3. EditTyped(W!NoEdit)
  BY DEF EditTyped, EditFields, W!NoEdit
<1>. QED
  BY <1>1, <1>2, <1>3, Venue0Assumption DEF WardTypes

\* A row takes over a decision.
LEMMA RowDecided ==
    ASSUME WardTypes, NEW v, NEW row, Renewed(v, row), v \in DOMAIN located' => IsDecision(row)
    PROVE  \A u \in DOMAIN located' : IsDecision(located'[u])
BY DEF WardTypes, Renewed

LEMMA WardTypesStep == WardsInv /\ WardTypes /\ [W!Next]_(W!vars) => WardTypes'
<1> SUFFICES ASSUME WardsInv, WardTypes, [W!Next]_(W!vars) PROVE WardTypes'
  OBVIOUS
<1>0. /\ file \in SeedFiles /\ IsWork(wardScript)
      /\ \A v \in DOMAIN located : IsVenue(located[v])
      /\ located = [v \in DOMAIN located |-> located[v]]
  BY DEF WardsInv, RowsTyped
<1>1. CASE UNCHANGED W!vars
  BY <1>1 DEF W!vars, WardTypes, IsDecision
<1>2. CASE \/ \E f \in SeedFiles : W!EditFile(f)
           \/ W!SeedEnd \/ W!BackfillEnd \/ W!Crash
  <2>1. UNCHANGED <<wards, located, index, edits>> /\ wardScript'.step = "idle"
    BY <1>2, IdleWork DEF W!EditFile, W!SeedEnd, W!BackfillEnd, W!Crash
  <2>. QED
    BY <2>1 DEF WardTypes, IsDecision
<1>3. CASE W!SeedStart
  <2>1. UNCHANGED <<wards, located, index, edits>> /\ wardScript'.step = "seed"
    BY <1>3 DEF W!SeedStart, W!Idle
  <2>. QED
    BY <2>1 DEF WardTypes, IsDecision
<1>4. ASSUME NEW n, W!SaveWard(n) \/ W!DeleteWard(n) PROVE WardTypes'
  <2>1. UNCHANGED <<located, index, edits>> /\ wardScript'.step = "seed"
    BY <1>0, <1>4 DEF W!SaveWard, W!DeleteWard, IsWork, WorkFields
  <2>2. DOMAIN wards' \subseteq DOMAIN wards \cup DOMAIN file
    BY <1>4 DEF W!SaveWard, W!DeleteWard
  <2>3. DOMAIN file \subseteq WardNames
    BY <1>0 DEF WardNames
  <2>. QED
    BY <2>1, <2>2, <2>3 DEF WardTypes, IsDecision
<1>5. CASE W!BackfillStart
  <2>1. PICK chosen \in W!Decisions :
           wardScript' = [W!Idle EXCEPT !.step = "write", !.chosen = chosen,
                          !.todo = {v \in W!Published : chosen[v] # W!Ward(located[v])}]
    BY <1>5 DEF W!BackfillStart
  <2>2. /\ wardScript'.step = "write" /\ wardScript'.chosen = chosen
        /\ wardScript'.todo \subseteq W!Published
    BY <2>1 DEF W!Idle
  <2>3. UNCHANGED <<wards, located, index, edits>>
    BY <1>5 DEF W!BackfillStart
  <2>4. \A v \in W!Published : IsDecision(chosen[v])
    BY DecisionsResolve, ChosenIsDecision DEF WardTypes
  <2>5. \A v \in wardScript'.todo : IsDecision(wardScript'.chosen[v])
    BY <2>2, <2>4
  <2>. QED
    BY <2>2, <2>3, <2>5 DEF WardTypes, IsDecision
<1>6. ASSUME NEW v \in DOMAIN located, W!BackfillWrite(v) PROVE WardTypes'
  <2> DEFINE c == wardScript.chosen[v]
             row == [located[v] EXCEPT !.ward = c.ward, !.method = c.method]
  <2>1. /\ wardScript.step = "write" /\ v \in wardScript.todo
        /\ located' = [located EXCEPT ![v].ward = c.ward, ![v].method = c.method]
        /\ wardScript' = [wardScript EXCEPT !.todo = @ \ {v}]
        /\ UNCHANGED <<wards, index, edits>>
    BY <1>6 DEF W!BackfillWrite
  <2>2. /\ wardScript'.step = "write" /\ wardScript'.chosen = wardScript.chosen
        /\ wardScript'.todo = wardScript.todo \ {v}
    BY <1>0, <2>1 DEF IsWork, WorkFields
  <2>3. located' = [located EXCEPT ![v] = row]
    BY <1>0, <2>1
  <2>4. IsDecision(c)
    BY <2>1 DEF WardTypes
  <2> HIDE DEF c
  <2>5. IsVenue(row) /\ row.ward = c.ward /\ row.method = c.method
    BY <1>0 DEF IsVenue, VenueFields
  <2> HIDE DEF row
  <2>6. /\ DOMAIN located' = DOMAIN located
        /\ \A u \in DOMAIN located' : IsDecision(located'[u])
    BY <1>0, <2>3, <2>4, <2>5 DEF WardTypes, IsDecision
  <2>7. \A u \in wardScript'.todo : IsDecision(wardScript'.chosen[u])
    BY <2>1, <2>2 DEF WardTypes
  <2>. QED
    BY <2>1, <2>2, <2>6, <2>7 DEF WardTypes, IsDecision
<1>7. ASSUME NEW w \in Workers, W!Boot(w) PROVE WardTypes'
  <2>1. index' = [index EXCEPT ![w] = wards] /\ UNCHANGED <<wards, located, wardScript, edits>>
    BY <1>7 DEF W!Boot
  <2>. QED
    BY <2>1 DEF WardTypes, IsDecision
<1>8. ASSUME W!Disturbs \/ UNCHANGED wardScript, UNCHANGED <<wards, index>>,
             \A u \in DOMAIN located' : IsDecision(located'[u]),
             edits' = [e \in Editors |-> edits'[e]], \A e \in Editors : EditTyped(edits'[e])
      PROVE  WardTypes'
  <2>1. \/ wardScript' = W!Idle \/ wardScript' = [wardScript EXCEPT !.clean = FALSE]
        \/ UNCHANGED wardScript
    BY <1>8 DEF W!Disturbs
  <2>2. \/ wardScript'.step = "idle"
        \/ /\ wardScript'.step = wardScript.step /\ wardScript'.chosen = wardScript.chosen
           /\ wardScript'.todo = wardScript.todo
    BY <1>0, <2>1, IdleWork DEF IsWork, WorkFields
  <2>3. wardScript'.step = "write" =>
           \A u \in wardScript'.todo : IsDecision(wardScript'.chosen[u])
    BY <2>2 DEF WardTypes
  <2>. QED
    BY <1>8, <2>2, <2>3 DEF WardTypes, IsDecision
<1>9. ASSUME NEW w \in Workers, NEW v, W!Create(w, v) PROVE WardTypes'
  <2>1. PICK r \in W!Or(W!ResolveText(NewVenues[v].district, index[w])) : \E row :
           Renewed(v, row) /\ row.ward = r.ward /\ row.method = r.method
    BY <1>9, CreateRenews DEF WardsInv
  <2>2. IsDecision(r)
    BY TextDecided DEF WardTypes
  <2>3. \A u \in DOMAIN located' : IsDecision(located'[u])
    BY <2>1, <2>2, RowDecided DEF IsDecision
  <2>. QED
    BY <1>8, <1>9, <2>3 DEF W!Create, WardTypes
<1>10. ASSUME NEW e \in Editors, W!EditWrite(e) PROVE WardTypes'
  <2>1. PICK v, row, written :
           /\ Renewed(v, row) /\ DOMAIN located' = DOMAIN located
           /\ v = edits[e].v /\ written = edits[e].entity
           /\ \A f \in VenueFields :
                 row[f] = IF f \in DOMAIN written THEN written[f] ELSE located[v][f]
    BY <1>10, EditRenews DEF WardsInv
  <2>2. /\ "ward" \in DOMAIN written => written["ward"] \in WardNames \cup {None}
        /\ "method" \in DOMAIN written => written["method"] \in {"exact", "alias", "geo", None}
    BY <1>10, <2>1 DEF W!EditWrite, WardTypes, EditTyped
  <2>3. v \in DOMAIN located' => IsDecision(row)
    BY <2>1, <2>2 DEF WardTypes, IsDecision, VenueFields
  <2>4. \A u \in DOMAIN located' : IsDecision(located'[u])
    BY <2>1, <2>3, RowDecided
  <2> DEFINE none == [W!NoEdit EXCEPT !.step = "done"]
  <2>5. EditTyped(none) /\ edits' = [edits EXCEPT ![e] = none]
    BY <1>10 DEF EditTyped, EditFields, W!NoEdit, W!EditWrite
  <2> HIDE DEF none
  <2>6. edits' = [x \in Editors |-> edits'[x]] /\ \A x \in Editors : EditTyped(edits'[x])
    BY <2>5 DEF WardTypes
  <2>7. (W!Disturbs \/ UNCHANGED wardScript) /\ UNCHANGED <<wards, index>>
    BY <1>10 DEF W!EditWrite
  <2>. QED
    BY <1>8, <2>4, <2>6, <2>7
<1>11. ASSUME NEW e \in Editors, NEW edit, EditTyped(edit), edits' = [edits EXCEPT ![e] = edit],
              UNCHANGED <<wards, located, index, wardScript>>
       PROVE  WardTypes'
  <2>1. edits' = [x \in Editors |-> edits'[x]] /\ \A x \in Editors : EditTyped(edits'[x])
    BY <1>11 DEF WardTypes
  <2>. QED
    BY <1>8, <1>11, <2>1 DEF WardTypes
<1>12. ASSUME NEW e \in Editors, NEW w \in Workers, NEW v \in DOMAIN located, NEW change \in Changes,
              W!EditLoad(e, w, v, change)
       PROVE  WardTypes'
  <2>1. PICK r \in W!Resolved(w, v, change) :
           edits' = [edits EXCEPT ![e] = [step |-> "loaded", v |-> v, entity |-> W!Entity(v, change, r)]]
    BY <1>12 DEF W!EditLoad
  <2> DEFINE entity == W!Entity(v, change, r)
  <2>2. IsDecision(r)
    BY TextDecided DEF W!Resolved, W!Ward, WardTypes, IsDecision
  <2>3. entity.ward = r.ward /\ entity.method = r.method /\ DOMAIN entity = VenueFields
    BY ChangesAssumption DEF W!Entity, W!VenueFields, VenueFields
  <2> HIDE DEF entity
  <2> DEFINE edit == [step |-> "loaded", v |-> v, entity |-> entity]
  <2>4. IsDecision(entity)
    BY <2>2, <2>3 DEF IsDecision
  <2>5. EditTyped(edit)
    BY <2>3, <2>4 DEF EditTyped, EditFields
  <2>6. edits' = [edits EXCEPT ![e] = edit]
    BY <2>1 DEF entity
  <2> HIDE DEF edit
  <2>. QED
    BY <1>11, <1>12, <2>5, <2>6 DEF W!EditLoad
<1>13. ASSUME NEW e \in Editors, W!EditReload(e) PROVE WardTypes'
  <2> DEFINE entity == edits[e].entity
             kept == [f \in {g \in VenueFields : entity[g] # located[edits[e].v][g]} |-> entity[f]]
             edit == [edits[e] EXCEPT !.step = "reloaded", !.entity = kept]
  <2>1. EditTyped(edits[e]) /\ edits[e].step = "loaded"
    BY <1>13 DEF WardTypes, W!EditReload
  <2>2. edits' = [edits EXCEPT ![e] = edit]
    BY <1>13 DEF W!EditReload, W!VenueFields, VenueFields, WardTypes
  <2>3. /\ \A f \in DOMAIN kept : kept[f] = entity[f]
        /\ IsDecision(entity)
    BY <2>1 DEF EditTyped
  <2> HIDE DEF kept
  <2>4. edit = [f \in EditFields |-> edit[f]] /\ edit.step = "reloaded" /\ edit.entity = kept
    BY <2>1 DEF EditTyped, EditFields
  <2> HIDE DEF edit
  <2>5. EditTyped(edit)
    BY <2>3, <2>4 DEF EditTyped, IsDecision
  <2>. QED
    BY <1>11, <1>13, <2>2, <2>5 DEF W!EditReload
<1>. QED
  BY <1>1, <1>2, <1>3, <1>4, <1>5, <1>6, <1>7, <1>9, <1>10, <1>12, <1>13 DEF W!Next

\* Every ward of a venue, or about to be written by a backfill or an editor, is or
\* was one of the seed file, and the method one of those the resolvers have.
THEOREM WardsAreTyped == W!Spec => []W!TypeOK
<1>1. WardTypes => W!TypeOK
  BY SameDecisions DEF WardTypes, W!TypeOK, EditTyped
<1>. QED
  BY <1>1, WardsInit, WardsStep, WardTypesInit, WardTypesStep, PTL DEF W!Spec

-----------------------------------------------------------------------------
(*  JOURNEY                                                                *)

Steps == {"idle", "visits", "entries", "backfill", "add", "check in"}
Requests == [step : Steps, w : Workers \cup {None}, vs : SUBSET JourneyVenues,
             twice : SUBSET JourneyVenues, found : BOOLEAN]

TimelineTyped ==
    /\ visits \in [JourneyVenues -> Nat]
    /\ entries \subseteq JourneyVenues
    /\ req \in [JourneySessions -> Requests]
    /\ fails \in [Workers -> Nat]

\* The venues that a backfill has still to add.
Missing == (J!Visited \ dropped) \ entries

\* Whoever is about to insert knows them all; a check-in that found the entry of
\* its venue finds it taken out at worst.
MissingKnown ==
    /\ good => Missing = {}
    /\ \A s \in JourneySessions : req[s].step \in {"entries", "backfill"} =>
                                     Missing \subseteq req[s].vs
    /\ \A s \in JourneySessions : req[s].step = "check in" /\ req[s].found
                             => req[s].vs \subseteq entries \cup dropped

Lists(s) == req[s].step \in {"visits", "entries", "backfill"}

\* A marked worker has one list with a backfill, or has had it.
OneListEach ==
    /\ \A s \in JourneySessions : Lists(s) => /\ req[s].w \in healed /\ req[s].w \in Workers
                                       /\ fails[req[s].w] = 0
    /\ \A s, t \in JourneySessions : Lists(s) /\ Lists(t) /\ req[s].w = req[t].w => s = t
    /\ \A w \in Workers : w \notin healed => fails[w] = 0
    /\ J!FailsOnce

-----------------------------------------------------------------------------
LEMMA FreeRequest == J!Free \in Requests
BY DEF J!Free, Requests, Steps

LEMMA VisitedVenues == TimelineTyped => J!Visited \subseteq JourneyVenues
BY DEF TimelineTyped, J!Visited

LEMMA TypedInit == J!Init => TimelineTyped
<1> SUFFICES ASSUME J!Init PROVE TimelineTyped
  OBVIOUS
<1>1. visits \in [JourneyVenues -> Nat]
  BY DEF J!Init
<1>2. req \in [JourneySessions -> Requests]
  BY FreeRequest DEF J!Init
<1>. QED
  BY <1>1, <1>2 DEF J!Init, TimelineTyped

-----------------------------------------------------------------------------
(* What the steps do to the requests, field by field.                      *)

Only(s) == /\ req' \in [JourneySessions -> Requests]
           /\ \A t \in JourneySessions : t # s => req'[t] = req[t]

LEMMA OnlyOne ==
    ASSUME TimelineTyped, NEW s \in JourneySessions, NEW r \in Requests,
           req' = [req EXCEPT ![s] = r]
    PROVE  Only(s) /\ req'[s] = r
BY DEF TimelineTyped, Only

LEMMA EndMoves ==
    ASSUME TimelineTyped, NEW s \in JourneySessions, J!End(s)
    PROVE  Only(s) /\ req'[s] = J!Free /\ req'[s].step = "idle"
<1>1. Only(s) /\ req'[s] = J!Free
  BY FreeRequest, OnlyOne DEF J!End
<1>. QED
  BY <1>1 DEF J!Free

LEMMA ListMoves ==
    ASSUME TimelineTyped, NEW s \in JourneySessions, NEW w \in Workers, J!List(s, w)
    PROVE  Only(s) /\ req'[s].step = "visits" /\ req'[s].w = w
<1> DEFINE r == [req[s] EXCEPT !.step = "visits", !.w = w]
<1>1. req[s] \in Requests
  BY DEF TimelineTyped
<1>2. r \in Requests /\ r.step = "visits" /\ r.w = w
  BY <1>1 DEF Requests, Steps
<1>3. req' = [req EXCEPT ![s] = r]
  BY DEF J!List
<1> HIDE DEF r
<1>. QED
  BY <1>2, <1>3, OnlyOne

LEMMA VisitsMove ==
    ASSUME TimelineTyped, NEW s \in JourneySessions, J!ReadVisits(s), J!Visited # {}
    PROVE  Only(s) /\ req'[s].step = "entries" /\ req'[s].vs = J!Visited /\ req'[s].w = req[s].w
<1> DEFINE twice == {v \in JourneyVenues : visits[v] > 1}
           r == [req[s] EXCEPT !.step = "entries", !.vs = J!Visited, !.twice = twice]
<1>1. req[s] \in Requests
  BY DEF TimelineTyped
<1>2. twice \subseteq JourneyVenues
  OBVIOUS
<1>3. req' = [req EXCEPT ![s] = r]
  BY DEF J!ReadVisits
<1> HIDE DEF twice
<1>4. r \in Requests /\ r.step = "entries" /\ r.vs = J!Visited /\ r.w = req[s].w
  BY <1>1, <1>2, VisitedVenues DEF Requests, Steps
<1> HIDE DEF r
<1>. QED
  BY <1>3, <1>4, OnlyOne

LEMMA EntriesMove ==
    ASSUME TimelineTyped, NEW s \in JourneySessions, J!ReadEntries(s),
           ~(req[s].vs \subseteq entries)
    PROVE  /\ Only(s) /\ req'[s].step = "backfill"
           /\ req'[s].vs = req[s].vs \ entries /\ req'[s].w = req[s].w
<1> DEFINE r == [req[s] EXCEPT !.step = "backfill", !.vs = @ \ entries]
<1>1. req[s] \in Requests
  BY DEF TimelineTyped
<1>2. r \in Requests /\ r.step = "backfill" /\ r.vs = req[s].vs \ entries /\ r.w = req[s].w
  BY <1>1 DEF Requests, Steps
<1>3. req' = [req EXCEPT ![s] = r]
  BY DEF J!ReadEntries
<1> HIDE DEF r
<1>. QED
  BY <1>2, <1>3, OnlyOne

LEMMA AddMoves ==
    ASSUME TimelineTyped, NEW s \in JourneySessions, NEW vs \in SUBSET JourneyVenues, J!Add(s, vs)
    PROVE  Only(s) /\ req'[s].step = "add"
<1> DEFINE r == [req[s] EXCEPT !.step = "add", !.vs = vs \ entries]
<1>1. req[s] \in Requests
  BY DEF TimelineTyped
<1>2. r \in Requests /\ r.step = "add"
  BY <1>1 DEF Requests, Steps
<1>3. req' = [req EXCEPT ![s] = r]
  BY DEF J!Add
<1> HIDE DEF r
<1>. QED
  BY <1>2, <1>3, OnlyOne

LEMMA CheckInMoves ==
    ASSUME TimelineTyped, NEW s \in JourneySessions, NEW v \in JourneyVenues, J!CheckIn(s, v)
    PROVE  /\ Only(s) /\ req'[s].step = "check in" /\ req'[s].vs = {v}
           /\ req'[s].found <=> v \in entries
<1> DEFINE found == v \in entries
           r == [req[s] EXCEPT !.step = "check in", !.vs = {v}, !.found = found]
<1>1. req[s] \in Requests
  BY DEF TimelineTyped
<1>2. found \in BOOLEAN
  OBVIOUS
<1>3. req' = [req EXCEPT ![s] = r]
  BY DEF J!CheckIn
<1> HIDE DEF found
<1>4. r \in Requests /\ r.step = "check in" /\ r.vs = {v} /\ r.found = found
  BY <1>1, <1>2 DEF Requests, Steps
<1> HIDE DEF r
<1>5. Only(s) /\ req'[s] = r
  BY <1>3, <1>4, OnlyOne
<1>. QED
  BY <1>4, <1>5 DEF found

LEMMA RestartMoves ==
    ASSUME TimelineTyped, NEW w \in Workers, J!Restart(w)
    PROVE  /\ req' \in [JourneySessions -> Requests]
          
           /\ \A s \in JourneySessions : IF req[s].w = w THEN req'[s].step = "idle" ELSE req'[s] = req[s]
<1>1. J!Free.step = "idle"
  BY DEF J!Free
<1>. QED
  BY <1>1, FreeRequest DEF J!Restart, TimelineTyped

-----------------------------------------------------------------------------
LEMMA TypedStep == TimelineTyped /\ [J!Next]_(J!vars) => TimelineTyped'
<1> SUFFICES ASSUME TimelineTyped, [J!Next]_(J!vars) PROVE TimelineTyped'
  OBVIOUS
<1>1. ASSUME NEW s \in JourneySessions, NEW w \in Workers, J!List(s, w) PROVE TimelineTyped'
  BY <1>1, ListMoves DEF J!List, Only, TimelineTyped
<1>2. ASSUME NEW s \in JourneySessions, J!ReadVisits(s) PROVE TimelineTyped'
  <2>1. Only(s)
    BY <1>2, EndMoves, VisitsMove DEF J!ReadVisits
  <2>. QED
    BY <1>2, <2>1 DEF J!ReadVisits, Only, TimelineTyped
<1>3. ASSUME NEW s \in JourneySessions, J!ReadEntries(s) PROVE TimelineTyped'
  <2>1. Only(s)
    BY <1>3, EndMoves, EntriesMove DEF J!ReadEntries
  <2>. QED
    BY <1>3, <2>1 DEF J!ReadEntries, Only, TimelineTyped
<1>4. ASSUME NEW s \in JourneySessions, J!Backfill(s) PROVE TimelineTyped'
  <2>1. Only(s) /\ req[s].vs \subseteq JourneyVenues
    BY <1>4, EndMoves DEF J!Backfill, TimelineTyped, Requests
  <2>. QED
    BY <1>4, <2>1 DEF J!Backfill, Only, J!Joins, TimelineTyped
<1>5. ASSUME NEW s \in JourneySessions, J!Insert(s) PROVE TimelineTyped'
  <2>1. Only(s) /\ req[s].vs \subseteq JourneyVenues
    BY <1>5, EndMoves DEF J!Insert, TimelineTyped, Requests
  <2>. QED
    BY <1>5, <2>1 DEF J!Insert, Only, J!Joins, TimelineTyped
<1>6. ASSUME NEW s \in JourneySessions, NEW vs \in SUBSET JourneyVenues, J!Add(s, vs)
     PROVE TimelineTyped'
  BY <1>6, AddMoves DEF J!Add, Only, TimelineTyped
<1>7. ASSUME NEW s \in JourneySessions, NEW v \in JourneyVenues, J!CheckIn(s, v)
     PROVE TimelineTyped'
  BY <1>7, CheckInMoves DEF J!CheckIn, Only, TimelineTyped
<1>8. ASSUME NEW s \in JourneySessions, NEW v \in JourneyVenues, J!Commit(s, v)
     PROVE TimelineTyped'
  <2>1. Only(s)
    BY <1>8, EndMoves DEF J!Commit
  <2>2. visits' \in [JourneyVenues -> Nat]
    <3>1. visits' = visits \/ visits' = [visits EXCEPT ![v] = @ + 1]
      BY <1>8 DEF J!Commit
    <3>. QED
      BY <3>1 DEF TimelineTyped
  <2>3. entries' \subseteq JourneyVenues
    BY <1>8 DEF J!Commit, J!Joins, TimelineTyped
  <2>. QED
    BY <1>8, <2>1, <2>2, <2>3 DEF J!Commit, Only, TimelineTyped
<1>9. ASSUME NEW v \in JourneyVenues, J!Remove(v) \/ J!RemoveCheckIn(v) PROVE TimelineTyped'
  BY <1>9 DEF J!Remove, J!RemoveCheckIn, TimelineTyped
<1>10. ASSUME NEW w \in Workers, J!Restart(w) PROVE TimelineTyped'
  BY <1>10, RestartMoves DEF J!Restart, TimelineTyped
<1>11. CASE UNCHANGED J!vars
  BY <1>11 DEF J!vars, TimelineTyped
<1>. QED
  BY <1>1, <1>2, <1>3, <1>4, <1>5, <1>6, <1>7, <1>8, <1>9, <1>10, <1>11 DEF J!Next

-----------------------------------------------------------------------------
LEMMA MissingInit == J!Init => MissingKnown
<1> SUFFICES ASSUME J!Init PROVE MissingKnown
  OBVIOUS
<1>1. \A s \in JourneySessions : req[s].step = "idle"
  BY DEF J!Init, J!Free
<1>2. good = FALSE
  BY DEF J!Init
<1>. QED
  BY <1>1, <1>2 DEF MissingKnown

\* No step makes a venue missing: what a removal takes out is out by intent, and
\* a check-in joins its venue unless it found it.
LEMMA MissingShrinks ==
    TimelineTyped /\ MissingKnown /\ [J!Next]_(J!vars) => Missing' \subseteq Missing
<1> SUFFICES ASSUME TimelineTyped, MissingKnown, [J!Next]_(J!vars)
     PROVE Missing' \subseteq Missing
  OBVIOUS
<1> USE DEF Missing, J!Visited
<1>1. ASSUME NEW s \in JourneySessions, NEW w \in Workers, J!List(s, w)
     PROVE Missing' \subseteq Missing
  BY <1>1 DEF J!List
<1>2. ASSUME NEW s \in JourneySessions, J!ReadVisits(s) \/ J!ReadEntries(s)
     PROVE Missing' \subseteq Missing
  BY <1>2 DEF J!ReadVisits, J!ReadEntries
<1>3. ASSUME NEW s \in JourneySessions, J!Backfill(s) PROVE Missing' \subseteq Missing
  BY <1>3 DEF J!Backfill, J!Joins
<1>4. ASSUME NEW s \in JourneySessions, J!Insert(s) PROVE Missing' \subseteq Missing
  BY <1>4 DEF J!Insert, J!Joins
<1>5. ASSUME NEW s \in JourneySessions, NEW vs \in SUBSET JourneyVenues, J!Add(s, vs)
     PROVE Missing' \subseteq Missing
  BY <1>5 DEF J!Add
<1>6. ASSUME NEW s \in JourneySessions, NEW v \in JourneyVenues, J!CheckIn(s, v)
     PROVE Missing' \subseteq Missing
  BY <1>6 DEF J!CheckIn
<1>7. ASSUME NEW s \in JourneySessions, NEW v \in JourneyVenues, J!Commit(s, v)
     PROVE Missing' \subseteq Missing
  <2>1. CASE ~req[s].found /\ v \in entries
    BY <1>7, <2>1 DEF J!Commit
  <2>2. CASE ~req[s].found /\ v \notin entries
    BY <1>7, <2>2 DEF J!Commit, J!Joins, TimelineTyped
  <2>3. CASE req[s].found
    <3>1. v \in entries \cup dropped
      BY <1>7, <2>3 DEF J!Commit, J!At, MissingKnown
    <3>2. /\ visits' = [visits EXCEPT ![v] = @ + 1]
          /\ UNCHANGED <<entries, dropped>>
      BY <1>7, <2>3 DEF J!Commit
    <3>3. \A u \in JourneyVenues : u # v => visits'[u] = visits[u]
      BY <3>2 DEF TimelineTyped
    <3>. QED
      BY <3>1, <3>2, <3>3
  <2>. QED
    BY <1>7, <2>1, <2>2, <2>3 DEF TimelineTyped, Requests
<1>8. ASSUME NEW v \in JourneyVenues, J!Remove(v) PROVE Missing' \subseteq Missing
  BY <1>8 DEF J!Remove
<1>9. ASSUME NEW v \in JourneyVenues, J!RemoveCheckIn(v) PROVE Missing' \subseteq Missing
  BY <1>9 DEF J!RemoveCheckIn, TimelineTyped
<1>10. ASSUME NEW w \in Workers, J!Restart(w) PROVE Missing' \subseteq Missing
  BY <1>10 DEF J!Restart
<1>11. CASE UNCHANGED J!vars
  BY <1>11 DEF J!vars
<1>. QED
  BY <1>1, <1>2, <1>3, <1>4, <1>5, <1>6, <1>7, <1>8, <1>9, <1>10, <1>11 DEF J!Next

LEMMA MissingStep == TimelineTyped /\ MissingKnown /\ [J!Next]_(J!vars) => MissingKnown'
<1> SUFFICES ASSUME TimelineTyped, MissingKnown, [J!Next]_(J!vars) PROVE MissingKnown'
  OBVIOUS
<1>0. Missing' \subseteq Missing
  BY MissingShrinks
<1>1. ASSUME NEW s \in JourneySessions, NEW w \in Workers, J!List(s, w) PROVE MissingKnown'
  BY <1>0, <1>1, ListMoves DEF J!List, Only, MissingKnown
<1>2. ASSUME NEW s \in JourneySessions, J!ReadVisits(s) PROVE MissingKnown'
  <2>1. Missing \subseteq J!Visited /\ UNCHANGED <<entries, dropped>>
    BY <1>2 DEF Missing, J!ReadVisits
  <2>2. CASE J!Visited = {}
    <3>1. Only(s) /\ req'[s].step = "idle"
      BY <1>2, <2>2, EndMoves DEF J!ReadVisits
    <3>. QED
      BY <1>0, <2>1, <2>2, <3>1 DEF Only, MissingKnown
  <2>3. CASE J!Visited # {}
    <3>1. good' = good
      BY <1>2, <2>3 DEF J!ReadVisits
    <3>2. Only(s) /\ req'[s].step = "entries" /\ req'[s].vs = J!Visited
      BY <1>2, <2>3, VisitsMove
    <3>. QED
      BY <1>0, <2>1, <3>1, <3>2 DEF Only, MissingKnown
  <2>. QED
    BY <2>2, <2>3
<1>3. ASSUME NEW s \in JourneySessions, J!ReadEntries(s) PROVE MissingKnown'
  <2>1. /\ Missing \subseteq req[s].vs /\ Missing \cap entries = {}
        /\ UNCHANGED <<entries, dropped>>
    BY <1>3 DEF J!ReadEntries, J!At, MissingKnown, Missing
  <2>2. CASE req[s].vs \subseteq entries
    <3>1. Only(s) /\ req'[s].step = "idle"
      BY <1>3, <2>2, EndMoves DEF J!ReadEntries
    <3>. QED
      BY <1>0, <2>1, <2>2, <3>1 DEF Only, MissingKnown
  <2>3. CASE ~(req[s].vs \subseteq entries)
    <3>1. good' = good
      BY <1>3, <2>3 DEF J!ReadEntries
    <3>2. Only(s) /\ req'[s].step = "backfill" /\ req'[s].vs = req[s].vs \ entries
      BY <1>3, <2>3, EntriesMove
    <3>. QED
      BY <1>0, <2>1, <3>1, <3>2 DEF Only, MissingKnown
  <2>. QED
    BY <2>2, <2>3
<1>4. ASSUME NEW s \in JourneySessions, J!Backfill(s) PROVE MissingKnown'
  <2>1. Missing \subseteq req[s].vs
    BY <1>4 DEF J!Backfill, J!At, MissingKnown
  <2>2. Only(s) /\ req'[s].step = "idle"
    BY <1>4, EndMoves DEF J!Backfill
  <2>3. CASE req[s].vs \cap (entries \cup req[s].twice) # {}
    BY <1>0, <1>4, <2>2, <2>3 DEF J!Backfill, Only, MissingKnown
  <2>4. CASE req[s].vs \cap (entries \cup req[s].twice) = {}
    <3>1. Missing' = {}
      BY <1>0, <1>4, <2>1, <2>4 DEF J!Backfill, J!Joins, Missing
    <3>2. entries \cup dropped \subseteq (entries \cup dropped)'
      BY <1>4, <2>4 DEF J!Backfill, J!Joins
    <3>. QED
      BY <2>2, <3>1, <3>2 DEF Only, MissingKnown
  <2>. QED
    BY <2>3, <2>4
<1>5. ASSUME NEW s \in JourneySessions, J!Insert(s) PROVE MissingKnown'
  <2>1. Only(s) /\ req'[s].step = "idle"
    BY <1>5, EndMoves DEF J!Insert
  <2>2. good' = good /\ entries \cup dropped \subseteq (entries \cup dropped)'
    BY <1>5 DEF J!Insert, J!Joins
  <2>. QED
    BY <1>0, <2>1, <2>2 DEF Only, MissingKnown
<1>6. ASSUME NEW s \in JourneySessions, NEW vs \in SUBSET JourneyVenues, J!Add(s, vs)
     PROVE MissingKnown'
  BY <1>0, <1>6, AddMoves DEF J!Add, Only, MissingKnown
<1>7. ASSUME NEW s \in JourneySessions, NEW v \in JourneyVenues, J!CheckIn(s, v)
     PROVE MissingKnown'
  <2>1. UNCHANGED <<entries, dropped, good>>
    BY <1>7 DEF J!CheckIn
  <2>2. Only(s) /\ req'[s].step = "check in" /\ (req'[s].found => req'[s].vs \subseteq entries)
    BY <1>7, CheckInMoves
  <2>. QED
    BY <1>0, <2>1, <2>2 DEF Only, MissingKnown
<1>8. ASSUME NEW s \in JourneySessions, NEW v \in JourneyVenues, J!Commit(s, v)
     PROVE MissingKnown'
  <2>1. Only(s) /\ req'[s].step = "idle"
    BY <1>8, EndMoves DEF J!Commit
  <2>2. good' = good /\ entries \cup dropped \subseteq (entries \cup dropped)'
    BY <1>8 DEF J!Commit, J!Joins
  <2>. QED
    BY <1>0, <2>1, <2>2 DEF Only, MissingKnown
<1>9. ASSUME NEW v \in JourneyVenues, J!Remove(v) \/ J!RemoveCheckIn(v) PROVE MissingKnown'
  <2>1. UNCHANGED <<good, req>> /\ entries \cup dropped \subseteq (entries \cup dropped)'
    BY <1>9 DEF J!Remove, J!RemoveCheckIn
  <2>. QED
    BY <1>0, <2>1 DEF MissingKnown
<1>10. ASSUME NEW w \in Workers, J!Restart(w) PROVE MissingKnown'
  <2>1. UNCHANGED <<good, entries, dropped>>
    BY <1>10 DEF J!Restart
  <2>. QED
    BY <1>0, <1>10, <2>1, RestartMoves DEF MissingKnown
<1>11. CASE UNCHANGED J!vars
  BY <1>0, <1>11 DEF J!vars, MissingKnown
<1>. QED
  BY <1>1, <1>2, <1>3, <1>4, <1>5, <1>6, <1>7, <1>8, <1>9, <1>10, <1>11 DEF J!Next

\* Once a backfill has succeeded the journey has every visited venue that was not
\* taken out, whatever other requests, workers and restarts do.
THEOREM JourneyIsComplete == J!Spec => []JourneyComplete
<1>1. TimelineTyped /\ MissingKnown => J!JourneyComplete
  BY DEF MissingKnown, Missing, J!JourneyComplete
<1>2. J!JourneyComplete => JourneyComplete
  BY JourneySame
<1>. QED
  BY <1>1, TypedInit, TypedStep, MissingInit, MissingStep, <1>2, PTL DEF J!Spec

-----------------------------------------------------------------------------
LEMMA OneListInit == J!Init => OneListEach
<1> SUFFICES ASSUME J!Init PROVE OneListEach
  OBVIOUS
<1>1. \A s \in JourneySessions : req[s].step = "idle"
  BY DEF J!Init, J!Free
<1>2. DOMAIN fails = Workers /\ \A w \in Workers : fails[w] = 0
  BY DEF J!Init
<1>. QED
  BY <1>1, <1>2 DEF OneListEach, Lists, J!FailsOnce

\* A step that adds no list and moves none to another worker.
LEMMA NoNewList ==
    ASSUME TimelineTyped, OneListEach, NEW s \in JourneySessions, Only(s), UNCHANGED <<healed,
           fails>>,
           Lists(s)' => Lists(s) /\ req'[s].w = req[s].w
    PROVE  OneListEach'
BY DEF OneListEach, Lists, Only, J!FailsOnce

LEMMA OneListStep == TimelineTyped /\ OneListEach /\ [J!Next]_(J!vars) => OneListEach'
<1> SUFFICES ASSUME TimelineTyped, OneListEach, [J!Next]_(J!vars) PROVE OneListEach'
  OBVIOUS
<1>1. ASSUME NEW s \in JourneySessions, NEW w \in Workers, J!List(s, w) PROVE OneListEach'
  <2>1. Only(s) /\ req'[s].step = "visits" /\ req'[s].w = w
    BY <1>1, ListMoves
  <2>2. w \notin healed /\ healed' = healed \cup {w} /\ fails' = fails
    BY <1>1 DEF J!List
  <2>. QED
    BY <2>1, <2>2 DEF OneListEach, Lists, Only, J!FailsOnce
<1>2. ASSUME NEW s \in JourneySessions, J!ReadVisits(s) PROVE OneListEach'
  <2>1. Only(s) /\ Lists(s) /\ (Lists(s)' => req'[s].w = req[s].w)
    BY <1>2, EndMoves, VisitsMove DEF J!ReadVisits, J!At, Lists
  <2>. QED
    BY <1>2, <2>1, NoNewList DEF J!ReadVisits
<1>3. ASSUME NEW s \in JourneySessions, J!ReadEntries(s) PROVE OneListEach'
  <2>1. Only(s) /\ Lists(s) /\ (Lists(s)' => req'[s].w = req[s].w)
    BY <1>3, EndMoves, EntriesMove DEF J!ReadEntries, J!At, Lists
  <2>. QED
    BY <1>3, <2>1, NoNewList DEF J!ReadEntries
<1>4. ASSUME NEW s \in JourneySessions, J!Backfill(s) PROVE OneListEach'
  <2>1. Lists(s) /\ healed' = healed
    BY <1>4 DEF J!Backfill, J!At, Lists
  <2>2. Only(s) /\ req'[s].step = "idle"
    BY <1>4, EndMoves DEF J!Backfill
  <2>3. CASE fails' = fails
    BY <2>1, <2>2, <2>3, NoNewList DEF Lists
  <2>4. CASE fails' = [fails EXCEPT ![req[s].w] = @ + 1]
    BY <2>1, <2>2, <2>4 DEF TimelineTyped, OneListEach, Lists, Only, J!FailsOnce
  <2>. QED
    BY <1>4, <2>3, <2>4 DEF J!Backfill
<1>5. ASSUME NEW s \in JourneySessions, J!Insert(s) PROVE OneListEach'
  BY <1>5, EndMoves, NoNewList DEF J!Insert, Lists
<1>6. ASSUME NEW s \in JourneySessions, NEW vs \in SUBSET JourneyVenues, J!Add(s, vs)
     PROVE OneListEach'
  BY <1>6, AddMoves, NoNewList DEF J!Add, Lists
<1>7. ASSUME NEW s \in JourneySessions, NEW v \in JourneyVenues, J!CheckIn(s, v)
     PROVE OneListEach'
  BY <1>7, CheckInMoves, NoNewList DEF J!CheckIn, Lists
<1>8. ASSUME NEW s \in JourneySessions, NEW v \in JourneyVenues, J!Commit(s, v) PROVE OneListEach'
  BY <1>8, EndMoves, NoNewList DEF J!Commit, Lists
<1>9. ASSUME NEW v \in JourneyVenues, J!Remove(v) \/ J!RemoveCheckIn(v) PROVE OneListEach'
  BY <1>9 DEF J!Remove, J!RemoveCheckIn, OneListEach, Lists, J!FailsOnce
<1>10. ASSUME NEW w \in Workers, J!Restart(w) PROVE OneListEach'
  <2>1. healed' = healed \ {w} /\ fails' = [fails EXCEPT ![w] = 0]
    BY <1>10 DEF J!Restart
  <2>. QED
    BY <1>10, <2>1, RestartMoves DEF TimelineTyped, OneListEach, Lists, J!FailsOnce
<1>11. CASE UNCHANGED J!vars
  BY <1>11 DEF J!vars, OneListEach, Lists, J!FailsOnce
<1>. QED
  BY <1>1, <1>2, <1>3, <1>4, <1>5, <1>6, <1>7, <1>8, <1>9, <1>10, <1>11 DEF J!Next

\* A backfill that fails, as it does when a venue has two check-ins, costs the user
\* one list of a worker however many are asked for at once.
THEOREM FailuresBounded == J!Spec => []FailsOnce
<1>1. OneListEach => J!FailsOnce
  BY DEF OneListEach
<1>2. J!FailsOnce => FailsOnce
  BY JourneySame
<1>. QED
  BY <1>1, TypedInit, TypedStep, OneListInit, OneListStep, <1>2, PTL DEF J!Spec

-----------------------------------------------------------------------------
(* Types of the journey.                                                   *)

\* A venue has no more visits than the bound lets begin.
VisitsBounded == visits \in [JourneyVenues -> 0..MaxVisits]

LEMMA VisitsStep ==
    ASSUME MaxVisits \in Nat, TimelineTyped, VisitsBounded, [J!Next]_(J!vars)
    PROVE  VisitsBounded'
<1>1. CASE visits' = visits
  BY <1>1 DEF VisitsBounded
<1>2. ASSUME NEW s \in JourneySessions, NEW v \in JourneyVenues, J!Commit(s, v) PROVE VisitsBounded'
  <2>1. \/ visits' = visits
        \/ visits' = [visits EXCEPT ![v] = @ + 1] /\ visits[v] < MaxVisits
    BY <1>2 DEF J!Commit
  <2>. QED
    BY <2>1 DEF VisitsBounded
<1>3. ASSUME NEW v \in JourneyVenues, J!RemoveCheckIn(v) PROVE VisitsBounded'
  BY <1>3 DEF J!RemoveCheckIn, VisitsBounded
<1>. QED
  BY <1>1, <1>2, <1>3 DEF J!Next, J!vars, J!List, J!ReadVisits, J!ReadEntries, J!Backfill, J!Insert,
     J!Add, J!CheckIn, J!Remove, J!Restart

\* The journey and its requests are of their types: a list that may backfill runs
\* in a worker that is marked, and the check-ins at a venue are never negative.
THEOREM JourneyTypes ==
    ASSUME MaxVisits \in Nat
    PROVE  J!Spec => []J!TypeOK
<1>1. J!Init => VisitsBounded
  BY DEF J!Init, VisitsBounded
<1>2. TimelineTyped /\ VisitsBounded /\ [J!Next]_(J!vars) => VisitsBounded'
  BY VisitsStep
<1>3. TimelineTyped /\ OneListEach /\ VisitsBounded => J!TypeOK
  BY DEF TimelineTyped, OneListEach, VisitsBounded, Lists, Requests, J!TypeOK
<1>. QED
  BY <1>1, <1>2, <1>3, TypedInit, TypedStep, OneListInit, OneListStep, PTL DEF J!Spec

-----------------------------------------------------------------------------
(* The saved venues of a user, over any number of months.                  *)

\* A row is never of a month to come.
SavedTyped == month \in Nat /\ month >= 1 /\ saved \in 0..month

SavedInv == SavedTyped /\ StartsFresh

LEMMA SavedInit == S!Init => SavedInv
BY DEF S!Init, SavedInv, SavedTyped, StartsFresh

LEMMA SavedStep == SavedInv /\ [S!Next]_(S!vars) => SavedInv'
<1> SUFFICES ASSUME SavedInv, [S!Next]_(S!vars) PROVE SavedInv'
  OBVIOUS
<1> USE DEF SavedInv, SavedTyped, StartsFresh
<1>1. ASSUME NEW s \in JourneySessions, S!Find(s) PROVE SavedInv'
  BY <1>1 DEF S!Find
<1>2. ASSUME NEW s \in JourneySessions, S!Save(s) PROVE SavedInv'
  BY <1>2 DEF S!Save
<1>3. ASSUME NEW w \in Workers, S!MonthlyReset(w) PROVE SavedInv'
  BY <1>3 DEF S!MonthlyReset
<1>4. CASE S!RemoveSaved
  BY <1>4 DEF S!RemoveSaved
<1>5. CASE S!MonthBegins
  BY <1>5 DEF S!MonthBegins
<1>6. CASE UNCHANGED S!vars
  BY <1>6 DEF S!vars
<1>. QED
  BY <1>1, <1>2, <1>3, <1>4, <1>5, <1>6 DEF S!Next

\* Nothing is saved in a month that has not begun, nor wiped by a worker that is none.
THEOREM SavedTypes ==
    ASSUME Months \in Nat \ {0}
    PROVE  S!Spec => []S!TypeOK
<1> DEFINE Lasts == month \in 1..Months /\ wiped \subseteq Workers /\ finding \subseteq JourneySessions
<1>1. S!Init => Lasts
  BY DEF S!Init
<1>2. ASSUME Lasts, [S!Next]_(S!vars) PROVE Lasts'
  <2>1. ASSUME NEW s \in JourneySessions, S!Find(s) \/ S!Save(s) PROVE Lasts'
    BY <1>2, <2>1 DEF S!Find, S!Save
  <2>2. ASSUME NEW w \in Workers, S!MonthlyReset(w) PROVE Lasts'
    BY <1>2, <2>2 DEF S!MonthlyReset
  <2>3. CASE S!RemoveSaved \/ S!MonthBegins
    BY <1>2, <2>3 DEF S!RemoveSaved, S!MonthBegins
  <2>4. CASE UNCHANGED S!vars
    BY <1>2, <2>4 DEF S!vars
  <2>. QED
    BY <1>2, <2>1, <2>2, <2>3, <2>4 DEF S!Next
<1>3. SavedInv /\ Lasts => S!TypeOK
  BY DEF SavedInv, SavedTyped, S!TypeOK
<1>. QED
  BY <1>1, <1>2, <1>3, SavedInit, SavedStep, PTL DEF S!Spec

\* Once a worker has run the month's reset nothing of an earlier month is saved,
\* however many workers there are and whatever saves were under way.
THEOREM SavedStartsFresh == S!Spec => []StartsFresh
<1>1. SavedInv => StartsFresh
  BY DEF SavedInv
<1>. QED
  BY <1>1, SavedInit, SavedStep, PTL DEF S!Spec

-----------------------------------------------------------------------------
(*  REVIEWS                                                                *)

Reviewing == {"find", "reread", "save", "aggregate", "update", "commit"}
Editing == {"reload", "write"}
Fields == {"op", "step", "u", "v", "star", "entity", "changed", "row", "alone"}

\* A row of a venue, and the memory of a request, have these fields.
IsRating(row) == row = [c \in {"rating", "count"} |-> row[c]]
IsRequest(r) ==
    /\ r = [f \in Fields |-> r[f]]
    /\ r.step \in Reviewing \cup Editing \cup {"idle", "done"}
    /\ r.alone \in BOOLEAN /\ r.changed \in BOOLEAN
    /\ r.step \in Reviewing \cup Editing => r.v \in Venues
    /\ r.step \in Reviewing => r.u \in Users /\ r.star \in Stars \cup {Unrated}
    /\ r.step \in {"update", "commit"} => IsRating(r.row)

Typed ==
    /\ review \in [Keys -> Stars \cup {Unrated}]
    /\ venue = [v \in Venues |-> venue[v]]
    /\ \A v \in Venues : IsRating(venue[v])
    /\ sess = [s \in Sessions |-> sess[s]]
    /\ \A s \in Sessions : IsRequest(sess[s])

\* No other request is on the venue of s.
OnlyOn(s) == \A t \in Sessions : Live(t) /\ sess[t].v = sess[s].v => t = s

\* A review that has been alone on its venue since it began is alone now, and
\* what it is about to write is what it will commit; any other has its venue in
\* raced.  An editor's save of a venue that is not has found nothing changed.
Undisturbed(s) ==
    /\ sess[s].step \in Reviewing /\ sess[s].alone => OnlyOn(s)
    /\ sess[s].step \in Reviewing /\ ~sess[s].alone => sess[s].v \in raced
    /\ sess[s].step \in {"update", "commit"} /\ sess[s].alone
         => sess[s].row = Aggregate(Seen(s), sess[s].v)
    /\ sess[s].step \in Editing /\ sess[s].v \notin raced =>
         /\ OnlyOn(s)
         /\ sess[s].row[1] = venue[sess[s].v]
         /\ sess[s].step = "write" => sess[s].row[2] = venue[sess[s].v]

RatingInv == Typed /\ RatingExact /\ \A s \in Sessions : Undisturbed(s)
-----------------------------------------------------------------------------
(* What a rating depends on.                                               *)

\* A table that has the same reviews of a venue gives the same rating.
LEMMA SameReviews ==
    ASSUME NEW a, NEW b, NEW v, \A u \in Users : a[<<u, v>>] = b[<<u, v>>]
    PROVE  Aggregate(a, v) = Aggregate(b, v)
<1>1. {w \in Users : a[<<w, v>>] # Unrated} = {w \in Users : b[<<w, v>>] # Unrated}
  OBVIOUS
<1>2. Given(a, v) = Given(b, v)
  BY <1>1 DEF Given
<1>. QED
  BY <1>2 DEF Aggregate

LEMMA AggregateIsRow == \A table, v : IsRating(Aggregate(table, v))
<1> SUFFICES ASSUME NEW given PROVE IsRating(Average(given))
  BY DEF Aggregate
<1>1. \A a, b : IsRating([rating |-> a, count |-> b])
  BY DEF IsRating
<1>. QED
  BY <1>1 DEF Average, Blend

\* What a transaction sees is a table of reviews, and what it has changed is of
\* its own venue.
LEMMA SeenTable ==
    ASSUME Typed, NEW s \in Sessions, sess[s].step \in Reviewing
    PROVE  /\ Seen(s) \in [Keys -> Stars \cup {Unrated}]
           /\ \A u \in Users, v \in Venues : v # sess[s].v => Seen(s)[<<u, v>>] = review[<<u, v>>]
<1>1. Key(s) \in Keys /\ sess[s].star \in Stars \cup {Unrated}
  BY DEF Typed, IsRequest, Key, Keys
<1>2. \A u \in Users, v \in Venues : v # sess[s].v => <<u, v>> # Key(s)
  BY DEF Key
<1>3. CASE sess[s].changed
  BY <1>1, <1>2, <1>3 DEF Seen, Typed, Keys
<1>4. CASE ~sess[s].changed
  BY <1>4 DEF Seen, Typed
<1>. QED
  BY <1>3, <1>4

-----------------------------------------------------------------------------
(* Steps of one request.                                                   *)

\* The request of s moves on, the others stay.
Moves(s, r) == IsRequest(r) /\ sess' = [sess EXCEPT ![s] = r]

LEMMA MoveOne ==
    ASSUME Typed, NEW s \in Sessions, NEW r, Moves(s, r)
    PROVE  /\ sess' = [t \in Sessions |-> sess'[t]]
           /\ sess'[s] = r
           /\ \A t \in Sessions : t # s => sess'[t] = sess[t]
           /\ \A t \in Sessions : IsRequest(sess'[t])
BY DEF Typed, Moves

\* A free record, or a request's, with one field replaced.
LEMMA FreeFields ==
    /\ Free = [f \in Fields |-> Free[f]]
    /\ Free.alone = TRUE /\ Free.changed = FALSE
BY DEF Free, Fields

LEMMA Ended ==
    LET r == [Free EXCEPT !.step = "done"]
    IN  IsRequest(r) /\ r.step = "done" /\ r.changed = FALSE
<1> DEFINE r == [Free EXCEPT !.step = "done"]
<1>1. r = [f \in Fields |-> r[f]] /\ r.step = "done"
  BY FreeFields DEF Fields
<1>2. r.alone = TRUE /\ r.changed = FALSE
  BY FreeFields DEF Fields
<1> HIDE DEF r
<1>3. IsRequest(r)
  BY <1>1, <1>2 DEF IsRequest, Reviewing, Editing
<1>. QED
  BY <1>1, <1>2, <1>3 DEF r

\* What a request remembers, but for the row it has found.
Keeps(t) ==
    /\ sess'[t].step = sess[t].step
    /\ sess'[t].v = sess[t].v /\ sess'[t].u = sess[t].u /\ sess'[t].star = sess[t].star
    /\ sess'[t].changed = sess[t].changed /\ sess'[t].row = sess[t].row
    /\ sess'[t].alone = sess[t].alone

\* Whoever ends is no longer live.
Ends(s) == /\ sess' = [t \in Sessions |-> sess'[t]]
           /\ \A t \in Sessions : t # s => Keeps(t)
           /\ \A t \in Sessions : IsRequest(sess'[t])
           /\ sess'[s].step = "done" /\ sess'[s].changed = FALSE

LEMMA EndsRequest ==
    ASSUME Typed, NEW s \in Sessions, End(s)
    PROVE  Ends(s)
<1> DEFINE r == [Free EXCEPT !.step = "done"]
<1>1. IsRequest(r) /\ r.step = "done" /\ r.changed = FALSE /\ sess' = [sess EXCEPT ![s] = r]
  BY Ended DEF End, Done
<1> HIDE DEF r
<1>2. \A t \in Sessions : t # s => sess'[t] = sess[t]
  BY <1>1, MoveOne DEF Moves
<1>. QED
  BY <1>1, <1>2, MoveOne DEF Moves, Ends, Keeps

\* Whoever goes on to the next step keeps the venue, the review and whether it
\* is alone.
Goes(s, step) ==
    /\ sess' = [t \in Sessions |-> sess'[t]]
    /\ \A t \in Sessions : t # s => Keeps(t)
    /\ \A t \in Sessions : IsRequest(sess'[t])
    /\ sess'[s].step = step
    /\ sess'[s].v = sess[s].v /\ sess'[s].u = sess[s].u
    /\ sess'[s].alone = sess[s].alone

LEMMA MoveGoes ==
    ASSUME Typed, NEW s \in Sessions, NEW r, Moves(s, r), NEW step, r.step = step,
           r.v = sess[s].v, r.u = sess[s].u, r.alone = sess[s].alone
    PROVE  Goes(s, step) /\ sess'[s] = r
<1>1. \A t \in Sessions : t # s => sess'[t] = sess[t]
  BY MoveOne
<1>. QED
  BY <1>1, MoveOne DEF Goes, Keeps

LEMMA FindMoves ==
    ASSUME Typed, NEW s \in Sessions, FindReview(s)
    PROVE  Goes(s, "save") \/ Goes(s, "reread")
<1> DEFINE found == review[Key(s)] # Unrated
           entity == IF found THEN "row" ELSE "new"
           step == IF found THEN "reread" ELSE "save"
           r == [sess[s] EXCEPT !.entity = entity, !.step = step]
<1>1. IsRequest(sess[s]) /\ sess[s].step = "find"
  BY DEF Typed, FindReview
<1>2. sess' = [sess EXCEPT ![s] = r]
  BY DEF FindReview
<1>3. step \in {"save", "reread"}
  OBVIOUS
<1> HIDE DEF entity, step
<1>4. /\ r = [f \in Fields |-> r[f]] /\ r.step = step
      /\ r.v = sess[s].v /\ r.u = sess[s].u /\ r.star = sess[s].star
      /\ r.alone = sess[s].alone /\ r.changed = sess[s].changed
  BY <1>1 DEF IsRequest, Fields
<1> HIDE DEF r
<1>5. IsRequest(r)
  BY <1>1, <1>3, <1>4 DEF IsRequest, Reviewing
<1>6. Goes(s, step)
  BY <1>2, <1>4, <1>5, MoveGoes DEF Moves
<1>. QED
  BY <1>3, <1>6

LEMMA RereadMoves ==
    ASSUME Typed, NEW s \in Sessions, RereadReview(s)
    PROVE  Goes(s, "save")
<1> DEFINE entity == IF sess[s].entity = "gone" THEN "new"
                     ELSE IF review[Key(s)] = sess[s].star THEN "same" ELSE "row"
           r == [sess[s] EXCEPT !.entity = entity, !.step = "save"]
<1>1. IsRequest(sess[s]) /\ sess[s].step = "reread"
  BY DEF Typed, RereadReview
<1>2. sess' = [sess EXCEPT ![s] = r]
  BY DEF RereadReview
<1> HIDE DEF entity
<1>3. /\ r = [f \in Fields |-> r[f]] /\ r.step = "save"
      /\ r.v = sess[s].v /\ r.u = sess[s].u /\ r.star = sess[s].star
      /\ r.alone = sess[s].alone /\ r.changed = sess[s].changed
  BY <1>1 DEF IsRequest, Fields
<1> HIDE DEF r
<1>4. IsRequest(r)
  BY <1>1, <1>3 DEF IsRequest, Reviewing
<1>. QED
  BY <1>2, <1>3, <1>4, MoveGoes DEF Moves

\* A save and a delete that find something to change.
LEMMA ChangeMoves ==
    ASSUME Typed, NEW s \in Sessions, sess[s].step \in {"save", "find"},
           NEW star \in Stars \cup {Unrated}, Change(s, star)
    PROVE  Goes(s, "aggregate")
<1> DEFINE r == [sess[s] EXCEPT !.changed = TRUE, !.star = star, !.step = "aggregate"]
<1>1. IsRequest(sess[s])
  BY DEF Typed
<1>2. sess' = [sess EXCEPT ![s] = r]
  BY DEF Change
<1>3. /\ r = [f \in Fields |-> r[f]] /\ r.step = "aggregate"
      /\ r.v = sess[s].v /\ r.u = sess[s].u /\ r.star = star
      /\ r.alone = sess[s].alone /\ r.changed = TRUE
  BY <1>1 DEF IsRequest, Fields
<1> HIDE DEF r
<1>4. IsRequest(r)
  BY <1>1, <1>3 DEF IsRequest, Reviewing
<1>. QED
  BY <1>2, <1>3, <1>4, MoveGoes DEF Moves

LEMMA ToMoves ==
    ASSUME Typed, NEW s \in Sessions, sess[s].step = "save", To(s, "aggregate")
    PROVE  Goes(s, "aggregate")
<1> DEFINE r == [sess[s] EXCEPT !.step = "aggregate"]
<1>1. IsRequest(sess[s])
  BY DEF Typed
<1>2. sess' = [sess EXCEPT ![s] = r]
  BY DEF To
<1>3. /\ r = [f \in Fields |-> r[f]] /\ r.step = "aggregate"
      /\ r.v = sess[s].v /\ r.u = sess[s].u /\ r.star = sess[s].star
      /\ r.alone = sess[s].alone /\ r.changed = sess[s].changed
  BY <1>1 DEF IsRequest, Fields
<1> HIDE DEF r
<1>4. IsRequest(r)
  BY <1>1, <1>3 DEF IsRequest, Reviewing
<1>. QED
  BY <1>2, <1>3, <1>4, MoveGoes DEF Moves

LEMMA SaveMoves ==
    ASSUME Typed, NEW s \in Sessions, SaveReview(s) \/ DeleteReview(s)
    PROVE  End(s) \/ Goes(s, "aggregate")
<1>1. CASE SaveReview(s)
  <2>1. sess[s].step = "save" /\ IsRequest(sess[s])
    BY <1>1 DEF SaveReview, Typed
  <2>2. sess[s].star \in Stars \cup {Unrated} /\ Key(s) \in Keys
    BY <2>1 DEF IsRequest, Reviewing, Key, Keys
  <2>3. review[Key(s)] \in Stars \cup {Unrated}
    BY <2>2 DEF Typed
  <2>4. \/ End(s) \/ To(s, "aggregate")
        \/ Change(s, sess[s].star) \/ Change(s, review[Key(s)])
    BY <1>1 DEF SaveReview
  <2>. QED
    BY <2>1, <2>2, <2>3, <2>4, ChangeMoves, ToMoves
<1>2. CASE DeleteReview(s)
  <2>1. sess[s].step = "find" /\ (End(s) \/ Change(s, Unrated))
    BY <1>2 DEF DeleteReview
  <2>. QED
    BY <2>1, ChangeMoves
<1>. QED
  BY <1>1, <1>2

LEMMA ReadMoves ==
    ASSUME Typed, NEW s \in Sessions, ReadAggregate(s)
    PROVE  /\ Goes(s, "update") /\ sess'[s].changed = sess[s].changed
           /\ sess'[s].star = sess[s].star
           /\ sess'[s].row = Aggregate(Seen(s), sess[s].v)
<1> DEFINE row == Aggregate(Seen(s), sess[s].v)
           r == [sess[s] EXCEPT !.row = row, !.step = "update"]
<1>1. IsRequest(sess[s]) /\ sess[s].step = "aggregate"
  BY DEF Typed, ReadAggregate
<1>2. sess' = [sess EXCEPT ![s] = r] /\ IsRating(row)
  BY AggregateIsRow DEF ReadAggregate
<1> HIDE DEF row
<1>3. /\ r = [f \in Fields |-> r[f]] /\ r.step = "update"
      /\ r.v = sess[s].v /\ r.u = sess[s].u /\ r.star = sess[s].star
      /\ r.alone = sess[s].alone /\ r.changed = sess[s].changed /\ r.row = row
  BY <1>1 DEF IsRequest, Fields
<1> HIDE DEF r
<1>4. IsRequest(r)
  BY <1>1, <1>2, <1>3 DEF IsRequest, Reviewing
<1>5. Goes(s, "update") /\ sess'[s] = r
  BY <1>2, <1>3, <1>4, MoveGoes DEF Moves
<1>. QED
  BY <1>3, <1>5 DEF row

LEMMA UpdateMoves ==
    ASSUME Typed, NEW s \in Sessions, UpdateVenue(s)
    PROVE  /\ Goes(s, "commit") /\ sess'[s].changed = sess[s].changed
           /\ sess'[s].star = sess[s].star
           /\ sess'[s].row = sess[s].row
<1> DEFINE r == [sess[s] EXCEPT !.step = "commit"]
<1>1. IsRequest(sess[s]) /\ sess[s].step = "update"
  BY DEF Typed, UpdateVenue
<1>2. sess' = [sess EXCEPT ![s] = r]
  BY DEF UpdateVenue, To
<1>3. /\ r = [f \in Fields |-> r[f]] /\ r.step = "commit"
      /\ r.v = sess[s].v /\ r.u = sess[s].u /\ r.star = sess[s].star
      /\ r.alone = sess[s].alone /\ r.changed = sess[s].changed /\ r.row = sess[s].row
  BY <1>1 DEF IsRequest, Fields
<1> HIDE DEF r
<1>4. IsRequest(r)
  BY <1>1, <1>3 DEF IsRequest, Reviewing
<1>5. Goes(s, "commit") /\ sess'[s] = r
  BY <1>2, <1>3, <1>4, MoveGoes DEF Moves
<1>. QED
  BY <1>3, <1>5

LEMMA ReloadMoves ==
    ASSUME Typed, NEW s \in Sessions, EditReload(s)
    PROVE  /\ Goes(s, "write") /\ sess'[s].changed = sess[s].changed
           /\ sess'[s].row = <<sess[s].row[1], venue[sess[s].v]>>
<1> DEFINE row == <<sess[s].row[1], venue[sess[s].v]>>
           r == [sess[s] EXCEPT !.row = row, !.step = "write"]
<1>1. IsRequest(sess[s]) /\ sess[s].step = "reload"
  BY DEF Typed, EditReload
<1>2. sess' = [sess EXCEPT ![s] = r]
  BY DEF EditReload
<1> HIDE DEF row
<1>3. /\ r = [f \in Fields |-> r[f]] /\ r.step = "write"
      /\ r.v = sess[s].v /\ r.u = sess[s].u /\ r.star = sess[s].star
      /\ r.alone = sess[s].alone /\ r.changed = sess[s].changed /\ r.row = row
  BY <1>1 DEF IsRequest, Fields
<1> HIDE DEF r
<1>4. IsRequest(r)
  BY <1>1, <1>3 DEF IsRequest, Reviewing, Editing
<1>5. Goes(s, "write") /\ sess'[s] = r
  BY <1>2, <1>3, <1>4, MoveGoes DEF Moves
<1>. QED
  BY <1>3, <1>5 DEF row

\* Whoever starts on a venue is marked with all that are on it.
Starts(s, v) ==
    /\ sess' = [t \in Sessions |-> sess'[t]]
    /\ \A t \in Sessions : IsRequest(sess'[t])
    /\ \A t \in Sessions : t # s =>
          /\ sess'[t].step = sess[t].step
          /\ sess'[t].v = sess[t].v /\ sess'[t].u = sess[t].u /\ sess'[t].star = sess[t].star
          /\ sess'[t].changed = sess[t].changed /\ sess'[t].row = sess[t].row
          /\ sess'[t].alone = (sess[t].alone /\ t \notin On(v))
    /\ sess'[s].v = v
    /\ raced' = IF On(v) = {} THEN raced ELSE raced \cup {v}
    /\ UNCHANGED <<review, venue>>

\* The others, when s starts as r.
LEMMA StartMarks ==
    ASSUME Typed, NEW s \in Sessions, NEW v \in Venues, NEW r, IsRequest(r), r.v = v,
           sess' = [t \in Sessions |->
              IF t = s THEN r
              ELSE IF t \in On(v) THEN [sess[t] EXCEPT !.alone = FALSE] ELSE sess[t]],
           raced' = IF On(v) = {} THEN raced ELSE raced \cup {v},
           UNCHANGED <<review, venue>>
    PROVE  Starts(s, v) /\ sess'[s] = r
<1>1. sess'[s] = r /\ sess' = [t \in Sessions |-> sess'[t]]
  OBVIOUS
<1>2. ASSUME NEW t \in Sessions, t # s
      PROVE  /\ IsRequest(sess'[t])
             /\ sess'[t].step = sess[t].step
             /\ sess'[t].v = sess[t].v /\ sess'[t].u = sess[t].u /\ sess'[t].star = sess[t].star
             /\ sess'[t].changed = sess[t].changed /\ sess'[t].row = sess[t].row
             /\ sess'[t].alone = (sess[t].alone /\ t \notin On(v))
  <2>1. IsRequest(sess[t])
    BY DEF Typed
  <2>2. CASE t \in On(v)
    <3> DEFINE q == [sess[t] EXCEPT !.alone = FALSE]
    <3>1. sess'[t] = q
      BY <1>2, <2>2
    <3>2. /\ q = [f \in Fields |-> q[f]] /\ q.step = sess[t].step
          /\ q.v = sess[t].v /\ q.u = sess[t].u /\ q.star = sess[t].star
          /\ q.changed = sess[t].changed /\ q.row = sess[t].row /\ q.alone = FALSE
      BY <2>1 DEF IsRequest, Fields
    <3> HIDE DEF q
    <3>3. IsRequest(q)
      BY <2>1, <3>2 DEF IsRequest
    <3>. QED
      BY <2>2, <3>1, <3>2, <3>3
  <2>3. CASE t \notin On(v)
    <3>1. sess'[t] = sess[t]
      BY <1>2, <2>3
    <3>2. sess[t].alone \in BOOLEAN
      BY <2>1 DEF IsRequest
    <3>. QED
      BY <2>1, <2>3, <3>1, <3>2
  <2>. QED
    BY <2>2, <2>3
<1>. QED
  BY <1>1, <1>2 DEF Starts

LEMMA BeginStarts ==
    ASSUME Typed, NEW s \in Sessions, NEW op, NEW u \in Users, NEW v \in Venues,
           NEW star \in Stars \cup {Unrated}, Begin(s, op, u, v, star)
    PROVE  /\ Starts(s, v) /\ sess[s].step = "idle"
           /\ sess'[s].step = "find" /\ sess'[s].alone = (On(v) = {})
<1> DEFINE alone == On(v) = {}
           r == [Free EXCEPT !.op = op, !.u = u, !.v = v, !.star = star,
                             !.step = "find", !.alone = alone]
<1>1. sess' = [t \in Sessions |->
          IF t = s THEN r
          ELSE IF t \in On(v) THEN [sess[t] EXCEPT !.alone = FALSE] ELSE sess[t]]
  BY DEF Begin
<1>2. alone \in BOOLEAN
  OBVIOUS
<1> HIDE DEF alone
<1>3. /\ r = [f \in Fields |-> r[f]] /\ r.step = "find" /\ r.v = v /\ r.u = u
      /\ r.star = star /\ r.alone = alone /\ r.changed = FALSE
  BY FreeFields DEF Fields
<1> HIDE DEF r
<1>4. IsRequest(r)
  BY <1>2, <1>3 DEF IsRequest, Reviewing, Editing
<1>5. Starts(s, v) /\ sess'[s] = r
  BY <1>1, <1>3, <1>4, StartMarks DEF Begin
<1>. QED
  BY <1>3, <1>5 DEF alone, Begin

LEMMA EditStarts ==
    ASSUME Typed, NEW s \in Sessions, NEW v \in Venues, EditBegin(s, v)
    PROVE  /\ Starts(s, v) /\ sess[s].step = "idle"
           /\ sess'[s].step = "reload" /\ sess'[s].row = <<venue[v], venue[v]>>
           /\ sess'[s].changed = FALSE
<1> DEFINE row == <<venue[v], venue[v]>>
           r == [Free EXCEPT !.op = "edit", !.v = v, !.step = "reload",
                             !.row = row, !.alone = FALSE]
<1>1. sess' = [t \in Sessions |->
          IF t = s THEN r
          ELSE IF t \in On(v) THEN [sess[t] EXCEPT !.alone = FALSE] ELSE sess[t]]
  BY DEF EditBegin
<1> HIDE DEF row
<1>2. /\ r = [f \in Fields |-> r[f]] /\ r.step = "reload" /\ r.v = v
      /\ r.alone = FALSE /\ r.changed = FALSE /\ r.row = row
  BY FreeFields DEF Fields
<1> HIDE DEF r
<1>3. IsRequest(r)
  BY <1>2 DEF IsRequest, Reviewing, Editing
<1>4. Starts(s, v) /\ sess'[s] = r
  BY <1>1, <1>2, <1>3, StartMarks DEF EditBegin
<1>. QED
  BY <1>2, <1>4 DEF row, EditBegin

\* A request whose review goes remembers the rest.
LEMMA AfterKeeps ==
    ASSUME NEW r, IsRequest(r), NEW table
    PROVE  LET q == After(table, r)
           IN  /\ IsRequest(q) /\ q.step = r.step
               /\ q.v = r.v /\ q.u = r.u /\ q.star = r.star
               /\ q.changed = r.changed /\ q.row = r.row /\ q.alone = r.alone
<1> DEFINE q == [r EXCEPT !.entity = "gone"]
<1>1. After(table, r) = q \/ After(table, r) = r
  BY DEF After
<1>2. /\ q = [f \in Fields |-> q[f]] /\ q.step = r.step
      /\ q.v = r.v /\ q.u = r.u /\ q.star = r.star
      /\ q.changed = r.changed /\ q.row = r.row /\ q.alone = r.alone
  BY DEF IsRequest, Fields
<1> HIDE DEF q
<1>3. IsRequest(q)
  BY <1>2 DEF IsRequest
<1>. QED
  BY <1>1, <1>2, <1>3

LEMMA CommitEnds ==
    ASSUME Typed, NEW s \in Sessions, Commit(s)
    PROVE  Ends(s)
<1>1. sess' = [t \in Sessions |-> IF t = s THEN Done ELSE After(review', sess[t])]
  BY DEF Commit
<1>2. ASSUME NEW t \in Sessions, t # s PROVE Keeps(t) /\ IsRequest(sess'[t])
  <2>1. IsRequest(sess[t]) /\ sess'[t] = After(review', sess[t])
    BY <1>1, <1>2 DEF Typed
  <2>. QED
    BY <2>1, AfterKeeps DEF Keeps
<1>3. IsRequest(Done) /\ Done.step = "done" /\ Done.changed = FALSE
  BY Ended DEF Done
<1>4. sess'[s] = Done /\ sess' = [t \in Sessions |-> sess'[t]]
  BY <1>1
<1>. QED
  BY <1>2, <1>3, <1>4 DEF Ends

\* The reviews of an account go, and every request on a venue that had one is
\* marked.
LEMMA DeleteMarks ==
    ASSUME Typed, NEW u \in Users, DeleteAccount(u)
    PROVE  /\ sess' = [t \in Sessions |-> sess'[t]]
           /\ \A t \in Sessions :
                /\ IsRequest(sess'[t])
                /\ sess'[t].step = sess[t].step
                /\ sess'[t].v = sess[t].v /\ sess'[t].u = sess[t].u /\ sess'[t].star = sess[t].star
                /\ sess'[t].changed = sess[t].changed /\ sess'[t].row = sess[t].row
                /\ sess'[t].alone = (sess[t].alone /\ ~(Live(t) /\ review[<<u, sess[t].v>>] # Unrated))
<1> DEFINE Hit(t) == Live(t) /\ review[<<u, sess[t].v>>] # Unrated
<1>1. /\ sess' = [t \in Sessions |-> sess'[t]]
      /\ \A t \in Sessions : LET r == After(review', sess[t])
                             IN  sess'[t] = IF Live(t) /\ review[<<u, r.v>>] # Unrated
                                            THEN [r EXCEPT !.alone = FALSE] ELSE r
  BY DEF DeleteAccount
<1>0. \A t \in Sessions : LET r == After(review', sess[t])
                         IN  sess'[t] = IF Hit(t) THEN [r EXCEPT !.alone = FALSE] ELSE r
  <2> TAKE t \in Sessions
  <2>1. After(review', sess[t]).v = sess[t].v
    BY AfterKeeps DEF Typed
  <2>. QED
    BY <1>1, <2>1
<1> HIDE DEF Hit
<1>2. ASSUME NEW t \in Sessions
      PROVE  /\ IsRequest(sess'[t])
             /\ sess'[t].step = sess[t].step
             /\ sess'[t].v = sess[t].v /\ sess'[t].u = sess[t].u /\ sess'[t].star = sess[t].star
             /\ sess'[t].changed = sess[t].changed /\ sess'[t].row = sess[t].row
             /\ sess'[t].alone = (sess[t].alone /\ ~Hit(t))
  <2> DEFINE r == After(review', sess[t])
  <2>0. IsRequest(sess[t])
    BY DEF Typed
  <2>1. /\ IsRequest(r) /\ r.step = sess[t].step
        /\ r.v = sess[t].v /\ r.u = sess[t].u /\ r.star = sess[t].star
        /\ r.changed = sess[t].changed /\ r.row = sess[t].row /\ r.alone = sess[t].alone
    BY <2>0, AfterKeeps
  <2>4. sess'[t] = IF Hit(t) THEN [r EXCEPT !.alone = FALSE] ELSE r
    BY <1>0
  <2> HIDE DEF r
  <2>2. CASE Hit(t)
    <3> DEFINE q == [r EXCEPT !.alone = FALSE]
    <3>1. sess'[t] = q
      BY <2>2, <2>4
    <3>2. /\ q = [f \in Fields |-> q[f]] /\ q.step = sess[t].step
          /\ q.v = sess[t].v /\ q.u = sess[t].u /\ q.star = sess[t].star
          /\ q.changed = sess[t].changed /\ q.row = sess[t].row /\ q.alone = FALSE
      BY <2>1 DEF IsRequest, Fields
    <3> HIDE DEF q
    <3>3. IsRequest(q)
      BY <2>1, <3>2 DEF IsRequest
    <3>. QED
      BY <2>2, <3>1, <3>2, <3>3
  <2>3. CASE ~Hit(t)
    <3>1. sess'[t] = r
      BY <2>3, <2>4
    <3>2. sess[t].alone \in BOOLEAN
      BY <2>0 DEF IsRequest
    <3>. QED
      BY <2>1, <2>3, <3>1, <3>2
  <2>. QED
    BY <2>2, <2>3
<1>. QED
  BY <1>1, <1>2 DEF Hit

-----------------------------------------------------------------------------
(* The steps that touch no row and no review: everything about the others  *)
(* stays as it is.                                                         *)

LEMMA LiveSteps ==
    ASSUME Typed, NEW s \in Sessions
    PROVE  Live(s) <=> sess[s].step \in Reviewing \cup Editing
BY DEF Typed, IsRequest, Live, Reviewing, Editing

\* OnlyOn and what is seen, of a request that is not the one that moves.
LEMMA OthersStay ==
    ASSUME Typed, NEW s \in Sessions, NEW step,
           Ends(s) \/ (Goes(s, step) /\ Live(s)),
           \A t \in Sessions : Undisturbed(t),
           UNCHANGED <<review, venue, raced>>
    PROVE  /\ \A t \in Sessions : t # s => Undisturbed(t)'
           /\ \A t \in Sessions : t # s => Seen(t)' = Seen(t)
<1>1. ASSUME NEW t \in Sessions, OnlyOn(t), t # s PROVE OnlyOn(t)'
  <2> SUFFICES ASSUME NEW q \in Sessions, Live(q)', sess'[q].v = sess'[t].v PROVE q = t
    BY DEF OnlyOn
  <2>1. sess'[t].v = sess[t].v
    BY <1>1 DEF Ends, Goes, Keeps
  <2>2. Live(q) /\ sess'[q].v = sess[q].v
    BY DEF Ends, Goes, Live, Keeps
  <2>. QED
    BY <1>1, <2>1, <2>2 DEF OnlyOn
<1>2. ASSUME NEW t \in Sessions, t # s PROVE Seen(t)' = Seen(t) /\ Keeps(t)
  <2>1. Keeps(t)
    BY <1>2 DEF Ends, Goes
  <2>. QED
    BY <2>1 DEF Keeps, Seen, Key
<1>3. ASSUME NEW t \in Sessions, t # s PROVE Undisturbed(t)'
  <2>1. Undisturbed(t) /\ Seen(t)' = Seen(t) /\ Keeps(t) /\ (OnlyOn(t) => OnlyOn(t)')
    BY <1>1, <1>2, <1>3
  <2>2. Aggregate(Seen(t), sess[t].v)' = Aggregate(Seen(t), sess[t].v)
    BY <2>1 DEF Aggregate, Given, Keeps
  <2> HIDE DEF OnlyOn, Seen, Aggregate
  <2>. QED
    BY <2>1, <2>2 DEF Undisturbed, Keeps
<1>. QED
  BY <1>2, <1>3

LEMMA EndStep ==
    ASSUME RatingInv, NEW s \in Sessions, Ends(s), UNCHANGED <<review, venue, raced>>
    PROVE  RatingInv'
<1>1. Undisturbed(s)'
  BY DEF Ends, Undisturbed, Reviewing, Editing
<1>2. \A t \in Sessions : Undisturbed(t)'
  BY <1>1, OthersStay DEF RatingInv
<1>3. Typed'
  BY DEF RatingInv, Typed, Ends
<1>. QED
  BY <1>2, <1>3 DEF RatingInv, RatingExact

\* A step of s that writes nothing yet: what is left is what it says of itself.
LEMMA GoStep ==
    ASSUME RatingInv, NEW s \in Sessions, NEW step, Goes(s, step), Live(s),
           UNCHANGED <<review, venue, raced>>, Undisturbed(s)'
    PROVE  RatingInv'
<1>1. \A t \in Sessions : Undisturbed(t)'
  BY OthersStay DEF RatingInv
<1>2. Typed'
  BY DEF RatingInv, Typed, Goes
<1>. QED
  BY <1>1, <1>2 DEF RatingInv, RatingExact

\* Whoever moves on is as alone as it was.
LEMMA OnlyGoes ==
    ASSUME NEW s \in Sessions, NEW step, Goes(s, step), OnlyOn(s)
    PROVE  OnlyOn(s)'
BY DEF Goes, Keeps, OnlyOn, Live

-----------------------------------------------------------------------------
(* One action at a time.                                                   *)

LEMMA FindStep ==
    ASSUME RatingInv, NEW s \in Sessions, FindReview(s)
    PROVE  RatingInv'
<1>1. PICK step \in {"save", "reread"} : Goes(s, step)
  BY FindMoves DEF RatingInv
<1>2. sess[s].step = "find" /\ UNCHANGED <<review, venue, raced>>
  BY DEF FindReview
<1>3. Undisturbed(s)'
  BY <1>1, <1>2, OnlyGoes DEF RatingInv, Undisturbed, Goes, Reviewing, Editing
<1>. QED
  BY <1>1, <1>2, <1>3, GoStep DEF Live

LEMMA RereadStep ==
    ASSUME RatingInv, NEW s \in Sessions, RereadReview(s)
    PROVE  RatingInv'
<1>1. Goes(s, "save") /\ sess[s].step = "reread" /\ UNCHANGED <<review, venue, raced>>
  BY RereadMoves DEF RereadReview, RatingInv
<1>2. Undisturbed(s)'
  BY <1>1, OnlyGoes DEF RatingInv, Undisturbed, Goes, Reviewing, Editing
<1>. QED
  BY <1>1, <1>2, GoStep DEF Live

LEMMA ChangeStep ==
    ASSUME RatingInv, NEW s \in Sessions, SaveReview(s) \/ DeleteReview(s)
    PROVE  RatingInv'
<1>1. UNCHANGED <<review, venue, raced>> /\ sess[s].step \in {"save", "find"}
  BY DEF SaveReview, DeleteReview
<1>2. CASE End(s)
  BY <1>1, <1>2, EndsRequest, EndStep DEF RatingInv
<1>3. CASE Goes(s, "aggregate")
  <2>1. Undisturbed(s)'
    BY <1>1, <1>3, OnlyGoes DEF RatingInv, Undisturbed, Goes, Reviewing, Editing
  <2>. QED
    BY <1>1, <1>3, <2>1, GoStep DEF Live
<1>. QED
  BY <1>2, <1>3, SaveMoves DEF RatingInv

\* What a transaction sees depends on its own review and what is committed.
LEMMA SeenStays ==
    ASSUME NEW s \in Sessions, NEW step, Goes(s, step), sess'[s].changed = sess[s].changed,
           sess'[s].star = sess[s].star, UNCHANGED review
    PROVE  Seen(s)' = Seen(s)
BY DEF Goes, Seen, Key

LEMMA ReadStep ==
    ASSUME RatingInv, NEW s \in Sessions, ReadAggregate(s)
    PROVE  RatingInv'
<1>1. /\ Goes(s, "update") /\ sess[s].step = "aggregate" /\ UNCHANGED <<review, venue, raced>>
      /\ sess'[s].row = Aggregate(Seen(s), sess[s].v) /\ sess'[s].changed = sess[s].changed
      /\ sess'[s].star = sess[s].star
  BY ReadMoves DEF ReadAggregate, RatingInv
<1>2. Seen(s)' = Seen(s)
  BY <1>1, SeenStays
<1>3. Undisturbed(s)'
  <2> HIDE DEF Aggregate, Seen
  <2>1. sess'[s].row = Aggregate(Seen(s)', sess'[s].v)
    BY <1>1, <1>2 DEF Goes
  <2>2. sess'[s].row = Aggregate(Seen(s), sess[s].v)'
    BY <2>1 DEF Aggregate, Given
  <2>3. OnlyOn(s) => OnlyOn(s)'
    BY <1>1, OnlyGoes
  <2>. QED
    BY <1>1, <2>2, <2>3 DEF RatingInv, Undisturbed, Goes, Reviewing, Editing
<1>. QED
  BY <1>1, <1>3, GoStep DEF Live

LEMMA UpdateStep ==
    ASSUME RatingInv, NEW s \in Sessions, UpdateVenue(s)
    PROVE  RatingInv'
<1>1. /\ Goes(s, "commit") /\ sess[s].step = "update" /\ UNCHANGED <<review, venue, raced>>
      /\ sess'[s].row = sess[s].row /\ sess'[s].changed = sess[s].changed
      /\ sess'[s].star = sess[s].star
  BY UpdateMoves DEF UpdateVenue, RatingInv
<1>2. Seen(s)' = Seen(s)
  BY <1>1, SeenStays
<1>3. Undisturbed(s)'
  <2>1. sess[s].alone => sess[s].row = Aggregate(Seen(s), sess[s].v)
    BY <1>1 DEF RatingInv, Undisturbed, Reviewing
  <2>2. sess'[s].alone => sess'[s].row = Aggregate(Seen(s), sess[s].v)'
    BY <1>1, <1>2, <2>1 DEF Goes, Aggregate, Given
  <2>3. OnlyOn(s) => OnlyOn(s)'
    BY <1>1, OnlyGoes
  <2>. QED
    BY <1>1, <2>2, <2>3 DEF RatingInv, Undisturbed, Goes, Reviewing, Editing
<1>. QED
  BY <1>1, <1>3, GoStep DEF Live

LEMMA ReloadStep ==
    ASSUME RatingInv, NEW s \in Sessions, EditReload(s)
    PROVE  RatingInv'
<1>1. /\ Goes(s, "write") /\ sess[s].step = "reload" /\ UNCHANGED <<review, venue, raced>>
      /\ sess'[s].row = <<sess[s].row[1], venue[sess[s].v]>>
  BY ReloadMoves DEF EditReload, RatingInv
<1>2. Undisturbed(s)'
  <2>1. OnlyOn(s) => OnlyOn(s)'
    BY <1>1, OnlyGoes
  <2>2. sess'[s].row[1] = sess[s].row[1] /\ sess'[s].row[2] = venue[sess[s].v]
    BY <1>1
  <2>. QED
    BY <1>1, <2>1, <2>2 DEF RatingInv, Undisturbed, Goes, Reviewing, Editing
<1>. QED
  BY <1>1, <1>2, GoStep DEF Live

\* A start: the request that starts is alone, or its venue is marked with
\* everyone on it.
LEMMA StartStep ==
    ASSUME RatingInv, NEW s \in Sessions, NEW v \in Venues, Starts(s, v), Undisturbed(s)'
    PROVE  RatingInv'
<1>1. Typed'
  BY DEF RatingInv, Typed, Starts
<1>2. raced \subseteq raced' /\ UNCHANGED <<review, venue>>
  BY DEF Starts
<1>3. RatingExact'
  BY <1>2 DEF RatingInv, RatingExact, Aggregate, Given
<1>4. ASSUME NEW t \in Sessions, t # s PROVE Undisturbed(t)'
  <2>1. /\ sess'[t].step = sess[t].step /\ sess'[t].v = sess[t].v
        /\ sess'[t].alone = (sess[t].alone /\ t \notin On(v))
        /\ sess'[t].row = sess[t].row
    BY <1>4 DEF Starts
  <2>2. Seen(t)' = Seen(t)
    BY <1>4 DEF Starts, Seen, Key
  <2>3. Aggregate(Seen(t), sess[t].v)' = Aggregate(Seen(t), sess[t].v)
    BY <2>1, <2>2 DEF Aggregate, Given
  <2>4. ASSUME OnlyOn(t), ~(Live(t) /\ sess[t].v = v) PROVE Live(t) => OnlyOn(t)'
    <3> SUFFICES ASSUME Live(t), NEW q \in Sessions, Live(q)', sess'[q].v = sess'[t].v PROVE q = t
      BY DEF OnlyOn
    <3>1. q # s
      BY <2>1, <2>4 DEF Starts
    <3>2. Live(q) /\ sess[q].v = sess[t].v
      BY <2>1, <3>1 DEF Starts, Live
    <3>. QED
      BY <2>4, <3>2 DEF OnlyOn
  <2>5. CASE Live(t) /\ sess[t].v = v
    <3>1. t \in On(v) /\ v \in raced'
      BY <2>5 DEF On, Starts
    <3>. QED
      BY <2>1, <2>5, <3>1 DEF Undisturbed
  <2>6. CASE Live(t) /\ sess[t].v # v
    <3>1. t \notin On(v) /\ (sess[t].v \in raced' <=> sess[t].v \in raced)
      BY <2>6 DEF On, Starts
    <3>2. Undisturbed(t) /\ (OnlyOn(t) => OnlyOn(t)') /\ sess[t].alone \in BOOLEAN
      BY <2>4, <2>6 DEF RatingInv, Typed, IsRequest
    <3> HIDE DEF OnlyOn, Seen, Aggregate
    <3>3. sess'[t].alone = sess[t].alone
      BY <2>1, <3>1, <3>2
    <3>. QED
      BY <1>2, <2>1, <2>3, <3>1, <3>2, <3>3 DEF Undisturbed
  <2>7. CASE ~Live(t)
    BY <2>1, <2>7 DEF Live, Undisturbed, Reviewing, Editing
  <2>. QED
    BY <2>5, <2>6, <2>7
<1>. QED
  BY <1>1, <1>3, <1>4 DEF RatingInv

LEMMA BeginStep ==
    ASSUME RatingInv, NEW s \in Sessions, NEW op, NEW u \in Users, NEW v \in Venues,
           NEW star \in Stars \cup {Unrated}, Begin(s, op, u, v, star)
    PROVE  RatingInv'
<1>1. /\ Starts(s, v) /\ sess[s].step = "idle"
      /\ sess'[s].step = "find" /\ sess'[s].alone = (On(v) = {})
  BY BeginStarts DEF RatingInv
<1>2. On(v) = {} => OnlyOn(s)'
  <2> SUFFICES ASSUME On(v) = {}, NEW q \in Sessions, Live(q)', sess'[q].v = sess'[s].v PROVE q = s
    BY DEF OnlyOn
  <2>1. ASSUME q # s PROVE q \in On(v)
    BY <1>1, <2>1 DEF Starts, Live, On
  <2>. QED
    BY <2>1
<1>3. Undisturbed(s)'
  BY <1>1, <1>2 DEF Undisturbed, Starts, Reviewing, Editing
<1>. QED
  BY <1>1, <1>3, StartStep

LEMMA EditBeginStep ==
    ASSUME RatingInv, NEW s \in Sessions, NEW v \in Venues, EditBegin(s, v)
    PROVE  RatingInv'
<1>1. /\ Starts(s, v) /\ sess[s].step = "idle"
      /\ sess'[s].step = "reload" /\ sess'[s].row = <<venue[v], venue[v]>>
  BY EditStarts DEF RatingInv
<1>2. On(v) = {} => OnlyOn(s)'
  <2> SUFFICES ASSUME On(v) = {}, NEW q \in Sessions, Live(q)', sess'[q].v = sess'[s].v PROVE q = s
    BY DEF OnlyOn
  <2>1. ASSUME q # s PROVE q \in On(v)
    BY <1>1, <2>1 DEF Starts, Live, On
  <2>. QED
    BY <2>1
<1>3. Undisturbed(s)'
  BY <1>1, <1>2 DEF Undisturbed, Starts, Reviewing, Editing
<1>. QED
  BY <1>1, <1>3, StartStep

-----------------------------------------------------------------------------
(* The steps that write a row or a review.                                 *)

\* The others, when s ends having written on its own venue, and perhaps taken
\* it out of raced.
LEMMA WriteOthers ==
    ASSUME RatingInv, NEW s \in Sessions, Live(s), Ends(s),
           \A u \in Users, v \in Venues : v # sess[s].v => review'[<<u, v>>] = review[<<u, v>>],
           \A v \in Venues : v # sess[s].v => venue'[v] = venue[v],
           review' \in [Keys -> Stars \cup {Unrated}],
           \A v \in Venues : v # sess[s].v => (v \in raced' <=> v \in raced)
    PROVE  \A t \in Sessions : t # s /\ (sess[t].v = sess[s].v /\ Live(t) => sess[s].v \in raced')
                                 => Undisturbed(t)'
<1> SUFFICES ASSUME NEW t \in Sessions, t # s,
                    sess[t].v = sess[s].v /\ Live(t) => sess[s].v \in raced'
             PROVE  Undisturbed(t)'
  OBVIOUS
<1>1. Keeps(t)
  BY DEF Ends
<1>2. CASE ~Live(t)
  BY <1>1, <1>2 DEF Keeps, Live, Undisturbed, Reviewing, Editing
<1>3. CASE Live(t) /\ sess[t].v = sess[s].v
  <2>1. ~OnlyOn(t)
    BY <1>3 DEF OnlyOn
  <2>2. Undisturbed(t) /\ sess[t].alone \in BOOLEAN
    BY DEF RatingInv, Typed, IsRequest
  <2>3. sess[t].step \in Reviewing => ~sess[t].alone
    BY <2>1, <2>2 DEF Undisturbed
  <2>. QED
    BY <1>1, <1>3, <2>3, <2>2 DEF Keeps, Undisturbed, Reviewing
<1>4. CASE Live(t) /\ sess[t].v # sess[s].v
  <2>1. Undisturbed(t) /\ sess[t].v \in Venues
    BY <1>4, LiveSteps DEF RatingInv, Typed, IsRequest
  <2>2. OnlyOn(t) => OnlyOn(t)'
    <3> SUFFICES ASSUME OnlyOn(t), NEW q \in Sessions, Live(q)', sess'[q].v = sess'[t].v PROVE q = t
      BY DEF OnlyOn
    <3>1. Live(q) /\ sess[q].v = sess[t].v
      BY <1>1 DEF Ends, Keeps, Live
    <3>. QED
      BY <3>1 DEF OnlyOn
  <2>3. ASSUME sess[t].step \in Reviewing
        PROVE  Aggregate(Seen(t)', sess[t].v) = Aggregate(Seen(t), sess[t].v)
    <3>1. Key(t) \in Keys /\ sess[t].star \in Stars \cup {Unrated}
      BY <2>3 DEF RatingInv, Typed, IsRequest, Key, Keys
    <3>2. Key(t)' = Key(t) /\ sess'[t].changed = sess[t].changed /\ sess'[t].star = sess[t].star
      BY <1>1 DEF Key, Keeps
    <3>3. review \in [Keys -> Stars \cup {Unrated}]
      BY DEF RatingInv, Typed
    <3>4. ASSUME NEW u \in Users PROVE Seen(t)'[<<u, sess[t].v>>] = Seen(t)[<<u, sess[t].v>>]
      <4>1. <<u, sess[t].v>> \in Keys /\ review'[<<u, sess[t].v>>] = review[<<u, sess[t].v>>]
        BY <1>4, <2>1 DEF Keys
      <4>. QED
        BY <3>1, <3>2, <3>3, <4>1 DEF Seen
    <3>. QED
      BY <3>4, SameReviews
  <2>4. venue'[sess[t].v] = venue[sess[t].v] /\ (sess[t].v \in raced' <=> sess[t].v \in raced)
    BY <1>4, <2>1
  <2>5. ASSUME sess[t].step \in Reviewing
        PROVE  Aggregate(Seen(t), sess[t].v)' = Aggregate(Seen(t), sess[t].v)
    BY <1>1, <2>3, <2>5 DEF Aggregate, Given, Keeps
  <2> HIDE DEF OnlyOn, Seen, Aggregate
  <2>. QED
    BY <1>1, <2>1, <2>2, <2>4, <2>5 DEF Undisturbed, Reviewing, Keeps
<1>. QED
  BY <1>2, <1>3, <1>4

LEMMA CommitStep ==
    ASSUME RatingInv, NEW s \in Sessions, Commit(s)
    PROVE  RatingInv'
<1> DEFINE w == sess[s].v
<1>1. /\ sess[s].step = "commit" /\ Live(s) /\ w \in Venues /\ IsRating(sess[s].row)
      /\ sess[s].alone \in BOOLEAN
  BY DEF Commit, Live, RatingInv, Typed, IsRequest, Reviewing
<1>2. Ends(s)
  BY CommitEnds DEF RatingInv
<1>3. /\ review' = Seen(s) /\ review' \in [Keys -> Stars \cup {Unrated}]
      /\ \A u \in Users, v \in Venues : v # w => review'[<<u, v>>] = review[<<u, v>>]
  BY <1>1, SeenTable DEF Commit, RatingInv, Reviewing
<1>4. /\ venue' = [v \in Venues |-> venue'[v]] /\ venue'[w] = sess[s].row
      /\ \A v \in Venues : v # w => venue'[v] = venue[v]
  BY <1>1 DEF Commit, RatingInv, Typed
<1>5. /\ \A v \in Venues : v # w => (v \in raced' <=> v \in raced)
      /\ sess[s].alone => OnlyOn(s) /\ sess[s].row = Aggregate(Seen(s), w)
      /\ ~sess[s].alone => w \in raced /\ w \in raced'
  BY <1>1 DEF Commit, RatingInv, Undisturbed, Reviewing
<1>6. Undisturbed(s)'
  BY <1>2 DEF Ends, Undisturbed, Reviewing, Editing
<1>7. ASSUME NEW t \in Sessions PROVE Undisturbed(t)'
  <2>1. t # s /\ sess[t].v = w /\ Live(t) => w \in raced'
    BY <1>5 DEF OnlyOn
  <2> HIDE DEF Seen
  <2>. QED
    BY <1>1, <1>2, <1>3, <1>4, <1>5, <1>6, <2>1, WriteOthers
<1>8. Typed'
  BY <1>1, <1>2, <1>3, <1>4 DEF RatingInv, Typed, Ends
<1>9. ASSUME NEW v \in Venues \ raced' PROVE venue'[v] = Aggregate(review', v)
  <2>1. CASE v = w
    BY <1>3, <1>4, <1>5, <2>1
  <2>2. CASE v # w
    <3>1. venue'[v] = Aggregate(review, v)
      BY <1>4, <1>5, <2>2 DEF RatingInv, RatingExact
    <3>2. Aggregate(review', v) = Aggregate(review, v)
      BY <1>3, <2>2, SameReviews
    <3>. QED
      BY <3>1, <3>2
  <2>. QED
    BY <2>1, <2>2
<1>. QED
  BY <1>7, <1>8, <1>9 DEF RatingInv, RatingExact, Aggregate, Given

LEMMA EditWriteStep ==
    ASSUME RatingInv, NEW s \in Sessions, EditWrite(s)
    PROVE  RatingInv'
<1> DEFINE w == sess[s].v
           row == [c \in {"rating", "count"} |->
                     IF sess[s].row[1][c] # sess[s].row[2][c] THEN sess[s].row[1][c]
                     ELSE venue[w][c]]
<1>1. sess[s].step = "write" /\ Live(s) /\ w \in Venues
  BY DEF EditWrite, Live, RatingInv, Typed, IsRequest, Editing
<1>2. Ends(s)
  BY EndsRequest DEF EditWrite, RatingInv
<1>3. review' = review /\ raced' = raced
  BY DEF EditWrite
<1>4. /\ venue' = [v \in Venues |-> venue'[v]] /\ venue'[w] = row
      /\ \A v \in Venues : v # w => venue'[v] = venue[v]
  BY <1>1 DEF EditWrite, RatingInv, Typed
<1>5. w \notin raced => OnlyOn(s) /\ row = venue[w]
  <2> SUFFICES ASSUME w \notin raced PROVE OnlyOn(s) /\ row = venue[w]
    OBVIOUS
  <2>1. OnlyOn(s) /\ sess[s].row[1] = venue[w] /\ sess[s].row[2] = venue[w]
    BY <1>1 DEF RatingInv, Undisturbed, Editing
  <2>2. row = [c \in {"rating", "count"} |-> venue[w][c]]
    BY <2>1
  <2>3. IsRating(venue[w])
    BY <1>1 DEF RatingInv, Typed
  <2>. QED
    BY <2>1, <2>2, <2>3 DEF IsRating
<1>6. IsRating(row)
  BY DEF IsRating
<1> HIDE DEF row
<1>7. Undisturbed(s)'
  BY <1>2 DEF Ends, Undisturbed, Reviewing, Editing
<1>8. ASSUME NEW t \in Sessions PROVE Undisturbed(t)'
  <2>1. t # s /\ sess[t].v = w /\ Live(t) => w \in raced'
    BY <1>3, <1>5 DEF OnlyOn
  <2>2. review' \in [Keys -> Stars \cup {Unrated}]
    BY <1>3 DEF RatingInv, Typed
  <2>. QED
    BY <1>1, <1>2, <1>3, <1>4, <1>7, <2>1, <2>2, WriteOthers
<1>9. Typed'
  BY <1>1, <1>2, <1>3, <1>4, <1>6 DEF RatingInv, Typed, Ends
<1>10. ASSUME NEW v \in Venues \ raced PROVE venue'[v] = venue[v]
  BY <1>4, <1>5
<1>. QED
  BY <1>3, <1>8, <1>9, <1>10 DEF RatingInv, RatingExact, Aggregate, Given

LEMMA DeleteStep ==
    ASSUME RatingInv, NEW u \in Users, DeleteAccount(u)
    PROVE  RatingInv'
<1> DEFINE Lost(v) == review[<<u, v>>] # Unrated
<1>1. /\ venue' = venue
      /\ raced' = raced \cup {v \in Venues : Lost(v)}
      /\ \A k \in Keys : review'[k] = IF k[1] = u THEN Unrated ELSE review[k]
      /\ review' \in [Keys -> Stars \cup {Unrated}]
  BY DEF DeleteAccount, RatingInv, Typed
<1>2. ASSUME NEW x \in Users, NEW v \in Venues, ~Lost(v)
      PROVE  review'[<<x, v>>] = review[<<x, v>>]
  BY <1>1, <1>2 DEF Keys
<1>3. ASSUME NEW t \in Sessions
      PROVE  /\ sess'[t].step = sess[t].step /\ IsRequest(sess'[t])
             /\ sess'[t].v = sess[t].v /\ sess'[t].u = sess[t].u /\ sess'[t].star = sess[t].star
             /\ sess'[t].changed = sess[t].changed /\ sess'[t].row = sess[t].row
             /\ sess'[t].alone = (sess[t].alone /\ ~(Live(t) /\ Lost(sess[t].v)))
  BY DeleteMarks DEF RatingInv
<1>4. Typed'
  BY <1>1, <1>3, DeleteMarks DEF RatingInv, Typed
<1>5. ASSUME NEW v \in Venues \ raced' PROVE venue'[v] = Aggregate(review', v)
  <2>1. v \notin raced /\ ~Lost(v)
    BY <1>1
  <2>2. Aggregate(review', v) = Aggregate(review, v)
    BY <1>2, <2>1, SameReviews
  <2>. QED
    BY <1>1, <2>1, <2>2 DEF RatingInv, RatingExact
<1>6. ASSUME NEW t \in Sessions PROVE Undisturbed(t)'
  <2>1. Undisturbed(t) /\ IsRequest(sess[t])
    BY DEF RatingInv, Typed
  <2>2. OnlyOn(t) => OnlyOn(t)'
    BY <1>3 DEF OnlyOn, Live
  <2>3. CASE ~Live(t)
    BY <1>3, <2>3 DEF Live, Undisturbed, Reviewing, Editing
  <2>4. CASE Live(t) /\ Lost(sess[t].v)
    <3>1. sess[t].v \in raced' /\ ~sess'[t].alone
      BY <1>1, <1>3, <2>1, <2>4, LiveSteps DEF IsRequest, RatingInv
    <3>. QED
      BY <1>3, <3>1 DEF Undisturbed
  <2>5. CASE Live(t) /\ ~Lost(sess[t].v)
    <3>1. sess'[t].alone = sess[t].alone
      BY <1>3, <2>1, <2>5 DEF IsRequest
    <3>2. sess[t].v \in Venues /\ (sess[t].v \in raced' <=> sess[t].v \in raced)
      BY <1>1, <2>1, <2>5, LiveSteps DEF IsRequest, RatingInv
    <3>3. ASSUME sess[t].step \in Reviewing
          PROVE  Aggregate(Seen(t), sess[t].v)' = Aggregate(Seen(t), sess[t].v)
      <4>1. Key(t) \in Keys /\ Key(t)' = Key(t)
        BY <1>3, <2>1, <3>3 DEF Key, Keys, IsRequest
      <4>2. review \in [Keys -> Stars \cup {Unrated}]
        BY DEF RatingInv, Typed
      <4>3. ASSUME NEW x \in Users PROVE Seen(t)'[<<x, sess[t].v>>] = Seen(t)[<<x, sess[t].v>>]
        <5>1. <<x, sess[t].v>> \in Keys /\ review'[<<x, sess[t].v>>] = review[<<x, sess[t].v>>]
          BY <1>2, <2>5, <3>2 DEF Keys
        <5>. QED
          BY <1>1, <1>3, <4>1, <4>2, <5>1 DEF Seen
      <4>4. Aggregate(Seen(t)', sess[t].v) = Aggregate(Seen(t), sess[t].v)
        BY <4>3, SameReviews
      <4>. QED
        BY <1>3, <4>4 DEF Aggregate, Given
    <3> HIDE DEF OnlyOn, Seen, Aggregate
    <3>. QED
      BY <1>1, <1>3, <2>1, <2>2, <3>1, <3>2, <3>3 DEF Undisturbed, Reviewing
  <2>. QED
    BY <2>3, <2>4, <2>5
<1>. QED
  BY <1>4, <1>5, <1>6 DEF RatingInv, RatingExact, Aggregate, Given

-----------------------------------------------------------------------------
LEMMA RatingInit == Init => RatingInv
<1> SUFFICES ASSUME Init PROVE RatingInv
  OBVIOUS
<1>1. Typed
  <2>1. IsRequest(Free)
    BY FreeFields DEF IsRequest, Free, Reviewing, Editing
  <2>2. \A v \in Venues : venue[v] = Aggregate(review, v)
    BY DEF Init
  <2>3. \A v \in Venues : IsRating(venue[v])
    BY <2>2, AggregateIsRow
  <2> HIDE DEF Aggregate
  <2>. QED
    BY <2>1, <2>3 DEF Init, Typed
<1>2. \A s \in Sessions : Undisturbed(s)
  BY DEF Init, Free, Undisturbed, Reviewing, Editing
<1>3. RatingExact
  BY DEF Init, RatingExact
<1>. QED
  BY <1>1, <1>2, <1>3 DEF RatingInv

LEMMA RatingStep == RatingInv /\ [Next]_vars => RatingInv'
<1> SUFFICES ASSUME RatingInv, [Next]_vars PROVE RatingInv'
  OBVIOUS
<1>1. CASE \E s \in Sessions, u \in Users, v \in Venues :
              \/ \E star \in Stars : Begin(s, "upsert", u, v, star)
              \/ Begin(s, "remove", u, v, Unrated)
  BY <1>1, BeginStep
<1>2. CASE \E s \in Sessions, v \in Venues : EditBegin(s, v)
  BY <1>2, EditBeginStep
<1>3. CASE \E s \in Sessions : Step(s)
  BY <1>3, FindStep, RereadStep, ChangeStep, ReadStep, UpdateStep, CommitStep, ReloadStep, EditWriteStep DEF Step
<1>4. CASE \E s \in Sessions : Abort(s)
  BY <1>4, EndsRequest, EndStep DEF Abort, RatingInv
<1>5. CASE \E u \in Users : DeleteAccount(u)
  BY <1>5, DeleteStep
<1>6. CASE UNCHANGED vars
  BY <1>6 DEF vars, RatingInv, Typed, RatingExact, Undisturbed, OnlyOn, Live, Seen, Key, Aggregate, Given
<1>. QED
  BY <1>1, <1>2, <1>3, <1>4, <1>5, <1>6 DEF Next

\* The rating and the count of a venue are always those of its committed reviews
\* and the external ones, unless requests on it overlapped or an account with a
\* review of it was deleted since a review of it last ran alone.
THEOREM RatingsAreExact == Spec => []RatingExact
<1>1. RatingInv => RatingExact
  BY DEF RatingInv
<1>. QED
  BY <1>1, RatingInit, RatingStep, PTL DEF Spec

-----------------------------------------------------------------------------
(* What a fold adds up.                                                    *)

LEMMA NatMin == ASSUME NEW T \in SUBSET Nat, T # {} PROVE \E m \in T : \A n \in T : m <= n
<1> DEFINE Below(n) == {k \in Nat : k < n}
           F == {Below(n) : n \in T}
<1>1. \A n \in Nat : IsFiniteSet(Below(n))
  <2> TAKE n \in Nat
  <2>1. Below(n) \in SUBSET Nat /\ \A k \in Below(n) : k <= n
    OBVIOUS
  <2>. QED
    BY <2>1, FS_BoundedSetOfNaturals
<1>2. F \subseteq FiniteSubsetsOf(Nat) /\ F # {}
  BY <1>1 DEF FiniteSubsetsOf
<1>3. PICK x \in F : \A y \in F : ~(<<y, x>> \in StrictSubsetOrdering(Nat))
  BY <1>2, FS_StrictSubsetOrderingWellFounded, WFMin
<1>4. PICK m \in T : x = Below(m)
  BY <1>3
<1>5. ASSUME NEW n \in T, n < m PROVE FALSE
  <2>1. Below(n) \in F /\ Below(n) \in SUBSET Nat /\ Below(m) \in SUBSET Nat
    OBVIOUS
  <2>2. Below(n) \subseteq Below(m) /\ n \in Below(m) /\ n \notin Below(n)
    BY <1>5
  <2>. QED
    BY <2>1, <2>2, <1>3, <1>4 DEF StrictSubsetOrdering
<1>. QED
  BY <1>5

\* The fold adds up f, one element of a set after another.
First(D) == CHOOSE x \in D : TRUE
Adds(sum, f, Sets) ==
    sum = [D \in Sets |-> IF D = {} THEN 0 ELSE f[First(D)] + sum[D \ {First(D)}]]

\* The subsets of T with up to k elements.
Upto(T, k) == {D \in SUBSET T : Cardinality(D) <= k}

LEMMA FirstIsIn == \A D : D # {} => First(D) \in D
BY DEF First

LEMMA FoldAdds ==
    ASSUME NEW f
    PROVE  FoldFunction(+, 0, f) = (CHOOSE sum : Adds(sum, f, SUBSET DOMAIN f))[DOMAIN f]
BY FirstIsIn DEF FoldFunction, FoldFunctionOnSet, MapThenFoldSet, Adds, First

\* A sum over the sets of up to n elements goes on to those of n + 1.
LEMMA SumGrows ==
    ASSUME NEW f, NEW T, IsFiniteSet(T), NEW n \in Nat,
           NEW sum, Adds(sum, f, Upto(T, n))
    PROVE  \E more : Adds(more, f, Upto(T, n + 1))
<1> DEFINE more == [D \in Upto(T, n + 1) |->
                      IF D = {} THEN 0 ELSE f[First(D)] + sum[D \ {First(D)}]]
<1>1. ASSUME NEW D \in Upto(T, n + 1), D # {}
      PROVE  D \ {First(D)} \in Upto(T, n)
  <2>1. IsFiniteSet(D) /\ First(D) \in D
    BY <1>1, FS_Subset, FirstIsIn DEF Upto
  <2>2. Cardinality(D \ {First(D)}) = Cardinality(D) - 1 /\ Cardinality(D) \in Nat
    BY <2>1, FS_RemoveElement, FS_CardinalityType
  <2>. QED
    BY <2>2, <1>1 DEF Upto
<1>2. ASSUME NEW D \in Upto(T, n) PROVE D \in Upto(T, n + 1) /\ sum[D] = more[D]
  <2>1. IsFiniteSet(D) /\ Cardinality(D) \in Nat
    BY FS_Subset, FS_CardinalityType DEF Upto
  <2>2. D \in Upto(T, n + 1)
    BY <2>1 DEF Upto
  <2>3. sum[D] = IF D = {} THEN 0 ELSE f[First(D)] + sum[D \ {First(D)}]
    BY DEF Adds
  <2>. QED
    BY <2>2, <2>3
<1>3. ASSUME NEW D \in Upto(T, n + 1)
      PROVE  more[D] = IF D = {} THEN 0 ELSE f[First(D)] + more[D \ {First(D)}]
  <2>1. CASE D = {}
    BY <2>1
  <2>2. CASE D # {}
    <3>1. sum[D \ {First(D)}] = more[D \ {First(D)}]
      BY <1>1, <1>2, <2>2
    <3>2. more[D] = f[First(D)] + sum[D \ {First(D)}]
      BY <2>2
    <3> HIDE DEF more
    <3>. QED
      BY <2>2, <3>1, <3>2
  <2>. QED
    BY <2>1, <2>2
<1>4. more = [D \in Upto(T, n + 1) |-> more[D]]
  OBVIOUS
<1> HIDE DEF more
<1>5. Adds(more, f, Upto(T, n + 1))
  BY <1>3, <1>4 DEF Adds
<1>. QED
  BY <1>5

\* There is such a sum over all the subsets of a finite set.
LEMMA SumExists ==
    ASSUME NEW f, NEW T, IsFiniteSet(T)
    PROVE  \E sum : Adds(sum, f, SUBSET T)
<1> DEFINE Bad == {k \in Nat : ~\E sum : Adds(sum, f, Upto(T, k))}
<1>1. \A D \in SUBSET T : IsFiniteSet(D) /\ Cardinality(D) \in Nat /\ Cardinality(D) <= Cardinality(T)
  BY FS_Subset, FS_CardinalityType
<1>2. 0 \notin Bad
  <2> DEFINE none == [D \in Upto(T, 0) |-> 0]
  <2>1. \A D \in Upto(T, 0) : D = {}
    BY <1>1, FS_EmptySet DEF Upto
  <2>2. Adds(none, f, Upto(T, 0))
    BY <2>1 DEF Adds
  <2>. QED
    BY <2>2
<1>3. Bad = {}
  <2> SUFFICES ASSUME Bad # {} PROVE FALSE
    OBVIOUS
  <2>1. PICK m \in Bad : \A n \in Bad : m <= n
    BY NatMin
  <2>2. m \in Nat /\ m # 0
    BY <2>1, <1>2
  <2>3. PICK k \in Nat : m = k + 1
    <3>1. m - 1 \in Nat /\ m = m - 1 + 1
      BY <2>2
    <3>. QED
      BY <3>1
  <2>4. k \notin Bad
    BY <2>1, <2>3
  <2>5. PICK sum : Adds(sum, f, Upto(T, k))
    BY <2>4
  <2>6. \E more : Adds(more, f, Upto(T, k + 1))
    BY <2>5, SumGrows
  <2>. QED
    BY <2>1, <2>3, <2>6
<1>4. Upto(T, Cardinality(T)) = SUBSET T
  BY <1>1 DEF Upto
<1>5. Cardinality(T) \in Nat
  BY FS_CardinalityType
<1>6. \E sum : Adds(sum, f, Upto(T, Cardinality(T)))
  BY <1>3, <1>5
<1>. QED
  BY <1>4, <1>6

LEMMA Multiples ==
    ASSUME NEW k \in Nat, NEW c \in Int, k # 0
    PROVE  c * k = c + c * (k - 1)
OBVIOUS

\* A sum of numbers between lo and hi is between so many times lo and hi.
LEMMA SumBetween ==
    ASSUME NEW f, NEW T, IsFiniteSet(T), NEW sum, Adds(sum, f, SUBSET T),
           NEW lo \in Int, NEW hi \in Int, \A x \in T : f[x] \in lo..hi
    PROVE  sum[T] \in (lo * Cardinality(T))..(hi * Cardinality(T))
<1> DEFINE Good(D) == sum[D] \in (lo * Cardinality(D))..(hi * Cardinality(D))
           Bad == {Cardinality(D) : D \in {E \in SUBSET T : ~Good(E)}}
<1>1. \A D \in SUBSET T : IsFiniteSet(D) /\ Cardinality(D) \in Nat
  BY FS_Subset, FS_CardinalityType
<1>2. Bad = {}
  <2> SUFFICES ASSUME Bad # {} PROVE FALSE
    OBVIOUS
  <2>1. Bad \in SUBSET Nat
    BY <1>1
  <2>2. PICK m \in Bad : \A n \in Bad : m <= n
    BY <2>1, NatMin
  <2>3. PICK D \in SUBSET T : ~Good(D) /\ m = Cardinality(D)
    BY <2>2
  <2>4. sum[D] = IF D = {} THEN 0 ELSE f[First(D)] + sum[D \ {First(D)}]
    BY DEF Adds
  <2>5. D # {}
    <3>1. ASSUME D = {} PROVE Cardinality(D) = 0 /\ sum[D] = 0 /\ lo * 0 = 0 /\ hi * 0 = 0
      BY <2>4, <3>1, FS_EmptySet
    <3>. QED
      BY <2>3, <3>1
  <2> DEFINE E == D \ {First(D)}
  <2>6. First(D) \in D /\ E \in SUBSET T
    BY <2>5, FirstIsIn
  <2>7. Cardinality(E) = Cardinality(D) - 1 /\ Cardinality(D) \in Nat /\ Cardinality(E) \in Nat
    BY <1>1, <2>6, FS_RemoveElement
  <2>8. Good(E)
    <3>1. Cardinality(E) \notin Bad
      <4>1. ~(m <= Cardinality(E))
        BY <2>3, <2>7
      <4> HIDE DEF Bad, E
      <4>. QED
        BY <2>2, <4>1
    <3>. QED
      BY <2>6, <3>1
  <2>9. f[First(D)] \in lo..hi
    BY <2>6
  <2>10. lo * Cardinality(D) = lo + lo * Cardinality(E) /\ hi * Cardinality(D) = hi + hi * Cardinality(E)
    BY <2>7, Multiples
  <2>11. lo * Cardinality(E) \in Int /\ hi * Cardinality(E) \in Int
    BY <2>7
  <2>12. sum[D] = f[First(D)] + sum[E]
    BY <2>4, <2>5
  <2> HIDE DEF E
  <2>13. Good(D)
    BY <2>8, <2>9, <2>10, <2>11, <2>12
  <2>. QED
    BY <2>3, <2>13
<1>. QED
  BY <1>2

\* What the reviews of a venue add up to.
LEMMA FoldBetween ==
    ASSUME NEW f, IsFiniteSet(DOMAIN f), NEW lo \in Int, NEW hi \in Int,
           \A x \in DOMAIN f : f[x] \in lo..hi
    PROVE  FoldFunction(+, 0, f) \in (lo * Cardinality(DOMAIN f))..(hi * Cardinality(DOMAIN f))
<1> DEFINE sum == CHOOSE s : Adds(s, f, SUBSET DOMAIN f)
<1>1. Adds(sum, f, SUBSET DOMAIN f)
  BY SumExists
<1>2. FoldFunction(+, 0, f) = sum[DOMAIN f]
  BY FoldAdds
<1> HIDE DEF sum
<1>3. sum[DOMAIN f] \in (lo * Cardinality(DOMAIN f))..(hi * Cardinality(DOMAIN f))
  BY <1>1, SumBetween
<1>. QED
  BY <1>2, <1>3, Zenon

-----------------------------------------------------------------------------
(* Between which ratings a mean is.                                        *)

LEMMA Dividing ==
    ASSUME NEW a \in Int, NEW b \in Nat, b > 0
    PROVE  /\ a \div b \in Int
           /\ b * (a \div b) <= a /\ a < b * (a \div b) + b
OBVIOUS

LEMMA Products ==
    ASSUME NEW a \in Int, NEW b \in Int, NEW n \in Nat, a <= b
    PROVE  n * a <= n * b
OBVIOUS

LEMMA RoundedMean ==
    ASSUME NEW x \in Int, NEW n \in Nat, n > 0, NEW lo \in Int, NEW hi \in Int,
           x \in (lo * n)..(hi * n)
    PROVE  (2 * x + n) \div (2 * n) \in lo..hi
<1> DEFINE a == 2 * x + n
           b == 2 * n
           q == a \div b
<1>1. a \in Int /\ b \in Nat /\ b > 0 /\ n * lo <= x /\ x <= n * hi /\ n * lo \in Int /\ n * hi \in Int
  OBVIOUS
<1>2. q \in Int /\ b * q <= a /\ a < b * q + b
  BY <1>1, Dividing
<1> HIDE DEF q
<1>3. n * q \in Int /\ b * q = 2 * (n * q)
  BY <1>2
<1>4. ASSUME q < lo PROVE FALSE
  <2>1. n * (q + 1) <= n * lo
    BY <1>2, <1>4, Products
  <2>2. n * (q + 1) = n * q + n
    BY <1>2
  <2>. QED
    BY <1>1, <1>2, <1>3, <2>1, <2>2
<1>5. ASSUME hi < q PROVE FALSE
  <2>1. n * (hi + 1) <= n * q
    BY <1>2, <1>5, Products
  <2>2. n * (hi + 1) = n * hi + n
    OBVIOUS
  <2>. QED
    BY <1>1, <1>2, <1>3, <2>1, <2>2
<1>. QED
  BY <1>2, <1>4, <1>5 DEF q

LEMMA TimesBetween ==
    ASSUME NEW c \in Int, NEW n \in Nat, NEW lo \in Int, NEW hi \in Int, n > 0 => c \in lo..hi
    PROVE  c * n \in (lo * n)..(hi * n)
<1>1. CASE n = 0
  BY <1>1
<1>2. CASE n > 0
  <2>1. n * lo <= n * c /\ n * c <= n * hi
    BY <1>2, Products
  <2>. QED
    BY <2>1
<1>. QED
  BY <1>1, <1>2

LEMMA AddsUp ==
    ASSUME NEW s \in Int, NEW e \in Int, NEW k \in Nat, NEW m \in Nat, NEW lo \in Int, NEW hi \in Int,
           s \in (lo * k)..(hi * k), e \in (lo * m)..(hi * m)
    PROVE  s + e \in (lo * (k + m))..(hi * (k + m))
<1>1. /\ lo * (k + m) = lo * k + lo * m /\ hi * (k + m) = hi * k + hi * m
      /\ lo * k \in Int /\ lo * m \in Int /\ hi * k \in Int /\ hi * m \in Int
  OBVIOUS
<1>. QED
  BY <1>1

\* The ratings of a few users: they are finitely many.
LEMMA AverageBetween ==
    ASSUME NEW given, IsFiniteSet(DOMAIN given), NEW lo \in Int, NEW hi \in Int,
           \A u \in DOMAIN given : given[u] \in lo..hi,
           ExternalCount > 0 => ExternalRating \in lo..hi
    PROVE  LET a == Average(given)
           IN  /\ a.count = Cardinality(DOMAIN given) + ExternalCount
               /\ a.rating = 0 \/ a.rating \in lo..hi
               /\ ExternalCount > 0 => a.rating \in lo..hi
<1> DEFINE k == Cardinality(DOMAIN given)
           sum == FoldFunction(+, 0, given)
           n == k + ExternalCount
           x == sum + ExternalRating * ExternalCount
<1>1. k \in Nat /\ ExternalCount \in Nat /\ ExternalRating \in Int
  BY FS_CardinalityType, RatingsAssumption
<1>2. sum \in (lo * k)..(hi * k)
  BY FoldBetween
<1> HIDE DEF k, sum
<1>3. ExternalRating * ExternalCount \in (lo * ExternalCount)..(hi * ExternalCount)
  BY <1>1, TimesBetween
<1>4. x \in (lo * n)..(hi * n) /\ x \in Int /\ n \in Nat
  <2>1. /\ sum \in Int /\ ExternalRating * ExternalCount \in Int /\ n \in Nat
        /\ lo * k \in Int /\ hi * k \in Int
    BY <1>1, <1>2
  <2>. QED
    BY <1>1, <1>2, <1>3, <2>1, AddsUp
<1> HIDE DEF x
<1>5. Average(given) = [rating |-> IF n > 0 THEN (2 * x + n) \div (2 * n) ELSE 0, count |-> n]
  BY DEF Average, Blend, k, sum, x
<1>6. n > 0 => (2 * x + n) \div (2 * n) \in lo..hi
  BY <1>4, RoundedMean
<1>7. ExternalCount > 0 => n > 0
  BY <1>1
<1> HIDE DEF n
<1>8. Average(given).count = n /\ Average(given).rating = IF n > 0 THEN (2 * x + n) \div (2 * n) ELSE 0
  BY <1>5
<1>. QED
  BY <1>6, <1>7, <1>8 DEF n, k

\* The extremes of the ratings there may be.
All == Stars \cup {ExternalRating}

LEMMA Extremes ==
    /\ Min(All) \in Int /\ Max(All) \in Int
    /\ \A y \in All : y \in Min(All)..Max(All)
<1>1. All \subseteq 0..500 /\ ExternalRating \in All
  BY RatingsAssumption DEF All
<1>2. Min(All) \in All /\ \A y \in All : Min(All) <= y
  <2>1. \E m \in All : \A y \in All : m <= y
    BY <1>1, NatMin
  <2>. QED
    BY <2>1 DEF Min
<1>3. Max(All) \in All /\ \A y \in All : Max(All) >= y
  <2> DEFINE Down == {500 - y : y \in All}
  <2>1. Down \in SUBSET Nat /\ Down # {}
    BY <1>1
  <2>2. PICK d \in Down : \A y \in Down : d <= y
    BY <2>1, NatMin
  <2>3. PICK m \in All : d = 500 - m
    BY <2>2
  <2>4. ASSUME NEW y \in All PROVE m >= y
    <3>1. d <= 500 - y
      BY <2>2
    <3>. QED
      BY <1>1, <2>3, <3>1
  <2>5. \E x \in All : \A y \in All : x >= y
    BY <2>4
  <2>. QED
    BY <2>5 DEF Max
<1>4. \A y \in All : y \in Int
  BY <1>1
<1> HIDE DEF All
<1>5. Min(All) \in Int /\ Max(All) \in Int
  BY <1>2, <1>3, <1>4
<1>. QED
  BY <1>2, <1>3, <1>4, <1>5

\* The bounds of a row.
Bounded(row) ==
    /\ row.count \in ExternalCount..(ExternalCount + Cardinality(Users))
    /\ row.rating \in 0..500
    /\ ExternalCount > 0 => row.rating \in Min(All)..Max(All)

LEMMA AggregateBounded ==
    ASSUME NEW table \in [Keys -> Stars \cup {Unrated}], NEW v \in Venues
    PROVE  Bounded(Aggregate(table, v))
<1> DEFINE given == Given(table, v)
           a == Average(given)
<1>1. DOMAIN given \subseteq Users /\ \A u \in DOMAIN given : given[u] \in Stars
  BY DEF Given, Keys
<1>2. /\ IsFiniteSet(DOMAIN given) /\ Cardinality(DOMAIN given) \in Nat
      /\ Cardinality(DOMAIN given) <= Cardinality(Users) /\ Cardinality(Users) \in Nat
  BY <1>1, UsersAssumption, FS_Subset, FS_CardinalityType
<1> HIDE DEF given
<1>3. /\ a.count = Cardinality(DOMAIN given) + ExternalCount
      /\ a.rating = 0 \/ a.rating \in 0..500
  <2>1. \A star \in Stars : star \in 0..500
    BY RatingsAssumption
  <2>2. \A u \in DOMAIN given : given[u] \in 0..500
    BY <1>1, <2>1
  <2>3. PICK lo \in Int, hi \in Int : lo = 0 /\ hi = 500
    OBVIOUS
  <2>4. ExternalRating \in lo..hi /\ \A u \in DOMAIN given : given[u] \in lo..hi
    BY <2>2, <2>3, RatingsAssumption
  <2>5. a.count = Cardinality(DOMAIN given) + ExternalCount /\ (a.rating = 0 \/ a.rating \in lo..hi)
    BY <1>2, <2>4, AverageBetween
  <2>. QED
    BY <2>3, <2>5
<1>4. ExternalCount > 0 => a.rating \in Min(All)..Max(All)
  <2>1. \A u \in DOMAIN given : given[u] \in Min(All)..Max(All)
    BY <1>1, Extremes DEF All
  <2>2. ExternalRating \in Min(All)..Max(All)
    BY Extremes DEF All
  <2> HIDE DEF All
  <2>. QED
    BY <1>2, <2>1, <2>2, Extremes, AverageBetween
<1> HIDE DEF a
<1>5. Bounded(a)
  BY <1>2, <1>3, <1>4, RatingsAssumption DEF Bounded
<1>. QED
  BY <1>5 DEF a, given, Aggregate

-----------------------------------------------------------------------------
(* Rows stay within the bounds: what a review writes is an aggregate, what *)
(* an editor writes has each column from the row or from its entity.       *)

HeldWithin(s) ==
    /\ sess[s].step \in {"update", "commit"} => Bounded(sess[s].row)
    /\ sess[s].step \in Editing => Bounded(sess[s].row[1])
    /\ sess[s].changed => sess[s].step \in Reviewing

Within ==
    /\ \A v \in Venues : Bounded(venue[v])
    /\ \A s \in Sessions : HeldWithin(s)
    /\ raced \subseteq Venues

\* The others hold what they held; s holds what its step says.
LEMMA OthersHold ==
    ASSUME Within, NEW s \in Sessions,
           \A t \in Sessions : t # s =>
              /\ sess'[t].step = sess[t].step /\ sess'[t].row = sess[t].row
              /\ sess'[t].changed = sess[t].changed,
           HeldWithin(s)', venue' = venue, raced' \subseteq Venues
    PROVE  Within'
<1>1. ASSUME NEW t \in Sessions PROVE HeldWithin(t)'
  BY DEF Within, HeldWithin
<1>. QED
  BY <1>1 DEF Within

LEMMA EndWithin ==
    ASSUME Within, NEW s \in Sessions, Ends(s)
    PROVE  HeldWithin(s)' /\ \A t \in Sessions : HeldWithin(t)'
<1>1. HeldWithin(s)'
  BY DEF Ends, HeldWithin, Editing
<1>2. ASSUME NEW t \in Sessions, t # s PROVE HeldWithin(t)'
  BY <1>2 DEF Ends, Keeps, Within, HeldWithin
<1>. QED
  BY <1>1, <1>2

LEMMA BeginWithin ==
    ASSUME Typed, Within, NEW s \in Sessions, NEW op, NEW u \in Users, NEW v \in Venues,
           NEW star \in Stars \cup {Unrated}, Begin(s, op, u, v, star)
    PROVE  Within'
<1>1. Starts(s, v) /\ sess'[s].step = "find"
  BY BeginStarts
<1>2. HeldWithin(s)'
  BY <1>1 DEF HeldWithin, Reviewing, Editing
<1>3. raced' \subseteq Venues /\ venue' = venue
  BY <1>1 DEF Starts, Within
<1>. QED
  BY <1>1, <1>2, <1>3, OthersHold DEF Starts

LEMMA EditBeginWithin ==
    ASSUME Typed, Within, NEW s \in Sessions, NEW v \in Venues, EditBegin(s, v)
    PROVE  Within'
<1>1. /\ Starts(s, v) /\ sess'[s].step = "reload" /\ sess'[s].changed = FALSE
      /\ sess'[s].row[1] = venue[v]
  <2>1. sess'[s].row = <<venue[v], venue[v]>>
    BY EditStarts
  <2>2. sess'[s].row[1] = venue[v]
    BY <2>1
  <2>. QED
    BY <2>2, EditStarts
<1>2. HeldWithin(s)'
  BY <1>1 DEF HeldWithin, Within
<1>3. raced' \subseteq Venues /\ venue' = venue
  BY <1>1 DEF Starts, Within
<1>. QED
  BY <1>1, <1>2, <1>3, OthersHold DEF Starts

\* The steps that write no row.
LEMMA StepWithin ==
    ASSUME Typed, Within, NEW s \in Sessions,
           \/ FindReview(s) \/ RereadReview(s) \/ SaveReview(s) \/ DeleteReview(s)
           \/ ReadAggregate(s) \/ UpdateVenue(s) \/ EditReload(s) \/ Abort(s)
    PROVE  Within'
<1>1. venue' = venue /\ raced' = raced
  BY DEF FindReview, RereadReview, SaveReview, DeleteReview, ReadAggregate, UpdateVenue,
         EditReload, Abort
<1>2. raced' \subseteq Venues
  BY <1>1 DEF Within
<1>3. CASE End(s)
  BY <1>1, <1>2, <1>3, EndsRequest, EndWithin DEF Within
<1>4. ASSUME NEW step, Goes(s, step), HeldWithin(s)' PROVE Within'
  BY <1>1, <1>2, <1>4, OthersHold DEF Goes, Keeps
<1>5. CASE FindReview(s) \/ RereadReview(s)
  <2>1. PICK step \in {"save", "reread"} : Goes(s, step)
    BY <1>5, FindMoves, RereadMoves
  <2>. QED
    BY <1>4, <2>1 DEF Goes, HeldWithin, Reviewing, Editing
<1>6. CASE (SaveReview(s) \/ DeleteReview(s)) /\ ~End(s)
  <2>1. Goes(s, "aggregate")
    BY <1>6, SaveMoves
  <2>. QED
    BY <1>4, <2>1 DEF Goes, HeldWithin, Reviewing, Editing
<1>7. CASE ReadAggregate(s)
  <2>1. Goes(s, "update") /\ sess'[s].row = Aggregate(Seen(s), sess[s].v)
    BY <1>7, ReadMoves
  <2>2. sess[s].step \in Reviewing /\ sess[s].v \in Venues
    BY <1>7 DEF ReadAggregate, Reviewing, Typed, IsRequest
  <2>3. Bounded(sess'[s].row)
    BY <2>1, <2>2, SeenTable, AggregateBounded
  <2>. QED
    BY <1>4, <2>1, <2>3 DEF Goes, HeldWithin, Reviewing, Editing
<1>8. CASE UpdateVenue(s)
  <2>1. Goes(s, "commit") /\ sess'[s].row = sess[s].row /\ sess[s].step = "update"
    BY <1>8, UpdateMoves DEF UpdateVenue
  <2>. QED
    BY <1>4, <2>1 DEF Goes, HeldWithin, Reviewing, Editing, Within
<1>9. CASE EditReload(s)
  <2>1. /\ Goes(s, "write") /\ sess'[s].row[1] = sess[s].row[1]
        /\ sess'[s].changed = sess[s].changed /\ sess[s].step = "reload"
    <3>1. sess'[s].row = <<sess[s].row[1], venue[sess[s].v]>>
      BY <1>9, ReloadMoves
    <3>2. sess'[s].row[1] = sess[s].row[1]
      BY <3>1
    <3>. QED
      BY <1>9, <3>2, ReloadMoves DEF EditReload
  <2>. QED
    BY <1>4, <2>1 DEF Goes, HeldWithin, Reviewing, Editing, Within
<1>. QED
  BY <1>3, <1>5, <1>6, <1>7, <1>8, <1>9 DEF Abort

LEMMA CommitWithin ==
    ASSUME Typed, Within, NEW s \in Sessions, Commit(s)
    PROVE  Within'
<1>1. sess[s].step = "commit" /\ sess[s].v \in Venues /\ Ends(s)
  BY CommitEnds DEF Commit, Typed, IsRequest, Reviewing
<1>2. venue' = [venue EXCEPT ![sess[s].v] = sess[s].row] /\ Bounded(sess[s].row)
  BY <1>1 DEF Commit, Within, HeldWithin
<1>3. \A v \in Venues : Bounded(venue'[v])
  BY <1>1, <1>2 DEF Within, Typed
<1>4. raced' \subseteq Venues
  BY DEF Commit, Within
<1>. QED
  BY <1>1, <1>3, <1>4, EndWithin DEF Within

LEMMA EditWriteWithin ==
    ASSUME Typed, Within, NEW s \in Sessions, EditWrite(s)
    PROVE  Within'
<1> DEFINE w == sess[s].v
           entity == sess[s].row[1]
           seen == sess[s].row[2]
           row == [c \in {"rating", "count"} |-> IF entity[c] # seen[c] THEN entity[c] ELSE venue[w][c]]
<1>1. sess[s].step = "write" /\ w \in Venues /\ Ends(s)
  BY EndsRequest DEF EditWrite, Typed, IsRequest, Editing
<1>2. Bounded(entity) /\ Bounded(venue[w])
  BY <1>1 DEF Within, HeldWithin, Editing
<1>3. venue' = [venue EXCEPT ![w] = row]
  BY <1>1 DEF EditWrite, Typed
<1> HIDE DEF entity, seen
<1>4. /\ row.rating \in {entity.rating, venue[w].rating}
      /\ row.count \in {entity.count, venue[w].count}
  OBVIOUS
<1> HIDE DEF row
<1>5. Bounded(row)
  BY <1>2, <1>4 DEF Bounded
<1>6. \A v \in Venues : Bounded(venue'[v])
  BY <1>1, <1>3, <1>5 DEF Within, Typed
<1>7. raced' \subseteq Venues
  BY DEF EditWrite, Within
<1>. QED
  BY <1>1, <1>6, <1>7, EndWithin DEF Within

LEMMA DeleteWithin ==
    ASSUME Typed, Within, NEW u \in Users, DeleteAccount(u)
    PROVE  Within'
<1>1. venue' = venue /\ raced' \subseteq Venues
  BY DEF DeleteAccount, Within
<1>2. ASSUME NEW t \in Sessions PROVE HeldWithin(t)'
  BY DeleteMarks DEF Within, HeldWithin
<1>. QED
  BY <1>1, <1>2 DEF Within

LEMMA WithinInit == Init => Within
<1> SUFFICES ASSUME Init PROVE Within
  OBVIOUS
<1>1. review \in [Keys -> Stars \cup {Unrated}]
  BY DEF Init
<1>2. \A v \in Venues : venue[v] = Aggregate(review, v)
  BY DEF Init
<1>3. \A v \in Venues : Bounded(venue[v])
  BY <1>1, <1>2, AggregateBounded
<1>4. \A s \in Sessions : HeldWithin(s)
  BY DEF Init, Free, HeldWithin, Editing
<1>5. raced \subseteq Venues
  BY DEF Init
<1>. QED
  BY <1>3, <1>4, <1>5 DEF Within

LEMMA WithinStep == Typed /\ Within /\ [Next]_vars => Within'
<1> SUFFICES ASSUME Typed, Within, [Next]_vars PROVE Within'
  OBVIOUS
<1>1. CASE \E s \in Sessions, u \in Users, v \in Venues :
              \/ \E star \in Stars : Begin(s, "upsert", u, v, star)
              \/ Begin(s, "remove", u, v, Unrated)
  BY <1>1, BeginWithin
<1>2. CASE \E s \in Sessions, v \in Venues : EditBegin(s, v)
  BY <1>2, EditBeginWithin
<1>3. CASE \E s \in Sessions : Step(s) \/ Abort(s)
  BY <1>3, StepWithin, CommitWithin, EditWriteWithin DEF Step
<1>4. CASE \E u \in Users : DeleteAccount(u)
  BY <1>4, DeleteWithin
<1>5. CASE UNCHANGED vars
  BY <1>5 DEF vars, Within, HeldWithin
<1>. QED
  BY <1>1, <1>2, <1>3, <1>4, <1>5 DEF Next

Known == accounts \subseteq Users

LEMMA KnownStep == Known /\ [Next]_vars => Known'
<1> SUFFICES ASSUME accounts \subseteq Users, [Next]_vars PROVE accounts' \subseteq Users
  BY DEF Known
<1>1. CASE \E s \in Sessions, u \in Users, v \in Venues :
              \/ \E star \in Stars : Begin(s, "upsert", u, v, star)
              \/ Begin(s, "remove", u, v, Unrated)
  BY <1>1 DEF Begin
<1>2. CASE \E s \in Sessions, v \in Venues : EditBegin(s, v)
  BY <1>2 DEF EditBegin
<1>3. CASE \E s \in Sessions : Step(s) \/ Abort(s)
  BY <1>3 DEF Step, Abort, FindReview, RereadReview, SaveReview, DeleteReview, ReadAggregate,
              UpdateVenue, Commit, EditReload, EditWrite
<1>4. CASE \E u \in Users : DeleteAccount(u)
  BY <1>4 DEF DeleteAccount
<1>5. CASE UNCHANGED vars
  BY <1>5 DEF vars
<1>. QED
  BY <1>1, <1>2, <1>3, <1>4, <1>5 DEF Next

\* The rows of venues and the memories of requests are typed in every reachable
\* state: no rating leaves 0 to 500 hundredths, whatever upsert, remove, the
\* editor and deletions of accounts interleave.
THEOREM ReviewTypes == Spec => []TypeOK
<1>1. ASSUME RatingInv, Within, Known PROVE TypeOK
  <2>1. \A v \in Venues : venue[v] \in [rating : 0..500, count : Nat]
    <3> SUFFICES ASSUME NEW v \in Venues PROVE venue[v] \in [rating : 0..500, count : Nat]
      OBVIOUS
    <3>1. venue[v] = [c \in {"rating", "count"} |-> venue[v][c]]
      BY <1>1 DEF RatingInv, Typed, IsRating
    <3>2. venue[v].rating \in 0..500 /\ venue[v].count \in Nat
      <4>1. Cardinality(Users) \in Nat
        BY UsersAssumption, FS_CardinalityType
      <4>. QED
        BY <1>1, <4>1, RatingsAssumption DEF Within, Bounded
    <3>. QED
      BY <3>1, <3>2
  <2>2. ASSUME NEW s \in Sessions
        PROVE  /\ DOMAIN sess[s] = DOMAIN Free
               /\ sess[s].changed => Key(s) \in Keys
    <3>1. IsRequest(sess[s]) /\ HeldWithin(s)
      BY <1>1 DEF RatingInv, Typed, Within
    <3>2. DOMAIN sess[s] = Fields /\ DOMAIN Free = Fields
      BY <3>1, FreeFields DEF IsRequest
    <3>3. sess[s].changed => Key(s) \in Keys
      BY <3>1 DEF HeldWithin, IsRequest, Reviewing, Key, Keys
    <3>. QED
      BY <3>2, <3>3
  <2>. QED
    BY <1>1, <2>1, <2>2 DEF TypeOK, RatingInv, Typed, Within, Known
<1>2. RatingInv => Typed
  BY DEF RatingInv
<1>3. Init => Known
  BY DEF Init, Known
<1>. QED
  BY <1>1, <1>2, <1>3, RatingInit, RatingStep, WithinInit, WithinStep, KnownStep, PTL DEF Spec

\* A venue's rating is always between the extremes of what it averages, and its
\* count between the external one and that plus all users, whatever requests of
\* upsert, remove and the editor overlap and whichever accounts are deleted.
THEOREM RatingsAreBounded == Spec => []RatingBounded
<1>1. Within => RatingBounded
  BY DEF Within, Bounded, RatingBounded, All
<1>2. RatingInv => Typed
  BY DEF RatingInv
<1>. QED
  BY <1>1, <1>2, RatingInit, RatingStep, WithinInit, WithinStep, PTL DEF Spec
================================================================================
