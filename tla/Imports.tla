------------------------------- MODULE Imports -------------------------------
(***************************************************************************)
(* The command-line scripts that fill the table of venues: the curated     *)
(* seeds, piso-import, which adds what PISO knows of a city, piso-verify,  *)
(* which audits the rows, and the reset.  An operator runs one at a time   *)
(* and any of them can crash at any step; what they keep across runs is    *)
(* the database, the files on the volume and piso-import's progress file.  *)
(* Meanwhile the application's editors give venues photographs of their    *)
(* own and its users review them.                                          *)
(***************************************************************************)
EXTENDS ImportsPromise, Sequences, FiniteSets, SequencesExt

CONSTANTS None,
          Places,                 \* the data_ids of PISO
          Data,                   \* Data[p]: what PISO says of a place
          Curated,                \* the slugs of the seed files
          MinRating, MinReviews,  \* --min-rating, and --min-reviews of an import
          Bars,                   \* the --min-reviews an audit may be given
          ReviewLimit, Count,     \* --reviews, --count
          MaxUploads, Touched     \* bounds: the uploads there are; the venues whose editors
                                  \* and users are active

VARIABLES users,     \* the handles of the synthetic reviewers
          script,    \* the memory of the script that runs
          uploads    \* how many uploads there have been

vars == <<venues, users, disk, progress, script, uploads, reset>>

Slugs == Curated \cup {Data[p].slug : p \in Places}
Idle == [kind |-> "none", step |-> "idle", apply |-> FALSE, cleanup |-> FALSE, bar |-> 0, todo |-> {},
         cur |-> None, match |-> None, upload |-> Stock, cache |-> {}, queue |-> {},
         imported |-> 0]
----------------------------------------------------------------------------
\* Reviews are taken photos first, then by stars; one per author, so many at most.
Picked(p) ==
    LET Before(a, b) == a.photos > b.photos \/ (a.photos = b.photos /\ a.stars > b.stars)
        Take(acc, r) == IF Len(acc) = ReviewLimit \/ (\E i \in DOMAIN acc : acc[i].author = r.author)
                        THEN acc ELSE Append(acc, r)
    IN  FoldLeft(Take, <<>>, SortSeq(Data[p].reviews, Before))

\* Of these one per handle is written, for two names can make the same handle.
Written == [p \in Places |->
    LET picked == Picked(p)
        First(i) == \A j \in 1..(i - 1) : picked[j].handle # picked[i].handle
    IN  {[who |-> picked[i].handle, stars |-> picked[i].stars] : i \in {k \in DOMAIN picked : First(k)}}]
Handles == [p \in Places |-> {r.who : r \in Written[p]}]

\* The city's own places, within reach and above the bar.
Passes(p, bar) == Data[p].rating > MinRating /\ Data[p].count > bar
Eligible(p) == ~Data[p].sibling /\ Passes(p, MinReviews)

\* The column rating, in hundredths of a star, halves up; without any count it is
\* external_rating.
RatingOf(row) ==
    LET n == row.count + Cardinality(row.blended)
        x == row.rating * row.count + 100 * MapThenSumSet(LAMBDA r : r.stars, row.blended)
    IN  IF n = 0 THEN row.rating ELSE (2 * x + n) \div (2 * n)

Taken(p) == \E s \in Slugs : Has(s) /\ venues[s].ext = p

\* blended: the reviews that rating and review_count add to the external ones.
Row(ext, source, rating, count, images, reviews) ==
    [ext |-> ext, source |-> source, rating |-> rating, count |-> count, images |-> images,
     reviews |-> reviews, blended |-> reviews, deleted |-> FALSE]

\* The table with a row more.
With(s, row) == [t \in DOMAIN venues \cup {s} |-> IF t = s THEN row ELSE venues[t]]

Init ==
    /\ venues = <<>>
    /\ users = {} /\ disk = {} /\ uploads = 0
    /\ progress = [s \in Slugs |-> "again"]
    /\ script = Idle /\ reset = FALSE

\* What the call for a place comes to, its retries included.
Answers == {"ok", "skipped", "no image", "failed"}

Running(kind, step) == script.kind = kind /\ script.step = step
Goes(step) == script' = [script EXCEPT !.step = step]
\* On to the next of the list, with what this one leaves in memory.
Onward(s) == script' = [s EXCEPT !.step = "next", !.todo = @ \ {s.cur}, !.cur = None,
                                 !.match = None, !.upload = Stock]
Uploaded == /\ uploads < MaxUploads
            /\ uploads' = uploads + 1 /\ disk' = disk \cup {uploads + 1}
----------------------------------------------------------------------------
\* piso-import.  The search answers with some of the places; those that a row
\* has, soft-deleted or not, are left out.
StartImport(apply) ==
    /\ script = Idle
    /\ \E found \in SUBSET Places :
          LET todo == {p \in found : Eligible(p) /\ ~Taken(p)}
          IN  /\ todo # {}
              /\ script' = [Idle EXCEPT !.kind = "import", !.step = "next", !.apply = apply,
                                        !.todo = todo]
    /\ UNCHANGED <<venues, users, disk, progress, uploads, reset>>

Slug == Data[script.cur].slug

\* What is left is taken in the order of rating and number of reviews.
Best == IF script.todo = {} THEN None
        ELSE CHOOSE p \in script.todo : \A q \in script.todo : Data[p].score >= Data[q].score

TakePlace(p) ==
    /\ Running("import", "next") /\ p = Best /\ script.imported < Count
    /\ LET s == Data[p].slug
       IN  IF progress[s] \in {"saved", "skipped"}
           THEN script' = [script EXCEPT !.todo = @ \ {p}] /\ UNCHANGED progress
           ELSE IF Has(s)
           THEN /\ progress' = [progress EXCEPT ![s] = "skipped"]
                /\ script' = [script EXCEPT !.todo = @ \ {p}]
           ELSE script' = [script EXCEPT !.cur = p, !.step = "place"] /\ UNCHANGED progress
    /\ UNCHANGED <<venues, users, disk, uploads, reset>>

EndImport ==
    /\ Running("import", "next") /\ (script.todo = {} \/ script.imported = Count)
    /\ script' = Idle
    /\ UNCHANGED <<venues, users, disk, progress, uploads, reset>>

\* The place is gone, has too few photographs, the call fails, or it is good.
\* A dry run counts it and uploads nothing.
FetchPlace(answer) ==
    /\ Running("import", "place")
    /\ IF answer = "ok"
       THEN /\ IF script.apply THEN Goes("upload") ELSE Onward([script EXCEPT !.imported = @ + 1])
            /\ UNCHANGED progress
       ELSE /\ progress' = [progress EXCEPT ![Slug] = IF answer = "skipped" THEN answer ELSE "again"]
            /\ Onward(script)
    /\ UNCHANGED <<venues, users, disk, uploads, reset>>

UploadPlaceMarking(enough) ==
    /\ Running("import", "upload") /\ Uploaded
    /\ progress' = [progress EXCEPT ![Slug] = IF enough THEN "saved" ELSE "again"]
    /\ IF enough THEN script' = [script EXCEPT !.step = "insert", !.upload = uploads + 1] ELSE Onward(script)
    /\ UNCHANGED <<venues, users, reset>>
\* The files go to the volume first; too few of them are left there.
UploadPlace(enough) ==
    /\ Running("import", "upload") /\ Uploaded
    /\ IF enough
       THEN script' = [script EXCEPT !.step = "insert", !.upload = uploads + 1] /\ UNCHANGED progress
       ELSE /\ progress' = [progress EXCEPT ![Slug] = "again"]
            /\ Onward(script)
    /\ UNCHANGED <<venues, users, reset>>

\* A reviewer the script remembers from a transaction that was rolled back has
\* no row: the review violates its foreign key.
Ghosts(p) == (Handles[p] \cap script.cache) \ users

InsertVenue ==
    /\ Running("import", "insert")
    /\ ~Has(Slug) /\ ~Taken(script.cur) /\ Ghosts(script.cur) = {}
    /\ LET p == script.cur
       IN  /\ venues' = With(Slug, Row(p, "google", Data[p].rating, Data[p].count,
                                    script.upload, Written[p]))
           /\ users' = users \cup Handles[p]
           /\ script' = [script EXCEPT !.step = "mark", !.cache = @ \cup Handles[p]]
    /\ UNCHANGED <<disk, progress, uploads, reset>>

\* The transaction fails, by itself or for an outage; the reviewers it had
\* got to stay in the cache.
InsertFails(outage) ==
    /\ Running("import", "insert")
    /\ outage \/ Has(Slug) \/ Taken(script.cur) \/ Ghosts(script.cur) # {}
    /\ progress' = [progress EXCEPT ![Slug] = "again"]
    /\ \E seen \in SUBSET Handles[script.cur] :
          Onward([script EXCEPT !.cache = @ \cup seen])
    /\ UNCHANGED <<venues, users, disk, uploads, reset>>

MarkSaved ==
    /\ Running("import", "mark")
    /\ progress' = [progress EXCEPT ![Slug] = "saved"]
    /\ Onward([script EXCEPT !.imported = @ + 1])
    /\ UNCHANGED <<venues, users, disk, uploads, reset>>
----------------------------------------------------------------------------
\* piso-verify.  It reads the rows below the bar once, and works on that copy; those
\* that are not published, and those its flags leave out, are not among them.
Failing(row, bar) == ~row.deleted /\ (row.count <= bar \/ RatingOf(row) <= MinRating
                                      \/ row.images = Stock)
Copy(s) == [slug |-> s, ext |-> venues[s].ext, source |-> venues[s].source,
            images |-> venues[s].images, fake |-> RatingOf(venues[s]) = 500]

StartVerify(bar, apply, cleanup) ==
    /\ script = Idle /\ (cleanup => apply)
    /\ \E some \in SUBSET {r \in Slugs : Has(r) /\ Failing(venues[r], bar)} :
          LET todo == {Copy(s) : s \in some}
          IN  /\ todo # {}
              /\ script' = [Idle EXCEPT !.kind = "verify", !.step = "next", !.apply = apply,
                                        !.cleanup = cleanup, !.bar = bar, !.todo = todo]
    /\ UNCHANGED <<venues, users, disk, progress, uploads, reset>>

\* The row is soft-deleted and its files are queued; a dry run only counts.
Delete(v, s) ==
    IF script.apply
    THEN /\ venues' = [venues EXCEPT ![v.slug].deleted = TRUE]
         /\ Onward([s EXCEPT !.queue = IF s.cleanup THEN @ \cup ({v.images} \ {Stock}) ELSE @])
    ELSE Onward(s) /\ UNCHANGED venues

KeepOrDelete(v, keep) == IF keep THEN Onward(script) /\ UNCHANGED venues ELSE Delete(v, script)

\* A row with photographs of its own, and a rating not suspiciously 5.0, goes
\* without a question to PISO.
Audit(v) ==
    /\ Running("verify", "next") /\ v \in script.todo
    /\ IF v.images # Stock /\ ~v.fake
       THEN Delete(v, [script EXCEPT !.cur = v])
       ELSE script' = [script EXCEPT !.step = "refresh", !.cur = v] /\ UNCHANGED venues
    /\ UNCHANGED <<users, disk, progress, uploads, reset>>

\* PISO fails, has nothing or has delisted the place.
RefreshWithout(answer) ==
    /\ Running("verify", "refresh")
    /\ IF answer = "error"
       THEN Onward(script) /\ UNCHANGED venues
       ELSE KeepOrDelete(script.cur, script.cur.source = "curated" /\ answer = "none")
    /\ UNCHANGED <<users, disk, progress, uploads, reset>>

\* PISO has p for the row: its own place, or what the search of its name gives.
Refresh(p, photos) ==
    LET v == script.cur
    IN  /\ Running("verify", "refresh")
        /\ v.ext = None \/ v.ext = p
        /\ IF v.ext # p /\ (\E s \in Slugs : Shown(s) /\ venues[s].ext = p)
           THEN Delete(v, script)
           ELSE IF ~Passes(p, script.bar) \/ ~photos
           THEN KeepOrDelete(v, v.source = "curated")
           ELSE /\ IF script.apply THEN script' = [script EXCEPT !.match = p, !.step = "upload"]
                                   ELSE Onward(script)
                /\ UNCHANGED venues
        /\ UNCHANGED <<users, disk, progress, uploads, reset>>

UploadMatchUnlinking(enough) ==
    /\ Running("verify", "upload") /\ uploads < MaxUploads
    /\ uploads' = uploads + 1 /\ disk' = (disk \cup {uploads + 1}) \ {script.cur.images}
    /\ IF enough
       THEN script' = [script EXCEPT !.step = "update", !.upload = uploads + 1] /\ UNCHANGED venues
       ELSE KeepOrDelete(script.cur, script.cur.source = "curated")
    /\ UNCHANGED <<users, progress, reset>>
UploadMatch(enough) ==
    /\ Running("verify", "upload") /\ Uploaded
    /\ IF enough
       THEN script' = [script EXCEPT !.step = "update", !.upload = uploads + 1] /\ UNCHANGED venues
       ELSE KeepOrDelete(script.cur, script.cur.source = "curated")
    /\ UNCHANGED <<users, progress, reset>>

\* Another row has the place: a soft-deleted one, which the search for
\* duplicates does not see and the unique index does.
Clash == script.match # script.cur.ext /\ Taken(script.match)

\* The synthetic reviews are replaced and the rating blended with the new ones
\* alone, whatever the users of the application have written.
UpdateVenue ==
    /\ Running("verify", "update") /\ ~Clash /\ Ghosts(script.match) = {}
    /\ LET v == script.cur
           p == script.match
           local == {r \in venues[v.slug].reviews : r.who \notin users}
       IN  /\ venues' = [venues EXCEPT ![v.slug] =
                  [Row(p, "google", Data[p].rating, Data[p].count, script.upload, Written[p])
                      EXCEPT !.reviews = @ \cup local,
                             !.deleted = venues[v.slug].deleted]]
           /\ users' = users \cup Handles[p]
           /\ Onward([script EXCEPT !.cache = @ \cup Handles[p],
                 !.queue = IF script.cleanup THEN @ \cup ({v.images} \ {Stock}) ELSE @])
    /\ UNCHANGED <<disk, progress, uploads, reset>>

UpdateFails(outage) ==
    /\ Running("verify", "update")
    /\ outage \/ Clash \/ Ghosts(script.match) # {}
    /\ \E seen \in SUBSET Handles[script.match] : Onward([script EXCEPT !.cache = @ \cup seen])
    /\ UNCHANGED <<venues, users, disk, progress, uploads, reset>>

\* The files are unlinked when all rows are done, each call as it may fail.
EndVerify(removed) ==
    /\ Running("verify", "next") /\ script.todo = {}
    /\ removed \subseteq script.queue
    /\ disk' = disk \ removed
    /\ script' = Idle
    /\ UNCHANGED <<venues, users, progress, uploads, reset>>

Crash ==
    /\ script # Idle
    /\ script' = Idle
    /\ UNCHANGED <<venues, users, disk, progress, uploads, reset>>
----------------------------------------------------------------------------
\* import-landmarks and seed-venues add the rows whose slug is free.
SeedCurated(s) ==
    /\ script = Idle /\ ~Has(s)
    /\ venues' = With(s, Row(None, "curated", 450, 0, Stock, {}))
    /\ UNCHANGED <<users, disk, progress, script, uploads, reset>>

\* reset-for-import and reset-venues drop the rows, and nothing on any disk.
Reset ==
    /\ script = Idle /\ \E s \in Slugs : Has(s)
    /\ venues' = <<>>
    /\ reset' = TRUE
    /\ UNCHANGED <<users, disk, progress, script, uploads>>

\* An editor gives a venue photographs; the old ones are unlinked.
EditPhotos(s) ==
    /\ Shown(s) /\ uploads < MaxUploads
    /\ uploads' = uploads + 1
    /\ disk' = (disk \cup {uploads + 1}) \ {venues[s].images}
    /\ venues' = [venues EXCEPT ![s].images = uploads + 1]
    /\ UNCHANGED <<users, progress, script, reset>>

\* A user reviews the venue: ReviewsService blends all its reviews.
LocalReview(s) ==
    /\ Shown(s)
    /\ LET reviews == venues[s].reviews \cup {[who |-> "local", stars |-> 5]}
       IN  venues' = [venues EXCEPT ![s].reviews = reviews, ![s].blended = reviews]
    /\ venues' # venues
    /\ UNCHANGED <<users, disk, progress, script, uploads, reset>>

Next ==
    \/ \E apply \in BOOLEAN : StartImport(apply)
    \/ \E p \in Places : TakePlace(p)
    \/ \E answer \in Answers : FetchPlace(answer)
    \/ \E enough \in BOOLEAN : UploadPlace(enough) \/ UploadMatch(enough)
    \/ InsertVenue \/ MarkSaved \/ EndImport \/ UpdateVenue \/ Crash \/ Reset
    \/ \E outage \in BOOLEAN : InsertFails(outage) \/ UpdateFails(outage)
    \/ \E bar \in Bars, apply, cleanup \in BOOLEAN : StartVerify(bar, apply, cleanup)
    \/ \E v \in script.todo : Audit(v)
    \/ \E answer \in {"error", "none", "gone"} : RefreshWithout(answer)
    \/ \E p \in Places, photos \in BOOLEAN : Refresh(p, photos)
    \/ \E removed \in SUBSET script.queue : EndVerify(removed)
    \/ \E s \in Curated : SeedCurated(s)
    \/ \E s \in Touched : EditPhotos(s) \/ LocalReview(s)

Spec == Init /\ [][Next]_vars
----------------------------------------------------------------------------
\* Rows, files and the memory of the script are of their types.
TypeOK ==
    /\ \A s \in Slugs : Has(s) =>
          /\ venues[s].ext \in Places \cup {None} /\ venues[s].images \in 0..MaxUploads
          /\ venues[s].source \in {"curated", "google"}
    /\ disk \subseteq 1..uploads /\ uploads <= MaxUploads
    /\ progress \in [Slugs -> {"saved", "skipped", "again"}]
    /\ script.imported <= Count /\ script.queue \subseteq 1..uploads

\* The header of piso-verify: no hand-seeded landmark is deleted that PISO was
\* not asked about.
CuratedKept == [][\A s \in Slugs : Shown(s) /\ venues[s].source = "curated" /\ Has(s)'
                    /\ venues'[s].deleted => script.step # "next"]_vars
=============================================================================
