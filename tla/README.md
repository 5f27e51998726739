# Verification of location-ranking-be

TLA+ modules, TLC configurations and TLAPS proofs for the NestJS + TypeORM +
PostgreSQL backend in this repository. Paths below are relative to the
repository's `src/src/`; `modules/` is `src/src/modules/`.

The state lives in PostgreSQL, on a volume of uploaded files, and in a few memories
of a process: the queue of `VenueImageRehostQueue`, the cache of `cache-manager`, the
set `healed` of the journey, the ward index. Requests run concurrently, in several
transactions, several processes (a cluster forks one per core) and several tabs of one
user; hardly any statement locks what it reads, and the isolation is READ COMMITTED.
What is hard here is therefore what an `await` lets in between, and what a crash or a
failed statement leaves behind. The modules make each statement, or each load and each
save, a step of its own.

## Inventory

| Component | State | Operations | Hard behaviour | What makes it correct |
|---|---|---|---|---|
| Votes and check-ins (`modules/votes`, `modules/check-ins`) | `votes`, `check_ins`, `journey_entries`, `venues.upvotes`, `users.check_in_count` | cast, create, remove, updateMemory, account deletion | overlapping requests, rollbacks, midnight, lock order | counters equal the rows they count; a vote needs a check-in; one visit a day |
| Follow graph (`modules/users`) | `user_follows`, `users.follower_count`, `following_count` | follow, unfollow, updateProfile, deleteAccount | double clicks, opposite locks, whole-row saves, cascades | counters equal edges; requests end; all or nothing |
| Reviews (`modules/reviews`) | `reviews`, `venues.rating`, `review_count` | upsert, remove | the aggregate is read before the venue's row is locked | the rating is that of the reviews, blended with the external one |
| Trips (`modules/trips`) | `trips`, `trip_members` | create, update, end, remove, invite, respond, leave, removeMember, transferOwner, listMemories | loads and saves of rows nobody locks | one owner, members were invited, an ended trip and its album stay as they are |
| Venue editor and rehost queue (`modules/admin/admin-venues.service.ts`, `modules/uploads/venue-image-rehost.queue.ts`, `main.ts`) | `venues.images`, `image_ingestion_status`; queue, workers | create, update, publish, retry, delete; enqueue, advance, resume | crash, shutdown, failing downloads, edits during a download | no url forgotten, none worked on twice, edits win, pending urls are settled |
| Tours, stops, promotions, brands (`modules/tours`, `modules/admin/admin-brands.controller.ts`) | `tours`, `tour_stops`, promotions as JSON, `brands`, `tours.provider`, image files | create, update, publish, remove, promotions; brand create, edit, verify, delete | statements outside a transaction, lost updates, a copy refreshed by several writers, files unlinked afterwards | an itinerary survives, derived columns are those of the stops, the provider is the brand's, what is shown is on disk |
| Accounts (`modules/auth`, `modules/branding`, `modules/users`, `modules/admin/admin.controller.ts`) | `users`, sessions, verification tokens | findOrCreateGoogleUser, profile, link, brand, sendVerification, verifyToken, role, block, deleteAccount | two first logins, a token older than the address, saves from an older copy | a login is not refused; what is verified was proven; decisions of administrators hold |
| Journey (`modules/journey`) | `journey_entries`, `healed` | list with backfill, add, seed, remove | the backfill is marked done before it runs, in each worker | every visited venue is there |
| Saved venues (`modules/saved-venues`) | `saved_venues` | save, remove, monthly reset | every worker resets, beside saves | a month starts fresh |
| Public pages: cities, venue lists, discover, CDN (`modules/cities`, `modules/venues`, `modules/discover`, `common/interceptors/public-cache.interceptor.ts`) | cache of each worker, the CDN | findAll, findBySlug, findPaged, counts, sitemap, sections, recommendations; the editors' invalidation | set after invalidate, other workers, a CDN in front | bounded staleness, the editor sees the edit, a list read page by page is the whole list |
| AI search (`modules/ai-search`) | `ai_search_cache` | search, more, parse, rerank, get, set | a model that fails, repeats and invents; rows that expire; overlapping writes | the list is complete, hidden venues are not shown, a row is one search's |
| Wards (`modules/venues/ward-*.ts`, `database/seed-wards.ts`, `database/backfill-venue-wards.ts`) | `wards`, `venues.ward_id`, an index per worker | resolve, seed, backfill, editor's district | scripts killed half way, editors beside them, an index that is never refreshed | each venue has the ward its own texts name |
| Import scripts (`database/piso-*.ts`, seeds, resets) | `venues`, reviews of synthetic users, files on the volume, the progress file | import, audit, seed, reset | a crash at any step; two media that are not one transaction | files of what is shown, ratings of what is stored, nothing skipped for good |
| Upload cleanup and endpoints, bootstrap | files; processes | diffAndDelete; fork, respawn | files unlinked after a save | in the modules that call them |
| Mail, partners, Open Graph, guards, configuration, migrations, demonstration seeds | none of their own | | | not modelled |

Components meet in the rows of `users` and `venues` (counters next to profile and
editor columns, saved whole), in the cascade of a deleted account, and in calls: an
editor's request enqueues its venue and invalidates the cache, a check-in adds to the
journey, the bootstrap calls `resume()`, tours and scripts call the upload cleanup.

`PROJECT.json` lists the hazards by line, with the properties that cover them.

## Modules

Proofs are in a module of their own, `<Module>Proofs`; those of the parts of
`MCVenueRows` are in `VenueRowsProofs`, those of VenuePages and AiSearch in
`VenueListsProofs`. `MC<Module>` gives TLC its instances. A `...Promise` module holds the state that others see of a component and the
properties about it; the component extends it and adds its constants, its memory and its
steps. A composition and a proof extend the same promise, so that a run and a theorem
speak of one definition.

**Engagement** (`EngagementLedger`). A session is one transaction; `tx[s]` holds what
it has read and what it will write, `holds[s]` its row locks and unique keys. A SELECT
reads committed rows; a write takes its lock (its action is disabled while another
session has it), `Commit` applies the writes, `Abort` drops them (statement time-out,
deadlock victim, lost connection). `Overlap` says which requests of one user may be in
flight together. `Cast*` is `VotesService.cast`; `Create*`, `Remove*`
and `Memory*` are those of `CheckInsService`; `LeaveJourney` and `DeleteAccount` are
single statements. `created_at` is the day of the transaction's start, as in
PostgreSQL. `EngagementLedger` is what users are promised: a request takes effect in
one step. `ImplementsLedger` is the refinement.

**FollowGraph** (`FollowLedger`). Transactions as above, with the lock modes that
matter on a row of `users`: the foreign key's share lock, the UPDATE of a counter, the
DELETE. A profile save is TypeORM's: load, reload, UPDATE of the columns that differ.
`lostFollowers` and `lostFollowing` are history: the edges that went with a deleted
account, which no statement takes off the counters of the other end. `DriftOnlyByDeletion`
counts them; `FollowerCountInSync`, what the entity's comment says, does not.
Statements that wait end by `Timeout`.

**Reviews**. Transactions of `upsert` and `remove` on several venues. `ReadAggregate`
is the statement before the venue's row is locked; the stale aggregate of an overlap is
written later. `upsert` finds the user's review, `save()` reads it again
(`RereadReview`) and then updates it, updates nothing, inserts it again or is refused by
the unique key, as the row is by then. An account may be deleted in the middle of its own
requests. `raced` holds the venues on which requests have overlapped since a
request last ran alone. `Blend` is `blendRating` in hundredths.

**Trips**. One trip. A request is a load, which decides, and a save, which writes whole
entities over what the rows are by then, and inserts a row again that has gone. `Feed`
is the query of `listMemories`.

**RehostQueue**. A process with its queue, `Concurrency` workers and `up`, and editors'
requests in two or three steps (load, save, enqueue). A worker reads the row, ingests,
reloads and saves, as `processVenue` and `advance` do. `Stop` is the shutdown hook,
`Crash` the loss of a process, `Boot` and `Resume` its restart, `WorkerFail` an error of
the database. An image is a url and whether it is the external one or our copy.

**TourCatalog**. A request is a list of statements (`todo`), each an action; `Fail` ends
it before any of them, and what came before stays, since the code has no transaction
here. Tours, stops, promotions, brands and the files in `files` are written by the
statements of `TourManagementService`, `AdminBrandsController` and
`AdminToursController`, `UploadCleanupService.diffAndDelete` included. `torn` holds rows
whose request failed half way, `raced` pairs of a request and a row it shared with
another.

**Accounts**. Every request but the deletion loads a row, edits it in memory (`Edited`)
and saves it as TypeORM does: `Reload` finds the columns that differ, `Write` updates
them or inserts a row that has gone, unless a unique index refuses. Logins by web and
app share `findOrCreateGoogleUser`: `FindByGoogle`, `FindByEmail`, `UniqueHandle`,
`Insert`; a login that changes nothing else may still save a new picture. `BeginLink` is
the public callback of Instagram, which names its user in `state` and meets no guard. `RolesGuard` reads the role of the token, `Guard` (BlockedReadOnlyGuard) the
row. `proven`, `ruled`, `lost` and `deleted` are history.

**Journey**, **SavedVenues** (`JourneyPromise`, `SavedPromise`). One user, with
several requests and workers.

**VenuePages**. One cached page at a time (`keys`), in each worker's memory and in the
CDN, with ages in ticks; a load is up to three statements (a section and
what fills it up), an edit is load, reload, save and the invalidation in its own worker. A
client reads the pages of a list one request after another; the order of each is any that
the query's ORDER BY leaves open (`Sortings`). Each query has the filters of its own WHERE. Two venues may
have equal numbers: `Ahead` orders them as the query does, by its second column and then
by id. Where a query names no id, the order of equals is PostgreSQL's; the model takes
the one by id, too, so that the same statement over the same rows has one answer.

**Selection**. `Select` is `Array.filter` and `Page` is `slice`, the one with the ranks of
what is kept spelled out: the library's `SelectSeq` is a recursion that the provers cannot
take apart. An assertion of `MCRehostQueue` compares the two.

**AiSearch** (`AiSearchPromise`). One query as asked from several cities. `Parse` and `Rerank` choose any
answer the code accepts, fail, repeat or invent ids (`Bogus`). The row is found, diffed
and saved column by column (`cols`), or inserted. `gone` holds the venues hidden since before the request.

**Wards** (`WardsPromise`, with the resolvers). Texts are sequences of tokens; `ResolveText`, `ResolveVenue` and `ByAnchor`
are the resolvers, set-valued because no query orders the wards (a comment and a unit test
call ambiguous aliases deterministic, `ward-resolver.ts:122`; they are so for one order). `SeedStart`, `SaveWard`,
`DeleteWard`, `SeedEnd` are `seed-wards`; `BackfillStart` decides in memory,
`BackfillWrite` writes venue by venue; `Crash` ends either. Editors' requests load a row
(`EditLoad`), reload it (`EditReload`) and write the columns that differ (`EditWrite`):
district, address, coordinates, publication, and an older ward with them. `Create` adds
a venue.

**Imports** (`ImportsPromise`). A script holds its memory in `script` and runs step by step: `TakePlace`,
`FetchPlace`, `UploadPlace`, `InsertVenue`, `MarkSaved` of the import; `Audit`,
`Refresh`, `UpdateVenue`, `EndVerify` of the audit, which may be given one city or a limit
and so takes up any of the failing rows; seeds and reset. `disk` and
`progress` survive a `Crash`; so do rows whose progress was not marked yet. In
`progress`, "again" is every entry that a re-run tries once more, and no entry.

**MCVenueRows** composes Reviews, Imports, Wards, Journey and SavedVenues behind one
table of venues: `part` says which of them a behaviour runs, the others stay as they
begin. The parts share no column a property looks at, so their product would only
multiply states.

**MCVenueLists** composes VenuePages and AiSearch in the same way: what visitors are shown
of the venues, by page and by search.

## Runs

| Run | Instance | What it shows |
|---|---|---|
| `engagement_sequential` | 2 users (one can be deleted), 1 venue and the custom place, 2 check-in rows, 2 vote rows, 2 sessions, 2 days; a user's own requests follow one another, but for the deletion of the account in the middle of any but a cast | `CheckInCountExact`, `OncePerVnDay`, and the transactions implement the ledger, with rollbacks anywhere |
| `engagement_overlap` | 1 user, 3 check-in rows, 2 sessions, 2 days; own requests of all kinds overlap, the deletion of the account included, but cast with cast, removal or that deletion, and removal with memory edit | `UpvotesExact`, `VoteNeedsCheckIn`: two removals are ordered by the lock on the user's row |
| `follows` | 3 users (one can be deleted), 2 sessions | `DriftOnlyByDeletion`, `ImplementsLedger`, and `RequestsEnd` although opposite follows deadlock |
| `follower_count_in_sync` | 2 users (one can be deleted), 1 session | **`FollowerCountInSync` violated**: a deleted follower stays counted, against `database/entities/user-follow.entity.ts:15-17` |
| `trips` | 3 users, 2 requests in flight on different rows, 2 days, 2 memories | `OneOwner`, `Membership`, `ClosedForGood`, `AlbumFrozen`: the feed of an ended trip takes no memory posted after its end |
| `venue_images` | 2 venues, 2 urls, lists of 2 images at most, 1 process with 1 worker, 3 requests one after the other, 1 crash, shutdown or database error | `ImagesTracked`, `WorkedOnce`, `EditsKept`, and `PendingEnds` |
| `tour_catalog` | 2 tours, 2 brands, 3 requests drawn from a set that covers every operation, overlapping and failing at any statement | `ItinerariesSurvive`, `DerivedFromStops`, `ProviderIsBrand`, `PromotionsBounded`, `GalleryOnDisk` |
| `venue_lists` | 2 workers and a CDN, 2 requests, 2 edits of 2 venues, one page or one list at a time; or 2 searches from 2 cities and nowhere, a handful of intents, one venue that is hidden and shown | `StaleBounded`, `EditorSeesEdit`, `SectionFull`, `PagesShowAll`; `ListComplete`, `HiddenNotShown`, `RowIsOneSearch` |
| `accounts` | 3 requests, 2 at a time, of 4 identities (web and app, with and without an address, a configured administrator) on 3 rows | `LoginAlone`, `VerifiedWasProven`, `DecisionsHold` |
| `accounts_deleted` | the same | **`DeletedForGood` violated**: a save in flight inserts a deleted account again, against `modules/users/users.service.ts:327` |
| `venue_rows` | 2 users and 3 sessions on 1 reviewed venue; 4 places of PISO, 1 curated row, 2 uploads; 4 venues (one yet to be created), 1 editor and 2 versions of the ward file; 2 journey venues in 2 workers; 3 months | `RatingExact`, `RatingBounded`; `FilesKept`, `SavedIsThere`; `VenuesSettled`; `JourneyComplete`, `FailsOnce`; `StartsFresh` |
| `restorable_files` | the same | **`RestorableFiles` violated**: the audit unlinks the photographs of a venue it soft-deletes, against `database/entities/venue.entity.ts:225` |

Each property of a passing run has a mutant: a plausible bug of one definition (a
statement moved, a reset dropped, a limit checked too late) with which TLC refutes it in
the same configuration.

`TypeOK` of each module documents the types of its state. Where a proof needs it, it is
proved; otherwise the properties above would fail long before a type does.

### Bounds, and why they are enough

- Two sessions or requests let every pair of requests interleave statement by
  statement; a third is there where a property needs a witness (three reviews of one
  venue, a brand edit between two saves of a tour, a follow graph with a deletion that
  touches both ends).
- Rows: three check-ins let two removals leave or take the last visit; two venues make
  one worker's queue fill (`Concurrency` is 1, where the code has 2: that two workers never
  have one venue is the theorem `VenuesWorkedOnce`, not the run); two tours share
  one brand; three users' rows hold an administrator, a business and whoever signs in.
- Numbers of the code that only scale are small: `MaxPromotions` 2 for 20; `Limit`,
  `PageSize`, `PoolCap`, `Window`, `TooFew` of the pages and the AI search; `MinReviews`
  and `Bars` of the scripts straddle the data; `MaxKm` reaches one venue and not another.
  `Ttl`, `RowTtl`, `SMaxAge`, `Swr` are ticks: what matters is before, at and after an end. `Limits`, the limits
  of a page that clients ask for, leave a last page that is full and one that is not.
- `MaxTime`, `MaxPosts`, `MaxEdits`, `MaxFaults`, `MaxRequests`, `MaxVisits`, `Months`,
  `Edits`, `Seeds`, `MaxUploads`, `LastDay` and the sets of ids bound counters that would
  grow for ever. `Touched` names the venue of the imports whose editors and users act,
  `Deletable` the accounts that may go.
- Symmetry: users, sessions or requests that nothing chooses among (`MCEngagement`,
  `MCTrips`, `MCTourCatalog`, `MCVenueLists`, `MCAccounts`), never in a run
  with a liveness property.
- `CHECK_DEADLOCK FALSE` stands where a bounded system stops: the trip is over, the
  requests, edits or months are used up.

### What the constants leave out, and the counterexamples

Some promises do not survive every overlap. The overlap is then a constant, or the
property exempts what was raced, so that what remains is checked and the rest can be
seen by changing one line of a configuration, or by dropping the exemption.

Several of these are promises of a comment; the third column quotes it after "says".
Three promises of comments are runs that TLC refutes (`follower_count_in_sync`,
`accounts_deleted`, `restorable_files`). The rest of the table has no run of its own: each
row is refuted by TLC when its property is checked under the condition of the second
column.

| Property | Fails when | Because |
|---|---|---|
| `UpvotesExact`, `UpvotesCountVoters` (Engagement) | `Overlap` admits cast with cast | both casts read the same vote and move the counter (`votes.service.ts:40`); `votes.service.ts:20` says "the denormalised count of users that voted +1" |
| `UpvotesExact`, `ImplementsLedger` | `Overlap` admits cast with the deletion of the account | the vote that the cast has read goes with the account, and the cast takes one off all the same (`users.service.ts:336`) |
| `UpvotesCountVoters` | an account is deleted | its votes cascade, the counter stays; `UpvotesExact` counts them as `orphaned`, the comment does not |
| `VoteNeedsCheckIn` | `Overlap` admits cast with removal | the check-in a cast has seen goes before it commits; `votes.service.ts:19` says "must have already checked in" |
| `CheckInCountExact` | `Overlap` admits two removals, or a removal with a memory edit | two removals both soft-delete a check-in and take one off; a memory edit saves a deleted one back |
| `OncePerVnDay` | `MidnightSplits` with a create open at midnight, or two creates | the day of the check is not that of `created_at`; neither create sees the other; `check-ins.service.ts:75` says "at most once per Vietnam calendar day" |
| `FollowerCountInSync` (FollowGraph) | an account is deleted (a run) | the cascade moves no counter; `user-follow.entity.ts:15` says "kept in sync" |
| `DriftOnlyByDeletion` | `SaveRaces` | a profile save writes the old counter back |
| `RatingExact` (Reviews) | checked of raced venues, too | the stale aggregate of an overlap, or of an account that was deleted, stays |
| `LeftWereJoined` (Trips) | always possible | who declines or never answers can be removed and is then recorded as having left; `trip-member.entity.ts:18` says "was a joined member but left" |
| `OwnerCannotLeave`, `OneOwner` | `Races` holds leave with transfer, or two transfers | the owner is read before, members are saved after; `trips.service.ts:309` says "the owner can't leave" |
| `ClosedForGood` | update with end | update saves the trip it loaded |
| `PendingEnds` (RehostQueue) | `Clustered` | only the worker with id 1 resumes, a respawned one has another id (`main.ts:89`); `venue-image-rehost.queue.ts:16` says "Crash-safe" |
| `EditsKept` | `Races` | `advance` saves the images it reloaded over the editor's |
| `NeverZeroStops` (TourCatalog) | a request fails after the stops are deleted | no transaction around the two (`tour-management.service.ts:229`); `tour-management.dto.ts:115` says "never be left with zero stops" |
| `DerivedFromStops`, `ProviderIsBrand` | checked of raced tours and brands, too | the later save of two has what it loaded first |
| `CoverOnDisk` | an update empties the gallery (`Ops <- MCEmptied`) | the cover stays an image that is unlinked; `tour.entity.ts:90` says "empty when the business hasn't uploaded any photos" and "first-image pointer" |
| `VerifiedWasProven`, `DecisionsHold` (Accounts) | checked of the rows in `lost`, too | a save loaded before writes an old column back (`branding.service.ts:113`, `admin.controller.ts:96`) |
| `RowIsOneSearch` (AiSearch) | checked of raced rows, too | two searches each write the columns in which they differ (`ai-cache.service.ts:88`) |
| `CuratedKept` (Imports) | a landmark with photographs of its own is below the bar | such a row is deleted without a question to PISO, whatever its source (`piso-verify.ts:265`); `piso-verify.ts:51` says "don't auto-delete hand-seeded landmarks" |
| `EditsUseAddress` (Wards) | an editor's save carries a district that names no ward (`Changes <- MCRedistrict`) | it resolves the district alone; `admin-venues.service.ts:72` says "from district + address" |

Seen while modelling, and covered by no property: two updates of one trip both replace
its destinations (`trips.service.ts:420`); a rehost worker that has just read an empty
list still counts as active (`venue-image-rehost.queue.ts:99`), and a list with one url
twice keeps an external copy (`:146`); the audit takes any message with "404" in it for
a venue that is gone (`piso-verify.ts:98`) and can meet a soft-deleted row with the slug
it moves to (`:304`); slugs of tours ignore soft-deleted rows; an alias of two wards goes
to whichever the unordered SELECT lists first (the resolvers are sets for this reason);
the ward index of a server worker is never refreshed; a reset leaves the progress file,
so that a re-import skips what it had saved (`SavedIsThere` exempts it).

## Fairness

`FollowGraph`: `WF(Statement \/ Timeout)` per session. PostgreSQL runs a statement, or
cancels it after `statement_timeout` (`database/database.module.ts:45`); nothing makes a
client begin. `RehostQueue`: weak fairness of a worker's step (a promise that resolves;
downloads have time-outs), of a request's step once it has begun, and of exit, boot and
resume of a process (the cluster's primary or the process manager starts it again,
`main.ts:100`). No fairness is put on editors, on crashes or on errors. The other
modules state safety only: what must eventually happen there is a client's next request,
or an operator's next run of a script.

## Proofs

`tlapm <Module>Proofs.tla` proves, for every value of the constants:

| Theorem | Under | States |
|---|---|---|
| `EngagementTypes`, `UpvotesAreExact`, `VotersHaveCheckedIn` | no cast overlaps with a cast, a removal or the deletion of the account of its user (`NoCastPairs`); every other pair may | `[]TypeOK`, `[]UpvotesExact`, `[]VoteNeedsCheckIn` |
| `CheckInCountsAreExact`, `EngagementImplementsLedger` | in addition no removal overlaps with a removal or a memory edit of its user (`NoRemovePairs`) | `[]CheckInCountExact`, the transactions implement `EngagementLedger` |
| `OneCheckInADay` | in addition a user's creates are alone and end on the day they began (`CreatesAlone`) | `[]OncePerVnDay` |
| `FollowTypes`, `FollowsDriftOnlyByDeletion`, `FollowImplementsLedger` | no whole-row save overlaps with a request that moves its user's counters | `[]TypeOK`, `[]DriftOnlyByDeletion`, the transactions implement `FollowLedger` |
| `RatingsAreExact`, `ReviewTypes`, `RatingsAreBounded` | no condition on requests; stars and external ratings are from 0 to 5, users are finitely many | `[]RatingExact`, `[]TypeOK`, `[]RatingBounded` |
| `TripHasOneOwner`, `MembersWereInvited`, `EndedForGood`, `AlbumStaysFrozen` | `Races = {}` | `[]OneOwner`, `Membership`, `ClosedForGood`, `AlbumFrozen` |
| `RehostTypes`, `VenuesWorkedOnce` | no condition | `[]TypeOK`, `[]WorkedOnce` |
| `ImagesAreTracked` | no editor's list names an image twice (`DistinctImages`) | `[]ImagesTracked` |
| `EditsAreKept` | `Races = FALSE` | `[]EditsKept` |
| `PromotionsAreBounded`, `ItinerariesAreSaved`, `ColumnsAreDerived`, `ProviderIsTheBrand` | no condition on requests; bodies are valid and the first rows as the code leaves them | `[]PromotionsBounded`, `[]ItinerariesSurvive`, `[]DerivedFromStops`, `[]ProviderIsBrand` |
| `GalleriesAreOnDisk` | no request names an image that is another tour's, another's cover or a logo (`OwnImages`), nor one that is not on disk when it begins (`NamesUploaded`) | `[]GalleryOnDisk` |
| `AccountTypes`, `LoginsGoThrough`, `VerifiedIsProven`, `DecisionsAreKept` | no condition | `[]TypeOK`, `[]LoginAlone`, `[]VerifiedWasProven`, `[]DecisionsHold` |
| `FilesAreKept`, `SavedIsInTheTable` | no condition | `[]FilesKept`, `[]SavedIsThere` |
| `WardsAreTyped`, `VenuesAreSettled` | no condition | `[]TypeOK`, `[]VenuesSettled` |
| `JourneyTypes`, `JourneyIsComplete`, `FailuresBounded` | no condition (`JourneyTypes`: the bound on visits is a natural number) | `[]TypeOK`, `[]JourneyComplete`, `[]FailsOnce` |
| `SavedTypes`, `SavedStartsFresh` | no condition (`SavedTypes`: one month at least) | `[]TypeOK`, `[]StartsFresh` |
| `PageTypes`, `StalenessIsBounded`, `EditorsSeeTheirEdits`, `SectionsAreFull`, `ListsShowAll` | venues have distinct ids and natural numbers | `[]TypeOK`, `[]StaleBounded`, `[]EditorSeesEdit`, `[]SectionFull`, `[]PagesShowAll` |
| `ListsAreComplete`, `HiddenIsNotShown`, `RowsAreOneSearch`, `SearchTypes` | the list of venues names each once | `[]ListComplete`, `[]HiddenNotShown`, `[]RowIsOneSearch`, `[]TypeOK` |

The conditions are needed: the table above has the counterexamples without them. The
ASSUMEs of the modules type the constants and the first rows; TLC evaluates them on every
run. Each proof has the same outline: the invariant `IInv`, one lemma per action (or per
kind of action) that the action keeps it, and a temporal theorem that joins them. What
the strengthening adds, and why:

*Engagement.* A commit moves `upvotes` by what its session decided statements earlier.
`IInv` adds what a session may still rely on at each statement (`CastOK`, `CreateOK`,
`RemoveOK`, `MemoryOK`): the vote it read is still in the table as it read it, or there is
still none. That holds because `Discipline` leaves no second cast, removal or deletion of
the account that could change it, because two removals exclude one another by the user's row (`LocksExclusive`;
a removal past `decrement` holds it), and because ids are fresh. `CountInv`: what a
removal will take off is a check-in that is live still (`HoldsLive`), and the last one it
reads stays the last. `DayInv`: no check-in has a day to come, and a create found none of
today. In the refinement a statement is a stutter and each commit one step of the ledger,
of the kind its session has.

*Follow graph.* For each counter: it is the committed edges and those that a deletion has
taken, and what a transaction will add is the edge it has locked. Locks held together are compatible, an edge a session has inserted or
deleted is locked and committed as it was, a deletion has locked every edge it cascades
to, and a save still has the counters it loaded. Only a commit changes what the ledger
sees, and each commit is a `Follow`, an `Unfollow` or an `Erase`.

*Reviews.* For each request, `Undisturbed`: one that has been alone on its venue since it
began is alone still and will write the aggregate of what it commits; otherwise the venue
is in `raced`. A request whose account was deleted under it marks its venues, too. For the bounds the fold that sums the stars is taken apart: the least set
for which it went wrong has an element, without which it was right. So the average, and
the blend with its rounding, are between the extremes, and every aggregate that a request
holds or an editor has loaded is, too (`Within`).

*Rehost queue.* A venue waits once, or one worker has it (`Once`): `Pump` starts the first
of those that wait, each in a slot of its own, which needs their ranks counted. Every row,
in the database, in a worker or in a request, is consistent by itself (`RowsGood`), so it
does not matter which save comes last. For `EditsKept` one at a time has the row of a
venue, and it is the last one (`OneHas`).

*Trips.* `Disjoint`: requests in flight are on different rows. So each row a request has
loaded is the row as it is (`TripKept`, `RowsKept`), and a save loses nothing
(`NothingBefore`: before its creation the trip has no members).

*Tour catalog.* The id of a promotion is its request's: it is in no list, and in no list
that another request has loaded, before that request has loaded one. Since a save
writes the whole list it has counted, the limit and the distinct ids come from the
request alone, whatever it overwrites. For the other three the list of statements is
read as a place (`Pc`) and what follows it (`After`), and each statement by its effect
(`TourEffect`, `BrandEffect`). A tour without stops is being saved by a request that has
the new ones, or is torn (`BeingSaved`). On a tour that is not raced at most one request
is under way, and what it has loaded is the row as it is (`KeptDerived`); likewise for
brands (`KeptBrand`), and where neither the tour nor its brand is raced the provider is
the brand's row, or the one a brand edit is about to stamp (`KeptProvider`). For the
gallery every image a row or a request names is one of the tour's own (`Pictured`), so
what other requests unlink is none of them; an edit of the tour itself unlinks after its
save, and only what the row it has saved no longer names; and until then the images it is
about to save are on disk (`KeptGallery`). TLC evaluates `OwnImages` on the requests of
the run. `NamesUploaded` is what an editor does who has uploaded an image or sees it in
the form: no statement of the server checks it.

*Accounts.* For rows whose saves did not overlap, what a request is about to save is the
edit of the row as it is now (`Current`); a token is in no such row before it is saved,
and from then on beside the address it goes to (`Sends`, `Tokens`); a login that has met
nobody still has what it looked up (`LookedUp`). The unique indexes of `users` hold after
every statement because each refuses a row that would break one, and a request that is
about to save has the whole row of a user (`TypeOK`).

*Journey, saved venues.* What a list has found missing is what is missing, but for visits
that joined meanwhile (`MissingKnown`); a worker's mark lets one list per user into the
backfill (`OneListEach`). A row of a month is never older than the reset. No venue has
more visits than the bound lets begin (`VisitsBounded`).

*Imports.* No upload is the photographs of two venues (`Photos`); what a script has
uploaded and not yet written is on the volume and nobody's (`Fresh`); the copies an audit
works on name photographs of their own venue, if of any (`Copies`); and what it has
queued to unlink is shown by no venue (`Queued`). Each action writes at most one row
(`Wrote`), and only the insertion of a row leads to its mark (`Marked`).

*Wards.* While a seed runs, each ward of the file is in the table as the file has it or
still to be saved, and what the file does not have is still to be deleted (`TableInv`).
While a backfill runs over rows no one edits, each row is decided as it was or as it is to
be, and the decisions are what the resolvers make of the rows as they are (`BackfillInv`):
the columns the resolvers read are not those a backfill writes. An editor's save that
changes a row ends what is claimed of the decisions, one that changes nothing keeps it
(`EditRenews`, `DisturbKeeps`). A ward a decision names
is in the table the decision was made from, so it is of one of the files (`WardTypes`).

*Public pages.* `PagesInv` says of each value that is cached, in the CDN or being loaded
that it is the page as the rows make it, or that the page has changed since the value was
read, and how long ago that can be by now. The age of a value counts from its storing and
the age of a change from the edit, so every step of the clock moves both, and a reader that
stores late carries the tick it took. The CDN may store an answer just before the cache it
comes from expires, which adds the bounds up; the sum is one tick less than we had first
checked. For `EditorSeesEdit` the pages in `clean[w]` have no reader under way that began
before the edit. `SectionFull` needs that `Top` lists the first of a set, each once: an
order by number, second number and id is total, so a venue's place is the number of those
that are not behind it, places are distinct and none is left out (`PlaceMoves`,
`PlaceOnto`). For `PagesShowAll` the order a list's ORDER BY leaves open is one only, for it
ends with the id (`OneSorting`), so each page that a client reads is cut from the same
list as the one before; what the client has been shown is that list up to the page it is
at (`ListsFit`, `PageFollows`), and the last page ends where the list does (`LastPage`).

*AI search.* The picks of the model, without repeats and inventions, are an injective
sequence of candidates, followed by the others in their order; what `Page` and `Pick`
keep of an injective sequence is injective, and a cut keeps the first (`ListComplete`).
`HiddenNotShown`: the last statement of a request reads what is published. For
`RowIsOneSearch` a search that is alone on its row has, from the reload to the save, found
exactly the columns in which the row differs from its own (`RowInv`); a row that another
search found or writes meanwhile is in `raced`.

Every invariant that a passing run checks has a theorem. Model-checked only are `RequestsEnd` and
`PendingEnds`, for liveness is beyond the prover; `TypeOK` of TourCatalog and of Imports
documents their states, and the proofs rest on the parts of it that they need
(`RowsAre`, `RequestsAre`; `ScriptTyped`). The library's induction theorems take a
predicate as a parameter, which the provers cannot instantiate: where a fold or a filter
matters, the proof argues by a least counterexample to the very statement. What `SortSeq` and `FoldLeft` make of picked reviews stays data.

## Not modelled

- Within the modules: texts, photos and the 30-minute lock of a memory (the lock only
  refuses); destinations, title, cover and visibility of a trip, and the trips of a
  deleted account; distances and free-text search; PISO's and the language model's
  answers beyond what the code tells apart; conversion of images; booking links;
  tokens and OAuth, which are libraries'.
- Between modules: a whole-row save of a venue by its editor over `upvotes`, `rating` or
  a ward written in between is one hazard on several columns. It is modelled where a
  property needs it (profile saves in FollowGraph, editors in Reviews, Wards and
  RehostQueue) and not once more for every pair.
- In RehostQueue, the files that an editor's save unlinks afterwards
  (`admin-venues.service.ts:290-292`): no property of it is about files. In Wards, a venue
  that moves to another city and one that is soft-deleted.
- `PROJECT.json` lists eight hazards with no property: two casts at once, a cast beside a
  removal, two removals of one check-in, a save of an old copy over a follow, two changes of an
  owner, an update beside the end of a trip, resume in a cluster, and an editor's save
  beside a finished download. The code does what they warn of; the properties hold under
  constants that keep the two apart, and the table above has the counterexamples.
- Whole components: mail, partners and Open Graph pages (input and output without state),
  guards, filters, interceptors and configuration (stateless glue; `BlockedReadOnlyGuard`
  and `RolesGuard` are in Accounts, the cache headers in VenuePages), schema migrations,
  dumps and demonstration seeds (data, run once before there are users).

## What is left

1. Destinations of a trip, with `replaceDestinations` as a transaction of its own.
2. One module for the row of a venue, in which the editor, votes, reviews and the queue
   save at once.
