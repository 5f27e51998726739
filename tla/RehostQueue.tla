----------------------------- MODULE RehostQueue -----------------------------
(***************************************************************************)
(* VenueImageRehostQueue, which swaps the external images of a venue for   *)
(* copies of our own, and the requests of AdminCitiesVenuesService that    *)
(* write the same rows and feed the queue.                                 *)
(*                                                                         *)
(* The queue is memory of one process; only image_ingestion_status is      *)
(* kept.  A worker and a request each load a row and save it whole some    *)
(* steps later.  Unless Races, they do so one at a time on a venue, and a  *)
(* worker does not end while a request on its venue is on the way.         *)
(***************************************************************************)
EXTENDS Selection, SequencesExt

CONSTANTS
    Venues, Urls,
    Edits,        \* the lists of images an editor sends (a bound)
    Procs,        \* the processes that serve requests
    Requests,     \* concurrent requests of editors
    None,
    Concurrency,  \* CONCURRENCY: the workers of one process
    Clustered,    \* whether the processes are workers of a cluster
    Races,        \* whether a venue is saved while another has it loaded
    MaxEdits,     \* requests, and
    MaxFaults     \* crashes, restarts and errors of the database (bounds)

ASSUME RehostAssumption ==
    /\ Edits \subseteq Seq(Urls)
    /\ None \notin Venues /\ IsFiniteSet(Venues)
    /\ Concurrency \in Nat \ {0}
    /\ {Clustered, Races} \subseteq BOOLEAN
    /\ {MaxEdits, MaxFaults} \subseteq Nat

VARIABLES
    rows,     \* [Venues -> the row of venues, None before it is created]
    queue,    \* [Procs -> Seq(Venues)]: queue, and inQueue
    worker,   \* [Procs -> [1..Concurrency -> the worker]]: activeVenues
    up,       \* [Procs -> "resuming", "up", "stopping" (shuttingDown) or "down"]
    dropped,  \* history: the venues whose worker the database failed
    request,  \* [Requests -> the editor's request]
    wanted,   \* [Venues -> Seq(Urls)]: history, the list last saved by an editor
    edits, faults

process == <<queue, worker, up, dropped>>
bounds == <<edits, faults>>
vars == <<rows, process, request, wanted, bounds>>

Slots == 1..Concurrency

\* An image is the external one of a url, or our copy of it.
Image == [url : Urls, own : BOOLEAN]
External(u) == [url |-> u, own |-> FALSE]
Copy(u) == [url |-> u, own |-> TRUE]

\* pending and failed are both empty where image_ingestion_status is NULL.
Row == [images : Seq(Image), pending : Seq(Urls), failed : Seq(Urls), deleted : BOOLEAN]
NoRow == [images |-> <<>>, pending |-> <<>>, failed |-> <<>>, deleted |-> FALSE]

ASSUME RowAssumption == None \notin Row

Resting == [pc |-> "idle", venue |-> None, row |-> NoRow, url |-> None, copied |-> FALSE]
NoRequest == [pc |-> "idle", kind |-> None, venue |-> None, row |-> NoRow,
              proc |-> None, feeds |-> FALSE, list |-> <<>>]

Listed(seq, u) == \E i \in DOMAIN seq : seq[i] = u

Kept(seq, other) == Select(seq, ToSet(other))
Fresh(seq, other) == Select(seq, Urls \ ToSet(other))

Live(v) == rows[v] # None /\ ~rows[v].deleted

-----------------------------------------------------------------------------
(* enqueue, pump and resume                                                *)

Working(p, v) == \E k \in Slots : worker[p][k].venue = v

Start(v) == [Resting EXCEPT !.pc = "read", !.venue = v]

\* The workers that rest take the venues that wait, first come first served.
Pump(p, waiting, workers) ==
    LET free == {k \in Slots : workers[k] = Resting /\ up[p] # "stopping"}
    IN /\ queue' = [queue EXCEPT ![p] = SubSeq(waiting, Cardinality(free) + 1, Len(waiting))]
       /\ worker' = [worker EXCEPT ![p] = [k \in Slots |->
            IF k \in free /\ Rank(k, free) <= Len(waiting)
            THEN Start(waiting[Rank(k, free)])
            ELSE workers[k]]]

\* Mutant of Enqueue: a venue that a worker has may be queued again.
EnqueueTwice(p, arrivals) ==
    LET new == Select(arrivals, {v \in Venues : ~Listed(queue[p], v)}) IN
    /\ Pump(p, queue[p] \o new, worker[p])
    /\ dropped' = dropped \ ToSet(new)

\* A venue that is queued, or that a worker has, is not queued again.
Enqueue(p, arrivals) ==
    LET new == Select(arrivals, {v \in Venues : ~Listed(queue[p], v) /\ ~Working(p, v)}) IN
    /\ Pump(p, queue[p] \o new, worker[p])
    /\ dropped' = dropped \ ToSet(new)

\* A process that starts has an empty memory and serves requests at once.
Boot(p) ==
    /\ up[p] = "down"
    \* a worker that is forked in the place of another is not worker 1
    /\ up' = [up EXCEPT ![p] = IF Clustered THEN "up" ELSE "resuming"]
    /\ UNCHANGED <<rows, queue, worker, dropped, request, wanted, bounds>>

\* Mutant of Resume: the venues found are not queued.
ResumeWithoutQueue(p) ==
    /\ up[p] = "resuming"
    /\ up' = [up EXCEPT ![p] = "up"]
    /\ UNCHANGED <<rows, queue, worker, dropped, request, wanted, bounds>>

\* The venues that have pending urls are queued, in the order of the database.
Resume(p) ==
    /\ up[p] = "resuming"
    /\ up' = [up EXCEPT ![p] = "up"]
    /\ \E found \in SetToSeqs({v \in Venues : Live(v) /\ rows[v].pending # <<>>}) :
         Enqueue(p, found)
    /\ UNCHANGED <<rows, request, wanted, bounds>>

\* onModuleDestroy.
Stop(p) ==
    /\ up[p] \in {"resuming", "up"} /\ faults < MaxFaults
    /\ faults' = faults + 1
    /\ up' = [up EXCEPT ![p] = "stopping"]
    /\ UNCHANGED <<rows, queue, worker, dropped, request, wanted, edits>>

\* The process is gone, with its queue, its workers and its requests.
Gone(p) ==
    /\ up' = [up EXCEPT ![p] = "down"]
    /\ queue' = [queue EXCEPT ![p] = <<>>]
    /\ worker' = [worker EXCEPT ![p] = [k \in Slots |-> Resting]]
    /\ request' = [r \in Requests |->
         IF request[r].proc = p THEN NoRequest ELSE request[r]]
    /\ UNCHANGED <<rows, dropped, wanted, edits>>

Crash(p) ==
    /\ up[p] \in {"resuming", "up"} /\ faults < MaxFaults
    /\ faults' = faults + 1
    /\ Gone(p)

Exit(p) ==
    /\ up[p] = "stopping"
    /\ Gone(p)
    /\ UNCHANGED faults

-----------------------------------------------------------------------------
(* processVenue and advance                                                *)

\* Whether a request on the venue has loaded its row and not saved it.
EditorHas(v) == \E r \in Requests : request[r].venue = v /\ request[r].pc = "loaded"
\* Whether a worker has, or is about to leave the venue.
WorkerHas(v) ==
    \E p \in Procs, k \in Slots :
        worker[p][k].venue = v /\ worker[p][k].pc \in {"save", "done"}

Work(p, k, next) ==
    /\ worker' = [worker EXCEPT ![p][k] = next]
    /\ UNCHANGED <<rows, queue, up, dropped, request, wanted, bounds>>

WorkerRead(p, k) ==
    LET w == worker[p][k]
        ends == up[p] = "stopping" \/ ~Live(w.venue) \/ rows[w.venue].pending = <<>>
    IN
    /\ w.pc = "read"
    /\ Races \/ ~EditorHas(w.venue)
    /\ Work(p, k, IF ends THEN [w EXCEPT !.pc = "done"]
                  ELSE [w EXCEPT !.pc = "ingest", !.url = Head(rows[w.venue].pending)])

\* ingestFromUrl: the download, the conversion and the write of the file.
WorkerIngest(p, k) ==
    LET w == worker[p][k] IN
    /\ w.pc = "ingest"
    /\ \E copied \in BOOLEAN :
         Work(p, k, [w EXCEPT !.pc = "reload", !.copied = copied])

WorkerReload(p, k) ==
    LET w == worker[p][k] IN
    /\ w.pc = "reload"
    /\ Races \/ ~EditorHas(w.venue)
    /\ Work(p, k, IF Live(w.venue) THEN [w EXCEPT !.pc = "save", !.row = rows[w.venue]]
                  ELSE [w EXCEPT !.pc = "read"])

\* Mutant of Swapped: the copy comes last.
SwappedLast(images, u) ==
    IF Listed(images, External(u))
    THEN Append(Select(images, Image \ {External(u)}), Copy(u))
    ELSE images

\* The first image with the url gives way to our copy; a url that could not be
\* copied is a failed one.
Swapped(images, u) ==
    IF Listed(images, External(u))
    THEN [images EXCEPT ![SelectInSeq(images, LAMBDA i : i = External(u))] = Copy(u)]
    ELSE images

\* Mutant of Advanced: a url that fails is only taken off pending.
AdvancedForgetting(row, u, copied) ==
    LET pending == Select(row.pending, Urls \ {u}) IN
    IF copied THEN [row EXCEPT !.pending = pending, !.images = Swapped(@, u)]
    ELSE [row EXCEPT !.pending = pending]

Advanced(row, u, copied) ==
    LET pending == Select(row.pending, Urls \ {u}) IN
    IF copied THEN [row EXCEPT !.pending = pending, !.images = Swapped(@, u)]
    ELSE [row EXCEPT !.pending = pending,
                     !.failed = IF Listed(@, u) THEN @ ELSE Append(@, u)]

WorkerSave(p, k) ==
    LET w == worker[p][k] IN
    /\ w.pc = "save"
    /\ rows' = [rows EXCEPT ![w.venue] = Advanced(w.row, w.url, w.copied)]
    /\ worker' = [worker EXCEPT ![p][k] = Start(w.venue)]
    /\ UNCHANGED <<queue, up, dropped, request, wanted, bounds>>

\* The database refuses a statement: processVenue rejects, and its venue is dropped.
WorkerFail(p, k) ==
    LET w == worker[p][k] IN
    /\ w.pc \in {"read", "reload", "save"} /\ faults < MaxFaults
    /\ faults' = faults + 1
    /\ worker' = [worker EXCEPT ![p][k] = [w EXCEPT !.pc = "done"]]
    /\ dropped' = dropped \cup {w.venue}
    /\ UNCHANGED <<rows, queue, up, request, wanted, edits>>

\* finally: the venue is no longer active, and pump starts the next one.
WorkerDone(p, k) ==
    /\ worker[p][k].pc = "done"
    /\ Pump(p, queue[p], [worker[p] EXCEPT ![k] = Resting])
    /\ UNCHANGED <<rows, up, dropped, request, wanted, bounds>>

-----------------------------------------------------------------------------
(* createVenue, updateVenue, setPublished, retryFailedImages, deleteVenue  *)

Begin(r, p, v, kind, row, feeds, list) ==
    /\ request[r] = NoRequest
    /\ up[p] # "down" /\ edits < MaxEdits
    /\ Races \/ ~(EditorHas(v) \/ WorkerHas(v))
    /\ edits' = edits + 1
    /\ request' = [request EXCEPT ![r] =
         [pc |-> "loaded", kind |-> kind, venue |-> v, row |-> row,
          proc |-> p, feeds |-> feeds, list |-> list]]
    /\ UNCHANGED <<rows, process, wanted, faults>>

Create(r, p, v, list) ==
    /\ rows[v] = None /\ \A q \in Requests : request[q].venue # v
    /\ Begin(r, p, v, "create",
             [NoRow EXCEPT !.images = [i \in DOMAIN list |-> External(list[i])],
                           !.pending = list],
             list # <<>>, list)

\* Of the external images those already known stay as they are, the others are new.
EditedStatus(row, external) ==
    LET stillPending == Kept(row.pending, external)
        stillFailed == Kept(row.failed, external)
    IN [row EXCEPT !.pending = stillPending \o
                        Fresh(Fresh(external, stillPending), stillFailed),
                   !.failed = stillFailed]

\* The editor sends our copy of an image or the external one again.
UpdateImages(r, p, v, list) ==
    /\ Live(v)
    /\ \E kept \in SUBSET {u \in Urls : Listed(rows[v].images, Copy(u))} :
         LET images == [i \in DOMAIN list |-> [url |-> list[i], own |-> list[i] \in kept]]
             external == Select(list, Urls \ kept)
         IN Begin(r, p, v, "update",
                  EditedStatus([rows[v] EXCEPT !.images = images], external),
                  external # <<>>, list)

\* setPublished, and updateVenue without images: the other columns are data.
UpdateOther(r, p, v) ==
    /\ Live(v)
    /\ Begin(r, p, v, "other", rows[v], FALSE, <<>>)

RetryFailed(r, p, v) ==
    /\ Live(v) /\ rows[v].failed # <<>>
    /\ Begin(r, p, v, "retry",
             [rows[v] EXCEPT !.pending = @ \o Fresh(rows[v].failed, @), !.failed = <<>>],
             TRUE, <<>>)

Delete(r, p, v) ==
    /\ Live(v)
    /\ Begin(r, p, v, "delete", rows[v], FALSE, <<>>)

\* softDelete is a statement of its own; everything else saves the entity.
RequestSave(r) ==
    LET q == request[r] IN
    /\ q.pc = "loaded"
    /\ rows' = [rows EXCEPT ![q.venue] =
         IF q.kind = "delete" THEN [@ EXCEPT !.deleted = TRUE] ELSE q.row]
    /\ wanted' = [wanted EXCEPT ![q.venue] =
         IF q.kind \in {"create", "update"} THEN q.list ELSE @]
    /\ request' = [request EXCEPT ![r] =
         IF q.feeds THEN [q EXCEPT !.pc = "saved"] ELSE NoRequest]
    /\ UNCHANGED <<process, bounds>>

RequestEnqueue(r) ==
    LET q == request[r] IN
    /\ q.pc = "saved"
    /\ Enqueue(q.proc, <<q.venue>>)
    /\ request' = [request EXCEPT ![r] = NoRequest]
    /\ UNCHANGED <<rows, up, wanted, bounds>>

-----------------------------------------------------------------------------

Init ==
    /\ rows = [v \in Venues |-> None]
    /\ queue = [p \in Procs |-> <<>>]
    /\ worker = [p \in Procs |-> [k \in Slots |-> Resting]]
    /\ up = [p \in Procs |-> "up"]
    /\ dropped = {}
    /\ request = [r \in Requests |-> NoRequest]
    /\ wanted = [v \in Venues |-> <<>>]
    /\ edits = 0 /\ faults = 0

WorkerStep(p, k) ==
    \/ WorkerRead(p, k) \/ WorkerIngest(p, k) \/ WorkerReload(p, k)
    \/ WorkerSave(p, k) \/ WorkerDone(p, k)

RequestBegin(r) ==
    \E p \in Procs, v \in Venues :
        \/ \E list \in Edits : Create(r, p, v, list) \/ UpdateImages(r, p, v, list)
        \/ UpdateOther(r, p, v) \/ RetryFailed(r, p, v) \/ Delete(r, p, v)

RequestStep(r) == RequestSave(r) \/ RequestEnqueue(r)

Restart(p) == Exit(p) \/ Boot(p) \/ Resume(p)

Next ==
    \/ \E r \in Requests : RequestBegin(r) \/ RequestStep(r)
    \/ \E p \in Procs, k \in Slots : WorkerStep(p, k) \/ WorkerFail(p, k)
    \/ \E p \in Procs : Restart(p) \/ Stop(p) \/ Crash(p)

Spec == Init /\ [][Next]_vars

\* A worker and a request go on, a process that is told to stop does, and one that is
\* down is started again.  Nothing makes an editor send a request.
Fairness ==
    /\ \A p \in Procs, k \in Slots : WF_vars(WorkerStep(p, k))
    /\ \A r \in Requests : WF_vars(RequestStep(r))
    /\ \A p \in Procs : WF_vars(Restart(p))

FairSpec == Spec /\ Fairness

-----------------------------------------------------------------------------
(* Properties                                                              *)

TypeOK ==
    /\ rows \in [Venues -> Row \cup {None}]
    /\ queue \in [Procs -> Seq(Venues)]
    /\ \A p \in Procs, k \in Slots :
         worker[p][k] \in [pc : {"idle", "read", "ingest", "reload", "save", "done"},
                           venue : Venues \cup {None}, row : Row,
                           url : Urls \cup {None}, copied : BOOLEAN]
    /\ \A p \in Procs, k \in Slots :
         worker[p][k].pc = "idle" <=> worker[p][k].venue = None
    /\ up \in [Procs -> {"resuming", "up", "stopping", "down"}]
    /\ dropped \subseteq Venues
    /\ \A r \in Requests :
         request[r] \in [pc : {"idle", "loaded", "saved"},
                         kind : {None, "create", "update", "other", "retry", "delete"},
                         venue : Venues \cup {None}, row : Row,
                         proc : Procs \cup {None}, feeds : BOOLEAN, list : Edits \cup {<<>>}]
    /\ wanted \in [Venues -> Edits \cup {<<>>}]
    /\ edits \in 0..MaxEdits /\ faults \in 0..MaxFaults

\* Every external image of a venue is waited for or given up on, never both: no url
\* is forgotten between editors, workers, failures, retries and crashes.
ImagesTracked ==
    \A v \in Venues : Live(v) => \A u \in Urls :
        /\ Listed(rows[v].images, External(u))
             => Listed(rows[v].pending, u) \/ Listed(rows[v].failed, u)
        /\ ~(Listed(rows[v].pending, u) /\ Listed(rows[v].failed, u))

\* One process never works twice on a venue, nor keeps it waiting twice.
WorkedOnce ==
    \A p \in Procs :
        /\ IsInjective(queue[p])
        /\ \A k \in Slots : worker[p][k] # Resting => ~Listed(queue[p], worker[p][k].venue)
        /\ \A j, k \in Slots :
             worker[p][j] # Resting /\ worker[p][j].venue = worker[p][k].venue => j = k

\* The images of a venue are those its editor saved last, in that order, whatever the
\* workers do to them: "admin may remove/replace images mid-flight and we don't want
\* to clobber edits" (venue-image-rehost.queue.ts:94).
EditsKept ==
    \A v \in Venues : rows[v] # None =>
        [i \in DOMAIN rows[v].images |-> rows[v].images[i].url] = wanted[v]

\* Every pending url of a live venue is copied or given up on in the end, crashes or
\* not, unless the database failed the venue's worker: "A process restart loses the
\* in-memory queue but a small resume() on boot picks up where it left off"
\* (venue-image-rehost.queue.ts:16).
PendingEnds ==
    \A v \in Venues, u \in Urls :
        LET waits == Live(v) /\ Listed(rows[v].pending, u)
        IN waits ~> (~waits \/ v \in dropped)

=============================================================================
