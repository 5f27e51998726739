-------------------------------- MODULE Wards --------------------------------
(***************************************************************************)
(* The script that brings the table of wards up to the seed file, the      *)
(* backfill that resolves every published venue, and the editors of venues,*)
(* who resolve through the index a server worker loaded when it started.   *)
(***************************************************************************)
EXTENDS WardsPromise

CONSTANTS Workers,
          Editors, Seeds  \* bounds: an editor saves once; the versions of the file

VARIABLES index,     \* what each worker has loaded
          script,    \* the memory of the script that runs
          edits,     \* the requests of editors
          versions   \* how many versions of the file are left

vars == <<file, wards, located, index, script, edits, versions, tidy>>

NoEdit == [step |-> "idle", v |-> None, entity |-> None]
Idle == [step |-> "idle", seen |-> {}, todo |-> {}, chosen |-> <<>>, clean |-> TRUE]

\* The decisions a backfill may come to: texts first, then anchors for the rest.
Choices(options) == {f \in [DOMAIN options -> UNION {options[v] : v \in DOMAIN options}] :
                        \A v \in DOMAIN options : f[v] \in options[v]}
ByText == [v \in Published |-> Or(ResolveVenue(located[v].district, located[v].address, wards))]
ThenByAnchor(texts) ==
    [v \in Published |-> IF texts[v] # Unresolved THEN {texts[v]}
                         ELSE Or(ByAnchor(located[v].at, Coordinates, texts))]
Decisions == UNION {Choices(ThenByAnchor(texts)) : texts \in Choices(ByText)}

Init ==
    /\ file \in SeedFiles
    /\ wards = <<>> /\ located = Venue0 /\ script = Idle
    /\ index = [w \in Workers |-> <<>>]
    /\ edits = [e \in Editors |-> NoEdit]
    /\ versions = Seeds
    /\ tidy = [table |-> FALSE, venues |-> FALSE]
----------------------------------------------------------------------------
\* The seed file is edited and seed-wards is run: it reads the table, saves the
\* wards of the file one by one and deletes the rest.
EditFile(f) ==
    /\ script = Idle /\ versions > 0 /\ f # file
    /\ file' = f /\ versions' = versions - 1
    /\ tidy' = [tidy EXCEPT !.table = FALSE]
    /\ UNCHANGED <<wards, located, index, script, edits>>

SeedStart ==
    /\ script = Idle /\ ~tidy.table
    /\ script' = [Idle EXCEPT !.step = "seed", !.seen = DOMAIN wards,
                              !.todo = DOMAIN wards \cup DOMAIN file]
    /\ tidy' = [tidy EXCEPT !.venues = FALSE]
    /\ UNCHANGED <<file, wards, located, index, edits, versions>>

SaveWard(n) ==
    /\ script.step = "seed" /\ n \in script.todo \cap DOMAIN file
    /\ wards' = [m \in DOMAIN wards \cup {n} |-> IF m = n THEN file[n] ELSE wards[m]]
    /\ script' = [script EXCEPT !.todo = @ \ {n}]
    /\ UNCHANGED <<file, located, index, edits, versions, tidy>>

DeleteWard(n) ==
    /\ script.step = "seed" /\ n \in script.todo /\ n \in script.seen \ DOMAIN file
    /\ script.todo \cap DOMAIN file = {}
    /\ wards' = [m \in DOMAIN wards \ {n} |-> wards[m]]
    /\ script' = [script EXCEPT !.todo = @ \ {n}]
    /\ UNCHANGED <<file, located, index, edits, versions, tidy>>

SeedEnd ==
    /\ script.step = "seed" /\ script.todo = {}
    /\ script' = Idle
    /\ tidy' = [tidy EXCEPT !.table = TRUE]
    /\ UNCHANGED <<file, wards, located, index, edits, versions>>
----------------------------------------------------------------------------
\* backfill-venue-wards: two reads, the decisions in memory, then one update for
\* each row whose ward differs from the one that was read.
BackfillStart ==
    /\ script = Idle /\ wards # <<>> /\ Published # {}
    /\ \E chosen \in Decisions :
          script' = [Idle EXCEPT !.step = "write", !.chosen = chosen,
                        !.todo = {v \in Published : chosen[v] # Ward(located[v])}]
    /\ tidy' = [tidy EXCEPT !.venues = FALSE]
    /\ UNCHANGED <<file, wards, located, index, edits, versions>>

BackfillWriteFound(v) ==
    /\ script.step = "write" /\ v \in script.todo
    /\ located' = [located EXCEPT ![v].ward = IF script.chosen[v] = Unresolved THEN @ ELSE script.chosen[v].ward,
                                  ![v].method = IF script.chosen[v] = Unresolved THEN @ ELSE script.chosen[v].method]
    /\ script' = [script EXCEPT !.todo = @ \ {v}]
    /\ UNCHANGED <<file, wards, index, edits, versions, tidy>>
BackfillWrite(v) ==
    /\ script.step = "write" /\ v \in script.todo
    /\ located' = [located EXCEPT ![v].ward = script.chosen[v].ward,
                                  ![v].method = script.chosen[v].method]
    /\ script' = [script EXCEPT !.todo = @ \ {v}]
    /\ UNCHANGED <<file, wards, index, edits, versions, tidy>>

BackfillEnd ==
    /\ script.step = "write" /\ script.todo = {}
    /\ script' = Idle
    /\ tidy' = [tidy EXCEPT !.venues = script.clean]
    /\ UNCHANGED <<file, wards, located, index, edits, versions>>

Crash ==
    /\ script # Idle /\ script' = Idle
    /\ UNCHANGED <<file, wards, located, index, edits, versions, tidy>>
----------------------------------------------------------------------------
\* A worker loads its index when it starts, and never again.
Boot(w) ==
    /\ index[w] # wards
    /\ index' = [index EXCEPT ![w] = wards]
    /\ UNCHANGED <<file, wards, located, script, edits, versions, tidy>>

\* The decisions of a backfill under way, or done, do not know the edit.
Disturbs == /\ tidy' = [tidy EXCEPT !.venues = FALSE]
            /\ script' = IF script = Idle THEN Idle ELSE [script EXCEPT !.clean = FALSE]

\* What a save makes of the row it has loaded: one that carries the district
\* resolves it, by its text alone.
Resolved(w, v, change) ==
    IF "district" \in DOMAIN change THEN Or(ResolveText(change.district, index[w])) ELSE {Ward(located[v])}
Entity(v, change, r) ==
    [f \in VenueFields |-> IF f \in DOMAIN change THEN change[f]
                           ELSE IF f \in {"ward", "method"} THEN r[f] ELSE located[v][f]]

\* updateVenue and setPublished: the row is loaded and changed in memory, ...
EditLoad(e, w, v, change) ==
    /\ edits[e].step = "idle"
    /\ \E r \in Resolved(w, v, change) :
          edits' = [edits EXCEPT ![e] = [step |-> "loaded", v |-> v, entity |-> Entity(v, change, r)]]
    /\ UNCHANGED <<file, wards, located, index, script, versions, tidy>>

\* ... read again by save(), which keeps the columns in which it differs, ...
EditReload(e) ==
    /\ edits[e].step = "loaded"
    /\ LET entity == edits[e].entity
           differs == {f \in VenueFields : entity[f] # located[edits[e].v][f]}
       IN  edits' = [edits EXCEPT ![e].step = "reloaded",
                                  ![e].entity = [f \in differs |-> entity[f]]]
    /\ UNCHANGED <<file, wards, located, index, script, versions, tidy>>

\* ... and these are written.
EditWrite(e) ==
    /\ edits[e].step = "reloaded"
    /\ LET written == edits[e].entity
       IN  located' = [located EXCEPT ![edits[e].v] =
              [f \in VenueFields |-> IF f \in DOMAIN written THEN written[f] ELSE @[f]]]
    /\ edits' = [edits EXCEPT ![e] = [NoEdit EXCEPT !.step = "done"]]
    /\ IF located' = located THEN UNCHANGED <<script, tidy>> ELSE Disturbs
    /\ UNCHANGED <<file, wards, index, versions>>

\* createVenue resolves the district in the same way.
Create(w, v) ==
    /\ v \in DOMAIN NewVenues \ DOMAIN located
    /\ \E r \in Or(ResolveText(NewVenues[v].district, index[w])) :
          located' = [u \in DOMAIN located \cup {v} |->
             IF u = v THEN [NewVenues[v] EXCEPT !.ward = r.ward, !.method = r.method] ELSE located[u]]
    /\ Disturbs
    /\ UNCHANGED <<file, wards, index, edits, versions>>

Next ==
    \/ \E f \in SeedFiles : EditFile(f)
    \/ SeedStart \/ SeedEnd \/ BackfillStart \/ BackfillEnd \/ Crash
    \/ \E n \in script.todo \cap WardNames : SaveWard(n) \/ DeleteWard(n)
    \/ \E v \in script.todo \cap DOMAIN located : BackfillWrite(v)
    \/ \E w \in Workers : Boot(w) \/ \E v \in DOMAIN NewVenues : Create(w, v)
    \/ \E e \in Editors, w \in Workers, v \in DOMAIN located, change \in Changes : EditLoad(e, w, v, change)
    \/ \E e \in Editors : EditReload(e) \/ EditWrite(e)

Spec == Init /\ [][Next]_vars
----------------------------------------------------------------------------
\* Rows are of their types: a venue's ward is, or was, in the seed file.  So are
\* the tables of the workers, and what a backfill and an editor are about to write.
TypeOK ==
    /\ \A v \in DOMAIN located : IsDecision(located[v])
    /\ DOMAIN wards \subseteq WardNames /\ \A w \in Workers : DOMAIN index[w] \subseteq WardNames
    /\ script.step \in {"idle", "seed", "write"}
    /\ script.step = "write" => \A v \in script.todo : IsDecision(script.chosen[v])
    /\ \A e \in Editors : edits[e].step = "loaded" => IsDecision(edits[e].entity)

\* The comment on resolveWardFor: the ward is resolved from district and address.
EditsUseAddress ==
    [][\A e \in Editors, w \in Workers, v \in DOMAIN located, change \in Changes :
          EditLoad(e, w, v, change) /\ index[w] = wards =>
             LET entity == edits'[e].entity
             IN  "district" \in DOMAIN change =>
                    Ward(entity) \in Or(ResolveVenue(entity.district, entity.address, wards))]_vars
=============================================================================
