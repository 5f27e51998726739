-------------------------------- MODULE Journey --------------------------------
(***************************************************************************)
(* JourneyService for one user: the timeline of the venues the user has    *)
(* been to.  A check-in adds its venue, the user adds and removes venues,  *)
(* and the first list a server worker is asked for adds those of older     *)
(* check-ins.  Every statement is a transaction of its own, save those of  *)
(* a check-in; an insert fails as a whole on the unique index.             *)
(***************************************************************************)
EXTENDS JourneyPromise, FiniteSets

CONSTANTS None, Venues, Workers, Sessions,
          MaxVisits    \* bound: the check-ins at one venue

VARIABLES healed,   \* the workers whose set healed has the user
          req       \* the requests under way

vars == <<visits, entries, healed, req, good, dropped, fails>>

Free == [step |-> "idle", w |-> None, vs |-> {}, twice |-> {}, found |-> FALSE]

Init ==
    /\ visits \in [Venues -> 0..MaxVisits] /\ entries = {}
    /\ healed = {} /\ req = [s \in Sessions |-> Free]
    /\ good = FALSE /\ dropped = {} /\ fails = [w \in Workers |-> 0]

At(s, step) == req[s].step = step
End(s) == req' = [req EXCEPT ![s] = Free]
Joins(vs) == entries' = entries \cup vs /\ dropped' = dropped \ vs
----------------------------------------------------------------------------
\* The first list of a worker: the user is marked before the backfill runs.
ListUnmarked(s, w) ==
    /\ At(s, "idle") /\ w \notin healed
    /\ req' = [req EXCEPT ![s].step = "visits", ![s].w = w]
    /\ UNCHANGED <<visits, entries, healed, good, dropped, fails>>
List(s, w) ==
    /\ At(s, "idle") /\ w \notin healed
    /\ healed' = healed \cup {w}
    /\ req' = [req EXCEPT ![s].step = "visits", ![s].w = w]
    /\ UNCHANGED <<visits, entries, good, dropped, fails>>

\* One id for each check-in, so some of them twice.
ReadVisits(s) ==
    /\ At(s, "visits")
    /\ IF Visited = {}
       THEN End(s) /\ good' = TRUE
       ELSE /\ req' = [req EXCEPT ![s].step = "entries", ![s].vs = Visited,
                                  ![s].twice = {v \in Venues : visits[v] > 1}]
            /\ UNCHANGED good
    /\ UNCHANGED <<visits, entries, healed, dropped, fails>>

ReadEntries(s) ==
    /\ At(s, "entries")
    /\ IF req[s].vs \subseteq entries
       THEN End(s) /\ good' = TRUE
       ELSE req' = [req EXCEPT ![s].step = "backfill", ![s].vs = @ \ entries] /\ UNCHANGED good
    /\ UNCHANGED <<visits, entries, healed, dropped, fails>>

\* A venue twice in the insert, or one that has joined meanwhile, fails the list.
BackfillOnce(s) ==
    /\ At(s, "backfill")
    /\ LET fresh == {v \in req[s].vs \ entries : v \notin req[s].twice}
       IN  Joins(fresh)
    /\ good' = TRUE
    /\ End(s)
    /\ UNCHANGED <<visits, healed, fails>>
Backfill(s) ==
    /\ At(s, "backfill")
    /\ IF req[s].vs \cap (entries \cup req[s].twice) # {}
       THEN /\ fails' = [fails EXCEPT ![req[s].w] = @ + 1]
            /\ UNCHANGED <<entries, dropped, good>>
       ELSE Joins(req[s].vs) /\ good' = TRUE /\ UNCHANGED fails
    /\ End(s)
    /\ UNCHANGED <<visits, healed>>
----------------------------------------------------------------------------
\* add and seed: what is there is left out, the rest is inserted.
Add(s, vs) ==
    /\ At(s, "idle") /\ ~(vs \subseteq entries)
    /\ req' = [req EXCEPT ![s].step = "add", ![s].vs = vs \ entries]
    /\ UNCHANGED <<visits, entries, healed, good, dropped, fails>>

Insert(s) ==
    /\ At(s, "add")
    /\ IF req[s].vs \cap entries = {} THEN Joins(req[s].vs) ELSE UNCHANGED <<entries, dropped>>
    /\ End(s)
    /\ UNCHANGED <<visits, healed, good, fails>>

Remove(v) ==
    /\ v \in entries
    /\ entries' = entries \ {v} /\ dropped' = dropped \cup {v}
    /\ UNCHANGED <<visits, healed, req, good, fails>>
----------------------------------------------------------------------------
\* CheckInsService.create: the transaction looks for the entry and adds it; it
\* is rolled back when the entry has appeared meanwhile.
CheckIn(s, v) ==
    /\ At(s, "idle") /\ visits[v] < MaxVisits
    /\ req' = [req EXCEPT ![s].step = "check in", ![s].vs = {v}, ![s].found = v \in entries]
    /\ UNCHANGED <<visits, entries, healed, good, dropped, fails>>

Commit(s, v) ==
    /\ At(s, "check in") /\ req[s].vs = {v} /\ visits[v] < MaxVisits
    /\ IF ~req[s].found /\ v \in entries
       THEN UNCHANGED <<visits, entries, dropped>>
       ELSE /\ visits' = [visits EXCEPT ![v] = @ + 1]
            /\ IF req[s].found THEN UNCHANGED <<entries, dropped>> ELSE Joins({v})
    /\ End(s)
    /\ UNCHANGED <<healed, good, fails>>

RemoveCheckIn(v) ==
    /\ visits[v] > 0
    /\ visits' = [visits EXCEPT ![v] = @ - 1]
    /\ UNCHANGED <<entries, healed, req, good, dropped, fails>>

\* A worker dies with the lists it was serving, and another is forked.
Restart(w) ==
    /\ w \in healed
    /\ healed' = healed \ {w}
    /\ req' = [s \in Sessions |-> IF req[s].w = w THEN Free ELSE req[s]]
    /\ fails' = [fails EXCEPT ![w] = 0]
    /\ UNCHANGED <<visits, entries, good, dropped>>

Next ==
    \/ \E s \in Sessions, w \in Workers : List(s, w)
    \/ \E s \in Sessions : ReadVisits(s) \/ ReadEntries(s) \/ Backfill(s) \/ Insert(s)
    \/ \E s \in Sessions, vs \in SUBSET Venues : Add(s, vs)
    \/ \E s \in Sessions, v \in Venues : CheckIn(s, v) \/ Commit(s, v)
    \/ \E v \in Venues : Remove(v) \/ RemoveCheckIn(v)
    \/ \E w \in Workers : Restart(w)

Spec == Init /\ [][Next]_vars
----------------------------------------------------------------------------
\* The journey and the requests are of their types.
TypeOK ==
    /\ visits \in [Venues -> 0..MaxVisits] /\ entries \subseteq Venues
    /\ \A s \in Sessions : /\ req[s].step \in {"visits", "entries", "backfill"} => req[s].w \in healed
                           /\ req[s].vs \cup req[s].twice \subseteq Venues
=============================================================================
