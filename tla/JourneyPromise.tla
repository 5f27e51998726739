---------------------------- MODULE JourneyPromise ----------------------------
(***************************************************************************)
(* What a user sees of JourneyService, and what is promised of it: the     *)
(* state that Journey shares with whoever looks at it from outside.        *)
(***************************************************************************)
EXTENDS Integers

VARIABLES visits,   \* the user's check-ins at each venue
          entries,  \* the venues of the journey
          good,     \* history: a backfill has succeeded
          dropped,  \* history: the venues the user took out last
          fails     \* history: the lists of each worker that failed since it started

Visited == {v \in DOMAIN visits : visits[v] > 0}

\* Once a backfill has succeeded, in any worker, the journey has every venue
\* with a check-in that the user has not taken out, whatever else goes on.
JourneyComplete == good => Visited \ dropped \subseteq entries

\* A backfill that fails costs the user one list of a worker, not every one.
FailsOnce == \A w \in DOMAIN fails : fails[w] <= 1
=============================================================================
