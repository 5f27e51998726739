---------------------------- MODULE SavedPromise ----------------------------
(***************************************************************************)
(* What a user sees of a saved venue, and what the monthly reset promises. *)
(***************************************************************************)
EXTENDS Integers

VARIABLES saved,   \* the month the row was added in, 0 without one
          month,   \* the month it is
          wiped    \* the workers that have run this month's reset

\* The list starts fresh: once a worker has run the month's reset nothing saved
\* before is left, also when a save was under way.
StartsFresh == wiped # {} => saved \in {0, month}
=============================================================================
