------------------------------- MODULE MCTrips -------------------------------
(* Trips for TLC: users and sessions are interchangeable.                  *)
EXTENDS Trips, TLC

Symmetry == Permutations(Users) \cup Permutations(Sessions)

=============================================================================
