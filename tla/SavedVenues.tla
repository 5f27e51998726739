------------------------------ MODULE SavedVenues ------------------------------
(***************************************************************************)
(* SavedVenuesService for one user and one venue.  The monthly reset is a  *)
(* cron job of every server worker: each wipes the table, some time after  *)
(* the month began.                                                        *)
(***************************************************************************)
EXTENDS SavedPromise

CONSTANTS Workers, Sessions,
          Months    \* bound: the months that begin

VARIABLE finding    \* the requests that found no row

vars == <<saved, month, wiped, finding>>

Init ==
    /\ saved = 0 /\ month = 1 /\ wiped = {}
    /\ finding = {}

Find(s) ==
    /\ s \notin finding /\ saved = 0
    /\ finding' = finding \cup {s}
    /\ UNCHANGED <<saved, month, wiped>>

\* The insert fails on the unique index when another was faster.
Save(s) ==
    /\ s \in finding
    /\ saved' = IF saved = 0 THEN month ELSE saved
    /\ finding' = finding \ {s}
    /\ UNCHANGED <<month, wiped>>

RemoveSaved ==
    /\ saved # 0 /\ saved' = 0
    /\ UNCHANGED <<month, wiped, finding>>

MonthBegins ==
    /\ month < Months
    /\ month' = month + 1 /\ wiped' = {}
    /\ UNCHANGED <<saved, finding>>

MonthlyReset30Days(w) ==
    /\ w \notin wiped /\ month > 1
    /\ saved' = IF saved < month - 1 THEN 0 ELSE saved
    /\ wiped' = wiped \cup {w}
    /\ UNCHANGED <<month, finding>>
MonthlyReset(w) ==
    /\ w \notin wiped /\ month > 1
    /\ saved' = 0
    /\ wiped' = wiped \cup {w}
    /\ UNCHANGED <<month, finding>>

Next ==
    \/ \E s \in Sessions : Find(s) \/ Save(s)
    \/ \E w \in Workers : MonthlyReset(w)
    \/ RemoveSaved \/ MonthBegins

Spec == Init /\ [][Next]_vars
----------------------------------------------------------------------------
\* The row and the requests are of their types.
TypeOK == saved \in 0..month /\ month \in 1..Months /\ wiped \subseteq Workers /\ finding \subseteq Sessions
=============================================================================
