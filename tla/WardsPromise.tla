------------------------------ MODULE WardsPromise ------------------------------
(***************************************************************************)
(* The wards of a city and the ward of each venue, how a text and a place  *)
(* are resolved to one, and what a backfill promises of the rows.  A text  *)
(* is a sequence of tokens.  No query orders the wards: what the code calls*)
(* the first of several matches is any of them, so a resolver yields a set.*)
(***************************************************************************)
EXTENDS Integers, Sequences

CONSTANTS None,
          SeedFiles,      \* the contents the seed file may have: aliases by ward
          Venue0,         \* the venues, by their first rows
          NewVenues,      \* those that may be created
          Changes,        \* what a save may carry: values of some of the columns
          MaxKm           \* the reach of an anchor

VenueFields == {"district", "address", "at", "published", "ward", "method"}

WardNames == UNION {DOMAIN f : f \in SeedFiles}

\* A ward, if any, and how it was found.
IsDecision(h) ==
    h.ward \in WardNames \cup {None} /\ h.method \in {"exact", "alias", "geo", None}

\* A seed file and a table are functions, a row is a record; null is no ward and
\* no method.
ASSUME SeedFilesAssumption == \A f \in SeedFiles : f = [n \in DOMAIN f |-> f[n]]
ASSUME Venue0Assumption ==
    /\ Venue0 = [v \in DOMAIN Venue0 |-> Venue0[v]]
    /\ \A v \in DOMAIN Venue0 : /\ Venue0[v] = [f \in VenueFields |-> Venue0[v][f]]
                                 /\ IsDecision(Venue0[v])
ASSUME NewVenuesAssumption ==
    \A v \in DOMAIN NewVenues : NewVenues[v] = [f \in VenueFields |-> NewVenues[v][f]]

\* No request carries a ward.
ASSUME ChangesAssumption ==
    \A change \in Changes : DOMAIN change \subseteq VenueFields \ {"ward", "method"}
ASSUME MethodAssumption == None \notin {"exact", "alias", "geo"}

VARIABLES file,      \* the seed file
          wards,     \* the table: aliases by name
          located,   \* the rows of venues
          tidy       \* history: the table is the file's, the venues are resolved by the table

Unresolved == [ward |-> None, method |-> None]
----------------------------------------------------------------------------
\* The wards that carry the text as their name, else those that have it as an alias.
Hits(text, ws) ==
    LET Of(names, method) == {[ward |-> n, method |-> method] : n \in names}
        named == {n \in DOMAIN ws : <<n>> = text}
    IN  IF named # {} THEN Of(named, "exact")
        ELSE Of({n \in DOMAIN ws : text \in ws[n]}, "alias")

\* The first of a sequence of sets that has any element.
FirstHit(hits) ==
    LET hit == {i \in DOMAIN hits : hits[i] # {}}
    IN  UNION {hits[i] : i \in {k \in hit : \A j \in hit : k <= j}}

\* resolveWardText: the whole text first, then its tokens in turn.
ResolveText(text, ws) ==
    IF Hits(text, ws) # {} THEN Hits(text, ws)
    ELSE FirstHit([i \in DOMAIN text |-> Hits(<<text[i]>>, ws)])

\* The segments of an address that can name a ward: not the city, not the
\* country, not a street.
Segments(address) ==
    LET tail == IF address = <<>> \/ address[Len(address)].text # <<"viet nam">> THEN 1 ELSE 2
        body == SelectSeq(SubSeq(address, 1, Len(address) - tail), LAMBDA a : ~a.street)
    IN  IF Len(address) < 3 THEN <<>> ELSE [i \in DOMAIN body |-> body[i].text]

\* resolveWardFromVenue: the district, then the address.
ResolveVenue(district, address, ws) ==
    LET segments == Segments(address)
    IN  IF ResolveText(district, ws) # {} THEN ResolveText(district, ws)
        ELSE FirstHit([i \in DOMAIN segments |-> ResolveText(segments[i], ws)])

Distance(a, b) == IF a < b THEN b - a ELSE a - b

\* resolveByNearestAnchor: the wards of the nearest venues that a text resolved;
\* 0 stands for coordinates that are missing.
ByAnchor(at, coordinates, decided) ==
    LET anchors == {u \in DOMAIN coordinates : decided[u] # Unresolved /\ coordinates[u] # 0
                                          /\ Distance(coordinates[u], at) <= MaxKm}
        nearest == {u \in anchors : \A w \in anchors :
                       Distance(coordinates[u], at) <= Distance(coordinates[w], at)}
    IN  IF at = 0 THEN {} ELSE {[ward |-> decided[u].ward, method |-> "geo"] : u \in nearest}

Or(hits) == IF hits = {} THEN {Unresolved} ELSE hits

Published == {v \in DOMAIN located : located[v].published}
Coordinates == [v \in Published |-> located[v].at]
Ward(v) == [ward |-> v.ward, method |-> v.method]
----------------------------------------------------------------------------
\* Once a backfill has run to its end over venues no one edited meanwhile, each
\* published venue has the ward its own texts name, and only one without any has
\* that of the nearest venue whose texts did, within reach.  The wards are those
\* of the file once seed-wards has run to its end, after runs killed anywhere.
VenuesSettled ==
    LET table == IF tidy.table THEN file ELSE wards
        found == [v \in Published |->
                     IF located[v].method = "geo" THEN Unresolved ELSE Ward(located[v])]
    IN  tidy.venues => \A v \in Published :
           LET texts == ResolveVenue(located[v].district, located[v].address, table)
           IN  Ward(located[v]) \in
                  (IF texts # {} THEN texts ELSE Or(ByAnchor(located[v].at, Coordinates, found)))
=============================================================================
