----------------------------- MODULE MCAccounts -----------------------------
\* One person known by Google and by Firebase under one address, another
\* without an address, an administrator of the configuration, and a business
\* with a brand.
EXTENDS Accounts, TLC

P(google, email) == [google |-> google, email |-> email]
MCProfiles == {P("g1", "e1"), P("f1", "e1"), P("f2", None), P("g3", "boss")}
Row(google, email, handle, role) ==
    [google |-> google, email |-> email, handle |-> handle, role |-> role, blocked |-> FALSE, ig |-> None,
     brand |-> None, contact |-> None, verified |-> FALSE, token |-> None]
Admin == Row("g0", "e0", 1, "admin")
Brand == [Row("g1", "e1", 2, "business") EXCEPT !.brand = "brand", !.contact = "c1"]
MCStarts == {[i \in {"a"} |-> Admin],
             [i \in {"a", "u1"} |-> IF i = "a" THEN Admin ELSE Brand]}
Symmetry == Permutations(Requests)
=============================================================================
