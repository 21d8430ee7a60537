----------------------------- MODULE MCScraping -----------------------------
(* Small instances of Scraping for TLC: x is a record, y another record of *)
(* x's company and day (one hash), z is x seen again with another hash.    *)
EXTENDS Scraping

CONSTANTS x, y, z, a

MCFeedOf == [b \in {a} |-> Records]
MCHashOf == [q \in Records |-> IF q = z THEN "h2" ELSE "h1"]
MCSourceOf == [q \in Records |-> IF q = y THEN "s2" ELSE "s1"]

RequestSymmetry == Permutations(Requests)
=============================================================================
