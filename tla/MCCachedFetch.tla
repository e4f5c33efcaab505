--------------------------- MODULE MCCachedFetch ---------------------------
(***************************************************************************)
(* Instances of CachedFetch for TLC.  The page asks for a, which redirects *)
(* to b or c.                                                              *)
(***************************************************************************)
EXTENDS CachedFetch, TLC

CONSTANTS a, b, c

AllUrls == {a, b, c}
Alias   == {a}

\* The alias is redirected elsewhere, and so may its first home be.
Moves == [u \in AllUrls |-> IF u = c THEN <<c>> ELSE <<b, c>>]
\* A final address is redirected later too.
FinalMoves == [u \in AllUrls |-> IF u = a THEN <<b>> ELSE IF u = b THEN <<b, c>> ELSE <<c>>]

CC(w, n) == [words |-> w, maxage |-> n]
H(cc, e, d, t, l) == [cc |-> cc, expires |-> e, date |-> d, etag |-> t, lm |-> l]

Tagged  == H(CC({}, 1), Absent, TRUE, TRUE, FALSE)
Dated   == H(CC({}, Absent), Absent, TRUE, FALSE, TRUE)
Expires == H(CC({}, Absent), 1, FALSE, FALSE, FALSE)
NoStore == H(CC({"no-store"}, Absent), Absent, TRUE, TRUE, FALSE)
NoCache == H(CC({"no-cache"}, 2), Bad, TRUE, TRUE, FALSE)

Cached      == {Tagged, Dated, NoCache}
Refusable   == {Tagged, Expires, NoStore}
Answered    == Cached \cup Refusable
Validated   == {Tagged, Dated}

Same == Permutations(Threads)
=============================================================================
