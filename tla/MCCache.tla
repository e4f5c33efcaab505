------------------------------ MODULE MCCache -------------------------------
(***************************************************************************)
(* What a fetch finds before it asks the network, for TLC: the sealed      *)
(* cache (CachedFetch) and the redirects remembered in front of it         *)
(* (RedirectMemory).  The cache takes part twice: with two threads and a   *)
(* changing origin in one session ("threads"), and with one thread at a    *)
(* time, kills, power failures and new keys over two sessions              *)
(* ("sessions"), with the redirects it writes.  A behaviour moves one of   *)
(* the three, `part', and leaves the others as they begin.                 *)
(***************************************************************************)
EXTENDS MCCachedFetch, Fetches

CONSTANTS t1, t2, p, q, x, y

VARIABLE part

ASSUME Redirects!RedirectAssumption

\* The bounds of each part: which requests, answers and events it has.
Within ==
    /\ part = "threads" =>
          /\ profile = 1 /\ opens <= 1 /\ (store.keys = 0 => opens = 0)
          /\ Cardinality({r \in Resources : origin[r].mtime > 0})
                + Cardinality({u \in Urls : origin[u].to > 1}) <= 1
          /\ store.redirects = 0
          /\ \A t \in Threads :
                 /\ th[t].part # q /\ th[t].pc # "plain"
                 /\ th[t].ans # None => /\ "no-store" \notin th[t].ans.cc.words
                                        /\ th[t].ans.expires < 0
    /\ part = "sessions" =>
          /\ Cardinality({t \in Threads : th[t].pc # "idle"}) <= 1
          /\ store.redirects <= 1
          /\ \A u \in Urls : origin[u] = [mtime |-> 0, to |-> 1]
          /\ \A t \in Threads :
                 th[t].ans # None => th[t].ans.lm = Absent /\ "no-cache" \notin th[t].ans.cc.words
    /\ part = "redirects" =>
          /\ fetches + changes <= 3 /\ (changes > 0 => now <= 1)
          /\ fetches = 3 => Cardinality({t \in Threads : rth[t].pc # "idle"}) <= 1

CacheInit ==
    /\ part \in {"threads", "sessions", "redirects"}
    /\ Init
    /\ Redirects!Init /\ (part # "redirects" => \A u \in Addresses : site[u].is = "page")

CacheNext ==
    /\ UNCHANGED part
    /\ \/ /\ part # "redirects" /\ Next
          /\ UNCHANGED redirectVars
       \/ /\ part = "redirects" /\ Redirects!Next
          /\ UNCHANGED vars
    /\ Within'

CacheSpec == CacheInit /\ [][CacheNext]_<<part, vars, redirectVars>>

Interchangeable == Permutations({t1, t2}) \cup Permutations({x, y})
=============================================================================
