------------------------------ MODULE Fetches -------------------------------
(***************************************************************************)
(* What a fetch finds before it asks the network, put together: the sealed *)
(* cache (CachedFetch) and the redirects remembered in front of it         *)
(* (RedirectMemory).  The two share the directory: what a redirect entry   *)
(* takes of it is in CachedFetch, and that the directory may lose one in   *)
(* RedirectMemory.                                                         *)
(***************************************************************************)
EXTENDS CachedFetch

CONSTANTS Addresses, Slots, RamTtl, DiskTtl, MaxRedirects, MaxFetches, MaxTime, MaxChanges

VARIABLES site, rth, ram, next, disk, now, changes, fetches, oldest

Redirects == INSTANCE RedirectMemory WITH th <- rth, Urls <- Addresses

redirectVars == <<site, rth, ram, next, disk, now, changes, fetches, oldest>>

\* A redirect is followed without asking only within the lifetimes of the
\* table and of the disk, counted from when its origin gave it; following it
\* leads where asking would have led, and the loop of sf_get_follow ends
\* whatever loops the memory holds.
RedirectsTrue == Redirects!RedirectsTrue
=============================================================================
