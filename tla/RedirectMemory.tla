---------------------------- MODULE RedirectMemory ----------------------------
(***************************************************************************)
(* Following redirects with a memory of the permanent ones (sf_get_follow  *)
(* and sf_rcache_* of src/secure_fetch.c).  The memory in RAM is a small   *)
(* table shared by the fetching threads; behind it is the sealed cache     *)
(* (hc_redirect_put and hc_redirect_get of src/http_cache.c), asked and    *)
(* told outside the table's lock; its entries are files of CachedFetch's   *)
(* directory, which may drop them at any time.                             *)
(*                                                                         *)
(* All addresses are https; what an origin answers is `site'.              *)
(***************************************************************************)
EXTENDS Naturals, Sequences, FiniteSets, FiniteSetsExt

CONSTANTS Threads, Urls,
          Slots,         \* SF_RCACHE_SLOTS
          RamTtl,        \* SF_RCACHE_TTL_S
          DiskTtl,       \* HC_REDIRECT_TTL
          MaxRedirects,  \* hops a fetch follows
          MaxFetches, MaxTime, MaxChanges   \* bounds

RedirectAssumption ==
    /\ Slots \in Nat \ {0}
    /\ {RamTtl, DiskTtl, MaxRedirects, MaxFetches, MaxTime, MaxChanges} \subseteq Nat

VARIABLES
    site,    \* what each address answers: [is, to]
    th,      \* the fetch of each thread; turns, of its loop, and born, of an
             \* entry, are history
    ram,     \* sf_rcache, [from, to, stored, born, used] by slot
    next,    \* sf_rcache_next
    disk,    \* the redirect entries of the sealed cache, by address
    now,
    changes, fetches,
    oldest   \* history: the greatest age of a remembered redirect followed

vars == <<site, th, ram, next, disk, now, changes, fetches, oldest>>

NoUrl == "none"

Answers == [is : {"page"}, to : {NoUrl}] \cup [is : {"moved", "found"}, to : Urls]
Empty == [used |-> FALSE, from |-> NoUrl, to |-> NoUrl, stored |-> 0, born |-> 0]
NoEntry == [is |-> "none"]
Idle == [pc |-> "idle", url |-> NoUrl, at |-> NoUrl, hops |-> 0, turns |-> 0, to |-> NoUrl,
         t |-> 0, born |-> 0, res |-> "none"]

(*------------------------------- the table -------------------------------*)

\* The slot of an address, or 0: the first in use.
SlotOf(u) ==
    LET mine == {i \in 1 .. Slots : ram[i].used /\ ram[i].from = u}
    IN IF mine = {} THEN 0 ELSE Min(mine)

\* rcache_put_ram.
PutRam(from, to, t, b) ==
    IF from = to THEN UNCHANGED <<ram, next>>
    ELSE LET mine == SlotOf(from)
             slot == IF mine # 0 THEN mine ELSE next
         IN /\ ram' = [ram EXCEPT ![slot] = [used |-> TRUE, from |-> from, to |-> to,
                                             stored |-> t, born |-> b]]
            /\ next' = IF mine # 0 THEN next ELSE (next % Slots) + 1

\* (a redirect on disk that does not expire)
OnDiskAlways(u, t) == disk[u].is = "redirect"

\* redirect_get_locked: known, and not too old.
OnDisk(u, t) == disk[u].is = "redirect" /\ t >= disk[u].stored /\ t - disk[u].stored <= DiskTtl

(*------------------------------- a fetch ---------------------------------*)

Upd(t, f) == th' = [th EXCEPT ![t] = f]

\* The hop is taken: the loop of sf_get_follow again.
Hop(f, to) == [Idle EXCEPT !.pc = "look", !.url = f.url, !.at = to, !.hops = f.hops + 1,
                              !.turns = f.turns + 1]

Done(f, r) == [Idle EXCEPT !.pc = "done", !.url = f.url, !.res = r]

Remembered(b) == oldest' = IF now - b > oldest THEN now - b ELSE oldest

Begin(t, u) ==
    /\ th[t].pc = "idle"
    /\ fetches < MaxFetches
    /\ fetches' = fetches + 1
    /\ Upd(t, [Idle EXCEPT !.pc = "look", !.url = u, !.at = u, !.turns = 1])
    /\ UNCHANGED <<site, ram, next, disk, now, changes, oldest>>

\* The memory is asked only while a hop is left.
MayLook(f) == f.hops < MaxRedirects

\* sf_rcache_get up to the unlock, or the request itself.
Look(t) ==
    LET f == th[t]
        i == SlotOf(f.at)
    IN /\ f.pc = "look"
       /\ IF ~MayLook(f) THEN Upd(t, [f EXCEPT !.pc = "ask"]) /\ UNCHANGED <<ram, oldest>>
          ELSE IF i = 0 THEN Upd(t, [f EXCEPT !.pc = "disk", !.t = now]) /\ UNCHANGED <<ram, oldest>>
          ELSE IF now - ram[i].stored > RamTtl
          THEN /\ ram' = [ram EXCEPT ![i] = Empty]
               /\ Upd(t, [f EXCEPT !.pc = "disk", !.t = now])
               /\ UNCHANGED oldest
          ELSE /\ Upd(t, Hop(f, ram[i].to))
               /\ Remembered(ram[i].born)
               /\ UNCHANGED ram
       /\ UNCHANGED <<site, next, disk, now, changes, fetches>>

\* redirect_load: an entry that is too old is unlinked.
Load(t) ==
    LET f == th[t]
    IN /\ f.pc = "disk"
       /\ IF OnDisk(f.at, f.t)
          THEN /\ Upd(t, [f EXCEPT !.pc = "keep", !.to = disk[f.at].to, !.born = disk[f.at].born])
               /\ UNCHANGED disk
          ELSE /\ Upd(t, [f EXCEPT !.pc = "ask", !.t = 0])
               /\ disk' = [disk EXCEPT ![f.at] = NoEntry]
       /\ UNCHANGED <<site, ram, next, now, changes, fetches, oldest>>

\* The entry found goes to RAM as of now.
Keep(t) ==
    LET f == th[t]
    IN /\ f.pc = "keep"
       /\ PutRam(f.at, f.to, f.t, f.born)
       /\ Upd(t, Hop(f, f.to))
       /\ oldest' = IF f.t - f.born > oldest THEN f.t - f.born ELSE oldest
       /\ UNCHANGED <<site, disk, now, changes, fetches>>

\* sf_get: the policy or the network fails, or the address answers.
Fail(t) ==
    /\ th[t].pc = "ask"
    /\ Upd(t, Done(th[t], "failed"))
    /\ UNCHANGED <<site, ram, next, disk, now, changes, fetches, oldest>>

Ask(t) ==
    LET f == th[t]
        answer == site[f.at]
    IN /\ f.pc = "ask"
       /\ Upd(t, CASE answer.is = "page" -> Done(f, "ok")
                   [] answer.is # "page" /\ f.hops >= MaxRedirects ->
                        Done(f, "too many")
                   [] answer.is = "found" /\ f.hops < MaxRedirects -> Hop(f, answer.to)
                   [] OTHER -> [f EXCEPT !.pc = "put", !.to = answer.to])
       /\ UNCHANGED <<site, ram, next, disk, now, changes, fetches, oldest>>

\* sf_rcache_put: the table, and the save outside its lock.
Put(t) ==
    LET f == th[t]
    IN /\ f.pc = "put"
       /\ PutRam(f.at, f.to, now, now)
       /\ Upd(t, IF f.at = f.to THEN Hop(f, f.to) ELSE [f EXCEPT !.pc = "save", !.t = now])
       /\ UNCHANGED <<site, disk, now, changes, fetches, oldest>>

Save(t) ==
    LET f == th[t]
    IN /\ f.pc = "save"
       /\ disk' = [disk EXCEPT ![f.at] = [is |-> "redirect", to |-> f.to, stored |-> f.t, born |-> f.t]]
       /\ Upd(t, Hop(f, f.to))
       /\ UNCHANGED <<site, ram, next, now, changes, fetches, oldest>>

Return(t) ==
    /\ th[t].pc = "done"
    /\ Upd(t, Idle)
    /\ UNCHANGED <<site, ram, next, disk, now, changes, fetches, oldest>>

(*----------------------------- surroundings ------------------------------*)

Tick ==
    /\ now < MaxTime
    /\ now' = now + 1
    /\ UNCHANGED <<site, th, ram, next, disk, changes, fetches, oldest>>

Change(u, a) ==
    /\ changes < MaxChanges
    /\ changes' = changes + 1
    /\ a # site[u]
    /\ site' = [site EXCEPT ![u] = a]
    /\ UNCHANGED <<th, ram, next, disk, now, fetches, oldest>>

\* A new session: the fetches under way are over and the table is empty, the
\* sealed cache is not.
Restart ==
    /\ \E i \in 1 .. Slots : ram[i].used
    /\ ram' = [i \in 1 .. Slots |-> Empty]
    /\ next' = 1
    /\ th' = [t \in Threads |-> Idle]
    /\ UNCHANGED <<site, disk, now, changes, fetches, oldest>>

\* The directory loses the entry: evicted by a put, cleared, damaged, or
\* removed with an old key (CachedFetch).
Lose(u) ==
    /\ disk[u] # NoEntry
    /\ disk' = [disk EXCEPT ![u] = NoEntry]
    /\ UNCHANGED <<site, th, ram, next, now, changes, fetches, oldest>>

Init ==
    /\ site \in [Urls -> Answers]
    /\ th = [t \in Threads |-> Idle]
    /\ ram = [i \in 1 .. Slots |-> Empty]
    /\ next = 1
    /\ disk = [u \in Urls |-> NoEntry]
    /\ now = 0
    /\ changes = 0
    /\ fetches = 0
    /\ oldest = 0

Run(t) == Look(t) \/ Load(t) \/ Keep(t) \/ Fail(t) \/ Ask(t) \/ Put(t) \/ Save(t) \/ Return(t)

Next ==
    \/ \E t \in Threads, u \in Urls : Begin(t, u)
    \/ \E t \in Threads : Run(t)
    \/ Tick
    \/ \E u \in Urls, a \in Answers : Change(u, a)
    \/ Restart
    \/ \E u \in Urls : Lose(u)

Spec == Init /\ [][Next]_vars

(*------------------------------ properties -------------------------------*)

\* A remembered redirect is followed at most as long after its origin sent it
\* as the two memories together keep it.
Vouched == oldest <= DiskTtl + RamTtl

\* Where each address leads without a memory, in at most n hops.
Leads(answers) ==
    LET walk[n \in 0 .. MaxRedirects] ==
            [u \in Urls |-> IF answers[u].is = "page" THEN "ok"
                            ELSE IF n = 0 THEN "too many" ELSE walk[n - 1][answers[u].to]]
    IN walk

Reached == Leads(site)[MaxRedirects]

\* While no origin changes its redirects, the memory makes no difference to
\* what a fetch returns, chains at the limit and loops included.
Transparent ==
    changes = 0 =>
        \A t \in Threads : th[t].pc = "done" => th[t].res \in {"failed", Reached[th[t].url]}

\* A fetch ends, whatever loops the memory holds: the loop of sf_get_follow
\* turns at most once more than there are redirects to follow.
Ends == \A t \in Threads : th[t].turns <= MaxRedirects + 1

\* The memory of redirects changes how a fetch gets to its end, never the end.
RedirectsTrue == Vouched /\ Transparent /\ Ends
================================================================================
