---------------------------- MODULE CachedFetch ----------------------------
(***************************************************************************)
(* The sealed HTTP cache in front of the fetcher (src/cached_fetch.c,      *)
(* src/http_cache.c).                                                      *)
(*                                                                         *)
(* Every fetching thread shares one store.  A lookup and a put are each    *)
(* atomic under the store's mutex; the network is between them.  Entries   *)
(* are files: they outlive the process, which may be killed in a put, and  *)
(* are not synced, so a power failure may leave any of them unreadable.    *)
(* The permanent redirects a fetch meets are files of the same directory   *)
(* (hc_redirect_put); where they lead a fetch is RedirectMemory.           *)
(* Origins (external) change their resources, their headers and where an   *)
(* address redirects to.                                                   *)
(***************************************************************************)
EXTENDS Integers, Sequences, FiniteSets, FiniteSetsExt

CONSTANTS Threads,     \* fetching threads
          Parts,       \* partitions: top-level sites
          Urls,        \* addresses; every one names a resource
          Asks,        \* the addresses pages ask for
          Homes,       \* where each address leads to, over time
          Headers,     \* what an origin may send with an answer
          MaxAgeCap,   \* HC_MAX_AGE_CAP
          HeurCap,     \* HC_HEURISTIC_CAP
          HeurDiv,     \* the 10 of "10 %"
          MaxTotal,    \* HC_MAX_TOTAL, in entries
          Target,      \* 90 % of it
          EvictEvery,  \* HC_EVICT_EVERY
          MaxNow,      \* bound: the clock
          MaxKeys,     \* bound: profile keys and key pairs
          MaxOpens     \* bound: sessions

Resources == UNION {{Homes[u][i] : i \in 1 .. Len(Homes[u])} : u \in Urls}

None   == [is |-> "none"]
Redirect == [is |-> "redirect"]   \* the empty partition of the redirects
Absent == -1     \* no such header
Bad    == -2     \* a header that does not parse
NoCC   == [words |-> {}, maxage |-> Absent]

HeaderRec == [cc     : [words : SUBSET {"no-store", "no-cache", "other"}, maxage : Int],
              expires : Int, date : BOOLEAN, etag : BOOLEAN, lm : BOOLEAN]

ASSUME CacheAssumption ==
    /\ Asks \subseteq Urls /\ Homes \in [Urls -> Seq(Urls) \ {<<>>}] /\ Headers \subseteq HeaderRec
    /\ Redirect \notin Parts
    /\ MaxAgeCap \in Nat /\ HeurCap \in Nat /\ HeurDiv \in Nat \ {0}
    /\ MaxTotal \in Nat /\ Target \in 0 .. MaxTotal /\ EvictEvery \in Nat \ {0}
    /\ MaxNow \in Nat /\ MaxKeys \in Nat \ {0} /\ MaxOpens \in Nat \ {0}

VARIABLES
    clock,
    origin,   \* per address: when its resource last changed (which names the
              \* version) and which of its homes it leads to
    files,    \* the cache directory, but for the key file
    keyfile,  \* pq.key: the profile key and the key pair it holds
    profile,  \* the profile key
    store,    \* hc_store: its key pair (0: not open) and its puts; history:
              \* the files it found and the redirects since an eviction
    th,       \* the threads
    opens     \* sessions so far

vars == <<clock, origin, files, keyfile, profile, store, th, opens>>

(***************************************************************************)
(* The pure rules.  A meta record m has the header values, when the        *)
(* response was stored, and the body.                                      *)
(***************************************************************************)
Least(a, b) == IF a < b THEN a ELSE b

Storable(m) ==
    /\ "no-store" \notin m.cc.words
    /\ m.etag # Absent \/ m.lm # Absent \/ m.expires # Absent \/ m.cc.maxage > 0

Lifetime(m) ==
    LET date == IF m.date = Absent THEN m.stored ELSE m.date
    IN  CASE "no-cache" \in m.cc.words -> 0
          [] "no-cache" \notin m.cc.words /\ m.cc.maxage # Absent ->
                 Least(m.cc.maxage, MaxAgeCap)
          [] "no-cache" \notin m.cc.words /\ m.cc.maxage = Absent /\ m.expires # Absent ->
                 IF m.expires <= date THEN 0 ELSE Least(m.expires - date, MaxAgeCap)
          [] OTHER ->
                 IF m.lm # Absent /\ date > m.lm
                 THEN Least((date - m.lm) \div HeurDiv, HeurCap) ELSE 0

Age(m, now) == IF now < m.stored THEN 0 ELSE now - m.stored

ClassifyLate(m, now) ==
    IF Age(m, now) <= Lifetime(m) THEN "fresh"
    ELSE IF m.etag # Absent \/ m.lm # Absent THEN "revalidate" ELSE "unusable"

Classify(m, now) ==
    IF Age(m, now) < Lifetime(m) THEN "fresh"
    ELSE IF m.etag # Absent \/ m.lm # Absent THEN "revalidate" ELSE "unusable"

(***************************************************************************)
(* The directory.  An entry and the temporary file of its put have names   *)
(* of their own; `key' is the key pair a blob was sealed with and `ok' is  *)
(* FALSE of a blob that does not open.                                     *)
(***************************************************************************)
\* HMAC under the profile key over the partition and the address.
EntryPath(p, u) == [part |-> p, url |-> u, tmp |-> FALSE, for |-> profile]
Aside(f) == [f EXCEPT !.tmp = TRUE]

Names    == [part : Parts \cup {Redirect}, url : Asks, tmp : BOOLEAN, for : 1 .. MaxKeys]
Empty    == [f \in Names |-> None]
Damaged(t) == [is |-> "file", ok |-> FALSE, mt |-> t]
Present  == {f \in Names : files[f] # None}
Opens(e) == e # None /\ e.ok /\ e.key = store.keys

Removed(fs, S) == [f \in Names |-> IF f \in S THEN None ELSE fs[f]]

EvictionsNoTmp(fs) ==
    LET S == {f \in Names : fs[f] # None /\ ~f.tmp}
        Oldest(R) == \A r \in R, f \in S \ R : fs[r].mt <= fs[f].mt
    IN  IF Cardinality(S) <= MaxTotal THEN {{}}
        ELSE {R \in kSubset(Cardinality(S) - Target, S) : Oldest(R)}

\* evict drops the oldest files, in the directory's order when they tie.
Evictions(fs) ==
    LET S == {f \in Names : fs[f] # None}
        Oldest(R) == \A r \in R, f \in S \ R : fs[r].mt <= fs[f].mt
    IN  IF Cardinality(S) <= MaxTotal THEN {{}}
        ELSE {R \in kSubset(Cardinality(S) - Target, S) : Oldest(R)}

\* put_locked: seal, write aside, rename, and every so often evict.
HcPut(p, u, m) ==
    LET e  == [m EXCEPT !.ok = TRUE, !.key = store.keys, !.mt = clock]
        f  == EntryPath(p, u)
        fs == [files EXCEPT ![f] = e, ![Aside(f)] = None]
    IN  IF (store.puts + 1) % EvictEvery = 0
        THEN /\ store' = [store EXCEPT !.puts = 0, !.redirects = 0]
             /\ \E R \in Evictions(fs) : files' = Removed(fs, R)
        ELSE /\ store' = [store EXCEPT !.puts = @ + 1]
             /\ files' = fs

(***************************************************************************)
(* Threads.  `m' is the entry a conditional request is about, `ans' the    *)
(* answer to be stored.                                                    *)
(***************************************************************************)
Idle == [pc |-> "idle", part |-> None, url |-> None, at |-> 0, m |-> None, ans |-> None]

Closed == [keys |-> 0, puts |-> 0, base |-> 0, redirects |-> 0]
Opened(k, n) == [keys |-> k, puts |-> 0, base |-> n, redirects |-> 0]

Ask(pc, p, u, m) == [Idle EXCEPT !.pc = pc, !.part = p, !.url = u, !.at = clock, !.m = m]

\* A request the cache has no part in any more.
Plain == [Idle EXCEPT !.pc = "plain"]

Init ==
    /\ clock = 0
    /\ origin = [u \in Urls |-> [mtime |-> 0, to |-> 1]]
    /\ files = Empty /\ keyfile = None /\ profile = 1
    /\ store = Closed
    /\ th = [t \in Threads |-> Idle] /\ opens = 0

\* A request cacheable_request turns down: with credentials, a range, plain
\* http, or an address that is too long.
GetPlain(t) ==
    /\ store.keys # 0 /\ th[t].pc = "idle"
    /\ th' = [th EXCEPT ![t] = Plain]
    /\ UNCHANGED <<clock, origin, files, keyfile, profile, store, opens>>

\* cf_get_with up to the network.  A fresh entry is served (and the thread is
\* free again), or fetched when there is no memory to serve it from; a file
\* that does not open is removed and is a miss, one that cannot be read (it is
\* empty, too long, or there is no memory) stays and is a miss.
Get(t, p, u) ==
    /\ store.keys # 0 /\ th[t].pc = "idle"
    /\ LET f == EntryPath(p, u)
           e == files[f]
       IN  \/ /\ UNCHANGED files
              /\ th' = [th EXCEPT ![t] = Ask("miss", p, u, None)]
           \/ /\ Opens(e)
              /\ UNCHANGED files
              /\ CASE Classify(e, clock) = "fresh" ->
                          \/ UNCHANGED th
                          \/ th' = [th EXCEPT ![t] = Plain]
                   [] Classify(e, clock) = "revalidate" ->
                          th' = [th EXCEPT ![t] = Ask("cond", p, u, e)]
                   [] OTHER -> th' = [th EXCEPT ![t] = Ask("miss", p, u, None)]
           \/ /\ ~Opens(e)
              /\ files' = Removed(files, {f})
              /\ th' = [th EXCEPT ![t] = Ask("miss", p, u, None)]
    /\ UNCHANGED <<clock, origin, keyfile, profile, store, opens>>

\* What the origin of r sends with header policy h (external).
Sent(r, h) ==
    [final   |-> r,
     etag    |-> IF h.etag THEN origin[r].mtime ELSE Absent,
     lm      |-> IF h.lm THEN origin[r].mtime ELSE Absent,
     cc      |-> h.cc,
     expires |-> IF h.expires >= 0 THEN clock + h.expires ELSE h.expires,
     date    |-> IF h.date THEN clock ELSE Absent]

\* The origin's reading of the conditions: the tag goes before the date.
Matches(m, r) ==
    IF m.etag # Absent THEN m.final = r /\ m.etag = origin[r].mtime
                       ELSE origin[r].mtime <= m.lm

\* meta_from_response, with the body.  `conf' and `truth' are history: when the
\* origin vouched for an entry, and for which body.
MetaFromResponse(t, s) ==
    [final |-> s.final, etag |-> s.etag, lm |-> s.lm, cc |-> s.cc,
     expires |-> s.expires, date |-> s.date, stored |-> th[t].at,
     body |-> <<s.final, origin[s.final].mtime>>,
     conf |-> clock, truth |-> <<s.final, origin[s.final].mtime>>,
     is |-> "file", ok |-> TRUE, key |-> 0, mt |-> 0]

\* A 304 renews the entry the thread holds.
Renewed(t, m, s) ==
    [m EXCEPT !.stored = th[t].at,
              !.cc = IF s.cc # NoCC THEN s.cc ELSE @,
              !.expires = IF s.expires # Absent THEN s.expires ELSE @,
              !.date = IF s.date # Absent THEN s.date ELSE @,
              !.etag = IF s.etag # Absent THEN s.etag ELSE @,
              !.conf = clock, !.truth = <<s.final, origin[s.final].mtime>>]

AskedAgain(t) == th[t].url

\* Where an address leads now: to itself, or where it is redirected.
LeadsTo(u) == Homes[u][origin[u].to]

\* The address requested (that of the stored entry for a conditional request)
\* and, after its redirects, the resource that answers.
Asked(t)   == IF th[t].pc = "cond" THEN th[t].m.final ELSE th[t].url
Answers(t) == LeadsTo(LeadsTo(Asked(t)))

Keep(t, pc, m) == th' = [th EXCEPT ![t].pc = pc, ![t].m = None, ![t].ans = m]
Finish(t) == th' = [th EXCEPT ![t] = Idle]

\* The answer is served, or fetched once more when there is no memory to serve
\* a renewed entry from.
Serve(t) == Finish(t) \/ (th[t].pc = "renew" /\ th' = [th EXCEPT ![t] = Plain])

\* A request is on the network.
Asking(t) == th[t].pc \in {"miss", "cond", "plain"}

\* A 200 or a 304 arrives.
Answer(t, h) ==
    /\ Asking(t)
    /\ \/ th[t].pc = "plain" /\ Finish(t)
       \/ LET s == Sent(Answers(t), h)
              m == MetaFromResponse(t, s)
          IN  /\ th[t].pc # "plain" /\ LeadsTo(s.final) = s.final
              /\ IF th[t].pc = "cond" /\ Matches(th[t].m, s.final)
                 THEN Keep(t, "renew", Renewed(t, th[t].m, s))
                 ELSE IF Storable(m) THEN Keep(t, "put", m)
                 ELSE Finish(t)
    /\ UNCHANGED <<clock, origin, files, keyfile, profile, store, opens>>

\* A failure, another status, or a body past HC_MAX_ENTRY: nothing is stored.
Fail(t) ==
    /\ Asking(t)
    /\ Finish(t)
    /\ UNCHANGED <<clock, origin, files, keyfile, profile, store, opens>>

Put(t) ==
    /\ th[t].pc \in {"put", "renew"}
    /\ HcPut(th[t].part, th[t].url, th[t].ans)
    /\ Serve(t)
    /\ UNCHANGED <<clock, origin, keyfile, profile, opens>>

\* Sealing or writing fails: the answer is served and not stored.
PutFails(t) ==
    /\ th[t].pc \in {"put", "renew"}
    /\ Serve(t)
    /\ UNCHANGED <<clock, origin, files, keyfile, profile, store, opens>>

(***************************************************************************)
(* Redirects.  An entry without a body, for every partition.               *)
(***************************************************************************)
MetaOfRedirect(to) ==
    [final |-> to, etag |-> Absent, lm |-> Absent, cc |-> NoCC, expires |-> Absent,
     date |-> Absent, stored |-> clock, body |-> <<to, 0>>, conf |-> clock, truth |-> <<to, 0>>,
     is |-> "file", ok |-> TRUE, key |-> store.keys, mt |-> clock]

\* redirect_put_locked: a fetch met a permanent redirect.  The put is not
\* counted, and evicts nothing.
PutRedirect(t, u) ==
    LET f == EntryPath(Redirect, u)
    IN  /\ Asking(t) /\ LeadsTo(u) # u
        /\ files' = [files EXCEPT ![f] = MetaOfRedirect(LeadsTo(u)), ![Aside(f)] = None]
        /\ store' = [store EXCEPT !.redirects = IF files[f] = None THEN @ + 1 ELSE @]
        /\ UNCHANGED <<clock, origin, keyfile, profile, th, opens>>

\* redirect_get_locked: one that does not open or is too old is removed.
DropRedirect(t, u) ==
    LET f == EntryPath(Redirect, u)
    IN  /\ Asking(t) /\ files[f] # None
        /\ Opens(files[f]) => files[f].stored < clock
        /\ files' = Removed(files, {f})
        /\ UNCHANGED <<clock, origin, keyfile, profile, store, th, opens>>

(***************************************************************************)
(* Sessions.                                                               *)
(***************************************************************************)
Readable == keyfile # None /\ keyfile.profile = profile

HcOpenKeep ==
    /\ store.keys = 0 /\ opens < MaxOpens
    /\ opens' = opens + 1
    /\ IF Readable
       THEN store' = Opened(keyfile.keys, Cardinality(Present)) /\ UNCHANGED keyfile
       ELSE /\ keyfile' = [is |-> "key", profile |-> profile, keys |-> opens']
            /\ store' = Opened(opens', 0)
    /\ UNCHANGED <<clock, origin, profile, th, files>>

\* hc_open: the key pair of the key file, or a new one and an empty directory.
HcOpen ==
    /\ store.keys = 0 /\ opens < MaxOpens
    /\ opens' = opens + 1
    /\ IF Readable
       THEN /\ store' = Opened(keyfile.keys, Cardinality(Present))
            /\ UNCHANGED <<files, keyfile>>
       ELSE /\ files' = Empty
            /\ keyfile' = [is |-> "key", profile |-> profile, keys |-> opens']
            /\ store' = Opened(opens', 0)
    /\ UNCHANGED <<clock, origin, profile, th>>

\* The key file cannot be written: no cache this session.
HcOpenFails ==
    /\ store.keys = 0 /\ opens < MaxOpens /\ ~Readable
    /\ opens' = opens + 1
    /\ files' = Empty
    /\ UNCHANGED <<clock, origin, keyfile, profile, store, th>>

Stopped == store' = Closed /\ th' = [t \in Threads |-> Idle]

\* The window ends, and with the process the fetches still under way.
HcClose ==
    /\ store.keys # 0
    /\ Stopped
    /\ UNCHANGED <<clock, origin, files, keyfile, profile, opens>>

\* The entries a thread may be writing.
Writes(t) ==
    IF th[t].pc \in {"put", "renew"} THEN {EntryPath(th[t].part, th[t].url)}
    ELSE {EntryPath(Redirect, u) : u \in {v \in Asks : Asking(t) /\ LeadsTo(v) # v}}

\* The process is killed in a write, which leaves its temporary file (killed
\* elsewhere, it leaves what HcClose does).
Kill ==
    /\ store.keys # 0
    /\ Stopped
    /\ \E t \in Threads : \E f \in Writes(t) :
           files' = [files EXCEPT ![Aside(f)] = Damaged(clock)]
    /\ UNCHANGED <<clock, origin, keyfile, profile, opens>>

\* The machine stops: no entry was synced; the key file was (ds_write).
PowerLoss ==
    /\ store.keys # 0
    /\ Stopped
    /\ \E f \in Present : files' = [files EXCEPT ![f] = Damaged(@.mt)]
    /\ UNCHANGED <<clock, origin, keyfile, profile, opens>>

\* The user's profile is replaced between sessions.
NewProfile ==
    /\ store.keys = 0 /\ profile < MaxKeys
    /\ profile' = profile + 1
    /\ UNCHANGED <<clock, origin, files, keyfile, store, th, opens>>

HcClear ==
    /\ store.keys # 0 /\ Present # {}
    /\ files' = Empty
    /\ UNCHANGED <<clock, origin, keyfile, profile, store, th, opens>>

(***************************************************************************)
(* The origins (external).                                                 *)
(***************************************************************************)
Tick ==
    /\ clock < MaxNow
    /\ clock' = clock + 1
    /\ UNCHANGED <<origin, files, keyfile, profile, store, th, opens>>

\* A resource changes, at most once a second.
Change(r) ==
    /\ clock > origin[r].mtime
    /\ origin' = [origin EXCEPT ![r].mtime = clock]
    /\ UNCHANGED <<clock, files, keyfile, profile, store, th, opens>>

Move(u) ==
    /\ origin[u].to < Len(Homes[u])
    /\ origin' = [origin EXCEPT ![u].to = @ + 1]
    /\ UNCHANGED <<clock, files, keyfile, profile, store, th, opens>>

Next ==
    \/ \E t \in Threads, p \in Parts, u \in Asks : Get(t, p, u)
    \/ \E t \in Threads : GetPlain(t) \/ (\E h \in Headers : Answer(t, h)) \/ Fail(t) \/ Put(t) \/ PutFails(t)
    \/ \E t \in Threads, u \in Asks : PutRedirect(t, u) \/ DropRedirect(t, u)
    \/ HcOpen \/ HcOpenFails \/ HcClose \/ Kill \/ PowerLoss \/ NewProfile \/ HcClear
    \/ Tick
    \/ \E u \in Urls : Move(u)
    \/ \E r \in Resources : Change(r)

Spec == Init /\ [][Next]_vars

(***************************************************************************)
(* Properties.                                                             *)
(***************************************************************************)
Entries == {f \in Present : files[f].ok}

\* An entry that would be served without the network was vouched for by its
\* origin less than its lifetime ago, however long the answer or the put took
\* (the time of the request is what is stored).
FreshTrue ==
    \A f \in Entries :
        Classify(files[f], clock) = "fresh" => clock - files[f].conf < Lifetime(files[f])

\* The resource that vouched for an entry is the one that sent its body: "a
\* validator is a fingerprint of that resource and must not travel to another
\* origin" (cached_fetch.c).
ValidatorAtHome == \A f \in Entries : files[f].final = files[f].truth[1]

\* An address that has answered for itself so far.
Stays(r) == \A i \in 1 .. origin[r].to : Homes[r][i] = r

\* The body of an entry is the one its origin last vouched for, by sending it
\* or with a 304, whichever threads revalidate or replace it meanwhile: "304
\* => servir lo guardado y renovar" (spec/http_cache.md).  Exempt are the
\* entries of an address that has itself been redirected since, where another
\* resource answers for it (ValidatorAtHome, README section 7).
EntryTrue == \A f \in Entries : Stays(files[f].final) => files[f].body = files[f].truth

\* An open store keeps no blob that its keys cannot open, but for the damaged
\* ones, through kills, failed opens and changes of profile.
KeysCover ==
    store.keys # 0 => \A f \in Entries : files[f].key = store.keys /\ f.for = profile

\* The directory outgrows its limit, or what the session found, by less than
\* the puts between two evictions, and by the redirects written meanwhile.
Bounded ==
    store.keys # 0 =>
        Cardinality(Present) <=
            (IF store.base > MaxTotal THEN store.base ELSE MaxTotal)
            + store.puts + store.redirects

\* The limit as the documentation has it, "128 MiB en total"
\* (spec/http_cache.md), but for the puts between two evictions.  The code
\* does not keep it: redirects are not counted, and neither is what the
\* session found (README, section 7).
Limited == store.keys # 0 => Cardinality(Present) < MaxTotal + EvictEvery

\* What the cache serves was sent by its origin, or confirmed by it, within
\* the lifetime it is served for, and is what the origin vouched for then
\* (cf_get_with, hc_classify), through any interleaving of threads, changes of
\* the origin, evictions, crashes and new keys.
EntriesTrue == FreshTrue /\ EntryTrue

\* No blob outlives its keys, and between two evictions the directory grows by
\* no more than the puts and the redirects written (hc_open, put_locked),
\* through kills, power failures and failed opens.
DirectorySound == KeysCover /\ Bounded
=============================================================================
